------------------------------ MODULE Patterns ------------------------------
(***************************************************************************)
(* Patterns, events, and what it means for a Pattern to match an Event.    *)
(*                                                                         *)
(* A Path stands for the "\n"-separated path of a field; Paths are ordered *)
(* as the code's lexical order (core_matcher.go sorts both the fields of a *)
(* Pattern and the fields of an Event by it).  A Pattern gives every path  *)
(* a condition.  An Event is a sequence of fields in path order, each with *)
(* a value and an array trail (which element of which array it is in).     *)
(***************************************************************************)
EXTENDS Integers, Sequences, FiniteSets

CONSTANTS
    Paths,      \* field paths, numbers in lexical order
    Values,     \* values of event fields
    PVals,      \* values a pattern lists for a path (typedVal)
    Strings,    \* the PVals of vType stringType or literalType
    Ranges,     \* the PVals of vType timeWindowType or numericRangeType
    Accepts,    \* the event values each PVal accepts
    Xs,         \* the X identifiers given to AddPattern
    Patterns,   \* the Patterns that may be added
    Events      \* the Events that may be matched

(* The conditions of a patternField: exists:true / exists:false or a list  *)
(* of values; a path the Pattern does not mention has kind "none".         *)
Cond == [kind : {"none", "exists", "absent", "vals"}, vals : Seq(PVals)]

Pattern == [x : Xs, cond : [Paths -> Cond]]

(* One flattened field: a leaf value, its path, and its ArrayTrail.        *)
Field == [path : Nat, val : Values, trail : SUBSET (Nat \X Nat)]

ASSUME PatternAssumption ==
    /\ Paths \subseteq Nat \ {0}
    /\ Strings \subseteq PVals
    /\ Ranges \subseteq PVals
    /\ Strings \cap Ranges = {}
    /\ Accepts \in [PVals -> SUBSET Values]
    /\ Patterns \subseteq Pattern
    /\ Events \subseteq Seq(Field)

(* Fields reach the matcher sorted by path (slices.SortFunc).              *)
ASSUME SortedAssumption ==
    \A e \in Events : \A i, j \in DOMAIN e : i < j => e[i].path <= e[j].path

-----------------------------------------------------------------------------
(* noArrayTrailConflict: two fields may be used together unless they sit   *)
(* in different elements of the same array.                                *)
NoArrayTrailConflict(from, to) ==
    \A a \in from, b \in to : a[1] = b[1] => a[2] = b[2]

(* What is proved of the fields Flattener makes, TrailsTellElementsApart   *)
(* and ConsecutiveTrailsSuffice: a field is in one element of each array   *)
(* only; and of three fields on ascending paths the outer two fit together *)
(* if each of them fits with the one between.                              *)
ASSUME TrailAssumption ==
    \A e \in Events : \A i, j, n \in DOMAIN e :
        /\ NoArrayTrailConflict(e[i].trail, e[i].trail)
        /\ (/\ e[i].path < e[j].path /\ e[j].path < e[n].path
            /\ NoArrayTrailConflict(e[i].trail, e[j].trail)
            /\ NoArrayTrailConflict(e[j].trail, e[n].trail))
               => NoArrayTrailConflict(e[i].trail, e[n].trail)

(* The paths on which a Pattern puts a condition; a path listed with no    *)
(* value at all puts none.                                                 *)
Constrained(p) ==
    {k \in Paths : \/ p.cond[k].kind \in {"exists", "absent"}
                   \/ p.cond[k].kind = "vals" /\ p.cond[k].vals # <<>>}

(* The paths a Pattern mentions: what it adds to the segments tree.        *)
PathsOf(p) == {k \in Paths : p.cond[k].kind # "none"}

(* The paths on which a Pattern wants a field.                             *)
Wanted(p) == {k \in Constrained(p) : p.cond[k].kind # "absent"}

PValsOf(p, k) == {p.cond[k].vals[n] : n \in DOMAIN p.cond[k].vals}

(* Field f fulfils what p wants of a field at path k.                      *)
Fulfils(p, k, f) ==
    /\ f.path = k
    /\ p.cond[k].kind = "vals" => \E pv \in PValsOf(p, k) : f.val \in Accepts[pv]

(* The reference definition: one field of the event can be chosen for      *)
(* every wanted path, no two of them in different elements of one array.   *)
WantedMet(p, e) ==
    /\ Constrained(p) # {}
    /\ \E pick \in [Wanted(p) -> DOMAIN e] :
         /\ \A k \in Wanted(p) : Fulfils(p, k, e[pick[k]])
         /\ \A k, l \in Wanted(p) :
              NoArrayTrailConflict(e[pick[k]].trail, e[pick[l]].trail)

AbsentMet(p, e) ==
    \A k \in Constrained(p) \ Wanted(p) : \A i \in DOMAIN e : e[i].path # k

Matches(p, e) == WantedMet(p, e) /\ AbsentMet(p, e)
=============================================================================
