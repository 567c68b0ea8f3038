--------------------------- MODULE FlattenerLeaves ---------------------------
(***************************************************************************)
(* What a Flattener is to yield, read off the whole event, and what its    *)
(* calls and fields have to do with it.                                    *)
(***************************************************************************)
EXTENDS FlattenerInv

CONSTANT Parts      \* of each Event: every value in it, with its place

(* What a part holds directly: members or elements.                        *)
Within(p) ==
    IF p.value.kind = "leaf" THEN {}
    ELSE {[at |-> Append(p.at, StepTo(p.value, p.at, n)), value |-> p.value.values[n]]
            : n \in DOMAIN p.value.values}

(* The parts are the event and what its parts hold.  As places are finite, *)
(* no two sets fit.                                                        *)
ASSUME PartsAssumption ==
    /\ Parts \in [Events -> SUBSET [at : Places, value : Json]]
    /\ \A e \in Events :
         Parts[e] = {[at |-> <<>>, value |-> e]} \cup UNION {Within(p) : p \in Parts[e]}

(* The leaves that the Patterns ask for.  Arrays are invisible in paths.   *)
Leaves == {p \in Parts[event] : p.value.kind = "leaf"}
Wanted == {l \in Leaves : NamesTo(l.at) \in tree}

(* No array holds an object, at any depth of arrays, where the Patterns    *)
(* have a leaf only; see FieldPathIsItsPlace.                              *)
LeafOnly(path) == path \in tree /\ UsedIn(tree, path) = {}

Plain ==
    \A p \in Parts[event] :
        (p.value.kind = "object" /\ p.at # <<>> /\ p.at[Len(p.at)].in = "array")
            => ~LeafOnly(NamesTo(p.at))

-----------------------------------------------------------------------------
(* However early it stops, the flattener has by then stored every leaf     *)
(* whose path is in the tree, once, under its own path, and no other.      *)
FieldsAreTheWantedLeaves ==
    (status # "reading" /\ Plain) =>
        /\ {[at |-> fields[n].at, path |-> fields[n].path] : n \in Stored}
             = {[at |-> l.at, path |-> NamesTo(l.at)] : l \in Wanted}
        /\ \A m, n \in Stored : m # n => fields[m].at # fields[n].at

(* Once the counts allow it to leave an object, no member that is left is  *)
(* named in the tree: the counts were not used up by anything else.  If    *)
(* that ends the whole reading, no call that it abandons has anything left *)
(* -- in plain events: with the tree {a}, the object of the event          *)
(* {"a": [{"a": 1}, 2]} is read with the root node, and ends the reading   *)
(* before the 2 (flatten_json.go:187, 274).                                *)
NothingUsedLeft(f) ==
    \A n \in f.next..Len(f.value.values) :
        f.kind = "object" /\ ~IsSegmentUsed(tree, f.node, f.value.names[n])

SkipsNothingUsed ==
    Reading("object") /\ AllMet =>
        /\ NothingUsedLeft(Top)
        /\ Plain /\ IsRoot(Top.node) => \A n \in DOMAIN stack : NothingUsedLeft(stack[n])

(* flattener.go: "Path is the \n-separated path from the event root to     *)
(* this field value", of every field that has a path.                      *)
FieldPathIsItsPlace ==
    \A n \in Stored : \E l \in Leaves :
        fields[n].at = l.at /\ fields[n].path = NamesTo(l.at)

-----------------------------------------------------------------------------
(* The inductive invariant: the calls read the parts of the event in the   *)
(* tree nodes that their names lead to, and a wanted leaf that is not      *)
(* ahead of them has been stored.                                          *)
PathAt(at) == IF NamesTo(at) \in tree THEN NamesTo(at) ELSE NoPath

AtPart(at, value) == [at |-> at, value |-> value] \in Parts[event]

ReadsParts ==
    /\ event \in Events
    /\ \A n \in DOMAIN stack : AtPart(stack[n].at, stack[n].value)
    /\ \A n \in DOMAIN fields : \E l \in Leaves : l.at = fields[n].at

StoredOnce == \A m, n \in DOMAIN fields : fields[m].at = fields[n].at => m = n

InItsNode(f) ==
    /\ f.kind = "object" => f.node = NamesTo(f.at)
    /\ f.kind = "array" => /\ f.path = PathAt(f.at)
                           /\ f.node = NamesTo(f.at) \/ LeafOnly(NamesTo(f.at))

NodesFollow ==
    /\ \A n \in DOMAIN stack : InItsNode(stack[n])
    /\ \A n \in DOMAIN fields : fields[n].path = PathAt(fields[n].at)

Has(p) == \E n \in DOMAIN fields : fields[n].at = p

NothingMissed ==
    \A l \in Wanted : Has(l.at) \/ (status = "reading" /\ Ahead(stack, l.at))

YInv == ReadsParts /\ StoredOnce /\ (Plain => NodesFollow /\ NothingMissed)
=============================================================================
