-------------------------- MODULE CoreMatcherWalkInv --------------------------
(***************************************************************************)
(* Two more inductive invariants of CoreMatcher, of what a walk finds and  *)
(* of what it cannot miss.  Both stand on Inductive.                       *)
(*                                                                         *)
(* Sound: for every matcher a walk is about to visit there are fields of   *)
(* its own, one for each condition of the label, that fit together in the  *)
(* arrays, and matchers that lead from the root to this one on the values  *)
(* of those fields.  The field the walk is at fits with all of them,       *)
(* although only its predecessor was looked at.                            *)
(*                                                                         *)
(* Complete: the matchers an AddPattern call has made for its Pattern,     *)
(* together with those it found, lead every event that fulfils it to its   *)
(* X, and the agenda of a match call always holds a loop that has yet to   *)
(* follow them, or the X is found.                                         *)
(***************************************************************************)
EXTENDS CoreMatcherInv, Functions

(* The shape of a label or of a Pattern: what it asks of each path, but    *)
(* for the values.                                                         *)
ShapeOf(via) == [k \in Paths |-> IF via[k] \in PVals THEN "vals" ELSE via[k]]

Shape(p) == [k \in Paths |-> IF k \in Constrained(p) THEN p.cond[k].kind ELSE "free"]

(* The paths on which a label, or a shape, wants a field.                  *)
WantedBy(sh) == {k \in Paths : sh[k] \notin {"free", "absent"}}

(* What a shape asks that a label has not checked.                         *)
Left(sh, via) == {k \in Paths : sh[k] # "free" /\ via[k] = "free"}

LeftWanted(sh, via) == {k \in Left(sh, via) : sh[k] # "absent"}

Least(k, ks) == k \in ks /\ \A l \in ks : k <= l

(* The matcher n leads on path k, for the values vals, to matchers in S;   *)
(* and it does so on the next path of the shape.                           *)
LeadsOn(n, k, kind, vals, S) ==
    /\ kind = "exists" => fms[n].exists[k] \in S
    /\ kind = "absent" => fms[n].absent[k] \in S
    /\ kind = "vals" =>
         /\ fms[n].trans[k] # Nil
         /\ \A val \in vals : TransitionOn(vms[fms[n].trans[k]], val) \cap S # {}

Leads(n, sh, on, S) ==
    \A k \in Paths : Least(k, Left(sh, fms[n].via)) => LeadsOn(n, k, sh[k], on[k], S)

(* S, a set of matchers, leads from the root to m.                         *)
LedTo(m, on, S) ==
    LET sh == ShapeOf(fms[m].via)
    IN  /\ Root \in S /\ m \in S /\ S \subseteq 1..Len(fms)
        /\ \A n \in S \ {m} : Left(sh, fms[n].via) # {} /\ Leads(n, sh, on, S)

(* S leads from the root to x: every matcher of it leads on to another, or *)
(* has x and nothing is left to ask.                                       *)
Served(n, sh, on, x, S) ==
    /\ Left(sh, fms[n].via) = {} => x \in fms[n].matches
    /\ Leads(n, sh, on, S)

Serves(sh, on, x, S) ==
    /\ Root \in S /\ S \subseteq 1..Len(fms)
    /\ \A n \in S : Served(n, sh, on, x, S)

-----------------------------------------------------------------------------
(* The fields of a match call.                                             *)
FieldAt(r, i) == reader[r].event[i]

Together(r, i, j) == NoArrayTrailConflict(FieldAt(r, i).trail, FieldAt(r, j).trail)

Real(r) == reader[r].kept \ {FakeIndex}

(* The ways to choose fields for a label.                                  *)
Picks(via, r) ==
    {pick \in [WantedBy(via) -> Real(r)] :
        /\ \A k \in WantedBy(via) :
             /\ PathAt(r, pick[k]) = k
             /\ via[k] \in PVals => FieldAt(r, pick[k]).val \in Accepts[via[k]]
        /\ \A k, l \in WantedBy(via) : Together(r, pick[k], pick[l])}

ValuesOf(r, pick) ==
    [k \in Paths |-> IF k \in DOMAIN pick THEN {FieldAt(r, pick[k]).val} ELSE {}]

(* A way the walk may have come to the matcher m.                          *)
Ways(m, r) ==
    {pick \in Picks(fms[m].via, r) :
        \E S \in SUBSET (1..Len(fms)) : LedTo(m, ValuesOf(r, pick), S)}

(* The walk may go on with field i: it fits, unless its path comes too     *)
(* late for it to be taken.                                                *)
MayTake(m, r, i) ==
    \E pick \in Ways(m, r) :
        (\A l \in DOMAIN pick : l < PathAt(r, i)) => \A l \in DOMAIN pick : Together(r, pick[l], i)

(* Field i is the last one the walk has taken.                             *)
JustTook(m, r, i) ==
    \E pick \in Ways(m, r) :
        /\ PathAt(r, i) \in DOMAIN pick /\ pick[PathAt(r, i)] = i
        /\ \A l \in DOMAIN pick : l <= PathAt(r, i)

Owners(v) == {n \in 1..Len(fms) : fms[n].trans[vms[v].path] = v}

Checked(m) == \E k \in Paths : fms[m].via[k] # "free"

FrameFits(f, r) ==
    \A m \in f.to, i \in f.at :
        /\ f.op \in {"try", "recheck", "trans", "absent"} => MayTake(m, r, i)
        /\ f.op \in {"exists", "next"} => JustTook(m, r, i)
        /\ f.op = "absent" => Checked(m)
        /\ f.op = "values" => \E n \in Owners(m) : MayTake(n, r, i)

AgendaFits(r) == \A f \in Range(reader[r].agenda) : FrameFits(f, r)

(* The choices of fields of r that fulfil what p wants, and of those that  *)
(* fulfil all of p.                                                        *)
Choices(p, r) ==
    {pick \in [Wanted(p) -> Real(r)] :
        /\ Constrained(p) # {}
        /\ \A k \in Wanted(p) : Fulfils(p, k, FieldAt(r, pick[k]))
        /\ \A k, l \in Wanted(p) : Together(r, pick[k], pick[l])}

Fitting(p, r) ==
    {pick \in Choices(p, r) : \A k \in Constrained(p) \ Wanted(p) : ~HasPath(r, k)}

Reachable(p, r, pick) ==
    \E S \in SUBSET (1..Len(fms)) : Serves(Shape(p), ValuesOf(r, pick), p.x, S)

FoundFits(r) ==
    \A x \in reader[r].found :
        \E p \in Arrived :
            /\ p.x = x
            /\ p \in reader[r].must => AbsentMet(p, reader[r].event)
            /\ \E pick \in Choices(p, r) : Reachable(p, r, pick)

(* Transitions leave a matcher on paths above those of its label only.     *)
FreeFrom(via, k) == \A l \in Paths : l >= k => via[l] = "free"

HeapOrdered ==
    /\ \A n \in 1..Len(fms) : \A k \in Paths :
         (fms[n].trans[k] # Nil \/ fms[n].exists[k] # Nil \/ fms[n].absent[k] # Nil)
             => FreeFrom(fms[n].via, k)
    /\ \A n \in 1..Len(vms) : FreeFrom(vms[n].via, vms[n].path)

(* The trees know the paths of the Patterns, and the call r kept every     *)
(* field that a Pattern added before it asks for.                          *)
TreesKnow(w) ==
    /\ writer[w].pc \in Building => PathsOf(Pat(w)) \subseteq writer[w].tree
    /\ writer[w].pc \in {"stored", "done"} => PathsOf(Pat(w)) \subseteq core.tree

KeptKnown(r) ==
    /\ reader[r].must \subseteq Committed
    /\ Real(r) \subseteq DOMAIN reader[r].event
    /\ \A i \in Real(r) : FieldAt(r, i).path \in core.tree
    /\ reader[r].pc # "idle" => reader[r].kept # {}
    /\ \A p \in reader[r].must : \A i \in DOMAIN reader[r].event :
         FieldAt(r, i).path \in PathsOf(p) => i \in reader[r].kept

Sound ==
    /\ HeapOrdered
    /\ \A w \in Writers : TreesKnow(w)
    /\ \A r \in Readers : KeptKnown(r) /\ AgendaFits(r) /\ FoundFits(r)

-----------------------------------------------------------------------------
(* What an AddPattern call has built so far: only the states it still has  *)
(* to work on do not lead on yet.                                          *)
Accepted(p) == [k \in Paths |-> UNION {Accepts[pv] : pv \in PValsOf(p, k)}]

Pending(w) == Range(writer[w].states) \cup Range(writer[w].next)

BuiltSoFar(w, S) ==
    LET me == writer[w]
    IN  /\ Root \in S /\ S \subseteq 1..Len(fms)
        /\ Pending(w) \subseteq S
        /\ \A n \in S \ Pending(w) : Served(n, Shape(Pat(w)), Accepted(Pat(w)), Pat(w).x, S)
        /\ me.pc = "values" =>
             \A j \in DOMAIN Pat(w).cond[me.path].vals : j < me.val =>
                 \A val \in Accepts[Pat(w).cond[me.path].vals[j]] :
                     TransitionOn(vms[me.vm], val) \cap S # {}
        /\ me.pc = "ends" => me.next = <<>>

Built(w) ==
    /\ writer[w].pc \in {"build", "values", "ends"} =>
         \E S \in SUBSET (1..Len(fms)) : BuiltSoFar(w, S)
    /\ writer[w].pc \in {"stored", "done"} =>
         \E S \in SUBSET (1..Len(fms)) :
             Serves(Shape(Pat(w)), Accepted(Pat(w)), Pat(w).x, S)

-----------------------------------------------------------------------------
(* A match call can be led to the X of p by the fields pick.  Field i is   *)
(* the next one to be taken, if there is one; or all that are still to be  *)
(* taken come after it.                                                    *)
Due(p, pick, m, i) ==
    \A k \in Paths : Least(k, LeftWanted(Shape(p), fms[m].via)) => i = pick[k]

After(p, r, pick, m, i) ==
    \A k \in LeftWanted(Shape(p), fms[m].via) : pick[k] \in Later(r, i)

(* A loop of kind op that has the field i and the matcher m before it, has *)
(* yet to follow a matcher of S.                                           *)
FollowsAt(op, p, r, pick, S, m, i) ==
    LET left == Left(Shape(p), fms[m].via)
    IN  CASE op = "try" -> m \in S /\ left # {} /\ Due(p, pick, m, i)
          [] op = "absent" -> m \in S /\ Due(p, pick, m, i)
          [] op \in {"exists", "next"} -> m \in S /\ After(p, r, pick, m, i)
          [] op = "recheck" ->
               m \in S /\ left # {} /\ LeftWanted(Shape(p), fms[m].via) = {}
          [] op = "trans" ->
               m \in S /\ \E k \in Paths : Least(k, left) /\ Shape(p)[k] = "vals" /\ i = pick[k]
          [] op = "values" ->
               \E t \in TransitionOn(vms[m], FieldAt(r, i).val) \cap S : After(p, r, pick, t, i)

Follows(f, p, r, pick, S) ==
    \E m \in f.to, i \in f.at : FollowsAt(f.op, p, r, pick, S, m, i)

Followed(p, r, pick) ==
    \E S \in SUBSET (1..Len(fms)) :
        /\ Serves(Shape(p), ValuesOf(r, pick), p.x, S)
        /\ \E f \in Range(reader[r].agenda) : Follows(f, p, r, pick, S)

Attained(p, r, pick) ==
    /\ reader[r].pc = "flat" => Reachable(p, r, pick)
    /\ reader[r].pc = "match" => p.x \in reader[r].found \/ Followed(p, r, pick)
    /\ reader[r].pc = "done" => p.x \in reader[r].found

NoneLost(r) == \A p \in reader[r].must : \A pick \in Fitting(p, r) : Attained(p, r, pick)

PriorKept(r) ==
    \A x \in reader[r].prior :
        \E p \in Arrived :
            /\ p.x = x
            /\ Matches(p, reader[r].event) => \E pick \in Fitting(p, r) : Attained(p, r, pick)

(* All loops but try are at one field, all but absent and next at one      *)
(* matcher.                                                                *)
Narrow(f) ==
    /\ f.op # "try" => \E i \in f.at : f.at = {i}
    /\ f.op \notin {"absent", "next"} => \E m \in f.to : f.to = {m}

Complete ==
    /\ \A w \in Writers : Built(w)
    /\ \A r \in Readers :
         /\ NoneLost(r) /\ PriorKept(r)
         /\ \A f \in Range(reader[r].agenda) : Narrow(f)
=============================================================================
