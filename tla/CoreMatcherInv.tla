--------------------------- MODULE CoreMatcherInv ---------------------------
(***************************************************************************)
(* The inductive invariant behind the type correctness and the safety of   *)
(* CoreMatcher.  Its heart is that via, the auxiliary label of a matcher,  *)
(* says what every walk that arrives there has checked: along each         *)
(* transition the label of the target is the label of the source with one  *)
(* more condition, an AddPattern call only works on states whose labels    *)
(* choose its own conditions up to the path it is at, and a match call     *)
(* only visits matchers whose labels hold of its fields.                   *)
(***************************************************************************)
EXTENDS CoreMatcher

(* The locals of an AddPattern call fit together: it has one Pattern, is   *)
(* at a path of it, has a state to work on, and the valueMatcher it fills  *)
(* belongs to that state; the tree it will store has grown from the tree   *)
(* readers use.                                                            *)
AtWork(w) ==
    LET me == writer[w]
    IN  /\ me.pc # "idle" => \E p \in Patterns : me.pattern = {p}
        /\ me.pc \in Building => core.tree \subseteq me.tree
        /\ me.pc \in {"build", "values"} =>
              me.path \in Constrained(Pat(w)) /\ me.states # <<>>
        /\ me.pc = "values" =>
              /\ Pat(w).cond[me.path].kind = "vals"
              /\ me.vm # Nil
              /\ fms[Head(me.states)].trans[me.path] \in {Nil, me.vm}
              /\ vms[me.vm].via = fms[Head(me.states)].via
              /\ vms[me.vm].path = me.path
              /\ me.val > 1 => me.next # <<>>

(* via chooses conditions of p for the paths below k and none for others.  *)
ChoosesBelow(via, p, k) ==
    \A l \in Paths : IF l < k THEN ChoosesAt(via, p, l) ELSE via[l] = "free"

ChoosesUpto(via, p, k) ==
    \A l \in Paths : IF l <= k THEN ChoosesAt(via, p, l) ELSE via[l] = "free"

StatesLabelled(w) ==
    LET me == writer[w]
    IN  /\ me.pc \in {"build", "values"} =>
              /\ \A i \in 1..Len(me.states) :
                    ChoosesBelow(fms[me.states[i]].via, Pat(w), me.path)
              /\ \A i \in 1..Len(me.next) :
                    ChoosesUpto(fms[me.next[i]].via, Pat(w), me.path)
        /\ me.pc = "ends" =>
              \A i \in 1..Len(me.states) : Chooses(fms[me.states[i]].via, Pat(w))

(* Each transition adds its own condition to the label.                    *)
FmLabelled(f) ==
    \A k \in Paths :
        /\ f.exists[k] # Nil => fms[f.exists[k]].via = [f.via EXCEPT ![k] = "exists"]
        /\ f.absent[k] # Nil => fms[f.absent[k]].via = [f.via EXCEPT ![k] = "absent"]
        /\ f.trans[k] # Nil => vms[f.trans[k]].via = f.via /\ vms[f.trans[k]].path = k

VmLabelled(v) ==
    \A e \in Edges(v) : fms[e[2]].via = [v.via EXCEPT ![v.path] = e[1]]

HeapLabelled ==
    /\ core.state = Root
    /\ fms[Root].via = [k \in Paths |-> "free"]
    /\ \A n \in 1..Len(fms) : FmLabelled(fms[n])
    /\ \A n \in 1..Len(vms) : VmLabelled(vms[n])

(* The Patterns of the calls that may have stored their X.                 *)
Arrived ==
    UNION {writer[w].pattern : w \in {v \in Writers : writer[v].pc \in {"ends", "stored", "done"}}}

EndsArrived ==
    \A n \in 1..Len(fms) : \A x \in fms[n].matches :
        \E p \in Arrived : p.x = x /\ Chooses(fms[n].via, p)

(* The conditions of a label hold of the fields of the call r.             *)
Met(via, r) ==
    \A k \in Paths :
        /\ via[k] = "exists" => \E i \in reader[r].kept \ {FakeIndex} : PathAt(r, i) = k
        /\ via[k] = "absent" => ~HasPath(r, k)
        /\ via[k] \in PVals =>
              \E i \in reader[r].kept \ {FakeIndex} :
                  PathAt(r, i) = k /\ reader[r].event[i].val \in Accepts[via[k]]

FrameMet(f, r) ==
    IF f.op = "values"
    THEN \A v \in f.to : /\ Met(vms[v].via, r)
                         /\ \A i \in f.at : PathAt(r, i) = vms[v].path
    ELSE \A t \in f.to : Met(fms[t].via, r)

AgendaMet(r) ==
    \A n \in 1..Len(reader[r].agenda) : FrameMet(reader[r].agenda[n], r)

FoundArrived(r) ==
    \A x \in reader[r].found : \E p \in Arrived : p.x = x /\ MeetsConditions(p, r)

-----------------------------------------------------------------------------
WriterInv == \A w \in Writers : AtWork(w) /\ StatesLabelled(w)

ReaderInv == \A r \in Readers : AgendaMet(r) /\ FoundArrived(r)

(* The whole invariant: that of the heap and the AddPattern calls, and     *)
(* that of the match calls.                                                *)
Inductive ==
    /\ TypeOK /\ OneBuilder
    /\ HeapLabelled /\ WriterInv /\ EndsArrived
    /\ ReaderInv
=============================================================================
