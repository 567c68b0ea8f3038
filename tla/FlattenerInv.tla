----------------------------- MODULE FlattenerInv -----------------------------
(***************************************************************************)
(* The inductive invariant of Flattener.  The calls in progress are at     *)
(* places one inside the other; what lies ahead of them has neither been   *)
(* numbered nor stored; a trail has the arrays that its place goes         *)
(* through, and their elements; and the counts of the early stop are of    *)
(* members met.                                                            *)
(***************************************************************************)
EXTENDS Flattener

Begins(p, q) == Len(q) <= Len(p) /\ \A k \in 1..Len(q) : p[k] = q[k]

Step(f, n) == StepTo(f.value, f.at, n)

(* The names on the way only grow, by those of the members.                *)
NamesBefore(p, k) == IF k = 1 THEN <<>> ELSE p[k - 1].names

Named(p) ==
    \A k \in DOMAIN p :
        /\ p[k].names = IF p[k].in = "object" THEN Append(NamesBefore(p, k), p[k].key)
                        ELSE NamesBefore(p, k)
        /\ \A j \in 1..k : Begins(p[k].names, p[j].names)

-----------------------------------------------------------------------------
Steps == [in : {"array", "object"}, key : Int, names : Seq(Names)]
Places == Seq(Steps)
Trails == Seq(Nat \X Nat)

Frames ==
    [kind : {"array", "object"}, value : Json, at : Places, node : Seq(Names),
     path : Seq(Names), next : Nat, trail : Trails, nodesCount : Int, fieldsCount : Int]

FieldsOver(tr) == [path : tr \cup {NoPath}, trail : Trails, at : Places]

IsCall(f) == f.kind = f.value.kind /\ f.next \in 1..Len(f.value.values) + 1

Types ==
    /\ status \in {"reading", "stopped", "ended"}
    /\ tree \in Trees /\ stack \in Seq(Frames) /\ trail \in Trails
    /\ opened \in Seq(Places) /\ arrays = Len(opened)
    /\ fields \in Seq(FieldsOver(tree))
    /\ \A n \in DOMAIN stack : IsCall(stack[n]) /\ stack[n].path \in tree \cup {NoPath}

(* The calls in progress, the innermost first.                             *)
Inside(f, g) ==
    /\ Begins(f.at, g.at) /\ Len(f.at) > Len(g.at)
    /\ g.next > 1 /\ f.at[Len(g.at) + 1] = Step(g, g.next - 1)

CallsNested(calls) ==
    \A n \in DOMAIN calls :
        /\ Len(calls[n].at) = Len(calls) - n
        /\ Named(calls[n].at)
        /\ \A m \in 1..n - 1 : Inside(calls[m], calls[n])

FramesNested == CallsNested(stack)

(* What has been numbered or stored lies behind them, or encloses them.    *)
AheadOf(f, p) ==
    \E i \in f.next..Len(f.value.values) :
        Begins(p, f.at) /\ Len(p) > Len(f.at) /\ p[Len(f.at) + 1] = Step(f, i)

Ahead(calls, p) == \E n \in DOMAIN calls : AheadOf(calls[n], p)

NothingAhead ==
    /\ \A n \in DOMAIN opened : ~Ahead(stack, opened[n])
    /\ \A n \in DOMAIN fields : ~Ahead(stack, fields[n].at)

OpenedOnce == \A m, n \in DOMAIN opened : opened[m] = opened[n] => m = n

(* o is the place of the array of which step k of p takes an element.      *)
Encloses(o, p, k) == Len(o) = k - 1 /\ \A j \in 1..k - 1 : o[j] = p[j]

(* With the places os of the arrays.                                       *)
Through(os, t, p, k) ==
    p[k].in = "array" /\ p[k].key = t[2] /\ Encloses(os[t[1]], p, k)

Fits(os, trl, p) ==
    /\ \A i \in DOMAIN trl : /\ trl[i][1] \in DOMAIN os
                             /\ \E k \in DOMAIN p : Through(os, trl[i], p, k)
    /\ \A k \in DOMAIN p : p[k].in = "array" => \E i \in DOMAIN trl : Through(os, trl[i], p, k)

(* The trail that a part of the value of frame f is read with.             *)
Seen(os, f, trl) ==
    IF f.kind = "object" THEN trl = f.trail
    ELSE \E a \in DOMAIN os : os[a] = f.at /\ trl = Append(f.trail, <<a, f.next - 1>>)

CallsFit(os, calls) ==
    \A n \in DOMAIN calls :
        /\ Fits(os, calls[n].trail, calls[n].at)
        /\ Len(calls[n].trail) <= Len(calls) - n
        /\ n > 1 => Seen(os, calls[n], calls[n - 1].trail)

TrailsFit ==
    /\ CallsFit(opened, stack)
    /\ stack # <<>> => Seen(opened, stack[1], trail)
    /\ stack = <<>> => trail = <<>>
    /\ \A n \in DOMAIN fields : Fits(opened, fields[n].trail, fields[n].at)

(* Places with a beginning in common go on from the same value.            *)
Agree(p, q) ==
    \A k \in 1..Len(q) :
        Len(p) >= k - 1 /\ (\A j \in 1..k - 1 : p[j] = q[j]) => Len(p) >= k /\ p[k].in = q[k].in

GoesOn(p, f) ==
    Begins(p, f.at) => Len(p) > Len(f.at) /\ p[Len(f.at) + 1].in = f.kind

AllAgree(flds, calls) ==
    /\ \A m, n \in DOMAIN flds : Agree(flds[m].at, flds[n].at)
    /\ \A m \in DOMAIN flds : Named(flds[m].at)
    /\ \A m \in DOMAIN flds, n \in DOMAIN calls : GoesOn(flds[m].at, calls[n])

FieldsAgree == AllAgree(fields, stack)

(* The members an object has had, of those the tree has below its node.    *)
Met(f, kind, segments) ==
    {s \in segments : \E i \in 1..f.next - 1 :
        s = f.value.names[i] /\ f.value.values[i].kind = kind}

UsedIn(tr, node) == FieldsOf(tr, node) \cup NodesOf(tr, node)

Counted(tr, f) ==
    /\ f.nodesCount = Cardinality(NodesOf(tr, f.node) \ Met(f, "object", NodesOf(tr, f.node)))
    /\ f.fieldsCount = FieldsCount(tr, f.node) - Cardinality(Met(f, "leaf", UsedIn(tr, f.node)))

CallCounts(tr, f) ==
    /\ f.kind = "object" => Counted(tr, f)
    /\ f.kind = "array" => f.nodesCount \in Nat

Counts == \A n \in DOMAIN stack : CallCounts(tree, stack[n])

(* At every member and element that readObject and readArray come to, the  *)
(* calls, the trails, the numbered arrays, the stored fields and the       *)
(* counts of the early stop belong together.                               *)
IInv ==
    /\ Types /\ FramesNested /\ NothingAhead /\ OpenedOnce /\ TrailsFit /\ FieldsAgree /\ Counts
=============================================================================
