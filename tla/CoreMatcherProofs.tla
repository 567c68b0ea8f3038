-------------------------- MODULE CoreMatcherProofs --------------------------
(***************************************************************************)
(* Every step of a match call preserves Inductive too, so it is an         *)
(* invariant of CoreMatcher for all constants, and with it TypeOK,         *)
(* OneBuilder, EndStatesJustified, FoundMeetsConditions and                *)
(* NothingRetracted.                                                       *)
(***************************************************************************)
EXTENDS CoreMatcherAddProofs

-----------------------------------------------------------------------------
(* A pending loop stays justified while its call keeps its fields.         *)
LEMMA FrameKept ==
  ASSUME UNCHANGED <<fms, vms>>, NEW q, reader'[q].kept = reader[q].kept,
         reader'[q].event = reader[q].event, NEW f, FrameMet(f, q)
  PROVE  FrameMet(f, q)'
<1>1. \A i : PathAt(q, i)' = PathAt(q, i)
  BY DEF PathAt
<1>2. ASSUME NEW via, Met(via, q)
      PROVE  Met(via, q)'
  BY <1>1, <1>2 DEF Met, HasPath
<1>3. CASE f.op = "values"
  BY <1>1, <1>2, <1>3 DEF FrameMet
<1>4. CASE f.op # "values"
  BY <1>2, <1>4 DEF FrameMet
<1> QED BY <1>3, <1>4

(* The match calls.  A step changes the locals of one of them only.        *)
LEMMA StepOfReader ==
  ASSUME Inductive, NEW r \in Readers, UNCHANGED <<core, fms, vms, lock, writer>>,
         reader' = [reader EXCEPT ![r] = reader'[r]], reader'[r] \in ReaderLocals,
         AgendaOK(r)', AgendaMet(r)', FoundArrived(r)'
  PROVE  Inductive'
<1>1. reader \in [Readers -> ReaderLocals]
  BY DEF Inductive, TypeOK
<1>2. \A q \in Readers \ {r} : reader'[q] = reader[q]
  BY <1>1
<1>3. reader' \in [Readers -> ReaderLocals]
  BY <1>1
<1>4. HeapOK' /\ HeapLabelled' /\ EndsArrived' /\ OneBuilder' /\ Arrived' = Arrived
  <2>1. HeapOK /\ HeapLabelled /\ EndsArrived /\ OneBuilder
    BY DEF Inductive, TypeOK
  <2>2. HeapOK'
    BY <2>1 DEF HeapOK, FmOK, VmOK
  <2>3. HeapLabelled'
    <3>1. ASSUME NEW n \in 1..Len(fms)
          PROVE  FmLabelled(fms[n])'
      <4>1. FmLabelled(fms[n])
        BY <2>1 DEF HeapLabelled
      <4> QED BY <4>1 DEF FmLabelled
    <3>2. ASSUME NEW n \in 1..Len(vms)
          PROVE  VmLabelled(vms[n])'
      <4>1. VmLabelled(vms[n])
        BY <2>1 DEF HeapLabelled
      <4> QED BY <4>1 DEF VmLabelled, Edges
    <3> QED BY <2>1, <3>1, <3>2 DEF HeapLabelled
  <2>4. Arrived' = Arrived
    BY DEF Arrived
  <2>5. EndsArrived'
    BY <2>1, <2>4 DEF EndsArrived
  <2>6. OneBuilder'
    BY <2>1 DEF OneBuilder
  <2> QED BY <2>2, <2>3, <2>4, <2>5, <2>6
<1>5. WriterInv'
  <2> SUFFICES ASSUME NEW w \in Writers
               PROVE  AtWork(w)' /\ StatesLabelled(w)'
    BY DEF WriterInv
  <2>1. AtWork(w) /\ StatesLabelled(w)
    BY DEF Inductive, WriterInv
  <2>2. Pat(w)' = Pat(w)
    BY DEF Pat
  <2> QED BY <2>1, <2>2 DEF AtWork, StatesLabelled
<1>6. ASSUME NEW q \in Readers
      PROVE  AgendaOK(q)' /\ AgendaMet(q)' /\ FoundArrived(q)'
  <2>1. CASE q # r
    <3>1. AgendaOK(q) /\ AgendaMet(q) /\ FoundArrived(q) /\ reader'[q] = reader[q]
      BY <1>2, <2>1 DEF Inductive, TypeOK, ReaderInv
    <3>2. AgendaOK(q)'
      BY <3>1 DEF AgendaOK, Frames
    <3>3. AgendaMet(q)'
      <4>1. \A n \in 1..Len(reader[q].agenda) : FrameMet(reader[q].agenda[n], q)'
        BY <3>1, FrameKept DEF AgendaMet
      <4> QED BY <3>1, <4>1 DEF AgendaMet
    <3>4. FoundArrived(q)'
      BY <1>4, <3>1 DEF FoundArrived, MeetsConditions, PathAt, HasPath
    <3> QED BY <3>2, <3>3, <3>4
  <2> QED BY <2>1
<1>7. WriterLocals' = WriterLocals /\ ReaderLocals' = ReaderLocals
  BY DEF WriterLocals, ReaderLocals
<1>8. TypeOK'
  BY <1>3, <1>4, <1>6, <1>7 DEF Inductive, TypeOK
<1> QED BY <1>4, <1>5, <1>6, <1>8 DEF Inductive, ReaderInv

(* An agenda that only visits matchers whose labels are met.               *)
Good(loops, r) ==
    /\ loops \in Seq(Frames(reader[r].kept))
    /\ \A n \in 1..Len(loops) : FrameMet(loops[n], r)

(* A loop over matchers whose labels are met is good.                      *)
LEMMA GoodLoop ==
  ASSUME NEW r \in Readers, NEW op \in Ops, NEW at, NEW to,
         at \subseteq reader[r].kept, to \subseteq Nat,
         to \subseteq IF op = "values" THEN 1..Len(vms) ELSE 1..Len(fms),
         FrameMet([op |-> op, at |-> at, to |-> to], r)
  PROVE  Good(Loop(op, at, to), r)
<1>1. CASE at = {} \/ to = {}
  <2>1. Loop(op, at, to) = <<>>
    BY <1>1 DEF Loop
  <2>2. <<>> \in Seq(Frames(reader[r].kept)) /\ Len(<<>>) = 0
    OBVIOUS
  <2> QED BY <2>1, <2>2 DEF Good
<1>2. CASE ~ (at = {} \/ to = {})
  <2>1. PICK f : f = [op |-> op, at |-> at, to |-> to]
    OBVIOUS
  <2>2. f \in Frames(reader[r].kept)
    BY <2>1 DEF Frames
  <2>3. Loop(op, at, to) = <<f>>
    BY <1>2, <2>1 DEF Loop
  <2>4. <<f>> \in Seq(Frames(reader[r].kept)) /\ Len(<<f>>) = 1 /\ <<f>>[1] = f
    BY <2>2
  <2>5. FrameMet(f, r)
    BY <2>1
  <2> QED BY <2>3, <2>4, <2>5 DEF Good
<1> QED BY <1>1, <1>2

(* Good agendas one after the other are a good agenda.                     *)
LEMMA GoodConcat ==
  ASSUME NEW r \in Readers, NEW a, NEW b, Good(a, r), Good(b, r)
  PROVE  Good(a \o b, r)
<1>1. /\ a \in Seq(Frames(reader[r].kept)) /\ b \in Seq(Frames(reader[r].kept))
      /\ \A n \in 1..Len(a) : FrameMet(a[n], r)
      /\ \A n \in 1..Len(b) : FrameMet(b[n], r)
  BY DEF Good
<1>2. /\ a \o b \in Seq(Frames(reader[r].kept))
      /\ Len(a \o b) = Len(a) + Len(b)
      /\ \A n \in 1..(Len(a) + Len(b)) :
            (a \o b)[n] = IF n <= Len(a) THEN a[n] ELSE b[n - Len(a)]
  BY <1>1, ConcatProperties
<1>3. Len(a) \in Nat /\ Len(b) \in Nat
  BY <1>1, LenProperties
<1>4. ASSUME NEW n \in 1..(Len(a) + Len(b))
      PROVE  FrameMet((a \o b)[n], r)
  <2>1. CASE n <= Len(a)
    BY <1>1, <1>2, <1>3, <2>1
  <2>2. CASE ~ (n <= Len(a))
    <3>1. n - Len(a) \in 1..Len(b) /\ (a \o b)[n] = b[n - Len(a)]
      BY <1>2, <1>3, <2>2
    <3> QED BY <1>1, <3>1
  <2> QED BY <2>1, <2>2
<1> QED BY <1>2, <1>4 DEF Good

(* The loop a step replaces, and the rest of the agenda.                   *)
LEMMA TopGood ==
  ASSUME Inductive, NEW r \in Readers, NEW op, AtTop(r, op)
  PROVE  /\ Top(r) \in Frames(reader[r].kept) /\ Top(r).op = op
         /\ FrameMet(Top(r), r)
         /\ Good(Tail(reader[r].agenda), r)
<1>1. PICK q : q = reader[r].agenda
  OBVIOUS
<1>2. /\ q \in Seq(Frames(reader[r].kept)) /\ q # <<>>
      /\ \A n \in 1..Len(q) : FrameMet(q[n], r)
      /\ Top(r) = Head(q) /\ Top(r).op = op
  BY <1>1 DEF Inductive, TypeOK, AgendaOK, ReaderInv, AgendaMet, AtTop, Top
<1>3. Len(q) \in Nat \ {0}
  BY <1>2, EmptySeq
<1>4. /\ Head(q) = q[1] /\ Head(q) \in Frames(reader[r].kept)
      /\ Tail(q) \in Seq(Frames(reader[r].kept))
      /\ Len(Tail(q)) = Len(q) - 1
      /\ \A n \in 1..Len(Tail(q)) : Tail(q)[n] = q[n + 1]
  BY <1>2, HeadTailProperties
<1>5. \A n \in 1..Len(Tail(q)) : n + 1 \in 1..Len(q)
  BY <1>3, <1>4
<1>6. 1 \in 1..Len(q)
  BY <1>3
<1> QED BY <1>1, <1>2, <1>4, <1>5, <1>6 DEF Good

(* A step of the walk: good loops are put on the agenda, and what is       *)
(* reported is justified.                                                  *)
Justified(xs, r) == \A x \in xs : \E p \in Arrived : p.x = x /\ MeetsConditions(p, r)

(* Only Patterns arrive.                                                   *)
LEMMA ArrivedPatterns ==
  ASSUME Inductive
  PROVE  Arrived \subseteq Patterns
BY DEF Inductive, TypeOK, WriterLocals, Arrived

(* A step that replaces the innermost loop by good ones and reports what   *)
(* is justified preserves the invariant.                                   *)
LEMMA ContinueStep ==
  ASSUME Inductive, NEW r \in Readers, NEW op, AtTop(r, op),
         NEW more, NEW xs, Continue(r, more, xs), Good(more, r), Justified(xs, r)
  PROVE  Inductive'
<1>1. PICK me, agenda : me = reader[r] /\ agenda = more \o Tail(me.agenda)
  OBVIOUS
<1>2. /\ me \in ReaderLocals /\ reader \in [Readers -> ReaderLocals]
      /\ FoundArrived(r)
  BY <1>1 DEF Inductive, TypeOK, ReaderInv
<1>3. /\ UNCHANGED <<core, fms, vms, lock, writer>>
      /\ reader' = [reader EXCEPT ![r] = reader'[r]]
      /\ reader'[r] = [pc |-> me.pc, event |-> me.event, kept |-> me.kept,
                       agenda |-> agenda, found |-> me.found \cup xs,
                       must |-> me.must, prior |-> me.prior]
  BY <1>1, <1>2 DEF Continue, ReaderLocals
<1>4. Good(agenda, r)
  BY <1>1, TopGood, GoodConcat
<1>5. xs \subseteq Xs
  BY ArrivedPatterns, PatternAssumption DEF Justified, Pattern
<1>6. reader'[r] \in ReaderLocals
  <2>1. Seq(Frames(me.kept)) \subseteq Seq([op : Ops, at : SUBSET Nat, to : SUBSET Nat])
    <3>1. me.kept \subseteq Nat
      BY <1>2 DEF ReaderLocals
    <3>2. Frames(me.kept) \subseteq [op : Ops, at : SUBSET Nat, to : SUBSET Nat]
      BY <3>1 DEF Frames
    <3> QED BY <3>2, SeqMonotonic
  <2>2. agenda \in Seq([op : Ops, at : SUBSET Nat, to : SUBSET Nat])
    BY <1>1, <1>4, <2>1 DEF Good
  <2> QED BY <1>2, <1>3, <1>5, <2>2 DEF ReaderLocals
<1>7. /\ reader'[r].kept = me.kept /\ reader'[r].event = me.event
      /\ reader'[r].agenda = agenda /\ reader'[r].found = me.found \cup xs
  BY <1>3
<1>8. AgendaOK(r)'
  BY <1>1, <1>3, <1>4, <1>7 DEF AgendaOK, Good, Frames
<1>9. AgendaMet(r)'
  <2>1. \A n \in 1..Len(agenda) : FrameMet(agenda[n], r)
    BY <1>4 DEF Good
  <2>2. \A n \in 1..Len(agenda) : FrameMet(agenda[n], r)'
    BY <1>1, <1>3, <1>7, <2>1, FrameKept
  <2> QED BY <1>7, <2>2 DEF AgendaMet
<1>10. FoundArrived(r)'
  <2>1. Arrived' = Arrived
    BY <1>3 DEF Arrived
  <2>2. \A p : MeetsConditions(p, r)' = MeetsConditions(p, r)
    BY <1>1, <1>7 DEF MeetsConditions, HasPath, PathAt
  <2> QED BY <1>1, <1>2, <1>7, <2>1, <2>2 DEF FoundArrived, Justified
<1> QED BY <1>3, <1>6, <1>8, <1>9, <1>10, StepOfReader

-----------------------------------------------------------------------------
(* One more condition that holds.                                          *)
LEMMA MetExtends ==
  ASSUME NEW r, NEW via \in Via, NEW k \in Paths, NEW c, Met(via, r),
         \/ c = "exists" /\ \E i \in reader[r].kept \ {FakeIndex} : PathAt(r, i) = k
         \/ c = "absent" /\ ~HasPath(r, k)
         \/ /\ c \in PVals
            /\ \E i \in reader[r].kept \ {FakeIndex} :
                  PathAt(r, i) = k /\ reader[r].event[i].val \in Accepts[c]
  PROVE  Met([via EXCEPT ![k] = c], r)
<1> SUFFICES ASSUME NEW l \in Paths, NEW d, d = [via EXCEPT ![k] = c][l]
             PROVE  /\ d = "exists" => \E i \in reader[r].kept \ {FakeIndex} : PathAt(r, i) = l
                    /\ d = "absent" => ~HasPath(r, l)
                    /\ d \in PVals =>
                          \E i \in reader[r].kept \ {FakeIndex} :
                              PathAt(r, i) = l /\ reader[r].event[i].val \in Accepts[d]
  BY DEF Met
<1>1. CASE l = k
  <2>1. d = c
    BY <1>1 DEF Via
  <2>2. "exists" \notin PVals /\ "absent" \notin PVals
    BY LabelAssumption
  <2> QED BY <1>1, <2>1, <2>2
<1>2. CASE l # k
  <2>1. d = via[l]
    BY <1>2 DEF Via
  <2> QED BY <2>1 DEF Met
<1> QED BY <1>1, <1>2

(* What the fieldMatchers that a loaded record leads to have checked.      *)
VisitOK(to, r) == to \subseteq 1..Len(fms) /\ \A t \in to : Met(fms[t].via, r)

(* A loop over fieldMatchers whose labels are met is good.                 *)
LEMMA VisitGood ==
  ASSUME NEW r \in Readers, NEW op \in Ops, op # "values",
         NEW at, NEW to, at \subseteq reader[r].kept, VisitOK(to, r)
  PROVE  Good(Loop(op, at, to), r)
<1>1. to \subseteq 1..Len(fms) /\ to \subseteq Nat
  BY DEF VisitOK
<1>2. FrameMet([op |-> op, at |-> at, to |-> to], r)
  BY DEF FrameMet, VisitOK
<1> QED BY <1>1, <1>2, GoodLoop

(* An allocated fieldMatcher is well typed and labelled.                   *)
LEMMA Visited ==
  ASSUME Inductive, NEW n \in 1..Len(fms)
  PROVE  fms[n] \in FmFields /\ fms[n].via \in Via /\ FmOK(fms[n]) /\ FmLabelled(fms[n])
<1>1. /\ fms \in Seq(FmFields)
      /\ FmOK(fms[n]) /\ FmLabelled(fms[n])
  BY DEF Inductive, TypeOK, HeapOK, HeapLabelled
<1>2. fms[n] \in FmFields
  BY <1>1, ElementOfSeq
<1> QED BY <1>1, <1>2 DEF FmFields

(* The exists:false transitions a walk takes lead to met labels.           *)
LEMMA AbsentVisit ==
  ASSUME Inductive, NEW r \in Readers, NEW n \in 1..Len(fms), Met(fms[n].via, r)
  PROVE  VisitOK(AbsentTargets(r, fms[n]), r)
<1> SUFFICES ASSUME NEW k \in Paths, fms[n].absent[k] # Nil, ~HasPath(r, k)
             PROVE  fms[n].absent[k] \in 1..Len(fms) /\ Met(fms[fms[n].absent[k]].via, r)
  BY DEF VisitOK, AbsentTargets
<1>1. fms[n].via \in Via /\ FmOK(fms[n]) /\ FmLabelled(fms[n])
  BY Visited
<1>2. fms[n].absent[k] \in 1..Len(fms)
  BY <1>1 DEF FmOK, Nil
<1>3. fms[fms[n].absent[k]].via = [fms[n].via EXCEPT ![k] = "absent"]
  BY <1>1 DEF FmLabelled
<1>4. Met([fms[n].via EXCEPT ![k] = "absent"], r)
  BY <1>1, MetExtends
<1> QED BY <1>2, <1>3, <1>4

(* The exists:true transition a walk takes leads to a met label.           *)
LEMMA ExistsVisit ==
  ASSUME Inductive, NEW r \in Readers, NEW n \in 1..Len(fms), Met(fms[n].via, r),
         NEW i \in reader[r].kept
  PROVE  VisitOK(ExistsTargets(r, i, fms[n]), r)
<1> SUFFICES ASSUME NEW k \in Paths, k = PathAt(r, i), fms[n].exists[k] # Nil
             PROVE  fms[n].exists[k] \in 1..Len(fms) /\ Met(fms[fms[n].exists[k]].via, r)
  BY DEF VisitOK, ExistsTargets
<1>1. fms[n].via \in Via /\ FmOK(fms[n]) /\ FmLabelled(fms[n])
  BY Visited
<1>2. fms[n].exists[k] \in 1..Len(fms)
  BY <1>1 DEF FmOK, Nil
<1>3. fms[fms[n].exists[k]].via = [fms[n].via EXCEPT ![k] = "exists"]
  BY <1>1 DEF FmLabelled
<1>4. i # FakeIndex
  BY PatternAssumption DEF PathAt, Nil
<1>5. Met([fms[n].via EXCEPT ![k] = "exists"], r)
  BY <1>1, <1>4, MetExtends
<1> QED BY <1>2, <1>3, <1>5

(* The transitions a walk takes on a value lead to met labels.             *)
LEMMA ValueVisit ==
  ASSUME Inductive, NEW r \in Readers, NEW m \in 1..Len(vms), Met(vms[m].via, r),
         NEW i \in reader[r].kept, PathAt(r, i) = vms[m].path
  PROVE  VisitOK(TransitionOn(vms[m], reader[r].event[i].val), r)
<1>1. /\ vms \in Seq(VmFields) /\ VmOK(vms[m]) /\ VmLabelled(vms[m])
  BY DEF Inductive, TypeOK, HeapOK, HeapLabelled
<1>2. vms[m] \in VmFields
  BY <1>1, ElementOfSeq
<1>3. vms[m].path \in Paths /\ vms[m].via \in Via
  BY <1>2 DEF VmFields
<1> SUFFICES ASSUME NEW e \in Edges(vms[m]), reader[r].event[i].val \in Accepts[e[1]]
             PROVE  e[2] \in 1..Len(fms) /\ Met(fms[e[2]].via, r)
  <2>1. \A t \in TransitionOn(vms[m], reader[r].event[i].val) :
          \E e \in Edges(vms[m]) : t = e[2] /\ reader[r].event[i].val \in Accepts[e[1]]
    BY DEF TransitionOn, Edges
  <2> QED BY <2>1 DEF VisitOK
<1>4. e[2] \in 1..Len(fms) /\ fms[e[2]].via = [vms[m].via EXCEPT ![vms[m].path] = e[1]]
  BY <1>1 DEF VmOK, VmLabelled
<1>5. e[1] \in PVals
  BY <1>2 DEF Edges, VmFields, Edge
<1>6. i # FakeIndex
  BY <1>3, PatternAssumption DEF PathAt, Nil
<1>7. Met([vms[m].via EXCEPT ![vms[m].path] = e[1]], r)
  BY <1>3, <1>5, <1>6, MetExtends
<1> QED BY <1>4, <1>7

(* A label that chooses the conditions of a Pattern and is met meets them. *)
LEMMA MatchesJustified ==
  ASSUME Inductive, NEW r \in Readers, NEW n \in 1..Len(fms), Met(fms[n].via, r)
  PROVE  Justified(fms[n].matches, r)
<1> SUFFICES ASSUME NEW x \in fms[n].matches
             PROVE  \E p \in Arrived : p.x = x /\ MeetsConditions(p, r)
  BY DEF Justified
<1>1. PICK p \in Arrived : p.x = x /\ Chooses(fms[n].via, p)
  BY DEF Inductive, EndsArrived
<1>2. p \in Patterns
  BY ArrivedPatterns
<1>3. MeetsConditions(p, r)
  <2> SUFFICES ASSUME NEW k \in Constrained(p)
               PROVE  IF p.cond[k].kind = "absent" THEN ~HasPath(r, k)
                      ELSE \E i \in reader[r].kept \ {FakeIndex} :
                              Fulfils(p, k, reader[r].event[i])
    BY DEF MeetsConditions
  <2>1. k \in Paths /\ p.cond[k].kind \in {"exists", "absent", "vals"} /\ p.cond[k] \in Cond
    BY <1>2, PatternAssumption DEF Constrained, Pattern
  <2>2. ChoosesAt(fms[n].via, p, k)
    BY <1>1, <2>1 DEF Chooses
  <2>3. CASE p.cond[k].kind = "absent"
    BY <2>1, <2>2, <2>3 DEF ChoosesAt, Met
  <2>4. CASE p.cond[k].kind = "exists"
    <3>1. PICK i \in reader[r].kept \ {FakeIndex} : PathAt(r, i) = k
      BY <2>1, <2>2, <2>4 DEF ChoosesAt, Met
    <3>2. Fulfils(p, k, reader[r].event[i])
      BY <2>4, <3>1 DEF Fulfils, PathAt
    <3> QED BY <2>4, <3>2
  <2>5. CASE p.cond[k].kind = "vals"
    <3>1. fms[n].via[k] \in PValsOf(p, k)
      BY <2>2, <2>5 DEF ChoosesAt
    <3>2. fms[n].via[k] \in PVals
      <4>1. p.cond[k].vals \in Seq(PVals)
        BY <2>1 DEF Cond
      <4> QED BY <3>1, <4>1 DEF PValsOf
    <3>3. PICK i \in reader[r].kept \ {FakeIndex} :
             PathAt(r, i) = k /\ reader[r].event[i].val \in Accepts[fms[n].via[k]]
      BY <2>1, <3>2 DEF Met
    <3>4. Fulfils(p, k, reader[r].event[i])
      BY <3>1, <3>3 DEF Fulfils, PathAt
    <3> QED BY <2>5, <3>4
  <2> QED BY <2>1, <2>3, <2>4, <2>5
<1> QED BY <1>1, <1>3

-----------------------------------------------------------------------------
(* The steps of a match call.                                              *)
LEMMA BeginMatchStep ==
  ASSUME Inductive, NEW r \in Readers, BeginMatch(r)
  PROVE  Inductive'
<1>1. PICK e \in Events :
         /\ reader' = [reader EXCEPT ![r] =
              [IdleReader EXCEPT !.pc = "flat", !.event = e,
                                 !.kept = Flatten(e, core.tree), !.must = Committed,
                                 !.prior = ReportedFor(e)]]
         /\ UNCHANGED <<core, fms, vms, lock, writer>>
  BY DEF BeginMatch
<1>2. reader \in [Readers -> ReaderLocals] /\ writer \in [Writers -> WriterLocals]
  BY DEF Inductive, TypeOK
<1>3. /\ reader' = [reader EXCEPT ![r] = reader'[r]]
      /\ reader'[r] = [pc |-> "flat", event |-> e, kept |-> Flatten(e, core.tree),
                       agenda |-> <<>>, found |-> {}, must |-> Committed,
                       prior |-> ReportedFor(e)]
  BY <1>1, <1>2 DEF IdleReader
<1>4. Flatten(e, core.tree) \in SUBSET Nat
  BY PatternAssumption DEF Flatten, FakeIndex
<1>5. Committed \in SUBSET Patterns /\ ReportedFor(e) \in SUBSET Xs
  <2>1. \A w \in Writers : writer[w].pattern \subseteq Patterns
    BY <1>2 DEF WriterLocals
  <2>2. \A q \in Readers : reader[q].found \subseteq Xs
    BY <1>2 DEF ReaderLocals
  <2> QED BY <2>1, <2>2 DEF Committed, ReportedFor
<1>6. reader'[r] \in ReaderLocals
  BY <1>3, <1>4, <1>5 DEF ReaderLocals
<1>7. reader'[r].agenda = <<>> /\ reader'[r].found = {}
  BY <1>3
<1>8. AgendaOK(r)' /\ AgendaMet(r)' /\ FoundArrived(r)'
  BY <1>7 DEF AgendaOK, AgendaMet, FoundArrived
<1> QED BY <1>1, <1>3, <1>6, <1>8, StepOfReader

(* Launch preserves the invariant: the start state has no condition.       *)
LEMMA LaunchStep ==
  ASSUME Inductive, NEW r \in Readers, Launch(r)
  PROVE  Inductive'
<1>1. PICK me, agenda : me = reader[r] /\ agenda = Loop("try", me.kept, {core.state})
  OBVIOUS
<1>2. /\ me \in ReaderLocals /\ reader \in [Readers -> ReaderLocals] /\ FoundArrived(r)
      /\ core.state \in 1..Len(fms) /\ fms[core.state].via = [k \in Paths |-> "free"]
  BY <1>1 DEF Inductive, TypeOK, ReaderInv, HeapOK, HeapLabelled
<1>3. /\ UNCHANGED <<core, fms, vms, lock, writer>>
      /\ reader' = [reader EXCEPT ![r] = reader'[r]]
      /\ reader'[r] = [pc |-> "match", event |-> me.event, kept |-> me.kept,
                       agenda |-> agenda, found |-> me.found,
                       must |-> me.must, prior |-> me.prior]
  BY <1>1, <1>2 DEF Launch, ReaderLocals
<1>4. Good(agenda, r)
  <2>1. Met(fms[core.state].via, r)
    BY <1>2, LabelAssumption DEF Met
  <2>2. VisitOK({core.state}, r)
    BY <1>2, <2>1 DEF VisitOK
  <2> QED BY <1>1, <2>2, VisitGood DEF Ops
<1>5. reader'[r] \in ReaderLocals
  <2>1. Seq(Frames(me.kept)) \subseteq Seq([op : Ops, at : SUBSET Nat, to : SUBSET Nat])
    <3>1. me.kept \subseteq Nat
      BY <1>2 DEF ReaderLocals
    <3>2. Frames(me.kept) \subseteq [op : Ops, at : SUBSET Nat, to : SUBSET Nat]
      BY <3>1 DEF Frames
    <3> QED BY <3>2, SeqMonotonic
  <2>2. agenda \in Seq([op : Ops, at : SUBSET Nat, to : SUBSET Nat])
    BY <1>1, <1>4, <2>1 DEF Good
  <2> QED BY <1>2, <1>3, <2>2 DEF ReaderLocals
<1>6. /\ reader'[r].kept = me.kept /\ reader'[r].event = me.event
      /\ reader'[r].agenda = agenda /\ reader'[r].found = me.found
  BY <1>3
<1>7. AgendaOK(r)'
  BY <1>1, <1>3, <1>4, <1>6 DEF AgendaOK, Good, Frames
<1>8. AgendaMet(r)'
  <2>1. \A n \in 1..Len(agenda) : FrameMet(agenda[n], r)
    BY <1>4 DEF Good
  <2>2. \A n \in 1..Len(agenda) : FrameMet(agenda[n], r)'
    BY <1>1, <1>3, <1>6, <2>1, FrameKept
  <2> QED BY <1>6, <2>2 DEF AgendaMet
<1>9. FoundArrived(r)'
  <2>1. Arrived' = Arrived
    BY <1>3 DEF Arrived
  <2>2. \A p : MeetsConditions(p, r)' = MeetsConditions(p, r)
    BY <1>1, <1>6 DEF MeetsConditions, HasPath, PathAt
  <2> QED BY <1>1, <1>2, <1>6, <2>1, <2>2 DEF FoundArrived
<1> QED BY <1>3, <1>5, <1>7, <1>8, <1>9, StepOfReader

(* Return preserves the invariant.                                         *)
LEMMA ReturnStep ==
  ASSUME Inductive, NEW r \in Readers, Return(r)
  PROVE  Inductive'
<1>1. PICK me : me = reader[r]
  OBVIOUS
<1>2. /\ me \in ReaderLocals /\ reader \in [Readers -> ReaderLocals] /\ FoundArrived(r)
  BY <1>1 DEF Inductive, TypeOK, ReaderInv
<1>3. /\ UNCHANGED <<core, fms, vms, lock, writer>>
      /\ reader' = [reader EXCEPT ![r] = reader'[r]]
      /\ reader'[r] = [pc |-> "done", event |-> me.event, kept |-> me.kept,
                       agenda |-> <<>>, found |-> me.found,
                       must |-> me.must, prior |-> me.prior]
  BY <1>1, <1>2 DEF Return, ReaderLocals
<1>4. reader'[r] \in ReaderLocals
  BY <1>2, <1>3 DEF ReaderLocals
<1>5. /\ reader'[r].kept = me.kept /\ reader'[r].event = me.event
      /\ reader'[r].agenda = <<>> /\ reader'[r].found = me.found
  BY <1>3
<1>6. AgendaOK(r)' /\ AgendaMet(r)'
  BY <1>5 DEF AgendaOK, AgendaMet
<1>7. FoundArrived(r)'
  <2>1. Arrived' = Arrived
    BY <1>3 DEF Arrived
  <2>2. \A p : MeetsConditions(p, r)' = MeetsConditions(p, r)
    BY <1>1, <1>5 DEF MeetsConditions, HasPath, PathAt
  <2> QED BY <1>1, <1>2, <1>5, <2>1, <2>2 DEF FoundArrived
<1> QED BY <1>3, <1>4, <1>6, <1>7, StepOfReader

(* The innermost loop only has matchers whose labels are met.              *)
LEMMA TopVisit ==
  ASSUME Inductive, NEW r \in Readers, NEW op, op # "values", AtTop(r, op)
  PROVE  /\ Top(r).at \subseteq reader[r].kept /\ VisitOK(Top(r).to, r)
         /\ \A t \in Top(r).to : t \in 1..Len(fms) /\ Met(fms[t].via, r)
<1>1. PICK f : f = Top(r)
  OBVIOUS
<1>2. f \in Frames(reader[r].kept) /\ f.op = op /\ FrameMet(f, r)
  BY <1>1, TopGood
<1>3. f.at \subseteq reader[r].kept /\ f.to \subseteq 1..Len(fms)
  BY <1>2 DEF Frames
<1>4. \A t \in f.to : Met(fms[t].via, r)
  BY <1>2 DEF FrameMet
<1> QED BY <1>1, <1>3, <1>4 DEF VisitOK

(* TryToMatch preserves the invariant.                                     *)
LEMMA TryToMatchStep ==
  ASSUME Inductive, NEW r \in Readers, TryToMatch(r)
  PROVE  Inductive'
<1>1. PICK i \in Top(r).at, s \in Top(r).to :
         Continue(r, Loop("exists", {i}, ExistsTargets(r, i, fms[s]))
                        \o Loop("absent", {i}, AbsentTargets(r, fms[s]))
                        \o Loop("trans", {i}, {s})
                        \o Loop("try", Top(r).at \ {i}, {s}), {})
  BY DEF TryToMatch
<1>2. AtTop(r, "try")
  BY DEF TryToMatch
<1>3. /\ Top(r).at \subseteq reader[r].kept
      /\ s \in 1..Len(fms) /\ Met(fms[s].via, r)
  BY <1>2, TopVisit
<1>4. VisitOK(ExistsTargets(r, i, fms[s]), r) /\ VisitOK(AbsentTargets(r, fms[s]), r)
  BY <1>3, ExistsVisit, AbsentVisit
<1>5. VisitOK({s}, r)
  BY <1>3 DEF VisitOK
<1>6. /\ Good(Loop("exists", {i}, ExistsTargets(r, i, fms[s])), r)
      /\ Good(Loop("absent", {i}, AbsentTargets(r, fms[s])), r)
      /\ Good(Loop("trans", {i}, {s}), r)
      /\ Good(Loop("try", Top(r).at \ {i}, {s}), r)
  BY <1>3, <1>4, <1>5, VisitGood DEF Ops
<1> QED BY <1>1, <1>2, <1>6, GoodConcat, ContinueStep DEF Justified

(* TakeExists preserves the invariant.                                     *)
LEMMA TakeExistsStep ==
  ASSUME Inductive, NEW r \in Readers, TakeExists(r)
  PROVE  Inductive'
<1>1. PICK i \in Top(r).at, t \in Top(r).to :
         Continue(r, Loop("try", Later(r, i), {t}) \o Loop("recheck", {i}, {t}),
                  fms[t].matches)
  BY DEF TakeExists
<1>2. AtTop(r, "exists")
  BY DEF TakeExists
<1>3. /\ Top(r).at \subseteq reader[r].kept
      /\ t \in 1..Len(fms) /\ Met(fms[t].via, r)
  BY <1>2, TopVisit
<1>4. VisitOK({t}, r)
  BY <1>3 DEF VisitOK
<1>5. Later(r, i) \subseteq reader[r].kept
  BY DEF Later
<1>6. /\ Good(Loop("try", Later(r, i), {t}), r)
      /\ Good(Loop("recheck", {i}, {t}), r)
  BY <1>3, <1>4, <1>5, VisitGood DEF Ops
<1>7. Justified(fms[t].matches, r)
  BY <1>3, MatchesJustified
<1> QED BY <1>1, <1>2, <1>6, <1>7, GoodConcat, ContinueStep

(* RecheckAbsent preserves the invariant.                                  *)
LEMMA RecheckAbsentStep ==
  ASSUME Inductive, NEW r \in Readers, RecheckAbsent(r)
  PROVE  Inductive'
<1>1. PICK i \in Top(r).at, t \in Top(r).to :
         Continue(r, Loop("absent", {i}, AbsentTargets(r, fms[t])), {})
  BY DEF RecheckAbsent
<1>2. AtTop(r, "recheck")
  BY DEF RecheckAbsent
<1>3. /\ Top(r).at \subseteq reader[r].kept
      /\ t \in 1..Len(fms) /\ Met(fms[t].via, r)
  BY <1>2, TopVisit
<1>4. VisitOK(AbsentTargets(r, fms[t]), r)
  BY <1>3, AbsentVisit
<1>5. Good(Loop("absent", {i}, AbsentTargets(r, fms[t])), r)
  BY <1>3, <1>4, VisitGood DEF Ops
<1> QED BY <1>1, <1>2, <1>5, ContinueStep DEF Justified

(* TakeAbsent preserves the invariant.                                     *)
LEMMA TakeAbsentStep ==
  ASSUME Inductive, NEW r \in Readers, TakeAbsent(r)
  PROVE  Inductive'
<1>1. PICK i \in Top(r).at, t \in Top(r).to :
         Continue(r, Loop("try", {i}, {t}) \o Loop("absent", {i}, Top(r).to \ {t}),
                  fms[t].matches)
  BY DEF TakeAbsent
<1>2. AtTop(r, "absent")
  BY DEF TakeAbsent
<1>3. /\ Top(r).at \subseteq reader[r].kept /\ VisitOK(Top(r).to, r)
      /\ t \in 1..Len(fms) /\ Met(fms[t].via, r)
  BY <1>2, TopVisit
<1>4. VisitOK({t}, r) /\ VisitOK(Top(r).to \ {t}, r)
  BY <1>3 DEF VisitOK
<1>5. /\ Good(Loop("try", {i}, {t}), r)
      /\ Good(Loop("absent", {i}, Top(r).to \ {t}), r)
  BY <1>3, <1>4, VisitGood DEF Ops
<1>6. Justified(fms[t].matches, r)
  BY <1>3, MatchesJustified
<1> QED BY <1>1, <1>2, <1>5, <1>6, GoodConcat, ContinueStep

(* LoadTransitions preserves the invariant.                                *)
LEMMA LoadTransitionsStep ==
  ASSUME Inductive, NEW r \in Readers, LoadTransitions(r)
  PROVE  Inductive'
<1>A. PICK i \in Top(r).at, s \in Top(r).to :
         LET vm == {fms[s].trans[k] : k \in {l \in Paths : l = PathAt(r, i)}}
         IN  Continue(r, Loop("values", {i}, vm \ {Nil}), {})
  BY DEF LoadTransitions
<1>1. PICK vm :
         /\ vm = {fms[s].trans[k] : k \in {l \in Paths : l = PathAt(r, i)}}
         /\ Continue(r, Loop("values", {i}, vm \ {Nil}), {})
  BY <1>A
<1>2. AtTop(r, "trans")
  BY DEF LoadTransitions
<1>3. /\ Top(r).at \subseteq reader[r].kept
      /\ s \in 1..Len(fms) /\ Met(fms[s].via, r)
  BY <1>2, TopVisit
<1>4. FmOK(fms[s]) /\ FmLabelled(fms[s])
  BY <1>3, Visited
<1>5. ASSUME NEW v \in vm \ {Nil}
      PROVE  v \in 1..Len(vms) /\ Met(vms[v].via, r) /\ PathAt(r, i) = vms[v].path
  <2>1. PICK k \in Paths : k = PathAt(r, i) /\ v = fms[s].trans[k]
    BY <1>1
  <2>2. v \in 1..Len(vms)
    BY <1>4, <2>1 DEF FmOK, Nil
  <2>3. vms[v].via = fms[s].via /\ vms[v].path = k
    BY <1>4, <2>1 DEF FmLabelled
  <2> QED BY <1>3, <2>1, <2>2, <2>3
<1>6. PICK to : to = vm \ {Nil}
  OBVIOUS
<1>7. to \subseteq 1..Len(vms) /\ to \subseteq Nat /\ {i} \subseteq reader[r].kept
  BY <1>3, <1>5, <1>6
<1>8. FrameMet([op |-> "values", at |-> {i}, to |-> to], r)
  BY <1>5, <1>6 DEF FrameMet
<1>9. Good(Loop("values", {i}, to), r)
  BY <1>7, <1>8, GoodLoop DEF Ops
<1> QED BY <1>1, <1>2, <1>6, <1>9, ContinueStep DEF Justified

(* LoadValues preserves the invariant.                                     *)
LEMMA LoadValuesStep ==
  ASSUME Inductive, NEW r \in Readers, LoadValues(r)
  PROVE  Inductive'
<1>1. PICK i \in Top(r).at, v \in Top(r).to :
         Continue(r, Loop("next", {i}, TransitionOn(vms[v], reader[r].event[i].val)), {})
  BY DEF LoadValues
<1>2. AtTop(r, "values")
  BY DEF LoadValues
<1>3. /\ i \in reader[r].kept /\ v \in 1..Len(vms)
      /\ Met(vms[v].via, r) /\ PathAt(r, i) = vms[v].path
  <2>1. PICK f : f = Top(r)
    OBVIOUS
  <2>2. f \in Frames(reader[r].kept) /\ f.op = "values" /\ FrameMet(f, r)
    BY <1>2, <2>1, TopGood
  <2>3. f.at \subseteq reader[r].kept /\ f.to \subseteq 1..Len(vms)
    BY <2>2 DEF Frames
  <2> QED BY <2>1, <2>2, <2>3 DEF FrameMet
<1>4. VisitOK(TransitionOn(vms[v], reader[r].event[i].val), r)
  BY <1>3, ValueVisit
<1>5. Good(Loop("next", {i}, TransitionOn(vms[v], reader[r].event[i].val)), r)
  BY <1>3, <1>4, VisitGood DEF Ops
<1> QED BY <1>1, <1>2, <1>5, ContinueStep DEF Justified

(* TakeNext preserves the invariant.                                       *)
LEMMA TakeNextStep ==
  ASSUME Inductive, NEW r \in Readers, TakeNext(r)
  PROVE  Inductive'
<1>1. PICK i \in Top(r).at, t \in Top(r).to :
         Continue(r, Loop("try", Later(r, i), {t})
                     \o Loop("absent", {i}, AbsentTargets(r, fms[t]))
                     \o Loop("next", {i}, Top(r).to \ {t}),
                  fms[t].matches)
  BY DEF TakeNext
<1>2. AtTop(r, "next")
  BY DEF TakeNext
<1>3. /\ Top(r).at \subseteq reader[r].kept /\ VisitOK(Top(r).to, r)
      /\ t \in 1..Len(fms) /\ Met(fms[t].via, r)
  BY <1>2, TopVisit
<1>4. /\ VisitOK({t}, r) /\ VisitOK(Top(r).to \ {t}, r)
      /\ VisitOK(AbsentTargets(r, fms[t]), r)
  BY <1>3, AbsentVisit DEF VisitOK
<1>5. Later(r, i) \subseteq reader[r].kept
  BY DEF Later
<1>6. /\ Good(Loop("try", Later(r, i), {t}), r)
      /\ Good(Loop("absent", {i}, AbsentTargets(r, fms[t])), r)
      /\ Good(Loop("next", {i}, Top(r).to \ {t}), r)
  BY <1>3, <1>4, <1>5, VisitGood DEF Ops
<1>7. Justified(fms[t].matches, r)
  BY <1>3, MatchesJustified
<1> QED BY <1>1, <1>2, <1>6, <1>7, GoodConcat, ContinueStep

-----------------------------------------------------------------------------
(* The initial states, and the steps that change nothing.                  *)
LEMMA InitInductive == Init => Inductive
<1> SUFFICES ASSUME Init
             PROVE  Inductive
  OBVIOUS
<1>1. PICK free, f : free = [k \in Paths |-> "free"] /\ f = NewFieldMatcher(free)
  BY ZenonT(60)
<1>2. /\ core = [state |-> 1, tree |-> {}]
      /\ fms = <<f>> /\ vms = <<>> /\ lock = NoWriter
      /\ writer = [w \in Writers |-> IdleWriter]
      /\ reader = [r \in Readers |-> IdleReader]
  BY <1>1 DEF Init, Root
<1>3. /\ f \in FmFields /\ f.via = free /\ f.matches = {} /\ Blank(f)
  <2>1. free \in Via
    BY <1>1 DEF Via
  <2> QED BY <1>1, <2>1, NewFieldMatcherType DEF Blank
<1>4. /\ Len(fms) = 1 /\ fms[1] = f /\ Len(vms) = 0
      /\ fms \in Seq(FmFields) /\ vms \in Seq(VmFields)
  BY <1>2, <1>3
<1>5. HeapOK
  <2>1. FmOK(f)
    BY <1>3, <1>4 DEF FmOK, Blank, Nil
  <2>2. core \in [state : 1..Len(fms), tree : SUBSET Paths]
    BY <1>2, <1>4
  <2> QED BY <1>4, <2>1, <2>2 DEF HeapOK
<1>6. HeapLabelled
  <2>1. FmLabelled(f)
    BY <1>3 DEF FmLabelled, Blank
  <2>2. core.state = 1
    BY <1>2
  <2> QED BY <1>1, <1>3, <1>4, <2>1, <2>2 DEF HeapLabelled, Root
<1>7. EndsArrived
  BY <1>3, <1>4 DEF EndsArrived
<1>8. /\ writer \in [Writers -> WriterLocals] /\ WriterInv /\ OneBuilder
  <2>1. \A w \in Writers : /\ writer[w] = IdleWriter /\ writer[w].pc = "idle"
    BY <1>2 DEF IdleWriter
  <2>2. IdleWriter \in WriterLocals
    <3>1. <<>> \in Seq(1..Len(fms)) /\ 0 \in 0..Len(vms)
      BY <1>4
    <3> QED BY <3>1 DEF IdleWriter, WriterLocals, Nil
  <2>3. WriterInv
    BY <2>1 DEF WriterInv, AtWork, StatesLabelled, Building
  <2>4. OneBuilder
    BY <1>2, <2>1, WriterAssumption DEF OneBuilder, Building
  <2> QED BY <1>2, <2>2, <2>3, <2>4
<1>9. /\ reader \in [Readers -> ReaderLocals] /\ ReaderInv
      /\ \A r \in Readers : AgendaOK(r)
  <2>1. \A r \in Readers : /\ reader[r] = IdleReader
                           /\ reader[r].agenda = <<>> /\ reader[r].found = {}
    BY <1>2 DEF IdleReader
  <2>2. IdleReader \in ReaderLocals
    <3>1. <<>> \in Seq([op : Ops, at : SUBSET Nat, to : SUBSET Nat])
      OBVIOUS
    <3> QED BY <3>1 DEF IdleReader, ReaderLocals
  <2>3. ReaderInv
    BY <2>1 DEF ReaderInv, AgendaMet, FoundArrived
  <2>4. \A r \in Readers : AgendaOK(r)
    <3>1. \A r \in Readers : <<>> \in Seq(Frames(reader[r].kept))
      OBVIOUS
    <3> QED BY <2>1, <3>1 DEF AgendaOK
  <2> QED BY <1>2, <2>2, <2>3, <2>4
<1>10. lock \in Writers \cup {NoWriter}
  BY <1>2
<1> QED BY <1>5, <1>6, <1>7, <1>8, <1>9, <1>10 DEF Inductive, TypeOK

(* The invariant depends on the variables only.                            *)
LEMMA StutterInductive ==
  ASSUME Inductive, UNCHANGED vars
  PROVE  Inductive'
<1>1. /\ core' = core /\ fms' = fms /\ vms' = vms /\ lock' = lock
      /\ writer' = writer /\ reader' = reader
  BY DEF vars
<1>2. HeapOK /\ HeapLabelled /\ EndsArrived /\ OneBuilder /\ WriterInv
  BY DEF Inductive, TypeOK
<1>3. Arrived \subseteq Arrived'
  BY <1>1 DEF Arrived
<1>4. core' \in [state : Nat, tree : SUBSET Paths]
  BY <1>1, <1>2, LenType DEF HeapOK
<1>5. HeapOK' /\ HeapLabelled' /\ EndsArrived' /\ Grows
  BY <1>1, <1>2, <1>3, <1>4, HeapUnchanged
<1>6. (\A r \in Readers : AgendaOK(r))' /\ ReaderInv'
  BY <1>1, <1>3, <1>5, ReadersKeep
<1>7. WriterInv'
  <2> SUFFICES ASSUME NEW w \in Writers
               PROVE  AtWork(w)' /\ StatesLabelled(w)'
    BY DEF WriterInv
  <2>1. AtWork(w) /\ StatesLabelled(w)
    BY <1>2 DEF WriterInv
  <2>2. Pat(w)' = Pat(w)
    BY <1>1 DEF Pat
  <2> QED BY <1>1, <2>1, <2>2 DEF AtWork, StatesLabelled
<1>8. OneBuilder'
  BY <1>1, <1>2 DEF OneBuilder
<1>9. TypeOK'
  BY <1>1, <1>5, <1>6 DEF Inductive, TypeOK, WriterLocals, ReaderLocals
<1> QED BY <1>5, <1>6, <1>7, <1>8, <1>9 DEF Inductive

-----------------------------------------------------------------------------
(* The steps of AddPattern calls.                                          *)
LEMMA WriterInductive ==
  ASSUME Inductive, NEW w \in Writers, WriterStep(w)
  PROVE  Inductive' /\ Grows
BY AcquireStep, AddExistsStep, FindValueMatcherStep, AddValueStep,
   PublishTransitionStep, PanicStep, AddMatchStep, StoreCoreStep, UnlockStep
   DEF WriterStep

(* A step of a match call only changes the locals of the call.             *)
LEMMA ReaderStepLocal ==
  ASSUME NEW r \in Readers, ReaderStep(r)
  PROVE  UNCHANGED <<core, fms, vms, lock, writer>>
BY ZenonT(60) DEF ReaderStep, BeginMatch, Launch, TryToMatch, TakeExists, RecheckAbsent,
   TakeAbsent, LoadTransitions, LoadValues, TakeNext, Return, Continue

(* The steps of match calls.                                               *)
LEMMA ReaderInductive ==
  ASSUME Inductive, NEW r \in Readers, ReaderStep(r)
  PROVE  Inductive' /\ Grows
<1>1. Inductive'
  BY BeginMatchStep, LaunchStep, TryToMatchStep, TakeExistsStep,
     RecheckAbsentStep, TakeAbsentStep, LoadTransitionsStep, LoadValuesStep,
     TakeNextStep, ReturnStep
     DEF ReaderStep
<1>2. Grows
  BY ReaderStepLocal, LenType DEF Grows, Inductive, TypeOK
<1> QED BY <1>1, <1>2

(* Every state the code reaches satisfies the inductive invariant, for any *)
(* Patterns, Events, number of AddPattern calls and number of match calls. *)
THEOREM InductiveInvariant == Spec => []Inductive
<1>1. Inductive /\ [Next]_vars => Inductive'
  BY WriterInductive, ReaderInductive, StutterInductive DEF Next
<1> QED BY InitInductive, <1>1, PTL DEF Spec

(* No pointer ever leads to a matcher that is not there, and every local   *)
(* of a call has its type.                                                 *)
THEOREM TypeCorrect == Spec => []TypeOK
<1>1. Inductive => TypeOK
  BY DEF Inductive
<1> QED BY <1>1, InductiveInvariant, PTL

(* At most one AddPattern call builds at a time, and it holds the lock.    *)
THEOREM MutualExclusion == Spec => []OneBuilder
<1>1. Inductive => OneBuilder
  BY DEF Inductive
<1> QED BY <1>1, InductiveInvariant, PTL

(* A call that has arrived has not failed.                                 *)
LEMMA ArrivedLive == Arrived \subseteq Live
BY DEF Arrived, Live

(* Every X an end state holds is that of a Pattern whose conditions are    *)
(* exactly those checked on the way there.                                 *)
THEOREM EndStatesAreJustified == Spec => []EndStatesJustified
<1>1. Inductive => EndStatesJustified
  <2> SUFFICES ASSUME Inductive, NEW n \in DOMAIN fms, NEW x \in fms[n].matches
               PROVE  \E p \in Live : p.x = x /\ Chooses(fms[n].via, p)
    BY DEF EndStatesJustified
  <2>1. n \in 1..Len(fms)
    BY DEF Inductive, TypeOK, HeapOK
  <2>2. PICK p \in Arrived : p.x = x /\ Chooses(fms[n].via, p)
    BY <2>1 DEF Inductive, EndsArrived
  <2> QED BY <2>2, ArrivedLive
<1> QED BY <1>1, InductiveInvariant, PTL

(* Every X a match call has found is that of a Pattern each condition of   *)
(* which holds of the fields it was given, however many AddPattern calls   *)
(* changed the automaton meanwhile.                                        *)
THEOREM FoundIsJustified == Spec => []FoundMeetsConditions
<1>1. Inductive => FoundMeetsConditions
  BY ArrivedLive DEF Inductive, ReaderInv, FoundArrived, FoundMeetsConditions
<1> QED BY <1>1, InductiveInvariant, PTL

-----------------------------------------------------------------------------
(* What a step leaves of the entries and edges.                            *)
FmsKept ==
    \A n \in 1..Len(fms) :
        /\ fms[n].matches \subseteq fms'[n].matches
        /\ Keeps(fms[n].trans, fms'[n].trans)
        /\ Keeps(fms[n].exists, fms'[n].exists)
        /\ Keeps(fms[n].absent, fms'[n].absent)

VmsKept ==
    \A n \in 1..Len(vms) : \A val \in Values :
        TransitionOn(vms[n], val) \subseteq TransitionOn(vms'[n], val)

(* Records that stay keep their entries.                                   *)
LEMMA SameFms ==
  ASSUME \A n \in 1..Len(fms) : fms'[n] = fms[n]
  PROVE  FmsKept
BY DEF FmsKept, Keeps

(* Records that stay keep their transitions.                               *)
LEMMA SameVms ==
  ASSUME \A n \in 1..Len(vms) : vms'[n] = vms[n]
  PROVE  VmsKept
BY DEF VmsKept

(* A new value never takes an old transition away: the singleton is only   *)
(* stored in an empty valueMatcher, and goes into the automaton with what  *)
(* replaces it.                                                            *)
LEMMA WithValueKeeps ==
  ASSUME NEW vm \in VmFields, NEW pv, NEW to, NEW val, NEW v, v = WithValue(vm, pv, to)
  PROVE  TransitionOn(vm, val) \subseteq TransitionOn(v, val)
<1> DEFINE live(u) == (IF u.singleton # {} THEN u.singleton ELSE u.start) \cup u.ranges
<1>1. live(vm) \subseteq live(v)
  <2>1. CASE v = WithRange(vm, pv, to)
    BY <2>1 DEF WithRange, VmFields
  <2>2. CASE v = WithSingleton(vm, pv, to) /\ Virgin(vm)
    BY <2>2 DEF WithSingleton, Virgin, VmFields
  <2>3. CASE v = WithAutomaton(vm, pv, to)
    BY <2>3 DEF WithAutomaton, VmFields
  <2> QED BY <2>1, <2>2, <2>3 DEF WithValue
<1>2. /\ TransitionOn(vm, val) = {e[2] : e \in {d \in live(vm) : val \in Accepts[d[1]]}}
      /\ TransitionOn(v, val) = {e[2] : e \in {d \in live(v) : val \in Accepts[d[1]]}}
  BY DEF TransitionOn
<1> HIDE DEF live
<1> QED BY <1>1, <1>2

(* AddExists only fills an entry that was empty.                           *)
LEMMA AddExistsKeeps ==
  ASSUME Inductive, NEW w \in Writers, AddExists(w)
  PROVE  FmsKept
<1>1. PICK p, k, s : p = Pat(w) /\ k = writer[w].path /\ s = Head(writer[w].states)
  OBVIOUS
<1>2. PICK kind, via, old, to, new :
        /\ kind = p.cond[k].kind /\ via = [fms[s].via EXCEPT ![k] = kind]
        /\ old = IF kind = "exists" THEN fms[s].exists[k] ELSE fms[s].absent[k]
        /\ to = IF old # Nil THEN old ELSE Len(fms) + 1
        /\ new = NewFieldMatcher(via)
  BY ZenonT(60)
<1>3. /\ writer[w].pc = "build" /\ kind # "vals" /\ EntryMade(s, k, kind, old, to, new)
  BY <1>1, <1>2, ZenonT(60) DEF AddExists, EntryMade
<1>4. /\ k \in Paths /\ kind \in {"exists", "absent"}
      /\ s \in 1..Len(fms) /\ fms[s] \in FmFields /\ Len(fms) \in Nat
      /\ fms \in Seq(FmFields)
  BY <1>1, <1>2, <1>3, CurrentState, ZenonT(60) DEF Inductive, TypeOK, HeapOK
<1>5. CASE old # Nil
  BY <1>3, <1>5, SameFms DEF EntryMade
<1>6. CASE old = Nil
  <2>1. to = Len(fms) + 1 /\ to \in Nat
    BY <1>2, <1>4, <1>6
  <2>2. PICK fs : fs = IF kind = "exists" THEN [fms[s] EXCEPT !.exists[k] = to]
                       ELSE [fms[s] EXCEPT !.absent[k] = to]
    OBVIOUS
  <2>3. fs \in FmFields /\ WithEntry(fs, fms[s], k, kind, to)
    BY <1>4, <2>1, <2>2, EntryStored
  <2>4. new \in FmFields
    <3>1. via \in Via
      BY <1>2, <1>4 DEF FmFields, Via
    <3> QED BY <1>2, <3>1, NewFieldMatcherType
  <2>5. Append(fms, new)[s] = fms[s]
    BY <1>4, <2>4, AppendProperties
  <2>6. fms' = [Append(fms, new) EXCEPT ![s] = fs]
    BY <1>3, <1>6, <2>2, <2>5 DEF EntryMade
  <2>7. Extended(s, fs, new)
    BY <1>4, <2>3, <2>4, <2>6, ExtendedBy
  <2>8. /\ fs.matches = fms[s].matches /\ fs.trans = fms[s].trans
        /\ Keeps(fms[s].exists, fs.exists) /\ Keeps(fms[s].absent, fs.absent)
    BY <1>2, <1>4, <1>6, <2>3 DEF WithEntry, Keeps
  <2> QED BY <2>7, <2>8 DEF Extended, FmsKept, Keeps
<1> QED BY <1>5, <1>6

(* AddValue keeps the transitions of the valueMatcher it changes.          *)
LEMMA AddValueKeeps ==
  ASSUME Inductive, NEW w \in Writers, AddValue(w)
  PROVE  FmsKept /\ VmsKept
<1>1. PICK p, k, s, m, pv, vm, via, new :
        /\ p = Pat(w) /\ k = writer[w].path /\ s = Head(writer[w].states)
        /\ m = writer[w].vm /\ pv = p.cond[k].vals[writer[w].val]
        /\ vm = vms[m] /\ via = [fms[s].via EXCEPT ![k] = pv]
        /\ new = NewFieldMatcher(via)
  OBVIOUS
<1>2. \/ UNCHANGED <<fms, vms>>
      \/ ValueStored(m, WithValue(vm, pv, Len(fms) + 1), new)
  BY <1>1, ZenonT(60) DEF AddValue, ValueStored
<1>3. fms \in Seq(FmFields) /\ vms \in Seq(VmFields)
  BY DEF Inductive, TypeOK, HeapOK
<1>4. CASE UNCHANGED <<fms, vms>>
  BY <1>4, SameFms, SameVms
<1>5. CASE ValueStored(m, WithValue(vm, pv, Len(fms) + 1), new)
  <2>1. PICK v, to : to = Len(fms) + 1 /\ v = WithValue(vm, pv, to)
    OBVIOUS
  <2>2. fms' = Append(fms, new) /\ vms' = [vms EXCEPT ![m] = v]
    BY <1>5, <2>1 DEF ValueStored
  <2>3. \A n \in 1..Len(fms) : fms'[n] = fms[n]
    BY <1>3, <2>2, AppendProperties
  <2>4. \A n \in 1..Len(vms) : vms'[n] = IF n = m THEN v ELSE vms[n]
    BY <1>3, <2>2
  <2>5. ASSUME NEW n \in 1..Len(vms), NEW val \in Values
        PROVE  TransitionOn(vms[n], val) \subseteq TransitionOn(vms'[n], val)
    <3>1. CASE n = m
      <4>1. vm \in VmFields
        BY <1>1, <1>3, <3>1, ElementOfSeq
      <4>2. TransitionOn(vm, val) \subseteq TransitionOn(v, val)
        BY <2>1, <4>1, WithValueKeeps
      <4>3. vms[n] = vm /\ vms'[n] = v
        BY <1>1, <2>4, <3>1
      <4> QED BY <4>2, <4>3
    <3>2. CASE n # m
      BY <2>4, <3>2
    <3> QED BY <3>1, <3>2, SMTT(60)
  <2> QED BY <2>3, <2>5, SameFms DEF VmsKept
<1> QED BY <1>2, <1>4, <1>5

(* A step of any call keeps what is there.                                 *)
LEMMA StepRetains ==
  ASSUME Inductive, Next
  PROVE  Retained
<1>1. FmsKept /\ VmsKept /\ core.tree \subseteq core'.tree => Retained
  BY ZenonT(60) DEF FmsKept, VmsKept, Retained
<1>2. fms \in Seq(FmFields) /\ vms \in Seq(VmFields)
  BY DEF Inductive, TypeOK, HeapOK
<1>3. ASSUME UNCHANGED <<core, fms, vms>>
      PROVE  Retained
  BY <1>1, <1>3, SameFms, SameVms
<1>4. ASSUME NEW r \in Readers, ReaderStep(r)
      PROVE  UNCHANGED <<core, fms, vms>>
  BY <1>4, ReaderStepLocal
<1>5. ASSUME NEW w \in Writers, WriterStep(w)
      PROVE  Retained
  <2>1. CASE Acquire(w) \/ Panic(w) \/ Unlock(w)
    BY <1>3, <2>1 DEF Acquire, Panic, Unlock
  <2>2. CASE AddExists(w)
    <3>1. core' = core /\ vms' = vms
      BY <2>2, ZenonT(60) DEF AddExists
    <3> QED BY <1>1, <2>2, <3>1, AddExistsKeeps, SameVms, SMTT(60)
  <2>3. CASE FindValueMatcher(w)
    <3>1. PICK new : /\ core' = core /\ fms' = fms
                     /\ vms' = vms \/ vms' = Append(vms, new)
      BY <2>3 DEF FindValueMatcher
    <3>2. \A n \in 1..Len(vms) : vms'[n] = vms[n]
      BY <1>2, <3>1, AppendProperties
    <3> QED BY <1>1, <3>1, <3>2, SameFms, SameVms, SMTT(60)
  <2>4. CASE AddValue(w)
    <3>1. core' = core
      BY <2>4, ZenonT(60) DEF AddValue
    <3> QED BY <1>1, <2>4, <3>1, AddValueKeeps, SMTT(60)
  <2>5. CASE PublishTransition(w)
    <3>1. PICK s, k, vm : s = Head(writer[w].states) /\ k = writer[w].path /\ vm = writer[w].vm
      OBVIOUS
    <3>2. /\ writer[w].pc = "values" /\ core' = core /\ vms' = vms
          /\ fms' = [fms EXCEPT ![s].trans[k] = vm]
      BY <2>5, <3>1 DEF PublishTransition
    <3>3. s \in 1..Len(fms) /\ fms[s] \in FmFields /\ k \in Paths
      BY <3>1, <3>2, CurrentState, SMTT(60)
    <3>4. fms[s].trans[k] \in {Nil, vm}
      BY <3>1, <3>2 DEF Inductive, WriterInv, AtWork
    <3>5. \A n \in 1..Len(fms) : n # s => fms'[n] = fms[n]
      BY <1>2, <3>2
    <3>6. PICK fs : fs = [fms[s] EXCEPT !.trans[k] = vm]
      OBVIOUS
    <3>7. fms'[s] = fs
      <4>1. fms' = [fms EXCEPT ![s] = fs]
        BY <3>2, <3>6
      <4> QED BY <1>2, <3>3, <4>1
    <3>8. /\ fms'[s].matches = fms[s].matches
          /\ fms'[s].exists = fms[s].exists /\ fms'[s].absent = fms[s].absent
          /\ fms'[s].trans = [fms[s].trans EXCEPT ![k] = vm]
          /\ fms[s].trans \in [Paths -> Nat]
      BY <3>3, <3>6, <3>7 DEF FmFields
    <3>9. Keeps(fms[s].trans, fms'[s].trans)
      BY <3>3, <3>4, <3>8 DEF Keeps
    <3>10. FmsKept
      BY <3>5, <3>8, <3>9 DEF FmsKept, Keeps
    <3> QED BY <1>1, <3>2, <3>10, SameVms
  <2>6. CASE AddMatch(w)
    <3>1. PICK s, x : s = Head(writer[w].states) /\ x = Pat(w).x
      OBVIOUS
    <3>2. /\ core' = core /\ vms' = vms
          /\ fms' = [fms EXCEPT ![s].matches = @ \cup {x}]
      BY <2>6, <3>1 DEF AddMatch
    <3>3. \A n \in 1..Len(fms) :
             fms'[n] = IF n = s THEN [fms[s] EXCEPT !.matches = @ \cup {x}] ELSE fms[n]
      BY <1>2, <3>2
    <3>4. \A n \in 1..Len(fms) :
             /\ fms[n].matches \subseteq fms'[n].matches /\ fms'[n].trans = fms[n].trans
             /\ fms'[n].exists = fms[n].exists /\ fms'[n].absent = fms[n].absent
      <4>1. \A n \in 1..Len(fms) : fms[n] \in FmFields
        BY <1>2, ElementOfSeq
      <4> QED BY <3>3, <4>1, ZenonT(60) DEF FmFields
    <3>5. FmsKept
      BY <3>4 DEF FmsKept, Keeps
    <3> QED BY <1>1, <3>2, <3>5, SameVms
  <2>7. CASE StoreCore(w)
    <3>1. /\ writer[w].pc = "ends" /\ core' = [core EXCEPT !.tree = writer[w].tree]
          /\ fms' = fms /\ vms' = vms
      BY <2>7 DEF StoreCore
    <3>2. core.tree \subseteq writer[w].tree
      BY <3>1 DEF Inductive, WriterInv, AtWork, Building
    <3>3. core \in [state : 1..Len(fms), tree : SUBSET Paths]
      BY DEF Inductive, TypeOK, HeapOK
    <3>4. core'.tree = writer[w].tree
      BY <3>1, <3>3
    <3> QED BY <1>1, <3>1, <3>2, <3>4, SameFms, SameVms
  <2> QED BY <1>5, <2>1, <2>2, <2>3, <2>4, <2>5, <2>6, <2>7 DEF WriterStep
<1> QED BY <1>3, <1>4, <1>5 DEF Next

(* No store takes back a transition, an X or a path that a walk in         *)
(* progress may rely on.                                                   *)
THEOREM NothingIsRetracted == Spec => NothingRetracted
<1>1. Inductive /\ [Next]_vars => [Retained]_vars
  BY StepRetains
<1> QED BY <1>1, InductiveInvariant, PTL DEF Spec, NothingRetracted
=============================================================================
