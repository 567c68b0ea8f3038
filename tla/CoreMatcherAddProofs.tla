------------------------- MODULE CoreMatcherAddProofs -------------------------
(***************************************************************************)
(* Every step of an AddPattern call preserves Inductive, the inductive     *)
(* invariant of CoreMatcher, for all constants.                            *)
(***************************************************************************)
EXTENDS CoreMatcherInv, FiniteSetTheorems, SequenceTheorems, TLAPS

(* Every non-empty set of naturals has a least element: the 0..n of its    *)
(* elements are finite sets, and strict inclusion of those is well-founded. *)
LEMMA LeastNat ==
  ASSUME NEW T, T \subseteq Nat, T # {}
  PROVE  \E x \in T : \A y \in T : x <= y
<1> DEFINE U == {0 .. n : n \in T}
<1>1. U \subseteq FiniteSubsetsOf(Nat) /\ U # {}
  <2>1. \A n \in T : IsFiniteSet(0 .. n) /\ 0 .. n \subseteq Nat
    BY FS_Interval
  <2> QED BY <2>1 DEF FiniteSubsetsOf
<1>2. \E u \in U : \A v \in U : ~ (<<v, u>> \in StrictSubsetOrdering(Nat))
  <2> HIDE DEF U
  <2> QED BY <1>1, FS_StrictSubsetOrderingWellFounded, WFMin
<1>3. PICK x \in T : \A y \in T : ~ (<<0 .. y, 0 .. x>> \in StrictSubsetOrdering(Nat))
  BY <1>2
<1>4. \A y \in T : y < x => <<0 .. y, 0 .. x>> \in StrictSubsetOrdering(Nat)
  BY DEF StrictSubsetOrdering
<1>5. \A y \in T : ~ (y < x)
  BY <1>3, <1>4
<1> QED
  <2> HIDE DEF U
  <2> QED BY <1>5

-----------------------------------------------------------------------------
(* What the loops of addFieldsLocked do next.                              *)
LEMMA NextPathShape ==
  ASSUME NEW p \in Patterns, NEW k \in Nat, NEW states,
         NEW pos, pos = NextPath(p, k, states)
  PROVE  /\ pos.states = states
         /\ pos.next = <<>>
         /\ \/ /\ pos.pc = "ends" /\ pos.path = k
               /\ \A l \in Constrained(p) : l <= k
            \/ /\ pos.pc = "build" /\ pos.path \in Constrained(p) /\ pos.path > k
               /\ \A l \in Constrained(p) : l > k => pos.path <= l
<1> DEFINE later == {l \in Constrained(p) : l > k}
           least == CHOOSE l \in later : \A m \in later : l <= m
<1>1. Constrained(p) \subseteq Nat
  BY PatternAssumption DEF Constrained
<1>2. CASE later = {}
  <2>1. pos = [pc |-> "ends", path |-> k, states |-> states, next |-> <<>>]
    BY <1>2 DEF NextPath
  <2> QED BY <2>1, <1>1, <1>2
<1>3. CASE later # {}
  <2>1. \E l \in later : \A m \in later : l <= m
    BY <1>1, <1>3, LeastNat
  <2>2. least \in later /\ \A m \in later : least <= m
    BY <2>1
  <2>3. pos = [pc |-> "build", path |-> least, states |-> states, next |-> <<>>]
    BY <1>3 DEF NextPath
  <2> QED BY <2>2, <2>3
<1> QED BY <1>2, <1>3

(* The loop over the states goes on with the rest of them, and when none   *)
(* is left on to the next path, with the states reached.                   *)
LEMMA NextStateShape ==
  ASSUME NEW p \in Patterns, NEW k \in Constrained(p), NEW S,
         NEW states \in Seq(S), NEW next \in Seq(S), next # <<>>,
         NEW pos, pos = NextState(p, k, states, next)
  PROVE  /\ pos.pc \in {"build", "ends"}
         /\ pos.path \in Constrained(p)
         /\ pos.states \in Seq(S) /\ pos.next \in Seq(S)
         /\ pos.states # <<>>
         /\ \/ /\ pos.pc = "build" /\ pos.path = k
               /\ pos.states = states /\ pos.next = next
            \/ /\ pos.pc = "build" /\ pos.states = next /\ pos.next = <<>>
               /\ pos.path > k
               /\ \A l \in Constrained(p) : l > k => pos.path <= l
            \/ /\ pos.pc = "ends" /\ pos.states = next
               /\ \A l \in Constrained(p) : l <= k
<1>1. k \in Nat
  BY PatternAssumption DEF Constrained
<1>2. CASE states = <<>>
  <2>1. pos = NextPath(p, k, next)
    BY <1>2 DEF NextState
  <2>2. /\ pos.states = next /\ pos.next = <<>>
        /\ \/ /\ pos.pc = "ends" /\ pos.path = k
              /\ \A l \in Constrained(p) : l <= k
           \/ /\ pos.pc = "build" /\ pos.path \in Constrained(p) /\ pos.path > k
              /\ \A l \in Constrained(p) : l > k => pos.path <= l
    BY <2>1, <1>1, NextPathShape
  <2> QED BY <2>2
<1>3. CASE states # <<>>
  <2>1. pos = [pc |-> "build", path |-> k, states |-> states, next |-> next]
    BY <1>3 DEF NextState
  <2> QED BY <2>1, <1>3
<1> QED BY <1>2, <1>3

-----------------------------------------------------------------------------
(* A step of an AddPattern call never takes an allocated matcher away nor  *)
(* changes its label.                                                      *)
Grows ==
    /\ Len(fms) <= Len(fms') /\ Len(vms) <= Len(vms')
    /\ \A n \in 1..Len(fms) : fms'[n].via = fms[n].via
    /\ \A n \in 1..Len(vms) : vms'[n].via = vms[n].via /\ vms'[n].path = vms[n].path

(* Both heaps have a length, before and after a step.                      *)
LEMMA LenType ==
  /\ HeapOK => Len(fms) \in Nat /\ Len(vms) \in Nat
  /\ HeapOK' => Len(fms') \in Nat /\ Len(vms') \in Nat
BY LenProperties DEF HeapOK

(* Locals that are well typed stay so when the heap grows.                 *)
LEMMA LocalsGrow ==
  ASSUME HeapOK, HeapOK', Grows
  PROVE  WriterLocals \subseteq WriterLocals'
<1>1. 1..Len(fms) \subseteq 1..Len(fms') /\ 0..Len(vms) \subseteq 0..Len(vms')
  BY LenType DEF Grows
<1>2. Seq(1..Len(fms)) \subseteq Seq(1..Len(fms)')
  BY <1>1, SeqMonotonic
<1> QED BY <1>1, <1>2 DEF WriterLocals

(* Loops that are well typed stay so when the heap grows.                  *)
LEMMA FramesGrow ==
  ASSUME HeapOK, HeapOK', Grows, NEW kept
  PROVE  Seq(Frames(kept)) \subseteq Seq(Frames(kept)')
<1>1. 1..Len(fms) \subseteq 1..Len(fms') /\ 1..Len(vms) \subseteq 1..Len(vms')
  BY LenType DEF Grows
<1>2. Frames(kept) \subseteq Frames(kept)'
  BY <1>1 DEF Frames
<1> QED BY <1>2, SeqMonotonic

(* Nothing a match call has established is lost when the heap grows.       *)
LEMMA ReadersKeep ==
  ASSUME Inductive, HeapOK', Grows, Arrived \subseteq Arrived', reader' = reader
  PROVE  (\A r \in Readers : AgendaOK(r))' /\ ReaderInv'
<1> SUFFICES ASSUME NEW r \in Readers
             PROVE  AgendaOK(r)' /\ AgendaMet(r)' /\ FoundArrived(r)'
  BY DEF ReaderInv
<1>1. AgendaOK(r)'
  BY FramesGrow DEF Inductive, TypeOK, AgendaOK
<1>2. AgendaMet(r)'
  <2> SUFFICES ASSUME NEW n \in 1..Len(reader[r].agenda)
               PROVE  FrameMet(reader[r].agenda[n], r)'
    BY DEF AgendaMet
  <2>1. reader[r].agenda[n] \in Frames(reader[r].kept)
    BY ElementOfSeq DEF Inductive, TypeOK, AgendaOK
  <2>2. FrameMet(reader[r].agenda[n], r)
    BY DEF Inductive, ReaderInv, AgendaMet
  <2>3. \A via : Met(via, r)' = Met(via, r)
    BY DEF Met, PathAt, HasPath
  <2> QED BY <2>1, <2>2, <2>3, ZenonT(60) DEF Grows, Frames, FrameMet, PathAt
<1>3. FoundArrived(r)'
  <2>1. FoundArrived(r)
    BY DEF Inductive, ReaderInv
  <2>2. \A p : MeetsConditions(p, r)' = MeetsConditions(p, r)
    BY DEF MeetsConditions, HasPath, PathAt
  <2> QED BY <2>1, <2>2 DEF FoundArrived
<1> QED BY <1>1, <1>2, <1>3

(* A Pattern that has reached the end states stays there.                  *)
LEMMA ArrivedGrows ==
  ASSUME Inductive, NEW w \in Writers,
         writer' = [writer EXCEPT ![w] = writer'[w]],
         writer[w].pc \in {"ends", "stored", "done"} =>
            /\ writer'[w].pc \in {"ends", "stored", "done"}
            /\ writer'[w].pattern = writer[w].pattern
  PROVE  Arrived \subseteq Arrived'
<1> SUFFICES ASSUME NEW v \in Writers, writer[v].pc \in {"ends", "stored", "done"}
             PROVE  /\ writer'[v].pc \in {"ends", "stored", "done"}
                    /\ writer'[v].pattern = writer[v].pattern
  BY DEF Arrived
<1> QED BY DEF Inductive, TypeOK

(* The invariant after a step of the call w, from what the step does to    *)
(* the heap and to the locals of w: only the holder of the lock is at work, *)
(* so the other calls have nothing to lose.                                *)
LEMMA StepOfWriter ==
  ASSUME Inductive, NEW w \in Writers,
         HeapOK', HeapLabelled', EndsArrived', Grows,
         Arrived \subseteq Arrived', reader' = reader,
         lock \in {w, NoWriter}, lock' \in {w, NoWriter},
         writer' = [writer EXCEPT ![w] = writer'[w]],
         writer'[w] \in WriterLocals',
         writer'[w].pc \in Building <=> lock' = w,
         AtWork(w)', StatesLabelled(w)'
  PROVE  Inductive'
<1>1. writer \in [Writers -> WriterLocals] /\ OneBuilder /\ WriterInv /\ HeapOK
  BY DEF Inductive, TypeOK
<1>2. \A v \in Writers \ {w} : writer'[v] = writer[v] /\ writer[v].pc \notin Building
  BY <1>1, WriterAssumption DEF OneBuilder
<1>3. writer' \in [Writers -> WriterLocals']
  BY <1>1, LocalsGrow
<1>4. TypeOK'
  BY <1>3, ReadersKeep DEF Inductive, TypeOK
<1>5. OneBuilder'
  BY <1>2, WriterAssumption DEF OneBuilder
<1>6. WriterInv'
  <2> SUFFICES ASSUME NEW v \in Writers \ {w}
               PROVE  AtWork(v)' /\ StatesLabelled(v)'
    BY DEF WriterInv
  <2>1. AtWork(v)
    BY <1>1 DEF WriterInv
  <2>2. AtWork(v)'
    BY <1>2, <2>1 DEF AtWork, Building
  <2>3. StatesLabelled(v)'
    BY <1>2 DEF StatesLabelled, Building
  <2> QED BY <2>2, <2>3
<1> QED BY <1>4, <1>5, <1>6, ReadersKeep DEF Inductive

-----------------------------------------------------------------------------
(* The locals of a call at work.                                           *)
LEMMA PatternAtWork ==
  ASSUME Inductive, NEW w \in Writers, writer[w].pc # "idle"
  PROVE  /\ Pat(w) \in Patterns
         /\ writer[w].pattern = {Pat(w)}
         /\ writer[w] \in WriterLocals
<1>1. PICK p \in Patterns : writer[w].pattern = {p}
  BY DEF Inductive, WriterInv, AtWork
<1>2. Pat(w) = p
  BY <1>1 DEF Pat
<1> QED BY <1>1, <1>2 DEF Inductive, TypeOK

(* A label that has the conditions up to k has those below the next        *)
(* constrained path.                                                       *)
LEMMA UptoIsBelow ==
  ASSUME NEW via, NEW p \in Patterns, NEW k \in Nat, ChoosesUpto(via, p, k),
         NEW path \in Nat, path > k, \A l \in Constrained(p) : l > k => path <= l
  PROVE  ChoosesBelow(via, p, path)
<1> SUFFICES ASSUME NEW l \in Paths
             PROVE  IF l < path THEN ChoosesAt(via, p, l) ELSE via[l] = "free"
  BY DEF ChoosesBelow
<1>1. l \in Nat
  BY PatternAssumption
<1>2. IF l <= k THEN ChoosesAt(via, p, l) ELSE via[l] = "free"
  BY DEF ChoosesUpto
<1>3. CASE l <= k
  BY <1>1, <1>2, <1>3
<1>4. CASE ~ (l <= k) /\ l < path
  <2>1. l \notin Constrained(p)
    BY <1>1, <1>4
  <2> QED BY <2>1, <1>2, <1>4 DEF ChoosesAt
<1>5. CASE ~ (l < path)
  BY <1>1, <1>2, <1>5
<1> QED BY <1>3, <1>4, <1>5

(* A label that has the conditions up to the last constrained path has     *)
(* them all.                                                               *)
LEMMA UptoIsAll ==
  ASSUME NEW via, NEW p \in Patterns, NEW k \in Nat, ChoosesUpto(via, p, k),
         \A l \in Constrained(p) : l <= k
  PROVE  Chooses(via, p)
BY PatternAssumption DEF ChoosesUpto, Chooses, ChoosesAt

(* The end of the work on one state: on to the next state, path or end.    *)
LEMMA GotoStep ==
  ASSUME Inductive, NEW w \in Writers, writer[w].pc \in {"build", "values"},
         HeapOK', Grows, core' = core,
         NEW next \in Seq(1..Len(fms')), next # <<>>,
         \A i \in 1..Len(next) :
            ChoosesUpto(fms'[next[i]].via, Pat(w), writer[w].path),
         Goto(w, NextState(Pat(w), writer[w].path, Tail(writer[w].states), next))
  PROVE  /\ writer' = [writer EXCEPT ![w] = writer'[w]]
         /\ writer'[w] \in WriterLocals'
         /\ writer'[w].pc \in {"build", "ends"}
         /\ AtWork(w)' /\ StatesLabelled(w)'
<1> DEFINE me == writer[w]
           p == Pat(w)
           pos == NextState(p, me.path, Tail(me.states), next)
<1>1. p \in Patterns /\ me.pattern = {p} /\ me \in WriterLocals
  BY PatternAtWork
<1>2. AtWork(w) /\ StatesLabelled(w)
  BY DEF Inductive, WriterInv
<1>3. me.path \in Constrained(p) /\ me.states # <<>> /\ core.tree \subseteq me.tree
  BY <1>2 DEF AtWork, Building
<1>4. me.path \in Nat /\ Constrained(p) \subseteq Paths /\ Paths \subseteq Nat
  BY <1>3, PatternAssumption DEF Constrained
<1>5. Tail(me.states) \in Seq(1..Len(fms'))
  <2>1. me.states \in Seq(1..Len(fms'))
    BY <1>1, LocalsGrow DEF Inductive, TypeOK, WriterLocals
  <2> QED BY <2>1, <1>3, HeadTailProperties
<1>6. /\ pos.pc \in {"build", "ends"}
      /\ pos.path \in Constrained(p)
      /\ pos.states \in Seq(1..Len(fms')) /\ pos.next \in Seq(1..Len(fms'))
      /\ pos.states # <<>>
      /\ \/ /\ pos.pc = "build" /\ pos.path = me.path
            /\ pos.states = Tail(me.states) /\ pos.next = next
         \/ /\ pos.pc = "build" /\ pos.states = next /\ pos.next = <<>>
            /\ pos.path > me.path
            /\ \A l \in Constrained(p) : l > me.path => pos.path <= l
         \/ /\ pos.pc = "ends" /\ pos.states = next
            /\ \A l \in Constrained(p) : l <= me.path
  BY <1>1, <1>3, <1>5, NextStateShape
<1>7. /\ writer' = [writer EXCEPT ![w] = writer'[w]]
      /\ writer'[w] = [me EXCEPT !.pc = pos.pc, !.path = pos.path, !.states = pos.states,
                                 !.next = pos.next, !.val = 1, !.vm = Nil]
  BY DEF Goto, Inductive, TypeOK
<1> HIDE DEF pos
<1>8. /\ writer'[w].pc = pos.pc /\ writer'[w].path = pos.path
      /\ writer'[w].states = pos.states /\ writer'[w].next = pos.next
      /\ writer'[w].pattern = {p} /\ writer'[w].tree = me.tree
  BY <1>1, <1>7 DEF WriterLocals
<1>9. writer'[w] \in WriterLocals'
  <2>1. Len(vms') \in Nat
    BY LenType
  <2>2. writer'[w] = [pc |-> pos.pc, pattern |-> me.pattern, tree |-> me.tree,
                      path |-> pos.path, states |-> pos.states, next |-> pos.next,
                      val |-> 1, vm |-> 0]
    BY <1>1, <1>7 DEF WriterLocals, Nil
  <2>3. me.pattern \in SUBSET Patterns /\ me.tree \in SUBSET Paths
    BY <1>1 DEF WriterLocals
  <2>4. pos.path \in Paths
    BY <1>4, <1>6
  <2> QED BY <1>6, <2>1, <2>2, <2>3, <2>4 DEF WriterLocals
<1>10. Pat(w)' = p
  BY <1>8 DEF Pat
<1>11. AtWork(w)'
  BY <1>1, <1>3, <1>6, <1>8, <1>10 DEF AtWork
<1>12. StatesLabelled(w)'
  <2>1. CASE pos.pc = "build" /\ pos.path = me.path
             /\ pos.states = Tail(me.states) /\ pos.next = next
    <3>1. ASSUME NEW i \in 1..Len(Tail(me.states))
          PROVE  ChoosesBelow(fms'[Tail(me.states)[i]].via, p, me.path)
      <4>1. i + 1 \in 1..Len(me.states) /\ Tail(me.states)[i] = me.states[i + 1]
        BY <1>1, <1>3, HeadTailProperties, SMTT(60) DEF WriterLocals
      <4>2. ChoosesBelow(fms[me.states[i + 1]].via, p, me.path)
        BY <1>2, <4>1 DEF StatesLabelled
      <4>3. me.states[i + 1] \in 1..Len(fms)
        BY <1>1, <4>1, ElementOfSeq DEF WriterLocals
      <4> QED BY <4>1, <4>2, <4>3 DEF Grows
    <3> QED BY <2>1, <3>1, <1>8, <1>10 DEF StatesLabelled
  <2>2. CASE /\ pos.pc = "build" /\ pos.states = next /\ pos.next = <<>>
             /\ pos.path > me.path
             /\ \A l \in Constrained(p) : l > me.path => pos.path <= l
    <3>1. \A i \in 1..Len(next) : ChoosesBelow(fms'[next[i]].via, p, pos.path)
      BY <2>2, <1>1, <1>4, <1>6, UptoIsBelow
    <3> QED BY <2>2, <3>1, <1>8, <1>10 DEF StatesLabelled
  <2>3. CASE /\ pos.pc = "ends" /\ pos.states = next
             /\ \A l \in Constrained(p) : l <= me.path
    <3>1. \A i \in 1..Len(next) : Chooses(fms'[next[i]].via, p)
      BY <2>3, <1>1, <1>4, UptoIsAll
    <3> QED BY <2>3, <3>1, <1>8, <1>10 DEF StatesLabelled
  <2> QED BY <2>1, <2>2, <2>3, <1>6
<1> QED BY <1>6, <1>7, <1>8, <1>9, <1>11, <1>12

-----------------------------------------------------------------------------
(* How the heap changes.                                                   *)
(* The labels of a matcher whose record stays remain right.                *)
LEMMA LabelsKeep ==
  ASSUME HeapOK, HeapOK', HeapLabelled, Grows
  PROVE  /\ \A n \in 1..Len(fms) : \A f : f = fms[n] => FmOK(f)' /\ FmLabelled(f)'
         /\ \A n \in 1..Len(vms) : \A v : v = vms[n] => VmOK(v)' /\ VmLabelled(v)'
<1>1. /\ Len(fms) \in Nat /\ Len(vms) \in Nat
      /\ Len(fms') \in Nat /\ Len(vms') \in Nat
  BY LenType
<1>2. ASSUME NEW n \in 1..Len(fms), NEW f, f = fms[n]
      PROVE  FmOK(f)' /\ FmLabelled(f)'
  <2>1. FmOK(f) /\ FmLabelled(f)
    BY <1>2 DEF HeapOK, HeapLabelled
  <2>2. FmOK(f)'
    BY <1>1, <2>1 DEF FmOK, Grows
  <2>3. FmLabelled(f)'
    <3> SUFFICES ASSUME NEW k \in Paths
                 PROVE  /\ f.exists[k] # Nil => fms'[f.exists[k]].via = [f.via EXCEPT ![k] = "exists"]
                        /\ f.absent[k] # Nil => fms'[f.absent[k]].via = [f.via EXCEPT ![k] = "absent"]
                        /\ f.trans[k] # Nil => vms'[f.trans[k]].via = f.via /\ vms'[f.trans[k]].path = k
      BY DEF FmLabelled
    <3>1. /\ f.exists[k] # Nil => f.exists[k] \in 1..Len(fms)
          /\ f.absent[k] # Nil => f.absent[k] \in 1..Len(fms)
          /\ f.trans[k] # Nil => f.trans[k] \in 1..Len(vms)
      BY <1>1, <2>1 DEF FmOK, Nil
    <3>2. /\ f.exists[k] # Nil => fms[f.exists[k]].via = [f.via EXCEPT ![k] = "exists"]
          /\ f.absent[k] # Nil => fms[f.absent[k]].via = [f.via EXCEPT ![k] = "absent"]
          /\ f.trans[k] # Nil => vms[f.trans[k]].via = f.via /\ vms[f.trans[k]].path = k
      BY <2>1 DEF FmLabelled
    <3> QED BY <3>1, <3>2 DEF Grows
  <2> QED BY <2>2, <2>3
<1>3. ASSUME NEW n \in 1..Len(vms), NEW v, v = vms[n]
      PROVE  VmOK(v)' /\ VmLabelled(v)'
  <2>1. VmOK(v) /\ VmLabelled(v)
    BY <1>3 DEF HeapOK, HeapLabelled
  <2>2. VmOK(v)'
    BY <1>1, <2>1 DEF VmOK, Grows
  <2>3. VmLabelled(v)'
    BY <1>1, <2>1 DEF VmOK, VmLabelled, Grows
  <2> QED BY <2>2, <2>3
<1> QED BY <1>2, <1>3

(* Matchers that keep their X and their label, and new ones without X,     *)
(* leave the end states justified.                                         *)
LEMMA EndsKeep ==
  ASSUME EndsArrived, Arrived \subseteq Arrived',
         \A n \in 1..Len(fms') :
            \/ fms'[n].matches = {}
            \/ /\ n \in 1..Len(fms)
               /\ fms'[n].matches = fms[n].matches /\ fms'[n].via = fms[n].via
  PROVE  EndsArrived'
BY DEF EndsArrived, Chooses, ChoosesAt

(* One more condition.                                                     *)
LEMMA BelowIsUpto ==
  ASSUME NEW via \in Via, NEW p \in Patterns, NEW k \in Constrained(p), NEW c,
         ChoosesBelow(via, p, k),
         IF p.cond[k].kind = "vals" THEN c \in PValsOf(p, k) ELSE c = p.cond[k].kind
  PROVE  ChoosesUpto([via EXCEPT ![k] = c], p, k)
<1> SUFFICES ASSUME NEW l \in Paths
             PROVE  IF l <= k THEN ChoosesAt([via EXCEPT ![k] = c], p, l)
                    ELSE [via EXCEPT ![k] = c][l] = "free"
  BY DEF ChoosesUpto
<1>1. l \in Nat /\ k \in Nat /\ k \in Paths
  BY PatternAssumption DEF Constrained
<1>2. IF l < k THEN ChoosesAt(via, p, l) ELSE via[l] = "free"
  BY DEF ChoosesBelow
<1>3. CASE l = k
  BY <1>1, <1>3 DEF ChoosesAt, Via
<1>4. CASE l # k
  <2>1. [via EXCEPT ![k] = c][l] = via[l]
    BY <1>4 DEF Via
  <2> QED BY <1>1, <1>2, <1>4, <2>1 DEF ChoosesAt
<1> QED BY <1>3, <1>4

-----------------------------------------------------------------------------
(* The state and the condition a call is at work on.                       *)
LEMMA CurrentState ==
  ASSUME Inductive, NEW w \in Writers, writer[w].pc \in {"build", "values"},
         NEW s, s = Head(writer[w].states), NEW p, p = Pat(w),
         NEW k, k = writer[w].path
  PROVE  /\ p \in Patterns /\ k \in Constrained(p) /\ k \in Paths
         /\ p.cond[k] \in Cond /\ p.cond[k].kind \in {"exists", "absent", "vals"}
         /\ p.x \in Xs
         /\ s \in 1..Len(fms) /\ fms[s] \in FmFields
         /\ FmOK(fms[s]) /\ FmLabelled(fms[s])
         /\ ChoosesBelow(fms[s].via, p, k)
         /\ lock = w /\ Len(fms) \in Nat /\ Len(vms) \in Nat
<1>1. p \in Patterns /\ writer[w] \in WriterLocals
  BY PatternAtWork
<1>2. AtWork(w) /\ StatesLabelled(w) /\ HeapOK
  BY DEF Inductive, WriterInv, TypeOK
<1>3. k \in Constrained(p) /\ writer[w].states # <<>>
  BY <1>2 DEF AtWork
<1>4. k \in Paths /\ p.cond[k].kind \in {"exists", "absent", "vals"}
  BY <1>3 DEF Constrained
<1>5. p.cond[k] \in Cond /\ p.x \in Xs
  BY <1>1, <1>4, PatternAssumption DEF Pattern
<1>6. /\ s \in 1..Len(fms) /\ s = writer[w].states[1]
      /\ 1 \in 1..Len(writer[w].states)
  <2>1. writer[w].states \in Seq(1..Len(fms))
    BY <1>1 DEF WriterLocals
  <2>2. Len(writer[w].states) \in Nat \ {0}
    BY <2>1, <1>3, EmptySeq
  <2> QED BY <2>1, <2>2, <1>3, HeadTailProperties, ElementOfSeq
<1>7. fms[s] \in FmFields /\ FmOK(fms[s]) /\ FmLabelled(fms[s])
  BY <1>2, <1>6, ElementOfSeq DEF Inductive, HeapOK, HeapLabelled
<1>8. ChoosesBelow(fms[s].via, p, k)
  BY <1>2, <1>6 DEF StatesLabelled
<1>9. lock = w
  BY DEF Inductive, OneBuilder, Building
<1> QED BY <1>1, <1>2, <1>3, <1>4, <1>5, <1>6, <1>7, <1>8, <1>9, LenType

(* A sequence that has been appended to is not empty.                      *)
LEMMA AppendNotEmpty ==
  ASSUME NEW S, NEW q \in Seq(S), NEW e \in S
  PROVE  Append(q, e) # <<>>
<1>1. Len(Append(q, e)) = Len(q) + 1 /\ Len(q) \in Nat
  BY AppendProperties, LenProperties
<1> QED BY <1>1

(* The states the current one has led to so far, and one more.             *)
LEMMA NextLabelled ==
  ASSUME Inductive, NEW w \in Writers, writer[w].pc \in {"build", "values"},
         HeapOK', Grows, NEW to \in 1..Len(fms'),
         ChoosesUpto(fms'[to].via, Pat(w), writer[w].path),
         NEW next, next = Append(writer[w].next, to)
  PROVE  /\ next \in Seq(1..Len(fms')) /\ next # <<>>
         /\ \A i \in 1..Len(next) :
                ChoosesUpto(fms'[next[i]].via, Pat(w), writer[w].path)
<1> DEFINE old == writer[w].next
<1>1. old \in Seq(1..Len(fms)) /\ old \in Seq(1..Len(fms'))
  BY PatternAtWork, LocalsGrow DEF WriterLocals, Inductive, TypeOK
<1>2. \A i \in 1..Len(old) : ChoosesUpto(fms'[old[i]].via, Pat(w), writer[w].path)
  <2> TAKE i \in 1..Len(old)
  <2>1. ChoosesUpto(fms[old[i]].via, Pat(w), writer[w].path)
    BY DEF Inductive, WriterInv, StatesLabelled
  <2>2. old[i] \in 1..Len(fms)
    BY <1>1, ElementOfSeq
  <2> QED BY <2>1, <2>2 DEF Grows
<1> HIDE DEF old
<1>3. /\ next \in Seq(1..Len(fms')) /\ Len(next) = Len(old) + 1
      /\ \A i \in 1..Len(old) : next[i] = old[i]
      /\ next[Len(old) + 1] = to
  BY <1>1, AppendProperties DEF old
<1>4. Len(old) \in Nat
  BY <1>1, LenProperties
<1>5. next # <<>>
  BY <1>1, AppendNotEmpty DEF old
<1> QED BY <1>2, <1>3, <1>4, <1>5, SMTT(60)

-----------------------------------------------------------------------------
(* A new fieldMatcher is empty.                                            *)
LEMMA NewFieldMatcherType ==
  ASSUME NEW via \in Via, NEW f, f = NewFieldMatcher(via)
  PROVE  /\ f \in FmFields /\ f.via = via /\ f.matches = {}
         /\ \A k \in Paths : f.trans[k] = Nil /\ f.exists[k] = Nil /\ f.absent[k] = Nil
BY DEF NewFieldMatcher, FmFields, Nil

(* The heap after a step that leaves every record as it is, is new and     *)
(* empty, or is the one the step is about.                                 *)
Blank(f) == \A k \in Paths : f.trans[k] = Nil /\ f.exists[k] = Nil /\ f.absent[k] = Nil

(* The heap stays well typed and labelled if this holds of the one         *)
(* fieldMatcher and the one valueMatcher a step is about.                  *)
LEMMA HeapStep ==
  ASSUME HeapOK, HeapLabelled, Grows,
         core'.state = core.state, core' \in [state : Nat, tree : SUBSET Paths],
         fms' \in Seq(FmFields), vms' \in Seq(VmFields),
         NEW s, NEW v,
         \A n \in 1..Len(fms') : \/ n \in 1..Len(fms) /\ fms'[n] = fms[n]
                                 \/ Blank(fms'[n])
                                 \/ n = s,
         s \in 1..Len(fms') => FmOK(fms[s])' /\ FmLabelled(fms[s])',
         \A n \in 1..Len(vms') : \/ n \in 1..Len(vms) /\ vms'[n] = vms[n]
                                 \/ Edges(vms'[n]) = {}
                                 \/ n = v,
         v \in 1..Len(vms') => VmOK(vms[v])' /\ VmLabelled(vms[v])'
  PROVE  HeapOK' /\ HeapLabelled'
<1>1. /\ Len(fms) \in Nat /\ Len(vms) \in Nat /\ Len(fms') \in Nat /\ Len(vms') \in Nat
  BY LenType, LenProperties
<1>2. ASSUME NEW n \in 1..Len(fms'), Blank(fms'[n])
      PROVE  FmOK(fms[n])' /\ FmLabelled(fms[n])'
  BY <1>1, <1>2 DEF Blank, FmOK, FmLabelled, Nil
<1>3. ASSUME NEW n \in 1..Len(vms'), Edges(vms'[n]) = {}
      PROVE  VmOK(vms[n])' /\ VmLabelled(vms[n])'
  BY <1>3 DEF VmOK, VmLabelled, Edges
<1>4. core' \in [state : 1..Len(fms'), tree : SUBSET Paths]
  BY <1>1 DEF HeapOK, Grows
<1>5. HeapOK'
  <2>1. ASSUME NEW n \in 1..Len(fms')
        PROVE  FmOK(fms[n])'
    <3>1. CASE n \in 1..Len(fms) /\ fms'[n] = fms[n]
      <4>1. FmOK(fms[n])
        BY <3>1 DEF HeapOK
      <4> QED BY <1>1, <3>1, <4>1 DEF FmOK, Grows
    <3> QED BY <1>2, <3>1
  <2>2. ASSUME NEW n \in 1..Len(vms')
        PROVE  VmOK(vms[n])'
    <3>1. CASE n \in 1..Len(vms) /\ vms'[n] = vms[n]
      <4>1. VmOK(vms[n])
        BY <3>1 DEF HeapOK
      <4> QED BY <1>1, <3>1, <4>1 DEF VmOK, Edges, Grows
    <3> QED BY <1>3, <3>1
  <2> QED BY <1>4, <2>1, <2>2 DEF HeapOK
<1>6. HeapLabelled'
  <2>1. core'.state = Root /\ fms'[Root].via = [l \in Paths |-> "free"]
    BY <1>1 DEF HeapLabelled, HeapOK, Grows, Root
  <2>2. ASSUME NEW n \in 1..Len(fms')
        PROVE  FmLabelled(fms[n])'
    <3>1. CASE n \in 1..Len(fms) /\ fms'[n] = fms[n]
      <4>1. \A f : f = fms[n] => FmLabelled(f)'
        BY <1>5, <3>1, LabelsKeep
      <4> QED BY <3>1, <4>1 DEF FmLabelled
    <3> QED BY <1>2, <3>1
  <2>3. ASSUME NEW n \in 1..Len(vms')
        PROVE  VmLabelled(vms[n])'
    <3>1. CASE n \in 1..Len(vms) /\ vms'[n] = vms[n]
      <4>1. \A f : f = vms[n] => VmLabelled(f)'
        BY <1>5, <3>1, LabelsKeep
      <4> QED BY <3>1, <4>1 DEF VmLabelled, Edges
    <3> QED BY <1>3, <3>1
  <2> QED BY <2>1, <2>2, <2>3 DEF HeapLabelled
<1> QED BY <1>5, <1>6

(* A new fieldMatcher, and the record fs of the state s with the entry     *)
(* that leads to it.                                                       *)
Extended(s, fs, new) ==
    /\ fms' \in Seq(FmFields) /\ Len(fms') = Len(fms) + 1
    /\ fms'[Len(fms) + 1] = new /\ fms'[s] = fs
    /\ \A n \in 1..Len(fms) : n # s => fms'[n] = fms[n]

WithEntry(fs, f, k, kind, to) ==
    /\ fs.via = f.via /\ fs.matches = f.matches /\ fs.trans = f.trans
    /\ \A l \in Paths : /\ fs.exists[l] = (IF kind = "exists" /\ l = k THEN to ELSE f.exists[l])
                        /\ fs.absent[l] = (IF kind = "absent" /\ l = k THEN to ELSE f.absent[l])

(* A record with an entry that leads to a matcher of the right label is    *)
(* labelled.                                                               *)
LEMMA WithEntryLabelled ==
  ASSUME HeapOK, Grows, NEW f, NEW fs, NEW k \in Paths, NEW kind \in {"exists", "absent"},
         NEW to, WithEntry(fs, f, k, kind, to), FmOK(f), FmLabelled(f),
         fms'[to].via = [f.via EXCEPT ![k] = kind]
  PROVE  FmLabelled(fs)'
<1> SUFFICES ASSUME NEW l \in Paths
             PROVE  /\ fs.exists[l] # Nil => fms'[fs.exists[l]].via = [fs.via EXCEPT ![l] = "exists"]
                    /\ fs.absent[l] # Nil => fms'[fs.absent[l]].via = [fs.via EXCEPT ![l] = "absent"]
                    /\ fs.trans[l] # Nil => vms'[fs.trans[l]].via = fs.via /\ vms'[fs.trans[l]].path = l
  BY DEF FmLabelled
<1>1. /\ f.exists[l] # Nil => f.exists[l] \in 1..Len(fms)
      /\ f.absent[l] # Nil => f.absent[l] \in 1..Len(fms)
      /\ f.trans[l] # Nil => f.trans[l] \in 1..Len(vms)
  BY LenType DEF FmOK, Nil
<1>2. /\ f.exists[l] # Nil => fms[f.exists[l]].via = [f.via EXCEPT ![l] = "exists"]
      /\ f.absent[l] # Nil => fms[f.absent[l]].via = [f.via EXCEPT ![l] = "absent"]
      /\ f.trans[l] # Nil => vms[f.trans[l]].via = f.via /\ vms[f.trans[l]].path = l
  BY DEF FmLabelled
<1>3. /\ f.exists[l] # Nil => fms'[f.exists[l]].via = [f.via EXCEPT ![l] = "exists"]
      /\ f.absent[l] # Nil => fms'[f.absent[l]].via = [f.via EXCEPT ![l] = "absent"]
      /\ f.trans[l] # Nil => vms'[f.trans[l]].via = f.via /\ vms'[f.trans[l]].path = l
  BY <1>1, <1>2 DEF Grows
<1>4. /\ fs.via = f.via /\ fs.trans = f.trans
      /\ fs.exists[l] = (IF kind = "exists" /\ l = k THEN to ELSE f.exists[l])
      /\ fs.absent[l] = (IF kind = "absent" /\ l = k THEN to ELSE f.absent[l])
  BY DEF WithEntry
<1> QED BY <1>3, <1>4

(* The heap after a new fieldMatcher and the entry that leads to it are    *)
(* stored together.                                                        *)
LEMMA AddEntry ==
  ASSUME HeapOK, HeapLabelled, EndsArrived, Arrived \subseteq Arrived',
         core' = core, vms' = vms,
         NEW s \in 1..Len(fms), NEW k \in Paths, NEW kind \in {"exists", "absent"},
         NEW new \in FmFields, new.matches = {}, Blank(new),
         new.via = [fms[s].via EXCEPT ![k] = kind],
         NEW fs \in FmFields, WithEntry(fs, fms[s], k, kind, Len(fms) + 1),
         Extended(s, fs, new)
  PROVE  HeapOK' /\ HeapLabelled' /\ EndsArrived' /\ Grows
<1>1. /\ Len(fms) \in Nat /\ Len(vms) \in Nat
      /\ fms \in Seq(FmFields) /\ vms \in Seq(VmFields)
      /\ FmOK(fms[s]) /\ FmLabelled(fms[s])
  BY LenType DEF HeapOK, HeapLabelled
<1>2. Grows
  BY <1>1 DEF Grows, Extended, WithEntry
<1>3. FmOK(fms[s])'
  <2>1. /\ fms'[s] = fs /\ Len(fms') = Len(fms) + 1
        /\ fs.trans = fms[s].trans
        /\ \A l \in Paths : /\ fs.exists[l] \in {Len(fms) + 1, fms[s].exists[l]}
                            /\ fs.absent[l] \in {Len(fms) + 1, fms[s].absent[l]}
    BY DEF Extended, WithEntry
  <2> QED BY <1>1, <2>1, SMTT(60) DEF FmOK
<1>4. core'.state = core.state /\ core' \in [state : Nat, tree : SUBSET Paths]
  BY <1>1 DEF HeapOK
<1>5. \A n \in 1..Len(fms') : \/ n \in 1..Len(fms) /\ fms'[n] = fms[n]
                              \/ Blank(fms'[n])
                              \/ n = s
  BY <1>1 DEF Extended
<1>6. /\ vms' \in Seq(VmFields)
      /\ \A n \in 1..Len(vms') : \/ n \in 1..Len(vms) /\ vms'[n] = vms[n]
                                 \/ Edges(vms'[n]) = {}
                                 \/ n = 0
      /\ 0 \in 1..Len(vms') => VmOK(vms[0])' /\ VmLabelled(vms[0])'
  BY <1>1
<1>7. fms' \in Seq(FmFields) /\ fms'[s] = fs
  BY DEF Extended
<1>8. fms'[Len(fms) + 1].via = [fms[s].via EXCEPT ![k] = kind]
  BY DEF Extended
<1>9. FmLabelled(fms[s])'
  <2>1. FmLabelled(fs)'
    BY <1>1, <1>2, <1>8, WithEntryLabelled
  <2> QED BY <1>7, <2>1 DEF FmLabelled
<1>10. HeapOK' /\ HeapLabelled'
  BY <1>2, <1>3, <1>4, <1>5, <1>6, <1>7, <1>9, HeapStep
<1>11. EndsArrived'
  <2>1. \A n \in 1..Len(fms') :
           \/ fms'[n].matches = {}
           \/ /\ n \in 1..Len(fms)
              /\ fms'[n].matches = fms[n].matches /\ fms'[n].via = fms[n].via
    BY <1>1 DEF Extended, WithEntry
  <2> QED BY <2>1, EndsKeep
<1> QED BY <1>2, <1>10, <1>11

(* The record of a state with one entry more.                              *)
LEMMA EntryStored ==
  ASSUME NEW f \in FmFields, NEW k \in Paths, NEW kind \in {"exists", "absent"},
         NEW to \in Nat, NEW fs,
         fs = IF kind = "exists" THEN [f EXCEPT !.exists[k] = to] ELSE [f EXCEPT !.absent[k] = to]
  PROVE  fs \in FmFields /\ WithEntry(fs, f, k, kind, to)
<1>1. f = [via |-> f.via, trans |-> f.trans, matches |-> f.matches,
           exists |-> f.exists, absent |-> f.absent]
      /\ f.exists \in [Paths -> Nat] /\ f.absent \in [Paths -> Nat]
  BY DEF FmFields
<1>2. CASE kind = "exists"
  <2>1. fs = [via |-> f.via, trans |-> f.trans, matches |-> f.matches,
              exists |-> [f.exists EXCEPT ![k] = to], absent |-> f.absent]
    BY <1>1, <1>2
  <2> QED BY <1>1, <1>2, <2>1 DEF FmFields, WithEntry
<1>3. CASE kind = "absent"
  <2>1. fs = [via |-> f.via, trans |-> f.trans, matches |-> f.matches,
              exists |-> f.exists, absent |-> [f.absent EXCEPT ![k] = to]]
    BY <1>1, <1>3
  <2> QED BY <1>1, <1>3, <2>1 DEF FmFields, WithEntry
<1> QED BY <1>2, <1>3

(* A step that leaves the matchers alone leaves the heap as it is.         *)
LEMMA HeapUnchanged ==
  ASSUME HeapOK, HeapLabelled, EndsArrived, Arrived \subseteq Arrived',
         core'.state = core.state, core' \in [state : Nat, tree : SUBSET Paths],
         fms' = fms, vms' = vms
  PROVE  HeapOK' /\ HeapLabelled' /\ EndsArrived' /\ Grows
<1>1. Grows
  BY LenType DEF Grows
<1>2. /\ fms' \in Seq(FmFields) /\ vms' \in Seq(VmFields)
      /\ \A n \in 1..Len(fms') : n \in 1..Len(fms) /\ fms'[n] = fms[n]
      /\ \A n \in 1..Len(vms') : n \in 1..Len(vms) /\ vms'[n] = vms[n]
      /\ 0 \in 1..Len(fms') => FmOK(fms[0])' /\ FmLabelled(fms[0])'
      /\ 0 \in 1..Len(vms') => VmOK(vms[0])' /\ VmLabelled(vms[0])'
  BY LenType DEF HeapOK
<1>3. HeapOK' /\ HeapLabelled'
  BY <1>1, <1>2, HeapStep
<1>4. EndsArrived'
  BY EndsKeep
<1> QED BY <1>1, <1>3, <1>4

(* What appending a record and replacing another amounts to.               *)
LEMMA ExtendedBy ==
  ASSUME fms \in Seq(FmFields), NEW s \in 1..Len(fms), NEW fs \in FmFields,
         NEW new \in FmFields, fms' = [Append(fms, new) EXCEPT ![s] = fs]
  PROVE  Extended(s, fs, new)
<1> DEFINE A == Append(fms, new)
<1>1. /\ A \in Seq(FmFields) /\ Len(A) = Len(fms) + 1
      /\ \A n \in 1..Len(fms) : A[n] = fms[n]
      /\ A[Len(fms) + 1] = new
  BY AppendProperties
<1>2. Len(fms) \in Nat /\ fms' = [A EXCEPT ![s] = fs]
  BY LenProperties
<1> HIDE DEF A
<1>3. s \in 1..Len(A)
  BY <1>1, <1>2
<1>4. /\ fms' \in Seq(FmFields) /\ Len(fms') = Len(A)
      /\ \A j \in 1..Len(A) : fms'[j] = IF j = s THEN fs ELSE A[j]
  BY <1>1, <1>2, <1>3, ExceptSeq, SMTT(60)
<1> QED BY <1>1, <1>2, <1>3, <1>4 DEF Extended

(* What AddExists does to the heap: the state s keeps or gets its entry.   *)
EntryMade(s, k, kind, old, to, new) ==
    fms' = IF old # Nil THEN fms
           ELSE IF kind = "exists" THEN [Append(fms, new) EXCEPT ![s].exists[k] = to]
           ELSE [Append(fms, new) EXCEPT ![s].absent[k] = to]

(* What AddExists works with: the state s, the kind of condition on k, the *)
(* label of the state it leads to, the entry there is, and the new one.    *)
EntryWanted(s, k, kind, via, old, to, new) ==
    /\ via = [fms[s].via EXCEPT ![k] = kind]
    /\ old = IF kind = "exists" THEN fms[s].exists[k] ELSE fms[s].absent[k]
    /\ to = IF old # Nil THEN old ELSE Len(fms) + 1
    /\ new = NewFieldMatcher(via)

(* AddExists leaves a heap in order, and the state it leads to has the     *)
(* label of s with the new condition.                                      *)
LEMMA AddExistsHeap ==
  ASSUME HeapOK, HeapLabelled, EndsArrived, Arrived \subseteq Arrived',
         core' = core, vms' = vms,
         NEW s \in 1..Len(fms), NEW k \in Paths, NEW kind \in {"exists", "absent"},
         NEW via, NEW old, NEW to, NEW new,
         EntryWanted(s, k, kind, via, old, to, new), EntryMade(s, k, kind, old, to, new)
  PROVE  /\ HeapOK' /\ HeapLabelled' /\ EndsArrived' /\ Grows
         /\ to \in 1..Len(fms') /\ fms'[to].via = via
<1> USE DEF EntryWanted
<1>1. /\ Len(fms) \in Nat /\ fms \in Seq(FmFields) /\ fms[s] \in FmFields
      /\ FmOK(fms[s]) /\ FmLabelled(fms[s])
      /\ core' \in [state : Nat, tree : SUBSET Paths]
  BY LenType, ElementOfSeq DEF HeapOK, HeapLabelled
<1>2. via \in Via
  BY <1>1 DEF FmFields, Via
<1>3. new \in FmFields /\ new.via = via /\ new.matches = {} /\ Blank(new)
  BY <1>2, NewFieldMatcherType DEF Blank
<1>4. CASE old # Nil
  <2>1. to = old /\ fms' = fms
    BY <1>4 DEF EntryMade
  <2>2. old \in 1..Len(fms) /\ fms[old].via = via
    <3>1. /\ fms[s].exists[k] \in 0..Len(fms) /\ fms[s].absent[k] \in 0..Len(fms)
          /\ fms[s].exists[k] # 0 => fms[fms[s].exists[k]].via = [fms[s].via EXCEPT ![k] = "exists"]
          /\ fms[s].absent[k] # 0 => fms[fms[s].absent[k]].via = [fms[s].via EXCEPT ![k] = "absent"]
      BY <1>1 DEF FmOK, FmLabelled, Nil
    <3>2. CASE kind = "exists"
      BY <3>1, <3>2, <1>1, <1>4 DEF Nil
    <3>3. CASE kind = "absent"
      BY <3>1, <3>3, <1>1, <1>4 DEF Nil
    <3> QED BY <3>2, <3>3
  <2> QED BY <2>1, <2>2, <1>1, HeapUnchanged
<1>5. CASE old = Nil
  <2>1. to = Len(fms) + 1 /\ to \in Nat
    BY <1>1, <1>5
  <2>2. PICK fs : fs = IF kind = "exists" THEN [fms[s] EXCEPT !.exists[k] = to]
                       ELSE [fms[s] EXCEPT !.absent[k] = to]
    OBVIOUS
  <2>3. fs \in FmFields /\ WithEntry(fs, fms[s], k, kind, Len(fms) + 1)
    BY <1>1, <2>1, <2>2, EntryStored
  <2>4. Append(fms, new)[s] = fms[s]
    BY <1>1, <1>3, AppendProperties
  <2>5. fms' = [Append(fms, new) EXCEPT ![s] = fs]
    BY <1>5, <2>2, <2>4 DEF EntryMade
  <2>6. Extended(s, fs, new)
    BY <1>1, <1>3, <2>3, <2>5, ExtendedBy
  <2>7. HeapOK' /\ HeapLabelled' /\ EndsArrived' /\ Grows
    BY <1>1, <1>3, <2>3, <2>6, AddEntry
  <2>8. Len(fms') = Len(fms) + 1 /\ fms'[to] = new
    BY <1>1, <2>1, <2>6 DEF Extended
  <2>9. to \in 1..Len(fms')
    BY <1>1, <2>1, <2>8
  <2> QED BY <1>3, <2>7, <2>8, <2>9
<1> QED BY <1>4, <1>5

(* AddExists preserves the invariant.                                      *)
LEMMA AddExistsStep ==
  ASSUME Inductive, NEW w \in Writers, AddExists(w)
  PROVE  Inductive' /\ Grows
<1>1. PICK p, k, s : p = Pat(w) /\ k = writer[w].path /\ s = Head(writer[w].states)
  OBVIOUS
<1>2. PICK kind, via, old, to, new :
        /\ kind = p.cond[k].kind /\ via = [fms[s].via EXCEPT ![k] = kind]
        /\ old = IF kind = "exists" THEN fms[s].exists[k] ELSE fms[s].absent[k]
        /\ to = IF old # Nil THEN old ELSE Len(fms) + 1
        /\ new = NewFieldMatcher(via)
  BY ZenonT(60)
<1>3. /\ writer[w].pc = "build" /\ kind # "vals"
      /\ core' = core /\ vms' = vms /\ lock' = lock /\ reader' = reader
      /\ Goto(w, NextState(p, k, Tail(writer[w].states), Append(writer[w].next, to)))
      /\ EntryMade(s, k, kind, old, to, new)
  BY <1>1, <1>2, ZenonT(60) DEF AddExists, EntryMade
<1>4. /\ p \in Patterns /\ k \in Constrained(p) /\ k \in Paths
      /\ kind \in {"exists", "absent"}
      /\ s \in 1..Len(fms) /\ fms[s] \in FmFields
      /\ ChoosesBelow(fms[s].via, p, k)
      /\ lock = w
  BY <1>1, <1>2, <1>3, CurrentState, ZenonT(60)
<1>5. HeapOK /\ HeapLabelled /\ EndsArrived /\ writer \in [Writers -> WriterLocals]
  BY DEF Inductive, TypeOK
<1>6. writer' = [writer EXCEPT ![w] = writer'[w]]
  BY <1>3, <1>5 DEF Goto
<1>7. Arrived \subseteq Arrived'
  BY <1>3, <1>6, ArrivedGrows
<1>8. /\ HeapOK' /\ HeapLabelled' /\ EndsArrived' /\ Grows
      /\ to \in 1..Len(fms') /\ fms'[to].via = via
  <2>1. EntryWanted(s, k, kind, via, old, to, new)
    BY <1>2, ZenonT(60) DEF EntryWanted
  <2> QED BY <1>3, <1>4, <1>5, <1>7, <2>1, AddExistsHeap
<1>9. ChoosesUpto(via, p, k)
  BY <1>2, <1>3, <1>4, BelowIsUpto DEF FmFields
<1>10. PICK next : next = Append(writer[w].next, to)
  OBVIOUS
<1>11. /\ next \in Seq(1..Len(fms')) /\ next # <<>>
       /\ \A i \in 1..Len(next) : ChoosesUpto(fms'[next[i]].via, Pat(w), writer[w].path)
  BY <1>1, <1>3, <1>8, <1>9, <1>10, NextLabelled
<1>12. Goto(w, NextState(Pat(w), writer[w].path, Tail(writer[w].states), next))
  BY <1>1, <1>3, <1>10
<1>13. /\ writer'[w] \in WriterLocals'
       /\ writer'[w].pc \in {"build", "ends"}
       /\ AtWork(w)' /\ StatesLabelled(w)'
  BY <1>3, <1>8, <1>11, <1>12, GotoStep
<1> QED BY <1>3, <1>4, <1>6, <1>7, <1>8, <1>13, StepOfWriter DEF Building

-----------------------------------------------------------------------------
(* The steps at the ends of a call.                                        *)
LEMMA AcquireStep ==
  ASSUME Inductive, NEW w \in Writers, Acquire(w)
  PROVE  Inductive' /\ Grows
<1>1. /\ writer[w].pc = "idle" /\ lock = NoWriter /\ lock' = w
      /\ core' = core /\ fms' = fms /\ vms' = vms /\ reader' = reader
  BY DEF Acquire
<1>2. HeapOK /\ HeapLabelled /\ EndsArrived /\ writer \in [Writers -> WriterLocals]
  BY DEF Inductive, TypeOK
<1>A. PICK p \in Patterns :
        LET pos == NextPath(p, 0, <<core.state>>)
        IN  writer' = [writer EXCEPT ![w] =
              [IdleWriter EXCEPT !.pc = pos.pc, !.pattern = {p},
                                 !.tree = core.tree \cup PathsOf(p),
                                 !.path = pos.path, !.states = pos.states]]
  BY DEF Acquire
<1>3. PICK pos :
        /\ pos = NextPath(p, 0, <<core.state>>)
        /\ writer' = [writer EXCEPT ![w] =
             [IdleWriter EXCEPT !.pc = pos.pc, !.pattern = {p},
                                !.tree = core.tree \cup PathsOf(p),
                                !.path = pos.path, !.states = pos.states]]
  BY <1>A
<1>4. writer'[w] = [pc |-> pos.pc, pattern |-> {p}, tree |-> core.tree \cup PathsOf(p),
                    path |-> pos.path, states |-> pos.states, next |-> <<>>,
                    val |-> 1, vm |-> Nil]
  BY <1>2, <1>3 DEF IdleWriter
<1>5. /\ pos.states = <<core.state>>
      /\ \/ /\ pos.pc = "ends" /\ pos.path = 0
            /\ \A l \in Constrained(p) : l <= 0
         \/ /\ pos.pc = "build" /\ pos.path \in Constrained(p) /\ pos.path > 0
            /\ \A l \in Constrained(p) : l > 0 => pos.path <= l
  BY <1>3, NextPathShape
<1>6. core.state = Root /\ core.tree \in SUBSET Paths /\ Root \in 1..Len(fms)
      /\ Len(fms) \in Nat /\ Len(vms) \in Nat
  BY <1>2, LenType DEF HeapOK, HeapLabelled
<1>7. /\ Constrained(p) \subseteq Paths /\ PathsOf(p) \subseteq Paths
      /\ Paths \subseteq Nat \ {0}
  BY PatternAssumption DEF Constrained, PathsOf
<1>8. HeapOK' /\ HeapLabelled' /\ EndsArrived' /\ Grows /\ Arrived \subseteq Arrived'
  <2>1. Arrived \subseteq Arrived'
    BY <1>1, <1>2, <1>3, ArrivedGrows
  <2>2. core' \in [state : Nat, tree : SUBSET Paths]
    BY <1>1, <1>2, <1>6 DEF HeapOK
  <2> QED BY <1>1, <1>2, <2>1, <2>2, HeapUnchanged
<1>9. writer'[w] \in WriterLocals'
  <2>1. pos.states \in Seq(1..Len(fms')) /\ <<>> \in Seq(1..Len(fms'))
    BY <1>1, <1>5, <1>6
  <2> QED BY <1>1, <1>4, <1>5, <1>6, <1>7, <2>1 DEF WriterLocals, Nil
<1>10. Pat(w)' = p
  BY <1>4 DEF Pat
<1>11. AtWork(w)'
  BY <1>1, <1>4, <1>5, <1>10 DEF AtWork
<1>12. StatesLabelled(w)'
  <2>1. fms'[Root].via = [k \in Paths |-> "free"]
    BY <1>1, <1>2 DEF HeapLabelled
  <2>2. /\ Len(writer'[w].states) = 1 /\ writer'[w].states[1] = Root
        /\ Len(writer'[w].next) = 0
    BY <1>4, <1>5, <1>6
  <2>3. CASE pos.pc = "ends"
    <3>1. \A l \in Paths : l \notin Constrained(p)
      <4>1. \A l \in Constrained(p) : l <= 0
        BY <1>5, <2>3
      <4>2. \A l \in Constrained(p) : l \in Nat \ {0}
        BY <1>7
      <4> QED BY <4>1, <4>2
    <3>2. Chooses(fms'[Root].via, p)
      BY <2>1, <3>1 DEF Chooses, ChoosesAt
    <3> QED BY <1>4, <1>10, <2>2, <2>3, <3>2 DEF StatesLabelled
  <2>4. CASE pos.pc = "build"
    <3>1. \A l \in Paths : l < pos.path => l \notin Constrained(p)
      <4>1. /\ pos.path \in Constrained(p)
            /\ \A l \in Constrained(p) : l > 0 => pos.path <= l
        BY <1>5, <2>4
      <4>2. pos.path \in Nat /\ \A l \in Constrained(p) : l \in Nat \ {0}
        BY <1>7, <4>1
      <4> QED BY <4>1, <4>2
    <3>2. ChoosesBelow(fms'[Root].via, p, pos.path)
      BY <2>1, <3>1 DEF ChoosesBelow, ChoosesAt
    <3> QED BY <1>4, <1>10, <2>2, <2>4, <3>2 DEF StatesLabelled
  <2> QED BY <1>5, <2>3, <2>4
<1>13. writer'[w].pc \in Building /\ writer' = [writer EXCEPT ![w] = writer'[w]]
  BY <1>2, <1>3, <1>4, <1>5 DEF Building
<1> QED BY <1>1, <1>8, <1>9, <1>11, <1>12, <1>13, StepOfWriter

(* A panic preserves the invariant: what it leaves behind is labelled, and *)
(* holds no X of the Pattern.                                              *)
LEMMA PanicStep ==
  ASSUME Inductive, NEW w \in Writers, Panic(w)
  PROVE  Inductive' /\ Grows
<1>1. /\ writer[w].pc = "values" /\ lock' = NoWriter
      /\ writer' = [writer EXCEPT ![w].pc = "failed"]
      /\ core' = core /\ fms' = fms /\ vms' = vms /\ reader' = reader
  BY DEF Panic
<1>2. /\ HeapOK /\ HeapLabelled /\ EndsArrived /\ writer \in [Writers -> WriterLocals]
      /\ lock = w /\ AtWork(w)
  BY <1>1 DEF Inductive, TypeOK, OneBuilder, Building, WriterInv
<1>3. /\ writer' = [writer EXCEPT ![w] = writer'[w]]
      /\ writer'[w] = [writer[w] EXCEPT !.pc = "failed"]
  BY <1>1, <1>2
<1>4. Arrived \subseteq Arrived'
  BY <1>1, <1>3, ArrivedGrows
<1>5. HeapOK' /\ HeapLabelled' /\ EndsArrived' /\ Grows
  BY <1>1, <1>2, <1>4, HeapUnchanged DEF HeapOK
<1>6. /\ writer'[w] \in WriterLocals' /\ writer'[w].pc = "failed"
      /\ writer'[w].pattern = writer[w].pattern
  BY <1>1, <1>2, <1>3, ZenonT(60) DEF WriterLocals
<1>7. AtWork(w)' /\ StatesLabelled(w)'
  BY <1>1, <1>2, <1>6 DEF AtWork, StatesLabelled, Building
<1> QED BY <1>1, <1>2, <1>3, <1>4, <1>5, <1>6, <1>7, WriterAssumption, StepOfWriter DEF Building

(* Storing the new coreFields preserves the invariant.                     *)
LEMMA StoreCoreStep ==
  ASSUME Inductive, NEW w \in Writers, StoreCore(w)
  PROVE  Inductive' /\ Grows
<1>1. /\ writer[w].pc = "ends" /\ lock' = lock
      /\ writer' = [writer EXCEPT ![w].pc = "stored"]
      /\ core' = [core EXCEPT !.tree = writer[w].tree]
      /\ fms' = fms /\ vms' = vms /\ reader' = reader
  BY DEF StoreCore
<1>2. /\ HeapOK /\ HeapLabelled /\ EndsArrived /\ writer \in [Writers -> WriterLocals]
      /\ lock = w /\ AtWork(w)
  BY <1>1 DEF Inductive, TypeOK, OneBuilder, Building, WriterInv
<1>3. /\ writer' = [writer EXCEPT ![w] = writer'[w]]
      /\ writer'[w] = [writer[w] EXCEPT !.pc = "stored"]
      /\ writer[w] \in WriterLocals
  BY <1>1, <1>2
<1>4. /\ writer'[w] \in WriterLocals' /\ writer'[w].pc = "stored"
      /\ writer'[w].pattern = writer[w].pattern /\ writer'[w].tree = writer[w].tree
      /\ writer[w].tree \in SUBSET Paths
  <2>1. writer[w] \in WriterLocals' /\ writer[w].tree \in SUBSET Paths
    BY <1>1, <1>3 DEF WriterLocals
  <2> QED BY <1>3, <2>1 DEF WriterLocals
<1>5. Arrived \subseteq Arrived'
  BY <1>1, <1>3, <1>4, ArrivedGrows
<1>6. core'.state = core.state /\ core' \in [state : Nat, tree : SUBSET Paths]
      /\ core'.tree = writer[w].tree
  BY <1>1, <1>2, <1>4, LenType DEF HeapOK
<1>7. HeapOK' /\ HeapLabelled' /\ EndsArrived' /\ Grows
  BY <1>1, <1>2, <1>5, <1>6, HeapUnchanged
<1>8. AtWork(w)' /\ StatesLabelled(w)'
  BY <1>1, <1>2, <1>4, <1>6 DEF AtWork, StatesLabelled, Building
<1> QED BY <1>1, <1>2, <1>3, <1>4, <1>5, <1>7, <1>8, StepOfWriter DEF Building

(* Unlock preserves the invariant.                                         *)
LEMMA UnlockStep ==
  ASSUME Inductive, NEW w \in Writers, Unlock(w)
  PROVE  Inductive' /\ Grows
<1>1. /\ writer[w].pc = "stored" /\ lock' = NoWriter
      /\ writer' = [writer EXCEPT ![w].pc = "done"]
      /\ core' = core /\ fms' = fms /\ vms' = vms /\ reader' = reader
  BY DEF Unlock
<1>2. /\ HeapOK /\ HeapLabelled /\ EndsArrived /\ writer \in [Writers -> WriterLocals]
      /\ lock = w /\ AtWork(w)
  BY <1>1 DEF Inductive, TypeOK, OneBuilder, Building, WriterInv
<1>3. /\ writer' = [writer EXCEPT ![w] = writer'[w]]
      /\ writer'[w] = [writer[w] EXCEPT !.pc = "done"]
  BY <1>1, <1>2
<1>4. /\ writer'[w] \in WriterLocals' /\ writer'[w].pc = "done"
      /\ writer'[w].pattern = writer[w].pattern
  BY <1>1, <1>2, <1>3, ZenonT(60) DEF WriterLocals
<1>5. Arrived \subseteq Arrived'
  BY <1>1, <1>3, <1>4, ArrivedGrows
<1>6. HeapOK' /\ HeapLabelled' /\ EndsArrived' /\ Grows
  BY <1>1, <1>2, <1>5, HeapUnchanged, LenType DEF HeapOK
<1>7. AtWork(w)' /\ StatesLabelled(w)'
  BY <1>1, <1>2, <1>4 DEF AtWork, StatesLabelled, Building
<1> QED BY <1>1, <1>2, <1>3, <1>4, <1>5, <1>6, <1>7, WriterAssumption, StepOfWriter DEF Building

-----------------------------------------------------------------------------
(* A new record fs for the state s.                                        *)
Replaced(s, fs) ==
    /\ fms' \in Seq(FmFields) /\ Len(fms') = Len(fms) /\ fms'[s] = fs
    /\ \A n \in 1..Len(fms) : n # s => fms'[n] = fms[n]

(* What replacing a record amounts to.                                     *)
LEMMA ReplacedBy ==
  ASSUME fms \in Seq(FmFields), NEW s \in 1..Len(fms), NEW fs \in FmFields,
         fms' = [fms EXCEPT ![s] = fs]
  PROVE  Replaced(s, fs)
<1>1. /\ fms' \in Seq(FmFields) /\ Len(fms') = Len(fms)
      /\ \A j \in 1..Len(fms) : fms'[j] = IF j = s THEN fs ELSE fms[j]
  BY ExceptSeq
<1> QED BY <1>1 DEF Replaced

(* The new record keeps the entries but, for a path, may have a            *)
(* valueMatcher of the right label.                                        *)
LEMMA ReplaceHeap ==
  ASSUME HeapOK, HeapLabelled, core' = core, vms' = vms,
         NEW s \in 1..Len(fms), NEW fs \in FmFields, Replaced(s, fs),
         fs.via = fms[s].via, fs.exists = fms[s].exists, fs.absent = fms[s].absent,
         \A l \in Paths : \/ fs.trans[l] = fms[s].trans[l]
                          \/ /\ fs.trans[l] \in 1..Len(vms)
                             /\ vms[fs.trans[l]].via = fs.via
                             /\ vms[fs.trans[l]].path = l
  PROVE  HeapOK' /\ HeapLabelled' /\ Grows
<1>1. /\ Len(fms) \in Nat /\ Len(vms) \in Nat /\ vms \in Seq(VmFields)
      /\ FmOK(fms[s]) /\ FmLabelled(fms[s])
      /\ core'.state = core.state /\ core' \in [state : Nat, tree : SUBSET Paths]
  BY LenType DEF HeapOK, HeapLabelled
<1>2. Grows
  BY <1>1, SMTT(60) DEF Grows, Replaced
<1>3. FmOK(fs)'
  BY <1>1 DEF FmOK, Replaced
<1>4. FmLabelled(fs)'
  <2> SUFFICES ASSUME NEW l \in Paths
               PROVE  /\ fs.exists[l] # Nil => fms'[fs.exists[l]].via = [fs.via EXCEPT ![l] = "exists"]
                      /\ fs.absent[l] # Nil => fms'[fs.absent[l]].via = [fs.via EXCEPT ![l] = "absent"]
                      /\ fs.trans[l] # Nil => vms'[fs.trans[l]].via = fs.via /\ vms'[fs.trans[l]].path = l
    BY DEF FmLabelled
  <2>1. /\ fs.exists[l] # Nil => fs.exists[l] \in 1..Len(fms)
        /\ fs.absent[l] # Nil => fs.absent[l] \in 1..Len(fms)
    BY <1>1 DEF FmOK, Nil
  <2>2. /\ fs.exists[l] # Nil => fms[fs.exists[l]].via = [fs.via EXCEPT ![l] = "exists"]
        /\ fs.absent[l] # Nil => fms[fs.absent[l]].via = [fs.via EXCEPT ![l] = "absent"]
        /\ fs.trans[l] # Nil => vms[fs.trans[l]].via = fs.via /\ vms[fs.trans[l]].path = l
    BY <1>1, ZenonT(60) DEF FmLabelled
  <2> QED BY <1>2, <2>1, <2>2 DEF Grows
<1>5. /\ fms' \in Seq(FmFields) /\ fms'[s] = fs
      /\ \A n \in 1..Len(fms') : \/ n \in 1..Len(fms) /\ fms'[n] = fms[n]
                                 \/ Blank(fms'[n])
                                 \/ n = s
  BY <1>1 DEF Replaced
<1>6. FmOK(fms[s])' /\ FmLabelled(fms[s])'
  BY <1>3, <1>4, <1>5 DEF FmOK, FmLabelled
<1>7. /\ vms' \in Seq(VmFields)
      /\ \A n \in 1..Len(vms') : \/ n \in 1..Len(vms) /\ vms'[n] = vms[n]
                                 \/ Edges(vms'[n]) = {}
                                 \/ n = 0
      /\ 0 \in 1..Len(vms') => VmOK(vms[0])' /\ VmLabelled(vms[0])'
  BY <1>1
<1> QED BY <1>1, <1>2, <1>5, <1>6, <1>7, HeapStep

(* AddMatch preserves the invariant: the label of an end state chooses all *)
(* conditions of the Pattern.                                              *)
LEMMA AddMatchStep ==
  ASSUME Inductive, NEW w \in Writers, AddMatch(w)
  PROVE  Inductive' /\ Grows
<1>1. PICK s, p : s = Head(writer[w].states) /\ p = Pat(w)
  OBVIOUS
<1>2. /\ writer[w].pc = "ends" /\ writer[w].states # <<>>
      /\ writer' = [writer EXCEPT ![w].states = Tail(@)]
      /\ fms' = [fms EXCEPT ![s].matches = @ \cup {p.x}]
      /\ core' = core /\ vms' = vms /\ lock' = lock /\ reader' = reader
  BY <1>1 DEF AddMatch
<1>3. /\ HeapOK /\ HeapLabelled /\ EndsArrived /\ writer \in [Writers -> WriterLocals]
      /\ lock = w /\ AtWork(w) /\ StatesLabelled(w)
      /\ fms \in Seq(FmFields) /\ core.tree \subseteq writer[w].tree
  BY <1>2 DEF Inductive, TypeOK, OneBuilder, Building, WriterInv, HeapOK, AtWork
<1>4. p \in Patterns /\ writer[w].pattern = {p} /\ writer[w] \in WriterLocals /\ p.x \in Xs
  BY <1>1, <1>2, PatternAtWork, PatternAssumption DEF Pattern
<1>5. PICK states : states = writer[w].states
  OBVIOUS
<1>6. /\ states \in Seq(1..Len(fms)) /\ s = states[1] /\ s \in 1..Len(fms)
      /\ Tail(states) \in Seq(1..Len(fms))
      /\ 1 \in 1..Len(states)
      /\ \A i \in 1..Len(Tail(states)) :
            i + 1 \in 1..Len(states) /\ Tail(states)[i] = states[i + 1]
  <2>1. states \in Seq(1..Len(fms)) /\ states # <<>>
    BY <1>2, <1>4, <1>5 DEF WriterLocals
  <2>2. Len(states) \in Nat \ {0}
    BY <2>1, EmptySeq
  <2>3. /\ Tail(states) \in Seq(1..Len(fms)) /\ Len(Tail(states)) = Len(states) - 1
        /\ \A i \in 1..Len(Tail(states)) : Tail(states)[i] = states[i + 1]
        /\ Head(states) = states[1]
    BY <2>1, HeadTailProperties
  <2>4. 1 \in 1..Len(states) /\ states[1] \in 1..Len(fms)
    BY <2>1, <2>2, ElementOfSeq
  <2>5. \A i \in 1..Len(Tail(states)) : i + 1 \in 1..Len(states)
    BY <2>2, <2>3
  <2> QED BY <1>1, <1>5, <2>1, <2>3, <2>4, <2>5
<1>7. /\ writer' = [writer EXCEPT ![w] = writer'[w]]
      /\ writer'[w] = [writer[w] EXCEPT !.states = Tail(states)]
  BY <1>2, <1>3, <1>5
<1>8. PICK fs : fs = [fms[s] EXCEPT !.matches = @ \cup {p.x}]
  OBVIOUS
<1>9. /\ fs \in FmFields /\ fs.via = fms[s].via /\ fs.exists = fms[s].exists
      /\ fs.absent = fms[s].absent /\ fs.trans = fms[s].trans
      /\ fs.matches = fms[s].matches \cup {p.x}
  <2>1. fms[s] \in FmFields
    BY <1>3, <1>6, ElementOfSeq
  <2>2. fs = [via |-> fms[s].via, trans |-> fms[s].trans, matches |-> fms[s].matches \cup {p.x},
              exists |-> fms[s].exists, absent |-> fms[s].absent]
    BY <2>1, <1>8 DEF FmFields
  <2> QED BY <2>1, <2>2, <1>4 DEF FmFields
<1>10. fms' = [fms EXCEPT ![s] = fs]
  BY <1>2, <1>8
<1>11. Replaced(s, fs)
  BY <1>3, <1>6, <1>9, <1>10, ReplacedBy
<1>12. HeapOK' /\ HeapLabelled' /\ Grows
  BY <1>2, <1>3, <1>6, <1>9, <1>11, ReplaceHeap
<1>13. /\ writer'[w].pc = "ends" /\ writer'[w].pattern = {p}
       /\ writer'[w].tree = writer[w].tree /\ writer'[w].states = Tail(states)
  BY <1>2, <1>4, <1>7, ZenonT(60) DEF WriterLocals
<1>14. writer'[w] \in WriterLocals'
  <2>1. writer[w] \in WriterLocals'
    BY <1>3, <1>4, <1>12, LocalsGrow
  <2>2. Tail(states) \in Seq(1..Len(fms'))
    BY <1>6, <1>11 DEF Replaced
  <2> QED BY <1>7, <2>1, <2>2 DEF WriterLocals
<1>15. Arrived \subseteq Arrived'
  BY <1>4, <1>7, <1>13, ArrivedGrows
<1>16. EndsArrived'
  <2>1. p \in Arrived'
    BY <1>13 DEF Arrived
  <2>2. Chooses(fms[s].via, p)
    BY <1>1, <1>2, <1>3, <1>5, <1>6 DEF StatesLabelled
  <2>3. \A n \in 1..Len(fms') :
           /\ n \in 1..Len(fms) /\ fms'[n].via = fms[n].via
           /\ fms'[n].matches \subseteq fms[n].matches \cup (IF n = s THEN {p.x} ELSE {})
    BY <1>9, <1>11 DEF Replaced
  <2> SUFFICES ASSUME NEW n \in 1..Len(fms'), NEW x \in fms'[n].matches
               PROVE  \E q \in Arrived' : q.x = x /\ Chooses(fms'[n].via, q)
    BY DEF EndsArrived
  <2>4. CASE x \in fms[n].matches
    <3>1. PICK q \in Arrived : q.x = x /\ Chooses(fms[n].via, q)
      BY <1>3, <2>3, <2>4 DEF EndsArrived
    <3> QED BY <1>15, <2>3, <3>1
  <2>5. CASE n = s /\ x = p.x
    BY <2>1, <2>2, <2>3, <2>5
  <2> QED BY <2>3, <2>4, <2>5
<1>17. Pat(w)' = p
  BY <1>13 DEF Pat
<1>18. AtWork(w)'
  BY <1>2, <1>3, <1>4, <1>13 DEF AtWork
<1>19. StatesLabelled(w)'
  <2>1. \A i \in 1..Len(states) : Chooses(fms'[states[i]].via, p)
    BY <1>1, <1>2, <1>3, <1>5, <1>6, <1>12, ElementOfSeq DEF StatesLabelled, Grows
  <2> QED BY <1>6, <1>13, <1>17, <2>1 DEF StatesLabelled
<1> QED BY <1>2, <1>3, <1>7, <1>12, <1>13, <1>14, <1>15, <1>16, <1>18, <1>19,
           StepOfWriter DEF Building

-----------------------------------------------------------------------------
(* The valueMatcher of a path: the one the state has, or a new one.        *)
MatcherFound(s, k, old, vm) ==
    /\ vm = IF old # Nil THEN old ELSE Len(vms) + 1
    /\ vms' = IF old # Nil THEN vms ELSE Append(vms, NewValueMatcher(fms[s].via, k))

(* Finding or making the valueMatcher leaves a heap in order.              *)
LEMMA FindHeap ==
  ASSUME HeapOK, HeapLabelled, EndsArrived, Arrived \subseteq Arrived',
         core' = core, fms' = fms, NEW s \in 1..Len(fms), NEW k \in Paths,
         NEW old, old = fms[s].trans[k], NEW vm, MatcherFound(s, k, old, vm)
  PROVE  /\ HeapOK' /\ HeapLabelled' /\ EndsArrived' /\ Grows
         /\ vm \in 1..Len(vms') /\ fms[s].trans[k] \in {Nil, vm}
         /\ vms'[vm].via = fms[s].via /\ vms'[vm].path = k
<1>1. /\ Len(fms) \in Nat /\ Len(vms) \in Nat
      /\ fms \in Seq(FmFields) /\ vms \in Seq(VmFields)
      /\ FmOK(fms[s]) /\ FmLabelled(fms[s]) /\ fms[s] \in FmFields
      /\ core'.state = core.state /\ core' \in [state : Nat, tree : SUBSET Paths]
  BY LenType, ElementOfSeq DEF HeapOK, HeapLabelled
<1>2. CASE old # Nil
  <2>1. vm = old /\ vms' = vms
    BY <1>2 DEF MatcherFound
  <2>2. old \in 1..Len(vms) /\ vms[old].via = fms[s].via /\ vms[old].path = k
    <3>1. /\ fms[s].trans[k] \in 0..Len(vms)
          /\ fms[s].trans[k] # 0 => /\ vms[fms[s].trans[k]].via = fms[s].via
                                    /\ vms[fms[s].trans[k]].path = k
      BY <1>1 DEF FmOK, FmLabelled, Nil
    <3> QED BY <3>1, <1>1, <1>2 DEF Nil
  <2> QED BY <2>1, <2>2, <1>1, HeapUnchanged
<1>3. CASE old = Nil
  <2>1. PICK new : new = NewValueMatcher(fms[s].via, k)
    OBVIOUS
  <2>2. new \in VmFields /\ Edges(new) = {} /\ new.via = fms[s].via /\ new.path = k
    BY <1>1, <2>1 DEF NewValueMatcher, VmFields, FmFields, Edges
  <2>3. vm = Len(vms) + 1 /\ vms' = Append(vms, new)
    BY <1>3, <2>1 DEF MatcherFound
  <2>4. /\ vms' \in Seq(VmFields) /\ Len(vms') = Len(vms) + 1
        /\ \A n \in 1..Len(vms) : vms'[n] = vms[n]
        /\ vms'[Len(vms) + 1] = new
    BY <1>1, <2>2, <2>3, AppendProperties
  <2>5. Grows
    <3>1. Len(vms) <= Len(vms') /\ \A n \in 1..Len(vms) : vms'[n] = vms[n]
      BY <1>1, <2>4
    <3>2. Len(fms) <= Len(fms') /\ \A n \in 1..Len(fms) : fms'[n] = fms[n]
      BY <1>1
    <3> QED BY <3>1, <3>2 DEF Grows
  <2>6. \A n \in 1..Len(vms') : \/ n \in 1..Len(vms) /\ vms'[n] = vms[n]
                                \/ Edges(vms'[n]) = {}
                                \/ n = 0
    BY <1>1, <2>2, <2>4
  <2>7. \A n \in 1..Len(fms') : \/ n \in 1..Len(fms) /\ fms'[n] = fms[n]
                                \/ Blank(fms'[n])
                                \/ n = 0
    BY <1>1
  <2>8. /\ 0 \in 1..Len(vms') => VmOK(vms[0])' /\ VmLabelled(vms[0])'
        /\ 0 \in 1..Len(fms') => FmOK(fms[0])' /\ FmLabelled(fms[0])'
        /\ fms' \in Seq(FmFields)
    BY <1>1, <2>4
  <2>9. HeapOK' /\ HeapLabelled'
    BY <1>1, <2>4, <2>5, <2>6, <2>7, <2>8, HeapStep
  <2>10. EndsArrived'
    BY EndsKeep
  <2> QED BY <1>1, <1>3, <2>2, <2>3, <2>4, <2>5, <2>9, <2>10
<1> QED BY <1>2, <1>3

(* FindValueMatcher preserves the invariant.                               *)
LEMMA FindValueMatcherStep ==
  ASSUME Inductive, NEW w \in Writers, FindValueMatcher(w)
  PROVE  Inductive' /\ Grows
<1>1. PICK p, k, s, old, vm :
        /\ p = Pat(w) /\ k = writer[w].path /\ s = Head(writer[w].states)
        /\ old = fms[s].trans[k]
        /\ vm = IF old # Nil THEN old ELSE Len(vms) + 1
  BY ZenonT(60)
<1>2. /\ writer[w].pc = "build" /\ p.cond[k].kind = "vals"
      /\ core' = core /\ fms' = fms /\ lock' = lock /\ reader' = reader
      /\ MatcherFound(s, k, old, vm)
      /\ writer' = [writer EXCEPT ![w] = [@ EXCEPT !.pc = "values", !.val = 1, !.vm = vm]]
  BY <1>1, ZenonT(60) DEF FindValueMatcher, MatcherFound
<1>3. /\ p \in Patterns /\ k \in Constrained(p) /\ k \in Paths
      /\ s \in 1..Len(fms) /\ lock = w
  BY <1>1, <1>2, CurrentState, ZenonT(60)
<1>4. /\ HeapOK /\ HeapLabelled /\ EndsArrived /\ writer \in [Writers -> WriterLocals]
      /\ AtWork(w) /\ StatesLabelled(w)
  BY DEF Inductive, TypeOK, WriterInv
<1>5. /\ writer' = [writer EXCEPT ![w] = writer'[w]]
      /\ writer'[w] = [writer[w] EXCEPT !.pc = "values", !.val = 1, !.vm = vm]
      /\ writer[w] \in WriterLocals
  BY <1>2, <1>4
<1>6. Arrived \subseteq Arrived'
  BY <1>2, <1>5, ArrivedGrows, ZenonT(60)
<1>7. /\ HeapOK' /\ HeapLabelled' /\ EndsArrived' /\ Grows
      /\ vm \in 1..Len(vms') /\ fms[s].trans[k] \in {Nil, vm}
      /\ vms'[vm].via = fms[s].via /\ vms'[vm].path = k
  <2>1. /\ s \in 1..Len(fms) /\ k \in Paths /\ old = fms[s].trans[k]
        /\ core' = core /\ fms' = fms /\ MatcherFound(s, k, old, vm)
        /\ HeapOK /\ HeapLabelled /\ EndsArrived /\ Arrived \subseteq Arrived'
    BY <1>1, <1>2, <1>3, <1>4, <1>6, ZenonT(60)
  <2> QED BY <2>1, FindHeap
<1>8. /\ writer'[w].pc = "values" /\ writer'[w].pattern = writer[w].pattern
      /\ writer'[w].tree = writer[w].tree /\ writer'[w].path = k
      /\ writer'[w].states = writer[w].states /\ writer'[w].next = writer[w].next
      /\ writer'[w].val = 1 /\ writer'[w].vm = vm
  BY <1>1, <1>5 DEF WriterLocals
<1>9. writer'[w] \in WriterLocals'
  <2>1. writer[w] \in WriterLocals'
    BY <1>4, <1>5, <1>7, LocalsGrow
  <2>2. vm \in 0..Len(vms')
    BY <1>7, LenType
  <2>3. PICK me : me = writer[w]
    OBVIOUS
  <2>4. writer'[w] = [pc |-> "values", pattern |-> me.pattern, tree |-> me.tree,
                      path |-> me.path, states |-> me.states, next |-> me.next,
                      val |-> 1, vm |-> vm]
    BY <1>5, <2>3 DEF WriterLocals
  <2> QED BY <2>1, <2>2, <2>3, <2>4 DEF WriterLocals
<1>10. Pat(w)' = p
  BY <1>1, <1>8 DEF Pat
<1>11. AtWork(w)'
  <2>1. /\ \E q \in Patterns : writer[w].pattern = {q}
        /\ core.tree \subseteq writer[w].tree /\ writer[w].states # <<>>
    BY <1>2, <1>4 DEF AtWork, Building
  <2>2. vm # Nil
    BY <1>7, LenType, SMTT(60) DEF Nil
  <2>3. /\ core' = core /\ fms' = fms /\ p.cond[k].kind = "vals"
        /\ k \in Constrained(p) /\ s = Head(writer[w].states)
    BY <1>1, <1>2, <1>3, ZenonT(60)
  <2> QED BY <1>7, <1>8, <1>10, <2>1, <2>2, <2>3 DEF AtWork
<1>12. StatesLabelled(w)'
  <2>1. /\ \A i \in 1..Len(writer[w].states) : ChoosesBelow(fms[writer[w].states[i]].via, p, k)
        /\ \A i \in 1..Len(writer[w].next) : ChoosesUpto(fms[writer[w].next[i]].via, p, k)
    BY <1>1, <1>2, <1>4, ZenonT(60) DEF StatesLabelled
  <2>2. fms' = fms
    BY <1>2
  <2> QED BY <1>8, <1>10, <2>1, <2>2, SMTT(60) DEF StatesLabelled
<1> QED BY <1>2, <1>3, <1>5, <1>6, <1>7, <1>8, <1>9, <1>11, <1>12, StepOfWriter DEF Building

(* PublishTransition preserves the invariant: the valueMatcher it stores   *)
(* belongs to the state.                                                   *)
LEMMA PublishTransitionStep ==
  ASSUME Inductive, NEW w \in Writers, PublishTransition(w)
  PROVE  Inductive' /\ Grows
<1>1. PICK p, k, s, vm, next :
        /\ p = Pat(w) /\ k = writer[w].path /\ s = Head(writer[w].states)
        /\ vm = writer[w].vm /\ next = writer[w].next
  OBVIOUS
<1>2. /\ writer[w].pc = "values" /\ writer[w].val > Len(p.cond[k].vals)
      /\ fms' = [fms EXCEPT ![s].trans[k] = vm]
      /\ Goto(w, NextState(Pat(w), writer[w].path, Tail(writer[w].states), next))
      /\ core' = core /\ vms' = vms /\ lock' = lock /\ reader' = reader
  BY <1>1 DEF PublishTransition
<1>3. /\ p \in Patterns /\ k \in Constrained(p) /\ k \in Paths /\ p.cond[k] \in Cond
      /\ s \in 1..Len(fms) /\ fms[s] \in FmFields /\ lock = w
  BY <1>1, <1>2, CurrentState
<1>4. /\ HeapOK /\ HeapLabelled /\ EndsArrived /\ writer \in [Writers -> WriterLocals]
      /\ AtWork(w) /\ StatesLabelled(w) /\ fms \in Seq(FmFields) /\ Len(vms) \in Nat
  BY LenType DEF Inductive, TypeOK, WriterInv, HeapOK
<1>5. /\ vm \in 1..Len(vms) /\ vms[vm].via = fms[s].via /\ vms[vm].path = k
      /\ p.cond[k].kind = "vals"
      /\ writer[w].val > 1 => next # <<>>
  <2>1. /\ vm # Nil /\ vms[vm].via = fms[s].via /\ vms[vm].path = k
        /\ p.cond[k].kind = "vals"
        /\ writer[w].val > 1 => next # <<>>
    BY <1>1, <1>2, <1>4 DEF AtWork
  <2>2. vm \in 0..Len(vms)
    BY <1>1, <1>4 DEF WriterLocals
  <2> QED BY <2>1, <2>2, <1>4 DEF Nil
<1>6. writer' = [writer EXCEPT ![w] = writer'[w]]
  BY <1>2, <1>4 DEF Goto
<1>7. Arrived \subseteq Arrived'
  BY <1>2, <1>6, ArrivedGrows
<1>8. PICK fs : fs = [fms[s] EXCEPT !.trans[k] = vm]
  OBVIOUS
<1>9. /\ fs \in FmFields /\ fs.via = fms[s].via /\ fs.exists = fms[s].exists
      /\ fs.absent = fms[s].absent /\ fs.matches = fms[s].matches
      /\ \A l \in Paths : fs.trans[l] = IF l = k THEN vm ELSE fms[s].trans[l]
  <2>1. /\ fs = [via |-> fms[s].via, trans |-> [fms[s].trans EXCEPT ![k] = vm],
                 matches |-> fms[s].matches, exists |-> fms[s].exists,
                 absent |-> fms[s].absent]
        /\ fms[s].trans \in [Paths -> Nat]
    BY <1>3, <1>8 DEF FmFields
  <2>2. vm \in Nat
    BY <1>4, <1>5
  <2>3. [fms[s].trans EXCEPT ![k] = vm] \in [Paths -> Nat]
    BY <2>1, <2>2
  <2> QED BY <2>1, <2>3, <1>3 DEF FmFields
<1>10. fms' = [fms EXCEPT ![s] = fs]
  BY <1>2, <1>8
<1>11. Replaced(s, fs)
  BY <1>3, <1>4, <1>9, <1>10, ReplacedBy
<1>12. HeapOK' /\ HeapLabelled' /\ Grows
  BY <1>2, <1>3, <1>4, <1>5, <1>9, <1>11, ReplaceHeap
<1>13. EndsArrived'
  <2>1. \A n \in 1..Len(fms') : /\ n \in 1..Len(fms)
                                /\ fms'[n].matches = fms[n].matches
                                /\ fms'[n].via = fms[n].via
    BY <1>9, <1>11 DEF Replaced
  <2> QED BY <1>4, <1>7, <2>1, EndsKeep
<1>14. next # <<>>
  <2>1. p.cond[k].vals # <<>> /\ p.cond[k].vals \in Seq(PVals)
    BY <1>3, <1>5 DEF Constrained, Cond
  <2>2. Len(p.cond[k].vals) \in Nat \ {0}
    BY <2>1, EmptySeq
  <2>3. writer[w].val \in Nat \ {0}
    BY <1>4 DEF WriterLocals
  <2> QED BY <1>2, <1>5, <2>2, <2>3
<1>15. /\ next \in Seq(1..Len(fms'))
       /\ \A i \in 1..Len(next) : ChoosesUpto(fms'[next[i]].via, Pat(w), writer[w].path)
  <2>1. next \in Seq(1..Len(fms))
    BY <1>1, <1>4 DEF WriterLocals
  <2>2. \A i \in 1..Len(next) : ChoosesUpto(fms[next[i]].via, Pat(w), writer[w].path)
    BY <1>1, <1>2, <1>4 DEF StatesLabelled
  <2> QED BY <2>1, <2>2, <1>11, <1>12, ElementOfSeq DEF Grows, Replaced
<1>16. /\ writer'[w] \in WriterLocals'
       /\ writer'[w].pc \in {"build", "ends"}
       /\ AtWork(w)' /\ StatesLabelled(w)'
  BY <1>2, <1>12, <1>14, <1>15, GotoStep
<1> QED BY <1>2, <1>3, <1>6, <1>7, <1>12, <1>13, <1>16, StepOfWriter DEF Building

-----------------------------------------------------------------------------
(* Whatever its kind, a new value leaves no edge but the old ones and its  *)
(* own.                                                                    *)
LEMMA WithValueShape ==
  ASSUME NEW vm \in VmFields, NEW pv \in PVals, NEW to \in Nat,
         NEW v, v = WithValue(vm, pv, to)
  PROVE  /\ v \in VmFields /\ v.via = vm.via /\ v.path = vm.path
         /\ Edges(v) \subseteq Edges(vm) \cup {<<pv, to>>}
<1>1. <<pv, to>> \in Edge
  BY DEF Edge
<1>2. vm.singleton \subseteq Edge /\ vm.start \subseteq Edge /\ vm.ranges \subseteq Edge
  BY DEF VmFields
<1>3. CASE v = WithRange(vm, pv, to)
  <2>1. v = [via |-> vm.via, path |-> vm.path, singleton |-> vm.singleton,
             start |-> vm.start, ranges |-> vm.ranges \cup {<<pv, to>>}]
    BY <1>3 DEF WithRange, VmFields
  <2> QED BY <1>1, <1>2, <2>1 DEF VmFields, Edges
<1>4. CASE v = WithSingleton(vm, pv, to)
  <2>1. v = [via |-> vm.via, path |-> vm.path, singleton |-> {<<pv, to>>},
             start |-> vm.start, ranges |-> vm.ranges]
    BY <1>4 DEF WithSingleton, VmFields
  <2> QED BY <1>1, <1>2, <2>1 DEF VmFields, Edges
<1>5. CASE v = WithAutomaton(vm, pv, to)
  <2>1. v = [via |-> vm.via, path |-> vm.path, singleton |-> {},
             start |-> vm.start \cup vm.singleton \cup {<<pv, to>>}, ranges |-> vm.ranges]
    BY <1>5 DEF WithAutomaton, VmFields
  <2> QED BY <1>1, <1>2, <2>1 DEF VmFields, Edges
<1> QED BY <1>3, <1>4, <1>5 DEF WithValue

(* What AddValue does to the heap when the singleton is of no use.         *)
EdgeLabel(m, pv, via) == via = [vms[m].via EXCEPT ![vms[m].path] = pv]

ValueStored(m, v, new) == fms' = Append(fms, new) /\ vms' = [vms EXCEPT ![m] = v]

(* Storing a new value and the fieldMatcher it leads to leaves a heap in   *)
(* order.                                                                  *)
LEMMA ValueHeap ==
  ASSUME HeapOK, HeapLabelled, EndsArrived, Arrived \subseteq Arrived', core' = core,
         NEW via \in Via, NEW new, new = NewFieldMatcher(via),
         NEW m \in 1..Len(vms), NEW pv \in PVals, EdgeLabel(m, pv, via),
         NEW v, v = WithValue(vms[m], pv, Len(fms) + 1), ValueStored(m, v, new)
  PROVE  /\ HeapOK' /\ HeapLabelled' /\ EndsArrived' /\ Grows
         /\ Len(fms') = Len(fms) + 1 /\ fms'[Len(fms) + 1].via = via
         /\ \A n \in 1..Len(fms) : fms'[n] = fms[n]
<1>1. /\ Len(fms) \in Nat /\ Len(vms) \in Nat
      /\ fms \in Seq(FmFields) /\ vms \in Seq(VmFields)
      /\ VmOK(vms[m]) /\ VmLabelled(vms[m]) /\ vms[m] \in VmFields
      /\ core'.state = core.state /\ core' \in [state : Nat, tree : SUBSET Paths]
  BY LenType, ElementOfSeq DEF HeapOK, HeapLabelled
<1>2. new \in FmFields /\ new.via = via /\ new.matches = {} /\ Blank(new)
  BY NewFieldMatcherType DEF Blank
<1>3. /\ fms' \in Seq(FmFields) /\ Len(fms') = Len(fms) + 1
      /\ \A n \in 1..Len(fms) : fms'[n] = fms[n]
      /\ fms'[Len(fms) + 1] = new
  BY <1>1, <1>2, AppendProperties DEF ValueStored
<1>4. /\ v \in VmFields /\ v.via = vms[m].via /\ v.path = vms[m].path
      /\ Edges(v) \subseteq Edges(vms[m]) \cup {<<pv, Len(fms) + 1>>}
  <2>1. PICK to \in Nat : to = Len(fms) + 1
    BY <1>1
  <2>2. v = WithValue(vms[m], pv, to)
    BY <2>1
  <2>3. /\ v \in VmFields /\ v.via = vms[m].via /\ v.path = vms[m].path
        /\ Edges(v) \subseteq Edges(vms[m]) \cup {<<pv, to>>}
    BY <1>1, <2>2, WithValueShape
  <2> QED BY <2>1, <2>3
<1>5. /\ vms' \in Seq(VmFields) /\ Len(vms') = Len(vms)
      /\ \A j \in 1..Len(vms) : vms'[j] = IF j = m THEN v ELSE vms[j]
  BY <1>1, <1>4, ExceptSeq DEF ValueStored
<1>6. Grows
  <2>1. Len(fms) <= Len(fms') /\ \A n \in 1..Len(fms) : fms'[n].via = fms[n].via
    BY <1>1, <1>3
  <2>2. /\ Len(vms) <= Len(vms')
        /\ \A n \in 1..Len(vms) : vms'[n].via = vms[n].via /\ vms'[n].path = vms[n].path
    BY <1>1, <1>4, <1>5
  <2> QED BY <2>1, <2>2 DEF Grows
<1>7. ASSUME NEW e \in Edges(v)
      PROVE  e[2] \in 1..Len(fms') /\ fms'[e[2]].via = [v.via EXCEPT ![v.path] = e[1]]
  <2>1. CASE e \in Edges(vms[m])
    <3>1. e[2] \in 1..Len(fms) /\ fms[e[2]].via = [v.via EXCEPT ![v.path] = e[1]]
      BY <1>1, <1>4, <2>1 DEF VmOK, VmLabelled
    <3> QED BY <1>1, <1>3, <3>1
  <2>2. CASE e = <<pv, Len(fms) + 1>>
    <3>1. e[1] = pv /\ e[2] = Len(fms) + 1
      BY <2>2
    <3>2. e[2] \in 1..Len(fms')
      BY <1>1, <1>3, <3>1
    <3>3. fms'[e[2]].via = via
      BY <1>2, <1>3, <3>1
    <3> QED BY <1>4, <3>1, <3>2, <3>3 DEF EdgeLabel
  <2>3. e \in Edges(vms[m]) \/ e = <<pv, Len(fms) + 1>>
    BY <1>4, <1>7
  <2> QED BY <2>1, <2>2, <2>3
<1>8. VmOK(vms[m])' /\ VmLabelled(vms[m])'
  <2>1. vms'[m] = v
    BY <1>5
  <2> QED BY <1>7, <2>1 DEF VmOK, VmLabelled
<1>9. \A n \in 1..Len(fms') : \/ n \in 1..Len(fms) /\ fms'[n] = fms[n]
                              \/ Blank(fms'[n])
                              \/ n = 0
  BY <1>1, <1>2, <1>3
<1>10. 0 \in 1..Len(fms') => FmOK(fms[0])' /\ FmLabelled(fms[0])'
  BY <1>1, <1>3
<1>11. \A n \in 1..Len(vms') : \/ n \in 1..Len(vms) /\ vms'[n] = vms[n]
                               \/ Edges(vms'[n]) = {}
                               \/ n = m
  BY <1>5
<1>12. HeapOK' /\ HeapLabelled'
  BY <1>1, <1>3, <1>5, <1>6, <1>8, <1>9, <1>10, <1>11, HeapStep, ZenonT(60)
<1>13. EndsArrived'
  <2>1. \A n \in 1..Len(fms') :
            \/ fms'[n].matches = {}
            \/ /\ n \in 1..Len(fms)
               /\ fms'[n].matches = fms[n].matches /\ fms'[n].via = fms[n].via
    BY <1>1, <1>2, <1>3
  <2> QED BY <2>1, EndsKeep
<1> QED BY <1>2, <1>3, <1>6, <1>12, <1>13

(* The locals after a value.                                               *)
ValueDone(w, to) ==
    writer' = [writer EXCEPT ![w].next = Append(@, to), ![w].val = @ + 1]

(* The locals of a call that has added a value are in order.               *)
LEMMA ValueLocals ==
  ASSUME Inductive, NEW w \in Writers, writer[w].pc = "values",
         HeapOK', Grows, core' = core, NEW to \in 1..Len(fms'),
         NEW s, s = Head(writer[w].states), fms'[s] = fms[s],
         ChoosesUpto(fms'[to].via, Pat(w), writer[w].path), ValueDone(w, to)
  PROVE  /\ writer' = [writer EXCEPT ![w] = writer'[w]]
         /\ writer'[w] \in WriterLocals'
         /\ writer'[w].pc = "values"
         /\ AtWork(w)' /\ StatesLabelled(w)'
<1>1. PICK me, next : me = writer[w] /\ next = Append(me.next, to)
  OBVIOUS
<1>2. /\ me \in WriterLocals /\ writer \in [Writers -> WriterLocals]
      /\ AtWork(w) /\ StatesLabelled(w) /\ HeapOK
  BY <1>1 DEF Inductive, WriterInv, TypeOK
<1>3. /\ writer' = [writer EXCEPT ![w] = writer'[w]]
      /\ writer'[w] = [me EXCEPT !.next = next, !.val = @ + 1]
  BY <1>1, <1>2 DEF ValueDone
<1>4. /\ next \in Seq(1..Len(fms')) /\ next # <<>>
      /\ \A i \in 1..Len(next) : ChoosesUpto(fms'[next[i]].via, Pat(w), me.path)
  BY <1>1, NextLabelled
<1>5. writer'[w] = [pc |-> me.pc, pattern |-> me.pattern, tree |-> me.tree,
                    path |-> me.path, states |-> me.states, next |-> next,
                    val |-> me.val + 1, vm |-> me.vm]
  BY <1>2, <1>3 DEF WriterLocals
<1>6. writer'[w] \in WriterLocals'
  <2>1. me \in WriterLocals'
    BY <1>2, LocalsGrow
  <2>2. me.val + 1 \in Nat \ {0}
    BY <1>2, SMTT(60) DEF WriterLocals
  <2> QED BY <1>4, <1>5, <2>1, <2>2 DEF WriterLocals
<1>7. writer'[w].pc = "values" /\ Pat(w)' = Pat(w)
  BY <1>1, <1>5 DEF Pat
<1>8. AtWork(w)'
  <2>1. /\ \E p \in Patterns : me.pattern = {p}
        /\ core.tree \subseteq me.tree
        /\ me.path \in Constrained(Pat(w)) /\ me.states # <<>>
        /\ Pat(w).cond[me.path].kind = "vals"
        /\ me.vm # Nil /\ fms[s].trans[me.path] \in {Nil, me.vm}
        /\ vms[me.vm].via = fms[s].via /\ vms[me.vm].path = me.path
    BY <1>1, <1>2 DEF AtWork, Building
  <2>2. me.vm \in 1..Len(vms)
    BY <1>2, <2>1, LenType DEF WriterLocals, Nil
  <2>3. vms'[me.vm].via = fms'[s].via /\ vms'[me.vm].path = me.path
    BY <2>1, <2>2 DEF Grows
  <2>4. /\ writer'[w].pattern = me.pattern /\ writer'[w].tree = me.tree
        /\ writer'[w].path = me.path /\ writer'[w].states = me.states
        /\ writer'[w].vm = me.vm /\ writer'[w].next # <<>> /\ s = Head(me.states)
    BY <1>1, <1>4, <1>5
  <2> QED BY <1>7, <2>1, <2>3, <2>4 DEF AtWork
<1>9. StatesLabelled(w)'
  <2>1. \A i \in 1..Len(me.states) : ChoosesBelow(fms'[me.states[i]].via, Pat(w), me.path)
    <3>1. \A i \in 1..Len(me.states) : ChoosesBelow(fms[me.states[i]].via, Pat(w), me.path)
      BY <1>1, <1>2 DEF StatesLabelled
    <3>2. me.states \in Seq(1..Len(fms))
      BY <1>2 DEF WriterLocals
    <3> QED BY <3>1, <3>2, ElementOfSeq DEF Grows
  <2>2. /\ writer'[w].path = me.path /\ writer'[w].states = me.states
        /\ writer'[w].next = next
    BY <1>5
  <2> QED BY <1>4, <1>7, <2>1, <2>2 DEF StatesLabelled
<1> QED BY <1>3, <1>6, <1>7, <1>8, <1>9

(* AddValue preserves the invariant, whether it follows the singleton or   *)
(* makes a new fieldMatcher.                                               *)
LEMMA AddValueStep ==
  ASSUME Inductive, NEW w \in Writers, AddValue(w)
  PROVE  Inductive' /\ Grows
<1>1. PICK p, k, s, m, pv, vm, via, new :
        /\ p = Pat(w) /\ k = writer[w].path /\ s = Head(writer[w].states)
        /\ m = writer[w].vm /\ pv = p.cond[k].vals[writer[w].val]
        /\ vm = vms[m] /\ via = [fms[s].via EXCEPT ![k] = pv]
        /\ new = NewFieldMatcher(via)
  BY ZenonT(60)
<1>2. /\ writer[w].pc = "values" /\ writer[w].val <= Len(p.cond[k].vals)
      /\ core' = core /\ lock' = lock /\ reader' = reader
  BY <1>1, ZenonT(60) DEF AddValue
<1>3. \/ \E to \in SingletonFor(vm, pv) : ValueDone(w, to) /\ UNCHANGED <<fms, vms>>
      \/ /\ ValueStored(m, WithValue(vm, pv, Len(fms) + 1), new)
         /\ ValueDone(w, Len(fms) + 1)
  BY <1>1, ZenonT(60) DEF AddValue, ValueStored, ValueDone
<1>4. /\ p \in Patterns /\ k \in Constrained(p) /\ k \in Paths /\ p.cond[k] \in Cond
      /\ s \in 1..Len(fms) /\ fms[s] \in FmFields /\ lock = w
      /\ ChoosesBelow(fms[s].via, p, k) /\ Len(fms) \in Nat /\ Len(vms) \in Nat
  <2>1. /\ writer[w].pc \in {"build", "values"}
        /\ p = Pat(w) /\ k = writer[w].path /\ s = Head(writer[w].states)
    BY <1>1, <1>2
  <2> QED BY <2>1, CurrentState, ZenonT(60)
<1>5. /\ HeapOK /\ HeapLabelled /\ EndsArrived /\ writer \in [Writers -> WriterLocals]
      /\ AtWork(w)
  BY DEF Inductive, TypeOK, WriterInv
<1>6. /\ m \in 1..Len(vms) /\ vm.via = fms[s].via /\ vm.path = k
      /\ p.cond[k].kind = "vals" /\ VmLabelled(vm) /\ VmOK(vm)
  <2>1. /\ m # Nil /\ vm.via = fms[s].via /\ vm.path = k
        /\ p.cond[k].kind = "vals"
    BY <1>1, <1>2, <1>5, ZenonT(60) DEF AtWork
  <2>2. m \in 0..Len(vms)
    BY <1>1, <1>5 DEF WriterLocals
  <2>3. m \in 1..Len(vms)
    BY <2>1, <2>2, <1>4, SMTT(60) DEF Nil
  <2>4. VmLabelled(vms[m]) /\ VmOK(vms[m])
    BY <1>5, <2>3 DEF HeapOK, HeapLabelled
  <2> QED BY <1>1, <2>1, <2>3, <2>4
<1>7. pv \in PVals /\ pv \in PValsOf(p, k)
  <2>1. p.cond[k].vals \in Seq(PVals)
    BY <1>4 DEF Cond
  <2>2. writer[w].val \in Nat \ {0}
    BY <1>5 DEF WriterLocals
  <2>3. writer[w].val \in 1..Len(p.cond[k].vals)
    BY <1>2, <2>1, <2>2, LenProperties
  <2> QED BY <1>1, <2>1, <2>3, ElementOfSeq, LenProperties, ZenonT(60) DEF PValsOf
<1>8. via \in Via /\ fms[s].via \in Via
  BY <1>1, <1>4, <1>7, ZenonT(60) DEF FmFields, Via
<1>9. ChoosesUpto(via, p, k)
  BY <1>1, <1>4, <1>6, <1>7, <1>8, BelowIsUpto, ZenonT(60)
<1>10. writer' = [writer EXCEPT ![w] = writer'[w]]
  BY <1>3, <1>5 DEF ValueDone
<1>11. Arrived \subseteq Arrived'
  BY <1>2, <1>10, ArrivedGrows
<1>12. CASE \E to \in SingletonFor(vm, pv) : ValueDone(w, to) /\ UNCHANGED <<fms, vms>>
  <2>1. PICK to \in SingletonFor(vm, pv) : ValueDone(w, to) /\ UNCHANGED <<fms, vms>>
    BY <1>12
  <2>2. core' \in [state : Nat, tree : SUBSET Paths]
    BY <1>2, <1>4, <1>5 DEF HeapOK
  <2>3. HeapOK' /\ HeapLabelled' /\ EndsArrived' /\ Grows
    BY <1>2, <1>5, <1>11, <2>1, <2>2, HeapUnchanged
  <2>4. PICK e \in Edges(vm) : e[1] = pv /\ e[2] = to
    BY <2>1, SMTT(60) DEF SingletonFor, Edges
  <2>5. to \in 1..Len(fms) /\ fms[to].via = via
    BY <1>1, <1>6, <2>4, ZenonT(60) DEF VmOK, VmLabelled
  <2>6. to \in 1..Len(fms') /\ fms'[to].via = via /\ fms'[s] = fms[s]
    BY <2>1, <2>5
  <2>7. /\ writer'[w] \in WriterLocals' /\ writer'[w].pc = "values"
        /\ AtWork(w)' /\ StatesLabelled(w)'
    BY <1>1, <1>2, <1>9, <2>1, <2>3, <2>6, ValueLocals, ZenonT(60)
  <2> QED BY <1>2, <1>4, <1>10, <1>11, <2>3, <2>7, StepOfWriter DEF Building
<1>13. CASE /\ ValueStored(m, WithValue(vm, pv, Len(fms) + 1), new)
            /\ ValueDone(w, Len(fms) + 1)
  <2>1. PICK v, to : v = WithValue(vm, pv, to) /\ to = Len(fms) + 1
    BY SMTT(60)
  <2>2. EdgeLabel(m, pv, via)
    BY <1>1, <1>6, ZenonT(60) DEF EdgeLabel
  <2>3. /\ HeapOK' /\ HeapLabelled' /\ EndsArrived' /\ Grows
        /\ Len(fms') = Len(fms) + 1 /\ fms'[Len(fms) + 1].via = via
        /\ \A n \in 1..Len(fms) : fms'[n] = fms[n]
    BY <1>1, <1>2, <1>5, <1>6, <1>7, <1>8, <1>11, <1>13, <2>1, <2>2, ValueHeap, ZenonT(60)
  <2>4. /\ ValueDone(w, to)
        /\ to \in 1..Len(fms') /\ fms'[to].via = via /\ fms'[s] = fms[s]
    BY <1>4, <1>13, <2>1, <2>3
  <2>5. /\ writer'[w] \in WriterLocals' /\ writer'[w].pc = "values"
        /\ AtWork(w)' /\ StatesLabelled(w)'
    BY <1>1, <1>2, <1>9, <2>3, <2>4, ValueLocals, ZenonT(60)
  <2> QED BY <1>2, <1>4, <1>10, <1>11, <2>3, <2>5, StepOfWriter DEF Building
<1> QED BY <1>3, <1>12, <1>13
===============================================================================
