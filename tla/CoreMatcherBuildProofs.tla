------------------------ MODULE CoreMatcherBuildProofs ------------------------
(***************************************************************************)
(* What an AddPattern call has built leads every event that fulfils its    *)
(* Pattern to its X: the steps of all calls preserve Built, for all        *)
(* constants.                                                              *)
(***************************************************************************)
EXTENDS CoreMatcherKeepProofs

-----------------------------------------------------------------------------
(* The values a Pattern accepts on its paths.                              *)
LEMMA AcceptedType ==
  ASSUME NEW p \in Patterns
  PROVE  Accepted(p) \in [Paths -> SUBSET Values]
<1>1. ASSUME NEW k \in Paths
      PROVE  PValsOf(p, k) \subseteq PVals
  <2>1. p.cond[k].vals \in Seq(PVals)
    BY PatternAssumption DEF Pattern, Cond
  <2> QED BY <2>1 DEF PValsOf
<1>2. \A pv \in PVals : Accepts[pv] \subseteq Values
  BY PatternAssumption
<1> QED BY <1>1, <1>2 DEF Accepted

(* What leads to some matchers leads to more.                              *)
LEMMA ServedMore ==
  ASSUME NEW n, NEW sh, NEW on, NEW x, NEW S, NEW T, S \subseteq T, Served(n, sh, on, x, S)
  PROVE  Served(n, sh, on, x, T)
<1>1. ASSUME NEW k \in Paths, Least(k, Left(sh, fms[n].via))
      PROVE  LeadsOn(n, k, sh[k], on[k], T)
  <2>1. LeadsOn(n, k, sh[k], on[k], S)
    BY <1>1 DEF Served, Leads
  <2> QED BY <2>1 DEF LeadsOn
<1>2. Leads(n, sh, on, T)
  BY <1>1 DEF Leads
<1>3. Left(sh, fms[n].via) = {} => x \in fms[n].matches
  BY DEF Served
<1> QED BY <1>2, <1>3 DEF Served

(* The new states of a step, and what has to be shown of them.             *)
LEMMA BuildStep ==
  ASSUME Inductive, Inductive', Grows, Retained, NEW w \in Writers, writer[w].pc # "idle",
         writer'[w].pattern = writer[w].pattern,
         NEW p, p = Pat(w), NEW sh, sh = Shape(p), NEW on, on = Accepted(p),
         NEW S \in SUBSET (1..Len(fms)), BuiltSoFar(w, S),
         NEW T \in SUBSET (1..Len(fms')), S \subseteq T,
         Pending(w)' \subseteq T,
         \A n \in T \ Pending(w)' :
            n \in S \ Pending(w) \/ Served(n, sh, on, p.x, T)',
         writer'[w].pc = "values" =>
            \A j \in DOMAIN p.cond[writer'[w].path].vals : j < writer'[w].val =>
                \A val \in Accepts[p.cond[writer'[w].path].vals[j]] :
                    TransitionOn(vms'[writer'[w].vm], val) \cap T # {},
         writer'[w].pc = "ends" => writer'[w].next = <<>>
  PROVE  BuiltSoFar(w, T)'
<1>2. p \in Patterns /\ p = Pat(w)'
  BY PatternAtWork DEF Pat
<1>4. on \in [Paths -> SUBSET Values]
  BY <1>2, AcceptedType
<1>5. ASSUME NEW n \in S \ Pending(w)
      PROVE  Served(n, sh, on, p.x, T)'
  <2>1. Served(n, sh, on, p.x, S)
    BY DEF BuiltSoFar
  <2>2. Served(n, sh, on, p.x, S)'
    BY <1>4, <2>1, ServedKeep
  <2>3. \A U : Served(n, sh, on, p.x, U)' <=> /\ Left(sh, fms'[n].via) = {} => p.x \in fms'[n].matches
                                             /\ Leads(n, sh, on, U)'
    BY DEF Served
  <2>4. ASSUME NEW k \in Paths, Least(k, Left(sh, fms'[n].via))
        PROVE  LeadsOn(n, k, sh[k], on[k], T)'
    <3>1. LeadsOn(n, k, sh[k], on[k], S)'
      BY <2>2, <2>3, <2>4 DEF Leads
    <3> QED BY <3>1 DEF LeadsOn
  <2>5. Leads(n, sh, on, T)'
    BY <2>4 DEF Leads
  <2> QED BY <2>2, <2>3, <2>5
<1>6. \A n \in T \ Pending(w)' : Served(n, sh, on, p.x, T)'
  BY <1>5
<1>7. Root \in T
  BY DEF BuiltSoFar
<1>8. (Shape(Pat(w)))' = sh /\ (Accepted(Pat(w)))' = on /\ (Pat(w).x)' = p.x
  BY <1>2
<1> QED BY <1>2, <1>6, <1>7, <1>8 DEF BuiltSoFar

(* A call that does nothing keeps what it has built.                       *)
LEMMA BuiltKeep ==
  ASSUME Inductive, Inductive', Grows, Retained, NEW w \in Writers, writer'[w] = writer[w],
         Built(w)
  PROVE  Built(w)'
<1>1. CASE writer[w].pc \in {"build", "values", "ends"}
  <2>1. PICK S \in SUBSET (1..Len(fms)) : BuiltSoFar(w, S)
    BY <1>1 DEF Built
  <2>2. Pending(w)' = Pending(w) /\ Pending(w) \subseteq S
    BY <2>1 DEF Pending, BuiltSoFar
  <2>3. S \in SUBSET (1..Len(fms'))
    BY LenType DEF Inductive, TypeOK, Grows
  <2>7. PICK p, sh, on : p = Pat(w) /\ sh = Shape(p) /\ on = Accepted(p)
    OBVIOUS
  <2>4. ASSUME writer[w].pc = "values",
               NEW j \in DOMAIN p.cond[writer[w].path].vals, j < writer[w].val,
               NEW val \in Accepts[p.cond[writer[w].path].vals[j]]
        PROVE  TransitionOn(vms'[writer[w].vm], val) \cap S # {}
    <3>1. TransitionOn(vms[writer[w].vm], val) \cap S # {}
      BY <2>1, <2>4, <2>7 DEF BuiltSoFar
    <3>2. val \in Values
      <4>2. p \in Patterns /\ writer[w].path \in Paths
        BY <1>1, <2>4, <2>7, CurrentState
      <4>3. val \in Accepted(p)[writer[w].path]
        BY <2>4, <4>2 DEF Accepted, PValsOf
      <4> QED BY <4>2, <4>3, AcceptedType
    <3>3. writer[w].vm \in 1..Len(vms)
      <4>1. writer[w].vm \in 0..Len(vms) /\ writer[w].vm # 0
        BY <1>1, <2>4, PatternAtWork DEF WriterLocals, Inductive, WriterInv, AtWork, Nil
      <4> QED BY <4>1, LenType DEF Inductive, TypeOK
    <3> QED BY <3>1, <3>2, <3>3 DEF Retained
  <2>5. writer[w].pc = "ends" => writer[w].next = <<>>
    BY <2>1 DEF BuiltSoFar
  <2>6. BuiltSoFar(w, S)'
    BY <1>1, <2>1, <2>2, <2>3, <2>4, <2>5, <2>7, BuildStep
  <2> QED BY <1>1, <2>3, <2>6 DEF Built
<1>2. CASE writer[w].pc \in {"stored", "done"}
  <2>1. PICK p, sh, on : p = Pat(w) /\ sh = Shape(p) /\ on = Accepted(p)
    OBVIOUS
  <2>2. p \in Patterns /\ Pat(w)' = p
    BY <1>2, <2>1, PatternAtWork DEF Pat
  <2>3. PICK S \in SUBSET (1..Len(fms)) : Serves(sh, on, p.x, S)
    BY <1>2, <2>1 DEF Built
  <2>4. Serves(sh, on, p.x, S)' /\ S \in SUBSET (1..Len(fms'))
    BY <2>1, <2>2, <2>3, AcceptedType, ServesKeep
  <2> QED BY <1>2, <2>1, <2>2, <2>4 DEF Built
<1> QED BY <1>1, <1>2 DEF Built

-----------------------------------------------------------------------------
(* Where the loops of an AddPattern call go next, no state is forgotten.   *)
LEMMA NextStatePending ==
  ASSUME NEW p \in Patterns, NEW k \in Nat, NEW states, NEW next,
         NEW pos, pos = NextState(p, k, states, next)
  PROVE  /\ Range(pos.states) \cup Range(pos.next) = Range(states) \cup Range(next)
         /\ pos.pc \in {"build", "ends"}
         /\ pos.pc = "ends" => pos.next = <<>>
<1>1. Range(<<>>) = {}
  BY DEF Range
<1>2. CASE states = <<>>
  <2>1. pos = NextPath(p, k, next)
    BY <1>2 DEF NextState
  <2>2. pos.states = next /\ pos.next = <<>> /\ pos.pc \in {"build", "ends"}
    BY <2>1, NextPathShape
  <2> QED BY <1>1, <1>2, <2>2
<1>3. CASE states # <<>>
  BY <1>3 DEF NextState
<1> QED BY <1>2, <1>3

LEMMA AppendRange ==
  ASSUME NEW A, NEW a \in Seq(A), NEW b \in A
  PROVE  Range(Append(a, b)) = Range(a) \cup {b}
<1>1. PICK c : c = Append(a, b)
  OBVIOUS
<1>2. /\ c \in Seq(A) /\ Len(c) = Len(a) + 1 /\ c[Len(a) + 1] = b
      /\ \A n \in 1..Len(a) : c[n] = a[n]
  BY <1>1, AppendProperties
<1>3. Len(a) \in Nat /\ DOMAIN a = 1..Len(a) /\ DOMAIN c = 1..(Len(a) + 1)
  BY <1>2, LenProperties
<1>4. \A n \in DOMAIN c : c[n] \in Range(a) \cup {b}
  BY <1>2, <1>3 DEF Range
<1>5. \A n \in DOMAIN a : n \in DOMAIN c /\ c[n] = a[n]
  BY <1>2, <1>3
<1>6. Len(a) + 1 \in DOMAIN c
  BY <1>3
<1> QED BY <1>1, <1>2, <1>4, <1>5, <1>6 DEF Range

(* The path a call is at is the next one its state has to ask for.         *)
LEMMA HeadLeft ==
  ASSUME NEW p \in Patterns, NEW via, NEW k \in Constrained(p), ChoosesBelow(via, p, k)
  PROVE  /\ k \in Left(Shape(p), via) /\ Shape(p)[k] = p.cond[k].kind
         /\ \A l : Least(l, Left(Shape(p), via)) => l = k
<1>1. Paths \subseteq Nat /\ k \in Paths
  BY PatternAssumption DEF Constrained
<1>2. Shape(p)[k] = p.cond[k].kind /\ p.cond[k].kind \in {"exists", "absent", "vals"}
  BY <1>1 DEF Shape, Constrained
<1>3. via[k] = "free"
  BY <1>1 DEF ChoosesBelow
<1>4. ASSUME NEW l \in Left(Shape(p), via)
      PROVE  k <= l
  <2>1. l \in Constrained(p) /\ l \in Paths /\ via[l] = "free"
    BY DEF Left, Shape
  <2>2. PValsOf(p, l) \subseteq PVals
    <3>1. p.cond[l].vals \in Seq(PVals)
      BY <2>1, PatternAssumption DEF Pattern, Cond
    <3> QED BY <3>1 DEF PValsOf
  <2>3. ~ChoosesAt(via, p, l)
    BY <2>1, <2>2, LabelAssumption DEF ChoosesAt, Constrained
  <2> QED BY <1>1, <2>1, <2>3 DEF ChoosesBelow
<1>5. k \in Left(Shape(p), via)
  BY <1>1, <1>2, <1>3 DEF Left
<1>6. \A l : Least(l, Left(Shape(p), via)) => l = k
  <2> SUFFICES ASSUME NEW l, Least(l, Left(Shape(p), via))
               PROVE  l = k
    OBVIOUS
  <2>1. l \in Paths /\ k <= l /\ l <= k
    BY <1>4, <1>5 DEF Least, Left
  <2> QED BY <1>1, <2>1
<1> QED BY <1>2, <1>5, <1>6

(* A state that leads on the path the call is at is served.                *)
LEMMA HeadServed ==
  ASSUME Inductive, NEW w \in Writers, writer[w].pc \in {"build", "values"},
         NEW s, s = Head(writer[w].states), NEW p, p = Pat(w), NEW k, k = writer[w].path,
         Grows, NEW on, NEW T, LeadsOn(s, k, p.cond[k].kind, on[k], T)'
  PROVE  Served(s, Shape(p), on, p.x, T)'
<1>1. /\ s \in 1..Len(fms) /\ k \in Constrained(p) /\ p \in Patterns
      /\ ChoosesBelow(fms[s].via, p, k) /\ fms'[s].via = fms[s].via
  BY CurrentState DEF Grows
<1>2. PICK sh : sh = Shape(p)
  OBVIOUS
<1>3. /\ Left(sh, fms'[s].via) # {} /\ sh[k] = p.cond[k].kind
      /\ \A l : Least(l, Left(sh, fms'[s].via)) => l = k
  BY <1>1, <1>2, HeadLeft
<1>4. LeadsOn(s, k, sh[k], on[k], T)'
  BY <1>3
<1>5. \A l \in Paths : Least(l, Left(sh, fms'[s].via)) => LeadsOn(s, l, sh[l], on[l], T)'
  BY <1>3, <1>4
<1>6. Leads(s, sh, on, T)'
  BY <1>5 DEF Leads
<1> QED BY <1>2, <1>3, <1>6 DEF Served

(* The end of the work on one state.                                       *)
LEMMA GotoBuilt ==
  ASSUME Inductive, Inductive', Grows, Retained, NEW w \in Writers,
         writer[w].pc \in {"build", "values"},
         NEW p, p = Pat(w), NEW k, k = writer[w].path, NEW s, s = Head(writer[w].states),
         NEW S \in SUBSET (1..Len(fms)), BuiltSoFar(w, S),
         NEW next, Range(writer[w].next) \subseteq Range(next),
         Range(next) \subseteq 1..Len(fms'),
         Goto(w, NextState(p, k, Tail(writer[w].states), next)),
         NEW T, T = S \cup Range(next), NEW on, on = Accepted(p),
         LeadsOn(s, k, p.cond[k].kind, on[k], T)'
  PROVE  Built(w)'
<1>1. PICK states : states = writer[w].states
  OBVIOUS
<1>2. p \in Patterns /\ k \in Nat /\ writer[w] \in WriterLocals /\ states # <<>>
  <2>1. p \in Patterns /\ k \in Paths
    BY CurrentState
  <2>2. writer[w] \in WriterLocals /\ states # <<>>
    BY <1>1, PatternAtWork DEF Inductive, WriterInv, AtWork
  <2> QED BY <2>1, <2>2, PatternAssumption
<1>3. Range(states) = {s} \cup Range(Tail(states))
  BY <1>1, <1>2, TailRange DEF WriterLocals
<1>4. PICK pos : pos = NextState(p, k, Tail(states), next)
  OBVIOUS
<1>5. /\ Range(pos.states) \cup Range(pos.next) = Range(Tail(states)) \cup Range(next)
      /\ pos.pc \in {"build", "ends"} /\ (pos.pc = "ends" => pos.next = <<>>)
  BY <1>2, <1>4, NextStatePending
<1>6. /\ writer'[w].pc = pos.pc /\ writer'[w].states = pos.states /\ writer'[w].next = pos.next
      /\ writer'[w].pattern = writer[w].pattern
  <2>1. Goto(w, pos)
    BY <1>1, <1>4
  <2> QED BY <2>1, GotoShape
<1>7. Pending(w)' = Range(Tail(states)) \cup Range(next)
  BY <1>5, <1>6 DEF Pending
<1>8. Pending(w) = {s} \cup Range(Tail(states)) \cup Range(writer[w].next) /\ Pending(w) \subseteq S
  <2>1. Pending(w) = {s} \cup Range(Tail(states)) \cup Range(writer[w].next)
    <3>1. Pending(w) = Range(states) \cup Range(writer[w].next)
      BY <1>1 DEF Pending
    <3> QED BY <1>3, <3>1
  <2>2. Pending(w) \subseteq S
    BY ZenonT(60) DEF BuiltSoFar
  <2> QED BY <2>1, <2>2
<1>9. T \in SUBSET (1..Len(fms'))
  <2>1. Len(fms) \in Nat /\ Len(fms') \in Nat /\ Len(fms) <= Len(fms')
    BY LenType DEF Inductive, TypeOK, Grows
  <2>2. 1..Len(fms) \subseteq 1..Len(fms')
    BY <2>1
  <2> QED BY <2>2
<1>11. PICK sh : sh = Shape(p)
  OBVIOUS
<1>10. Served(s, sh, on, p.x, T)'
  BY <1>11, HeadServed
<1>12. \A n \in T \ Pending(w)' : n \in S \ Pending(w) \/ n = s
  BY <1>7, <1>8
<1>13. \A n \in T \ Pending(w)' :
          n \in S \ Pending(w) \/ Served(n, sh, on, p.x, T)'
  BY <1>10, <1>12
<1>14. S \subseteq T /\ Pending(w)' \subseteq T
  BY <1>7, <1>8
<1>15. writer[w].pc # "idle" /\ writer'[w].pc # "values" /\ (writer'[w].pc = "ends" => writer'[w].next = <<>>)
  BY <1>5, <1>6
<1>16. BuiltSoFar(w, T)'
  BY <1>6, <1>9, <1>11, <1>13, <1>14, <1>15, BuildStep
<1> QED BY <1>5, <1>6, <1>9, <1>16 DEF Built

-----------------------------------------------------------------------------
(* The steps of an AddPattern call.                                        *)
LEMMA AcquireBuilt ==
  ASSUME Inductive, Inductive', NEW w \in Writers, Acquire(w)
  PROVE  Built(w)'
<1>1. PICK p \in Patterns :
        writer' = [writer EXCEPT ![w] =
            [IdleWriter EXCEPT !.pc = NextPath(p, 0, <<core.state>>).pc, !.pattern = {p},
                               !.tree = core.tree \cup PathsOf(p),
                               !.path = NextPath(p, 0, <<core.state>>).path,
                               !.states = NextPath(p, 0, <<core.state>>).states]]
  BY DEF Acquire
<1>2. PICK pos : pos = NextPath(p, 0, <<core.state>>)
  OBVIOUS
<1>3. core.state = Root /\ writer \in [Writers -> WriterLocals] /\ Root \in 1..Len(fms) /\ fms' = fms
  BY DEF Inductive, TypeOK, HeapOK, HeapLabelled, Acquire
<1>4. pos.states = <<Root>> /\ pos.next = <<>> /\ pos.pc \in {"build", "ends"}
  <2>1. \A states, q : q = NextPath(p, 0, states) =>
          q.states = states /\ q.next = <<>> /\ q.pc \in {"build", "ends"}
    <3>1. 0 \in Nat
      OBVIOUS
    <3> QED BY <3>1, NextPathShape
  <2>2. pos = NextPath(p, 0, <<Root>>)
    BY <1>2, <1>3
  <2> QED BY <2>1, <2>2
<1>5. /\ writer'[w].pc = pos.pc /\ writer'[w].states = <<Root>> /\ writer'[w].next = <<>>
  <2>1. writer'[w] = [IdleWriter EXCEPT !.pc = pos.pc, !.pattern = {p},
                               !.tree = core.tree \cup PathsOf(p),
                               !.path = pos.path, !.states = pos.states]
    BY <1>1, <1>2, <1>3
  <2> QED BY <1>4, <2>1 DEF IdleWriter
<1>6. Range(<<Root>>) = {Root} /\ Range(<<>>) = {}
  BY DEF Range
<1>7. Pending(w)' = {Root}
  BY <1>5, <1>6 DEF Pending
<1>8. {Root} \in SUBSET (1..Len(fms'))
  BY <1>3
<1>9. BuiltSoFar(w, {Root})'
  BY <1>4, <1>5, <1>7, <1>8 DEF BuiltSoFar
<1> QED BY <1>4, <1>5, <1>8, <1>9 DEF Built

LEMMA AddExistsBuilt ==
  ASSUME Inductive, Inductive', Grows, Retained, NEW w \in Writers, AddExists(w), Built(w)
  PROVE  Built(w)'
<1>1. PICK p, k, s, on : /\ p = Pat(w) /\ k = writer[w].path /\ s = Head(writer[w].states)
                         /\ on = Accepted(p)
  OBVIOUS
<1>2. PICK to \in 1..Len(fms') :
        /\ Goto(w, NextState(p, k, Tail(writer[w].states), Append(writer[w].next, to)))
        /\ \/ p.cond[k].kind = "exists" /\ fms'[s].exists[k] = to
           \/ p.cond[k].kind = "absent" /\ fms'[s].absent[k] = to
  BY <1>1, AddExistsEffect
<1>3. writer[w].pc = "build"
  BY ZenonT(60) DEF AddExists
<1>4. PICK S \in SUBSET (1..Len(fms)) : BuiltSoFar(w, S)
  BY <1>3 DEF Built
<1>5. writer[w].next \in Seq(1..Len(fms'))
  <2>1. writer[w].next \in Seq(1..Len(fms))
    BY <1>3, PatternAtWork DEF WriterLocals
  <2>2. 1..Len(fms) \subseteq 1..Len(fms')
    BY LenType DEF Inductive, TypeOK, Grows
  <2> QED BY <2>1, <2>2, SeqMonotonic
<1>6. PICK next, T : next = Append(writer[w].next, to) /\ T = S \cup Range(next)
  OBVIOUS
<1>7. Range(next) = Range(writer[w].next) \cup {to} /\ Range(writer[w].next) \subseteq 1..Len(fms')
  <2>1. Range(next) = Range(writer[w].next) \cup {to}
    BY <1>5, <1>6, AppendRange
  <2>2. Range(writer[w].next) \subseteq 1..Len(fms')
    <3>1. \A A : \A a \in Seq(A) : Range(a) \subseteq A
      BY LenProperties, ElementOfSeq DEF Range
    <3> QED BY <1>5, <3>1
  <2> QED BY <2>1, <2>2
<1>8. LeadsOn(s, k, p.cond[k].kind, on[k], T)'
  <2>1. to \in T
    BY <1>6, <1>7
  <2>2. CASE p.cond[k].kind = "exists" /\ fms'[s].exists[k] = to
    BY <2>1, <2>2 DEF LeadsOn
  <2>3. CASE p.cond[k].kind = "absent" /\ fms'[s].absent[k] = to
    BY <2>1, <2>3 DEF LeadsOn
  <2> QED BY <1>2, <2>2, <2>3
<1> QED BY <1>1, <1>2, <1>3, <1>4, <1>6, <1>7, <1>8, GotoBuilt

LEMMA FindBuilt ==
  ASSUME Inductive, Inductive', Grows, Retained, NEW w \in Writers, FindValueMatcher(w), Built(w)
  PROVE  Built(w)'
<1>1. writer[w].pc = "build"
  BY DEF FindValueMatcher
<1>2. PICK S \in SUBSET (1..Len(fms)) : BuiltSoFar(w, S)
  BY <1>1 DEF Built
<1>3. /\ fms' = fms
      /\ writer'[w].pc = "values" /\ writer'[w].val = 1
      /\ writer'[w].states = writer[w].states /\ writer'[w].next = writer[w].next
      /\ writer'[w].pattern = writer[w].pattern
  BY FindEffect
<1>4. Pending(w)' = Pending(w)
  BY <1>3 DEF Pending
<1>5. Pending(w) \subseteq S
  BY <1>2, ZenonT(60) DEF BuiltSoFar
<1>6. PICK p, sh, on : p = Pat(w) /\ sh = Shape(p) /\ on = Accepted(p)
  OBVIOUS
<1>7. p.cond[writer'[w].path].vals \in Seq(PVals)
  <2>1. p \in Patterns /\ writer'[w].path \in Paths
    <3>1. writer'[w].pattern = {p} /\ writer'[w].pc = "values" /\ Pat(w)' = p
      BY <1>1, <1>3, <1>6, PatternAtWork DEF Pat
    <3>2. writer'[w].path \in Constrained(p)
      BY <3>1 DEF Inductive, WriterInv, AtWork
    <3> QED BY <1>1, <1>6, <3>2, PatternAtWork DEF Constrained
  <2> QED BY <2>1, PatternAssumption DEF Pattern, Cond
<1>8. \A j \in DOMAIN p.cond[writer'[w].path].vals : ~ (j < 1)
  BY <1>7, LenProperties
<1>9. BuiltSoFar(w, S)'
  BY <1>1, <1>2, <1>3, <1>4, <1>5, <1>6, <1>8, BuildStep
<1> QED BY <1>3, <1>9 DEF Built

LEMMA AddValueBuilt ==
  ASSUME Inductive, Inductive', Grows, Retained, NEW w \in Writers, AddValue(w), Built(w)
  PROVE  Built(w)'
<1>1. PICK p, k, sh, on : /\ p = Pat(w) /\ k = writer[w].path
                          /\ sh = Shape(p) /\ on = Accepted(p)
  OBVIOUS
<1>2. writer[w].pc = "values"
  BY ZenonT(60) DEF AddValue
<1>3. PICK S \in SUBSET (1..Len(fms)) : BuiltSoFar(w, S)
  BY <1>2 DEF Built
<1>4. PICK to \in 1..Len(fms') :
        /\ ValueDone(w, to)
        /\ \A val \in Accepts[p.cond[k].vals[writer[w].val]] :
              to \in TransitionOn(vms'[writer[w].vm], val)
  BY <1>1, AddValueEffect
<1>5. /\ writer'[w].pc = "values" /\ writer'[w].path = k
      /\ writer'[w].states = writer[w].states
      /\ writer'[w].next = Append(writer[w].next, to)
      /\ writer'[w].val = writer[w].val + 1 /\ writer'[w].vm = writer[w].vm
      /\ writer'[w].pattern = writer[w].pattern
  BY <1>1, <1>2, <1>4, ValueShape
<1>6. PICK T : T = S \cup {to}
  OBVIOUS
<1>7. Pending(w)' = Pending(w) \cup {to}
  <2>1. writer[w].next \in Seq(1..Len(fms'))
    <3>1. writer[w].next \in Seq(1..Len(fms))
      BY <1>2, PatternAtWork DEF WriterLocals
    <3>2. 1..Len(fms) \subseteq 1..Len(fms')
      BY LenType DEF Inductive, TypeOK, Grows
    <3> QED BY <3>1, <3>2, SeqMonotonic
  <2>2. Range(writer'[w].next) = Range(writer[w].next) \cup {to}
    BY <1>5, <2>1, AppendRange
  <2> QED BY <1>5, <2>2 DEF Pending
<1>8. Pending(w) \subseteq S
  BY <1>3, ZenonT(60) DEF BuiltSoFar
<1>9. T \in SUBSET (1..Len(fms'))
  <2>1. 1..Len(fms) \subseteq 1..Len(fms')
    BY LenType DEF Inductive, TypeOK, Grows
  <2> QED BY <1>6, <2>1
<1>10. ASSUME NEW j \in DOMAIN p.cond[k].vals, j < writer[w].val + 1,
              NEW val \in Accepts[p.cond[k].vals[j]]
       PROVE  TransitionOn(vms'[writer[w].vm], val) \cap T # {}
  <2>1. p \in Patterns /\ k \in Paths /\ p.cond[k] \in Cond
    BY <1>1, <1>2, CurrentState
  <2>2. j \in Nat /\ p.cond[k].vals[j] \in PVals
    BY <1>10, <2>1, LenProperties, ElementOfSeq DEF Cond
  <2>3. writer[w].val \in Nat /\ writer[w].vm \in 1..Len(vms)
    <3>1. writer[w] \in WriterLocals /\ writer[w].vm # Nil
      BY <1>2, PatternAtWork DEF Inductive, WriterInv, AtWork
    <3> QED BY <3>1, LenType DEF WriterLocals, Nil, Inductive, TypeOK
  <2>4. CASE j = writer[w].val
    BY <1>4, <1>6, <1>10, <2>4
  <2>5. CASE j < writer[w].val
    <3>1. TransitionOn(vms[writer[w].vm], val) \cap S # {}
      BY <1>1, <1>2, <1>3, <1>10, <2>5 DEF BuiltSoFar
    <3>2. val \in Values
      BY <1>10, <2>2, PatternAssumption
    <3> QED BY <1>6, <2>3, <3>1, <3>2 DEF Retained
  <2> QED BY <1>10, <2>2, <2>3, <2>4, <2>5
<1>11. S \subseteq T /\ Pending(w)' \subseteq T /\ \A n \in T \ Pending(w)' : n \in S \ Pending(w)
  BY <1>6, <1>7, <1>8
<1>12. \A j \in DOMAIN p.cond[writer'[w].path].vals : j < writer'[w].val =>
          \A val \in Accepts[p.cond[writer'[w].path].vals[j]] :
              TransitionOn(vms'[writer'[w].vm], val) \cap T # {}
  BY <1>5, <1>10
<1>13. BuiltSoFar(w, T)'
  BY <1>1, <1>2, <1>3, <1>5, <1>9, <1>11, <1>12, BuildStep
<1> QED BY <1>5, <1>9, <1>13 DEF Built

LEMMA PublishBuilt ==
  ASSUME Inductive, Inductive', Grows, Retained, NEW w \in Writers, PublishTransition(w), Built(w)
  PROVE  Built(w)'
<1>1. PICK p, k, s, on, next : /\ p = Pat(w) /\ k = writer[w].path /\ s = Head(writer[w].states)
                               /\ on = Accepted(p) /\ next = writer[w].next
  OBVIOUS
<1>2. /\ vms' = vms /\ writer[w].vm # Nil /\ fms'[s].trans[k] = writer[w].vm
      /\ Goto(w, NextState(p, k, Tail(writer[w].states), next))
  BY <1>1, PublishEffect
<1>3. writer[w].pc = "values" /\ writer[w].val > Len(p.cond[k].vals)
  BY <1>1, ZenonT(60) DEF PublishTransition
<1>4. PICK S \in SUBSET (1..Len(fms)) : BuiltSoFar(w, S)
  BY <1>3 DEF Built
<1>5. Range(next) \subseteq S /\ Range(next) \subseteq 1..Len(fms')
  <2>1. Pending(w) \subseteq S
    BY <1>4, ZenonT(60) DEF BuiltSoFar
  <2>2. 1..Len(fms) \subseteq 1..Len(fms')
    BY LenType DEF Inductive, TypeOK, Grows
  <2> QED BY <1>1, <2>1, <2>2 DEF Pending
<1>6. p \in Patterns /\ k \in Paths /\ p.cond[k].vals \in Seq(PVals)
  <2>1. p \in Patterns /\ k \in Paths /\ p.cond[k] \in Cond
    BY <1>1, <1>3, CurrentState
  <2> QED BY <2>1 DEF Cond
<1>7. ASSUME NEW val \in on[k]
      PROVE  TransitionOn(vms'[writer[w].vm], val) \cap S # {}
  <2>1. PICK pv \in PValsOf(p, k) : val \in Accepts[pv]
    BY <1>1, <1>6, <1>7 DEF Accepted
  <2>2. PICK j \in DOMAIN p.cond[k].vals : pv = p.cond[k].vals[j]
    BY <2>1 DEF PValsOf
  <2>3. writer[w].val \in Nat
    BY <1>3, PatternAtWork DEF WriterLocals
  <2>4. j < writer[w].val
    BY <1>3, <1>6, <2>3, LenProperties
  <2>5. TransitionOn(vms[writer[w].vm], val) \cap S # {}
    BY <1>1, <1>3, <1>4, <2>1, <2>2, <2>4 DEF BuiltSoFar
  <2> QED BY <1>2, <2>5
<1>8. PICK T : T = S \cup Range(next)
  OBVIOUS
<1>9. LeadsOn(s, k, p.cond[k].kind, on[k], T)'
  <2>1. p.cond[k].kind = "vals"
    BY <1>1, <1>3, CurrentState DEF Inductive, WriterInv, AtWork
  <2>2. \A val \in on[k] : TransitionOn(vms'[fms'[s].trans[k]], val) \cap T # {}
    BY <1>2, <1>7, <1>8
  <2> QED BY <1>2, <2>1, <2>2 DEF LeadsOn
<1>10. Range(writer[w].next) \subseteq Range(next)
  BY <1>1
<1> QED BY <1>1, <1>2, <1>3, <1>4, <1>5, <1>8, <1>9, <1>10, GotoBuilt

LEMMA AddMatchBuilt ==
  ASSUME Inductive, Inductive', Grows, Retained, NEW w \in Writers, AddMatch(w), Built(w)
  PROVE  Built(w)'
<1>1. PICK p, sh, on, s : /\ p = Pat(w) /\ sh = Shape(p) /\ on = Accepted(p)
                          /\ s = Head(writer[w].states)
  OBVIOUS
<1>2. writer[w].pc = "ends"
  BY ZenonT(60) DEF AddMatch
<1>3. PICK S \in SUBSET (1..Len(fms)) : BuiltSoFar(w, S)
  BY <1>2 DEF Built
<1>4. /\ p.x \in fms'[s].matches /\ s \in 1..Len(fms) /\ writer[w].states # <<>>
      /\ writer'[w].pc = "ends" /\ writer'[w].states = Tail(writer[w].states)
      /\ writer'[w].next = writer[w].next
      /\ writer'[w].pattern = writer[w].pattern
  BY <1>1, AddMatchEffect
<1>5. Range(writer[w].states) = {s} \cup Range(Tail(writer[w].states))
  <2>1. writer[w].states \in Seq(1..Len(fms))
    BY <1>2, PatternAtWork DEF WriterLocals
  <2> QED BY <1>1, <1>4, <2>1, TailRange
<1>6. Pending(w) = Pending(w)' \cup {s}
  BY <1>4, <1>5 DEF Pending
<1>7. Pending(w) \subseteq S
  BY <1>3, ZenonT(60) DEF BuiltSoFar
<1>8. S \in SUBSET (1..Len(fms'))
  <2>1. 1..Len(fms) \subseteq 1..Len(fms')
    BY LenType DEF Inductive, TypeOK, Grows
  <2> QED BY <2>1
<1>9. Served(s, sh, on, p.x, S)'
  <2>1. Chooses(fms[s].via, p)
    <3>1. writer[w].states \in Seq(1..Len(fms))
      BY <1>2, PatternAtWork DEF WriterLocals
    <3>2. 1 \in 1..Len(writer[w].states) /\ writer[w].states[1] = s
      BY <1>1, <1>4, <3>1, LenProperties, HeadTailProperties
    <3> QED BY <1>1, <1>2, <3>2 DEF Inductive, WriterInv, StatesLabelled
  <2>2. p \in Patterns /\ fms'[s].via = fms[s].via
    BY <1>1, <1>2, <1>4, PatternAtWork DEF Grows
  <2>3. ASSUME NEW k \in Paths, sh[k] # "free"
        PROVE  fms[s].via[k] # "free"
    <3>1. k \in Constrained(p)
      BY <1>1, <2>3 DEF Shape
    <3>2. PValsOf(p, k) \subseteq PVals
      <4>1. p.cond[k].vals \in Seq(PVals)
        BY <2>2, PatternAssumption DEF Pattern, Cond
      <4> QED BY <4>1 DEF PValsOf
    <3> QED BY <2>1, <3>1, <3>2, LabelAssumption DEF Chooses, ChoosesAt, Constrained
  <2>4. Left(sh, fms'[s].via) = {}
    BY <2>2, <2>3 DEF Left
  <2>5. Leads(s, sh, on, S)'
    BY <2>4 DEF Leads, Least
  <2> QED BY <1>4, <2>5 DEF Served
<1>10. \A n \in S \ Pending(w)' : n \in S \ Pending(w) \/ Served(n, sh, on, p.x, S)'
  BY <1>6, <1>9
<1>11. writer'[w].pc # "values" /\ writer'[w].next = <<>>
  BY <1>2, <1>3, <1>4 DEF BuiltSoFar
<1>12. BuiltSoFar(w, S)'
  BY <1>1, <1>2, <1>3, <1>4, <1>6, <1>7, <1>8, <1>10, <1>11, BuildStep
<1> QED BY <1>4, <1>8, <1>12 DEF Built

(* With every state served, the Pattern is.                                *)
LEMMA StoreCoreBuilt ==
  ASSUME Inductive, Inductive', Grows, Retained, NEW w \in Writers, StoreCore(w), Built(w)
  PROVE  Built(w)'
<1>1. PICK p, sh, on : p = Pat(w) /\ sh = Shape(p) /\ on = Accepted(p)
  OBVIOUS
<1>2. /\ writer[w].pc = "ends" /\ writer[w].states = <<>> /\ fms' = fms /\ vms' = vms
      /\ writer' = [writer EXCEPT ![w].pc = "stored"]
  BY ZenonT(60) DEF StoreCore
<1>3. PICK S \in SUBSET (1..Len(fms)) : BuiltSoFar(w, S)
  BY <1>2 DEF Built
<1>4. writer'[w].pc = "stored" /\ writer'[w].pattern = writer[w].pattern
  BY <1>2 DEF Inductive, TypeOK, WriterLocals
<1>5. p \in Patterns /\ p = Pat(w)'
  BY <1>1, <1>2, <1>4, PatternAtWork DEF Pat
<1>6. Pending(w) = {}
  BY <1>2, <1>3 DEF Pending, BuiltSoFar, Range
<1>7. \A n \in S : Served(n, sh, on, p.x, S)
  BY <1>1, <1>3, <1>6 DEF BuiltSoFar
<1>8. Serves(sh, on, p.x, S)
  BY <1>3, <1>7 DEF Serves, BuiltSoFar
<1>9. Serves(sh, on, p.x, S)' /\ S \in SUBSET (1..Len(fms'))
  BY <1>1, <1>5, <1>8, AcceptedType, ServesKeep
<1> QED BY <1>1, <1>4, <1>5, <1>9 DEF Built

LEMMA UnlockBuilt ==
  ASSUME Inductive, Inductive', Grows, Retained, NEW w \in Writers, Unlock(w), Built(w)
  PROVE  Built(w)'
<1>1. PICK p, sh, on : p = Pat(w) /\ sh = Shape(p) /\ on = Accepted(p)
  OBVIOUS
<1>2. writer[w].pc = "stored" /\ writer' = [writer EXCEPT ![w].pc = "done"]
  BY ZenonT(60) DEF Unlock
<1>3. writer'[w].pc = "done" /\ writer'[w].pattern = writer[w].pattern
  BY <1>2 DEF Inductive, TypeOK, WriterLocals
<1>4. p \in Patterns /\ p = Pat(w)'
  BY <1>1, <1>2, <1>3, PatternAtWork DEF Pat
<1>5. PICK S \in SUBSET (1..Len(fms)) : Serves(sh, on, p.x, S)
  BY <1>1, <1>2 DEF Built
<1>6. Serves(sh, on, p.x, S)' /\ S \in SUBSET (1..Len(fms'))
  BY <1>1, <1>4, <1>5, AcceptedType, ServesKeep
<1> QED BY <1>1, <1>3, <1>4, <1>6 DEF Built

LEMMA PanicBuilt ==
  ASSUME Inductive, NEW w \in Writers, Panic(w)
  PROVE  Built(w)'
<1>1. writer' = [writer EXCEPT ![w].pc = "failed"]
  BY ZenonT(60) DEF Panic
<1>2. writer'[w].pc = "failed"
  BY <1>1 DEF Inductive, TypeOK, WriterLocals
<1> QED BY <1>2 DEF Built

(* A step of one call keeps what all calls have built.                     *)
LEMMA WriterBuilt ==
  ASSUME Inductive, Inductive', Grows, Retained, NEW w \in Writers, WriterStep(w),
         \A v \in Writers : Built(v)
  PROVE  \A v \in Writers : Built(v)'
<1>1. Built(w)
  OBVIOUS
<1>2. Built(w)'
  BY <1>1, AcquireBuilt, AddExistsBuilt, FindBuilt, AddValueBuilt, PublishBuilt, PanicBuilt,
     AddMatchBuilt, StoreCoreBuilt, UnlockBuilt DEF WriterStep
<1>3. \A v \in Writers \ {w} : writer'[v] = writer[v]
  BY WriterMove
<1>4. ASSUME NEW v \in Writers \ {w}
      PROVE  Built(v)'
  BY <1>3, BuiltKeep
<1> QED BY <1>2, <1>4
=============================================================================
