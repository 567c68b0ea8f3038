------------------------- MODULE CoreMatcherKeepProofs -------------------------
(***************************************************************************)
(* What the growth of the automaton leaves standing: a way to a matcher or *)
(* to an X, once there, stays, whatever AddPattern calls do.  Hence their  *)
(* steps preserve Sound.                                                   *)
(***************************************************************************)
EXTENDS CoreMatcherWalkInv, CoreMatcherProofs

-----------------------------------------------------------------------------
(* The fields of a call.                                                   *)
LEMMA RealFields ==
  ASSUME Inductive, NEW r \in Readers, KeptKnown(r), NEW i \in Real(r)
  PROVE  /\ reader[r].event \in Events /\ i \in DOMAIN reader[r].event
         /\ i \in Nat \ {0} /\ i \in reader[r].kept
         /\ FieldAt(r, i) \in Field /\ PathAt(r, i) = FieldAt(r, i).path
<1>1. PICK e : e = reader[r].event
  OBVIOUS
<1>2. e \in Events \cup {<<>>} /\ i \in DOMAIN e /\ i # FakeIndex /\ i \in reader[r].kept
  BY <1>1 DEF Inductive, TypeOK, ReaderLocals, KeptKnown, Real
<1>3. e \in Events
  BY <1>2
<1>4. e \in Seq(Field)
  BY <1>3, PatternAssumption
<1>5. i \in 1..Len(e) /\ Len(e) \in Nat
  BY <1>2, <1>4, LenProperties
<1>6. e[i] \in Field
  BY <1>4, <1>5, ElementOfSeq
<1> QED BY <1>1, <1>2, <1>3, <1>5, <1>6 DEF FieldAt, PathAt

(* Fields fit together both ways, and a field fits with itself.            *)
LEMMA TogetherBothWays ==
  ASSUME Inductive, NEW r \in Readers, KeptKnown(r), NEW i \in Real(r)
  PROVE  /\ Together(r, i, i)
         /\ \A j : Together(r, i, j) => Together(r, j, i)
<1>1. Together(r, i, i)
  BY RealFields, TrailAssumption DEF Together, FieldAt
<1>2. \A j : Together(r, i, j) => Together(r, j, i)
  BY DEF Together, NoArrayTrailConflict
<1> QED BY <1>1, <1>2

(* What a call knows of its fields depends on its event and on the indexes *)
(* it kept only.                                                           *)
LEMMA FieldsSame ==
  ASSUME NEW r \in Readers,
         reader'[r].event = reader[r].event, reader'[r].kept = reader[r].kept
  PROVE  /\ \A i : PathAt(r, i)' = PathAt(r, i) /\ FieldAt(r, i)' = FieldAt(r, i)
         /\ \A i, j : Together(r, i, j)' = Together(r, i, j)
         /\ \A k : HasPath(r, k)' = HasPath(r, k)
         /\ \A i : Later(r, i)' = Later(r, i)
         /\ Real(r)' = Real(r)
         /\ \A via : Picks(via, r)' = Picks(via, r)
         /\ \A pick : ValuesOf(r, pick)' = ValuesOf(r, pick)
         /\ \A p : Choices(p, r)' = Choices(p, r) /\ Fitting(p, r)' = Fitting(p, r)
<1>1. /\ \A i : PathAt(r, i)' = PathAt(r, i) /\ FieldAt(r, i)' = FieldAt(r, i)
      /\ Real(r)' = Real(r)
  BY DEF PathAt, FieldAt, Real
<1>2. /\ \A i, j : Together(r, i, j)' = Together(r, i, j)
      /\ \A k : HasPath(r, k)' = HasPath(r, k)
      /\ \A i : Later(r, i)' = Later(r, i)
  BY <1>1 DEF Together, HasPath, Later
<1>3. \A via : Picks(via, r)' = Picks(via, r)
  BY <1>1, <1>2 DEF Picks
<1>4. \A pick : ValuesOf(r, pick)' = ValuesOf(r, pick)
  BY <1>1 DEF ValuesOf
<1>5. \A p : Choices(p, r)' = Choices(p, r)
  BY <1>1, <1>2 DEF Choices
<1>6. \A p : Fitting(p, r)' = Fitting(p, r)
  BY <1>2, <1>5 DEF Fitting
<1> QED BY <1>1, <1>2, <1>3, <1>4, <1>5, <1>6

(* Values of fields are values.                                            *)
LEMMA ValuesOfType ==
  ASSUME Inductive, NEW r \in Readers, KeptKnown(r), NEW D, NEW pick \in [D -> Real(r)]
  PROVE  ValuesOf(r, pick) \in [Paths -> SUBSET Values]
<1>1. \A i \in Real(r) : FieldAt(r, i).val \in Values
  BY RealFields DEF Field
<1> QED BY <1>1 DEF ValuesOf

-----------------------------------------------------------------------------
(* What the growth of the heap leaves standing.                            *)
LEMMA LeadsKeep ==
  ASSUME Inductive, Grows, Retained, NEW n \in 1..Len(fms), NEW sh,
         NEW on \in [Paths -> SUBSET Values], NEW S \in SUBSET (1..Len(fms)),
         Leads(n, sh, on, S)
  PROVE  Leads(n, sh, on, S)'
<1> SUFFICES ASSUME NEW k \in Paths, Least(k, Left(sh, fms'[n].via))
             PROVE  LeadsOn(n, k, sh[k], on[k], S)'
  BY DEF Leads
<1>1. LeadsOn(n, k, sh[k], on[k], S)
  BY DEF Leads, Grows
<1>2. FmOK(fms[n]) /\ Len(fms) \in Nat /\ Len(vms) \in Nat
  BY Visited, LenType DEF Inductive, TypeOK
<1>3. /\ Keeps(fms[n].trans, fms'[n].trans) /\ Keeps(fms[n].exists, fms'[n].exists)
      /\ Keeps(fms[n].absent, fms'[n].absent)
      /\ \A m \in 1..Len(vms) : \A val \in Values :
            TransitionOn(vms[m], val) \subseteq TransitionOn(vms'[m], val)
  BY DEF Retained
<1>4. Nil \notin S
  BY DEF Nil
<1>5. sh[k] = "exists" => fms'[n].exists[k] \in S
  BY <1>1, <1>3, <1>4 DEF LeadsOn, Keeps
<1>6. sh[k] = "absent" => fms'[n].absent[k] \in S
  BY <1>1, <1>3, <1>4 DEF LeadsOn, Keeps
<1>7. ASSUME sh[k] = "vals"
      PROVE  /\ fms'[n].trans[k] # Nil
             /\ \A val \in on[k] : TransitionOn(vms'[fms'[n].trans[k]], val) \cap S # {}
  <2>1. PICK v : v = fms[n].trans[k]
    OBVIOUS
  <2>2. v # Nil /\ \A val \in on[k] : TransitionOn(vms[v], val) \cap S # {}
    BY <1>1, <1>7, <2>1 DEF LeadsOn
  <2>3. v \in 1..Len(vms) /\ fms'[n].trans[k] = v
    BY <1>2, <1>3, <2>1, <2>2 DEF FmOK, Keeps, Nil
  <2>4. \A val \in on[k] : TransitionOn(vms[v], val) \subseteq TransitionOn(vms'[v], val)
    BY <1>3, <2>3
  <2> QED BY <2>2, <2>3, <2>4
<1> QED BY <1>5, <1>6, <1>7 DEF LeadsOn

(* The way to a matcher.                                                   *)
LEMMA LedToKeep ==
  ASSUME Inductive, Inductive', Grows, Retained, NEW m \in 1..Len(fms),
         NEW on \in [Paths -> SUBSET Values], NEW S \in SUBSET (1..Len(fms)),
         LedTo(m, on, S)
  PROVE  LedTo(m, on, S)' /\ S \in SUBSET (1..Len(fms'))
<1>1. PICK sh : sh = ShapeOf(fms[m].via)
  OBVIOUS
<1>2. sh = ShapeOf(fms'[m].via) /\ \A n \in S : fms'[n].via = fms[n].via
  BY <1>1 DEF Grows
<1>3. S \subseteq 1..Len(fms')
  BY LenType DEF Inductive, TypeOK, Grows
<1>4. \A n \in S \ {m} : Left(sh, fms[n].via) # {} /\ Leads(n, sh, on, S)
  BY <1>1 DEF LedTo
<1>5. \A n \in S \ {m} : Leads(n, sh, on, S)'
  BY <1>4, LeadsKeep
<1>6. \A n \in S \ {m} : Left(sh, fms'[n].via) # {} /\ Leads(n, sh, on, S)'
  BY <1>2, <1>4, <1>5
<1>7. Root \in S /\ m \in S
  BY DEF LedTo
<1> QED BY <1>2, <1>3, <1>6, <1>7 DEF LedTo

(* The way to an X.                                                        *)
LEMMA ServedKeep ==
  ASSUME Inductive, Grows, Retained, NEW n \in 1..Len(fms), NEW sh,
         NEW on \in [Paths -> SUBSET Values], NEW x, NEW S \in SUBSET (1..Len(fms)),
         Served(n, sh, on, x, S)
  PROVE  Served(n, sh, on, x, S)'
<1>1. Leads(n, sh, on, S)'
  BY LeadsKeep DEF Served
<1>2. fms[n].matches \subseteq fms'[n].matches /\ fms'[n].via = fms[n].via
  BY DEF Retained, Grows
<1> QED BY <1>1, <1>2 DEF Served

LEMMA ServesKeep ==
  ASSUME Inductive, Inductive', Grows, Retained, NEW sh,
         NEW on \in [Paths -> SUBSET Values], NEW x, NEW S \in SUBSET (1..Len(fms)),
         Serves(sh, on, x, S)
  PROVE  Serves(sh, on, x, S)' /\ S \in SUBSET (1..Len(fms'))
<1>1. S \subseteq 1..Len(fms')
  BY LenType DEF Inductive, TypeOK, Grows
<1>2. \A n \in S : Served(n, sh, on, x, S)'
  BY ServedKeep DEF Serves
<1> QED BY <1>1, <1>2 DEF Serves

(* The ways a walk may have come, and what it may go on with.              *)
LEMMA WaysKeep ==
  ASSUME Inductive, Inductive', Grows, Retained, NEW r \in Readers, KeptKnown(r),
         reader'[r].event = reader[r].event, reader'[r].kept = reader[r].kept,
         NEW m \in 1..Len(fms)
  PROVE  Ways(m, r) \subseteq Ways(m, r)'
<1> SUFFICES ASSUME NEW pick \in Ways(m, r)
             PROVE  pick \in Ways(m, r)'
  OBVIOUS
<1>1. PICK S \in SUBSET (1..Len(fms)) : LedTo(m, ValuesOf(r, pick), S)
  BY DEF Ways
<1>2. PICK on : on = ValuesOf(r, pick)
  OBVIOUS
<1>3. on \in [Paths -> SUBSET Values]
  BY <1>2, ValuesOfType DEF Ways, Picks
<1>4. LedTo(m, on, S)' /\ S \in SUBSET (1..Len(fms'))
  BY <1>1, <1>2, <1>3, LedToKeep
<1>5. pick \in Picks(fms[m].via, r)' /\ on = ValuesOf(r, pick)' /\ fms'[m].via = fms[m].via
  BY <1>2, FieldsSame DEF Ways, Grows
<1> QED BY <1>4, <1>5 DEF Ways

LEMMA MayTakeKeep ==
  ASSUME Inductive, Inductive', Grows, Retained, NEW r \in Readers, KeptKnown(r),
         reader'[r].event = reader[r].event, reader'[r].kept = reader[r].kept,
         NEW m \in 1..Len(fms), NEW i
  PROVE  /\ MayTake(m, r, i) => MayTake(m, r, i)'
         /\ JustTook(m, r, i) => JustTook(m, r, i)'
<1>1. /\ PathAt(r, i)' = PathAt(r, i) /\ \A j : Together(r, j, i)' = Together(r, j, i)
      /\ Ways(m, r) \subseteq Ways(m, r)'
  BY FieldsSame, WaysKeep
<1>2. MayTake(m, r, i) => MayTake(m, r, i)'
  BY <1>1 DEF MayTake
<1>3. JustTook(m, r, i) => JustTook(m, r, i)'
  BY <1>1 DEF JustTook
<1> QED BY <1>2, <1>3

(* A pending loop that fits goes on to fit.                                *)
LEMMA FrameFitsKeep ==
  ASSUME Inductive, Inductive', Grows, Retained, NEW r \in Readers, KeptKnown(r),
         reader'[r].event = reader[r].event, reader'[r].kept = reader[r].kept,
         NEW f \in Frames(reader[r].kept), FrameFits(f, r)
  PROVE  FrameFits(f, r)'
<1> SUFFICES ASSUME NEW m \in f.to, NEW i \in f.at
             PROVE  /\ f.op \in {"try", "recheck", "trans", "absent"} => MayTake(m, r, i)'
                    /\ f.op \in {"exists", "next"} => JustTook(m, r, i)'
                    /\ f.op = "absent" => Checked(m)'
                    /\ f.op = "values" => \E n \in Owners(m)' : MayTake(n, r, i)'
  BY DEF FrameFits
<1>1. /\ f.op \in {"try", "recheck", "trans", "absent"} => MayTake(m, r, i)
      /\ f.op \in {"exists", "next"} => JustTook(m, r, i)
      /\ f.op = "absent" => Checked(m)
      /\ f.op = "values" => \E n \in Owners(m) : MayTake(n, r, i)
  BY DEF FrameFits
<1>2. CASE f.op # "values"
  <2>1. m \in 1..Len(fms)
    BY <1>2 DEF Frames
  <2>2. Checked(m) => Checked(m)'
    BY <2>1 DEF Checked, Grows
  <2> QED BY <1>1, <1>2, <2>1, <2>2, MayTakeKeep
<1>3. CASE f.op = "values"
  <2>1. PICK n \in Owners(m) : MayTake(n, r, i)
    BY <1>1, <1>3
  <2>2. m \in 1..Len(vms) /\ n \in 1..Len(fms) /\ m # Nil
    BY <1>3 DEF Frames, Owners, Nil
  <2>3. MayTake(n, r, i)'
    BY <2>1, <2>2, MayTakeKeep
  <2>4. vms[m].path \in Paths
    <3>1. vms[m] \in VmFields
      BY <2>2, ElementOfSeq DEF Inductive, TypeOK, HeapOK
    <3> QED BY <3>1 DEF VmFields
  <2>5. Len(fms) \in Nat /\ Len(fms') \in Nat
    BY LenType DEF Inductive, TypeOK
  <2>6. n \in Owners(m)'
    BY <2>1, <2>2, <2>4, <2>5 DEF Owners, Grows, Retained, Keeps
  <2> QED BY <1>3, <2>3, <2>6
<1> QED BY <1>2, <1>3

-----------------------------------------------------------------------------
(* What the steps of an AddPattern call do.                                *)
Linked(f, l) == f.trans[l] # Nil \/ f.exists[l] # Nil \/ f.absent[l] # Nil

(* No entry appears but at the fieldMatcher s, for path k.                 *)
LinkedAt(s, k) ==
    \A n \in 1..Len(fms') : \A l \in Paths :
        Linked(fms'[n], l) => \/ n \in 1..Len(fms) /\ Linked(fms[n], l)
                              \/ n = s /\ l = k

(* AddExists leads from the state to a matcher which is in turn.           *)
LEMMA AddExistsEffect ==
  ASSUME Inductive, NEW w \in Writers, AddExists(w)
  PROVE  /\ core' = core /\ vms' = vms /\ reader' = reader
         /\ LinkedAt(Head(writer[w].states), writer[w].path)
         /\ \E to \in 1..Len(fms') :
              /\ Goto(w, NextState(Pat(w), writer[w].path, Tail(writer[w].states),
                                   Append(writer[w].next, to)))
              /\ \/ /\ Pat(w).cond[writer[w].path].kind = "exists"
                    /\ fms'[Head(writer[w].states)].exists[writer[w].path] = to
                 \/ /\ Pat(w).cond[writer[w].path].kind = "absent"
                    /\ fms'[Head(writer[w].states)].absent[writer[w].path] = to
<1>1. PICK p, k, s : p = Pat(w) /\ k = writer[w].path /\ s = Head(writer[w].states)
  OBVIOUS
<1>2. PICK kind, via, old, to, new :
        /\ kind = p.cond[k].kind /\ via = [fms[s].via EXCEPT ![k] = kind]
        /\ old = IF kind = "exists" THEN fms[s].exists[k] ELSE fms[s].absent[k]
        /\ to = IF old # Nil THEN old ELSE Len(fms) + 1
        /\ new = NewFieldMatcher(via)
  BY ZenonT(60)
<1>3. /\ writer[w].pc = "build" /\ kind # "vals" /\ EntryMade(s, k, kind, old, to, new)
      /\ core' = core /\ vms' = vms /\ reader' = reader
      /\ Goto(w, NextState(p, k, Tail(writer[w].states), Append(writer[w].next, to)))
  BY <1>1, <1>2, ZenonT(60) DEF AddExists, EntryMade
<1>4. /\ k \in Paths /\ kind \in {"exists", "absent"}
      /\ s \in 1..Len(fms) /\ fms[s] \in FmFields /\ Len(fms) \in Nat
      /\ fms \in Seq(FmFields) /\ FmOK(fms[s])
  BY <1>1, <1>2, <1>3, CurrentState, ZenonT(60) DEF Inductive, TypeOK, HeapOK
<1>5. /\ to \in 1..Len(fms') /\ LinkedAt(s, k)
      /\ kind = "exists" => fms'[s].exists[k] = to
      /\ kind = "absent" => fms'[s].absent[k] = to
  <2>1. CASE old # Nil
    <3>1. fms' = fms /\ to = old
      BY <1>2, <1>3, <2>1 DEF EntryMade
    <3>2. old \in 1..Len(fms)
      BY <1>2, <1>4, <2>1 DEF FmOK, Nil
    <3>3. LinkedAt(s, k)
      BY <3>1 DEF LinkedAt
    <3>4. to \in 1..Len(fms') /\ fms'[s] = fms[s]
      BY <3>1, <3>2
    <3>5. /\ kind = "exists" => fms[s].exists[k] = to
          /\ kind = "absent" => fms[s].absent[k] = to
      BY <1>2, <3>1
    <3> QED BY <3>3, <3>4, <3>5
  <2>2. CASE old = Nil
    <3>1. to = Len(fms) + 1 /\ to \in Nat
      BY <1>2, <1>4, <2>2
    <3>2. PICK fs : fs = IF kind = "exists" THEN [fms[s] EXCEPT !.exists[k] = to]
                         ELSE [fms[s] EXCEPT !.absent[k] = to]
      OBVIOUS
    <3>3. fs \in FmFields /\ WithEntry(fs, fms[s], k, kind, to)
      BY <1>4, <3>1, <3>2, EntryStored
    <3>4. new \in FmFields /\ \A l \in Paths : ~ Linked(new, l)
      <4>1. via \in Via
        BY <1>2, <1>4 DEF FmFields, Via
      <4> QED BY <1>2, <4>1, NewFieldMatcherType DEF Linked
    <3>5. Append(fms, new)[s] = fms[s]
      BY <1>4, <3>4, AppendProperties
    <3>6. fms' = [Append(fms, new) EXCEPT ![s] = fs]
      BY <1>3, <2>2, <3>2, <3>5 DEF EntryMade
    <3>7. Extended(s, fs, new)
      BY <1>4, <3>3, <3>4, <3>6, ExtendedBy
    <3>8. \A l \in Paths : Linked(fs, l) => Linked(fms[s], l) \/ l = k
      BY <3>3 DEF Linked, WithEntry
    <3>9. LinkedAt(s, k)
      BY <1>4, <3>4, <3>7, <3>8 DEF LinkedAt, Extended
    <3>10. to \in 1..Len(fms') /\ fms'[s] = fs
      BY <1>4, <3>1, <3>7 DEF Extended
    <3>11. /\ kind = "exists" => fs.exists[k] = to
           /\ kind = "absent" => fs.absent[k] = to
      BY <1>4, <3>3 DEF WithEntry
    <3> QED BY <3>9, <3>10, <3>11
  <2> QED BY <2>1, <2>2
<1>6. kind = Pat(w).cond[writer[w].path].kind
  BY <1>1, <1>2
<1>7. \/ kind = "exists" /\ fms'[s].exists[k] = to
      \/ kind = "absent" /\ fms'[s].absent[k] = to
  BY <1>4, <1>5
<1> QED BY <1>1, <1>3, <1>5, <1>6, <1>7, ZenonT(60)

(* FindValueMatcher only allocates.                                        *)
LEMMA FindEffect ==
  ASSUME Inductive, NEW w \in Writers, FindValueMatcher(w)
  PROVE  /\ core' = core /\ fms' = fms /\ reader' = reader
         /\ \A n \in 1..Len(vms') :
               \/ n \in 1..Len(vms)
               \/ /\ vms'[n].via = fms[Head(writer[w].states)].via
                  /\ vms'[n].path = writer[w].path
         /\ writer'[w].pc = "values" /\ writer'[w].val = 1
         /\ writer'[w].states = writer[w].states /\ writer'[w].next = writer[w].next
         /\ writer'[w].pattern = writer[w].pattern /\ writer'[w].tree = writer[w].tree
<1>1. PICK new, vm :
        /\ new = NewValueMatcher(fms[Head(writer[w].states)].via, writer[w].path)
        /\ core' = core /\ fms' = fms /\ reader' = reader
        /\ vms' = vms \/ vms' = Append(vms, new)
        /\ writer' = [writer EXCEPT ![w] = [@ EXCEPT !.pc = "values", !.val = 1, !.vm = vm]]
  BY DEF FindValueMatcher
<1>2. writer \in [Writers -> WriterLocals] /\ vms \in Seq(VmFields)
  BY DEF Inductive, TypeOK, HeapOK
<1>3. writer'[w] = [writer[w] EXCEPT !.pc = "values", !.val = 1, !.vm = vm]
      /\ writer[w] \in WriterLocals
  BY <1>1, <1>2
<1>4. /\ writer'[w].pc = "values" /\ writer'[w].val = 1
      /\ writer'[w].states = writer[w].states /\ writer'[w].next = writer[w].next
      /\ writer'[w].pattern = writer[w].pattern /\ writer'[w].tree = writer[w].tree
  BY <1>3 DEF WriterLocals
<1>5. new.via = fms[Head(writer[w].states)].via /\ new.path = writer[w].path
  BY <1>1 DEF NewValueMatcher
<1>6. \A n \in 1..Len(vms') : n \in 1..Len(vms) \/ vms'[n] = new
  <2>1. Len(vms) \in Nat
    BY <1>2, LenProperties
  <2>2. vms' = Append(vms, new) => Len(vms') = Len(vms) + 1 /\ vms'[Len(vms) + 1] = new
    BY <1>2
  <2> QED BY <1>1, <2>1, <2>2
<1> QED BY <1>1, <1>4, <1>5, <1>6

(* A value leads to where it was told.                                     *)
LEMMA WithValueLeads ==
  ASSUME NEW vm \in VmFields, NEW pv, NEW to, NEW val \in Accepts[pv],
         NEW v, v = WithValue(vm, pv, to)
  PROVE  to \in TransitionOn(v, val)
<1> DEFINE live == (IF v.singleton # {} THEN v.singleton ELSE v.start) \cup v.ranges
<1>1. <<pv, to>> \in live
  <2>1. CASE v = WithRange(vm, pv, to)
    BY <2>1 DEF WithRange, VmFields
  <2>2. CASE v = WithSingleton(vm, pv, to)
    BY <2>2 DEF WithSingleton, VmFields
  <2>3. CASE v = WithAutomaton(vm, pv, to)
    BY <2>3 DEF WithAutomaton, VmFields
  <2> QED BY <2>1, <2>2, <2>3 DEF WithValue
<1>2. TransitionOn(v, val) = {e[2] : e \in {d \in live : val \in Accepts[d[1]]}}
  BY DEF TransitionOn
<1> HIDE DEF live
<1>3. <<pv, to>> \in {d \in live : val \in Accepts[d[1]]}
  BY <1>1
<1> QED BY <1>2, <1>3

(* So does the singleton.                                                  *)
LEMMA SingletonLeads ==
  ASSUME NEW vm, NEW pv, NEW to \in SingletonFor(vm, pv), NEW val \in Accepts[pv]
  PROVE  to \in TransitionOn(vm, val)
<1>1. PICK e \in vm.singleton : e[1] = pv /\ e[2] = to
  BY DEF SingletonFor
<1> QED BY <1>1 DEF TransitionOn

(* AddValue makes the valueMatcher lead to a matcher which is in turn.     *)
LEMMA AddValueEffect ==
  ASSUME Inductive, NEW w \in Writers, AddValue(w)
  PROVE  /\ core' = core /\ reader' = reader /\ Len(vms') = Len(vms)
         /\ \A n \in 1..Len(fms) : fms'[n] = fms[n]
         /\ LinkedAt(Head(writer[w].states), writer[w].path)
         /\ \E to \in 1..Len(fms') :
              /\ ValueDone(w, to)
              /\ \A val \in Accepts[Pat(w).cond[writer[w].path].vals[writer[w].val]] :
                    to \in TransitionOn(vms'[writer[w].vm], val)
<1>1. PICK p, k, s, m, pv, vm, via, new :
        /\ p = Pat(w) /\ k = writer[w].path /\ s = Head(writer[w].states)
        /\ m = writer[w].vm /\ pv = p.cond[k].vals[writer[w].val]
        /\ vm = vms[m] /\ via = [fms[s].via EXCEPT ![k] = pv]
        /\ new = NewFieldMatcher(via)
  OBVIOUS
<1>2. /\ writer[w].pc = "values" /\ core' = core /\ reader' = reader
      /\ \/ \E to \in SingletonFor(vm, pv) : ValueDone(w, to) /\ UNCHANGED <<fms, vms>>
         \/ /\ ValueStored(m, WithValue(vm, pv, Len(fms) + 1), new)
            /\ ValueDone(w, Len(fms) + 1)
  BY <1>1, ZenonT(60) DEF AddValue, ValueStored, ValueDone
<1>3. /\ fms \in Seq(FmFields) /\ vms \in Seq(VmFields) /\ AtWork(w)
      /\ Len(fms) \in Nat /\ Len(vms) \in Nat /\ writer[w] \in WriterLocals
  BY LenType DEF Inductive, TypeOK, HeapOK, WriterInv
<1>4. m \in 1..Len(vms)
  <2>1. m # Nil
    BY <1>1, <1>2, <1>3 DEF AtWork
  <2>2. m \in 0..Len(vms)
    BY <1>1, <1>3 DEF WriterLocals
  <2> QED BY <1>3, <2>1, <2>2 DEF Nil
<1>5. vm \in VmFields
  BY <1>1, <1>3, <1>4, ElementOfSeq
<1>6. CASE \E to \in SingletonFor(vm, pv) : ValueDone(w, to) /\ UNCHANGED <<fms, vms>>
  <2>1. PICK to \in SingletonFor(vm, pv) : ValueDone(w, to) /\ UNCHANGED <<fms, vms>>
    BY <1>6
  <2>2. \A val \in Accepts[pv] : to \in TransitionOn(vm, val)
    BY SingletonLeads
  <2>3. to \in 1..Len(fms)
    <3>1. PICK e \in Edges(vm) : e[2] = to
      BY DEF SingletonFor, Edges
    <3>2. VmOK(vm)
      BY <1>1, <1>4 DEF Inductive, TypeOK, HeapOK
    <3> QED BY <3>1, <3>2 DEF VmOK
  <2>4. LinkedAt(s, k)
    BY <2>1 DEF LinkedAt
  <2>5. to \in 1..Len(fms') /\ vms'[m] = vm /\ Len(vms') = Len(vms)
        /\ \A n \in 1..Len(fms) : fms'[n] = fms[n]
    BY <1>1, <2>1, <2>3
  <2> QED BY <1>1, <1>2, <2>1, <2>2, <2>4, <2>5, ZenonT(60)
<1>7. CASE /\ ValueStored(m, WithValue(vm, pv, Len(fms) + 1), new)
           /\ ValueDone(w, Len(fms) + 1)
  <2>1. PICK to, v : to = Len(fms) + 1 /\ v = WithValue(vm, pv, to)
    OBVIOUS
  <2>2. fms' = Append(fms, new) /\ vms' = [vms EXCEPT ![m] = v] /\ ValueDone(w, to)
    BY <1>7, <2>1 DEF ValueStored
  <2>3. \A l \in Paths : ~ Linked(new, l)
    BY <1>1 DEF NewFieldMatcher, Linked
  <2>4. /\ Len(fms') = Len(fms) + 1 /\ fms'[Len(fms) + 1] = new
        /\ \A n \in 1..Len(fms) : fms'[n] = fms[n]
    BY <1>3, <2>2
  <2>5. LinkedAt(s, k)
    BY <1>3, <2>3, <2>4 DEF LinkedAt
  <2>6. vms'[m] = v /\ Len(vms') = Len(vms)
    BY <1>3, <1>4, <2>2
  <2>7. \A val \in Accepts[pv] : to \in TransitionOn(v, val)
    BY <1>5, <2>1, WithValueLeads
  <2>8. to \in 1..Len(fms')
    BY <1>3, <2>1, <2>4
  <2> QED BY <1>1, <1>2, <2>2, <2>4, <2>5, <2>6, <2>7, <2>8, ZenonT(60)
<1> QED BY <1>2, <1>6, <1>7

(* PublishTransition leads from the state to the valueMatcher.             *)
LEMMA PublishEffect ==
  ASSUME Inductive, NEW w \in Writers, PublishTransition(w)
  PROVE  /\ core' = core /\ vms' = vms /\ reader' = reader
         /\ LinkedAt(Head(writer[w].states), writer[w].path)
         /\ Goto(w, NextState(Pat(w), writer[w].path, Tail(writer[w].states), writer[w].next))
         /\ writer[w].vm # Nil
         /\ fms'[Head(writer[w].states)].trans[writer[w].path] = writer[w].vm
<1>1. PICK s, k, vm : s = Head(writer[w].states) /\ k = writer[w].path /\ vm = writer[w].vm
  OBVIOUS
<1>2. /\ writer[w].pc = "values" /\ core' = core /\ vms' = vms /\ reader' = reader
      /\ fms' = [fms EXCEPT ![s].trans[k] = vm]
      /\ Goto(w, NextState(Pat(w), writer[w].path, Tail(writer[w].states), writer[w].next))
  BY <1>1 DEF PublishTransition
<1>3. s \in 1..Len(fms) /\ fms[s] \in FmFields /\ k \in Paths
  BY <1>1, <1>2, CurrentState, SMTT(60)
<1>4. vm # Nil
  BY <1>1, <1>2 DEF Inductive, WriterInv, AtWork
<1>5. PICK fs : fs = [fms[s] EXCEPT !.trans[k] = vm]
  OBVIOUS
<1>6. fms \in Seq(FmFields) /\ fms' = [fms EXCEPT ![s] = fs]
  BY <1>2, <1>5 DEF Inductive, TypeOK, HeapOK
<1>7. Len(fms') = Len(fms) /\ \A n \in 1..Len(fms) : fms'[n] = IF n = s THEN fs ELSE fms[n]
  BY <1>6
<1>8. /\ fs.exists = fms[s].exists /\ fs.absent = fms[s].absent
      /\ fs.trans = [fms[s].trans EXCEPT ![k] = vm] /\ fms[s].trans \in [Paths -> Nat]
  BY <1>3, <1>5 DEF FmFields
<1>9. fs.trans[k] = vm /\ \A l \in Paths : Linked(fs, l) => Linked(fms[s], l) \/ l = k
  BY <1>3, <1>8 DEF Linked
<1>10. LinkedAt(s, k) /\ fms'[s].trans[k] = vm
  BY <1>3, <1>7, <1>9 DEF LinkedAt
<1> QED BY <1>1, <1>2, <1>4, <1>10

(* AddMatch adds an X to a state and leaves the entries alone.             *)
LEMMA AddMatchEffect ==
  ASSUME Inductive, NEW w \in Writers, AddMatch(w)
  PROVE  /\ core' = core /\ vms' = vms /\ reader' = reader
         /\ \A n \in 1..Len(fms') : \A l \in Paths :
               Linked(fms'[n], l) => n \in 1..Len(fms) /\ Linked(fms[n], l)
         /\ Pat(w).x \in fms'[Head(writer[w].states)].matches
         /\ Head(writer[w].states) \in 1..Len(fms)
         /\ writer[w].states # <<>>
         /\ writer'[w].pc = "ends" /\ writer'[w].states = Tail(writer[w].states)
         /\ writer'[w].next = writer[w].next
         /\ writer'[w].pattern = writer[w].pattern /\ writer'[w].tree = writer[w].tree
<1>1. PICK s, p : s = Head(writer[w].states) /\ p = Pat(w)
  OBVIOUS
<1>2. /\ writer[w].pc = "ends" /\ writer[w].states # <<>>
      /\ writer' = [writer EXCEPT ![w].states = Tail(@)]
      /\ fms' = [fms EXCEPT ![s].matches = @ \cup {p.x}]
      /\ core' = core /\ vms' = vms /\ reader' = reader
  BY <1>1 DEF AddMatch
<1>3. writer \in [Writers -> WriterLocals] /\ writer[w] \in WriterLocals /\ fms \in Seq(FmFields)
  BY DEF Inductive, TypeOK, HeapOK
<1>4. writer'[w] = [writer[w] EXCEPT !.states = Tail(writer[w].states)]
  BY <1>2, <1>3
<1>5. /\ writer'[w].pc = "ends" /\ writer'[w].states = Tail(writer[w].states)
      /\ writer'[w].next = writer[w].next
      /\ writer'[w].pattern = writer[w].pattern /\ writer'[w].tree = writer[w].tree
  BY <1>2, <1>3, <1>4, ZenonT(60) DEF WriterLocals
<1>6. s \in 1..Len(fms)
  <2>1. writer[w].states \in Seq(1..Len(fms))
    BY <1>3 DEF WriterLocals
  <2> QED BY <1>1, <1>2, <2>1, HeadTailProperties
<1>7. PICK fs : fs = [fms[s] EXCEPT !.matches = @ \cup {p.x}]
  OBVIOUS
<1>8. fms' = [fms EXCEPT ![s] = fs] /\ fms[s] \in FmFields
  BY <1>2, <1>3, <1>6, <1>7, ElementOfSeq
<1>9. Len(fms') = Len(fms) /\ \A n \in 1..Len(fms) : fms'[n] = IF n = s THEN fs ELSE fms[n]
  BY <1>3, <1>8
<1>10. /\ fs.exists = fms[s].exists /\ fs.absent = fms[s].absent /\ fs.trans = fms[s].trans
       /\ p.x \in fs.matches
  BY <1>7, <1>8 DEF FmFields
<1>11. \A n \in 1..Len(fms') : \A l \in Paths :
          Linked(fms'[n], l) => n \in 1..Len(fms) /\ Linked(fms[n], l)
  BY <1>9, <1>10 DEF Linked
<1> QED BY <1>1, <1>2, <1>5, <1>6, <1>9, <1>10, <1>11

-----------------------------------------------------------------------------
(* How the locals of an AddPattern call move on.                           *)
LEMMA GotoShape ==
  ASSUME Inductive, NEW w \in Writers, NEW pos, Goto(w, pos)
  PROVE  /\ \A v \in Writers \ {w} : writer'[v] = writer[v]
         /\ writer'[w].pc = pos.pc /\ writer'[w].path = pos.path
         /\ writer'[w].states = pos.states /\ writer'[w].next = pos.next
         /\ writer'[w].pattern = writer[w].pattern /\ writer'[w].tree = writer[w].tree
<1>1. writer \in [Writers -> WriterLocals]
  BY DEF Inductive, TypeOK
<1>2. /\ \A v \in Writers \ {w} : writer'[v] = writer[v]
      /\ writer'[w] = [writer[w] EXCEPT !.pc = pos.pc, !.path = pos.path, !.states = pos.states,
                                        !.next = pos.next, !.val = 1, !.vm = Nil]
      /\ writer[w] \in WriterLocals
  BY <1>1 DEF Goto
<1> QED BY <1>2 DEF WriterLocals

(* A value leaves the locals but for the states reached.                   *)
LEMMA ValueShape ==
  ASSUME Inductive, NEW w \in Writers, NEW to, ValueDone(w, to)
  PROVE  /\ \A v \in Writers \ {w} : writer'[v] = writer[v]
         /\ writer'[w].pc = writer[w].pc /\ writer'[w].path = writer[w].path
         /\ writer'[w].states = writer[w].states
         /\ writer'[w].next = Append(writer[w].next, to)
         /\ writer'[w].val = writer[w].val + 1 /\ writer'[w].vm = writer[w].vm
         /\ writer'[w].pattern = writer[w].pattern /\ writer'[w].tree = writer[w].tree
<1>1. writer \in [Writers -> WriterLocals]
  BY DEF Inductive, TypeOK
<1>2. PICK next, val : next = Append(writer[w].next, to) /\ val = writer[w].val + 1
  OBVIOUS
<1>3. /\ \A v \in Writers \ {w} : writer'[v] = writer[v]
      /\ writer'[w] = [writer[w] EXCEPT !.next = next, !.val = val]
      /\ writer[w] \in WriterLocals
  BY <1>1, <1>2 DEF ValueDone
<1> QED BY <1>2, <1>3 DEF WriterLocals

(* The next position is in the loops.                                      *)
LEMMA NextStatePc ==
  ASSUME NEW p \in Patterns, NEW k \in Nat, NEW states, NEW next
  PROVE  NextState(p, k, states, next).pc \in {"build", "ends"}
<1>1. \A s : NextPath(p, k, s).pc \in {"build", "ends"}
  BY NextPathShape
<1> QED BY <1>1 DEF NextState

(* The steps of a call in order.                                           *)
LEMMA WriterMove ==
  ASSUME Inductive, NEW w \in Writers, WriterStep(w)
  PROVE  /\ reader' = reader
         /\ \A v \in Writers \ {w} : writer'[v] = writer[v]
         /\ \/ /\ writer[w].pc = "idle" /\ writer'[w].pc \in {"build", "ends"} /\ core' = core
               /\ \E p \in Patterns : /\ writer'[w].pattern = {p}
                                      /\ writer'[w].tree = core.tree \cup PathsOf(p)
            \/ /\ writer[w].pc \in {"build", "values", "ends"}
               /\ writer'[w].pc \in {"build", "values", "ends"}
               /\ writer[w].pc = "ends" => writer'[w].pc = "ends"
               /\ writer'[w].pattern = writer[w].pattern
               /\ writer'[w].tree = writer[w].tree /\ core' = core
            \/ /\ writer[w].pc = "values" /\ writer'[w].pc = "failed"
               /\ writer'[w].pattern = writer[w].pattern /\ core' = core
            \/ /\ writer[w].pc = "ends" /\ writer'[w].pc = "stored"
               /\ writer'[w].pattern = writer[w].pattern
               /\ writer'[w].tree = writer[w].tree /\ core'.tree = writer[w].tree
            \/ /\ writer[w].pc = "stored" /\ writer'[w].pc = "done"
               /\ writer'[w].pattern = writer[w].pattern /\ core' = core
<1>1. writer \in [Writers -> WriterLocals] /\ writer[w] \in WriterLocals
  BY DEF Inductive, TypeOK
<1>2. ASSUME writer[w].pc \in {"build", "values"}
      PROVE  Pat(w) \in Patterns /\ writer[w].path \in Nat
  <2>1. PICK p, k, s : p = Pat(w) /\ k = writer[w].path /\ s = Head(writer[w].states)
    OBVIOUS
  <2>2. p \in Patterns /\ k \in Paths
    BY <1>2, <2>1, CurrentState
  <2> QED BY <2>1, <2>2, PatternAssumption
<1>3. ASSUME NEW states, NEW next, writer[w].pc \in {"build", "values"}, core' = core, reader' = reader,
             Goto(w, NextState(Pat(w), writer[w].path, states, next))
      PROVE  /\ \A v \in Writers \ {w} : writer'[v] = writer[v]
             /\ writer'[w].pc \in {"build", "ends"}
             /\ writer'[w].pattern = writer[w].pattern /\ writer'[w].tree = writer[w].tree
  <2>1. PICK pos : pos = NextState(Pat(w), writer[w].path, states, next)
    OBVIOUS
  <2>2. pos.pc \in {"build", "ends"}
    BY <1>2, <1>3, <2>1, NextStatePc
  <2> QED BY <1>3, <2>1, <2>2, GotoShape
<1>4. CASE Acquire(w)
  <2>1. /\ writer[w].pc = "idle" /\ core' = core /\ reader' = reader
        /\ \E p \in Patterns :
             LET pos == NextPath(p, 0, <<core.state>>)
             IN  writer' = [writer EXCEPT ![w] =
                   [IdleWriter EXCEPT !.pc = pos.pc, !.pattern = {p},
                                      !.tree = core.tree \cup PathsOf(p),
                                      !.path = pos.path, !.states = pos.states]]
    BY <1>4 DEF Acquire
  <2>2. PICK p, pos :
          /\ p \in Patterns /\ pos = NextPath(p, 0, <<core.state>>)
          /\ writer' = [writer EXCEPT ![w] =
               [IdleWriter EXCEPT !.pc = pos.pc, !.pattern = {p},
                                  !.tree = core.tree \cup PathsOf(p),
                                  !.path = pos.path, !.states = pos.states]]
    BY <2>1
  <2>3. pos.pc \in {"build", "ends"}
    <3>1. \A q \in Patterns : \A k \in Nat : \A states : NextPath(q, k, states).pc \in {"build", "ends"}
      BY NextPathShape
    <3>2. p \in Patterns /\ 0 \in Nat
      BY <2>2
    <3> QED BY <2>2, <3>1, <3>2
  <2>4. /\ writer'[w].pc = pos.pc /\ writer'[w].pattern = {p}
        /\ writer'[w].tree = core.tree \cup PathsOf(p)
        /\ \A v \in Writers \ {w} : writer'[v] = writer[v]
    BY <1>1, <2>2 DEF IdleWriter
  <2> QED BY <2>1, <2>3, <2>4
<1>5. CASE AddExists(w)
  <2>1. writer[w].pc = "build" /\ core' = core /\ reader' = reader
    BY <1>5, ZenonT(60) DEF AddExists
  <2>2. PICK to : Goto(w, NextState(Pat(w), writer[w].path, Tail(writer[w].states),
                                    Append(writer[w].next, to)))
    BY <1>5, AddExistsEffect
  <2> QED BY <1>3, <2>1, <2>2
<1>6. CASE FindValueMatcher(w)
  <2>1. /\ writer[w].pc = "build"
        /\ \A v \in Writers \ {w} : writer'[v] = writer[v]
    BY <1>1, <1>6 DEF FindValueMatcher
  <2> QED BY <1>6, <2>1, FindEffect
<1>7. CASE AddValue(w)
  <2>1. writer[w].pc = "values" /\ core' = core /\ reader' = reader
    BY <1>7, ZenonT(60) DEF AddValue
  <2>2. PICK to : ValueDone(w, to)
    BY <1>7, AddValueEffect
  <2> QED BY <2>1, <2>2, ValueShape
<1>8. CASE PublishTransition(w)
  <2>1. writer[w].pc = "values" /\ core' = core /\ reader' = reader
    BY <1>8, ZenonT(60) DEF PublishTransition
  <2>2. Goto(w, NextState(Pat(w), writer[w].path, Tail(writer[w].states), writer[w].next))
    BY <1>8, PublishEffect
  <2> QED BY <1>3, <2>1, <2>2
<1>9. CASE Panic(w)
  BY <1>1, <1>9 DEF Panic, WriterLocals
<1>10. CASE AddMatch(w)
  <2>1. /\ writer[w].pc = "ends"
        /\ \A v \in Writers \ {w} : writer'[v] = writer[v]
    BY <1>1, <1>10 DEF AddMatch
  <2> QED BY <1>10, <2>1, AddMatchEffect
<1>11. CASE StoreCore(w)
  <2>1. /\ writer[w].pc = "ends" /\ reader' = reader
        /\ core' = [core EXCEPT !.tree = writer[w].tree]
        /\ writer' = [writer EXCEPT ![w].pc = "stored"]
    BY <1>11 DEF StoreCore
  <2>2. core \in [state : 1..Len(fms), tree : SUBSET Paths]
    BY DEF Inductive, TypeOK, HeapOK
  <2> QED BY <1>1, <2>1, <2>2 DEF WriterLocals
<1>12. CASE Unlock(w)
  BY <1>1, <1>12 DEF Unlock, WriterLocals
<1> QED BY <1>4, <1>5, <1>6, <1>7, <1>8, <1>9, <1>10, <1>11, <1>12 DEF WriterStep

(* No Pattern that has arrived or is in leaves again.                      *)
LEMMA PatternsStay ==
  ASSUME Inductive, NEW w \in Writers, WriterStep(w)
  PROVE  Arrived \subseteq Arrived' /\ Committed \subseteq Committed'
<1>1. ASSUME NEW v \in Writers, writer[v].pc \in {"ends", "stored", "done"}
      PROVE  /\ writer'[v].pc \in {"ends", "stored", "done"}
             /\ writer'[v].pattern = writer[v].pattern
             /\ writer[v].pc = "done" => writer'[v].pc = "done"
  BY <1>1, WriterMove
<1> QED BY <1>1 DEF Arrived, Committed

-----------------------------------------------------------------------------
(* A label with the conditions below a path is free from there on.         *)
LEMMA BelowIsFree ==
  ASSUME NEW via, NEW p, NEW k \in Nat, ChoosesBelow(via, p, k)
  PROVE  FreeFrom(via, k)
BY PatternAssumption DEF ChoosesBelow, FreeFrom

(* A new entry is on a path from which the label is free.                  *)
LEMMA OrderedStep ==
  ASSUME Inductive, HeapOrdered, Grows, NEW s, NEW k, LinkedAt(s, k),
         s \in 1..Len(fms), FreeFrom(fms[s].via, k),
         \A n \in 1..Len(vms') :
             n \in 1..Len(vms) \/ FreeFrom(vms'[n].via, vms'[n].path)
  PROVE  HeapOrdered'
<1>1. ASSUME NEW n \in 1..Len(fms'), NEW l \in Paths, Linked(fms'[n], l)
      PROVE  FreeFrom(fms'[n].via, l)
  <2>1. CASE n \in 1..Len(fms) /\ Linked(fms[n], l)
    BY <2>1 DEF HeapOrdered, Linked, Grows
  <2>2. CASE n = s /\ l = k
    BY <2>2 DEF Grows
  <2> QED BY <1>1, <2>1, <2>2 DEF LinkedAt
<1>2. ASSUME NEW n \in 1..Len(vms')
      PROVE  FreeFrom(vms'[n].via, vms'[n].path)
  BY DEF HeapOrdered, Grows
<1>3. \A via, l : FreeFrom(via, l)' = FreeFrom(via, l)
  BY DEF FreeFrom
<1> QED BY <1>1, <1>2, <1>3 DEF HeapOrdered, Linked, FreeFrom

(* A step that adds no entry.                                              *)
LEMMA OrderedSame ==
  ASSUME HeapOrdered, fms' = fms, vms' = vms
  PROVE  HeapOrdered'
BY DEF HeapOrdered, FreeFrom

LEMMA WriterOrdered ==
  ASSUME Inductive, HeapOrdered, NEW w \in Writers, WriterStep(w)
  PROVE  HeapOrdered'
<1>1. PICK s, k, p : s = Head(writer[w].states) /\ k = writer[w].path /\ p = Pat(w)
  OBVIOUS
<1>2. ASSUME writer[w].pc \in {"build", "values"}
      PROVE  s \in 1..Len(fms) /\ FreeFrom(fms[s].via, k)
  <2>1. s \in 1..Len(fms) /\ k \in Paths /\ ChoosesBelow(fms[s].via, p, k)
    BY <1>1, <1>2, CurrentState
  <2> QED BY <2>1, BelowIsFree, PatternAssumption
<1>3. Grows /\ HeapOK /\ HeapOK'
  BY WriterInductive DEF Inductive, TypeOK
<1>4. ASSUME Len(vms') = Len(vms)
      PROVE  \A n \in 1..Len(vms') : n \in 1..Len(vms)
  BY <1>4
<1>5. CASE Acquire(w) \/ Panic(w) \/ StoreCore(w) \/ Unlock(w)
  <2>1. fms' = fms /\ vms' = vms
    BY <1>5 DEF Acquire, Panic, StoreCore, Unlock
  <2> QED BY <2>1, OrderedSame
<1>6. CASE AddExists(w)
  <2>1. writer[w].pc = "build"
    BY <1>6, ZenonT(60) DEF AddExists
  <2>2. LinkedAt(s, k) /\ vms' = vms
    BY <1>1, <1>6, AddExistsEffect
  <2> QED BY <1>2, <1>3, <1>4, <2>1, <2>2, OrderedStep
<1>7. CASE FindValueMatcher(w)
  <2>1. writer[w].pc = "build"
    BY <1>7 DEF FindValueMatcher
  <2>2. /\ fms' = fms
        /\ \A n \in 1..Len(vms') : \/ n \in 1..Len(vms)
                                   \/ vms'[n].via = fms[s].via /\ vms'[n].path = k
    BY <1>1, <1>7, FindEffect
  <2>3. LinkedAt(s, k)
    BY <2>2 DEF LinkedAt
  <2>4. \A n \in 1..Len(vms') : n \in 1..Len(vms) \/ FreeFrom(vms'[n].via, vms'[n].path)
    BY <1>2, <2>1, <2>2
  <2> QED BY <1>2, <1>3, <2>1, <2>3, <2>4, OrderedStep
<1>8. CASE AddValue(w)
  <2>1. writer[w].pc = "values"
    BY <1>8, ZenonT(60) DEF AddValue
  <2>2. LinkedAt(s, k) /\ Len(vms') = Len(vms)
    BY <1>1, <1>8, AddValueEffect
  <2> QED BY <1>2, <1>3, <1>4, <2>1, <2>2, OrderedStep
<1>9. CASE PublishTransition(w)
  <2>1. writer[w].pc = "values"
    BY <1>9, ZenonT(60) DEF PublishTransition
  <2>2. LinkedAt(s, k) /\ vms' = vms
    BY <1>1, <1>9, PublishEffect
  <2> QED BY <1>2, <1>3, <1>4, <2>1, <2>2, OrderedStep
<1>10. CASE AddMatch(w)
  <2>1. /\ vms' = vms
        /\ \A n \in 1..Len(fms') : \A l \in Paths :
              Linked(fms'[n], l) => n \in 1..Len(fms) /\ Linked(fms[n], l)
    BY <1>10, AddMatchEffect
  <2>2. \A n \in 1..Len(fms') : \A l \in Paths : Linked(fms'[n], l) => FreeFrom(fms'[n].via, l)
    BY <1>3, <2>1 DEF HeapOrdered, Linked, Grows
  <2> QED BY <2>1, <2>2 DEF HeapOrdered, Linked, FreeFrom
<1> QED BY <1>5, <1>6, <1>7, <1>8, <1>9, <1>10 DEF WriterStep

(* The trees know the paths of the Patterns.                               *)
LEMMA WriterTrees ==
  ASSUME Inductive, NEW w \in Writers, WriterStep(w), \A v \in Writers : TreesKnow(v)
  PROVE  \A v \in Writers : TreesKnow(v)'
<1>1. core.tree \subseteq core'.tree
  BY StepRetains DEF Next, Retained
<1>2. ASSUME NEW v \in Writers \ {w}
      PROVE  TreesKnow(v)'
  <2>1. writer'[v] = writer[v] /\ TreesKnow(v)
    BY WriterMove
  <2>2. Pat(v)' = Pat(v)
    BY <2>1 DEF Pat
  <2> QED BY <1>1, <2>1, <2>2 DEF TreesKnow
<1>3. TreesKnow(w)'
  <2>1. TreesKnow(w)
    OBVIOUS
  <2>2. writer'[w].pattern = writer[w].pattern => Pat(w)' = Pat(w)
    BY DEF Pat
  <2>3. \A p : writer'[w].pattern = {p} => Pat(w)' = p
    BY DEF Pat
  <2>4. CASE /\ writer[w].pc = "idle" /\ writer'[w].pc \in {"build", "ends"}
             /\ \E p \in Patterns : /\ writer'[w].pattern = {p}
                                    /\ writer'[w].tree = core.tree \cup PathsOf(p)
             /\ core' = core
    <3>1. PICK p \in Patterns : /\ writer'[w].pattern = {p}
                                /\ writer'[w].tree = core.tree \cup PathsOf(p)
      BY <2>4
    <3>2. Pat(w)' = p
      BY <2>3, <3>1
    <3> QED BY <2>4, <3>1, <3>2 DEF TreesKnow
  <2>5. CASE /\ writer[w].pc \in {"build", "values", "ends"}
             /\ writer'[w].pc \in {"build", "values", "ends"}
             /\ writer'[w].pattern = writer[w].pattern
             /\ writer'[w].tree = writer[w].tree
    BY <2>1, <2>2, <2>5 DEF TreesKnow, Building
  <2>6. CASE writer[w].pc = "values" /\ writer'[w].pc = "failed"
    BY <2>6 DEF TreesKnow, Building
  <2>7. CASE /\ writer[w].pc = "ends" /\ writer'[w].pc = "stored"
             /\ writer'[w].pattern = writer[w].pattern
             /\ writer'[w].tree = writer[w].tree /\ core'.tree = writer[w].tree
    BY <2>1, <2>2, <2>7 DEF TreesKnow, Building
  <2>8. CASE /\ writer[w].pc = "stored" /\ writer'[w].pc = "done"
             /\ writer'[w].pattern = writer[w].pattern /\ core' = core
    BY <2>1, <2>2, <2>8 DEF TreesKnow, Building
  <2> QED BY <2>4, <2>5, <2>6, <2>7, <2>8, WriterMove
<1> QED BY <1>2, <1>3

-----------------------------------------------------------------------------
(* What a call knows, and what it has found, outlives every step.          *)
LEMMA KnownKeep ==
  ASSUME NEW r \in Readers, KeptKnown(r),
         core.tree \subseteq core'.tree, Committed \subseteq Committed',
         reader'[r].event = reader[r].event, reader'[r].kept = reader[r].kept,
         reader'[r].must = reader[r].must, reader[r].pc # "idle" \/ reader'[r].pc = "idle"
  PROVE  KeptKnown(r)'
<1>1. \A i : FieldAt(r, i)' = FieldAt(r, i)
  BY DEF FieldAt
<1>2. Real(r)' = Real(r)
  BY DEF Real
<1> QED BY <1>1, <1>2 DEF KeptKnown

LEMMA ReachableKeep ==
  ASSUME Inductive, Inductive', Grows, Retained, NEW r \in Readers, KeptKnown(r),
         reader'[r].event = reader[r].event, reader'[r].kept = reader[r].kept,
         NEW p, NEW pick \in Choices(p, r), Reachable(p, r, pick)
  PROVE  Reachable(p, r, pick)'
<1>1. PICK sh, on, S : /\ sh = Shape(p) /\ on = ValuesOf(r, pick)
                       /\ S \in SUBSET (1..Len(fms)) /\ Serves(sh, on, p.x, S)
  BY DEF Reachable
<1>2. on \in [Paths -> SUBSET Values] /\ on = ValuesOf(r, pick)'
  BY <1>1, ValuesOfType, FieldsSame DEF Choices
<1>3. Serves(sh, on, p.x, S)' /\ S \in SUBSET (1..Len(fms'))
  BY <1>1, <1>2, ServesKeep
<1> QED BY <1>1, <1>2, <1>3 DEF Reachable

(* The X of a Pattern that wants what the call r has.                      *)
Fit(x, r) ==
    \E p \in Arrived :
        /\ p.x = x
        /\ p \in reader[r].must => AbsentMet(p, reader[r].event)
        /\ \E pick \in Choices(p, r) : Reachable(p, r, pick)

LEMMA FitKeep ==
  ASSUME Inductive, Inductive', Grows, Retained, Arrived \subseteq Arrived',
         NEW r \in Readers, KeptKnown(r),
         reader'[r].event = reader[r].event, reader'[r].kept = reader[r].kept,
         reader'[r].must = reader[r].must, NEW x, Fit(x, r)
  PROVE  Fit(x, r)'
<1>1. PICK p \in Arrived : /\ p.x = x
                           /\ p \in reader[r].must => AbsentMet(p, reader[r].event)
                           /\ \E pick \in Choices(p, r) : Reachable(p, r, pick)
  BY DEF Fit
<1>2. PICK pick \in Choices(p, r) : Reachable(p, r, pick)
  BY <1>1
<1>3. pick \in Choices(p, r)'
  BY FieldsSame
<1>4. Reachable(p, r, pick)'
  BY <1>2, ReachableKeep
<1>5. p \in Arrived'
  OBVIOUS
<1>6. p \in reader'[r].must => AbsentMet(p, reader'[r].event)
  BY <1>1
<1> QED BY <1>1, <1>3, <1>4, <1>5, <1>6 DEF Fit

(* A call whose locals stay keeps what it has.                             *)
LEMMA CallKeep ==
  ASSUME Inductive, Inductive', Grows, Retained, Arrived \subseteq Arrived',
         Committed \subseteq Committed', NEW r \in Readers, reader'[r] = reader[r],
         KeptKnown(r), AgendaFits(r), FoundFits(r)
  PROVE  KeptKnown(r)' /\ AgendaFits(r)' /\ FoundFits(r)'
<1>1. KeptKnown(r)'
  BY KnownKeep DEF Retained
<1>2. AgendaFits(r)'
  <2> SUFFICES ASSUME NEW f \in Range(reader[r].agenda)
               PROVE  FrameFits(f, r)'
    BY DEF AgendaFits
  <2>1. reader[r].agenda \in Seq(Frames(reader[r].kept))
    BY DEF Inductive, TypeOK, AgendaOK
  <2>2. f \in Frames(reader[r].kept)
    BY <2>1 DEF Range
  <2>3. FrameFits(f, r)
    BY DEF AgendaFits
  <2> QED BY <2>2, <2>3, FrameFitsKeep
<1>3. FoundFits(r)'
  <2>1. \A x \in reader[r].found : Fit(x, r)
    BY DEF FoundFits, Fit
  <2>2. \A x \in reader[r].found : Fit(x, r)'
    BY <2>1, FitKeep
  <2> QED BY <2>2 DEF FoundFits, Fit
<1> QED BY <1>1, <1>2, <1>3

(* No step of an AddPattern call takes anything from a match call.         *)
LEMMA WriterSound ==
  ASSUME Inductive, Inductive', Sound, NEW w \in Writers, WriterStep(w)
  PROVE  Sound'
<1>1. Grows /\ Retained /\ reader' = reader
  BY WriterInductive, StepRetains, WriterMove DEF Next
<1>2. Arrived \subseteq Arrived' /\ Committed \subseteq Committed'
  BY PatternsStay
<1>3. HeapOrdered' /\ \A v \in Writers : TreesKnow(v)'
  BY WriterOrdered, WriterTrees DEF Sound
<1>4. \A r \in Readers : KeptKnown(r)' /\ AgendaFits(r)' /\ FoundFits(r)'
  BY <1>1, <1>2, CallKeep DEF Sound
<1> QED BY <1>3, <1>4 DEF Sound

-----------------------------------------------------------------------------
(* The agenda of a match call, as a set of loops.                          *)
IsSeq(a) == \E A : a \in Seq(A)

LEMMA LoopRange ==
  ASSUME NEW op, NEW at, NEW to
  PROVE  /\ IsSeq(Loop(op, at, to))
         /\ Range(Loop(op, at, to)) =
               IF at = {} \/ to = {} THEN {} ELSE {[op |-> op, at |-> at, to |-> to]}
<1>1. CASE at = {} \/ to = {}
  <2>1. Loop(op, at, to) = <<>>
    BY <1>1 DEF Loop
  <2>2. <<>> \in Seq({}) /\ Range(<<>>) = {}
    BY DEF Range
  <2> QED BY <1>1, <2>1, <2>2 DEF IsSeq
<1>2. CASE ~ (at = {} \/ to = {})
  <2>1. PICK f : f = [op |-> op, at |-> at, to |-> to]
    OBVIOUS
  <2>2. Loop(op, at, to) = <<f>>
    BY <1>2, <2>1 DEF Loop
  <2>3. <<f>> \in Seq({f}) /\ Range(<<f>>) = {f}
    BY DEF Range
  <2> QED BY <1>2, <2>1, <2>2, <2>3 DEF IsSeq
<1> QED BY <1>1, <1>2

LEMMA ConcatRange ==
  ASSUME NEW a, NEW b, IsSeq(a), IsSeq(b)
  PROVE  IsSeq(a \o b) /\ Range(a \o b) = Range(a) \cup Range(b)
<1>1. PICK A, B : a \in Seq(A) /\ b \in Seq(B)
  BY DEF IsSeq
<1>2. PICK C : C = A \cup B
  OBVIOUS
<1>3. a \in Seq(C) /\ b \in Seq(C)
  BY <1>1, <1>2, SeqMonotonic
<1>4. /\ a \o b \in Seq(C)
      /\ Len(a \o b) = Len(a) + Len(b)
      /\ \A n \in 1..(Len(a) + Len(b)) :
            (a \o b)[n] = IF n <= Len(a) THEN a[n] ELSE b[n - Len(a)]
  BY <1>3, ConcatProperties
<1>5. PICK c : c = a \o b
  OBVIOUS
<1>6. /\ Len(a) \in Nat /\ Len(b) \in Nat
      /\ DOMAIN a = 1..Len(a) /\ DOMAIN b = 1..Len(b) /\ DOMAIN c = 1..(Len(a) + Len(b))
  BY <1>3, <1>4, <1>5, LenProperties
<1>7. \A n \in DOMAIN c : c[n] \in Range(a) \cup Range(b)
  <2> TAKE n \in DOMAIN c
  <2>1. CASE n <= Len(a)
    BY <1>4, <1>5, <1>6, <2>1 DEF Range
  <2>2. CASE n > Len(a)
    <3>1. n - Len(a) \in DOMAIN b /\ c[n] = b[n - Len(a)]
      BY <1>4, <1>5, <1>6, <2>2
    <3> QED BY <3>1 DEF Range
  <2> QED BY <1>6, <2>1, <2>2
<1>8. \A n \in DOMAIN a : n \in DOMAIN c /\ c[n] = a[n]
  BY <1>4, <1>5, <1>6
<1>9. \A n \in DOMAIN b : n + Len(a) \in DOMAIN c /\ c[n + Len(a)] = b[n]
  <2> TAKE n \in DOMAIN b
  <2>1. n + Len(a) \in 1..(Len(a) + Len(b)) /\ ~ (n + Len(a) <= Len(a)) /\ (n + Len(a)) - Len(a) = n
    BY <1>6
  <2> QED BY <1>4, <1>5, <1>6, <2>1
<1>10. Range(a) \subseteq Range(c) /\ Range(b) \subseteq Range(c)
  BY <1>8, <1>9 DEF Range
<1>11. Range(c) \subseteq Range(a) \cup Range(b)
  BY <1>7 DEF Range
<1> QED BY <1>4, <1>5, <1>10, <1>11 DEF IsSeq

LEMMA TailRange ==
  ASSUME NEW A, NEW a \in Seq(A), a # <<>>
  PROVE  Range(a) = {Head(a)} \cup Range(Tail(a)) /\ Tail(a) \in Seq(A)
<1>1. /\ Head(a) = a[1] /\ Tail(a) \in Seq(A) /\ Len(Tail(a)) = Len(a) - 1
      /\ \A n \in 1..Len(Tail(a)) : Tail(a)[n] = a[n + 1]
  BY HeadTailProperties
<1>2. Len(a) \in Nat \ {0} /\ DOMAIN a = 1..Len(a)
  BY EmptySeq, LenProperties
<1>3. PICK b : b = Tail(a)
  OBVIOUS
<1>4. DOMAIN b = 1..(Len(a) - 1) /\ \A n \in DOMAIN b : b[n] = a[n + 1]
  BY <1>1, <1>3, LenProperties
<1>5. \A n \in DOMAIN a : a[n] \in {Head(a)} \cup Range(b)
  <2> TAKE n \in DOMAIN a
  <2>1. CASE n = 1
    BY <1>1, <2>1
  <2>2. CASE n # 1
    <3>1. n - 1 \in DOMAIN b /\ b[n - 1] = a[n]
      BY <1>2, <1>4, <2>2
    <3> QED BY <3>1 DEF Range
  <2> QED BY <2>1, <2>2
<1>6. 1 \in DOMAIN a /\ \A n \in DOMAIN b : n + 1 \in DOMAIN a
  BY <1>2, <1>4
<1> QED BY <1>1, <1>3, <1>4, <1>5, <1>6 DEF Range
=============================================================================
