----------------------- MODULE CoreMatcherCompleteProofs -----------------------
(***************************************************************************)
(* No walk misses a Pattern that was in before it began and matches: at    *)
(* every moment of a match call, some loop of its agenda has yet to follow *)
(* matchers that lead the fields of the event to the X, or the X is found. *)
(* For all constants.                                                      *)
(***************************************************************************)
EXTENDS CoreMatcherBuildProofs, CoreMatcherSoundProofs

-----------------------------------------------------------------------------
(* What fields that fulfil a Pattern have.                                 *)
LEMMA Fitted ==
  ASSUME Inductive, NEW r \in Readers, KeptKnown(r), NEW p \in Patterns,
         NEW pick \in Fitting(p, r), NEW k \in Paths, Shape(p)[k] # "free"
  PROVE  /\ k \in Constrained(p) /\ Shape(p)[k] = p.cond[k].kind
         /\ Shape(p)[k] \in {"exists", "absent", "vals"}
         /\ Shape(p)[k] # "absent" =>
              /\ k \in Wanted(p) /\ pick[k] \in Real(r) /\ PathAt(r, pick[k]) = k
              /\ ValuesOf(r, pick)[k] = {FieldAt(r, pick[k]).val}
         /\ Shape(p)[k] = "absent" => ~HasPath(r, k)
<1>1. k \in Constrained(p) /\ Shape(p)[k] = p.cond[k].kind
  BY DEF Shape
<1>2. p.cond[k].kind \in {"exists", "absent", "vals"}
  BY <1>1 DEF Constrained
<1>3. CASE p.cond[k].kind = "absent"
  <2>1. k \in Constrained(p) \ Wanted(p)
    BY <1>1, <1>3 DEF Wanted
  <2> QED BY <1>1, <1>3, <2>1 DEF Fitting
<1>4. CASE p.cond[k].kind # "absent"
  <2>1. k \in Wanted(p)
    BY <1>1, <1>4 DEF Wanted
  <2>2. pick \in [Wanted(p) -> Real(r)] /\ Fulfils(p, k, FieldAt(r, pick[k]))
    BY <2>1 DEF Fitting, Choices
  <2>3. pick[k] \in Real(r) /\ PathAt(r, pick[k]) = FieldAt(r, pick[k]).path
    BY <2>1, <2>2, RealFields
  <2>4. ValuesOf(r, pick)[k] = {FieldAt(r, pick[k]).val}
    BY <2>1, <2>2 DEF ValuesOf
  <2> QED BY <1>1, <1>2, <1>4, <2>1, <2>2, <2>3, <2>4 DEF Fulfils
<1> QED BY <1>3, <1>4

(* There is a next path to ask for, if any is left.                        *)
LEMMA LeastLeft ==
  ASSUME NEW ks \in SUBSET Paths, ks # {}
  PROVE  \E k \in Paths : Least(k, ks)
<1>1. ks \subseteq Nat
  BY PatternAssumption
<1>2. PICK k \in ks : \A l \in ks : k <= l
  BY <1>1, LeastNat
<1> QED BY <1>2 DEF Least

LEMMA LeastOnce ==
  ASSUME NEW ks \in SUBSET Paths, NEW k, NEW l, Least(k, ks), Least(l, ks)
  PROVE  k = l
<1>1. k \in Nat /\ l \in Nat /\ k <= l /\ l <= k
  BY PatternAssumption DEF Least
<1> QED BY <1>1

(* The condition of the next path is one the label takes up, so that the   *)
(* other fields are later ones.                                            *)
LEMMA AfterOne ==
  ASSUME Inductive, NEW r \in Readers, KeptKnown(r), NEW p \in Patterns,
         NEW pick \in Fitting(p, r), NEW k \in Paths, NEW m \in 1..Len(fms), NEW t,
         Least(k, Left(Shape(p), fms[m].via)), Shape(p)[k] # "absent",
         NEW c, c # "free", fms[t].via = [fms[m].via EXCEPT ![k] = c]
  PROVE  After(p, r, pick, t, pick[k])
<1>1. PICK sh, via : sh = Shape(p) /\ via = fms[m].via
  OBVIOUS
<1>2. via \in [Paths -> PVals \cup {"free", "exists", "absent"}]
  BY <1>1, Visited DEF Via
<1>3. k \in Left(sh, via) /\ \A l \in Left(sh, via) : k <= l
  BY <1>1 DEF Least
<1> SUFFICES ASSUME NEW l \in LeftWanted(sh, fms[t].via)
             PROVE  pick[l] \in Later(r, pick[k])
  BY <1>1 DEF After
<1>4. l \in Paths /\ sh[l] # "free" /\ sh[l] # "absent" /\ fms[t].via[l] = "free"
  BY DEF LeftWanted, Left
<1>5. l # k
  BY <1>1, <1>2, <1>4
<1>6. l \in Left(sh, via)
  BY <1>1, <1>2, <1>4, <1>5 DEF Left
<1>7. k < l
  BY <1>3, <1>4, <1>5, <1>6, PatternAssumption
<1>8. /\ l \in Wanted(p) /\ pick[l] \in Real(r) /\ PathAt(r, pick[l]) = l
      /\ k \in Wanted(p) /\ pick[k] \in Real(r) /\ PathAt(r, pick[k]) = k
  <2>1. sh[k] # "free" /\ sh[k] # "absent"
    BY <1>1, <1>3 DEF Left
  <2> QED BY <1>1, <1>4, <2>1, Fitted
<1>9. PICK e, i, j : e = reader[r].event /\ i = pick[k] /\ j = pick[l]
  OBVIOUS
<1>10. /\ e \in Events /\ i \in DOMAIN e /\ j \in DOMAIN e /\ i \in Nat /\ j \in Nat
       /\ e[i].path = k /\ e[j].path = l /\ j \in reader[r].kept
  BY <1>8, <1>9, RealFields DEF FieldAt
<1>11. i < j
  <2>1. j < i => e[j].path <= e[i].path
    BY <1>10, SortedAssumption
  <2>2. k \in Nat /\ l \in Nat
    BY <1>4, PatternAssumption
  <2> QED BY <1>7, <1>10, <2>1, <2>2
<1>12. Together(r, pick[k], pick[l])
  BY <1>8 DEF Fitting, Choices
<1> QED BY <1>9, <1>10, <1>11, <1>12 DEF Later, Together, FieldAt

-----------------------------------------------------------------------------
(* Where the matchers of S lead from m, by what the next path asks.        *)
LEMMA NextLeads ==
  ASSUME NEW p, NEW on, NEW S, Serves(Shape(p), on, p.x, S), NEW m \in S,
         NEW k \in Paths, Least(k, Left(Shape(p), fms[m].via))
  PROVE  LeadsOn(m, k, Shape(p)[k], on[k], S) /\ m \in 1..Len(fms) /\ S \subseteq 1..Len(fms)
         /\ Shape(p)[k] # "free"
<1>1. Served(m, Shape(p), on, p.x, S)
  BY DEF Serves
<1>2. LeadsOn(m, k, Shape(p)[k], on[k], S)
  BY <1>1 DEF Served, Leads
<1> QED BY <1>2 DEF Serves, Least, Left

LEMMA AbsentMove ==
  ASSUME Inductive, NEW r \in Readers, KeptKnown(r), NEW p \in Patterns,
         NEW pick \in Fitting(p, r), NEW S, NEW m \in S,
         Serves(Shape(p), ValuesOf(r, pick), p.x, S),
         NEW k \in Paths, Least(k, Left(Shape(p), fms[m].via)), Shape(p)[k] = "absent"
  PROVE  \E t \in AbsentTargets(r, fms[m]) \cap S :
            LeftWanted(Shape(p), fms[t].via) = LeftWanted(Shape(p), fms[m].via)
<1>1. PICK sh, on : sh = Shape(p) /\ on = ValuesOf(r, pick)
  OBVIOUS
<1>2. LeadsOn(m, k, sh[k], on[k], S) /\ m \in 1..Len(fms) /\ S \subseteq 1..Len(fms)
  BY <1>1, NextLeads
<1>3. PICK t \in S : t = fms[m].absent[k] /\ t # Nil
  <2>1. Nil \notin 1..Len(fms)
    BY LenType DEF Inductive, TypeOK, Nil
  <2> QED BY <1>1, <1>2, <2>1 DEF LeadsOn
<1>4. ~HasPath(r, k)
  BY Fitted
<1>5. t \in AbsentTargets(r, fms[m])
  BY <1>3, <1>4 DEF AbsentTargets
<1>6. fms[t].via = [fms[m].via EXCEPT ![k] = "absent"] /\ fms[m].via \in Via
  BY <1>2, <1>3, Visited DEF FmLabelled
<1>7. \A l \in Paths : sh[l] # "absent" => fms[t].via[l] = fms[m].via[l]
  BY <1>1, <1>6 DEF Via
<1>8. LeftWanted(sh, fms[t].via) = LeftWanted(sh, fms[m].via)
  BY <1>7 DEF LeftWanted, Left
<1> QED BY <1>1, <1>3, <1>5, <1>8

LEMMA ExistsMove ==
  ASSUME Inductive, NEW r \in Readers, KeptKnown(r), NEW p \in Patterns,
         NEW pick \in Fitting(p, r), NEW S, NEW m \in S,
         Serves(Shape(p), ValuesOf(r, pick), p.x, S),
         NEW k \in Paths, Least(k, Left(Shape(p), fms[m].via)), Shape(p)[k] = "exists"
  PROVE  \E t \in ExistsTargets(r, pick[k], fms[m]) \cap S : After(p, r, pick, t, pick[k])
<1>1. PICK on : on = ValuesOf(r, pick)
  OBVIOUS
<1>2. LeadsOn(m, k, Shape(p)[k], on[k], S) /\ m \in 1..Len(fms) /\ S \subseteq 1..Len(fms)
  BY <1>1, NextLeads
<1>3. PICK t \in S : t = fms[m].exists[k] /\ t # Nil
  <2>1. Nil \notin 1..Len(fms)
    BY LenType DEF Inductive, TypeOK, Nil
  <2> QED BY <1>2, <2>1 DEF LeadsOn
<1>4. PathAt(r, pick[k]) = k
  BY Fitted
<1>5. t \in ExistsTargets(r, pick[k], fms[m])
  BY <1>3, <1>4 DEF ExistsTargets
<1>6. fms[t].via = [fms[m].via EXCEPT ![k] = "exists"]
  BY <1>2, <1>3, Visited DEF FmLabelled
<1>7. After(p, r, pick, t, pick[k])
  BY <1>2, <1>6, AfterOne
<1> QED BY <1>3, <1>5, <1>7

LEMMA ValsMove ==
  ASSUME Inductive, NEW r \in Readers, KeptKnown(r), NEW p \in Patterns,
         NEW pick \in Fitting(p, r), NEW S, NEW m \in S,
         Serves(Shape(p), ValuesOf(r, pick), p.x, S),
         NEW k \in Paths, Least(k, Left(Shape(p), fms[m].via)), Shape(p)[k] = "vals"
  PROVE  /\ fms[m].trans[k] # Nil /\ PathAt(r, pick[k]) = k
         /\ \E t \in TransitionOn(vms[fms[m].trans[k]], FieldAt(r, pick[k]).val) \cap S :
               After(p, r, pick, t, pick[k])
<1>1. PICK on : on = ValuesOf(r, pick)
  OBVIOUS
<1>2. LeadsOn(m, k, Shape(p)[k], on[k], S) /\ m \in 1..Len(fms) /\ S \subseteq 1..Len(fms)
  BY <1>1, NextLeads
<1>3. PathAt(r, pick[k]) = k /\ on[k] = {FieldAt(r, pick[k]).val}
  BY <1>1, Fitted
<1>4. PICK v : v = fms[m].trans[k] /\ v # Nil
  BY <1>2 DEF LeadsOn
<1>5. PICK t \in S : t \in TransitionOn(vms[v], FieldAt(r, pick[k]).val)
  BY <1>2, <1>3, <1>4 DEF LeadsOn
<1>6. v \in 1..Len(vms) /\ vms[v].via = fms[m].via /\ vms[v].path = k
  <2>1. Len(vms) \in Nat
    BY LenType DEF Inductive, TypeOK
  <2>2. v \in 0..Len(vms) /\ vms[v].via = fms[m].via /\ vms[v].path = k
    BY <1>2, <1>4, Visited DEF FmLabelled, FmOK
  <2> QED BY <1>4, <2>1, <2>2 DEF Nil
<1>7. VmLabelled(vms[v]) /\ vms[v] \in VmFields
  BY <1>6, ElementOfSeq DEF Inductive, TypeOK, HeapOK, HeapLabelled
<1>8. PICK e \in Edges(vms[v]) : t = e[2]
  BY <1>5 DEF TransitionOn, Edges
<1>9. e[1] # "free"
  BY <1>7, <1>8, LabelAssumption DEF Edges, VmFields, Edge
<1>10. fms[t].via = [fms[m].via EXCEPT ![k] = e[1]]
  BY <1>6, <1>7, <1>8 DEF VmLabelled
<1>11. After(p, r, pick, t, pick[k])
  BY <1>2, <1>9, <1>10, AfterOne
<1> QED BY <1>3, <1>4, <1>5, <1>11

(* Arrived at t, the X is there, or what is left asks that paths be absent *)
(* or for a later field.                                                   *)
LEMMA Arrive ==
  ASSUME NEW r \in Readers, NEW p, NEW pick, NEW S, NEW t \in S, NEW i,
         NEW on, Serves(Shape(p), on, p.x, S), After(p, r, pick, t, i)
  PROVE  \/ p.x \in fms[t].matches
         \/ FollowsAt("recheck", p, r, pick, S, t, i)
         \/ \E j \in Later(r, i) : FollowsAt("try", p, r, pick, S, t, j)
<1>1. PICK left, wanted : /\ left = Left(Shape(p), fms[t].via)
                          /\ wanted = LeftWanted(Shape(p), fms[t].via)
  OBVIOUS
<1>2. wanted \subseteq left /\ left \subseteq Paths
  BY <1>1 DEF LeftWanted, Left
<1>3. CASE left = {}
  BY <1>1, <1>3 DEF Serves, Served
<1>4. CASE left # {} /\ wanted = {}
  BY <1>1, <1>4 DEF FollowsAt
<1>5. CASE wanted # {}
  <2>1. PICK k \in Paths : Least(k, wanted)
    BY <1>2, <1>5, LeastLeft
  <2>2. pick[k] \in Later(r, i)
    BY <1>1, <2>1 DEF Least, After
  <2>3. \A l \in Paths : Least(l, wanted) => l = k
    BY <1>2, <2>1, LeastOnce
  <2>4. Due(p, pick, t, pick[k])
    BY <1>1, <2>3 DEF Due
  <2>5. FollowsAt("try", p, r, pick, S, t, pick[k])
    BY <1>1, <1>2, <1>5, <2>4 DEF FollowsAt
  <2> QED BY <2>2, <2>5
<1> QED BY <1>3, <1>4, <1>5

-----------------------------------------------------------------------------
(* Some loop has yet to follow S.                                          *)
HasNext(loops, p, r, pick, S) == \E f \in Range(loops) : Follows(f, p, r, pick, S)

LEMMA LoopHasNext ==
  ASSUME NEW op, NEW at, NEW to, NEW i \in at, NEW m \in to, NEW p, NEW r, NEW pick, NEW S,
         FollowsAt(op, p, r, pick, S, m, i)
  PROVE  HasNext(Loop(op, at, to), p, r, pick, S)
<1>1. PICK f : f = [op |-> op, at |-> at, to |-> to]
  OBVIOUS
<1>2. f \in Range(Loop(op, at, to))
  BY <1>1, LoopRange
<1>3. Follows(f, p, r, pick, S)
  BY <1>1 DEF Follows
<1> QED BY <1>2, <1>3 DEF HasNext

LEMMA ConcatHasNext ==
  ASSUME NEW a, NEW b, IsSeq(a), IsSeq(b), NEW p, NEW r, NEW pick, NEW S
  PROVE  /\ IsSeq(a \o b)
         /\ HasNext(a, p, r, pick, S) \/ HasNext(b, p, r, pick, S)
               => HasNext(a \o b, p, r, pick, S)
<1>1. IsSeq(a \o b) /\ Range(a \o b) = Range(a) \cup Range(b)
  BY ConcatRange
<1> QED BY <1>1 DEF HasNext

(* Loops that keep to one field and one matcher where they have to.        *)
AllNarrow(loops) == IsSeq(loops) /\ \A f \in Range(loops) : Narrow(f)

LEMMA NarrowLoop ==
  ASSUME NEW op, NEW at, NEW to,
         op # "try" => \E i : at = {i},
         op \notin {"absent", "next"} /\ to # {} => \E m : to = {m}
  PROVE  AllNarrow(Loop(op, at, to))
<1>1. PICK f : f = [op |-> op, at |-> at, to |-> to]
  OBVIOUS
<1>2. to # {} => Narrow(f)
  BY <1>1 DEF Narrow
<1>3. IsSeq(Loop(op, at, to)) /\ Range(Loop(op, at, to)) = IF at = {} \/ to = {} THEN {} ELSE {f}
  BY <1>1, LoopRange
<1> QED BY <1>2, <1>3 DEF AllNarrow

LEMMA NarrowConcat ==
  ASSUME NEW a, NEW b, AllNarrow(a), AllNarrow(b)
  PROVE  AllNarrow(a \o b)
<1>1. IsSeq(a \o b) /\ Range(a \o b) = Range(a) \cup Range(b)
  BY ConcatRange DEF AllNarrow
<1> QED BY <1>1 DEF AllNarrow

-----------------------------------------------------------------------------
(* The steps of others change nothing a loop has yet to follow.            *)
LEMMA FollowsKeep ==
  ASSUME Inductive, Grows, Retained, NEW r \in Readers, KeptKnown(r),
         reader'[r].event = reader[r].event, reader'[r].kept = reader[r].kept,
         NEW f \in Frames(reader[r].kept), FrameMet(f, r), NEW p, NEW pick,
         NEW S \in SUBSET (1..Len(fms)), Follows(f, p, r, pick, S)
  PROVE  Follows(f, p, r, pick, S)'
<1>1. PICK m \in f.to, i \in f.at : FollowsAt(f.op, p, r, pick, S, m, i)
  BY DEF Follows
<1>2. \A n \in 1..Len(fms) :
         /\ Left(Shape(p), fms[n].via)' = Left(Shape(p), fms[n].via)
         /\ LeftWanted(Shape(p), fms[n].via)' = LeftWanted(Shape(p), fms[n].via)
         /\ (\A j : Due(p, pick, n, j)' <=> Due(p, pick, n, j))
         /\ (\A j : After(p, r, pick, n, j)' <=> After(p, r, pick, n, j))
  <2> SUFFICES ASSUME NEW n \in 1..Len(fms)
               PROVE  /\ Left(Shape(p), fms[n].via)' = Left(Shape(p), fms[n].via)
                      /\ LeftWanted(Shape(p), fms[n].via)' = LeftWanted(Shape(p), fms[n].via)
                      /\ (\A j : Due(p, pick, n, j)' <=> Due(p, pick, n, j))
                      /\ (\A j : After(p, r, pick, n, j)' <=> After(p, r, pick, n, j))
    OBVIOUS
  <2>1. fms'[n].via = fms[n].via
    BY DEF Grows
  <2>2. /\ Left(Shape(p), fms[n].via)' = Left(Shape(p), fms[n].via)
        /\ LeftWanted(Shape(p), fms[n].via)' = LeftWanted(Shape(p), fms[n].via)
    BY <2>1
  <2>3. \A j : Later(r, j)' = Later(r, j)
    BY FieldsSame
  <2> QED BY <2>2, <2>3 DEF Due, After
<1>3. CASE f.op = "values"
  <2>1. PICK t \in TransitionOn(vms[m], FieldAt(r, i).val) \cap S : After(p, r, pick, t, i)
    BY <1>1, <1>3 DEF FollowsAt
  <2>2. m \in 1..Len(vms) /\ i \in reader[r].kept /\ PathAt(r, i) = vms[m].path
    BY <1>3 DEF Frames, FrameMet
  <2>3. vms[m].path \in Paths
    <3>1. vms[m] \in VmFields
      BY <2>2, ElementOfSeq DEF Inductive, TypeOK, HeapOK
    <3> QED BY <3>1 DEF VmFields
  <2>4. i \in Real(r)
    BY <2>2, <2>3, PatternAssumption DEF Real, PathAt, Nil
  <2>5. FieldAt(r, i).val \in Values /\ FieldAt(r, i)' = FieldAt(r, i)
    BY <2>4, RealFields, FieldsSame DEF Field
  <2>6. t \in TransitionOn(vms'[m], FieldAt(r, i).val)
    BY <2>1, <2>2, <2>5 DEF Retained
  <2>7. After(p, r, pick, t, i)'
    BY <1>2, <2>1
  <2>8. FollowsAt(f.op, p, r, pick, S, m, i)'
    BY <1>3, <2>1, <2>5, <2>6, <2>7 DEF FollowsAt
  <2> QED BY <2>8 DEF Follows
<1>4. CASE f.op # "values"
  <2>1. m \in 1..Len(fms) /\ f.op \in Ops
    BY <1>4 DEF Frames
  <2>2. FollowsAt(f.op, p, r, pick, S, m, i)'
    <3>1. CASE f.op = "try"
      BY <1>1, <1>2, <2>1, <3>1 DEF FollowsAt
    <3>2. CASE f.op = "absent"
      BY <1>1, <1>2, <2>1, <3>2 DEF FollowsAt
    <3>3. CASE f.op \in {"exists", "next"}
      BY <1>1, <1>2, <2>1, <3>3 DEF FollowsAt
    <3>4. CASE f.op = "recheck"
      BY <1>1, <1>2, <2>1, <3>4 DEF FollowsAt
    <3>5. CASE f.op = "trans"
      BY <1>1, <1>2, <2>1, <3>5 DEF FollowsAt
    <3> QED BY <1>4, <2>1, <3>1, <3>2, <3>3, <3>4, <3>5 DEF Ops
  <2> QED BY <2>2 DEF Follows
<1> QED BY <1>3, <1>4

(* The loops of an agenda are of their type and met.                       *)
LEMMA AgendaLoops ==
  ASSUME Inductive, NEW r \in Readers, NEW f \in Range(reader[r].agenda)
  PROVE  f \in Frames(reader[r].kept) /\ FrameMet(f, r)
<1>1. reader[r].agenda \in Seq(Frames(reader[r].kept))
  BY DEF Inductive, TypeOK, AgendaOK
<1>2. PICK n \in DOMAIN reader[r].agenda : f = reader[r].agenda[n]
  BY DEF Range
<1>3. n \in 1..Len(reader[r].agenda)
  BY <1>1, <1>2, LenProperties
<1> QED BY <1>1, <1>2, <1>3, ElementOfSeq DEF Inductive, ReaderInv, AgendaMet

LEMMA FittingOn ==
  ASSUME Inductive, NEW r \in Readers, KeptKnown(r), NEW p, NEW pick \in Fitting(p, r)
  PROVE  /\ pick \in Choices(p, r) /\ pick \in [Wanted(p) -> Real(r)] /\ Constrained(p) # {}
         /\ ValuesOf(r, pick) \in [Paths -> SUBSET Values]
<1>1. pick \in Choices(p, r) /\ pick \in [Wanted(p) -> Real(r)] /\ Constrained(p) # {}
  BY DEF Fitting, Choices
<1> QED BY <1>1, ValuesOfType

(* A call that does nothing is led to the same X.                          *)
LEMMA AttainedKeep ==
  ASSUME Inductive, Inductive', Grows, Retained, NEW r \in Readers, KeptKnown(r),
         reader'[r] = reader[r], NEW p, NEW pick \in Fitting(p, r), Attained(p, r, pick)
  PROVE  Attained(p, r, pick)'
<1>1. CASE reader[r].pc = "flat"
  BY <1>1, FittingOn, ReachableKeep DEF Attained
<1>2. CASE reader[r].pc = "match" /\ Followed(p, r, pick)
  <2>1. PICK sh, on, S : /\ sh = Shape(p) /\ on = ValuesOf(r, pick)
                         /\ S \in SUBSET (1..Len(fms)) /\ Serves(sh, on, p.x, S)
                         /\ \E f \in Range(reader[r].agenda) : Follows(f, p, r, pick, S)
    BY <1>2 DEF Followed
  <2>2. on \in [Paths -> SUBSET Values] /\ on = ValuesOf(r, pick)'
    BY <2>1, FittingOn, FieldsSame
  <2>3. Serves(sh, on, p.x, S)' /\ S \in SUBSET (1..Len(fms'))
    BY <2>1, <2>2, ServesKeep
  <2>4. PICK f \in Range(reader[r].agenda) : Follows(f, p, r, pick, S)
    BY <2>1
  <2>5. Follows(f, p, r, pick, S)'
    BY <2>1, <2>4, AgendaLoops, FollowsKeep
  <2>6. Followed(p, r, pick)'
    BY <2>1, <2>2, <2>3, <2>4, <2>5 DEF Followed
  <2> QED BY <1>2, <2>6 DEF Attained
<1> QED BY <1>1, <1>2 DEF Attained

LEMMA FollowsSame ==
  ASSUME UNCHANGED <<fms, vms>>, NEW r \in Readers,
         reader'[r].event = reader[r].event, reader'[r].kept = reader[r].kept,
         NEW f, f.op \in Ops, NEW p, NEW pick, NEW S, Follows(f, p, r, pick, S)
  PROVE  Follows(f, p, r, pick, S)'
<1>1. PICK m \in f.to, i \in f.at : FollowsAt(f.op, p, r, pick, S, m, i)
  BY DEF Follows
<1>2. /\ \A j : Later(r, j)' = Later(r, j) /\ FieldAt(r, j)' = FieldAt(r, j)
      /\ fms' = fms /\ vms' = vms
  BY FieldsSame
<1>3. \A n, j : (Due(p, pick, n, j)' <=> Due(p, pick, n, j))
  BY <1>2 DEF Due
<1>4. \A n, j : (After(p, r, pick, n, j)' <=> After(p, r, pick, n, j))
  BY <1>2 DEF After
<1>5. FollowsAt(f.op, p, r, pick, S, m, i)'
  <2>1. CASE f.op = "try"
    BY <1>1, <1>2, <1>3, <2>1 DEF FollowsAt
  <2>2. CASE f.op = "absent"
    BY <1>1, <1>2, <1>3, <2>2 DEF FollowsAt
  <2>3. CASE f.op \in {"exists", "next"}
    BY <1>1, <1>2, <1>4, <2>3 DEF FollowsAt
  <2>4. CASE f.op = "recheck"
    BY <1>1, <1>2, <2>4 DEF FollowsAt
  <2>5. CASE f.op = "trans"
    BY <1>1, <1>2, <2>5 DEF FollowsAt
  <2>6. CASE f.op = "values"
    BY <1>1, <1>2, <1>4, <2>6 DEF FollowsAt
  <2> QED BY <2>1, <2>2, <2>3, <2>4, <2>5, <2>6 DEF Ops
<1> QED BY <1>5 DEF Follows

(* A step of the innermost loop that hands on what it had yet to follow.   *)
LEMMA WalkAttained ==
  ASSUME Inductive, Inductive', NEW r \in Readers, NEW op, AtTop(r, op), KeptKnown(r),
         NEW more, NEW xs, IsSeq(more), Continue(r, more, xs),
         NEW p, NEW pick \in Fitting(p, r), Attained(p, r, pick),
         \A S \in SUBSET (1..Len(fms)) :
            Serves(Shape(p), ValuesOf(r, pick), p.x, S) /\ Follows(Top(r), p, r, pick, S)
               => p.x \in xs \/ HasNext(more, p, r, pick, S)
  PROVE  Attained(p, r, pick)'
<1>1. /\ UNCHANGED <<core, fms, vms, lock, writer>>
      /\ reader'[r].pc = "match" /\ reader[r].pc = "match"
      /\ reader'[r].event = reader[r].event /\ reader'[r].kept = reader[r].kept
      /\ reader'[r].found = reader[r].found \cup xs
      /\ Range(reader'[r].agenda) = Range(more) \cup Range(Tail(reader[r].agenda))
      /\ Range(reader[r].agenda) = {Top(r)} \cup Range(Tail(reader[r].agenda))
  BY WalkStep
<1>2. Grows /\ Retained
  BY <1>1, SameRetained
<1>3. CASE p.x \in reader[r].found \cup xs
  BY <1>1, <1>3 DEF Attained
<1>4. CASE p.x \notin reader[r].found \cup xs
  <2>1. PICK sh, on, S : /\ sh = Shape(p) /\ on = ValuesOf(r, pick)
                         /\ S \in SUBSET (1..Len(fms)) /\ Serves(sh, on, p.x, S)
                         /\ \E f \in Range(reader[r].agenda) : Follows(f, p, r, pick, S)
    BY <1>1, <1>4 DEF Attained, Followed
  <2>2. PICK f \in Range(reader'[r].agenda) : Follows(f, p, r, pick, S)
    BY <1>1, <1>4, <2>1 DEF HasNext
  <2>3. on \in [Paths -> SUBSET Values] /\ on = ValuesOf(r, pick)'
    BY <1>1, <2>1, FittingOn, FieldsSame
  <2>4. Serves(sh, on, p.x, S)' /\ S \in SUBSET (1..Len(fms'))
    BY <1>2, <2>1, <2>3, ServesKeep
  <2>5. Follows(f, p, r, pick, S)'
    <3>1. reader'[r].agenda \in Seq(Frames(reader[r].kept))
      BY <1>1 DEF Inductive, TypeOK, AgendaOK, Frames
    <3>3. f \in Frames(reader[r].kept)
      BY <2>2, <3>1 DEF Range
    <3>2. f.op \in Ops
      BY <3>3 DEF Frames
    <3> QED BY <1>1, <2>2, <3>2, FollowsSame
  <2>6. Followed(p, r, pick)'
    BY <2>1, <2>2, <2>3, <2>4, <2>5 DEF Followed
  <2> QED BY <1>1, <2>6 DEF Attained
<1> QED BY <1>3, <1>4

-----------------------------------------------------------------------------
(* A step of a call leaves what the AddPattern calls have built, and what  *)
(* the other calls have yet to follow.                                     *)
Led(r) ==
    /\ NoneLost(r) /\ PriorKept(r)
    /\ \A f \in Range(reader[r].agenda) : Narrow(f)

LEMMA LedKeep ==
  ASSUME Inductive, Inductive', Grows, Retained, Arrived \subseteq Arrived',
         NEW r \in Readers, KeptKnown(r), reader'[r] = reader[r], Led(r)
  PROVE  Led(r)'
<1>1. \A p : Fitting(p, r)' = Fitting(p, r)
  BY FieldsSame
<1>2. ASSUME NEW p, NEW pick \in Fitting(p, r), Attained(p, r, pick)
      PROVE  Attained(p, r, pick)'
  BY <1>2, AttainedKeep
<1>3. NoneLost(r)'
  BY <1>1, <1>2 DEF Led, NoneLost
<1>4. PriorKept(r)'
  <2> SUFFICES ASSUME NEW x \in reader[r].prior
               PROVE  (\E p \in Arrived : p.x = x /\ (Matches(p, reader[r].event) =>
                         \E pick \in Fitting(p, r) : Attained(p, r, pick)))'
    BY DEF PriorKept
  <2>1. PICK p \in Arrived : /\ p.x = x
                             /\ Matches(p, reader[r].event) =>
                                   \E pick \in Fitting(p, r) : Attained(p, r, pick)
    BY DEF Led, PriorKept
  <2>2. Matches(p, reader'[r].event) => \E pick \in Fitting(p, r)' : Attained(p, r, pick)'
    BY <1>1, <1>2, <2>1
  <2> QED BY <2>1, <2>2
<1>5. \A f \in Range(reader'[r].agenda) : Narrow(f)
  BY DEF Led
<1> QED BY <1>3, <1>4, <1>5 DEF Led

LEMMA LocalComplete ==
  ASSUME Inductive, Inductive', Sound, Complete, UNCHANGED <<core, fms, vms, lock, writer>>,
         \A q \in Readers : reader'[q] = reader[q] \/ Led(q)'
  PROVE  Complete'
<1>1. Grows /\ Retained
  BY SameRetained
<1>2. Arrived' = Arrived
  BY DEF Arrived
<1>3. \A w \in Writers : Built(w)'
  BY <1>1, BuiltKeep DEF Complete
<1>4. ASSUME NEW q \in Readers
      PROVE  Led(q)'
  <2>1. KeptKnown(q) /\ Led(q)
    BY DEF Sound, Complete, Led
  <2> QED BY <1>1, <1>2, <2>1, LedKeep
<1> QED BY <1>3, <1>4 DEF Complete, Led

(* What the innermost loop has yet to follow is handed on.                 *)
HandsOn(more, xs, r) ==
    \A p \in Patterns : \A pick \in Fitting(p, r) : \A S \in SUBSET (1..Len(fms)) :
        Serves(Shape(p), ValuesOf(r, pick), p.x, S) /\ Follows(Top(r), p, r, pick, S)
            => p.x \in xs \/ HasNext(more, p, r, pick, S)

LEMMA WalkComplete ==
  ASSUME Inductive, Sound, Complete, NEW r \in Readers, NEW op, AtTop(r, op), ReaderStep(r),
         NEW more, NEW xs, AllNarrow(more), Continue(r, more, xs), HandsOn(more, xs, r)
  PROVE  Complete'
<1>1. IsSeq(more)
  BY DEF AllNarrow
<1>2. /\ UNCHANGED <<core, fms, vms, lock, writer>>
      /\ \A q \in Readers \ {r} : reader'[q] = reader[q]
      /\ reader'[r].event = reader[r].event /\ reader'[r].kept = reader[r].kept
      /\ reader'[r].must = reader[r].must /\ reader'[r].prior = reader[r].prior
      /\ Range(reader'[r].agenda) = Range(more) \cup Range(Tail(reader[r].agenda))
      /\ Range(reader[r].agenda) = {Top(r)} \cup Range(Tail(reader[r].agenda))
  BY <1>1, WalkStep
<1>3. Inductive'
  BY ReaderInductive
<1>4. KeptKnown(r) /\ NoneLost(r) /\ PriorKept(r) /\ \A f \in Range(reader[r].agenda) : Narrow(f)
  BY DEF Sound, Complete
<1>5. Arrived' = Arrived /\ \A p : Fitting(p, r)' = Fitting(p, r)
  BY <1>2, FieldsSame DEF Arrived
<1>6. ASSUME NEW p \in Patterns, NEW pick \in Fitting(p, r), Attained(p, r, pick)
      PROVE  Attained(p, r, pick)'
  BY <1>1, <1>3, <1>4, <1>6, WalkAttained DEF HandsOn
<1>7. NoneLost(r)'
  <2>1. reader[r].must \subseteq Patterns
    BY DEF Inductive, TypeOK, ReaderLocals
  <2> QED BY <1>2, <1>4, <1>5, <1>6, <2>1 DEF NoneLost
<1>8. PriorKept(r)'
  <2> SUFFICES ASSUME NEW x \in reader[r].prior
               PROVE  (\E p \in Arrived : p.x = x /\ (Matches(p, reader[r].event) =>
                         \E pick \in Fitting(p, r) : Attained(p, r, pick)))'
    BY <1>2 DEF PriorKept
  <2>1. PICK p \in Arrived : /\ p.x = x
                             /\ Matches(p, reader[r].event) =>
                                   \E pick \in Fitting(p, r) : Attained(p, r, pick)
    BY <1>4 DEF PriorKept
  <2>2. p \in Patterns
    BY ArrivedPatterns
  <2>3. Matches(p, reader'[r].event) => \E pick \in Fitting(p, r)' : Attained(p, r, pick)'
    BY <1>2, <1>5, <1>6, <2>1, <2>2
  <2> QED BY <1>5, <2>1, <2>3
<1>9. \A f \in Range(reader'[r].agenda) : Narrow(f)
  BY <1>2, <1>4 DEF AllNarrow
<1>10. Led(r)'
  BY <1>7, <1>8, <1>9 DEF Led
<1> QED BY <1>2, <1>3, <1>10, LocalComplete

(* What is known of the innermost loop and of what it has yet to follow.   *)
LEMMA TopFollows ==
  ASSUME Inductive, Sound, Complete, NEW r \in Readers, NEW op, AtTop(r, op),
         NEW p, NEW pick, NEW S, Follows(Top(r), p, r, pick, S)
  PROVE  \E m \in Top(r).to, i \in Top(r).at : FollowsAt(op, p, r, pick, S, m, i)
<1>1. Top(r).op = op
  BY DEF AtTop
<1> QED BY <1>1 DEF Follows

LEMMA TopNarrow ==
  ASSUME Inductive, Complete, NEW r \in Readers, NEW op, AtTop(r, op)
  PROVE  /\ op # "try" => \A i \in Top(r).at : Top(r).at = {i}
         /\ op \notin {"absent", "next"} => \A m \in Top(r).to : Top(r).to = {m}
<1>1. PICK f : f = Top(r)
  OBVIOUS
<1>2. f \in Range(reader[r].agenda) /\ f.op = op
  <2>1. reader[r].agenda \in Seq(Frames(reader[r].kept)) /\ reader[r].agenda # <<>>
    BY DEF Inductive, TypeOK, AgendaOK, AtTop
  <2> QED BY <1>1, <2>1, TailRange DEF Top, AtTop
<1>3. Narrow(f)
  BY <1>2 DEF Complete
<1> QED BY <1>1, <1>2, <1>3 DEF Narrow

-----------------------------------------------------------------------------
(* The steps of a match call hand on what they have yet to follow.         *)
LEMMA TryToMatchComplete ==
  ASSUME Inductive, Sound, Complete, NEW r \in Readers, TryToMatch(r)
  PROVE  Complete'
<1>1. PICK i \in Top(r).at, s \in Top(r).to :
         Continue(r, Loop("exists", {i}, ExistsTargets(r, i, fms[s]))
                        \o Loop("absent", {i}, AbsentTargets(r, fms[s]))
                        \o Loop("trans", {i}, {s})
                        \o Loop("try", Top(r).at \ {i}, {s}), {})
  BY DEF TryToMatch
<1>2. AtTop(r, "try") /\ ReaderStep(r)
  BY DEF TryToMatch, ReaderStep
<1>3. s \in 1..Len(fms) /\ KeptKnown(r) /\ Top(r).to = {s}
  BY <1>2, TopFits, TopNarrow
<1>4. PICK exists, absent, trans, rest :
         /\ exists = Loop("exists", {i}, ExistsTargets(r, i, fms[s]))
         /\ absent = Loop("absent", {i}, AbsentTargets(r, fms[s]))
         /\ trans = Loop("trans", {i}, {s})
         /\ rest = Loop("try", Top(r).at \ {i}, {s})
  OBVIOUS
<1>5. AllNarrow(exists) /\ AllNarrow(absent) /\ AllNarrow(trans) /\ AllNarrow(rest)
  <2>1. PICK to : to = ExistsTargets(r, i, fms[s])
    OBVIOUS
  <2>2. to # {} => \E m : to = {m}
    BY <2>1 DEF ExistsTargets
  <2>3. AllNarrow(exists)
    BY <1>4, <2>1, <2>2, NarrowLoop
  <2> QED BY <1>4, <2>3, NarrowLoop
<1>6. PICK more : more = exists \o absent \o trans \o rest
  OBVIOUS
<1>7. AllNarrow(more)
  BY <1>5, <1>6, NarrowConcat
<1>8. ASSUME NEW p, NEW pick, NEW S,
             \/ HasNext(exists, p, r, pick, S) \/ HasNext(absent, p, r, pick, S)
             \/ HasNext(trans, p, r, pick, S) \/ HasNext(rest, p, r, pick, S)
      PROVE  HasNext(more, p, r, pick, S)
  <2>1. IsSeq(exists) /\ IsSeq(absent) /\ IsSeq(trans) /\ IsSeq(rest)
    BY <1>5 DEF AllNarrow
  <2> QED BY <1>6, <1>8, <2>1, ConcatHasNext
<1>9. ASSUME NEW p \in Patterns, NEW pick \in Fitting(p, r), NEW S \in SUBSET (1..Len(fms)),
             Serves(Shape(p), ValuesOf(r, pick), p.x, S), Follows(Top(r), p, r, pick, S)
      PROVE  HasNext(more, p, r, pick, S)
  <2>1. PICK j \in Top(r).at : FollowsAt("try", p, r, pick, S, s, j)
    BY <1>2, <1>3, <1>9, TopFollows
  <2>2. s \in S /\ Left(Shape(p), fms[s].via) # {} /\ Due(p, pick, s, j)
    BY <2>1 DEF FollowsAt
  <2>3. CASE j # i
    <3>1. j \in Top(r).at \ {i} /\ s \in {s}
      BY <2>3
    <3>2. HasNext(rest, p, r, pick, S)
      BY <1>4, <2>1, <3>1, LoopHasNext
    <3> QED BY <1>8, <3>2
  <2>4. CASE j = i
    <3>1. PICK k \in Paths : Least(k, Left(Shape(p), fms[s].via))
      <4>1. Left(Shape(p), fms[s].via) \in SUBSET Paths
        BY DEF Left
      <4> QED BY <2>2, <4>1, LeastLeft
    <3>2. Shape(p)[k] \in {"exists", "absent", "vals"}
      <4>1. Shape(p)[k] # "free"
        BY <3>1 DEF Least, Left
      <4> QED BY <1>3, <4>1, Fitted
    <3>3. Shape(p)[k] # "absent" => i = pick[k]
      <4>1. Shape(p)[k] # "absent" => Least(k, LeftWanted(Shape(p), fms[s].via))
        BY <3>1 DEF Least, LeftWanted
      <4> QED BY <2>2, <2>4, <4>1 DEF Due
    <3>4. CASE Shape(p)[k] = "exists"
      <4>1. PICK t \in ExistsTargets(r, i, fms[s]) \cap S : After(p, r, pick, t, i)
        BY <1>3, <1>9, <2>2, <3>1, <3>3, <3>4, ExistsMove
      <4>2. FollowsAt("exists", p, r, pick, S, t, i)
        BY <4>1 DEF FollowsAt
      <4>3. t \in ExistsTargets(r, i, fms[s]) /\ i \in {i}
        BY <4>1
      <4>4. HasNext(exists, p, r, pick, S)
        BY <1>4, <4>2, <4>3, LoopHasNext
      <4> QED BY <1>8, <4>4
    <3>5. CASE Shape(p)[k] = "absent"
      <4>1. PICK t \in AbsentTargets(r, fms[s]) \cap S :
               LeftWanted(Shape(p), fms[t].via) = LeftWanted(Shape(p), fms[s].via)
        BY <1>3, <1>9, <2>2, <3>1, <3>5, AbsentMove
      <4>2. FollowsAt("absent", p, r, pick, S, t, i)
        BY <2>2, <2>4, <4>1 DEF FollowsAt, Due
      <4>3. t \in AbsentTargets(r, fms[s]) /\ i \in {i}
        BY <4>1
      <4>4. HasNext(absent, p, r, pick, S)
        BY <1>4, <4>2, <4>3, LoopHasNext
      <4> QED BY <1>8, <4>4
    <3>6. CASE Shape(p)[k] = "vals"
      <4>1. FollowsAt("trans", p, r, pick, S, s, i)
        BY <2>2, <3>1, <3>3, <3>6 DEF FollowsAt
      <4>2. HasNext(trans, p, r, pick, S)
        BY <1>4, <4>1, LoopHasNext
      <4> QED BY <1>8, <4>2
    <3> QED BY <3>2, <3>4, <3>5, <3>6
  <2> QED BY <2>3, <2>4
<1>10. HandsOn(more, {}, r)
  BY <1>9 DEF HandsOn
<1>11. Continue(r, more, {})
  BY <1>1, <1>4, <1>6
<1> QED BY <1>2, <1>7, <1>10, <1>11, WalkComplete

LEMMA TakeExistsComplete ==
  ASSUME Inductive, Sound, Complete, NEW r \in Readers, TakeExists(r)
  PROVE  Complete'
<1>1. PICK i \in Top(r).at, t \in Top(r).to :
         Continue(r, Loop("try", Later(r, i), {t}) \o Loop("recheck", {i}, {t}),
                  fms[t].matches)
  BY DEF TakeExists
<1>2. AtTop(r, "exists") /\ ReaderStep(r)
  BY DEF TakeExists, ReaderStep
<1>3. Top(r).at = {i} /\ Top(r).to = {t}
  BY <1>2, TopNarrow
<1>4. PICK try, recheck, more : /\ try = Loop("try", Later(r, i), {t})
                                /\ recheck = Loop("recheck", {i}, {t})
                                /\ more = try \o recheck
  OBVIOUS
<1>5. AllNarrow(try) /\ AllNarrow(recheck)
  BY <1>4, NarrowLoop
<1>6. AllNarrow(more)
  BY <1>4, <1>5, NarrowConcat
<1>7. ASSUME NEW p, NEW pick, NEW S,
             HasNext(try, p, r, pick, S) \/ HasNext(recheck, p, r, pick, S)
      PROVE  HasNext(more, p, r, pick, S)
  BY <1>4, <1>5, <1>7, ConcatHasNext DEF AllNarrow
<1>8. ASSUME NEW p \in Patterns, NEW pick \in Fitting(p, r), NEW S \in SUBSET (1..Len(fms)),
             Serves(Shape(p), ValuesOf(r, pick), p.x, S), Follows(Top(r), p, r, pick, S)
      PROVE  p.x \in fms[t].matches \/ HasNext(more, p, r, pick, S)
  <2>1. FollowsAt("exists", p, r, pick, S, t, i)
    BY <1>2, <1>3, <1>8, TopFollows
  <2>2. t \in S /\ After(p, r, pick, t, i)
    BY <2>1 DEF FollowsAt
  <2>3. CASE FollowsAt("recheck", p, r, pick, S, t, i)
    <3>1. HasNext(recheck, p, r, pick, S)
      BY <1>4, <2>3, LoopHasNext
    <3> QED BY <1>7, <3>1
  <2>4. ASSUME NEW j \in Later(r, i), FollowsAt("try", p, r, pick, S, t, j)
        PROVE  HasNext(more, p, r, pick, S)
    <3>1. HasNext(try, p, r, pick, S)
      BY <1>4, <2>4, LoopHasNext
    <3> QED BY <1>7, <3>1
  <2> QED BY <1>8, <2>2, <2>3, <2>4, Arrive
<1>9. HandsOn(more, fms[t].matches, r)
  BY <1>8 DEF HandsOn
<1>10. Continue(r, more, fms[t].matches)
  BY <1>1, <1>4
<1> QED BY <1>2, <1>6, <1>9, <1>10, WalkComplete

(* Once all the wanted fields are taken, the next path has to be absent.   *)
LEMMA OnlyAbsent ==
  ASSUME Inductive, NEW r \in Readers, KeptKnown(r), NEW p \in Patterns,
         NEW pick \in Fitting(p, r), NEW S, NEW t \in S, NEW i,
         Serves(Shape(p), ValuesOf(r, pick), p.x, S),
         FollowsAt("recheck", p, r, pick, S, t, i)
  PROVE  HasNext(Loop("absent", {i}, AbsentTargets(r, fms[t])), p, r, pick, S)
<1>1. Left(Shape(p), fms[t].via) # {} /\ LeftWanted(Shape(p), fms[t].via) = {}
  BY DEF FollowsAt
<1>2. PICK k \in Paths : Least(k, Left(Shape(p), fms[t].via))
  <2>1. Left(Shape(p), fms[t].via) \in SUBSET Paths
    BY DEF Left
  <2> QED BY <1>1, <2>1, LeastLeft
<1>3. Shape(p)[k] = "absent"
  BY <1>1, <1>2 DEF Least, LeftWanted
<1>4. PICK n \in AbsentTargets(r, fms[t]) \cap S :
         LeftWanted(Shape(p), fms[n].via) = LeftWanted(Shape(p), fms[t].via)
  BY <1>2, <1>3, AbsentMove
<1>5. FollowsAt("absent", p, r, pick, S, n, i)
  BY <1>1, <1>4 DEF FollowsAt, Due, Least
<1>6. n \in AbsentTargets(r, fms[t]) /\ i \in {i}
  BY <1>4
<1> QED BY <1>5, <1>6, LoopHasNext

LEMMA RecheckAbsentComplete ==
  ASSUME Inductive, Sound, Complete, NEW r \in Readers, RecheckAbsent(r)
  PROVE  Complete'
<1>1. PICK i \in Top(r).at, t \in Top(r).to :
         Continue(r, Loop("absent", {i}, AbsentTargets(r, fms[t])), {})
  BY DEF RecheckAbsent
<1>2. AtTop(r, "recheck") /\ ReaderStep(r)
  BY DEF RecheckAbsent, ReaderStep
<1>3. KeptKnown(r) /\ Top(r).at = {i} /\ Top(r).to = {t}
  BY <1>2, TopNarrow DEF Sound
<1>4. PICK more : more = Loop("absent", {i}, AbsentTargets(r, fms[t]))
  OBVIOUS
<1>5. AllNarrow(more)
  BY <1>4, NarrowLoop
<1>6. ASSUME NEW p \in Patterns, NEW pick \in Fitting(p, r), NEW S \in SUBSET (1..Len(fms)),
             Serves(Shape(p), ValuesOf(r, pick), p.x, S), Follows(Top(r), p, r, pick, S)
      PROVE  HasNext(more, p, r, pick, S)
  <2>1. FollowsAt("recheck", p, r, pick, S, t, i)
    BY <1>2, <1>3, <1>6, TopFollows
  <2>2. t \in S
    BY <2>1 DEF FollowsAt
  <2> QED BY <1>3, <1>4, <1>6, <2>1, <2>2, OnlyAbsent
<1>7. HandsOn(more, {}, r)
  BY <1>6 DEF HandsOn
<1>8. Continue(r, more, {})
  BY <1>1, <1>4
<1> QED BY <1>2, <1>5, <1>7, <1>8, WalkComplete

LEMMA TakeAbsentComplete ==
  ASSUME Inductive, Sound, Complete, NEW r \in Readers, TakeAbsent(r)
  PROVE  Complete'
<1>1. PICK i \in Top(r).at, t \in Top(r).to :
         Continue(r, Loop("try", {i}, {t}) \o Loop("absent", {i}, Top(r).to \ {t}),
                  fms[t].matches)
  BY DEF TakeAbsent
<1>2. AtTop(r, "absent") /\ ReaderStep(r)
  BY DEF TakeAbsent, ReaderStep
<1>3. Top(r).at = {i}
  BY <1>2, TopNarrow
<1>4. PICK try, rest, more : /\ try = Loop("try", {i}, {t})
                             /\ rest = Loop("absent", {i}, Top(r).to \ {t})
                             /\ more = try \o rest
  OBVIOUS
<1>5. AllNarrow(try) /\ AllNarrow(rest)
  BY <1>4, NarrowLoop
<1>6. AllNarrow(more)
  BY <1>4, <1>5, NarrowConcat
<1>7. ASSUME NEW p, NEW pick, NEW S,
             HasNext(try, p, r, pick, S) \/ HasNext(rest, p, r, pick, S)
      PROVE  HasNext(more, p, r, pick, S)
  BY <1>4, <1>5, <1>7, ConcatHasNext DEF AllNarrow
<1>8. ASSUME NEW p \in Patterns, NEW pick \in Fitting(p, r), NEW S \in SUBSET (1..Len(fms)),
             Serves(Shape(p), ValuesOf(r, pick), p.x, S), Follows(Top(r), p, r, pick, S)
      PROVE  p.x \in fms[t].matches \/ HasNext(more, p, r, pick, S)
  <2>1. PICK m \in Top(r).to : FollowsAt("absent", p, r, pick, S, m, i)
    BY <1>2, <1>3, <1>8, TopFollows
  <2>2. CASE m # t
    <3>1. m \in Top(r).to \ {t} /\ i \in {i}
      BY <2>2
    <3>2. HasNext(rest, p, r, pick, S)
      BY <1>4, <2>1, <3>1, LoopHasNext
    <3> QED BY <1>7, <3>2
  <2>3. CASE m = t
    <3>1. t \in S /\ Due(p, pick, t, i)
      BY <2>1, <2>3 DEF FollowsAt
    <3>2. CASE Left(Shape(p), fms[t].via) = {}
      BY <1>8, <3>1, <3>2 DEF Serves, Served
    <3>3. CASE Left(Shape(p), fms[t].via) # {}
      <4>1. FollowsAt("try", p, r, pick, S, t, i)
        BY <3>1, <3>3 DEF FollowsAt
      <4>2. HasNext(try, p, r, pick, S)
        BY <1>4, <4>1, LoopHasNext
      <4> QED BY <1>7, <4>2
    <3> QED BY <3>2, <3>3
  <2> QED BY <2>2, <2>3
<1>9. HandsOn(more, fms[t].matches, r)
  BY <1>8 DEF HandsOn
<1>10. Continue(r, more, fms[t].matches)
  BY <1>1, <1>4
<1> QED BY <1>2, <1>6, <1>9, <1>10, WalkComplete

LEMMA LoadTransitionsComplete ==
  ASSUME Inductive, Sound, Complete, NEW r \in Readers, LoadTransitions(r)
  PROVE  Complete'
<1>1. PICK i \in Top(r).at, s \in Top(r).to :
         LET vm == {fms[s].trans[k] : k \in {l \in Paths : l = PathAt(r, i)}}
         IN  Continue(r, Loop("values", {i}, vm \ {Nil}), {})
  BY DEF LoadTransitions
<1>2. PICK vm, more :
         /\ vm = {fms[s].trans[k] : k \in {l \in Paths : l = PathAt(r, i)}} \ {Nil}
         /\ more = Loop("values", {i}, vm) /\ Continue(r, more, {})
  BY <1>1
<1>3. AtTop(r, "trans") /\ ReaderStep(r)
  BY DEF LoadTransitions, ReaderStep
<1>4. KeptKnown(r) /\ Top(r).at = {i} /\ Top(r).to = {s}
  BY <1>3, TopNarrow DEF Sound
<1>5. AllNarrow(more)
  <2>1. vm # {} => \E m : vm = {m}
    BY <1>2
  <2> QED BY <1>2, <2>1, NarrowLoop
<1>6. ASSUME NEW p \in Patterns, NEW pick \in Fitting(p, r), NEW S \in SUBSET (1..Len(fms)),
             Serves(Shape(p), ValuesOf(r, pick), p.x, S), Follows(Top(r), p, r, pick, S)
      PROVE  HasNext(more, p, r, pick, S)
  <2>1. FollowsAt("trans", p, r, pick, S, s, i)
    BY <1>3, <1>4, <1>6, TopFollows
  <2>2. PICK k \in Paths : /\ Least(k, Left(Shape(p), fms[s].via))
                           /\ Shape(p)[k] = "vals" /\ i = pick[k]
    BY <2>1 DEF FollowsAt
  <2>3. s \in S
    BY <2>1 DEF FollowsAt
  <2>4. PICK v : v = fms[s].trans[k]
    OBVIOUS
  <2>5. /\ v # Nil /\ PathAt(r, i) = k
        /\ \E t \in TransitionOn(vms[v], FieldAt(r, i).val) \cap S : After(p, r, pick, t, i)
    BY <1>4, <1>6, <2>2, <2>3, <2>4, ValsMove
  <2>6. FollowsAt("values", p, r, pick, S, v, i)
    BY <2>5 DEF FollowsAt
  <2>7. v \in vm /\ i \in {i}
    BY <1>2, <2>4, <2>5
  <2> QED BY <1>2, <2>6, <2>7, LoopHasNext
<1>7. HandsOn(more, {}, r)
  BY <1>6 DEF HandsOn
<1> QED BY <1>2, <1>3, <1>5, <1>7, WalkComplete

LEMMA LoadValuesComplete ==
  ASSUME Inductive, Sound, Complete, NEW r \in Readers, LoadValues(r)
  PROVE  Complete'
<1>1. PICK i \in Top(r).at, v \in Top(r).to :
         Continue(r, Loop("next", {i}, TransitionOn(vms[v], reader[r].event[i].val)), {})
  BY DEF LoadValues
<1>2. AtTop(r, "values") /\ ReaderStep(r)
  BY DEF LoadValues, ReaderStep
<1>3. KeptKnown(r) /\ Top(r).at = {i} /\ Top(r).to = {v}
  BY <1>2, TopNarrow DEF Sound
<1>4. PICK to, more : /\ to = TransitionOn(vms[v], FieldAt(r, i).val)
                      /\ more = Loop("next", {i}, to)
  OBVIOUS
<1>5. AllNarrow(more)
  BY <1>4, NarrowLoop
<1>6. ASSUME NEW p \in Patterns, NEW pick \in Fitting(p, r), NEW S \in SUBSET (1..Len(fms)),
             Serves(Shape(p), ValuesOf(r, pick), p.x, S), Follows(Top(r), p, r, pick, S)
      PROVE  HasNext(more, p, r, pick, S)
  <2>1. FollowsAt("values", p, r, pick, S, v, i)
    BY <1>2, <1>3, <1>6, TopFollows
  <2>2. PICK t \in to \cap S : After(p, r, pick, t, i)
    BY <1>4, <2>1 DEF FollowsAt
  <2>3. FollowsAt("next", p, r, pick, S, t, i)
    BY <2>2 DEF FollowsAt
  <2>4. t \in to /\ i \in {i}
    BY <2>2
  <2> QED BY <1>4, <2>3, <2>4, LoopHasNext
<1>7. HandsOn(more, {}, r)
  BY <1>6 DEF HandsOn
<1>8. Continue(r, more, {})
  BY <1>1, <1>4 DEF FieldAt
<1> QED BY <1>2, <1>5, <1>7, <1>8, WalkComplete

LEMMA TakeNextComplete ==
  ASSUME Inductive, Sound, Complete, NEW r \in Readers, TakeNext(r)
  PROVE  Complete'
<1>1. PICK i \in Top(r).at, t \in Top(r).to :
         Continue(r, Loop("try", Later(r, i), {t})
                     \o Loop("absent", {i}, AbsentTargets(r, fms[t]))
                     \o Loop("next", {i}, Top(r).to \ {t}),
                  fms[t].matches)
  BY DEF TakeNext
<1>2. AtTop(r, "next") /\ ReaderStep(r)
  BY DEF TakeNext, ReaderStep
<1>3. KeptKnown(r) /\ Top(r).at = {i}
  BY <1>2, TopNarrow DEF Sound
<1>4. PICK try, absent, rest, more :
         /\ try = Loop("try", Later(r, i), {t})
         /\ absent = Loop("absent", {i}, AbsentTargets(r, fms[t]))
         /\ rest = Loop("next", {i}, Top(r).to \ {t})
         /\ more = try \o absent \o rest
  OBVIOUS
<1>5. AllNarrow(try) /\ AllNarrow(absent) /\ AllNarrow(rest)
  BY <1>4, NarrowLoop
<1>6. AllNarrow(more)
  BY <1>4, <1>5, NarrowConcat
<1>7. ASSUME NEW p, NEW pick, NEW S,
             \/ HasNext(try, p, r, pick, S) \/ HasNext(absent, p, r, pick, S)
             \/ HasNext(rest, p, r, pick, S)
      PROVE  HasNext(more, p, r, pick, S)
  BY <1>4, <1>5, <1>7, ConcatHasNext DEF AllNarrow
<1>8. ASSUME NEW p \in Patterns, NEW pick \in Fitting(p, r), NEW S \in SUBSET (1..Len(fms)),
             Serves(Shape(p), ValuesOf(r, pick), p.x, S), Follows(Top(r), p, r, pick, S)
      PROVE  p.x \in fms[t].matches \/ HasNext(more, p, r, pick, S)
  <2>1. PICK m \in Top(r).to : FollowsAt("next", p, r, pick, S, m, i)
    BY <1>2, <1>3, <1>8, TopFollows
  <2>2. CASE m # t
    <3>1. m \in Top(r).to \ {t} /\ i \in {i}
      BY <2>2
    <3>2. HasNext(rest, p, r, pick, S)
      BY <1>4, <2>1, <3>1, LoopHasNext
    <3> QED BY <1>7, <3>2
  <2>3. CASE m = t
    <3>1. t \in S /\ After(p, r, pick, t, i)
      BY <2>1, <2>3 DEF FollowsAt
    <3>2. CASE FollowsAt("recheck", p, r, pick, S, t, i)
      <4>1. HasNext(absent, p, r, pick, S)
        BY <1>3, <1>4, <1>8, <3>1, <3>2, OnlyAbsent
      <4> QED BY <1>7, <4>1
    <3>3. ASSUME NEW j \in Later(r, i), FollowsAt("try", p, r, pick, S, t, j)
          PROVE  HasNext(more, p, r, pick, S)
      <4>1. HasNext(try, p, r, pick, S)
        BY <1>4, <3>3, LoopHasNext
      <4> QED BY <1>7, <4>1
    <3> QED BY <1>8, <3>1, <3>2, <3>3, Arrive
  <2> QED BY <2>2, <2>3
<1>9. HandsOn(more, fms[t].matches, r)
  BY <1>8 DEF HandsOn
<1>10. Continue(r, more, fms[t].matches)
  BY <1>1, <1>4
<1> QED BY <1>2, <1>6, <1>9, <1>10, WalkComplete

-----------------------------------------------------------------------------
(* The loop a call starts with has every field and the start state.        *)
LEMMA RootDue ==
  ASSUME Inductive, NEW r \in Readers, KeptKnown(r), reader[r].pc # "idle",
         NEW p \in Patterns, NEW pick \in Fitting(p, r), NEW S,
         Serves(Shape(p), ValuesOf(r, pick), p.x, S)
  PROVE  HasNext(Loop("try", reader[r].kept, {Root}), p, r, pick, S)
<1>1. PICK left, wanted : /\ left = Left(Shape(p), fms[Root].via)
                          /\ wanted = LeftWanted(Shape(p), fms[Root].via)
  OBVIOUS
<1>2. fms[Root].via = [k \in Paths |-> "free"] /\ Root \in S
  BY DEF Inductive, HeapLabelled, Serves
<1>3. left # {}
  <2>1. PICK k \in Constrained(p) : TRUE
    BY FittingOn
  <2>2. k \in Paths /\ p.cond[k].kind # "free" /\ Shape(p)[k] = p.cond[k].kind
    BY DEF Constrained, Shape
  <2> QED BY <1>1, <1>2, <2>2 DEF Left
<1>4. \E i \in reader[r].kept : Due(p, pick, Root, i)
  <2>1. CASE wanted = {}
    <3>1. PICK i \in reader[r].kept : TRUE
      BY DEF KeptKnown
    <3> QED BY <1>1, <2>1 DEF Due, Least
  <2>2. CASE wanted # {}
    <3>1. wanted \in SUBSET Paths
      BY <1>1 DEF LeftWanted, Left
    <3>2. PICK k \in Paths : Least(k, wanted)
      BY <2>2, <3>1, LeastLeft
    <3>3. \A l \in Paths : Least(l, wanted) => l = k
      BY <3>1, <3>2, LeastOnce
    <3>4. Shape(p)[k] # "free" /\ Shape(p)[k] # "absent"
      BY <1>1, <3>2 DEF Least, LeftWanted, Left
    <3>5. pick[k] \in reader[r].kept
      BY <3>4, Fitted DEF Real
    <3> QED BY <1>1, <3>3, <3>5 DEF Due
  <2> QED BY <2>1, <2>2
<1>5. PICK i \in reader[r].kept : Due(p, pick, Root, i)
  BY <1>4
<1>6. FollowsAt("try", p, r, pick, S, Root, i)
  BY <1>1, <1>2, <1>3, <1>5 DEF FollowsAt
<1> QED BY <1>6, LoopHasNext

LEMMA LaunchComplete ==
  ASSUME Inductive, Sound, Complete, NEW r \in Readers, Launch(r)
  PROVE  Complete'
<1>1. PICK me, loops : me = reader[r] /\ loops = Loop("try", me.kept, {Root})
  OBVIOUS
<1>2. reader \in [Readers -> ReaderLocals] /\ me \in ReaderLocals /\ core.state = Root
  BY <1>1 DEF Inductive, TypeOK, HeapLabelled
<1>3. /\ UNCHANGED <<core, fms, vms, lock, writer>>
      /\ \A q \in Readers \ {r} : reader'[q] = reader[q]
      /\ reader'[r].pc = "match" /\ reader'[r].agenda = loops
      /\ reader'[r].event = me.event /\ reader'[r].kept = me.kept
      /\ reader'[r].must = me.must /\ reader'[r].prior = me.prior
      /\ me.pc = "flat"
  BY <1>1, <1>2 DEF Launch, ReaderLocals
<1>4. Inductive' /\ Grows /\ Retained
  BY <1>3, LaunchStep, SameRetained
<1>5. KeptKnown(r) /\ NoneLost(r) /\ PriorKept(r)
  BY DEF Sound, Complete
<1>6. Arrived' = Arrived /\ \A p : Fitting(p, r)' = Fitting(p, r)
  BY <1>1, <1>3, FieldsSame DEF Arrived
<1>7. ASSUME NEW p \in Patterns, NEW pick \in Fitting(p, r), Attained(p, r, pick)
      PROVE  Attained(p, r, pick)'
  <2>1. PICK sh, on, S : /\ sh = Shape(p) /\ on = ValuesOf(r, pick)
                         /\ S \in SUBSET (1..Len(fms)) /\ Serves(sh, on, p.x, S)
    BY <1>1, <1>3, <1>7 DEF Attained, Reachable
  <2>2. HasNext(loops, p, r, pick, S)
    BY <1>1, <1>3, <1>5, <2>1, RootDue
  <2>3. PICK f \in Range(loops) : Follows(f, p, r, pick, S)
    BY <2>2 DEF HasNext
  <2>4. f.op \in Ops
    <3>1. f = [op |-> "try", at |-> me.kept, to |-> {Root}]
      BY <1>1, <2>3, LoopRange
    <3> QED BY <3>1 DEF Ops
  <2>5. Follows(f, p, r, pick, S)'
    BY <1>1, <1>3, <2>3, <2>4, FollowsSame
  <2>6. on \in [Paths -> SUBSET Values] /\ on = ValuesOf(r, pick)'
    BY <1>1, <1>3, <1>5, <2>1, FittingOn, FieldsSame
  <2>7. Serves(sh, on, p.x, S)' /\ S \in SUBSET (1..Len(fms'))
    BY <1>4, <2>1, <2>6, ServesKeep
  <2>8. Followed(p, r, pick)'
    BY <1>3, <2>1, <2>3, <2>5, <2>6, <2>7 DEF Followed
  <2> QED BY <1>3, <2>8 DEF Attained
<1>8. NoneLost(r)'
  <2>1. me.must \subseteq Patterns
    BY <1>2 DEF ReaderLocals
  <2> QED BY <1>1, <1>3, <1>5, <1>6, <1>7, <2>1 DEF NoneLost
<1>9. PriorKept(r)'
  <2> SUFFICES ASSUME NEW x \in me.prior
               PROVE  (\E p \in Arrived : p.x = x /\ (Matches(p, reader[r].event) =>
                         \E pick \in Fitting(p, r) : Attained(p, r, pick)))'
    BY <1>3 DEF PriorKept
  <2>1. PICK p \in Arrived : /\ p.x = x
                             /\ Matches(p, me.event) =>
                                   \E pick \in Fitting(p, r) : Attained(p, r, pick)
    BY <1>1, <1>5 DEF PriorKept
  <2>2. p \in Patterns
    BY ArrivedPatterns
  <2>3. Matches(p, reader'[r].event) => \E pick \in Fitting(p, r)' : Attained(p, r, pick)'
    BY <1>3, <1>6, <1>7, <2>1, <2>2
  <2> QED BY <1>6, <2>1, <2>3
<1>10. \A f \in Range(loops) : Narrow(f)
  <2>1. AllNarrow(loops)
    BY <1>1, NarrowLoop
  <2> QED BY <2>1 DEF AllNarrow
<1>11. Led(r)'
  BY <1>3, <1>8, <1>9, <1>10 DEF Led
<1> QED BY <1>3, <1>4, <1>11, LocalComplete

(* With nothing left to do, what was to be found is.                       *)
LEMMA ReturnComplete ==
  ASSUME Inductive, Sound, Complete, NEW r \in Readers, Return(r)
  PROVE  Complete'
<1>1. PICK me : me = reader[r]
  OBVIOUS
<1>2. reader \in [Readers -> ReaderLocals] /\ me \in ReaderLocals
  BY <1>1 DEF Inductive, TypeOK
<1>3. /\ UNCHANGED <<core, fms, vms, lock, writer>>
      /\ \A q \in Readers \ {r} : reader'[q] = reader[q]
      /\ reader'[r].pc = "done" /\ reader'[r].agenda = <<>> /\ reader'[r].found = me.found
      /\ reader'[r].event = me.event /\ reader'[r].kept = me.kept
      /\ reader'[r].must = me.must /\ reader'[r].prior = me.prior
      /\ me.pc = "match" /\ me.agenda = <<>>
  BY <1>1, <1>2 DEF Return, ReaderLocals
<1>4. Inductive'
  BY ReturnStep
<1>5. NoneLost(r) /\ PriorKept(r)
  BY DEF Complete
<1>6. Arrived' = Arrived /\ \A p : Fitting(p, r)' = Fitting(p, r)
  BY <1>1, <1>3, FieldsSame DEF Arrived
<1>7. Range(<<>>) = {}
  BY DEF Range
<1>8. ASSUME NEW p, NEW pick, Attained(p, r, pick)
      PROVE  Attained(p, r, pick)'
  <2>1. p.x \in me.found
    BY <1>1, <1>3, <1>7, <1>8 DEF Attained, Followed
  <2> QED BY <1>3, <2>1 DEF Attained
<1>9. NoneLost(r)'
  BY <1>1, <1>3, <1>5, <1>6, <1>8 DEF NoneLost
<1>10. PriorKept(r)'
  <2> SUFFICES ASSUME NEW x \in me.prior
               PROVE  (\E p \in Arrived : p.x = x /\ (Matches(p, reader[r].event) =>
                         \E pick \in Fitting(p, r) : Attained(p, r, pick)))'
    BY <1>3 DEF PriorKept
  <2>1. PICK p \in Arrived : /\ p.x = x
                             /\ Matches(p, me.event) =>
                                   \E pick \in Fitting(p, r) : Attained(p, r, pick)
    BY <1>1, <1>5 DEF PriorKept
  <2>2. Matches(p, reader'[r].event) => \E pick \in Fitting(p, r)' : Attained(p, r, pick)'
    BY <1>3, <1>6, <1>8, <2>1
  <2> QED BY <1>6, <2>1, <2>2
<1>11. Led(r)'
  BY <1>3, <1>7, <1>9, <1>10 DEF Led
<1> QED BY <1>3, <1>4, <1>11, LocalComplete

-----------------------------------------------------------------------------
(* What accepts more values accepts these.                                 *)
LEMMA ServesMono ==
  ASSUME NEW sh, NEW on, NEW less, NEW x, NEW S,
         \A k \in Paths : sh[k] = "vals" => less[k] \subseteq on[k],
         Serves(sh, on, x, S)
  PROVE  Serves(sh, less, x, S)
<1>1. ASSUME NEW n \in S
      PROVE  Served(n, sh, less, x, S)
  <2>1. Served(n, sh, on, x, S)
    BY DEF Serves
  <2>2. ASSUME NEW k \in Paths, Least(k, Left(sh, fms[n].via))
        PROVE  LeadsOn(n, k, sh[k], less[k], S)
    <3>1. LeadsOn(n, k, sh[k], on[k], S)
      BY <2>1, <2>2 DEF Served, Leads
    <3> QED BY <3>1 DEF LeadsOn
  <2>3. Leads(n, sh, less, S)
    BY <2>2 DEF Leads
  <2> QED BY <2>1, <2>3 DEF Served
<1> QED BY <1>1 DEF Serves

(* A later call for the same event keeps every field an earlier one kept.  *)
LEMMA SameEvent ==
  ASSUME Inductive, Inductive', Sound, NEW r \in Readers, NEW q \in Readers,
         UNCHANGED <<core, fms, vms>>,
         reader'[r].event = reader[q].event,
         reader'[r].kept = Flatten(reader[q].event, core.tree), KeptKnown(q), KeptKnown(r)',
         NEW p \in Patterns, NEW pick \in Choices(p, q), Reachable(p, q, pick),
         AbsentMet(p, reader[q].event)
  PROVE  pick \in Fitting(p, r)' /\ Reachable(p, r, pick)'
<1>1. PICK e, kept : e = reader[q].event /\ kept = reader'[r].kept
  OBVIOUS
<1>2. \A i : FieldAt(r, i)' = FieldAt(q, i)
  BY DEF FieldAt
<1>3. Real(q) \subseteq DOMAIN e /\ Real(r)' \subseteq DOMAIN e
  BY <1>1 DEF KeptKnown
<1>4. Real(q) \subseteq Real(r)'
  <2> SUFFICES ASSUME NEW i \in Real(q)
               PROVE  i \in Real(r)'
    OBVIOUS
  <2>1. i \in DOMAIN e /\ e[i].path \in core.tree /\ i # FakeIndex
    BY <1>1, <1>3 DEF KeptKnown, FieldAt, Real
  <2>2. i \in kept
    BY <1>1, <2>1 DEF Flatten
  <2> QED BY <1>1, <2>1, <2>2 DEF Real
<1>5. pick \in Choices(p, r)'
  <2>1. /\ pick \in [Wanted(p) -> Real(q)] /\ Constrained(p) # {}
        /\ \A k \in Wanted(p) : Fulfils(p, k, FieldAt(q, pick[k]))
        /\ \A k, l \in Wanted(p) : Together(q, pick[k], pick[l])
    BY DEF Choices
  <2>2. pick \in [Wanted(p) -> Real(r)']
    BY <1>4, <2>1
  <2>3. \A k \in Wanted(p) : Fulfils(p, k, FieldAt(r, pick[k])')
    BY <1>2, <2>1
  <2>4. \A k, l \in Wanted(p) : Together(r, pick[k], pick[l])'
    BY <1>2, <2>1 DEF Together
  <2> QED BY <2>1, <2>2, <2>3, <2>4 DEF Choices
<1>6. ASSUME NEW k \in Constrained(p) \ Wanted(p)
      PROVE  ~HasPath(r, k)'
  <2>1. \A i \in DOMAIN e : e[i].path # k
    BY <1>1, <1>6 DEF AbsentMet
  <2>2. k # Nil
    BY PatternAssumption DEF Constrained, Nil
  <2>3. ASSUME NEW i \in kept
        PROVE  PathAt(r, i)' # k
    <3>1. CASE i = FakeIndex
      BY <2>2, <3>1 DEF PathAt
    <3>2. CASE i # FakeIndex
      <4>1. i \in DOMAIN e
        BY <1>1, <1>3, <2>3, <3>2 DEF Real
      <4> QED BY <1>1, <2>1, <3>2, <4>1 DEF PathAt
    <3> QED BY <3>1, <3>2
  <2> QED BY <1>1, <2>3 DEF HasPath
<1>7. pick \in Fitting(p, r)'
  BY <1>5, <1>6 DEF Fitting
<1>8. Reachable(p, r, pick)'
  <2>1. PICK sh, on, S : /\ sh = Shape(p) /\ on = ValuesOf(q, pick)
                         /\ S \in SUBSET (1..Len(fms)) /\ Serves(sh, on, p.x, S)
    BY DEF Reachable
  <2>2. on \in [Paths -> SUBSET Values]
    BY <2>1, ValuesOfType DEF Choices
  <2>3. Serves(sh, on, p.x, S)' /\ S \in SUBSET (1..Len(fms'))
    BY <2>1, <2>2, SameRetained, ServesKeep
  <2>4. on = ValuesOf(r, pick)'
    BY <1>2, <2>1 DEF ValuesOf
  <2> QED BY <2>1, <2>3, <2>4 DEF Reachable
<1> QED BY <1>7, <1>8

LEMMA BeginMatchComplete ==
  ASSUME Inductive, Sound, Complete, NEW r \in Readers, BeginMatch(r)
  PROVE  Complete'
<1>1. PICK e \in Events :
         /\ reader' = [reader EXCEPT ![r] =
              [IdleReader EXCEPT !.pc = "flat", !.event = e,
                                 !.kept = Flatten(e, core.tree), !.must = Committed,
                                 !.prior = ReportedFor(e)]]
         /\ UNCHANGED <<core, fms, vms, lock, writer>>
  BY DEF BeginMatch
<1>2. reader \in [Readers -> ReaderLocals]
  BY DEF Inductive, TypeOK
<1>3. /\ \A q \in Readers \ {r} : reader'[q] = reader[q]
      /\ reader'[r] = [pc |-> "flat", event |-> e, kept |-> Flatten(e, core.tree),
                       agenda |-> <<>>, found |-> {}, must |-> Committed,
                       prior |-> ReportedFor(e)]
  BY <1>1, <1>2 DEF IdleReader
<1>4. Inductive' /\ Committed' = Committed /\ Arrived' = Arrived
  BY <1>1, BeginMatchStep DEF Committed, Arrived
<1>5. KeptKnown(r)'
  <2>1. Sound'
    BY BeginMatchSound
  <2> QED BY <2>1 DEF Sound
<1>6. NoneLost(r)'
  <2> SUFFICES ASSUME NEW p \in Committed, NEW pick \in Fitting(p, r)'
               PROVE  Attained(p, r, pick)'
    BY <1>3 DEF NoneLost
  <2>1. Reachable(p, r, pick)'
    <3>1. PICK w \in Writers : writer[w].pc = "done" /\ p \in writer[w].pattern
      BY DEF Committed
    <3>2. p = Pat(w) /\ p \in Patterns
      BY <3>1, PatternAtWork
    <3>3. PICK sh, on, less : /\ sh = Shape(p) /\ on = Accepted(p)
                              /\ less = ValuesOf(r, pick)'
      OBVIOUS
    <3>4. PICK S \in SUBSET (1..Len(fms)) : Serves(sh, on, p.x, S)
      BY <3>1, <3>2, <3>3 DEF Complete, Built
    <3>5. ASSUME NEW k \in Paths, sh[k] = "vals"
          PROVE  less[k] \subseteq on[k]
      <4>1. k \in Constrained(p) /\ p.cond[k].kind = "vals" /\ k \in Wanted(p)
        BY <3>3, <3>5 DEF Shape, Wanted
      <4>2. pick \in [Wanted(p) -> Real(r)'] /\ Fulfils(p, k, FieldAt(r, pick[k])')
        BY <4>1 DEF Fitting, Choices
      <4>3. PICK pv \in PValsOf(p, k) : FieldAt(r, pick[k])'.val \in Accepts[pv]
        BY <4>1, <4>2 DEF Fulfils
      <4>4. less[k] = {FieldAt(r, pick[k])'.val}
        BY <3>3, <4>1, <4>2 DEF ValuesOf
      <4>5. FieldAt(r, pick[k])'.val \in on[k]
        BY <3>3, <4>3 DEF Accepted
      <4> QED BY <4>4, <4>5
    <3>6. Serves(sh, less, p.x, S)
      BY <3>4, <3>5, ServesMono
    <3>7. Serves(sh, less, p.x, S)' /\ S \in SUBSET (1..Len(fms'))
      <4>1. pick \in [Wanted(p) -> Real(r)']
        BY DEF Fitting, Choices
      <4>2. less \in [Paths -> SUBSET Values]
        <5>1. \A i \in Real(r)' : e[i].val \in Values
          <6>1. Real(r)' \subseteq DOMAIN e
            BY <1>3, <1>5 DEF KeptKnown
          <6>2. e \in Seq(Field)
            BY PatternAssumption
          <6>3. \A i \in DOMAIN e : e[i] \in Field
            BY <6>2, ElementOfSeq, LenProperties
          <6> QED BY <6>1, <6>3 DEF Field
        <5>2. \A i : FieldAt(r, i)' = e[i]
          BY <1>3 DEF FieldAt
        <5>3. less = [k \in Paths |-> IF k \in DOMAIN pick THEN {e[pick[k]].val} ELSE {}]
          BY <3>3, <5>2 DEF ValuesOf
        <5> QED BY <4>1, <5>1, <5>3
      <4> QED BY <1>1, <1>4, <3>6, <4>2, SameRetained, ServesKeep
    <3> QED BY <3>3, <3>7 DEF Reachable
  <2> QED BY <1>3, <2>1 DEF Attained
<1>7. PriorKept(r)'
  <2> SUFFICES ASSUME NEW x \in ReportedFor(e)
               PROVE  (\E p \in Arrived : p.x = x /\ (Matches(p, reader[r].event) =>
                         \E pick \in Fitting(p, r) : Attained(p, r, pick)))'
    BY <1>3 DEF PriorKept
  <2>1. PICK q \in Readers : reader[q].event = e /\ x \in reader[q].found
    BY DEF ReportedFor
  <2>2. KeptKnown(q) /\ FoundFits(q)
    BY DEF Sound
  <2>3. PICK p \in Arrived : p.x = x /\ \E pick \in Choices(p, q) : Reachable(p, q, pick)
    BY <2>1, <2>2 DEF FoundFits
  <2>4. PICK pick \in Choices(p, q) : Reachable(p, q, pick)
    BY <2>3
  <2>5. p \in Patterns
    BY ArrivedPatterns
  <2>6. reader'[r].event = e /\ reader'[r].kept = Flatten(e, core.tree) /\ reader'[r].pc = "flat"
    BY <1>3
  <2>7. ASSUME Matches(p, e)
        PROVE  pick \in Fitting(p, r)' /\ Attained(p, r, pick)'
    <3>1. AbsentMet(p, reader[q].event)
      BY <2>1, <2>7 DEF Matches
    <3>2. pick \in Fitting(p, r)' /\ Reachable(p, r, pick)'
      BY <1>1, <1>4, <1>5, <2>1, <2>2, <2>4, <2>5, <2>6, <3>1, SameEvent
    <3> QED BY <2>6, <3>2 DEF Attained
  <2> QED BY <1>4, <2>3, <2>6, <2>7
<1>8. Led(r)'
  <2>1. Range(<<>>) = {}
    BY DEF Range
  <2> QED BY <1>3, <1>6, <1>7, <2>1 DEF Led
<1> QED BY <1>1, <1>3, <1>4, <1>8, LocalComplete

-----------------------------------------------------------------------------
(* The steps of AddPattern calls.                                          *)
LEMMA WriterComplete ==
  ASSUME Inductive, Sound, Complete, NEW w \in Writers, WriterStep(w)
  PROVE  Complete'
<1>1. Inductive' /\ Grows /\ Retained
  BY WriterInductive, StepRetains DEF Next
<1>2. reader' = reader /\ Arrived \subseteq Arrived'
  BY WriterMove, PatternsStay
<1>3. \A v \in Writers : Built(v)'
  BY <1>1, WriterBuilt DEF Complete
<1>4. ASSUME NEW r \in Readers
      PROVE  Led(r)'
  <2>1. KeptKnown(r) /\ Led(r)
    BY DEF Sound, Complete, Led
  <2> QED BY <1>1, <1>2, <2>1, LedKeep
<1> QED BY <1>3, <1>4 DEF Complete, Led

LEMMA InitComplete ==
  ASSUME Init
  PROVE  Complete
<1>1. \A w \in Writers : Built(w)
  BY DEF Init, IdleWriter, Built
<1>2. ASSUME NEW r \in Readers
      PROVE  Led(r)
  <2>1. reader[r] = IdleReader /\ Range(<<>>) = {}
    BY DEF Init, Range
  <2> QED BY <2>1 DEF IdleReader, Led, NoneLost, PriorKept
<1> QED BY <1>1, <1>2 DEF Complete, Led

LEMMA StepComplete ==
  ASSUME Inductive, Sound, Complete, [Next]_vars
  PROVE  Complete'
<1>1. CASE UNCHANGED vars
  <2>1. UNCHANGED <<core, fms, vms, lock, writer>> /\ reader' = reader
    BY <1>1 DEF vars
  <2> QED BY <1>1, <2>1, StutterInductive, LocalComplete
<1>2. ASSUME NEW w \in Writers, WriterStep(w)
      PROVE  Complete'
  BY <1>2, WriterComplete
<1>3. ASSUME NEW r \in Readers, ReaderStep(r)
      PROVE  Complete'
  BY <1>3, BeginMatchComplete, LaunchComplete, TryToMatchComplete, TakeExistsComplete,
     RecheckAbsentComplete, TakeAbsentComplete, LoadTransitionsComplete, LoadValuesComplete,
     TakeNextComplete, ReturnComplete DEF ReaderStep
<1> QED BY <1>1, <1>2, <1>3 DEF Next

(* Whatever the AddPattern calls around it do, a walk always has a loop    *)
(* left that will lead it to the X of every Pattern that was in before it  *)
(* began and matches: for any Patterns, Events and numbers of calls.       *)
THEOREM WalksAreComplete == Spec => []Complete
<1>1. Inductive /\ Sound /\ Complete /\ [Next]_vars => Complete'
  BY StepComplete
<1>2. Init => Complete
  BY InitComplete
<1> QED BY <1>1, <1>2, InductiveInvariant, WalksAreSound, PTL DEF Spec

(* The fields that make an event match are among those the call kept, if   *)
(* the Pattern was in before the call began.                               *)
LEMMA MatchFitting ==
  ASSUME Inductive, NEW r \in Readers, KeptKnown(r), NEW p \in reader[r].must,
         Matches(p, reader[r].event)
  PROVE  \E pick \in Fitting(p, r) : TRUE
<1>1. PICK e : e = reader[r].event
  OBVIOUS
<1>2. PICK pick \in [Wanted(p) -> DOMAIN e] :
         /\ \A k \in Wanted(p) : Fulfils(p, k, e[pick[k]])
         /\ \A k, l \in Wanted(p) :
              NoArrayTrailConflict(e[pick[k]].trail, e[pick[l]].trail)
  BY <1>1 DEF Matches, WantedMet
<1>3. Constrained(p) # {} /\ AbsentMet(p, e)
  BY <1>1 DEF Matches, WantedMet
<1>4. FakeIndex \notin DOMAIN e
  <2>1. reader[r] \in ReaderLocals
    BY DEF Inductive, TypeOK
  <2>2. e \in Events \/ e = <<>>
    BY <1>1, <2>1 DEF ReaderLocals
  <2>3. e \in Seq(Field)
    BY <2>2, PatternAssumption, EmptySeq
  <2> QED BY <2>3, LenProperties DEF FakeIndex
<1>5. ASSUME NEW k \in Wanted(p)
      PROVE  pick[k] \in Real(r)
  <2>1. pick[k] \in DOMAIN e /\ e[pick[k]].path = k
    BY <1>2, <1>5 DEF Fulfils
  <2>2. k \in PathsOf(p)
    BY <1>5 DEF Wanted, Constrained, PathsOf
  <2>3. pick[k] \in reader[r].kept
    BY <1>1, <2>1, <2>2 DEF KeptKnown, FieldAt
  <2> QED BY <1>4, <2>1, <2>3 DEF Real
<1>6. pick \in [Wanted(p) -> Real(r)]
  BY <1>2, <1>5
<1>7. pick \in Choices(p, r)
  BY <1>1, <1>2, <1>3, <1>6 DEF Choices, FieldAt, Together
<1>8. ASSUME NEW k \in Constrained(p) \ Wanted(p)
      PROVE  ~HasPath(r, k)
  <2>1. \A i \in DOMAIN e : e[i].path # k
    BY <1>3, <1>8 DEF AbsentMet
  <2>2. k # Nil
    BY <1>8, PatternAssumption DEF Constrained, Nil
  <2>3. \A i \in reader[r].kept : i = FakeIndex \/ i \in DOMAIN e
    BY <1>1 DEF KeptKnown, Real
  <2> QED BY <1>1, <2>1, <2>2, <2>3 DEF HasPath, PathAt
<1> QED BY <1>7, <1>8 DEF Fitting

(* A match call reports every Pattern that was in before it began and      *)
(* matches, however many AddPattern calls rebuild the automaton under it.  *)
THEOREM NoneIsMissed == Spec => []NoneMissed
<1>1. ASSUME Inductive, Sound, Complete
      PROVE  NoneMissed
  <2> SUFFICES ASSUME NEW r \in Readers, reader[r].pc = "done",
                      NEW p \in reader[r].must, Matches(p, reader[r].event)
               PROVE  p.x \in reader[r].found
    BY DEF NoneMissed
  <2>1. KeptKnown(r) /\ NoneLost(r)
    BY <1>1 DEF Sound, Complete
  <2>2. PICK pick \in Fitting(p, r) : TRUE
    BY <1>1, <2>1, MatchFitting
  <2> QED BY <2>1, <2>2 DEF NoneLost, Attained
<1> QED BY <1>1, InductiveInvariant, WalksAreSound, WalksAreComplete, PTL

(* Once a call has reported a Pattern that matches, every later call for   *)
(* the same Event reports it, also in the middle of an AddPattern.         *)
THEOREM NoneIsTakenBack == Spec => []NoSecondThoughts
<1>1. ASSUME Inductive, Complete
      PROVE  NoSecondThoughts
  <2> SUFFICES ASSUME NEW r \in Readers, reader[r].pc = "done", NEW x \in reader[r].prior,
                      \A p \in Live : p.x = x => Matches(p, reader[r].event)
               PROVE  x \in reader[r].found
    BY DEF NoSecondThoughts
  <2>1. PICK p \in Arrived : /\ p.x = x
                             /\ Matches(p, reader[r].event) =>
                                   \E pick \in Fitting(p, r) : Attained(p, r, pick)
    BY <1>1 DEF Complete, PriorKept
  <2>2. PICK pick \in Fitting(p, r) : Attained(p, r, pick)
    BY <2>1, ArrivedLive
  <2> QED BY <2>1, <2>2 DEF Attained
<1> QED BY <1>1, InductiveInvariant, WalksAreComplete, PTL

-----------------------------------------------------------------------------
(* Fields chosen for what a Pattern wants are such fields of the event.    *)
LEMMA ChoicesMeet ==
  ASSUME NEW r \in Readers, KeptKnown(r), NEW p, NEW pick \in Choices(p, r)
  PROVE  WantedMet(p, reader[r].event)
<1>1. PICK e : e = reader[r].event
  OBVIOUS
<1>2. pick \in [Wanted(p) -> DOMAIN e] /\ Constrained(p) # {}
  BY <1>1 DEF Choices, KeptKnown
<1>3. /\ \A k \in Wanted(p) : Fulfils(p, k, e[pick[k]])
      /\ \A k, l \in Wanted(p) : NoArrayTrailConflict(e[pick[k]].trail, e[pick[l]].trail)
  BY <1>1 DEF Choices, Together, FieldAt
<1> QED BY <1>1, <1>2, <1>3 DEF WantedMet

-----------------------------------------------------------------------------
(* CoreMatcher implements PatternStore.  What its state shows of the state *)
(* of a PatternStore.                                                      *)
Adds == [w \in Writers |-> AddState[writer[w].pc]]

Adding == [w \in Writers |-> writer[w].pattern]

Calls ==
    [r \in Readers |->
        [state |-> CallState[reader[r].pc], event |-> reader[r].event,
         must |-> reader[r].must,
         result |-> IF reader[r].pc = "done" THEN reader[r].found ELSE {}]]

LEMMA ShownStates ==
  /\ AddState["idle"] = "idle" /\ AddState["failed"] = "failed" /\ AddState["done"] = "added"
  /\ \A pc \in {"build", "values", "ends", "stored"} : AddState[pc] = "adding"
  /\ CallState["idle"] = "idle" /\ CallState["done"] = "returned"
  /\ CallState["flat"] = "matching" /\ CallState["match"] = "matching"
BY DEF AddState, CallState

LEMMA AddsChange ==
  ASSUME NEW w \in Writers, \A v \in Writers \ {w} : writer'[v] = writer[v],
         NEW s, s = AddState[writer'[w].pc]
  PROVE  Adds' = [Adds EXCEPT ![w] = s]
BY DEF Adds

LEMMA CallsChange ==
  ASSUME NEW r \in Readers, \A q \in Readers \ {r} : reader'[q] = reader[q],
         NEW c, c = [state |-> CallState[reader'[r].pc], event |-> reader'[r].event,
                     must |-> reader'[r].must,
                     result |-> IF reader'[r].pc = "done" THEN reader'[r].found ELSE {}]
  PROVE  Calls' = [Calls EXCEPT ![r] = c]
BY DEF Calls

(* To match an Event means the same to both.                               *)
LEMMA SameMatches ==
  ASSUME NEW p, NEW e
  PROVE  /\ Store!Matches(p, e) <=> Matches(p, e)
         /\ Store!WantedMet(p, e) <=> WantedMet(p, e)
         /\ Store!AbsentMet(p, e) <=> AbsentMet(p, e)
BY DEF Store!Matches, Store!WantedMet, Store!AbsentMet, Store!Constrained, Store!Wanted,
   Store!Fulfils, Store!PValsOf, Store!NoArrayTrailConflict, Matches, WantedMet, AbsentMet,
   Constrained, Wanted, Fulfils, PValsOf, NoArrayTrailConflict

LEMMA StoreInit ==
  ASSUME Init
  PROVE  Store!SInit
<1>1. Adds = [w \in Writers |-> "idle"] /\ Adding = [w \in Writers |-> {}]
  BY DEF Init, IdleWriter, Adds, Adding, AddState
<1>2. Calls = [r \in Readers |-> [state |-> "idle", event |-> <<>>, must |-> {}, result |-> {}]]
  BY DEF Init, IdleReader, Calls, CallState
<1> QED BY <1>1, <1>2 DEF Store!SInit, Adds, Adding, Calls

(* An AddPattern call begins, ends or fails; its other steps show nothing. *)
LEMMA WriterStores ==
  ASSUME Inductive, NEW w \in Writers, WriterStep(w)
  PROVE  Store!SNext \/ UNCHANGED Store!svars
<1>1. reader' = reader /\ \A v \in Writers \ {w} : writer'[v] = writer[v]
  BY WriterMove
<1>2. Calls' = Calls
  BY <1>1 DEF Calls
<1>3. CASE writer[w].pc = "idle"
  <2>1. writer'[w].pc \in {"build", "ends"} /\ \E p \in Patterns : writer'[w].pattern = {p}
    BY <1>3, WriterMove
  <2>2. PICK p \in Patterns : writer'[w].pattern = {p}
    BY <2>1
  <2>3. Adds[w] = "idle" /\ Adds' = [Adds EXCEPT ![w] = "adding"]
    <3>1. Adds[w] = "idle" /\ AddState[writer'[w].pc] = "adding"
      BY <1>3, <2>1, ShownStates DEF Adds
    <3> QED BY <1>1, <3>1, AddsChange
  <2>4. Adding' = [Adding EXCEPT ![w] = {p}]
    BY <1>1, <2>2 DEF Adding
  <2>5. Store!BeginAdd(w)
    BY <1>2, <2>3, <2>4 DEF Store!BeginAdd, Adds, Adding, Calls
  <2> QED BY <2>5 DEF Store!SNext
<1>4. CASE writer[w].pc # "idle"
  <2>1. /\ writer'[w].pattern = writer[w].pattern
        /\ \/ /\ writer[w].pc \in {"build", "values", "ends"}
              /\ writer'[w].pc \in {"build", "values", "ends", "stored"}
           \/ writer[w].pc = "values" /\ writer'[w].pc = "failed"
           \/ writer[w].pc = "stored" /\ writer'[w].pc = "done"
    BY <1>4, WriterMove
  <2>2. Adding' = Adding
    BY <1>1, <2>1 DEF Adding
  <2>3. CASE /\ writer[w].pc \in {"build", "values", "ends"}
             /\ writer'[w].pc \in {"build", "values", "ends", "stored"}
    <3>1. Adds' = Adds
      BY <1>1, <2>3 DEF Adds, AddState
    <3> QED BY <1>2, <2>2, <3>1 DEF Store!svars, Adds, Adding, Calls
  <2>4. CASE writer[w].pc = "values" /\ writer'[w].pc = "failed"
    <3>1. Adds[w] = "adding" /\ Adds' = [Adds EXCEPT ![w] = "failed"]
      <4>1. Adds[w] = "adding" /\ AddState[writer'[w].pc] = "failed"
        BY <2>4, ShownStates DEF Adds
      <4> QED BY <1>1, <4>1, AddsChange
    <3>2. Store!FailAdd(w)
      BY <1>2, <2>2, <3>1 DEF Store!FailAdd, Adds, Adding, Calls
    <3> QED BY <3>2 DEF Store!SNext
  <2>5. CASE writer[w].pc = "stored" /\ writer'[w].pc = "done"
    <3>1. Adds[w] = "adding" /\ Adds' = [Adds EXCEPT ![w] = "added"]
      <4>1. Adds[w] = "adding" /\ AddState[writer'[w].pc] = "added"
        BY <2>5, ShownStates DEF Adds
      <4> QED BY <1>1, <4>1, AddsChange
    <3>2. Store!EndAdd(w)
      BY <1>2, <2>2, <3>1 DEF Store!EndAdd, Adds, Adding, Calls
    <3> QED BY <3>2 DEF Store!SNext
  <2> QED BY <2>1, <2>3, <2>4, <2>5
<1> QED BY <1>3, <1>4

(* A match call begins with the Patterns that are in.                      *)
LEMMA BeginMatchStores ==
  ASSUME Inductive, NEW r \in Readers, BeginMatch(r)
  PROVE  Store!SNext
<1>1. PICK e \in Events :
         /\ reader' = [reader EXCEPT ![r] =
              [IdleReader EXCEPT !.pc = "flat", !.event = e,
                                 !.kept = Flatten(e, core.tree), !.must = Committed,
                                 !.prior = ReportedFor(e)]]
         /\ UNCHANGED <<core, fms, vms, lock, writer>> /\ reader[r].pc = "idle"
  BY DEF BeginMatch
<1>2. reader \in [Readers -> ReaderLocals]
  BY DEF Inductive, TypeOK
<1>3. /\ \A q \in Readers \ {r} : reader'[q] = reader[q]
      /\ reader'[r].pc = "flat" /\ reader'[r].event = e /\ reader'[r].must = Committed
  BY <1>1, <1>2 DEF IdleReader
<1>4. Committed = Store!Holding({"added"})
  <2>1. \A w \in Writers : writer[w].pc = "done" <=> Adds[w] \in {"added"}
    BY DEF Inductive, TypeOK, WriterLocals, Adds, AddState
  <2>2. {w \in Writers : writer[w].pc = "done"} = {w \in Writers : Adds[w] \in {"added"}}
    BY <2>1
  <2> QED BY <2>2 DEF Committed, Store!Holding, Adds
<1>5. PICK call : call = [state |-> "matching", event |-> e,
                          must |-> Store!Holding({"added"}), result |-> {}]
  OBVIOUS
<1>6. Calls[r].state = "idle" /\ Calls' = [Calls EXCEPT ![r] = call]
  <2>1. Calls[r].state = "idle" /\ CallState[reader'[r].pc] = "matching"
    BY <1>1, <1>3, ShownStates DEF Calls
  <2>2. call = [state |-> CallState[reader'[r].pc], event |-> reader'[r].event,
                must |-> reader'[r].must,
                result |-> IF reader'[r].pc = "done" THEN reader'[r].found ELSE {}]
    BY <1>3, <1>4, <1>5, <2>1
  <2> QED BY <1>3, <2>1, <2>2, CallsChange
<1>7. Adds' = Adds /\ Adding' = Adding
  BY <1>1 DEF Adds, Adding
<1>8. Store!BeginMatch(r)
  BY <1>5, <1>6, <1>7 DEF Store!BeginMatch, Adds, Adding, Calls
<1> QED BY <1>8 DEF Store!SNext

(* It returns what it must, and nothing but what it may.                   *)
LEMMA ReturnStores ==
  ASSUME Inductive, Sound, Complete, NEW r \in Readers, Return(r)
  PROVE  Store!SNext
<1>1. PICK me, call : me = reader[r] /\ call = Calls[r]
  OBVIOUS
<1>2. reader \in [Readers -> ReaderLocals] /\ me \in ReaderLocals
  BY <1>1 DEF Inductive, TypeOK
<1>3. /\ UNCHANGED <<core, fms, vms, lock, writer>>
      /\ \A q \in Readers \ {r} : reader'[q] = reader[q]
      /\ reader'[r].pc = "done" /\ reader'[r].found = me.found
      /\ reader'[r].event = me.event /\ reader'[r].must = me.must
      /\ me.pc = "match" /\ me.agenda = <<>>
  BY <1>1, <1>2 DEF Return, ReaderLocals
<1>4. call.state = "matching" /\ call.event = me.event /\ call.must = me.must
  BY <1>1, <1>3 DEF Calls, CallState
<1>5. me.found \in SUBSET Store!Allowed(call)
  <2> SUFFICES ASSUME NEW x \in me.found
               PROVE  x \in Store!Allowed(call)
    OBVIOUS
  <2>1. PICK p \in Arrived : /\ p.x = x
                             /\ p \in me.must => AbsentMet(p, me.event)
                             /\ \E pick \in Choices(p, r) : Reachable(p, r, pick)
    BY <1>1 DEF Sound, FoundFits
  <2>2. WantedMet(p, me.event)
    BY <1>1, <2>1, ChoicesMeet DEF Sound
  <2>3. p \in Store!Holding({"adding", "added"})
    <3>1. PICK w \in Writers : /\ writer[w].pc \in {"ends", "stored", "done"}
                               /\ p \in writer[w].pattern
      BY <2>1 DEF Arrived
    <3>2. AddState[writer[w].pc] \in {"adding", "added"}
      BY <3>1 DEF AddState
    <3> QED BY <3>1, <3>2 DEF Store!Holding
  <2> QED BY <1>4, <2>1, <2>2, <2>3, SameMatches DEF Store!Allowed
<1>6. Store!Required(call) \subseteq me.found
  <2> SUFFICES ASSUME NEW p \in me.must, Matches(p, me.event)
               PROVE  p.x \in me.found
    BY <1>4, SameMatches DEF Store!Required
  <2>1. KeptKnown(r) /\ NoneLost(r)
    BY DEF Sound, Complete
  <2>2. PICK pick \in Fitting(p, r) : TRUE
    BY <1>1, <2>1, MatchFitting
  <2>3. Range(<<>>) = {}
    BY DEF Range
  <2> QED BY <1>1, <1>3, <2>1, <2>2, <2>3 DEF NoneLost, Attained, Followed
<1>7. Calls' = [Calls EXCEPT ![r].state = "returned", ![r].result = me.found]
  <2>1. PICK c : c = [state |-> "returned", event |-> me.event, must |-> me.must,
                      result |-> me.found]
    OBVIOUS
  <2>2. c = [state |-> CallState[reader'[r].pc], event |-> reader'[r].event,
             must |-> reader'[r].must,
             result |-> IF reader'[r].pc = "done" THEN reader'[r].found ELSE {}]
    BY <1>3, <2>1, ShownStates
  <2>3. Calls' = [Calls EXCEPT ![r] = c]
    BY <1>3, <2>2, CallsChange
  <2>4. Calls[r] = [state |-> "matching", event |-> me.event, must |-> me.must, result |-> {}]
    BY <1>1, <1>3, ShownStates DEF Calls
  <2>5. [Calls EXCEPT ![r] = c] = [Calls EXCEPT ![r].state = "returned", ![r].result = me.found]
    BY <2>1, <2>4 DEF Calls
  <2> QED BY <2>3, <2>5
<1>8. Adds' = Adds /\ Adding' = Adding
  BY <1>3 DEF Adds, Adding
<1>9. Store!EndMatch(r)
  BY <1>1, <1>4, <1>5, <1>6, <1>7, <1>8 DEF Store!EndMatch, Adds, Adding, Calls
<1> QED BY <1>9 DEF Store!SNext

(* What goes on inside a match call shows nothing.                         *)
LEMMA InsideCallStores ==
  ASSUME Inductive, NEW r \in Readers,
         UNCHANGED <<core, fms, vms, lock, writer>>,
         \A q \in Readers \ {r} : reader'[q] = reader[q],
         reader[r].pc \in {"flat", "match"}, reader'[r].pc = "match",
         reader'[r].event = reader[r].event, reader'[r].must = reader[r].must
  PROVE  UNCHANGED Store!svars
<1>1. PICK c : c = [state |-> "matching", event |-> reader[r].event,
                    must |-> reader[r].must, result |-> {}]
  OBVIOUS
<1>2. c = [state |-> CallState[reader'[r].pc], event |-> reader'[r].event,
           must |-> reader'[r].must,
           result |-> IF reader'[r].pc = "done" THEN reader'[r].found ELSE {}]
  BY <1>1, ShownStates
<1>3. Calls' = [Calls EXCEPT ![r] = c]
  BY <1>2, CallsChange
<1>4. Calls[r] = c
  <2>1. CallState[reader[r].pc] = "matching" /\ reader[r].pc # "done"
    BY ShownStates
  <2> QED BY <1>1, <2>1 DEF Calls
<1>5. Calls' = Calls
  BY <1>3, <1>4 DEF Calls
<1>6. Adds' = Adds /\ Adding' = Adding
  BY DEF Adds, Adding
<1> QED BY <1>5, <1>6 DEF Store!svars, Adds, Adding, Calls

LEMMA ContinueStores ==
  ASSUME Inductive, NEW r \in Readers, NEW op, AtTop(r, op),
         NEW more, NEW xs, Continue(r, more, xs)
  PROVE  UNCHANGED Store!svars
<1>1. reader \in [Readers -> ReaderLocals] /\ reader[r].pc = "match"
  BY DEF Inductive, TypeOK, AtTop
<1>2. /\ UNCHANGED <<core, fms, vms, lock, writer>>
      /\ \A q \in Readers \ {r} : reader'[q] = reader[q]
      /\ reader'[r].pc = "match" /\ reader'[r].event = reader[r].event
      /\ reader'[r].must = reader[r].must
  BY <1>1 DEF Continue, ReaderLocals
<1> QED BY <1>1, <1>2, InsideCallStores

LEMMA ReaderStores ==
  ASSUME Inductive, Sound, Complete, NEW r \in Readers, ReaderStep(r)
  PROVE  Store!SNext \/ UNCHANGED Store!svars
<1>1. CASE Launch(r)
  <2>1. reader \in [Readers -> ReaderLocals] /\ reader[r].pc = "flat"
    BY <1>1 DEF Inductive, TypeOK, Launch
  <2>2. /\ UNCHANGED <<core, fms, vms, lock, writer>>
        /\ \A q \in Readers \ {r} : reader'[q] = reader[q]
        /\ reader'[r].pc = "match" /\ reader'[r].event = reader[r].event
        /\ reader'[r].must = reader[r].must
    BY <1>1, <2>1 DEF Launch, ReaderLocals
  <2> QED BY <2>1, <2>2, InsideCallStores
<1>2. CASE TryToMatch(r)
  BY <1>2, ContinueStores DEF TryToMatch
<1>3. CASE TakeExists(r)
  BY <1>3, ContinueStores DEF TakeExists
<1>4. CASE RecheckAbsent(r)
  BY <1>4, ContinueStores DEF RecheckAbsent
<1>5. CASE TakeAbsent(r)
  BY <1>5, ContinueStores DEF TakeAbsent
<1>6. CASE LoadTransitions(r)
  BY <1>6, ContinueStores DEF LoadTransitions
<1>7. CASE LoadValues(r)
  BY <1>7, ContinueStores DEF LoadValues
<1>8. CASE TakeNext(r)
  BY <1>8, ContinueStores DEF TakeNext
<1> QED
  BY <1>1, <1>2, <1>3, <1>4, <1>5, <1>6, <1>7, <1>8, BeginMatchStores, ReturnStores
     DEF ReaderStep

(* Every step of the code is a step of PatternStore or shows nothing.      *)
LEMMA StepStores ==
  ASSUME Inductive, Sound, Complete, [Next]_vars
  PROVE  [Store!SNext]_(Store!svars)
<1>1. CASE UNCHANGED vars
  BY <1>1 DEF vars, Store!svars
<1>2. CASE Next
  BY <1>2, WriterStores, ReaderStores DEF Next
<1> QED BY <1>1, <1>2

(* The matcher keeps the promise of PatternStore, for any Patterns, any    *)
(* Events, and any number of AddPattern and match calls running together:  *)
(* the steps inside the calls cannot be told from the outside.             *)
THEOREM PromiseIsKept == Spec => ImplementsStore
<1>1. Init => Store!SInit
  BY StoreInit
<1>2. Inductive /\ Sound /\ Complete /\ [Next]_vars => [Store!SNext]_(Store!svars)
  BY StepStores
<1> QED
  BY <1>1, <1>2, InductiveInvariant, WalksAreSound, WalksAreComplete, PTL
     DEF Spec, ImplementsStore, Store!StoreSpec
=============================================================================
