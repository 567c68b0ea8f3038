------------------------ MODULE CoreMatcherSoundProofs ------------------------
(***************************************************************************)
(* Sound is an invariant of CoreMatcher for all constants: whatever a walk *)
(* finds while AddPattern calls change the automaton is the X of a Pattern *)
(* that wants what the event has, with fields that fit together.           *)
(***************************************************************************)
EXTENDS CoreMatcherKeepProofs

-----------------------------------------------------------------------------
(* A step of the walk replaces the innermost loop.                         *)
LEMMA WalkStep ==
  ASSUME Inductive, NEW r \in Readers, NEW op, AtTop(r, op),
         NEW more, NEW xs, IsSeq(more), Continue(r, more, xs)
  PROVE  /\ UNCHANGED <<core, fms, vms, lock, writer>>
         /\ \A q \in Readers \ {r} : reader'[q] = reader[q]
         /\ reader'[r].pc = "match" /\ reader[r].pc = "match"
         /\ reader'[r].event = reader[r].event /\ reader'[r].kept = reader[r].kept
         /\ reader'[r].must = reader[r].must /\ reader'[r].prior = reader[r].prior
         /\ reader'[r].found = reader[r].found \cup xs
         /\ Range(reader'[r].agenda) = Range(more) \cup Range(Tail(reader[r].agenda))
         /\ Range(reader[r].agenda) = {Top(r)} \cup Range(Tail(reader[r].agenda))
<1>1. PICK me, a : me = reader[r] /\ a = reader[r].agenda
  OBVIOUS
<1>2. /\ me \in ReaderLocals /\ reader \in [Readers -> ReaderLocals]
      /\ a \in Seq(Frames(me.kept)) /\ a # <<>> /\ me.pc = "match" /\ Top(r) = Head(a)
  BY <1>1 DEF Inductive, TypeOK, AgendaOK, AtTop, Top
<1>3. /\ UNCHANGED <<core, fms, vms, lock, writer>>
      /\ \A q \in Readers \ {r} : reader'[q] = reader[q]
      /\ reader'[r] = [pc |-> me.pc, event |-> me.event, kept |-> me.kept,
                       agenda |-> more \o Tail(a), found |-> me.found \cup xs,
                       must |-> me.must, prior |-> me.prior]
  BY <1>1, <1>2 DEF Continue, ReaderLocals
<1>4. Range(a) = {Head(a)} \cup Range(Tail(a)) /\ IsSeq(Tail(a))
  BY <1>2, TailRange DEF IsSeq
<1>5. Range(more \o Tail(a)) = Range(more) \cup Range(Tail(a))
  BY <1>4, ConcatRange
<1> QED BY <1>1, <1>2, <1>3, <1>4, <1>5

(* A step that leaves the automaton alone.                                 *)
LEMMA SameRetained ==
  ASSUME Inductive, UNCHANGED <<core, fms, vms>>
  PROVE  Grows /\ Retained
<1>1. FmsKept /\ VmsKept /\ core.tree \subseteq core'.tree
  BY SameFms, SameVms DEF Inductive, TypeOK, HeapOK
<1>2. Retained
  BY <1>1, ZenonT(60) DEF FmsKept, VmsKept, Retained
<1>3. Grows
  BY LenType DEF Grows, Inductive, TypeOK
<1> QED BY <1>2, <1>3

(* What a step of a match call has to show.                                *)
LEMMA LocalSound ==
  ASSUME Inductive, Inductive', Sound, UNCHANGED <<core, fms, vms, lock, writer>>,
         \A q \in Readers : \/ reader'[q] = reader[q]
                            \/ KeptKnown(q)' /\ AgendaFits(q)' /\ FoundFits(q)'
  PROVE  Sound'
<1>1. Arrived' = Arrived /\ Committed' = Committed
  BY DEF Arrived, Committed
<1>2. HeapOrdered' /\ \A w \in Writers : TreesKnow(w)'
  <2>1. HeapOrdered /\ \A w \in Writers : TreesKnow(w) /\ Pat(w)' = Pat(w)
    BY DEF Sound, Pat
  <2> QED BY <2>1, OrderedSame DEF TreesKnow
<1>3. ASSUME NEW q \in Readers
      PROVE  KeptKnown(q)' /\ AgendaFits(q)' /\ FoundFits(q)'
  <2>1. CASE reader'[q] = reader[q]
    BY <1>1, <2>1, SameRetained, CallKeep DEF Sound
  <2> QED BY <2>1
<1> QED BY <1>2, <1>3 DEF Sound

(* A step that puts loops that fit on the agenda, and reports what fits.   *)
LEMMA WalkSound ==
  ASSUME Inductive, Sound, NEW r \in Readers, NEW op, AtTop(r, op), ReaderStep(r),
         NEW more, NEW xs, IsSeq(more), Continue(r, more, xs),
         \A f \in Range(more) : FrameFits(f, r), \A x \in xs : Fit(x, r)
  PROVE  Sound'
<1>1. /\ UNCHANGED <<core, fms, vms, lock, writer>>
      /\ \A q \in Readers \ {r} : reader'[q] = reader[q]
      /\ reader'[r].pc = "match" /\ reader[r].pc = "match"
      /\ reader'[r].event = reader[r].event /\ reader'[r].kept = reader[r].kept
      /\ reader'[r].must = reader[r].must
      /\ reader'[r].found = reader[r].found \cup xs
      /\ Range(reader'[r].agenda) \subseteq Range(more) \cup Range(reader[r].agenda)
  BY WalkStep
<1>2. Inductive' /\ Grows /\ Retained
  BY <1>1, ReaderInductive, SameRetained
<1>3. Arrived' = Arrived /\ Committed' = Committed
  BY <1>1 DEF Arrived, Committed
<1>4. KeptKnown(r) /\ KeptKnown(r)'
  BY <1>1, <1>3, KnownKeep DEF Sound
<1>5. AgendaFits(r)'
  <2> SUFFICES ASSUME NEW f \in Range(reader'[r].agenda)
               PROVE  FrameFits(f, r)'
    BY DEF AgendaFits
  <2>1. FrameFits(f, r)
    BY <1>1 DEF Sound, AgendaFits
  <2>2. reader'[r].agenda \in Seq(Frames(reader[r].kept))
    BY <1>1, <1>2 DEF Inductive, TypeOK, AgendaOK, Frames
  <2>3. f \in Frames(reader[r].kept)
    BY <2>2 DEF Range
  <2> QED BY <1>1, <1>2, <1>4, <2>1, <2>3, FrameFitsKeep
<1>6. FoundFits(r)'
  <2>1. \A x \in reader'[r].found : Fit(x, r)
    BY <1>1 DEF Sound, FoundFits, Fit
  <2>2. \A x \in reader'[r].found : Fit(x, r)'
    BY <1>1, <1>2, <1>3, <1>4, <2>1, FitKeep
  <2> QED BY <2>2 DEF FoundFits, Fit
<1> QED BY <1>1, <1>2, <1>4, <1>5, <1>6, LocalSound

-----------------------------------------------------------------------------
(* One more transition: the way to its matcher leads on.                   *)
LEMMA LedToExtend ==
  ASSUME Inductive, NEW m \in 1..Len(fms), NEW t \in 1..Len(fms), NEW k \in Paths,
         NEW c \in PVals \cup {"exists", "absent"}, FreeFrom(fms[m].via, k),
         fms[t].via = [fms[m].via EXCEPT ![k] = c],
         NEW on, NEW more, \A l \in Paths \ {k} : more[l] = on[l],
         LeadsOn(m, k, ShapeOf(fms[t].via)[k], more[k], {t}),
         NEW S \in SUBSET (1..Len(fms)), LedTo(m, on, S)
  PROVE  LedTo(t, more, S \cup {t})
<1>1. PICK sh, new : sh = ShapeOf(fms[m].via) /\ new = ShapeOf(fms[t].via)
  OBVIOUS
<1>2. fms[m].via \in Via /\ fms[t].via \in Via
  BY Visited
<1>3. /\ \A l \in Paths \ {k} : fms[t].via[l] = fms[m].via[l]
      /\ fms[t].via[k] = c
  BY <1>2 DEF Via
<1>4. \A l \in Paths : /\ sh[l] # "free" <=> fms[m].via[l] # "free"
                       /\ new[l] # "free" <=> fms[t].via[l] # "free"
  BY <1>1, LabelAssumption DEF ShapeOf
<1>5. \A l \in Paths \ {k} : new[l] = sh[l]
  BY <1>1, <1>3 DEF ShapeOf
<1>6. c # "free"
  BY LabelAssumption
<1>7. ASSUME NEW n \in S \ {m}
      PROVE  Left(new, fms[n].via) # {} /\ Leads(n, new, more, S \cup {t})
  <2>1. PICK a \in Left(sh, fms[n].via) : TRUE
    BY <1>1 DEF LedTo
  <2>2. a \in Paths /\ a < k /\ fms[n].via[a] = "free" /\ sh[a] # "free"
    BY <2>1, <1>4, PatternAssumption DEF Left, FreeFrom
  <2>3. a \in Left(new, fms[n].via)
    <3>1. a # k
      BY <2>2, PatternAssumption
    <3> QED BY <2>2, <3>1, <1>5 DEF Left
  <2>4. ASSUME NEW l \in Paths, Least(l, Left(new, fms[n].via))
        PROVE  LeadsOn(n, l, new[l], more[l], S \cup {t})
    <3>1. l <= a
      BY <2>3, <2>4 DEF Least
    <3>2. l # k
      BY <2>2, <3>1, PatternAssumption
    <3>3. Left(sh, fms[n].via) \subseteq Left(new, fms[n].via)
      <4>1. ASSUME NEW b \in Left(sh, fms[n].via)
            PROVE  b # k
        BY <1>4, PatternAssumption DEF Left, FreeFrom
      <4> QED BY <4>1, <1>5 DEF Left
    <3>4. l \in Left(sh, fms[n].via)
      BY <2>4, <3>2, <1>5 DEF Least, Left
    <3>5. Least(l, Left(sh, fms[n].via))
      BY <2>4, <3>3, <3>4 DEF Least
    <3>6. LeadsOn(n, l, sh[l], on[l], S)
      BY <1>1, <3>5 DEF LedTo, Leads
    <3>7. LeadsOn(n, l, new[l], more[l], S)
      BY <1>5, <3>2, <3>6
    <3> QED BY <3>7 DEF LeadsOn
  <2> QED BY <2>3, <2>4 DEF Leads
<1>8. Left(new, fms[m].via) = {k}
  <2>1. k \in Left(new, fms[m].via)
    BY <1>3, <1>4, <1>6, PatternAssumption DEF Left, FreeFrom
  <2>2. \A l \in Paths \ {k} : l \notin Left(new, fms[m].via)
    BY <1>3, <1>4 DEF Left
  <2> QED BY <2>1, <2>2 DEF Left
<1>9. Leads(m, new, more, S \cup {t})
  <2> SUFFICES ASSUME NEW l \in Paths, Least(l, {k})
               PROVE  LeadsOn(m, l, new[l], more[l], S \cup {t})
    BY <1>8 DEF Leads
  <2>1. l = k
    BY DEF Least
  <2>2. LeadsOn(m, k, new[k], more[k], {t})
    BY <1>1
  <2> QED BY <2>1, <2>2 DEF LeadsOn
<1>10. Root \in S /\ m \in S /\ S \cup {t} \subseteq 1..Len(fms)
  BY DEF LedTo
<1>11. \A n \in (S \cup {t}) \ {t} : Left(new, fms[n].via) # {} /\ Leads(n, new, more, S \cup {t})
  BY <1>7, <1>8, <1>9
<1> QED BY <1>1, <1>10, <1>11 DEF LedTo

(* A field that may be taken is, on its path.                              *)
LEMMA TakeOne ==
  ASSUME Inductive, NEW r \in Readers, KeptKnown(r), NEW i \in Real(r),
         NEW m \in 1..Len(fms), NEW t \in 1..Len(fms), MayTake(m, r, i),
         NEW k \in Paths, k = PathAt(r, i), FreeFrom(fms[m].via, k),
         NEW c \in PVals \cup {"exists"}, fms[t].via = [fms[m].via EXCEPT ![k] = c],
         c \in PVals => FieldAt(r, i).val \in Accepts[c],
         LeadsOn(m, k, ShapeOf(fms[t].via)[k], {FieldAt(r, i).val}, {t})
  PROVE  JustTook(t, r, i)
<1>1. PICK pick \in Ways(m, r) :
        (\A l \in DOMAIN pick : l < k) => \A l \in DOMAIN pick : Together(r, pick[l], i)
  BY DEF MayTake
<1>2. PICK S \in SUBSET (1..Len(fms)) : LedTo(m, ValuesOf(r, pick), S)
  BY <1>1 DEF Ways
<1>3. PICK D, E : D = WantedBy(fms[m].via) /\ E = D \cup {k}
  OBVIOUS
<1>4. /\ pick \in [D -> Real(r)]
      /\ \A l \in D : /\ PathAt(r, pick[l]) = l
                      /\ fms[m].via[l] \in PVals => FieldAt(r, pick[l]).val \in Accepts[fms[m].via[l]]
      /\ \A a, b \in D : Together(r, pick[a], pick[b])
  BY <1>1, <1>3 DEF Ways, Picks
<1>5. \A l \in D : l \in Paths /\ l < k
  BY <1>3, PatternAssumption DEF WantedBy, FreeFrom
<1>6. \A l \in D : Together(r, pick[l], i) /\ Together(r, i, pick[l])
  BY <1>1, <1>4, <1>5, TogetherBothWays
<1>7. PICK new : new = [l \in E |-> IF l = k THEN i ELSE pick[l]]
  OBVIOUS
<1>8. /\ new \in [E -> Real(r)] /\ DOMAIN new = E /\ k \in E /\ new[k] = i
      /\ \A l \in D : l # k /\ new[l] = pick[l]
      /\ \A l \in E : l <= k
  <2>1. Paths \subseteq Nat
    BY PatternAssumption
  <2>2. k \in Nat /\ \A l \in D : l \in Nat /\ l < k
    BY <1>5, <2>1
  <2>3. k <= k /\ \A l \in D : l # k /\ l <= k
    BY <2>2
  <2> QED BY <1>3, <1>4, <1>7, <2>3
<1>9. fms[m].via \in Via
  BY Visited
<1>10. /\ \A l \in Paths \ {k} : fms[t].via[l] = fms[m].via[l]
       /\ fms[t].via[k] = c
  BY <1>9 DEF Via
<1>11. WantedBy(fms[t].via) = E
  BY <1>3, <1>5, <1>10, LabelAssumption DEF WantedBy
<1>12. new \in Picks(fms[t].via, r)
  <2>1. \A l \in E : /\ PathAt(r, new[l]) = l
                     /\ fms[t].via[l] \in PVals => FieldAt(r, new[l]).val \in Accepts[fms[t].via[l]]
    BY <1>3, <1>4, <1>5, <1>8, <1>10
  <2>2. \A a, b \in E : Together(r, new[a], new[b])
    BY <1>3, <1>4, <1>6, <1>8, TogetherBothWays
  <2> QED BY <1>8, <1>11, <2>1, <2>2 DEF Picks
<1>13. /\ \A l \in Paths \ {k} : ValuesOf(r, new)[l] = ValuesOf(r, pick)[l]
       /\ ValuesOf(r, new)[k] = {FieldAt(r, i).val}
  BY <1>3, <1>4, <1>8 DEF ValuesOf
<1>14. PICK on, more : on = ValuesOf(r, pick) /\ more = ValuesOf(r, new)
  OBVIOUS
<1>15. LedTo(t, more, S \cup {t})
  <2>1. c \in PVals \cup {"exists", "absent"} /\ LedTo(m, on, S)
    BY <1>2, <1>14
  <2>2. \A l \in Paths \ {k} : more[l] = on[l]
    BY <1>13, <1>14
  <2>3. LeadsOn(m, k, ShapeOf(fms[t].via)[k], more[k], {t})
    BY <1>13, <1>14
  <2> QED BY <2>1, <2>2, <2>3, LedToExtend
<1>16. new \in Ways(t, r)
  BY <1>12, <1>14, <1>15 DEF Ways
<1> QED BY <1>8, <1>16 DEF JustTook

(* An exists:false transition asks for no field.                           *)
LEMMA AbsentOne ==
  ASSUME Inductive, NEW r \in Readers, HeapOrdered, NEW m \in 1..Len(fms), NEW i,
         MayTake(m, r, i), NEW t \in AbsentTargets(r, fms[m])
  PROVE  MayTake(t, r, i) /\ Checked(t)
<1>1. PICK k \in Paths : fms[m].absent[k] # Nil /\ t = fms[m].absent[k]
  BY DEF AbsentTargets
<1>2. /\ t \in 1..Len(fms) /\ fms[m].via \in Via /\ FreeFrom(fms[m].via, k)
      /\ fms[t].via = [fms[m].via EXCEPT ![k] = "absent"]
  <2>1. fms[m].via \in Via /\ FmOK(fms[m]) /\ FmLabelled(fms[m])
    BY Visited
  <2>2. t \in 1..Len(fms)
    BY <1>1, <2>1 DEF FmOK, Nil
  <2>3. FreeFrom(fms[m].via, k)
    BY <1>1 DEF HeapOrdered
  <2>4. fms[t].via = [fms[m].via EXCEPT ![k] = "absent"]
    BY <1>1, <2>1 DEF FmLabelled
  <2> QED BY <2>1, <2>2, <2>3, <2>4
<1>3. /\ \A l \in Paths \ {k} : fms[t].via[l] = fms[m].via[l]
      /\ fms[t].via[k] = "absent"
  BY <1>2 DEF Via
<1>4. Checked(t)
  BY <1>3 DEF Checked
<1>5. fms[m].via[k] = "free"
  BY <1>2, PatternAssumption DEF FreeFrom
<1>6. WantedBy(fms[t].via) = WantedBy(fms[m].via) /\ k \notin WantedBy(fms[m].via)
  BY <1>3, <1>5 DEF WantedBy
<1>7. \A pick \in Picks(fms[m].via, r) : pick \in Picks(fms[t].via, r)
  <2>1. \A l \in WantedBy(fms[m].via) : fms[t].via[l] = fms[m].via[l]
    BY <1>3, <1>6 DEF WantedBy
  <2> QED BY <1>6, <2>1 DEF Picks
<1>8. ASSUME NEW on, NEW S \in SUBSET (1..Len(fms)), LedTo(m, on, S)
      PROVE  LedTo(t, on, S \cup {t})
  <2>1. ShapeOf(fms[t].via)[k] = "absent"
    BY <1>3, LabelAssumption DEF ShapeOf
  <2>2. LeadsOn(m, k, "absent", on[k], {t})
    BY <1>1 DEF LeadsOn
  <2>3. "absent" \in PVals \cup {"exists", "absent"}
    OBVIOUS
  <2>4. LeadsOn(m, k, ShapeOf(fms[t].via)[k], on[k], {t})
    BY <2>1, <2>2
  <2> QED BY <1>2, <1>8, <2>3, <2>4, LedToExtend
<1>9. \A S \in SUBSET (1..Len(fms)) : S \cup {t} \in SUBSET (1..Len(fms))
  BY <1>2
<1>10. Ways(m, r) \subseteq Ways(t, r)
  BY <1>7, <1>8, <1>9 DEF Ways
<1> QED BY <1>4, <1>10 DEF MayTake

(* A field that was taken has a path that was checked, and fits again.     *)
LEMMA TookMay ==
  ASSUME NEW r \in Readers, NEW m, NEW i, JustTook(m, r, i)
  PROVE  MayTake(m, r, i) /\ Checked(m)
<1>1. PICK pick \in Ways(m, r) :
        /\ PathAt(r, i) \in DOMAIN pick /\ pick[PathAt(r, i)] = i
        /\ \A l \in DOMAIN pick : l <= PathAt(r, i)
  BY DEF JustTook
<1>2. DOMAIN pick = WantedBy(fms[m].via)
  BY DEF Ways, Picks
<1>3. PathAt(r, i) \in Paths /\ fms[m].via[PathAt(r, i)] # "free"
  BY <1>1, <1>2 DEF WantedBy
<1>4. PathAt(r, i) \in Nat
  BY <1>3, PatternAssumption
<1>5. ~ (PathAt(r, i) < PathAt(r, i))
  BY <1>4
<1> QED BY <1>1, <1>3, <1>5 DEF MayTake, Checked

(* A later field that fits with the one just taken fits with them all,     *)
(* although the walk looks at the one just taken only.                     *)
LEMMA GoOn ==
  ASSUME Inductive, NEW r \in Readers, KeptKnown(r), NEW m, NEW i,
         JustTook(m, r, i), NEW j \in Later(r, i)
  PROVE  MayTake(m, r, j)
<1>1. PICK pick \in Ways(m, r) :
        /\ PathAt(r, i) \in DOMAIN pick /\ pick[PathAt(r, i)] = i
        /\ \A l \in DOMAIN pick : l <= PathAt(r, i)
  BY DEF JustTook
<1>2. PICK D : D = DOMAIN pick
  OBVIOUS
<1>3. /\ D \subseteq Paths /\ pick \in [D -> Real(r)]
      /\ \A l \in D : PathAt(r, pick[l]) = l
      /\ \A a, b \in D : Together(r, pick[a], pick[b])
  BY <1>2 DEF Ways, Picks, WantedBy
<1>4. Paths \subseteq Nat \ {0}
  BY PatternAssumption
<1>5. i \in Real(r) /\ PathAt(r, i) \in D /\ pick[PathAt(r, i)] = i
  BY <1>1, <1>2, <1>3
<1>6. ASSUME \A l \in D : l < PathAt(r, j), NEW l \in D
      PROVE  Together(r, pick[l], j)
  <2>1. PathAt(r, i) < PathAt(r, j) /\ PathAt(r, i) \in Nat
    BY <1>3, <1>4, <1>5, <1>6
  <2>2. j \in Real(r)
    <3>1. j # FakeIndex
      BY <2>1 DEF PathAt, Nil
    <3> QED BY <3>1 DEF Later, Real
  <2>3. Together(r, i, j)
    BY DEF Later, Together, FieldAt
  <2>4. CASE l = PathAt(r, i)
    BY <1>5, <2>3, <2>4
  <2>5. CASE l # PathAt(r, i)
    <3>1. PathAt(r, pick[l]) < PathAt(r, i)
      BY <1>1, <1>2, <1>3, <1>4, <1>5, <2>5
    <3>2. Together(r, pick[l], i)
      BY <1>3, <1>5
    <3>3. pick[l] \in Real(r)
      BY <1>3
    <3>4. PICK e, a : e = reader[r].event /\ a = pick[l]
      OBVIOUS
    <3>5. /\ e \in Events /\ a \in DOMAIN e /\ i \in DOMAIN e /\ j \in DOMAIN e
          /\ e[a].path < e[i].path /\ e[i].path < e[j].path
      BY <1>5, <2>1, <2>2, <3>1, <3>3, <3>4, RealFields DEF FieldAt
    <3>6. /\ NoArrayTrailConflict(e[a].trail, e[i].trail)
          /\ NoArrayTrailConflict(e[i].trail, e[j].trail)
      BY <2>3, <3>2, <3>4 DEF Together, FieldAt
    <3>7. NoArrayTrailConflict(e[a].trail, e[j].trail)
      BY <3>5, <3>6, TrailAssumption
    <3> QED BY <3>4, <3>7 DEF Together, FieldAt
  <2> QED BY <2>4, <2>5
<1> QED BY <1>1, <1>2, <1>6 DEF MayTake

(* What a label chosen by a Pattern says of it.                            *)
LEMMA ChosenShape ==
  ASSUME NEW p \in Patterns, NEW via \in Via, Chooses(via, p)
  PROVE  /\ ShapeOf(via) = Shape(p) /\ WantedBy(via) = Wanted(p)
         /\ \A k \in Wanted(p) : p.cond[k].kind = "vals" => via[k] \in PValsOf(p, k) \cap PVals
         /\ \A k \in Constrained(p) \ Wanted(p) : via[k] = "absent"
         /\ (\E k \in Paths : via[k] # "free") => Constrained(p) # {}
<1>1. ASSUME NEW k \in Constrained(p)
      PROVE  /\ k \in Paths /\ p.cond[k].kind \in {"exists", "absent", "vals"}
             /\ PValsOf(p, k) \subseteq PVals
  <2>1. p.cond \in [Paths -> Cond] /\ k \in Paths /\ p.cond[k].kind \in {"exists", "absent", "vals"}
    BY PatternAssumption DEF Pattern, Constrained
  <2>2. p.cond[k].vals \in Seq(PVals)
    BY <2>1 DEF Cond
  <2> QED BY <2>1, <2>2 DEF PValsOf
<1>2. ASSUME NEW k \in Paths
      PROVE  /\ k \notin Constrained(p) => via[k] = "free"
             /\ k \in Constrained(p) /\ p.cond[k].kind = "vals" => via[k] \in PValsOf(p, k)
             /\ k \in Constrained(p) /\ p.cond[k].kind # "vals" => via[k] = p.cond[k].kind
  BY DEF Chooses, ChoosesAt
<1>3. ASSUME NEW k \in Paths
      PROVE  ShapeOf(via)[k] = Shape(p)[k]
  BY <1>1, <1>2, LabelAssumption DEF ShapeOf, Shape
<1>4. ASSUME NEW k \in Paths
      PROVE  via[k] \notin {"free", "absent"} <=> k \in Wanted(p)
  BY <1>1, <1>2, LabelAssumption DEF Wanted
<1>5. ShapeOf(via) = Shape(p)
  BY <1>3 DEF ShapeOf, Shape
<1>6. WantedBy(via) = Wanted(p)
  BY <1>1, <1>4 DEF WantedBy, Wanted
<1>7. \A k \in Wanted(p) : p.cond[k].kind = "vals" => via[k] \in PValsOf(p, k) \cap PVals
  BY <1>1, <1>2 DEF Wanted
<1>8. \A k \in Constrained(p) \ Wanted(p) : via[k] = "absent"
  BY <1>1, <1>2 DEF Wanted
<1>9. (\E k \in Paths : via[k] # "free") => Constrained(p) # {}
  BY <1>2
<1> QED BY <1>5, <1>6, <1>7, <1>8, <1>9

(* What a call reports where it has come fits.                             *)
LEMMA FoundOne ==
  ASSUME Inductive, NEW r \in Readers, KeptKnown(r), NEW m \in 1..Len(fms),
         Met(fms[m].via, r), Checked(m), NEW i, MayTake(m, r, i),
         NEW x \in fms[m].matches
  PROVE  Fit(x, r)
<1>1. PICK p \in Arrived : p.x = x /\ Chooses(fms[m].via, p)
  BY DEF Inductive, EndsArrived
<1>2. p \in Patterns /\ fms[m].via \in Via
  BY ArrivedPatterns, Visited
<1>3. /\ ShapeOf(fms[m].via) = Shape(p) /\ WantedBy(fms[m].via) = Wanted(p)
      /\ \A k \in Wanted(p) : p.cond[k].kind = "vals" => fms[m].via[k] \in PValsOf(p, k) \cap PVals
      /\ \A k \in Constrained(p) \ Wanted(p) : fms[m].via[k] = "absent"
      /\ Constrained(p) # {}
  BY <1>1, <1>2, ChosenShape DEF Checked
<1>4. PICK pick \in Ways(m, r) : TRUE
  BY DEF MayTake
<1>5. /\ pick \in [Wanted(p) -> Real(r)]
      /\ \A k \in Wanted(p) :
            /\ PathAt(r, pick[k]) = k
            /\ fms[m].via[k] \in PVals => FieldAt(r, pick[k]).val \in Accepts[fms[m].via[k]]
      /\ \A k, l \in Wanted(p) : Together(r, pick[k], pick[l])
  BY <1>3, <1>4 DEF Ways, Picks
<1>6. ASSUME NEW k \in Wanted(p)
      PROVE  Fulfils(p, k, FieldAt(r, pick[k]))
  <2>1. FieldAt(r, pick[k]).path = k
    BY <1>5, RealFields
  <2> QED BY <1>3, <1>5, <2>1 DEF Fulfils
<1>7. pick \in Choices(p, r)
  BY <1>3, <1>5, <1>6 DEF Choices
<1>8. PICK S \in SUBSET (1..Len(fms)) : LedTo(m, ValuesOf(r, pick), S)
  BY <1>4 DEF Ways
<1>9. PICK sh, on : sh = Shape(p) /\ on = ValuesOf(r, pick)
  OBVIOUS
<1>10. Serves(sh, on, x, S)
  <2>1. Left(sh, fms[m].via) = {}
    <3>1. \A k \in Paths : fms[m].via[k] = "free" => sh[k] = "free"
      BY <1>3, <1>9, LabelAssumption DEF ShapeOf
    <3> QED BY <3>1 DEF Left
  <2>2. Served(m, sh, on, x, S)
    BY <2>1 DEF Served, Leads, Least
  <2>3. \A n \in S \ {m} : Left(sh, fms[n].via) # {} /\ Leads(n, sh, on, S)
    BY <1>3, <1>8, <1>9 DEF LedTo
  <2>4. \A n \in S \ {m} : Served(n, sh, on, x, S)
    BY <2>3 DEF Served
  <2>5. Root \in S /\ S \subseteq 1..Len(fms)
    BY <1>8 DEF LedTo
  <2> QED BY <2>2, <2>4, <2>5 DEF Serves
<1>11. Reachable(p, r, pick)
  BY <1>1, <1>9, <1>10 DEF Reachable
<1>12. p \in reader[r].must => AbsentMet(p, reader[r].event)
  <2> SUFFICES ASSUME p \in reader[r].must, NEW k \in Constrained(p) \ Wanted(p),
                      NEW i2 \in DOMAIN reader[r].event, reader[r].event[i2].path = k
               PROVE  FALSE
    BY DEF AbsentMet
  <2>1. k \in Paths /\ k \in PathsOf(p)
    BY DEF Constrained, PathsOf
  <2>2. i2 \in reader[r].kept
    BY <2>1 DEF KeptKnown, FieldAt
  <2>3. i2 # FakeIndex
    <3>1. reader[r].event \in Seq(Field)
      <4>1. reader[r].event \in Events \cup {<<>>}
        BY DEF Inductive, TypeOK, ReaderLocals
      <4>2. reader[r].event # <<>>
        OBVIOUS
      <4> QED BY <4>1, <4>2, PatternAssumption
    <3> QED BY <3>1, LenProperties DEF FakeIndex
  <2>4. HasPath(r, k)
    BY <2>2, <2>3 DEF HasPath, PathAt
  <2>5. ~HasPath(r, k)
    BY <1>3, <2>1 DEF Met
  <2> QED BY <2>4, <2>5
<1> QED BY <1>1, <1>7, <1>11, <1>12 DEF Fit

-----------------------------------------------------------------------------
(* Agendas of loops that fit.                                              *)
Fits(loops, r) == IsSeq(loops) /\ \A f \in Range(loops) : FrameFits(f, r)

LEMMA FitsConcat ==
  ASSUME NEW r, NEW a, NEW b, Fits(a, r), Fits(b, r)
  PROVE  Fits(a \o b, r)
<1>1. IsSeq(a \o b) /\ Range(a \o b) = Range(a) \cup Range(b)
  BY ConcatRange DEF Fits
<1> QED BY <1>1 DEF Fits

LEMMA FitsLoop ==
  ASSUME NEW r, NEW op, NEW at, NEW to, FrameFits([op |-> op, at |-> at, to |-> to], r)
  PROVE  Fits(Loop(op, at, to), r)
BY LoopRange DEF Fits

(* What a loop has to have, by what it is about to do.                     *)
LEMMA FitsMay ==
  ASSUME NEW r, NEW op \in {"try", "recheck", "trans", "absent"}, NEW at, NEW to,
         \A m \in to, i \in at : MayTake(m, r, i),
         op = "absent" => \A m \in to : Checked(m)
  PROVE  Fits(Loop(op, at, to), r)
<1>1. FrameFits([op |-> op, at |-> at, to |-> to], r)
  BY DEF FrameFits
<1> QED BY <1>1, FitsLoop

LEMMA FitsTook ==
  ASSUME NEW r, NEW op \in {"exists", "next"}, NEW at, NEW to,
         \A m \in to, i \in at : JustTook(m, r, i)
  PROVE  Fits(Loop(op, at, to), r)
<1>1. FrameFits([op |-> op, at |-> at, to |-> to], r)
  BY DEF FrameFits
<1> QED BY <1>1, FitsLoop

(* The innermost loop fits.                                                *)
LEMMA TopFits ==
  ASSUME Inductive, Sound, NEW r \in Readers, NEW op, AtTop(r, op),
         NEW m \in Top(r).to, NEW i \in Top(r).at
  PROVE  /\ KeptKnown(r) /\ HeapOrdered /\ i \in reader[r].kept
         /\ op \in {"try", "recheck", "trans", "absent"} => MayTake(m, r, i)
         /\ op \in {"exists", "next"} => JustTook(m, r, i)
         /\ op = "absent" => Checked(m)
         /\ op = "values" => \E n \in Owners(m) : MayTake(n, r, i)
         /\ op # "values" => m \in 1..Len(fms) /\ Met(fms[m].via, r)
         /\ op = "values" => m \in 1..Len(vms) /\ PathAt(r, i) = vms[m].path
<1>1. PICK f : f = Top(r)
  OBVIOUS
<1>2. f \in Frames(reader[r].kept) /\ f.op = op /\ FrameMet(f, r)
  BY <1>1, TopGood
<1>3. f \in Range(reader[r].agenda)
  <2>1. reader[r].agenda \in Seq(Frames(reader[r].kept)) /\ reader[r].agenda # <<>>
    BY DEF Inductive, TypeOK, AgendaOK, AtTop
  <2> QED BY <1>1, <2>1, TailRange DEF Top
<1>4. FrameFits(f, r) /\ KeptKnown(r) /\ HeapOrdered
  BY <1>3 DEF Sound, AgendaFits
<1>5. i \in reader[r].kept /\ (op = "values" => m \in 1..Len(vms)) /\ (op # "values" => m \in 1..Len(fms))
  BY <1>1, <1>2 DEF Frames
<1>6. /\ op # "values" => Met(fms[m].via, r)
      /\ op = "values" => PathAt(r, i) = vms[m].path
  BY <1>1, <1>2 DEF FrameMet
<1> QED BY <1>1, <1>2, <1>4, <1>5, <1>6 DEF FrameFits

(* The exists:true transition that is taken.                               *)
LEMMA ExistsOne ==
  ASSUME Inductive, NEW r \in Readers, KeptKnown(r), HeapOrdered, NEW m \in 1..Len(fms),
         NEW i \in reader[r].kept, MayTake(m, r, i), NEW t \in ExistsTargets(r, i, fms[m])
  PROVE  JustTook(t, r, i)
<1>1. PICK k \in Paths : k = PathAt(r, i) /\ fms[m].exists[k] # Nil /\ t = fms[m].exists[k]
  BY DEF ExistsTargets
<1>2. fms[m].via \in Via /\ FmOK(fms[m]) /\ FmLabelled(fms[m])
  BY Visited
<1>3. t \in 1..Len(fms)
  BY <1>1, <1>2 DEF FmOK, Nil
<1>4. FreeFrom(fms[m].via, k)
  BY <1>1 DEF HeapOrdered
<1>5. fms[t].via = [fms[m].via EXCEPT ![k] = "exists"]
  BY <1>1, <1>2 DEF FmLabelled
<1>6. ShapeOf(fms[t].via)[k] = "exists"
  BY <1>2, <1>5, LabelAssumption DEF ShapeOf, Via
<1>7. LeadsOn(m, k, "exists", {FieldAt(r, i).val}, {t})
  BY <1>1 DEF LeadsOn
<1>8. i \in Real(r)
  BY <1>1, PatternAssumption DEF Real, PathAt, Nil
<1>9. "exists" \notin PVals
  BY LabelAssumption
<1>10. LeadsOn(m, k, ShapeOf(fms[t].via)[k], {FieldAt(r, i).val}, {t})
  BY <1>6, <1>7
<1>11. "exists" \in PVals \cup {"exists"}
  OBVIOUS
<1> QED BY <1>1, <1>3, <1>4, <1>5, <1>8, <1>9, <1>10, <1>11, TakeOne

(* The transitions on a value that are taken.                              *)
LEMMA ValueOne ==
  ASSUME Inductive, NEW r \in Readers, KeptKnown(r), HeapOrdered, NEW v \in 1..Len(vms),
         NEW m \in Owners(v), NEW i \in reader[r].kept, PathAt(r, i) = vms[v].path,
         MayTake(m, r, i), NEW t \in TransitionOn(vms[v], FieldAt(r, i).val)
  PROVE  JustTook(t, r, i)
<1>1. PICK k : k = vms[v].path
  OBVIOUS
<1>2. VmOK(vms[v]) /\ VmLabelled(vms[v]) /\ vms[v] \in VmFields
  BY ElementOfSeq DEF Inductive, TypeOK, HeapOK, HeapLabelled
<1>3. k \in Paths /\ m \in 1..Len(fms) /\ fms[m].trans[k] = v /\ v # Nil
  BY <1>1, <1>2 DEF VmFields, Owners, Nil
<1>4. PICK e \in Edges(vms[v]) : t = e[2] /\ FieldAt(r, i).val \in Accepts[e[1]]
  BY DEF TransitionOn, Edges
<1>5. PICK c : c = e[1]
  OBVIOUS
<1>6. c \in PVals /\ t \in 1..Len(fms) /\ FieldAt(r, i).val \in Accepts[c]
  BY <1>2, <1>4, <1>5 DEF Edges, VmFields, Edge, VmOK
<1>7. fms[m].via \in Via /\ vms[v].via = fms[m].via
  BY <1>3, Visited DEF FmLabelled
<1>8. fms[t].via = [fms[m].via EXCEPT ![k] = c]
  BY <1>1, <1>2, <1>4, <1>5, <1>7 DEF VmLabelled
<1>9. FreeFrom(fms[m].via, k)
  BY <1>3 DEF HeapOrdered
<1>10. ShapeOf(fms[t].via)[k] = "vals"
  BY <1>3, <1>6, <1>7, <1>8 DEF ShapeOf, Via
<1>11. LeadsOn(m, k, "vals", {FieldAt(r, i).val}, {t})
  BY <1>3 DEF LeadsOn
<1>12. i \in Real(r)
  BY <1>1, <1>3, PatternAssumption DEF Real, PathAt, Nil
<1>13. LeadsOn(m, k, ShapeOf(fms[t].via)[k], {FieldAt(r, i).val}, {t})
  BY <1>10, <1>11
<1>14. c \in PVals \cup {"exists"}
  BY <1>6
<1>15. k = PathAt(r, i)
  BY <1>1
<1> QED BY <1>3, <1>6, <1>8, <1>9, <1>12, <1>13, <1>14, <1>15, TakeOne

-----------------------------------------------------------------------------
(* The steps of a match call.                                              *)
LEMMA TryToMatchSound ==
  ASSUME Inductive, Sound, NEW r \in Readers, TryToMatch(r)
  PROVE  Sound'
<1>1. PICK i \in Top(r).at, s \in Top(r).to :
         Continue(r, Loop("exists", {i}, ExistsTargets(r, i, fms[s]))
                        \o Loop("absent", {i}, AbsentTargets(r, fms[s]))
                        \o Loop("trans", {i}, {s})
                        \o Loop("try", Top(r).at \ {i}, {s}), {})
  BY DEF TryToMatch
<1>2. AtTop(r, "try") /\ ReaderStep(r)
  BY DEF TryToMatch, ReaderStep
<1>3. /\ s \in 1..Len(fms) /\ KeptKnown(r) /\ HeapOrdered
      /\ \A j \in Top(r).at : j \in reader[r].kept /\ MayTake(s, r, j)
  BY <1>2, TopFits
<1>4. Fits(Loop("exists", {i}, ExistsTargets(r, i, fms[s])), r)
  BY <1>3, ExistsOne, FitsTook
<1>5. Fits(Loop("absent", {i}, AbsentTargets(r, fms[s])), r)
  <2>1. \A t \in AbsentTargets(r, fms[s]) : MayTake(t, r, i) /\ Checked(t)
    BY <1>3, AbsentOne
  <2> QED BY <2>1, FitsMay
<1>6. Fits(Loop("trans", {i}, {s}), r)
  <2>1. \A n \in {s}, j \in {i} : MayTake(n, r, j)
    BY <1>3
  <2> QED BY <2>1, FitsMay
<1>7. Fits(Loop("try", Top(r).at \ {i}, {s}), r)
  <2>1. PICK at : at = Top(r).at \ {i}
    OBVIOUS
  <2>2. \A n \in {s}, j \in at : MayTake(n, r, j)
    BY <1>3, <2>1
  <2> QED BY <2>1, <2>2, FitsMay
<1>20. PICK more : more = Loop("exists", {i}, ExistsTargets(r, i, fms[s]))
                         \o Loop("absent", {i}, AbsentTargets(r, fms[s]))
                         \o Loop("trans", {i}, {s})
                         \o Loop("try", Top(r).at \ {i}, {s})
  OBVIOUS
<1>21. Fits(more, r)
  BY <1>4, <1>5, <1>6, <1>7, <1>20, FitsConcat
<1>22. Continue(r, more, {})
  BY <1>1, <1>20
<1> QED BY <1>2, <1>21, <1>22, WalkSound DEF Fits

LEMMA TakeExistsSound ==
  ASSUME Inductive, Sound, NEW r \in Readers, TakeExists(r)
  PROVE  Sound'
<1>1. PICK i \in Top(r).at, t \in Top(r).to :
         Continue(r, Loop("try", Later(r, i), {t}) \o Loop("recheck", {i}, {t}),
                  fms[t].matches)
  BY DEF TakeExists
<1>2. AtTop(r, "exists") /\ ReaderStep(r)
  BY DEF TakeExists, ReaderStep
<1>3. /\ t \in 1..Len(fms) /\ KeptKnown(r) /\ Met(fms[t].via, r)
      /\ JustTook(t, r, i)
  BY <1>2, TopFits
<1>4. Fits(Loop("try", Later(r, i), {t}), r)
  BY <1>3, GoOn, FitsMay
<1>5. MayTake(t, r, i) /\ Checked(t)
  BY <1>3, TookMay
<1>6. Fits(Loop("recheck", {i}, {t}), r)
  BY <1>5, FitsMay
<1>7. \A x \in fms[t].matches : Fit(x, r)
  BY <1>3, <1>5, FoundOne
<1>20. PICK more : more = Loop("try", Later(r, i), {t}) \o Loop("recheck", {i}, {t})
  OBVIOUS
<1>21. Fits(more, r)
  BY <1>4, <1>6, <1>20, FitsConcat
<1>22. Continue(r, more, fms[t].matches)
  BY <1>1, <1>20
<1> QED BY <1>2, <1>7, <1>21, <1>22, WalkSound DEF Fits

LEMMA RecheckAbsentSound ==
  ASSUME Inductive, Sound, NEW r \in Readers, RecheckAbsent(r)
  PROVE  Sound'
<1>1. PICK i \in Top(r).at, t \in Top(r).to :
         Continue(r, Loop("absent", {i}, AbsentTargets(r, fms[t])), {})
  BY DEF RecheckAbsent
<1>2. AtTop(r, "recheck") /\ ReaderStep(r)
  BY DEF RecheckAbsent, ReaderStep
<1>3. t \in 1..Len(fms) /\ KeptKnown(r) /\ HeapOrdered /\ MayTake(t, r, i)
  BY <1>2, TopFits
<1>4. \A n \in AbsentTargets(r, fms[t]) : MayTake(n, r, i) /\ Checked(n)
  BY <1>3, AbsentOne
<1>5. Fits(Loop("absent", {i}, AbsentTargets(r, fms[t])), r)
  BY <1>4, FitsMay
<1> QED BY <1>1, <1>2, <1>5, WalkSound DEF Fits

LEMMA TakeAbsentSound ==
  ASSUME Inductive, Sound, NEW r \in Readers, TakeAbsent(r)
  PROVE  Sound'
<1>1. PICK i \in Top(r).at, t \in Top(r).to :
         Continue(r, Loop("try", {i}, {t}) \o Loop("absent", {i}, Top(r).to \ {t}),
                  fms[t].matches)
  BY DEF TakeAbsent
<1>2. AtTop(r, "absent") /\ ReaderStep(r)
  BY DEF TakeAbsent, ReaderStep
<1>3. /\ t \in 1..Len(fms) /\ KeptKnown(r) /\ Met(fms[t].via, r)
      /\ \A n \in Top(r).to : MayTake(n, r, i) /\ Checked(n)
  BY <1>2, TopFits
<1>4. Fits(Loop("try", {i}, {t}), r) /\ Fits(Loop("absent", {i}, Top(r).to \ {t}), r)
  BY <1>3, FitsMay
<1>5. \A x \in fms[t].matches : Fit(x, r)
  BY <1>3, FoundOne
<1>20. PICK more : more = Loop("try", {i}, {t}) \o Loop("absent", {i}, Top(r).to \ {t})
  OBVIOUS
<1>21. Fits(more, r)
  BY <1>4, <1>20, FitsConcat
<1>22. Continue(r, more, fms[t].matches)
  BY <1>1, <1>20
<1> QED BY <1>2, <1>5, <1>21, <1>22, WalkSound DEF Fits

LEMMA LoadTransitionsSound ==
  ASSUME Inductive, Sound, NEW r \in Readers, LoadTransitions(r)
  PROVE  Sound'
<1>A. PICK i \in Top(r).at, s \in Top(r).to :
         LET vm == {fms[s].trans[k] : k \in {l \in Paths : l = PathAt(r, i)}}
         IN  Continue(r, Loop("values", {i}, vm \ {Nil}), {})
  BY DEF LoadTransitions
<1>1. PICK vm :
         /\ vm = {fms[s].trans[k] : k \in {l \in Paths : l = PathAt(r, i)}} \ {Nil}
         /\ Continue(r, Loop("values", {i}, vm), {})
  BY <1>A
<1>2. AtTop(r, "trans") /\ ReaderStep(r)
  BY DEF LoadTransitions, ReaderStep
<1>3. s \in 1..Len(fms) /\ MayTake(s, r, i)
  BY <1>2, TopFits
<1>4. ASSUME NEW v \in vm
      PROVE  s \in Owners(v)
  <2>1. PICK k \in Paths : fms[s].trans[k] = v /\ v # Nil
    BY <1>1
  <2>2. vms[v].path = k
    BY <1>3, <2>1, Visited DEF FmLabelled
  <2> QED BY <1>3, <2>1, <2>2 DEF Owners
<1>5. FrameFits([op |-> "values", at |-> {i}, to |-> vm], r)
  BY <1>3, <1>4 DEF FrameFits
<1> QED BY <1>1, <1>2, <1>5, FitsLoop, WalkSound DEF Fits

LEMMA LoadValuesSound ==
  ASSUME Inductive, Sound, NEW r \in Readers, LoadValues(r)
  PROVE  Sound'
<1>1. PICK i \in Top(r).at, v \in Top(r).to :
         Continue(r, Loop("next", {i}, TransitionOn(vms[v], reader[r].event[i].val)), {})
  BY DEF LoadValues
<1>2. AtTop(r, "values") /\ ReaderStep(r)
  BY DEF LoadValues, ReaderStep
<1>3. /\ v \in 1..Len(vms) /\ PathAt(r, i) = vms[v].path /\ KeptKnown(r) /\ HeapOrdered
      /\ i \in reader[r].kept /\ \E n \in Owners(v) : MayTake(n, r, i)
  BY <1>2, TopFits
<1>4. \A t \in TransitionOn(vms[v], reader[r].event[i].val) : JustTook(t, r, i)
  BY <1>3, ValueOne DEF FieldAt
<1>5. Fits(Loop("next", {i}, TransitionOn(vms[v], reader[r].event[i].val)), r)
  BY <1>4, FitsTook
<1> QED BY <1>1, <1>2, <1>5, WalkSound DEF Fits

LEMMA TakeNextSound ==
  ASSUME Inductive, Sound, NEW r \in Readers, TakeNext(r)
  PROVE  Sound'
<1>1. PICK i \in Top(r).at, t \in Top(r).to :
         Continue(r, Loop("try", Later(r, i), {t})
                     \o Loop("absent", {i}, AbsentTargets(r, fms[t]))
                     \o Loop("next", {i}, Top(r).to \ {t}),
                  fms[t].matches)
  BY DEF TakeNext
<1>2. AtTop(r, "next") /\ ReaderStep(r)
  BY DEF TakeNext, ReaderStep
<1>3. /\ t \in 1..Len(fms) /\ KeptKnown(r) /\ HeapOrdered /\ Met(fms[t].via, r)
      /\ \A n \in Top(r).to : JustTook(n, r, i)
  BY <1>2, TopFits
<1>4. Fits(Loop("try", Later(r, i), {t}), r)
  BY <1>3, GoOn, FitsMay
<1>5. MayTake(t, r, i) /\ Checked(t)
  BY <1>3, TookMay
<1>6. Fits(Loop("absent", {i}, AbsentTargets(r, fms[t])), r)
  <2>1. \A n \in AbsentTargets(r, fms[t]) : MayTake(n, r, i) /\ Checked(n)
    BY <1>3, <1>5, AbsentOne
  <2> QED BY <2>1, FitsMay
<1>7. Fits(Loop("next", {i}, Top(r).to \ {t}), r)
  BY <1>3, FitsTook
<1>8. \A x \in fms[t].matches : Fit(x, r)
  BY <1>3, <1>5, FoundOne
<1>20. PICK more : more = Loop("try", Later(r, i), {t})
                         \o Loop("absent", {i}, AbsentTargets(r, fms[t]))
                         \o Loop("next", {i}, Top(r).to \ {t})
  OBVIOUS
<1>21. Fits(more, r)
  BY <1>4, <1>6, <1>7, <1>20, FitsConcat
<1>22. Continue(r, more, fms[t].matches)
  BY <1>1, <1>20
<1> QED BY <1>2, <1>8, <1>21, <1>22, WalkSound DEF Fits

(* The walk starts at the root, where nothing is chosen yet.               *)
LEMMA AtRoot ==
  ASSUME Inductive, NEW r \in Readers, NEW i
  PROVE  MayTake(Root, r, i)
<1>1. fms[Root].via = [k \in Paths |-> "free"] /\ Root \in 1..Len(fms)
  BY DEF Inductive, TypeOK, HeapOK, HeapLabelled
<1>2. WantedBy(fms[Root].via) = {}
  BY <1>1 DEF WantedBy
<1>3. PICK pick : pick = [l \in {} |-> i]
  OBVIOUS
<1>4. pick \in [{} -> Real(r)] /\ DOMAIN pick = {}
  BY <1>3
<1>5. pick \in Picks(fms[Root].via, r)
  BY <1>2, <1>4 DEF Picks
<1>6. \A on : LedTo(Root, on, {Root})
  BY <1>1 DEF LedTo
<1>7. {Root} \in SUBSET (1..Len(fms))
  BY <1>1
<1>8. pick \in Ways(Root, r)
  BY <1>5, <1>6, <1>7 DEF Ways
<1> QED BY <1>4, <1>8 DEF MayTake

LEMMA LaunchSound ==
  ASSUME Inductive, Sound, NEW r \in Readers, Launch(r)
  PROVE  Sound'
<1>1. PICK me, agenda : me = reader[r] /\ agenda = Loop("try", me.kept, {Root})
  OBVIOUS
<1>2. core.state = Root /\ reader \in [Readers -> ReaderLocals] /\ me \in ReaderLocals
  BY <1>1 DEF Inductive, TypeOK, HeapLabelled
<1>3. /\ UNCHANGED <<core, fms, vms, lock, writer>>
      /\ \A q \in Readers \ {r} : reader'[q] = reader[q]
      /\ reader'[r] = [pc |-> "match", event |-> me.event, kept |-> me.kept,
                       agenda |-> agenda, found |-> me.found,
                       must |-> me.must, prior |-> me.prior]
      /\ me.pc = "flat"
  BY <1>1, <1>2 DEF Launch, ReaderLocals
<1>4. Inductive' /\ Grows /\ Retained
  BY <1>3, LaunchStep, SameRetained
<1>5. Arrived' = Arrived /\ Committed' = Committed
  BY <1>3 DEF Arrived, Committed
<1>6. KeptKnown(r) /\ KeptKnown(r)'
  BY <1>1, <1>3, <1>5, KnownKeep DEF Sound
<1>7. AgendaFits(r)'
  <2> SUFFICES ASSUME NEW f \in Range(agenda)
               PROVE  FrameFits(f, r)'
    BY <1>3 DEF AgendaFits
  <2>1. \A m \in {Root}, i \in me.kept : MayTake(m, r, i)
    BY AtRoot
  <2>2. FrameFits(f, r)
    BY <1>1, <2>1, FitsMay DEF Fits
  <2>3. agenda \in Seq(Frames(me.kept))
    BY <1>3, <1>4 DEF Inductive, TypeOK, AgendaOK, Frames
  <2>4. f \in Frames(me.kept)
    BY <2>3 DEF Range
  <2> QED BY <1>1, <1>3, <1>4, <1>6, <2>2, <2>4, FrameFitsKeep
<1>8. FoundFits(r)'
  <2>1. \A x \in me.found : Fit(x, r)
    BY <1>1 DEF Sound, FoundFits, Fit
  <2>2. \A x \in me.found : Fit(x, r)'
    BY <1>1, <1>3, <1>4, <1>5, <1>6, <2>1, FitKeep
  <2> QED BY <1>3, <2>2 DEF FoundFits, Fit
<1> QED BY <1>3, <1>4, <1>6, <1>7, <1>8, LocalSound

LEMMA ReturnSound ==
  ASSUME Inductive, Sound, NEW r \in Readers, Return(r)
  PROVE  Sound'
<1>1. PICK me : me = reader[r]
  OBVIOUS
<1>2. reader \in [Readers -> ReaderLocals] /\ me \in ReaderLocals
  BY <1>1 DEF Inductive, TypeOK
<1>3. /\ UNCHANGED <<core, fms, vms, lock, writer>>
      /\ \A q \in Readers \ {r} : reader'[q] = reader[q]
      /\ reader'[r] = [pc |-> "done", event |-> me.event, kept |-> me.kept,
                       agenda |-> <<>>, found |-> me.found,
                       must |-> me.must, prior |-> me.prior]
      /\ me.pc = "match"
  BY <1>1, <1>2 DEF Return, ReaderLocals
<1>4. Inductive' /\ Grows /\ Retained
  BY <1>3, ReturnStep, SameRetained
<1>5. Arrived' = Arrived /\ Committed' = Committed
  BY <1>3 DEF Arrived, Committed
<1>6. KeptKnown(r) /\ KeptKnown(r)'
  BY <1>1, <1>3, <1>5, KnownKeep DEF Sound
<1>7. AgendaFits(r)'
  <2>1. Range(<<>>) = {}
    BY DEF Range
  <2> QED BY <1>3, <2>1 DEF AgendaFits
<1>8. FoundFits(r)'
  <2>1. \A x \in me.found : Fit(x, r)
    BY <1>1 DEF Sound, FoundFits, Fit
  <2>2. \A x \in me.found : Fit(x, r)'
    BY <1>1, <1>3, <1>4, <1>5, <1>6, <2>1, FitKeep
  <2> QED BY <1>3, <2>2 DEF FoundFits, Fit
<1> QED BY <1>3, <1>4, <1>6, <1>7, <1>8, LocalSound

(* A call keeps what the tree it loads knows, and that is every path of    *)
(* the Patterns added before.                                              *)
LEMMA BeginMatchSound ==
  ASSUME Inductive, Sound, NEW r \in Readers, BeginMatch(r)
  PROVE  Sound'
<1>1. PICK e \in Events :
         /\ reader' = [reader EXCEPT ![r] =
              [IdleReader EXCEPT !.pc = "flat", !.event = e,
                                 !.kept = Flatten(e, core.tree), !.must = Committed,
                                 !.prior = ReportedFor(e)]]
         /\ UNCHANGED <<core, fms, vms, lock, writer>>
  BY DEF BeginMatch
<1>2. reader \in [Readers -> ReaderLocals]
  BY DEF Inductive, TypeOK
<1>3. /\ \A q \in Readers \ {r} : reader'[q] = reader[q]
      /\ reader'[r] = [pc |-> "flat", event |-> e, kept |-> Flatten(e, core.tree),
                       agenda |-> <<>>, found |-> {}, must |-> Committed,
                       prior |-> ReportedFor(e)]
  BY <1>1, <1>2 DEF IdleReader
<1>4. Inductive' /\ Committed' = Committed
  BY <1>1, BeginMatchStep DEF Committed
<1>5. PICK used, kept : /\ used = {i \in DOMAIN e : e[i].path \in core.tree}
                        /\ kept = Flatten(e, core.tree)
  OBVIOUS
<1>6. FakeIndex \notin DOMAIN e
  BY PatternAssumption, LenProperties DEF FakeIndex
<1>7. kept # {} /\ kept \ {FakeIndex} = used
  BY <1>5, <1>6 DEF Flatten
<1>8. \A p \in Committed : PathsOf(p) \subseteq core.tree
  <2> SUFFICES ASSUME NEW w \in Writers, writer[w].pc = "done", NEW p \in writer[w].pattern
               PROVE  PathsOf(p) \subseteq core.tree
    BY DEF Committed
  <2>1. p = Pat(w)
    BY PatternAtWork
  <2> QED BY <2>1 DEF Sound, TreesKnow
<1>9. KeptKnown(r)'
  <2>1. /\ Real(r)' = used
        /\ \A i : FieldAt(r, i)' = e[i]
    BY <1>3, <1>5, <1>7 DEF Real, FieldAt
  <2>2. /\ reader'[r].must = Committed /\ reader'[r].event = e
        /\ reader'[r].kept = kept
    BY <1>3, <1>5
  <2>3. \A i \in used : i \in DOMAIN e /\ e[i].path \in core'.tree
    BY <1>1, <1>5
  <2>4. \A p \in Committed : \A i \in DOMAIN e : e[i].path \in PathsOf(p) => i \in kept
    BY <1>5, <1>7, <1>8
  <2> QED BY <1>4, <1>7, <2>1, <2>2, <2>3, <2>4 DEF KeptKnown
<1>10. AgendaFits(r)' /\ FoundFits(r)'
  <2>1. Range(<<>>) = {}
    BY DEF Range
  <2> QED BY <1>3, <2>1 DEF AgendaFits, FoundFits
<1> QED BY <1>1, <1>3, <1>4, <1>9, <1>10, LocalSound

-----------------------------------------------------------------------------
(* The initial states.                                                     *)
LEMMA InitSound ==
  ASSUME Init
  PROVE  Sound
<1>1. HeapOrdered
  <2>1. fms = <<NewFieldMatcher([k \in Paths |-> "free"])>> /\ vms = <<>>
    BY DEF Init
  <2>2. Len(vms) = 0 /\ Len(fms) = 1 /\ fms[1] = NewFieldMatcher([k \in Paths |-> "free"])
    BY <2>1
  <2> QED BY <2>2 DEF HeapOrdered, NewFieldMatcher
<1>2. \A w \in Writers : TreesKnow(w)
  BY DEF Init, IdleWriter, TreesKnow, Building
<1>3. ASSUME NEW r \in Readers
      PROVE  KeptKnown(r) /\ AgendaFits(r) /\ FoundFits(r)
  <2>1. reader[r] = IdleReader
    BY DEF Init
  <2>2. Range(<<>>) = {}
    BY DEF Range
  <2>3. KeptKnown(r)
    BY <2>1 DEF IdleReader, KeptKnown, Real
  <2> QED BY <2>1, <2>2, <2>3 DEF IdleReader, AgendaFits, FoundFits
<1> QED BY <1>1, <1>2, <1>3 DEF Sound

LEMMA StepSound ==
  ASSUME Inductive, Sound, [Next]_vars
  PROVE  Sound'
<1>1. CASE UNCHANGED vars
  <2>1. UNCHANGED <<core, fms, vms, lock, writer>> /\ reader' = reader
    BY <1>1 DEF vars
  <2> QED BY <1>1, <2>1, StutterInductive, LocalSound
<1>2. ASSUME NEW w \in Writers, WriterStep(w)
      PROVE  Sound'
  BY <1>2, WriterInductive, WriterSound
<1>3. ASSUME NEW r \in Readers, ReaderStep(r)
      PROVE  Sound'
  BY <1>3, BeginMatchSound, LaunchSound, TryToMatchSound, TakeExistsSound,
     RecheckAbsentSound, TakeAbsentSound, LoadTransitionsSound, LoadValuesSound,
     TakeNextSound, ReturnSound DEF ReaderStep
<1> QED BY <1>1, <1>2, <1>3 DEF Next

(* Whatever the AddPattern calls around it do, a walk only visits matchers *)
(* to which fields that fit together have led it, and only reports what    *)
(* such fields lead to: for any Patterns, Events and numbers of calls.     *)
THEOREM WalksAreSound == Spec => []Sound
<1>1. Inductive /\ Sound /\ [Next]_vars => Sound'
  BY StepSound
<1>2. Init => Sound
  BY InitSound
<1> QED BY <1>1, <1>2, InductiveInvariant, PTL DEF Spec

(* A match call reports no X whose Pattern does not match the Event it was *)
(* given, apart from an exists:false path when the Pattern is added while  *)
(* the call runs.                                                          *)
THEOREM ReportsAreMatches == Spec => []ReportedMatches
<1>1. ASSUME Inductive, Sound
      PROVE  ReportedMatches
  <2> SUFFICES ASSUME NEW r \in Readers, NEW x \in reader[r].found
               PROVE  \E p \in Live :
                        /\ p.x = x
                        /\ WantedMet(p, reader[r].event)
                        /\ p \in reader[r].must => AbsentMet(p, reader[r].event)
    BY DEF ReportedMatches
  <2>1. KeptKnown(r) /\ FoundFits(r)
    BY <1>1 DEF Sound
  <2>2. PICK p \in Arrived : /\ p.x = x
                             /\ p \in reader[r].must => AbsentMet(p, reader[r].event)
                             /\ \E pick \in Choices(p, r) : Reachable(p, r, pick)
    BY <2>1 DEF FoundFits
  <2>3. PICK pick \in Choices(p, r) : TRUE
    BY <2>2
  <2>4. PICK e : e = reader[r].event
    OBVIOUS
  <2>5. pick \in [Wanted(p) -> DOMAIN e] /\ Constrained(p) # {}
    BY <2>1, <2>3, <2>4 DEF Choices, KeptKnown
  <2>6. /\ \A k \in Wanted(p) : Fulfils(p, k, e[pick[k]])
        /\ \A k, l \in Wanted(p) : NoArrayTrailConflict(e[pick[k]].trail, e[pick[l]].trail)
    BY <2>3, <2>4 DEF Choices, Together, FieldAt
  <2>7. WantedMet(p, e)
    BY <2>5, <2>6 DEF WantedMet
  <2> QED BY <2>2, <2>4, <2>7, ArrivedLive
<1> QED BY <1>1, InductiveInvariant, WalksAreSound, PTL
=============================================================================
