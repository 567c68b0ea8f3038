----------------------------- MODULE PrunerProofs -----------------------------
(***************************************************************************)
(* Proofs that IInv is inductive, and of the properties of Pruner that     *)
(* follow from it.  There is a lemma for each action.  Most actions move   *)
(* one call and leave the fields and the live set alone: Moved and         *)
(* OnlyThread say what is then left to show.  StoredStep does the same for *)
(* the actions that store fields, EnlivenedStep for those that change the  *)
(* live set.                                                               *)
(***************************************************************************)
EXTENDS PrunerInv, TLAPS, FiniteSetTheorems, SequenceTheorems

(* The part of Next that every step shares.                                *)
Noting == races' = races \cup Overlaps(thread')

Counters == [{"Live", "Added", "Deleted", "Emitted", "Filtered", "RebuildPurged"} -> Int]

Grown ==
    /\ matchers' \in Seq(SUBSET Additions)
    /\ DOMAIN matchers \subseteq DOMAIN matchers'
    /\ \A n \in DOMAIN matchers : matchers[n] \subseteq matchers'[n]

(* One call goes on to be v; fields and live set stay as they are.         *)
LEMMA Moved ==
    ASSUME IInv, NEW t \in Threads, NEW v \in Calls, thread' = [thread EXCEPT ![t] = v], Noting,
           Grown, UNCHANGED <<matcher, trigger, live>>,
           calls' \in 0 .. MaxCalls,
           stats' \in Counters, stats.Emitted <= stats'.Emitted,
           lock' \in {lock, t, NoThread}, lock' # lock => lock \in {t, NoThread},
           v.op \in Holders <=> lock' = t,
           CallHolds(v)', MatchHolds(v)',
           IsFiniteSet(v.acc), v.pc = "ratio" => stats'.Emitted > 0,
           "add" \notin races' => IndexHolds(v)',
           "disable" \notin races' => HasTrigger(v)',
           races' \subseteq {"disable"} =>
              /\ lock' = NoThread => stats'.Live = Size(live)
              /\ lock' = t => stats'.Live = Size(live) + Pending(v)
              /\ lock' \notin {t, NoThread} => stats'.Live = stats.Live
              /\ v.pc = "reset" => v.count = Size(live)
    PROVE  IInv'
<1>1. /\ thread' \in [Threads -> Calls]
      /\ thread'[t] = v
      /\ \A u \in Threads : u # t => thread'[u] = thread[u]
  BY DEF IInv, Types
<1>2. races \subseteq races'
  BY DEF Noting
<1>3. Entries' = Entries /\ matcher' = matcher /\ trigger' = trigger /\ live' = live
  BY DEF Entries
<1>4. Types'
  BY <1>1, <1>3 DEF IInv, Types, Noting, Overlaps, Changing, Grown, Counters
<1>5. \A u \in Threads : CallHolds(thread[u])'
  BY <1>1 DEF IInv, CallHolds, Grown
<1>6. LockHeld'
  BY <1>1, PrunerAssumption DEF IInv, LockHeld
<1>7. Counted'
  <2>1. stats.Emitted \in Int /\ stats'.Emitted \in Int
    BY DEF IInv, Types, Counters
  <2> QED BY <2>1, <1>1, <1>3 DEF IInv, Counted, RatioIsDefined
<1>8. \A u \in Threads : MatchHolds(thread[u])'
  BY <1>1, <1>3 DEF IInv, MatchHolds
<1>9. Noted'
  BY DEF Noting, Noted
<1>10. Indexed'
  <2> SUFFICES ASSUME "add" \notin races'
               PROVE  Entries' \subseteq matchers'[matcher'] /\ \A u \in Threads : IndexHolds(thread[u])'
    BY DEF Indexed
  <2>1. Entries \subseteq matchers[matcher] /\ \A u \in Threads : IndexHolds(thread[u])
    BY <1>2 DEF IInv, Indexed
  <2>2. matcher \in DOMAIN matchers
    BY DEF IInv, Types
  <2>3. ASSUME NEW u \in Threads, u # t PROVE IndexHolds(thread[u])'
    <3>1. thread'[u] = thread[u]
      BY <1>1, <2>3
    <3>2. CallHolds(thread[u]) /\ IndexHolds(thread[u])
      BY <2>1 DEF IInv
    <3>3. Due(thread[u])' = Due(thread[u])
      BY <3>1 DEF Due
    <3>4. thread[u].pc \notin {"idle", "load"} => matchers[thread[u].mine] \subseteq matchers'[thread[u].mine]
      BY <3>2 DEF CallHolds, Grown
    <3>5. thread[u].pc \in {"reset", "store"} => matchers[thread[u].fresh] \subseteq matchers'[thread[u].fresh]
      BY <3>2 DEF CallHolds, Grown
    <3>6. matchers[matcher] \subseteq matchers'[matcher]
      BY <2>2 DEF Grown
    <3>7. /\ thread[u].pc \in {"index", "count", "enliven", "match"} => thread[u].pc \notin {"idle", "load"}
          /\ thread[u].op = "delete" => thread[u].pc # "idle"
          /\ thread[u].op = "disable" => thread[u].pc # "idle"
      BY <3>2 DEF CallHolds, OnItsWay
    <3> DEFINE w == thread[u]
               w1 == thread'[u]
    <3>8. w1 = w
      BY <3>1
    <3> HIDE DEF w, w1
    <3>9. /\ w.op = "add" /\ w.pc \in {"index", "count", "enliven"} => w.mine = matcher'
          /\ w.op = "add" /\ w.pc \in {"count", "enliven"} => w.arg \in matchers'[matcher']
          /\ w.op \in {"delete", "disable"} /\ w.pc \notin {"load", "unlock"} => Entries' \subseteq matchers'[w.mine]
          /\ w.pc \in {"reset", "store"} => Entries' \subseteq matchers'[w.fresh]
          /\ w.op = "match" /\ w.pc = "match" => w.must \subseteq matchers'[w.mine]
      BY <3>2, <3>4, <3>5, <3>6, <3>7, <1>3 DEF IndexHolds, w
    <3>10. /\ w.op = "match" /\ w.pc = "filter" => \A e \in Due(w) : e[1] \in w.todo \cup w.acc
           /\ w.op = "match" /\ w.pc \notin {"load", "match", "filter"} => \A e \in Due(w) : e[1] \in w.acc
      BY <3>2 DEF IndexHolds, w
    <3> QED BY <3>1, <3>9, <3>10 DEF IndexHolds, Due, w
  <2>4. IndexHolds(thread[t])'
    BY <1>1 DEF IndexHolds, Due
  <2> QED BY <2>1, <2>2, <2>3, <2>4, <1>3 DEF Grown
<1>11. TriggerCopied'
  BY <1>1, <1>2, <1>3 DEF IInv, TriggerCopied, HasTrigger
<1>12. CountRight'
  <2> SUFFICES ASSUME races' \subseteq {"disable"} PROVE CountRight'
    BY DEF CountRight
  <2>1. races \subseteq {"disable"}
    BY <1>2
  <2>2. Size(live)' = Size(live)
    BY <1>3 DEF Size, Present
  <2>3. /\ lock = NoThread => stats.Live = Size(live)
        /\ lock \in Threads => stats.Live = Size(live) + Pending(thread[lock])
        /\ \A u \in Threads : thread[u].pc = "reset" => thread[u].count = Size(live)
    BY <2>1 DEF IInv, CountRight
  <2>4. \A u \in Threads : thread'[u].pc = "reset" => thread'[u].count = Size(live)
    BY <2>3, <1>1
  <2>5. lock' = NoThread => stats'.Live = Size(live)
    OBVIOUS
  <2>6. ASSUME lock' \in Threads PROVE stats'.Live = Size(live) + Pending(thread[lock])'
    <3>1. CASE lock' = t
      BY <3>1, <1>1 DEF Pending
    <3>2. CASE lock' # t
      <4>1. lock' = lock /\ stats'.Live = stats.Live /\ thread'[lock'] = thread[lock]
        BY <3>2, <2>6, <1>1, PrunerAssumption
      <4> QED BY <4>1, <2>3, <2>6 DEF Pending
    <3> QED BY <3>1, <3>2
  <2> QED BY <2>2, <2>4, <2>5, <2>6 DEF CountRight
<1> QED BY <1>4, <1>5, <1>6, <1>7, <1>8, <1>9, <1>10, <1>11, <1>12 DEF IInv

-----------------------------------------------------------------------------
(* The live set has finitely many entries.                                 *)
LEMMA SizeType ==
    ASSUME IInv
    PROVE  Size(live) \in Nat /\ IsFiniteSet(Copies(live))
BY FS_CardinalityType DEF IInv, Counted, Size

(* memState.Add makes the live set larger by one.                          *)
LEMMA SizeAdded ==
    ASSUME IInv, NEW a \in Additions, live' = [live EXCEPT ![a] = @ + 1]
    PROVE  /\ live' \in [Additions -> Nat] /\ Present(live') = Present(live) \cup {a}
           /\ IsFiniteSet(Copies(live')) /\ Size(live') = Size(live) + 1
<1>1. live \in [Additions -> Nat] /\ live[a] \in Nat
  BY DEF IInv, Types
<1>2. live' \in [Additions -> Nat]
  BY <1>1
<1>3. Present(live') = Present(live) \cup {a}
  BY <1>1 DEF Present
<1>4. \A e \in Additions : live'[e] = IF e = a THEN live[a] + 1 ELSE live[e]
  BY <1>1
<1>5. Copies(live') = Copies(live) \cup {<<a, live[a] + 1>>}
  <2>1. ASSUME NEW c \in Copies(live') PROVE c \in Copies(live) \/ c = <<a, live[a] + 1>>
    <3>1. PICK e \in Additions, n \in Int : c = <<e, n>> /\ 1 <= n /\ n <= live'[e]
      BY <2>1 DEF Copies, Present
    <3>2. n <= live[e] \/ (e = a /\ n = live[a] + 1)
      BY <1>1, <1>4, <3>1
    <3> QED BY <1>1, <3>1, <3>2 DEF Copies, Present
  <2>2. ASSUME NEW c \in Copies(live) PROVE c \in Copies(live')
    <3>1. PICK e \in Additions, n \in Int : c = <<e, n>> /\ 1 <= n /\ n <= live[e]
      BY <2>2 DEF Copies, Present
    <3>2. n <= live'[e] /\ live'[e] > 0
      BY <1>1, <1>4, <3>1
    <3> QED BY <1>2, <3>1, <3>2 DEF Copies, Present
  <2>3. <<a, live[a] + 1>> \in Copies(live')
    BY <1>1, <1>4 DEF Copies, Present
  <2> QED BY <2>1, <2>2, <2>3
<1>6. <<a, live[a] + 1>> \notin Copies(live)
  BY <1>1 DEF Copies, Present
<1>7. /\ IsFiniteSet(Copies(live) \cup {<<a, live[a] + 1>>})
      /\ Cardinality(Copies(live) \cup {<<a, live[a] + 1>>}) = Cardinality(Copies(live)) + 1
  BY <1>6, SizeType, FS_AddElement
<1> QED BY <1>2, <1>3, <1>5, <1>7 DEF Size

(* memState.Delete makes it no larger.                                     *)
LEMMA SizeKept ==
    ASSUME IInv, NEW x,
           live' = [e \in Additions |-> IF e[1] = x THEN 0 ELSE live[e]]
    PROVE  /\ live' \in [Additions -> Nat] /\ Present(live') = {e \in Present(live) : e[1] # x}
           /\ IsFiniteSet(Copies(live')) /\ Size(live') \in Nat /\ Size(live') <= Size(live)
<1>1. live \in [Additions -> Nat]
  BY DEF IInv, Types
<1>2. live' \in [Additions -> Nat] /\ Present(live') = {e \in Present(live) : e[1] # x}
  BY <1>1 DEF Present
<1>3. Copies(live') \subseteq Copies(live)
  BY <1>1, <1>2 DEF Copies, Present
<1> QED BY <1>2, <1>3, SizeType, FS_Subset, FS_CardinalityType DEF Size

(* What the invariant says about one call and what it shares.              *)
LEMMA Own ==
    ASSUME IInv, NEW t \in Threads
    PROVE  /\ thread[t] \in Calls /\ CallHolds(thread[t]) /\ MatchHolds(thread[t])
           /\ IsFiniteSet(thread[t].acc)
           /\ thread[t].op \in Holders <=> lock = t
           /\ lock \in Threads \cup {NoThread} /\ NoThread \notin Threads
           /\ "add" \notin races => Entries \subseteq matchers[matcher] /\ IndexHolds(thread[t])
           /\ "disable" \notin races => HasTrigger(thread[t])
           /\ races \subseteq {"disable"} =>
                 /\ lock = NoThread => stats.Live = Size(live)
                 /\ lock = t => stats.Live = Size(live) + Pending(thread[t])
                 /\ thread[t].pc = "reset" => thread[t].count = Size(live)
           /\ matchers \in Seq(SUBSET Additions) /\ matcher \in DOMAIN matchers /\ matcher \in Nat
           /\ trigger \in BOOLEAN
           /\ stats \in Counters /\ stats.Emitted \in Nat
           /\ thread[t].pc = "ratio" => stats.Emitted > 0
           /\ calls \in 0 .. MaxCalls /\ MaxCalls \in Nat
<1>1. thread[t] \in Calls /\ CallHolds(thread[t]) /\ MatchHolds(thread[t]) /\ IsFiniteSet(thread[t].acc)
  BY DEF IInv, Types, Counted
<1>2. /\ thread[t].op \in Holders <=> lock = t
      /\ lock \in Threads \cup {NoThread} /\ NoThread \notin Threads
      /\ thread[t].pc = "ratio" => stats.Emitted > 0
      /\ calls \in 0 .. MaxCalls /\ MaxCalls \in Nat
  BY PrunerAssumption DEF IInv, LockHeld, Types, Counted, RatioIsDefined
<1>3. /\ "add" \notin races => Entries \subseteq matchers[matcher] /\ IndexHolds(thread[t])
      /\ "disable" \notin races => HasTrigger(thread[t])
  BY DEF IInv, Indexed, TriggerCopied
<1>4. races \subseteq {"disable"} =>
         /\ lock = NoThread => stats.Live = Size(live)
         /\ lock = t => stats.Live = Size(live) + Pending(thread[t])
         /\ thread[t].pc = "reset" => thread[t].count = Size(live)
  BY DEF IInv, CountRight
<1>5. /\ matchers \in Seq(SUBSET Additions) /\ matcher \in DOMAIN matchers /\ matcher \in Nat
      /\ trigger \in BOOLEAN
      /\ stats \in Counters /\ stats.Emitted \in Nat
  BY DEF IInv, Types, Counters, Counted
<1> QED BY <1>1, <1>2, <1>3, <1>4, <1>5

(* coreMatchers that stay the same have not shrunk.                        *)
LEMMA SameIsGrown ==
    ASSUME matchers \in Seq(SUBSET Additions), matchers' = matchers
    PROVE  Grown
BY DEF Grown

(* addPattern, deletePatterns, rebuild or disableRebuild begins.           *)
LEMMA LockedStep ==
    ASSUME IInv, NEW t \in Threads, NEW op \in Holders, NEW arg \in Args, op = "add" => arg \in Additions,
           Locked(t, op, arg), Noting
    PROVE  IInv'
<1>1. PICK v \in Calls :
         /\ v = [Idle EXCEPT !.op = op, !.pc = "load", !.arg = arg, !.must = {}, !.seen = {}]
         /\ thread' = [thread EXCEPT ![t] = v]
  <2>1. op # "match"
    BY DEF Holders
  <2>2. Idle \in Calls
    BY DEF Idle, Calls, Ops, Points, Args
  <2>3. \A w \in Calls : [w EXCEPT !.op = op, !.pc = "load", !.arg = arg, !.must = {}, !.seen = {}] \in Calls
    BY DEF Calls, Ops, Points
  <2> QED BY <2>1, <2>2, <2>3 DEF Locked, Begin
<1>2. /\ v.op = op /\ v.pc = "load" /\ v.arg = arg /\ v.acc = {}
      /\ op \in {"add", "delete", "rebuild", "disable"}
  BY <1>1 DEF Idle, Holders
<1>3. /\ lock = NoThread /\ lock' = t /\ calls' \in 0 .. MaxCalls
      /\ UNCHANGED <<matchers, matcher, trigger, live, stats>>
  BY Own DEF Locked, Begin
<1>4. CallHolds(v)' /\ MatchHolds(v)'
  BY <1>2 DEF CallHolds, OnItsWay, MatchHolds
<1>5. IndexHolds(v)' /\ HasTrigger(v)'
  BY <1>2 DEF IndexHolds, HasTrigger
<1>6. races' \subseteq {"disable"} => stats'.Live = Size(live) + Pending(v)
  <2>1. stats.Live \in Int
    BY Own DEF Counters
  <2> QED BY <1>2, <1>3, <2>1, Own DEF Pending, Noting
<1>7. IsFiniteSet(v.acc) /\ Grown
  BY <1>2, <1>3, FS_EmptySet, Own, SameIsGrown
<1>8. /\ stats' \in Counters /\ stats.Emitted <= stats'.Emitted
      /\ lock' # NoThread /\ v.op \in Holders
  BY <1>2, <1>3, Own
<1> QED BY <1>1, <1>2, <1>3, <1>4, <1>5, <1>6, <1>7, <1>8, Moved

(* Moved, for the steps that touch nothing shared.                         *)
LEMMA OnlyThread ==
    ASSUME IInv, NEW t \in Threads, NEW v \in Calls, thread' = [thread EXCEPT ![t] = v], Noting,
           UNCHANGED <<matchers, matcher, trigger, live, stats, lock, calls>>,
           v.op = thread[t].op, CallHolds(v)', MatchHolds(v)',
           IsFiniteSet(v.acc), v.pc = "ratio" => stats.Emitted > 0,
           "add" \notin races' => IndexHolds(v)',
           "disable" \notin races' => HasTrigger(v)',
           thread[t].pc \notin {"enliven", "discount"}, v.pc \notin {"enliven", "discount", "reset"}
    PROVE  IInv'
<1>1. races \subseteq races'
  BY DEF Noting
<1>2. races' \subseteq {"disable"} =>
         /\ lock' = NoThread => stats'.Live = Size(live)
         /\ lock' = t => stats'.Live = Size(live) + Pending(v)
         /\ lock' \notin {t, NoThread} => stats'.Live = stats.Live
         /\ v.pc = "reset" => v.count = Size(live)
  <2>1. Pending(v) = Pending(thread[t])
    BY DEF Pending
  <2> QED BY <2>1, <1>1, Own
<1>3. Grown /\ calls' \in 0 .. MaxCalls /\ stats' \in Counters /\ stats.Emitted <= stats'.Emitted
  BY Own, SameIsGrown
<1>4. lock' = lock /\ (v.op \in Holders <=> lock' = t) /\ (v.pc = "ratio" => stats'.Emitted > 0)
  BY Own
<1> QED BY <1>2, <1>3, <1>4, Moved

(* loadFields, by any call.                                                *)
LEMMA LoadStep ==
    ASSUME IInv, NEW t \in Threads, Load(t), Noting
    PROVE  IInv'
<1> DEFINE w == thread[t]
<1>1. /\ w.pc = "load" /\ Loaded[w.op] \in {"index", "drop", "iterate", "untrigger", "match"}
      /\ w.op = "match" => Loaded[w.op] = "match"
      /\ UNCHANGED <<matchers, matcher, trigger, live, stats, lock, calls>>
  BY Own DEF Load, At, CallHolds, OnItsWay, Loaded
<1>2. PICK v \in Calls :
         /\ v = [w EXCEPT !.mine = matcher, !.myTrigger = trigger, !.freshTrigger = trigger,
                          !.pc = Loaded[w.op]]
         /\ thread' = [thread EXCEPT ![t] = v]
  <2>1. [w EXCEPT !.mine = matcher, !.myTrigger = trigger, !.freshTrigger = trigger,
                  !.pc = Loaded[w.op]] \in Calls
    <3>1. w \in Calls /\ matcher \in Nat /\ trigger \in BOOLEAN
      BY Own
    <3> HIDE DEF w
    <3> QED BY <1>1, <3>1 DEF Calls, Points
  <2> QED BY <2>1 DEF Load
<1>3. /\ v.op = w.op /\ v.arg = w.arg /\ v.mine = matcher /\ v.myTrigger = trigger
      /\ v.freshTrigger = trigger /\ v.pc = Loaded[w.op]
      /\ v.must = w.must /\ v.seen = w.seen /\ v.acc = w.acc
  BY <1>2, Own DEF Calls
<1>4. CallHolds(v)' /\ MatchHolds(v)'
  BY <1>1, <1>3, Own DEF CallHolds, OnItsWay, MatchHolds, Entries, Loaded
<1>5. "add" \notin races' => IndexHolds(v)'
  <2>1. "add" \notin races' => Entries \subseteq matchers[matcher]
    BY Own DEF Noting
  <2>2. v.op = "match" => v.must \subseteq Entries
    BY <1>3, Own DEF MatchHolds
  <2> QED BY <2>1, <2>2, <1>1, <1>3 DEF IndexHolds, Entries
<1>6. HasTrigger(v)'
  BY <1>1, <1>3 DEF HasTrigger
<1>7. IsFiniteSet(v.acc)
  BY <1>3, Own
<1> QED BY <1>1, <1>2, <1>3, <1>4, <1>5, <1>6, <1>7, OnlyThread

(* The coreMatcher answers a match call.                                   *)
LEMMA MatchCoreStep ==
    ASSUME IInv, NEW t \in Threads, MatchCore(t), Noting
    PROVE  IInv'
<1> DEFINE w == thread[t]
           hit == {h[1] : h \in {g \in matchers[w.mine] : g[2] \in Hits[w.arg[1]]}}
<1>1. /\ w.pc = "match" /\ w.op = "match" /\ w.mine \in DOMAIN matchers
      /\ UNCHANGED <<matchers, matcher, trigger, live, stats, lock, calls>>
  BY Own DEF MatchCore, At, CallHolds, OnItsWay
<1>2. hit \subseteq Xs
  <2>1. matchers[w.mine] \subseteq Xs \X Pats
    BY <1>1, Own, PrunerAssumption
  <2> QED BY <2>1
<1>3. PICK v \in Calls : v = [w EXCEPT !.pc = "filter", !.todo = hit] /\ thread' = [thread EXCEPT ![t] = v]
  <2>1. [w EXCEPT !.pc = "filter", !.todo = hit] \in Calls
    <3>1. w \in Calls
      BY Own
    <3> HIDE DEF w, hit
    <3> QED BY <1>2, <3>1 DEF Calls, Points
  <2> QED BY <2>1 DEF MatchCore
<1>4. /\ v.op = w.op /\ v.arg = w.arg /\ v.mine = w.mine /\ v.pc = "filter" /\ v.todo = hit
      /\ v.must = w.must /\ v.seen = w.seen /\ v.acc = w.acc
  BY <1>3, Own DEF Calls
<1>5. CallHolds(v)' /\ MatchHolds(v)'
  BY <1>1, <1>4, Own DEF CallHolds, OnItsWay, MatchHolds, Entries
<1>6. "add" \notin races' => IndexHolds(v)'
  <2>1. "add" \notin races' => w.must \subseteq matchers[w.mine]
    BY <1>1, Own DEF Noting, IndexHolds
  <2>2. "add" \notin races' => \A e \in Due(v) : e[1] \in v.todo
    BY <2>1, <1>4 DEF Due
  <2> QED BY <2>2, <1>1, <1>4 DEF IndexHolds, Due
<1>7. HasTrigger(v)'
  BY <1>1, <1>4 DEF HasTrigger
<1>8. IsFiniteSet(v.acc)
  BY <1>4, Own
<1> QED BY <1>1, <1>3, <1>4, <1>5, <1>6, <1>7, <1>8, OnlyThread

(* All but the point in the code.                                          *)
Elsewhere(v, w) ==
    /\ v.op = w.op /\ v.arg = w.arg /\ v.mine = w.mine /\ v.myTrigger = w.myTrigger
    /\ v.fresh = w.fresh /\ v.freshTrigger = w.freshTrigger /\ v.count = w.count
    /\ v.todo = w.todo /\ v.acc = w.acc /\ v.filtered = w.filtered
    /\ v.must = w.must /\ v.seen = w.seen

(* A call goes to another point and is otherwise the same.                 *)
LEMMA Goes ==
    ASSUME IInv, NEW t \in Threads, NEW pc \in Points, Go(t, pc)
    PROVE  \E v \in Calls : /\ thread' = [thread EXCEPT ![t] = v]
                            /\ v.pc = pc /\ Elsewhere(v, thread[t])
<1> DEFINE w == thread[t]
           v == [w EXCEPT !.pc = pc]
<1>1. w \in Calls
  BY Own
<1>2. thread' = [thread EXCEPT ![t] = v]
  BY DEF Go
<1> HIDE DEF w
<1>3. v \in Calls
  BY <1>1 DEF Calls
<1>4. v.pc = pc /\ Elsewhere(v, w)
  BY <1>1 DEF Calls, Elsewhere
<1> QED BY <1>2, <1>3, <1>4 DEF w

(* From one point to another where neither asks for anything new.          *)
LEMMA AfterRebuildStep ==
    ASSUME IInv, NEW t \in Threads, NEW pc \in {"ratio", "reload", AfterRebuild(thread[t].op)},
           thread[t].pc \in {"maybe", "ratio"}, Go(t, pc), Noting,
           pc = "ratio" => stats.Emitted > 0,
           UNCHANGED <<matchers, matcher, trigger, live, stats, lock, calls>>
    PROVE  IInv'
<1> DEFINE w == thread[t]
<1>1. \/ w.op = "delete" /\ pc \in {"ratio", "reload", "restore"}
      \/ w.op = "match" /\ pc \in {"ratio", "reload", "return"}
  <2>1. w.op \in {"delete", "match"}
    BY Own DEF CallHolds, OnItsWay
  <2>2. CASE w.op = "delete"
    <3>1. AfterRebuild(w.op) = "restore"
      BY <2>2 DEF AfterRebuild
    <3> QED BY <2>2, <3>1
  <2>3. CASE w.op = "match"
    <3>1. AfterRebuild(w.op) = "return"
      BY <2>3 DEF AfterRebuild
    <3> QED BY <2>3, <3>1
  <2> QED BY <2>1, <2>2, <2>3
<1>2. PICK v \in Calls : thread' = [thread EXCEPT ![t] = v] /\ v.pc = pc /\ Elsewhere(v, w)
  BY <1>1, Goes DEF Points
<1>3. CallHolds(v)' /\ MatchHolds(v)'
  BY <1>1, <1>2, Own DEF CallHolds, OnItsWay, MatchHolds, Entries, Elsewhere
<1>4. "add" \notin races' => IndexHolds(v)'
  <2>1. "add" \notin races' => IndexHolds(w)
    BY Own DEF Noting
  <2> QED BY <2>1, <1>1, <1>2 DEF IndexHolds, Due, Elsewhere, Entries
<1>5. "disable" \notin races' => HasTrigger(v)'
  BY <1>1, <1>2, Own DEF HasTrigger, Elsewhere, Noting
<1>6. IsFiniteSet(v.acc)
  BY <1>2, Own DEF Elsewhere
<1> QED BY <1>1, <1>2, <1>3, <1>4, <1>5, <1>6, OnlyThread DEF Elsewhere

(* The first look of tooMuchFiltering at the counters.                     *)
LEMMA EnoughActionStep ==
    ASSUME IInv, NEW t \in Threads, EnoughAction(t), Noting
    PROVE  IInv'
<1>1. PICK pc \in {"ratio", AfterRebuild(thread[t].op)} : Go(t, pc) /\ (pc = "ratio" => stats.Emitted > 0)
  <2>1. AfterRebuild(thread[t].op) # "ratio"
    BY Own DEF EnoughAction, At, CallHolds, OnItsWay, AfterRebuild
  <2> QED BY <2>1 DEF EnoughAction
<1> QED BY <1>1, AfterRebuildStep DEF EnoughAction, At

(* The second look.                                                        *)
LEMMA TooMuchFilteringStep ==
    ASSUME IInv, NEW t \in Threads, TooMuchFiltering(t), Noting
    PROVE  IInv'
<1>1. PICK pc \in {"reload", AfterRebuild(thread[t].op)} : Go(t, pc)
  BY DEF TooMuchFiltering
<1>2. pc # "ratio"
  BY Own DEF TooMuchFiltering, At, CallHolds, OnItsWay, AfterRebuild
<1> QED BY <1>1, <1>2, AfterRebuildStep DEF TooMuchFiltering, At

(* rebuildWhileLocked copies the fields.                                   *)
LEMMA ReloadStep ==
    ASSUME IInv, NEW t \in Threads, Reload(t), Noting
    PROVE  IInv'
<1> DEFINE w == thread[t]
<1>1. /\ w.pc = "reload" /\ w.op \in {"delete", "match"}
      /\ UNCHANGED <<matchers, matcher, trigger, live, stats, lock, calls>>
  BY Own DEF Reload, At, CallHolds, OnItsWay
<1>2. PICK v \in Calls :
         /\ v = [w EXCEPT !.pc = "iterate", !.freshTrigger = trigger]
         /\ thread' = [thread EXCEPT ![t] = v]
  <2>1. [w EXCEPT !.pc = "iterate", !.freshTrigger = trigger] \in Calls
    <3>1. w \in Calls /\ trigger \in BOOLEAN
      BY Own
    <3> HIDE DEF w
    <3> QED BY <3>1 DEF Calls, Points
  <2> QED BY <2>1 DEF Reload
<1>3. /\ v.op = w.op /\ v.arg = w.arg /\ v.mine = w.mine /\ v.myTrigger = w.myTrigger
      /\ v.freshTrigger = trigger /\ v.pc = "iterate" /\ v.must = w.must /\ v.seen = w.seen
      /\ v.acc = w.acc
  <2>1. w \in Calls
    BY Own
  <2> QED BY <1>2, <2>1 DEF Calls
<1>4. CallHolds(v)' /\ MatchHolds(v)'
  BY <1>1, <1>3, Own DEF CallHolds, OnItsWay, MatchHolds, Entries
<1>5. "add" \notin races' => IndexHolds(v)'
  <2>1. "add" \notin races' => IndexHolds(w)
    BY Own DEF Noting
  <2> QED BY <2>1, <1>1, <1>3 DEF IndexHolds, Due, Entries
<1>6. "disable" \notin races' => HasTrigger(v)'
  BY <1>1, <1>3, Own DEF HasTrigger, Noting
<1>7. IsFiniteSet(v.acc)
  BY <1>3, Own
<1> QED BY <1>1, <1>2, <1>3, <1>4, <1>5, <1>6, <1>7, OnlyThread

(* A match call asks the live set about one X.                             *)
LEMMA FilterOneStep ==
    ASSUME IInv, NEW t \in Threads, FilterOne(t), Noting
    PROVE  IInv'
<1> DEFINE w == thread[t]
<1>1. /\ w.pc = "filter" /\ w.op = "match"
      /\ UNCHANGED <<matchers, matcher, trigger, live, stats, lock, calls>>
  BY Own DEF FilterOne, At, CallHolds, OnItsWay
<1>2. PICK x \in w.todo, v \in Calls :
         /\ thread' = [thread EXCEPT ![t] = v]
         /\ v = [w EXCEPT !.todo = w.todo \ {x},
                          !.acc = IF x \in LiveXs THEN w.acc \cup {x} ELSE w.acc,
                          !.filtered = IF x \in LiveXs THEN w.filtered ELSE w.filtered + 1]
  <2>1. PICK x \in w.todo : thread' = [thread EXCEPT ![t].todo = @ \ {x},
                                  ![t].acc = IF x \in LiveXs THEN @ \cup {x} ELSE @,
                                  ![t].filtered = IF x \in LiveXs THEN @ ELSE @ + 1]
    BY DEF FilterOne
  <2> DEFINE v == [w EXCEPT !.todo = w.todo \ {x},
                            !.acc = IF x \in LiveXs THEN w.acc \cup {x} ELSE w.acc,
                            !.filtered = IF x \in LiveXs THEN w.filtered ELSE w.filtered + 1]
  <2>2. w \in Calls /\ thread \in [Threads -> Calls]
    BY Own DEF IInv, Types
  <2>3. v \in Calls
    <3> HIDE DEF w
    <3>1. w.todo \in SUBSET Xs /\ w.acc \in SUBSET Xs /\ w.filtered \in Int
      BY <2>2 DEF Calls
    <3> DEFINE todo == w.todo \ {x}
               acc == IF x \in LiveXs THEN w.acc \cup {x} ELSE w.acc
               filtered == IF x \in LiveXs THEN w.filtered ELSE w.filtered + 1
    <3>2. todo \in SUBSET Xs /\ acc \in SUBSET Xs /\ filtered \in Int
      BY <2>1, <3>1
    <3> HIDE DEF todo, acc, filtered
    <3>3. [w EXCEPT !.todo = todo, !.acc = acc, !.filtered = filtered] \in Calls
      BY <2>2, <3>2 DEF Calls
    <3> QED BY <3>3 DEF todo, acc, filtered
  <2>4. thread' = [thread EXCEPT ![t] = v]
    BY <2>1, <2>2 DEF Calls
  <2> QED BY <2>1, <2>3, <2>4
<1>3. /\ v.op = w.op /\ v.arg = w.arg /\ v.mine = w.mine /\ v.pc = "filter" /\ v.todo = w.todo \ {x}
      /\ v.must = w.must /\ v.seen = w.seen
      /\ v.acc = IF x \in LiveXs THEN w.acc \cup {x} ELSE w.acc
  <2>1. w \in Calls
    BY Own
  <2> HIDE DEF w
  <2> QED BY <1>1, <1>2, <2>1 DEF Calls
<1>4. CallHolds(v)'
  BY <1>1, <1>3, Own DEF CallHolds, OnItsWay
<1>5. MatchHolds(v)'
  <2>1. w.must \subseteq Entries /\ Entries \subseteq w.seen /\ w.acc \subseteq {e[1] : e \in w.seen}
    BY <1>1, Own DEF MatchHolds
  <2>2. x \in LiveXs => x \in {e[1] : e \in w.seen}
    BY <2>1 DEF LiveXs
  <2> QED BY <2>1, <2>2, <1>1, <1>3 DEF MatchHolds, Entries
<1>6. "add" \notin races' => IndexHolds(v)'
  <2>1. ASSUME "add" \notin races', NEW e \in Due(v) PROVE e[1] \in v.todo \cup v.acc
    <3>1. e \in Due(w) /\ e[1] \in w.todo \cup w.acc
      BY <2>1, <1>1, <1>3, Own DEF Due, Noting, IndexHolds
    <3>2. e[1] \in LiveXs
      BY <3>1, <1>1, Own DEF Due, MatchHolds, LiveXs
    <3> QED BY <3>1, <3>2, <1>3
  <2> QED BY <2>1, <1>1, <1>3 DEF IndexHolds, Due
<1>7. HasTrigger(v)'
  BY <1>1, <1>3 DEF HasTrigger
<1>8. IsFiniteSet(v.acc)
  <2>1. IsFiniteSet(w.acc) /\ IsFiniteSet(w.acc \cup {x})
    BY Own, FS_AddElement
  <2> QED BY <1>3, <2>1
<1> QED BY <1>1, <1>2, <1>3, <1>4, <1>5, <1>6, <1>7, <1>8, OnlyThread

-----------------------------------------------------------------------------
(* A goroutine between calls.                                              *)
LEMMA IdleIn ==
    /\ Idle \in Calls /\ Idle.op = "none" /\ Idle.pc = "idle" /\ Idle.acc = {}
    /\ IsFiniteSet(Idle.acc) /\ Pending(Idle) = 0
<1>1. Idle \in Calls
  BY DEF Idle, Calls, Ops, Points, Args
<1>2. Idle.op = "none" /\ Idle.pc = "idle" /\ Idle.acc = {}
  BY DEF Idle
<1> QED BY <1>1, <1>2, FS_EmptySet DEF Pending

(* matchesForFields begins.                                                *)
LEMMA BeginMatchStep ==
    ASSUME IInv, NEW t \in Threads, BeginMatch(t), Noting
    PROVE  IInv'
<1>1. PICK e \in Events : Begin(t, "match", <<e>>, "load")
  BY DEF BeginMatch
<1>2. PICK v \in Calls :
         /\ v = [Idle EXCEPT !.op = "match", !.pc = "load", !.arg = <<e>>, !.must = Entries, !.seen = Entries]
         /\ thread' = [thread EXCEPT ![t] = v]
  <2>1. Entries \subseteq Additions
    BY DEF Entries, Present
  <2>2. \A w \in Calls : [w EXCEPT !.op = "match", !.pc = "load", !.arg = <<e>>, !.must = Entries,
                                    !.seen = Entries] \in Calls
    BY <1>1, <2>1 DEF Calls, Ops, Points, Args
  <2> QED BY <1>1, <2>2, IdleIn DEF Begin
<1>3. v.op = "match" /\ v.pc = "load" /\ v.acc = {} /\ v.must = Entries /\ v.seen = Entries
  BY <1>2 DEF Idle
<1>4. /\ thread[t].op = "none" /\ calls' \in 0 .. MaxCalls
      /\ UNCHANGED <<matchers, matcher, trigger, live, stats, lock>>
  BY <1>1, Own DEF Begin, BeginMatch, At, CallHolds, OnItsWay
<1>5. CallHolds(v)' /\ MatchHolds(v)'
  BY <1>3, <1>4 DEF CallHolds, OnItsWay, MatchHolds, Entries
<1>6. IndexHolds(v)' /\ HasTrigger(v)'
  BY <1>3 DEF IndexHolds, HasTrigger
<1>7. races' \subseteq {"disable"} => (lock' = NoThread => stats'.Live = Size(live))
  BY <1>4, Own DEF Noting
<1>8. IsFiniteSet(v.acc) /\ Grown
  BY <1>3, <1>4, FS_EmptySet, Own, SameIsGrown
<1>9. /\ stats' \in Counters /\ stats.Emitted <= stats'.Emitted
      /\ lock' = lock /\ lock' # t /\ v.op \notin Holders
  BY <1>3, <1>4, Own DEF Holders
<1> QED BY <1>2, <1>3, <1>4, <1>5, <1>6, <1>7, <1>8, <1>9, Moved

(* A call ends, with or without a lock to give back.                       *)
LEMMA LeaveStep ==
    ASSUME IInv, NEW t \in Threads, thread[t].pc \in {"unlock", "return"}, Noting,
           thread' = [thread EXCEPT ![t] = Idle],
           lock' = IF thread[t].pc = "unlock" THEN NoThread ELSE lock,
           UNCHANGED <<matchers, matcher, trigger, live, stats, calls>>
    PROVE  IInv'
<1>1. PICK v \in Calls : v = Idle
  BY IdleIn
<1>2. CallHolds(v)' /\ MatchHolds(v)' /\ IndexHolds(v)' /\ HasTrigger(v)'
  BY <1>1, IdleIn DEF CallHolds, OnItsWay, MatchHolds, IndexHolds, HasTrigger
<1>3. \/ thread[t].pc = "unlock" /\ lock = t /\ lock' = NoThread
      \/ thread[t].pc = "return" /\ lock' = lock /\ lock # t
  BY Own DEF CallHolds, OnItsWay, Holders
<1>4. /\ Grown /\ stats' \in Counters /\ stats.Emitted <= stats'.Emitted /\ calls' \in 0 .. MaxCalls
      /\ lock' # t /\ v.op \notin Holders
  BY <1>1, <1>3, IdleIn, SameIsGrown, Own DEF Holders
<1>5. races' \subseteq {"disable"} =>
         /\ lock' = NoThread => stats'.Live = Size(live)
         /\ lock' \notin {t, NoThread} => stats'.Live = stats.Live
  <2> SUFFICES ASSUME races' \subseteq {"disable"}, lock' = NoThread PROVE stats.Live = Size(live)
    BY <1>3
  <2>1. CASE lock = NoThread
    BY <2>1, Own DEF Noting
  <2>2. CASE lock = t
    <3>1. stats.Live = Size(live) + 0
      BY <2>2, <1>3, Own DEF Noting, Pending
    <3> QED BY <3>1, SizeType
  <2> QED BY <1>3, <2>1, <2>2
<1> QED BY <1>1, <1>2, <1>3, <1>4, <1>5, IdleIn, Moved

(* addPattern adds to its coreMatcher, or is refused.                      *)
LEMMA AddToMatcherStep ==
    ASSUME IInv, NEW t \in Threads, AddToMatcher(t), Noting
    PROVE  IInv'
<1> DEFINE w == thread[t]
<1>1. /\ w.pc = "index" /\ w.op = "add" /\ w.arg \in Additions /\ w.mine \in DOMAIN matchers
      /\ UNCHANGED <<matcher, trigger, live, stats, lock, calls>>
  BY Own DEF AddToMatcher, At, CallHolds, OnItsWay
<1>2. PICK pc \in {"count", "unlock"} :
         /\ Go(t, pc)
         /\ pc = "count" => matchers' = [matchers EXCEPT ![w.mine] = @ \cup {w.arg}]
         /\ pc = "unlock" => matchers' = matchers
  BY DEF AddToMatcher
<1>3. PICK v \in Calls : thread' = [thread EXCEPT ![t] = v] /\ v.pc = pc /\ Elsewhere(v, w)
  BY <1>2, Goes DEF Points
<1>4. Grown
  BY <1>1, <1>2, Own DEF Grown
<1>5. CallHolds(v)' /\ MatchHolds(v)'
  BY <1>1, <1>2, <1>3, <1>4 DEF CallHolds, OnItsWay, MatchHolds, Elsewhere, Grown
<1>6. "add" \notin races' => IndexHolds(v)'
  <2>1. "add" \notin races' => w.mine = matcher
    BY <1>1, Own DEF Noting, IndexHolds
  <2> QED BY <2>1, <1>1, <1>2, <1>3, Own DEF IndexHolds, Elsewhere
<1>7. HasTrigger(v)'
  BY <1>1, <1>2, <1>3 DEF HasTrigger, Elsewhere
<1>8. races' \subseteq {"disable"} => stats'.Live = Size(live) + Pending(v)
  BY <1>1, <1>2, <1>3, Own DEF Noting, Pending, Holders
<1>9. /\ stats' \in Counters /\ stats.Emitted <= stats'.Emitted /\ calls' \in 0 .. MaxCalls
      /\ lock' = t /\ v.op \in Holders /\ lock' = lock /\ lock' # NoThread
      /\ IsFiniteSet(v.acc) /\ v.pc \notin {"ratio", "reset"}
  BY <1>1, <1>2, <1>3, Own DEF Elsewhere, Holders
<1> QED BY <1>1, <1>3, <1>4, <1>5, <1>6, <1>7, <1>8, <1>9, Moved

(* addPattern counts the Pattern before it is live.                        *)
LEMMA AddStatsStep ==
    ASSUME IInv, NEW t \in Threads, AddStats(t), Noting
    PROVE  IInv'
<1> DEFINE w == thread[t]
<1>1. /\ w.pc = "count" /\ w.op = "add" /\ w.arg \in Additions /\ w.mine \in DOMAIN matchers
      /\ UNCHANGED <<matchers, matcher, trigger, live, lock, calls>>
  BY Own DEF AddStats, At, CallHolds, OnItsWay
<1>2. PICK v \in Calls : thread' = [thread EXCEPT ![t] = v] /\ v.pc = "enliven" /\ Elsewhere(v, w)
  BY Goes DEF Points, AddStats
<1>3. CallHolds(v)' /\ MatchHolds(v)'
  BY <1>1, <1>2 DEF CallHolds, OnItsWay, MatchHolds, Elsewhere
<1>4. "add" \notin races' => IndexHolds(v)'
  <2>1. "add" \notin races' => IndexHolds(w)
    BY Own DEF Noting
  <2> QED BY <2>1, <1>1, <1>2 DEF IndexHolds, Elsewhere
<1>5. HasTrigger(v)'
  BY <1>1, <1>2 DEF HasTrigger, Elsewhere
<1>6. stats' \in Counters /\ stats'.Live = stats.Live + 1 /\ stats'.Emitted = stats.Emitted
  <2>1. stats \in Counters
    BY Own
  <2>2. stats' = [[stats EXCEPT !.Added = stats.Added + 1] EXCEPT !.Live = stats.Live + 1]
    BY <2>1 DEF AddStats, Counters
  <2>3. stats.Added + 1 \in Int /\ stats.Live + 1 \in Int
    BY <2>1 DEF Counters
  <2>4. [stats EXCEPT !.Added = stats.Added + 1] \in Counters
    BY <2>1, <2>3 DEF Counters
  <2> QED BY <2>1, <2>2, <2>3, <2>4 DEF Counters
<1>7. races' \subseteq {"disable"} => stats'.Live = Size(live) + Pending(v)
  <2>1. races' \subseteq {"disable"} => stats.Live = Size(live) + 0
    BY <1>1, Own DEF Noting, Pending, Holders
  <2> QED BY <2>1, <1>2, <1>6, SizeType DEF Pending
<1>8. /\ Grown /\ stats.Emitted <= stats'.Emitted /\ calls' \in 0 .. MaxCalls
      /\ lock' = t /\ v.op \in Holders /\ lock' = lock /\ lock' # NoThread
      /\ IsFiniteSet(v.acc) /\ v.pc \notin {"ratio", "reset"}
  BY <1>1, <1>2, <1>6, SameIsGrown, Own DEF Elsewhere, Holders
<1> QED BY <1>1, <1>2, <1>3, <1>4, <1>5, <1>6, <1>7, <1>8, Moved

(* deletePatterns takes off what it deleted.                               *)
LEMMA DeleteStatsStep ==
    ASSUME IInv, NEW t \in Threads, DeleteStats(t), Noting
    PROVE  IInv'
<1> DEFINE w == thread[t]
<1>1. /\ w.pc = "discount" /\ w.op = "delete" /\ w.mine \in DOMAIN matchers /\ w.count \in Int
      /\ UNCHANGED <<matchers, matcher, trigger, live, lock, calls>>
  BY Own DEF DeleteStats, At, CallHolds, OnItsWay, Calls
<1>2. PICK v \in Calls : thread' = [thread EXCEPT ![t] = v] /\ v.pc = "maybe" /\ Elsewhere(v, w)
  BY Goes DEF Points, DeleteStats
<1>3. CallHolds(v)' /\ MatchHolds(v)'
  BY <1>1, <1>2 DEF CallHolds, OnItsWay, MatchHolds, Elsewhere
<1>4. "add" \notin races' => IndexHolds(v)'
  <2>1. "add" \notin races' => IndexHolds(w)
    BY Own DEF Noting
  <2> QED BY <2>1, <1>1, <1>2 DEF IndexHolds, Elsewhere, Entries
<1>5. "disable" \notin races' => HasTrigger(v)'
  BY <1>1, <1>2, Own DEF HasTrigger, Elsewhere, Noting
<1>6. stats' \in Counters /\ stats'.Live = stats.Live - w.count /\ stats'.Emitted = stats.Emitted
  <2>1. stats \in Counters
    BY Own
  <2>2. stats.Deleted + w.count \in Int /\ stats.Live - w.count \in Int
    BY <1>1, <2>1 DEF Counters
  <2>3. stats' = [[stats EXCEPT !.Deleted = stats.Deleted + w.count] EXCEPT !.Live = stats.Live - w.count]
    BY <2>1 DEF DeleteStats, Counters
  <2> HIDE DEF w
  <2>4. [stats EXCEPT !.Deleted = stats.Deleted + w.count] \in Counters
    BY <2>1, <2>2 DEF Counters
  <2> QED BY <2>1, <2>2, <2>3, <2>4 DEF Counters
<1>7. races' \subseteq {"disable"} => stats'.Live = Size(live) + Pending(v)
  <2>1. races' \subseteq {"disable"} => stats.Live = Size(live) + w.count
    BY <1>1, Own DEF Noting, Pending, Holders
  <2> QED BY <2>1, <1>1, <1>2, <1>6, SizeType DEF Pending
<1>8. /\ Grown /\ stats.Emitted <= stats'.Emitted /\ calls' \in 0 .. MaxCalls
      /\ lock' = t /\ v.op \in Holders /\ lock' = lock /\ lock' # NoThread
      /\ IsFiniteSet(v.acc) /\ v.pc \notin {"ratio", "reset"}
  BY <1>1, <1>2, <1>6, SameIsGrown, Own DEF Elsewhere, Holders
<1> QED BY <1>1, <1>2, <1>3, <1>4, <1>5, <1>6, <1>7, <1>8, Moved

(* A match call counts what it filtered or emitted.                        *)
LEMMA MatchStatsStep ==
    ASSUME IInv, NEW t \in Threads, MatchStats(t), Noting
    PROVE  IInv'
<1> DEFINE w == thread[t]
<1>1. /\ w.op = "match" /\ w.mine \in DOMAIN matchers /\ w.pc \in {"filter", "emit"}
      /\ UNCHANGED <<matchers, matcher, trigger, live, lock, calls>>
  BY Own DEF MatchStats, At, CallHolds, OnItsWay
<1>2. PICK v \in Calls : /\ thread' = [thread EXCEPT ![t] = v] /\ Elsewhere(v, w)
                         /\ \/ w.pc = "filter" /\ w.todo = {} /\ v.pc = "emit"
                            \/ w.pc = "emit" /\ v.pc = "maybe"
  <2>1. CASE w.pc = "filter"
    BY <2>1, Goes DEF Points, MatchStats, At
  <2>2. CASE w.pc = "emit"
    BY <2>2, Goes DEF Points, MatchStats, At
  <2> QED BY <1>1, <2>1, <2>2
<1>3. CallHolds(v)' /\ MatchHolds(v)'
  BY <1>1, <1>2, Own DEF CallHolds, OnItsWay, MatchHolds, Elsewhere, Entries
<1>4. "add" \notin races' => IndexHolds(v)'
  <2>1. "add" \notin races' => IndexHolds(w)
    BY Own DEF Noting
  <2> QED BY <2>1, <1>1, <1>2 DEF IndexHolds, Elsewhere, Due
<1>5. HasTrigger(v)'
  BY <1>1, <1>2 DEF HasTrigger, Elsewhere
<1>6. stats' \in Counters /\ stats'.Live = stats.Live /\ stats.Emitted <= stats'.Emitted
  <2>1. stats \in Counters /\ stats.Emitted \in Nat /\ w.filtered \in Int /\ Cardinality(w.acc) \in Nat
    BY Own, FS_CardinalityType DEF Calls
  <2>2. CASE stats' = [stats EXCEPT !.Filtered = @ + w.filtered]
    BY <2>1, <2>2 DEF Counters
  <2>3. CASE stats' = [stats EXCEPT !.Emitted = @ + Cardinality(w.acc)]
    BY <2>1, <2>3 DEF Counters
  <2> QED BY <2>2, <2>3 DEF MatchStats
<1>7. races' \subseteq {"disable"} => (lock' = NoThread => stats'.Live = Size(live))
  BY <1>1, <1>6, Own DEF Noting
<1>8. /\ Grown /\ calls' \in 0 .. MaxCalls /\ lock' = lock /\ lock' # t /\ v.op \notin Holders
      /\ IsFiniteSet(v.acc) /\ v.pc \notin {"ratio", "reset"}
  BY <1>1, <1>2, SameIsGrown, Own DEF Elsewhere, Holders
<1> QED BY <1>1, <1>2, <1>3, <1>4, <1>5, <1>6, <1>7, <1>8, Moved

(* A rebuild fills its coreMatcher from the live set.                      *)
LEMMA IterateStep ==
    ASSUME IInv, NEW t \in Threads, Iterate(t), Noting
    PROVE  IInv'
<1> DEFINE w == thread[t]
           n == Len(matchers) + 1
<1>1. /\ w.pc = "iterate" /\ w.op \in {"delete", "rebuild", "match"} /\ w.mine \in DOMAIN matchers
      /\ UNCHANGED <<matcher, trigger, live, stats, lock, calls>>
  BY Own DEF Iterate, At, CallHolds, OnItsWay
<1>2. matchers \in Seq(SUBSET Additions) /\ Entries \in SUBSET Additions
  BY Own DEF Entries, Present
<1>3. /\ matchers' = Append(matchers, Entries) /\ n \in Nat
      /\ matchers' \in Seq(SUBSET Additions) /\ DOMAIN matchers = 1 .. Len(matchers)
      /\ DOMAIN matchers' = 1 .. n /\ matchers'[n] = Entries
      /\ \A m \in DOMAIN matchers : m \in DOMAIN matchers' /\ matchers'[m] = matchers[m]
  BY <1>2 DEF Iterate
<1>4. Grown
  BY <1>3 DEF Grown
<1>5. PICK v \in Calls :
         /\ v = [w EXCEPT !.pc = "reset", !.fresh = n, !.count = Size(live)]
         /\ thread' = [thread EXCEPT ![t] = v]
  <2>1. [w EXCEPT !.pc = "reset", !.fresh = n, !.count = Size(live)] \in Calls
    <3>1. w \in Calls /\ n \in Nat /\ Size(live) \in Int
      BY <1>3, Own, SizeType
    <3> HIDE DEF w, n
    <3> QED BY <3>1 DEF Calls, Points
  <2> QED BY <2>1 DEF Iterate
<1>6. /\ v.op = w.op /\ v.arg = w.arg /\ v.mine = w.mine /\ v.myTrigger = w.myTrigger
      /\ v.freshTrigger = w.freshTrigger /\ v.pc = "reset" /\ v.fresh = n /\ v.count = Size(live)
      /\ v.must = w.must /\ v.seen = w.seen /\ v.acc = w.acc
  <2>1. w \in Calls
    BY Own
  <2> HIDE DEF w, n
  <2> QED BY <1>5, <2>1 DEF Calls
<1>7. CallHolds(v)' /\ MatchHolds(v)'
  BY <1>1, <1>3, <1>4, <1>6, Own DEF CallHolds, OnItsWay, MatchHolds, Entries, Grown
<1>8. "add" \notin races' => IndexHolds(v)'
  <2>1. "add" \notin races' => IndexHolds(w)
    BY Own DEF Noting
  <2>2. matchers[w.mine] \subseteq matchers'[w.mine]
    BY <1>1, <1>4 DEF Grown
  <2>3. Entries' = Entries /\ Entries \subseteq matchers'[n]
    BY <1>1, <1>3 DEF Entries
  <2> QED BY <2>1, <2>2, <2>3, <1>1, <1>6 DEF IndexHolds, Due
<1>9. "disable" \notin races' => HasTrigger(v)'
  BY <1>1, <1>6, Own DEF HasTrigger, Noting
<1>10. races' \subseteq {"disable"} =>
         /\ lock' = NoThread => stats'.Live = Size(live)
         /\ lock' = t => stats'.Live = Size(live) + Pending(v)
  <2>1. Pending(v) = Pending(w)
    BY <1>1, <1>6 DEF Pending
  <2> QED BY <2>1, <1>1, Own DEF Noting
<1>11. /\ stats' \in Counters /\ stats.Emitted <= stats'.Emitted /\ calls' \in 0 .. MaxCalls
       /\ lock' = lock /\ (v.op \in Holders <=> lock' = t) /\ stats'.Live = stats.Live
       /\ IsFiniteSet(v.acc) /\ v.pc # "ratio" /\ v.count = Size(live)
  BY <1>1, <1>6, Own
<1> QED BY <1>1, <1>4, <1>5, <1>7, <1>8, <1>9, <1>10, <1>11, Moved

(* A call that holds the lock and changes the live set has been noted, if  *)
(* an unlocked rebuild is under way.                                       *)
LEMMA Overlapped ==
    ASSUME IInv, NEW t \in Threads, NEW u \in Threads
    PROVE  /\ Rebuilding(thread[t]) /\ Changing(thread[u]) => thread[u].op \in races
           /\ HoldingFields(thread[t]) /\ thread[u].op = "disable" /\ thread[u].pc # "unlock" => "disable" \in races
           /\ t # u => ~(thread[t].op \in Holders /\ thread[u].op \in Holders)
<1>1. /\ Rebuilding(thread[t]) /\ Changing(thread[u]) => thread[u].op \in races
      /\ HoldingFields(thread[t]) /\ thread[u].op = "disable" /\ thread[u].pc # "unlock" => "disable" \in races
  BY DEF IInv, Noted, Overlaps
<1>2. t # u => ~(thread[t].op \in Holders /\ thread[u].op \in Holders)
  BY DEF IInv, LockHeld
<1> QED BY <1>1, <1>2

(* A rebuild resets the counters: without the lock, only while nobody who  *)
(* holds it has a change of the live count pending.                        *)
LEMMA ResetStatsStep ==
    ASSUME IInv, NEW t \in Threads, ResetStats(t), Noting
    PROVE  IInv'
<1> DEFINE w == thread[t]
<1>1. /\ w.pc = "reset" /\ w.op \in {"delete", "rebuild", "match"} /\ w.mine \in DOMAIN matchers
      /\ w.count \in Int
      /\ UNCHANGED <<matchers, matcher, trigger, live, lock, calls>>
  BY Own DEF ResetStats, At, CallHolds, OnItsWay, Calls
<1>2. PICK v \in Calls : thread' = [thread EXCEPT ![t] = v] /\ v.pc = "store" /\ Elsewhere(v, w)
  BY Goes DEF Points, ResetStats
<1>3. CallHolds(v)' /\ MatchHolds(v)'
  BY <1>1, <1>2, Own DEF CallHolds, OnItsWay, MatchHolds, Elsewhere, Entries
<1>4. "add" \notin races' => IndexHolds(v)'
  <2>1. "add" \notin races' => IndexHolds(w)
    BY Own DEF Noting
  <2> QED BY <2>1, <1>1, <1>2 DEF IndexHolds, Elsewhere, Due, Entries
<1>5. "disable" \notin races' => HasTrigger(v)'
  BY <1>1, <1>2, Own DEF HasTrigger, Elsewhere, Noting
<1>6. stats' \in Counters /\ stats'.Live = w.count /\ stats'.Emitted = stats.Emitted
  <2>1. stats \in Counters /\ stats.Deleted \in Int
    BY Own DEF Counters
  <2>2. stats' = [[[[[stats EXCEPT !.RebuildPurged = stats.Deleted] EXCEPT !.Live = w.count]
                      EXCEPT !.Added = 0] EXCEPT !.Deleted = 0] EXCEPT !.Filtered = 0]
    BY DEF ResetStats
  <2> HIDE DEF w
  <2>3. [stats EXCEPT !.RebuildPurged = stats.Deleted] \in Counters
    BY <2>1 DEF Counters
  <2>4. \A s \in Counters : /\ [s EXCEPT !.Live = w.count] \in Counters
                            /\ [s EXCEPT !.Live = w.count].Live = w.count
                            /\ [s EXCEPT !.Live = w.count].Emitted = s.Emitted
    BY <1>1 DEF Counters
  <2>5. \A s \in Counters :
          /\ [s EXCEPT !.Added = 0] \in Counters /\ [s EXCEPT !.Added = 0].Live = s.Live
          /\ [s EXCEPT !.Added = 0].Emitted = s.Emitted
          /\ [s EXCEPT !.Deleted = 0] \in Counters /\ [s EXCEPT !.Deleted = 0].Live = s.Live
          /\ [s EXCEPT !.Deleted = 0].Emitted = s.Emitted
          /\ [s EXCEPT !.Filtered = 0] \in Counters /\ [s EXCEPT !.Filtered = 0].Live = s.Live
          /\ [s EXCEPT !.Filtered = 0].Emitted = s.Emitted
    BY DEF Counters
  <2>6. [stats EXCEPT !.RebuildPurged = stats.Deleted].Emitted = stats.Emitted
    BY <2>1 DEF Counters
  <2>7. PICK s1 \in Counters : s1 = [stats EXCEPT !.RebuildPurged = stats.Deleted]
    BY <2>3
  <2>8. PICK s2 \in Counters : s2 = [s1 EXCEPT !.Live = w.count] /\ s2.Live = w.count /\ s2.Emitted = s1.Emitted
    BY <2>4
  <2>9. PICK s3 \in Counters : s3 = [s2 EXCEPT !.Added = 0] /\ s3.Live = s2.Live /\ s3.Emitted = s2.Emitted
    BY <2>5
  <2>10. PICK s4 \in Counters : s4 = [s3 EXCEPT !.Deleted = 0] /\ s4.Live = s3.Live /\ s4.Emitted = s3.Emitted
    BY <2>5
  <2>11. PICK s5 \in Counters : s5 = [s4 EXCEPT !.Filtered = 0] /\ s5.Live = s4.Live /\ s5.Emitted = s4.Emitted
    BY <2>5
  <2>12. stats' = s5
    BY <2>2, <2>7, <2>8, <2>9, <2>10, <2>11
  <2> QED BY <2>6, <2>7, <2>8, <2>9, <2>10, <2>11, <2>12
<1>7. races' \subseteq {"disable"} => stats'.Live = Size(live) /\ Pending(v) = 0
  BY <1>1, <1>2, <1>6, Own DEF Noting, Pending
<1>8. races' \subseteq {"disable"} => (lock' \notin {t, NoThread} => stats'.Live = stats.Live)
  <2> SUFFICES ASSUME races' \subseteq {"disable"}, lock \notin {t, NoThread} PROVE Size(live) = stats.Live
    BY <1>1, <1>7
  <2>1. lock \in Threads /\ w.op = "match" /\ races \subseteq {"disable"}
    BY <1>1, Own DEF Noting, Holders
  <2>2. ~Changing(thread[lock])
    <3>1. Changing(thread[lock]) => thread[lock].op \in races
      BY <2>1, <1>1, Overlapped DEF Rebuilding
    <3> QED BY <3>1, <2>1 DEF Changing
  <2>3. CallHolds(thread[lock]) /\ stats.Live = Size(live) + Pending(thread[lock])
    BY <2>1, Own
  <2>4. Pending(thread[lock]) = 0
    BY <2>2, <2>3 DEF Changing, CallHolds, OnItsWay, Pending
  <2> QED BY <2>3, <2>4, SizeType
<1>9. /\ Grown /\ stats.Emitted <= stats'.Emitted /\ calls' \in 0 .. MaxCalls
      /\ lock' = lock /\ (v.op \in Holders <=> lock' = t)
      /\ IsFiniteSet(v.acc) /\ v.pc \notin {"ratio", "reset"}
  BY <1>1, <1>2, <1>6, SameIsGrown, Own DEF Elsewhere
<1>10. races' \subseteq {"disable"} => stats'.Live = Size(live) + Pending(v)
  BY <1>7, SizeType
<1> QED BY <1>1, <1>2, <1>3, <1>4, <1>5, <1>6, <1>7, <1>8, <1>9, <1>10, Moved

-----------------------------------------------------------------------------
(* New fields are stored, by a call that then goes on to pc.               *)
LEMMA StoredStep ==
    ASSUME IInv, NEW t \in Threads, NEW pc \in {"unlock", "restore", "return"}, Go(t, pc), Noting,
           UNCHANGED <<matchers, live, stats, lock, calls>>,
           matcher' \in DOMAIN matchers, trigger' \in BOOLEAN,
           thread[t].pc \in {"store", "restore", "untrigger"}, thread[t].mine \in DOMAIN matchers,
           CallHolds([thread[t] EXCEPT !.pc = pc]),
           "add" \notin races => Entries \subseteq matchers[matcher'],
           \A u \in Threads : u # t =>
              /\ "add" \notin races => ~(thread[u].op = "add" /\ thread[u].pc \in {"index", "count", "enliven"})
              /\ "disable" \notin races =>
                    \/ trigger' = trigger
                    \/ /\ ~(thread[u].op = "delete" /\ thread[u].pc \notin {"load", "unlock"})
                       /\ thread[u].pc \notin {"iterate", "reset", "store"},
           "disable" \notin races => \/ pc # "restore"
                                     \/ trigger' = trigger
    PROVE  IInv'
<1> DEFINE w == thread[t]
<1>1. PICK v \in Calls : thread' = [thread EXCEPT ![t] = v] /\ v.pc = pc /\ Elsewhere(v, w)
  BY Goes DEF Points
<1>2. /\ thread' \in [Threads -> Calls] /\ thread'[t] = v
      /\ \A u \in Threads : u # t => thread'[u] = thread[u]
  BY <1>1 DEF IInv, Types
<1>3. races \subseteq races'
  BY DEF Noting
<1>4. Entries' = Entries /\ Size(live)' = Size(live) /\ Copies(live)' = Copies(live)
  BY DEF Entries, Size, Copies, Present
<1>5. Types'
  BY <1>2 DEF IInv, Types, Noting, Overlaps, Changing
<1>6. w.pc \in {"store", "restore", "untrigger"} /\ CallHolds(w) /\ w \in Calls
  BY Own
<1>7. v = [w EXCEPT !.pc = pc]
  BY <1>1, <1>6 DEF Go, IInv, Types
<1>8. \A u \in Threads : CallHolds(thread[u])'
  <2>1. CallHolds(v)'
    BY <1>7 DEF CallHolds, OnItsWay
  <2> QED BY <1>2, <2>1 DEF IInv, CallHolds, OnItsWay
<1>9. LockHeld'
  BY <1>1, <1>2 DEF IInv, LockHeld, Elsewhere
<1>10. Counted'
  BY <1>1, <1>2, <1>4 DEF IInv, Counted, RatioIsDefined, Elsewhere
<1>11. \A u \in Threads : MatchHolds(thread[u])'
  BY <1>1, <1>2, <1>4 DEF IInv, MatchHolds, Elsewhere
<1>12. Noted'
  BY DEF Noting, Noted
<1>13. Indexed'
  <2> SUFFICES ASSUME "add" \notin races'
               PROVE  Entries' \subseteq matchers'[matcher'] /\ \A u \in Threads : IndexHolds(thread[u])'
    BY DEF Indexed
  <2>1. "add" \notin races /\ \A u \in Threads : IndexHolds(thread[u])
    BY <1>3 DEF IInv, Indexed
  <2>2. ASSUME NEW u \in Threads, u # t PROVE IndexHolds(thread[u])'
    <3>1. thread'[u] = thread[u] /\ IndexHolds(thread[u])
      BY <1>2, <2>1, <2>2
    <3>2. ~(thread[u].op = "add" /\ thread[u].pc \in {"index", "count", "enliven"})
      BY <2>1, <2>2
    <3> QED BY <3>1, <3>2, <1>4 DEF IndexHolds, Due
  <2>3. IndexHolds(thread[t])'
    <3>1. IndexHolds(w)
      BY <2>1
    <3>2. /\ w.op = "match" => w.pc = "store" /\ pc = "return"
          /\ w.op = "add" => FALSE
      BY <1>6, <1>7 DEF CallHolds, OnItsWay
    <3> QED BY <3>1, <3>2, <1>1, <1>2, <1>4, <1>6 DEF IndexHolds, Due, Elsewhere
  <2> QED BY <2>1, <2>2, <2>3, <1>4
<1>14. TriggerCopied'
  <2> SUFFICES ASSUME "disable" \notin races', NEW u \in Threads PROVE HasTrigger(thread[u])'
    BY DEF TriggerCopied
  <2>1. "disable" \notin races /\ HasTrigger(thread[u])
    BY <1>3 DEF IInv, TriggerCopied
  <2>2. CASE u # t
    BY <2>1, <2>2, <1>2 DEF HasTrigger
  <2>3. CASE u = t
    <3>1. w.op = "delete" => pc \in {"restore", "unlock"}
      BY <1>6, <1>7 DEF CallHolds, OnItsWay
    <3> QED BY <2>1, <2>3, <3>1, <1>1, <1>2, <1>6 DEF HasTrigger, Elsewhere
  <2> QED BY <2>2, <2>3
<1>15. CountRight'
  <2> SUFFICES ASSUME races' \subseteq {"disable"} PROVE CountRight'
    BY DEF CountRight
  <2>1. CountRight /\ races \subseteq {"disable"}
    BY <1>3 DEF IInv
  <2>2. \A u \in Threads : Pending(thread'[u]) = Pending(thread[u])
    BY <1>1, <1>2 DEF Pending
  <2>3. \A u \in Threads : thread'[u].pc = "reset" => thread'[u].count = Size(live)
    BY <1>1, <1>2, <2>1 DEF CountRight
  <2>4. lock \in Threads => Pending(thread[lock])' = Pending(thread[lock])
    BY <2>2 DEF Pending
  <2> QED BY <2>1, <2>3, <2>4, <1>4 DEF CountRight
<1> QED BY <1>5, <1>8, <1>9, <1>10, <1>11, <1>12, <1>13, <1>14, <1>15 DEF IInv

(* deletePatterns stores the fields it loaded first.                       *)
LEMMA RestoreFieldsStep ==
    ASSUME IInv, NEW t \in Threads, RestoreFields(t), Noting
    PROVE  IInv' /\ ("disable" \notin races => trigger' = trigger)
<1> DEFINE w == thread[t]
<1>1. /\ w.pc = "restore" /\ w.op = "delete" /\ w.mine \in DOMAIN matchers /\ w \in Calls /\ CallHolds(w)
      /\ matcher' = w.mine /\ trigger' = w.myTrigger /\ Go(t, "unlock")
      /\ UNCHANGED <<matchers, live, stats, lock, calls>>
  BY Own DEF RestoreFields, At, CallHolds, OnItsWay
<1>2. trigger' \in BOOLEAN /\ CallHolds([w EXCEPT !.pc = "unlock"])
  <2> HIDE DEF w
  <2> QED BY <1>1 DEF Calls, CallHolds, OnItsWay
<1>3. "disable" \notin races => trigger' = trigger
  BY <1>1, Own DEF HasTrigger
<1>4. "add" \notin races => Entries \subseteq matchers[matcher']
  BY <1>1, Own DEF IndexHolds
<1>5. \A u \in Threads : u # t => thread[u].op # "add"
  BY <1>1, Overlapped DEF Holders
<1> QED BY <1>1, <1>2, <1>3, <1>4, <1>5, StoredStep

(* disableRebuild stores fields without a trigger.                         *)
LEMMA DisableTriggerStep ==
    ASSUME IInv, NEW t \in Threads, DisableTrigger(t), Noting
    PROVE  IInv' /\ ~trigger'
<1> DEFINE w == thread[t]
<1>1. /\ w.pc = "untrigger" /\ w.op = "disable" /\ w.mine \in DOMAIN matchers /\ w \in Calls /\ CallHolds(w)
      /\ matcher' = w.mine /\ trigger' = FALSE /\ Go(t, "unlock")
      /\ UNCHANGED <<matchers, live, stats, lock, calls>>
  BY Own DEF DisableTrigger, At, CallHolds, OnItsWay
<1>2. CallHolds([w EXCEPT !.pc = "unlock"])
  <2> HIDE DEF w
  <2> QED BY <1>1 DEF Calls, CallHolds, OnItsWay
<1>3. "add" \notin races => Entries \subseteq matchers[matcher']
  BY <1>1, Own DEF IndexHolds
<1>4. ASSUME NEW u \in Threads, u # t
      PROVE  /\ thread[u].op \notin Holders
             /\ "disable" \notin races => thread[u].pc \notin {"iterate", "reset", "store"}
  <2>1. thread[u].op \notin Holders
    BY <1>1, <1>4, Overlapped DEF Holders
  <2>2. thread[u].op \in {"match", "none"} /\ (thread[u].op = "none" => thread[u].pc = "idle")
    BY <2>1, Own DEF CallHolds, OnItsWay, Holders
  <2>3. "disable" \notin races => ~HoldingFields(thread[u])
    BY <1>1, Overlapped
  <2> QED BY <2>1, <2>2, <2>3 DEF HoldingFields, Rebuilding
<1>5. \A u \in Threads : u # t => thread[u].op \notin {"add", "delete"}
  BY <1>4 DEF Holders
<1> QED BY <1>1, <1>2, <1>3, <1>4, <1>5, StoredStep

(* A rebuild stores its fields.                                            *)
LEMMA StoreRebuiltStep ==
    ASSUME IInv, NEW t \in Threads, StoreRebuilt(t), Noting
    PROVE  IInv' /\ ("disable" \notin races => trigger' = trigger)
<1> DEFINE w == thread[t]
           pc == AfterRebuild(w.op)
<1>1. /\ w.pc = "store" /\ w.op \in {"delete", "rebuild", "match"}
      /\ w.mine \in DOMAIN matchers /\ w.fresh \in DOMAIN matchers /\ w \in Calls /\ CallHolds(w)
      /\ matcher' = w.fresh /\ trigger' = w.freshTrigger /\ Go(t, pc)
      /\ UNCHANGED <<matchers, live, stats, lock, calls>>
  BY Own DEF StoreRebuilt, At, CallHolds, OnItsWay
<1>2. \/ w.op = "delete" /\ pc = "restore"
      \/ w.op = "rebuild" /\ pc = "unlock"
      \/ w.op = "match" /\ pc = "return"
  BY <1>1 DEF AfterRebuild
<1>3. trigger' \in BOOLEAN /\ CallHolds([w EXCEPT !.pc = pc])
  <2> HIDE DEF w, pc
  <2> QED BY <1>1, <1>2 DEF Calls, CallHolds, OnItsWay
<1>4. "disable" \notin races => trigger' = trigger
  BY <1>1, Own DEF HasTrigger
<1>5. "add" \notin races => Entries \subseteq matchers[matcher']
  BY <1>1, Own DEF IndexHolds
<1>6. ASSUME NEW u \in Threads, u # t, "add" \notin races
      PROVE  ~(thread[u].op = "add" /\ thread[u].pc \in {"index", "count", "enliven"})
  <2>1. CASE w.op \in Holders
    BY <2>1, <1>6, Overlapped DEF Holders
  <2>2. CASE w.op = "match"
    BY <2>2, <1>1, <1>6, Overlapped DEF Rebuilding, Changing
  <2> QED BY <2>1, <2>2, <1>1 DEF Holders
<1> QED BY <1>1, <1>2, <1>3, <1>4, <1>5, <1>6, StoredStep

-----------------------------------------------------------------------------
(* The live set changes, under the lock: what the other calls have noted   *)
(* of it changes along, and nothing else about them.                       *)
OnlyNotes(v, w) ==
    /\ v.op = w.op /\ v.pc = w.pc /\ v.arg = w.arg /\ v.mine = w.mine /\ v.myTrigger = w.myTrigger
    /\ v.fresh = w.fresh /\ v.freshTrigger = w.freshTrigger /\ v.count = w.count
    /\ v.todo = w.todo /\ v.acc = w.acc /\ v.filtered = w.filtered

(* The call that holds the lock changes the live set.                      *)
LEMMA EnlivenedStep ==
    ASSUME IInv, NEW t \in Threads, Noting, UNCHANGED <<matchers, matcher, trigger, stats, lock, calls>>,
           live' \in [Additions -> Nat], IsFiniteSet(Copies(live')),
           thread' \in [Threads -> Calls], lock = t,
           thread'[t].op = thread[t].op, CallHolds(thread[t])', IsFiniteSet(thread'[t].acc),
           thread'[t].pc \notin {"ratio", "reset"}, thread[t].op # "match",
           \A u \in Threads : u # t => /\ OnlyNotes(thread'[u], thread[u])
                                       /\ thread'[u].must \subseteq thread[u].must
                                       /\ MatchHolds(thread[u])'
                                       /\ "add" \notin races /\ thread[u].pc \in {"reset", "store"} => Entries' \subseteq Entries,
           "add" \notin races => Entries' \subseteq matchers[matcher] /\ IndexHolds(thread[t])',
           "disable" \notin races => HasTrigger(thread[t])',
           Changing(thread[t]),
           races \subseteq {"disable"} => stats.Live = Size(live') + Pending(thread'[t])
    PROVE  IInv'
<1>1. races \subseteq races' /\ thread[t].op \in Holders /\ t \in Threads /\ t # NoThread
  BY Own DEF Noting
<1>2. \A u \in Threads : u # t => /\ thread[u].op \notin Holders
                                  /\ thread[u].pc \in {"reset", "store"} => thread[t].op \in races
  <2> SUFFICES ASSUME NEW u \in Threads, u # t
               PROVE  /\ thread[u].op \notin Holders
                      /\ thread[u].pc \in {"reset", "store"} => thread[t].op \in races
    OBVIOUS
  <2>1. thread[u].op \notin Holders
    BY <1>1, Overlapped
  <2>2. thread[u].pc \in {"reset", "store"} => Rebuilding(thread[u])
    BY <2>1, Own DEF CallHolds, OnItsWay, Rebuilding, Holders
  <2> QED BY <2>1, <2>2, Overlapped
<1>3. Types'
  BY DEF IInv, Types, Noting, Overlaps, Changing
<1>4. \A u \in Threads : CallHolds(thread[u])'
  BY DEF IInv, CallHolds, OnItsWay, OnlyNotes
<1>5. LockHeld'
  BY DEF IInv, LockHeld, OnlyNotes
<1>6. Counted'
  BY DEF IInv, Counted, RatioIsDefined, OnlyNotes
<1>7. \A u \in Threads : MatchHolds(thread[u])'
  <2>1. MatchHolds(thread[t])'
    BY DEF MatchHolds
  <2> QED BY <2>1
<1>8. Noted'
  BY DEF Noting, Noted
<1>9. Indexed'
  <2> SUFFICES ASSUME "add" \notin races', NEW u \in Threads, u # t PROVE IndexHolds(thread[u])'
    BY <1>1 DEF Indexed
  <2>1. IndexHolds(thread[u]) /\ thread[u].op \notin Holders /\ OnlyNotes(thread'[u], thread[u])
    BY <1>1, <1>2 DEF IInv, Indexed
  <2>2. Due(thread[u])' \subseteq Due(thread[u])
    BY DEF Due, OnlyNotes
  <2>3. /\ thread'[u].must \subseteq thread[u].must
        /\ thread[u].pc \in {"reset", "store"} => Entries' \subseteq Entries
    BY <1>1
  <2> QED BY <2>1, <2>2, <2>3 DEF IndexHolds, OnlyNotes, Holders
<1>10. TriggerCopied'
  <2> SUFFICES ASSUME "disable" \notin races', NEW u \in Threads, u # t PROVE HasTrigger(thread[u])'
    BY <1>1 DEF TriggerCopied
  <2>1. HasTrigger(thread[u]) /\ OnlyNotes(thread'[u], thread[u])
    BY <1>1 DEF IInv, TriggerCopied
  <2> QED BY <2>1 DEF HasTrigger, OnlyNotes
<1>11. CountRight'
  <2> SUFFICES ASSUME races' \subseteq {"disable"} PROVE CountRight'
    BY DEF CountRight
  <2>1. races \subseteq {"disable"} /\ thread[t].op \notin races
    BY <1>1 DEF Changing
  <2>2. \A u \in Threads : thread'[u].pc # "reset"
    BY <1>2, <2>1 DEF OnlyNotes
  <2>3. stats'.Live = Size(live)' + Pending(thread[lock])'
    BY <2>1 DEF Size, Copies, Present, Pending
  <2> QED BY <1>1, <2>2, <2>3 DEF CountRight
<1> QED BY <1>3, <1>4, <1>5, <1>6, <1>7, <1>8, <1>9, <1>10, <1>11 DEF IInv

(* addPattern adds to the live set, and every match call under way sees it. *)
LEMMA AddLiveStep ==
    ASSUME IInv, NEW t \in Threads, AddLive(t), Noting
    PROVE  IInv'
<1> DEFINE w == thread[t]
           a == w.arg
<1>1. /\ w.pc = "enliven" /\ w.op = "add" /\ a \in Additions /\ w.mine \in DOMAIN matchers /\ w \in Calls
      /\ UNCHANGED <<matchers, matcher, trigger, stats, lock, calls>>
      /\ live' = [live EXCEPT ![a] = @ + 1]
  BY Own DEF AddLive, At, CallHolds, OnItsWay
<1>2. /\ live' \in [Additions -> Nat] /\ IsFiniteSet(Copies(live')) /\ Size(live') = Size(live) + 1
      /\ Entries' = Entries \cup {a}
  BY <1>1, SizeAdded DEF Entries
<1>3. /\ DOMAIN thread' = Threads
      /\ thread'[t] = [w EXCEPT !.pc = "unlock"]
      /\ \A u \in Threads : u # t =>
            thread'[u] = IF thread[u].op = "match" THEN [thread[u] EXCEPT !.seen = @ \cup {a}] ELSE thread[u]
      /\ thread' = [u \in Threads |-> thread'[u]]
  BY DEF AddLive
<1>4. /\ thread'[t] \in Calls /\ thread'[t].op = "add" /\ thread'[t].pc = "unlock" /\ thread'[t].mine = w.mine
      /\ thread'[t].arg = a /\ thread'[t].acc = w.acc
  <2> HIDE DEF w
  <2> QED BY <1>1, <1>3 DEF Calls, Points
<1>5. ASSUME NEW u \in Threads, u # t
      PROVE  /\ thread'[u] \in Calls /\ OnlyNotes(thread'[u], thread[u]) /\ thread'[u].must = thread[u].must
             /\ thread[u].op = "match" => thread'[u].seen = thread[u].seen \cup {a}
  <2> DEFINE x == thread[u]
             y == thread'[u]
  <2>1. x \in Calls /\ y = IF x.op = "match" THEN [x EXCEPT !.seen = @ \cup {a}] ELSE x
    BY <1>3, <1>5, Own
  <2> HIDE DEF x, y
  <2>2. y \in Calls /\ OnlyNotes(y, x) /\ y.must = x.must /\ (x.op = "match" => y.seen = x.seen \cup {a})
    BY <1>1, <2>1 DEF Calls, OnlyNotes
  <2> QED BY <2>2 DEF x, y
<1>6. thread' \in [Threads -> Calls]
  BY <1>3, <1>4, <1>5
<1>7. ASSUME NEW u \in Threads, u # t PROVE MatchHolds(thread[u])'
  <2>1. MatchHolds(thread[u])
    BY Own
  <2> QED BY <1>2, <1>5, <1>7, <2>1 DEF MatchHolds, OnlyNotes
<1>8. "add" \notin races => Entries' \subseteq matchers[matcher] /\ IndexHolds(thread[t])'
  BY <1>1, <1>2, <1>4, Own DEF IndexHolds
<1>9. HasTrigger(thread[t])' /\ CallHolds(thread[t])'
  BY <1>1, <1>4 DEF HasTrigger, CallHolds, OnItsWay
<1>10. lock = t /\ Changing(w) /\ IsFiniteSet(w.acc)
  BY <1>1, Own DEF Holders, Changing
<1>11. \A u \in Threads : u # t => ("add" \notin races => thread[u].pc \notin {"reset", "store"})
  <2> SUFFICES ASSUME NEW u \in Threads, u # t, "add" \notin races, thread[u].pc \in {"reset", "store"} PROVE FALSE
    OBVIOUS
  <2>1. ~Rebuilding(thread[u]) /\ thread[u].op \notin Holders
    BY <1>1, <1>10, Overlapped DEF Holders
  <2> QED BY <2>1, Own DEF CallHolds, OnItsWay, Rebuilding, Holders
<1>12. races \subseteq {"disable"} => stats.Live = Size(live') + Pending(thread'[t])
  <2>1. races \subseteq {"disable"} => stats.Live = Size(live) + 1
    BY <1>1, <1>10, Own DEF Pending
  <2> QED BY <2>1, <1>2, <1>4, SizeType DEF Pending
<1>13. /\ thread'[t].op = thread[t].op /\ thread[t].op # "match" /\ IsFiniteSet(thread'[t].acc)
       /\ thread'[t].pc \notin {"ratio", "reset"}
  BY <1>1, <1>4, <1>10
<1>14. \A u \in Threads : u # t => /\ OnlyNotes(thread'[u], thread[u])
                                   /\ thread'[u].must \subseteq thread[u].must
                                   /\ MatchHolds(thread[u])'
                                   /\ "add" \notin races /\ thread[u].pc \in {"reset", "store"} => Entries' \subseteq Entries
  BY <1>5, <1>7, <1>11
<1> QED BY <1>1, <1>2, <1>6, <1>8, <1>9, <1>10, <1>12, <1>13, <1>14, EnlivenedStep

(* deletePatterns deletes from the live set.                               *)
LEMMA DeleteLiveStep ==
    ASSUME IInv, NEW t \in Threads, DeleteLive(t), Noting
    PROVE  IInv'
<1> DEFINE w == thread[t]
           x == w.arg[1]
           n == Size(live) - Size(live')
           pc == IF n > 0 THEN "discount" ELSE "unlock"
<1>1. /\ w.pc = "drop" /\ w.op = "delete" /\ w.mine \in DOMAIN matchers /\ w \in Calls
      /\ UNCHANGED <<matchers, matcher, trigger, stats, lock, calls>>
      /\ live' = [e \in Additions |-> IF e[1] = x THEN 0 ELSE live[e]]
  BY Own DEF DeleteLive, At, CallHolds, OnItsWay
<1>2. /\ live' \in [Additions -> Nat] /\ IsFiniteSet(Copies(live')) /\ n \in Nat
      /\ Size(live') \in Nat /\ Size(live) \in Nat
      /\ Entries' = {e \in Entries : e[1] # x}
  BY <1>1, SizeKept, SizeType DEF Entries
<1>3. /\ DOMAIN thread' = Threads
      /\ thread'[t] = [w EXCEPT !.pc = pc, !.count = n]
      /\ \A u \in Threads : u # t => thread'[u] = [thread[u] EXCEPT !.must = {e \in @ : e[1] # x}]
      /\ thread' = [u \in Threads |-> thread'[u]]
  BY DEF DeleteLive
<1>4. /\ thread'[t] \in Calls /\ thread'[t].op = "delete" /\ thread'[t].pc = pc /\ thread'[t].mine = w.mine
      /\ thread'[t].myTrigger = w.myTrigger /\ thread'[t].arg = w.arg /\ thread'[t].acc = w.acc
      /\ thread'[t].count = n
  <2>1. pc \in Points /\ n \in Int
    BY <1>2 DEF Points
  <2> HIDE DEF w, pc, n
  <2> QED BY <1>1, <1>3, <2>1 DEF Calls
<1>5. ASSUME NEW u \in Threads, u # t
      PROVE  /\ thread'[u] \in Calls /\ OnlyNotes(thread'[u], thread[u]) /\ thread'[u].seen = thread[u].seen
             /\ thread'[u].must = {e \in thread[u].must : e[1] # x}
  <2> DEFINE old == thread[u]
             new == thread'[u]
  <2>1. old \in Calls /\ new = [old EXCEPT !.must = {e \in @ : e[1] # x}]
    BY <1>3, <1>5, Own
  <2> HIDE DEF old, new, x
  <2>2. new \in Calls /\ OnlyNotes(new, old) /\ new.seen = old.seen /\ new.must = {e \in old.must : e[1] # x}
    BY <2>1 DEF Calls, OnlyNotes
  <2> QED BY <2>2 DEF old, new
<1>6. thread' \in [Threads -> Calls]
  BY <1>3, <1>4, <1>5
<1>7. ASSUME NEW u \in Threads, u # t PROVE MatchHolds(thread[u])'
  <2>1. MatchHolds(thread[u])
    BY Own
  <2> QED BY <1>2, <1>5, <1>7, <2>1 DEF MatchHolds, OnlyNotes
<1>8. "add" \notin races => Entries' \subseteq matchers[matcher] /\ IndexHolds(thread[t])'
  <2>1. "add" \notin races => Entries \subseteq matchers[matcher] /\ Entries \subseteq matchers[w.mine]
    BY <1>1, Own DEF IndexHolds
  <2> QED BY <2>1, <1>1, <1>2, <1>4 DEF IndexHolds
<1>9. CallHolds(thread[t])' /\ ("disable" \notin races => HasTrigger(thread[t])')
  <2>1. "disable" \notin races => w.myTrigger = trigger
    BY <1>1, Own DEF HasTrigger
  <2> QED BY <2>1, <1>1, <1>4 DEF HasTrigger, CallHolds, OnItsWay
<1>10. lock = t /\ Changing(w) /\ IsFiniteSet(w.acc)
  BY <1>1, Own DEF Holders, Changing
<1>11. races \subseteq {"disable"} => stats.Live = Size(live') + Pending(thread'[t])
  <2>1. races \subseteq {"disable"} => stats.Live = Size(live) + 0
    BY <1>1, <1>10, Own DEF Pending
  <2>2. Pending(thread'[t]) = IF n > 0 THEN n ELSE 0
    BY <1>4 DEF Pending
  <2> QED BY <2>1, <2>2, <1>2
<1>12. /\ thread'[t].op = thread[t].op /\ thread[t].op # "match" /\ IsFiniteSet(thread'[t].acc)
       /\ thread'[t].pc \notin {"ratio", "reset"}
  BY <1>1, <1>4, <1>10
<1>13. \A u \in Threads : u # t => /\ OnlyNotes(thread'[u], thread[u])
                                   /\ thread'[u].must \subseteq thread[u].must
                                   /\ MatchHolds(thread[u])'
                                   /\ "add" \notin races /\ thread[u].pc \in {"reset", "store"} => Entries' \subseteq Entries
  BY <1>2, <1>5, <1>7
<1> QED BY <1>1, <1>2, <1>6, <1>8, <1>9, <1>10, <1>11, <1>12, <1>13, EnlivenedStep

-----------------------------------------------------------------------------
(* newPrunerMatcher.                                                       *)
LEMMA InitHolds == Init => IInv /\ Pointed
<1> SUFFICES ASSUME Init PROVE IInv /\ Pointed
  OBVIOUS
<1>1. \A t \in Threads : thread[t] = Idle
  BY DEF Init
<1>2. Entries = {} /\ Copies(live) = {} /\ Size(live) = 0
  BY FS_EmptySet DEF Init, Entries, Present, Copies, Size
<1>3. Types
  <2>1. matchers \in Seq(SUBSET Additions) /\ matcher \in DOMAIN matchers
    BY DEF Init
  <2> QED BY <2>1, IdleIn, PrunerAssumption DEF Init, Types
<1>4. \A t \in Threads : CallHolds(thread[t]) /\ MatchHolds(thread[t]) /\ IndexHolds(thread[t]) /\ HasTrigger(thread[t])
  BY <1>1, IdleIn DEF CallHolds, OnItsWay, MatchHolds, IndexHolds, HasTrigger
<1>5. LockHeld
  BY <1>1, IdleIn, PrunerAssumption DEF Init, LockHeld, Holders
<1>6. Counted
  BY <1>1, <1>2, IdleIn, FS_EmptySet DEF Init, Counted, RatioIsDefined
<1>7. Noted
  BY <1>1, IdleIn DEF Init, Noted, Overlaps, Changing
<1>8. Indexed /\ TriggerCopied
  BY <1>2, <1>4 DEF Indexed, TriggerCopied
<1>9. CountRight
  BY <1>1, <1>2, IdleIn, PrunerAssumption DEF Init, CountRight
<1>10. Pointed
  BY <1>1 DEF Init, Pointed, Idle
<1> QED BY <1>3, <1>4, <1>5, <1>6, <1>7, <1>8, <1>9, <1>10 DEF IInv

(* The invariant survives every action.                                    *)
LEMMA StepHolds ==
    ASSUME IInv, NEW t \in Threads, Step(t), Noting
    PROVE  IInv'
<1>1. CASE BeginAdd(t)
  <2>1. PICK a \in Additions : Locked(t, "add", a)
    BY <1>1 DEF BeginAdd
  <2> QED BY <2>1, LockedStep DEF Holders, Args
<1>2. CASE BeginDelete(t)
  <2>1. PICK x \in Xs : Locked(t, "delete", <<x>>)
    BY <1>2 DEF BeginDelete
  <2> QED BY <2>1, LockedStep DEF Holders, Args
<1>3. CASE BeginRebuild(t)
  BY <1>3, LockedStep DEF BeginRebuild, Holders, Args
<1>4. CASE BeginDisable(t)
  BY <1>4, LockedStep DEF BeginDisable, Holders, Args
<1>5. CASE BeginMatch(t)
  BY <1>5, BeginMatchStep
<1>6. CASE Load(t)
  BY <1>6, LoadStep
<1>7. CASE AddToMatcher(t) \/ AddStats(t) \/ AddLive(t)
  BY <1>7, AddToMatcherStep, AddStatsStep, AddLiveStep
<1>8. CASE DeleteLive(t) \/ DeleteStats(t) \/ RestoreFields(t)
  BY <1>8, DeleteLiveStep, DeleteStatsStep, RestoreFieldsStep
<1>9. CASE DisableTrigger(t)
  BY <1>9, DisableTriggerStep
<1>10. CASE Unlock(t) \/ Return(t)
  BY <1>10, LeaveStep DEF Unlock, Return, At
<1>11. CASE MatchCore(t) \/ FilterOne(t) \/ MatchStats(t)
  BY <1>11, MatchCoreStep, FilterOneStep, MatchStatsStep
<1>12. CASE EnoughAction(t) \/ TooMuchFiltering(t) \/ Reload(t)
  BY <1>12, EnoughActionStep, TooMuchFilteringStep, ReloadStep
<1>13. CASE Iterate(t) \/ ResetStats(t) \/ StoreRebuilt(t)
  BY <1>13, IterateStep, ResetStatsStep, StoreRebuiltStep
<1> QED BY <1>1, <1>2, <1>3, <1>4, <1>5, <1>6, <1>7, <1>8, <1>9, <1>10, <1>11, <1>12, <1>13 DEF Step

(* And a step that changes nothing.                                        *)
LEMMA StutterHolds ==
    ASSUME IInv, UNCHANGED vars
    PROVE  IInv'
<1>1. /\ matchers' = matchers /\ matcher' = matcher /\ trigger' = trigger /\ live' = live /\ stats' = stats
      /\ lock' = lock /\ thread' = thread /\ calls' = calls /\ races' = races /\ Entries' = Entries
      /\ Size(live)' = Size(live) /\ Copies(live)' = Copies(live)
  BY DEF vars, Entries, Present, Size, Copies
<1>2. Types' /\ LockHeld' /\ Counted'
  BY <1>1 DEF IInv, Types, LockHeld, Counted, RatioIsDefined
<1>3. \A t \in Threads : CallHolds(thread[t])' /\ MatchHolds(thread[t])'
  BY <1>1 DEF IInv, CallHolds, MatchHolds
<1>4. Noted'
  BY <1>1 DEF IInv, Noted, Overlaps, Changing, Rebuilding, HoldingFields
<1>5. Indexed'
  BY <1>1 DEF IInv, Indexed, IndexHolds, Due
<1>6. TriggerCopied' /\ CountRight'
  <2>1. \A t \in Threads : HasTrigger(thread[t])' = HasTrigger(thread[t])
    BY <1>1 DEF HasTrigger
  <2>2. lock \in Threads => Pending(thread[lock])' = Pending(thread[lock])
    BY <1>1 DEF Pending
  <2> QED BY <1>1, <2>1, <2>2 DEF IInv, TriggerCopied, CountRight
<1> QED BY <1>2, <1>3, <1>4, <1>5, <1>6 DEF IInv

-----------------------------------------------------------------------------
(* What every step does to the pointers of a call.                         *)
PointersOf(v, w) ==
    /\ v.mine \in {0, w.mine, matcher}
    /\ v.fresh \in {0, w.fresh, Len(matchers')}

(* Every action keeps, takes over or makes pointers to coreMatchers.       *)
LEMMA StepPoints ==
    ASSUME IInv, NEW t \in Threads, Step(t), NEW u \in Threads
    PROVE  Len(matchers) <= Len(matchers') /\ PointersOf(thread'[u], thread[u])
<1>1. /\ thread \in [Threads -> Calls] /\ thread[t] \in Calls /\ thread[u] \in Calls
      /\ matchers \in Seq(SUBSET Additions) /\ Len(matchers) \in Nat
  BY DEF IInv, Types
<1>2. CASE \/ BeginAdd(t) \/ BeginDelete(t) \/ BeginRebuild(t) \/ BeginDisable(t) \/ BeginMatch(t)
           \/ Unlock(t) \/ Return(t)
  <2>1. matchers' = matchers /\ thread'[u].mine \in {0, thread[u].mine} /\ thread'[u].fresh \in {0, thread[u].fresh}
    <3>1. CASE BeginAdd(t) \/ BeginDelete(t) \/ BeginRebuild(t) \/ BeginDisable(t) \/ BeginMatch(t)
      <4>1. PICK op, arg, pc : matchers' = matchers /\ Begin(t, op, arg, pc)
        BY <3>1 DEF BeginAdd, BeginDelete, BeginRebuild, BeginDisable, BeginMatch, Locked
      <4> DEFINE notes == IF op = "match" THEN Entries ELSE {}
                 v == [Idle EXCEPT !.op = op, !.pc = pc, !.arg = arg, !.must = notes, !.seen = notes]
      <4>2. thread' = [thread EXCEPT ![t] = v]
        BY <4>1 DEF Begin
      <4>3. v.mine = 0 /\ v.fresh = 0
        BY DEF Idle
      <4> QED BY <1>1, <4>1, <4>2, <4>3
    <3>2. CASE Unlock(t) \/ Return(t)
      <4>1. Idle.mine = 0 /\ Idle.fresh = 0
        BY DEF Idle
      <4> QED BY <1>1, <3>2, <4>1 DEF Unlock, Return
    <3> QED BY <1>2, <3>1, <3>2
  <2> QED BY <1>1, <2>1 DEF PointersOf
<1>3. CASE Load(t)
  <2>1. matchers' = matchers /\ thread'[u].mine \in {matcher, thread[u].mine} /\ thread'[u].fresh = thread[u].fresh
    BY <1>1, <1>3 DEF Load, Calls
  <2> QED BY <1>1, <2>1 DEF PointersOf
<1>4. CASE Iterate(t)
  <2>1. /\ Len(matchers') = Len(matchers) + 1 /\ thread'[u].mine = thread[u].mine
        /\ thread'[u].fresh \in {thread[u].fresh, Len(matchers) + 1}
    BY <1>1, <1>4 DEF Iterate, Calls
  <2> QED BY <1>1, <2>1 DEF PointersOf
<1>5. CASE AddToMatcher(t)
  <2>1. Len(matchers') = Len(matchers) /\ thread'[u].mine = thread[u].mine /\ thread'[u].fresh = thread[u].fresh
    <3>1. Len(matchers') = Len(matchers)
      <4>1. CASE matchers' = [matchers EXCEPT ![thread[t].mine] = @ \cup {thread[t].arg}]
        <5>1. thread[t].mine \in DOMAIN matchers /\ thread[t].arg \in Additions
          BY <1>5, Own DEF AddToMatcher, At, CallHolds, OnItsWay
        <5>2. matchers' \in Seq(SUBSET Additions) /\ DOMAIN matchers' = DOMAIN matchers
          BY <1>1, <4>1, <5>1
        <5> QED BY <1>1, <5>2
      <4> QED BY <1>5, <4>1 DEF AddToMatcher
    <3>2. PICK pc : Go(t, pc)
      BY <1>5 DEF AddToMatcher
    <3> QED BY <1>1, <3>1, <3>2 DEF Go, Calls
  <2> QED BY <1>1, <2>1 DEF PointersOf
<1>6. CASE \/ AddStats(t) \/ AddLive(t) \/ DeleteLive(t) \/ DeleteStats(t)
           \/ RestoreFields(t) \/ DisableTrigger(t) \/ MatchCore(t) \/ FilterOne(t) \/ MatchStats(t)
           \/ EnoughAction(t) \/ TooMuchFiltering(t) \/ Reload(t) \/ ResetStats(t) \/ StoreRebuilt(t)
  <2>1. matchers' = matchers
    BY <1>6 DEF AddStats, AddLive, DeleteLive, DeleteStats, RestoreFields, DisableTrigger, MatchCore,
                FilterOne, MatchStats, EnoughAction, TooMuchFiltering, Reload, ResetStats, StoreRebuilt
  <2>2. thread'[u].mine = thread[u].mine /\ thread'[u].fresh = thread[u].fresh
    <3>1. CASE AddStats(t) \/ DeleteStats(t) \/ RestoreFields(t) \/ DisableTrigger(t) \/ MatchStats(t)
               \/ EnoughAction(t) \/ TooMuchFiltering(t) \/ ResetStats(t) \/ StoreRebuilt(t)
      <4>1. PICK pc : Go(t, pc)
        BY <3>1 DEF AddStats, DeleteStats, RestoreFields, DisableTrigger, MatchStats, EnoughAction,
                    TooMuchFiltering, ResetStats, StoreRebuilt
      <4> QED BY <1>1, <4>1 DEF Go, Calls
    <3>2. CASE MatchCore(t)
      BY <1>1, <3>2 DEF MatchCore, Calls
    <3>3. CASE FilterOne(t)
      BY <1>1, <3>3 DEF FilterOne, Calls
    <3>4. CASE Reload(t)
      BY <1>1, <3>4 DEF Reload, Calls
    <3>5. CASE AddLive(t)
      BY <1>1, <3>5 DEF AddLive, Calls
    <3>6. CASE DeleteLive(t)
      BY <1>1, <3>6 DEF DeleteLive, Calls
    <3> QED BY <1>6, <3>1, <3>2, <3>3, <3>4, <3>5, <3>6
  <2> QED BY <1>1, <2>1, <2>2 DEF PointersOf
<1> QED BY <1>2, <1>3, <1>4, <1>5, <1>6 DEF Step

(* So they never point to one that was not made.                           *)
LEMMA PointedStep ==
    ASSUME IInv, IInv', Pointed, [Next]_vars
    PROVE  Pointed'
<1>1. CASE UNCHANGED vars
  BY <1>1 DEF vars, Pointed
<1>2. ASSUME NEW t \in Threads, Step(t), NEW u \in Threads
      PROVE  {thread'[u].mine, thread'[u].fresh} \subseteq 0 .. Len(matchers')
  <2>1. Len(matchers) <= Len(matchers') /\ PointersOf(thread'[u], thread[u])
    BY <1>2, StepPoints
  <2>2. Len(matchers) \in Nat /\ Len(matchers') \in Nat /\ matcher \in 0 .. Len(matchers)
    BY DEF IInv, Types
  <2>3. {thread[u].mine, thread[u].fresh} \subseteq 0 .. Len(matchers)
    BY DEF Pointed
  <2> QED BY <2>1, <2>2, <2>3 DEF PointersOf
<1> QED BY <1>1, <1>2 DEF Next, Pointed

(* The invariant holds throughout, whatever the numbers of goroutines,     *)
(* Patterns and calls.                                                     *)
THEOREM PrunerInvariant == Spec => [](IInv /\ Pointed)
<1>1. Init => IInv /\ Pointed
  BY InitHolds
<1>2. (IInv /\ Pointed) /\ [Next]_vars => (IInv /\ Pointed)'
  <2> SUFFICES ASSUME IInv, Pointed, [Next]_vars PROVE (IInv /\ Pointed)'
    OBVIOUS
  <2>1. IInv'
    <3>1. CASE UNCHANGED vars
      BY <3>1, StutterHolds
    <3>2. CASE Next
      BY <3>2, StepHolds DEF Next, Noting
    <3> QED BY <3>1, <3>2
  <2> QED BY <2>1, PointedStep
<1> QED BY <1>1, <1>2, PTL DEF Spec

(* The state is of the declared types, and every call points to coreMatchers *)
(* that were made (pruner.go's fields pointers).                           *)
THEOREM PrunerTypes == Spec => []TypeOK
<1>1. IInv /\ Pointed => TypeOK
  <2> SUFFICES ASSUME IInv, Pointed PROVE TypeOK
    OBVIOUS
  <2>1. \A n \in DOMAIN matchers : matchers[n] \subseteq Additions
    BY DEF IInv, Types
  <2>2. ASSUME NEW t \in Threads
        PROVE  /\ thread[t].op \in {"none", "add", "delete", "rebuild", "disable", "match"}
               /\ thread[t].todo \cup thread[t].acc \subseteq Xs
               /\ thread[t].must \cup thread[t].seen \subseteq Additions
    <3>1. thread[t] \in Calls
      BY Own
    <3> QED BY <3>1 DEF Calls, Ops, Holders
  <2> QED BY <2>1, <2>2 DEF IInv, Types, Pointed, TypeOK
<1> QED BY <1>1, PrunerInvariant, PTL

(* A live Pattern is in the coreMatcher in use, whatever is added, deleted *)
(* and rebuilt, as long as no match call's rebuild overlapped an addPattern. *)
THEOREM LiveStaysIndexed == Spec => []LiveIsIndexed
<1>1. IInv => LiveIsIndexed
  BY DEF IInv, Indexed, LiveIsIndexed
<1> QED BY <1>1, PrunerInvariant, PTL

(* matchesForFields reports no X that was not live at some moment of the   *)
(* call.                                                                   *)
THEOREM DeletedStay == Spec => []DeletedStaysOut
<1>1. IInv => DeletedStaysOut
  BY DEF IInv, MatchHolds, DeletedStaysOut, Matching
<1> QED BY <1>1, PrunerInvariant, PTL

(* matchesForFields reports every X with a matching Pattern that is live   *)
(* throughout the call, also across the rebuilds of others.                *)
THEOREM LiveAreReported == Spec => []LiveIsReported
<1>1. IInv => LiveIsReported
  BY DEF IInv, Indexed, IndexHolds, Due, LiveIsReported, Matching
<1> QED BY <1>1, PrunerInvariant, PTL

(* With nobody at work, the live count of the statistics is that of the live *)
(* set.                                                                    *)
THEOREM CountStaysRight == Spec => []LiveCountRight
<1>1. IInv => LiveCountRight
  BY DEF IInv, CountRight, LiveCountRight
<1> QED BY <1>1, PrunerInvariant, PTL

(* tooMuchFiltering never divides by zero, whatever resets the counters    *)
(* between its reads.                                                      *)
THEOREM RatioStaysDefined == Spec => []RatioIsDefined
<1>1. IInv => RatioIsDefined
  BY DEF IInv, Counted
<1> QED BY <1>1, PrunerInvariant, PTL

(* disableRebuild lasts, unless an unlocked rebuild had loaded its copy of *)
(* the fields before.                                                      *)
THEOREM DisabledStays == Spec => DisabledStaysDisabled
<1>1. IInv /\ [Next]_vars => [(~trigger /\ "disable" \notin races) => ~trigger']_vars
  <2> SUFFICES ASSUME IInv, ~trigger, "disable" \notin races, NEW t \in Threads, Step(t), Noting
               PROVE  ~trigger'
    BY DEF Next, Noting
  <2>1. CASE RestoreFields(t) \/ DisableTrigger(t) \/ StoreRebuilt(t)
    BY <2>1, RestoreFieldsStep, DisableTriggerStep, StoreRebuiltStep
  <2>2. CASE ~(RestoreFields(t) \/ DisableTrigger(t) \/ StoreRebuilt(t))
    BY <2>2 DEF Step, BeginAdd, BeginDelete, BeginRebuild, BeginDisable, BeginMatch, Locked, Load,
                AddToMatcher, AddStats, AddLive, DeleteLive, DeleteStats, Unlock, MatchCore, FilterOne,
                MatchStats, Return, EnoughAction, TooMuchFiltering, Reload, Iterate, ResetStats
  <2> QED BY <2>1, <2>2
<1> QED BY <1>1, PrunerInvariant, PTL DEF Spec, DisabledStaysDisabled
=============================================================================
