------------------------------- MODULE Pruner -------------------------------
(***************************************************************************)
(* prunerMatcher: DeletePatterns on top of a coreMatcher that cannot       *)
(* delete.  Deleted X are filtered out of the matches by asking the live   *)
(* set, and now and then a fresh coreMatcher is built from the live set.   *)
(*                                                                         *)
(* addPattern, deletePatterns and rebuild hold the write lock;             *)
(* matchesForFields holds none, and yet may rebuild.  One action is one    *)
(* access to something shared: the atomic pointer to prunerFields, the     *)
(* underlying coreMatcher, the live set (which has its own mutex), or the  *)
(* statistics -- of these the counters that one look reads, or one reset   *)
(* writes, are taken together.  The coreMatcher is what CoreMatcher shows  *)
(* it to be: a store of Patterns, here a set of pairs of an X and a        *)
(* Pattern.  The fields of an Event are those that its Hits need: the load *)
(* of the segments tree before matchesForFields is left to CoreMatcher.    *)
(***************************************************************************)
EXTENDS Integers, Sequences, FiniteSets

CONSTANTS
    Threads,     \* goroutines, each using a Copy of the instance
    NoThread,    \* the lock is free
    Xs,
    Pats,        \* Patterns
    Events,
    Hits,        \* the Patterns each Event matches
    Additions,   \* the (X, Pattern) pairs that may be added
    MinAction,   \* tooMuchFiltering.MinAction
    RatioDen,    \* tooMuchFiltering.FilteredToEmitted is 1 / RatioDen
    MaxCalls     \* bound on the number of calls in a behaviour

ASSUME PrunerAssumption ==
    /\ NoThread \notin Threads
    /\ Hits \in [Events -> SUBSET Pats]
    /\ Additions \subseteq Xs \X Pats
    /\ MinAction \in Nat /\ RatioDen \in Nat \ {0} /\ MaxCalls \in Nat

VARIABLES
    matchers,    \* the contents of every coreMatcher made so far
    matcher,     \* prunerFields.Matcher of the current prunerFields
    trigger,     \* prunerFields.rebuildTrigger # nil, likewise
    live,        \* the entries of the LivePatternsState (memState): how many of each
    stats,       \* asyncPrunerStats
    lock,        \* prunerMatcher.lock
    thread,      \* per goroutine: program counter and locals of its call
    calls,       \* number of calls begun
    races        \* history: the calls an unlocked rebuild has overlapped

vars == <<matchers, matcher, trigger, live, stats, lock, thread, calls, races>>

-----------------------------------------------------------------------------
Idle ==
    [op |-> "none", pc |-> "idle", arg |-> <<>>, mine |-> 0, myTrigger |-> FALSE,
     fresh |-> 0, freshTrigger |-> FALSE, count |-> 0, todo |-> {}, acc |-> {}, filtered |-> 0,
     must |-> {}, seen |-> {}]

(* memState is a slice; the order of its entries shows nowhere, how often  *)
(* an entry is in it does: in the counts.                                  *)
Present(entries) == {e \in Additions : entries[e] > 0}
Copies(entries) == UNION {{e} \X (1 .. entries[e]) : e \in Present(entries)}
Size(entries) == Cardinality(Copies(entries))

Entries == Present(live)
LiveXs == {e[1] : e \in Entries}

At(t, pc) == thread[t].pc = pc
Go(t, pc) == thread' = [thread EXCEPT ![t].pc = pc]

(* How each kind of call goes on once maybeRebuild is over.                *)
AfterRebuild(op) ==
    CASE op = "delete"  -> "restore"
      [] op = "rebuild" -> "unlock"
      [] op = "match"   -> "return"

-----------------------------------------------------------------------------
(* A call begins.  Those that change the set of Patterns take the lock.    *)
Begin(t, op, arg, pc) ==
    /\ At(t, "idle")
    /\ calls < MaxCalls
    /\ calls' = calls + 1
    /\ thread' = [thread EXCEPT ![t] = [Idle EXCEPT !.op = op, !.pc = pc, !.arg = arg,
                     !.must = IF op = "match" THEN Entries ELSE {},
                     !.seen = IF op = "match" THEN Entries ELSE {}]]

(* Mutant: the lock is not waited for.                                     *)
LockedAnyway(t, op, arg) ==
    /\ lock' = t
    /\ Begin(t, op, arg, "load")
    /\ UNCHANGED <<matchers, matcher, trigger, live, stats>>

Locked(t, op, arg) ==
    /\ lock = NoThread
    /\ lock' = t
    /\ Begin(t, op, arg, "load")
    /\ UNCHANGED <<matchers, matcher, trigger, live, stats>>

BeginAdd(t) == \E a \in Additions : Locked(t, "add", a)
BeginDelete(t) == \E x \in Xs : Locked(t, "delete", <<x>>)
BeginRebuild(t) == Locked(t, "rebuild", <<>>)
BeginDisable(t) == Locked(t, "disable", <<>>)

BeginMatch(t) ==
    /\ \E e \in Events : Begin(t, "match", <<e>>, "load")
    /\ UNCHANGED <<matchers, matcher, trigger, live, stats, lock>>

(* loadFields / loadFieldsForUpdate: the call works on this copy from now  *)
(* on, whatever is stored meanwhile.                                       *)
Loaded == [add |-> "index", delete |-> "drop", rebuild |-> "iterate",
           disable |-> "untrigger", match |-> "match"]

Load(t) ==
    /\ At(t, "load")
    /\ thread' = [thread EXCEPT ![t].mine = matcher, ![t].myTrigger = trigger,
                                ![t].freshTrigger = trigger,
                                ![t].pc = Loaded[thread[t].op]]
    /\ UNCHANGED <<matchers, matcher, trigger, live, stats, lock, calls>>

-----------------------------------------------------------------------------
(* Mutant: the error of the coreMatcher is not looked at.                  *)
AddRegardless(t) ==
    /\ At(t, "index")
    /\ \/ matchers' = [matchers EXCEPT ![thread[t].mine] = @ \cup {thread[t].arg}]
       \/ UNCHANGED matchers
    /\ Go(t, "count")
    /\ UNCHANGED <<matcher, trigger, live, stats, lock, calls>>

(* addPattern: into the coreMatcher it loaded first, which may refuse the  *)
(* Pattern; then the statistics, and into the live set last.               *)
AddToMatcher(t) ==
    /\ At(t, "index")
    /\ \/ /\ matchers' = [matchers EXCEPT ![thread[t].mine] = @ \cup {thread[t].arg}]
          /\ Go(t, "count")
       \/ Go(t, "unlock") /\ UNCHANGED matchers
    /\ UNCHANGED <<matcher, trigger, live, stats, lock, calls>>

(* maybeRebuild(true) is here too: tooMuchFiltering never asks for a       *)
(* rebuild after an addition.                                              *)
AddStats(t) ==
    /\ At(t, "count")
    /\ stats' = [stats EXCEPT !.Added = @ + 1, !.Live = @ + 1]
    /\ Go(t, "enliven")
    /\ UNCHANGED <<matchers, matcher, trigger, live, lock, calls>>

AddLive(t) ==
    /\ At(t, "enliven")
    /\ live' = [live EXCEPT ![thread[t].arg] = @ + 1]
    /\ thread' = [u \in Threads |->
          IF u = t THEN [thread[t] EXCEPT !.pc = "unlock"]
          ELSE IF thread[u].op = "match" THEN [thread[u] EXCEPT !.seen = @ \cup {thread[t].arg}]
          ELSE thread[u]]
    /\ UNCHANGED <<matchers, matcher, trigger, stats, lock, calls>>

(* deletePatterns: out of the live set; if anything went, the statistics   *)
(* and perhaps a rebuild, and then the fields loaded before are stored.    *)
DeleteLive(t) ==
    LET x    == thread[t].arg[1]
        keep == [e \in Additions |-> IF e[1] = x THEN 0 ELSE live[e]]
        n    == Size(live) - Size(keep)
    IN  /\ At(t, "drop")
        /\ live' = keep
        /\ thread' = [u \in Threads |->
              IF u = t THEN [thread[t] EXCEPT !.pc = IF n > 0 THEN "discount" ELSE "unlock",
                                              !.count = n]
              ELSE [thread[u] EXCEPT !.must = {e \in @ : e[1] # x}]]
        /\ UNCHANGED <<matchers, matcher, trigger, stats, lock, calls>>

(* Mutant: one Pattern is taken off the count, however many went.          *)
DeleteStatsOne(t) ==
    /\ At(t, "discount")
    /\ stats' = [stats EXCEPT !.Deleted = @ + 1, !.Live = @ - 1]
    /\ Go(t, "maybe")
    /\ UNCHANGED <<matchers, matcher, trigger, live, lock, calls>>

DeleteStats(t) ==
    /\ At(t, "discount")
    /\ stats' = [stats EXCEPT !.Deleted = @ + thread[t].count, !.Live = @ - thread[t].count]
    /\ Go(t, "maybe")
    /\ UNCHANGED <<matchers, matcher, trigger, live, lock, calls>>

RestoreFields(t) ==
    /\ At(t, "restore")
    /\ matcher' = thread[t].mine
    /\ trigger' = thread[t].myTrigger
    /\ Go(t, "unlock")
    /\ UNCHANGED <<matchers, live, stats, lock, calls>>

(* disableRebuild.                                                         *)
DisableTrigger(t) ==
    /\ At(t, "untrigger")
    /\ matcher' = thread[t].mine
    /\ trigger' = FALSE
    /\ Go(t, "unlock")
    /\ UNCHANGED <<matchers, live, stats, lock, calls>>

Unlock(t) ==
    /\ At(t, "unlock")
    /\ lock' = NoThread
    /\ thread' = [thread EXCEPT ![t] = Idle]
    /\ UNCHANGED <<matchers, matcher, trigger, live, stats, calls>>

-----------------------------------------------------------------------------
(* matchesForFields, without the lock: the matches of the coreMatcher it   *)
(* loaded, each X then looked up in the live set, one at a time.           *)
MatchCore(t) ==
    LET e == thread[t].arg[1]
    IN  /\ At(t, "match")
        /\ thread' = [thread EXCEPT ![t].pc = "filter",
              ![t].todo = {h[1] : h \in {g \in matchers[thread[t].mine] : g[2] \in Hits[e]}}]
        /\ UNCHANGED <<matchers, matcher, trigger, live, stats, lock, calls>>

(* Mutant: the live set is not asked.                                      *)
FilterNone(t) ==
    /\ At(t, "filter")
    /\ \E x \in thread[t].todo :
         thread' = [thread EXCEPT ![t].todo = @ \ {x}, ![t].acc = @ \cup {x}]
    /\ UNCHANGED <<matchers, matcher, trigger, live, stats, lock, calls>>

FilterOne(t) ==
    /\ At(t, "filter")
    /\ \E x \in thread[t].todo :
         thread' = [thread EXCEPT ![t].todo = @ \ {x},
                                  ![t].acc = IF x \in LiveXs THEN @ \cup {x} ELSE @,
                                  ![t].filtered = IF x \in LiveXs THEN @ ELSE @ + 1]
    /\ UNCHANGED <<matchers, matcher, trigger, live, stats, lock, calls>>

MatchStats(t) ==
    /\ \/ /\ At(t, "filter") /\ thread[t].todo = {}
          /\ stats' = [stats EXCEPT !.Filtered = @ + thread[t].filtered]
          /\ Go(t, "emit")
       \/ /\ At(t, "emit")
          /\ stats' = [stats EXCEPT !.Emitted = @ + Cardinality(thread[t].acc)]
          /\ Go(t, "maybe")
    /\ UNCHANGED <<matchers, matcher, trigger, live, lock, calls>>

Return(t) ==
    /\ At(t, "return")
    /\ thread' = [thread EXCEPT ![t] = Idle]
    /\ UNCHANGED <<matchers, matcher, trigger, live, stats, lock, calls>>

-----------------------------------------------------------------------------
(* maybeRebuild(false): the trigger of the current fields, if there is     *)
(* one, decides.  tooMuchFiltering reads the counters twice: for the least *)
(* action and for the ratio.                                               *)
EnoughAction(t) ==
    /\ At(t, "maybe")
    /\ IF trigger /\ stats.Emitted + stats.Filtered >= MinAction /\ stats.Emitted > 0
       THEN Go(t, "ratio")
       ELSE Go(t, AfterRebuild(thread[t].op))
    /\ UNCHANGED <<matchers, matcher, trigger, live, stats, lock, calls>>

TooMuchFiltering(t) ==
    /\ At(t, "ratio")
    /\ IF stats.Emitted < RatioDen * stats.Filtered
       THEN Go(t, "reload")
       ELSE Go(t, AfterRebuild(thread[t].op))
    /\ UNCHANGED <<matchers, matcher, trigger, live, stats, lock, calls>>

(* rebuildWhileLocked: a fresh copy of the fields of its own, then every   *)
(* live entry (the live set is locked meanwhile) into a new coreMatcher,   *)
(* then the statistics -- Emitted is not among those reset -- and last the *)
(* new fields are stored.  The copy a deletePatterns took in Load stays    *)
(* aside for RestoreFields.                                                *)
(* Mutant: the rebuild works on the fields of the call.                    *)
ReloadNothing(t) ==
    /\ At(t, "reload")
    /\ Go(t, "iterate")
    /\ UNCHANGED <<matchers, matcher, trigger, live, stats, lock, calls>>

Reload(t) ==
    /\ At(t, "reload")
    /\ thread' = [thread EXCEPT ![t].pc = "iterate", ![t].freshTrigger = trigger]
    /\ UNCHANGED <<matchers, matcher, trigger, live, stats, lock, calls>>

(* Mutant: Iterate stops after the first entry.                            *)
IterateFirst(t) ==
    /\ At(t, "iterate")
    /\ matchers' = Append(matchers, {e \in Entries : e = CHOOSE f \in Entries : TRUE})
    /\ thread' = [thread EXCEPT ![t].pc = "reset", ![t].fresh = Len(matchers) + 1,
                                ![t].count = Size(live)]
    /\ UNCHANGED <<matcher, trigger, live, stats, lock, calls>>

Iterate(t) ==
    /\ At(t, "iterate")
    /\ matchers' = Append(matchers, Entries)
    /\ thread' = [thread EXCEPT ![t].pc = "reset", ![t].fresh = Len(matchers) + 1,
                                ![t].count = Size(live)]
    /\ UNCHANGED <<matcher, trigger, live, stats, lock, calls>>

(* Mutant: Emitted is reset as well.                                       *)
ResetStatsAll(t) ==
    /\ At(t, "reset")
    /\ stats' = [stats EXCEPT !.RebuildPurged = stats.Deleted, !.Live = thread[t].count,
                              !.Added = 0, !.Deleted = 0, !.Filtered = 0, !.Emitted = 0]
    /\ Go(t, "store")
    /\ UNCHANGED <<matchers, matcher, trigger, live, lock, calls>>

ResetStats(t) ==
    /\ At(t, "reset")
    /\ stats' = [stats EXCEPT !.RebuildPurged = stats.Deleted, !.Live = thread[t].count,
                              !.Added = 0, !.Deleted = 0, !.Filtered = 0]
    /\ Go(t, "store")
    /\ UNCHANGED <<matchers, matcher, trigger, live, lock, calls>>

(* Mutant: the Matcher released before a fearless rebuild is not replaced. *)
StoreReleased(t) ==
    /\ At(t, "store")
    /\ matcher' = 0
    /\ trigger' = thread[t].freshTrigger
    /\ Go(t, AfterRebuild(thread[t].op))
    /\ UNCHANGED <<matchers, live, stats, lock, calls>>

StoreRebuilt(t) ==
    /\ At(t, "store")
    /\ matcher' = thread[t].fresh
    /\ trigger' = thread[t].freshTrigger
    /\ Go(t, AfterRebuild(thread[t].op))
    /\ UNCHANGED <<matchers, live, stats, lock, calls>>

-----------------------------------------------------------------------------
(* History: an unlocked rebuild, from its look at the live set to its      *)
(* store, overlaps a call that changes the live set under the lock, or,    *)
(* from its look at the fields, disableRebuild.                            *)
Rebuilding(u) == u.op = "match" /\ u.pc \in {"reset", "store"}
HoldingFields(u) == Rebuilding(u) \/ (u.op = "match" /\ u.pc = "iterate")

Changing(u) == u.op \in {"add", "delete"} /\ u.pc # "unlock"

Overlaps(th) ==
    {th[t].op : t \in {u \in Threads : Changing(th[u]) /\ \E v \in Threads : Rebuilding(th[v])}}
    \cup {th[t].op : t \in {u \in Threads : /\ th[u].op = "disable" /\ th[u].pc # "unlock"
                                            /\ \E v \in Threads : HoldingFields(th[v])}}

Step(t) ==
    \/ BeginAdd(t) \/ BeginDelete(t) \/ BeginRebuild(t) \/ BeginDisable(t)
    \/ BeginMatch(t) \/ Load(t) \/ AddToMatcher(t) \/ AddStats(t) \/ AddLive(t)
    \/ DeleteLive(t) \/ DeleteStats(t) \/ RestoreFields(t) \/ DisableTrigger(t)
    \/ Unlock(t) \/ MatchCore(t) \/ FilterOne(t) \/ MatchStats(t) \/ Return(t)
    \/ EnoughAction(t) \/ TooMuchFiltering(t) \/ Reload(t) \/ Iterate(t)
    \/ ResetStats(t) \/ StoreRebuilt(t)

Init ==
    /\ matchers = <<{}>> /\ matcher = 1 /\ trigger = TRUE /\ live = [e \in Additions |-> 0]
    /\ stats = [Live |-> 0, Added |-> 0, Deleted |-> 0, Emitted |-> 0, Filtered |-> 0,
                RebuildPurged |-> 0]
    /\ lock = NoThread /\ calls = 0 /\ races = {}
    /\ thread = [t \in Threads |-> Idle]

Next == \E t \in Threads : Step(t) /\ races' = races \cup Overlaps(thread')

Spec == Init /\ [][Next]_vars

-----------------------------------------------------------------------------
TypeOK ==
    /\ \A n \in DOMAIN matchers : matchers[n] \subseteq Additions
    /\ matcher \in DOMAIN matchers
    /\ trigger \in BOOLEAN
    /\ live \in [Additions -> Nat]
    /\ stats \in [{"Live", "Added", "Deleted", "Emitted", "Filtered", "RebuildPurged"} -> Int]
    /\ lock \in Threads \cup {NoThread}
    /\ calls \in 0..MaxCalls
    /\ races \subseteq {"add", "delete", "disable"}
    /\ \A t \in Threads :
         /\ thread[t].op \in {"none", "add", "delete", "rebuild", "disable", "match"}
         /\ thread[t].mine \in 0..Len(matchers) /\ thread[t].fresh \in 0..Len(matchers)
         /\ thread[t].todo \cup thread[t].acc \subseteq Xs
         /\ thread[t].must \cup thread[t].seen \subseteq Additions

Matching(t) == thread[t].op = "match"

(* A Pattern in the live set is in the coreMatcher in use -- unless a      *)
(* rebuild begun by a match call, which holds no lock, ran over its        *)
(* addPattern.                                                             *)
LiveIsIndexed == "add" \notin races => Entries \subseteq matchers[matcher]

(* The same without the exception, as maybeRebuild's comment presumes      *)
(* ("This method assumes the caller has a write lock").                    *)
LiveIsAlwaysIndexed == Entries \subseteq matchers[matcher]

(* A match call reports no X that was not live at some moment of the call: *)
(* what was deleted before it began, and not added again, stays out.       *)
DeletedStaysOut ==
    \A t \in Threads : Matching(t) => thread[t].acc \subseteq {e[1] : e \in thread[t].seen}

(* A match call reports an X only because of a Pattern of that X which was *)
(* live at some moment of the call.                                        *)
ReportedForLivePattern ==
    \A t \in Threads : Matching(t) => \A x \in thread[t].acc :
        \E e \in thread[t].seen : e[1] = x /\ e[2] \in Hits[thread[t].arg[1]]

(* A match call reports every X with a matching Pattern that is live       *)
(* throughout the call, also when rebuilds replace the coreMatcher under   *)
(* it.                                                                     *)
LiveIsReported ==
    \A t \in Threads : (Matching(t) /\ thread[t].pc = "return" /\ "add" \notin races) =>
        \A e \in thread[t].must : e[2] \in Hits[thread[t].arg[1]] => e[1] \in thread[t].acc

(* With nobody changing or rebuilding, prunerStats.Live counts the live    *)
(* set, unless an unlocked rebuild has overwritten it with a stale count.  *)
LiveCountRight ==
    (/\ races \subseteq {"disable"} /\ lock = NoThread
     /\ \A t \in Threads : ~Rebuilding(thread[t])) => stats.Live = Size(live)

(* disableRebuild lasts: the copies of the fields that deletePatterns and  *)
(* rebuilds store again later do not bring the trigger back -- unless an   *)
(* unlocked rebuild had loaded its copy before.                            *)
DisabledStaysDisabled == [][(~trigger /\ "disable" \notin races) => ~trigger']_vars

(* The ratio of filtered to emitted is one of numbers: whatever resets the *)
(* statistics between the reads of tooMuchFiltering, the divisor is not 0. *)
RatioIsDefined == \A t \in Threads : thread[t].pc = "ratio" => stats.Emitted > 0
=============================================================================
