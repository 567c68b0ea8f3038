------------------------------ MODULE PrunerInv ------------------------------
(***************************************************************************)
(* The inductive invariant of Pruner: what every call holds at each point  *)
(* of its way, as long as no unlocked rebuild has overlapped the calls     *)
(* that would spoil it.                                                    *)
(***************************************************************************)
EXTENDS Pruner

Holders == {"add", "delete", "rebuild", "disable"}

OnItsWay(u) ==
    \/ u.op = "none" /\ u.pc = "idle"
    \/ u.op = "add" /\ u.pc \in {"load", "index", "count", "enliven", "unlock"}
    \/ u.op = "delete" /\ u.pc \in {"load", "drop", "discount", "maybe", "ratio", "reload", "iterate",
                                    "reset", "store", "restore", "unlock"}
    \/ u.op = "rebuild" /\ u.pc \in {"load", "iterate", "reset", "store", "unlock"}
    \/ u.op = "disable" /\ u.pc \in {"load", "untrigger", "unlock"}
    \/ u.op = "match" /\ u.pc \in {"load", "match", "filter", "emit", "maybe", "ratio", "reload",
                                   "iterate", "reset", "store", "return"}

Ops == Holders \cup {"none", "match"}

Points ==
    {"idle", "load", "index", "count", "enliven", "drop", "discount", "restore", "untrigger",
     "unlock", "match", "filter", "emit", "maybe", "ratio", "reload", "iterate", "reset",
     "store", "return"}

Args == Additions \cup {<<x>> : x \in Xs \cup Events} \cup {<<>>}

Calls ==
    [op : Ops, pc : Points, arg : Args, mine : Nat, myTrigger : BOOLEAN, fresh : Nat,
     freshTrigger : BOOLEAN, count : Int, todo : SUBSET Xs, acc : SUBSET Xs, filtered : Int,
     must : SUBSET Additions, seen : SUBSET Additions]

Types ==
    /\ matchers \in Seq(SUBSET Additions)
    /\ matcher \in DOMAIN matchers
    /\ trigger \in BOOLEAN
    /\ live \in [Additions -> Nat]
    /\ stats \in [{"Live", "Added", "Deleted", "Emitted", "Filtered", "RebuildPurged"} -> Int]
    /\ lock \in Threads \cup {NoThread}
    /\ calls \in 0..MaxCalls
    /\ races \subseteq {"add", "delete", "disable"}
    /\ thread \in [Threads -> Calls]

(* Who holds the lock, and which matchers the call at hand points to.      *)
CallHolds(u) ==
    /\ OnItsWay(u)
    /\ u.op = "add" => u.arg \in Additions
    /\ u.pc \notin {"idle", "load"} => u.mine \in DOMAIN matchers
    /\ u.pc \in {"reset", "store"} => u.fresh \in DOMAIN matchers

LockHeld == \A t \in Threads : thread[t].op \in Holders <=> lock = t

(* Of the matchers a call points to, or to none.                           *)
Pointed == \A t \in Threads : {thread[t].mine, thread[t].fresh} \subseteq 0 .. Len(matchers)

(* Counters and sets that grow one by one stay countable.                  *)
Counted ==
    /\ IsFiniteSet(Copies(live))
    /\ stats.Emitted >= 0
    /\ \A t \in Threads : IsFiniteSet(thread[t].acc)
    /\ RatioIsDefined

(* What a match call has noted of the live set, and reports.               *)
MatchHolds(u) ==
    u.op = "match" => /\ u.must \subseteq Entries
                      /\ Entries \subseteq u.seen
                      /\ u.acc \subseteq {e[1] : e \in u.seen}

(* The indexes that are, or may come to be, in use.                        *)
Due(u) == {e \in u.must : e[2] \in Hits[u.arg[1]]}

IndexHolds(u) ==
    /\ u.op = "add" /\ u.pc \in {"index", "count", "enliven"} => u.mine = matcher
    /\ u.op = "add" /\ u.pc \in {"count", "enliven"} => u.arg \in matchers[matcher]
    /\ u.op \in {"delete", "disable"} /\ u.pc \notin {"load", "unlock"} => Entries \subseteq matchers[u.mine]
    /\ u.pc \in {"reset", "store"} => Entries \subseteq matchers[u.fresh]
    /\ u.op = "match" /\ u.pc = "match" => u.must \subseteq matchers[u.mine]
    /\ u.op = "match" /\ u.pc = "filter" => \A e \in Due(u) : e[1] \in u.todo \cup u.acc
    /\ u.op = "match" /\ u.pc \notin {"load", "match", "filter"} => \A e \in Due(u) : e[1] \in u.acc

Indexed ==
    "add" \notin races =>
        /\ Entries \subseteq matchers[matcher]
        /\ \A t \in Threads : IndexHolds(thread[t])

(* The copies of the fields that may still be stored have the trigger that *)
(* is stored now.                                                          *)
HasTrigger(u) ==
    /\ u.op = "delete" /\ u.pc \notin {"load", "unlock"} => u.myTrigger = trigger
    /\ u.pc \in {"iterate", "reset", "store"} => u.freshTrigger = trigger

TriggerCopied == "disable" \notin races => \A t \in Threads : HasTrigger(thread[t])

(* The live count, and what the call that holds the lock has yet to do.    *)
Pending(u) == IF u.pc = "enliven" THEN 1 ELSE IF u.pc = "discount" THEN u.count ELSE 0

CountRight ==
    races \subseteq {"disable"} =>
        /\ lock = NoThread => stats.Live = Size(live)
        /\ lock \in Threads => stats.Live = Size(live) + Pending(thread[lock])
        /\ \A t \in Threads : thread[t].pc = "reset" => thread[t].count = Size(live)

Noted == Overlaps(thread) \subseteq races

(* What all calls rely on and keep up: inductive, so that the properties   *)
(* of Pruner that follow from it hold in every reachable state.            *)
IInv ==
    /\ Types
    /\ \A t \in Threads : CallHolds(thread[t])
    /\ LockHeld
    /\ Counted
    /\ \A t \in Threads : MatchHolds(thread[t])
    /\ Noted
    /\ Indexed
    /\ TriggerCopied
    /\ CountRight
=============================================================================
