---------------------------- MODULE PatternStore ----------------------------
(***************************************************************************)
(* What a matcher promises its callers, whatever automaton it builds.      *)
(* AddPattern calls and MatchesForEvent calls overlap freely.  A match     *)
(* call returns at least the X of every Pattern whose AddPattern had       *)
(* returned when the call began and which matches the Event, and nothing   *)
(* but the X of Patterns whose AddPattern had begun, did not fail, and     *)
(* which match the Event -- except that the exists:false conditions of a   *)
(* Pattern added while the call was running may not have been looked at.   *)
(***************************************************************************)
EXTENDS Patterns

CONSTANTS Writers, Readers

VARIABLES
    adds,    \* per AddPattern call: "idle", "adding", "added" or "failed"
    adding,  \* per AddPattern call: the set holding its Pattern
    calls    \* per MatchesForEvent call: its state, event, must and result

svars == <<adds, adding, calls>>

Holding(states) == UNION {adding[w] : w \in {v \in Writers : adds[v] \in states}}

SInit ==
    /\ adds = [w \in Writers |-> "idle"]
    /\ adding = [w \in Writers |-> {}]
    /\ calls = [r \in Readers |->
                  [state |-> "idle", event |-> <<>>, must |-> {}, result |-> {}]]

BeginAdd(w) ==
    /\ adds[w] = "idle"
    /\ \E p \in Patterns : adding' = [adding EXCEPT ![w] = {p}]
    /\ adds' = [adds EXCEPT ![w] = "adding"]
    /\ UNCHANGED calls

EndAdd(w) ==
    /\ adds[w] = "adding"
    /\ adds' = [adds EXCEPT ![w] = "added"]
    /\ UNCHANGED <<adding, calls>>

FailAdd(w) ==
    /\ adds[w] = "adding"
    /\ adds' = [adds EXCEPT ![w] = "failed"]
    /\ UNCHANGED <<adding, calls>>

BeginMatch(r) ==
    /\ calls[r].state = "idle"
    /\ \E e \in Events :
         calls' = [calls EXCEPT ![r] = [state |-> "matching", event |-> e,
                                        must |-> Holding({"added"}), result |-> {}]]
    /\ UNCHANGED <<adds, adding>>

(* The results a call may give: every Pattern of must that matches, and    *)
(* only Patterns that match (up to the exists:false of late arrivals).     *)
Required(call) == {p.x : p \in {q \in call.must : Matches(q, call.event)}}

Allowed(call) ==
    {p.x : p \in {q \in Holding({"adding", "added"}) :
                     /\ WantedMet(q, call.event)
                     /\ q \in call.must => AbsentMet(q, call.event)}}

EndMatch(r) ==
    /\ calls[r].state = "matching"
    /\ \E xs \in SUBSET Allowed(calls[r]) :
         /\ Required(calls[r]) \subseteq xs
         /\ calls' = [calls EXCEPT ![r].state = "returned", ![r].result = xs]
    /\ UNCHANGED <<adds, adding>>

SNext ==
    \/ \E w \in Writers : BeginAdd(w) \/ EndAdd(w) \/ FailAdd(w)
    \/ \E r \in Readers : BeginMatch(r) \/ EndMatch(r)

StoreSpec == SInit /\ [][SNext]_svars
=============================================================================
