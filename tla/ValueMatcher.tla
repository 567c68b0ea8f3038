----------------------------- MODULE ValueMatcher -----------------------------
(***************************************************************************)
(* The valueMatcher: the values added for one field of the Patterns, one   *)
(* by one, and what it answers to the value of an event's field.           *)
(* Every new field matcher is the next number.                             *)
(***************************************************************************)
EXTENDS TypedValues

CONSTANTS
    ValueGroups,    \* sets of typed values that are added together
    Fields,         \* the event fields to look up
    BuildModes,     \* a subset of {"BuiltForStorage", "BuiltForSpeed"}
    MaxAdds         \* bounds the number of values added

VARIABLES
    heap,       \* all states of all automata
    fields,     \* valueMatcher.updateable: the vmFields published
    buildMode,
    loaded,     \* the vmFields that were published before, which readers may hold
    added       \* the values added, with the field matchers returned

vars == <<heap, fields, buildMode, loaded, added>>

-----------------------------------------------------------------------------
Init ==
    /\ heap = <<>>
    /\ fields = NewValueMatcher
    /\ buildMode \in BuildModes
    /\ loaded = {}
    /\ added = <<>>

AddTransition(value) ==
    /\ Len(added) < MaxAdds
    /\ \E group \in ValueGroups : {value} \cup {added[i].value : i \in DOMAIN added} \subseteq group
    /\ \E r \in {addTransition(heap, fields, value, Len(added) + 1, buildMode)} :
           /\ heap' = r.h
           /\ fields' = r.fields
           /\ added' = Append(added, [value |-> value, fm |-> r.fm])
    /\ loaded' = loaded \cup {fields}
    /\ UNCHANGED buildMode

Next == \E value \in UNION ValueGroups : AddTransition(value)

Spec == Init /\ [][Next]_vars

-----------------------------------------------------------------------------
(* transitionOn answers with the field matchers of the values that match,  *)
(* all of them and no other, whatever was merged and in which order.       *)
MatchesWhatWasAdded ==
    \A field \in Fields :
        transitionOn(heap, fields, field) =
            {added[i].fm : i \in {j \in DOMAIN added : ValueMatches(added[j].value, field)}}

(* No published table can be updated (nfa.go:410): a reader that holds an  *)
(* earlier vmFields gets the answers it would have got then.               *)
HeldFieldsKeepTheirAnswers ==
    [][\A f \in loaded \cup {fields} : \A field \in Fields :
           transitionOn(heap', f, field) = transitionOn(heap, f, field)]_vars

RECURSIVE ReachableFrom(_, _)
(* withSteps: over byte steps as well as epsilons.                         *)
ReachableFrom(states, withSteps) ==
    LET next == UNION {ToSet(heap[s].table.epsilons)
                       \cup IF withSteps THEN ToSet(heap[s].table.steps) \ {NoState} ELSE {} : s \in states}
    IN  IF next \subseteq states THEN states ELSE ReachableFrom(states \cup next, withSteps)

Reachable == ReachableFrom({fields.start} \ {NoState}, TRUE)

(* The walk that stops at states already closed (epsi_closure.go:169)      *)
(* leaves none open, and no closure lacks a state that epsilons reach and  *)
(* that steps or matches in a way no other member does.                    *)
ClosuresAreComplete ==
    fields.isNondeterministic =>
        \A s \in Reachable :
            /\ heap[s].closed
            /\ \A t \in ReachableFrom({s}, FALSE) :
                   \/ isPassThrough(heap[t])
                   \/ \E c \in Closure(heap, s) :
                          /\ unpackTable(heap[c].table) = unpackTable(heap[t].table)
                          /\ heap[c].fieldTransitions = heap[t].fieldTransitions

(* An automaton that is traversed deterministically has no epsilons.       *)
DeterministicHasNoEpsilons ==
    ~fields.isNondeterministic => \A s \in Reachable : heap[s].table.epsilons = <<>>

(* Tables stay as step and the iterators need them, states stay in the     *)
(* heap.                                                                   *)
TypeOK ==
    /\ DOMAIN fields = DOMAIN NewValueMatcher
    /\ buildMode \in BuildModes
    /\ \A s \in DOMAIN heap :
           LET t == heap[s].table
           IN  /\ Len(t.ceilings) = Len(t.steps)
               /\ Last(t.ceilings) = ByteCeiling
               /\ \A i \in 1 .. Len(t.ceilings) - 1 : t.ceilings[i] <= t.ceilings[i + 1]
               /\ iterate(t) = unpackTable(t)
               /\ ToSet(t.steps) \cup ToSet(t.epsilons) \cup ToSet(heap[s].epsilonClosure)
                      \subseteq {NoState} \cup DOMAIN heap

=============================================================================
