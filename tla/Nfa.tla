--------------------------------- MODULE Nfa ---------------------------------
(***************************************************************************)
(* The automata of nfa.go, epsi_closure.go and state_lists.go: merging,    *)
(* epsilon closures, traversal and determinization.                        *)
(*                                                                         *)
(* A heap is a sequence of states, so that a state is its place in it, two *)
(* automata may share states, and a change to a state is seen by every     *)
(* automaton that reaches it.  Operators that allocate return the new heap *)
(* h with the state s they made.                                           *)
(***************************************************************************)
EXTENDS SmallTable, FiniteSets, TLC

(* closed tells the nil closure, not computed yet, from the shared         *)
(* selfOnlyClosure, which is empty too.                                    *)
faState(table, fms) ==
    [table |-> table, fieldTransitions |-> fms, isSpinner |-> FALSE,
     closed |-> FALSE, epsilonClosure |-> <<>>]

isPassThrough(st) == isEpsilonOnly(st.table) /\ st.fieldTransitions = <<>>

NewState(h) == Len(h) + 1
Result(h, s) == [h |-> h, s |-> s]

Allocate(h, table(_), fms) == Append(h, faState(table(NewState(h)), fms))
NewEmptyState(h) == Allocate(h, newSmallTable, <<>>)

(* A state with the steps of u, a step for every byte.                     *)
AllocatePacked(h, u) ==
    Result(Append(h, faState(pack(newSmallTable(NewState(h)), u, NewState(h)), <<>>)), NewState(h))

(* Where a table is passed by value, the state that carries it stands for  *)
(* it; a state made of the table is a copy of the carrier.                 *)
CopyTable(h, s) == Append(h, faState(h[s].table, <<>>))

-----------------------------------------------------------------------------
(* mergeFAs.  memo is keyed by the pair of states, whatever their order.   *)

RECURSIVE simplifyCollect(_, _, _)
(* acc: the states visited and, in order, the targets found.               *)
simplifyCollect(h, s, acc) ==
    IF s \in acc.visited THEN acc
    ELSE LET here == [acc EXCEPT !.visited = @ \cup {s}]
             eps == h[s].table.epsilons
             through[i \in 0 .. Len(eps)] ==
                 IF i = 0 THEN here ELSE simplifyCollect(h, eps[i], through[i - 1])
         IN  IF isPassThrough(h[s]) THEN through[Len(eps)]
             ELSE [here EXCEPT !.targets = Append(@, s)]

simplifySplices(h, s1, s2) ==
    simplifyCollect(h, s2, simplifyCollect(h, s1, [visited |-> {}, targets |-> <<>>])).targets

(* A state with the steps and the fields of s, and epsilons of its own.    *)
WithEpsilons(h, s, eps) ==
    Append(h, faState([h[s].table EXCEPT !.epsilons = eps], h[s].fieldTransitions))

AddEpsilon(h, s, eps) == [h EXCEPT ![s].table.epsilons = Append(@, eps)]

RECURSIVE mergeFAStates(_, _, _, _)

(* What one byte leads to in the merged state combined, from the steps n1  *)
(* and n2 that s1 and s2 take on it, where that needs no new state.        *)
Open == -1
Settled(kind, s1, s2, combined, n1, n2) ==
    IF n1 = NoState THEN IF kind = "symmetric" THEN NoState ELSE n2
    ELSE IF n2 = NoState THEN n1
    ELSE IF kind = "plain" /\ n1 = n2 THEN n1
    ELSE IF kind = "symmetric" /\ n1 = s1 /\ n2 = s2 THEN combined
    ELSE Open

(* Otherwise the two are merged, and lead back to the spinner.             *)
MergedStep(acc, n1, n2, spinner) ==
    LET back(m) == [m EXCEPT !.h = AddEpsilon(@, m.s, spinner)]
    IN  Finish(mergeFAStates(acc.h, acc.memo, n1, n2), back)

(* Mutant: the branch does not lead back to the spinner.                   *)
BranchNoReturn(acc, n, eps, spinner) ==
    [acc EXCEPT !.h = WithEpsilons(@, n, eps), !.s = NewState(acc.h)]

Branch(acc, n, eps, spinner) ==
    [acc EXCEPT !.h = WithEpsilons(@, n, Append(eps, spinner)), !.s = NewState(acc.h)]

(* As in the code, the branch of one of two spinners gets the epsilons of  *)
(* that spinner, not its own.                                              *)
OpenStep(kind, acc, s1, s2, combined, n1, n2) ==
    CASE kind = "plain" -> mergeFAStates(acc.h, acc.memo, n1, n2)
      [] kind = "asymmetric" ->
            IF n1 = s1 THEN Branch(acc, n2, acc.h[n2].table.epsilons, s1)
            ELSE MergedStep(acc, n1, n2, s1)
      [] kind = "symmetric" ->
            IF n1 = s1 THEN Branch(acc, n2, acc.h[s2].table.epsilons, combined)
            ELSE IF n2 = s2 THEN Branch(acc, n1, acc.h[s1].table.epsilons, combined)
            ELSE MergedStep(acc, n1, n2, combined)

(* The state combined of s1 and s2, entered in the memo before its steps   *)
(* are merged, byte by byte.                                               *)
mergeTables(kind, h, memo, s1, s2) ==
    LET combined == NewState(h)
        base == [h |-> Allocate(h, newSmallTable, h[s1].fieldTransitions \o h[s2].fieldTransitions),
                 memo |-> memo @@ ({s1, s2} :> combined), s |-> combined, u |-> <<>>]
        row1 == iterate(h[s1].table)
        row2 == iterate(h[s2].table)
        settled == [b \in Bytes |-> Settled(kind, s1, s2, combined, row1[b], row2[b])]
        open == SelectSeq([i \in 1 .. ByteCeiling |-> i - 1], LAMBDA b : settled[b] = Open)
        stepOn(acc, b) == Finish(OpenStep(kind, acc, s1, s2, combined, row1[b], row2[b]),
                                 LAMBDA m : [m EXCEPT !.u = Append(acc.u, m.s)])
        row(u) == [b \in Bytes |-> IF settled[b] = Open THEN u[SelectInSeq(open, LAMBDA c : c = b)]
                                   ELSE settled[b]]
        filled(all) == [all EXCEPT !.s = combined, !.h[combined].table = pack(@, row(all.u), combined)]
    IN  Finish(InTurn(stepOn, base, open), filled)

(* How two states are merged, and in which order: a spinner goes first.    *)
mergeKind(h, s1, s2) ==
    LET noEpsilons(s) == h[s].table.epsilons = <<>>
    IN  IF h[s1].isSpinner /\ h[s2].isSpinner THEN <<"symmetric", s1, s2>>
        ELSE IF h[s1].isSpinner /\ noEpsilons(s2) THEN <<"asymmetric", s1, s2>>
        ELSE IF h[s2].isSpinner /\ noEpsilons(s1) THEN <<"asymmetric", s2, s1>>
        ELSE IF noEpsilons(s1) /\ noEpsilons(s2) THEN <<"plain", s1, s2>>
        ELSE <<"splice", s1, s2>>

mergeSplice(h, memo, s1, s2) ==
    LET combined == NewState(h)
        splice == [newSmallTable(combined) EXCEPT !.epsilons = simplifySplices(h, s1, s2)]
    IN  [h |-> Append(h, faState(splice, <<>>)),
         memo |-> memo @@ ({s1, s2} :> combined), s |-> combined, u |-> <<>>]

mergeBy(kind, h, memo) ==
    IF kind[1] = "splice" THEN mergeSplice(h, memo, kind[2], kind[3])
    ELSE mergeTables(kind[1], h, memo, kind[2], kind[3])

mergeFAStates(h, memo, s1, s2) ==
    IF {s1, s2} \in DOMAIN memo
    THEN [h |-> h, memo |-> memo, s |-> memo[{s1, s2}], u |-> <<>>]
    ELSE mergeBy(mergeKind(h, s1, s2), h, memo)

(* Mutant: the state in use becomes the merged one.                        *)
mergeStartStatesInPlace(h, s1, s2) ==
    LET inPlace(m) == Result([m.h EXCEPT ![s1] = m.h[m.s]], s1)
    IN  inPlace(mergeFAStates(h, <<>>, s1, s2))

mergeStartStates(h, s1, s2) ==
    Finish(mergeFAStates(h, <<>>, s1, s2), LAMBDA m : Result(m.h, m.s))

(* mergeFAs takes tables: it merges states made of copies of them, and     *)
(* hands on the table only.                                                *)
mergeFAs(h, s1, s2) ==
    LET copies == h \o <<faState(h[s1].table, <<>>), faState(h[s2].table, <<>>)>>
    IN  mergeStartStates(copies, NewState(h), NewState(h) + 1)

-----------------------------------------------------------------------------
(* Epsilon closures.  The generation counters of closureBuffers stand for  *)
(* sets that are empty at the start of a walk or of one closure.           *)

(* Mutant: the epsilons of a state without steps are not followed.         *)
traverseEpsilonsOnce(h, start, epsilons, acc) ==
    [visited |-> acc.visited \cup ToSet(epsilons),
     list |-> acc.list \o SelectSeq(epsilons, LAMBDA e : e \notin acc.visited /\ ~isPassThrough(h[e]))]

RECURSIVE traverseEpsilons(_, _, _, _)
traverseEpsilons(h, start, epsilons, acc) ==
    IF epsilons = <<>> THEN acc
    ELSE LET eps == Head(epsilons)
             seen == [visited |-> acc.visited \cup {eps},
                      list |-> IF isPassThrough(h[eps]) THEN acc.list ELSE Append(acc.list, eps)]
         IN  traverseEpsilons(h, start, Tail(epsilons),
                 IF eps = start \/ eps \in acc.visited THEN acc
                 ELSE traverseEpsilons(h, start, h[eps].table.epsilons, seen))

sameFieldTransitions(h, a, b) == h[a].fieldTransitions = h[b].fieldTransitions

(* Of the states that share a steps array, those with the same fields as   *)
(* the first are dropped.  No steps array, no share group.                 *)
dedupByTableShare(h, list) ==
    LET share(i) == newTableShareKey(h[list[i]].table)
        first(i) == CHOOSE j \in 1 .. i : share(j) = share(i) /\ \A k \in 1 .. j - 1 : share(k) # share(i)
        kept(i) == \/ share(i) = NoState
                   \/ first(i) = i
                   \/ ~sameFieldTransitions(h, list[first(i)], list[i])
    IN  [k \in DOMAIN SelectSeq([i \in DOMAIN list |-> i], kept) |->
            list[SelectSeq([i \in DOMAIN list |-> i], kept)[k]]]

closureForState(h, s) ==
    LET self == ~isPassThrough(h[s])
        base == IF self THEN [visited |-> {s}, list |-> <<s>>] ELSE [visited |-> {}, list |-> <<>>]
        closure == dedupByTableShare(h, traverseEpsilons(h, s, h[s].table.epsilons, base).list)
        selfOnly == h[s].table.epsilons = <<>> \/ (self /\ Len(closure) = 1)
    IN  IF h[s].closed THEN h
        ELSE [h EXCEPT ![s].closed = TRUE, ![s].epsilonClosure = IF selfOnly THEN <<>> ELSE closure]

RECURSIVE closureForNfa(_, _)
(* acc: the heap h and the states visited by this walk.                    *)
closureForNfa(acc, s) ==
    LET here == [acc EXCEPT !.visited = @ \cup {s}]
        below == SelectSeq(acc.h[s].table.steps, LAMBDA n : n # NoState) \o acc.h[s].table.epsilons
    IN  IF s \in acc.visited THEN acc
        ELSE IF acc.h[s].closed THEN here
        ELSE InTurn(closureForNfa, [here EXCEPT !.h = closureForState(@, s)], below)

epsilonClosure(h, start) == closureForNfa([h |-> h, visited |-> {}], start).h

-----------------------------------------------------------------------------
(* Traversal.  The value terminator follows the last byte of the value.    *)
Input(val, i) == IF i <= Len(val) THEN val[i] ELSE valueTerminator

Steps(h, states, b) == {step(h[s].table, b) : s \in states} \ {NoState}
FieldsOf(h, states) == UNION {ToSet(h[s].fieldTransitions) : s \in states}

RECURSIVE traverseDFA(_, _, _, _)
traverseDFA(h, s, val, i) ==
    LET next == step(h[s].table, Input(val, i))
    IN  IF i > Len(val) + 1 \/ next = NoState THEN {}
        ELSE ToSet(h[next].fieldTransitions) \cup traverseDFA(h, next, val, i + 1)

(* An empty closure, computed or not, is the state itself.                 *)
Closure(h, s) == IF h[s].epsilonClosure = <<>> THEN {s} ELSE ToSet(h[s].epsilonClosure)

RECURSIVE traverseNFA(_, _, _, _)
traverseNFA(h, currentStates, val, i) ==
    LET active == UNION {Closure(h, s) : s \in currentStates}
    IN  FieldsOf(h, active) \cup
        IF currentStates = {} \/ i > Len(val) + 1 THEN {}
        ELSE traverseNFA(h, Steps(h, active, Input(val, i)), val, i + 1)

-----------------------------------------------------------------------------
(* nfa2Dfa.  entries: the DFA state of every set of NFA states met, s the  *)
(* one asked for.  A new set gets a state without steps yet.               *)
intern(acc, states) ==
    IF states \in DOMAIN acc.entries THEN [acc EXCEPT !.s = acc.entries[states]]
    ELSE [acc EXCEPT !.h = NewEmptyState(@), !.s = NewState(acc.h),
                     !.entries = (states :> NewState(acc.h)) @@ @]

(* Bytes that lead to the same states are taken together, at the first.    *)
RECURSIVE n2dNode(_, _)
n2dNode(acc, rawNStates) ==
    LET ingredients == UNION {Closure(acc.h, s) : s \in rawNStates}
        interned == intern(acc, ingredients)
        dfaState == interned.s
        raw == [b \in Bytes |-> Steps(acc.h, ingredients, b)]
        firsts == SelectSeq([i \in 1 .. ByteCeiling |-> i - 1],
                            LAMBDA b : raw[b] # {} /\ \A c \in 0 .. b - 1 : raw[c] # raw[b])
        node(before, b) ==
            Finish(n2dNode(before, raw[b]),
                   LAMBDA next : [next EXCEPT !.to = before.to @@ (raw[b] :> next.s)])
        all == InTurn(node, [interned EXCEPT !.to = <<>>], firsts)
        row == [b \in Bytes |-> IF raw[b] = {} THEN NoState ELSE all.to[raw[b]]]
    IN  IF ingredients \in DOMAIN acc.entries THEN interned
        ELSE [all EXCEPT !.s = dfaState,
                         !.h[dfaState].table = pack(@, row, dfaState),
                         !.h[dfaState].fieldTransitions = SetToSeq(FieldsOf(acc.h, ingredients))]

nfa2Dfa(h, nfaStart) ==
    LET closed == [h EXCEPT ![nfaStart].closed = TRUE, ![nfaStart].epsilonClosure = <<>>]
        dfa == n2dNode([h |-> closed, entries |-> <<>>, s |-> NoState, to |-> <<>>], {nfaStart})
    IN  Result(dfa.h, dfa.s)

RECURSIVE isNondeterministic(_, _)
isNondeterministic(h, s) ==
    \/ h[s].table.epsilons # <<>>
    \/ \E n \in ToSet(h[s].table.steps) \ {NoState} : isNondeterministic(h, n)

=============================================================================
