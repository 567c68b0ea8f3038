---------------------------- MODULE ValueAutomata ----------------------------
(***************************************************************************)
(* The automata of single values: strings, numbers, prefixes,              *)
(* anything-but lists, shell-style and wildcard globs, monocase.           *)
(*                                                                         *)
(* A value is the sequence of its bytes, a string with both its quotes.    *)
(* Every constructor takes the field matcher fm to end in, and returns the *)
(* heap with the start state.                                              *)
(***************************************************************************)
EXTENDS Numbers, RuneRange

CONSTANTS Star, Backslash, caseFoldingPairs

ASSUME AlphabetAssumption ==
    {Star, Backslash} \subseteq Bytes

SetByteStep(h, s, b, next) == [h EXCEPT ![s].table = addByteStep(@, b, next, s)]

Accept(h, fm) == Allocate(h, newSmallTable, <<fm>>)

(* One state per byte, the last one made for the first byte.               *)
Chain(h, bytes, endAt) ==
    LET n == Len(bytes)
        target(k) == IF k = 1 THEN endAt ELSE Len(h) + k - 1
    IN  Result(h \o [k \in 1 .. n |->
                        faState(makeSmallTable(NoState, <<bytes[n + 1 - k]>>, <<target(k)>>, Len(h) + k),
                                <<>>)],
               IF n = 0 THEN endAt ELSE Len(h) + n)

-----------------------------------------------------------------------------
(* makeOneStringFAStep: the value and its terminator.                      *)
makeOneStringFAStep(h, val, fm) ==
    Chain(Accept(h, fm), Append(val, valueTerminator), NewState(h))

(* A number has, beside its text, the automaton of its Q number.           *)
makeStringFA(h, val, fm, isNumber) ==
    LET string == makeOneStringFAStep(h, val, fm)
        number == makeOneStringFAStep(string.h, qNumFromFloat(ParseFloat[val]), fm)
    IN  IF isNumber /\ ParseFloat[val] # NoFloat
        THEN mergeFAs(number.h, string.s, number.s)
        ELSE string

(* One short of the end, to skip the closing quote.                        *)
makePrefixFA(h, val, fm) == Chain(Accept(h, fm), Front(val), NewState(h))

makeFAFragment(h, val, endAt) == Chain(h, Tail(val), endAt)

-----------------------------------------------------------------------------
(* anything-but.  A byte that some value goes on with leads to the step    *)
(* for those values; a byte that some value ends with, set after it, to a  *)
(* failure at the value terminator; all others to success.                 *)
RECURSIVE makeOneMultiAnythingButStep(_, _, _, _)
makeOneMultiAnythingButStep(h, vals, index, success) ==
    LET goesOn(b) == {v \in vals : index < Len(v) /\ v[index] = b}
        ending == {v[index] : v \in {w \in vals : index = Len(w)}}
        fail(owner) == makeSmallTable(success, <<valueTerminator>>, <<owner - 1>>, owner)
        next(acc, b) ==
            IF b \in ending
            THEN Result(Allocate(NewEmptyState(acc.h), fail, <<>>), NewState(acc.h) + 1)
            ELSE makeOneMultiAnythingButStep(acc.h, goesOn(b), index + 1, success)
        stepOn(acc, b) ==
            Finish(next(acc, b), LAMBDA n : [h |-> n.h, u |-> [acc.u EXCEPT ![b] = n.s]])
        listed == SelectSeq([i \in 1 .. ByteCeiling |-> i - 1],
                            LAMBDA b : b \in ending \/ goesOn(b) # {})
        state(all) == AllocatePacked(all.h, all.u)
    IN  Finish(InTurn(stepOn, [h |-> h, u |-> [b \in Bytes |-> success]], listed), state)

makeMultiAnythingButFA(h, vals, fm) ==
    makeOneMultiAnythingButStep(Accept(h, fm), vals, 1, NewState(h))

-----------------------------------------------------------------------------
(* shellstyle and wildcard.  The state at a star becomes a spinner, which  *)
(* loops on every byte of UTF-8 but the one after the star; that one       *)
(* leads to an escape state with an epsilon back to the spinner.           *)
RECURSIVE globStep(_, _, _, _, _, _)
globStep(h, state, val, i, fm, escapes) ==
    LET escaped == escapes /\ val[i] = Backslash
        at == IF escaped THEN i + 1 ELSE i
        next == NewState(h)
        spinEscape == [NewEmptyState(h) EXCEPT ![next].table.epsilons = <<state>>]
        spinner == SetByteStep([spinEscape EXCEPT ![state].table = makeByteDotFA(state, state),
                                                  ![state].isSpinner = TRUE],
                               state, val[i + 1], next)
    IN  IF i > Len(val) THEN SetByteStep(Accept(h, fm), state, valueTerminator, next)
        ELSE IF val[i] = Star THEN globStep(spinner, next, val, i + 2, fm, escapes)
        ELSE globStep(SetByteStep(NewEmptyState(h), state, val[at], next), next, val, at + 1, fm, escapes)

makeGlobFA(h, val, fm, escapes) ==
    Result(globStep(NewEmptyState(h), NewState(h), val, 1, fm, escapes), NewState(h))

makeShellStyleFA(h, val, fm) == makeGlobFA(h, val, fm, FALSE)
makeWildCardFA(h, val, fm) == makeGlobFA(h, val, fm, TRUE)

-----------------------------------------------------------------------------
(* monocase.  utf8.DecodeRune and utf8.EncodeRune by the byte sequences.   *)
LongRunes == {r \in Range(runeToUTF8) : Len(r) > 1}

DecodeRune(val, i) ==
    LET long == {r \in LongRunes : IsPrefix(r, SubSeq(val, i, Len(val)))}
    IN  IF long = {} THEN <<val[i]>> ELSE CHOOSE r \in long : TRUE

(* Both forms of a rune lead to the same next state; the bytes they begin  *)
(* with in common make states of their own.                                *)
RECURSIVE monocaseStep(_, _, _, _, _)
monocaseStep(h, state, val, i, fm) ==
    LET orig == DecodeRune(val, i)
        next == NewState(h)
        alt == caseFoldingPairs[orig]
        common == (CHOOSE k \in 1 .. Len(orig) : orig[k] # alt[k] /\ \A j \in 1 .. k - 1 : orig[j] = alt[j]) - 1
        one == makeFAFragment(NewEmptyState(h), orig, next)
        prefix[k \in 0 .. common] ==
            IF k = 0 THEN Result(NewEmptyState(h), state)
            ELSE LET before == prefix[k - 1]
                 IN  Result(SetByteStep(NewEmptyState(before.h), before.s, orig[k], NewState(before.h)),
                            NewState(before.h))
        join(fork, origFA, altFA) ==
            SetByteStep(SetByteStep(altFA.h, fork, orig[common + 1], origFA.s),
                        fork, alt[common + 1], altFA.s)
        both(fork, origFA) ==
            join(fork, origFA, makeFAFragment(origFA.h, SubSeq(alt, common + 1, Len(alt)), next))
        two(fork) == both(fork.s, makeFAFragment(fork.h, SubSeq(orig, common + 1, Len(orig)), next))
    IN  IF i > Len(val) THEN SetByteStep(Accept(h, fm), state, valueTerminator, next)
        ELSE monocaseStep(IF orig \in DOMAIN caseFoldingPairs THEN two(prefix[common])
                          ELSE SetByteStep(one.h, state, orig[1], one.s),
                          next, val, i + Len(orig), fm)

makeMonocaseFA(h, val, fm) ==
    Result(monocaseStep(NewEmptyState(h), NewState(h), val, 1, fm), NewState(h))

-----------------------------------------------------------------------------
(* What the values say, of an event field's bytes.                         *)
RECURSIVE GlobMatches(_, _, _)
GlobMatches(glob, escapes, text) ==
    IF glob = <<>> THEN text = <<>>
    ELSE IF Head(glob) = Star
         THEN \E n \in 0 .. Len(text) : GlobMatches(Tail(glob), escapes, SubSeq(text, n + 1, Len(text)))
    ELSE LET lit == IF escapes /\ Head(glob) = Backslash THEN Tail(glob) ELSE glob
         IN  /\ text # <<>>
             /\ Head(text) = Head(lit)
             /\ GlobMatches(Tail(lit), escapes, Tail(text))

RECURSIVE FoldsTo(_, _)
FoldsTo(val, text) ==
    IF val = <<>> THEN text = <<>>
    ELSE LET r == DecodeRune(val, 1)
             forms == {r} \cup (IF r \in DOMAIN caseFoldingPairs THEN {caseFoldingPairs[r]} ELSE {})
         IN  \E f \in forms : /\ IsPrefix(f, text)
                              /\ FoldsTo(SubSeq(val, Len(r) + 1, Len(val)),
                                         SubSeq(text, Len(f) + 1, Len(text)))

=============================================================================
