----------------------------- MODULE TypedValues -----------------------------
(***************************************************************************)
(* Typed values of all kinds: the automaton made of each, the vmFields     *)
(* that hold the automata of a valueMatcher, what they answer to the value *)
(* of an event's field, and what each kind of value says.                  *)
(*                                                                         *)
(* A typed value is a record with its vType and, by type, its bytes val,   *)
(* its list, its parsed regexp tree, its bounds or its time window.  A     *)
(* field of an event is [val, isNumber, time]; time is the instant its     *)
(* text denotes, NoTime if none.  A field matcher is a number.             *)
(***************************************************************************)
EXTENDS ValueAutomata, RegexpNfa, TimeWindow

G == INSTANCE RegexpGrammar

NoTime == -1
NoBytes == <<>>

NewValueMatcher ==
    [start |-> NoState, singletonMatch |-> NoBytes, singletonTransition |-> 0,
     hasNumbers |-> FALSE, isNondeterministic |-> FALSE,
     timeZones |-> <<>>, numeric |-> NoState]

-----------------------------------------------------------------------------
(* transitionOn, as the set of the field matchers.                         *)
valueTransitions(h, f, field) ==
    LET asNumber == f.hasNumbers /\ field.isNumber /\ ParseFloat[field.val] # NoFloat
        input == IF asNumber THEN qNumFromFloat(ParseFloat[field.val]) ELSE field.val
    IN  IF f.singletonMatch # NoBytes
        THEN IF f.singletonMatch = field.val THEN {f.singletonTransition} ELSE {}
        ELSE IF f.start = NoState THEN {}
        ELSE IF f.isNondeterministic THEN traverseNFA(h, {f.start}, input, 1)
        ELSE traverseDFA(h, f.start, input, 1)

transitionOn(h, f, field) ==
    UNION {valueTransitions(h, f, field),
           IF field.time = NoTime THEN {} ELSE timeTransitions(h, f.timeZones, field.time),
           IF f.numeric = NoState \/ ~field.isNumber THEN {}
           ELSE numericTransitions(h, f.numeric, ParseFloat[field.val])}

-----------------------------------------------------------------------------
(* addTransition.  fm is the field matcher to be made; the result is the   *)
(* heap, the new vmFields, and the field matcher to go on with.            *)
TextTypes == {"stringType", "literalType"}
(* Mutant: wildcards are taken to be deterministic.                        *)
SpinnerTypesOfShells == {"shellStyleType"}
SpinnerTypes == {"shellStyleType", "wildcardType"}

newFA(h, value, fm) ==
    CASE value.vType \in TextTypes      -> makeStringFA(h, value.val, fm, FALSE)
      [] value.vType = "numberType"     -> makeStringFA(h, value.val, fm, TRUE)
      [] value.vType = "anythingButType"-> makeMultiAnythingButFA(h, value.list, fm)
      [] value.vType = "shellStyleType" -> makeShellStyleFA(h, value.val, fm)
      [] value.vType = "wildcardType"   -> makeWildCardFA(h, value.val, fm)
      [] value.vType = "prefixType"     -> makePrefixFA(h, value.val, fm)
      [] value.vType = "monocaseType"   -> makeMonocaseFA(h, value.val, fm)
      [] value.vType = "regexpType"     -> makeRegexpNFA(h, value.tree, fm)

addTimeWindowValue(h, f, value, fm) ==
    LET with(w) == [h |-> w.h, fields |-> [f EXCEPT !.timeZones = w.tzs], fm |-> fm]
    IN  with(addTimeWindow(h, f.timeZones, value.tz,
                           timeWindowPrefixes(value.days, value.start, value.end), fm))

addNumericRange(h, f, value, fm) ==
    LET merged(fa) == IF f.numeric = NoState THEN fa ELSE mergeStartStates(fa.h, f.numeric, fa.s)
        with(m) == [h |-> m.h, fields |-> [f EXCEPT !.numeric = m.s], fm |-> fm]
    IN  with(merged(makeNumericRangeFA(h, readNumericSpecial(value.bounds), fm)))

(* Whether the automaton fa of value has to be traversed as an NFA.        *)
makesNondeterministic(value, fa) ==
    \/ value.vType \in SpinnerTypes
    \/ value.vType = "regexpType" /\ isNondeterministic(fa.h, fa.s)

(* An NFA with its closures, or made deterministic.                        *)
closedFA(fa, speedy) ==
    LET finish(closed) == IF speedy THEN nfa2Dfa(closed, fa.s) ELSE Result(closed, fa.s)
    IN  Finish(epsilonClosure(fa.h, fa.s), finish)

(* The new automaton fa, merged with the one in use or with one made of    *)
(* the singleton.                                                          *)
mergeNewFA(f, fa) ==
    LET with(singleton) == mergeStartStates(singleton.h, singleton.s, fa.s)
    IN  IF f.start # NoState THEN mergeStartStates(fa.h, f.start, fa.s)
        ELSE IF f.singletonMatch # NoBytes
        THEN with(makeStringFA(fa.h, f.singletonMatch, f.singletonTransition, FALSE))
        ELSE fa

(* The vmFields to be published, with the automaton fa.                    *)
storeAutomaton(f, value, fm, fa, nondeterministic) ==
    [h |-> fa.h,
     fields |-> [f EXCEPT !.start = fa.s,
                          !.singletonMatch = NoBytes, !.singletonTransition = 0,
                          !.hasNumbers = @ \/ value.vType = "numberType",
                          !.isNondeterministic = nondeterministic],
     fm |-> fm]

(* Closed if it is nondeterministic, and made deterministic if the matcher *)
(* is built for speed.                                                     *)
finishAutomaton(f, value, fm, mode, fa) ==
    LET speedy == mode = "BuiltForSpeed"
        nondeterministic == f.isNondeterministic \/ makesNondeterministic(value, fa)
        closed(merged) == IF nondeterministic THEN closedFA(merged, speedy) ELSE merged
        store(made) == storeAutomaton(f, value, fm, made, nondeterministic /\ ~speedy)
    IN  Finish(Finish(mergeNewFA(f, fa), closed), store)

addAutomaton(h, f, value, fm, mode) ==
    Finish(newFA(h, value, fm), LAMBDA fa : finishAutomaton(f, value, fm, mode, fa))

addTransition(h, f, value, fm, mode) ==
    LET isText == value.vType \in TextTypes
    IN  IF value.vType = "timeWindowType" THEN addTimeWindowValue(h, f, value, fm)
        ELSE IF value.vType = "numericRangeType" THEN addNumericRange(h, f, value, fm)
        ELSE IF isText /\ f.start = NoState /\ f.singletonMatch = NoBytes
             THEN [h |-> h, fm |-> fm,
                   fields |-> [f EXCEPT !.singletonMatch = value.val, !.singletonTransition = fm]]
        ELSE IF isText /\ f.singletonMatch = value.val
             THEN [h |-> h, fields |-> f, fm |-> f.singletonTransition]
        ELSE addAutomaton(h, f, value, fm, mode)

-----------------------------------------------------------------------------
RECURSIVE DecodeAll(_)
DecodeAll(bytes) ==
    IF bytes = <<>> THEN <<>>
    ELSE LET r == DecodeRune(bytes, 1)
         IN  <<CHOOSE n \in DOMAIN runeToUTF8 : runeToUTF8[n] = r>>
             \o DecodeAll(SubSeq(bytes, Len(r) + 1, Len(bytes)))

(* What a value says of a field.                                           *)
ValueMatches(value, field) ==
    CASE value.vType \in TextTypes       -> field.val = value.val
      [] value.vType = "numberType"      ->
            field.isNumber /\ (\/ field.val = value.val
                               \/ /\ ParseFloat[value.val] # NoFloat
                                  /\ ParseFloat[field.val] # NoFloat
                                  /\ Value(ParseFloat[field.val]) = Value(ParseFloat[value.val]))
      [] value.vType = "anythingButType" -> field.val \notin value.list
      [] value.vType = "shellStyleType"  -> GlobMatches(value.val, FALSE, field.val)
      [] value.vType = "wildcardType"    -> GlobMatches(value.val, TRUE, field.val)
      [] value.vType = "prefixType"      -> IsPrefix(Front(value.val), field.val)
      [] value.vType = "monocaseType"    -> FoldsTo(value.val, field.val)
      [] value.vType = "regexpType"      ->
            /\ field.val[1] = Quote
            /\ G!InRoot(G!Meaning(value.tree), DecodeAll(Tail(Front(field.val))))
      [] value.vType = "numericRangeType"->
            /\ field.isNumber
            /\ ParseFloat[field.val] # NoFloat
            /\ Satisfies(ParseFloat[field.val], value.bounds)
      [] value.vType = "timeWindowType"  ->
            /\ field.time # NoTime
            /\ InWindow(LocalMinute[value.tz][field.time], value.days, value.start, value.end)

=============================================================================
