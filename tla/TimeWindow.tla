------------------------------ MODULE TimeWindow ------------------------------
(***************************************************************************)
(* Time windows: a weekly window in a time zone as ranges of minutes of    *)
(* the week, the ranges as prefixes of fixed-width numbers, the prefixes   *)
(* as an automaton, one automaton per time zone.                           *)
(*                                                                         *)
(* The week, the day and the radix of the digits are constants; the code   *)
(* has 7 days of 1440 minutes and five decimal digits.                     *)
(***************************************************************************)
EXTENDS Nfa

CONSTANTS
    DaysPerWeek, minutesPerDay, weekDigits, Radix,
    ZeroDigit,      \* the byte of the digit 0
    LocalMinute     \* time.In: the minute of the week of an instant, per zone

ASSUME TimeWindowAssumption ==
    /\ {DaysPerWeek, minutesPerDay, weekDigits} \subseteq Nat \ {0}
    /\ Radix \in Nat \ {0, 1}
    /\ DaysPerWeek * minutesPerDay < Radix ^ weekDigits
    /\ ZeroDigit \in Nat /\ ZeroDigit + Radix < ByteCeiling

minutesPerWeek == DaysPerWeek * minutesPerDay

(* parseDay: 0 and DaysPerWeek are the same day.                           *)
DayOf(n) == n % DaysPerWeek

AllDays == [d \in 1 .. DaysPerWeek |-> d - 1]

(* newTimeWindowSpec.  days: the numbers as they are written, <<>> for an  *)
(* empty list and AllDays for none given.  An end of minutesPerDay is      *)
(* 24:00, which a start cannot be.                                         *)
LegalWindow(days, start, end) ==
    /\ start < minutesPerDay
    /\ start # end
    /\ days # <<>>

rangesOf(days, start, end) ==
    LET long == IF end < start THEN end + minutesPerDay ELSE end
        lo(d) == DayOf(d) * minutesPerDay + start
        hi(d) == DayOf(d) * minutesPerDay + long
        range(d) == IF hi(d) > minutesPerWeek
                    THEN <<[lo |-> lo(d), hi |-> minutesPerWeek],
                           [lo |-> 0, hi |-> hi(d) - minutesPerWeek]>>
                    ELSE <<[lo |-> lo(d), hi |-> hi(d)]>>
    IN  FlattenSeq([i \in DOMAIN days |-> range(days[i])])

(* A range that starts inside the last one, or at its end, is joined to it.*)
mergeRanges(ranges) ==
    LET sorted == SortSeq(ranges, LAMBDA a, b : a.lo < b.lo)
        join(merged, r) ==
            IF merged # <<>> /\ r.lo <= Last(merged).hi
            THEN [merged EXCEPT ![Len(merged)].hi = IF r.hi > @ THEN r.hi ELSE @]
            ELSE Append(merged, r)
    IN  InTurn(join, <<>>, sorted)

(* The largest aligned blocks of a power of the radix, from lo up.         *)
RECURSIVE appendRangePrefixes(_, _, _)
appendRangePrefixes(prefixes, lo, hi) ==
    LET fits(d) == lo % Radix ^ d = 0 /\ lo + Radix ^ d <= hi
        digits == CHOOSE d \in 0 .. weekDigits :
                      /\ \A e \in 1 .. d : fits(e)
                      /\ d = weekDigits \/ ~fits(d + 1)
        prefix == [i \in 1 .. weekDigits - digits |->
                      ZeroDigit + ((lo \div Radix ^ (weekDigits - i)) % Radix)]
    IN  IF lo >= hi THEN prefixes
        ELSE appendRangePrefixes(Append(prefixes, prefix), lo + Radix ^ digits, hi)

timeWindowPrefixes(days, start, end) ==
    InTurn(LAMBDA prefixes, r : appendRangePrefixes(prefixes, r.lo, r.hi), <<>>,
             mergeRanges(rangesOf(days, start, end)))

-----------------------------------------------------------------------------
RECURSIVE makePrefixSetFA(_, _, _)
(* The steps are made in the order of their bytes.                         *)
makePrefixSetFA(h, prefixes, fm) ==
    LET firsts == {p[1] : p \in prefixes \ {<<>>}}
        bytes == SelectSeq([b \in 1 .. ByteCeiling |-> b - 1], LAMBDA b : b \in firsts)
        rest(b) == {Tail(p) : p \in {q \in prefixes \ {<<>>} : q[1] = b}}
        addStep(built, b) ==
            Finish(makePrefixSetFA(built.h, rest(b), fm),
                   LAMBDA fa : [h |-> fa.h, steps |-> Append(built.steps, fa.s)])
        table(steps, owner) == IF firsts = {} THEN newSmallTable(owner)
                               ELSE makeSmallTable(NoState, bytes, steps, owner)
        state(all) == Result(Allocate(all.h, LAMBDA owner : table(all.steps, owner),
                                      IF <<>> \in prefixes THEN <<fm>> ELSE <<>>),
                             NewState(all.h))
    IN  Finish(InTurn(addStep, [h |-> h, steps |-> <<>>], bytes), state)

(* tzs: the start state of the automaton of each time zone in use.         *)
addTimeWindow(h, tzs, tz, prefixes, fm) ==
    LET merged(fa) == IF tz \in DOMAIN tzs THEN mergeStartStates(fa.h, tzs[tz], fa.s) ELSE fa
        with(m) == [h |-> m.h, tzs |-> (tz :> m.s) @@ tzs]
    IN  Finish(Finish(makePrefixSetFA(h, ToSet(prefixes), fm), merged), with)

timeTransitions(h, tzs, time) ==
    LET digits(n) == [i \in 1 .. weekDigits |->
                         ZeroDigit + ((n \div Radix ^ (weekDigits - i)) % Radix)]
    IN  UNION {traverseDFA(h, tzs[tz], digits(LocalMinute[tz][time]), 1) : tz \in DOMAIN tzs}

-----------------------------------------------------------------------------
(* What a window says: some day's window, of a whole day or less, was      *)
(* opened no longer ago than it lasts.                                     *)
InWindow(minute, days, start, end) ==
    LET length == IF end > start THEN end - start ELSE end - start + minutesPerDay
    IN  \E i \in DOMAIN days :
            (minute - (DayOf(days[i]) * minutesPerDay + start)) % minutesPerWeek < length

=============================================================================
