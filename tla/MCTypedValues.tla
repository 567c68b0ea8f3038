---------------------------- MODULE MCTypedValues ----------------------------
(* A small alphabet, a few runes, numbers and instants, for the instances  *)
(* of the modules about typed values.                                      *)
EXTENDS TypedValues

\* The alphabet: bytes 0 and 1 occur in Q numbers only; then " * 1 A \ a,
\* in the order of their codes, two continuation bytes, a byte that UTF-8
\* forbids, a first byte of two, and the value terminator.
MCQuote == 2
MCStar == 3
One == 4
UpperA == 5
MCBackslash == 6
LowerA == 7
MCAt == [x \in {"80", "90", "C0", "C2", "F5"} |->
            CASE x = "80" -> 8 [] x = "90" -> 9 [] x = "C0" -> 10 [] x = "C2" -> 11 [] x = "F5" -> 12]
MCByteCeiling == 13

\* Two runes of two bytes, which fold to each other like A and a.
Small == <<11, 8>>
Capital == <<11, 9>>
MCRuneToUTF8 == [r \in 0 .. 9 |-> IF r = 8 THEN Small ELSE IF r = 9 THEN Capital ELSE <<r>>]
MCFolding ==
    (<<UpperA>> :> <<LowerA>>) @@ (<<LowerA>> :> <<UpperA>>) @@ (Small :> Capital) @@ (Capital :> Small)

Quoted(s) == <<MCQuote>> \o s \o <<MCQuote>>
Texts(alphabet, n) == {Quoted(s) : s \in UNION {[1 .. k -> alphabet] : k \in 0 .. n}}

\* Numbers by their texts, of ones only, as bits: 3 twice, one that does not
\* parse, 0, -0, -1, the largest and the smallest.
Ones(n) == [i \in 1 .. n |-> One]
MCParseFloat ==
    (Ones(1) :> 3) @@ (Ones(2) :> 3) @@ (Ones(3) :> -1) @@ (Ones(4) :> 0) @@ (Ones(5) :> 16)
    @@ (Ones(6) :> 17) @@ (Ones(7) :> 11) @@ (Ones(8) :> 27)

\* Three days of twelve minutes; the second zone is five minutes ahead.
Window(tz, days, start, end) ==
    [vType |-> "timeWindowType", tz |-> tz, days |-> days, start |-> start, end |-> end]
MCLocalMinute == [tz \in {"UTC", "East"} |->
                     [t \in 0 .. 35 |-> IF tz = "UTC" THEN t ELSE (t + 5) % 36]]

MCCode == ("a" :> LowerA) @@ ("A" :> UpperA)

V(type, s) == [vType |-> type, val |-> s]
Regexp(text) == [vType |-> "regexpType", tree |-> readRegexp(text).tree]
NumericRange(bounds) == [vType |-> "numericRangeType", bounds |-> bounds]
=============================================================================
