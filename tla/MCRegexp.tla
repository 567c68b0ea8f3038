------------------------------- MODULE MCRegexp -------------------------------
EXTENDS Regexp

\* The characters of the texts in the order of their runes, which are their
\* bytes as well; the quote is rune 1.
Characters == <<"\n", "\"", "(", ")", "*", "+", ",", "-", ".", "0", "2", "3", "?", "L", "P", "[", "]", "^",
                "a", "b", "n", "p", "u", "{", "|", "}", "~">>
MCCode == [c \in ToSet(Characters) |-> (CHOOSE i \in DOMAIN Characters : Characters[i] = c) - 1]
Ascii == Len(Characters)

\* Three continuation bytes: the first is 0x80-0x8F, then 0x90-0x9F, 0xA0-0xBF;
\* one byte for each class of first bytes.
Boundaries == <<"80", "90", "A0", "C0", "C2", "E0", "E1", "ED", "EE", "F0", "F1", "F4", "F5">>
MCAt == [x \in ToSet(Boundaries) |-> Ascii - 1 + CHOOSE i \in DOMAIN Boundaries : Boundaries[i] = x]
MCByteCeiling == MCAt["F5"] + 1

\* One or two runes of each class; the fifth is a surrogate.
LongRunes ==
    <<(<<"C2", "80">>), (<<"C2", "A0">>), (<<"E0", "A0", "80">>), (<<"E1", "80", "90">>), (<<>>),
      (<<"EE", "80", "80">>), (<<"F0", "90", "80", "80">>), (<<"F1", "A0", "80", "A0">>),
      (<<"F4", "80", "80", "80">>)>>
MCRuneMax == Ascii + Len(LongRunes) - 1
MCRuneToUTF8 ==
    [r \in 0 .. MCRuneMax |-> IF r < Ascii THEN <<r>>
                              ELSE LET s == LongRunes[r - Ascii + 1] IN [i \in DOMAIN s |-> MCAt[s[i]]]]

\* L: the letters and two long runes; Lu has no small letter.
MCProperties ==
    "L" :> <<RunePair(MCCode["L"], MCCode["P"]), RunePair(MCCode["a"], MCCode["u"]),
             RunePair(Ascii + 1, Ascii + 2)>>
    @@ "Lu" :> <<RunePair(MCCode["L"], MCCode["P"]), RunePair(Ascii + 2, Ascii + 2)>>
MCNegated == [p \in DOMAIN MCProperties |-> InvertRuneRange(MCProperties[p])]
MCDetails == "L" :> {"u"}

TextsOver(alphabet, n) == UNION {[1 .. k -> alphabet] : k \in 0 .. n}

\* Texts put together from parts.
Atoms == {<<"a">>, <<"(", "a", "b", ")">>, <<"(", "a", "|", "b", ")">>, <<"(", "a", "*", "|", "b", ")">>,
          <<"(", "a", "|", "a", "b", ")">>, <<"(", "b", "?", ")">>, <<"(", "(", "a", "|", "b", ")", "a", ")">>,
          <<"[", "a", "-", "]">>, <<"[", "^", "a", "-", "b", "]">>, <<".">>,
          <<"~", "p", "{", "L", "}">>, <<"~", "P", "{", "L", "u", "}">>,
          <<"[", "^", "~", "p", "{", "L", "}", "~", "n", "]">>}
Quantifiers == {<<>>, <<"*">>, <<"+">>, <<"?">>, <<"{", "2", "}">>, <<"{", "2", ",", "}">>, <<"{", "0", ",", "2", "}">>}
Tails == {<<>>, <<"a">>, <<"|", "a">>, <<"a", "*">>}
Panicking == {<<"(", "a", "|", "a", "b", ")", "*">>}
TextsOfParts ==
    {p \o t : <<p, t>> \in ({a \o q : <<a, q>> \in Atoms \X Quantifiers} \ Panicking) \X Tails}

ThreeDigits(t) == Len(t) >= 3 /\ \A i \in 1 .. 3 : t[i] \in {"2", "0"}

MCTexts ==
    TextsOver({"a", "b", "(", ")", "|", "*"}, 4)
    \cup TextsOver({"(", "a", "|", ")", "?", "{", "}"}, 4)
    \cup {<<"a", "{">> \o t : t \in {u \in TextsOver({"2", "0", ",", "}"}, 4) : ~ThreeDigits(u)}}
    \cup TextsOver({"[", "]", "^", "-", "a", "b", "~"}, 4)
    \cup {<<"[">> \o t \o <<"]">> : t \in TextsOver({"^", "-", "a", "b", "~"}, 4)}
    \cup TextsOver({"~", "p", "P", "{", "L", "}", "[", "]"}, 4)
    \cup {<<"~", "p", "{">> \o t : t \in TextsOver({"L", "u", "a", "}"}, 4)}
    \cup {<<"[", "~", "P", "{">> \o t : t \in TextsOver({"L", "u", "}", "]", "-"}, 4)}
    \cup TextsOfParts

\* A text that is legal, but not tame.
RepeatTexts == {<<"a", "{", "3", ",", "}">>, <<"(", "a", "|", "a", "b", ")", "+">>}

MCWords ==
    TextsOver({MCCode["a"], MCCode["b"]}, 3) \cup {<<MCCode["a"], MCCode["a"], MCCode["a"], MCCode["a"]>>}
    \cup {<<r>> : r \in {x \in 0 .. MCRuneMax : MCRuneToUTF8[x] # <<>>}}
    \cup {<<Ascii, MCCode["a"]>>, <<MCCode["a"], Ascii + 8>>}

=============================================================================
