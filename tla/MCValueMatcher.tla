---------------------------- MODULE MCValueMatcher ----------------------------
EXTENDS ValueMatcher, MCTypedValues

Strings ==
    {V("stringType", Quoted(<<LowerA>>)), V("stringType", Quoted(<<UpperA, LowerA>>)),
     V("numberType", Ones(1)), V("prefixType", Quoted(<<LowerA>>)),
     V("monocaseType", Quoted(<<LowerA>> \o Small)),
     V("shellStyleType", Quoted(<<MCStar>>)),
     V("shellStyleType", Quoted(<<LowerA, MCStar, LowerA>>)),
     V("wildcardType", Quoted(<<MCStar, LowerA, MCStar>>)),
     V("wildcardType", Quoted(<<MCStar, UpperA, LowerA>>)),
     V("wildcardType", Quoted(<<MCBackslash, MCStar>>)),
     [vType |-> "anythingButType", list |-> {Quoted(<<LowerA>>), Quoted(<<LowerA, UpperA>>)}]}

Regexps ==
    {Regexp(text) : text \in {<<"a", "*">>, <<"(", "a", "|", "A", ")", "+">>, <<"a", "?", "A">>,
                              <<"a", "A", "{", "0", ",", "2", "}">>, <<"[", "A", "a", "]", "a">>}}
    \cup {V("stringType", Quoted(<<LowerA>>)), V("prefixType", Quoted(<<>>)),
          V("shellStyleType", Quoted(<<MCStar, LowerA>>))}

Ranges ==
    {NumericRange(<<(<<">", 0>>)>>), NumericRange(<<(<<">=", 16>>), (<<"<", 3>>)>>), NumericRange(<<(<<"=", 3>>)>>),
     NumericRange(<<(<<"<", 16>>)>>), NumericRange(<<(<<"<=", 27>>)>>), NumericRange(<<(<<">=", 17>>), (<<"<=", 11>>)>>),
     V("numberType", Ones(5)), V("numberType", Ones(3)), V("stringType", Quoted(<<LowerA>>))}

Windows ==
    {Window("UTC", <<0>>, 2, 8), Window("UTC", <<2>>, 10, 4), Window("UTC", AllDays, 0, 12),
     Window("UTC", <<0, 3, 1>>, 11, 10), Window("East", <<2>>, 7, 3), Window("East", <<1, 2>>, 0, 12),
     V("stringType", Quoted(<<>>))}

MCValueGroups == {Strings, Regexps, Ranges, Windows}

Field(s, isNumber, time) == [val |-> s, isNumber |-> isNumber, time |-> time]
MCFields ==
    {Field(s, FALSE, -1) : s \in Texts({LowerA, UpperA, MCStar}, 2) \cup Texts({LowerA, UpperA}, 3)
                                 \cup {Quoted(<<LowerA>> \o Small), Quoted(<<UpperA>> \o Capital)}}
    \cup {Field(s, TRUE, -1) : s \in DOMAIN MCParseFloat}
    \cup {Field(Quoted(<<>>), FALSE, t) : t \in 0 .. 35}


=============================================================================
