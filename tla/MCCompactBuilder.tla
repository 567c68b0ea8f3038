--------------------------- MODULE MCCompactBuilder ---------------------------
(* Three paths; Patterns that share values, continuations and X, that turn *)
(* a singleton into a trie and a trie into a nondeterministic automaton.   *)
EXTENDS CompactBuilder, MCTypedValues

ExistsTrue == [vType |-> "existsTrueType"]
ExistsFalse == [vType |-> "existsFalseType"]
Text == V("stringType", Quoted(<<LowerA>>))
Prefix == V("prefixType", Quoted(<<>>))
Number == V("numberType", Ones(1))
Glob == V("shellStyleType", Quoted(<<MCStar, LowerA>>))
NotText == [vType |-> "anythingButType", list |-> {Quoted(<<LowerA>>)}]
Folded == V("monocaseType", Quoted(<<LowerA>>))
AnyOfA == Regexp(<<"a", "?", "A">>)
Low == NumericRange(<<(<<"<=", 3>>)>>)
High == NumericRange(<<(<<">=", 3>>)>>)
Early == Window("UTC", <<0>>, 2, 8)
Late == Window("East", <<0, 1>>, 7, 3)

MCValueOrder ==
    <<Text, Number, Prefix, Folded, Glob, NotText, [vType |-> "regexpType"], Low, High, Early, Late>>

P(x, fields) == [x |-> x, fields |-> fields]
At_(path, vals) == [path |-> path, vals |-> vals]

pText   == P("X1", <<At_(1, <<Text>>)>>)
pMany   == P("X2", <<At_(1, <<Prefix, Text>>), At_(2, <<Number, Glob>>)>>)
pGlob   == P("X3", <<At_(1, <<Glob, Text>>), At_(2, <<Number, AnyOfA>>)>>)
pExists == P("X1", <<At_(1, <<ExistsTrue>>), At_(2, <<>>), At_(3, <<Low, Early>>)>>)
pAbsent == P("X4", <<At_(1, <<ExistsFalse>>), At_(3, <<High, Late, Number>>)>>)
pNone   == P("X5", <<At_(1, <<NotText, Folded>>), At_(3, <<ExistsFalse>>)>>)

MCBatches ==
    {<<>>, <<pText>>, <<pMany>>, <<pAbsent>>, <<pMany, pNone>>, <<pExists, pAbsent>>, <<pText, pGlob, pExists>>}
MCTooLarge == {pGlob}

F(path, val, isNumber, time) == [path |-> path, val |-> val, isNumber |-> isNumber, time |-> time]
TextA == Quoted(<<LowerA>>)
TextU == Quoted(<<UpperA>>)
MCEvents ==
    {<<F(1, TextA, FALSE, -1), F(2, Ones(2), TRUE, -1)>>,
     <<F(1, TextA, FALSE, -1), F(2, TextA, FALSE, -1), F(3, TextU, FALSE, 4)>>,
     <<F(1, TextU, FALSE, -1), F(2, TextU, FALSE, -1)>>,
     <<F(2, TextA, FALSE, -1), F(3, Ones(1), TRUE, -1)>>,
     <<F(1, Ones(6), TRUE, -1), F(3, Ones(7), TRUE, -1)>>,
     <<F(3, TextA, FALSE, 8)>>}

=============================================================================
