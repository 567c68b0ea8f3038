---------------------------- MODULE RegexpGrammar ----------------------------
(***************************************************************************)
(* What a regular expression says: the grammar of I-Regexp, RFC 9485, with *)
(* "~" for "\", as a parser that tries every alternative, and the language *)
(* of a parsed expression.                                                 *)
(*                                                                         *)
(* A parser takes the text from index i on and returns the set of what it  *)
(* can read there, each as a pair of the index that follows and a value.   *)
(***************************************************************************)
EXTENDS RegexpReader

Is(text, i, s) == IsPrefix(s, SubSeq(text, i, Len(text)))
Sat(text, i, Good(_)) == IF i <= Len(text) /\ Good(text[i]) THEN {<<i + 1, {Code[text[i]]}>>} ELSE {}

Scalars == {r \in 0 .. runeMax : runeToUTF8[r] # <<>>}
RunesAtom(r) == {<<x[1], [group |-> FALSE, runes |-> x[2], root |-> <<>>]>> : x \in r}

NormalChar(text, i) == Sat(text, i, isNormalChar)

SingleCharEsc(text, i) ==
    IF Is(text, i, <<Escape>>) /\ i < Len(text) /\ isSingleCharEscape(text[i + 1])
    THEN {<<i + 2, {Code[checkSingleCharEscape(text[i + 1])]}>>} ELSE {}

PropertyNames ==
    UNION {{<<c>>} \cup {<<c, d>> : d \in regexpPropDetails[c]} : c \in DOMAIN regexpPropDetails}

charClassEsc(text, i) ==
    LET esc(p, table) ==
            {<<i + 4 + Len(n), RunesOf(table[InTurn(LAMBDA a, b : a \o b, "", n)])>> :
                n \in {m \in PropertyNames : Is(text, i, <<Escape, p, "{">> \o m \o <<"}">>)}}
    IN  esc("p", characterProperties) \cup esc("P", negatedProperties)

CCchar(text, i) == Sat(text, i, LAMBDA c : isCCchar(c) /\ c # Escape) \cup SingleCharEsc(text, i)

CCE1(text, i) ==
    LET only(s) == CHOOSE r \in s : TRUE
        ranges == UNION {{<<y[1], only(x[2]) .. only(y[2])>> :
                            y \in {z \in CCchar(text, x[1] + 1) : only(x[2]) <= only(z[2])}} :
                         x \in {z \in CCchar(text, i) : Is(text, z[1], <<"-">>)}}
    IN  CCchar(text, i) \cup ranges \cup charClassEsc(text, i)

Hyphen(text, i) == IF Is(text, i, <<"-">>) THEN {<<i + 1, {Code["-"]}>>} ELSE {}

RECURSIVE CCE1s(_, _)
CCE1s(text, i) ==
    {<<i, {}>>} \cup UNION {{<<y[1], x[2] \cup y[2]>> : y \in CCE1s(text, x[1])} : x \in CCE1(text, i)}

charClassExpr(text, i) ==
    LET negated == Is(text, i + 1, <<"^">>)
        start == IF negated THEN i + 2 ELSE i + 1
        firsts == Hyphen(text, start) \cup CCE1(text, start)
        more == UNION {{<<y[1], x[2] \cup y[2]>> : y \in CCE1s(text, x[1])} : x \in firsts}
        all == more \cup UNION {{<<y[1], x[2] \cup y[2]>> : y \in Hyphen(text, x[1])} : x \in more}
        closed == {<<x[1] + 1, x[2]>> : x \in {y \in all : Is(text, y[1], <<"]">>)}}
    IN  IF ~Is(text, i, <<"[">>) THEN {}
        ELSE IF negated THEN {<<x[1], 0 .. runeMax \ x[2]>> : x \in closed}
        ELSE closed

-----------------------------------------------------------------------------
Infinite == regexpQuantifierMax

RECURSIVE Exact(_, _)
(* QuantExact: all the numbers that begin at i.                            *)
Exact(text, i) ==
    IF i <= Len(text) /\ text[i] \in DOMAIN Digits
    THEN {<<i + 1, Digits[text[i]]>>}
         \cup {<<x[1], Digits[text[i]] * 10 ^ (x[1] - i - 1) + x[2]>> : x \in Exact(text, i + 1)}
    ELSE {}

rangeQuantifier(text, i) ==
    LET ended(s) == {<<x[1] + 1, x[2]>> : x \in {y \in s : Is(text, y[1], <<"}">>)}}
        los == Exact(text, i + 1)
        afterComma == {x \in los : Is(text, x[1], <<",">>)}
    IN  IF ~Is(text, i, <<"{">>) THEN {}
        ELSE ended({<<x[1], <<x[2], x[2]>>>> : x \in los})
             \cup ended({<<x[1] + 1, <<x[2], Infinite>>>> : x \in afterComma})
             \cup ended(UNION {{<<y[1], <<x[2], y[2]>>>> : y \in {z \in Exact(text, x[1] + 1) : z[2] >= x[2]}} :
                               x \in afterComma})

quantifier(text, i) ==
    LET mark(c, min, max) == IF Is(text, i, <<c>>) THEN {<<i + 1, <<min, max>>>>} ELSE {}
    IN  mark("*", 0, Infinite) \cup mark("+", 1, Infinite) \cup mark("?", 0, 1)
        \cup rangeQuantifier(text, i) \cup {<<i, <<1, 1>>>>}

RECURSIVE iRegexp(_, _)

atom(text, i) ==
    RunesAtom(NormalChar(text, i) \cup SingleCharEsc(text, i) \cup charClassEsc(text, i)
              \cup charClassExpr(text, i)
              \cup (IF Is(text, i, <<".">>) THEN {<<i + 1, Scalars>>} ELSE {}))
    \cup (IF ~Is(text, i, <<"(">>) THEN {}
          ELSE {<<x[1] + 1, [group |-> TRUE, runes |-> {}, root |-> x[2]]>> :
                    x \in {y \in iRegexp(text, i + 1) : Is(text, y[1], <<")">>)}})

RECURSIVE branchOf(_, _)
branchOf(text, i) ==
    LET pieces == UNION {{<<q[1], [atom |-> a[2], min |-> q[2][1], max |-> q[2][2]]>> :
                            q \in quantifier(text, a[1])} : a \in atom(text, i)}
    IN  {<<i, <<>>>>} \cup UNION {{<<b[1], <<p[2]>> \o b[2]>> : b \in branchOf(text, p[1])} : p \in pieces}

iRegexp(text, i) ==
    LET first == branchOf(text, i)
    IN  {<<b[1], <<b[2]>>>> : b \in first}
        \cup UNION {{<<r[1], <<b[2]>> \o r[2]>> : r \in iRegexp(text, b[1] + 1)} :
                    b \in {x \in first : Is(text, x[1], <<"|">>)}}

(* The parses of the whole text: none, or one.                             *)
Parses(text) == {x[2] : x \in {y \in iRegexp(text, 1) : y[1] = Len(text) + 1}}

-----------------------------------------------------------------------------
(* The tree in the terms of the grammar.                                   *)
RECURSIVE Meaning(_)
Meaning(tree) ==
    LET atomOf(qa) == [group |-> qa.isGroup,
                     runes |-> IF qa.dotRunes THEN Scalars ELSE RunesOf(qa.runes),
                     root |-> IF qa.isGroup THEN Meaning(qa.subtree) ELSE <<>>]
        piecesOf(b) == [k \in DOMAIN b |-> [atom |-> atomOf(b[k]), min |-> b[k].quantMin, max |-> b[k].quantMax]]
    IN  IF tree = <<>> THEN <<(<<>>)>> ELSE [i \in DOMAIN tree |-> piecesOf(tree[i])]

-----------------------------------------------------------------------------
(* The language: whether the runes s match.                                *)
RECURSIVE InRoot(_, _)

RECURSIVE InRepeats(_, _, _, _)
InRepeats(a, min, max, s) ==
    LET once(w) == IF a.group THEN InRoot(a.root, w) ELSE Len(w) = 1 /\ w[1] \in a.runes
    IN  \/ s = <<>> /\ min = 0
        \/ /\ max > 0
           /\ \E k \in (IF min > 0 THEN 0 ELSE 1) .. Len(s) :
                  /\ once(SubSeq(s, 1, k))
                  /\ InRepeats(a, IF min > 0 THEN min - 1 ELSE 0, IF max = Infinite THEN max ELSE max - 1,
                               SubSeq(s, k + 1, Len(s)))

RECURSIVE InBranch(_, _)
InBranch(branch, s) ==
    IF branch = <<>> THEN s = <<>>
    ELSE \E k \in 0 .. Len(s) :
             /\ InRepeats(branch[1].atom, branch[1].min, branch[1].max, SubSeq(s, 1, k))
             /\ InBranch(Tail(branch), SubSeq(s, k + 1, Len(s)))

InRoot(root, s) == \E i \in DOMAIN root : InBranch(root[i], s)

=============================================================================
