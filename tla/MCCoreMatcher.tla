---------------------------- MODULE MCCoreMatcher ----------------------------
(* Small instances of CoreMatcher: three paths a < b < c, two values, and  *)
(* Patterns that share prefixes, share a singleton, turn a singleton into  *)
(* an automaton, and mix exists:true, exists:false and arrays.             *)
EXTENDS CoreMatcherWalkInv, TLC

CONSTANTS w1, w2, r1, r2

a == 1
b == 2
c == 3
MCPaths == {a, b, c}
MCValues == {"one", "two"}

(* Two strings, a wildcard that accepts both, and a numeric range.         *)
MCPVals == {"s1", "s2", "any", "low"}
MCStrings == {"s1", "s2"}
MCRanges == {"low"}
MCAccepts == [v \in MCPVals |-> CASE v = "s1"  -> {"one"}
                                  [] v = "s2"  -> {"two"}
                                  [] v = "any" -> {"one", "two"}
                                  [] v = "low" -> {"two"}]

None == [kind |-> "none", vals |-> <<>>]
Exists == [kind |-> "exists", vals |-> <<>>]
Absent == [kind |-> "absent", vals |-> <<>>]
Vals(vs) == [kind |-> "vals", vals |-> vs]
P(x, ca, cb, cc) == [x |-> x, cond |-> <<ca, cb, cc>>]

MCXs == {"X1", "X2", "X3", "X4", "X5", "X6", "X7"}

pSingle == P("X1", Vals(<<"s1">>), None, None)
pShared == P("X2", Vals(<<"s1", "s2">>), Vals(<<"any">>), None)
pRange  == P("X3", Vals(<<"low">>), Absent, Vals(<<"s1">>))
pNoC    == P("X4", Vals(<<"s2">>), None, Absent)
pExists == P("X5", None, Exists, Absent)
pNoAC   == P("X6", Absent, None, Absent)
pLate   == P("X7", Vals(<<>>), Vals(<<"any">>), Vals(<<"s2">>))

F(k, v) == [path |-> k, val |-> v, trail |-> {}]
In(k, v, pos) == [path |-> k, val |-> v, trail |-> {<<1, pos>>}]

eA     == <<F(a, "one")>>
eAB    == <<F(a, "two"), F(b, "one")>>
eAC    == <<F(a, "two"), F(c, "one")>>
eB     == <<F(b, "two")>>
eBC    == <<F(b, "two"), F(c, "two")>>
eSplit == <<In(a, "one", 0), In(b, "one", 1)>>
eArray == <<In(a, "one", 0), In(a, "two", 1), In(b, "one", 1), In(c, "two", 1)>>

AllPatterns == {pSingle, pShared, pRange, pNoC, pExists, pNoAC, pLate}
AllEvents == {eA, eAB, eAC, eB, eBC, eSplit, eArray}

OneReader == {r1}
TwoReaders == {r1, r2}
TwoWriters == {w1, w2}

(* No safety property tells the two AddPattern calls apart.                *)
WriterSymmetry == Permutations(TwoWriters)

FewPatterns == {pSingle, pShared}
FewEvents == {eSplit}
AbsentPatterns == {pSingle, pNoC}
AbsentEvents == {eAC}
=============================================================================
