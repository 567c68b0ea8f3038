------------------------------ MODULE MCPruner ------------------------------
(* Small instances of Pruner: two X, two Patterns, and an Event that       *)
(* matches both Patterns or one of them.                                   *)
EXTENDS PrunerInv, TLC

CONSTANTS t1, t2, x1, x2, p1, p2, both, one

TwoThreads == {t1, t2}
ThreadSymmetry == Permutations(TwoThreads)
OneThread == {t1}
MCXs == {x1, x2}
MCPats == {p1, p2}
MCEvents == {both, one}
MCHits == [e \in MCEvents |-> IF e = both THEN MCPats ELSE {p1}]
MCAdditions == {<<x1, p1>>, <<x1, p2>>, <<x2, p1>>}
=============================================================================
