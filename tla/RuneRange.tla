------------------------------ MODULE RuneRange ------------------------------
(***************************************************************************)
(* Rune ranges, the automata that take one rune of a range or any rune,    *)
(* and shells: automata that end in a placeholder, copied with the         *)
(* placeholder replaced.                                                   *)
(*                                                                         *)
(* A rune is a number up to runeMax.  UTF-8 is a table; At tells the bytes *)
(* where its classes begin, by their names in UTF-8.                       *)
(***************************************************************************)
EXTENDS Nfa

CONSTANTS
    Quote,
    runeMax,
    runeToUTF8,     \* the bytes of each rune, <<>> for a surrogate
    At              \* the byte that is 0x80, 0x90, 0xA0, 0xC0, ..., 0xF5

ASSUME Utf8Assumption ==
    /\ runeMax \in Nat /\ DOMAIN runeToUTF8 = 0 .. runeMax
    /\ Quote < At["80"] /\ At["F5"] = valueTerminator

(* A range is a sequence of pairs.                                         *)
RunePair(lo, hi) == [lo |-> lo, hi |-> hi]
RunesOf(rr) == UNION {p.lo .. p.hi : p \in ToSet(rr)}
Sorted(rr) == SortSeq(rr, LAMBDA a, b : a.lo < b.lo)

simplifyRuneRange(rr) ==
    LET add(out, pair) ==
            IF out = <<>> \/ pair.lo > Last(out).hi + 1 THEN Append(out, pair)
            ELSE [out EXCEPT ![Len(out)].hi = IF pair.hi > @ THEN pair.hi ELSE @]
    IN  InTurn(add, <<>>, Sorted(rr))

(* Mutant: the complement goes on with the last rune of a pair.            *)
InvertRuneRangeFromHi(rr) ==
    LET add(acc, pair) ==
            [out |-> IF pair.lo > acc.point THEN Append(acc.out, RunePair(acc.point, pair.lo - 1))
                     ELSE acc.out,
             point |-> pair.hi]
        end(all) == IF all.point < runeMax THEN Append(all.out, RunePair(all.point, runeMax))
                    ELSE all.out
    IN  end(InTurn(add, [out |-> <<>>, point |-> 0], Sorted(rr)))

(* point: the first rune not dealt with.  As in the code, a pair inside    *)
(* the one before it moves it back, and runeMax alone is never added.      *)
InvertRuneRange(rr) ==
    LET add(acc, pair) ==
            [out |-> IF pair.lo > acc.point THEN Append(acc.out, RunePair(acc.point, pair.lo - 1))
                     ELSE acc.out,
             point |-> pair.hi + 1]
        end(all) == IF all.point < runeMax THEN Append(all.out, RunePair(all.point, runeMax))
                    ELSE all.out
    IN  end(InTurn(add, [out |-> <<>>, point |-> 0], Sorted(rr)))

-----------------------------------------------------------------------------
(* The skinny tree of the encodings, as tables.  words: what is left of    *)
(* the encodings below a node.  No encoding is a prefix of another.        *)
RECURSIVE tableFromSkinnyRuneTreeNode(_, _, _)
tableFromSkinnyRuneTreeNode(h, words, next) ==
    LET firsts == {w[1] : w \in words}
        nodes == SelectSeq([i \in 1 .. ByteCeiling |-> i - 1], LAMBDA b : b \in firsts /\ <<b>> \notin words)
        below(b) == {Tail(w) : w \in {v \in words : v[1] = b}}
        with(acc, b, node) == [h |-> node.h, steps |-> acc.steps @@ (b :> node.s)]
        add(acc, b) == with(acc, b, tableFromSkinnyRuneTreeNode(acc.h, below(b), next))
        u(steps) == [b \in Bytes |-> IF b \notin firsts THEN NoState
                                     ELSE IF <<b>> \in words THEN next ELSE steps[b]]
        state(all) == AllocatePacked(all.h, u(all.steps))
    IN  state(InTurn(add, [h |-> h, steps |-> <<>>], nodes))

(* A surrogate is ignored.  A range of a Unicode property is built as a    *)
(* shell once and copied, which makes the same automaton.                  *)
makeRuneRangeNFA(h, rr, next) ==
    tableFromSkinnyRuneTreeNode(h, {runeToUTF8[r] : r \in RunesOf(rr)} \ {<<>>}, next)

-----------------------------------------------------------------------------
StepsBetween(ceilings, steps, owner) ==
    [ceilings |-> Append(ceilings, ByteCeiling), steps |-> Append(steps, NoState),
     epsilons |-> <<>>, share |-> owner]

(* Any byte that UTF-8 has.                                                *)
makeByteDotFA(dest, owner) ==
    StepsBetween(<<At["C0"], At["C2"], At["F5"]>>, <<dest, NoState, dest>>, owner)

(* Any encoding of a rune: the first bytes, and the second bytes that keep *)
(* out overlong forms (E0, F0), surrogates (ED) and runes too large (F4).  *)
makeDotFA(h, dest) ==
    LET n == Len(h)
        last == n + 1
        lastInter == n + 2
        firstInter == n + 3
        continue(lo, hi, next, owner) ==
            faState(StepsBetween(<<At[lo], At[hi]>>, <<NoState, next>>, owner), <<>>)
        start == StepsBetween(<<At["80"], At["C2"], At["E0"], At["E1"], At["ED"], At["EE"],
                                At["F0"], At["F1"], At["F4"], At["F5"]>>,
                              <<dest, NoState, last, n + 4, lastInter, n + 5,
                                lastInter, n + 6, firstInter, n + 7>>, n + 8)
    IN  Result(h \o <<continue("80", "C0", dest, last), continue("80", "C0", last, lastInter),
                      continue("80", "C0", lastInter, firstInter),
                      continue("A0", "C0", last, n + 4), continue("80", "A0", last, n + 5),
                      continue("90", "C0", lastInter, n + 6), continue("80", "90", lastInter, n + 7),
                      faState(start, <<>>)>>, n + 8)

-----------------------------------------------------------------------------
(* A placeholder is a state without steps.  As in the code, only steps to  *)
(* the placeholder itself are replaced.  mem: the copies made so far.      *)
RECURSIVE copyShellNode(_, _, _, _)
copyShellNode(acc, shell, oldNext, newNext) ==
    LET copy == NewState(acc.h)
        from == acc.h[shell].table
        base == [h |-> NewEmptyState(acc.h), mem |-> acc.mem @@ (shell :> copy), s |-> copy]
        targets == from.steps \o from.epsilons
        noted(before, node) == [acc |-> node, to |-> Append(before.to, node.s)]
        copyTarget(before, t) ==
            IF t \in {NoState, oldNext}
            THEN [before EXCEPT !.to = Append(@, IF t = oldNext THEN newNext ELSE NoState)]
            ELSE noted(before, copyShellNode(before.acc, t, oldNext, newNext))
        table(to) == [ceilings |-> from.ceilings, steps |-> SubSeq(to, 1, Len(from.steps)),
                      epsilons |-> SubSeq(to, Len(from.steps) + 1, Len(targets)), share |-> copy]
        filled(all) == [all.acc EXCEPT !.s = copy, !.h[copy].table = table(all.to)]
    IN  IF shell \in DOMAIN acc.mem THEN [acc EXCEPT !.s = acc.mem[shell]]
        ELSE filled(InTurn(copyTarget, [acc |-> base, to |-> <<>>], targets))

faFromShell(h, shell, oldNext, newNext) ==
    LET from(copy) == Result(copy.h, copy.s)
    IN  from(copyShellNode([h |-> h, mem |-> <<>>, s |-> NoState], shell, oldNext, newNext))

=============================================================================
