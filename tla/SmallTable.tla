------------------------------ MODULE SmallTable ------------------------------
(***************************************************************************)
(* The smallTable: the byte transitions of one automaton state, packed as  *)
(* a list of ceilings and the step taken below each, with the state's      *)
(* epsilon transitions.  A state is a number, NoState is Go's nil.         *)
(*                                                                         *)
(* share stands for the address of the steps array: it is the state the    *)
(* array was made for, and a table copied into another state keeps it.     *)
(***************************************************************************)
EXTENDS Integers, Sequences, SequencesExt

(* What then makes of first, which is worked out before then is; and a     *)
(* fold from the left whose steps are worked out one before the next.      *)
Finish(first, then(_)) == CHOOSE r \in {then(f) : f \in {first}} : TRUE

InTurn(op(_, _), base, seq) ==
    LET upTo[i \in 0 .. Len(seq)] ==
            IF i = 0 THEN base
            ELSE CHOOSE r \in {op(acc, seq[i]) : acc \in {upTo[i - 1]}} : TRUE
    IN  upTo[Len(seq)]

CONSTANT ByteCeiling    \* one more than the value terminator

ASSUME ByteCeilingAssumption == ByteCeiling \in Nat \ {0, 1}

Bytes == 0 .. ByteCeiling - 1
valueTerminator == ByteCeiling - 1
NoState == 0

newSmallTable(owner) ==
    [ceilings |-> <<ByteCeiling>>, steps |-> <<NoState>>, epsilons |-> <<>>, share |-> owner]

isEpsilonOnly(t) == t.epsilons # <<>> /\ Len(t.ceilings) = 1

newTableShareKey(t) == t.share

(* The first ceiling above the byte decides.                               *)
step(t, b) == t.steps[SelectInSeq(t.ceilings, LAMBDA c : b < c)]

unpackTable(t) == [b \in Bytes |-> step(t, b)]

(* stIterator: all bytes in order, moving to the next ceiling at most once *)
(* per byte, where the byte reaches it.                                    *)
iterate(t) ==
    LET index[b \in Bytes] ==
            LET i == IF b = 0 THEN 1 ELSE index[b - 1]
            IN  IF b = t.ceilings[i] THEN i + 1 ELSE i
    IN  [b \in Bytes |-> t.steps[index[b]]]

(* A ceiling where the step changes, and the last one.                     *)
packed(u) ==
    LET ceilings == SelectSeq([b \in 1 .. ByteCeiling - 1 |-> b], LAMBDA b : u[b] # u[b - 1])
                        \o <<ByteCeiling>>
    IN  [ceilings |-> ceilings, steps |-> [i \in DOMAIN ceilings |-> u[ceilings[i] - 1]]]

pack(t, u, owner) ==
    packed(u) @@ [epsilons |-> t.epsilons, share |-> owner]

addByteStep(t, b, s, owner) == pack(t, [unpackTable(t) EXCEPT ![b] = s], owner)

(* Mutant: the default is entered between neighbours too.                  *)
makeSmallTableGaps(default, indices, steps, owner) ==
    LET all == FlattenSeq([i \in DOMAIN indices |-> <<[c |-> indices[i], s |-> default],
                                                      [c |-> indices[i] + 1, s |-> steps[i]]>>])
                   \o (IF Last(indices) < ByteCeiling THEN <<[c |-> ByteCeiling, s |-> default]>>
                                                      ELSE <<>>)
    IN  [ceilings |-> [i \in DOMAIN all |-> all[i].c], steps |-> [i \in DOMAIN all |-> all[i].s],
         epsilons |-> <<>>, share |-> owner]

(* The indices are in order; between two of them, and after the last, the  *)
(* default.  An index just below the ceiling leaves the ceiling in twice.  *)
makeSmallTable(default, indices, steps, owner) ==
    LET after(i) == IF i = 0 THEN 0 ELSE indices[i] + 1
        entries(i) == (IF indices[i] > after(i - 1) THEN <<[c |-> indices[i], s |-> default]>>
                                                    ELSE <<>>)
                          \o <<[c |-> indices[i] + 1, s |-> steps[i]]>>
        all == FlattenSeq([i \in DOMAIN indices |-> entries(i)])
                   \o (IF Last(indices) < ByteCeiling THEN <<[c |-> ByteCeiling, s |-> default]>>
                                                      ELSE <<>>)
    IN  [ceilings |-> [i \in DOMAIN all |-> all[i].c], steps |-> [i \in DOMAIN all |-> all[i].s],
         epsilons |-> <<>>, share |-> owner]

=============================================================================
