------------------------------- MODULE Numbers -------------------------------
(***************************************************************************)
(* Numbers: numbits, Q numbers and numeric ranges.                         *)
(*                                                                         *)
(* A float is its bits, a number below 2^FloatWidth whose top bit is the   *)
(* sign.  The code has 64 bits and digits of 7 bits, so that the first     *)
(* digit of ten holds one bit only; the width here keeps that shape.       *)
(***************************************************************************)
EXTENDS Nfa

CONSTANTS
    FloatWidth,     \* 64
    DigitBits,      \* 7
    numericDigits,  \* MaxBytesInEncoding, 10
    MaxFinite,      \* the bits of math.MaxFloat64; above are infinity and NaN
    ParseFloat      \* strconv.ParseFloat: the bits of a text, or NoFloat

ASSUME NumbersAssumption ==
    /\ FloatWidth \in Nat /\ DigitBits \in Nat \ {0} /\ numericDigits \in Nat
    /\ numericDigits * DigitBits >= FloatWidth
    /\ (numericDigits - 1) * DigitBits < FloatWidth
    /\ MaxFinite \in 1 .. 2 ^ (FloatWidth - 1) - 1
    /\ 2 ^ DigitBits < ByteCeiling

NoFloat == -1
Sign == 2 ^ (FloatWidth - 1)
DigitBase == 2 ^ DigitBits
MaxNumbits == 2 ^ FloatWidth - 1

(* Infinity, which ParseFloat returns with an error, is NoFloat here.      *)
Floats == (0 .. MaxFinite) \cup (Sign .. Sign + MaxFinite)

(* The real number a float stands for, up to an increasing function.       *)
Value(f) == IF f < Sign THEN f ELSE Sign - f

(* Minus zero is zero; the sign bit of a positive number is set, and all   *)
(* bits of a negative one are inverted.                                    *)
numbitsFromFloat64(f) ==
    LET u == IF f = Sign THEN 0 ELSE f
    IN  IF u < Sign THEN u + Sign ELSE MaxNumbits - u

numericDigitsOf(nb) ==
    [i \in 1 .. numericDigits |-> (nb \div DigitBase ^ (numericDigits - i)) % DigitBase]

(* encodeQNumber: the digits without the trailing zeroes.                  *)
toQNumber(nb) ==
    SubSeq(numericDigitsOf(nb), 1,
           SelectLastInSeq(numericDigitsOf(nb), LAMBDA d : d # 0))

qNumFromFloat(f) == toQNumber(numbitsFromFloat64(f))

-----------------------------------------------------------------------------
(* readNumericSpecial.  bounds: pairs of an operator and a float.          *)
Operators == {"<", "<=", ">", ">=", "="}
LowerOps == {">", ">="}
UpperOps == {"<", "<="}

minFiniteNumbits == numbitsFromFloat64(Sign + MaxFinite)
maxFiniteNumbits == numbitsFromFloat64(MaxFinite)

NoRange == [lo |-> 1, hi |-> 0]

(* At most one lower and one upper bound, or a single "=".                 *)
WellFormed(bounds) ==
    LET of(ops) == SelectSeq(bounds, LAMBDA b : b[1] \in ops)
    IN  /\ bounds # <<>>
        /\ Len(of(LowerOps)) <= 1 /\ Len(of(UpperOps)) <= 1
        /\ of({"="}) # <<>> => Len(bounds) = 1

(* The error that no number matches, before or after clamping to the       *)
(* finite floats, is NoRange, as is the error of an ill-formed list.       *)
readNumericSpecial(bounds) ==
    LET bound(ops, default) ==
            IF \E i \in DOMAIN bounds : bounds[i][1] \in ops
            THEN LET b == bounds[CHOOSE i \in DOMAIN bounds : bounds[i][1] \in ops]
                     nb == numbitsFromFloat64(b[2])
                 IN  IF b[1] = ">" THEN nb + 1 ELSE IF b[1] = "<" THEN nb - 1 ELSE nb
            ELSE default
        low == bound(LowerOps \cup {"="}, 0)
        high == bound(UpperOps \cup {"="}, MaxNumbits)
        r == [lo |-> IF low < minFiniteNumbits THEN minFiniteNumbits ELSE low,
              hi |-> IF high > maxFiniteNumbits THEN maxFiniteNumbits ELSE high]
    IN  IF WellFormed(bounds) /\ r.lo <= r.hi THEN r ELSE NoRange

-----------------------------------------------------------------------------
(* makeNumericRangeFA.  The states above, below and between follow the     *)
(* digits of the lower bound, of the upper bound and of both, and end in   *)
(* accept as soon as every digit to come is in range.                      *)
RECURSIVE rangeStep(_, _, _, _, _, _)
rangeStep(h, accept, lo, hi, i, side) ==
    LET atMin == \A j \in i .. numericDigits : lo[j] = 0
        atMax == \A j \in i .. numericDigits : hi[j] = numericDigitsOf(MaxNumbits)[j]
        done == \/ i > numericDigits
                \/ side = "above" /\ atMin
                \/ side = "below" /\ atMax
                \/ side = "between" /\ atMin /\ atMax
        both == side = "between" /\ lo[i] = hi[i]
        first == IF side = "below" THEN Result(h, NoState)
                 ELSE rangeStep(h, accept, lo, hi, i + 1, IF both THEN "between" ELSE "above")
        last == IF side = "above" \/ both THEN Result(first.h, NoState)
                ELSE rangeStep(first.h, accept, lo, hi, i + 1, "below")
        inRange(b) == (side = "below" \/ b > lo[i]) /\ (side = "above" \/ b < hi[i])
        u == [b \in Bytes |-> IF side # "below" /\ b = lo[i] THEN first.s
                              ELSE IF side # "above" /\ b = hi[i] THEN last.s
                              ELSE IF b < DigitBase /\ inRange(b) THEN accept
                              ELSE NoState]
    IN  IF done THEN Result(h, accept) ELSE AllocatePacked(last.h, u)

(* The start state cannot accept, since a traversal looks only at the      *)
(* fields of the states it steps to.                                       *)
makeNumericRangeFA(h, r, fm) ==
    LET accept == NewState(h)
        fa == rangeStep(Allocate(h, newSmallTable, <<fm>>), accept,
                        numericDigitsOf(r.lo), numericDigitsOf(r.hi), 1, "between")
    IN  IF fa.s = accept
        THEN AllocatePacked(fa.h, [b \in Bytes |-> IF b < DigitBase THEN accept ELSE NoState])
        ELSE fa

numericTransitions(h, start, f) ==
    IF f = NoFloat THEN {} ELSE traverseDFA(h, start, numericDigitsOf(numbitsFromFloat64(f)), 1)

-----------------------------------------------------------------------------
(* What a list of bounds says.                                             *)
Satisfies(f, bounds) ==
    \A i \in DOMAIN bounds :
        LET op == bounds[i][1]
            x == Value(f)
            y == Value(bounds[i][2])
        IN  CASE op = "<" -> x < y [] op = "<=" -> x <= y [] op = "=" -> x = y
              [] op = ">" -> x > y [] op = ">=" -> x >= y

=============================================================================
