----------------------------- MODULE RegexpReader -----------------------------
(***************************************************************************)
(* The recursive-descent reader of regular expressions.                    *)
(*                                                                         *)
(* A text is a sequence of characters of one byte, each a string.  The     *)
(* tree is a sequence of branches, a branch a sequence of atoms with their *)
(* quantifiers.  A reading function takes the parse state p and returns it *)
(* with the value read and err: "nil", "EOF", "Stuck", or "Bad" for all    *)
(* other errors, which nothing tells apart.                                *)
(***************************************************************************)
EXTENDS RuneRange

CONSTANTS
    Code,                   \* the rune of each character
    characterProperties,    \* the range of each Unicode property, by name
    negatedProperties,
    regexpPropDetails       \* the second letters of each property's first

regexpQuantifierMax == runeMax

(* What nextRune returns with the error at the end: rune 0.                *)
NUL == "NUL"

newRxParseState(text) == [text |-> text, index |-> 0, nesting |-> <<>>, tree |-> <<>>]

isEmpty(p) == p.index >= Len(p.text)
isNested(p) == p.nesting # <<>>
nest(p) == [p EXCEPT !.nesting = Append(@, p.tree), !.tree = <<>>]
unNest(p) == [p EXCEPT !.tree = Last(p.nesting), !.nesting = Front(@)]

Read(p, val) == [p |-> p, val |-> val, err |-> "nil"]
Fail(p, err) == [p |-> p, val |-> <<>>, err |-> err]

nextRune(p) ==
    IF isEmpty(p) THEN [p |-> p, val |-> NUL, err |-> "EOF"]
    ELSE Read([p EXCEPT !.index = @ + 1], p.text[p.index + 1])

backup1(p) == [p EXCEPT !.index = @ - 1]

require(p, wanted) ==
    LET got == nextRune(p)
    IN  IF got.err = "nil" /\ got.val # wanted THEN Fail(got.p, "Bad") ELSE got

bypassOptional(p, c) ==
    LET next == nextRune(p)
    IN  IF next.err # "nil" THEN [next EXCEPT !.val = FALSE]
        ELSE IF next.val = c THEN Read(next.p, TRUE)
        ELSE Read(backup1(next.p), FALSE)

-----------------------------------------------------------------------------
Escape == "~"
isNormalChar(c) == c \notin {"(", ")", "*", "+", ".", "?", "[", "]", "{", "|", "}", Escape, NUL}
isCCchar(c) == c \notin {"-", "[", "]"}

singleCharEscapes == {"(", ")", "*", "+", "-", ".", "?", "[", "\\", "]", "^", "{", "|", "}", Escape}
controlEscapes == ("n" :> "\n") @@ ("r" :> "\r") @@ ("t" :> "\t")
isSingleCharEscape(c) == c \in singleCharEscapes \cup DOMAIN controlEscapes
checkSingleCharEscape(c) == IF c \in DOMAIN controlEscapes THEN controlEscapes[c] ELSE c

quantifiedAtom(runes) ==
    [runes |-> runes, dotRunes |-> FALSE, isGroup |-> FALSE, subtree |-> <<>>,
     hasMinimumOnly |-> FALSE, quantMin |-> 1, quantMax |-> 1]

CharRange(lo, hi) == <<RunePair(Code[lo], Code[hi])>>

(* "{", the first letter, perhaps a second one, "}".                       *)
readProperty(p, negated) ==
    LET open == require(p, "{")
        initial == nextRune(open.p)
        detail == nextRune(initial.p)
        close == require(detail.p, "}")
        table == IF negated THEN negatedProperties ELSE characterProperties
        look(q, property) == IF property \in DOMAIN table THEN Read(q, table[property]) ELSE Fail(q, "Bad")
    IN  IF open.err # "nil" THEN Fail(open.p, open.err)
        ELSE IF initial.err # "nil" THEN Fail(initial.p, initial.err)
        ELSE IF initial.val \notin DOMAIN regexpPropDetails \/ detail.err # "nil" THEN Fail(detail.p, "Bad")
        ELSE IF detail.val = "}" THEN look(detail.p, initial.val)
        ELSE IF detail.val \notin regexpPropDetails[initial.val] THEN Fail(detail.p, "Bad")
        ELSE IF close.err # "nil" THEN Fail(close.p, close.err)
        ELSE look(close.p, initial.val \o detail.val)

-----------------------------------------------------------------------------
(* Character classes.                                                      *)

(* Mutant of readRangeEnd: the ends may be in any order.                   *)
readRangeEndAnyOrder(p, lo) ==
    LET r == nextRune(p)
        c == nextRune(r.p)
    IN  IF r.err # "nil" THEN r
        ELSE IF r.val = "]" THEN Read(backup1(r.p), CharRange(lo, lo) \o CharRange("-", "-"))
        ELSE IF r.val = Escape
             THEN IF c.err # "nil" THEN c
                  ELSE IF ~isSingleCharEscape(c.val) THEN Fail(c.p, "Bad")
                  ELSE Read(c.p, CharRange(lo, checkSingleCharEscape(c.val)))
        ELSE IF ~isCCchar(r.val) THEN Fail(r.p, "Bad")
        ELSE Read(r.p, CharRange(lo, r.val))

(* The end of a range that begins with lo, after the "-".                  *)
readRangeEnd(p, lo) ==
    LET r == nextRune(p)
        c == nextRune(r.p)
        range(q, hi) == IF Code[lo] > Code[hi] THEN Fail(q, "Bad") ELSE Read(q, CharRange(lo, hi))
    IN  IF r.err # "nil" THEN r
        ELSE IF r.val = "]" THEN Read(backup1(r.p), CharRange(lo, lo) \o CharRange("-", "-"))
        ELSE IF r.val = Escape
             THEN IF c.err # "nil" THEN c
                  ELSE IF ~isSingleCharEscape(c.val) THEN Fail(c.p, "Bad")
                  ELSE range(c.p, checkSingleCharEscape(c.val))
        ELSE IF ~isCCchar(r.val) THEN Fail(r.p, "Bad")
        ELSE range(r.p, r.val)

(* The errors of the first nextRune are not looked at.                     *)
readCCE1(p, first) ==
    LET r == nextRune(p)
        c == nextRune(r.p)
        escaped == r.val = Escape
        lo == IF escaped THEN checkSingleCharEscape(c.val) ELSE r.val
        after == IF escaped THEN c.p ELSE r.p
        hyphen == nextRune(after)
    IN  IF first /\ r.val = "-" THEN Read(r.p, CharRange("-", "-"))
        ELSE IF escaped /\ c.val \in {"p", "P"} THEN readProperty(c.p, c.val = "P")
        ELSE IF escaped /\ ~isSingleCharEscape(c.val) THEN Fail(c.p, "Bad")
        ELSE IF ~escaped /\ ~isCCchar(r.val) THEN Fail(r.p, "Bad")
        ELSE IF hyphen.err # "nil" THEN Fail(hyphen.p, "Bad")
        ELSE IF hyphen.val # "-" THEN Read(backup1(hyphen.p), CharRange(lo, lo))
        ELSE readRangeEnd(hyphen.p, lo)

RECURSIVE readCCE1s(_, _, _)
readCCE1s(p, first, rr) ==
    LET after(cce1, r, all) ==
            IF cce1.err # "nil" THEN cce1
            ELSE IF r.val \in {"-", "]"} THEN Read(backup1(r.p), simplifyRuneRange(all))
            ELSE readCCE1s(backup1(r.p), FALSE, all)
        with(cce1) == after(cce1, nextRune(cce1.p), rr \o cce1.val)
    IN  with(readCCE1(p, first))

(* After the ranges: perhaps a hyphen, and the "]".                        *)
closeCharClass(rr, negated) ==
    LET hyphen == bypassOptional(rr.p, "-")
        runes == rr.val \o IF hyphen.val THEN CharRange("-", "-") ELSE <<>>
        close(r) == IF r.err # "nil" THEN Fail(r.p, r.err)
                    ELSE Read(r.p, IF negated THEN InvertRuneRange(runes) ELSE runes)
    IN  IF rr.err # "nil" THEN rr ELSE close(require(hyphen.p, "]"))

readCharClassExpr(p) ==
    LET after(negated) == IF negated.err # "nil" THEN Fail(negated.p, "Bad")
                          ELSE closeCharClass(readCCE1s(negated.p, TRUE, <<>>), negated.val)
    IN  after(bypassOptional(p, "^"))

-----------------------------------------------------------------------------
(* Quantifiers.                                                            *)
Digits == [d \in {"0", "1", "2", "3", "4", "5", "6", "7", "8", "9"} |->
              CHOOSE n \in 0 .. 9 : ToString(n) = d]

(* The digits from p on: their number val, how many, and what follows.     *)
RECURSIVE readDigits(_, _, _)
readDigits(p, n, count) ==
    LET b == nextRune(p)
    IN  IF b.val \in DOMAIN Digits THEN readDigits(b.p, 10 * n + Digits[b.val], count + 1)
        ELSE [p |-> b.p, val |-> n, count |-> count, next |-> b.val, err |-> b.err]

readRangeQuantifier(p, qa) ==
    LET to(min, max, only) == [qa EXCEPT !.quantMin = min, !.quantMax = max, !.hasMinimumOnly = only]
        upTo(lo, hi) ==
            IF hi.next # "}" THEN Fail(hi.p, "Bad")
            ELSE IF hi.count = 0
                 THEN IF lo.val > regexpQuantifierMax THEN Fail(hi.p, "Bad")
                      ELSE Read(hi.p, to(lo.val, regexpQuantifierMax, TRUE))
            ELSE IF hi.val < lo.val THEN Fail(hi.p, "Bad")
            ELSE Read(hi.p, to(lo.val, hi.val, FALSE))
        from(lo) ==
            IF lo.err # "nil" THEN Fail(lo.p, lo.err)
            ELSE IF lo.count = 0 THEN Fail(lo.p, "Bad")
            ELSE IF lo.next = "}" THEN Read(lo.p, to(lo.val, lo.val, FALSE))
            ELSE IF lo.next # "," THEN Fail(lo.p, "Bad")
            ELSE upTo(lo, readDigits(lo.p, 0, 0))
    IN  from(readDigits(p, 0, 0))

readQuantifier(p, qa) ==
    LET b == nextRune(p)
        of(min, max) == Read(b.p, [qa EXCEPT !.quantMin = min, !.quantMax = max])
    IN  CASE b.err = "EOF" -> Read(b.p, qa)
          [] b.val = "*"   -> of(0, regexpQuantifierMax)
          [] b.val = "+"   -> of(1, regexpQuantifierMax)
          [] b.val = "?"   -> of(0, 1)
          [] b.val = "{"   -> readRangeQuantifier(b.p, qa)
          [] OTHER         -> Read(backup1(b.p), qa)

-----------------------------------------------------------------------------
RECURSIVE readBranches(_)

readGroup(p) ==
    LET branches == readBranches(nest(p))
        close == require(branches.p, ")")
    IN  IF branches.err # "nil" THEN branches
        ELSE IF close.err # "nil" THEN Fail(close.p, "Bad")
        ELSE Read(unNest(close.p), [quantifiedAtom(<<>>) EXCEPT !.isGroup = TRUE, !.subtree = close.p.tree])

Atom(read) == IF read.err = "nil" THEN [read EXCEPT !.val = quantifiedAtom(@)] ELSE read

readEscape(p) ==
    LET c == nextRune(p)
    IN  IF c.err # "nil" THEN Fail(c.p, "Bad")
        ELSE IF isSingleCharEscape(c.val)
             THEN Atom(Read(c.p, CharRange(checkSingleCharEscape(c.val), checkSingleCharEscape(c.val))))
        ELSE IF c.val \in {"p", "P"} THEN Atom(readProperty(c.p, c.val = "P"))
        ELSE Fail(c.p, "Bad")

readAtom(p) ==
    LET b == nextRune(p)
    IN  CASE b.err # "nil"       -> b
          [] isNormalChar(b.val) -> Atom(Read(b.p, CharRange(b.val, b.val)))
          [] b.val = "."         -> Read(b.p, [quantifiedAtom(<<>>) EXCEPT !.dotRunes = TRUE])
          [] b.val = "("         -> readGroup(b.p)
          [] b.val = ")"         -> IF isNested(p) THEN Fail(p, "Stuck") ELSE Fail(b.p, "Bad")
          [] b.val = "["         -> Atom(readCharClassExpr(b.p))
          [] b.val = Escape      -> readEscape(b.p)
          [] b.val \in {"]", "?", "+", "*", "{"} -> Fail(b.p, "Bad")
          [] OTHER               -> Fail(p, "Stuck")

readPiece(p) ==
    LET quantified(qa) == IF qa.err = "nil" THEN readQuantifier(qa.p, qa.val) ELSE qa
    IN  quantified(readAtom(p))

(* An end of the text inside a piece drops the piece and ends the branch.  *)
RECURSIVE readBranch(_)
readBranch(p) ==
    LET from(piece) ==
            IF piece.err = "nil" THEN [readBranch(piece.p) EXCEPT !.val = <<piece.val>> \o @]
            ELSE [p |-> piece.p, val |-> <<>>, err |-> IF piece.err = "EOF" THEN "nil" ELSE piece.err]
    IN  from(readPiece(p))

(* Mutant: the end of a branch is an error.                                *)
readBranchesStrict(p) ==
    LET after(branch) ==
            IF branch.err # "nil" THEN Fail(branch.p, branch.err)
            ELSE readBranches(nextRune([branch.p EXCEPT !.tree = Append(@, branch.val)]).p)
    IN  IF isEmpty(p) THEN Read(p, <<>>) ELSE after(readBranch(p))

(* A rune that no branch goes on with and that is no ")" is skipped.       *)
goOn(q) ==
    LET b == nextRune(q)
        emptyBranch == IF b.val = "|" /\ isEmpty(b.p) THEN <<(<<>>)>> ELSE <<>>
    IN  IF b.val = ")" THEN Read(q, <<>>)
        ELSE readBranches([b.p EXCEPT !.tree = @ \o emptyBranch])

readBranches(p) ==
    LET after(branch) == IF branch.err = "Bad" THEN Fail(branch.p, "Bad")
                         ELSE goOn([branch.p EXCEPT !.tree = Append(@, branch.val)])
    IN  IF isEmpty(p) THEN Read(p, <<>>) ELSE after(readBranch(p))

(* The tree, or the error.                                                 *)
readRegexp(text) ==
    LET read == readBranches(newRxParseState(text))
    IN  [tree |-> read.p.tree, err |-> read.err]

=============================================================================
