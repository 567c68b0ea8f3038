------------------------------ MODULE RegexpNfa ------------------------------
(***************************************************************************)
(* The automata of regular expressions, after Thompson: from the tree that *)
(* RegexpReader makes, from the last atom to the first.                    *)
(***************************************************************************)
EXTENDS RegexpReader

isPlus(qa) == qa.quantMin = 1 /\ qa.quantMax = regexpQuantifierMax
isStar(qa) == qa.quantMin = 0 /\ qa.quantMax = regexpQuantifierMax
hasMinMax(qa) == qa.quantMax # regexpQuantifierMax /\ ~qa.hasMinimumOnly /\ qa.quantMax > 1
isQM(qa) == qa.quantMin = 0 /\ qa.quantMax = 1
isNoOp(qa) == qa.quantMax = 0

StepTo(h, b, next) ==
    Allocate(h, LAMBDA owner : makeSmallTable(NoState, <<b>>, <<next>>, owner), <<>>)

AppendEpsilon(h, s, next) == [h EXCEPT ![s].table.epsilons = Append(@, next)]

(* A state made of the table of fa.                                        *)
Copied(fa) == Result(CopyTable(fa.h, fa.s), NewState(fa.h))

(* fa, or nothing.                                                         *)
Skippable(fa, next) == Result(AppendEpsilon(fa.h, fa.s, next), fa.s)

AfterQuote(fa) == Result(StepTo(fa.h, Quote, fa.s), NewState(fa.h))

RECURSIVE faFromQuantifiedAtom(_, _, _, _)

(* The empty string: the opening quote alone, or nothing inside a group.   *)
emptyBranchTable(h, next, addQuote) ==
    IF addQuote THEN AfterQuote(Result(h, next))
    ELSE Skippable(Result(NewEmptyState(h), NewState(h)), next)

faFromBranch(h, branch, next, addQuote) ==
    LET opened(fa) == IF addQuote THEN AfterQuote(Copied(fa)) ELSE fa
    IN  IF branch = <<>> THEN emptyBranchTable(h, next, addQuote)
        ELSE opened(faFromQuantifiedAtom(h, branch, 1, next))

mergeBranch(fa, nextBranch) ==
    IF fa.s = NoState THEN nextBranch ELSE mergeFAs(nextBranch.h, fa.s, nextBranch.s)

makeNFAFromBranches(h, root, next, addQuote) ==
    IF root = <<>> THEN emptyBranchTable(h, next, addQuote)
    ELSE InTurn(LAMBDA fa, branch : mergeBranch(fa, faFromBranch(fa.h, branch, next, addQuote)),
                  Result(h, NoState), root)

makeFA(h, qa, next) ==
    IF qa.dotRunes THEN makeDotFA(h, next)
    ELSE IF qa.isGroup THEN makeNFAFromBranches(h, qa.subtree, next, FALSE)
    ELSE makeRuneRangeNFA(h, qa.runes, next)

Once(h, qa, next) == Copied(makeFA(h, qa, next))

(* The loopback state, without epsilons until the loop is made.            *)
PlusFA(h, qa, next) ==
    LET loopback == NewState(h)
        loop(once) == Result([once.h EXCEPT ![loopback].table.epsilons = <<next, once.s>>], once.s)
    IN  loop(Once(NewEmptyState(h), qa, loopback))

(* The state that the atom comes back to, without a table until then.      *)
StarFA(h, qa, next) ==
    LET state == NewState(h)
        noTable == [ceilings |-> <<>>, steps |-> <<>>, epsilons |-> <<>>, share |-> NoState]
        loop(fa) == Result([fa.h EXCEPT ![state].table =
                               [fa.h[fa.s].table EXCEPT !.epsilons = Append(@, next)]],
                           state)
    IN  loop(makeFA(Append(h, faState(noTable, <<>>)), qa, state))

(* A copy of the shell that goes on with fa.                               *)
copyOf(shell, placeholder, fa) == Copied(faFromShell(fa.h, shell, placeholder, fa.s))

(* Mutant: one copy fewer may be left out.                                 *)
CopiesOneShort(h, qa, next, n, min) ==
    LET placeholder == NewState(h)
        copies(shell) ==
            LET optional(k, fa) == IF n - k > min THEN Skippable(fa, next) ELSE fa
                copy[k \in 0 .. n] ==
                    IF k = 0 THEN Result(shell.h, next)
                    ELSE Finish(copy[k - 1],
                                LAMBDA fa : optional(k, copyOf(shell.s, placeholder, fa)))
            IN  [k \in 1 .. n |-> copy[k]]
    IN  copies(makeFA(NewEmptyState(h), qa, placeholder))

(* n copies of the shell, the last one made first; those whose number is   *)
(* above min may be left out.                                              *)
Copies(h, qa, next, n, min) ==
    LET placeholder == NewState(h)
        copies(shell) ==
            LET optional(k, fa) == IF n - k + 1 > min THEN Skippable(fa, next) ELSE fa
                copy[k \in 0 .. n] ==
                    IF k = 0 THEN Result(shell.h, next)
                    ELSE Finish(copy[k - 1],
                                LAMBDA fa : optional(k, copyOf(shell.s, placeholder, fa)))
            IN  [k \in 1 .. n |-> copy[k]]
    IN  copies(makeFA(NewEmptyState(h), qa, placeholder))

(* The loop back of {n,} is an epsilon from the last copy to the first.    *)
MinimumFA(h, qa, next) ==
    LET loop(copies, first) == Result(AppendEpsilon(first.h, Head(copies).s, first.s), first.s)
        of(copies) == loop(copies, Last(copies))
    IN  of(Copies(h, qa, next, qa.quantMin, qa.quantMin))

(* rest: the automaton of the atoms that follow.                           *)
quantifiedFA(rest, qa) ==
    CASE isPlus(qa)        -> PlusFA(rest.h, qa, rest.s)
      [] isStar(qa)        -> StarFA(rest.h, qa, rest.s)
      [] hasMinMax(qa)     -> Last(Copies(rest.h, qa, rest.s, qa.quantMax, qa.quantMin))
      [] isQM(qa)          -> Skippable(Once(rest.h, qa, rest.s), rest.s)
      [] isNoOp(qa)        -> Skippable(Result(NewEmptyState(rest.h), NewState(rest.h)), rest.s)
      [] qa.hasMinimumOnly /\ ~isPlus(qa) /\ ~isStar(qa) -> MinimumFA(rest.h, qa, rest.s)
      [] OTHER             -> Once(rest.h, qa, rest.s)

faFromQuantifiedAtom(h, branch, index, final) ==
    quantifiedFA(IF index = Len(branch) THEN Result(h, final)
                 ELSE faFromQuantifiedAtom(h, branch, index + 1, final),
                 branch[index])

makeNFATrailer(h, fm) == StepTo(Allocate(h, newSmallTable, <<fm>>), valueTerminator, NewState(h))

makeRegexpNFA(h, root, fm) ==
    LET trailer == makeNFATrailer(h, fm)
        close == StepTo(trailer, Quote, Len(trailer))
    IN  Copied(makeNFAFromBranches(close, root, Len(close), TRUE))

=============================================================================
