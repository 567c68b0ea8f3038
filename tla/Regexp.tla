-------------------------------- MODULE Regexp --------------------------------
(***************************************************************************)
(* Regular expressions from the text in a Pattern to the matching of an    *)
(* event field: the reader, the automaton, its closures, and the           *)
(* determinized automaton of a matcher built for speed.                    *)
(***************************************************************************)
EXTENDS RegexpNfa

G == INSTANCE RegexpGrammar

CONSTANTS
    Texts,      \* the texts to read
    Words       \* the event fields to look up, as sequences of runes

VARIABLES
    text,       \* the text of the regexp Pattern
    read,       \* what readRegexp returns for it
    nfa, dfa    \* the automata made of the tree, for storage and for speed

vars == <<text, read, nfa, dfa>>

NotRead == [tree |-> <<>>, err |-> "unread"]
NotBuilt == [h |-> <<>>, s |-> NoState]

-----------------------------------------------------------------------------
Init ==
    /\ text \in Texts
    /\ read = NotRead
    /\ nfa = NotBuilt
    /\ dfa = NotBuilt

ReadRegexp ==
    /\ read = NotRead
    /\ read' = readRegexp(text)
    /\ UNCHANGED <<text, nfa, dfa>>

(* The valueMatcher's share: close the automaton if it has epsilons, and   *)
(* make it deterministic for speed.  The texts of the runs leave out those *)
(* for which merging branches panics.                                      *)
Build ==
    /\ read.err = "nil"
    /\ nfa = NotBuilt
    /\ \E fa \in {makeRegexpNFA(<<>>, read.tree, 1)} :
           IF isNondeterministic(fa.h, fa.s)
           THEN \E closed \in {epsilonClosure(fa.h, fa.s)} :
                    nfa' = Result(closed, fa.s) /\ dfa' = nfa2Dfa(closed, fa.s)
           ELSE nfa' = fa /\ dfa' = fa
    /\ UNCHANGED <<text, read>>

Next == ReadRegexp \/ Build

Spec == Init /\ [][Next]_vars

-----------------------------------------------------------------------------
(* A text of the grammar is read, as what it says.                         *)
ReadsTheGrammar ==
    read # NotRead =>
        \A root \in G!Parses(text) : read.err = "nil" /\ G!Meaning(read.tree) = root

(* What the reader drops when the text ends in the middle of it, and takes *)
(* the text for ended before it (regexp_reader.go:204): an atom with "{"   *)
(* and digits, a property that has no "{", no letter or no "}" after two   *)
(* letters, and a class after a hyphen, the "~" of the end of a range, or  *)
(* within a property.                                                      *)
PropertyEscs ==
    {<<Escape, p, "{">> \o n \o <<"}">> : p \in {"p", "P"}, n \in G!PropertyNames}

RestsOfProperty(s) ==
    {SubSeq(esc, Len(s) + 1, Len(esc)) :
        esc \in {e \in PropertyEscs : Len(s) \in {2, 3, 5} /\ IsStrictPrefix(s, e)}}

IsClassTo(s) == \E c \in G!charClassExpr(s \o <<"]">>, 1) : c[1] = Len(s) + 2

UnfinishedClass(s) ==
    \E k \in DOMAIN s :
        LET class == SubSeq(s, 1, k)
            last == SubSeq(s, k + 1, Len(s))
        IN  \/ IsClassTo(class) /\ last = <<"-">> /\ IsClassTo(s)
            \/ /\ IsClassTo(class) /\ last = <<"-", Escape>>
               /\ \E c \in DOMAIN Code : IsClassTo(Append(s, c))
            \/ /\ IsClassTo(class) \/ class \in {<<"[">>, <<"[", "^">>}
               /\ \E rest \in RestsOfProperty(last) : IsClassTo(s \o rest)

UnfinishedQuantifier(s) ==
    \E a \in G!atom(s, 1) :
        /\ G!Is(s, a[1], <<"{">>)
        /\ \A i \in a[1] + 1 .. Len(s) : s[i] \in DOMAIN Digits

Unfinished(s) == UnfinishedQuantifier(s) \/ RestsOfProperty(s) # {} \/ UnfinishedClass(s)

BarsFor(braces, s) == [i \in DOMAIN s |-> IF i \in braces THEN "|" ELSE s[i]]

(* "an error is returned if the regexp contains a syntax error"            *)
(* (REGEXP.md:24), but for two things the reader lets pass: a text that    *)
(* ends in the middle of a piece, as above, and a "}" that closes nothing, *)
(* which is taken for a "|".                                               *)
RefusesTheRest ==
    read.err = "nil" =>
        \E braces \in SUBSET {i \in DOMAIN text : text[i] = "}"} :
            LET s == BarsFor(braces, text)
            IN  \/ G!Parses(s) # {}
                \/ \E k \in DOMAIN s : /\ Unfinished(SubSeq(s, k, Len(s)))
                                       /\ G!Parses(SubSeq(s, 1, k - 1)) # {}

FieldOf(word) == <<Quote>> \o FlattenSeq([i \in DOMAIN word |-> runeToUTF8[word[i]]]) \o <<Quote>>

(* What the automata are known not to take: no branch of a repeated group  *)
(* may begin like another one, or merging the two merges the state that    *)
(* the repetition comes back to (regexp_nfa.go:66); and no {n,} may have n *)
(* above 2, as the loop goes to the first copy from before the last one    *)
(* (regexp_nfa.go:163).                                                    *)
Start(branch) ==
    IF branch = <<>> \/ branch[1].quantMin = 0 THEN {}
    ELSE IF branch[1].isGroup \/ branch[1].dotRunes THEN 0 .. runeMax
    ELSE RunesOf(branch[1].runes)

RECURSIVE Tame(_, _)
Tame(root, repeated) ==
    /\ repeated => \A i, j \in DOMAIN root : i # j => Start(root[i]) \cap Start(root[j]) = {}
    /\ \A i \in DOMAIN root : \A k \in DOMAIN root[i] :
           LET qa == root[i][k]
           IN  /\ ~(qa.hasMinimumOnly /\ qa.quantMin > 2)
               /\ qa.isGroup => Tame(qa.subtree, repeated \/ qa.quantMax > 1)

(* The automata take exactly the words of the language.                    *)
MatchesItsLanguage ==
    nfa # NotBuilt =>
        LET root == G!Meaning(read.tree)
            nondeterministic == isNondeterministic(nfa.h, nfa.s)
        IN  \A word \in Words :
                LET accepted == IF G!InRoot(root, word) THEN {1} ELSE {}
                IN  /\ traverseDFA(dfa.h, dfa.s, FieldOf(word), 1) = accepted
                    /\ nondeterministic => traverseNFA(nfa.h, {nfa.s}, FieldOf(word), 1) = accepted

MatchesItsLanguageIfTame == Tame(read.tree, FALSE) => MatchesItsLanguage

(* States and errors of these kinds only.                                  *)
TypeOK ==
    /\ read.err \in {"unread", "nil", "Bad"}
    /\ \A fa \in {nfa, dfa} : fa.s \in {NoState} \cup DOMAIN fa.h

=============================================================================
