# Quamina in TLA+

Quamina matches JSON events against *Patterns*. `AddPattern(X, pattern)` builds
an automaton; `MatchesForEvent(event)` flattens an event to a list of fields and
walks the automaton, returning the X of every Pattern that matches. Match calls
take no lock and run while Patterns are added; `DeletePatterns` filters the
results and rebuilds the automaton now and then.

This directory models that program in TLA+: modules (`*.tla`), small instances
for TLC (`MC*.tla`, `*.cfg`), theorems checked by TLAPS (`*Proofs.tla`), and
`PROJECT.json`, which lists components, runs, hazards, findings, theorems and,
for every definition, the lines of source it stands for.

## 1. Inventory

| component (src) | state it keeps | operations | where it is hard | what makes it correct |
|---|---|---|---|---|
| API (`quamina.go`) | flattener, matcher, trackers | AddPattern, AddPatterns, DeletePatterns, MatchesForEvent, Copy | copies share one matcher; the matcher is loaded twice per match call | each call behaves as if it were alone, or concurrent with adds in the ways promised |
| coreMatcher (`core_matcher.go`) | start state and segments tree behind one atomic pointer; lock | addPattern, addPatternsBatch, matchesForFields, tryToMatch | readers walk while a writer extends; panics half way; arrays; absent fields | exactly the matching X; nothing half built is visible; calls end |
| fieldMatcher (`field_matcher.go`) | transitions by path, exists true/false, matches | addExists, addTransition, addMatch, transitionOn | states shared or split per value | a walk that arrives has checked what the X there asks for |
| valueMatcher (`value_matcher.go`) | singleton, automaton, range automata | addTransition, transitionOn | switch from singleton to automaton under readers; number encodings | never forgets a value it has accepted |
| pruner (`pruner.go`) | current coreMatcher and trigger behind one atomic pointer; lock | addPattern, deletePatterns, rebuild, disableRebuild, matchesForFields | match calls rebuild without the lock; copies of the fields kept across a rebuild | live Patterns match, deleted ones do not |
| live set (`live_pattern_state.go`) | X and Pattern pairs, own lock | Add, Delete, Contains, Iterate | read at several moments of one match call | |
| pruner statistics (`pruner_stats.go`) | counters, each owned by a goroutine | add, get, set over channels | answers taken by the wrong asker, full channels, updates late | counters lag but do not lie or block |
| segments tree (`segments_tree.go`) | paths that any Pattern uses | add, copy, the tracker questions | a segment can be leaf and node | answers describe the paths added |
| flattener (`flatten_json.go`) | position, array trail, fields | Flatten | skipping, early stop, nested arrays | the wanted leaves, no more, with telling trails; ends |
| batch compiler (`compact_builder.go`) | interned nodes and values, their matchers and states; the root | build (from addPatterns, and addPattern afterwards) | structure shared between Patterns, calls and readers; a panic half way; interners that are pruned | the matches of the Patterns added one by one; nothing published is changed; only what is new is built |
| NFA (`nfa.go`, `state_lists.go`) | states, shared between automata | mergeFAs, traverseDFA, traverseNFA, nfa2Dfa | spinners (states that come back to themselves) merged with branches and with each other | accepts the union of the languages; never updates a state in use |
| epsilon closures (`epsi_closure.go`, `dedup_key.go`) | a closure in each state | epsilonClosure | states closed by an earlier add are not walked again; states dropped as duplicates | nothing a walk needs is missing |
| small tables (`small_table.go`) | ceilings and steps | makeSmallTable, step, iterate, pack, addByteStep | packing, the value terminator, bytes that UTF-8 forbids | the function of bytes they encode |
| value automata (`shell_style.go`, `wildcard.go`, `anything_but.go`, `monocase.go`, `value_matcher.go`) | none | build an automaton of a value | spinners and escapes, values that are prefixes of each other, folding to longer or shorter bytes | the language the value names |
| numbers and ranges (`numbits.go`, `numbers.go`, `numeric.go`) | none | float to bits to digits; an automaton of an interval | the sign, -0, the first digit, open and closed bounds | order preserved, membership exact |
| time windows (`time_window.go`) | none | window to minutes to digit prefixes to automata per zone | midnight, the end of the week, overlapping days | an instant is in the window or not |
| rune ranges (`rune_range.go`, generated tables) | shell cache | simplify, invert, automata of ranges | the last rune, surrogates, UTF-8 lengths | the runes named, all of them |
| regular expressions (`regexp_*.go`, `quantified_atom.go`) | parse state: index, nesting, tree | readRegexp, makeRegexpNFA | giving back a character, unwinding at the end of the text, repetition of groups | the grammar of RFC 9485 and its languages |
| pattern parsing (`pattern.go`) | none | JSON to patternField | error paths | |
| statistics, pretty printer, code generation, experiments | none | reports, tools | | not part of matching |

How they interact. `AddPattern` goes from the API to the pruner or straight to
the coreMatcher, which builds fieldMatchers and valueMatchers, adds the paths to
a copy of the segments tree and stores that copy last. `MatchesForEvent` asks
the matcher for its segments tree, flattens with it, and hands the fields back
to the matcher, which loads its automaton afresh. The pruner replaces its whole
coreMatcher in a rebuild and asks the live set for each X. All data that is
shared between goroutines sits behind atomic pointers, except the live set
(a mutex) and the statistics (channels).

The hazards this leads to are listed at their lines in `PROJECT.json`.

## 2. Modules

| module | role |
|---|---|
| `Patterns` | What a parsed Pattern and a flattened Event are, and the declarative meaning of *matches*: some choice of fields meets every condition, with no two fields from different elements of one array. |
| `PatternStore` | The abstract promise: adds and match calls with a begin and an end; what a match call may answer. |
| `CoreMatcher` | The real thing: one action for each load or store of an atomic pointer. |
| `CoreMatcherInv`, `CoreMatcherWalkInv` | Its inductive invariants: labels; what a walk finds, and what it cannot miss. |
| `CoreMatcherAddProofs`, `CoreMatcherProofs` | Lemmas about the steps of AddPattern calls; those about match calls, and the first theorems. |
| `CoreMatcherKeepProofs`, `CoreMatcherSoundProofs` | What AddPattern calls leave to a walk; that nothing is reported which does not match. |
| `CoreMatcherBuildProofs`, `CoreMatcherCompleteProofs` | What an AddPattern call has built at each point; that no match is missed, and that the promise of `PatternStore` is kept. |
| `Pruner` | Deletion and rebuilding above a coreMatcher that is a set of (X, Pattern) pairs. |
| `PrunerInv`, `PrunerProofs` | Its inductive invariant and the theorems. |
| `SegmentsTree` | The tree as the set of paths added, with the questions of `SegmentsTreeTracker`. |
| `Flattener` | The reading of an event, one action per member or element. |
| `FlattenerInv` | Its inductive invariant: calls, trails, numbered arrays, fields and counts. |
| `FlattenerLeaves` | The parts of a whole event with their places, the leaves the Patterns ask for, and the invariant that relates calls and fields to them. |
| `FlattenerProofs` | The theorems on both. |
| `SmallTable` | The packed table of one state. |
| `Nfa` | A heap of states: merging, closures, traversal, determinization. |
| `Numbers` | Float bits, Q numbers, numeric ranges and their automata. |
| `TimeWindow` | Minutes of the week, digit prefixes, automata per zone. |
| `RuneRange` | Rune ranges, their automata, shells. |
| `ValueAutomata` | The automata of strings, prefixes, anything-but, shell-style, wildcard, monocase. |
| `RegexpReader`, `RegexpNfa` | The recursive-descent reader; the Thompson construction. |
| `RegexpGrammar` | Reference only: the grammar of RFC 9485 as a parser that tries everything, and the language of a tree. |
| `Regexp` | A regexp from its text to its automata. |
| `TypedValues` | Any kind of value: its automaton, the vmFields it goes into, the lookup; and what each kind says. |
| `ValueMatcher` | One valueMatcher and the values added to it. |
| `CompactBuilder` | AddPatterns and AddPattern on one coreMatcher with real value automata. |
| `MCCoreMatcher`, `MCPruner`, `MCFlattener`, `MCTypedValues`, `MCValueMatcher`, `MCRegexp`, `MCCompactBuilder` | Values for the constants. |

`CoreMatcher` and `PatternStore` extend `Patterns`; `Flattener` extends
`SegmentsTree`. `SmallTable` <- `Nfa` <- `Numbers`, `TimeWindow`, `RuneRange`; the last <-
`RegexpReader` <- `RegexpNfa`; all meet in `TypedValues`, on which `ValueMatcher` and
`CompactBuilder` stand. `Pruner` stands on `CoreMatcher` through the abstraction
`PatternStore`: because CoreMatcher implements it, one add and one match are
single steps there.

### CoreMatcher and the code

* `core`, `fms`, `vms` are the contents of the atomic pointers of coreMatcher,
  of every fieldMatcher and every valueMatcher. Records are immutable in the
  code, so replacing one is a single primed assignment; everything between two
  loads or stores is local to a goroutine.
* A writer goes `idle -> build <-> values -> ends -> stored -> done`. `Acquire`
  takes the lock and loads the core; `AddExists` is `fieldMatcher.addExists` for
  one current state; `FindValueMatcher`, `AddValue` (once for each value, that is,
  `valueMatcher.addTransition`) and `PublishTransition` are the parts of
  `fieldMatcher.addTransition`; `AddMatch` goes through the end states,
  `StoreCore` stores the segments tree and `Unlock` returns. `Panic` is the failure
  of building an automaton, upon which the deferred unlock runs (`failed`).
* A reader goes `idle -> flat -> match -> done`: `BeginMatch` loads the segments
  tree and flattens, `Launch` loads the core again, `Return` hands out the X found.
  The recursion of `tryToMatch`
  is an agenda of pending loops (frames `try`, `exists`, `recheck`, `absent`,
  `trans`, `values`, `next`), the innermost first, so that other goroutines can
  act between any two loads of a walk.
* `via` is auxiliary: the conditions under which a walk reaches a matcher. No
  guard looks at it.
* Abstracted. The automaton for the values of a path is the set of
  (value, next state) edges, and what a value of a Pattern accepts is the
  constant `Accepts`; `ValueMatcher` has the byte level. Fields are
  sorted in the code; the constants present them in order (`SortedAssumption`).
  A path occurs once in a Pattern. A field with an empty list of values puts no
  condition, and a Pattern without any condition never matches, as in the code.
  The branches of `addPattern` for the compact builder of `AddPatterns` are in
  `CompactBuilder`.

### Pruner and the code

One action is one access to the pointer to prunerFields, to a coreMatcher, to
the live set, or to the statistics, where the counters that one look reads, or one
reset writes, are taken together. A match call loads its coreMatcher once here: the load
before it, for the segments tree, and what may come between the two are `CoreMatcher`'s. `Load` is `loadFields`, whose copy the call
goes on with whatever is stored meanwhile; `RestoreFields` is the store at the end
of `deletePatterns`; `EnoughAction` and `TooMuchFiltering` are the two looks of
the default trigger at the counters. Counters are atomic integers here. The
live set is memState, a bag of entries (nothing depends on their order), which
returns no errors; a `fearless` rebuild differs from
another only when Iterate fails, so the flag is left out. `races` is a history
variable: it says which kinds of call have overlapped a rebuild without the
lock (finding `pruner_lost`), so that what holds otherwise can be stated.

### Flattener and the code

The stack is the recursion of `readObject` and `readArray`; `trail` and `arrays`
are `fj.arrayTrail` and `fj.arrayCount`; each frame has the counters of the early
stop. An event is a tree of leaves, arrays and objects without repeated
member names: lexing (escapes, numbers, UTF-8) and its errors are left out.
Auxiliary, and looked at by no guard: the *place* of each frame and field, that
is, the steps that lead to it from the root of the event, each with the names so far;
`opened`, the place of each array by its number; and the trail of a `readArray` frame.

What is to be stored is read off the whole event, without the walk: the constant
`Parts` gives of each event every value in it with its place. It is not a recursive
operator but a set that satisfies `PartsAssumption`: the parts are the event itself and
whatever a part holds directly. Places are finite, so one set only fits.
`MCFlattener` computes it; `PartsExist` proves that there always is one.

### Automata and the code

* A *heap* is a sequence of states; a state is its place. What the code
  allocates is appended, so that sharing and mutation in place are what they are
  in Go. A table passed by value is a state that carries it; `share` is the
  address of the steps array, by which closures are deduplicated.
* `Nfa` has `mergeFAStates` with its memo (threaded through as a function of
  pairs), the four cases of spinners, `simplifySplices`; `epsilonClosure` with the
  incremental walk; `traverseNFA` over sets of states; `n2dNode` with the interned
  state lists. `isNondeterministic` is the walk that decides about regexps.
* `TypedValues!addTransition` is `valueMatcher.addTransition`, branch by branch;
  `ValueMatches` is the reference: what each kind of value says of a field. It
  is written from what a kind means, and shares no automaton with the rest.
* `ValueMatcher` adds values one by one to one valueMatcher. `loaded` keeps the
  vmFields that were published before, which a match call may still hold.
* `Finish` and `InTurn` of `SmallTable` model no code: they fix the order in which TLC
  evaluates a recursion, so that a long one does not nest.
* `CompactBuilder`: `mem` is all that exists (fieldMatchers, valueMatchers, states)
  and the compactBuilder with its interners. Actions are whole calls, which hold the
  lock. `Compile` publishes once. `AddInPlace` is the loop that adds a batch Pattern by Pattern
  to a matcher that AddPattern has filled, and stores after each; `AddInPlacePanics` leaves
  the Patterns before the one that fails, and what was linked of this one. How match
  calls run between the stores of adds in place is `CoreMatcher`'s. The key of a node or value is the
  record it encodes. `loaded` holds the start states published before.
* `RegexpReader` reads a sequence of characters with the parse state and error
  values of the code, function by function. `Regexp` reads a text and builds the
  automata of both build modes.
* Two definitions go on where the code could not, on inputs that do not occur:
  `Nfa!Settled` takes a symmetric merge without a second state for the first
  (nfa.go:613-637 would follow a nil), and `RuneRange` merges repeated runes and takes
  an empty range, where rune_range.go relies on ascending ones and at least one.

### PatternStore and the batch compiler

A call of AddPatterns that is compiled as a batch is one add of `PatternStore` with several
Patterns: it publishes once. One that is added in place is an add for each Pattern of it, and may
end after some of them. `CompactBuilder` needs no interleaving of its own: readers follow
pointers to structure that is never changed again (`PublishedStaysAsItIs`), so a
match call sees the start state it has loaded and nothing else.

## 3. Runs

| run | question | instance | result |
|---|---|---|---|
| `core_matcher` | Are adds invisible until they matter, and matches exact, at any interleaving of loads and stores? Does the automaton implement `PatternStore`? | any two of 7 Patterns, one of 7 Events; the two AddPattern calls are symmetric | holds, 154,508 states |
| `core_pair` | Can a match call report what a later one for the same Event does not? Do calls end, also when another panics? | 2 Patterns that share a value, 2 match calls, fair | holds, about 100,000 states |
| `core_absent` | Does a match call that overlaps adding an `exists:false` report only events that match? | 2 Patterns, 1 Event | violated: finding 1 |
| `pruner` | Are live Patterns indexed and reported, and deleted ones not, over adds, deletes, match calls and rebuilds; is `IInv` kept? | 2 goroutines, 5 calls | holds, 1,938,699 states |
| `pruner_lost` | The same without the exception for unlocked rebuilds | the same | violated: finding 2 |
| `pruner_readd` | Is an X reported only for a Pattern of it that is live? | 1 goroutine, 5 calls | violated: finding 3 |
| `flattener` | Are the fields of plain events the wanted leaves, however early the reading stops? Is nothing used left when an object is? Do trails tell array elements apart, and is it enough to compare neighbours? | 41 trees, all event shapes of `MCEvents` | holds, 347,584 states |
| `flattener_path` | Is the path of a field its place in the event? | 2 trees, a few events | violated: finding 4 |
| `value_matcher` | Does a field match exactly the values it should, whatever was merged before, in either build mode? Are closures complete, and do readers of earlier automata keep their answers? | 35 values in 4 groups, any 3 of a group in any order, about 70 fields | holds, 6,520 states |
| `regexp` | Does the reader read the grammar and refuse the rest? Do the automata take the language? | 13,822 texts, about 50 words | holds, 30,593 states |
| `regexp_repeat` | The same for two texts of the kinds left out | 2 texts | violated: finding 5 |
| `compact_builder` | Does a batch give the matches of its Patterns one by one, is nothing published ever changed, and is only what is new built? | 7 batches of 6 Patterns, 3 calls, 6 Events | holds, 4,112 states |

Why the instances suffice. Two writers are needed for one Pattern to meet the
states of another, in every order; the seven Patterns make a singleton become an
automaton and stay one, share a value, split a state, use a range automaton,
ask for existence and absence before, between and after values, and leave out
the first path. Seven Events have fields in every gap, a value that several
Patterns accept, and array elements that must not be mixed. A third AddPattern
call would meet only combinations of what two already make. No safety property names a
writer, so states that differ by their names are taken for one. In `Pruner` three
additions for two X include two Patterns of one X, five calls allow an add, a
delete, a match that makes the ratio large enough, and two more around it; the
thresholds `MinAction = 2` and one fifth (1000 and 0.2 in the code) are reached
within those five; the two goroutines are symmetric, and no property names
either. `Flattener` events go four levels deep, so that an array is in an
array and an object in an array in an object; the trees have up to three paths
among which a segment is leaf, node, both or neither.

The alphabet of `ValueMatcher` has a byte for each role: a quote, an asterisk, a
backslash, two letters that fold to each other, two continuation bytes that
make two more runes which fold, a byte that UTF-8 forbids, the terminator, and
two that only Q numbers use. Three values are needed: one that makes the
automaton, one merged with it, one merged with the result, which is where
spinners meet spinners and closures computed before are relied upon. Float
bits have 5 bits with digits of 2 (64 and 7 in the code), so that the first
digit is the short one, as there; the numbers include 0, -0, the largest and the
smallest. Weeks have 3 days of 12 minutes with digits of base 4: windows cross
midnight and the end of the week. `CompactBuilder`'s 6 Patterns share
values, continuations and X; `InternSlack = 6` (1024) makes `dropUnreachable`
run within three calls. The texts of `Regexp` are all texts up to length 4 over
four alphabets of brackets, quantifiers, classes and properties, with up to 4
characters after `a{`, `~p{` and `[~P{` or between `[` and `]`, and 13 atoms with 7 quantifiers
and 4 continuations. Counts of three digits and more are left out: their automata
are large, and the reader does not refuse them (finding 7). The runes have one or two
of every class of UTF-8.

`CHECK_DEADLOCK FALSE` is in every cfg: calls are bounded in number, and a
behaviour in which all have returned really stops.

### Fairness

`CoreMatcher!FairSpec` has weak fairness of every call's steps (the Go
scheduler runs every runnable goroutine), and strong fairness of taking the
lock: a waiter of a `sync.Mutex` is handed it after a millisecond (starvation
mode), so a lock that is free again and again is taken. A call need not begin
for the match property (`~>` starts after Begin). `Flattener` is one goroutine's
loop: weak fairness of Next.

### Preconditions

`FieldsAreTheWantedLeaves` holds for *plain* events: no array, at a place where the
Patterns have a leaf only, holds an object. The others are findings 4 and 6 (by
`PlainPathsAreTheirPlaces` a path fails to be that of its place in no other events), and
`ConsecutiveTrailsSuffice` speaks of fields whose path is that of their place, which in
plain events are all that have a path. `SkipsNothingUsed` holds of the object that is left in
any event, and of the calls around it, when the whole reading ends, in plain events: what
else it may lose is finding 6. `LiveIsIndexed`,
`LiveIsReported` and `LiveCountRight` hold of behaviours without the races of an
unlocked rebuild with, respectively, an addPattern, an addPattern, and any
change; what those races do is finding 2. `DisabledStaysDisabled` likewise excepts
a disableRebuild that an unlocked rebuild overlaps.
`ReportedMatches` and `PatternStore` make no promise about `exists:false` of a
Pattern that was added after the match call began; that is finding 1.

`MatchesItsLanguageIfTame` leaves out the two constructs of findings 5 and 9 (`Tame`), and
the texts one more, `(a|ab)*`, for which the construction does not come to an end
in a value: it panics. `RefusesTheRest` excepts the illegal texts of finding 8: what the
text must end with is spelled out by `Unfinished`, and everything before it must be read
by the grammar.
Left out of the inputs of `value_matcher` and `regexp`, for the code is known to go
wrong there (see Findings): `*\*` in a wildcard, anything-but lists with a value that goes on
after a quote where another ends, `-` at the end of a negated class. An
anything-but value is taken to match numbers too, as the code has it, where
PATTERNS.md speaks of strings.

## 4. Findings

1. *The flattener drops a field that a Pattern added meanwhile must not see*
   (`core_absent`, quamina.go:176). The matcher is loaded once for the segments
   tree and once for the automaton. With AddPattern of an `exists:false` in
   between, the event's field has been dropped and the Pattern is reported.
2. *A rebuild without the lock loses a Pattern* (`pruner_lost`, pruner.go:247).
   matchesForFields calls maybeRebuild, whose comment presumes the lock.
3. *A deleted Pattern comes back when its X is added again* (`pruner_readd`,
   pruner.go:233), until the next rebuild, for results are filtered by X only.
4. *Members of objects in an array are looked up one level too high*
   (`flattener_path`, flatten_json.go:274), where the Patterns have a leaf for
   the array: `{"a": [{"b": 1}]}` yields a field `b` if a Pattern uses `a` and
   another uses `b`.
5. *`{n,}` takes too few* (`regexp_repeat`, regexp_nfa.go:163). The loop goes to
   the first copy from before the last one, so `a{3,}` takes `aaa` and `aaaaa` but
   not `aaaa`; n up to 2 comes out right.

Met while modelling, named here and excepted where a property would see them:

6. The reading of an event may stop with wanted leaves left (flatten_json.go:187). In the
   arrays of finding 4, if they are at the top of the event, an object is read with
   the root node, so that its members may use up the root's counts, which ends the
   whole reading: with the Pattern `{"a": [2]}` alone, `{"a": [{"a": 1}, 2]}` yields 1 and not 2,
   although README.md:121-122 of the repository promises a match. errEarlyStop is meant
   for when "we've read all the fields that appear in any pattern" (flatten_json.go:48).
7. The reader takes any occurrence count that fits 32 bits (regexp_reader.go:657), where
   REGEXP.md:61 says 0 to 99; a test (regexp_validity_test.go:25) uses 100.
8. The reader lets some illegal texts pass (REGEXP.md:24 promises an error).
   A text that ends in the middle of a construct is taken for ended before it: an
   atom with `{` and digits (`a{`, `ab{2`), a property after `~p`, `~p{` or two letters (`a~p{`,
   `a~p{Lu`, but not `a~p{L`), a class after a hyphen, the `~` of a range's
   end, or within a property (`[a-`). And a `}` that closes nothing is taken for a `|`.
   `RefusesTheRest` checks that no other text outside the grammar passes.
9. Repetition of a group with two branches that begin alike (regexp_nfa.go:66):
   merging the branches merges the state that the loop comes back to, so
   `(a|ab)+` and `(a|ab){2}` miss words, and `(a|ab)*` panics.
10. `InvertRuneRange` loses the last rune when a range ends just before it
   (rune_range.go:141). For `[^*-a-]`, a negated class with a range over the hyphen and a
   hyphen at its end, it is given overlapping pairs and goes back behind the end
   of the first: runes between the hyphen and `a` match.
11. `*\*` in a wildcard (wildcard.go:100): the byte after the asterisk is taken
   as it is, without its escape.
12. Anything-but lists (anything_but.go:123) where one value ends with the quote
    at which another goes on: the second overwrites what the first needs.
13. `canonical()` of numeric ranges (numeric.go:152) differs for ranges that
    begin or end on either side of -0 and match the same numbers, contrary to
    its comment; matching is not affected.
14. An unlocked rebuild stores a trigger that disableRebuild has meanwhile
    removed; and deletePatterns, which stores the fields it loaded first, undoes
    the rebuild it has just made (a waste, not an error, because the old
    coreMatcher still holds every live Pattern).

## 5. Proofs

All theorems hold for any number of writers and readers, any paths, values,
Patterns and Events, under `PatternAssumption` (what a Pattern and an Event look
like), `SortedAssumption` (fields in path order, as the code sorts them),
`WriterAssumption` (the lock's free value is no writer),
`LabelAssumption` (values of Patterns are not the words used as labels) and
`TrailAssumption`, of array trails: a field is in one element of each array only,
and of three fields on ascending paths the outer two fit together if each fits with the one
between. The last is no law of trails as such. It is what the flattener's trails have:
`FlattenerProofs` proves it of every event, for fields whose path is that of their
place (the others are finding 4). The soundness of `tryToMatch`, which looks at
neighbours only, rests on it, and on nothing else about trails.

| theorem (`CoreMatcherProofs`) | says |
|---|---|
| `InductiveInvariant` | `Spec => []Inductive` |
| `TypeCorrect` | no pointer leads to a matcher that does not exist |
| `MutualExclusion` | the lock is held by exactly the call that builds |
| `EndStatesAreJustified` | an X is stored only where the walk has checked one choice of each condition of a Pattern of that X, and nothing else |
| `FoundIsJustified` | whatever other goroutines do, a match call finds no X but of a Pattern whose conditions its fields meet |
| `NothingIsRetracted` | no store takes back a transition, a next state, an X or a path |

Type correctness is not inductive (the target of an edge must exist when it
is followed), nor is `EndStatesJustified` (where does the writer think it is?).
`Inductive` adds what a walk that arrives somewhere has checked: along every
transition the label `via` of the target is the label of the source with one more
condition (`HeapLabelled`); the states an AddPattern call works on have labels
that choose its own Pattern's conditions up to the path it is at (`WriterInv`);
an X is at a label that chooses a Pattern of a call that has arrived there
(`EndsArrived`); and the matchers a match call has on its agenda have labels
which its fields meet (`ReaderInv`). A writer disturbs a reader only by
extending records, which keeps labels; `OneBuilder` says that no two writers
replace one record. The proofs go action by action: `CoreMatcherAddProofs` has
a lemma for each step of an AddPattern call, `CoreMatcherProofs` for each of a
match call. `NothingIsRetracted` uses the invariant for the lone builder: the
record it replaces is the record it has copied.

| theorem | says |
|---|---|
| `WalksAreSound` (`CoreMatcherSoundProofs`) | `Spec => []Sound` |
| `ReportsAreMatches` | an X is reported only for a Pattern that some choice of fields fulfils, one for each condition, all of them together in the arrays |
| `WalksAreComplete` (`CoreMatcherCompleteProofs`) | `Spec => []Complete` |
| `NoneIsMissed` | every Pattern that was in before the call began and matches is reported |
| `NoneIsTakenBack` | what one match call has reported for an event a later one reports too |
| `PromiseIsKept` | `Spec => ImplementsStore`: the refinement of `PatternStore` |

*Sound.* `Inductive` knows that each condition of a label is met by some field,
not that these fields fit together in the arrays: the walk compares a field with
the one before it only. `Sound` says of each matcher in a loop that there is a
choice of the call's own fields for its label (`Picks`), every two of which fit;
that the choice ends at the field the walk has just taken (`JustTook`), or that
the field the loop is at fits with all of it, although only its predecessor was
looked at (`MayTake`, by `TrailAssumption`). It also says that matchers lead
from the root to this one on the values of the choice (`LedTo`), and to each X
found (`Reachable`): nothing is retracted, so a later call for the same event
can be led there too, which is what `NoneIsTakenBack` needs.

*Complete.* Two halves. For an AddPattern call (`Built`): the matchers it has
done with lead every event that fulfils its Pattern from the root to those it is
at or has just made (`BuiltSoFar`), and to the X once it is stored (`Serves`).
No other call can cut the way, since nothing is retracted. For a match call
(`Attained`): of each Pattern that was in before it began and each choice of
fields that fulfils it, some loop of the agenda has yet to follow matchers that
lead to the X (`Follows`, one case for each kind of loop), or the X is found; so
when the agenda is empty, the X is found. The flattener has kept the fields on
the Pattern's paths (`KeptKnown`), and the stand-in field serves a Pattern that
asks only for absence.

*The refinement.* A step of an AddPattern call is `BeginAdd`, `EndAdd`,
`FailAdd` or invisible, by the value of `pc`. `Return` is `EndMatch`, and that
is where both invariants come in: what was found is allowed, by `Sound`, and
contains what is required, by `Complete`. `PatternStore` states no fairness;
that calls end is `EveryAddEnds` and `EveryMatchReturns`, checked by TLC.

Both invariants are checked by TLC in `core_matcher`.

`PrunerProofs` assumes `PrunerAssumption`: the free lock is no goroutine, Patterns
hit by Events are Patterns, and `RatioDen` is not zero.

| theorem (`PrunerProofs`) | says |
|---|---|
| `PrunerInvariant` | `Spec => [](IInv /\ Pointed)` |
| `PrunerTypes` | no fields and no call point to a coreMatcher that was not made |
| `LiveStaysIndexed` | a live Pattern is in the coreMatcher in use |
| `DeletedStay` | a match call reports no X that was not live during the call |
| `LiveAreReported` | it reports every X with a matching Pattern that is live throughout |
| `CountStaysRight` | with nobody at work, the live count counts the live set |
| `RatioStaysDefined` | the ratio of the trigger never divides by zero |
| `DisabledStays` | disabling rebuilds lasts |

`LiveIsIndexed` is not inductive: the coreMatcher in use may be replaced by one that a
call has held for long. `IInv` says of every such copy, per point of the code,
what it holds: the matcher `deletePatterns` loaded first and the one a rebuild has
filled still contain every live entry (`IndexHolds`), the trigger in either copy is
the stored one (`HasTrigger`), the matcher a match call asks contains whatever was
live when it began, its reports contain what it has been through of that (`Due`),
and the live count is off by exactly what the holder of the lock has yet to count
(`Pending`). Each of the three holds until a rebuild without the lock overlaps a
call of the kind that spoils it. `Noted` is the link: a call that
is changing something during such a rebuild is already in `races`, so no step can
spoil a copy before the exception applies. The proof has a lemma for each action,
under three that are shared: `Moved` (one call moves on), `StoredStep` (fields are
stored), `EnlivenedStep` (the live set changes).

`FlattenerProofs` assumes `JsonAssumption` (what a JSON value is; names are numbers in
the order of the texts; no object has two members of one name),
`TreesAssumption` (a segments tree is a finite set of paths, none of them empty) and
`PartsAssumption` (what the parts of an event are). Events may be of any
depth and width.

| theorem (`FlattenerProofs`) | says |
|---|---|
| `FlattenerInvariant` | `Spec => []IInv` |
| `FlattenerTypes` | `nodesCount` is never driven below zero, the trail never outgrows the calls, fields have paths of the tree |
| `NothingUsedIsSkipped` | when the counts let an object be left, none of its members left is in the tree; when that ends the reading of a plain event, no call in progress has anything left |
| `TrailsTellApart` | two trails conflict if and only if their fields come from different elements of one array |
| `NeighboursSuffice` | of fields in path order, neighbours' trails are all that need be compared |
| `FlattenerReads` | `Spec => []YInv` |
| `TheWantedLeaves` | of a plain event just the leaves that the Patterns ask for are stored, each once, under the path of its place, however early the reading stops |
| `PlainPathsAreTheirPlaces` | of a plain event every stored field has the path of its place, at any time |
| `PartsExist` | `PartsAssumption` can be met for any events |

A trail is a list of array numbers and positions, and knows nothing of where the
arrays are; the theorems are about where. `IInv` gives each call, array and field
its place. The calls are inside one another (`FramesNested`), and no place that
has been numbered or stored lies ahead of them (`NothingAhead`), so that each array
gets its number once (`OpenedOnce`). A trail *fits* a place if its pairs
are exactly the arrays the place goes through, with the elements it takes
(`Fits`); `TrailsFit` says so of every call and every field, and of the trail being
built (`Seen`). From `Fits` and `OpenedOnce` follows `TrailsTellApart`. For
`NeighboursSuffice` one has to know that two places with a beginning in common
go on from the same value, so both by member or both by element
(`FieldsAgree`), and that the names on the way grow only by members (`Named`): if
two fields are apart in an array, then a path between theirs in order begins with
the names down to that array (`Between`); where its place leaves theirs, it does so
in an array, and is apart from the first, or takes another element of this one, and is apart
from one of the two. `Counts` says what the counters of the early stop have counted:
a node when met as an object only, a field when met as a leaf, also where the tree
has a node alone, so that `fieldsCount` may go below zero. With both at zero every
node has been met as an object, so each leaf that was counted was a field, and
all fields have been met, so nothing of the object left is used. The proof has the moves of the calls first
(`AdvanceCalls`, `EncloseCalls`, `LeaveCalls`), then what each part of `IInv` makes of them,
put together in `StepOn`, `StepInto` and `StepBack`, and one lemma for each action.

`TheWantedLeaves` speaks of the end, so its invariant has to speak of the way there:
`YInv` says that each call reads the part of the event that is at its place
(`ReadsParts`), in the tree node that the names on the way to it lead to
(`NodesFollow`; an array where the Patterns have a leaf only is the exception,
which is why a plain event has no object there), that no part is stored twice
(`StoredOnce`), and that each wanted leaf has been stored or lies ahead of a call
in progress (`NothingMissed`). The last is the hard one. If a step passes a
member or leaves an object, a wanted leaf within would have the member's name
in the tree at the call's node (`WantedIsUsed`), but `SkipMember` skips only names the
tree does not have there, and by `Counts` so do the early exits (`ObjectIsRead`). If it
steps into a member, what was ahead of the outer call still is, or is ahead of the inner one
(`AheadGoneInto`). The early stop ends the reading of the event when the node is the
root, and in a plain event a call with that node is that of the event itself
(`RootIsTheEvent`), so nothing is left by other calls; this is the second half of
`NothingUsedIsSkipped`. In other events it may be that of an object in an array (finding 6).
The facts about places rest on one lemma in place of an induction: what
holds of the event, and of what a part holds if it holds of the part, holds of
all parts (`AllParts`), by way of a shallowest part it would fail for. From it follow
that a place has one value (`OneValue`), and that what lies below the place of a
part lies in that part (`HeldInside`).

Model-checked only: liveness (with `ENABLED`, out of the prover's reach), and the
modules of automata and regexps (`SmallTable` to `CompactBuilder`), which are RECURSIVE
operators, as the code is recursive functions. Every safety property that a run checks of
`CoreMatcher`, `Pruner` and `Flattener` is a theorem.

## 6. What is not modelled

* Lexing of events and parsing of the JSON of Patterns (byte input and error
  texts), clock texts, time zone data (Go library), the generated Unicode tables,
  which are constants.
* The channels behind each counter of the pruner's statistics
  (`pruner_stats.go`). Counters are atomic here. Two goroutines that get at once may
  take each other's answers; that can change when a rebuild takes place, and the
  properties of `Pruner` hold whenever that is.
* The buffers that match calls reuse (`nfaBuffers`, `transmap`) and the generation
  counters of `closureBuffers`: one traversal is a step, and sets stand for what
  the buffers hold.
* Array trails in `CompactBuilder`; `CoreMatcher` has them.
* Which features a regexp uses (asked for by a test only), the statistics and
  memory cost reports, the pretty printer, the code generators and the
  experimental triggers, none of which takes part in matching.

## 7. Plan

Done, in this order: `Patterns`, `PatternStore`, `CoreMatcher` with its invariant
and proofs; `Pruner`; `SegmentsTree`, `Flattener`; `SmallTable`, `Nfa`; `Numbers`,
`TimeWindow`, `RuneRange`, `ValueAutomata`; `RegexpReader`, `RegexpNfa`, `RegexpGrammar`,
`Regexp`; `TypedValues`, `ValueMatcher`; `CompactBuilder`; `PrunerInv` and its proofs;
`CoreMatcherWalkInv`, and with it soundness, completeness and the refinement of `PatternStore`;
`FlattenerInv` and its proofs, on which `TrailAssumption` rests; `FlattenerLeaves` by places
and the proof that the flattener stores the wanted leaves.

Left: the channels of the statistics; the reused buffers of traversal; reading
of JSON events into tokens. No proof is left of a safety property within the prover's
reach; the modules of automata are recursive throughout and stay with TLC.
