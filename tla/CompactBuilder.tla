---------------------------- MODULE CompactBuilder ----------------------------
(***************************************************************************)
(* AddPatterns: a batch of Patterns compiled as a whole, and AddPattern    *)
(* one Pattern at a time, on one coreMatcher with real value automata.     *)
(*                                                                         *)
(* A Pattern is [x, fields]: its fields in path order, each a path with    *)
(* the list of its values.  An event is a sequence of fields in path order *)
(* with different paths; array trails are left to CoreMatcher.             *)
(*                                                                         *)
(* One action is one whole call, as the lock makes it for other writers.   *)
(* mem holds the objects of the automaton (fms, vms, heap) and the         *)
(* compactBuilder; the operators below take mem and return it with the     *)
(* object s they were asked for.                                           *)
(***************************************************************************)
EXTENDS TypedValues

CONSTANTS
    Paths,          \* the paths, numbers in lexical order
    Batches,        \* the sequences of Patterns that may be added in a call
    Events,
    TooLarge,       \* the Patterns on which a builder may panic
    ValueOrder,     \* the typed values in the order of valKey, one for all regexps
    InternSlack,    \* how far an interner may outgrow what is live; 1024
    BuildModes, MaxCalls

ASSUME CompactBuilderAssumption ==
    /\ Paths \subseteq Nat \ {0}
    /\ {InternSlack, MaxCalls} \subseteq Nat

VARIABLES
    mem,
    core,       \* coreMatcher.updateable: the start state and the segments tree
    compact,    \* coreMatcher.compact is not nil
    buildMode,
    added,      \* the Patterns added
    loaded,     \* the start states published since compact was set
    calls       \* counts the calls

vars == <<mem, core, compact, buildMode, added, loaded, calls>>

Nil == 0

Ascending(numbers) ==
    IF numbers = {} THEN <<>>
    ELSE SelectSeq([i \in 1 .. Max(numbers) + 1 |-> i - 1], LAMBDA n : n \in numbers)

NewFieldMatcher == [matches |-> {}, trans |-> <<>>, existsTrue |-> <<>>, existsFalse |-> <<>>]

NewMem ==
    [fms |-> <<NewFieldMatcher>>, vms |-> <<>>, heap |-> <<>>,
     nodes |-> <<>>, values |-> <<>>, states |-> <<>>, fm |-> <<>>, vm |-> <<>>,
     nodeUnions |-> <<>>, valueUnions |-> <<>>, root |-> Nil, nextID |-> 0,
     regexpSerial |-> 0, liveNodes |-> 0, liveValues |-> 0, s |-> Nil]

NewFm(m, fields) == [m EXCEPT !.fms = Append(@, fields), !.s = Len(m.fms) + 1]

-----------------------------------------------------------------------------
(* Interning.  A cNode is [matches, trans, existsTrue, existsFalse], the   *)
(* last three from paths to ids; a cValue is the sequence of its entries   *)
(* [key, val, node] in the order of their keys.                            *)
(* Mutant: nothing is looked up.                                           *)
InternedAnew(m, table, object) ==
    LET id == m.nextID + 1
    IN  [m EXCEPT !.nextID = id, ![table] = (id :> object) @@ @, !.s = id]

Interned(m, table, object) ==
    LET same == {id \in DOMAIN m[table] : m[table][id] = object}
        id == m.nextID + 1
    IN  IF same # {} THEN [m EXCEPT !.s = CHOOSE i \in same : TRUE]
        ELSE [m EXCEPT !.nextID = id, ![table] = (id :> object) @@ @, !.s = id]

internNode(m, n) == Interned(m, "nodes", n)
internValue(m, v) == Interned(m, "values", v)

(* A parsed regexp gets a serial number, so that no two have one key.      *)
valKey(m, val) ==
    IF val.vType = "regexpType"
    THEN <<SelectInSeq(ValueOrder, LAMBDA v : v.vType = "regexpType"), m.regexpSerial + 1>>
    ELSE <<SelectInSeq(ValueOrder, LAMBDA v : v = val), 0>>

KeySeq(keys) ==
    LET serials(r) == Ascending({k[2] : k \in {l \in keys : l[1] = r}})
    IN  FlattenSeq([r \in DOMAIN ValueOrder |-> [i \in DOMAIN serials(r) |-> <<r, serials(r)[i]>>]])

(* The chain of a Pattern, from its last field to its first.               *)
chainEntries(m, vals, next) ==
    LET entry(acc, val) ==
            [m |-> IF val.vType = "regexpType" THEN [acc.m EXCEPT !.regexpSerial = @ + 1] ELSE acc.m,
             entries |-> (valKey(acc.m, val) :> [key |-> valKey(acc.m, val), val |-> val, node |-> next])
                             @@ acc.entries]
        inOrder(all, keys) == internValue(all.m, [i \in DOMAIN keys |-> all.entries[keys[i]]])
        value(all) == inOrder(all, KeySeq(DOMAIN all.entries))
    IN  value(InTurn(entry, [m |-> m, entries |-> <<>>], vals))

chainField(m, field) ==
    LET trans(value) == internNode(value, [NewFieldMatcher EXCEPT !.trans = field.path :> value.s])
    IN  IF field.vals = <<>> THEN m
        ELSE CASE field.vals[1].vType = "existsTrueType"  ->
                    internNode(m, [NewFieldMatcher EXCEPT !.existsTrue = field.path :> m.s])
               [] field.vals[1].vType = "existsFalseType" ->
                    internNode(m, [NewFieldMatcher EXCEPT !.existsFalse = field.path :> m.s])
               [] OTHER -> trans(chainEntries(m, field.vals, m.s))

chain(m, p) ==
    InTurn(chainField, internNode(m, [NewFieldMatcher EXCEPT !.matches = {p.x}]), Reverse(p.fields))

-----------------------------------------------------------------------------
(* The union of a set of nodes, path by path, and of a set of values, key  *)
(* by key, remembered by the set of their ids.                             *)
RECURSIVE unionNodes(_, _)
RECURSIVE unionValues(_, _)

(* acc: mem m and an object o under construction.  Its field is linked, in *)
(* the order ks, to what make makes of each of the links.                  *)
LinkEach(acc, field, ks, links, make(_, _)) ==
    LET linked(before, k, to) == [m |-> to, o |-> [before.o EXCEPT ![field] = (k :> to.s) @@ @]]
        link(before, k) == Finish(make(before.m, links[k]), LAMBDA to : linked(before, k, to))
    IN  InTurn(link, acc, ks)

unionNodes(m, nodes) ==
    LET paths(field) == UNION {DOMAIN m.nodes[n][field] : n \in nodes}
        links(field) == [k \in paths(field) |->
                            {m.nodes[n][field][k] : n \in {o \in nodes : k \in DOMAIN m.nodes[o][field]}}]
        matches == UNION {m.nodes[n].matches : n \in nodes}
        exists(acc, field) == LinkEach(acc, field, Ascending(paths(field)), links(field), unionNodes)
        interned(acc) == internNode(acc.m, acc.o)
        remembered(union) == [union EXCEPT !.nodeUnions = (nodes :> union.s) @@ @]
    IN  IF Cardinality(nodes) = 1 THEN [m EXCEPT !.s = CHOOSE n \in nodes : TRUE]
        ELSE IF nodes \in DOMAIN m.nodeUnions THEN [m EXCEPT !.s = m.nodeUnions[nodes]]
        ELSE Finish(InTurn(exists,
                           LinkEach([m |-> m, o |-> [NewFieldMatcher EXCEPT !.matches = matches]], "trans",
                                    Ascending(paths("trans")), links("trans"), unionValues),
                           <<"existsTrue", "existsFalse">>),
                    LAMBDA acc : remembered(interned(acc)))

unionValues(m, values) ==
    LET entries == UNION {ToSet(m.values[v]) : v \in values}
        keys == KeySeq({e.key : e \in entries})
        with(k) == {e \in entries : e.key = k}
        entry(acc, k) == [(CHOOSE e \in with(k) : TRUE) EXCEPT !.node = acc.o.node[k]]
        interned(acc) == internValue(acc.m, [i \in DOMAIN keys |-> entry(acc, keys[i])])
        remembered(union) == [union EXCEPT !.valueUnions = (values :> union.s) @@ @]
    IN  IF Cardinality(values) = 1 THEN [m EXCEPT !.s = CHOOSE v \in values : TRUE]
        ELSE IF values \in DOMAIN m.valueUnions THEN [m EXCEPT !.s = m.valueUnions[values]]
        ELSE remembered(interned(LinkEach([m |-> m, o |-> [node |-> <<>>]], "node", keys,
                                        [k \in ToSet(keys) |-> {e.node : e \in with(k)}], unionNodes)))

-----------------------------------------------------------------------------
(* Materialization.                                                        *)
RECURSIVE fieldMatcherFor(_, _, _)

(* The field matchers of a set of nodes, in the order of their ids.        *)
FieldMatchersFor(m, nodes, mode) ==
    LET noted(acc, f) == [m |-> f, fms |-> Append(acc.fms, f.s)]
    IN  InTurn(LAMBDA acc, n : Finish(fieldMatcherFor(acc.m, n, mode), LAMBDA f : noted(acc, f)),
               [m |-> m, fms |-> <<>>], Ascending(nodes))

(* next: mem and the field matchers of the state to be made.               *)
NewInternedState(next, key, indices, steps) ==
    LET table(owner) == IF indices = <<>> THEN newSmallTable(owner)
                        ELSE makeSmallTable(NoState, indices, steps, owner)
        state == NewState(next.m.heap)
    IN  [next.m EXCEPT !.heap = Allocate(@, table, next.fms),
                       !.states = (key :> state) @@ @, !.s = state]

(* Mutant: a state is known by its steps alone.                            *)
internStateBySteps(m, indices, steps, nodes, mode) ==
    LET key == <<indices, steps>>
    IN  IF key \in DOMAIN m.states THEN [m EXCEPT !.s = m.states[key]]
        ELSE NewInternedState(FieldMatchersFor(m, nodes, mode), key, indices, steps)

internState(m, indices, steps, nodes, mode) ==
    LET key == <<indices, steps, nodes>>
    IN  IF key \in DOMAIN m.states THEN [m EXCEPT !.s = m.states[key]]
        ELSE Finish(FieldMatchersFor(m, nodes, mode),
                    LAMBDA next : NewInternedState(next, key, indices, steps))

(* A byteTrie as the set of what was inserted: [bytes, node, exact].       *)
RECURSIVE stateForTrie(_, _, _)
stateForTrie(m, trie, mode) ==
    LET bytes == Ascending({t.bytes[1] : t \in {u \in trie : u.bytes # <<>>}})
        child(b) == {[t EXCEPT !.bytes = Tail(@)] : t \in {u \in trie : u.bytes # <<>> /\ u.bytes[1] = b}}
        ending(exact) == {t.node : t \in {u \in trie : u.bytes = <<>> /\ u.exact = exact}}
        stepped(acc, c) == [m |-> c, steps |-> Append(acc.steps, c.s)]
        ended(all) == IF ending(TRUE) = {} THEN all
                      ELSE stepped(all, internState(all.m, <<>>, <<>>, ending(TRUE), mode))
        indices == IF ending(TRUE) = {} THEN bytes ELSE Append(bytes, valueTerminator)
        state(all) == internState(all.m, indices, all.steps, ending(FALSE), mode)
        stepOn(acc, b) == Finish(stateForTrie(acc.m, child(b), mode), LAMBDA c : stepped(acc, c))
    IN  Finish(Finish(InTurn(stepOn, [m |-> m, steps |-> <<>>], bytes), ended), state)

-----------------------------------------------------------------------------
(* One automaton for the strings, numbers and prefixes, with those of the  *)
(* other values merged into it; one for the numeric ranges; one per time   *)
(* zone.                                                                   *)
Inserted(bytes, e, exact) == [bytes |-> bytes, node |-> e.node, exact |-> exact]

trieOf(e) ==
    CASE e.val.vType \in TextTypes   -> {Inserted(e.val.val, e, TRUE)}
      [] e.val.vType = "prefixType"  -> {Inserted(Front(e.val.val), e, FALSE)}
      [] e.val.vType = "numberType"  ->
            {Inserted(e.val.val, e, TRUE)}
            \cup IF ParseFloat[e.val.val] = NoFloat THEN {}
                 ELSE {Inserted(qNumFromFloat(ParseFloat[e.val.val]), e, TRUE)}
      [] OTHER -> {}

TrieTypes == TextTypes \cup {"prefixType", "numberType"}
OtherTypes == {"anythingButType", "shellStyleType", "wildcardType", "monocaseType", "regexpType"}

(* acc: mem m and the vmFields f so far.  The fieldMatcher that a builder  *)
(* ends in is a new one, which gets the fields of the node's.              *)
MergeOtherFA(acc, e, exit, fa) ==
    LET merged == IF acc.f.start = NoState THEN fa ELSE mergeStartStates(fa.h, acc.f.start, fa.s)
    IN  [m |-> [exit EXCEPT !.heap = merged.h],
         f |-> [acc.f EXCEPT !.start = merged.s,
                             !.isNondeterministic = @ \/ makesNondeterministic(e.val, fa)]]

MergeOther(acc, e, mode) ==
    LET copy(to) == NewFm(to, to.fms[to.s])
    IN  Finish(Finish(fieldMatcherFor(acc.m, e.node, mode), copy),
               LAMBDA exit : Finish(newFA(exit.heap, e.val, exit.s),
                                    LAMBDA fa : MergeOtherFA(acc, e, exit, fa)))

MergeNumericRange(acc, e, mode) ==
    LET with(to, r) == [m |-> [to EXCEPT !.heap = r.h], f |-> r.fields]
        from(to) == with(to, addNumericRange(to.heap, acc.f, e.val, to.s))
    IN  Finish(fieldMatcherFor(acc.m, e.node, mode), from)

OfTypes(v, types) == SelectSeq(v, LAMBDA e : e.val.vType \in types)

AddTrie(acc, v, mode) ==
    LET trie == UNION {trieOf(e) : e \in ToSet(v)}
        base == [acc EXCEPT !.f.hasNumbers = OfTypes(v, {"numberType"}) # <<>>]
        with(t) == [base EXCEPT !.m = t, !.f.start = t.s]
    IN  IF OfTypes(v, TrieTypes) = <<>> THEN base ELSE Finish(stateForTrie(acc.m, trie, mode), with)

(* The closures, and the deterministic automaton made for speed.           *)
Finished(acc, mode) ==
    LET speedy == mode = "BuiltForSpeed"
        with(fa) == [m |-> [acc.m EXCEPT !.heap = fa.h],
                     f |-> [acc.f EXCEPT !.start = fa.s, !.isNondeterministic = ~speedy]]
    IN  IF acc.f.isNondeterministic THEN Finish(closedFA(Result(acc.m.heap, acc.f.start), speedy), with) ELSE acc

AddZones(acc, v, mode) ==
    LET windows == ToSet(OfTypes(v, {"timeWindowType"}))
        prefixes(e) == {Inserted(p, e, FALSE) :
                            p \in ToSet(timeWindowPrefixes(e.val.days, e.val.start, e.val.end))}
        zoneTrie(tz) == UNION {prefixes(e) : e \in {w \in windows : w.val.tz = tz}}
        with(before, tz, t) == [m |-> t, f |-> [before.f EXCEPT !.timeZones = (tz :> t.s) @@ @]]
    IN  InTurn(LAMBDA before, tz : with(before, tz, stateForTrie(before.m, zoneTrie(tz), mode)),
                 acc, SetToSeq({e.val.tz : e \in windows}))

AddRanges(acc, v, mode) ==
    InTurn(LAMBDA before, e : MergeNumericRange(before, e, mode), acc, OfTypes(v, {"numericRangeType"}))

AddOthers(acc, v, mode) ==
    Finish(InTurn(LAMBDA before, e : MergeOther(before, e, mode),
                  AddTrie(acc, v, mode), OfTypes(v, OtherTypes)),
           LAMBDA all : Finished(all, mode))

vmFieldsFor(m, v, mode) ==
    Finish(Finish(AddRanges([m |-> m, f |-> NewValueMatcher], v, mode),
                  LAMBDA acc : AddOthers(acc, v, mode)),
           LAMBDA acc : AddZones(acc, v, mode))

valueMatcherFor(m, v, mode) ==
    LET entries == m.values[v]
        isText == Len(entries) = 1 /\ entries[1].val.vType \in TextTypes
        singleton(to) == [m |-> to, f |-> [NewValueMatcher EXCEPT !.singletonMatch = entries[1].val.val,
                                                                  !.singletonTransition = to.s]]
        remembered(made, vm) == [made.m EXCEPT !.vms = Append(@, made.f), !.vm = (v :> vm) @@ @, !.s = vm]
        new(made) == remembered(made, Len(made.m.vms) + 1)
    IN  IF v \in DOMAIN m.vm THEN [m EXCEPT !.s = m.vm[v]]
        ELSE IF isText THEN Finish(fieldMatcherFor(m, entries[1].node, mode), LAMBDA to : new(singleton(to)))
        ELSE Finish(vmFieldsFor(m, entries, mode), new)

fieldMatcherFor(m, n, mode) ==
    LET node == m.nodes[n]
        exists(acc, field) == LinkEach(acc, field, Ascending(DOMAIN node[field]), node[field],
                                       LAMBDA before, k : fieldMatcherFor(before, k, mode))
        remembered(made) == [made EXCEPT !.fm = (n :> made.s) @@ @]
        new(acc) == remembered(NewFm(acc.m, acc.o))
    IN  IF n \in DOMAIN m.fm THEN [m EXCEPT !.s = m.fm[n]]
        ELSE Finish(InTurn(exists,
                           LinkEach([m |-> m, o |-> [NewFieldMatcher EXCEPT !.matches = node.matches]], "trans",
                                    Ascending(DOMAIN node.trans), node.trans,
                                    LAMBDA before, k : valueMatcherFor(before, k, mode)),
                           <<"existsTrue", "existsFalse">>), new)

-----------------------------------------------------------------------------
(* build, up to the union: the new root.                                   *)
unionWith(m, patterns) ==
    LET rooted(acc, c) == [m |-> c, roots |-> acc.roots \cup {c.s}]
        fresh == [m EXCEPT !.nodeUnions = <<>>, !.valueUnions = <<>>]
        union(all) == unionNodes(all.m, all.roots)
    IN  union(InTurn(LAMBDA acc, p : rooted(acc, chain(acc.m, p)),
                       [m |-> fresh, roots |-> {m.root} \ {Nil}], patterns))

RECURSIVE NodesUnder(_, _)
NodesUnder(m, nodes) ==
    LET below(n) == UNION {{e.node : e \in ToSet(m.values[v])} : v \in Range(m.nodes[n].trans)}
                    \cup Range(m.nodes[n].existsTrue) \cup Range(m.nodes[n].existsFalse)
        next == nodes \cup UNION {below(n) : n \in nodes}
    IN  IF next = nodes THEN nodes ELSE NodesUnder(m, next)

(* Mutant: only the values of the root are kept.                           *)
dropBelowRoot(m) ==
    LET nodes == NodesUnder(m, {m.root})
        values == Range(m.nodes[m.root].trans)
        only(f, kept) == [i \in DOMAIN f \cap kept |-> f[i]]
    IN  [m EXCEPT !.nodes = only(@, nodes), !.fm = only(@, nodes), !.liveNodes = Cardinality(nodes),
                  !.values = only(@, values), !.vm = only(@, values), !.liveValues = Cardinality(values),
                  !.states = <<>>]

dropUnreachable(m) ==
    LET nodes == NodesUnder(m, {m.root})
        values == UNION {Range(m.nodes[n].trans) : n \in nodes}
        only(f, kept) == [i \in DOMAIN f \cap kept |-> f[i]]
    IN  [m EXCEPT !.nodes = only(@, nodes), !.fm = only(@, nodes), !.liveNodes = Cardinality(nodes),
                  !.values = only(@, values), !.vm = only(@, values), !.liveValues = Cardinality(values),
                  !.states = <<>>]

(* start: mem with the field matcher of the new root.                      *)
FinishBuild(start, root) ==
    LET done == [start EXCEPT !.root = root, !.nodeUnions = <<>>, !.valueUnions = <<>>]
        grown == \/ Cardinality(DOMAIN done.nodes) > 2 * done.liveNodes + InternSlack
                 \/ Cardinality(DOMAIN done.values) > 2 * done.liveValues + InternSlack
    IN  IF grown THEN dropUnreachable(done) ELSE done

(* union: mem with the new root.                                           *)
materialize(union, mode) == FinishBuild(fieldMatcherFor(union, union.s, mode), union.s)

build(m, patterns, mode) == Finish(unionWith(m, patterns), LAMBDA union : materialize(union, mode))

-----------------------------------------------------------------------------
(* addFieldsLocked: a Pattern added in place, value by value.              *)
fmAddExists(m, state, path, field) ==
    LET new == NewFm(m, NewFieldMatcher)
    IN  IF path \in DOMAIN m.fms[state][field] THEN [m EXCEPT !.s = m.fms[state][field][path]]
        ELSE [new EXCEPT !.fms[state][field] = (path :> new.s) @@ @]

fmAddTransition(m, state, field, mode) ==
    LET known == field.path \in DOMAIN m.fms[state].trans
        vm == IF known THEN m.fms[state].trans[field.path] ELSE Len(m.vms) + 1
        base == IF known THEN m
                ELSE [m EXCEPT !.vms = Append(@, NewValueMatcher),
                               !.fms[state].trans = (field.path :> vm) @@ @]
        new(acc) == NewFm(acc.m, NewFieldMatcher)
        with(acc, r) == [m |-> [(IF r.fm = new(acc).s THEN new(acc) ELSE acc.m)
                                    EXCEPT !.heap = r.h, !.vms[vm] = r.fields],
                         next |-> Append(acc.next, r.fm)]
    IN  InTurn(LAMBDA acc, val :
                   Finish(addTransition(acc.m.heap, acc.m.vms[vm], val, new(acc).s, mode),
                          LAMBDA r : with(acc, r)),
               [m |-> base, next |-> <<>>], field.vals)

(* acc: mem and the states that the fields so far lead to.                 *)
addFieldTo(acc, state, field, mode) ==
    LET through(m) == [m |-> m, next |-> Append(acc.next, m.s)]
        with(to) == [m |-> to.m, next |-> acc.next \o to.next]
    IN  CASE field.vals[1].vType = "existsTrueType"  -> through(fmAddExists(acc.m, state, field.path, "existsTrue"))
          [] field.vals[1].vType = "existsFalseType" -> through(fmAddExists(acc.m, state, field.path, "existsFalse"))
          [] OTHER -> Finish(fmAddTransition(acc.m, state, field, mode), with)

addField(acc, field, mode) ==
    IF field.vals = <<>> THEN acc
    ELSE InTurn(LAMBDA before, state : addFieldTo(before, state, field, mode),
                  [m |-> acc.m, next |-> <<>>], acc.next)

throughFields(m, start, fields, mode) ==
    InTurn(LAMBDA acc, field : addField(acc, field, mode), [m |-> m, next |-> <<start>>], fields)

addFieldsLocked(m, start, p, mode) ==
    LET addX(all) == [all.m EXCEPT !.fms = [i \in DOMAIN @ |->
            IF i \in ToSet(all.next) THEN [@[i] EXCEPT !.matches = @ \cup {p.x}] ELSE @[i]]]
    IN  Finish(throughFields(m, start, p.fields, mode), addX)

(* What p leaves when the builder of value v + 1 of field f + 1 panics at  *)
(* state number i of those that the fields before lead to: the values of   *)
(* that state's valueMatcher are seen if it was there before.              *)
LeftBy(m, start, p, f, v, mode) ==
    LET field == p.fields[f + 1]
        upTo(i, j) == [field EXCEPT !.vals = SubSeq(@, 1, IF j < i THEN Len(@) ELSE v)]
        at(b, state, i, j) ==
            IF j = i /\ field.path \notin DOMAIN b.fms[state].trans THEN b
            ELSE fmAddTransition(b, state, upTo(i, j), mode).m
    IN  UNION {{InTurn(LAMBDA b, j : at(b, acc.next[j], i, j), acc.m, [j \in 1 .. i |-> j]) :
                i \in DOMAIN acc.next} :
               acc \in {throughFields(m, start, SubSeq(p.fields, 1, f), mode)}}

PathsIn(patterns) == UNION {{f.path : f \in ToSet(p.fields)} : p \in ToSet(patterns)}

isEmptyMatcher == mem.fms[core.state] = NewFieldMatcher

-----------------------------------------------------------------------------
Init ==
    /\ mem = NewMem
    /\ core = [state |-> 1, segmentsTree |-> {}]
    /\ compact = FALSE
    /\ buildMode \in BuildModes
    /\ added = {}
    /\ loaded = {}
    /\ calls = 0

Called == calls < MaxCalls /\ calls' = calls + 1

(* AddPatterns on an empty matcher or on one that it has built, and        *)
(* AddPattern on the latter.  An empty batch has its effect on m.compact.  *)
Compile(batch) ==
    /\ Called
    /\ compact \/ isEmptyMatcher
    /\ compact' = TRUE
    /\ IF batch = <<>> THEN UNCHANGED <<mem, core, added, loaded>>
       ELSE \E built \in {build(mem, batch, buildMode)} :
                /\ mem' = [built EXCEPT !.s = Nil]
                /\ core' = [state |-> built.s, segmentsTree |-> core.segmentsTree \cup PathsIn(batch)]
                /\ added' = added \cup ToSet(batch)
                /\ loaded' = loaded \cup {built.s}
    /\ UNCHANGED buildMode

(* A builder that panics, which addPatterns recovers from: what has been   *)
(* interned and materialized by then stays, the rest is not published.     *)
CompilePanics(batch) ==
    /\ Called
    /\ compact \/ isEmptyMatcher
    /\ compact' = TRUE
    /\ ToSet(batch) \cap TooLarge # {}
    /\ \E root \in {unionWith(mem, batch)} :
           \E n \in NodesUnder(root, {root.s}) :
               mem' = [fieldMatcherFor(root, n, buildMode) EXCEPT !.s = Nil]
    /\ UNCHANGED <<core, added, loaded, buildMode>>

(* AddPattern, and AddPatterns on a matcher that AddPattern has built: the *)
(* Patterns of the batch one after another, each stored by itself.         *)
InPlace(batch) == ~compact /\ (Len(batch) = 1 \/ ~isEmptyMatcher)

EachAdded(batch) ==
    InTurn(LAMBDA m, p : [addFieldsLocked(m, core.state, p, buildMode) EXCEPT !.s = Nil], mem, batch)

Store(batch) ==
    /\ core' = [core EXCEPT !.segmentsTree = @ \cup PathsIn(batch)]
    /\ added' = added \cup ToSet(batch)

(* Mutant: whether a batch was compiled before is not looked at.           *)
AddInPlaceAnyway(batch) ==
    /\ Called
    /\ Len(batch) = 1 \/ ~isEmptyMatcher
    /\ mem' = EachAdded(batch)
    /\ Store(batch)
    /\ UNCHANGED <<compact, loaded, buildMode>>

AddInPlace(batch) ==
    /\ Called /\ InPlace(batch)
    /\ mem' = EachAdded(batch)
    /\ Store(batch)
    /\ UNCHANGED <<compact, loaded, buildMode>>

(* A builder that panics: the Patterns before stay added, and of its own   *)
(* Pattern what had been linked by then; the batch goes no further.        *)
AddInPlacePanics(batch) ==
    /\ Called /\ InPlace(batch)
    /\ \E n \in {k \in DOMAIN batch : batch[k] \in TooLarge} :
           LET before == SubSeq(batch, 1, n - 1)
               fields == batch[n].fields
           IN  /\ \E f \in 0 .. Len(fields) - 1 :
                      /\ \A val \in ToSet(fields[f + 1].vals) :
                             val.vType \notin {"existsTrueType", "existsFalseType"}
                      /\ \E v \in 0 .. Len(fields[f + 1].vals) - 1, base \in {EachAdded(before)} :
                             \E left \in LeftBy(base, core.state, batch[n], f, v, buildMode) :
                                 mem' = [left EXCEPT !.s = Nil]
               /\ Store(before)
    /\ UNCHANGED <<compact, loaded, buildMode>>

Next ==
    \E batch \in Batches :
        Compile(batch) \/ CompilePanics(batch) \/ AddInPlace(batch) \/ AddInPlacePanics(batch)

Spec == Init /\ [][Next]_vars

-----------------------------------------------------------------------------
(* matchesForFields, without array trails.                                 *)
RECURSIVE tryToMatch(_, _, _, _)
checkExistsFalse(m, fields, index, state) ==
    LET absent == {k \in DOMAIN m.fms[state].existsFalse : \A i \in DOMAIN fields : fields[i].path # k}
    IN  UNION {LET to == m.fms[state].existsFalse[k]
               IN  m.fms[to].matches \cup tryToMatch(m, fields, index, to) : k \in absent}

tryToMatch(m, fields, index, state) ==
    LET fm == m.fms[state]
        field == fields[index]
        next == (IF field.path \in DOMAIN fm.existsTrue THEN {fm.existsTrue[field.path]} ELSE {})
                \cup IF field.path \in DOMAIN fm.trans
                     THEN transitionOn(m.heap, m.vms[fm.trans[field.path]], field) ELSE {}
        arrive(to) == m.fms[to].matches
                      \cup UNION {tryToMatch(m, fields, i, to) : i \in index + 1 .. Len(fields)}
                      \cup checkExistsFalse(m, fields, index, to)
    IN  checkExistsFalse(m, fields, index, state) \cup UNION {arrive(to) : to \in next}

emptyFields == <<[path |-> Nil, val |-> NoBytes, isNumber |-> FALSE, time |-> NoTime]>>

(* The flattener hands over the fields that the segments tree mentions.    *)
matchesFor(m, event, state, tree) ==
    LET used == SelectSeq(event, LAMBDA f : f.path \in tree)
        fields == IF used = <<>> THEN emptyFields ELSE used
    IN  UNION {tryToMatch(m, fields, i, state) : i \in DOMAIN fields}

-----------------------------------------------------------------------------
PatternMatches(p, event) ==
    LET conditions == SelectSeq(p.fields, LAMBDA f : f.vals # <<>>)
        at(path) == {event[i] : i \in {j \in DOMAIN event : event[j].path = path}}
        met(f) == CASE f.vals[1].vType = "existsTrueType"  -> at(f.path) # {}
                    [] f.vals[1].vType = "existsFalseType" -> at(f.path) = {}
                    [] OTHER -> \E e \in at(f.path), v \in ToSet(f.vals) : ValueMatches(v, e)
    IN  conditions # <<>> /\ \A i \in DOMAIN conditions : met(conditions[i])

(* A batch gives the same matching results as its Patterns added one by    *)
(* one (quamina.go:142): the X of those that match, whatever was compiled  *)
(* in which order, what was shared and what failed in between.             *)
SameMatchesAsOneByOne ==
    \A e \in Events :
        matchesFor(mem, e, core.state, core.segmentsTree) = {p.x : p \in {q \in added : PatternMatches(q, e)}}

(* What has been materialized is shared and never updated in place         *)
(* (compact_builder.go:30): a reader that holds an earlier start state     *)
(* gets the answers it would have got then.                                *)
PublishedStaysAsItIs ==
    [][\A s \in loaded : \A e \in Events :
           matchesFor(mem', e, s, Paths) = matchesFor(mem, e, s, Paths)]_vars

(* Only what changed is materialized (compact_builder.go:32): a call that  *)
(* adds no Pattern but known ones, or fails, leaves the start state as it  *)
(* is.  Regexps, each with a key of its own, are not recognized.           *)
HasRegexp(p) == \E f \in ToSet(p.fields) : \E v \in ToSet(f.vals) : v.vType = "regexpType"

KnownPatternsKeepTheStart ==
    [][(added' = added /\ \A p \in added : ~HasRegexp(p)) => core'.state = core.state]_vars

(* The builder's references stay within its interners, those of the        *)
(* automaton within the heap.                                              *)
TypeOK ==
    /\ core.state \in DOMAIN mem.fms
    /\ core.segmentsTree \subseteq Paths
    /\ mem.root = Nil \/ mem.fm[mem.root] = core.state
    /\ UNION {Range(mem.nodes[n].trans) : n \in DOMAIN mem.nodes} \subseteq DOMAIN mem.values
    /\ NodesUnder(mem, DOMAIN mem.nodes) = DOMAIN mem.nodes
    /\ DOMAIN mem.fm \subseteq DOMAIN mem.nodes /\ Range(mem.fm) \subseteq DOMAIN mem.fms
    /\ DOMAIN mem.vm \subseteq DOMAIN mem.values /\ Range(mem.vm) \subseteq DOMAIN mem.vms
    /\ Range(mem.states) \subseteq DOMAIN mem.heap

=============================================================================
