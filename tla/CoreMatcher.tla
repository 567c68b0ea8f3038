----------------------------- MODULE CoreMatcher -----------------------------
(***************************************************************************)
(* The automaton of field matchers and value matchers, updated in place by *)
(* AddPattern calls (one at a time, under coreMatcher.lock) while any      *)
(* number of MatchesForEvent calls walk it without a lock.                 *)
(*                                                                         *)
(* fieldMatcher, valueMatcher and coreMatcher each keep their contents in  *)
(* an immutable record behind an atomic pointer.  One action is one load   *)
(* or one store of such a pointer: what happens between two of them is     *)
(* local to the goroutine.  The recursion of tryToMatch is an agenda of    *)
(* pending loops, the innermost first.                                     *)
(***************************************************************************)
EXTENDS Patterns

CONSTANTS
    Writers,    \* AddPattern calls
    Readers,    \* MatchesForEvent calls
    NoWriter    \* the lock is free

ASSUME WriterAssumption == NoWriter \notin Writers

ASSUME LabelAssumption == PVals \cap {"free", "exists", "absent"} = {}

VARIABLES
    core,       \* coreFields: the start state and the paths of segmentsTree
    fms,        \* the fmFields of each fieldMatcher allocated so far
    vms,        \* the vmFields of each valueMatcher allocated so far
    lock,       \* coreMatcher.lock
    writer,     \* per AddPattern call: its program counter and locals
    reader      \* per MatchesForEvent call: its program counter and locals

vars == <<core, fms, vms, lock, writer, reader>>

-----------------------------------------------------------------------------
(* The heap.  A fieldMatcher is its position in fms, a valueMatcher its    *)
(* position in vms; 0 is the nil of a map that has no entry for a path.    *)
(* via is an auxiliary field: the conditions under which the walk reaches  *)
(* the fieldMatcher, and for a valueMatcher those of its owner, with the   *)
(* path it tests.                                                          *)
Nil == 0

Via == [Paths -> PVals \cup {"free", "exists", "absent"}]

Edge == PVals \X Nat

FmFields == [via : Via, trans : [Paths -> Nat], matches : SUBSET Xs,
             exists : [Paths -> Nat], absent : [Paths -> Nat]]

VmFields == [via : Via, path : Paths, singleton : SUBSET Edge,
             start : SUBSET Edge, ranges : SUBSET Edge]

NewFieldMatcher(via) ==
    [via |-> via, matches |-> {}, trans |-> [k \in Paths |-> Nil],
     exists |-> [k \in Paths |-> Nil], absent |-> [k \in Paths |-> Nil]]

NewValueMatcher(via, k) ==
    [via |-> via, path |-> k, singleton |-> {}, start |-> {}, ranges |-> {}]

Root == 1

(* The fieldMatchers a valueMatcher leads to on an event value: those of   *)
(* the singleton if there is one, else of the automaton, and those of the  *)
(* time windows and numeric ranges.                                        *)
Edges(vm) == vm.singleton \cup vm.start \cup vm.ranges

TransitionOn(vm, val) ==
    LET live == (IF vm.singleton # {} THEN vm.singleton ELSE vm.start) \cup vm.ranges
    IN  {e[2] : e \in {d \in live : val \in Accepts[d[1]]}}

-----------------------------------------------------------------------------
(* AddPattern.  The locals of a call: its Pattern, the segmentsTree copy,  *)
(* the path whose field is being added, the states that still have to get  *)
(* it, the states it has led to so far, and, within addTransition, the     *)
(* index of the next value and the valueMatcher it goes to.                *)
IdleWriter ==
    [pc |-> "idle", pattern |-> {}, tree |-> {}, path |-> 0, states |-> <<>>,
     next |-> <<>>, val |-> 1, vm |-> Nil]

Pat(w) == CHOOSE p \in writer[w].pattern : TRUE

(* Where the loops go next: to the following path on which the Pattern     *)
(* puts a condition, with the states reached so far, or to the end states. *)
NextPath(p, k, states) ==
    LET later == {l \in Constrained(p) : l > k}
    IN  IF later = {}
        THEN [pc |-> "ends", path |-> k, states |-> states, next |-> <<>>]
        ELSE [pc |-> "build", path |-> CHOOSE l \in later : \A m \in later : l <= m,
              states |-> states, next |-> <<>>]

(* The next state of the inner loop, which ends when no state is left.     *)
NextState(p, k, states, next) ==
    IF states = <<>> THEN NextPath(p, k, next)
    ELSE [pc |-> "build", path |-> k, states |-> states, next |-> next]

Goto(w, pos) ==
    writer' = [writer EXCEPT ![w] =
        [@ EXCEPT !.pc = pos.pc, !.path = pos.path, !.states = pos.states,
                  !.next = pos.next, !.val = 1, !.vm = Nil]]

(* Mutant: the lock is not waited for.                                     *)
AcquireUnlocked(w) ==
    /\ writer[w].pc = "idle"
    /\ lock' = w
    /\ \E p \in Patterns :
         LET pos == NextPath(p, 0, <<core.state>>)
         IN  writer' = [writer EXCEPT ![w] =
               [IdleWriter EXCEPT !.pc = pos.pc, !.pattern = {p},
                                  !.tree = core.tree \cup PathsOf(p),
                                  !.path = pos.path, !.states = pos.states]]
    /\ UNCHANGED <<core, fms, vms, reader>>

(* The Pattern is parsed and sorted, the lock taken, and the segments tree *)
(* copied and given the paths of the Pattern.                              *)
Acquire(w) ==
    /\ writer[w].pc = "idle"
    /\ lock = NoWriter
    /\ lock' = w
    /\ \E p \in Patterns :
         LET pos == NextPath(p, 0, <<core.state>>)
         IN  writer' = [writer EXCEPT ![w] =
               [IdleWriter EXCEPT !.pc = pos.pc, !.pattern = {p},
                                  !.tree = core.tree \cup PathsOf(p),
                                  !.path = pos.path, !.states = pos.states]]
    /\ UNCHANGED <<core, fms, vms, reader>>

(* Mutant: the entry is stored but the fieldMatcher it leads to is not made. *)
AddExistsDangling(w) ==
    LET me   == writer[w]
        kind == Pat(w).cond[me.path].kind
        s    == Head(me.states)
        to   == Len(fms) + 1
    IN  /\ me.pc = "build"
        /\ kind # "vals"
        /\ fms' = IF kind = "exists"
                  THEN [fms EXCEPT ![s].exists[me.path] = to]
                  ELSE [fms EXCEPT ![s].absent[me.path] = to]
        /\ Goto(w, NextState(Pat(w), me.path, Tail(me.states), Append(me.next, to)))
        /\ UNCHANGED <<core, vms, lock, reader>>

(* addExists: the state gets an exists:true or exists:false transition for *)
(* the path if it has none yet.                                            *)
AddExists(w) ==
    LET me   == writer[w]
        p    == Pat(w)
        k    == me.path
        kind == p.cond[k].kind
        s    == Head(me.states)
        old  == IF kind = "exists" THEN fms[s].exists[k] ELSE fms[s].absent[k]
        to   == IF old # Nil THEN old ELSE Len(fms) + 1
        new  == NewFieldMatcher([fms[s].via EXCEPT ![k] = kind])
    IN  /\ me.pc = "build"
        /\ kind # "vals"
        /\ fms' = IF old # Nil THEN fms
                  ELSE IF kind = "exists" THEN [Append(fms, new) EXCEPT ![s].exists[k] = to]
                  ELSE [Append(fms, new) EXCEPT ![s].absent[k] = to]
        /\ Goto(w, NextState(p, k, Tail(me.states), Append(me.next, to)))
        /\ UNCHANGED <<core, vms, lock, reader>>

(* addTransition of a fieldMatcher, first part: find the valueMatcher of   *)
(* the path or allocate one, which no reader can reach yet.                *)
FindValueMatcher(w) ==
    LET me == writer[w]
        s  == Head(me.states)
        k  == me.path
        old == fms[s].trans[k]
    IN  /\ me.pc = "build"
        /\ Pat(w).cond[k].kind = "vals"
        /\ vms' = IF old # Nil THEN vms
                  ELSE Append(vms, NewValueMatcher(fms[s].via, k))
        /\ writer' = [writer EXCEPT ![w] =
             [@ EXCEPT !.pc = "values", !.val = 1,
                       !.vm = IF old # Nil THEN old ELSE Len(vms) + 1]]
        /\ UNCHANGED <<core, fms, lock, reader>>

(* addTransition of a valueMatcher, by kind of value.  Each branch is one  *)
(* store of the vmFields, which a reader may already be using.             *)
(*  - a time window or numeric range goes to an automaton of its own;      *)
(*  - the first string becomes the singleton;                              *)
(*  - the same string again leads where the singleton leads;               *)
(*  - anything else is merged into the automaton, together with the        *)
(*    singleton if there was one, which is dropped.                        *)
WithRange(vm, pv, to) == [vm EXCEPT !.ranges = @ \cup {<<pv, to>>}]

WithSingleton(vm, pv, to) == [vm EXCEPT !.singleton = {<<pv, to>>}]

(* Mutant: the singleton is dropped and not merged into the automaton.     *)
WithAutomatonOnly(vm, pv, to) ==
    [vm EXCEPT !.start = @ \cup {<<pv, to>>}, !.singleton = {}]

WithAutomaton(vm, pv, to) ==
    [vm EXCEPT !.start = @ \cup vm.singleton \cup {<<pv, to>>}, !.singleton = {}]

Virgin(vm) == vm.start = {} /\ vm.singleton = {}

(* Mutant: any string is taken for the singleton.                          *)
SingletonForAny(vm, pv) == {e[2] : e \in {d \in vm.singleton : pv \in Strings}}

SingletonFor(vm, pv) == {e[2] : e \in {d \in vm.singleton : d[1] = pv /\ pv \in Strings}}

WithValue(vm, pv, to) ==
    CASE pv \in Ranges                  -> WithRange(vm, pv, to)
      [] pv \in Strings /\ Virgin(vm)   -> WithSingleton(vm, pv, to)
      [] OTHER                          -> WithAutomaton(vm, pv, to)

AddValue(w) ==
    LET me  == writer[w]
        k   == me.path
        pv  == Pat(w).cond[k].vals[me.val]
        vm  == vms[me.vm]
        new == [fms[Head(me.states)].via EXCEPT ![k] = pv]
    IN  /\ me.pc = "values"
        /\ me.val <= Len(Pat(w).cond[k].vals)
        /\ \/ \E to \in SingletonFor(vm, pv) :
                /\ writer' = [writer EXCEPT ![w].next = Append(@, to), ![w].val = @ + 1]
                /\ UNCHANGED <<fms, vms>>
           \/ /\ SingletonFor(vm, pv) = {}
              /\ fms' = Append(fms, NewFieldMatcher(new))
              /\ vms' = [vms EXCEPT ![me.vm] = WithValue(vm, pv, Len(fms) + 1)]
              /\ writer' = [writer EXCEPT ![w].next = Append(@, Len(fms) + 1),
                                          ![w].val = @ + 1]
        /\ UNCHANGED <<core, lock, reader>>

(* Mutant: the transitions of the other paths are not copied.              *)
PublishOnlyTransition(w) ==
    LET me == writer[w]
        k  == me.path
    IN  /\ me.pc = "values"
        /\ me.val > Len(Pat(w).cond[k].vals)
        /\ fms' = [fms EXCEPT ![Head(me.states)].trans =
                      [l \in Paths |-> IF l = k THEN me.vm ELSE Nil]]
        /\ Goto(w, NextState(Pat(w), k, Tail(me.states), me.next))
        /\ UNCHANGED <<core, vms, lock, reader>>

(* addTransition of a fieldMatcher, last part: every value is in, store    *)
(* the transitions map that has the valueMatcher.                          *)
PublishTransition(w) ==
    LET me == writer[w]
        k  == me.path
    IN  /\ me.pc = "values"
        /\ me.val > Len(Pat(w).cond[k].vals)
        /\ fms' = [fms EXCEPT ![Head(me.states)].trans[k] = me.vm]
        /\ Goto(w, NextState(Pat(w), k, Tail(me.states), me.next))
        /\ UNCHANGED <<core, vms, lock, reader>>

(* Mutant: the lock is released on the normal path only.                   *)
PanicLocked(w) ==
    /\ writer[w].pc = "values"
    /\ writer[w].val <= Len(Pat(w).cond[writer[w].path].vals)
    /\ writer' = [writer EXCEPT ![w].pc = "failed"]
    /\ UNCHANGED <<core, fms, vms, lock, reader>>

(* Building an automaton may panic; addPatternWithPrinter recovers, the    *)
(* lock is released, and what is stored so far stays.                      *)
Panic(w) ==
    /\ writer[w].pc = "values"
    /\ writer[w].val <= Len(Pat(w).cond[writer[w].path].vals)
    /\ lock' = NoWriter
    /\ writer' = [writer EXCEPT ![w].pc = "failed"]
    /\ UNCHANGED <<core, fms, vms, reader>>

(* addMatch on one of the end states.                                      *)
AddMatch(w) ==
    /\ writer[w].pc = "ends"
    /\ writer[w].states # <<>>
    /\ fms' = [fms EXCEPT ![Head(writer[w].states)].matches = @ \cup {Pat(w).x}]
    /\ writer' = [writer EXCEPT ![w].states = Tail(@)]
    /\ UNCHANGED <<core, vms, lock, reader>>

(* m.updateable.Store(freshStart): only now do readers see the new tree.   *)
StoreCore(w) ==
    /\ writer[w].pc = "ends"
    /\ writer[w].states = <<>>
    /\ core' = [core EXCEPT !.tree = writer[w].tree]
    /\ writer' = [writer EXCEPT ![w].pc = "stored"]
    /\ UNCHANGED <<fms, vms, lock, reader>>

(* The deferred Unlock, and AddPattern returns.                            *)
Unlock(w) ==
    /\ writer[w].pc = "stored"
    /\ lock' = NoWriter
    /\ writer' = [writer EXCEPT ![w].pc = "done"]
    /\ UNCHANGED <<core, fms, vms, reader>>

WriterStep(w) ==
    \/ Acquire(w) \/ AddExists(w) \/ FindValueMatcher(w) \/ AddValue(w)
    \/ PublishTransition(w) \/ Panic(w) \/ AddMatch(w) \/ StoreCore(w) \/ Unlock(w)

-----------------------------------------------------------------------------
(* MatchesForEvent.  The locals of a call: the event, the indexes of the   *)
(* fields the flattener kept, the agenda and the X found so far.  Two      *)
(* histories are kept of the start of the call: must, the Patterns whose   *)
(* AddPattern had returned, and prior, what the calls for the same event   *)
(* that had returned by then reported.                                     *)
IdleReader ==
    [pc |-> "idle", event |-> <<>>, kept |-> {}, agenda |-> <<>>,
     found |-> {}, must |-> {}, prior |-> {}]

FakeIndex == 0

Committed == UNION {writer[w].pattern : w \in {v \in Writers : writer[v].pc = "done"}}

ReportedFor(e) ==
    UNION {reader[r].found : r \in {q \in Readers : /\ reader[q].pc = "done"
                                                   /\ reader[q].event = e}}

(* Mutant: no emptyFields.                                                 *)
FlattenOnly(e, tree) == {i \in DOMAIN e : e[i].path \in tree}

(* The flattener drops the fields the segments tree does not mention; if   *)
(* none is left, emptyFields stands in with a path above all others.       *)
Flatten(e, tree) ==
    LET used == {i \in DOMAIN e : e[i].path \in tree}
    IN  IF used = {} THEN {FakeIndex} ELSE used

PathAt(r, i) == IF i = FakeIndex THEN Nil ELSE reader[r].event[i].path

HasPath(r, k) == \E i \in reader[r].kept : PathAt(r, i) = k

(* Mutant: array trails are not looked at.                                 *)
LaterAnywhere(r, i) == {j \in reader[r].kept : j > i}

(* for nextIndex := index + 1 ... if noArrayTrailConflict(...)             *)
Later(r, i) ==
    {j \in reader[r].kept :
        /\ j > i
        /\ NoArrayTrailConflict(reader[r].event[i].trail, reader[r].event[j].trail)}

(* The pending loops.  at: the field indexes, to: the matchers still to be *)
(* visited; a loop with nothing left is not kept.                          *)
(*   try     tryToMatch(fields, i, state) for each i of at, in order       *)
(*   exists  the exists:true transition just taken on field at             *)
(*   recheck checkExistsFalse(existsTrans.fields()) after it               *)
(*   absent  the range over existsFalse of a loaded record                 *)
(*   trans   state.transitionOn: load the transitions of the state         *)
(*   values  valMatcher.transitionOn: load the vmFields                    *)
(*   next    the range over nextStates                                     *)
Ops == {"try", "exists", "recheck", "absent", "trans", "values", "next"}

Loop(op, at, to) ==
    IF at = {} \/ to = {} THEN <<>> ELSE <<[op |-> op, at |-> at, to |-> to]>>

(* Mutant: exists:false transitions are taken whatever the event has.      *)
AbsentTargetsAll(r, sf) == {sf.absent[k] : k \in {l \in Paths : sf.absent[l] # Nil}}

(* checkExistsFalse: the exists:false transitions of a loaded record whose *)
(* path no field of the event has.                                         *)
AbsentTargets(r, sf) ==
    {sf.absent[k] : k \in {l \in Paths : sf.absent[l] # Nil /\ ~HasPath(r, l)}}

ExistsTargets(r, i, sf) ==
    {sf.exists[k] : k \in {l \in Paths : l = PathAt(r, i) /\ sf.exists[l] # Nil}}

Top(r) == Head(reader[r].agenda)

(* Replace the innermost loop by more, and report xs.                      *)
Continue(r, more, xs) ==
    /\ reader' = [reader EXCEPT ![r].agenda = more \o Tail(@),
                                ![r].found = @ \cup xs]
    /\ UNCHANGED <<core, fms, vms, lock, writer>>

AtTop(r, op) ==
    /\ reader[r].pc = "match"
    /\ reader[r].agenda # <<>>
    /\ Top(r).op = op

(* MatchesForEvent first flattens, with the tree it loads here.            *)
BeginMatch(r) ==
    /\ reader[r].pc = "idle"
    /\ \E e \in Events :
         reader' = [reader EXCEPT ![r] =
             [IdleReader EXCEPT !.pc = "flat", !.event = e,
                                !.kept = Flatten(e, core.tree), !.must = Committed,
                                !.prior = ReportedFor(e)]]
    /\ UNCHANGED <<core, fms, vms, lock, writer>>

(* matchesForFields loads coreFields a second time, for the start state,   *)
(* and tries every field from there.                                       *)
Launch(r) ==
    /\ reader[r].pc = "flat"
    /\ reader' = [reader EXCEPT ![r].pc = "match",
                    ![r].agenda = Loop("try", reader[r].kept, {core.state})]
    /\ UNCHANGED <<core, fms, vms, lock, writer>>

(* Mutant: the loop over the fields does not advance.                      *)
TryToMatchAgain(r) ==
    /\ AtTop(r, "try")
    /\ \E i \in Top(r).at, s \in Top(r).to :
         /\ \A j \in Top(r).at : i <= j
         /\ Continue(r, Loop("exists", {i}, ExistsTargets(r, i, fms[s]))
                        \o Loop("absent", {i}, AbsentTargets(r, fms[s]))
                        \o Loop("trans", {i}, {s})
                        \o Loop("try", Top(r).at, {s}), {})

(* tryToMatch on the lowest index: stateFields := state.fields().          *)
TryToMatch(r) ==
    /\ AtTop(r, "try")
    /\ \E i \in Top(r).at, s \in Top(r).to :
         /\ \A j \in Top(r).at : i <= j
         /\ Continue(r, Loop("exists", {i}, ExistsTargets(r, i, fms[s]))
                        \o Loop("absent", {i}, AbsentTargets(r, fms[s]))
                        \o Loop("trans", {i}, {s})
                        \o Loop("try", Top(r).at \ {i}, {s}), {})

(* existsTrans.fields().matches, then the later fields, then a second load *)
(* of existsTrans for checkExistsFalse.                                    *)
TakeExists(r) ==
    /\ AtTop(r, "exists")
    /\ \E i \in Top(r).at, t \in Top(r).to :
         Continue(r, Loop("try", Later(r, i), {t}) \o Loop("recheck", {i}, {t}),
                  fms[t].matches)

RecheckAbsent(r) ==
    /\ AtTop(r, "recheck")
    /\ \E i \in Top(r).at, t \in Top(r).to :
         Continue(r, Loop("absent", {i}, AbsentTargets(r, fms[t])), {})

(* One exists:false transition, in any order: its matches, then the same   *)
(* field tried on the state it leads to.                                   *)
TakeAbsent(r) ==
    /\ AtTop(r, "absent")
    /\ \E i \in Top(r).at, t \in Top(r).to :
         Continue(r, Loop("try", {i}, {t}) \o Loop("absent", {i}, Top(r).to \ {t}),
                  fms[t].matches)

(* fieldMatcher.transitionOn: a second load of the same state.             *)
LoadTransitions(r) ==
    /\ AtTop(r, "trans")
    /\ \E i \in Top(r).at, s \in Top(r).to :
         LET vm == {fms[s].trans[k] : k \in {l \in Paths : l = PathAt(r, i)}}
         IN  Continue(r, Loop("values", {i}, vm \ {Nil}), {})

(* valueMatcher.transitionOn: one load of the vmFields.                    *)
LoadValues(r) ==
    /\ AtTop(r, "values")
    /\ \E i \in Top(r).at, v \in Top(r).to :
         Continue(r, Loop("next", {i}, TransitionOn(vms[v], reader[r].event[i].val)), {})

(* nextStateFields := nextState.fields(): its matches, the later fields,   *)
(* then its exists:false transitions as loaded here.                       *)
TakeNext(r) ==
    /\ AtTop(r, "next")
    /\ \E i \in Top(r).at, t \in Top(r).to :
         Continue(r, Loop("try", Later(r, i), {t})
                     \o Loop("absent", {i}, AbsentTargets(r, fms[t]))
                     \o Loop("next", {i}, Top(r).to \ {t}),
                  fms[t].matches)

(* matchSet.matchesInto: the call returns what was found.                  *)
Return(r) ==
    /\ reader[r].pc = "match"
    /\ reader[r].agenda = <<>>
    /\ reader' = [reader EXCEPT ![r].pc = "done"]
    /\ UNCHANGED <<core, fms, vms, lock, writer>>

ReaderStep(r) ==
    \/ BeginMatch(r) \/ Launch(r) \/ TryToMatch(r) \/ TakeExists(r)
    \/ RecheckAbsent(r) \/ TakeAbsent(r) \/ LoadTransitions(r)
    \/ LoadValues(r) \/ TakeNext(r) \/ Return(r)

-----------------------------------------------------------------------------
Init ==
    /\ core = [state |-> Root, tree |-> {}]
    /\ fms = <<NewFieldMatcher([k \in Paths |-> "free"])>>
    /\ vms = <<>>
    /\ lock = NoWriter
    /\ writer = [w \in Writers |-> IdleWriter]
    /\ reader = [r \in Readers |-> IdleReader]

Next ==
    \/ \E w \in Writers : WriterStep(w)
    \/ \E r \in Readers : ReaderStep(r)

Spec == Init /\ [][Next]_vars

(* Goroutines are scheduled fairly, and sync.Mutex hands the lock to every *)
(* waiter in the end (its starvation mode): weak fairness of every step of *)
(* a call, strong fairness of taking the lock.                             *)
FairSpec ==
    /\ Spec
    /\ \A w \in Writers : WF_vars(WriterStep(w)) /\ SF_vars(Acquire(w))
    /\ \A r \in Readers : WF_vars(ReaderStep(r))

-----------------------------------------------------------------------------
(* Every pointer leads to an allocated matcher and every local of a call   *)
(* is of its type; in particular no walk can follow an entry that is not   *)
(* there yet.                                                              *)
FmOK(f) ==
    \A k \in Paths : /\ f.trans[k] \in 0..Len(vms)
                     /\ f.exists[k] \in 0..Len(fms)
                     /\ f.absent[k] \in 0..Len(fms)

VmOK(v) == \A e \in Edges(v) : e[2] \in 1..Len(fms)

WriterLocals ==
    [pc : {"idle", "build", "values", "ends", "stored", "done", "failed"},
     pattern : SUBSET Patterns, tree : SUBSET Paths, path : Paths \cup {0},
     states : Seq(1..Len(fms)), next : Seq(1..Len(fms)),
     val : Nat \ {0}, vm : 0..Len(vms)]

Frames(kept) ==
    {f \in [op : Ops, at : SUBSET kept, to : SUBSET Nat] :
        f.to \subseteq IF f.op = "values" THEN 1..Len(vms) ELSE 1..Len(fms)}

ReaderLocals ==
    [pc : {"idle", "flat", "match", "done"}, event : Events \cup {<<>>},
     kept : SUBSET Nat, agenda : Seq([op : Ops, at : SUBSET Nat, to : SUBSET Nat]),
     found : SUBSET Xs, must : SUBSET Patterns, prior : SUBSET Xs]

HeapOK ==
    /\ core \in [state : 1..Len(fms), tree : SUBSET Paths]
    /\ fms \in Seq(FmFields) /\ \A n \in 1..Len(fms) : FmOK(fms[n])
    /\ vms \in Seq(VmFields) /\ \A n \in 1..Len(vms) : VmOK(vms[n])

AgendaOK(r) == reader[r].agenda \in Seq(Frames(reader[r].kept))

TypeOK ==
    /\ HeapOK
    /\ lock \in Writers \cup {NoWriter}
    /\ writer \in [Writers -> WriterLocals]
    /\ reader \in [Readers -> ReaderLocals]
    /\ \A r \in Readers : AgendaOK(r)

(* An AddPattern call that is building holds the lock, so no two calls     *)
(* copy and replace the same record at once.                               *)
Building == {"build", "values", "ends", "stored"}

OneBuilder == \A w \in Writers : writer[w].pc \in Building <=> lock = w

(* The Patterns whose X a walk may meet: a call that panicked leaves       *)
(* states behind but no X.                                                 *)
Live == UNION {writer[w].pattern : w \in {v \in Writers : writer[v].pc # "failed"}}

(* The conditions via are one choice of values for the Pattern p, for      *)
(* every path.                                                             *)
ChoosesAt(via, p, k) ==
    IF k \notin Constrained(p) THEN via[k] = "free"
    ELSE IF p.cond[k].kind = "vals" THEN via[k] \in PValsOf(p, k)
    ELSE via[k] = p.cond[k].kind

Chooses(via, p) == \A k \in Paths : ChoosesAt(via, p, k)

(* An X sits only where the walk has checked every condition of one of its *)
(* Patterns and no other, whatever states were shared or split on the way  *)
(* (fieldMatcher.addTransition's comment on unique next states).           *)
EndStatesJustified ==
    \A n \in DOMAIN fms : \A x \in fms[n].matches :
        \E p \in Live : p.x = x /\ Chooses(fms[n].via, p)

(* The conditions of p, each looked at alone, hold of the flattened fields *)
(* of the call r.                                                          *)
MeetsConditions(p, r) ==
    \A k \in Constrained(p) :
        IF p.cond[k].kind = "absent" THEN ~HasPath(r, k)
        ELSE \E i \in reader[r].kept \ {FakeIndex} : Fulfils(p, k, reader[r].event[i])

(* While it runs, a match call has found no X but those of Patterns every  *)
(* condition of which holds of the fields it was given -- also when the    *)
(* automaton changes under it between two loads.                           *)
FoundMeetsConditions ==
    \A r \in Readers : \A x \in reader[r].found :
        \E p \in Live : p.x = x /\ MeetsConditions(p, r)

(* A match call reports no X whose Pattern does not match the Event it was *)
(* given: the chosen fields fit together in the arrays, and the paths that *)
(* must be absent are, for a Pattern added before the call began.          *)
ReportedMatches ==
    \A r \in Readers : \A x \in reader[r].found :
        \E p \in Live :
            /\ p.x = x
            /\ WantedMet(p, reader[r].event)
            /\ p \in reader[r].must => AbsentMet(p, reader[r].event)

(* A match call reports every Pattern that was in before it began and      *)
(* matches, even though other AddPattern calls replace singletons by       *)
(* automata and extend the states while it walks them.                     *)
NoneMissed ==
    \A r \in Readers : reader[r].pc = "done" =>
        \A p \in reader[r].must :
            Matches(p, reader[r].event) => p.x \in reader[r].found

(* Once a match call has reported a Pattern that matches, every later call *)
(* for the same Event reports it: the automaton never goes back and forth  *)
(* between two states of knowledge, even in the middle of an AddPattern.   *)
NoSecondThoughts ==
    \A r \in Readers : reader[r].pc = "done" =>
        \A x \in reader[r].prior :
            (\A p \in Live : p.x = x => Matches(p, reader[r].event))
                => x \in reader[r].found

(* What a step leaves of the entries, the edges and the paths.             *)
Keeps(old, new) == \A k \in Paths : old[k] # Nil => new[k] = old[k]

Retained ==
    /\ \A n \in 1..Len(fms) :
         /\ fms[n].matches \subseteq fms'[n].matches
         /\ Keeps(fms[n].trans, fms'[n].trans)
         /\ Keeps(fms[n].exists, fms'[n].exists)
         /\ Keeps(fms[n].absent, fms'[n].absent)
    /\ \A n \in 1..Len(vms) : \A val \in Values :
         TransitionOn(vms[n], val) \subseteq TransitionOn(vms'[n], val)
    /\ core.tree \subseteq core'.tree

(* A store of one of the atomic pointers never takes back a transition or  *)
(* an X that a walk in progress may rely on.                               *)
NothingRetracted == [][Retained]_vars

(* Every AddPattern call returns or fails, and every match call returns,   *)
(* whatever the others do: the lock is released on a panic too, and a walk *)
(* does not chase a growing automaton for ever.                            *)
EveryAddEnds == \A w \in Writers : <>(writer[w].pc \in {"done", "failed"})

EveryMatchReturns == \A r \in Readers : (reader[r].pc = "flat") ~> (reader[r].pc = "done")

(* CoreMatcher implements the promise of PatternStore: the Pattern an      *)
(* AddPattern call holds, and the result a match call returned.            *)
AddState ==
    [idle |-> "idle", build |-> "adding", values |-> "adding", ends |-> "adding",
     stored |-> "adding", done |-> "added", failed |-> "failed"]

CallState == [idle |-> "idle", flat |-> "matching", match |-> "matching", done |-> "returned"]

Store == INSTANCE PatternStore WITH
    adds <- [w \in Writers |-> AddState[writer[w].pc]],
    adding <- [w \in Writers |-> writer[w].pattern],
    calls <- [r \in Readers |->
        [state |-> CallState[reader[r].pc], event |-> reader[r].event,
         must |-> reader[r].must,
         result |-> IF reader[r].pc = "done" THEN reader[r].found ELSE {}]]

ImplementsStore == Store!StoreSpec

(* What README.md says of concurrent use, with no exception for            *)
(* exists:false: every X a match call returns is that of a Pattern which   *)
(* matches the Event.                                                      *)
ReturnedMatchesEvent ==
    \A r \in Readers : reader[r].pc = "done" =>
        \A x \in reader[r].found :
            \E p \in Live : p.x = x /\ Matches(p, reader[r].event)
=============================================================================
