------------------------------ MODULE Flattener ------------------------------
(***************************************************************************)
(* flattenJSON: one pass over an Event that yields the leaf values whose   *)
(* paths occur in the Patterns, each with its path and its array trail,    *)
(* and that stops as early as it can.                                      *)
(*                                                                         *)
(* An Event is a JSON value already split into tokens:                     *)
(*   [kind |-> "leaf"]                    a string, number or literal      *)
(*   [kind |-> "object", names, values]   its members in textual order     *)
(*   [kind |-> "array", values]           its elements in order            *)
(* The recursion of readObject and readArray is a stack of frames, and one *)
(* action is one member or one element.                                    *)
(***************************************************************************)
EXTENDS SegmentsTree

CONSTANTS
    Names,      \* of members, as numbers in the order of the texts
    Json,       \* the values that occur in the Events
    Events,     \* the JSON objects to flatten
    Trees       \* the segments trees to flatten them with

(* A value has its parts in Json too, and an object no two members of one  *)
(* name.                                                                   *)
ASSUME JsonAssumption ==
    /\ Names \subseteq Int
    /\ Events \subseteq {v \in Json : v.kind = "object"}
    /\ \A v \in Json :
         \/ v.kind = "leaf"
         \/ v.kind = "array" /\ v.values \in Seq(Json)
         \/ /\ v.kind = "object" /\ v.values \in Seq(Json) /\ v.names \in Seq(Names)
            /\ Len(v.names) = Len(v.values)
            /\ \A i, j \in DOMAIN v.names : v.names[i] = v.names[j] => i = j

ASSUME TreesAssumption ==
    \A t \in Trees : IsFiniteSet(t) /\ t \subseteq Seq(Names) \ {NoPath}

VARIABLES
    event,
    tree,
    stack,      \* the readObject and readArray calls in progress, innermost first
    trail,      \* flattenJSON.arrayTrail
    arrays,     \* flattenJSON.arrayCount
    opened,     \* the place of each array, by its number; auxiliary
    fields,     \* flattenJSON.fields
    status      \* "reading", "stopped" (errEarlyStop) or "ended"

vars == <<event, tree, stack, trail, arrays, opened, fields, status>>

-----------------------------------------------------------------------------
(* A place in the event is the sequence of steps that leads to it: by the  *)
(* name of a member or the number of an element, with the names so far.    *)
(* It is auxiliary, as at in frames and fields.                            *)
NamesTo(at) == IF at = <<>> THEN <<>> ELSE at[Len(at)].names

Key(v, n) == IF v.kind = "object" THEN v.names[n] ELSE n

StepTo(v, at, n) ==
    [in |-> v.kind, key |-> Key(v, n),
     names |-> IF v.kind = "object" THEN Append(NamesTo(at), v.names[n]) ELSE NamesTo(at)]

Frame(kind, value, at, node, path) ==
    [kind |-> kind, value |-> value, at |-> at, node |-> node, path |-> path,
     next |-> 1, trail |-> trail,
     nodesCount |-> NodesCount(tree, node), fieldsCount |-> FieldsCount(tree, node)]

Top == Head(stack)
Here == Append(Top.at, StepTo(Top.value, Top.at, Top.next))
Value == Top.value.values[Top.next]
AtEnd == Top.next > Len(Top.value.values)

Reading(kind) == status = "reading" /\ stack # <<>> /\ Top.kind = kind

Advanced == [Top EXCEPT !.next = @ + 1]

Enclose(frame, inner) == <<inner, frame>> \o Tail(stack)
Proceed(frame) == <<frame>> \o Tail(stack)

Field(path, trl) == [path |-> path, trail |-> trl, at |-> Here]

-----------------------------------------------------------------------------
(* readObject.  The counts are looked at before every member: once every   *)
(* field and node of the tree node has been met the rest of the object is  *)
(* skipped, or, in the root, the rest of the event.                        *)
(* Mutant of AllMet: the nodes are forgotten.                              *)
FieldsMet == Top.fieldsCount = 0

AllMet == Top.nodesCount = 0 /\ Top.fieldsCount = 0

EarlyStop ==
    /\ Reading("object") /\ AllMet
    /\ IsRoot(Top.node)
    /\ status' = "stopped"
    /\ UNCHANGED <<event, tree, stack, trail, arrays, opened, fields>>

LeaveObject ==
    /\ Reading("object")
    /\ \/ AllMet /\ ~IsRoot(Top.node)
       \/ ~AllMet /\ AtEnd
    /\ stack' = Tail(stack)
    /\ UNCHANGED <<event, tree, trail, arrays, opened, fields, status>>

Member(kind) ==
    /\ Reading("object") /\ ~AllMet /\ ~AtEnd
    /\ Value.kind = kind

Name == Top.value.names[Top.next]
Used == IsSegmentUsed(tree, Top.node, Name)

(* Mutant of SkipMember: nothing is stepped over.                          *)
SkipMemberStuck ==
    /\ \/ \E kind \in {"leaf", "array"} : Member(kind) /\ ~Used
       \/ Member("object") /\ ~HasNode(tree, Top.node, Name)
    /\ UNCHANGED vars

(* A member that no Pattern mentions is skipped; so is an object where the *)
(* Patterns have a leaf only.                                              *)
SkipMember ==
    /\ \/ \E kind \in {"leaf", "array"} : Member(kind) /\ ~Used
       \/ Member("object") /\ ~HasNode(tree, Top.node, Name)
    /\ stack' = Proceed(Advanced)
    /\ UNCHANGED <<event, tree, trail, arrays, opened, fields, status>>

(* A leaf is stored under the path of its segment -- the nil path if the   *)
(* Patterns have only a node there -- with the trail of the object.        *)
LeafMember ==
    /\ Member("leaf") /\ Used
    /\ fields' = Append(fields, Field(PathForSegment(tree, Top.node, Name), Top.trail))
    /\ stack' = Proceed([Advanced EXCEPT !.fieldsCount = @ - 1])
    /\ UNCHANGED <<event, tree, trail, arrays, opened, status>>

ObjectMember ==
    /\ Member("object") /\ HasNode(tree, Top.node, Name)
    /\ stack' = Enclose([Advanced EXCEPT !.nodesCount = @ - 1],
                        Frame("object", Value, Here, Get(Top.node, Name), NoPath))
    /\ UNCHANGED <<event, tree, trail, arrays, opened, fields, status>>

(* An array is read with the tree node of its segment, or, where the       *)
(* Patterns have a leaf only, with the node of the object it is in.        *)
ArrayNode ==
    IF HasNode(tree, Top.node, Name) THEN Get(Top.node, Name) ELSE Top.node

ArrayMember ==
    /\ Member("array") /\ Used
    /\ stack' = Enclose(Advanced, Frame("array", Value, Here, ArrayNode,
                                        PathForSegment(tree, Top.node, Name)))
    /\ arrays' = arrays + 1 /\ opened' = Append(opened, Here)
    /\ trail' = Append(trail, <<arrays + 1, 0>>)
    /\ UNCHANGED <<event, tree, fields, status>>

-----------------------------------------------------------------------------
(* readArray.  Every element steps the position in the array.              *)
Stepped == [trail EXCEPT ![Len(trail)][2] = @ + 1]

Element(kind) == Reading("array") /\ ~AtEnd /\ Value.kind = kind

(* Mutant of LeafElement: only the innermost array is remembered.          *)
LeafElementInnermost ==
    /\ Element("leaf")
    /\ trail' = Stepped
    /\ fields' = Append(fields, Field(Top.path, <<Stepped[Len(trail)]>>))
    /\ stack' = Proceed(Advanced)
    /\ UNCHANGED <<event, tree, arrays, opened, status>>

LeafElement ==
    /\ Element("leaf")
    /\ trail' = Stepped
    /\ fields' = Append(fields, Field(Top.path, Stepped))
    /\ stack' = Proceed(Advanced)
    /\ UNCHANGED <<event, tree, arrays, opened, status>>

(* Mutant of ObjectElement: the object keeps the trail from before the step. *)
ObjectElementUnstepped ==
    /\ Element("object")
    /\ trail' = Stepped
    /\ stack' = Enclose(Advanced, Frame("object", Value, Here, Top.node, NoPath))
    /\ UNCHANGED <<event, tree, arrays, opened, fields, status>>

ObjectElement ==
    /\ Element("object")
    /\ trail' = Stepped
    /\ stack' = Enclose(Advanced,
          [Frame("object", Value, Here, Top.node, NoPath) EXCEPT !.trail = Stepped])
    /\ UNCHANGED <<event, tree, arrays, opened, fields, status>>

ArrayElement ==
    /\ Element("array")
    /\ arrays' = arrays + 1 /\ opened' = Append(opened, Here)
    /\ trail' = Append(Stepped, <<arrays + 1, 0>>)
    /\ stack' = Enclose(Advanced,
          [Frame("array", Value, Here, Top.node, Top.path) EXCEPT !.trail = Stepped])
    /\ UNCHANGED <<event, tree, fields, status>>

(* Mutant of LeaveArray: the trail still holds the array that was left.    *)
LeaveArrayKept ==
    /\ Reading("array") /\ AtEnd
    /\ stack' = Tail(stack)
    /\ UNCHANGED <<event, tree, trail, arrays, opened, fields, status>>

LeaveArray ==
    /\ Reading("array") /\ AtEnd
    /\ stack' = Tail(stack)
    /\ trail' = SubSeq(trail, 1, Len(trail) - 1)
    /\ UNCHANGED <<event, tree, arrays, opened, fields, status>>

(* The top-level object has been read to its end.                          *)
End ==
    /\ status = "reading" /\ stack = <<>>
    /\ status' = "ended"
    /\ UNCHANGED <<event, tree, stack, trail, arrays, opened, fields>>

-----------------------------------------------------------------------------
Init ==
    /\ event \in Events /\ tree \in Trees
    /\ trail = <<>> /\ arrays = 0 /\ opened = <<>> /\ fields = <<>> /\ status = "reading"
    /\ stack = <<[kind |-> "object", value |-> event, at |-> <<>>, node |-> <<>>,
                  path |-> NoPath, next |-> 1, trail |-> <<>>,
                  nodesCount |-> NodesCount(tree, <<>>),
                  fieldsCount |-> FieldsCount(tree, <<>>)]>>

Next ==
    \/ EarlyStop \/ LeaveObject \/ SkipMember \/ LeafMember \/ ObjectMember
    \/ ArrayMember \/ LeafElement \/ ObjectElement \/ ArrayElement
    \/ LeaveArray \/ End

Spec == Init /\ [][Next]_vars /\ WF_vars(Next)

-----------------------------------------------------------------------------
(* Two places lie in different elements of one array.                      *)
Apart(p, q) ==
    \E n \in DOMAIN p \cap DOMAIN q :
        /\ \A k \in 1..n - 1 : p[k] = q[k]
        /\ p[n].in = "array" /\ q[n].in = "array" /\ p[n].key # q[n].key

Conflict(from, to) ==
    \E i \in DOMAIN from, j \in DOMAIN to :
        from[i][1] = to[j][1] /\ from[i][2] # to[j][2]

TypeOK ==
    /\ status \in {"reading", "stopped", "ended"}
    /\ \A n \in DOMAIN stack : /\ stack[n].next \in 1..Len(stack[n].value.values) + 1
                               /\ stack[n].nodesCount \in Nat
                               /\ stack[n].fieldsCount \in Int
    /\ Len(trail) <= Len(stack)
    /\ \A n \in DOMAIN trail : trail[n][1] \in 1..arrays /\ trail[n][2] \in Nat
    /\ \A n \in DOMAIN fields : fields[n].path \in tree \cup {NoPath}

Stored == {n \in DOMAIN fields : fields[n].path # NoPath}

(* The trails of two fields conflict just when the fields are in different *)
(* elements of one array of the event.                                     *)
TrailsTellElementsApart ==
    \A m, n \in DOMAIN fields :
        Conflict(fields[m].trail, fields[n].trail) <=> Apart(fields[m].at, fields[n].at)

(* tryToMatch compares the trails of consecutive fields of a match only:   *)
(* for fields in path order that is as good as comparing all pairs, if     *)
(* their paths are those of their places.                                  *)
Below(p, q) ==
    \E n \in 1..Len(q) :
        /\ n - 1 <= Len(p) /\ SubSeq(p, 1, n - 1) = SubSeq(q, 1, n - 1)
        /\ n <= Len(p) => p[n] < q[n]

InPlace(f) == f.path = NamesTo(f.at)

ConsecutiveTrailsSuffice ==
    \A l, m, n \in {k \in Stored : InPlace(fields[k])} :
        (/\ Below(fields[l].path, fields[m].path) /\ Below(fields[m].path, fields[n].path)
         /\ ~Conflict(fields[l].trail, fields[m].trail)
         /\ ~Conflict(fields[m].trail, fields[n].trail))
            => ~Conflict(fields[l].trail, fields[n].trail)

(* Flatten comes to an end.                                                *)
FlattenEnds == <>(status # "reading")
=============================================================================
