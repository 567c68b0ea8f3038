---------------------------- MODULE MCFlattener ----------------------------
(* Events up to four levels deep over the names 1, 2 and 3, and segments   *)
(* trees of one to three paths, in which a segment may be a leaf, a node,  *)
(* or both.                                                                *)
EXTENDS FlattenerLeaves

Leaf == [kind |-> "leaf"]
Obj(ns, vs) == [kind |-> "object", names |-> ns, values |-> vs]
Arr(vs) == [kind |-> "array", values |-> vs]

(* Objects over a set of values: one member, or two in either order.       *)
Objects(vs) ==
    {Obj(<<n>>, <<v>>) : n \in {1, 2}, v \in vs}
    \cup {Obj(<<n, 3 - n>>, <<u, v>>) : n \in {1, 2}, u \in vs, v \in vs}
    \cup {Obj(<<>>, <<>>)}

Arrays(vs) ==
    {Arr(<<>>)} \cup {Arr(<<v>>) : v \in vs} \cup {Arr(<<u, v>>) : u \in vs, v \in vs}

Flat == {Leaf, Arr(<<Leaf, Leaf>>), Obj(<<1, 2>>, <<Leaf, Leaf>>), Obj(<<2>>, <<Leaf>>)}

Nested ==
    Flat \cup Arrays(Flat \ {Arr(<<Leaf, Leaf>>)})
    \cup {Arr(<<Arr(<<Leaf>>), Leaf>>), Obj(<<1>>, <<Arr(<<Leaf, Obj(<<2>>, <<Leaf>>)>>)>>),
          Arr(<<Obj(<<1>>, <<Leaf>>), Obj(<<2, 3>>, <<Arr(<<Leaf, Leaf>>), Leaf>>)>>)}

MCEvents ==
    Objects(Nested) \cup {Obj(<<3, 1, 2>>, <<Leaf, u, v>>) : u \in Flat, v \in Flat}

Paths == {<<1>>, <<2>>, <<1, 1>>, <<1, 2>>, <<1, 3>>, <<1, 1, 2>>}

MCTrees == {t \in SUBSET Paths : Cardinality(t) \in 1..3}

FewEvents == Objects({Leaf, Arr(<<Obj(<<2>>, <<Leaf>>)>>)})
FewTrees == {{<<1>>}, {<<1>>, <<2>>}}

(* Every value in them.                                                    *)
RECURSIVE ValuesIn(_)
ValuesIn(v) ==
    {v} \cup IF v.kind = "leaf" THEN {} ELSE UNION {ValuesIn(v.values[n]) : n \in DOMAIN v.values}

MCJson == UNION {ValuesIn(v) : v \in MCEvents \cup FewEvents}
MCNames == {1, 2, 3}

(* And every part of an event.                                             *)
RECURSIVE PartsFrom(_)
PartsFrom(p) == {p} \cup UNION {PartsFrom(q) : q \in Within(p)}

MCParts == [e \in MCEvents |-> PartsFrom([at |-> <<>>, value |-> e])]
FewParts == [e \in FewEvents |-> PartsFrom([at |-> <<>>, value |-> e])]
=============================================================================
