---------------------------- MODULE SegmentsTree ----------------------------
(***************************************************************************)
(* segmentsTree: the paths of the Patterns as a tree of segments.  A tree  *)
(* is the set of its paths, a path the sequence of its segments, and a     *)
(* node of the tree the path prefix that leads to it.                      *)
(***************************************************************************)
EXTENDS Integers, Sequences, FiniteSets

EmptyTree == {}

(* add: the last segment becomes a field of the node the others lead to,   *)
(* and each of these a node of the one before it.                          *)
Add(tree, path) == tree \cup {path}

IsPrefixOf(node, path) ==
    Len(node) <= Len(path) /\ SubSeq(path, 1, Len(node)) = node

FieldsOf(tree, node) ==
    {path[Len(path)] : path \in {p \in tree : Len(p) = Len(node) + 1 /\ IsPrefixOf(node, p)}}

NodesOf(tree, node) ==
    {path[Len(node) + 1] : path \in {p \in tree : Len(p) > Len(node) + 1 /\ IsPrefixOf(node, p)}}

(* The SegmentsTreeTracker interface.                                      *)
HasNode(tree, node, segment) == segment \in NodesOf(tree, node)
Get(node, segment) == Append(node, segment)
IsRoot(node) == node = <<>>
IsSegmentUsed(tree, node, segment) ==
    segment \in FieldsOf(tree, node) \cup NodesOf(tree, node)

NoPath == <<>>
PathForSegment(tree, node, segment) ==
    IF segment \in FieldsOf(tree, node) THEN Append(node, segment) ELSE NoPath

NodesCount(tree, node) == Cardinality(NodesOf(tree, node))
FieldsCount(tree, node) == Cardinality(FieldsOf(tree, node))
=============================================================================
