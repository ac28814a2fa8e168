------------------------------- MODULE RunTree -------------------------------
(***************************************************************************)
(* The waterfall of an agent run: internal/spanid/spanid.go and            *)
(* assembleRunTree of internal/repositories/usage.go.                      *)
(*                                                                         *)
(* A span path is the sequence of its step names; one that a client wrote  *)
(* may have empty names in it, a canonical one has none.  The id of an     *)
(* interior node is a hash of trace and canonical path, so within one run  *)
(* the path stands for it.  A row has the path and the parent it was       *)
(* logged with, and a cost.                                                *)
(***************************************************************************)
EXTENDS Naturals, Sequences, FiniteSets, SequencesExt, FiniteSetsExt

CONSTANTS MaxSpanDepth,   \* maxSpanDepth
          FetchCap        \* runTreeFetchCap

ASSUME RunTreeAssumption == MaxSpanDepth \in Nat \ {0} /\ FetchCap \in Nat \ {0}

Root == <<>>

\* SplitPath: the names up to each place, empty ones dropped.
SplitPath(path) ==
    LET split[n \in 0..Len(path)] ==
            IF n = 0 THEN <<>>
            ELSE IF path[n] = "" THEN split[n - 1] ELSE Append(split[n - 1], path[n])
    IN split

CanonicalPath(path) == SplitPath(path)[Len(path)]

\* parent_span_id, of the header as the client wrote it.
ParentSpanOfHeader(path) == path

ParentSpan(path) == CanonicalPath(path)

\* AncestorPaths, outermost first, cut at the depth that is materialized.
AncestorPaths(path) ==
    [i \in 1..(IF Len(path) > MaxSpanDepth THEN MaxSpanDepth ELSE Len(path)) |->
        SubSeq(path, 1, i)]

-----------------------------------------------------------------------------
(* A tree: its interior nodes, each with the node it was put under, and    *)
(* its leaves.  A node is put under the one before it on the way down.     *)
EmptyTree == [parent |-> [n \in {Root} |-> Root], leaves |-> <<>>]

\* ensurePath: the way down to path exists, and ends at the deepest node.
EnsurePathUnderRoot(tree, path) ==
    LET way == ToSet(AncestorPaths(path))
    IN [tree EXCEPT !.parent =
           [n \in DOMAIN @ \cup way |-> IF n \in DOMAIN @ THEN @[n] ELSE Root]]

EnsurePath(tree, path) ==
    LET way == AncestorPaths(path)
        above(n) == IF Len(n) = 1 THEN Root ELSE way[Len(n) - 1]
    IN [tree EXCEPT !.parent =
           [n \in DOMAIN @ \cup ToSet(way) |-> IF n \in DOMAIN @ THEN @[n] ELSE above(n)]]

Deepest(path) == IF path = Root THEN Root ELSE Last(AncestorPaths(path))

AddRow(tree, row) ==
    LET path == CanonicalPath(row.path)
    IN [EnsurePath(tree, path) EXCEPT
            !.leaves = Append(@, [at |-> Deepest(path), cost |-> row.cost])]

\* GetRunTree: the earliest rows up to the cap, in the order of the requests.
Fetched(rows) == IF Len(rows) > FetchCap THEN SubSeq(rows, 1, FetchCap) ELSE rows

\* The tree after each of the rows.
Assembled(rows) ==
    LET tree[n \in 0..Len(rows)] ==
            IF n = 0 THEN EmptyTree ELSE AddRow(tree[n - 1], rows[n])
    IN tree

AssembleRunTree(rows) == Assembled(Fetched(rows))[Len(Fetched(rows))]

\* rollUpRunNode: the cost and the calls of a node, from its children up.
RollUp(tree) ==
    LET nodes == DOMAIN tree.parent
        at(n) == {i \in DOMAIN tree.leaves : tree.leaves[i].at = n}
        up[n \in nodes] ==
            LET children == {c \in nodes \ {Root} : tree.parent[c] = n}
            IN [cost |-> MapThenSumSet(LAMBDA i : tree.leaves[i].cost, at(n))
                         + MapThenSumSet(LAMBDA c : up[c].cost, children),
                calls |-> Cardinality(at(n))
                          + MapThenSumSet(LAMBDA c : up[c].calls, children)]
    IN up

=============================================================================
