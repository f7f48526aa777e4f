----------------------------- MODULE DAGQueries -----------------------------
(***************************************************************************)
(* The read-only algorithms over the BlockDAG: the traversals of           *)
(* src/src/dag/dag_index.rs and src/src/consensus/dag_traversal.rs, and    *)
(* the self-check BlockDAG::validate.  They are operators on the state of  *)
(* module BlockDAG and are compared with what they are documented to       *)
(* return in every state the engine reaches.                               *)
(***************************************************************************)
EXTENDS BlockDAG

\* Edges the traversals follow: to the parents named in the store, and to the
\* children recorded in the index.
Up == {<<h, p>> \in Known \X Known : p \in Parents(blocks[h])}
Down == {<<l[1], l[2]>> : l \in parent_to_children}

\* A breadth-first walk that visits each block once and returns what it met.
RECURSIVE Walk(_, _, _)
Walk(edges, frontier, seen) ==
  LET new == {e[2] : e \in {x \in edges : x[1] \in frontier}} \ seen
  IN  IF new = {} THEN seen ELSE Walk(edges, new, seen \cup new)

get_all_ancestors(h) == Walk(Up, {h}, {})

get_all_descendants(h) == Walk(Down, {h}, {})
get_reachable_blocks(hashes) == Walk(Up, hashes, hashes)
is_ancestor(a, h) == a \in get_all_ancestors(h)
get_coparents(h) ==
  {l[2] : l \in {x \in parent_to_children : x[1] \in Parents(blocks[h])}} \ {h}

\* Kahn's algorithm.  in_degree counts parent references in the store, and
\* is decremented once for each edge of the index.
InsertionOrder(S) ==
  SetToSortSeq(S, LAMBDA g, h : blocks[g].topo_index < blocks[h].topo_index)

RECURSIVE Kahn(_, _, _, _)
Kahn(links, queue, in_degree, result) ==
  IF queue = <<>> THEN result
  ELSE LET edges(c) == {l \in links : l[1] = Head(queue) /\ l[2] = c}
           left == [c \in Known |-> in_degree[c] - Cardinality(edges(c))]
           ready == {c \in Known : edges(c) # {} /\ left[c] = 0}
       IN  Kahn(links, Tail(queue) \o InsertionOrder(ready), left,
                Append(result, Head(queue)))

Roots == InsertionOrder({h \in Known : blocks[h].parents = <<>>})

\* The order computed with the edges of some index.
topological_order(links) ==
  Kahn(links, Roots, [h \in Known |-> Len(blocks[h].parents)], <<>>)

get_topological_order == topological_order(parent_to_children)

\* Layer by layer towards genesis, counting the layers.
RECURSIVE Layers(_, _)
Layers(layer, depth) ==
  LET next == UNION {Parents(blocks[h]) : h \in layer}
  IN  IF next = {} THEN depth ELSE Layers(next, depth + 1)

get_block_depth(h) == Layers({h}, 0)

\* From h2 towards genesis, breadth first, to the first block that is h1 or an
\* ancestor of h1.
RECURSIVE LcaScan(_, _, _)
LcaScan(queue, visited, targets) ==
  IF queue = <<>> THEN NoBlock
  ELSE LET current == Head(queue)
           fresh == SelectSeq(blocks[current].parents,
                              LAMBDA p : p \notin visited \cup {current})
       IN  IF current \in visited THEN LcaScan(Tail(queue), visited, targets)
           ELSE IF current \in targets THEN current
           ELSE LcaScan(Tail(queue) \o fresh, visited \cup {current}, targets)

\* Mutant: the first block itself is not a candidate.
find_lca_strict(h1, h2) == LcaScan(<<h2>>, {}, get_all_ancestors(h1))

find_lca(h1, h2) == LcaScan(<<h2>>, {}, get_all_ancestors(h1) \cup {h1})

\* The last of the deepest blocks that both have as an ancestor: max_by_key
\* breaks ties by hash-set order, any of them may be returned.
get_furthest_common_ancestor(h1, h2) ==
  LET common == get_all_ancestors(h1) \cap get_all_ancestors(h2)
  IN  IF common = {} THEN {find_lca(h1, h2)}
      ELSE {a \in common :
              \A c \in common : get_block_depth(c) <= get_block_depth(a)}

\* The search goes from the descendant up; the path it reconstructs from the
\* ancestor down is reversed before it is returned.
RECURSIVE PathSearch(_, _, _, _)
PathSearch(queue, visited, via, from) ==
  IF queue = <<>> THEN NoBlock
  ELSE LET current == Head(queue)
           new == Parents(blocks[current]) \ visited
           first(p) == CHOOSE i \in DOMAIN blocks[current].parents :
                         /\ blocks[current].parents[i] = p
                         /\ \A j \in 1..(i - 1) : blocks[current].parents[j] # p
           added == SetToSortSeq(new, LAMBDA p, q : first(p) < first(q))
       IN  IF current = from THEN Reverse(via[current])
           ELSE PathSearch(Tail(queue) \o added, visited \cup new,
                           [h \in DOMAIN via \cup new |->
                              IF h \in new THEN <<h>> \o via[current] ELSE via[h]],
                           from)

get_path(from, to) == PathSearch(<<to>>, {to}, [h \in {to} |-> <<to>>], from)

\* BlockDAG::validate, whose last loop is meant to check the genesis block.
GenesisReported ==
  /\ Cardinality(tips) > 1
  /\ \E h \in Known : blocks[h].parents = <<>> /\ Children(h) # {}
validate ==
  /\ \A h \in Known : HashMatches(blocks[h]) /\ Parents(blocks[h]) \subseteq Known
  /\ Known # {}
  /\ ~GenesisReported

-----------------------------------------------------------------------------
(* Properties *)

Position(seq, h) == CHOOSE i \in DOMAIN seq : seq[i] = h

\* A common ancestor of h1 and h2 in the wide sense: each block counts as an
\* ancestor of itself.
Common(h1, h2) == get_reachable_blocks({h1}) \cap get_reachable_blocks({h2})

\* get_topological_order ("parents before children"): the order has no
\* repetitions and puts every parent before its children even when the index
\* lost edges in a restart, and it contains every block while the index is
\* complete.
TopologicalOrderIsSound ==
  LET order == get_topological_order IN
    /\ IsInjective(order)
    /\ \A i \in DOMAIN order : \A p \in Parents(blocks[order[i]]) :
         p \in ToSet(order) /\ Position(order, p) < i
    /\ indexed => ToSet(order) = Known

\* The walk over the store's parent references and the walk over the index's
\* edges are each other's inverse while the index is complete, sharing a parent
\* is mutual, and no block is its own ancestor.
AncestorsMirrorDescendants ==
  \A h \in Known :
    /\ h \notin get_all_ancestors(h)
    /\ get_all_descendants(h) \subseteq {d \in Known : is_ancestor(h, d)}
    /\ indexed => \A d \in Known : /\ is_ancestor(h, d) <=> d \in get_all_descendants(h)
                                  /\ d \in get_coparents(h) <=> h \in get_coparents(d)

\* get_block_depth ("longest path from genesis") returns the chain height that
\* insert_block stored in the block.
DepthIsChainHeight == \A h \in Known : get_block_depth(h) = blocks[h].chain_height

\* find_lca always finds a common ancestor, and a deepest one is what
\* get_furthest_common_ancestor returns when two blocks share an ancestor.
LcaIsCommonAncestor ==
  \A h1, h2 \in Known :
    /\ find_lca(h1, h2) \in Common(h1, h2)
    /\ get_furthest_common_ancestor(h1, h2) \subseteq Common(h1, h2)

\* get_path returns a path exactly between a block and its ancestors or itself,
\* every step of which is a parent reference.
PathFollowsParents ==
  \A from, to \in Known :
    LET path == get_path(from, to) IN
      IF from \in get_reachable_blocks({to})
      THEN /\ ToSet(path) \subseteq Known
           /\ {path[1], path[Len(path)]} = {from, to}
           /\ \A i \in 1..(Len(path) - 1) :
                <<path[i], path[i + 1]>> \in Up \/ <<path[i + 1], path[i]>> \in Up
      ELSE path = NoBlock

\* The algorithms over the DAG agree with what the parent references define and with
\* each other, on every DAG and with an index that is complete or was lost in a restart:
\* orders, walks in both directions, depths, common ancestors and paths.
TraversalsAgree ==
  /\ TopologicalOrderIsSound
  /\ AncestorsMirrorDescendants
  /\ DepthIsChainHeight
  /\ LcaIsCommonAncestor
  /\ PathFollowsParents

\* find_lca is documented as "Find Lowest Common Ancestor (LCA) of two blocks":
\* no other common ancestor descends from the one returned.
LcaIsLowest ==
  \A h1, h2 \in Known :
    \A a \in Common(h1, h2) : ~is_ancestor(find_lca(h1, h2), a)

\* get_path is documented as the "path from ancestor to descendant".
PathStartsAtAncestor ==
  \A from, to \in Known :
    from \in get_reachable_blocks({to}) => get_path(from, to)[1] = from

\* The one complaint validate can have about a store that insert_block filled is
\* "Genesis block is referenced but still marked as tip": it makes it only when
\* the genesis block is a tip.
GenesisReportIsTrue ==
  Known # {} /\ ~validate => \E h \in tips : blocks[h].parents = <<>>
=============================================================================
