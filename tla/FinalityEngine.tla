--------------------------- MODULE FinalityEngine ---------------------------
(***************************************************************************)
(* The finality engine (src/src/finality/finality_engine.rs) over the      *)
(* BlockDAG.  compute_finality takes the topological order of the DAG as   *)
(* scores, rebuilds everything it derives from them and decides which      *)
(* blocks are final; anticones and blue scores stay cached across calls.   *)
(* The answers of can_reach are cached in the tree, which is replaced      *)
(* together with the scores they are computed from, and are left out; so   *)
(* are the limits of the caches, which only forget entries.                *)
(* The type is not Sync (RefCell in the tree), so its operations run one   *)
(* at a time.  A restart loses the engine and the index of the DAG.        *)
(***************************************************************************)
EXTENDS DAGQueries

CONSTANTS k,
          Margin           \* the safety margin is one part in Margin (10)

VARIABLES block_scores, block_heights,   \* of the blocks in the last ordering
          interval_tree,                 \* Nil before the first computation
          vsp_cache, blue_scores, anticone_cache,
          finalized_blocks               \* the final blocks of all heights

engine == <<block_scores, block_heights, interval_tree, vsp_cache, blue_scores,
            anticone_cache, finalized_blocks>>
allVars == <<vars, engine>>

Nil == <<>>
Empty == <<>>

\* f with the pairs of g on top.
Over(g, f) == [x \in DOMAIN g \cup DOMAIN f |-> IF x \in DOMAIN g THEN g[x] ELSE f[x]]

-----------------------------------------------------------------------------
(* compute_finality *)

\* The ordering is sorted by height, which keeps the order of equal heights; the
\* middle node is taken out, and its place filled by the last one.
ByHeight(nodes) ==
  SortSeq(nodes, LAMBDA m, n : m.height < n.height \/ (m.height = n.height /\ m.at < n.at))

SwapRemove(s, i) ==
  IF i = Len(s) THEN Front(s) ELSE [Front(s) EXCEPT ![i] = Last(s)]
Renumber(s) == [i \in DOMAIN s |-> [s[i] EXCEPT !.at = i]]

RECURSIVE build_balanced_tree(_)
build_balanced_tree(nodes) ==
  IF nodes = <<>> THEN Nil
  ELSE LET sorted == ByHeight(nodes)
           mid == Len(sorted) \div 2 + 1
           node == sorted[mid]
           rest == SwapRemove(sorted, mid)
           Half(P(_)) == build_balanced_tree(Renumber(SelectSeq(rest, P)))
       IN  [node |-> node, left |-> Half(LAMBDA n : n.height < node.height),
            right |-> Half(LAMBDA n : n.height >= node.height)]

Tree(order) ==
  build_balanced_tree([i \in DOMAIN order |->
    [hash |-> order[i], height |-> blocks[order[i]].chain_height, score |-> i - 1, at |-> i]])

get_blue_set(h) == get_all_ancestors(h) \cup {h}

\* The blue scores with those of the parents of all blocks filled in.
BlueScores ==
  LET asked == UNION {Parents(blocks[h]) : h \in Known} IN
  Over(blue_scores, [h \in asked |-> Cardinality(get_blue_set(h))])

\* Mutant: the first parent is taken whatever its blue score.
FirstBest_any(ps, blue) == 1

\* The first of the parents with the highest blue score.
FirstBest(ps, blue) == Min({i \in DOMAIN ps : \A j \in DOMAIN ps : blue[ps[j]] <= blue[ps[i]]})

compute_single_vsp(h, blue, scores) ==
  LET ps == blocks[h].parents IN
  IF ps = <<>> THEN [block |-> h, height |-> 0, score |-> 0, blue_score |-> 0]
  ELSE LET best == ps[FirstBest(ps, blue)] IN
       [block |-> best, height |-> blocks[best].chain_height,
        score |-> IF best \in DOMAIN scores THEN scores[best] ELSE 0,
        blue_score |-> blue[best]]

SatSub(m, n) == Max({m - n, 0})

\* Mutant: the remainder is taken away instead of the quotient.
calculate_finality_threshold_rem(head) == SatSub(SatSub(head, k), head % Margin)

calculate_finality_threshold(head) == SatSub(SatSub(head, k), head \div Margin)

Head_score(scores) == Max({scores[h] : h \in DOMAIN scores})

\* Mutant: blocks from the threshold on are final.
Final_young(scores) ==
  {h \in DOMAIN scores : scores[h] >= calculate_finality_threshold(Head_score(scores))}

\* calculate_score_based_finality
Final(scores) ==
  {h \in DOMAIN scores : scores[h] <= calculate_finality_threshold(Head_score(scores))}

compute_finality ==
  LET order == get_topological_order
      scores == [h \in ToSet(order) |-> Position(order, h) - 1] IN
  /\ order # <<>>
  /\ block_scores' = scores
  /\ block_heights' = [h \in ToSet(order) |-> blocks[h].chain_height]
  /\ interval_tree' = Tree(order)
  /\ blue_scores' = BlueScores
  /\ vsp_cache' = [h \in Known |-> compute_single_vsp(h, BlueScores, scores)]
  /\ finalized_blocks' = Final(scores)
  /\ UNCHANGED <<vars, anticone_cache>>

-----------------------------------------------------------------------------
(* Queries that fill caches *)

compute_reachability(from, to) ==
  block_heights[from] <= block_heights[to] /\ block_scores[from] <= block_scores[to]

can_reach(from, to) == compute_reachability(from, to)

\* compute_anticone asks can_reach of the blocks of the same height or above; a block
\* that came after the last computation counts with height 0.
HeightOf(h) == IF h \in DOMAIN block_heights THEN block_heights[h] ELSE 0
Candidates(h) == {g \in Known \ {h} : HeightOf(g) >= block_heights[h]}
compute_anticone(h) == {g \in Candidates(h) : ~can_reach(h, g)}

\* A block outside the last ordering has no height, and one of height 0 is compared
\* with blocks that have no score: an error, and nothing changes.
get_anticone(h) ==
  /\ h \in DOMAIN block_heights \ DOMAIN anticone_cache
  /\ Candidates(h) \subseteq DOMAIN block_scores
  /\ anticone_cache' = Over([g \in {h} |-> compute_anticone(h)], anticone_cache)
  /\ UNCHANGED <<vars, block_scores, block_heights, interval_tree, vsp_cache,
                 blue_scores, finalized_blocks>>

Fresh ==
  /\ block_scores' = Empty /\ block_heights' = Empty /\ interval_tree' = Nil
  /\ vsp_cache' = Empty /\ blue_scores' = Empty
  /\ anticone_cache' = Empty /\ finalized_blocks' = {}

reset == Fresh /\ block_scores # Empty /\ UNCHANGED vars

get_finalization_height == Max({block_heights[h] : h \in finalized_blocks})

FInit ==
  /\ Init
  /\ block_scores = Empty /\ block_heights = Empty /\ interval_tree = Nil
  /\ vsp_cache = Empty /\ blue_scores = Empty
  /\ anticone_cache = Empty /\ finalized_blocks = {}

FNext ==
  \/ compute_finality
  \/ \E h \in Known : get_anticone(h)
  \/ reset
  \/ Restart /\ Fresh
  \/ /\ \/ block_count < MaxBlocks /\ \E b \in Submissions : insert_block(b)
        \/ create_genesis_if_empty
        \/ rebuild_index
     /\ UNCHANGED engine

FSpec == FInit /\ [][FNext]_allVars

-----------------------------------------------------------------------------
(* Properties *)

\* A block is final only together with all its ancestors, over a complete index:
\* the threshold cuts the ordering between a block and its past nowhere.
FinalIsClosed ==
  indexed => \A h \in finalized_blocks : get_all_ancestors(h) \subseteq finalized_blocks

\* Finality is withdrawn only by a restart or reset, or when the safety margin grows:
\* a late block shifts the ordering by no more than the head moves on.
Withdrawn == finalized_blocks' # {} /\ ~(finalized_blocks \subseteq finalized_blocks')
WithdrawnAtMargin ==
  [][Withdrawn /\ indexed =>
       Head_score(block_scores') \div Margin > Head_score(block_scores) \div Margin]_allVars

\* Blue scores are cached for good and stay right as the DAG grows: the past of a
\* block does not change.
BlueScoresStayRight ==
  \A h \in DOMAIN blue_scores : blue_scores[h] = Cardinality(get_blue_set(h))

\* The virtual selected parent of every block is its parent with the largest past,
\* however old the cached blue scores are that it was chosen by.
VspIsBestParent ==
  \A h \in DOMAIN vsp_cache : blocks[h].parents # <<>> =>
    /\ vsp_cache[h].block \in Parents(blocks[h])
    /\ \A p \in Parents(blocks[h]) :
         Cardinality(get_blue_set(p)) <= Cardinality(get_blue_set(vsp_cache[h].block))

\* can_reach never denies an ancestor its descendant: the height and
\* score comparison errs to one side only.
AncestorsReach ==
  indexed => \A g, h \in DOMAIN block_scores : is_ancestor(g, h) => can_reach(g, h)

\* The interval tree holds the blocks of the ordering, each once, lower heights left.
RECURSIVE TreeSeq(_)
TreeSeq(t) ==
  IF t = Nil THEN <<>> ELSE TreeSeq(t.left) \o <<t.node>> \o TreeSeq(t.right)
TreeIsOrdered ==
  LET s == TreeSeq(interval_tree) IN
  /\ Len(s) = Cardinality(DOMAIN block_scores)
  /\ {s[i].hash : i \in DOMAIN s} = DOMAIN block_scores
  /\ \A i, j \in DOMAIN s : i < j => s[i].height <= s[j].height

\* "require score difference > k" (finality_engine.rs:359): a final block is more
\* than k behind the head.
MoreThanK ==
  \A h \in finalized_blocks : Head_score(block_scores) - block_scores[h] > k

\* "Check if block A can reach block B using interval tree" (finality_engine.rs:193):
\* it says so of ancestors only.
ReachIsAncestry ==
  \A g, h \in DOMAIN block_scores : g # h /\ can_reach(g, h) => is_ancestor(g, h)

\* "Compute anticone of a block with caching" (finality_engine.rs:369): what is cached
\* is what would be computed.
AnticoneIsCurrent ==
  \A h \in DOMAIN anticone_cache :
    h \in DOMAIN block_heights /\ Candidates(h) \subseteq DOMAIN block_scores
    => anticone_cache[h] = compute_anticone(h)
=============================================================================
