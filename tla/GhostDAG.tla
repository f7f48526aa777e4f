------------------------------ MODULE GhostDAG ------------------------------
(***************************************************************************)
(* The GHOSTDAG engine (src/src/consensus/ghostdag.rs) and its blue sets   *)
(* (src/src/consensus/blue_set.rs) beside a growing BlockDAG.  attach_dag  *)
(* clones the DAG: the clone shares the block store but copies the index,  *)
(* so between two attachments the engine sees new blocks with old edges.   *)
(*                                                                         *)
(* Ties are broken by comparing hashes.  The model compares topo_index     *)
(* instead, a total order as good as any: nothing below depends on it.     *)
(***************************************************************************)
EXTENDS DAGQueries

CONSTANT k  \* maximum anticone size of a blue block

ASSUME KAssumption == k \in Nat

VARIABLES attached,          \* a DAG was attached since the process started
          snapshot,          \* edges of the attached index
          complete,          \* ghost: that index was complete for its store
          seen,              \* ghost: the blocks stored when it was attached
          blue_score_cache   \* hash -> score

engine == <<attached, snapshot, complete, seen, blue_score_cache>>
NoScores == [h \in {} |-> 0]

-----------------------------------------------------------------------------
(* Anticones, blue sets, scores *)

\* Mutant: the blocks that are neither before nor after the block.
get_anticone_proper(b, ref) ==
  {x \in Known : x # b /\ ~is_ancestor(x, b) /\ ~is_ancestor(b, x)}

get_anticone(b, ref) == get_all_ancestors(b) \ get_reachable_blocks({ref})

build_blue_set(ref) ==
  {ref} \cup {b \in ToSet(topological_order(snapshot)) :
                Cardinality(get_anticone(b, ref)) <= k}

is_blue(b, ref) ==
  /\ b = ref \/ is_ancestor(b, ref)
  /\ Cardinality(get_anticone(b, ref)) <= k

\* Blue blocks among the block and its ancestors.
blue_score(h) ==
  Cardinality({b \in get_all_ancestors(h) \cup {h} :
                 Cardinality(get_anticone(b, h)) <= k})

HashLess(g, h) == blocks[g].topo_index < blocks[h].topo_index

\* Highest score first, then lowest hash.
Before(score, g, h) == \/ score[g] > score[h]
                       \/ score[g] = score[h] /\ HashLess(g, h)

select_parent_from_parents(parents) ==
  LET score == [p \in ToSet(parents) |-> blue_score(p)]
  IN  CHOOSE p \in ToSet(parents) : \A q \in ToSet(parents) \ {p} : Before(score, p, q)

calculate_blue_score_for_new_block(parents) ==
  Max({0} \cup {blue_score(p) : p \in ToSet(parents)}) + 1

\* annotate_block as produce_block uses it, on a DAG it has just attached.
annotate_block(b) ==
  LET selected == select_parent_from_parents(b.parents)
      score == calculate_blue_score_for_new_block(b.parents)
  IN  IF b.parents = <<>>
      THEN set_consensus_metadata(b, NoBlock, score, 0, block_count)
      ELSE set_consensus_metadata(b, selected, score,
                                  Height(selected) + 1, block_count)

-----------------------------------------------------------------------------
(* The ordering *)

\* Mutant: a block may be ordered as soon as one of its parents is.
Extend_any(all, processed) ==
  {h \in all \ processed : Parents(blocks[h]) \cap processed # {}}

\* The blocks all of whose parents are processed.
Extend(all, processed) == {h \in all \ processed : Parents(blocks[h]) \subseteq processed}

RECURSIVE Rounds(_, _)
Rounds(score, ordering) ==
  LET next == Extend(DOMAIN score, ToSet(ordering))
  IN  IF next = {} THEN ordering
      ELSE Rounds(score, ordering \o SetToSortSeq(next, LAMBDA g, h : Before(score, g, h)))

generate_ordering ==
  LET score == [h \in ToSet(topological_order(snapshot)) |-> blue_score(h)]
      genesis == {h \in DOMAIN score : blocks[h].parents = <<>>}
  IN  Rounds(score, SetToSortSeq(genesis, HashLess))

validate_ordering(ordering) ==
  /\ ToSet(ordering) \subseteq Known
  /\ IsInjective(ordering)
  /\ \A i \in DOMAIN ordering : \A p \in Parents(blocks[ordering[i]]) :
       \E j \in 1..(i - 1) : ordering[j] = p
  /\ Len(ordering) = block_count

-----------------------------------------------------------------------------
(* Operations *)

\* Mutant: the engine goes on with the index it had.
attach_dag_once ==
  /\ attached' = TRUE
  /\ snapshot' = IF attached THEN snapshot ELSE parent_to_children
  /\ complete' = indexed
  /\ seen' = Known
  /\ blue_score_cache' = NoScores
  /\ UNCHANGED vars

attach_dag ==
  /\ attached' = TRUE
  /\ snapshot' = parent_to_children
  /\ complete' = indexed
  /\ seen' = Known
  /\ blue_score_cache' = NoScores
  /\ UNCHANGED vars

\* get_blue_score computes a score once and caches it until the next attachment.
calculate_blue_score(h) ==
  /\ attached
  /\ h \notin DOMAIN blue_score_cache
  /\ blue_score_cache' = [g \in DOMAIN blue_score_cache \cup {h} |->
                            IF g = h THEN blue_score(h) ELSE blue_score_cache[g]]
  /\ UNCHANGED <<vars, attached, snapshot, complete, seen>>

\* produce_block attaches the DAG, annotates a block built on the tips, inserts it
\* and attaches the DAG again.  (Without tips the store refuses the block, unless
\* it is empty, and what remains is the first attach_dag.)
produce ==
  /\ block_count < MaxBlocks
  /\ \E body \in Bodies, parents \in SetToSeqs(tips) :
       insert_block(annotate_block(new_block(body, parents)))
  /\ attached' = TRUE
  /\ snapshot' = parent_to_children'
  /\ complete' = indexed'
  /\ seen' = DOMAIN blocks'
  /\ blue_score_cache' = NoScores

EngineInit == /\ attached = FALSE
              /\ snapshot = {}
              /\ complete = TRUE /\ seen = {}
              /\ blue_score_cache = NoScores

GhostInit == Init /\ EngineInit

\* A restart begins with a new engine.
GhostRestart == /\ Restart
                /\ attached' = FALSE /\ snapshot' = {}
                /\ complete' = TRUE /\ seen' = {}
                /\ blue_score_cache' = NoScores

GhostNext ==
  \/ /\ \/ block_count < MaxBlocks /\ \E b \in Submissions : insert_block(b)
        \/ create_genesis_if_empty
        \/ rebuild_index
     /\ UNCHANGED engine
  \/ GhostRestart
  \/ produce
  \/ attach_dag
  \/ \E h \in Known : calculate_blue_score(h)

GhostSpec == GhostInit /\ [][GhostNext]_<<vars, engine>>

-----------------------------------------------------------------------------
(* Properties *)

\* Types; the engine has no scores before a DAG is attached.
EngineTypeOK ==
  /\ attached \in BOOLEAN /\ complete \in BOOLEAN
  /\ snapshot \subseteq Known \X Known \X Nat
  /\ seen \subseteq Known
  /\ DOMAIN blue_score_cache \subseteq Known
  /\ \A h \in DOMAIN blue_score_cache : blue_score_cache[h] \in Nat
  /\ ~attached => DOMAIN blue_score_cache = {}

\* generate_ordering lists no block twice and every parent before its children,
\* whatever blocks arrived after the DAG was attached and whatever the attached
\* index had lost in a restart.
OrderingIsTopological ==
  LET ordering == generate_ordering IN
    /\ IsInjective(ordering)
    /\ \A i \in DOMAIN ordering : \A p \in Parents(blocks[ordering[i]]) :
         \E j \in 1..(i - 1) : ordering[j] = p

\* The clone shares its store with the live DAG, yet the ordering is the one of
\* the moment of the attachment: it contains the blocks stored then and none that
\* came later.  (An index attached empty is the exception: the first genesis
\* block is its own root and shows.)  validate_ordering accepts the ordering as
\* long as nothing came later.
OrderingIsSnapshot ==
  attached /\ complete /\ seen # {} =>
    LET ordering == generate_ordering IN
      /\ ToSet(ordering) = seen
      /\ validate_ordering(ordering) <=> seen = Known

\* Ordering round by round goes through the DAG by height: no block is ordered
\* before a block of lower height.
OrderingFollowsHeight ==
  LET ordering == generate_ordering IN
    \A i, j \in DOMAIN ordering : i < j => Height(ordering[i]) <= Height(ordering[j])

\* get_anticone only looks at ancestors, so all of a block's past is blue for it
\* whatever k is: a score is one more than the number of ancestors, and it stays
\* right in the cache however the DAG grows.
CachedScoresCountPast ==
  \A h \in DOMAIN blue_score_cache :
    blue_score_cache[h] = Cardinality(get_all_ancestors(h)) + 1

\* is_blue says "Block must be ancestor or equal to reference to be blue": the
\* blue set of a reference consists of the blocks for which is_blue holds.
BlueSetMatchesIsBlue ==
  attached /\ complete => \A ref \in seen : \A b \in seen :
    b \in build_blue_set(ref) <=> is_blue(b, ref)

\* get_anticone is documented as "blocks that are not ancestors of reference and
\* not the reference itself".
AnticoneAsDocumented ==
  \A b, ref \in Known :
    get_anticone(b, ref) = {x \in Known : x # ref /\ ~is_ancestor(x, ref)}

\* annotate_block is there "to ensure blocks carry deterministic ordering
\* metadata before being inserted into the DAG": the insertion of a block built on
\* the tips keeps the metadata the engine gave it, in whatever order the producer
\* lists the tips.
AnnotationIsKept ==
  tips # {} => \A body \in Bodies : \A parents \in SetToSeqs(tips) :
    LET b == annotate_block(new_block(body, parents)) IN annotate(b) = b
=============================================================================
