------------------------------ MODULE BlockDAG ------------------------------
(***************************************************************************)
(* The BlockDAG engine (src/src/dag/blockdag.rs) with the in-memory index  *)
(* it maintains (src/src/dag/dag_index.rs) over the persistent block store.*)
(*                                                                         *)
(* A block is the record of the fields that insert_block reads or writes.  *)
(* Its body stands for everything a miner fixes (transactions, timestamp,  *)
(* nonce, difficulty, fees, producer); bodies are values that pass the     *)
(* content checks of Block::validate_basic.  SHA-256 is taken to be        *)
(* collision free, so a hash is the tuple of what it covers.               *)
(***************************************************************************)
EXTENDS Integers, SequencesExt

CONSTANTS Bodies,        \* what miners put in blocks
          GenesisBody,   \* the body create_genesis_block builds
          NoBlock,       \* Option::None where a block hash is expected
          MaxBlocks,     \* bound: blocks ever stored
          MaxParents,    \* bound: parent references in one block
          MaxRestarts    \* bound: process restarts

ASSUME BoundsAssumption == /\ MaxBlocks \in Nat
                           /\ MaxParents \in Nat
                           /\ MaxRestarts \in Nat

VARIABLES blocks,              \* BLOCKS_CF: block hash -> block
          parent_to_children,  \* the index's edges, <<parent, child, slot>>
          tips,                \* the index's leaves
          restarts,            \* how often the process was restarted
          indexed,             \* ghost: the index has seen the whole store
          accepted             \* ghost: hashes insert_block said Ok to

vars == <<blocks, parent_to_children, tips, restarts, indexed, accepted>>

Known == DOMAIN blocks
Parents(b) == ToSet(b.parents)
Children(h) == {c \in Known : h \in Parents(blocks[c])}

-----------------------------------------------------------------------------
(* Blocks and their identity: core/block.rs *)

calculate_hash(body, parents, selected, blue, height, topo) ==
  <<parents, body, blue, height, topo, selected>>

Block(body, parents, selected, blue, height, topo) ==
  [hash |-> calculate_hash(body, parents, selected, blue, height, topo),
   parents |-> parents, body |-> body, selected_parent |-> selected,
   blue_score |-> blue, chain_height |-> height, topo_index |-> topo]

\* Block::new leaves the consensus metadata at zero.
new_block(body, parents) == Block(body, parents, NoBlock, 0, 0, 0)

\* Overwrites the metadata and recomputes the hash.  The block's own height
\* field is assigned the same value as the header's chain_height.
set_consensus_metadata(b, selected, blue, height, topo) ==
  Block(b.body, b.parents, selected, blue, height, topo)

HashMatches(b) ==
  b.hash = calculate_hash(b.body, b.parents, b.selected_parent, b.blue_score,
                          b.chain_height, b.topo_index)

-----------------------------------------------------------------------------
(* Annotation: step 5 of insert_block *)

Height(h) == blocks[h].chain_height

\* The loop keeps the last parent whose height is >= the best so far.
BestSlot(parents) ==
  CHOOSE i \in DOMAIN parents :
    \A j \in DOMAIN parents : /\ Height(parents[j]) <= Height(parents[i])
                              /\ j > i => Height(parents[j]) < Height(parents[i])

compute_blue_score(b) ==
  Max({0} \cup {blocks[p].blue_score : p \in Parents(b)}) + 1

\* Mutant: siblings get the same topo_index.
block_count_without_tips == Cardinality(Known \ tips)

block_count == Cardinality(Known)

annotate(b) ==
  IF b.parents = <<>>
  THEN set_consensus_metadata(b, NoBlock, compute_blue_score(b), 0, block_count)
  ELSE LET best == b.parents[BestSlot(b.parents)]
       IN  set_consensus_metadata(b, best, compute_blue_score(b),
                                  Height(best) + 1, block_count)

-----------------------------------------------------------------------------
(* The index: dag/dag_index.rs *)

\* parent_to_children holds one Vec entry per parent reference; the slot of the
\* reference tells apart the entries of a block that names a parent twice.
Links(b) == {<<b.parents[i], b.hash, i>> : i \in DOMAIN b.parents}

\* Mutant: only the selected parent stops being a tip.
update_tips_selected_only(b) ==
  /\ tips' = (tips \cup {b.hash}) \ {b.selected_parent}
  /\ parent_to_children' = parent_to_children \cup Links(b)

update_tips_after_insert(b) ==
  /\ tips' = (tips \cup {b.hash}) \ Parents(b)
  /\ parent_to_children' = parent_to_children \cup Links(b)

empty_index == /\ parent_to_children' = {}
               /\ tips' = {}

\* Mutant: the tips are recomputed from the old tips instead of all blocks.
build_from_old_tips ==
  /\ parent_to_children' = UNION {Links(blocks[h]) : h \in Known}
  /\ tips' = tips \ UNION {Parents(blocks[h]) : h \in Known}

build_from_store ==
  /\ parent_to_children' = UNION {Links(blocks[h]) : h \in Known}
  /\ tips' = Known \ UNION {Parents(blocks[h]) : h \in Known}

-----------------------------------------------------------------------------
(* Operations *)

store_insert(b) ==
  blocks' = [h \in Known \cup {b.hash} |-> IF h = b.hash THEN b ELSE blocks[h]]

validate_references(b) ==
  IF b.parents = <<>> THEN block_count = 0 ELSE Parents(b) \subseteq Known

\* A block that fails a check is refused and nothing changes.
insert_block(b) ==
  /\ HashMatches(b)
  /\ b.hash \notin Known
  /\ validate_references(b)
  /\ store_insert(annotate(b))
  /\ update_tips_after_insert(annotate(b))
  /\ accepted' = accepted \cup {b.hash}
  /\ UNCHANGED <<restarts, indexed>>

create_genesis_if_empty ==
  /\ block_count = 0
  /\ insert_block(new_block(GenesisBody, <<>>))

rebuild_index ==
  /\ build_from_store
  /\ indexed' = TRUE
  /\ UNCHANGED <<blocks, restarts, accepted>>

\* Mutant: the store does not survive.
Restart_fresh ==
  /\ restarts < MaxRestarts
  /\ restarts' = restarts + 1
  /\ empty_index
  /\ blocks' = [h \in {} |-> NoBlock]
  /\ indexed' = TRUE
  /\ UNCHANGED accepted

\* The process stops, at any point, and comes back: BlockDAG::new opens the
\* persistent store beside an empty index.
Restart ==
  /\ restarts < MaxRestarts
  /\ restarts' = restarts + 1
  /\ empty_index
  /\ indexed' = (block_count = 0)
  /\ UNCHANGED <<blocks, accepted>>

\* Blocks reach insert_block fresh from Block::new, or carrying the metadata
\* another node with the same view gave them, or are stored blocks coming
\* back.  A parent reference names a stored block or the hash some root block
\* had when it was submitted.
Referable == Known \cup {new_block(body, <<>>).hash : body \in Bodies}
Submissions ==
  LET fresh == {new_block(body, parents) :
                  body \in Bodies, parents \in BoundedSeq(Referable, MaxParents)}
  IN  fresh \cup {annotate(b) : b \in {f \in fresh : Parents(f) \subseteq Known}}
            \cup {blocks[h] : h \in Known}

Init ==
  /\ blocks = [h \in {} |-> NoBlock]
  /\ parent_to_children = {}
  /\ tips = {}
  /\ restarts = 0
  /\ indexed = TRUE
  /\ accepted = {}

Next ==
  \/ block_count < MaxBlocks /\ \E b \in Submissions : insert_block(b)
  \/ create_genesis_if_empty
  \/ rebuild_index
  \/ Restart

Spec == Init /\ [][Next]_vars

-----------------------------------------------------------------------------
(* Properties *)

\* Types: the store maps hashes to annotated blocks, the index and the
\* selected parents mention stored blocks only.
TypeOK ==
  /\ IsFiniteSet(Known)
  /\ blocks \in [Known -> {blocks[h] : h \in Known}]
  /\ \A h \in Known :
       /\ blocks[h].body \in Bodies \cup {GenesisBody}
       /\ blocks[h].parents \in Seq(Known)
       /\ blocks[h].selected_parent \in Known \cup {NoBlock}
       /\ blocks[h].blue_score \in Nat
       /\ blocks[h].chain_height \in Nat
       /\ blocks[h].topo_index \in Nat
  /\ parent_to_children \subseteq Known \X Known \X Nat
  /\ tips \subseteq Known
  /\ restarts \in 0..MaxRestarts
  /\ indexed \in BOOLEAN

\* insert_block annotates a block after its hash was checked and stores it
\* under the recomputed hash, so BlockStore::verify_integrity (which rehashes
\* every stored block) never fails on a store built by insert_block.
StoreIntegrity == \A h \in Known : blocks[h].hash = h /\ HashMatches(blocks[h])

\* topo_index, the block count at insertion, numbers the stored blocks 0, 1, 2
\* ... without gaps or repetitions, and every parent is numbered before its
\* children, across restarts too: the DAG is acyclic and (topo_index) is one of
\* its topological orders.
TopoIndexIsTopological ==
  /\ {blocks[h].topo_index : h \in Known} = 0..(block_count - 1)
  /\ \A h \in Known : \A p \in Parents(blocks[h]) :
       blocks[p].topo_index < blocks[h].topo_index

\* Step 5 of insert_block makes the selected parent a parent of greatest height,
\* the block one higher than it, and the blue score one more than the height; a
\* block without parents is the only one and has height 0.  So the
\* selected-parent chain of any block is a longest path and ends in the one
\* genesis block after chain_height steps.
HeightsFollowSelectedChain ==
  \A h \in Known : LET b == blocks[h] IN
    /\ b.blue_score = b.chain_height + 1
    /\ IF b.parents = <<>>
       THEN /\ b.selected_parent = NoBlock /\ b.chain_height = 0
            /\ \A g \in Known : blocks[g].parents = <<>> => g = h
       ELSE /\ b.selected_parent \in Parents(b)
            /\ b.chain_height = Height(b.selected_parent) + 1
            /\ \A p \in Parents(b) : Height(p) < b.chain_height

\* No tip ever has a stored child, whatever restarts the index went through:
\* get_tips never names an inner block of the DAG.
TipsAreLeaves == \A t \in tips : Children(t) = {}

\* While the index has seen every stored block (no restart since it was last
\* empty or rebuilt) the incremental update_tips_after_insert agrees with
\* build_from_store: the tips are all the leaves and the edges all the parent
\* references.
IndexMatchesStore ==
  indexed => /\ tips = {h \in Known : Children(h) = {}}
             /\ parent_to_children = UNION {Links(blocks[h]) : h \in Known}

\* Whatever the index has seen, it records only parent references that exist.
IndexIsSound ==
  parent_to_children \subseteq UNION {Links(blocks[h]) : h \in Known}

\* A stored block is never dropped, replaced or annotated again by any
\* operation of the DAG, restart included.
AppendOnly ==
  [][\A h \in Known : h \in Known' /\ blocks'[h] = blocks[h]]_vars

\* What users of the DAG see of it: hashes, parent references and heights.
LedgerLinks == UNION {{h} \X Parents(blocks[h]) : h \in Known}
LedgerDepth == [h \in Known |-> blocks[h].chain_height]
Ledger == INSTANCE LedgerDAG WITH nodes <- Known, links <- LedgerLinks, depth <- LedgerDepth

\* The engine implements the append-only graph of LedgerDAG: insert_block adds one
\* node above nodes that are there, create_genesis_if_empty the root, and neither
\* rebuild_index nor a restart shows.
ImplementsLedger == Ledger!Spec

\* What the tests of blockdag.rs rely on (test_insert_block_chain inserts a
\* block and then names it as a parent by the hash it was submitted with): a
\* block insert_block accepted can be found under the hash it was submitted with.
AcceptedIsStored == accepted \subseteq Known

\* Steps 2 and 4 of insert_block ("Check if block already exists", "Check for
\* duplicate blocks (same content)"): no two stored blocks have the same body
\* and the same parents.
NoDuplicateContent ==
  \A g, h \in Known : /\ blocks[g].body = blocks[h].body
                       /\ blocks[g].parents = blocks[h].parents
                       => g = h

\* get_tips is documented as "Get all tips (leaf blocks)": every stored leaf is
\* a tip, so a node with blocks has something to build on.
LeavesAreTips == \A h \in Known : Children(h) = {} => h \in tips
=============================================================================
