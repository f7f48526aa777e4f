--------------------------- MODULE BlockDAGProofs ---------------------------
(***************************************************************************)
(* Proofs about the BlockDAG engine, for any set of bodies and any bounds. *)
(*                                                                         *)
(* The inductive invariant is the conjunction of the invariants that the   *)
(* model checker checks, with one strengthening: a block is never higher   *)
(* than its topo_index.  It bounds the heights of a block's parents, and   *)
(* with that the parent that insert_block selects exists.                  *)
(***************************************************************************)
EXTENDS BlockDAG, FiniteSetTheorems, SequenceTheorems, WellFoundedInduction,
        NaturalsInduction, TLAPS

HeightsBounded == \A h \in Known : blocks[h].chain_height <= blocks[h].topo_index

IInv == /\ TypeOK
        /\ StoreIntegrity
        /\ TopoIndexIsTopological
        /\ HeightsBounded
        /\ HeightsFollowSelectedChain
        /\ TipsAreLeaves
        /\ IndexIsSound
        /\ IndexMatchesStore

\* A nonempty set of naturals with an upper bound has a greatest element.
LEMMA GreatestElement ==
  ASSUME NEW S \in SUBSET Nat, S # {}, NEW bound \in Nat, \A s \in S : s <= bound
  PROVE  \E m \in S : \A s \in S : s <= m
<1> DEFINE T == {n \in Nat : \E s \in S : n = bound - s}
<1>1. T # {}
  <2>1. PICK s \in S : TRUE
    OBVIOUS
  <2>2. bound - s \in Nat
    BY <2>1
  <2> QED BY <2>1, <2>2
<1>2. PICK x \in T : \A y \in T : ~(<<y, x>> \in OpToRel(<, Nat))
  <2> HIDE DEF T
  <2>1. T \subseteq Nat
    BY DEF T
  <2> QED BY <1>1, <2>1, NatLessThanWellFounded, WFMin
<1>3. ASSUME NEW y \in T PROVE x <= y
  <2>1. y \in Nat /\ x \in Nat
    OBVIOUS
  <2>2. ~(<<y, x>> \in OpToRel(<, Nat))
    BY <1>2
  <2>3. ~(y < x)
    BY <2>1, <2>2 DEF OpToRel
  <2> QED BY <2>1, <2>3
<1>4. PICK m \in S : x = bound - m
  OBVIOUS
<1>5. ASSUME NEW s \in S PROVE s <= m
  <2>1. bound - s \in T
    OBVIOUS
  <2>2. x <= bound - s
    BY <2>1, <1>3
  <2> QED BY <2>2, <1>4
<1> QED BY <1>5

\* Max returns the greatest element of a set of naturals that has one.
LEMMA MaxIsGreatest ==
  ASSUME NEW S \in SUBSET Nat, NEW m \in S, \A s \in S : s <= m
  PROVE  Max(S) = m
<1>1. \E x \in S : \A y \in S : x >= y
  OBVIOUS
<1>2. Max(S) \in S /\ \A y \in S : Max(S) >= y
  BY <1>1 DEF Max
<1>3. Max(S) <= m /\ m <= Max(S) /\ Max(S) \in Nat /\ m \in Nat
  BY <1>2
<1> QED BY <1>3

-----------------------------------------------------------------------------
(* Annotation *)

\* The loop of insert_block that picks the selected parent ends with a parent
\* that no other parent exceeds in height.
LEMMA BestSlotIsHighest ==
  ASSUME IInv, NEW parents \in Seq(Known), parents # <<>>
  PROVE  /\ BestSlot(parents) \in DOMAIN parents
         /\ \A j \in DOMAIN parents :
              Height(parents[j]) <= Height(parents[BestSlot(parents)])
<1> DEFINE H(j) == Height(parents[j])
           S == {H(j) : j \in DOMAIN parents}
<1>1. /\ DOMAIN parents = 1..Len(parents) /\ Len(parents) \in Nat
      /\ \A j \in DOMAIN parents : parents[j] \in Known
      /\ 1 \in DOMAIN parents
  OBVIOUS
<1>2. block_count \in Nat
  BY FS_CardinalityType DEF IInv, TypeOK, block_count
<1>3. ASSUME NEW j \in DOMAIN parents PROVE H(j) \in Nat /\ H(j) <= block_count
  <2>1. parents[j] \in Known
    BY <1>1
  <2>2. blocks[parents[j]].topo_index \in 0..(block_count - 1)
    BY <2>1 DEF IInv, TopoIndexIsTopological
  <2> QED BY <2>1, <2>2, <1>2 DEF IInv, HeightsBounded, TypeOK, Height
<1> HIDE DEF H
<1>4. PICK m \in S : \A s \in S : s <= m
  <2>1. S \in SUBSET Nat /\ S # {} /\ \A s \in S : s <= block_count
    BY <1>1, <1>3
  <2> HIDE DEF S
  <2> QED BY <2>1, <1>2, GreatestElement
<1> DEFINE I == {j \in DOMAIN parents : H(j) = m}
<1>5. PICK i \in I : \A j \in I : j <= i
  <2>1. I \in SUBSET Nat /\ I # {} /\ \A j \in I : j <= Len(parents)
    BY <1>1
  <2> HIDE DEF I
  <2> QED BY <2>1, <1>1, GreatestElement
<1>6. ASSUME NEW j \in DOMAIN parents
      PROVE  H(j) <= H(i) /\ (j > i => H(j) < H(i))
  <2>1. H(j) <= m /\ H(i) = m /\ H(j) \in Nat /\ m \in Nat
    BY <1>3, <1>4
  <2>2. H(j) = m => j <= i
    BY <1>5
  <2>3. j \in Nat /\ i \in Nat
    BY <1>1
  <2> QED BY <2>1, <2>2, <2>3
<1>7. \E k \in DOMAIN parents :
        \A j \in DOMAIN parents : /\ Height(parents[j]) <= Height(parents[k])
                                  /\ j > k => Height(parents[j]) < Height(parents[k])
  BY <1>6 DEF H
<1> QED BY <1>7 DEF BestSlot

\* compute_blue_score of a block is one more than the greatest blue score among
\* its parents, or one.
LEMMA BlueScoreIsHeightPlusOne ==
  ASSUME IInv, NEW b, b.parents \in Seq(Known)
  PROVE  compute_blue_score(b) =
           IF b.parents = <<>> THEN 1
           ELSE Height(b.parents[BestSlot(b.parents)]) + 2
<1> DEFINE S == {0} \cup {blocks[p].blue_score : p \in Parents(b)}
<1>1. /\ DOMAIN b.parents = 1..Len(b.parents)
      /\ \A j \in DOMAIN b.parents : b.parents[j] \in Known
      /\ Parents(b) \subseteq Known
  BY DEF Parents, ToSet
<1>2. \A p \in Known : /\ blocks[p].blue_score = Height(p) + 1
                       /\ Height(p) \in Nat
  BY DEF IInv, TypeOK, HeightsFollowSelectedChain, Height
<1>3. CASE b.parents = <<>>
  <2>1. S = {0}
    BY <1>3 DEF Parents, ToSet
  <2>2. Max(S) = 0
    BY <2>1 DEF Max
  <2> QED BY <2>2, <1>3 DEF compute_blue_score
<1>4. CASE b.parents # <<>>
  <2> DEFINE best == b.parents[BestSlot(b.parents)]
  <2>1. /\ BestSlot(b.parents) \in DOMAIN b.parents
        /\ \A j \in DOMAIN b.parents : Height(b.parents[j]) <= Height(best)
    BY <1>4, BestSlotIsHighest
  <2>2. best \in Parents(b) /\ best \in Known
    BY <2>1, <1>1 DEF Parents, ToSet
  <2>3. \A p \in Parents(b) : Height(p) <= Height(best)
    BY <2>1 DEF Parents, ToSet
  <2> HIDE DEF best
  <2>4. Height(best) + 1 \in S /\ \A s \in S : s <= Height(best) + 1
    BY <2>2, <2>3, <1>1, <1>2
  <2>5. S \subseteq Nat
    BY <1>1, <1>2
  <2> HIDE DEF S
  <2>6. Max(S) = Height(best) + 1
    BY <2>4, <2>5, MaxIsGreatest
  <2> QED BY <2>6, <1>4, <2>2, <1>2 DEF compute_blue_score, S, best
<1> QED BY <1>3, <1>4

\* The block that insert_block stores: what the steps below need to know of it.
NewBlock(nb) ==
  /\ nb.body \in Bodies \cup {GenesisBody}
  /\ nb.parents \in Seq(Known)
  /\ nb.parents = <<>> => Known = {}
  /\ nb.topo_index = block_count
  /\ nb.blue_score = nb.chain_height + 1
  /\ nb.chain_height \in Nat
  /\ IF nb.parents = <<>>
     THEN nb.selected_parent = NoBlock /\ nb.chain_height = 0
     ELSE /\ nb.selected_parent \in Parents(nb)
          /\ nb.chain_height = Height(nb.selected_parent) + 1
          /\ \A p \in Parents(nb) : Height(p) < nb.chain_height
  /\ HashMatches(nb)

\* A block that passed the reference check is annotated as it should be.
LEMMA AnnotatedIsNew ==
  ASSUME IInv, NEW b, b.body \in Bodies \cup {GenesisBody},
         b.parents \in Seq(Known), validate_references(b)
  PROVE  NewBlock(annotate(b))
<1>1. block_count \in Nat /\ (block_count = 0 <=> Known = {})
  BY FS_CardinalityType, FS_EmptySet DEF IInv, TypeOK, block_count
<1>2. CASE b.parents = <<>>
  <2>1. compute_blue_score(b) = 1
    BY <1>2, BlueScoreIsHeightPlusOne
  <2> DEFINE nb == annotate(b)
  <2>2. nb = set_consensus_metadata(b, NoBlock, 1, 0, block_count)
    BY <1>2, <2>1 DEF annotate
  <2>3. /\ nb.body = b.body /\ nb.parents = b.parents
        /\ nb.selected_parent = NoBlock /\ nb.blue_score = 1
        /\ nb.chain_height = 0 /\ nb.topo_index = block_count
        /\ HashMatches(nb)
    BY <2>2 DEF set_consensus_metadata, Block, HashMatches
  <2> HIDE DEF nb
  <2>4. Known = {}
    BY <1>1, <1>2 DEF validate_references
  <2>5. NewBlock(nb)
    BY <1>2, <2>3, <2>4 DEF NewBlock
  <2> QED BY <2>5 DEF nb
<1>3. CASE b.parents # <<>>
  <2> DEFINE best == b.parents[BestSlot(b.parents)]
             nb == annotate(b)
  <2>1. /\ BestSlot(b.parents) \in DOMAIN b.parents
        /\ \A j \in DOMAIN b.parents : Height(b.parents[j]) <= Height(best)
    BY <1>3, BestSlotIsHighest
  <2>2. best \in Parents(b) /\ best \in Known
    BY <2>1 DEF Parents, ToSet
  <2>3. \A p \in Parents(b) : p \in Known /\ Height(p) <= Height(best)
    BY <2>1 DEF Parents, ToSet
  <2>4. compute_blue_score(b) = Height(best) + 2
    BY <1>3, BlueScoreIsHeightPlusOne
  <2> HIDE DEF best
  <2>5. \A p \in Known : Height(p) \in Nat
    BY DEF IInv, TypeOK, Height
  <2>6. nb = set_consensus_metadata(b, best, Height(best) + 2, Height(best) + 1,
                                    block_count)
    BY <1>3, <2>4 DEF annotate, best
  <2>7. /\ nb.body = b.body /\ nb.parents = b.parents
        /\ nb.selected_parent = best
        /\ nb.blue_score = Height(best) + 2
        /\ nb.chain_height = Height(best) + 1
        /\ nb.topo_index = block_count
        /\ HashMatches(nb)
    BY <2>6 DEF set_consensus_metadata, Block, HashMatches
  <2> HIDE DEF nb
  <2>8. Parents(nb) = Parents(b)
    BY <2>7 DEF Parents
  <2>9. /\ nb.chain_height \in Nat
        /\ nb.blue_score = nb.chain_height + 1
        /\ \A p \in Parents(nb) : Height(p) < nb.chain_height
    BY <2>2, <2>3, <2>5, <2>7, <2>8
  <2>10. NewBlock(nb)
    BY <1>3, <2>2, <2>7, <2>8, <2>9 DEF NewBlock
  <2> QED BY <2>10 DEF nb
<1> QED BY <1>2, <1>3

\* A new block's hash is not the hash of any stored block, since no stored
\* block has its topo_index: storing it overwrites nothing.
LEMMA NewHashIsFresh ==
  ASSUME IInv, NEW nb, NewBlock(nb)
  PROVE  nb.hash \notin Known
<1>1. block_count \in Nat
  BY FS_CardinalityType DEF IInv, TypeOK, block_count
<1>2. SUFFICES ASSUME nb.hash \in Known PROVE FALSE
  OBVIOUS
<1> DEFINE old == blocks[nb.hash]
<1>3. HashMatches(old) /\ old.hash = nb.hash
  BY <1>2 DEF IInv, StoreIntegrity
<1>4. old.topo_index = nb.topo_index
  BY <1>3 DEF NewBlock, HashMatches, calculate_hash
<1>5. old.topo_index \in 0..(block_count - 1)
  BY <1>2 DEF IInv, TopoIndexIsTopological
<1> QED BY <1>1, <1>4, <1>5 DEF NewBlock

-----------------------------------------------------------------------------
(* Steps *)

\* The sequences over a set are sequences over every larger one.
LEMMA SeqGrows == ASSUME NEW S, NEW T, S \subseteq T, NEW s \in Seq(S) PROVE s \in Seq(T)
  OBVIOUS

\* Storing a new block and updating the index for it preserves the invariant.
LEMMA InsertPreserves ==
  ASSUME IInv, NEW nb, NewBlock(nb), store_insert(nb),
         update_tips_after_insert(nb), UNCHANGED <<restarts, indexed>>
  PROVE  IInv'
<1> DEFINE new == nb.hash
<1>1. new \notin Known
  BY NewHashIsFresh
<1>2. /\ Known' = Known \cup {new}
      /\ blocks' = [h \in Known' |-> blocks'[h]]
      /\ blocks'[new] = nb
      /\ \A h \in Known : blocks'[h] = blocks[h]
  BY <1>1 DEF store_insert, Known
<1>3. /\ IsFiniteSet(Known') /\ block_count' = block_count + 1
      /\ block_count \in Nat
  BY <1>1, <1>2, FS_AddElement, FS_CardinalityType DEF IInv, TypeOK, block_count
<1>4. Parents(nb) \subseteq Known
  BY DEF NewBlock, Parents, ToSet
<1>5. \A h \in Known : Parents(blocks[h]) \subseteq Known
  BY DEF IInv, TypeOK, Parents, ToSet
<1>6. /\ tips' = (tips \cup {new}) \ Parents(nb)
      /\ parent_to_children' = parent_to_children \cup Links(nb)
  BY DEF update_tips_after_insert
<1>7. \A h \in Known' : h = new \/ h \in Known
  BY <1>2
<1> HIDE DEF new
<1>8. TypeOK'
  <2>1. ASSUME NEW h \in Known'
        PROVE  /\ blocks'[h].body \in Bodies \cup {GenesisBody}
               /\ blocks'[h].parents \in Seq(Known')
               /\ blocks'[h].selected_parent \in Known' \cup {NoBlock}
               /\ blocks'[h].blue_score \in Nat
               /\ blocks'[h].chain_height \in Nat
               /\ blocks'[h].topo_index \in Nat
    <3>1. CASE h \in Known
      <4>1. blocks[h].parents \in Seq(Known')
        BY <3>1, <1>2, SeqGrows DEF IInv, TypeOK
      <4> QED BY <3>1, <4>1, <1>2 DEF IInv, TypeOK
    <3>2. CASE h = new
      <4>1. nb.parents \in Seq(Known')
        BY <1>2, SeqGrows DEF NewBlock
      <4>2. nb.selected_parent \in Known' \cup {NoBlock}
        BY <1>2, <1>4 DEF NewBlock
      <4> QED BY <3>2, <4>1, <4>2, <1>2, <1>3 DEF NewBlock
    <3> QED BY <3>1, <3>2, <1>7
  <2>2. parent_to_children' \subseteq Known' \X Known' \X Nat
    <3>1. Links(nb) \subseteq Known' \X Known' \X Nat
      <4>1. \A i \in DOMAIN nb.parents : i \in Nat /\ nb.parents[i] \in Known'
        BY <1>2 DEF NewBlock
      <4> QED BY <4>1, <1>2 DEF Links, new
    <3>2. parent_to_children \subseteq Known' \X Known' \X Nat
      BY <1>2 DEF IInv, TypeOK
    <3> QED BY <3>1, <3>2, <1>6
  <2>3. tips' \subseteq Known'
    BY <1>2, <1>6 DEF IInv, TypeOK
  <2>4. restarts' \in 0..MaxRestarts /\ indexed' \in BOOLEAN
    BY DEF IInv, TypeOK
  <2>5. blocks' \in [Known' -> {blocks'[h] : h \in Known'}]
    BY <1>2
  <2> QED BY <1>3, <2>1, <2>2, <2>3, <2>4, <2>5 DEF TypeOK
<1>9. StoreIntegrity'
  BY <1>2, <1>7 DEF IInv, StoreIntegrity, NewBlock, HashMatches, new
<1>10. TopoIndexIsTopological'
  <2>1. {blocks'[h].topo_index : h \in Known'}
           = {blocks[h].topo_index : h \in Known} \cup {block_count}
    BY <1>2, <1>7 DEF NewBlock
  <2>2. {blocks'[h].topo_index : h \in Known'} = 0..(block_count' - 1)
    BY <1>3, <2>1 DEF IInv, TopoIndexIsTopological
  <2>3. ASSUME NEW h \in Known PROVE blocks[h].topo_index < block_count
    <3>1. blocks[h].topo_index \in 0..(block_count - 1)
      BY DEF IInv, TopoIndexIsTopological
    <3> QED BY <3>1, <1>3
  <2>4. ASSUME NEW h \in Known', NEW p \in Parents(blocks'[h])
        PROVE  blocks'[p].topo_index < blocks'[h].topo_index
    <3>1. CASE h \in Known
      <4>1. p \in Known /\ p \in Parents(blocks[h])
        BY <3>1, <1>2, <1>5
      <4> QED BY <3>1, <4>1, <1>2 DEF IInv, TopoIndexIsTopological
    <3>2. CASE h = new
      <4>1. p \in Known
        BY <3>2, <1>2, <1>4
      <4> QED BY <3>2, <4>1, <1>2, <2>3 DEF NewBlock
    <3> QED BY <3>1, <3>2, <1>7
  <2> QED BY <2>2, <2>4 DEF TopoIndexIsTopological
<1>11. HeightsBounded'
  <2>1. nb.chain_height <= block_count
    <3>1. CASE nb.parents = <<>>
      BY <3>1, <1>3 DEF NewBlock
    <3>2. CASE nb.parents # <<>>
      <4> DEFINE sp == nb.selected_parent
      <4>1. sp \in Known /\ nb.chain_height = Height(sp) + 1
        BY <3>2, <1>4 DEF NewBlock
      <4>2. blocks[sp].topo_index \in 0..(block_count - 1)
        BY <4>1 DEF IInv, TopoIndexIsTopological
      <4>3. /\ Height(sp) \in Nat
            /\ Height(sp) <= blocks[sp].topo_index
        BY <4>1 DEF IInv, HeightsBounded, TypeOK, Height
      <4> HIDE DEF sp
      <4> QED BY <4>1, <4>2, <4>3, <1>3
    <3> QED BY <3>1, <3>2
  <2> QED BY <2>1, <1>2, <1>7 DEF HeightsBounded, IInv, NewBlock
<1>12. HeightsFollowSelectedChain'
  <2>2. \A p \in Parents(nb) : blocks'[p].chain_height = Height(p)
    BY <1>2, <1>4 DEF Height
  <2>3. \A h \in Known : nb.parents = <<>> => FALSE
    BY DEF NewBlock
  <2>4. ASSUME NEW h \in Known'
        PROVE  LET b == blocks'[h] IN
               /\ b.blue_score = b.chain_height + 1
               /\ IF b.parents = <<>>
                  THEN /\ b.selected_parent = NoBlock /\ b.chain_height = 0
                       /\ \A g \in Known' : blocks'[g].parents = <<>> => g = h
                  ELSE /\ b.selected_parent \in Parents(b)
                       /\ b.chain_height = blocks'[b.selected_parent].chain_height + 1
                       /\ \A p \in Parents(b) : blocks'[p].chain_height < b.chain_height
    <3>1. CASE h \in Known
      <4>1. CASE blocks[h].parents = <<>>
        BY <3>1, <4>1, <1>2, <1>7, <2>3 DEF IInv, HeightsFollowSelectedChain
      <4>2. CASE blocks[h].parents # <<>>
        <5>1. /\ blocks[h].selected_parent \in Parents(blocks[h])
              /\ blocks[h].chain_height = Height(blocks[h].selected_parent) + 1
              /\ blocks[h].blue_score = blocks[h].chain_height + 1
              /\ \A p \in Parents(blocks[h]) : Height(p) < blocks[h].chain_height
          BY <3>1, <4>2 DEF IInv, HeightsFollowSelectedChain
        <5>2. \A p \in Parents(blocks[h]) : blocks'[p].chain_height = Height(p)
          BY <3>1, <1>2, <1>5 DEF Height
        <5> QED BY <3>1, <4>2, <5>1, <5>2, <1>2
      <4> QED BY <4>1, <4>2
    <3>2. CASE h = new
      <4>1. CASE nb.parents = <<>>
        BY <3>2, <4>1, <1>2, <1>7 DEF NewBlock
      <4>2. CASE nb.parents # <<>>
        BY <3>2, <4>2, <1>2, <2>2 DEF NewBlock
      <4> QED BY <4>1, <4>2
    <3> QED BY <3>1, <3>2, <1>7
  <2> QED BY <2>4 DEF HeightsFollowSelectedChain, Height
<1>13. /\ \A h \in Known' : Children(h)' = Children(h) \cup {c \in {new} : h \in Parents(nb)}
       /\ new \notin Parents(nb)
       /\ Children(new) = {}
  BY <1>1, <1>2, <1>4, <1>5 DEF Children
<1>14. TipsAreLeaves'
  <2>1. ASSUME NEW t \in tips' PROVE Children(t)' = {}
    BY <1>2, <1>6, <1>13 DEF IInv, TypeOK, TipsAreLeaves
  <2> QED BY <2>1 DEF TipsAreLeaves
<1>15. UNION {Links(blocks'[h]) : h \in Known'}
         = (UNION {Links(blocks[h]) : h \in Known}) \cup Links(nb)
  BY <1>2, <1>7
<1>16. IndexIsSound'
  BY <1>6, <1>15 DEF IInv, IndexIsSound
<1>17. IndexMatchesStore'
  <2>1. SUFFICES ASSUME indexed
                 PROVE  /\ tips' = {h \in Known' : Children(h)' = {}}
                        /\ parent_to_children' = UNION {Links(blocks'[h]) : h \in Known'}
    BY DEF IndexMatchesStore
  <2>2. /\ tips = {h \in Known : Children(h) = {}}
        /\ parent_to_children = UNION {Links(blocks[h]) : h \in Known}
    BY <2>1 DEF IInv, IndexMatchesStore
  <2>3. parent_to_children' = UNION {Links(blocks'[h]) : h \in Known'}
    BY <2>2, <1>6, <1>15
  <2>4. tips' = {h \in Known' : Children(h)' = {}}
    BY <2>2, <1>2, <1>6, <1>7, <1>13
  <2> QED BY <2>3, <2>4
<1> QED BY <1>8, <1>9, <1>10, <1>11, <1>12, <1>14, <1>16, <1>17 DEF IInv

\* What passes the checks of insert_block has a body and names stored parents:
\* a block that is stored already is refused by its hash.
LEMMA AcceptedShape ==
  ASSUME IInv, NEW b \in Submissions, b.hash \notin Known, validate_references(b)
  PROVE  b.body \in Bodies \cup {GenesisBody} /\ b.parents \in Seq(Known)
<1> DEFINE fresh == {new_block(body, parents) :
                       body \in Bodies, parents \in BoundedSeq(Referable, MaxParents)}
<1>1. ASSUME NEW f \in fresh PROVE f.body \in Bodies /\ f.parents \in Seq(Referable)
  <2>1. PICK body \in Bodies, parents \in BoundedSeq(Referable, MaxParents) :
          f = new_block(body, parents)
    OBVIOUS
  <2>2. f.body = body /\ f.parents = parents
    BY <2>1 DEF new_block, Block
  <2>3. parents \in Seq(Referable)
    BY BoundsAssumption, SeqDef DEF BoundedSeq, SeqOf
  <2> QED BY <2>2, <2>3
<1> HIDE DEF fresh
<1>2. ASSUME NEW s \in Seq(Referable), ToSet(s) \subseteq Known PROVE s \in Seq(Known)
  <2>1. \A i \in 1..Len(s) : s[i] \in Known
    BY <1>2 DEF ToSet
  <2> QED BY <2>1
<1>3. block_count = 0 \/ b.parents # <<>>
  BY DEF validate_references
<1>4. CASE b \in fresh
  <2>1. CASE b.parents = <<>>
    BY <1>1, <1>4, <2>1
  <2>2. CASE b.parents # <<>>
    BY <1>1, <1>2, <1>4, <2>2 DEF validate_references, Parents
  <2> QED BY <2>1, <2>2
<1>5. CASE b \in {annotate(f) : f \in {g \in fresh : Parents(g) \subseteq Known}}
  <2>1. PICK f \in fresh : Parents(f) \subseteq Known /\ b = annotate(f)
    BY <1>5
  <2>2. b.body = f.body /\ b.parents = f.parents
    BY <2>1 DEF annotate, set_consensus_metadata, Block
  <2> QED BY <1>1, <1>2, <2>1, <2>2 DEF Parents
<1>6. CASE b \in {blocks[h] : h \in Known}
  BY <1>6 DEF IInv, StoreIntegrity
<1> QED BY <1>4, <1>5, <1>6 DEF Submissions, fresh

\* insert_block preserves the invariant, whatever it is given.
LEMMA InsertBlockPreserves ==
  ASSUME IInv, NEW b, b.body \in Bodies \cup {GenesisBody},
         b.parents \in Seq(Known), insert_block(b)
  PROVE  IInv'
<1> DEFINE nb == annotate(b)
<1>1. NewBlock(nb)
  BY AnnotatedIsNew DEF insert_block
<1>2. store_insert(nb) /\ update_tips_after_insert(nb) /\ UNCHANGED <<restarts, indexed>>
  BY DEF insert_block
<1> HIDE DEF nb
<1> QED BY <1>1, <1>2, InsertPreserves

\* The empty store satisfies the invariant.
LEMMA InitIInv == Init => IInv
<1> SUFFICES ASSUME Init PROVE IInv
  OBVIOUS
<1>1. Known = {} /\ block_count = 0
  BY FS_EmptySet DEF Init, Known, block_count
<1>2. TypeOK
  BY <1>1, FS_EmptySet, BoundsAssumption DEF Init, TypeOK, Known
<1>3. TopoIndexIsTopological
  BY <1>1 DEF TopoIndexIsTopological
<1>4. TipsAreLeaves /\ IndexIsSound /\ IndexMatchesStore
  BY <1>1 DEF Init, TipsAreLeaves, IndexIsSound, IndexMatchesStore
<1> QED BY <1>1, <1>2, <1>3, <1>4
        DEF IInv, StoreIntegrity, HeightsBounded, HeightsFollowSelectedChain

\* While the store is unchanged, so is everything the invariant says of it.
LEMMA StoreUnchanged ==
  ASSUME IInv, UNCHANGED blocks
  PROVE  /\ Known' = Known /\ block_count' = block_count
         /\ \A h : Children(h)' = Children(h) /\ Height(h)' = Height(h)
         /\ StoreIntegrity' /\ TopoIndexIsTopological' /\ HeightsBounded'
         /\ HeightsFollowSelectedChain'
  BY DEF IInv, Known, block_count, Children, Height, StoreIntegrity,
         TopoIndexIsTopological, HeightsBounded, HeightsFollowSelectedChain

\* Recomputing the index from the store, or dropping it, preserves the invariant.
LEMMA RebuildPreserves == IInv /\ rebuild_index => IInv'
<1> SUFFICES ASSUME IInv, rebuild_index PROVE IInv'
  OBVIOUS
<1>1. UNCHANGED <<blocks, restarts>> /\ indexed' = TRUE
  BY DEF rebuild_index
<1>2. tips' = Known \ UNION {Parents(blocks[h]) : h \in Known}
  BY DEF rebuild_index, build_from_store
<1>3. parent_to_children' = UNION {Links(blocks[h]) : h \in Known}
  BY DEF rebuild_index, build_from_store
<1>4. tips' = {h \in Known : Children(h) = {}}
  BY <1>2 DEF Children
<1>5. parent_to_children' \subseteq Known \X Known \X Nat
  <2>1. ASSUME NEW h \in Known PROVE Links(blocks[h]) \subseteq Known \X Known \X Nat
    <3>1. blocks[h].parents \in Seq(Known) /\ blocks[h].hash = h
      BY DEF IInv, TypeOK, StoreIntegrity
    <3>2. \A i \in DOMAIN blocks[h].parents : i \in Nat /\ blocks[h].parents[i] \in Known
      BY <3>1
    <3> QED BY <3>1, <3>2 DEF Links
  <2> QED BY <1>3, <2>1
<1>6. TypeOK'
  BY <1>1, <1>4, <1>5, StoreUnchanged DEF IInv, TypeOK
<1>7. TipsAreLeaves'
  BY <1>1, <1>4, StoreUnchanged DEF TipsAreLeaves
<1>8. IndexIsSound' /\ IndexMatchesStore'
  BY <1>1, <1>3, <1>4, StoreUnchanged DEF IndexIsSound, IndexMatchesStore
<1> QED BY <1>1, <1>6, <1>7, <1>8, StoreUnchanged DEF IInv

\* A restart preserves the invariant: the empty index is sound, and it matches
\* the store when the store is empty.
LEMMA RestartPreserves == IInv /\ Restart => IInv'
<1> SUFFICES ASSUME IInv, Restart PROVE IInv'
  OBVIOUS
<1>1. /\ UNCHANGED blocks /\ tips' = {} /\ parent_to_children' = {}
      /\ restarts' \in 0..MaxRestarts /\ indexed' = (block_count = 0)
  BY BoundsAssumption DEF Restart, empty_index, IInv, TypeOK
<1>2. block_count = 0 => Known = {}
  BY FS_EmptySet DEF IInv, TypeOK, block_count
<1>3. TypeOK'
  BY <1>1, StoreUnchanged DEF IInv, TypeOK
<1>4. TipsAreLeaves' /\ IndexIsSound'
  BY <1>1 DEF TipsAreLeaves, IndexIsSound
<1>5. IndexMatchesStore'
  BY <1>1, <1>2, StoreUnchanged DEF IndexMatchesStore
<1> QED BY <1>1, <1>3, <1>4, <1>5, StoreUnchanged DEF IInv

\* Every step of the engine preserves the invariant.
LEMMA NextIInv == IInv /\ [Next]_vars => IInv'
<1> SUFFICES ASSUME IInv, [Next]_vars PROVE IInv'
  OBVIOUS
<1>1. CASE \E b \in Submissions : insert_block(b)
  <2>1. PICK b \in Submissions : insert_block(b)
    BY <1>1
  <2>2. b.body \in Bodies \cup {GenesisBody} /\ b.parents \in Seq(Known)
    BY <2>1, AcceptedShape DEF insert_block
  <2> QED BY <2>1, <2>2, InsertBlockPreserves
<1>2. CASE create_genesis_if_empty
  <2> DEFINE g == new_block(GenesisBody, <<>>)
  <2>1. g.body = GenesisBody /\ g.parents = <<>>
    BY DEF new_block, Block
  <2>2. insert_block(g)
    BY <1>2 DEF create_genesis_if_empty
  <2> HIDE DEF g
  <2>3. <<>> \in Seq(Known)
    OBVIOUS
  <2> QED BY <2>1, <2>2, <2>3, InsertBlockPreserves
<1>3. CASE rebuild_index
  BY <1>3, RebuildPreserves
<1>4. CASE Restart
  BY <1>4, RestartPreserves
<1>5. CASE UNCHANGED vars
  <2>1. UNCHANGED blocks /\ UNCHANGED <<parent_to_children, tips, restarts, indexed>>
    BY <1>5 DEF vars
  <2>2. TypeOK'
    BY <2>1, StoreUnchanged DEF IInv, TypeOK
  <2>3. TipsAreLeaves' /\ IndexIsSound' /\ IndexMatchesStore'
    BY <2>1, StoreUnchanged DEF IInv, TipsAreLeaves, IndexIsSound, IndexMatchesStore
  <2> QED BY <2>1, <2>2, <2>3, StoreUnchanged DEF IInv
<1> QED BY <1>1, <1>2, <1>3, <1>4, <1>5 DEF Next

-----------------------------------------------------------------------------
(* Results *)

\* The inductive invariant holds in every reachable state of the engine.
THEOREM Invariance == Spec => []IInv
  BY InitIInv, NextIInv, PTL DEF Spec

\* Type correctness: the index, the parent references and the selected parents
\* of the engine never mention a block the store does not hold.
THEOREM TypeCorrect == Spec => []TypeOK
<1>1. IInv => TypeOK
  BY DEF IInv
<1> QED BY <1>1, Invariance, PTL

\* Every block insert_block stored is found under the hash of its own contents.
THEOREM StoreIsIntact == Spec => []StoreIntegrity
<1>1. IInv => StoreIntegrity
  BY DEF IInv
<1> QED BY <1>1, Invariance, PTL

\* The block count that insert_block writes into a block as topo_index orders the
\* DAG topologically, without gaps: parents come first and there is no cycle.
THEOREM TopologicalNumbering == Spec => []TopoIndexIsTopological
<1>1. IInv => TopoIndexIsTopological
  BY DEF IInv
<1> QED BY <1>1, Invariance, PTL

\* The parent that insert_block selects is one of greatest height, and heights
\* and blue scores follow the chain of selected parents to the only genesis.
THEOREM SelectedChain == Spec => []HeightsFollowSelectedChain
<1>1. IInv => HeightsFollowSelectedChain
  BY DEF IInv
<1> QED BY <1>1, Invariance, PTL

\* The tips update_tips_after_insert maintains have no stored children, even
\* when the index lost blocks in a restart.
THEOREM TipsHaveNoChildren == Spec => []TipsAreLeaves
<1>1. IInv => TipsAreLeaves
  BY DEF IInv
<1> QED BY <1>1, Invariance, PTL

\* The incremental index is the one build_from_store would compute, as long as
\* no restart came between.
THEOREM IndexAgrees == Spec => []IndexMatchesStore
<1>1. IInv => IndexMatchesStore
  BY DEF IInv
<1> QED BY <1>1, Invariance, PTL

\* No operation drops or replaces a stored block: annotated hashes are fresh, so
\* storing under them overwrites nothing.
THEOREM StoreOnlyGrows == Spec => AppendOnly
<1> DEFINE Kept == \A h \in Known : h \in Known' /\ blocks'[h] = blocks[h]
<1>1. ASSUME IInv, NEW b, b.body \in Bodies \cup {GenesisBody},
             b.parents \in Seq(Known), insert_block(b)
      PROVE  Kept
  <2> DEFINE nb == annotate(b)
  <2>1. NewBlock(nb) /\ store_insert(nb)
    BY <1>1, AnnotatedIsNew DEF insert_block
  <2> HIDE DEF nb
  <2>2. nb.hash \notin Known
    BY <1>1, <2>1, NewHashIsFresh
  <2> QED BY <2>1, <2>2 DEF store_insert, Known
<1>2. IInv /\ [Next]_vars => [Kept]_vars
  <2> SUFFICES ASSUME IInv, Next PROVE Kept
    OBVIOUS
  <2>1. CASE \E b \in Submissions : insert_block(b)
    <3>1. PICK b \in Submissions : insert_block(b)
      BY <2>1
    <3>2. b.body \in Bodies \cup {GenesisBody} /\ b.parents \in Seq(Known)
      BY <3>1, AcceptedShape DEF insert_block
    <3> QED BY <3>1, <3>2, <1>1
  <2>2. CASE create_genesis_if_empty
    <3> DEFINE g == new_block(GenesisBody, <<>>)
    <3>1. g.body = GenesisBody /\ g.parents = <<>> /\ insert_block(g)
      BY <2>2 DEF new_block, Block, create_genesis_if_empty
    <3> HIDE DEF g
    <3>2. <<>> \in Seq(Known)
      OBVIOUS
    <3> QED BY <3>1, <3>2, <1>1
  <2>3. CASE rebuild_index \/ Restart
    BY <2>3 DEF rebuild_index, Restart, Known
  <2> QED BY <2>1, <2>2, <2>3 DEF Next
<1> QED BY <1>2, Invariance, PTL DEF Spec, AppendOnly

-----------------------------------------------------------------------------
(* Refinement *)

\* An insertion is an Append of the ledger: the new hash, over its parents.
LEMMA InsertAppends ==
  ASSUME IInv, NEW b, b.body \in Bodies \cup {GenesisBody},
         b.parents \in Seq(Known), insert_block(b)
  PROVE  Ledger!Next
<1> DEFINE nb == annotate(b)
           new == nb.hash
           over == Parents(nb)
<1>1. NewBlock(nb) /\ store_insert(nb)
  BY AnnotatedIsNew DEF insert_block
<1> HIDE DEF nb
<1>2. new \notin Known
  BY <1>1, NewHashIsFresh
<1>3. /\ Known' = Known \cup {new}
      /\ blocks'[new] = nb
      /\ \A h \in Known : blocks'[h] = blocks[h]
  BY <1>1, <1>2 DEF store_insert, Known
<1>4. over \subseteq Known
  BY <1>1 DEF NewBlock, Parents, ToSet
<1>5. over = {} <=> nb.parents = <<>>
  <2>1. nb.parents \in Seq(Known)
    BY <1>1 DEF NewBlock
  <2>2. nb.parents = <<>> <=> DOMAIN nb.parents = {}
    <3>1. DOMAIN nb.parents = 1..Len(nb.parents) /\ Len(nb.parents) \in Nat
      BY <2>1
    <3>2. nb.parents = <<>> <=> Len(nb.parents) = 0
      BY <2>1, <3>1
    <3>3. Len(nb.parents) # 0 => 1 \in 1..Len(nb.parents)
      BY <3>1
    <3> QED BY <3>1, <3>2, <3>3
  <2> QED BY <2>2 DEF Parents, ToSet
<1>6. over = {} <=> Known = {}
  BY <1>1, <1>4, <1>5 DEF NewBlock
<1>7. LedgerLinks' = LedgerLinks \cup {<<new, p>> : p \in over}
  <2>1. Parents(blocks'[new]) = over
    BY <1>3
  <2>2. LedgerLinks' = UNION {{h} \X Parents(blocks'[h]) : h \in Known'}
    BY DEF LedgerLinks, Parents, ToSet
  <2>3. \A h \in Known : Parents(blocks'[h]) = Parents(blocks[h])
    BY <1>3
  <2> HIDE DEF over, new
  <2> QED BY <2>1, <2>2, <2>3, <1>3 DEF LedgerLinks
<1>8. /\ \A h \in Known : LedgerDepth[h] = Height(h)
      /\ LedgerDepth'[new] = nb.chain_height
      /\ LedgerDepth' = [h \in Known' |-> IF h = new THEN LedgerDepth'[new] ELSE LedgerDepth[h]]
  BY <1>2, <1>3 DEF LedgerDepth, Height
<1>9. Ledger!LongestPath(LedgerDepth'[new], over)
  <2>1. CASE over = {}
    BY <2>1, <1>1, <1>5, <1>8 DEF Ledger!LongestPath, NewBlock
  <2>2. CASE over # {}
    <3>1. /\ nb.selected_parent \in over
          /\ nb.chain_height = Height(nb.selected_parent) + 1
          /\ \A p \in over : Height(p) < nb.chain_height
      BY <2>2, <1>1, <1>5 DEF NewBlock
    <3> QED BY <3>1, <2>2, <1>4, <1>8 DEF Ledger!LongestPath
  <2> QED BY <2>1, <2>2
<1> HIDE DEF new, over
<1>10. Ledger!Append(new, over)
  BY <1>2, <1>3, <1>6, <1>7, <1>8, <1>9 DEF Ledger!Append
<1> QED BY <1>3, <1>4, <1>10 DEF Ledger!Next

\* The engine implements LedgerDAG, for any bodies and bounds: every insertion is an
\* Append, and rebuild_index and restarts are invisible to users of the DAG.
THEOREM Refinement == Spec => ImplementsLedger
<1>1. Init => Ledger!Init
  BY DEF Init, Ledger!Init, Known, LedgerLinks, LedgerDepth
<1>2. IInv /\ [Next]_vars => [Ledger!Next]_(Ledger!lvars)
  <2> SUFFICES ASSUME IInv, [Next]_vars PROVE Ledger!Next \/ UNCHANGED Ledger!lvars
    OBVIOUS
  <2>1. CASE \E b \in Submissions : insert_block(b)
    <3>1. PICK b \in Submissions : insert_block(b)
      BY <2>1
    <3>2. b.body \in Bodies \cup {GenesisBody} /\ b.parents \in Seq(Known)
      BY <3>1, AcceptedShape DEF insert_block
    <3> QED BY <3>1, <3>2, InsertAppends
  <2>2. CASE create_genesis_if_empty
    <3> DEFINE g == new_block(GenesisBody, <<>>)
    <3>1. g.body = GenesisBody /\ g.parents = <<>> /\ insert_block(g)
      BY <2>2 DEF new_block, Block, create_genesis_if_empty
    <3> HIDE DEF g
    <3>2. <<>> \in Seq(Known)
      OBVIOUS
    <3> QED BY <3>1, <3>2, InsertAppends
  <2>3. CASE UNCHANGED blocks
    BY <2>3 DEF Ledger!lvars, Known, LedgerLinks, LedgerDepth, Parents
  <2> QED BY <2>1, <2>2, <2>3 DEF Next, rebuild_index, Restart, vars
<1> QED BY <1>1, <1>2, Invariance, PTL DEF Spec, ImplementsLedger, Ledger!Spec
=============================================================================
