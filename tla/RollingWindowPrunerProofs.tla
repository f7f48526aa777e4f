--------------------- MODULE RollingWindowPrunerProofs ---------------------
(***************************************************************************)
(* Proofs about the pruner over the block store, for any blocks, heights,  *)
(* windows and threads, with crashes between any two database calls: the   *)
(* guarantees of the store survive the pruner, no block of the window is   *)
(* pruned, and the snapshot that the metadata name exists.                 *)
(***************************************************************************)
EXTENDS RollingWindowPruner, BlockStoreProofs

\* A block below the window of some height that maybe_prune was called with.
Prunable(h) == h \in Hashes /\ HeightOf[h] >= 1 /\ HeightOf[h] + window_size <= top

\* A job of the pruner, and the call it is in, are about prunable blocks only.
Windowed(c) ==
  c.at # "idle" /\ c.job.kind \in {"range", "prune"} =>
    /\ \A h \in c.job.todo \cup c.job.found : Prunable(h)
    /\ c.at \notin Kinds => Prunable(c.h)

Metadata == [last_pruned_height : Nat, total_blocks_pruned : Nat,
             last_snapshot_height : Nat, snapshot_count : Nat]

WindowInv ==
  /\ metadata \in Metadata /\ pruning \in [height : Nat, up_to : Nat]
  /\ top \in Nat /\ pruning.height <= top
  /\ LatestSnapshotExists
  /\ \A h \in pruned : Prunable(h)
  /\ \A th \in Threads : Windowed(call[th])

PrunerInv == StoreInv /\ WindowInv

-----------------------------------------------------------------------------
(* Calls *)

\* Where a call of the store leads, its job stays about prunable blocks.
LEMMA WindowShapes ==
  ASSUME NEW c \in Calls, Windowed(c), c.at \in {"cache", "read", "fill"} \cup DeleteSteps
  PROVE  /\ \A at \in {"cache", "read", "fill"} \cup DeleteSteps : Windowed([c EXCEPT !.at = at])
         /\ \A found \in BOOLEAN : Windowed(Answer(c, found))
<1>1. c \in [at : {"cache", "read", "fill"} \cup DeleteSteps, h : Hashes, job : Jobs]
  BY DEF Calls, Idle, Doing, Jobs, Kinds, DeleteSteps
<1>2. c.at # "idle" /\ c.at \notin Kinds
  BY DEF DeleteSteps, Kinds
<1>3. ASSUME NEW at \in {"cache", "read", "fill"} \cup DeleteSteps
      PROVE  Windowed([c EXCEPT !.at = at])
  <2> DEFINE e == [c EXCEPT !.at = at]
  <2>1. e.job = c.job /\ e.h = c.h
    BY <1>1
  <2> HIDE DEF e
  <2> QED BY <1>2, <2>1 DEF Windowed, e
<1>4. ASSUME NEW found \in BOOLEAN PROVE Windowed(Answer(c, found))
  <2> DEFINE j == [c.job EXCEPT !.todo = @ \ {c.h},
                                !.found = IF found THEN @ \cup {c.h} ELSE @]
  <2>1. c.job \in Jobs
    BY <1>1
  <2>2. j.kind = c.job.kind /\ j.todo \cup j.found \subseteq c.job.todo \cup c.job.found \cup {c.h}
        /\ j.kind \in Kinds
    BY <2>1 DEF Jobs
  <2>3. Answer(c, found) = IF c.job = One THEN Idle ELSE Doing(j)
    BY DEF Answer
  <2> HIDE DEF j
  <2>4. Doing(j).at = j.kind /\ Doing(j).job = j
    BY DEF Doing
  <2>5. Windowed(Doing(j))
    BY <1>2, <2>2, <2>4 DEF Windowed
  <2>6. Windowed(Idle)
    BY DEF Windowed, Idle
  <2> QED BY <2>3, <2>5, <2>6
<1> QED BY <1>3, <1>4

\* Calls that are no business of the pruner, or that start a job of it.
LEMMA NewWindowed ==
  /\ Windowed(Idle)
  /\ \A at, h : Windowed(At(at, h, One))
  /\ \A kind \in Kinds : \A todo, found :
       (kind \in {"range", "prune"} => \A h \in todo \cup found : Prunable(h))
         => Windowed(Doing(Job(kind, todo, found)))
<1>1. Windowed(Idle)
  BY DEF Windowed, Idle
<1>2. \A at, h : At(at, h, One).job.kind = "one"
  BY DEF At, One, Job
<1>3. ASSUME NEW kind \in Kinds, NEW todo, NEW found,
             kind \in {"range", "prune"} => \A h \in todo \cup found : Prunable(h)
      PROVE  Windowed(Doing(Job(kind, todo, found)))
  <2> DEFINE c == Doing(Job(kind, todo, found))
  <2>1. c.at = kind /\ c.job.kind = kind /\ c.job.todo = todo /\ c.job.found = found
    BY DEF Doing, Job
  <2> HIDE DEF c
  <2>2. Windowed(c)
    BY <1>3, <2>1 DEF Windowed
  <2> QED BY <2>2 DEF c
<1> QED BY <1>1, <1>2, <1>3 DEF Windowed

\* A step that moves one thread to such a call, while the greatest height does not
\* fall, keeps every job inside the window.
LEMMA WindowMoves ==
  ASSUME PrunerInv, NEW th \in Threads, NEW c, call' = [call EXCEPT ![th] = c],
         Windowed(c), top' \in Nat, top <= top', NEW u \in Threads
  PROVE  Windowed(call[u])'
<1>1. \A h : Prunable(h) => Prunable(h)'
  BY PrunerAssumption, ConstantsAssumption DEF Prunable, PrunerInv, WindowInv
<1>2. \A d : Windowed(d) => /\ d.at # "idle" /\ d.job.kind \in {"range", "prune"} =>
                                 /\ \A h \in d.job.todo \cup d.job.found : Prunable(h)'
                                 /\ d.at \notin Kinds => Prunable(d.h)'
  BY <1>1 DEF Windowed
<1>3. call'[u] = IF u = th THEN c ELSE call[u]
  BY DEF PrunerInv, StoreInv, CallInv
<1>4. Windowed(call'[u])
  BY <1>3 DEF PrunerInv, WindowInv
<1> QED BY <1>2, <1>4 DEF Windowed

\* What is left to show of a step that leaves the pruner's own records alone.
LEMMA WindowKeeps ==
  ASSUME PrunerInv, NEW th \in Threads, NEW c, call' = [call EXCEPT ![th] = c], Windowed(c),
         UNCHANGED <<snapshots, metadata, pruning, top>>,
         \A h \in pruned' : h \in pruned \/ Prunable(h)
  PROVE  WindowInv'
<1>1. top' \in Nat /\ top <= top'
  BY DEF PrunerInv, WindowInv
<1>2. \A u \in Threads : Windowed(call[u])'
  BY <1>1, WindowMoves
<1>3. \A h \in pruned' : Prunable(h)'
  BY DEF PrunerInv, WindowInv, Prunable
<1>4. LatestSnapshotExists'
  BY DEF PrunerInv, WindowInv, LatestSnapshotExists, HasLatest, LatestFound
<1> QED BY <1>2, <1>3, <1>4 DEF PrunerInv, WindowInv

-----------------------------------------------------------------------------
(* Steps of the store *)

\* delete_next, for a block of the job.
LEMMA DeleteNextMoves ==
  ASSUME PrunerInv, NEW th \in Threads, NEW h, delete_next(th, h), call[th].at \in Kinds
  PROVE  \E c : call' = [call EXCEPT ![th] = c] /\ Windowed(c)
<1> DEFINE cur == call[th]
           c == At("delete_lookup", h, cur.job)
<1>1. h \in cur.job.todo /\ call' = [call EXCEPT ![th] = c]
  BY DEF delete_next, Goto
<1>2. Windowed(cur) /\ cur.at # "idle"
  BY DEF PrunerInv, WindowInv, Kinds
<1>3. c.at = "delete_lookup" /\ c.job = cur.job /\ c.h = h
  BY DEF At
<1> HIDE DEF c
<1>4. Windowed(c)
  BY <1>1, <1>2, <1>3 DEF Windowed
<1> QED BY <1>1, <1>4

\* Every operation of the store.
LEMMA StoreMoves ==
  ASSUME PrunerInv, NEW th \in Threads,
         \/ \E h \in Hashes : insert_block(th, h) \/ get_block(th, h) \/ delete_block(th, h)
         \/ cache_inserted(th) \/ read_db(th) \/ fill(th)
         \/ delete_lookup(th) \/ delete_read(th) \/ delete_fill(th) \/ delete_write(th)
         \/ clear(th) \/ clear_next(th) \/ clear_cache(th)
  PROVE  \E c : call' = [call EXCEPT ![th] = c] /\ Windowed(c)
<1> DEFINE cur == call[th]
<1>1. cur \in Calls /\ Windowed(cur)
  BY DEF PrunerInv, StoreInv, CallInv, WindowInv
<1>2. ASSUME NEW h \in Hashes, insert_block(th, h) \/ get_block(th, h) \/ delete_block(th, h)
      PROVE  \E c : call' = [call EXCEPT ![th] = c] /\ Windowed(c)
  <2>1. \E at : call' = [call EXCEPT ![th] = At(at, h, One)] \/ call' = [call EXCEPT ![th] = Idle]
    BY <1>2 DEF insert_block, get_block, delete_block, Start, Goto
  <2> QED BY <2>1, NewWindowed
<1>3. CASE cache_inserted(th) \/ clear_cache(th)
  <2>1. call' = [call EXCEPT ![th] = Idle]
    BY <1>3 DEF cache_inserted, clear_cache, Goto
  <2> QED BY <2>1, NewWindowed
<1>4. CASE read_db(th) \/ fill(th) \/ delete_lookup(th) \/ delete_read(th) \/ delete_fill(th)
           \/ delete_write(th)
  <2>1. cur.at \in {"cache", "read", "fill"} \cup DeleteSteps
    BY <1>4 DEF read_db, fill, delete_lookup, delete_read, delete_fill, delete_write, Is,
                DeleteSteps
  <2>2. \/ \E at \in {"cache", "read", "fill"} \cup DeleteSteps :
             call' = [call EXCEPT ![th] = [cur EXCEPT !.at = at]]
        \/ \E found \in BOOLEAN : call' = [call EXCEPT ![th] = Answer(cur, found)]
    BY <1>4 DEF read_db, fill, delete_lookup, delete_read, delete_fill, delete_write, Goto,
                DeleteSteps
  <2> HIDE DEF cur
  <2> QED BY <1>1, <2>1, <2>2, WindowShapes
<1>5. CASE clear(th)
  <2>1. call' = [call EXCEPT ![th] = Doing(Job("clear", db_blocks, {}))]
    BY <1>5 DEF clear, Start, Goto
  <2> QED BY <2>1, NewWindowed DEF Kinds
<1>6. CASE clear_next(th)
  <2>1. cur.at \in Kinds /\ \E h \in Hashes : delete_next(th, h)
    BY <1>6 DEF clear_next, Is, Kinds
  <2> QED BY <2>1, DeleteNextMoves
<1> QED BY <1>2, <1>3, <1>4, <1>5, <1>6

-----------------------------------------------------------------------------
(* Steps of the pruner *)

\* A job of the pruner is a call that a thread may be in.
LEMMA PrunerCalls ==
  \A kind \in Kinds, todo \in SUBSET Hashes, found \in SUBSET Hashes :
    /\ Doing(Job(kind, todo, found)) \in Calls
    /\ Placed(Doing(Job(kind, todo, found)))
<1> SUFFICES ASSUME NEW kind \in Kinds, NEW todo \in SUBSET Hashes, NEW found \in SUBSET Hashes
             PROVE  /\ Doing(Job(kind, todo, found)) \in Calls
                    /\ Placed(Doing(Job(kind, todo, found)))
  OBVIOUS
<1> DEFINE j == Job(kind, todo, found)
<1>1. j \in Jobs /\ j.kind = kind
  BY DEF Job, Jobs
<1>2. Doing(j).at = kind /\ Doing(j) \in Calls
  BY <1>1 DEF Doing, Calls
<1> HIDE DEF j
<1>3. Placed(Doing(j))
  BY <1>2 DEF Placed, Kinds, DeleteSteps
<1> QED BY <1>2, <1>3 DEF j

LEMMA MaybePrune ==
  ASSUME PrunerInv, NEW th \in Threads, NEW height \in Heights, maybe_prune(th, height)
  PROVE  PrunerInv'
<1>1. height \in Nat
  BY PrunerAssumption
<1> DEFINE c == Doing(Job(IF SnapshotDue(height) THEN "snapshot" ELSE "plan", {}, {}))
<1>2. c \in Calls /\ Placed(c) /\ Windowed(c)
  BY PrunerCalls, NewWindowed DEF Kinds
<1>3. call' = [call EXCEPT ![th] = c]
  BY DEF maybe_prune, Start, Goto
<1> HIDE DEF c
<1>4. StoreInv'
  BY <1>2, <1>3, OnlyMoves DEF maybe_prune, PrunerInv
<1>5. top' = (IF top >= height THEN top ELSE height)
  BY <1>1, TwoIntegers DEF maybe_prune, PrunerInv, WindowInv
<1>6. top' \in Nat /\ top <= top' /\ height <= top'
  BY <1>1, <1>5 DEF PrunerInv, WindowInv
<1>7. \A u \in Threads : Windowed(call[u])'
  BY <1>2, <1>3, <1>6, WindowMoves
<1>8. \A h \in pruned' : Prunable(h)'
  BY <1>6, PrunerAssumption DEF maybe_prune, PrunerInv, WindowInv, Prunable
<1>9. metadata' = metadata /\ snapshots \subseteq snapshots'
  BY DEF maybe_prune, put_snapshot
<1>10. LatestSnapshotExists'
  BY <1>9 DEF PrunerInv, WindowInv, LatestSnapshotExists, HasLatest, LatestFound
<1>11. pruning' = [height |-> height, up_to |-> 0]
  BY DEF maybe_prune
<1>12. pruning' \in [height : Nat, up_to : Nat] /\ pruning'.height <= top'
  BY <1>1, <1>6, <1>11
<1> QED BY <1>4, <1>6, <1>7, <1>8, <1>9, <1>10, <1>12 DEF PrunerInv, WindowInv

LEMMA SaveSnapshot ==
  ASSUME PrunerInv, NEW th \in Threads, save_snapshot(th)
  PROVE  PrunerInv'
<1> DEFINE c == Doing(Job("plan", {}, {}))
<1>1. c \in Calls /\ Placed(c) /\ Windowed(c)
  BY PrunerCalls, NewWindowed DEF Kinds
<1>2. call' = [call EXCEPT ![th] = c]
  BY DEF save_snapshot, Goto
<1> HIDE DEF c
<1>3. StoreInv'
  BY <1>1, <1>2, OnlyMoves DEF save_snapshot, PrunerInv
<1>4. top' = top /\ pruning' = pruning /\ pruned' = pruned
  BY DEF save_snapshot
<1>5. \A u \in Threads : Windowed(call[u])'
  <2>1. top' \in Nat /\ top <= top'
    BY <1>4 DEF PrunerInv, WindowInv
  <2> QED BY <1>1, <1>2, <2>1, WindowMoves
<1>6. metadata' \in Metadata /\ metadata'.last_snapshot_height = pruning.height
  <2>1. metadata \in Metadata /\ pruning.height \in Nat
    BY DEF PrunerInv, WindowInv
  <2>2. metadata' = [metadata EXCEPT !.last_snapshot_height = pruning.height,
                                     !.snapshot_count = @ + 1]
    BY DEF save_snapshot
  <2>3. metadata.snapshot_count + 1 \in Nat
    BY <2>1 DEF Metadata
  <2>4. metadata' = [last_pruned_height |-> metadata.last_pruned_height,
                     total_blocks_pruned |-> metadata.total_blocks_pruned,
                     last_snapshot_height |-> pruning.height,
                     snapshot_count |-> metadata.snapshot_count + 1]
    BY <2>1, <2>2 DEF Metadata
  <2> QED BY <2>1, <2>3, <2>4 DEF Metadata
<1>7. LatestSnapshotExists'
  <2>1. pruning.height \in snapshots'
    BY DEF save_snapshot
  <2> QED BY <1>6, <2>1 DEF LatestSnapshotExists, LatestFound
<1>8. \A h \in pruned' : Prunable(h)'
  BY <1>4 DEF PrunerInv, WindowInv, Prunable
<1> QED BY <1>3, <1>4, <1>5, <1>6, <1>7, <1>8 DEF PrunerInv, WindowInv

\* The steps that look for the blocks to prune.
LEMMA Planning ==
  ASSUME PrunerInv, NEW th \in Threads, plan(th) \/ range_done(th)
  PROVE  PrunerInv'
<1>1. /\ metadata \in Metadata /\ metadata.last_pruned_height \in Nat
      /\ pruning \in [height : Nat, up_to : Nat] /\ pruning.height <= top
      /\ pruning.height \in Nat /\ top \in Nat
  BY DEF PrunerInv, WindowInv, Metadata
<1>2. \E c \in Calls : call' = [call EXCEPT ![th] = c] /\ Placed(c) /\ Windowed(c)
  <2>1. Idle \in Calls /\ Placed(Idle) /\ Windowed(Idle)
    BY NewCalls, NewWindowed DEF Placed, DeleteSteps
  <2>2. CASE plan(th)
    <3> DEFINE up_to == PruneUpTo(pruning.height)
               todo == InRange(metadata.last_pruned_height + 1, up_to)
    <3>1. CASE up_to <= metadata.last_pruned_height
      BY <2>1, <2>2, <3>1 DEF plan, Goto
    <3>2. CASE ~(up_to <= metadata.last_pruned_height)
      <4>1. call' = [call EXCEPT ![th] = Doing(Job("range", todo, {}))]
        BY <2>2, <3>2 DEF plan, Goto
      <4>2. up_to = pruning.height - window_size /\ pruning.height > window_size
        BY <1>1, <3>2, PrunerAssumption DEF PruneUpTo
      <4>3. todo \in SUBSET Hashes
        BY DEF InRange, PrunerInv, StoreInv, DataInv
      <4>4. ASSUME NEW h \in todo PROVE Prunable(h)
        <5>1. h \in Hashes /\ HeightOf[h] >= metadata.last_pruned_height + 1
              /\ HeightOf[h] <= up_to /\ HeightOf[h] \in Nat
          BY <4>3, PrunerAssumption DEF InRange
        <5> HIDE DEF up_to
        <5> QED BY <1>1, <4>2, <5>1, PrunerAssumption DEF Prunable
      <4> HIDE DEF todo
      <4>5. \A h \in todo \cup {} : Prunable(h)
        BY <4>4
      <4> QED BY <4>1, <4>3, <4>5, PrunerCalls, NewWindowed DEF Kinds
    <3> QED BY <3>1, <3>2
  <2>3. CASE range_done(th)
    <3> DEFINE found == call[th].job.found
    <3>1. CASE found = {}
      BY <2>1, <2>3, <3>1 DEF range_done, Goto
    <3>2. CASE found # {}
      <4>1. call' = [call EXCEPT ![th] = Doing(Job("prune", found, found))]
        BY <2>3, <3>2 DEF range_done, Goto
      <4>2. call[th] \in Calls /\ Windowed(call[th]) /\ call[th].at = "range"
        BY <2>3 DEF range_done, Is, PrunerInv, StoreInv, CallInv, WindowInv
      <4>3. call[th].job \in Jobs /\ call[th].job.kind = "range"
        BY <4>2, CallShapes DEF Kinds
      <4>4. found \in SUBSET Hashes
        BY <4>3 DEF Jobs
      <4>5. \A h \in found \cup found : Prunable(h)
        BY <4>2, <4>3 DEF Windowed
      <4> HIDE DEF found
      <4> QED BY <4>1, <4>4, <4>5, PrunerCalls, NewWindowed DEF Kinds
    <3> QED BY <3>1, <3>2
  <2> QED BY <2>2, <2>3
<1>3. UNCHANGED <<db, cache, cache_size, ghosts, snapshots, metadata, pruned, top>>
  BY DEF plan, range_done
<1>4. pruning' \in [height : Nat, up_to : Nat] /\ pruning'.height <= top
  <2>1. NoCall \in [height : Nat, up_to : Nat] /\ NoCall.height <= top
    BY <1>1 DEF NoCall
  <2>2. PruneUpTo(pruning.height) \in Nat
    BY <1>1, PrunerAssumption DEF PruneUpTo
  <2>3. CASE plan(th)
    BY <1>1, <2>1, <2>2, <2>3 DEF plan
  <2>4. CASE range_done(th)
    BY <1>1, <2>1, <2>4 DEF range_done
  <2> QED BY <2>3, <2>4
<1>5. StoreInv'
  BY <1>2, <1>3, OnlyMoves DEF PrunerInv
<1>6. \A u \in Threads : Windowed(call[u])'
  <2>1. top' \in Nat /\ top <= top'
    BY <1>1, <1>3
  <2>2. PICK c \in Calls : call' = [call EXCEPT ![th] = c] /\ Windowed(c)
    BY <1>2
  <2> QED BY <2>1, <2>2, WindowMoves
<1>7. (\A h \in pruned' : Prunable(h)') /\ LatestSnapshotExists'
  BY <1>3 DEF PrunerInv, WindowInv, Prunable, LatestSnapshotExists, HasLatest, LatestFound
<1> QED BY <1>1, <1>3, <1>4, <1>5, <1>6, <1>7 DEF PrunerInv, WindowInv

LEMMA RangeNext ==
  ASSUME PrunerInv, NEW th \in Threads, range_next(th)
  PROVE  PrunerInv'
<1> DEFINE cur == call[th]
<1>1. cur \in Calls /\ Windowed(cur) /\ cur.at = "range"
  BY DEF range_next, Is, PrunerInv, StoreInv, CallInv, WindowInv
<1>2. cur.job \in Jobs /\ cur.job.kind = "range"
  BY <1>1, CallShapes DEF Kinds
<1>3. PICK h \in cur.job.todo :
        call' = [call EXCEPT ![th] = IF h \in cache THEN Answer(At("read", h, cur.job), TRUE)
                                     ELSE At("read", h, cur.job)]
  BY DEF range_next, Goto
<1> DEFINE get == At("read", h, cur.job)
<1>4. h \in Hashes
  BY <1>2 DEF Jobs
<1>5. get \in Calls /\ get.at = "read" /\ get.h = h
  <2> HIDE DEF cur
  <2>1. "read" \in {"cache", "read", "fill"} \cup DeleteSteps
    OBVIOUS
  <2> QED BY <1>2, <1>4, <2>1, NewCalls
<1>6. get.job = cur.job
  BY DEF At
<1> HIDE DEF get, cur
<1>7. Windowed(get)
  BY <1>1, <1>2, <1>5, <1>6 DEF Windowed
<1>8. Answer(get, TRUE) \in Calls /\ Answer(get, TRUE).at \in {"idle"} \cup Kinds
      /\ Windowed(Answer(get, TRUE))
  BY <1>5, <1>7, CallShapes, WindowShapes
<1>9. Placed(get) /\ Placed(Answer(get, TRUE))
  BY <1>5, <1>8 DEF Placed, Kinds, DeleteSteps
<1>10. PICK c \in Calls : call' = [call EXCEPT ![th] = c] /\ Placed(c) /\ Windowed(c)
  BY <1>3, <1>5, <1>7, <1>8, <1>9 DEF get
<1>11. UNCHANGED <<db, cache, cache_size, ghosts>> /\ UNCHANGED pvars
  BY DEF range_next
<1>12. StoreInv'
  BY <1>10, <1>11, OnlyMoves DEF PrunerInv
<1>13. WindowInv'
  BY <1>10, <1>11, WindowKeeps DEF pvars
<1> QED BY <1>12, <1>13 DEF PrunerInv

LEMMA PruneNext ==
  ASSUME PrunerInv, NEW th \in Threads, prune_next(th)
  PROVE  PrunerInv'
<1>1. call[th] \in Calls /\ Windowed(call[th]) /\ call[th].at = "prune"
  BY DEF prune_next, Is, PrunerInv, StoreInv, CallInv, WindowInv
<1>2. call[th].job \in Jobs /\ call[th].job.kind = "prune"
  BY <1>1, CallShapes DEF Kinds
<1>3. PICK h \in call[th].job.todo : delete_next(th, h) /\ pruned' = pruned \cup {h}
  BY DEF prune_next
<1>4. h \in Hashes
  BY <1>2 DEF Jobs
<1>5. StoreInv'
  <2>1. remove_from_cache(h) /\ deleted' = deleted \cup {h} /\ UNCHANGED <<db, durable>>
        /\ call' = [call EXCEPT ![th] = At("delete_lookup", h, call[th].job)]
    BY <1>3 DEF delete_next, Goto
  <2> QED BY <1>2, <1>4, <2>1, Announces DEF PrunerInv
<1>6. PICK c : call' = [call EXCEPT ![th] = c] /\ Windowed(c)
  BY <1>1, <1>3, DeleteNextMoves DEF Kinds
<1>7. Prunable(h)
  BY <1>1, <1>2 DEF Windowed
<1>8. UNCHANGED <<snapshots, metadata, pruning, top>>
  BY DEF prune_next
<1>9. \A g \in pruned' : g \in pruned \/ Prunable(g)
  BY <1>3, <1>7
<1>10. WindowInv'
  BY <1>6, <1>8, <1>9, WindowKeeps
<1> QED BY <1>5, <1>10 DEF PrunerInv

LEMMA PruneDone ==
  ASSUME PrunerInv, NEW th \in Threads, prune_done(th)
  PROVE  PrunerInv'
<1>1. call[th] \in Calls /\ call[th].at = "prune"
  BY DEF prune_done, Is, PrunerInv, StoreInv, CallInv
<1>2. call[th].job \in Jobs
  BY <1>1, CallShapes DEF Kinds
<1>3. Cardinality(call[th].job.found) \in Nat
  <2>1. call[th].job.found \in SUBSET Hashes
    BY <1>2 DEF Jobs
  <2> QED BY <2>1, FS_Subset, FS_CardinalityType, ConstantsAssumption
<1>4. Idle \in Calls /\ Placed(Idle) /\ Windowed(Idle)
  BY NewCalls, NewWindowed DEF Placed, DeleteSteps
<1>5. call' = [call EXCEPT ![th] = Idle]
      /\ UNCHANGED <<db, cache, cache_size, ghosts, snapshots, pruned, top>>
      /\ pruning' = NoCall
  BY DEF prune_done, Goto
<1>6. StoreInv'
  BY <1>4, <1>5, OnlyMoves DEF PrunerInv
<1>7. top' \in Nat /\ top <= top'
  BY <1>5 DEF PrunerInv, WindowInv
<1>8. \A u \in Threads : Windowed(call[u])'
  BY <1>4, <1>5, <1>7, WindowMoves
<1>9. metadata' \in Metadata /\ metadata'.last_snapshot_height = metadata.last_snapshot_height
  <2> DEFINE n == Cardinality(call[th].job.found)
  <2>1. metadata \in Metadata /\ pruning.up_to \in Nat
    BY DEF PrunerInv, WindowInv
  <2>2. metadata' = [metadata EXCEPT !.last_pruned_height = pruning.up_to,
                                     !.total_blocks_pruned = @ + n]
    BY DEF prune_done
  <2>3. metadata.total_blocks_pruned + n \in Nat
    BY <1>3, <2>1 DEF Metadata
  <2> HIDE DEF n
  <2>4. metadata' = [last_pruned_height |-> pruning.up_to,
                     total_blocks_pruned |-> metadata.total_blocks_pruned + n,
                     last_snapshot_height |-> metadata.last_snapshot_height,
                     snapshot_count |-> metadata.snapshot_count]
    BY <2>1, <2>2 DEF Metadata
  <2> QED BY <2>1, <2>3, <2>4 DEF Metadata
<1>10. LatestSnapshotExists'
  BY <1>5, <1>9 DEF PrunerInv, WindowInv, LatestSnapshotExists, HasLatest, LatestFound
<1>11. pruning' \in [height : Nat, up_to : Nat] /\ pruning'.height <= top'
  BY <1>5, <1>7 DEF NoCall
<1>12. \A h \in pruned' : Prunable(h)'
  BY <1>5 DEF PrunerInv, WindowInv, Prunable
<1> QED BY <1>6, <1>7, <1>8, <1>9, <1>10, <1>11, <1>12 DEF PrunerInv, WindowInv

LEMMA PruningCrash ==
  ASSUME PrunerInv, PrunerCrash
  PROVE  PrunerInv'
<1>1. StoreInv'
  BY CrashStep DEF PrunerCrash, PrunerInv
<1>2. call' = [th \in Threads |-> Idle] /\ pruning' = NoCall
      /\ UNCHANGED <<snapshots, metadata, pruned, top>>
  BY DEF PrunerCrash, Crash
<1>3. \A th \in Threads : Windowed(call[th])'
  BY <1>2 DEF Windowed, Idle
<1>4. pruning' \in [height : Nat, up_to : Nat] /\ pruning'.height <= top'
  BY <1>2 DEF NoCall, PrunerInv, WindowInv
<1>5. (\A h \in pruned' : Prunable(h)') /\ LatestSnapshotExists'
  BY <1>2 DEF PrunerInv, WindowInv, Prunable, LatestSnapshotExists, HasLatest, LatestFound
<1> QED BY <1>1, <1>2, <1>3, <1>4, <1>5 DEF PrunerInv, WindowInv

-----------------------------------------------------------------------------
(* Results *)

LEMMA InitPruner == PInit => PrunerInv
<1> SUFFICES ASSUME PInit PROVE PrunerInv
  OBVIOUS
<1>1. StoreInv
  BY InitStore DEF PInit
<1>2. \A th \in Threads : Windowed(call[th])
  BY DEF PInit, Init, Windowed, Idle
<1>3. metadata \in Metadata /\ metadata.last_snapshot_height = 0
  BY DEF PInit, Metadata
<1>4. pruning \in [height : Nat, up_to : Nat] /\ pruning.height <= top /\ top \in Nat
  BY DEF PInit, NoCall
<1> QED BY <1>1, <1>2, <1>3, <1>4
        DEF PInit, PrunerInv, WindowInv, LatestSnapshotExists, HasLatest

LEMMA NextPruner == PrunerInv /\ [PNext]_<<vars, pvars>> => PrunerInv'
<1> SUFFICES ASSUME PrunerInv, [PNext]_<<vars, pvars>> PROVE PrunerInv'
  OBVIOUS
<1>1. ASSUME NEW th \in Threads,
             \/ \E h \in Hashes : insert_block(th, h) \/ get_block(th, h) \/ delete_block(th, h)
             \/ cache_inserted(th) \/ read_db(th) \/ fill(th)
             \/ delete_lookup(th) \/ delete_read(th) \/ delete_fill(th) \/ delete_write(th)
             \/ clear(th) \/ clear_next(th) \/ clear_cache(th),
             UNCHANGED <<snapshots, metadata, pruning, pruned, top>>
      PROVE  PrunerInv'
  <2>1. Next
    BY <1>1 DEF Next
  <2>2. StoreInv'
    BY <2>1, NextStore DEF PrunerInv
  <2>3. PICK c : call' = [call EXCEPT ![th] = c] /\ Windowed(c)
    BY <1>1, StoreMoves
  <2>4. WindowInv'
    BY <1>1, <2>3, WindowKeeps
  <2> QED BY <2>2, <2>4 DEF PrunerInv
<1>2. CASE \E th \in Threads, h \in Hashes : Insert(th, h)
  BY <1>1, <1>2 DEF Insert
<1>3. CASE \E th \in Threads, height \in Heights : maybe_prune(th, height)
  BY <1>3, MaybePrune
<1>4. CASE \E th \in Threads : save_snapshot(th) \/ plan(th) \/ range_next(th) \/ range_done(th)
                               \/ prune_next(th) \/ prune_done(th)
  BY <1>4, SaveSnapshot, Planning, RangeNext, PruneNext, PruneDone
<1>5. CASE PrunerCrash
  BY <1>5, PruningCrash
<1>6. CASE UNCHANGED <<vars, pvars>>
  <2>1. UNCHANGED vars
    BY <1>6
  <2>2. StoreInv'
    BY <2>1, NextStore DEF PrunerInv
  <2>3. WindowInv'
    BY <1>6 DEF vars, pvars, PrunerInv, WindowInv, Windowed, Prunable, LatestSnapshotExists,
                HasLatest, LatestFound
  <2> QED BY <2>2, <2>3 DEF PrunerInv
<1>7. CASE /\ \/ \E th \in Threads, h \in Hashes : get_block(th, h) \/ delete_block(th, h)
              \/ \E th \in Threads :
                   \/ cache_inserted(th) \/ read_db(th) \/ fill(th)
                   \/ delete_lookup(th) \/ delete_read(th) \/ delete_fill(th)
                   \/ delete_write(th) \/ clear(th) \/ clear_next(th) \/ clear_cache(th)
           /\ UNCHANGED pvars
  BY <1>1, <1>7 DEF pvars
<1> QED BY <1>2, <1>3, <1>4, <1>5, <1>6, <1>7 DEF PNext

\* The inductive invariant of pruner and store together.
THEOREM PrunerInvariance == PSpec => []PrunerInv
BY InitPruner, NextPruner, PTL DEF PSpec

\* With the pruner at work the store keeps what it promises: an exact cache counter,
\* blocks and metadata together, and acknowledged blocks until their deletion.
THEOREM StoreUnderPruning ==
  PSpec => [](CacheAccounting /\ MetadataMatchesBlocks /\ StaleOnlyAfterDelete
              /\ DurableUntilDeleted)
<1>1. PrunerInv => CacheAccounting /\ MetadataMatchesBlocks /\ StaleOnlyAfterDelete
                   /\ DurableUntilDeleted
  BY DEF PrunerInv, StoreInv, DataInv
<1> QED BY <1>1, PrunerInvariance, PTL

\* maybe_prune deletes no block of the window below any height it was called with, and
\* no genesis block, whatever crashes and repeats.
THEOREM WindowIsKept == PSpec => []WindowKept
<1>1. PrunerInv => WindowKept
  BY DEF PrunerInv, WindowInv, WindowKept, Prunable
<1> QED BY <1>1, PrunerInvariance, PTL

\* The snapshot that the metadata call the latest exists, wherever the process stopped.
THEOREM SnapshotIsThere == PSpec => []LatestSnapshotExists
<1>1. PrunerInv => LatestSnapshotExists
  BY DEF PrunerInv, WindowInv
<1> QED BY <1>1, PrunerInvariance, PTL
=============================================================================
