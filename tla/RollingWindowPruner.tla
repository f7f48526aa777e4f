------------------------ MODULE RollingWindowPruner ------------------------
(***************************************************************************)
(* The pruner (src/src/storage/pruning.rs) over a BlockStore that other    *)
(* threads use: state snapshots and metadata in a database of its own, and *)
(* the deletion of the blocks below a window.  Its callers take turns (a   *)
(* mutex in the node runtime); a call is one step per database call, and a *)
(* crash may come between any two.  Snapshots are known by their height.   *)
(* Subtraction wraps at 64 bits, as in release builds.                     *)
(***************************************************************************)
EXTENDS BlockStore

CONSTANTS HeightOf,            \* [Hashes -> Nat]
          Heights,             \* current heights that callers pass
          window_size, snapshot_interval, pruning_threshold,
          U64_MAX

ASSUME PrunerAssumption ==
  /\ HeightOf \in [Hashes -> Nat]
  /\ Heights \subseteq 0..U64_MAX /\ U64_MAX \in Nat
  /\ window_size \in Nat /\ snapshot_interval \in Nat /\ pruning_threshold \in Nat

VARIABLES snapshots,     \* STATE_SNAPSHOTS_CF: heights with a snapshot
          metadata,      \* PRUNING_METADATA_CF
          pruning,       \* the call in progress, or NoCall
          pruned,        \* ghost: blocks maybe_prune deleted
          top,           \* ghost: greatest height passed to maybe_prune
          late           \* ghost: blocks inserted at a height that is pruned already

pvars == <<snapshots, metadata, pruning, pruned, top, late>>

NoCall == [height |-> 0, up_to |-> 0]

WrappingSub(m, n) == (m - n) % (U64_MAX + 1)

-----------------------------------------------------------------------------
(* maybe_prune *)

should_prune(height) == height >= pruning_threshold

\* Mutant: the subtraction saturates.
SnapshotDue_saturating(height) ==
  Max({height - metadata.last_snapshot_height, 0}) >= snapshot_interval

\* take_snapshot_if_needed; a height below that of the last snapshot wraps around.
SnapshotDue(height) ==
  WrappingSub(height, metadata.last_snapshot_height) >= snapshot_interval

\* The first write of take_state_snapshot.
put_snapshot(height) == snapshots' = snapshots \cup {height} /\ UNCHANGED metadata

maybe_prune(th, height) ==
  /\ pruning = NoCall
  /\ should_prune(height)
  /\ Start(th, Doing(Job(IF SnapshotDue(height) THEN "snapshot" ELSE "plan", {}, {})))
  /\ IF SnapshotDue(height) THEN put_snapshot(height) ELSE UNCHANGED <<snapshots, metadata>>
  /\ pruning' = [height |-> height, up_to |-> 0]
  /\ top' = Max({top, height})
  /\ UNCHANGED <<db, cache, cache_size, crashes, ghosts, pruned, late>>

\* Its second write: the metadata.
save_snapshot(th) ==
  /\ Is(th, "snapshot")
  /\ snapshots' = snapshots \cup {pruning.height}
  /\ metadata' = [metadata EXCEPT !.last_snapshot_height = pruning.height,
                                  !.snapshot_count = @ + 1]
  /\ Goto(th, Doing(Job("plan", {}, {})))
  /\ UNCHANGED <<db, cache, cache_size, calls, crashes, ghosts, pruning, pruned, top, late>>

\* Mutant: the window loses its last block.
PruneUpTo_short(height) == IF height > window_size THEN height - window_size + 1 ELSE 0

PruneUpTo(height) == IF height > window_size THEN height - window_size ELSE 0

\* get_blocks_by_height_range lists the stored hashes and reads their metadata ...
InRange(from, to) == {h \in db_blocks : HeightOf[h] >= from /\ HeightOf[h] <= to}

plan(th) ==
  /\ Is(th, "plan")
  /\ LET up_to == PruneUpTo(pruning.height) IN
     IF up_to <= metadata.last_pruned_height
     THEN Goto(th, Idle) /\ pruning' = NoCall
     ELSE /\ Goto(th, Doing(Job("range", InRange(metadata.last_pruned_height + 1, up_to), {})))
          /\ pruning' = [pruning EXCEPT !.up_to = up_to]
  /\ UNCHANGED <<db, cache, cache_size, calls, crashes, ghosts, snapshots, metadata, pruned,
                 top, late>>

\* ... and then gets the blocks one by one.
range_next(th) ==
  /\ Is(th, "range")
  /\ \E h \in call[th].job.todo :
       LET get == At("read", h, call[th].job) IN
       Goto(th, IF h \in cache THEN Answer(get, TRUE) ELSE get)
  /\ UNCHANGED <<db, cache, cache_size, calls, crashes, ghosts, pvars>>

\* With nothing to prune the call returns and the range is not recorded.
range_done(th) ==
  /\ Is(th, "range") /\ call[th].job.todo = {}
  /\ LET found == call[th].job.found IN
     IF found = {} THEN Goto(th, Idle) /\ pruning' = NoCall
     ELSE Goto(th, Doing(Job("prune", found, found))) /\ UNCHANGED pruning
  /\ UNCHANGED <<db, cache, cache_size, calls, crashes, ghosts, snapshots, metadata, pruned,
                 top, late>>

\* Mutant: the metadata is saved before the blocks are deleted.
prune_next_saved(th) ==
  /\ Is(th, "prune")
  /\ \E h \in call[th].job.todo : delete_next(th, h) /\ pruned' = pruned \cup {h}
  /\ metadata' = [metadata EXCEPT !.last_pruned_height = pruning.up_to]
  /\ UNCHANGED <<snapshots, pruning, top, late>>

\* delete_block for the lowest block that remains.
prune_next(th) ==
  /\ Is(th, "prune")
  /\ \E h \in call[th].job.todo :
       /\ \A g \in call[th].job.todo : HeightOf[h] <= HeightOf[g]
       /\ delete_next(th, h)
       /\ pruned' = pruned \cup {h}
  /\ UNCHANGED <<snapshots, metadata, pruning, top, late>>

prune_done(th) ==
  /\ Is(th, "prune") /\ call[th].job.todo = {}
  /\ metadata' = [metadata EXCEPT !.last_pruned_height = pruning.up_to,
                                  !.total_blocks_pruned = @ + Cardinality(call[th].job.found)]
  /\ Goto(th, Idle)
  /\ pruning' = NoCall
  /\ UNCHANGED <<db, cache, cache_size, calls, crashes, ghosts, snapshots, pruned, top, late>>

-----------------------------------------------------------------------------

\* A block that comes in below what is pruned, or is being pruned.
Insert(th, h) ==
  /\ insert_block(th, h)
  /\ late' = IF HeightOf[h] <= Max({metadata.last_pruned_height, pruning.up_to})
             THEN late \cup {h} ELSE late
  /\ UNCHANGED <<snapshots, metadata, pruning, pruned, top>>

PrunerCrash == Crash /\ pruning' = NoCall /\ UNCHANGED <<snapshots, metadata, pruned, top, late>>

\* get_latest_snapshot: no snapshot is the same as height 0.
HasLatest == metadata.last_snapshot_height # 0
LatestFound == metadata.last_snapshot_height \in snapshots

PInit ==
  /\ Init
  /\ snapshots = {}
  /\ metadata = [last_pruned_height |-> 0, total_blocks_pruned |-> 0,
                 last_snapshot_height |-> 0, snapshot_count |-> 0]
  /\ pruning = NoCall
  /\ pruned = {} /\ top = 0 /\ late = {}

PNext ==
  \/ \E th \in Threads, h \in Hashes : Insert(th, h)
  \/ \E th \in Threads, height \in Heights : maybe_prune(th, height)
  \/ \E th \in Threads :
       \/ save_snapshot(th) \/ plan(th) \/ range_next(th) \/ range_done(th)
       \/ prune_next(th) \/ prune_done(th)
  \/ PrunerCrash
  \/ /\ \/ \E th \in Threads, h \in Hashes : get_block(th, h) \/ delete_block(th, h)
        \/ \E th \in Threads :
             \/ cache_inserted(th) \/ read_db(th) \/ fill(th)
             \/ delete_lookup(th) \/ delete_read(th) \/ delete_fill(th) \/ delete_write(th)
             \/ clear(th) \/ clear_next(th) \/ clear_cache(th)
     /\ UNCHANGED pvars

PSpec == PInit /\ [][PNext]_<<vars, pvars>>

-----------------------------------------------------------------------------
(* Properties *)

\* The pruner deletes no block of the window below any height it was called with, and
\* no genesis block, whatever crashes and repeats.
WindowKept == \A h \in pruned : HeightOf[h] >= 1 /\ HeightOf[h] + window_size <= top

Deleting == \E th \in Threads : call[th] # Idle /\ call[th].job.kind = "prune"

\* Blocks are deleted only when a snapshot within snapshot_interval below the height
\* exists, also after a call with a greater height took one far above: then the
\* subtraction in take_snapshot_if_needed wraps and a new one is taken.
SnapshotBeforeDelete ==
  Deleting => \E s \in snapshots : s <= pruning.height /\ pruning.height - s < snapshot_interval

\* What the metadata calls the latest snapshot exists, wherever the process stopped.
LatestSnapshotExists == HasLatest => LatestFound

\* Below last_pruned_height there are only blocks that came too late: a crash in the
\* middle of the deletion leaves the rest to be pruned again.
PrunedRangeEmpty ==
  \A h \in db_blocks : HeightOf[h] \in 1..metadata.last_pruned_height => h \in late

\* "Rolling pruning windows to maintain bounded storage" (pruning.rs:34): between calls
\* nothing is stored at a height that was pruned.
StorageBounded ==
  pruning = NoCall => \A h \in db_blocks : HeightOf[h] \notin 1..metadata.last_pruned_height

\* "Metadata tracking for pruning operations" (pruning.rs:37): between calls the counter
\* has the blocks that were pruned.
PrunedAreCounted ==
  pruning = NoCall => Cardinality(pruned) <= metadata.total_blocks_pruned
=============================================================================
