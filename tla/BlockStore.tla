----------------------------- MODULE BlockStore -----------------------------
(***************************************************************************)
(* The block store (src/src/storage/block_store.rs): three RocksDB column  *)
(* families written by atomic batches, and a bounded in-memory cache in    *)
(* front of them.  The handle is cloned freely, so any number of threads   *)
(* use it at once; an operation is one step per database call or critical  *)
(* section.  A block is its hash: what is stored under a hash never        *)
(* differs.  The database keeps its contents when the process crashes.     *)
(***************************************************************************)
EXTENDS Integers, FiniteSetsExt

CONSTANTS Hashes,            \* block hashes
          Txs,               \* transaction hashes
          TxsOf,             \* [Hashes -> SUBSET Txs]
          Threads,           \* users of the store
          cache_size_limit,
          MaxCalls,          \* bound: operations started
          MaxCrashes         \* bound: crashes of the process

ASSUME ConstantsAssumption ==
  /\ TxsOf \in [Hashes -> SUBSET Txs]
  /\ IsFiniteSet(Hashes)
  /\ cache_size_limit \in Nat \ {0}
  /\ MaxCalls \in Nat /\ MaxCrashes \in Nat

VARIABLES db_blocks,    \* BLOCKS_CF
          db_metadata,  \* METADATA_CF
          db_txs,       \* TRANSACTIONS_CF
          cache,        \* cached blocks
          cache_size,   \* the separate counter of cached blocks
          call,         \* thread -> the operation it is in
          calls, crashes,
          deleted,      \* ghost: blocks that delete_block was asked to delete
          gone,         \* ghost: deleted since they were last inserted
          durable,      \* ghost: blocks that insert_block returned Ok for
          overwritten   \* ghost: blocks inserted while they were stored

vars == <<db_blocks, db_metadata, db_txs, cache, cache_size, call, calls,
          crashes, deleted, gone, durable, overwritten>>
db == <<db_blocks, db_metadata, db_txs>>
ghosts == <<deleted, gone, durable, overwritten>>

Idle == [at |-> "idle"]

\* A job goes through the blocks of todo one by one and collects those it found; One is
\* a call for a single block.
Job(kind, todo, found) == [kind |-> kind, todo |-> todo, found |-> found]
One == Job("one", {}, {})
Doing(job) == [at |-> job.kind, job |-> job]
At(at, h, job) == [at |-> at, h |-> h, job |-> job]

\* Where a thread goes on when get_block or delete_block returns.
Answer(c, found) ==
  IF c.job = One THEN Idle
  ELSE Doing([c.job EXCEPT !.todo = @ \ {c.h},
                           !.found = IF found THEN @ \cup {c.h} ELSE @])
Is(th, at) == call[th].at = at
Goto(th, next) == call' = [call EXCEPT ![th] = next]
Start(th, next) == /\ call[th] = Idle /\ calls < MaxCalls
                   /\ calls' = calls + 1
                   /\ Goto(th, next)

-----------------------------------------------------------------------------
(* The cache *)

\* Mutant: the limit is tested one block too late.
Surplus_late == Max({0, cache_size - cache_size_limit})

Surplus == Max({0, cache_size + 1 - cache_size_limit})

\* Any entries go while the cache is full, the block itself included.
add_to_cache(h) ==
  \E kept \in SUBSET cache :
    /\ Cardinality(cache \ kept) = Min({Surplus, Cardinality(cache)})
    /\ cache' = kept \cup {h}
    /\ cache_size' = Cardinality(kept) + cache_size - Cardinality(cache)
                     + (IF h \in kept THEN 0 ELSE 1)

remove_from_cache(h) ==
  /\ cache' = cache \ {h}
  /\ cache_size' = IF h \in cache THEN cache_size - 1 ELSE cache_size

-----------------------------------------------------------------------------
(* insert_block: one batch, then the cache *)

\* Mutant: a failed write is ignored.
put_unchecked(h) == UNCHANGED db

put_batch(h) ==
  /\ db_blocks' = db_blocks \cup {h}
  /\ db_metadata' = db_metadata \cup {h}
  /\ db_txs' = db_txs \cup TxsOf[h]

insert_block(th, h) ==
  /\ Start(th, At("cache", h, One))
  /\ put_batch(h)
  /\ gone' = gone \ {h}
  /\ overwritten' = overwritten \cup (db_blocks \cap {h})
  /\ UNCHANGED <<cache, cache_size, crashes, deleted, durable>>

cache_inserted(th) ==
  /\ Is(th, "cache")
  /\ add_to_cache(call[th].h)
  /\ durable' = durable \cup {call[th].h}
  /\ Goto(th, Idle)
  /\ UNCHANGED <<db, calls, crashes, deleted, gone, overwritten>>

-----------------------------------------------------------------------------
(* get_block: the cache, then the database, then the cache again *)

get_block(th, h) ==
  /\ Start(th, IF h \in cache THEN Idle ELSE At("read", h, One))
  /\ UNCHANGED <<db, cache, cache_size, crashes, ghosts>>

read_db(th) ==
  /\ Is(th, "read")
  /\ Goto(th, IF call[th].h \in db_blocks THEN [call[th] EXCEPT !.at = "fill"]
              ELSE Answer(call[th], FALSE))
  /\ UNCHANGED <<db, cache, cache_size, calls, crashes, ghosts>>

fill(th) ==
  /\ Is(th, "fill")
  /\ add_to_cache(call[th].h)
  /\ Goto(th, Answer(call[th], TRUE))
  /\ UNCHANGED <<db, calls, crashes, ghosts>>

-----------------------------------------------------------------------------
(* delete_block and clear *)

delete_block(th, h) ==
  /\ Start(th, At("delete_lookup", h, One))
  /\ remove_from_cache(h)
  /\ deleted' = deleted \cup {h}
  /\ UNCHANGED <<db, crashes, gone, durable, overwritten>>

\* get_block inside delete_block, to find the transactions of the block.
delete_lookup(th) ==
  /\ Is(th, "delete_lookup")
  /\ Goto(th, [call[th] EXCEPT !.at =
                 IF call[th].h \in cache THEN "delete_all" ELSE "delete_read"])
  /\ UNCHANGED <<db, cache, cache_size, calls, crashes, ghosts>>

delete_read(th) ==
  /\ Is(th, "delete_read")
  /\ Goto(th, [call[th] EXCEPT !.at =
                 IF call[th].h \in db_blocks THEN "delete_fill" ELSE "delete_bare"])
  /\ UNCHANGED <<db, cache, cache_size, calls, crashes, ghosts>>

delete_fill(th) ==
  /\ Is(th, "delete_fill")
  /\ add_to_cache(call[th].h)
  /\ Goto(th, [call[th] EXCEPT !.at = "delete_all"])
  /\ UNCHANGED <<db, calls, crashes, ghosts>>

\* The batch; the transactions are only known when the block was found.
delete_batch(h, found) ==
  /\ db_blocks' = db_blocks \ {h}
  /\ db_metadata' = db_metadata \ {h}
  /\ db_txs' = IF found THEN db_txs \ TxsOf[h] ELSE db_txs

delete_write(th) ==
  /\ Is(th, "delete_all") \/ Is(th, "delete_bare")
  /\ delete_batch(call[th].h, Is(th, "delete_all"))
  /\ gone' = gone \cup {call[th].h}
  /\ Goto(th, Answer(call[th], FALSE))
  /\ UNCHANGED <<cache, cache_size, calls, crashes, deleted, durable, overwritten>>

\* clear lists the stored blocks, deletes them one by one and empties the cache.
clear(th) ==
  /\ Start(th, Doing(Job("clear", db_blocks, {})))
  /\ UNCHANGED <<db, cache, cache_size, crashes, ghosts>>

\* A job's next call of delete_block.
delete_next(th, h) ==
  /\ h \in call[th].job.todo
  /\ remove_from_cache(h)
  /\ deleted' = deleted \cup {h}
  /\ Goto(th, At("delete_lookup", h, call[th].job))
  /\ UNCHANGED <<db, calls, crashes, gone, durable, overwritten>>

clear_next(th) == Is(th, "clear") /\ \E h \in Hashes : delete_next(th, h)

clear_cache(th) ==
  /\ Is(th, "clear") /\ call[th].job.todo = {}
  /\ cache' = {} /\ cache_size' = 0
  /\ Goto(th, Idle)
  /\ UNCHANGED <<db, calls, crashes, ghosts>>

-----------------------------------------------------------------------------

\* The process dies in the middle of anything; new_with_path opens the same
\* database with an empty cache.
Crash ==
  /\ crashes < MaxCrashes
  /\ crashes' = crashes + 1
  /\ cache' = {} /\ cache_size' = 0
  /\ call' = [th \in Threads |-> Idle]
  /\ UNCHANGED <<db, calls, ghosts>>

block_exists(h) == h \in cache \/ h \in db_blocks

Init ==
  /\ db_blocks = {} /\ db_metadata = {} /\ db_txs = {}
  /\ cache = {} /\ cache_size = 0
  /\ call = [th \in Threads |-> Idle]
  /\ calls = 0 /\ crashes = 0
  /\ deleted = {} /\ gone = {} /\ durable = {} /\ overwritten = {}

Next ==
  \/ \E th \in Threads, h \in Hashes :
       insert_block(th, h) \/ get_block(th, h) \/ delete_block(th, h)
  \/ \E th \in Threads :
       \/ cache_inserted(th) \/ read_db(th) \/ fill(th)
       \/ delete_lookup(th) \/ delete_read(th) \/ delete_fill(th) \/ delete_write(th)
       \/ clear(th) \/ clear_next(th) \/ clear_cache(th)
  \/ Crash

Spec == Init /\ [][Next]_vars

-----------------------------------------------------------------------------
(* Properties *)

\* Types; in particular the cache counter, an unsigned integer in the code, never
\* goes below zero.
TypeOK ==
  /\ db_blocks \subseteq Hashes /\ db_metadata \subseteq Hashes
  /\ db_txs \subseteq Txs /\ cache \subseteq Hashes /\ cache_size \in Nat
  /\ calls \in 0..MaxCalls /\ crashes \in 0..MaxCrashes
  /\ deleted \subseteq Hashes /\ gone \subseteq Hashes
  /\ durable \subseteq Hashes /\ overwritten \subseteq Hashes
  /\ \A th \in Threads : call[th] # Idle =>
       /\ call[th].job.todo \subseteq Hashes /\ call[th].job.found \subseteq Hashes
       /\ call[th].at # call[th].job.kind => call[th].h \in Hashes

\* The counter that add_to_cache and remove_from_cache keep beside the cache
\* counts it exactly, and the cache stays within its limit, whatever threads
\* insert, read and delete at once.
CacheAccounting ==
  cache_size = Cardinality(cache) /\ cache_size <= cache_size_limit

\* Blocks and their metadata are written and deleted in one batch, so they never
\* come apart, in a crash neither.
MetadataMatchesBlocks == db_metadata = db_blocks

\* Reads through the cache are reads of the database as long as nobody deletes:
\* a cached block is stored, unless delete_block was called for it.
StaleOnlyAfterDelete == cache \subseteq db_blocks \cup deleted

\* A block for which insert_block returned Ok is in the database, after a crash
\* too, until someone deletes it.
DurableUntilDeleted == durable \subseteq db_blocks \cup deleted

\* After delete_block(h) returned, and with nobody else using the store,
\* block_exists(h) is false (test_delete_block asserts it).
DeletedIsGone ==
  (\A th \in Threads : call[th] = Idle) => \A h \in gone : ~block_exists(h)

\* test_duplicate_block_rejection asserts that inserting a stored block is an
\* error.
DuplicatesRefused == overwritten = {}

\* insert_block promises to "Store individual transactions": those of a stored
\* block are found in TRANSACTIONS_CF.
TransactionsOfStoredBlocks == \A h \in db_blocks : TxsOf[h] \subseteq db_txs
=============================================================================
