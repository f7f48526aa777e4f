-------------------------- MODULE BlockStoreProofs --------------------------
(***************************************************************************)
(* Proofs about the block store for any blocks, any number of threads and  *)
(* any size of the cache, with crashes between any two steps: the counter  *)
(* beside the cache is exact, blocks and metadata stay together, and       *)
(* acknowledged or cached blocks are stored unless deletion was asked for. *)
(***************************************************************************)
EXTENDS BlockStore, FiniteSetTheorems, TLAPS

\* The kinds of jobs, those of the pruner included; between two calls of its own a
\* thread rests at the kind of its job.
Kinds == {"one", "clear", "snapshot", "plan", "range", "prune"}
Jobs == [kind : Kinds, todo : SUBSET Hashes, found : SUBSET Hashes]
DeleteSteps == {"delete_lookup", "delete_read", "delete_fill", "delete_all", "delete_bare"}
Calls ==
  {Idle} \cup {Doing(job) : job \in Jobs}
         \cup [at : {"cache", "read", "fill"} \cup DeleteSteps, h : Hashes, job : Jobs]

\* Blocks that were written and not lost: those gone since were asked to be deleted.
Accounted == db_blocks \cup deleted

\* A thread about to cache a block has seen it written, and one inside delete_block
\* has announced the deletion.
Placed(c) == /\ c.at \in {"cache", "fill"} => c.h \in Accounted
             /\ c.at \in DeleteSteps => c.h \in deleted

DataInv == /\ cache \subseteq Hashes /\ db_blocks \subseteq Hashes
           /\ CacheAccounting /\ MetadataMatchesBlocks
           /\ StaleOnlyAfterDelete /\ DurableUntilDeleted
CallInv == call \in [Threads -> Calls] /\ \A th \in Threads : Placed(call[th])
StoreInv == DataInv /\ CallInv

-----------------------------------------------------------------------------
(* The cache *)

\* The greater and the smaller of two integers.
LEMMA TwoIntegers ==
  ASSUME NEW m \in Int, NEW n \in Int
  PROVE  Max({m, n}) = (IF m >= n THEN m ELSE n) /\ Min({m, n}) = (IF m <= n THEN m ELSE n)
<1>1. \E x \in {m, n} : \A y \in {m, n} : x >= y
  OBVIOUS
<1>2. \E x \in {m, n} : \A y \in {m, n} : x =< y
  OBVIOUS
<1>3. Max({m, n}) \in {m, n} /\ \A y \in {m, n} : Max({m, n}) >= y
  BY <1>1 DEF Max
<1>4. Min({m, n}) \in {m, n} /\ \A y \in {m, n} : Min({m, n}) =< y
  BY <1>2 DEF Min
<1> QED BY <1>3, <1>4

\* add_to_cache keeps the counter exact and the cache within its limit.
LEMMA AddCounts ==
  ASSUME DataInv, NEW h \in Hashes, add_to_cache(h)
  PROVE  cache' \subseteq cache \cup {h} /\ CacheAccounting'
<1>1. PICK kept \in SUBSET cache :
        /\ Cardinality(cache \ kept) = Min({Surplus, Cardinality(cache)})
        /\ cache' = kept \cup {h}
        /\ cache_size' = Cardinality(kept) + cache_size - Cardinality(cache)
                         + (IF h \in kept THEN 0 ELSE 1)
  BY DEF add_to_cache
<1> DEFINE n == Cardinality(cache)
           m == Cardinality(kept)
<1>2. IsFiniteSet(cache) /\ IsFiniteSet(kept)
  BY FS_Subset, ConstantsAssumption DEF DataInv
<1>3. n \in Nat /\ m \in Nat /\ cache_size = n /\ n <= cache_size_limit
  BY <1>2, FS_CardinalityType DEF DataInv, CacheAccounting
<1>4. Cardinality(cache \ kept) = n - m
  <2>1. cache \cap kept = kept
    OBVIOUS
  <2> QED BY <1>2, <2>1, FS_Difference
<1>5. Surplus = IF n = cache_size_limit THEN 1 ELSE 0
  <2>1. 0 \in Int /\ n + 1 - cache_size_limit \in Int
    BY <1>3, ConstantsAssumption
  <2>2. Surplus = IF 0 >= n + 1 - cache_size_limit THEN 0 ELSE n + 1 - cache_size_limit
    BY <1>3, <2>1, TwoIntegers DEF Surplus
  <2> QED BY <1>3, <2>2, ConstantsAssumption
<1>6. Min({Surplus, n}) = Surplus
  <2>1. Surplus \in Int /\ n \in Int /\ Surplus <= n
    BY <1>3, <1>5, ConstantsAssumption
  <2> HIDE DEF n
  <2> QED BY <2>1, TwoIntegers
<1>7. Cardinality(cache') = IF h \in kept THEN m ELSE m + 1
  BY <1>1, <1>2, FS_AddElement
<1>8. n - m = Surplus
  BY <1>1, <1>4, <1>6
<1>9. cache_size' = Cardinality(cache')
  BY <1>1, <1>3, <1>7
<1>10. cache_size' <= cache_size_limit
  <2> HIDE DEF n, m
  <2> QED BY <1>3, <1>5, <1>7, <1>8, <1>9, ConstantsAssumption
<1>11. cache' \subseteq cache \cup {h}
  BY <1>1
<1> QED BY <1>9, <1>10, <1>11 DEF CacheAccounting

\* So does remove_from_cache.
LEMMA RemoveCounts ==
  ASSUME DataInv, NEW h, remove_from_cache(h)
  PROVE  cache' \subseteq cache /\ CacheAccounting'
<1>1. IsFiniteSet(cache)
  BY FS_Subset, ConstantsAssumption DEF DataInv
<1>2. Cardinality(cache) \in Nat /\ cache_size = Cardinality(cache)
      /\ cache_size <= cache_size_limit /\ cache_size_limit \in Nat
  BY <1>1, FS_CardinalityType, ConstantsAssumption DEF DataInv, CacheAccounting
<1>3. Cardinality(cache \ {h}) =
        IF h \in cache THEN Cardinality(cache) - 1 ELSE Cardinality(cache)
  BY <1>1, FS_RemoveElement
<1>4. cache' = cache \ {h}
      /\ cache_size' = IF h \in cache THEN cache_size - 1 ELSE cache_size
  BY DEF remove_from_cache
<1>5. cache_size' = Cardinality(cache') /\ cache_size' <= cache_size_limit
  BY <1>2, <1>3, <1>4
<1> QED BY <1>4, <1>5 DEF CacheAccounting

LEMMA EmptyCounts ==
  ASSUME cache' = {}, cache_size' = 0
  PROVE  CacheAccounting'
BY FS_EmptySet, ConstantsAssumption DEF CacheAccounting

-----------------------------------------------------------------------------
(* The calls *)

\* Records of the calls: where a changed or answered call leads.
LEMMA CallShapes ==
  ASSUME NEW c \in Calls
  PROVE  /\ c.at \in {"cache", "read", "fill"} \cup DeleteSteps =>
              /\ c.h \in Hashes /\ c.job \in Jobs
              /\ \A at \in {"cache", "read", "fill"} \cup DeleteSteps :
                   /\ [c EXCEPT !.at = at] \in Calls
                   /\ [c EXCEPT !.at = at].at = at /\ [c EXCEPT !.at = at].h = c.h
              /\ \A found \in BOOLEAN :
                   /\ Answer(c, found) \in Calls
                   /\ Answer(c, found).at \in {"idle"} \cup Kinds
         /\ c.at \in Kinds => c.job \in Jobs /\ c.job.kind = c.at
<1>1. ASSUME c.at \in {"cache", "read", "fill"} \cup DeleteSteps
      PROVE  c \in [at : {"cache", "read", "fill"} \cup DeleteSteps, h : Hashes, job : Jobs]
  BY <1>1 DEF Calls, Idle, Doing, Jobs, Kinds, DeleteSteps
<1>2. ASSUME c \in [at : {"cache", "read", "fill"} \cup DeleteSteps, h : Hashes, job : Jobs],
             NEW at \in {"cache", "read", "fill"} \cup DeleteSteps
      PROVE  /\ [c EXCEPT !.at = at] \in Calls
             /\ [c EXCEPT !.at = at].at = at /\ [c EXCEPT !.at = at].h = c.h
  BY <1>2 DEF Calls
<1>3. ASSUME c \in [at : {"cache", "read", "fill"} \cup DeleteSteps, h : Hashes, job : Jobs],
             NEW found \in BOOLEAN
      PROVE  Answer(c, found) \in Calls /\ Answer(c, found).at \in {"idle"} \cup Kinds
  <2> DEFINE j == [c.job EXCEPT !.todo = @ \ {c.h},
                                !.found = IF found THEN @ \cup {c.h} ELSE @]
  <2>1. c.job \in Jobs /\ c.h \in Hashes
    BY <1>3
  <2>2. j \in Jobs
    BY <2>1 DEF Jobs
  <2>3. j.kind \in Kinds
    BY <2>2 DEF Jobs
  <2>4. Answer(c, found) = IF c.job = One THEN Idle ELSE Doing(j)
    BY DEF Answer
  <2> HIDE DEF j
  <2>5. Doing(j).at = j.kind
    BY DEF Doing
  <2>6. Idle \in Calls /\ Idle.at = "idle"
    BY DEF Calls, Idle
  <2>7. Doing(j) \in Calls
    BY <2>2 DEF Calls
  <2> QED BY <2>3, <2>4, <2>5, <2>6, <2>7
<1>4. c.at \in Kinds => c.job \in Jobs /\ c.job.kind = c.at
  BY DEF Calls, Idle, Doing, Kinds, DeleteSteps
<1> QED BY <1>1, <1>2, <1>3, <1>4

\* A step that moves one thread to a place it may be in, and loses no account of a
\* block, keeps every thread in its place.
LEMMA Moves ==
  ASSUME CallInv, NEW th \in Threads, NEW c \in Calls, call' = [call EXCEPT ![th] = c],
         Accounted \subseteq Accounted', deleted \subseteq deleted',
         c.at \in {"cache", "fill"} => c.h \in Accounted',
         c.at \in DeleteSteps => c.h \in deleted'
  PROVE  CallInv'
<1>1. call' \in [Threads -> Calls]
  BY DEF CallInv
<1>2. ASSUME NEW u \in Threads
      PROVE  /\ call'[u].at \in {"cache", "fill"} => call'[u].h \in Accounted'
             /\ call'[u].at \in DeleteSteps => call'[u].h \in deleted'
  <2>1. CASE u = th
    <3>1. call'[u] = c
      BY <2>1 DEF CallInv
    <3> QED BY <3>1
  <2>2. CASE u # th
    <3>1. call'[u] = call[u] /\ Placed(call[u])
      BY <2>2 DEF CallInv
    <3> QED BY <3>1 DEF Placed
  <2> QED BY <2>1, <2>2
<1> QED BY <1>1, <1>2 DEF CallInv, Placed

-----------------------------------------------------------------------------
(* The steps *)

LEMMA InitStore == Init => StoreInv
<1> SUFFICES ASSUME Init PROVE StoreInv
  OBVIOUS
<1>1. CacheAccounting
  BY FS_EmptySet, ConstantsAssumption DEF Init, CacheAccounting
<1>2. DataInv
  BY <1>1 DEF Init, DataInv, MetadataMatchesBlocks, StaleOnlyAfterDelete, DurableUntilDeleted
<1>3. Idle \in Calls /\ Idle.at = "idle"
  BY DEF Calls, Idle
<1>4. CallInv
  BY <1>3 DEF Init, CallInv, Placed, DeleteSteps
<1> QED BY <1>2, <1>4 DEF StoreInv

\* A new call is one for a single block, or a clear of what is stored.
LEMMA NewCalls ==
  /\ Idle \in Calls /\ Idle.at = "idle"
  /\ \A h \in Hashes, at \in {"cache", "read", "fill"} \cup DeleteSteps, job \in Jobs :
       /\ At(at, h, job) \in Calls
       /\ At(at, h, job).at = at /\ At(at, h, job).h = h
  /\ One \in Jobs
BY DEF Idle, At, One, Job, Jobs, Kinds, Calls

\* A step that leaves database, cache and ghosts alone.
LEMMA OnlyMoves ==
  ASSUME StoreInv, UNCHANGED <<db, cache, cache_size, ghosts>>,
         NEW th \in Threads, NEW c \in Calls, call' = [call EXCEPT ![th] = c], Placed(c)
  PROVE  StoreInv'
<1>1. DataInv'
  BY DEF StoreInv, DataInv, CacheAccounting, MetadataMatchesBlocks, StaleOnlyAfterDelete,
         DurableUntilDeleted, db, ghosts
<1>2. Accounted' = Accounted /\ deleted' = deleted
  BY DEF Accounted, db, ghosts
<1>3. CallInv'
  BY <1>2, Moves DEF StoreInv, Placed
<1> QED BY <1>1, <1>3 DEF StoreInv

\* A step that adds an accounted block to the cache, and may acknowledge it.
LEMMA Caches ==
  ASSUME StoreInv, NEW h \in Hashes \cap Accounted, add_to_cache(h),
         UNCHANGED <<db, deleted>>, durable' \subseteq durable \cup {h},
         NEW th \in Threads, NEW c \in Calls, call' = [call EXCEPT ![th] = c], Placed(c)
  PROVE  StoreInv'
<1>1. cache' \subseteq cache \cup {h} /\ CacheAccounting'
  BY AddCounts DEF StoreInv
<1>2. DataInv'
  BY <1>1 DEF StoreInv, DataInv, MetadataMatchesBlocks, StaleOnlyAfterDelete,
              DurableUntilDeleted, Accounted, db
<1>3. Accounted' = Accounted /\ deleted' = deleted
  BY DEF Accounted, db
<1>4. CallInv'
  BY <1>3, Moves DEF StoreInv, Placed
<1> QED BY <1>2, <1>4 DEF StoreInv

\* The first step of delete_block, whoever calls it.
LEMMA Announces ==
  ASSUME StoreInv, NEW h \in Hashes, remove_from_cache(h), deleted' = deleted \cup {h},
         UNCHANGED <<db, durable>>, NEW th \in Threads, NEW job \in Jobs,
         call' = [call EXCEPT ![th] = At("delete_lookup", h, job)]
  PROVE  StoreInv'
<1>1. cache' \subseteq cache /\ CacheAccounting'
  BY RemoveCounts DEF StoreInv
<1>2. DataInv'
  BY <1>1 DEF StoreInv, DataInv, MetadataMatchesBlocks, StaleOnlyAfterDelete,
              DurableUntilDeleted, db
<1>3. Accounted \subseteq Accounted' /\ deleted \subseteq deleted' /\ h \in deleted'
  BY DEF Accounted, db
<1> DEFINE c == At("delete_lookup", h, job)
<1>4. c \in Calls /\ c.at = "delete_lookup" /\ c.h = h
  BY NewCalls DEF DeleteSteps
<1> HIDE DEF c
<1>5. call' = [call EXCEPT ![th] = c]
  BY DEF c
<1>6. CallInv'
  BY <1>3, <1>4, <1>5, Moves DEF StoreInv
<1> QED BY <1>2, <1>6 DEF StoreInv

LEMMA InsertStep ==
  ASSUME StoreInv, NEW th \in Threads, NEW h \in Hashes, insert_block(th, h)
  PROVE  StoreInv'
<1> DEFINE c == At("cache", h, One)
<1>1. c \in Calls /\ c.at = "cache" /\ c.h = h
  BY NewCalls DEF DeleteSteps
<1>2. call' = [call EXCEPT ![th] = c]
  BY DEF insert_block, Start, Goto
<1> HIDE DEF c
<1>3. db_blocks' = db_blocks \cup {h} /\ db_metadata' = db_metadata \cup {h}
      /\ UNCHANGED <<cache, cache_size, deleted, durable>>
  BY DEF insert_block, put_batch
<1>4. DataInv'
  BY <1>3 DEF StoreInv, DataInv, CacheAccounting, MetadataMatchesBlocks,
              StaleOnlyAfterDelete, DurableUntilDeleted
<1>5. Accounted \subseteq Accounted' /\ deleted \subseteq deleted' /\ h \in Accounted'
  BY <1>3 DEF Accounted
<1>6. CallInv'
  BY <1>1, <1>2, <1>5, Moves DEF StoreInv, DeleteSteps, Kinds
<1> QED BY <1>4, <1>6 DEF StoreInv

LEMMA DeleteStep ==
  ASSUME StoreInv, NEW th \in Threads, delete_write(th)
  PROVE  StoreInv'
<1> DEFINE h == call[th].h
           c == Answer(call[th], FALSE)
<1>1. call[th] \in Calls /\ Placed(call[th]) /\ call[th].at \in {"delete_all", "delete_bare"}
  BY DEF StoreInv, CallInv, delete_write, Is
<1>2. h \in deleted /\ c \in Calls /\ c.at \in {"idle"} \cup Kinds
  BY <1>1, CallShapes DEF Placed, DeleteSteps, Kinds
<1>3. call' = [call EXCEPT ![th] = c]
  BY DEF delete_write, Goto
<1>4. db_blocks' = db_blocks \ {h} /\ db_metadata' = db_metadata \ {h}
      /\ UNCHANGED <<cache, cache_size, deleted, durable>>
  BY DEF delete_write, delete_batch
<1> HIDE DEF c, h
<1>5. DataInv'
  BY <1>2, <1>4 DEF StoreInv, DataInv, CacheAccounting, MetadataMatchesBlocks,
                    StaleOnlyAfterDelete, DurableUntilDeleted
<1>6. Accounted \subseteq Accounted' /\ deleted \subseteq deleted'
  BY <1>2, <1>4 DEF Accounted
<1>7. CallInv'
  BY <1>2, <1>3, <1>6, Moves DEF StoreInv, DeleteSteps, Kinds
<1> QED BY <1>5, <1>7 DEF StoreInv

\* The steps of get_block, alone and inside delete_block.
LEMMA ReadSteps ==
  ASSUME StoreInv, NEW th \in Threads,
         \/ \E h \in Hashes : get_block(th, h)
         \/ read_db(th) \/ delete_lookup(th) \/ delete_read(th)
  PROVE  StoreInv'
<1> DEFINE cur == call[th]
<1>1. cur \in Calls /\ Placed(cur)
  BY DEF StoreInv, CallInv
<1>2. ASSUME NEW h \in Hashes, get_block(th, h) PROVE StoreInv'
  <2> DEFINE c == IF h \in cache THEN Idle ELSE At("read", h, One)
  <2>1. c \in Calls /\ c.at \in {"idle", "read"}
    BY NewCalls DEF DeleteSteps
  <2>2. call' = [call EXCEPT ![th] = c] /\ UNCHANGED <<db, cache, cache_size, ghosts>>
    BY <1>2 DEF get_block, Start, Goto
  <2> HIDE DEF c
  <2>3. Placed(c)
    BY <2>1 DEF Placed, DeleteSteps, Kinds
  <2> QED BY <2>1, <2>2, <2>3, OnlyMoves
<1>3. CASE read_db(th)
  <2> DEFINE c == IF cur.h \in db_blocks THEN [cur EXCEPT !.at = "fill"]
                  ELSE Answer(cur, FALSE)
  <2>1. cur.at = "read" /\ call' = [call EXCEPT ![th] = c]
        /\ UNCHANGED <<db, cache, cache_size, ghosts>>
    BY <1>3 DEF read_db, Is, Goto
  <2>2. c \in Calls /\ (c.at \in {"cache", "fill"} => c.h \in db_blocks)
        /\ c.at \notin DeleteSteps
    <3>1. CASE cur.h \in db_blocks
      <4>1. c = [cur EXCEPT !.at = "fill"]
        BY <3>1
      <4>2. cur.at \in {"cache", "read", "fill"} \cup DeleteSteps
            /\ "fill" \in {"cache", "read", "fill"} \cup DeleteSteps
        BY <2>1
      <4> HIDE DEF c, cur
      <4>3. c \in Calls /\ c.at = "fill" /\ c.h = cur.h
        BY <1>1, <4>1, <4>2, CallShapes
      <4> QED BY <3>1, <4>3 DEF DeleteSteps
    <3>2. CASE cur.h \notin db_blocks
      <4>1. c = Answer(cur, FALSE)
        BY <3>2
      <4>2. c \in Calls /\ c.at \in {"idle"} \cup Kinds
        BY <1>1, <2>1, <4>1, CallShapes
      <4> QED BY <4>2 DEF DeleteSteps, Kinds
    <3> QED BY <3>1, <3>2
  <2> HIDE DEF c
  <2>3. Placed(c)
    BY <2>2 DEF Placed, Accounted
  <2> QED BY <2>1, <2>2, <2>3, OnlyMoves
<1>4. CASE delete_lookup(th) \/ delete_read(th)
  <2>1. PICK at \in {"delete_all", "delete_read", "delete_fill", "delete_bare"} :
          call' = [call EXCEPT ![th] = [cur EXCEPT !.at = at]]
    BY <1>4 DEF delete_lookup, delete_read, Goto
  <2>2. cur.at \in DeleteSteps /\ UNCHANGED <<db, cache, cache_size, ghosts>>
    BY <1>4 DEF delete_lookup, delete_read, Is, DeleteSteps
  <2> DEFINE c == [cur EXCEPT !.at = at]
  <2>3. c \in Calls /\ c.at = at /\ c.h = cur.h
    BY <1>1, <2>2, CallShapes DEF DeleteSteps, Kinds
  <2>4. call' = [call EXCEPT ![th] = c]
    BY <2>1
  <2>5. cur.h \in deleted
    BY <1>1, <2>2 DEF Placed
  <2> HIDE DEF c, cur
  <2>6. Placed(c)
    BY <2>3, <2>5 DEF Placed, Accounted
  <2> QED BY <2>2, <2>3, <2>4, <2>6, OnlyMoves
<1> QED BY <1>2, <1>3, <1>4

\* The steps that put a block into the cache.
LEMMA CacheSteps ==
  ASSUME StoreInv, NEW th \in Threads, cache_inserted(th) \/ fill(th) \/ delete_fill(th)
  PROVE  StoreInv'
<1> DEFINE cur == call[th]
           h == cur.h
<1>1. cur \in Calls /\ Placed(cur)
  BY DEF StoreInv, CallInv
<1>2. cur.at \in {"cache", "fill", "delete_fill"}
  BY DEF cache_inserted, fill, delete_fill, Is
<1>3. h \in Hashes \cap Accounted
  BY <1>1, <1>2, CallShapes DEF Placed, Accounted, DeleteSteps
<1>4. add_to_cache(h) /\ UNCHANGED <<db, deleted>> /\ durable' \subseteq durable \cup {h}
  BY DEF cache_inserted, fill, delete_fill, ghosts
<1>5. \E c \in Calls : call' = [call EXCEPT ![th] = c] /\ Placed(c)
  <2>1. CASE cache_inserted(th)
    <3>1. call' = [call EXCEPT ![th] = Idle]
      BY <2>1 DEF cache_inserted, Goto
    <3>2. Idle \in Calls /\ Placed(Idle)
      BY NewCalls DEF Placed, DeleteSteps, Kinds
    <3> QED BY <3>1, <3>2
  <2>2. CASE fill(th)
    <3> DEFINE c == Answer(cur, TRUE)
    <3>1. call' = [call EXCEPT ![th] = c]
      BY <2>2 DEF fill, Goto
    <3>2. c \in Calls /\ c.at \in {"idle"} \cup Kinds
      BY <1>1, <1>2, CallShapes DEF DeleteSteps, Kinds
    <3> HIDE DEF c
    <3>3. Placed(c)
      BY <3>2 DEF Placed, DeleteSteps, Kinds
    <3> QED BY <3>1, <3>2, <3>3
  <2>3. CASE delete_fill(th)
    <3> DEFINE c == [cur EXCEPT !.at = "delete_all"]
    <3>1. call' = [call EXCEPT ![th] = c] /\ cur.at = "delete_fill"
      BY <2>3 DEF delete_fill, Goto, Is
    <3>2. c \in Calls /\ c.at = "delete_all" /\ c.h = h
      BY <1>1, <1>2, CallShapes DEF DeleteSteps, Kinds
    <3>3. h \in deleted
      BY <1>1, <3>1 DEF Placed, DeleteSteps, Kinds
    <3> HIDE DEF c, h
    <3>4. Placed(c)
      BY <3>2, <3>3 DEF Placed, Accounted
    <3> QED BY <3>1, <3>2, <3>4
  <2> QED BY <2>1, <2>2, <2>3
<1> HIDE DEF h
<1> QED BY <1>3, <1>4, <1>5, Caches

LEMMA ClearSteps ==
  ASSUME StoreInv, NEW th \in Threads, clear(th) \/ clear_next(th) \/ clear_cache(th)
  PROVE  StoreInv'
<1>1. CASE clear(th)
  <2> DEFINE c == Doing(Job("clear", db_blocks, {}))
  <2>1. call' = [call EXCEPT ![th] = c] /\ UNCHANGED <<db, cache, cache_size, ghosts>>
    BY <1>1 DEF clear, Start, Goto
  <2>2. c \in Calls /\ c.at = "clear"
    <3>1. Job("clear", db_blocks, {}) \in Jobs /\ Job("clear", db_blocks, {}).kind = "clear"
      BY DEF StoreInv, DataInv, Job, Jobs, Kinds
    <3> QED BY <3>1 DEF Doing, Calls
  <2> HIDE DEF c
  <2>3. Placed(c)
    BY <2>2 DEF Placed, DeleteSteps, Kinds
  <2> QED BY <2>1, <2>2, <2>3, OnlyMoves
<1>2. CASE clear_next(th)
  <2>1. PICK h \in Hashes : delete_next(th, h)
    BY <1>2 DEF clear_next
  <2>2. call[th].job \in Jobs
    BY <1>2, CallShapes DEF clear_next, Is, StoreInv, CallInv, Kinds
  <2>3. remove_from_cache(h) /\ deleted' = deleted \cup {h} /\ UNCHANGED <<db, durable>>
        /\ call' = [call EXCEPT ![th] = At("delete_lookup", h, call[th].job)]
    BY <2>1 DEF delete_next, Goto
  <2> QED BY <2>2, <2>3, Announces
<1>3. CASE clear_cache(th)
  <2>1. cache' = {} /\ cache_size' = 0 /\ call' = [call EXCEPT ![th] = Idle]
        /\ UNCHANGED <<db, ghosts>>
    BY <1>3 DEF clear_cache, Goto
  <2>2. DataInv'
    BY <2>1, EmptyCounts DEF StoreInv, DataInv, MetadataMatchesBlocks,
                             StaleOnlyAfterDelete, DurableUntilDeleted, db, ghosts
  <2>3. Accounted' = Accounted /\ deleted' = deleted
    BY <2>1 DEF Accounted, db, ghosts
  <2>4. CallInv'
    BY <2>1, <2>3, NewCalls, Moves DEF StoreInv, DeleteSteps, Kinds
  <2> QED BY <2>2, <2>4 DEF StoreInv
<1> QED BY <1>1, <1>2, <1>3

LEMMA CrashStep ==
  ASSUME StoreInv, Crash
  PROVE  StoreInv'
<1>1. cache' = {} /\ cache_size' = 0 /\ call' = [th \in Threads |-> Idle]
      /\ UNCHANGED <<db, ghosts>>
  BY DEF Crash
<1>2. DataInv'
  BY <1>1, EmptyCounts DEF StoreInv, DataInv, MetadataMatchesBlocks,
                           StaleOnlyAfterDelete, DurableUntilDeleted, db, ghosts
<1>3. CallInv'
  BY <1>1, NewCalls DEF CallInv, Placed, DeleteSteps
<1> QED BY <1>2, <1>3 DEF StoreInv

LEMMA NextStore == StoreInv /\ [Next]_vars => StoreInv'
<1> SUFFICES ASSUME StoreInv, [Next]_vars PROVE StoreInv'
  OBVIOUS
<1>1. ASSUME NEW th \in Threads, NEW h \in Hashes, delete_block(th, h) PROVE StoreInv'
  <2>1. remove_from_cache(h) /\ deleted' = deleted \cup {h} /\ UNCHANGED <<db, durable>>
        /\ call' = [call EXCEPT ![th] = At("delete_lookup", h, One)]
    BY <1>1 DEF delete_block, Start, Goto
  <2> QED BY <2>1, NewCalls, Announces
<1>2. CASE UNCHANGED vars
  BY <1>2 DEF vars, StoreInv, DataInv, CallInv, Placed, Accounted, CacheAccounting,
              MetadataMatchesBlocks, StaleOnlyAfterDelete, DurableUntilDeleted
<1> QED BY <1>1, <1>2, InsertStep, DeleteStep, ReadSteps, CacheSteps, ClearSteps, CrashStep
        DEF Next

-----------------------------------------------------------------------------
(* Results *)

\* The inductive invariant of the store.
THEOREM StoreInvariance == Spec => []StoreInv
BY InitStore, NextStore, PTL DEF Spec

\* The counter beside the cache is exact and the cache within its limit, whatever
\* threads insert, read, delete and clear at once.
THEOREM CacheIsCounted == Spec => []CacheAccounting
<1>1. StoreInv => CacheAccounting
  BY DEF StoreInv, DataInv
<1> QED BY <1>1, StoreInvariance, PTL

\* Blocks and metadata never come apart, wherever the process crashes.
THEOREM MetadataTogether == Spec => []MetadataMatchesBlocks
<1>1. StoreInv => MetadataMatchesBlocks
  BY DEF StoreInv, DataInv
<1> QED BY <1>1, StoreInvariance, PTL

\* A block that insert_block acknowledged is in the database until delete_block is
\* asked to delete it.
THEOREM AcknowledgedIsDurable == Spec => []DurableUntilDeleted
<1>1. StoreInv => DurableUntilDeleted
  BY DEF StoreInv, DataInv
<1> QED BY <1>1, StoreInvariance, PTL

\* The cache holds stored blocks only, but for those whose deletion was asked for.
THEOREM CacheIsFresh == Spec => []StaleOnlyAfterDelete
<1>1. StoreInv => StaleOnlyAfterDelete
  BY DEF StoreInv, DataInv
<1> QED BY <1>1, StoreInvariance, PTL
=============================================================================
