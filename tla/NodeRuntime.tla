---------------------------- MODULE NodeRuntime ----------------------------
(***************************************************************************)
(* The node runtime (src/src/node/node_runtime.rs) with its block producer *)
(* (src/src/block/block_producer.rs): one task that turns pooled           *)
(* transactions into blocks, beside clients that submit transactions and   *)
(* switch mining on and off.  The DAG with its GHOSTDAG engine, the        *)
(* mempool and the economic formulas are the other modules' own; the       *)
(* production step is cut wherever it releases the locks it holds.         *)
(***************************************************************************)
EXTENDS GhostDAG, Economics

CONSTANTS Txs, Senders, Price, Sender, NoSource, min_gas_price, max_size,
          MAX_TX_PER_SOURCE, MaxCalls,      \* of the mempool
          Clients,                          \* threads that call add_transaction
          Runtime,                          \* the task of the node loop
          max_transactions,                 \* of a block
          activity_window_size,
          Pauses,                           \* seconds since the latest block
          MaxSwitches                       \* bound: start_mining and stop_mining

VARIABLES transactions, parent_child_map, pending_by_sender, current_base_fee,
          rate_limits, call, calls, clears, \* the mempool
          at,                               \* where the node loop is
          local,                            \* the block under way, and what it was made from
          todo,                             \* transactions of it still to be removed
          mining_enabled, switches,
          emitted,                          \* emission counter of the runtime's state
          result                            \* ghost: how the last execute_block ended

mempool == <<transactions, parent_child_map, pending_by_sender, current_base_fee,
             rate_limits, call, calls, clears>>
loop == <<at, local, todo, emitted, result>>
switch == <<mining_enabled, switches>>
nvars == <<vars, engine, mempool, loop, switch>>

Mempool == INSTANCE TxDagMempool WITH Threads <- Clients \cup {Runtime}, Sources <- {},
                                      Fees <- {}, MaxParents <- 0
Pooled == DOMAIN transactions
NoWork == [difficulty |-> 0, base_fee |-> 0, block |-> NoBlock]

-----------------------------------------------------------------------------
(* Clients *)

\* add_transaction checks the signature and the balance twice, which admit does too.
add_transaction(c) ==
  /\ \/ \E t \in Txs : Mempool!add_transaction(c, t, {}, NoSource)
     \/ Mempool!admit(c) \/ Mempool!link(c) \/ Mempool!pend(c)
  /\ UNCHANGED <<vars, engine, loop, switch>>

start_stop_mining ==
  /\ switches < MaxSwitches /\ switches' = switches + 1
  /\ mining_enabled' = ~mining_enabled
  /\ UNCHANGED <<vars, engine, mempool, loop>>

\* validate_transaction, by hash: pooled or in a block.
Included == UNION {ToSet(blocks[h].body.txs) : h \in Known}
validate_transaction(t) == t \in Pooled \/ t \in Included

-----------------------------------------------------------------------------
(* The production step *)

\* Both walk the blocks in the topological order of the index.
next_difficulty ==
  LET order == topological_order(parent_to_children)
  IN  calculate_next_difficulty([i \in DOMAIN order |-> blocks[order[i]].body])
current_fee ==
  LET order == topological_order(parent_to_children) IN
  IF order = <<>> THEN 1
  ELSE LET last == blocks[Last(order)].body
       IN  next_base_fee(last.base_fee, Len(last.txs) + 1)

\* get_recent_timestamps: the selected chain from a tip, oldest first.
RECURSIVE ChainTimes(_, _)
ChainTimes(h, n) ==
  IF h = NoBlock \/ n = 0 THEN <<>>
  ELSE Append(ChainTimes(blocks[h].selected_parent, n - 1), blocks[h].body.timestamp)
get_recent_timestamps ==
  IF tips = {} THEN <<>> ELSE ChainTimes(CHOOSE t \in tips : TRUE, activity_window_size)
\* Time goes on from the latest block.
Latest == Max({0} \cup {blocks[h].body.timestamp : h \in Known})
TipHeight == Max({0} \cup {Height(t) : t \in tips})

\* The loop starts with a genesis block, if the store is empty.
initialize ==
  /\ at = "start" /\ at' = "idle"
  /\ IF block_count = 0 THEN create_genesis_if_empty ELSE UNCHANGED vars
  /\ UNCHANGED <<engine, mempool, local, todo, emitted, result, switch>>

produce_block ==
  /\ at = "idle"
  /\ mining_enabled /\ Pooled # {}
  /\ at' = "fees"
  /\ UNCHANGED <<vars, engine, mempool, local, todo, emitted, result, switch>>

set_fees ==
  /\ at = "fees" /\ at' = "create"
  /\ local' = [NoWork EXCEPT !.difficulty = next_difficulty, !.base_fee = current_fee]
  /\ Mempool!set_base_fee(current_fee)
  /\ UNCHANGED <<vars, engine, todo, emitted, result, switch>>

\* Ready transactions come in no particular order and are cut to the limit before they
\* are sorted by the fee above the base fee.
Priority(t) == SatSub(Price[t], local.base_fee)
Selections ==
  LET ready == Mempool!get_ready_transactions
      chosen == {s \in SUBSET ready : Cardinality(s) = Min({Cardinality(ready), max_transactions})}
  IN  {q \in UNION {SetToSeqs(s) : s \in chosen} :
         \A i, j \in DOMAIN q : i < j => Priority(q[i]) >= Priority(q[j])}

\* topo_index tells blocks apart, so the producer's nonce is left out.
\* Block::new sets the reward by the legacy formula, for all transactions; the coinbase
\* carries what the economic model says, for all but the coinbase.
Body(q, now) ==
  [txs |-> q, timestamp |-> now,
   difficulty |-> local.difficulty, base_fee |-> local.base_fee,
   coinbase |-> calculate_expected_block_reward(emitted, TipHeight, get_recent_timestamps, Len(q)),
   reward |-> calculate_reward(Len(q) + 1)]

Candidates == {new_block(Body(q, Latest + pause), parents) :
                 q \in Selections, pause \in Pauses, parents \in SetToSeqs(tips)}

\* A candidate is not mined: with a difficulty above 0 its hash passes or not.
ProofOfWork(b) == IF b.body.difficulty = 0 THEN {TRUE} ELSE BOOLEAN

\* Mutant: a single transaction waits for company.
create_block_in_company ==
  /\ at = "create"
  /\ \E b \in Candidates, valid \in {TRUE} :
       IF Len(b.body.txs) < 2 THEN at' = "idle" /\ local' = NoWork
       ELSE at' = "insert" /\ local' = [local EXCEPT !.block = b]
  /\ UNCHANGED <<vars, engine, mempool, todo, emitted, result, switch>>

\* min_transactions is 0.  A candidate that validate_basic refuses ends the step.
create_block ==
  /\ at = "create"
  /\ \E b \in Candidates : \E valid \in ProofOfWork(b) :
       IF valid THEN at' = "insert" /\ local' = [local EXCEPT !.block = b]
       ELSE at' = "idle" /\ local' = NoWork
  /\ UNCHANGED <<vars, engine, mempool, todo, emitted, result, switch>>

Attached(edges, known) ==
  /\ attached' = TRUE /\ snapshot' = edges
  /\ complete' = indexed /\ seen' = known /\ blue_score_cache' = NoScores

\* Mutant: a refused block is treated like an inserted one.
add_block_to_dag_anyway ==
  /\ at = "insert"
  /\ LET b == annotate_block(local.block) IN
     IF validate_references(b) THEN insert_block(b) ELSE UNCHANGED vars
  /\ Attached(parent_to_children', DOMAIN blocks')
  /\ at' = "remove" /\ todo' = local.block.body.txs /\ local' = local
  /\ UNCHANGED <<mempool, emitted, result, switch>>

\* The engine is attached, annotates, which changes the hash, and is attached again
\* once the block is in.  A block that the DAG refuses ends the step; its transactions
\* stay in the pool.
add_block_to_dag ==
  /\ at = "insert"
  /\ LET b == annotate_block(local.block) IN
     \E valid \in ProofOfWork(b) :
       IF valid /\ b.hash \notin Known /\ validate_references(b)
       THEN /\ insert_block(b)
            /\ at' = "remove" /\ todo' = b.body.txs /\ local' = local
       ELSE /\ UNCHANGED <<vars, todo>>
            /\ at' = "idle" /\ local' = NoWork
  /\ Attached(parent_to_children', DOMAIN blocks')
  /\ UNCHANGED <<mempool, emitted, result, switch>>

\* One transaction at a time; it may have been displaced in the meantime.
remove_from_mempool ==
  /\ at = "remove"
  /\ IF todo = <<>> THEN at' = "execute" /\ UNCHANGED <<todo, mempool>>
     ELSE /\ todo' = Tail(todo) /\ at' = at
          /\ IF Head(todo) \in Pooled THEN Mempool!remove_transaction(Runtime, Head(todo))
             ELSE UNCHANGED mempool
  /\ UNCHANGED <<vars, engine, local, emitted, result, switch>>

-----------------------------------------------------------------------------
(* Execution *)

RewardAccepted(body) ==
  calculate_expected_block_reward(emitted, TipHeight, get_recent_timestamps, Len(body.txs) + 1)
    = body.reward

\* The executor has a state of its own, in which nobody credits the zero address that
\* the coinbase is paid from.
ExecutorFunds == 0
ExecutorSucceeds(body) == body.coinbase > 0 /\ body.coinbase <= ExecutorFunds

\* A refused reward is an error, a failed execution is none; both change nothing.
execute_block ==
  /\ at = "execute" /\ at' = "idle"
  /\ local' = NoWork
  /\ LET body == local.block.body
         applied == RewardAccepted(body) /\ ExecutorSucceeds(body) IN
     /\ result' = IF ~RewardAccepted(body) THEN "refused"
                  ELSE IF applied THEN "applied" ELSE "failed"
     /\ emitted' = IF applied THEN Min({emitted + body.reward, MINING_SUPPLY}) ELSE emitted
  /\ UNCHANGED <<vars, engine, mempool, todo, switch>>

\* The other branch of the loop attaches the DAG for the ordering that the finality
\* computation (module FinalityEngine) waits for.
check_finality ==
  /\ at = "idle" /\ Known # {}
  /\ Attached(parent_to_children, Known)
  /\ UNCHANGED <<vars, mempool, loop, switch>>

-----------------------------------------------------------------------------
(* The node *)

PoolInit ==
  /\ transactions = [t \in {} |-> NoWork] /\ parent_child_map = {}
  /\ pending_by_sender = [s \in Senders |-> <<>>] /\ current_base_fee = min_gas_price
  /\ rate_limits = [s \in {} |-> 0] /\ call = [c \in Clients \cup {Runtime} |-> Mempool!Idle]
  /\ calls = 0 /\ clears = 0

NodeInit ==
  /\ GhostInit /\ PoolInit
  /\ at = "start" /\ local = NoWork /\ todo = <<>>
  /\ emitted = 0 /\ result = "none"
  /\ mining_enabled = FALSE /\ switches = 0

\* The process stops at any point and comes back with the block store only.
NodeRestart ==
  /\ GhostRestart
  /\ transactions' = [t \in {} |-> NoWork] /\ parent_child_map' = {}
  /\ pending_by_sender' = [s \in Senders |-> <<>>] /\ current_base_fee' = min_gas_price
  /\ rate_limits' = rate_limits /\ call' = [c \in Clients \cup {Runtime} |-> Mempool!Idle]
  /\ at' = "start" /\ local' = NoWork /\ todo' = <<>> /\ emitted' = 0 /\ result' = "none"
  /\ mining_enabled' = FALSE
  /\ UNCHANGED <<calls, clears, switches>>

RunLoop ==
  \/ initialize \/ produce_block \/ set_fees \/ create_block
  \/ add_block_to_dag \/ remove_from_mempool \/ execute_block

NodeNext ==
  \/ RunLoop
  \/ check_finality
  \/ \E c \in Clients : add_transaction(c)
  \/ start_stop_mining
  \/ NodeRestart

NodeSpec == NodeInit /\ [][NodeNext]_nvars

\* The timer of the loop fires again and again, and the step awaits nothing: weak
\* fairness of RunLoop, with the condition that enables it written out.
LoopReady == at # "idle" \/ (mining_enabled /\ Pooled # {})
Fairness == []<>~LoopReady \/ []<><<RunLoop>>_<<at, todo>>
FairNode == NodeSpec /\ Fairness

-----------------------------------------------------------------------------
(* Properties *)

\* Types; the loop is where its local state says.
NodeTypeOK ==
  /\ Mempool!TypeOK
  /\ at \in {"start", "idle", "fees", "create", "insert", "remove", "execute"}
  /\ ToSet(todo) \subseteq Txs
  /\ (at \in {"insert", "remove", "execute"}) = (local.block # NoBlock)
  /\ emitted \in 0..MINING_SUPPLY /\ mining_enabled \in BOOLEAN
  /\ at # "remove" => todo = <<>>

\* produce_block removes from the mempool what it put into a block: outside a restart a
\* transaction leaves the pool because a stored block has it, or because a client's
\* submission displaced it.
LeavesForBlock ==
  [][\A t \in Pooled \ Pooled' :
       \/ t \in Included
       \/ \E c \in Clients : call[c].at = "admit" /\ call'[c] # call[c]
       \/ restarts' # restarts]_nvars

\* Alone with its DAG the node never forks it: blocks built on the tips are a chain, in
\* which height and topo_index agree, before and after a restart.
ProducesChain ==
  \A h \in Known : blocks[h].chain_height = blocks[h].topo_index

\* Base fees are set before the transactions are selected and admission only compares
\* with the fee of its own time: still every transaction of a block pays its base fee,
\* because a fee of 1 does not move.
IncludedPayBaseFee ==
  \A h \in Known : \A t \in ToSet(blocks[h].body.txs) : Price[t] >= blocks[h].body.base_fee

\* "Produce block periodically" (node_runtime.rs:194): while mining is on, a pooled
\* transaction leaves the pool in the end, as long as the difficulty is still 0 and no
\* restart has emptied the index.
PendingIncluded ==
  \A t \in Txs :
    (t \in Pooled /\ mining_enabled)
      ~> (t \notin Pooled \/ ~mining_enabled \/ restarts > 0 \/ block_count >= DAA_WINDOW)

\* The same sentence without these conditions.
ProducedAfterRestart ==
  \A t \in Txs : (t \in Pooled /\ mining_enabled) ~> (t \notin Pooled \/ ~mining_enabled)

\* "Validate block reward against the economic model before applying state"
\* (node_runtime.rs:270): the node's own blocks pass.
OwnRewardAccepted == result # "refused"

\* "Execute block dan apply state changes" (node_runtime.rs:268): a block whose reward is
\* accepted is applied.
ExecutedApplies == result # "failed"
=============================================================================
