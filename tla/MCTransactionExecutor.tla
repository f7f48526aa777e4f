----------------------- MODULE MCTransactionExecutor -----------------------
(* Two contracts: one writes in init and in its method, the other only asks *)
(* who calls.  A behaviour exercises the ledger alone, with its own calls,  *)
(* or executes blocks after one or two credits.                             *)
EXTENDS TransactionExecutor, TLC

CONSTANTS alice, founder, emission, c1, c2, k1, k2

VARIABLE workload

Host(op, key) == [op |-> op, key |-> key]
MCInit_calls == (c1 :> <<Host("storage_write", k1), Host("get_caller", k1)>>)
             @@ (c2 :> <<Host("get_timestamp", k1)>>)
MCMethod_calls == (c1 :> <<Host("storage_read", k1), Host("storage_write", k2)>>)
               @@ (c2 :> <<Host("get_block_height", k1)>>)

MCTransactions ==
  {Transfer(alice, founder, 1, n, 1, 1) : n \in 0..1}
    \cup {Deploy(alice, c, 25, 1) : c \in {c1, c2}}
    \cup {ContractCall(alice, c1, limit, 1) : limit \in {15, 40}}
    \cup {ContractCall(alice, c2, 2, 0)}
MCBlocks == {<<t, u>> : t \in MCTransactions, u \in MCTransactions}

MCInit == XInit /\ workload \in {"ledger", "blocks"}
MCNext ==
  /\ \/ workload = "ledger" /\ LedgerNext
     \/ workload = "blocks" /\ Idle /\ calls < 2 /\ credit_account(alice, 50) /\ UNCHANGED xvars
     \/ workload = "blocks" /\ ExecutorNext
  /\ UNCHANGED workload
MCSpec == MCInit /\ [][MCNext]_<<ledger, xvars, workload>>
=============================================================================
