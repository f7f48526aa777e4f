------------------------ MODULE TransactionExecutor ------------------------
(***************************************************************************)
(* The sequential executor (src/src/execution/transaction_executor.rs)     *)
(* with the contract executor, gas meter, host functions and registry      *)
(* (src/src/vm, src/src/contracts) over its own StateManager.  A block is  *)
(* executed transaction by transaction, contract code host call by host    *)
(* call.  Registry and contract storage are databases, the accounts are in *)
(* memory: a crash keeps the former and loses the latter.                  *)
(*                                                                         *)
(* A contract is its code, which is also its address (a hash of the code). *)
(* Code is the host calls it makes in init and in its one method; it may   *)
(* trap anywhere.  Storage has one key space for all contracts, because    *)
(* the host functions pass keys on as they are.                            *)
(***************************************************************************)
EXTENDS StateManager

CONSTANTS Codes,          \* contract codes
          Init_calls,     \* [Codes -> Seq(HostCalls)]
          Method_calls,   \* [Codes -> Seq(HostCalls)]
          Blocks,         \* sequences of transactions to execute
          MaxExecuted,    \* bound: blocks executed
          MaxCrashes      \* bound: crashes

VARIABLES registry,   \* registered contract -> its metadata
          storage,    \* the keys written
          block,      \* the block in execution, or NoBlock
          vm,         \* the contract in execution, or NoVm
          executed_blocks, crashes,
          wrote       \* ghost: the running transaction wrote to storage

xvars == <<registry, storage, block, vm, executed_blocks, crashes, wrote>>
ledger == <<accounts, calls, minted, burned, parked, history>>

NoBlock == <<>>
NoVm == <<>>

\* Transactions; transfers are those of StateManager with a gas limit and a price.
Transfer(from, to, amount, nonce, limit, price) ==
  [kind |-> "transfer", from |-> from, to |-> to, amount |-> amount, nonce |-> nonce,
   gas_limit |-> limit, gas_price |-> price]
Deploy(from, code, limit, price) ==
  [kind |-> "deploy", from |-> from, code |-> code, gas_limit |-> limit, gas_price |-> price]
ContractCall(from, code, limit, price) ==
  [kind |-> "call", from |-> from, code |-> code, gas_limit |-> limit, gas_price |-> price]

SaturatingMul(m, n) == Min({m * n, U64_MAX})

Fee(tx, used) == SaturatingMul(used, tx.gas_price)

\* As apply_transaction sees it.
AsTransfer(tx) ==
  [from |-> tx.from, to |-> tx.to, amount |-> tx.amount, nonce |-> tx.nonce,
   fee |-> SaturatingMul(tx.gas_limit, tx.gas_price)]

-----------------------------------------------------------------------------
(* execute_block *)

Idle == block = NoBlock
Current == block.txs[block.next]
Running == ~Idle /\ block.success /\ block.next <= Len(block.txs)

execute_block(txs) ==
  /\ Idle /\ executed_blocks < MaxExecuted
  /\ block' = [txs |-> txs, next |-> 1, success |-> TRUE, total_fees |-> 0,
               burned |-> burned]
  /\ executed_blocks' = executed_blocks + 1
  /\ UNCHANGED <<ledger, registry, storage, vm, crashes, wrote>>

\* Mutant: the whole gas limit is reported.
Succeed_limit(used) ==
  block' = [block EXCEPT !.next = @ + 1,
                         !.total_fees = SaturatingAdd(@, Fee(Current, Current.gas_limit))]

\* A transaction returned Ok(used), or an error that ends the block.
Succeed(used) ==
  block' = [block EXCEPT !.next = @ + 1,
                         !.total_fees = SaturatingAdd(@, Fee(Current, used))]
Fail == block' = [block EXCEPT !.success = FALSE]

end_block ==
  /\ ~Idle /\ ~Running
  /\ block' = NoBlock
  /\ UNCHANGED <<ledger, registry, storage, vm, executed_blocks, crashes, wrote>>

-----------------------------------------------------------------------------
(* execute_transaction *)

transfer ==
  /\ Running /\ Current.kind = "transfer"
  /\ LET tx == AsTransfer(Current) IN
     IF Applicable(accounts, tx)
     THEN /\ accounts' = apply_transfer(accounts, tx)
          /\ burned' = burned + TotalCost(tx) - tx.amount
          /\ parked' = parked + (IF tx.to = EMISSION_STATE_ACCOUNT THEN tx.amount ELSE 0)
          /\ history' = Append(history, tx)
          /\ Succeed(Current.gas_limit)
     ELSE Fail /\ UNCHANGED <<accounts, burned, parked, history>>
  /\ UNCHANGED <<calls, minted, registry, storage, vm, executed_blocks, crashes, wrote>>

get_contract(code) == code \in DOMAIN registry

\* A store with a new gas meter, about to make the host calls of its code.
NewVm(host_calls) == [todo |-> host_calls, used |-> 0, ok |-> TRUE]

\* deploy_contract and call_contract up to the code; instantiation may fail.
instantiate_contract ==
  /\ Running /\ vm = NoVm /\ Current.kind \in {"deploy", "call"}
  /\ \/ /\ Current.kind = "call" => get_contract(Current.code)
        /\ vm' = NewVm(IF Current.kind = "deploy" THEN Init_calls[Current.code]
                       ELSE Method_calls[Current.code])
        /\ wrote' = FALSE
        /\ UNCHANGED block
     \/ Fail /\ UNCHANGED <<vm, wrote>>
  /\ UNCHANGED <<ledger, registry, storage, executed_blocks, crashes>>

Cost(op) == CASE op = "storage_read" -> 10 [] op = "storage_write" -> 20 [] OTHER -> 1

\* GasMeter::charge succeeds.
Charged(used, cost, limit) == used + cost <= limit

Trap == vm' = [vm EXCEPT !.ok = FALSE]

\* The next host call: gas first, then the effect.  Contract code may trap before it,
\* and a call with bad pointers traps after the gas is paid.
host_call ==
  /\ vm # NoVm /\ vm.ok /\ vm.todo # <<>>
  /\ LET c == Head(vm.todo)
         paid == [vm EXCEPT !.used = @ + Cost(c.op), !.todo = Tail(@)] IN
     \/ Trap /\ UNCHANGED <<storage, wrote>>
     \/ /\ ~Charged(vm.used, Cost(c.op), Current.gas_limit)
        /\ Trap /\ UNCHANGED <<storage, wrote>>
     \/ /\ Charged(vm.used, Cost(c.op), Current.gas_limit)
        /\ \/ /\ vm' = paid
              /\ storage' = storage \cup (IF c.op = "storage_write" THEN {c.key} ELSE {})
              /\ wrote' = (wrote \/ c.op = "storage_write")
           \/ vm' = [paid EXCEPT !.ok = FALSE] /\ UNCHANGED <<storage, wrote>>
  /\ UNCHANGED <<ledger, registry, block, executed_blocks, crashes>>

\* Mutant: the contract is registered although its init failed.
Registers_always(tx) == tx.kind = "deploy" /\ ~get_contract(tx.code)

\* register_contract refuses a contract that exists.
Registers(tx) == tx.kind = "deploy" /\ vm.ok /\ ~get_contract(tx.code)

\* The fee is taken first, for a failed run as well; an unpaid fee is an error.
finish_contract ==
  /\ vm # NoVm /\ (vm.todo = <<>> \/ ~vm.ok)
  /\ LET tx == Current
         fee == Fee(tx, vm.used)
         acc == get_account(accounts, tx.from) IN
     IF acc.balance < fee
     THEN Fail /\ UNCHANGED <<accounts, burned, registry>>
     ELSE /\ accounts' = IF fee = 0 THEN accounts
                         ELSE update_account(accounts, tx.from, Account(acc.balance - fee, acc.nonce))
          /\ burned' = burned + fee
          /\ registry' = IF Registers(tx)
                         THEN [c \in DOMAIN registry \cup {tx.code} |->
                                 IF c = tx.code THEN "none" ELSE registry[c]]
                         ELSE registry
          /\ IF vm.ok /\ (tx.kind = "deploy" => Registers(tx)) THEN Succeed(vm.used) ELSE Fail
  /\ vm' = NoVm
  /\ UNCHANGED <<calls, minted, parked, history, storage, executed_blocks, crashes, wrote>>

-----------------------------------------------------------------------------
(* The rest of the registry, and the environment *)

add_metadata(code) ==
  /\ Idle /\ get_contract(code)
  /\ registry' = [registry EXCEPT ![code] = "some"]
  /\ UNCHANGED <<ledger, storage, block, vm, executed_blocks, crashes, wrote>>

delete_contract(code) ==
  /\ Idle /\ get_contract(code)
  /\ registry' = [c \in DOMAIN registry \ {code} |-> registry[c]]
  /\ UNCHANGED <<ledger, storage, block, vm, executed_blocks, crashes, wrote>>

\* The process ends anywhere; new_with_db_path opens the databases beside new accounts.
Crash ==
  /\ crashes < MaxCrashes
  /\ crashes' = crashes + 1
  /\ accounts' = [a \in {GENESIS_WALLET, EMISSION_STATE_ACCOUNT} |-> Account(0, 0)]
  /\ minted' = 0 /\ burned' = 0 /\ parked' = 0 /\ history' = <<>>
  /\ block' = NoBlock /\ vm' = NoVm /\ wrote' = FALSE
  /\ UNCHANGED <<calls, registry, storage, executed_blocks>>

XInit ==
  /\ Init
  /\ registry = [c \in {} |-> "none"] /\ storage = {}
  /\ block = NoBlock /\ vm = NoVm
  /\ executed_blocks = 0 /\ crashes = 0 /\ wrote = FALSE

ExecutorNext ==
  \/ \E txs \in Blocks : execute_block(txs)
  \/ transfer \/ instantiate_contract \/ host_call \/ finish_contract \/ end_block
  \/ \E c \in Codes : add_metadata(c) \/ delete_contract(c)
  \/ Crash

\* The ledger's own operations come between blocks.
LedgerNext == Idle /\ Next /\ UNCHANGED xvars

XNext == ExecutorNext \/ LedgerNext

XSpec == XInit /\ [][XNext]_<<ledger, xvars>>

-----------------------------------------------------------------------------
(* Properties *)

\* The fees that execute_block reports, which the node pays to the producer, are the
\* fees that the accounts paid, unless the block failed: then some may be missing.
FeesAreBurned ==
  ~Idle => /\ block.total_fees <= burned - block.burned
           /\ block.success => block.total_fees = burned - block.burned

\* No code uses more gas than its transaction offers.
GasBounded == vm # NoVm => vm.used <= Current.gas_limit

\* What a registered contract writes in init is in the storage, whatever crashes
\* came before, in between or after: storage is written before the registry.
RegisteredIsInitialised ==
  \A c \in DOMAIN registry : \A i \in DOMAIN Init_calls[c] :
    Init_calls[c][i].op = "storage_write" => Init_calls[c][i].key \in storage

\* "commit registry and storage updates" (contract_executor.rs:84), under
\* `if success`: a transaction that fails has written nothing.
FailedWritesNothing == (~Idle /\ ~block.success /\ Current.kind # "transfer") => ~wrote
=============================================================================
