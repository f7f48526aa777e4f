--------------------- MODULE TransactionExecutorProofs ---------------------
(***************************************************************************)
(* Proofs about contract execution, for any codes, blocks, gas limits and  *)
(* crashes: no code uses more gas than its transaction offers, and what a  *)
(* registered contract writes in init is in the storage.                   *)
(***************************************************************************)
EXTENDS TransactionExecutor, TLAPS

\* Codes make finite sequences of host calls, and contract transactions name a code and
\* offer gas.
Parameters ==
  /\ \E H : Init_calls \in [Codes -> Seq(H)] /\ Method_calls \in [Codes -> Seq(H)]
  /\ \A txs \in Blocks : \A i \in 1..Len(txs) :
       txs[i].kind \in {"deploy", "call"} => txs[i].gas_limit \in Nat /\ txs[i].code \in Codes
  /\ \A txs \in Blocks : Len(txs) \in Nat

BlockFields == {"txs", "next", "success", "total_fees", "burned"}

GoodBlock ==
  \/ Idle
  \/ DOMAIN block = BlockFields /\ block.txs \in Blocks /\ block.next \in Nat \ {0}

\* What init of a code still has to write is among the calls that are left.
InitGoesOn(code) ==
  \A i \in DOMAIN Init_calls[code] :
    Init_calls[code][i].op = "storage_write" =>
      \/ Init_calls[code][i].key \in storage
      \/ \E j \in 1..Len(vm.todo) : vm.todo[j] = Init_calls[code][i]

\* A contract runs only for a contract transaction of a block that goes on.
GoodVm ==
  /\ Running /\ Current.kind \in {"deploy", "call"}
  /\ DOMAIN vm = {"todo", "used", "ok"}
  /\ \E H : vm.todo \in Seq(H)
  /\ vm.used \in Nat /\ vm.used <= Current.gas_limit
  /\ Current.kind = "deploy" /\ vm.ok => InitGoesOn(Current.code)

ExecInv == GoodBlock /\ (vm = NoVm \/ GoodVm) /\ RegisteredIsInitialised

-----------------------------------------------------------------------------
(* Steps *)

\* The contract transaction of the block that is due.
LEMMA Due ==
  ASSUME Parameters, GoodBlock, Running, Current.kind \in {"deploy", "call"}
  PROVE  Current.gas_limit \in Nat /\ Current.code \in Codes
<1>1. block.txs \in Blocks /\ block.next \in 1..Len(block.txs)
  BY DEF GoodBlock, Running, Parameters
<1> QED BY <1>1 DEF Parameters, Current

\* Steps that leave the contract in execution and the block alone, and lose no key.
LEMMA StorageGrows ==
  ASSUME ExecInv, UNCHANGED <<block, vm>>, storage \subseteq storage',
         DOMAIN registry' \subseteq DOMAIN registry
  PROVE  ExecInv'
<1>1. RegisteredIsInitialised'
  BY DEF ExecInv, RegisteredIsInitialised
<1>2. GoodBlock'
  BY DEF ExecInv, GoodBlock, Idle, NoBlock
<1>3. vm = NoVm => vm' = NoVm'
  BY DEF NoVm
<1>4. ASSUME GoodVm PROVE GoodVm'
  <2>1. Running' = Running /\ Current' = Current
    BY DEF Running, Idle, NoBlock, Current
  <2>2. ASSUME NEW code, InitGoesOn(code) PROVE InitGoesOn(code)'
    BY <2>2 DEF InitGoesOn
  <2> QED BY <1>4, <2>1, <2>2 DEF GoodVm
<1> QED BY <1>1, <1>2, <1>3, <1>4 DEF ExecInv

\* Steps at whose end no contract is in execution.
LEMMA NoContract ==
  ASSUME ExecInv, GoodBlock', vm' = NoVm, RegisteredIsInitialised'
  PROVE  ExecInv'
BY DEF ExecInv, NoVm

LEMMA BlockMoves ==
  ASSUME GoodBlock, ~Idle,
         \/ Fail
         \/ \E used : Succeed(used)
  PROVE  GoodBlock'
<1>1. DOMAIN block = BlockFields /\ block.txs \in Blocks /\ block.next \in Nat \ {0}
  BY DEF GoodBlock
<1>2. CASE Fail
  <2>1. DOMAIN block' = BlockFields /\ block'.txs = block.txs /\ block'.next = block.next
    BY <1>1, <1>2 DEF Fail, BlockFields
  <2> QED BY <1>1, <2>1 DEF GoodBlock
<1>3. CASE \E used : Succeed(used)
  <2>1. PICK used : Succeed(used)
    BY <1>3
  <2> DEFINE fees == SaturatingAdd(block.total_fees, Fee(Current, used))
             n == block.next + 1
  <2>2. block' = [block EXCEPT !.next = n, !.total_fees = fees]
    BY <2>1 DEF Succeed
  <2>3. n \in Nat \ {0}
    BY <1>1
  <2> HIDE DEF fees, n
  <2>4. DOMAIN block' = BlockFields /\ block'.txs = block.txs /\ block'.next = n
    BY <1>1, <2>2 DEF BlockFields
  <2> QED BY <1>1, <2>3, <2>4 DEF GoodBlock
<1> QED BY <1>2, <1>3

LEMMA Starts ==
  ASSUME ExecInv, NEW txs \in Blocks, execute_block(txs)
  PROVE  ExecInv'
<1>1. vm' = NoVm /\ RegisteredIsInitialised'
  BY DEF execute_block, ExecInv, GoodVm, Running, RegisteredIsInitialised
<1>2. GoodBlock'
  <2>1. DOMAIN block' = BlockFields /\ block'.txs = txs /\ block'.next = 1
    BY DEF execute_block, BlockFields
  <2> QED BY <2>1 DEF GoodBlock
<1> QED BY <1>1, <1>2, NoContract

LEMMA Instantiates ==
  ASSUME Parameters, ExecInv, instantiate_contract
  PROVE  ExecInv'
<1>1. Running /\ ~Idle /\ vm = NoVm /\ Current.kind \in {"deploy", "call"}
      /\ GoodBlock /\ UNCHANGED <<registry, storage>>
  BY DEF instantiate_contract, Running, ExecInv
<1>2. RegisteredIsInitialised'
  BY <1>1 DEF ExecInv, RegisteredIsInitialised
<1>3. CASE Fail /\ vm' = vm
  BY <1>1, <1>2, <1>3, BlockMoves, NoContract
<1>4. CASE /\ vm' = NewVm(IF Current.kind = "deploy" THEN Init_calls[Current.code]
                          ELSE Method_calls[Current.code])
           /\ block' = block
  <2> DEFINE todo == IF Current.kind = "deploy" THEN Init_calls[Current.code]
                     ELSE Method_calls[Current.code]
  <2>1. Current.gas_limit \in Nat /\ Current.code \in Codes
    BY <1>1, Due
  <2>2. PICK H : Init_calls \in [Codes -> Seq(H)] /\ Method_calls \in [Codes -> Seq(H)]
    BY DEF Parameters
  <2>3. todo \in Seq(H)
    BY <2>1, <2>2
  <2>4. Running' = Running /\ Current' = Current
    BY <1>4 DEF Running, Idle, NoBlock, Current
  <2>5. /\ DOMAIN vm' = {"todo", "used", "ok"} /\ vm'.todo = todo /\ vm'.used = 0
    BY <1>4 DEF NewVm
  <2>6. Current.kind = "deploy" => InitGoesOn(Current.code)'
    <3> SUFFICES ASSUME Current.kind = "deploy" PROVE InitGoesOn(Current.code)'
      OBVIOUS
    <3>1. vm'.todo = Init_calls[Current.code]
      BY <2>5
    <3>2. DOMAIN Init_calls[Current.code] = 1..Len(Init_calls[Current.code])
      BY <2>1, <2>2
    <3> QED BY <2>4, <3>1, <3>2 DEF InitGoesOn
  <2> HIDE DEF todo
  <2>7. vm'.todo \in Seq(H) /\ vm'.used \in Nat /\ vm'.used <= Current.gas_limit
    BY <2>1, <2>3, <2>5
  <2>8. GoodVm'
    BY <1>1, <2>4, <2>5, <2>6, <2>7 DEF GoodVm
  <2>9. GoodBlock'
    BY <1>1, <1>4 DEF GoodBlock, Idle, NoBlock
  <2> QED BY <1>2, <2>8, <2>9 DEF ExecInv
<1> QED BY <1>3, <1>4 DEF instantiate_contract

LEMMA HostCalls ==
  ASSUME Parameters, ExecInv, host_call
  PROVE  ExecInv'
<1> DEFINE c == Head(vm.todo)
           cost == Cost(c.op)
           used == vm.used + cost
           rest == Tail(vm.todo)
<1>1. GoodVm /\ vm.ok /\ vm.todo # <<>> /\ GoodBlock /\ UNCHANGED <<registry, block>>
  BY DEF host_call, ExecInv
<1>2. PICK H : vm.todo \in Seq(H)
  BY <1>1 DEF GoodVm
<1>3. Running' = Running /\ Current' = Current
  BY <1>1 DEF Running, Idle, NoBlock, Current
<1>4. storage \subseteq storage'
  BY DEF host_call
<1>5. GoodBlock' /\ RegisteredIsInitialised'
  BY <1>1, <1>4 DEF GoodBlock, Idle, NoBlock, ExecInv, RegisteredIsInitialised
<1>6. cost \in Nat /\ vm.used \in Nat /\ Current.gas_limit \in Nat
  BY <1>1, Due DEF Cost, GoodVm
<1>7. rest \in Seq(H) /\ Len(rest) = Len(vm.todo) - 1 /\ Len(vm.todo) \in Nat \ {0}
      /\ c = vm.todo[1] /\ \A j \in 1..Len(rest) : rest[j] = vm.todo[j + 1]
  BY <1>1, <1>2
<1>8. DOMAIN vm = {"todo", "used", "ok"}
  BY <1>1 DEF GoodVm
<1>9. CASE Trap
  <2>1. DOMAIN vm' = {"todo", "used", "ok"} /\ vm'.todo = vm.todo /\ vm'.used = vm.used
        /\ vm'.ok = FALSE
    BY <1>8, <1>9 DEF Trap
  <2>2. GoodVm'
    BY <1>1, <1>2, <1>3, <2>1 DEF GoodVm
  <2> QED BY <1>5, <2>2 DEF ExecInv
<1>10. CASE /\ used <= Current.gas_limit
            /\ \/ /\ vm' = [vm EXCEPT !.used = used, !.todo = rest]
                  /\ storage' = storage \cup (IF c.op = "storage_write" THEN {c.key} ELSE {})
               \/ vm' = [[vm EXCEPT !.used = used, !.todo = rest] EXCEPT !.ok = FALSE]
  <2>1. used \in Nat
    BY <1>6
  <2> HIDE DEF used, rest, c
  <2>2. /\ DOMAIN vm' = {"todo", "used", "ok"} /\ vm'.todo = rest /\ vm'.used = used
        /\ \/ vm'.ok = FALSE
           \/ storage' = storage \cup (IF c.op = "storage_write" THEN {c.key} ELSE {})
    BY <1>8, <1>10
  <2>3. ASSUME NEW code, InitGoesOn(code),
               storage' = storage \cup (IF c.op = "storage_write" THEN {c.key} ELSE {})
        PROVE  InitGoesOn(code)'
    <3> SUFFICES ASSUME NEW i \in DOMAIN Init_calls[code],
                        Init_calls[code][i].op = "storage_write",
                        Init_calls[code][i].key \notin storage'
                 PROVE  \E j \in 1..Len(vm'.todo) : vm'.todo[j] = Init_calls[code][i]
      BY DEF InitGoesOn
    <3>1. PICK j \in 1..Len(vm.todo) : vm.todo[j] = Init_calls[code][i]
      BY <1>4, <2>3 DEF InitGoesOn
    <3>2. j # 1
      BY <1>7, <2>3, <3>1
    <3>3. j - 1 \in 1..Len(rest) /\ rest[j - 1] = vm.todo[j]
      BY <1>7, <3>2
    <3> QED BY <2>2, <3>1, <3>3
  <2>4. Current.kind = "deploy" /\ vm'.ok => InitGoesOn(Current.code)'
    <3> SUFFICES ASSUME Current.kind = "deploy", vm'.ok PROVE InitGoesOn(Current.code)'
      OBVIOUS
    <3>1. PICK code : code = Current.code
      OBVIOUS
    <3>2. InitGoesOn(code) /\ vm'.ok # FALSE
      BY <1>1, <3>1 DEF GoodVm
    <3>3. InitGoesOn(code)'
      BY <2>2, <2>3, <3>2
    <3> QED BY <1>3, <3>1, <3>3
  <2>5. GoodVm'
    BY <1>1, <1>3, <1>7, <1>10, <2>1, <2>2, <2>4 DEF GoodVm
  <2> QED BY <1>5, <2>5 DEF ExecInv
<1> QED BY <1>9, <1>10 DEF host_call, Charged

LEMMA Finishes ==
  ASSUME Parameters, ExecInv, finish_contract
  PROVE  ExecInv'
<1>1. GoodVm /\ ~Idle /\ GoodBlock /\ vm' = NoVm /\ storage' = storage
      /\ (vm.todo = <<>> \/ ~vm.ok)
  BY DEF finish_contract, ExecInv, GoodVm, Running
<1>2. Fail \/ \E used : Succeed(used)
  BY DEF finish_contract
<1>3. GoodBlock'
  BY <1>1, <1>2, BlockMoves
<1>4. RegisteredIsInitialised'
  <2>1. CASE DOMAIN registry' \subseteq DOMAIN registry
    BY <1>1, <2>1 DEF RegisteredIsInitialised, ExecInv
  <2>2. CASE Registers(Current) /\ DOMAIN registry' = DOMAIN registry \cup {Current.code}
    <3>1. Current.kind = "deploy" /\ vm.ok /\ vm.todo = <<>>
      BY <1>1, <2>2 DEF Registers
    <3>2. InitGoesOn(Current.code) /\ Len(vm.todo) = 0
      BY <1>1, <3>1 DEF GoodVm
    <3>3. \A i \in DOMAIN Init_calls[Current.code] :
            Init_calls[Current.code][i].op = "storage_write"
              => Init_calls[Current.code][i].key \in storage
      BY <3>2 DEF InitGoesOn
    <3> QED BY <1>1, <2>2, <3>3 DEF RegisteredIsInitialised, ExecInv
  <2> QED BY <2>1, <2>2 DEF finish_contract
<1> QED BY <1>1, <1>3, <1>4, NoContract

\* The other steps: none of them runs beside a contract in execution, and only Crash ends
\* one.
LEMMA Others ==
  ASSUME ExecInv,
         \/ transfer \/ end_block \/ LedgerNext \/ Crash
         \/ \E c \in Codes : add_metadata(c) \/ delete_contract(c)
  PROVE  ExecInv'
<1>1. CASE transfer
  <2>1. vm' = NoVm /\ ~Idle /\ GoodBlock /\ UNCHANGED <<registry, storage>>
    BY <1>1 DEF transfer, ExecInv, GoodVm, Running
  <2>2. Fail \/ \E used : Succeed(used)
    BY <1>1 DEF transfer
  <2>3. GoodBlock'
    BY <2>1, <2>2, BlockMoves
  <2>4. RegisteredIsInitialised'
    BY <2>1 DEF ExecInv, RegisteredIsInitialised
  <2> QED BY <2>1, <2>3, <2>4, NoContract
<1>2. CASE end_block \/ Crash
  <2>1. vm' = NoVm /\ UNCHANGED <<registry, storage>> /\ block' = NoBlock
    BY <1>2 DEF end_block, Crash, ExecInv, GoodVm
  <2>2. Idle'
    BY <2>1 DEF Idle, NoBlock
  <2>3. GoodBlock'
    BY <2>2 DEF GoodBlock
  <2>4. RegisteredIsInitialised'
    BY <2>1 DEF ExecInv, RegisteredIsInitialised
  <2> QED BY <2>1, <2>3, <2>4, NoContract
<1>3. CASE LedgerNext
  BY <1>3, StorageGrows DEF LedgerNext, xvars
<1>4. CASE \E c \in Codes : add_metadata(c) \/ delete_contract(c)
  <2>1. UNCHANGED <<block, vm, storage>> /\ DOMAIN registry' \subseteq DOMAIN registry
    BY <1>4 DEF add_metadata, delete_contract
  <2> QED BY <2>1, StorageGrows
<1> QED BY <1>1, <1>2, <1>3, <1>4

-----------------------------------------------------------------------------
(* Results *)

\* The inductive invariant of contract execution.
THEOREM ExecInvariance == ASSUME Parameters PROVE XSpec => []ExecInv
<1>1. XInit => ExecInv
  <2> SUFFICES ASSUME XInit PROVE ExecInv
    OBVIOUS
  <2>1. vm = NoVm /\ Idle /\ DOMAIN registry = {}
    BY DEF XInit, Idle
  <2>2. GoodBlock /\ RegisteredIsInitialised
    BY <2>1 DEF GoodBlock, RegisteredIsInitialised
  <2> QED BY <2>1, <2>2 DEF ExecInv
<1>2. ExecInv /\ [XNext]_<<ledger, xvars>> => ExecInv'
  <2> SUFFICES ASSUME ExecInv, [XNext]_<<ledger, xvars>> PROVE ExecInv'
    OBVIOUS
  <2>1. CASE \E txs \in Blocks : execute_block(txs)
    BY <2>1, Starts
  <2>2. CASE instantiate_contract \/ host_call \/ finish_contract
    BY <2>2, Instantiates, HostCalls, Finishes
  <2>3. CASE \/ transfer \/ end_block \/ LedgerNext \/ Crash
             \/ \E c \in Codes : add_metadata(c) \/ delete_contract(c)
    BY <2>3, Others
  <2>4. CASE UNCHANGED <<ledger, xvars>>
    BY <2>4, StorageGrows DEF xvars
  <2> QED BY <2>1, <2>2, <2>3, <2>4 DEF XNext, ExecutorNext
<1> QED BY <1>1, <1>2, PTL DEF XSpec

\* GasMeter::charge is asked before every host call has its effect, so no code uses more
\* gas than its transaction offers.
THEOREM GasIsBounded == ASSUME Parameters PROVE XSpec => []GasBounded
<1>1. ExecInv => GasBounded
  BY DEF ExecInv, GoodVm, GasBounded
<1> QED BY <1>1, ExecInvariance, PTL

\* A contract enters the registry after its init has written everything, so after a crash
\* at any step a registered contract is an initialised one.
THEOREM RegisteredAfterInit == ASSUME Parameters PROVE XSpec => []RegisteredIsInitialised
<1>1. ExecInv => RegisteredIsInitialised
  BY DEF ExecInv
<1> QED BY <1>1, ExecInvariance, PTL
=============================================================================
