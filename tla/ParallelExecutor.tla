-------------------------- MODULE ParallelExecutor --------------------------
(***************************************************************************)
(* Parallel execution of the transactions of a block                       *)
(* (src/src/execution/parallel_executor.rs).  A conflict graph is coloured *)
(* greedily; each colour is a batch; the transactions of a batch run side  *)
(* by side on the state left by the earlier batches, each into an overlay  *)
(* of its own; the overlays of the successful ones are merged in the order *)
(* of the transaction hashes.                                              *)
(*                                                                         *)
(* A transaction is [kind, from, to, nonce, amount, fee, ok, slots]: to is *)
(* the receiver or the contract, fee what it pays when it is charged (for  *)
(* a transfer the whole gas limit, else the gas used), ok tells whether    *)
(* the contract code runs without error, and slots are the storage keys    *)
(* that the code reads and then writes.  The keys are those the code names *)
(* (vm/host_functions.rs): the database is one for all contracts.  What    *)
(* the code stores is its own position after what it read.  Signatures are *)
(* valid.                                                                  *)
(***************************************************************************)
EXTENDS Integers, SequencesExt

CONSTANTS Addresses,    \* accounts and contracts
          Slots,        \* storage keys that contract code names
          Pool,         \* transactions that may be in the block
          MaxTxs,       \* bound: transactions in the block
          Funds         \* balance of every account before the block

ASSUME PoolAssumption ==
  /\ Funds \in Nat /\ MaxTxs \in Nat
  /\ Pool \subseteq [kind : {"transfer", "deploy", "call"}, from : Addresses, to : Addresses,
                     nonce : Nat, amount : Nat, fee : Nat, ok : BOOLEAN,
                     slots : SUBSET Slots]

VARIABLES txs,        \* the block
          batches,    \* sequence of sets of positions in txs still to run
          accounts,   \* address -> [balance, nonce]
          registry,   \* registered contracts
          storage,    \* storage key -> positions of the transactions that wrote it
          receipts,   \* sequence of [tx, success], tx a position in txs
          phase

vars == <<txs, batches, accounts, registry, storage, receipts, phase>>

-----------------------------------------------------------------------------
(* Conflicts *)

\* Keys are accounts, contract storages (whole) and registry entries.
Key(what, a) == [what |-> what, address |-> a]

\* Mutant: the receiver of a transfer is left out.
analyze_access_sender_only(tx) ==
  [reads |-> {Key("account", tx.from)}, writes |-> {Key("account", tx.from)}]

analyze_access(tx) ==
  LET sender == {Key("account", tx.from)}
      target == {Key("account", tx.to)}
      contents == {Key("storage", tx.to)}
      entry == {Key("registry", tx.to)}
  IN  CASE tx.kind = "transfer" ->
             [reads |-> sender \cup target, writes |-> sender \cup target]
        [] tx.kind = "deploy" ->
             [reads |-> sender, writes |-> sender \cup target \cup contents \cup entry]
        [] tx.kind = "call" ->
             [reads |-> sender \cup target \cup contents \cup entry,
              writes |-> sender \cup target \cup contents]

transactions_conflict(a, b) ==
  \/ a.writes \cap b.writes # {}
  \/ a.writes \cap b.reads # {}
  \/ a.reads \cap b.writes # {}

Neighbours(i) ==
  {j \in DOMAIN txs \ {i} :
     transactions_conflict(analyze_access(txs[i]), analyze_access(txs[j]))}

-----------------------------------------------------------------------------
(* Scheduling *)

\* Colours of the neighbours, which are 0 for those not coloured yet.
forbidden(colors, i) == {colors[j] : j \in Neighbours(i)}

colors_of(n) ==
  LET after[i \in 0..n] ==
        IF i = 0 THEN [j \in 1..n |-> 0]
        ELSE LET colors == after[i - 1]
             IN  [colors EXCEPT ![i] = Min((0..n) \ forbidden(colors, i))]
  IN  after[n]

\* The batches by their earliest transaction.
schedule_parallel_batches ==
  LET colors == colors_of(Len(txs))
      batch(c) == {i \in DOMAIN txs : colors[i] = c}
  IN  SetToSortSeq({batch(colors[i]) : i \in DOMAIN txs},
                   LAMBDA s, t : Min(s) < Min(t))

-----------------------------------------------------------------------------
(* Execution of a transaction: the accounts it writes and its success *)

Account(balance, nonce) == [balance |-> balance, nonce |-> nonce]
Failed == [success |-> FALSE]
Wrote(overlay) == [success |-> TRUE, overlay |-> overlay]

\* Mutant: the fee is checked and not charged.
execute_transfer_for_free(tx, accts) ==
  LET sender == accts[tx.from]
      receiver == accts[tx.to]
  IN  IF sender.balance < tx.amount + tx.fee THEN Failed
      ELSE Wrote([a \in {tx.from, tx.to} |->
                    IF a = tx.from
                    THEN Account(sender.balance - tx.amount, sender.nonce + 1)
                    ELSE Account(receiver.balance + tx.amount, receiver.nonce)])

\* The sender's account is written before and after the receiver's, the second
\* time from the copy that the credit did not touch.
execute_transfer(tx, accts) ==
  LET sender == accts[tx.from]
      receiver == accts[tx.to]
  IN  IF sender.balance < tx.amount + tx.fee THEN Failed
      ELSE Wrote([a \in {tx.from, tx.to} |->
                    IF a = tx.from
                    THEN Account(sender.balance - tx.amount - tx.fee, sender.nonce + 1)
                    ELSE Account(receiver.balance + tx.amount, receiver.nonce)])

\* Charged is the sender's account after the fee; a contract account starts at
\* zero, whatever it held.
execute_contract(tx, accts, regs) ==
  LET sender == accts[tx.from]
      charged == Account(sender.balance - tx.fee, sender.nonce + 1)
  IN  IF \/ tx.kind = "call" /\ tx.to \notin regs
         \/ sender.balance < tx.fee
         \/ ~tx.ok
      THEN Failed
      ELSE Wrote([a \in {tx.from} \cup (IF tx.kind = "deploy" THEN {tx.to} ELSE {}) |->
                    IF a = tx.to /\ tx.kind = "deploy" THEN Account(0, 0) ELSE charged])

execute_transaction(tx, accts, regs) ==
  IF accts[tx.from].nonce # tx.nonce THEN Failed
  ELSE IF tx.kind = "transfer" THEN execute_transfer(tx, accts)
  ELSE execute_contract(tx, accts, regs)

\* The state st after transaction i was executed on base and merged if it
\* succeeded.
merge_overlay(st, base, i) ==
  LET result == execute_transaction(txs[i], base.accounts, base.registry)
      written == IF result.success THEN DOMAIN result.overlay ELSE {}
      deployed == {c \in {txs[i].to} : result.success /\ txs[i].kind = "deploy"}
      stored == {k \in txs[i].slots : result.success}
  IN  [accounts |-> [a \in Addresses |->
                       IF a \in written THEN result.overlay[a] ELSE st.accounts[a]],
       storage |-> [k \in Slots |->
                      IF k \in stored THEN Append(base.storage[k], i) ELSE st.storage[k]],
       registry |-> st.registry \cup deployed,
       receipts |-> Append(st.receipts, [tx |-> i, success |-> result.success])]

\* The state after the transactions of a batch, all executed on base, were merged
\* in the given order.
merge_batch(base, order) ==
  LET after[n \in 0..Len(order)] ==
        IF n = 0 THEN base
        ELSE LET st == after[n - 1] IN merge_overlay(st, base, order[n])
  IN  after[Len(order)]

-----------------------------------------------------------------------------

schedule ==
  /\ phase = "start"
  /\ batches' = schedule_parallel_batches
  /\ phase' = "run"
  /\ UNCHANGED <<txs, accounts, registry, storage, receipts>>

\* order: the transactions of the batch by hash.
execute_batch ==
  /\ phase = "run" /\ batches # <<>>
  /\ \E order \in SetToSeqs(Head(batches)) :
       LET now == [accounts |-> accounts, registry |-> registry, storage |-> storage,
                   receipts |-> receipts]
           st == merge_batch(now, order)
       IN  /\ accounts' = st.accounts
           /\ registry' = st.registry
           /\ storage' = st.storage
           /\ receipts' = st.receipts
  /\ batches' = Tail(batches)
  /\ UNCHANGED <<txs, phase>>

finish ==
  /\ phase = "run" /\ batches = <<>>
  /\ phase' = "done"
  /\ UNCHANGED <<txs, batches, accounts, registry, storage, receipts>>

\* A valid block contains no transaction twice.
Blocks == UNION {{b \in [1..n -> Pool] : IsInjective(b)} : n \in 0..MaxTxs}

Init ==
  /\ txs \in Blocks
  /\ batches = <<>>
  /\ accounts = [a \in Addresses |-> Account(Funds, 0)]
  /\ registry = {}
  /\ storage = [k \in Slots |-> <<>>]
  /\ receipts = <<>>
  /\ phase = "start"

Next == schedule \/ execute_batch \/ finish

Spec == Init /\ [][Next]_vars

-----------------------------------------------------------------------------
(* Properties *)

Done == phase = "done"
Conflict(i, j) == transactions_conflict(analyze_access(txs[i]), analyze_access(txs[j]))
Succeeded == {i \in DOMAIN txs : \E r \in ToSet(receipts) : r.tx = i /\ r.success}

\* Types; balances never go below zero.
TypeOK ==
  /\ txs \in Seq(Pool)
  /\ batches \in Seq(SUBSET (DOMAIN txs))
  /\ accounts \in [Addresses -> [balance : Nat, nonce : Nat]]
  /\ registry \subseteq Addresses
  /\ storage \in [Slots -> Seq(DOMAIN txs)]
  /\ receipts \in Seq([tx : DOMAIN txs, success : BOOLEAN])
  /\ phase \in {"start", "run", "done"}

\* The schedule loses and repeats no transaction, and no batch holds two that
\* conflict, although the colouring also reads colours not yet given.
BatchesConflictFree ==
  phase = "run" =>
    /\ UNION ToSet(batches) \cup {r.tx : r \in ToSet(receipts)} = DOMAIN txs
    /\ \A b \in ToSet(batches) : \A i, j \in b : i # j => ~Conflict(i, j)
    /\ \A m, n \in DOMAIN batches : m # n => batches[m] \cap batches[n] = {}

\* The block executed one transaction after the other.
Serial ==
  LET after[n \in 0..Len(txs)] ==
        IF n = 0 THEN [accounts |-> [a \in Addresses |-> Account(Funds, 0)],
                       registry |-> {}, storage |-> [k \in Slots |-> <<>>],
                       receipts |-> <<>>]
        ELSE LET st == after[n - 1] IN merge_overlay(st, st, n)
  IN  after[Len(txs)]

OrderKept ==
  \A m, n \in DOMAIN receipts :
    m < n /\ receipts[m].tx > receipts[n].tx => ~Conflict(receipts[m].tx, receipts[n].tx)

AsSerial ==
  LET st == Serial
  IN  /\ accounts = st.accounts /\ registry = st.registry /\ storage = st.storage
      /\ ToSet(receipts) = ToSet(st.receipts)

\* No two contracts of the block name the same storage key.
KeysOfOneContract ==
  \A i, j \in DOMAIN txs : txs[i].slots \cap txs[j].slots # {} => txs[i].to = txs[j].to

\* Where conflicting transactions keep their order and contracts share no storage
\* key, execute_block_transactions_parallel ends in the state and with the
\* successes of executing the block one by one, in whatever order the overlays of
\* a batch are merged: analyze_access names all else that an execution touches.
SerialWhenOrderKept == Done /\ OrderKept /\ KeysOfOneContract => AsSerial

\* The access set "is necessarily conservative; contract calls assume they may
\* touch the entire contract account and storage": conflicting transactions in
\* order are enough for the serial result, whatever keys the contracts name.
AccessIsConservative == Done /\ OrderKept => AsSerial

\* Tokens leave the accounts as fees only, except that a transfer to oneself
\* loses its amount (the second write of the sender undoes the credit) and that
\* deploying a contract empties its account.
Total(S, F(_)) == MapThenSumSet(F, S)
TokensAccounted ==
  Done /\ (\A i \in Succeeded : txs[i].kind # "deploy") =>
    Total(Addresses, LAMBDA a : accounts[a].balance)
      = Funds * Cardinality(Addresses)
        - Total(Succeeded, LAMBDA i : txs[i].fee
                  + IF txs[i].kind = "transfer" /\ txs[i].from = txs[i].to
                    THEN txs[i].amount ELSE 0)

\* The batches are sorted "to maintain deterministic order and ensure sequential
\* semantics for conflicting transactions": those keep the order of the block.
ConflictsKeepOrder == Done => OrderKept

\* execute_block_transactions_parallel "returns receipts in the original
\* transaction order".
ReceiptsInOrder == Done => \A i \in DOMAIN receipts : receipts[i].tx = i
=============================================================================
