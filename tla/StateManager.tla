---------------------------- MODULE StateManager ----------------------------
(***************************************************************************)
(* The account state (src/src/state/state_manager.rs) over the leaves of   *)
(* its tree (src/src/state/state_tree.rs): balances and nonces, minting,   *)
(* the emission counter kept in an account of its own, and the rebuild     *)
(* from blocks.  Callers hold a lock for each call, so a call is a step.   *)
(* The tree's hash is left out.                                            *)
(***************************************************************************)
EXTENDS Integers, SequencesExt

CONSTANTS Users,                   \* ordinary addresses
          GENESIS_WALLET,
          EMISSION_STATE_ACCOUNT,
          CTS_MAX_SUPPLY,
          CTS_GENESIS_ALLOCATION,
          U64_MAX,
          Amounts, Fees,           \* amounts and fees in use
          MaxNonce,                \* bound: nonces of submitted transactions
          MaxCalls                 \* bound: calls

ASSUME SupplyAssumption ==
  /\ CTS_MAX_SUPPLY \in Nat /\ CTS_GENESIS_ALLOCATION \in 0..CTS_MAX_SUPPLY
  /\ U64_MAX \in Nat /\ CTS_MAX_SUPPLY < U64_MAX
  /\ Amounts \subseteq 0..U64_MAX /\ Fees \subseteq 0..U64_MAX
  /\ MaxNonce \in Nat /\ MaxCalls \in Nat

ASSUME AddressAssumption ==
  /\ GENESIS_WALLET # EMISSION_STATE_ACCOUNT
  /\ Users \cap {GENESIS_WALLET, EMISSION_STATE_ACCOUNT} = {}

VARIABLES accounts,   \* address -> [balance, nonce], the accounts that exist
          calls,
          minted,     \* ghost: tokens created by allocation and credit
          burned,     \* ghost: tokens taken as fees
          parked,     \* ghost: tokens transferred to the emission account
          history     \* ghost: the transfers applied to this tree

vars == <<accounts, calls, minted, burned, parked, history>>

Senders == Users \cup {GENESIS_WALLET}
Addresses == Senders \cup {EMISSION_STATE_ACCOUNT}
CTS_MINING_SUPPLY == CTS_MAX_SUPPLY - CTS_GENESIS_ALLOCATION

Account(balance, nonce) == [balance |-> balance, nonce |-> nonce]
get_account(accts, a) == IF a \in DOMAIN accts THEN accts[a] ELSE Account(0, 0)
update_account(accts, a, acc) ==
  [x \in DOMAIN accts \cup {a} |-> IF x = a THEN acc ELSE accts[x]]

SaturatingAdd(m, n) == IF m + n > U64_MAX THEN U64_MAX ELSE m + n

\* The emission account does not count.
get_total_supply(accts) ==
  MapThenSumSet(LAMBDA a : accts[a].balance, DOMAIN accts \ {EMISSION_STATE_ACCOUNT})
get_emitted_supply == get_account(accounts, EMISSION_STATE_ACCOUNT).balance

Call == calls < MaxCalls /\ calls' = calls + 1

-----------------------------------------------------------------------------
(* Transfers *)

Txs == [from : Senders, to : Addresses, amount : Amounts, nonce : 0..MaxNonce, fee : Fees]

TotalCost(tx) == SaturatingAdd(tx.amount, tx.fee)

\* Mutant: old transactions are let through.
Applicable_once_more(accts, tx) ==
  /\ tx.amount > 0
  /\ get_account(accts, tx.from).nonce >= tx.nonce
  /\ get_account(accts, tx.from).balance >= TotalCost(tx)

Applicable(accts, tx) ==
  /\ tx.amount > 0
  /\ get_account(accts, tx.from).nonce = tx.nonce
  /\ get_account(accts, tx.from).balance >= TotalCost(tx)

Debit(accts, tx) ==
  LET sender == get_account(accts, tx.from)
  IN  update_account(accts, tx.from, Account(sender.balance - TotalCost(tx), sender.nonce + 1))

\* Mutant: the receiver was read before the sender was written.
apply_transfer_reading_early(accts, tx) ==
  LET receiver == get_account(accts, tx.to)
  IN  update_account(Debit(accts, tx), tx.to,
                     Account(receiver.balance + tx.amount, receiver.nonce))

\* The receiver is read after the sender is written; they may be the same.
apply_transfer(accts, tx) ==
  LET receiver == get_account(Debit(accts, tx), tx.to)
  IN  update_account(Debit(accts, tx), tx.to,
                     Account(receiver.balance + tx.amount, receiver.nonce))

apply_transaction(tx) ==
  /\ Call
  /\ Applicable(accounts, tx)
  /\ accounts' = apply_transfer(accounts, tx)
  /\ burned' = burned + TotalCost(tx) - tx.amount
  /\ parked' = parked + (IF tx.to = EMISSION_STATE_ACCOUNT THEN tx.amount ELSE 0)
  /\ history' = Append(history, tx)
  /\ UNCHANGED minted

-----------------------------------------------------------------------------
(* Fees, minting, emission *)

\* What a contract transaction costs, once the gas it used is known.
deduct_fee(from, fee) ==
  /\ Call
  /\ fee > 0
  /\ LET acc == get_account(accounts, from)
     IN  /\ acc.balance >= fee
         /\ accounts' = update_account(accounts, from, Account(acc.balance - fee, acc.nonce))
  /\ burned' = burned + fee
  /\ UNCHANGED <<minted, parked, history>>

WithinCap(amount) ==
  SaturatingAdd(get_total_supply(accounts), amount) <= CTS_MAX_SUPPLY

credit_account(to, amount) ==
  /\ Call
  /\ amount > 0
  /\ WithinCap(amount)
  /\ LET acc == get_account(accounts, to)
     IN  accounts' = update_account(accounts, to, Account(acc.balance + amount, acc.nonce))
  /\ minted' = minted + amount
  /\ UNCHANGED <<burned, parked, history>>

add_emitted_supply(amount) ==
  /\ Call
  /\ amount > 0
  /\ LET acc == get_account(accounts, EMISSION_STATE_ACCOUNT)
         remaining == Max({0, CTS_MINING_SUPPLY - acc.balance})
     IN  /\ remaining > 0
         /\ accounts' = update_account(accounts, EMISSION_STATE_ACCOUNT,
                          Account(acc.balance + Min({amount, remaining}), acc.nonce))
  /\ UNCHANGED <<minted, burned, parked, history>>

\* The genesis wallet gets its allocation whenever it is empty.
initialize_tokenomics ==
  /\ Call
  /\ LET genesis == get_account(accounts, GENESIS_WALLET)
         balance == IF genesis.balance = 0 THEN CTS_GENESIS_ALLOCATION ELSE genesis.balance
     IN  /\ accounts' = update_account(
                          update_account(accounts, GENESIS_WALLET, Account(balance, genesis.nonce)),
                          EMISSION_STATE_ACCOUNT, get_account(accounts, EMISSION_STATE_ACCOUNT))
         /\ minted' = minted + balance - genesis.balance
  /\ UNCHANGED <<burned, parked, history>>

-----------------------------------------------------------------------------
(* Rebuild *)

NoAccounts == [a \in {} |-> Account(0, 0)]

\* Transactions are replayed on an empty tree up to the first that fails.
Replay(txs) ==
  FoldLeft(LAMBDA st, tx :
             IF st.ok /\ Applicable(st.accounts, tx)
             THEN [st EXCEPT !.accounts = apply_transfer(st.accounts, tx),
                             !.applied = Append(@, tx)]
             ELSE [st EXCEPT !.ok = FALSE],
           [ok |-> TRUE, accounts |-> NoAccounts, applied |-> <<>>], txs)

\* Rebuild from the blocks of any prefix of the history.
rebuild_from_blocks ==
  /\ Call
  /\ \E n \in 0..Len(history) :
       LET st == Replay(SubSeq(history, 1, n))
       IN  accounts' = st.accounts /\ history' = st.applied
  /\ minted' = 0 /\ burned' = 0 /\ parked' = 0

Init ==
  /\ accounts = [a \in {GENESIS_WALLET, EMISSION_STATE_ACCOUNT} |-> Account(0, 0)]
  /\ calls = 0
  /\ minted = 0 /\ burned = 0 /\ parked = 0
  /\ history = <<>>

Next ==
  \/ initialize_tokenomics
  \/ \E tx \in Txs : apply_transaction(tx)
  \/ \E a \in Senders, fee \in Fees : deduct_fee(a, fee)
  \/ \E a \in Senders, amount \in Amounts : credit_account(a, amount)
  \/ \E amount \in Amounts : add_emitted_supply(amount)
  \/ rebuild_from_blocks

Spec == Init /\ [][Next]_vars

-----------------------------------------------------------------------------
(* Properties *)

\* Types: every balance fits its 64 bits although balances are added unchecked.
TypeOK ==
  /\ DOMAIN accounts \subseteq Addresses
  /\ \A a \in DOMAIN accounts : accounts[a] \in [balance : 0..U64_MAX, nonce : Nat]
  /\ calls \in 0..MaxCalls
  /\ minted \in Nat /\ burned \in Nat /\ parked \in Nat
  /\ history \in Seq(Txs)

\* Tokens come only from minting and go only to fees (or into the emission
\* account, which total supply does not count): no transfer creates or destroys
\* any, not even one to the sender itself.
SupplyConserved == get_total_supply(accounts) = minted - burned - parked

\* A transfer is applied at most once: each one applied has a nonce below the
\* present nonce of its sender, and no two of one sender share a nonce.
NoReplay ==
  /\ \A i \in DOMAIN history :
       history[i].nonce < get_account(accounts, history[i].from).nonce
  /\ \A i, j \in DOMAIN history :
       i # j /\ history[i].from = history[j].from => history[i].nonce # history[j].nonce

\* credit_account says "Enforce global supply cap (600M CTS): cannot mint more
\* tokens beyond the hard cap".
SupplyCapped == get_total_supply(accounts) <= CTS_MAX_SUPPLY

\* add_emitted_supply says "Ensure we never exceed the mining supply cap."
EmissionCapped == get_emitted_supply <= CTS_MINING_SUPPLY

\* rebuild_from_blocks is there "to revert state to a prior canonical history":
\* the transfers that were applied can be applied again.
HistoryReplays == Replay(history).ok
=============================================================================
