---------------------------- MODULE TxDagMempool ----------------------------
(***************************************************************************)
(* The transaction mempool (src/src/mempool/tx_dag_mempool.rs): a pool of  *)
(* transactions with declared dependencies, shared by the threads of the   *)
(* node.  Its three maps have a lock each, so an operation is one step per *)
(* critical section.  A transaction is a model value with a price and a    *)
(* sender; the set of parents is an argument of each submission.           *)
(***************************************************************************)
EXTENDS Integers, SequencesExt

CONSTANTS Txs,            \* transactions (hashes)
          Threads,        \* callers of the mempool
          Senders,        \* accounts
          Sources,        \* peers that are rate limited
          NoSource,       \* Option::None: a local submission
          Price,          \* [Txs -> Nat], gas_price
          Sender,         \* [Txs -> Senders], from
          Fees,           \* base fees the producer may set
          min_gas_price,
          max_size,
          MAX_TX_PER_SOURCE,
          MaxParents,     \* bound: dependencies of one transaction
          MaxCalls        \* bound: calls of add_transaction and clear

ASSUME ConstantsAssumption ==
  /\ Price \in [Txs -> Nat] /\ Sender \in [Txs -> Senders]
  /\ Fees \subseteq Nat /\ min_gas_price \in Nat
  /\ max_size \in Nat /\ MAX_TX_PER_SOURCE \in Nat
  /\ MaxParents \in Nat /\ MaxCalls \in Nat
  /\ NoSource \notin Sources /\ IsFiniteSet(Txs)

VARIABLES transactions,       \* hash -> [parents, is_ready]
          parent_child_map,   \* pairs <<parent, child>>
          pending_by_sender,  \* sender -> hashes in order of arrival
          current_base_fee,
          rate_limits,        \* source -> submissions in its current window
          call,               \* thread -> where it is in which operation
          calls,              \* how many calls were made
          clears              \* ghost: how many calls of clear were made

vars == <<transactions, parent_child_map, pending_by_sender, current_base_fee,
          rate_limits, call, calls, clears>>

Pool == DOMAIN transactions
Idle == [at |-> "idle"]
Adding(t, ps, at) == [at |-> at, tx |-> t, parents |-> ps]
NewCall == calls < MaxCalls /\ calls' = calls + 1

-----------------------------------------------------------------------------
(* add_transaction *)

\* Local submissions are not counted; count is what the window holds so far.
RateLimit(source, count) == source = NoSource \/ count < MAX_TX_PER_SOURCE

\* The window of the source may have run out since its last submission.  The
\* submission counts even when it is refused later.
add_transaction(th, t, ps, source) ==
  /\ call[th] = Idle
  /\ NewCall
  /\ \E elapsed \in BOOLEAN :
       LET count == IF source = NoSource \/ elapsed THEN 0 ELSE rate_limits[source]
       IN  /\ RateLimit(source, count)
           /\ rate_limits' = [s \in Sources |->
                                IF s = source THEN count + 1 ELSE rate_limits[s]]
  /\ call' = [call EXCEPT ![th] = Adding(t, ps, "admit")]
  /\ UNCHANGED <<transactions, parent_child_map, pending_by_sender,
                 current_base_fee, clears>>

\* Mutant: the pool counts as full one transaction late.
Full_late == Cardinality(Pool) > max_size

Full == Cardinality(Pool) >= max_size

\* Mutant: any cheaper transaction gives way.
Victims_any(t) == {v \in Pool : Price[v] < Price[t]}

\* A lowest-priced transaction (any of them) gives way to a dearer one.
Victims(t) == {v \in Pool : /\ \A u \in Pool : Price[v] <= Price[u]
                            /\ Price[v] < Price[t]}

\* What may be dropped to make room: {} stands for no need to drop.
Evictions(t) == IF Full THEN {{v} : v \in Victims(t)} ELSE {{}}

PaysEnough(t) == Price[t] >= current_base_fee /\ Price[t] >= min_gas_price

Entry(ps, rest) == [parents |-> ps, is_ready |-> ps \cap rest = {}]

\* The first critical section, under the write lock of transactions.  valid: the
\* transaction is signed and its sender's balance was not zero when it was read.
\* A transaction that is refused has made room all the same.
admit(th) ==
  /\ call[th].at = "admit"
  /\ LET t == call[th].tx
         ps == call[th].parents
     IN  \/ /\ Evictions(t) = {}
            /\ call' = [call EXCEPT ![th] = Idle]
            /\ UNCHANGED transactions
         \/ \E gone \in Evictions(t), valid \in BOOLEAN :
              LET rest == Pool \ gone
                  accept == valid /\ PaysEnough(t) /\ t \notin rest
              IN  /\ transactions' = [u \in rest \cup {x \in {t} : accept} |->
                                        IF u = t /\ accept THEN Entry(ps, rest)
                                        ELSE transactions[u]]
                  /\ call' = [call EXCEPT ![th] =
                                IF accept THEN Adding(t, ps, "link") ELSE Idle]
  /\ UNCHANGED <<parent_child_map, pending_by_sender, current_base_fee,
                 rate_limits, calls, clears>>

link(th) ==
  /\ call[th].at = "link"
  /\ parent_child_map' =
       parent_child_map \cup {<<p, call[th].tx>> : p \in call[th].parents}
  /\ call' = [call EXCEPT ![th].at = "pend"]
  /\ UNCHANGED <<transactions, pending_by_sender, current_base_fee,
                 rate_limits, calls, clears>>

\* Mutant: the sender's list is started afresh.
pending_replaced(t) == [pending_by_sender EXCEPT ![Sender[t]] = <<t>>]

pending_pushed(t) == [pending_by_sender EXCEPT ![Sender[t]] = Append(@, t)]

pend(th) ==
  /\ call[th].at = "pend"
  /\ pending_by_sender' = pending_pushed(call[th].tx)
  /\ call' = [call EXCEPT ![th] = Idle]
  /\ UNCHANGED <<transactions, parent_child_map, current_base_fee, rate_limits,
                 calls, clears>>

-----------------------------------------------------------------------------
(* The other operations *)

\* The children to wake are looked up after the entry that lists them is gone.
Woken(t, map) == {c \in Pool \ {t} : <<t, c>> \in map}

\* Runs under the write lock of transactions from beginning to end; the other
\* two maps are locked one after the other in between, and no other operation
\* holds both of them.
remove_transaction(th, t) ==
  /\ call[th] = Idle
  /\ t \in Pool
  /\ LET left == {l \in parent_child_map : l[1] # t}
         rest == Pool \ {t}
     IN  /\ parent_child_map' = left
         /\ transactions' =
              [u \in rest |->
                 IF u \in Woken(t, left)
                 THEN Entry(transactions[u].parents, rest)
                 ELSE transactions[u]]
  /\ pending_by_sender' =
       [pending_by_sender EXCEPT ![Sender[t]] = SelectSeq(@, LAMBDA h : h # t)]
  /\ UNCHANGED <<current_base_fee, rate_limits, call, calls, clears>>

set_base_fee(fee) ==
  /\ current_base_fee' = fee
  /\ UNCHANGED <<transactions, parent_child_map, pending_by_sender, rate_limits,
                 call, calls, clears>>

\* clear empties the maps one by one.
clear(th) ==
  /\ \/ /\ call[th] = Idle
        /\ NewCall /\ clears' = clears + 1
        /\ transactions' = [t \in {} |-> Idle]
        /\ call' = [call EXCEPT ![th] = [at |-> "clear_links"]]
        /\ UNCHANGED <<parent_child_map, pending_by_sender>>
     \/ /\ call[th].at = "clear_links"
        /\ parent_child_map' = {}
        /\ call' = [call EXCEPT ![th] = [at |-> "clear_pending"]]
        /\ UNCHANGED <<transactions, pending_by_sender, calls, clears>>
     \/ /\ call[th].at = "clear_pending"
        /\ pending_by_sender' = [s \in Senders |-> <<>>]
        /\ call' = [call EXCEPT ![th] = Idle]
        /\ UNCHANGED <<transactions, parent_child_map, calls, clears>>
  /\ UNCHANGED <<current_base_fee, rate_limits>>

get_ready_transactions == {t \in Pool : transactions[t].is_ready}

Init ==
  /\ transactions = [t \in {} |-> Idle]
  /\ parent_child_map = {}
  /\ pending_by_sender = [s \in Senders |-> <<>>]
  /\ current_base_fee = min_gas_price
  /\ rate_limits = [s \in Sources |-> 0]
  /\ call = [th \in Threads |-> Idle]
  /\ calls = 0
  /\ clears = 0

ParentSets(t) == {ps \in SUBSET (Txs \ {t}) : Cardinality(ps) <= MaxParents}

Next ==
  \/ \E th \in Threads, t \in Txs, source \in Sources \cup {NoSource} :
       \E ps \in ParentSets(t) : add_transaction(th, t, ps, source)
  \/ \E th \in Threads : admit(th) \/ link(th) \/ pend(th) \/ clear(th)
  \/ \E th \in Threads, t \in Txs : remove_transaction(th, t)
  \/ \E fee \in Fees : set_base_fee(fee)

Spec == Init /\ [][Next]_vars

-----------------------------------------------------------------------------
(* Properties *)

\* Types: the maps mention transactions only, and no source was granted more
\* than MAX_TX_PER_SOURCE submissions in its window.
TypeOK ==
  /\ Pool \subseteq Txs
  /\ \A t \in Pool : transactions[t] \in [parents : SUBSET Txs, is_ready : BOOLEAN]
  /\ parent_child_map \subseteq Txs \X Txs
  /\ pending_by_sender \in [Senders -> Seq(Txs)]
  /\ current_base_fee \in Nat
  /\ rate_limits \in [Sources -> 0..MAX_TX_PER_SOURCE]
  /\ calls \in 0..MaxCalls /\ clears \in 0..calls
  /\ \A th \in Threads :
       call[th] \in {Idle, [at |-> "clear_links"], [at |-> "clear_pending"]}
         \cup [at : {"admit", "link", "pend"}, tx : Txs, parents : SUBSET Txs]

\* However many threads add at once, the pool never holds more than max_size
\* transactions: eviction and insertion share one critical section.
CapacityRespected == Cardinality(Pool) <= max_size

\* add_transaction registers a transaction in pending_by_sender in a later
\* critical section than the one that inserts it, and remove_transaction undoes
\* both: as long as clear was not used, a pooled transaction is in its sender's
\* list, or the thread that inserted it is still on its way there.
PendingCoversPool ==
  clears = 0 => \A t \in Pool :
    \/ t \in ToSet(pending_by_sender[Sender[t]])
    \/ \E th \in Threads : call[th].at \in {"link", "pend"} /\ call[th].tx = t

\* A transaction that leaves the pool while the pool does not shrink was
\* displaced: nothing in the pool was cheaper, and what came in pays more.
DisplacedByDearer ==
  [][\A t \in Pool \ Pool', new \in Pool' \ Pool :
       /\ Price[t] < Price[new]
       /\ \A u \in Pool : Price[t] <= Price[u]]_vars

\* get_ready_transactions is documented (in Indonesian) as returning the
\* transactions all of whose dependencies are fulfilled or that have none: a
\* transaction none of whose parents is in the pool any more is ready.
UnblockedIsReady ==
  \A t \in Pool : transactions[t].parents \cap Pool = {} => t \in get_ready_transactions

\* The other direction of the same sentence: a ready transaction has no parent
\* that is still waiting in the pool.
ReadyIsUnblocked ==
  \A t \in get_ready_transactions : transactions[t].parents \cap Pool = {}

\* pending_by_sender is documented as the pending transactions of a sender:
\* what it lists is in the pool, once no call is under way.
PendingIsPooled ==
  (\A th \in Threads : call[th] = Idle)
    => \A s \in Senders : ToSet(pending_by_sender[s]) \subseteq Pool

\* A transaction is dropped for capacity only in favour of one that gets in:
\* the test of the full mempool says "should drop tx1 and accept tx2".
DroppedForAdmitted ==
  [][\A th \in Threads :
       call[th].at = "admit" /\ Pool \ Pool' # {} /\ call'[th] # call[th]
         => call[th].tx \in Pool']_vars
=============================================================================
