------------------------- MODULE TxDagMempoolProofs -------------------------
(***************************************************************************)
(* Proofs about the mempool for any transactions, threads, prices and      *)
(* limits: its capacity, and who is displaced for whom.  The sender lists  *)
(* are filtered with SelectSeq, which is recursive, and stay with TLC.     *)
(***************************************************************************)
EXTENDS TxDagMempool, FiniteSetTheorems, TLAPS

\* The capacity is inductive once the pool is known to be a finite set of
\* transactions and the call of a thread that asks for admission names one (the
\* last conjunct says that call is a function on the threads).
PoolInv ==
  /\ Pool \subseteq Txs
  /\ IsFiniteSet(Pool)
  /\ CapacityRespected
  /\ \A th \in Threads : call[th].at = "admit" => call[th].tx \in Txs
  /\ call \in [Threads -> {call[th] : th \in Threads}]

\* Making room never leaves a full pool: what remains is below the limit.
LEMMA RoomIsMade ==
  ASSUME PoolInv, NEW t \in Txs, NEW gone \in Evictions(t)
  PROVE  /\ IsFiniteSet(Pool \ gone) /\ Cardinality(Pool \ gone) \in Nat
         /\ Cardinality(Pool \ gone) < max_size
<1>1. Cardinality(Pool) \in Nat /\ Cardinality(Pool) <= max_size /\ max_size \in Nat
  BY FS_CardinalityType, ConstantsAssumption DEF PoolInv, CapacityRespected
<1>2. CASE Full
  <2>1. PICK v \in Pool : gone = {v}
    BY <1>2 DEF Evictions, Victims
  <2>2. Cardinality(Pool \ {v}) = Cardinality(Pool) - 1 /\ IsFiniteSet(Pool \ {v})
    BY FS_RemoveElement DEF PoolInv
  <2>3. Cardinality(Pool \ {v}) \in Nat
    BY <2>2, FS_CardinalityType
  <2> QED BY <1>1, <2>1, <2>2, <2>3
<1>3. CASE ~Full
  <2>1. gone = {}
    BY <1>3 DEF Evictions
  <2>2. Pool \ gone = Pool
    BY <2>1
  <2>3. Cardinality(Pool) < max_size
    BY <1>1, <1>3 DEF Full
  <2>4. IsFiniteSet(Pool)
    BY DEF PoolInv
  <2> QED BY <1>1, <2>2, <2>3, <2>4
<1> QED BY <1>2, <1>3

\* What admit does to the pool: nothing, or room is made and at most the
\* transaction of the call comes in.
LEMMA AdmitEffect ==
  ASSUME PoolInv, NEW th \in Threads, admit(th)
  PROVE  \/ Pool' = Pool
         \/ \E gone \in Evictions(call[th].tx) :
              Pool' = Pool \ gone \/ Pool' = (Pool \ gone) \cup {call[th].tx}
<1> DEFINE t == call[th].tx
           ps == call[th].parents
<1>1. CASE UNCHANGED transactions
  BY <1>1 DEF Pool
<1>2. CASE ~UNCHANGED transactions
  <2>1. PICK gone \in Evictions(t), valid \in BOOLEAN :
          LET rest == Pool \ gone
              accept == valid /\ PaysEnough(t) /\ t \notin rest
          IN  transactions' = [u \in rest \cup {x \in {t} : accept} |->
                                 IF u = t /\ accept THEN Entry(ps, rest)
                                 ELSE transactions[u]]
    BY <1>2 DEF admit
  <2> DEFINE accept == valid /\ PaysEnough(t) /\ t \notin (Pool \ gone)
  <2>2. DOMAIN transactions' = (Pool \ gone) \cup {x \in {t} : accept}
    BY <2>1
  <2>3. Pool' = (Pool \ gone) \cup {x \in {t} : accept}
    BY <2>2 DEF Pool
  <2> HIDE DEF accept, t
  <2>4. Pool' = Pool \ gone \/ Pool' = (Pool \ gone) \cup {t}
    BY <2>3
  <2> QED BY <2>4 DEF t
<1> QED BY <1>1, <1>2

\* Every other operation leaves the pool alone or makes it smaller.
LEMMA OthersShrink ==
  ASSUME PoolInv, [Next]_vars, ~ \E th \in Threads : admit(th)
  PROVE  Pool' \subseteq Pool
<1>1. ASSUME NEW th \in Threads, NEW t \in Txs, NEW source, NEW ps,
             add_transaction(th, t, ps, source)
      PROVE  Pool' \subseteq Pool
  BY <1>1 DEF add_transaction, Pool
<1>2. ASSUME NEW th \in Threads, link(th) \/ pend(th) \/ clear(th)
      PROVE  Pool' \subseteq Pool
  BY <1>2 DEF link, pend, clear, Pool
<1>3. ASSUME NEW th \in Threads, NEW t \in Txs, remove_transaction(th, t)
      PROVE  Pool' \subseteq Pool
  <2>1. DOMAIN transactions' = Pool \ {t}
    BY <1>3 DEF remove_transaction
  <2> QED BY <2>1 DEF Pool
<1>4. ASSUME NEW fee \in Fees, set_base_fee(fee) PROVE Pool' \subseteq Pool
  BY <1>4 DEF set_base_fee, Pool
<1>5. CASE UNCHANGED vars
  BY <1>5 DEF vars, Pool
<1> QED BY <1>1, <1>2, <1>3, <1>4, <1>5 DEF Next

LEMMA InitPool == Init => PoolInv
<1> SUFFICES ASSUME Init PROVE PoolInv
  OBVIOUS
<1>1. Pool = {}
  BY DEF Init, Pool
<1>2. IsFiniteSet(Pool) /\ Cardinality(Pool) = 0
  BY <1>1, FS_EmptySet
<1> QED BY <1>1, <1>2, ConstantsAssumption DEF Init, PoolInv, CapacityRespected, Idle

\* A thread asks for admission only by add_transaction, which names a transaction.
LEMMA CallsPreserved ==
  ASSUME PoolInv, [Next]_vars
  PROVE  /\ \A th \in Threads : call'[th].at = "admit" => call'[th].tx \in Txs
         /\ call' \in [Threads -> {call'[th] : th \in Threads}]
<1>1. ASSUME NEW th \in Threads, NEW c, call' = [call EXCEPT ![th] = c],
             c.at = "admit" => c.tx \in Txs
      PROVE  /\ \A u \in Threads : call'[u].at = "admit" => call'[u].tx \in Txs
             /\ call' \in [Threads -> {call'[u] : u \in Threads}]
  BY <1>1 DEF PoolInv
<1>2. ASSUME UNCHANGED call
      PROVE  /\ \A u \in Threads : call'[u].at = "admit" => call'[u].tx \in Txs
             /\ call' \in [Threads -> {call'[u] : u \in Threads}]
  BY <1>2 DEF PoolInv
<1>3. Idle.at # "admit"
  BY DEF Idle
<1>4. ASSUME NEW th \in Threads, NEW t \in Txs, NEW source, NEW ps,
             add_transaction(th, t, ps, source)
      PROVE  call' = [call EXCEPT ![th] = Adding(t, ps, "admit")]
  BY <1>4 DEF add_transaction
<1>5. \A t, ps, at : Adding(t, ps, at).at = at /\ Adding(t, ps, at).tx = t
  BY DEF Adding
<1>6. ASSUME NEW th \in Threads, admit(th)
      PROVE  \E c : call' = [call EXCEPT ![th] = c] /\ c.at # "admit"
  <2>1. \/ call' = [call EXCEPT ![th] = Idle]
        \/ call' = [call EXCEPT ![th] = Adding(call[th].tx, call[th].parents, "link")]
    BY <1>6 DEF admit
  <2> QED BY <2>1, <1>3, <1>5
<1>7. ASSUME NEW th \in Threads, link(th)
      PROVE  \E c : call' = [call EXCEPT ![th] = c] /\ c.at # "admit"
  <2> DEFINE c == [call[th] EXCEPT !.at = "pend"]
  <2>1. call' = [call EXCEPT ![th] = c]
    BY <1>7 DEF link, PoolInv
  <2>2. c.at # "admit"
    BY <1>7 DEF link
  <2> QED BY <2>1, <2>2
<1>8. ASSUME NEW th \in Threads, pend(th) \/ clear(th)
      PROVE  \E c : call' = [call EXCEPT ![th] = c] /\ c.at # "admit"
  BY <1>8, <1>3 DEF pend, clear
<1>9. ASSUME NEW th \in Threads, NEW t \in Txs, remove_transaction(th, t)
      PROVE  UNCHANGED call
  BY <1>9 DEF remove_transaction
<1>10. ASSUME NEW fee \in Fees, set_base_fee(fee) PROVE UNCHANGED call
  BY <1>10 DEF set_base_fee
<1>11. CASE UNCHANGED vars
  BY <1>11, <1>2 DEF vars
<1>12. CASE \E th \in Threads, t \in Txs, source \in Sources \cup {NoSource} :
              \E ps \in ParentSets(t) : add_transaction(th, t, ps, source)
  <2>1. PICK th \in Threads, t \in Txs, source \in Sources \cup {NoSource} :
          \E ps \in ParentSets(t) : add_transaction(th, t, ps, source)
    BY <1>12
  <2>2. PICK ps \in ParentSets(t) : add_transaction(th, t, ps, source)
    BY <2>1
  <2> DEFINE c == Adding(t, ps, "admit")
  <2>3. call' = [call EXCEPT ![th] = c]
    BY <2>2, <1>4
  <2>4. c.tx \in Txs
    BY <1>5
  <2> HIDE DEF c
  <2> QED BY <2>3, <2>4, <1>1
<1>13. CASE \E th \in Threads : admit(th) \/ link(th) \/ pend(th) \/ clear(th)
  BY <1>13, <1>1, <1>6, <1>7, <1>8
<1> QED BY <1>2, <1>9, <1>10, <1>11, <1>12, <1>13 DEF Next

LEMMA NextPool == PoolInv /\ [Next]_vars => PoolInv'
<1> SUFFICES ASSUME PoolInv, [Next]_vars PROVE PoolInv'
  OBVIOUS
<1>1. Pool' \subseteq Txs /\ IsFiniteSet(Pool') /\ Cardinality(Pool') <= max_size
  <2>1. ASSUME Pool' \subseteq Pool
        PROVE  Pool' \subseteq Txs /\ IsFiniteSet(Pool') /\ Cardinality(Pool') <= max_size
    <3>1. /\ IsFiniteSet(Pool') /\ Cardinality(Pool') <= Cardinality(Pool)
          /\ Cardinality(Pool') \in Nat /\ Cardinality(Pool) \in Nat /\ max_size \in Nat
      BY <2>1, FS_Subset, FS_CardinalityType, ConstantsAssumption DEF PoolInv
    <3> QED BY <2>1, <3>1 DEF PoolInv, CapacityRespected
  <2>2. ASSUME NEW th \in Threads, admit(th)
        PROVE  Pool' \subseteq Txs /\ IsFiniteSet(Pool') /\ Cardinality(Pool') <= max_size
    <3> DEFINE t == call[th].tx
    <3>1. t \in Txs
      BY <2>2 DEF admit, PoolInv
    <3>2. CASE Pool' \subseteq Pool
      BY <3>2, <2>1
    <3>3. CASE \E gone \in Evictions(t) : Pool' = (Pool \ gone) \cup {t}
      <4>1. PICK gone \in Evictions(t) : Pool' = (Pool \ gone) \cup {t}
        BY <3>3
      <4>2. /\ IsFiniteSet(Pool \ gone) /\ Cardinality(Pool \ gone) \in Nat
            /\ Cardinality(Pool \ gone) < max_size
        BY <3>1, RoomIsMade
      <4>3. /\ IsFiniteSet((Pool \ gone) \cup {t})
            /\ \/ Cardinality((Pool \ gone) \cup {t}) = Cardinality(Pool \ gone)
               \/ Cardinality((Pool \ gone) \cup {t}) = Cardinality(Pool \ gone) + 1
        BY <4>2, FS_AddElement
      <4> QED BY <3>1, <4>1, <4>2, <4>3, ConstantsAssumption DEF PoolInv
    <3> QED BY <2>2, <3>2, <3>3, AdmitEffect
  <2> QED BY <2>1, <2>2, OthersShrink
<1> QED BY <1>1, CallsPreserved DEF PoolInv, CapacityRespected

-----------------------------------------------------------------------------
(* Results *)

\* However many threads add at once, the pool never exceeds max_size.
THEOREM Capacity == Spec => []CapacityRespected
<1>1. Spec => []PoolInv
  BY InitPool, NextPool, PTL DEF Spec
<1>2. PoolInv => CapacityRespected
  BY DEF PoolInv
<1> QED BY <1>1, <1>2, PTL

\* A transaction that another one displaces was the cheapest and is cheaper than it.
THEOREM Displacement == Spec => DisplacedByDearer
<1> DEFINE Fair == \A t \in Pool \ Pool', new \in Pool' \ Pool :
                     /\ Price[t] < Price[new]
                     /\ \A u \in Pool : Price[t] <= Price[u]
<1>1. PoolInv /\ [Next]_vars => [Fair]_vars
  <2> SUFFICES ASSUME PoolInv, [Next]_vars,
                      NEW t \in Pool \ Pool', NEW new \in Pool' \ Pool
               PROVE  Price[t] < Price[new] /\ \A u \in Pool : Price[t] <= Price[u]
    OBVIOUS
  <2>1. PICK th \in Threads : admit(th)
    BY OthersShrink
  <2>2. PICK gone \in Evictions(call[th].tx) : Pool' = (Pool \ gone) \cup {call[th].tx}
    BY <2>1, AdmitEffect
  <2>3. new = call[th].tx /\ t \in gone
    BY <2>2
  <2>4. t \in Victims(call[th].tx)
    BY <2>3 DEF Evictions
  <2> QED BY <2>3, <2>4 DEF Victims
<1>2. Spec => []PoolInv
  BY InitPool, NextPool, PTL DEF Spec
<1> QED BY <1>1, <1>2, PTL DEF Spec, DisplacedByDearer
=============================================================================
