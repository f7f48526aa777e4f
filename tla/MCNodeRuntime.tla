--------------------------- MODULE MCNodeRuntime ---------------------------
(***************************************************************************)
(* A small node, and beside it the mining library, which the node does not *)
(* use: the workload chosen at the start says which of the two runs.       *)
(***************************************************************************)
EXTENDS NodeRuntime, Mining

CONSTANTS t1, t2, t3
VARIABLE workload

MCGenesisBody == [txs |-> <<>>, timestamp |-> 0, difficulty |-> 0,
                  base_fee |-> 0, coinbase |-> 0, reward |-> 99]
MCPrice == [t \in Txs |-> IF t = t1 THEN 1 ELSE 2]
MCSender == [t \in Txs |-> "alice"]

all == <<nvars, mvars, workload>>

MCInit ==
  /\ workload \in {"node", "mining"}
  /\ NodeInit /\ MInit
  /\ workload = "node" => owner = "manager" /\ last_adjustment = 0

MCNext ==
  \/ workload = "node" /\ NodeNext /\ UNCHANGED <<mvars, workload>>
  \/ workload = "mining" /\ MNext /\ UNCHANGED <<nvars, workload>>

MCSpec ==
  /\ MCInit /\ [][MCNext]_all
  /\ workload = "node" => Fairness

\* MCSpec without fairness.
MCSafety == MCInit /\ [][MCNext]_all

-----------------------------------------------------------------------------
\* See Economics: the four formulas keep their bounds.  One workload evaluates them.
FormulasKeepBounds == workload = "mining" => EconomicsKeepBounds
=============================================================================
