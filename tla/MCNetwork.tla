----------------------------- MODULE MCNetwork -----------------------------
(***************************************************************************)
(* Two workloads of the network in one run, chosen at the start: three     *)
(* nodes that gossip, and a node with a DAG beside one that starts empty.  *)
(* The two kinds of traffic share the channels and no other state.         *)
(***************************************************************************)
EXTENDS Integers

CONSTANTS n1, n2, n3, x, y, g, t, NoBlock

VARIABLES workload, dag, pending, seen, outbox, flight, lost, checks, foreign,
          cleanups, asked, told

netVars == <<dag, pending, seen, outbox, flight, lost, checks, foreign, cleanups,
             asked, told>>

Gossip == INSTANCE Network WITH
  Nodes <- {n1, n2, n3}, Bodies <- {}, GenesisBody <- g, Founders <- {n1}, Transactions <- {t},
  HeaderLimit <- 1, MayDisconnect <- FALSE, MaxLost <- 1, MaxChecks <- 0,
  MaxForeign <- 0, MaxCleanups <- 1

Sync == INSTANCE Network WITH
  Nodes <- {n1, n2}, Bodies <- {x, y}, GenesisBody <- g, Founders <- {n1}, Transactions <- {},
  HeaderLimit <- 2, MayDisconnect <- TRUE, MaxLost <- 0, MaxChecks <- 1,
  MaxForeign <- 2, MaxCleanups <- 0

Init ==
  \/ workload = "gossip" /\ Gossip!Init
  \/ workload = "sync" /\ Sync!Init

\* One item is broadcast in the first workload and nothing in the second.
Next ==
  \/ /\ workload = "gossip" /\ Gossip!Next
     /\ \E item \in DOMAIN dag[n1] \cup {t} : \A n \in {n1, n2, n3} : seen'[n] \subseteq {item}
     /\ UNCHANGED workload
  \/ workload = "sync" /\ Sync!Next /\ seen' = seen /\ UNCHANGED workload

vars == <<workload, netVars>>
Spec == Init /\ [][Next]_vars

\* The fairness of Network, for the nodes of each workload.
GossipLoop(n) ==
  workload = "gossip" /\ Gossip!publish(n) /\ UNCHANGED workload
GossipHandle(n) ==
  workload = "gossip" /\ Gossip!Handle(n) /\ UNCHANGED workload
FairSpec == Spec /\ \A n \in {n1, n2, n3} : WF_vars(GossipLoop(n)) /\ WF_vars(GossipHandle(n))

SyncLoop(n) == workload = "sync" /\ Sync!publish(n) /\ UNCHANGED workload
SyncHandle(n) == workload = "sync" /\ Sync!Handle(n) /\ UNCHANGED workload
\* Nodes of this implementation among themselves: no foreign peer sends.
FairSync ==
  /\ Init /\ workload = "sync" /\ [][Next /\ foreign' = 0]_vars
  /\ \A n \in {n1, n2} : WF_vars(SyncLoop(n)) /\ WF_vars(SyncHandle(n))

\* See Network: types of both workloads.
TypeOK == IF workload = "gossip" THEN Gossip!TypeOK ELSE Sync!TypeOK

\* See Network: stores are closed under parents and have one root.
StoresClosed == workload = "sync" => Sync!StoresClosed

\* See Network: a pending hash is asked for once per peer.
AskedOnce == workload = "sync" => Sync!AskedOnce

\* See Network: headers are listed behind their parents, the cut included.
HeadersClosed == workload = "sync" => Sync!HeadersClosed

\* See Network: gossip ends, the synchronisation has none.
GossipEnds ==
  <>[](workload = "gossip" =>
         /\ \A copy \in flight : ~Gossip!IsGossip(copy[3])
         /\ \A n \in {n1, n2, n3} : \A i \in DOMAIN outbox[n] : ~Gossip!IsGossip(outbox[n][i]))

\* See Network: a broadcast transaction reaches every node.
Spread ==
  (workload = "gossip" /\ \E n \in {n1, n2, n3} : t \in seen[n])
    ~> (cleanups > 0 \/ \A n \in {n1, n2, n3} : t \in seen[n])

\* See Network: what is_synced says is true.
SyncedIsComplete == workload = "sync" => Sync!SyncedIsComplete

\* See Network: no block the node has is pending.
PendingIsMissing == workload = "sync" => Sync!PendingIsMissing

\* See Network: a request no copy of which is lost is answered.
RequestsAnswered == Sync!RequestsAnswered
=============================================================================
