------------------------------ MODULE MCPeers ------------------------------
(***************************************************************************)
(* Four parts of the network side of a node, checked in one run.           *)
(* They share no state and no lock, so a behaviour exercises one of them,  *)
(* chosen at the start, and interleaving them would add nothing.           *)
(***************************************************************************)
EXTENDS Integers, TLC

CONSTANTS p1, p2

VARIABLES ledger,
          peers, bans, stuck, reconnecting, now, net, marked,
          known, trusted_peers, banned_peers, clock,
          states, time, next_cleanup, calls, open, granted, forgotten,
          state, last_synced_root, sync_in_progress, snapshots, handler, sent, moved

tableVars == <<peers, bans, stuck, reconnecting, now, net, marked>>
standingVars == <<known, trusted_peers, banned_peers, clock>>
limitsVars == <<states, time, next_cleanup, calls, open, granted, forgotten>>
stateVars == <<state, last_synced_root, sync_in_progress, snapshots, handler, sent, moved>>

Table == INSTANCE PeerManager WITH
  Peers <- {p1, p2}, Heights <- {1}, Points <- {50}, max_peers <- 1,
  BanFor <- 3, StaleAfter <- 1, MinScore <- -50, MaxTime <- 4

Standing == INSTANCE Discovery WITH
  Nodes <- {p1, p2}, Deltas <- {500, -500}, max_peers <- 100, Hour <- 1, Week <- 2,
  MaxAttempts <- 1, MaxTime <- 3

Limits == INSTANCE DosProtection WITH
  Addresses <- {p1, p2}, max_connections_per_ip <- 1, max_requests_per_second <- 2,
  max_bandwidth_per_second <- 1, max_tracked_ips <- 1, Bytes <- {1}, Second <- 2,
  ban_duration <- 5, cleanup_interval <- 2, MaxCalls <- 5, MaxTime <- 5

State == INSTANCE StateSync WITH Roots <- {1, 2, 3}, Handlers <- {p1, p2}, MaxSnapshots <- 3

\* Peers and addresses are interchangeable.
Symmetry == Permutations({p1, p2})

Init ==
  /\ ledger \in {"table", "standing", "limits", "state"}
  /\ Table!Init /\ Standing!Init /\ Limits!Init /\ State!Init
  /\ ledger # "state" => state = 1

Next ==
  /\ UNCHANGED ledger
  /\ \/ ledger = "table" /\ Table!Next /\ UNCHANGED <<standingVars, limitsVars, stateVars>>
     \/ ledger = "standing" /\ Standing!Next /\ UNCHANGED <<tableVars, limitsVars, stateVars>>
     \/ ledger = "limits" /\ Limits!Next /\ UNCHANGED <<tableVars, standingVars, stateVars>>
     \/ ledger = "state" /\ State!Next /\ UNCHANGED <<tableVars, standingVars, limitsVars>>

Spec == Init /\ [][Next]_<<ledger, tableVars, standingVars, limitsVars, stateVars>>

\* Types of the ledgers.
TypeOK == Table!TypeOK /\ Standing!TypeOK /\ Limits!TypeOK

\* See PeerManager: the peer table, its bans and the passes of reconnect_peers.
TableIsBounded == Table!TableIsBounded
\* See PeerManager.
UsedUpIsBanned == Table!UsedUpIsBanned
\* See PeerManager.
BanDisconnects == Table!BanDisconnects
\* See PeerManager: no operation lifts or shortens a ban before it expires.
BansStand == [][Table!BansKept]_tableVars
\* See PeerManager.
BannedNotChosen == Table!BannedNotChosen
\* See PeerManager.
AddPeerReturns == Table!AddPeerReturns
\* See PeerManager.
ConnectionsListed == Table!ConnectionsListed

\* See Discovery: the lists of trusted and banned peers beside the table.
ListsWithinTable == Standing!ListsWithinTable
\* See Discovery.
ListsDisjoint == Standing!ListsDisjoint
\* See Discovery.
ListsAgree == Standing!ListsAgree
\* See Discovery.
GoodPeersOffered == Standing!GoodPeersOffered

\* See DosProtection: connections, requests and violations per address.
ConnectionsCounted == Limits!ConnectionsCounted
\* See DosProtection.
RequestsLimited == Limits!RequestsLimited
\* See DosProtection.
ThreeViolationsBan == Limits!ThreeViolationsBan

\* See StateSync: the state and the root it was synchronised to.
RootsTogether == State!RootsTogether
\* See StateSync: the flag of a synchronisation in progress.
FlagReleased == [][State!Released]_stateVars
=============================================================================
