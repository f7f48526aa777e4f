---------------------------- MODULE PeerManager ----------------------------
(***************************************************************************)
(* The peer table of a node (src/src/network/peer_manager.rs): the peers   *)
(* with their connection, DAG height and score, and the list of bans.      *)
(* Connections and mDNS events come from the swarm (p2p_node.rs).  Every   *)
(* operation holds the lock of the table from its first line to its last   *)
(* and takes the lock of the bans inside it, so each is one step; only     *)
(* reconnect_peers is a read followed by one update per peer.              *)
(***************************************************************************)
EXTENDS Integers, FiniteSetsExt, SequencesExt

CONSTANTS Peers, Heights,
          Points,       \* points that peers lose or gain at once
          max_peers,
          BanFor,       \* 24 hours, in ticks of the clock
          StaleAfter,   \* 10 minutes, in ticks of the clock
          MinScore,     \* bound: no penalty below this score
          MaxTime       \* bound on the clock

VARIABLES peers,        \* known peers -> PeerInfo
          bans,         \* peer -> when its ban expires
          stuck,        \* a thread waits for the lock of the bans while it holds it
          reconnecting, \* peers that reconnect_peers has still to mark
          now,
          net,          \* ghost: peers the swarm has a connection to
          marked        \* ghost: peers marked connected since their last ban

vars == <<peers, bans, stuck, reconnecting, now, net, marked>>

Listed == DOMAIN peers
Banned(p) == p \in DOMAIN bans /\ bans[p] > now

\* f with p mapped to v, whether or not p was in its domain.
With(f, p, v) == [q \in DOMAIN f \cup {p} |-> IF q = p THEN v ELSE f[q]]
Without(f, gone) == [q \in DOMAIN f \ gone |-> f[q]]

\* A thread holds the lock of the table for ever once it is stuck.
Unlocked == ~stuck

PeerInfo(connected) ==
  [last_seen |-> now, is_connected |-> connected, dag_height |-> 0, score |-> 100]

-----------------------------------------------------------------------------
(* add_peer: the limit, the ban, the existing entry *)

HasRoom == Cardinality(Listed) < max_peers

\* A ban that has expired is to be removed while the guard of the lookup is still
\* alive: the thread waits for itself, with the lock of the table in its hands.
add_peer_expired(p) ==
  /\ Unlocked /\ HasRoom
  /\ p \in DOMAIN bans /\ ~Banned(p)
  /\ stuck' = TRUE
  /\ UNCHANGED <<peers, bans, reconnecting, now, net, marked>>

add_peer(p) ==
  /\ Unlocked /\ HasRoom
  /\ p \notin DOMAIN bans
  /\ p \in Listed => ~peers[p].is_connected
  /\ peers' = With(peers, p, PeerInfo(p \in Listed))
  /\ UNCHANGED <<bans, stuck, reconnecting, now, net, marked>>

\* Mutant: the ban goes with the peer.
remove_peer_forgiving(p) ==
  /\ Unlocked /\ p \in Listed
  /\ peers' = Without(peers, {p})
  /\ bans' = Without(bans, {p})
  /\ UNCHANGED <<stuck, reconnecting, now, net, marked>>

remove_peer(p) ==
  /\ Unlocked /\ p \in Listed
  /\ peers' = Without(peers, {p})
  /\ UNCHANGED <<bans, stuck, reconnecting, now, net, marked>>

-----------------------------------------------------------------------------
(* Updates *)

\* The table after update_peer_status.
StatusUpdated(p, connected) ==
  IF p \in Listed
  THEN [peers EXCEPT ![p].is_connected = connected, ![p].last_seen = now]
  ELSE peers

Mark(p, connected) ==
  marked' = IF connected /\ p \in Listed THEN marked \cup {p} ELSE marked

\* SwarmEvent::ConnectionEstablished and ConnectionClosed.
update_peer_status(p, connected) ==
  /\ Unlocked /\ (p \in net) # connected
  /\ net' = IF connected THEN net \cup {p} ELSE net \ {p}
  /\ peers' = StatusUpdated(p, connected)
  /\ Mark(p, connected)
  /\ UNCHANGED <<bans, stuck, reconnecting, now>>

update_peer_height(p, h) ==
  /\ Unlocked /\ p \in Listed
  /\ peers' = [peers EXCEPT ![p].dag_height = h]
  /\ UNCHANGED <<bans, stuck, reconnecting, now, net, marked>>

penalize_peer(p, points) ==
  /\ Unlocked /\ p \in Listed /\ peers[p].score - points >= MinScore
  /\ LET out == peers[p].score - points <= 0 IN
       /\ peers' = [peers EXCEPT ![p].score = @ - points,
                                 ![p].is_connected = @ /\ ~out]
       /\ bans' = IF out THEN With(bans, p, now + BanFor) ELSE bans
       /\ marked' = IF out THEN marked \ {p} ELSE marked
  /\ UNCHANGED <<stuck, reconnecting, now, net>>

reward_peer(p, points) ==
  /\ Unlocked /\ p \in Listed
  /\ peers' = [peers EXCEPT ![p].score = Min({@ + points, 100})]
  /\ UNCHANGED <<bans, stuck, reconnecting, now, net, marked>>

-----------------------------------------------------------------------------
(* Periodic work *)

Stale(p) == now - peers[p].last_seen > StaleAfter

cleanup_stale_peers ==
  /\ Unlocked /\ \E p \in Listed : Stale(p)
  /\ peers' = Without(peers, {p \in Listed : Stale(p)})
  /\ UNCHANGED <<bans, stuck, reconnecting, now, net, marked>>

\* The disconnected peers are listed under the read lock.
reconnect_peers ==
  /\ Unlocked /\ reconnecting = {}
  /\ reconnecting' = {p \in Listed : ~peers[p].is_connected}
  /\ reconnecting' # {}
  /\ UNCHANGED <<peers, bans, stuck, now, net, marked>>

\* Mutant: a peer that has left meanwhile is entered again.
reconnect_entering(p) ==
  /\ Unlocked /\ p \in reconnecting
  /\ reconnecting' = reconnecting \ {p}
  /\ peers' = With(peers, p, PeerInfo(TRUE))
  /\ marked' = marked \cup {p}
  /\ UNCHANGED <<bans, stuck, now, net>>

reconnect(p) ==
  /\ Unlocked /\ p \in reconnecting
  /\ reconnecting' = reconnecting \ {p}
  /\ peers' = StatusUpdated(p, TRUE)
  /\ Mark(p, TRUE)
  /\ UNCHANGED <<bans, stuck, now, net>>

Tick ==
  /\ now < MaxTime
  /\ now' = now + 1
  /\ UNCHANGED <<peers, bans, stuck, reconnecting, net, marked>>

get_connected_peers == {p \in Listed : peers[p].is_connected}

\* The answers get_sync_peers(count) may give: connected peers, highest first.
get_sync_peers(count) ==
  {s \in SeqOf(get_connected_peers, count) :
     /\ IsInjective(s)
     /\ Len(s) = Min({count, Cardinality(get_connected_peers)})
     /\ \A i \in DOMAIN s : \A p \in get_connected_peers \ {s[j] : j \in 1..i} :
          peers[p].dag_height <= peers[s[i]].dag_height}

Init ==
  /\ peers = <<>> /\ bans = <<>> /\ stuck = FALSE /\ reconnecting = {} /\ now = 0
  /\ net = {} /\ marked = {}

Next ==
  \/ \E p \in Peers :
       \/ add_peer(p) \/ add_peer_expired(p) \/ remove_peer(p) \/ reconnect(p)
       \/ \E c \in BOOLEAN : update_peer_status(p, c)
       \/ \E h \in Heights : update_peer_height(p, h)
       \/ \E n \in Points : penalize_peer(p, n) \/ reward_peer(p, n)
  \/ cleanup_stale_peers \/ reconnect_peers \/ Tick

Spec == Init /\ [][Next]_vars

-----------------------------------------------------------------------------
(* Properties *)

\* Types; no peer was seen in the future, which the unsigned age of
\* cleanup_stale_peers relies on, and the score stays at or below 100.
TypeOK ==
  /\ Listed \subseteq Peers /\ DOMAIN bans \subseteq Peers
  /\ \A p \in Listed :
       peers[p] \in [last_seen : 0..now, is_connected : BOOLEAN,
                     dag_height : Heights \cup {0}, score : MinScore..100]
  /\ stuck \in BOOLEAN /\ now \in 0..MaxTime
  /\ reconnecting \subseteq Peers /\ net \subseteq Peers /\ marked \subseteq Peers

\* However peers come, go and are marked by a slow reconnect_peers, the table never
\* has more than max_peers entries.
TableIsBounded == Cardinality(Listed) <= max_peers

\* A peer in the table whose score is used up is on the list of bans, with nobody
\* but add_peer after its expiry to remove it.
UsedUpIsBanned == \A p \in Listed : peers[p].score <= 0 => p \in DOMAIN bans

\* A banned peer is not connected in the table unless the swarm or reconnect_peers
\* reported a connection after the ban: no other operation brings it back.
BanDisconnects ==
  \A p \in get_connected_peers : Banned(p) => p \in marked

\* No operation lifts or shortens a ban before it expires, the removal of the peer
\* and its return included.
BansKept == \A p \in Peers : Banned(p) => p \in DOMAIN bans' /\ bans'[p] >= bans[p]
BansStand == [][BansKept]_vars

\* "if the score reaches zero the peer is disconnected and banned for 24 hours"
\* (peer_manager.rs:210): a banned peer is not chosen for synchronisation.
BannedNotChosen == \A s \in get_sync_peers(2) : \A i \in DOMAIN s : ~Banned(s[i])

\* test_reputation_and_ban (peer_manager.rs:270) adds a peer whose ban has expired
\* and expects Ok: the call returns.
AddPeerReturns == ~stuck

\* "Get all connected peers" (peer_manager.rs:107): a pass of the cleanup does not
\* drop a peer that the table and the swarm have a connection to.
ConnectionsListed ==
  [][cleanup_stale_peers => net \cap get_connected_peers \subseteq DOMAIN peers']_vars
=============================================================================
