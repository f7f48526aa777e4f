------------------------- MODULE PeerManagerProofs -------------------------
(***************************************************************************)
(* Proofs about the peer table, for any peers, limits, points and lengths  *)
(* of bans: it never outgrows max_peers, who has used up its score is      *)
(* banned, and no operation lifts or shortens a ban that runs.             *)
(***************************************************************************)
EXTENDS PeerManager, FiniteSetTheorems, TLAPS

\* What the types of the code say of the parameters: usize, u32 and a duration.
Parameters == max_peers \in Nat /\ Points \subseteq Nat /\ BanFor \in Nat

Info == [last_seen : Int, is_connected : BOOLEAN, dag_height : Heights \cup {0}, score : Int]

Table ==
  /\ peers \in [Listed -> Info] /\ now \in Int
  /\ IsFiniteSet(Listed) /\ TableIsBounded

\* No ban reaches further than one imposed now: a new one never shortens it.
Bans ==
  /\ bans \in [DOMAIN bans -> Int]
  /\ \A p \in DOMAIN bans : bans[p] <= now + BanFor

PeersInv == Table /\ Bans /\ UsedUpIsBanned /\ BanDisconnects

-----------------------------------------------------------------------------
(* Helpers *)

LEMMA MinOfTwo ==
  ASSUME NEW m \in Int, NEW n \in Int
  PROVE  Min({m, n}) = IF m <= n THEN m ELSE n
<1> DEFINE v == IF m <= n THEN m ELSE n
<1>1. v \in {m, n} /\ \A y \in {m, n} : v <= y
  OBVIOUS
<1>2. \A x \in {m, n} : (\A y \in {m, n} : x <= y) => x = v
  OBVIOUS
<1> QED BY <1>1, <1>2 DEF Min

\* An entry whose height or score is set.
LEMMA HeightSet ==
  ASSUME NEW r \in Info, NEW h \in Heights
  PROVE  LET new == [r EXCEPT !.dag_height = h] IN
         new \in Info /\ new.score = r.score /\ new.is_connected = r.is_connected
BY DEF Info

LEMMA ScoreSet ==
  ASSUME NEW r \in Info, NEW score \in Int
  PROVE  LET new == [r EXCEPT !.score = score] IN
         new \in Info /\ new.score = score /\ new.is_connected = r.is_connected
BY DEF Info

\* A step that changes no ban and no clock, enters nobody without room, and leaves or
\* makes the entries it touches consistent with the bans.
LEMMA TableStep ==
  ASSUME PeersInv, UNCHANGED <<bans, now>>,
         peers' \in [DOMAIN peers' -> Info],
         IsFiniteSet(DOMAIN peers'), Cardinality(DOMAIN peers') <= max_peers,
         marked \subseteq marked',
         \A p \in DOMAIN peers' :
           \/ p \in Listed /\ peers'[p].score > 0 /\ peers'[p].is_connected = peers[p].is_connected
           \/ p \in Listed /\ peers'[p].score = peers[p].score
              /\ (peers'[p].is_connected => peers[p].is_connected \/ p \in marked')
           \/ p \notin DOMAIN bans /\ peers'[p].score > 0
           \/ p \in Listed /\ p \in DOMAIN bans
              /\ peers'[p].is_connected = peers[p].is_connected
  PROVE  PeersInv'
<1>1. Table'
  BY DEF PeersInv, Table, TableIsBounded, Listed
<1>2. Bans'
  BY DEF PeersInv, Bans
<1>3. UsedUpIsBanned'
  <2> SUFFICES ASSUME NEW p \in DOMAIN peers', peers'[p].score <= 0 PROVE p \in DOMAIN bans
    BY DEF UsedUpIsBanned, Listed
  <2>1. peers'[p].score \in Int
    BY DEF Info
  <2> QED BY <2>1 DEF PeersInv, UsedUpIsBanned
<1>4. BanDisconnects'
  <2> SUFFICES ASSUME NEW p \in DOMAIN peers', peers'[p].is_connected,
                      p \in DOMAIN bans, bans[p] > now
               PROVE  p \in marked'
    BY DEF BanDisconnects, get_connected_peers, Listed, Banned
  <2>1. p \in Listed /\ (peers[p].is_connected \/ p \in marked')
    OBVIOUS
  <2> QED BY <2>1 DEF PeersInv, BanDisconnects, get_connected_peers, Banned
<1> QED BY <1>1, <1>2, <1>3, <1>4 DEF PeersInv

-----------------------------------------------------------------------------
(* Operations *)

LEMMA Adds ==
  ASSUME Parameters, PeersInv, NEW p \in Peers, add_peer(p)
  PROVE  PeersInv'
<1> DEFINE new == PeerInfo(p \in Listed)
<1>1. new \in Info /\ new.score = 100
  BY DEF PeerInfo, Info, PeersInv, Table
<1>2. peers \in [DOMAIN peers -> Info] /\ peers' = With(peers, p, new)
  BY DEF add_peer, PeersInv, Table, Listed
<1> HIDE DEF new
<1>3. /\ peers' \in [DOMAIN peers \cup {p} -> Info]
      /\ peers'[p] = new
      /\ \A q \in DOMAIN peers \ {p} : peers'[q] = peers[q]
  BY <1>1, <1>2 DEF With
<1>4. IsFiniteSet(DOMAIN peers') /\ Cardinality(DOMAIN peers') <= max_peers
  <2>1. IsFiniteSet(Listed) /\ Cardinality(Listed) < max_peers /\ Cardinality(Listed) \in Nat
    BY FS_CardinalityType DEF add_peer, HasRoom, PeersInv, Table
  <2>2. /\ IsFiniteSet(Listed \cup {p})
        /\ Cardinality(Listed \cup {p}) <= Cardinality(Listed) + 1
    BY <2>1, FS_AddElement
  <2>3. DOMAIN peers' = Listed \cup {p}
    BY <1>3 DEF Listed
  <2>4. Cardinality(Listed \cup {p}) \in Nat
    BY <2>2, FS_CardinalityType
  <2> QED BY <2>1, <2>2, <2>3, <2>4 DEF Parameters
<1>5. \A q \in DOMAIN peers' :
        \/ q \notin DOMAIN bans /\ peers'[q].score > 0
        \/ q \in Listed /\ peers'[q].score = peers[q].score
           /\ (peers'[q].is_connected => peers[q].is_connected \/ q \in marked')
  BY <1>1, <1>3 DEF add_peer, Listed
<1>6. UNCHANGED <<bans, now>> /\ marked \subseteq marked'
  BY DEF add_peer
<1>7. peers' \in [DOMAIN peers' -> Info]
  BY <1>3
<1> QED BY <1>4, <1>5, <1>6, <1>7, TableStep

\* The table loses entries.
LEMMA Drops ==
  ASSUME Parameters, PeersInv, NEW gone, peers' = Without(peers, gone),
         UNCHANGED <<bans, now, marked>>
  PROVE  PeersInv'
<1>1. /\ peers' \in [DOMAIN peers' -> Info] /\ DOMAIN peers' = Listed \ gone
      /\ \A p \in DOMAIN peers' : p \in Listed /\ peers'[p] = peers[p]
  BY DEF Without, PeersInv, Table, Listed
<1>2. IsFiniteSet(Listed) /\ Cardinality(Listed) \in Nat /\ Cardinality(Listed) <= max_peers
  BY FS_CardinalityType DEF PeersInv, Table, TableIsBounded
<1>3. IsFiniteSet(DOMAIN peers') /\ Cardinality(DOMAIN peers') <= Cardinality(Listed)
  BY <1>1, <1>2, FS_Subset
<1>4. Cardinality(DOMAIN peers') \in Nat
  BY <1>3, FS_CardinalityType
<1>5. Cardinality(DOMAIN peers') <= max_peers
  BY <1>2, <1>3, <1>4 DEF Parameters
<1> QED BY <1>1, <1>3, <1>5, TableStep

\* One entry of the table changes.
LEMMA Changes ==
  ASSUME PeersInv, NEW p \in Listed, NEW new \in Info,
         peers' = [peers EXCEPT ![p] = new], UNCHANGED <<bans, now>>, marked \subseteq marked',
         \/ /\ new.is_connected = peers[p].is_connected
            /\ new.score = peers[p].score \/ new.score > 0 \/ p \in DOMAIN bans
         \/ /\ new.score = peers[p].score
            /\ new.is_connected => p \in marked'
  PROVE  PeersInv'
<1>1. peers' \in [Listed -> Info] /\ DOMAIN peers' = Listed
      /\ \A q \in Listed : peers'[q] = IF q = p THEN new ELSE peers[q]
  BY DEF PeersInv, Table, Listed
<1>2. IsFiniteSet(Listed) /\ Cardinality(Listed) <= max_peers
  BY DEF PeersInv, Table, TableIsBounded
<1>3. peers' \in [DOMAIN peers' -> Info] /\ IsFiniteSet(DOMAIN peers')
      /\ Cardinality(DOMAIN peers') <= max_peers
  BY <1>1, <1>2
<1>4. \A q \in DOMAIN peers' :
        \/ q \in Listed /\ peers'[q].score > 0 /\ peers'[q].is_connected = peers[q].is_connected
        \/ q \in Listed /\ peers'[q].score = peers[q].score
           /\ (peers'[q].is_connected => peers[q].is_connected \/ q \in marked')
        \/ q \in Listed /\ q \in DOMAIN bans
           /\ peers'[q].is_connected = peers[q].is_connected
  BY <1>1
<1> QED BY <1>3, <1>4, TableStep

LEMMA Statuses ==
  ASSUME PeersInv, NEW p \in Peers, NEW connected \in BOOLEAN,
         peers' = StatusUpdated(p, connected), Mark(p, connected), UNCHANGED <<bans, now>>
  PROVE  PeersInv'
<1>1. CASE p \in Listed
  <2> DEFINE new == [last_seen |-> now, is_connected |-> connected,
                     dag_height |-> peers[p].dag_height, score |-> peers[p].score]
  <2>1. peers[p] \in Info /\ peers \in [Listed -> Info] /\ now \in Int
    BY <1>1 DEF PeersInv, Table
  <2>2. new \in Info /\ new.score = peers[p].score /\ new.is_connected = connected
    BY <2>1 DEF Info
  <2>3. peers' = [peers EXCEPT ![p].is_connected = connected, ![p].last_seen = now]
    BY <1>1 DEF StatusUpdated
  <2>4. peers' = [peers EXCEPT ![p] = new]
    BY <1>1, <2>1, <2>3 DEF Info
  <2>5. marked \subseteq marked' /\ (connected => p \in marked')
    BY <1>1 DEF Mark
  <2> HIDE DEF new
  <2> QED BY <1>1, <2>2, <2>4, <2>5, Changes
<1>2. CASE p \notin Listed
  <2>1. UNCHANGED <<peers, marked>>
    BY <1>2 DEF StatusUpdated, Mark
  <2> QED BY <2>1 DEF PeersInv, Table, TableIsBounded, Bans, UsedUpIsBanned, BanDisconnects,
                      get_connected_peers, Listed, Banned
<1> QED BY <1>1, <1>2

LEMMA HeightUpdates ==
  ASSUME PeersInv, NEW p \in Peers, NEW h \in Heights, update_peer_height(p, h)
  PROVE  PeersInv'
<1> DEFINE new == [peers[p] EXCEPT !.dag_height = h]
<1>1. p \in Listed /\ peers[p] \in Info /\ peers \in [Listed -> Info]
  BY DEF update_peer_height, PeersInv, Table
<1>2. new \in Info /\ new.score = peers[p].score /\ new.is_connected = peers[p].is_connected
  BY <1>1, HeightSet
<1>3. peers' = [peers EXCEPT ![p] = new]
  BY DEF update_peer_height
<1>4. UNCHANGED <<bans, now>> /\ marked \subseteq marked'
  BY DEF update_peer_height
<1> HIDE DEF new
<1> QED BY <1>1, <1>2, <1>3, <1>4, Changes

LEMMA Rewards ==
  ASSUME Parameters, PeersInv, NEW p \in Peers, NEW n \in Points, reward_peer(p, n)
  PROVE  PeersInv'
<1> DEFINE score == Min({peers[p].score + n, 100})
           new == [peers[p] EXCEPT !.score = score]
<1>1. p \in Listed /\ peers[p] \in Info /\ peers \in [Listed -> Info] /\ peers[p].score \in Int
      /\ n \in Nat
  BY DEF reward_peer, PeersInv, Table, Info, Parameters
<1>2. peers[p].score + n \in Int /\ 100 \in Int
  BY <1>1
<1>3. score = IF peers[p].score + n <= 100 THEN peers[p].score + n ELSE 100
  BY <1>2, MinOfTwo
<1>4. score \in Int /\ (peers[p].score > 0 => score > 0)
  BY <1>1, <1>3
<1>5. peers' = [peers EXCEPT ![p].score = score]
  BY <1>1 DEF reward_peer
<1> HIDE DEF score
<1>6. new \in Info /\ new.score = score /\ new.is_connected = peers[p].is_connected
  BY <1>1, <1>4, ScoreSet
<1>7. peers' = [peers EXCEPT ![p] = new]
  BY <1>5
<1> HIDE DEF new
<1>8. score > 0 \/ p \in DOMAIN bans
  BY <1>1, <1>4 DEF PeersInv, UsedUpIsBanned
<1>9. UNCHANGED <<bans, now>> /\ marked \subseteq marked'
  BY DEF reward_peer
<1> QED BY <1>1, <1>6, <1>7, <1>8, <1>9, Changes

LEMMA Penalties ==
  ASSUME Parameters, PeersInv, NEW p \in Peers, NEW n \in Points, penalize_peer(p, n)
  PROVE  PeersInv' /\ BansKept
<1> DEFINE score == peers[p].score - n
           out == score <= 0
           c == peers[p].is_connected /\ ~out
           new == [peers[p] EXCEPT !.score = score, !.is_connected = c]
<1>1. p \in Listed /\ peers[p] \in Info /\ peers \in [Listed -> Info] /\ peers[p].score \in Int
      /\ n \in Nat /\ now \in Int /\ BanFor \in Nat
  BY DEF penalize_peer, PeersInv, Table, Info, Parameters
<1>2. score \in Int /\ out \in BOOLEAN /\ c \in BOOLEAN
  BY <1>1
<1>3. /\ peers' = [peers EXCEPT ![p].score = score, ![p].is_connected = c]
      /\ bans' = IF out THEN With(bans, p, now + BanFor) ELSE bans
      /\ marked' = IF out THEN marked \ {p} ELSE marked
      /\ now' = now
  BY <1>1 DEF penalize_peer
<1>4. (~out => score > 0) /\ (out => score <= 0 /\ c = FALSE)
      /\ (~out => c = peers[p].is_connected)
  BY <1>1, <1>2 DEF Info
<1> HIDE DEF out, score, c
<1>5. new \in Info /\ new.score = score /\ new.is_connected = c
  <2>1. ASSUME NEW r \in Info
        PROVE  LET e == [r EXCEPT !.score = score, !.is_connected = c] IN
               e \in Info /\ e.score = score /\ e.is_connected = c
    BY <1>2 DEF Info
  <2> QED BY <1>1, <2>1
<1>6. peers' = [peers EXCEPT ![p] = new]
  BY <1>3
<1> HIDE DEF new
<1>7. CASE ~out
  <2>1. UNCHANGED <<bans, now>> /\ marked \subseteq marked'
    BY <1>3, <1>7
  <2>2. new.is_connected = peers[p].is_connected /\ new.score > 0
    BY <1>1, <1>4, <1>5, <1>7 DEF Info
  <2>3. PeersInv'
    BY <1>1, <1>5, <1>6, <2>1, <2>2, Changes
  <2>4. BansKept
    BY <2>1 DEF BansKept, Banned, PeersInv, Bans
  <2> QED BY <2>3, <2>4
<1>8. CASE out
  <2>1. bans' = With(bans, p, now + BanFor) /\ now + BanFor \in Int /\ marked' = marked \ {p}
        /\ bans \in [DOMAIN bans -> Int]
    BY <1>1, <1>3, <1>8 DEF PeersInv, Bans
  <2>2. /\ bans' \in [DOMAIN bans \cup {p} -> Int] /\ bans'[p] = now + BanFor
        /\ \A q \in DOMAIN bans \ {p} : bans'[q] = bans[q]
    BY <2>1 DEF With
  <2>3. Bans'
    BY <1>1, <1>3, <2>2 DEF Bans, PeersInv
  <2>4. peers' \in [Listed -> Info] /\ DOMAIN peers' = Listed
        /\ \A q \in Listed : peers'[q] = IF q = p THEN new ELSE peers[q]
    BY <1>1, <1>5, <1>6
  <2>5. Table'
    BY <1>3, <2>4 DEF Table, TableIsBounded, Listed, PeersInv
  <2>6. UsedUpIsBanned'
    BY <2>2, <2>4 DEF UsedUpIsBanned, Listed, PeersInv
  <2>7. ~new.is_connected
    BY <1>4, <1>5, <1>8
  <2>8. BanDisconnects'
    <3> SUFFICES ASSUME NEW q \in Listed, peers'[q].is_connected,
                        q \in DOMAIN bans', bans'[q] > now
                 PROVE  q \in marked'
      BY <1>3, <2>4 DEF BanDisconnects, get_connected_peers, Listed, Banned
    <3>1. q # p
      BY <2>4, <2>7
    <3>2. peers[q].is_connected /\ q \in DOMAIN bans /\ bans[q] > now
      BY <2>2, <2>4, <3>1
    <3> QED BY <2>1, <3>1, <3>2 DEF PeersInv, BanDisconnects, get_connected_peers, Banned
  <2>9. BansKept
    BY <1>1, <2>2 DEF BansKept, Banned, PeersInv, Bans
  <2> QED BY <2>3, <2>5, <2>6, <2>8, <2>9 DEF PeersInv
<1> QED BY <1>7, <1>8

-----------------------------------------------------------------------------
(* Results *)

LEMMA InitPeers == Parameters /\ Init => PeersInv
<1> SUFFICES ASSUME Parameters, Init PROVE PeersInv
  OBVIOUS
<1>1. Listed = {} /\ DOMAIN bans = {} /\ now = 0
  BY DEF Init, Listed
<1>2. Table
  BY <1>1, FS_EmptySet DEF Init, Table, TableIsBounded, Parameters
<1>3. Bans /\ UsedUpIsBanned /\ BanDisconnects
  BY <1>1 DEF Init, Bans, UsedUpIsBanned, BanDisconnects, get_connected_peers
<1> QED BY <1>2, <1>3 DEF PeersInv

LEMMA NextPeers ==
  ASSUME Parameters, PeersInv, [Next]_vars
  PROVE  PeersInv' /\ (BansKept \/ UNCHANGED vars)
<1>1. ASSUME NEW p \in Peers, add_peer(p) PROVE PeersInv' /\ UNCHANGED bans
  BY <1>1, Adds DEF add_peer
<1>2. ASSUME UNCHANGED <<peers, bans, net, marked>>, now' \in Int, now <= now'
      PROVE  PeersInv'
  <2>1. Table'
    BY <1>2 DEF PeersInv, Table, TableIsBounded, Listed
  <2>2. Bans'
    <3>1. ASSUME NEW p \in DOMAIN bans PROVE bans[p] <= now' + BanFor
      <4>1. bans[p] \in Int /\ bans[p] <= now + BanFor /\ now \in Int /\ BanFor \in Nat
        BY <3>1 DEF PeersInv, Bans, Table, Parameters
      <4> QED BY <1>2, <4>1
    <3> QED BY <1>2, <3>1 DEF PeersInv, Bans
  <2>3. UsedUpIsBanned'
    BY <1>2 DEF PeersInv, UsedUpIsBanned, Listed
  <2>4. BanDisconnects'
    <3> SUFFICES ASSUME NEW p \in Listed, peers[p].is_connected, p \in DOMAIN bans, bans[p] > now'
                 PROVE  p \in marked
      BY <1>2 DEF BanDisconnects, get_connected_peers, Listed, Banned
    <3>1. bans[p] > now
      BY <1>2 DEF PeersInv, Bans, Table
    <3> QED BY <3>1 DEF PeersInv, BanDisconnects, get_connected_peers, Banned
  <2> QED BY <2>1, <2>2, <2>3, <2>4 DEF PeersInv
<1>3. now \in Int
  BY DEF PeersInv, Table
<1>4. CASE \E p \in Peers : add_peer_expired(p)
  BY <1>2, <1>3, <1>4 DEF add_peer_expired, BansKept, Banned, PeersInv, Bans
<1>5. CASE \E p \in Peers : remove_peer(p)
  <2>1. PeersInv'
    BY <1>5, Drops DEF remove_peer
  <2> QED BY <1>5, <2>1 DEF remove_peer, BansKept, Banned, PeersInv, Bans
<1>6. CASE \E p \in Peers : reconnect(p)
  <2>1. PICK p \in Peers : reconnect(p)
    BY <1>6
  <2>2. peers' = StatusUpdated(p, TRUE) /\ Mark(p, TRUE) /\ UNCHANGED <<bans, now>>
    BY <2>1 DEF reconnect
  <2>3. PeersInv'
    BY <2>2, Statuses
  <2> QED BY <2>2, <2>3 DEF BansKept, Banned, PeersInv, Bans
<1>7. CASE \E p \in Peers : \E c \in BOOLEAN : update_peer_status(p, c)
  <2>1. PICK p \in Peers, c \in BOOLEAN : update_peer_status(p, c)
    BY <1>7
  <2>2. peers' = StatusUpdated(p, c) /\ Mark(p, c) /\ UNCHANGED <<bans, now>>
    BY <2>1 DEF update_peer_status
  <2>3. PeersInv'
    BY <2>2, Statuses
  <2> QED BY <2>2, <2>3 DEF BansKept, Banned, PeersInv, Bans
<1>8. CASE \E p \in Peers : \E h \in Heights : update_peer_height(p, h)
  <2>1. PeersInv'
    BY <1>8, HeightUpdates
  <2> QED BY <1>8, <2>1 DEF update_peer_height, BansKept, Banned, PeersInv, Bans
<1>9. CASE \E p \in Peers : \E n \in Points : penalize_peer(p, n)
  BY <1>9, Penalties
<1>10. CASE \E p \in Peers : \E n \in Points : reward_peer(p, n)
  <2>1. PeersInv'
    BY <1>10, Rewards
  <2> QED BY <1>10, <2>1 DEF reward_peer, BansKept, Banned, PeersInv, Bans
<1>11. CASE cleanup_stale_peers
  <2>1. PeersInv'
    BY <1>11, Drops DEF cleanup_stale_peers
  <2> QED BY <1>11, <2>1 DEF cleanup_stale_peers, BansKept, Banned, PeersInv, Bans
<1>12. CASE reconnect_peers
  BY <1>2, <1>3, <1>12 DEF reconnect_peers, BansKept, Banned, PeersInv, Bans
<1>13. CASE Tick
  <2>1. UNCHANGED <<peers, bans, net, marked>> /\ now' \in Int /\ now <= now'
    BY <1>3, <1>13 DEF Tick
  <2> QED BY <1>2, <2>1 DEF BansKept, Banned, PeersInv, Bans
<1>14. CASE UNCHANGED vars
  BY <1>2, <1>3, <1>14 DEF vars
<1>15. CASE \E p \in Peers : add_peer(p)
  BY <1>1, <1>15 DEF BansKept, Banned, PeersInv, Bans
<1> QED BY <1>4, <1>5, <1>6, <1>7, <1>8, <1>9, <1>10, <1>11, <1>12, <1>13, <1>14, <1>15
        DEF Next

\* The inductive invariant of the peer table.
THEOREM PeersInvariance == ASSUME Parameters PROVE Spec => []PeersInv
<1>1. Init => PeersInv
  BY InitPeers
<1>2. PeersInv /\ [Next]_vars => PeersInv'
  BY NextPeers
<1> QED BY <1>1, <1>2, PTL DEF Spec

\* add_peer keeps the table within max_peers, although reconnect_peers and the events of
\* the swarm update entries that may have been removed meanwhile.
THEOREM TableBound == ASSUME Parameters PROVE Spec => []TableIsBounded
<1>1. PeersInv => TableIsBounded
  BY DEF PeersInv, Table
<1> QED BY <1>1, PeersInvariance, PTL

\* Whoever has used up its score in penalize_peer is on the list of bans, and the table
\* shows it connected only if the swarm or reconnect_peers reported so after the ban.
THEOREM UsedUp == ASSUME Parameters PROVE Spec => [](UsedUpIsBanned /\ BanDisconnects)
<1>1. PeersInv => UsedUpIsBanned /\ BanDisconnects
  BY DEF PeersInv
<1> QED BY <1>1, PeersInvariance, PTL

\* No operation lifts or shortens a ban that runs: not the removal of the peer, its
\* return, another penalty nor the cleanup.
THEOREM BansRun == ASSUME Parameters PROVE Spec => BansStand
<1>1. PeersInv /\ [Next]_vars => [BansKept]_vars
  BY NextPeers
<1> QED BY <1>1, PeersInvariance, PTL DEF Spec, BansStand
=============================================================================
