----------------------------- MODULE Discovery -----------------------------
(***************************************************************************)
(* The discovery manager (src/src/network/discovery.rs): what is known of  *)
(* each peer, its reputation, and the lists of trusted and of banned peers *)
(* kept beside it.  Every operation takes the lock of the table first and  *)
(* keeps it, so each is one step.  Answers of DNS seeds are only counted   *)
(* and logged by start_maintenance, and change nothing.                    *)
(***************************************************************************)
EXTENDS Integers, FiniteSetsExt

CONSTANTS Nodes,
          Deltas,       \* changes of reputation callers ask for
          max_peers,
          Hour, Week,   \* in ticks of the clock
          MaxAttempts,  \* bound on the connection attempts to one peer
          MaxTime       \* bound on the clock

VARIABLES known,    \* peer -> PeerData
          trusted_peers, banned_peers,
          clock

vars == <<known, trusted_peers, banned_peers, clock>>

Clamp(score) == Max({-1000, Min({1000, score})})
is_banned(score) == score <= -500
is_trusted(score) == score >= 500

PeerData ==
  [reputation |-> 0, last_seen |-> clock, first_discovered |-> clock,
   connected |-> FALSE, attempts |-> 0, successes |-> 0]

\* The address is pushed onto the entry, new or old.
add_peer(p) ==
  /\ p \notin DOMAIN known
  /\ known' = [q \in DOMAIN known \cup {p} |-> IF q = p THEN PeerData ELSE known[q]]
  /\ UNCHANGED <<trusted_peers, banned_peers, clock>>

Listing(list, p, in) == IF in THEN list \cup {p} ELSE list \ {p}

\* Mutant: the list of trusted peers is only ever added to.
update_peer_reputation_adding(p, delta) ==
  /\ p \in DOMAIN known
  /\ LET score == Clamp(known[p].reputation + delta) IN
       /\ known' = [known EXCEPT ![p].reputation = score]
       /\ trusted_peers' = IF is_trusted(score) THEN trusted_peers \cup {p}
                                                ELSE trusted_peers
       /\ banned_peers' = Listing(banned_peers, p, is_banned(score))
  /\ UNCHANGED clock

update_peer_reputation(p, delta) ==
  /\ p \in DOMAIN known
  /\ LET score == Clamp(known[p].reputation + delta) IN
       /\ known' = [known EXCEPT ![p].reputation = score]
       /\ trusted_peers' = Listing(trusted_peers, p, is_trusted(score))
       /\ banned_peers' = Listing(banned_peers, p, is_banned(score))
  /\ UNCHANGED clock

\* record_connection_attempt and what its callers add; the lists stay as they are.
record_connection_success(p) ==
  /\ p \in DOMAIN known /\ known[p].attempts < MaxAttempts
  /\ known' = [known EXCEPT ![p].attempts = @ + 1, ![p].successes = @ + 1,
                            ![p].reputation = Clamp(@ + 10),
                            ![p].connected = TRUE, ![p].last_seen = clock]
  /\ UNCHANGED <<trusted_peers, banned_peers, clock>>

record_connection_failure(p) ==
  /\ p \in DOMAIN known /\ known[p].attempts < MaxAttempts
  /\ known' = [known EXCEPT ![p].attempts = @ + 1, ![p].reputation = Clamp(@ - 5)]
  /\ UNCHANGED <<trusted_peers, banned_peers, clock>>

Kept(p) ==
  \/ known[p].first_discovered > clock - Week
  \/ known[p].successes > 0
  \/ is_trusted(known[p].reputation)

cleanup_stale_peers ==
  /\ \E p \in DOMAIN known : ~Kept(p)
  /\ LET gone == {p \in DOMAIN known : ~Kept(p)} IN
       /\ known' = [p \in DOMAIN known \ gone |-> known[p]]
       /\ trusted_peers' = trusted_peers \ gone
       /\ banned_peers' = banned_peers \ gone
  /\ UNCHANGED clock

Tick ==
  /\ clock < MaxTime /\ clock' = clock + 1
  /\ UNCHANGED <<known, trusted_peers, banned_peers>>

\* success_rate() > 0.1, the rate of no attempts being 0.
should_connect(p) ==
  /\ ~is_banned(known[p].reputation)
  /\ 10 * known[p].successes > known[p].attempts
  /\ clock - known[p].last_seen < Hour

\* The peers get_peers_to_connect takes its max_peers from.
get_peers_to_connect ==
  {p \in DOMAIN known \ banned_peers : ~known[p].connected /\ should_connect(p)}

Init == known = <<>> /\ trusted_peers = {} /\ banned_peers = {} /\ clock = 0

Next ==
  \/ \E p \in Nodes :
       \/ add_peer(p)
       \/ record_connection_success(p) \/ record_connection_failure(p)
       \/ \E d \in Deltas : update_peer_reputation(p, d)
  \/ cleanup_stale_peers \/ Tick

Spec == Init /\ [][Next]_vars

-----------------------------------------------------------------------------
(* Properties *)

\* Types, the clamped range of the reputation included.
TypeOK ==
  /\ DOMAIN known \subseteq Nodes
  /\ \A p \in DOMAIN known :
       /\ known[p].reputation \in -1000..1000
       /\ known[p].successes \in 0..known[p].attempts
       /\ known[p].first_discovered \in 0..known[p].last_seen
       /\ known[p].last_seen <= clock
  /\ clock \in 0..MaxTime

\* The lists name peers of the table only: a peer that cleanup_stale_peers forgets
\* comes back later without its old standing.
ListsWithinTable == trusted_peers \cup banned_peers \subseteq DOMAIN known

\* No peer is trusted and banned at once, although the lists lag behind the
\* reputation that connection attempts change.
ListsDisjoint == trusted_peers \cap banned_peers = {}

\* "Check if peer is banned" (discovery.rs:350): the list says of a peer what its
\* reputation says.
ListsAgree ==
  \A p \in DOMAIN known :
    /\ p \in banned_peers <=> is_banned(known[p].reputation)
    /\ p \in trusted_peers <=> is_trusted(known[p].reputation)

\* "Get peers that should be connected to maintain minimum connections"
\* (discovery.rs:321): a peer of good standing, seen within the hour and not
\* connected, is offered.
GoodPeersOffered ==
  \A p \in DOMAIN known \ banned_peers :
    ~is_banned(known[p].reputation) /\ ~known[p].connected
      /\ known[p].attempts = 0 /\ clock - known[p].last_seen < Hour
    => p \in get_peers_to_connect
=============================================================================
