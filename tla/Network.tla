------------------------------ MODULE Network ------------------------------
(***************************************************************************)
(* Nodes that gossip and synchronise: the sync manager, the gossip         *)
(* protocol and the event loop of the P2P node (src/src/network/           *)
(* sync_manager.rs, gossip.rs, p2p_node.rs), each node with a BlockDAG of  *)
(* its own.  The event loop handles one message at a time.  What a node    *)
(* sends goes into its channel; the loop publishes it on the one floodsub  *)
(* topic, so every other node receives it, whomever it was meant for.      *)
(* Floodsub is external: copies arrive in any order, or are lost.          *)
(***************************************************************************)
EXTENDS Integers, SequencesExt, FiniteSetsExt

CONSTANTS Nodes, Bodies, GenesisBody, NoBlock,
          Founders,       \* nodes that start with the genesis block
          Transactions,   \* transactions that are broadcast
          HeaderLimit,    \* headers asked for at once (1000)
          MayDisconnect,  \* whether peers may be missing from the peer table
          MaxLost, MaxChecks, MaxForeign, MaxCleanups   \* bounds

VARIABLES dag,       \* node -> its block store, hash -> block
          pending,   \* node -> pending_requests
          seen,      \* node -> seen_blocks and seen_transactions
          outbox,    \* node -> the channel of messages to publish
          flight,    \* copies under way, <<receiver, sender, message>>
          lost, checks, foreign, cleanups,
          asked,     \* ghost: node -> hash -> requests queued since it became pending
          told       \* ghost: node -> hashes of the headers it has processed

vars == <<dag, pending, seen, outbox, flight, lost, checks, foreign, cleanups,
          asked, told>>
counters == <<lost, checks, foreign, cleanups>>
ghosts == <<asked, told>>

\* The operators of BlockDAG on one node's store.
DAG(store) == INSTANCE BlockDAG WITH
  blocks <- store, parent_to_children <- {}, tips <- {}, restarts <- 0,
  indexed <- TRUE, accepted <- {}, MaxBlocks <- 0, MaxParents <- 0, MaxRestarts <- 0

Others(n) == Nodes \ {n}

\* The answers of get_connected_peers and get_sync_peers(3), see PeerManager.
PeerSets(n) == IF MayDisconnect THEN SUBSET Others(n) ELSE {Others(n)}

\* One entry per peer, all with the same message.
Copies(msg, peers) == [i \in 1..Cardinality(peers) |-> msg]
Send(n, msgs) == outbox' = [outbox EXCEPT ![n] = @ \o msgs]

-----------------------------------------------------------------------------
(* Block stores *)

Insertable(store, b) ==
  DAG(store)!HashMatches(b) /\ b.hash \notin DOMAIN store /\ DAG(store)!validate_references(b)

Inserted(store, b) ==
  LET a == DAG(store)!annotate(b) IN
  [h \in DOMAIN store \cup {a.hash} |-> IF h = a.hash THEN a ELSE store[h]]

\* Mutant: a block is stored whether or not its parents are.
InsertEach_any(store, blocks) ==
  LET f[i \in 0..Len(blocks)] ==
        IF i = 0 THEN store ELSE LET s == f[i - 1] IN Inserted(s, blocks[i])
  IN  f[Len(blocks)]

\* Each block of a Blocks message by itself: a refused one is skipped.
InsertEach(store, blocks) ==
  LET f[i \in 0..Len(blocks)] ==
        IF i = 0 THEN store
        ELSE LET s == f[i - 1] IN
             IF Insertable(s, blocks[i]) THEN Inserted(s, blocks[i]) ELSE s
  IN  f[Len(blocks)]

\* handle_dag_response: the first refused block ends the insertion.
InsertUntilRefused(store, blocks) ==
  LET f[i \in 0..Len(blocks)] ==
        IF i = 0 THEN [store |-> store, ok |-> TRUE]
        ELSE LET r == f[i - 1] IN
             IF r.ok /\ Insertable(r.store, blocks[i])
             THEN [r EXCEPT !.store = Inserted(r.store, blocks[i])]
             ELSE [r EXCEPT !.ok = FALSE]
  IN  f[Len(blocks)].store

\* The orders get_topological_order may return: hash sets are iterated in any order.
Orders(store) ==
  {s \in SetToSeqs(DOMAIN store) :
     \A i, j \in DOMAIN s : s[i] \in ToSet(store[s[j]].parents) => i < j}

Leaves(store) == DOMAIN store \ UNION {ToSet(store[h].parents) : h \in DOMAIN store}
Contents(store) == {store[h].body : h \in DOMAIN store}

-----------------------------------------------------------------------------
(* Sending *)

\* A block is produced on the tips and inserted by the node itself.
produce(n, body) ==
  /\ dag[n] # <<>> /\ \A m \in Nodes : body \notin Contents(dag[m])
  /\ LET b == DAG(dag[n])!new_block(body, SetToSeq(Leaves(dag[n]))) IN
     dag' = [dag EXCEPT ![n] = Inserted(@, b)]
  /\ UNCHANGED <<pending, seen, outbox, flight, counters, ghosts>>

\* broadcast_message behind the check and the mark of seen.
Relay(n, item, msg) ==
  \E peers \in PeerSets(n) :
    /\ seen' = [seen EXCEPT ![n] = @ \cup {item}]
    /\ Send(n, Copies(msg, peers))

broadcast_block(n, h) ==
  /\ h \in DOMAIN dag[n] \ seen[n]
  /\ Relay(n, h, [type |-> "NewBlock", item |-> h])
  /\ UNCHANGED <<dag, pending, flight, counters, asked, told>>

broadcast_transaction(n, tx) ==
  /\ tx \notin seen[n]
  /\ Relay(n, tx, [type |-> "NewTransaction", item |-> tx])
  /\ UNCHANGED <<dag, pending, flight, counters, asked, told>>

cleanup_seen_messages(n) ==
  /\ cleanups < MaxCleanups /\ seen[n] # {}
  /\ seen' = [seen EXCEPT ![n] = {}]
  /\ cleanups' = cleanups + 1
  /\ UNCHANGED <<dag, pending, outbox, flight, lost, checks, foreign, asked, told>>

\* One peer is asked for the whole DAG.
start_sync(n) ==
  /\ checks < MaxChecks /\ checks' = checks + 1
  /\ Send(n, <<[type |-> "RequestDag"]>>)
  /\ UNCHANGED <<dag, pending, seen, flight, lost, foreign, cleanups, ghosts>>

is_synced(n) == pending[n] = {}

\* periodic_sync_check and detect_missing_blocks, which reports nothing itself.
periodic_sync_check(n) ==
  /\ checks < MaxChecks /\ checks' = checks + 1
  /\ is_synced(n)
  /\ \E peers \in PeerSets(n) :
       Send(n, Copies([type |-> "GetHeaders", from |-> NoBlock, max |-> HeaderLimit], peers))
  /\ UNCHANGED <<dag, pending, seen, flight, lost, foreign, cleanups, ghosts>>

\* send_message_to_peer: one publication reaches all others.
publish(n) ==
  /\ outbox[n] # <<>>
  /\ flight' = flight \cup {<<m, n, Head(outbox[n])>> : m \in Others(n)}
  /\ outbox' = [outbox EXCEPT ![n] = Tail(@)]
  /\ UNCHANGED <<dag, pending, seen, counters, ghosts>>

lose(copy) ==
  /\ lost < MaxLost /\ lost' = lost + 1
  /\ flight' = flight \ {copy}
  /\ UNCHANGED <<dag, pending, seen, outbox, checks, foreign, cleanups, ghosts>>

\* A peer of another implementation uses the messages of message.rs that this node
\* handles and never sends.
ForeignMessages(n, m) ==
  {[type |-> "GetBlocks", hashes |-> s] : s \in BoundedSeq(DOMAIN dag[m], 2)}
  \cup {[type |-> "DagResponse", blocks |-> [i \in DOMAIN s |-> dag[n][s[i]]]] :
          s \in Orders(dag[n])}
  \cup {[type |-> "GetHeaders", from |-> h, max |-> HeaderLimit] : h \in DOMAIN dag[m]}
  \cup {[type |-> "RequestState"]}

foreign_peer(n, m, msg) ==
  /\ foreign < MaxForeign /\ foreign' = foreign + 1
  /\ flight' = flight \cup {<<m, n, msg>>}
  /\ UNCHANGED <<dag, pending, seen, outbox, lost, checks, cleanups, ghosts>>

-----------------------------------------------------------------------------
(* Receiving: handle_network_message, one action per message *)

Take(copy, type) ==
  /\ copy[3].type = type
  /\ flight' = flight \ {copy}
  /\ UNCHANGED counters

Nothing == UNCHANGED <<dag, pending, seen, outbox, ghosts>>

\* Mutant: the item is marked and not passed on.
receive_gossip_silent(copy) ==
  LET n == copy[1] msg == copy[3] IN
  /\ \E type \in {"NewBlock", "NewTransaction"} : Take(copy, type)
  /\ seen' = [seen EXCEPT ![n] = @ \cup {msg.item}]
  /\ UNCHANGED <<dag, pending, outbox, asked, told>>

\* handle_gossip_message: a new item is marked and passed on, and not inserted.
receive_gossip(copy) ==
  LET n == copy[1] msg == copy[3] IN
  /\ \E type \in {"NewBlock", "NewTransaction"} : Take(copy, type)
  /\ IF msg.item \in seen[n] THEN Nothing
     ELSE Relay(n, msg.item, msg) /\ UNCHANGED <<dag, pending, asked, told>>

\* Mutant: the cut is taken from the end of the order.
HeadersOf_last(order, from, max) ==
  SubSeq(order, Max({1, Len(order) - max + 1}), Len(order))

\* The hashes after from, or all for the zero hash, up to max.
HeadersOf(order, from, max) ==
  LET rest == IF from = NoBlock THEN order
              ELSE IF Contains(order, from)
              THEN SubSeq(order, SelectInSeq(order, LAMBDA h : h = from) + 1, Len(order))
              ELSE <<>>
  IN  SubSeq(rest, 1, Min({max, Len(rest)}))

receive_GetHeaders(copy) ==
  LET n == copy[1] msg == copy[3] IN
  /\ Take(copy, "GetHeaders")
  /\ \E order \in Orders(dag[n]) :
       Send(n, <<[type |-> "Headers", from |-> msg.from,
                  hashes |-> HeadersOf(order, msg.from, msg.max)]>>)
  /\ UNCHANGED <<dag, pending, seen, ghosts>>

\* The hashes handle_headers finds missing and request_missing_blocks takes up.
Wanted(n, hashes) ==
  SelectSeq(hashes, LAMBDA h : h \notin DOMAIN dag[n] /\ h \notin pending[n])

\* handle_headers and request_missing_blocks: the hashes become pending whether or
\* not there is a peer to ask.
receive_Headers(copy) ==
  LET n == copy[1] hashes == copy[3].hashes wanted == Wanted(n, hashes) IN
  /\ Take(copy, "Headers")
  /\ pending' = [pending EXCEPT ![n] = @ \cup ToSet(wanted)]
  /\ told' = [told EXCEPT ![n] = @ \cup ToSet(hashes)]
  /\ \E peers \in PeerSets(n) :
       /\ Send(n, FlattenSeq([i \in DOMAIN wanted |->
                    Copies([type |-> "RequestBlock", hash |-> wanted[i]], peers)]))
       /\ asked' = [asked EXCEPT ![n] = @ \o
                      FlattenSeq([i \in DOMAIN wanted |-> Copies(wanted[i], peers)])]
  /\ UNCHANGED <<dag, seen>>

receive_GetBlocks(copy) ==
  LET n == copy[1]
      held == SelectSeq(copy[3].hashes, LAMBDA h : h \in DOMAIN dag[n]) IN
  /\ Take(copy, "GetBlocks")
  /\ Send(n, <<[type |-> "Blocks", blocks |-> [i \in DOMAIN held |-> dag[n][held[i]]]]>>)
  /\ UNCHANGED <<dag, pending, seen, ghosts>>

\* handle_block_response for each block: it stops being pending before it is tried.
receive_Blocks(copy) ==
  LET n == copy[1]
      blocks == copy[3].blocks
      hashes == {b.hash : b \in ToSet(blocks)} IN
  /\ Take(copy, "Blocks")
  /\ pending' = [pending EXCEPT ![n] = @ \ hashes]
  /\ asked' = [asked EXCEPT ![n] = SelectSeq(@, LAMBDA h : h \notin hashes)]
  /\ dag' = [dag EXCEPT ![n] = InsertEach(@, blocks)]
  /\ UNCHANGED <<seen, outbox, told>>

receive_DagResponse(copy) ==
  LET n == copy[1] IN
  /\ Take(copy, "DagResponse")
  /\ dag' = [dag EXCEPT ![n] = InsertUntilRefused(@, copy[3].blocks)]
  /\ UNCHANGED <<pending, seen, outbox, ghosts>>

\* A block request is logged and not answered; a DAG request inserts no blocks; a
\* state snapshot is compared and logged.
receive_ignored(copy) ==
  /\ \E type \in {"RequestBlock", "RequestDag", "StateSnapshot"} : Take(copy, type)
  /\ Nothing

receive_RequestState(copy) ==
  /\ Take(copy, "RequestState")
  /\ Send(copy[1], <<[type |-> "StateSnapshot"]>>)
  /\ UNCHANGED <<dag, pending, seen, ghosts>>

Receive(copy) ==
  \/ receive_gossip(copy) \/ receive_GetHeaders(copy) \/ receive_Headers(copy)
  \/ receive_GetBlocks(copy) \/ receive_Blocks(copy) \/ receive_DagResponse(copy)
  \/ receive_ignored(copy) \/ receive_RequestState(copy)

-----------------------------------------------------------------------------

Init ==
  /\ dag = [n \in Nodes |->
              IF n \in Founders THEN Inserted(<<>>, DAG(<<>>)!new_block(GenesisBody, <<>>))
                                ELSE <<>>]
  /\ pending = [n \in Nodes |-> {}] /\ seen = [n \in Nodes |-> {}]
  /\ outbox = [n \in Nodes |-> <<>>] /\ flight = {}
  /\ lost = 0 /\ checks = 0 /\ foreign = 0 /\ cleanups = 0
  /\ asked = [n \in Nodes |-> <<>>] /\ told = [n \in Nodes |-> {}]

Next ==
  \/ \E n \in Nodes :
       \/ \E body \in Bodies : produce(n, body)
       \/ \E h \in DOMAIN dag[n] : broadcast_block(n, h)
       \/ \E tx \in Transactions : broadcast_transaction(n, tx)
       \/ cleanup_seen_messages(n) \/ start_sync(n) \/ periodic_sync_check(n) \/ publish(n)
       \/ \E m \in Others(n) : \E msg \in ForeignMessages(n, m) : foreign_peer(n, m, msg)
  \/ \E copy \in flight : Receive(copy) \/ lose(copy)

Spec == Init /\ [][Next]_vars

\* The event loop of a node takes up what its channel and its swarm hold for it.
Handle(n) == \E copy \in flight : copy[1] = n /\ Receive(copy)
Fairness == \A n \in Nodes : WF_vars(publish(n)) /\ WF_vars(Handle(n))
FairSpec == Spec /\ Fairness

-----------------------------------------------------------------------------
(* Properties *)

\* Types.
TypeOK ==
  /\ \A n \in Nodes : /\ \A h \in DOMAIN dag[n] : dag[n][h].hash = h
                     /\ pending[n] \subseteq told[n]
  /\ \A copy \in flight : copy[1] \in Nodes /\ copy[2] \in Others(copy[1])

\* Whatever arrives in whatever order, a node stores a block only after its parents,
\* and a node that had a block of its own keeps one root: stores stay closed.
StoresClosed ==
  \A n \in Nodes :
    /\ \A h \in DOMAIN dag[n] : ToSet(dag[n][h].parents) \subseteq DOMAIN dag[n]
    /\ Cardinality({h \in DOMAIN dag[n] : dag[n][h].parents = <<>>}) <= 1

\* While a hash is pending each peer is asked for it at most once.
AskedOnce ==
  \A n \in Nodes : \A h \in ToSet(asked[n]) :
    /\ Len(SelectSeq(asked[n], LAMBDA g : g = h)) <= Cardinality(Others(n))
    /\ h \in pending[n]

\* A reply to a request for headers from the start lists a block only behind its
\* parents, the cut at the limit included: blocks fetched in that order all insert.
HeadersClosed ==
  \A copy \in flight :
    copy[3].type = "Headers" /\ copy[3].from = NoBlock =>
      LET hs == copy[3].hashes IN
      \A i \in DOMAIN hs :
        ToSet(dag[copy[2]][hs[i]].parents) \subseteq {hs[j] : j \in 1..(i - 1)}

\* Gossip comes to rest: each node passes an item on once per life of its mark, so
\* when the caches are no longer emptied no item circulates for ever.
IsGossip(msg) == msg.type \in {"NewBlock", "NewTransaction"}
GossipEnds ==
  <>[](/\ \A copy \in flight : ~IsGossip(copy[3])
       /\ \A n \in Nodes : \A i \in DOMAIN outbox[n] : ~IsGossip(outbox[n][i]))

\* A transaction that one node broadcasts reaches every node, even though one copy
\* may be lost and every node that sees it passes it on only once.
Spread ==
  \A tx \in Transactions :
    (\E n \in Nodes : tx \in seen[n])
      ~> (cleanups > 0 \/ \A n \in Nodes : tx \in seen[n])

\* "Check if we're fully synced" (sync_manager.rs:168): a node that says so has every
\* block whose header it was sent.
SyncedIsComplete == \A n \in Nodes : is_synced(n) => told[n] \subseteq DOMAIN dag[n]

\* "Set of blocks we're currently requesting" (sync_manager.rs:21): a block the node
\* has is not being requested.
PendingIsMissing == \A n \in Nodes : pending[n] \cap DOMAIN dag[n] = {}

\* "Request missing blocks from peers" (sync_manager.rs:121): a request that no copy
\* was lost of is answered some day.
RequestsAnswered ==
  \A n \in Nodes : (lost = 0 /\ asked[n] # <<>>) ~> (lost > 0 \/ asked[n] = <<>>)
=============================================================================
