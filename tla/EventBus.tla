------------------------------ MODULE EventBus ------------------------------
(***************************************************************************)
(* The event bus (src/src/events/event_bus.rs), the listeners on it        *)
(* (events/event_listener.rs) and the WebSocket sockets that forward it    *)
(* (rpc/ws_server.rs).  There is one broadcast channel per event type,     *)
(* created on first use and never closed.  A channel (tokio, external)     *)
(* keeps the last Capacity events; a receiver that falls further behind    *)
(* gets an error and is moved to the oldest event kept; an event sent to   *)
(* nobody is dropped.  Every subscriber is a task of its own; an event is  *)
(* the number of its publication.                                          *)
(***************************************************************************)
EXTENDS Integers, FiniteSetsExt, SequencesExt

CONSTANTS Types,        \* event types, the names of the channels
          Publishers,   \* tasks that publish
          Singles,      \* listeners and sockets (/blocks, /transactions) on one channel
          PeerSubs,     \* subscribe_peer_events, two channels each
          AllSubs,      \* subscribe_all: listeners and sockets on /events
          Sockets,      \* the subscribers that are WebSocket connections
          Wants,        \* subscriber -> the channels it subscribes to, in order
          Capacity,     \* of a channel, a power of two as tokio rounds up to one
          MaxEvents     \* bound: publications

Direct == Singles \cup PeerSubs
Subs == Direct \cup AllSubs
None == "none"

ASSUME ConstantsAssumption ==
  /\ Capacity \in Nat \ {0} /\ MaxEvents \in Nat
  /\ Wants \in [Direct -> Seq(Types)]
  /\ \A s \in Direct : Wants[s] # <<>> /\ IsInjective(Wants[s])
  /\ \A s \in Singles : Len(Wants[s]) = 1
  /\ Singles \cap PeerSubs = {} /\ Direct \cap AllSubs = {}
  /\ Sockets \subseteq Singles \cup AllSubs
  /\ None \notin Types

VARIABLES chan,       \* created channels -> the events sent on them
          publishing, \* publisher -> the channel it is about to send on, or None
          count,      \* events published
          task,       \* subscriber -> "off", "on" or "ended"
          rx,         \* subscriber -> its receivers: channel -> events passed
          feed,       \* subscriber to all -> its own channel: events forwarded
          forwarder,  \* subscriber to all -> its task: off, look, wait, ended
          heard,      \* subscriber -> events passed to its callback or socket
          start,      \* ghost: subscriber -> rx at the time it subscribed
          behind,     \* ghost: subscribers that fell behind
          hung        \* ghost: subscribers whose connection ended

vars == <<chan, publishing, count, task, rx, feed, forwarder, heard, start, behind,
          hung>>

ToSetOf(s) == ToSet(heard[s])

-----------------------------------------------------------------------------
(* Channels (tokio::sync::broadcast) *)

\* The position up to which events are gone from a channel.
Lost(events) == Max({0, Len(events) - Capacity})

\* sender.subscribe(): a new receiver sees what is sent from now on.
NewReceiver(t) == Len(chan[t])

subscriber_count(t) ==
  Cardinality({s \in Subs : task[s] # "ended" /\ t \in DOMAIN rx[s]})

get_or_create_channel(t) ==
  chan' = IF t \in DOMAIN chan THEN chan
          ELSE [c \in DOMAIN chan \cup {t} |-> IF c = t THEN <<>> ELSE chan[c]]

-----------------------------------------------------------------------------
(* publish: find the channel, then send *)

publish(p, t) ==
  /\ publishing[p] = None /\ count < MaxEvents
  /\ count' = count + 1
  /\ get_or_create_channel(t)
  /\ publishing' = [publishing EXCEPT ![p] = t]
  /\ UNCHANGED <<task, rx, feed, forwarder, heard, start, behind, hung>>

\* The number of an event is settled when it is sent.
Sent == 1 + Cardinality(UNION {ToSet(chan[t]) : t \in DOMAIN chan})

send(p) ==
  /\ publishing[p] # None
  /\ LET t == publishing[p] IN
       chan' = IF subscriber_count(t) = 0 THEN chan
               ELSE [chan EXCEPT ![t] = Append(@, Sent)]
  /\ publishing' = [publishing EXCEPT ![p] = None]
  /\ UNCHANGED <<count, task, rx, feed, forwarder, heard, start, behind, hung>>

-----------------------------------------------------------------------------
(* Subscriptions to named channels *)

Subscribed(s) == Cardinality(DOMAIN rx[s])

\* EventBus::subscribe for the next channel wanted, if it exists already; the
\* task is spawned after the last one.
subscribe(s) ==
  /\ task[s] = "off"
  /\ LET t == Wants[s][Subscribed(s) + 1]
         r == IF t \in DOMAIN chan THEN NewReceiver(t) ELSE 0 IN
       /\ get_or_create_channel(t)
       /\ rx' = [rx EXCEPT ![s] = [c \in DOMAIN @ \cup {t} |-> IF c = t THEN r ELSE @[c]]]
       /\ start' = [start EXCEPT ![s] = [c \in DOMAIN @ \cup {t} |-> IF c = t THEN r ELSE @[c]]]
  /\ task' = [task EXCEPT ![s] = IF Subscribed(s) + 1 = Len(Wants[s]) THEN "on" ELSE "off"]
  /\ UNCHANGED <<publishing, count, feed, forwarder, heard, behind, hung>>

Lagging(s, t) == rx[s][t] < Lost(chan[t])

\* recv returns the next event, which goes to the callback or the socket.
receive(s, t) ==
  /\ task[s] = "on" /\ t \in DOMAIN rx[s]
  /\ ~Lagging(s, t) /\ rx[s][t] < Len(chan[t])
  /\ heard' = [heard EXCEPT ![s] = Append(@, chan[t][rx[s][t] + 1])]
  /\ rx' = [rx EXCEPT ![s][t] = @ + 1]
  /\ UNCHANGED <<chan, publishing, count, task, feed, forwarder, start, behind, hung>>

\* Mutant: the select of subscribe_peer_events has one branch.
receive_first(s, t) == t = Wants[s][1] /\ receive(s, t)

receive_peer(s, t) == receive(s, t)

\* Mutant: a listener goes on after an error.
lagged_resumes(s, t) ==
  /\ task[s] = "on" /\ t \in DOMAIN rx[s] /\ Lagging(s, t)
  /\ rx' = [rx EXCEPT ![s][t] = Lost(chan[t])]
  /\ behind' = behind \cup {s}
  /\ UNCHANGED <<chan, publishing, count, task, feed, forwarder, heard, start, hung>>

\* recv returns Err(Lagged): "while let Ok" and the match of the sockets end.
lagged(s, t) ==
  /\ task[s] = "on" /\ t \in DOMAIN rx[s] /\ Lagging(s, t)
  /\ task' = [task EXCEPT ![s] = "ended"]
  /\ behind' = behind \cup {s}
  /\ UNCHANGED <<chan, publishing, count, rx, feed, forwarder, heard, start, hung>>

\* The loop of subscribe_peer_events ignores the error; the receiver continues
\* with the oldest event kept.
lagged_peer(s, t) ==
  /\ task[s] = "on" /\ t \in DOMAIN rx[s] /\ Lagging(s, t)
  /\ rx' = [rx EXCEPT ![s][t] = Lost(chan[t])]
  /\ behind' = behind \cup {s}
  /\ UNCHANGED <<chan, publishing, count, task, feed, forwarder, heard, start, hung>>

\* The client closes the connection or a send to it fails.  Ping, subscribe and
\* other messages change nothing.
hang_up(s) ==
  /\ task[s] = "on"
  /\ task' = [task EXCEPT ![s] = "ended"]
  /\ hung' = hung \cup {s}
  /\ UNCHANGED <<chan, publishing, count, rx, feed, forwarder, heard, start, behind>>

-----------------------------------------------------------------------------
(* subscribe_all: a task copies events from all channels to a channel of its own *)

subscribe_all(s) ==
  /\ task[s] = "off"
  /\ task' = [task EXCEPT ![s] = "on"]
  /\ forwarder' = [forwarder EXCEPT ![s] = "look"]
  /\ UNCHANGED <<chan, publishing, count, rx, feed, heard, start, behind, hung>>

\* Mutant: the new receivers start at the oldest event kept.
forwarder_look_replaying(s) ==
  /\ forwarder[s] = "look"
  /\ rx' = [rx EXCEPT ![s] = [t \in DOMAIN chan |-> Lost(chan[t])]]
  /\ forwarder' = [forwarder EXCEPT ![s] = IF DOMAIN chan = {} THEN "ended" ELSE "wait"]
  /\ UNCHANGED <<chan, publishing, count, task, feed, heard, start, behind, hung>>

\* Each round subscribes anew to the channels there are; select_all panics when
\* there is none.
forwarder_look(s) ==
  /\ forwarder[s] = "look"
  /\ rx' = [rx EXCEPT ![s] = [t \in DOMAIN chan |-> NewReceiver(t)]]
  /\ forwarder' = [forwarder EXCEPT ![s] = IF DOMAIN chan = {} THEN "ended" ELSE "wait"]
  /\ UNCHANGED <<chan, publishing, count, task, feed, heard, start, behind, hung>>

\* The first event of any channel is forwarded and all receivers are dropped.  A
\* send nobody listens to is ignored.
forwarder_forward(s) ==
  /\ forwarder[s] = "wait"
  /\ \E t \in DOMAIN rx[s] :
       /\ ~Lagging(s, t) /\ rx[s][t] < Len(chan[t])
       /\ feed' = IF task[s] = "ended" THEN feed
                  ELSE [feed EXCEPT ![s] = Append(@, chan[t][rx[s][t] + 1])]
  /\ forwarder' = [forwarder EXCEPT ![s] = "look"]
  /\ rx' = [rx EXCEPT ![s] = <<>>]
  /\ UNCHANGED <<chan, publishing, count, task, heard, start, behind, hung>>

\* An error of any receiver ends the task.
forwarder_lagged(s) ==
  /\ forwarder[s] = "wait"
  /\ \E t \in DOMAIN rx[s] : Lagging(s, t)
  /\ forwarder' = [forwarder EXCEPT ![s] = "ended"]
  /\ rx' = [rx EXCEPT ![s] = <<>>]
  /\ behind' = behind \cup {s}
  /\ UNCHANGED <<chan, publishing, count, task, feed, heard, start, hung>>

Passed(s) == Len(heard[s])

receive_all(s) ==
  /\ task[s] = "on"
  /\ Passed(s) < Len(feed[s]) /\ Passed(s) >= Lost(feed[s])
  /\ heard' = [heard EXCEPT ![s] = Append(@, feed[s][Passed(s) + 1])]
  /\ UNCHANGED <<chan, publishing, count, task, rx, feed, forwarder, start, behind, hung>>

\* The receiver lags, or everything is read and the sender is gone.
end_all(s) ==
  /\ task[s] = "on"
  /\ \/ Passed(s) < Lost(feed[s])
     \/ Passed(s) = Len(feed[s]) /\ forwarder[s] = "ended"
  /\ task' = [task EXCEPT ![s] = "ended"]
  /\ behind' = behind \cup {s}
  /\ UNCHANGED <<chan, publishing, count, rx, feed, forwarder, heard, start, hung>>

-----------------------------------------------------------------------------

Init ==
  /\ chan = <<>> /\ count = 0
  /\ publishing = [p \in Publishers |-> None]
  /\ task = [s \in Subs |-> "off"]
  /\ rx = [s \in Subs |-> <<>>]
  /\ feed = [s \in AllSubs |-> <<>>]
  /\ forwarder = [s \in AllSubs |-> "off"]
  /\ heard = [s \in Subs |-> <<>>]
  /\ start = [s \in Direct |-> <<>>]
  /\ behind = {} /\ hung = {}

\* What the task of a subscriber does.
Run(s) ==
  \/ s \in Singles /\ \E t \in Types : receive(s, t) \/ lagged(s, t)
  \/ s \in PeerSubs /\ \E t \in Types : receive_peer(s, t) \/ lagged_peer(s, t)
  \/ s \in AllSubs /\ (receive_all(s) \/ end_all(s))

Forward(s) == forwarder_look(s) \/ forwarder_forward(s) \/ forwarder_lagged(s)

Next ==
  \/ \E p \in Publishers : send(p) \/ \E t \in Types : publish(p, t)
  \/ \E s \in Direct : subscribe(s)
  \/ \E s \in Subs : Run(s)
  \/ \E s \in Sockets : hang_up(s)
  \/ \E s \in AllSubs : subscribe_all(s) \/ Forward(s)

Spec == Init /\ [][Next]_vars

\* The runtime polls every task that can go on; publishers and clients may stop.
Fairness ==
  /\ \A s \in Subs : WF_vars(Run(s))
  /\ \A s \in AllSubs : WF_vars(Forward(s))
  /\ \A p \in Publishers : WF_vars(send(p))

FairSpec == Spec /\ Fairness

-----------------------------------------------------------------------------
(* Properties *)

\* Types; a receiver never passes the end of its channel.
TypeOK ==
  /\ DOMAIN chan \subseteq Types
  /\ \A t \in DOMAIN chan : chan[t] \in Seq(1..MaxEvents)
  /\ publishing \in [Publishers -> Types \cup {None}]
  /\ count \in 0..MaxEvents
  /\ task \in [Subs -> {"off", "on", "ended"}]
  /\ forwarder \in [AllSubs -> {"off", "look", "wait", "ended"}]
  /\ \A s \in Subs : \A t \in DOMAIN rx[s] : rx[s][t] \in 0..Len(chan[t])
  /\ \A s \in Subs : heard[s] \in Seq(1..MaxEvents)
  /\ behind \subseteq Subs /\ hung \subseteq Subs

\* What a subscriber heard on one channel.
HeardOn(s, t) == SelectSeq(heard[s], LAMBDA e : Contains(chan[t], e))

\* A listener or a block or transaction socket hears every event of its channel
\* from its subscription on, in the order sent and without a gap, up to the point
\* where it ends: an error ends the task, so a lag never shows as a hole in the
\* middle.
HeardWithoutGap ==
  \A s \in Singles : \A t \in DOMAIN rx[s] :
    heard[s] = SubSeq(chan[t], start[s][t] + 1, start[s][t] + Len(heard[s]))

\* subscribe_peer_events goes on after a lag: on each of its two channels events
\* keep their order and come once, and none is missing unless it fell behind.
PeerEventsPerChannel ==
  \A s \in PeerSubs : \A t \in DOMAIN rx[s] :
    LET since == SubSeq(chan[t], start[s][t] + 1, rx[s][t]) IN
      /\ HeardOn(s, t) = SelectSeq(since, LAMBDA e : e \in ToSetOf(s))
      /\ s \notin behind => HeardOn(s, t) = since

\* The task of a listener or socket whose client stays ends only when it was more
\* than Capacity events behind; that of a peer listener never ends.
EndedOnlyBehind ==
  \A s \in Direct \ hung : task[s] = "ended" =>
    /\ s \notin PeerSubs
    /\ \E t \in DOMAIN rx[s] : Len(chan[t]) - rx[s][t] > Capacity

\* The task behind subscribe_all, which subscribes anew for every event, forwards
\* no event twice and keeps the order of each channel.
ForwardedOnce ==
  \A s \in AllSubs :
    /\ IsInjective(feed[s]) /\ IsPrefix(heard[s], feed[s])
    /\ \A t \in DOMAIN chan :
         LET on == SelectSeq(feed[s], LAMBDA e : Contains(chan[t], e))
         IN  on = SelectSeq(chan[t], LAMBDA e : Contains(feed[s], e))

\* A subscriber has events before it.
Backlog(s) ==
  /\ task[s] = "on" /\ s \notin behind \cup hung
  /\ \E t \in DOMAIN rx[s] : rx[s][t] < Len(chan[t])

\* A listener, socket or peer listener hears everything sent on its channels since
\* it subscribed, unless it falls behind or is hung up: no event is left waiting
\* for a task that nobody wakes.
Delivered == \A s \in Direct : Backlog(s) ~> ~Backlog(s)

Quiet == \A p \in Publishers : publishing[p] = None

\* "Create a special "all" channel that receives all events" (event_bus.rs:71):
\* an event sent while the subscriber's task waits on channels reaches it.
AllReceivesAll ==
  \A s \in AllSubs :
    (task[s] = "on" /\ s \notin behind \cup hung /\ Quiet /\ forwarder[s] = "wait") =>
      \A t \in DOMAIN rx[s] : \A i \in 1..rx[s][t] : Contains(feed[s], chan[t][i])

\* "If all channels are closed, break" (event_bus.rs:97): the channels of the bus
\* are never closed, so the task does not end unless it fell behind.
ForwarderStays == \A s \in AllSubs : forwarder[s] = "ended" => s \in behind
=============================================================================
