--------------------------- MODULE EventBusProofs ---------------------------
(***************************************************************************)
(* Proofs about the event bus, for any channels, capacity, publishers and  *)
(* subscribers: a listener or a block or transaction socket hears its      *)
(* channel without a gap, and its task ends by itself only when it has     *)
(* fallen behind by more than the capacity.                                *)
(***************************************************************************)
EXTENDS EventBus, FiniteSetTheorems, TLAPS

IsSequence(q) == \E T : q \in Seq(T)

\* The channel of a listener or socket.
Channel(s) == Wants[s][1]

\* It has not subscribed yet.
Silent(s) == DOMAIN rx[s] = {} /\ heard[s] = <<>> /\ task[s] = "off"

\* It has: the position of its receiver tells what it has heard.
Listens(s) ==
  LET t == Channel(s) IN
  /\ DOMAIN rx[s] = {t} /\ t \in DOMAIN chan
  /\ start[s][t] \in Nat /\ rx[s][t] \in Nat /\ rx[s][t] <= Len(chan[t])
  /\ IsSequence(heard[s]) /\ rx[s][t] = start[s][t] + Len(heard[s])
  /\ \A i \in 1..Len(heard[s]) : heard[s][i] = chan[t][start[s][t] + i]
  /\ task[s] \in {"on", "ended"}
  /\ task[s] = "ended" /\ s \notin hung => Len(chan[t]) - rx[s][t] > Capacity

BusInv ==
  /\ DOMAIN rx = Subs /\ DOMAIN heard = Subs /\ DOMAIN task = Subs /\ DOMAIN start = Direct
  /\ \A t \in DOMAIN chan : IsSequence(chan[t])
  /\ \A s \in Singles : Silent(s) \/ Listens(s)
  /\ \A s \in PeerSubs : task[s] \in {"off", "on"}

-----------------------------------------------------------------------------
(* Helpers *)

LEMMA MaxOfTwo ==
  ASSUME NEW m \in Int, NEW n \in Int
  PROVE  Max({m, n}) = IF m >= n THEN m ELSE n
<1> DEFINE v == IF m >= n THEN m ELSE n
<1>1. v \in {m, n} /\ \A y \in {m, n} : v >= y
  OBVIOUS
<1>2. \A x \in {m, n} : (\A y \in {m, n} : x >= y) => x = v
  OBVIOUS
<1> QED BY <1>1, <1>2 DEF Max

LEMMA Appended ==
  ASSUME NEW q, IsSequence(q), NEW e
  PROVE  /\ Len(q) \in Nat /\ IsSequence(Append(q, e)) /\ Len(Append(q, e)) = Len(q) + 1
         /\ \A i \in 1..Len(q) : Append(q, e)[i] = q[i]
         /\ Append(q, e)[Len(q) + 1] = e
<1>1. PICK T : q \in Seq(T)
  BY DEF IsSequence
<1>2. q \in Seq(T \cup {e}) /\ e \in T \cup {e}
  BY <1>1
<1> QED BY <1>2 DEF IsSequence

\* Channels are added and grow.
Grow ==
  /\ DOMAIN chan \subseteq DOMAIN chan'
  /\ \A t \in DOMAIN chan' : IsSequence(chan'[t])
  /\ \A t \in DOMAIN chan :
       /\ Len(chan'[t]) >= Len(chan[t])
       /\ \A i \in 1..Len(chan[t]) : chan'[t][i] = chan[t][i]

LEMMA SameChannels ==
  ASSUME BusInv, chan' = chan PROVE Grow
<1>1. \A t \in DOMAIN chan : Len(chan[t]) \in Nat
  BY DEF BusInv, IsSequence
<1> QED BY <1>1 DEF BusInv, Grow

LEMMA NewChannel ==
  ASSUME BusInv, NEW t, get_or_create_channel(t)
  PROVE  /\ Grow /\ DOMAIN chan' = DOMAIN chan \cup {t}
         /\ t \notin DOMAIN chan => chan'[t] = <<>>
         /\ t \in DOMAIN chan => chan'[t] = chan[t]
<1>1. CASE t \in DOMAIN chan
  BY <1>1, SameChannels DEF get_or_create_channel
<1>2. CASE t \notin DOMAIN chan
  <2>1. /\ DOMAIN chan' = DOMAIN chan \cup {t} /\ chan'[t] = <<>>
        /\ \A c \in DOMAIN chan : chan'[c] = chan[c]
    BY <1>2 DEF get_or_create_channel
  <2>2. IsSequence(<<>>)
    BY DEF IsSequence
  <2>3. \A c \in DOMAIN chan : Len(chan[c]) \in Nat
    BY DEF BusInv, IsSequence
  <2> QED BY <1>2, <2>1, <2>2, <2>3 DEF BusInv, Grow
<1> QED BY <1>1, <1>2

LEMMA SentGrows ==
  ASSUME BusInv, NEW t, NEW e, chan' = [chan EXCEPT ![t] = Append(@, e)]
  PROVE  Grow
<1>1. CASE t \in DOMAIN chan
  <2>1. /\ DOMAIN chan' = DOMAIN chan /\ chan'[t] = Append(chan[t], e)
        /\ \A c \in DOMAIN chan \ {t} : chan'[c] = chan[c]
    BY <1>1
  <2>2. \A c \in DOMAIN chan : Len(chan[c]) \in Nat /\ IsSequence(chan[c])
    BY DEF BusInv, IsSequence
  <2>3. /\ IsSequence(chan'[t]) /\ Len(chan'[t]) = Len(chan[t]) + 1
        /\ \A i \in 1..Len(chan[t]) : chan'[t][i] = chan[t][i]
    BY <1>1, <2>1, <2>2, Appended
  <2> QED BY <2>1, <2>2, <2>3 DEF Grow
<1>2. CASE t \notin DOMAIN chan
  <2>1. DOMAIN chan' = DOMAIN chan /\ \A c \in DOMAIN chan : chan'[c] = chan[c]
    BY <1>2
  <2>2. \A c \in DOMAIN chan : Len(chan[c]) \in Nat /\ IsSequence(chan[c])
    BY DEF BusInv, IsSequence
  <2> QED BY <2>1, <2>2 DEF Grow
<1> QED BY <1>1, <1>2

\* A listener that a step leaves alone.
LEMMA LeftAlone ==
  ASSUME BusInv, Grow, NEW s \in Singles, hung \subseteq hung',
         rx'[s] = rx[s], heard'[s] = heard[s], task'[s] = task[s], start'[s] = start[s]
  PROVE  Silent(s)' \/ Listens(s)'
<1>1. CASE Silent(s)
  BY <1>1 DEF Silent
<1>2. CASE Listens(s)
  <2> DEFINE t == Channel(s)
  <2>1. t \in DOMAIN chan /\ t \in DOMAIN chan' /\ Len(chan[t]) \in Nat /\ Len(chan'[t]) \in Nat
        /\ Len(chan'[t]) >= Len(chan[t])
    BY <1>2 DEF Listens, Grow, BusInv, IsSequence
  <2>2. start[s][t] \in Nat /\ rx[s][t] \in Nat /\ rx[s][t] <= Len(chan[t])
        /\ Len(heard[s]) \in Nat /\ rx[s][t] = start[s][t] + Len(heard[s])
    BY <1>2 DEF Listens, IsSequence
  <2>3. rx'[s][t] <= Len(chan'[t])
    BY <2>1, <2>2
  <2>4. ASSUME NEW i \in 1..Len(heard[s]) PROVE heard'[s][i] = chan'[t][start'[s][t] + i]
    <3>1. start[s][t] + i \in 1..Len(chan[t]) /\ heard[s][i] = chan[t][start[s][t] + i]
      BY <1>2, <2>1, <2>2 DEF Listens
    <3> QED BY <2>1, <3>1 DEF Grow
  <2>5. task'[s] = "ended" /\ s \notin hung' => Len(chan'[t]) - rx'[s][t] > Capacity
    <3>1. task[s] = "ended" /\ s \notin hung => Len(chan[t]) - rx[s][t] > Capacity
      BY <1>2 DEF Listens
    <3> QED BY <2>1, <2>2, <3>1, ConstantsAssumption
  <2> QED BY <1>2, <2>1, <2>3, <2>4, <2>5 DEF Listens, Channel
<1> QED BY <1>1, <1>2 DEF BusInv

\* A step that moves at most one subscriber.
LEMMA OneMoves ==
  ASSUME BusInv, Grow, hung \subseteq hung', NEW u,
         DOMAIN rx' = Subs, DOMAIN heard' = Subs, DOMAIN task' = Subs, DOMAIN start' = Direct,
         \A s \in Direct \ {u} : rx'[s] = rx[s] /\ heard'[s] = heard[s]
                                 /\ task'[s] = task[s] /\ start'[s] = start[s],
         u \in Singles => Silent(u)' \/ Listens(u)',
         u \in PeerSubs => task'[u] \in {"off", "on"}
  PROVE  BusInv'
<1>1. ASSUME NEW s \in Singles PROVE Silent(s)' \/ Listens(s)'
  <2>1. CASE s = u
    BY <2>1
  <2>2. CASE s # u
    <3>1. rx'[s] = rx[s] /\ heard'[s] = heard[s] /\ task'[s] = task[s] /\ start'[s] = start[s]
      BY <2>2 DEF Direct
    <3> QED BY <3>1, LeftAlone
  <2> QED BY <2>1, <2>2
<1>2. \A s \in PeerSubs : task'[s] \in {"off", "on"}
  BY DEF BusInv, Direct
<1> QED BY <1>1, <1>2 DEF BusInv, Grow

LEMMA NobodyMoves ==
  ASSUME BusInv, Grow, hung \subseteq hung', UNCHANGED <<rx, heard, task, start>>
  PROVE  BusInv'
<1>1. ASSUME NEW s \in Singles PROVE Silent(s)' \/ Listens(s)'
  BY LeftAlone
<1> QED BY <1>1 DEF BusInv, Grow

-----------------------------------------------------------------------------
(* Steps *)

LEMMA Subscribes ==
  ASSUME BusInv, NEW s \in Direct, subscribe(s)
  PROVE  BusInv'
<1> DEFINE t == Wants[s][Subscribed(s) + 1]
           r == IF t \in DOMAIN chan THEN NewReceiver(t) ELSE 0
<1>1. get_or_create_channel(t) /\ UNCHANGED <<heard, hung>>
  BY DEF subscribe
<1>2. /\ rx' = [rx EXCEPT ![s] = [c \in DOMAIN rx[s] \cup {t} |-> IF c = t THEN r ELSE rx[s][c]]]
      /\ start' = [start EXCEPT ![s] =
                     [c \in DOMAIN start[s] \cup {t} |-> IF c = t THEN r ELSE start[s][c]]]
      /\ task' = [task EXCEPT ![s] =
                    IF Subscribed(s) + 1 = Len(Wants[s]) THEN "on" ELSE "off"]
  BY DEF subscribe, BusInv, Subs
<1>3. /\ Grow /\ DOMAIN chan' = DOMAIN chan \cup {t}
      /\ t \notin DOMAIN chan => chan'[t] = <<>>
      /\ t \in DOMAIN chan => chan'[t] = chan[t]
  <2> HIDE DEF t
  <2> QED BY <1>1, NewChannel
<1>4. s \in PeerSubs => task'[s] \in {"off", "on"}
  BY <1>2 DEF BusInv, Subs
<1>5. ASSUME s \in Singles PROVE Listens(s)'
  <2>1. Silent(s)
    BY <1>5 DEF subscribe, BusInv, Listens
  <2>2. Subscribed(s) = 0
    BY <2>1, FS_EmptySet DEF Subscribed, Silent
  <2>3. t = Channel(s) /\ Len(Wants[s]) = 1
    BY <1>5, <2>2, ConstantsAssumption DEF Channel
  <2>4. r \in Nat /\ r <= Len(chan'[t]) /\ t \in DOMAIN chan'
    BY <1>3 DEF NewReceiver, BusInv, IsSequence
  <2> HIDE DEF r
  <2>5. DOMAIN rx'[s] = {t} /\ rx'[s][t] = r
    BY <1>2, <2>1 DEF Silent, BusInv, Subs
  <2>6. start'[s][t] = r
    BY <1>2 DEF BusInv
  <2>7. task'[s] = "on"
    BY <1>2, <2>2, <2>3 DEF BusInv, Subs
  <2>8. heard'[s] = <<>> /\ IsSequence(<<>>) /\ Len(<<>>) = 0
    BY <1>1, <2>1 DEF Silent, IsSequence
  <2> HIDE DEF t
  <2> QED BY <2>3, <2>4, <2>5, <2>6, <2>7, <2>8 DEF Listens, Channel
<1> HIDE DEF t, r
<1>6. /\ DOMAIN rx' = Subs /\ DOMAIN heard' = Subs /\ DOMAIN task' = Subs
      /\ DOMAIN start' = Direct
      /\ \A u \in Direct \ {s} : rx'[u] = rx[u] /\ heard'[u] = heard[u]
                                 /\ task'[u] = task[u] /\ start'[u] = start[u]
  BY <1>1, <1>2 DEF BusInv, Subs
<1> QED BY <1>1, <1>3, <1>4, <1>5, <1>6, OneMoves

LEMMA Receives ==
  ASSUME BusInv, NEW s \in Direct, NEW t, receive(s, t)
  PROVE  BusInv'
<1> DEFINE e == chan[t][rx[s][t] + 1]
           n == rx[s][t] + 1
<1>1. /\ task[s] = "on" /\ t \in DOMAIN rx[s] /\ rx[s][t] < Len(chan[t])
      /\ heard' = [heard EXCEPT ![s] = Append(heard[s], e)]
      /\ rx' = [rx EXCEPT ![s][t] = n]
      /\ UNCHANGED <<chan, task, start, hung>>
  BY DEF receive
<1> HIDE DEF e, n
<1>2. Grow
  BY <1>1, SameChannels
<1>3. /\ DOMAIN rx' = Subs /\ DOMAIN heard' = Subs /\ DOMAIN task' = Subs
      /\ DOMAIN start' = Direct
      /\ heard'[s] = Append(heard[s], e) /\ rx'[s] = [rx[s] EXCEPT ![t] = n]
      /\ \A u \in Direct \ {s} : rx'[u] = rx[u] /\ heard'[u] = heard[u]
                                 /\ task'[u] = task[u] /\ start'[u] = start[u]
  BY <1>1 DEF BusInv, Subs
<1>4. ASSUME s \in Singles PROVE Listens(s)'
  <2>1. Listens(s)
    BY <1>1, <1>4 DEF BusInv, Silent
  <2>2. t = Channel(s) /\ t \in DOMAIN chan /\ DOMAIN rx[s] = {t}
    BY <1>1, <2>1 DEF Listens
  <2>3. /\ Len(chan[t]) \in Nat /\ start[s][t] \in Nat /\ rx[s][t] \in Nat
        /\ IsSequence(heard[s]) /\ Len(heard[s]) \in Nat
        /\ rx[s][t] = start[s][t] + Len(heard[s])
        /\ \A i \in 1..Len(heard[s]) : heard[s][i] = chan[t][start[s][t] + i]
    BY <2>1, <2>2 DEF Listens, BusInv, IsSequence
  <2>4. /\ IsSequence(heard'[s]) /\ Len(heard'[s]) = Len(heard[s]) + 1
        /\ \A i \in 1..Len(heard[s]) : heard'[s][i] = heard[s][i]
        /\ heard'[s][Len(heard[s]) + 1] = e
    BY <1>3, <2>3, Appended
  <2>5. DOMAIN rx'[s] = {t} /\ rx'[s][t] = rx[s][t] + 1
    BY <1>3, <2>2 DEF n
  <2>6. e = chan[t][start[s][t] + (Len(heard[s]) + 1)]
    BY <2>3 DEF e
  <2>7. ASSUME NEW i \in 1..Len(heard'[s]) PROVE heard'[s][i] = chan[t][start[s][t] + i]
    <3>1. i \in 1..Len(heard[s]) \/ i = Len(heard[s]) + 1
      BY <2>3, <2>4
    <3> QED BY <2>3, <2>4, <2>6, <3>1
  <2>8. rx'[s][t] \in Nat /\ rx'[s][t] <= Len(chan[t])
        /\ rx'[s][t] = start[s][t] + Len(heard'[s])
    BY <1>1, <2>3, <2>4, <2>5
  <2> QED BY <1>1, <2>2, <2>3, <2>4, <2>5, <2>7, <2>8 DEF Listens, Channel
<1>5. s \in PeerSubs => task'[s] \in {"off", "on"}
  BY <1>1
<1>6. hung \subseteq hung'
  BY <1>1
<1> QED BY <1>2, <1>3, <1>4, <1>5, <1>6, OneMoves

\* The task of a listener or socket ends: it lags behind, or its client is gone.
LEMMA Ends ==
  ASSUME BusInv, NEW s \in Singles, task[s] = "on",
         task' = [task EXCEPT ![s] = "ended"], hung \subseteq hung',
         UNCHANGED <<chan, rx, heard, start>>,
         s \notin hung' => \E t \in DOMAIN rx[s] : Lagging(s, t)
  PROVE  BusInv'
<1>1. Listens(s)
  BY DEF BusInv, Silent
<1>2. s \notin hung' => Len(chan[Channel(s)]) - rx[s][Channel(s)] > Capacity
  <2> SUFFICES ASSUME s \notin hung'
               PROVE  Len(chan[Channel(s)]) - rx[s][Channel(s)] > Capacity
    OBVIOUS
  <2> DEFINE t == Channel(s)
             n == Len(chan[t])
  <2>1. t \in DOMAIN chan /\ n \in Nat /\ rx[s][t] \in Nat /\ Lagging(s, t)
    BY <1>1 DEF Listens, BusInv, IsSequence
  <2>2. n - Capacity \in Int /\ Capacity \in Nat
    BY <2>1, ConstantsAssumption
  <2>3. Lost(chan[t]) = IF 0 >= n - Capacity THEN 0 ELSE n - Capacity
    BY <2>2, MaxOfTwo DEF Lost
  <2> QED BY <2>1, <2>2, <2>3 DEF Lagging
<1>3. Listens(s)'
  <2>1. task'[s] = "ended"
    BY DEF BusInv, Subs, Direct
  <2> QED BY <1>1, <1>2, <2>1 DEF Listens, Channel
<1>4. Grow
  BY SameChannels
<1>5. /\ DOMAIN task' = Subs
      /\ \A u \in Direct \ {s} : task'[u] = task[u]
  BY DEF BusInv
<1>6. s \notin PeerSubs
  BY ConstantsAssumption
<1> QED BY <1>3, <1>4, <1>5, <1>6, OneMoves DEF BusInv

\* A step of a peer listener or of a subscriber to all.
LEMMA OtherMoves ==
  ASSUME BusInv, NEW s \in PeerSubs \cup AllSubs, UNCHANGED <<chan, start>>,
         hung \subseteq hung',
         DOMAIN rx' = Subs, DOMAIN heard' = Subs, DOMAIN task' = Subs,
         \A u \in Direct \ {s} : rx'[u] = rx[u] /\ heard'[u] = heard[u] /\ task'[u] = task[u],
         s \in PeerSubs => task'[s] = task[s]
  PROVE  BusInv'
<1>1. s \notin Singles
  BY ConstantsAssumption DEF Direct
<1>2. Grow
  BY SameChannels
<1> QED BY <1>1, <1>2, OneMoves DEF BusInv

LEMMA HangsUp ==
  ASSUME BusInv, NEW s \in Sockets, hang_up(s)
  PROVE  BusInv'
<1>1. s \in Singles \/ s \in AllSubs
  BY ConstantsAssumption
<1>2. CASE s \in Singles
  <2>1. s \in hung'
    BY DEF hang_up
  <2> QED BY <1>2, <2>1, Ends DEF hang_up
<1>3. CASE s \in AllSubs
  <2>1. s \notin PeerSubs
    BY <1>3, ConstantsAssumption DEF Direct
  <2>2. DOMAIN task' = Subs /\ \A u \in Direct \ {s} : task'[u] = task[u]
    BY DEF hang_up, BusInv, Subs
  <2> QED BY <1>3, <2>1, <2>2, OtherMoves DEF hang_up, BusInv
<1> QED BY <1>1, <1>2, <1>3

LEMMA Runs ==
  ASSUME BusInv, NEW s \in Subs, Run(s)
  PROVE  BusInv'
<1>1. CASE s \in Singles /\ \E t \in Types : receive(s, t)
  BY <1>1, Receives DEF Direct
<1>2. CASE s \in Singles /\ \E t \in Types : lagged(s, t)
  BY <1>2, Ends DEF lagged
<1>3. CASE s \in PeerSubs /\ \E t \in Types : receive_peer(s, t)
  BY <1>3, Receives DEF Direct, receive_peer
<1>4. CASE s \in PeerSubs /\ \E t \in Types : lagged_peer(s, t)
  <2>1. PICK t \in Types : lagged_peer(s, t)
    BY <1>4
  <2>2. DOMAIN rx' = Subs /\ \A u \in Direct \ {s} : rx'[u] = rx[u]
    BY <2>1 DEF lagged_peer, BusInv, Subs
  <2> QED BY <1>4, <2>1, <2>2, OtherMoves DEF lagged_peer, BusInv
<1>5. CASE s \in AllSubs /\ receive_all(s)
  <2>1. DOMAIN heard' = Subs /\ \A u \in Direct \ {s} : heard'[u] = heard[u]
    BY <1>5 DEF receive_all, BusInv, Subs
  <2> QED BY <1>5, <2>1, OtherMoves DEF receive_all, BusInv
<1>6. CASE s \in AllSubs /\ end_all(s)
  <2>1. s \notin PeerSubs
    BY <1>6, ConstantsAssumption DEF Direct
  <2>2. DOMAIN task' = Subs /\ \A u \in Direct \ {s} : task'[u] = task[u]
    BY <1>6 DEF end_all, BusInv, Subs
  <2> QED BY <1>6, <2>1, <2>2, OtherMoves DEF end_all, BusInv
<1> QED BY <1>1, <1>2, <1>3, <1>4, <1>5, <1>6 DEF Run

LEMMA Forwards ==
  ASSUME BusInv, NEW s \in AllSubs, subscribe_all(s) \/ Forward(s)
  PROVE  BusInv'
<1>1. s \notin PeerSubs /\ s \notin Direct
  BY ConstantsAssumption DEF Direct
<1>2. CASE subscribe_all(s)
  <2>1. DOMAIN task' = Subs /\ \A u \in Direct \ {s} : task'[u] = task[u]
    BY <1>2 DEF subscribe_all, BusInv, Subs
  <2> QED BY <1>1, <1>2, <2>1, OtherMoves DEF subscribe_all, BusInv
<1>3. CASE Forward(s)
  <2>1. /\ UNCHANGED <<chan, start, heard, task, hung>>
        /\ DOMAIN rx' = Subs /\ \A u \in Direct \ {s} : rx'[u] = rx[u]
    BY <1>3 DEF Forward, forwarder_look, forwarder_forward, forwarder_lagged, BusInv, Subs
  <2> QED BY <1>1, <2>1, OtherMoves DEF BusInv
<1> QED BY <1>2, <1>3

-----------------------------------------------------------------------------
(* Results *)

LEMMA InitBus == Init => BusInv
BY DEF Init, BusInv, Silent, Subs, Direct

LEMMA NextBus == BusInv /\ [Next]_vars => BusInv'
<1> SUFFICES ASSUME BusInv, [Next]_vars PROVE BusInv'
  OBVIOUS
<1>1. CASE \E p \in Publishers : send(p)
  <2>1. PICK p \in Publishers : send(p)
    BY <1>1
  <2>2. Grow
    <3>1. CASE chan' = chan
      BY <3>1, SameChannels
    <3>2. CASE chan' = [chan EXCEPT ![publishing[p]] = Append(@, Sent)]
      <4> DEFINE e == Sent
      <4>1. chan' = [chan EXCEPT ![publishing[p]] = Append(@, e)]
        BY <3>2
      <4> HIDE DEF e
      <4> QED BY <4>1, SentGrows
    <3> QED BY <2>1, <3>1, <3>2 DEF send
  <2> QED BY <2>1, <2>2, NobodyMoves DEF send
<1>2. CASE \E p \in Publishers : \E t \in Types : publish(p, t)
  BY <1>2, NewChannel, NobodyMoves DEF publish
<1>3. CASE \E s \in Direct : subscribe(s)
  BY <1>3, Subscribes
<1>4. CASE \E s \in Subs : Run(s)
  BY <1>4, Runs
<1>5. CASE \E s \in Sockets : hang_up(s)
  BY <1>5, HangsUp
<1>6. CASE \E s \in AllSubs : subscribe_all(s) \/ Forward(s)
  BY <1>6, Forwards
<1>7. CASE UNCHANGED vars
  <2>1. Grow
    BY <1>7, SameChannels DEF vars
  <2> QED BY <1>7, <2>1, NobodyMoves DEF vars
<1> QED BY <1>1, <1>2, <1>3, <1>4, <1>5, <1>6, <1>7 DEF Next

\* The inductive invariant of listeners and sockets.
THEOREM BusInvariance == Spec => []BusInv
BY InitBus, NextBus, PTL DEF Spec

\* A listener or a block or transaction socket hears every event of its channel since it
\* subscribed, in order and without a gap, up to the point where its task ends.
THEOREM NoGap == Spec => []HeardWithoutGap
<1>1. ASSUME BusInv PROVE HeardWithoutGap
  <2> SUFFICES ASSUME NEW s \in Singles, NEW t \in DOMAIN rx[s]
               PROVE  heard[s] = SubSeq(chan[t], start[s][t] + 1, start[s][t] + Len(heard[s]))
    BY DEF HeardWithoutGap
  <2>1. Listens(s) /\ t = Channel(s)
    BY <1>1 DEF BusInv, Silent, Listens
  <2>2. PICK T : heard[s] \in Seq(T)
    BY <2>1 DEF Listens, IsSequence
  <2>3. PICK U : chan[t] \in Seq(U)
    BY <1>1, <2>1 DEF Listens, BusInv, IsSequence
  <2> DEFINE a == start[s][t]
             n == Len(heard[s])
             q == SubSeq(chan[t], a + 1, a + n)
  <2>4. a \in Nat /\ n \in Nat /\ a + n <= Len(chan[t]) /\ Len(chan[t]) \in Nat
    BY <2>1, <2>2, <2>3 DEF Listens
  <2>5. \A i \in 1..n : heard[s][i] = chan[t][a + i]
    BY <2>1 DEF Listens
  <2>6. heard[s] = [i \in 1..n |-> heard[s][i]]
    BY <2>2
  <2> HIDE DEF a, n
  <2>7. q = [i \in 1..n |-> chan[t][a + i]]
    BY <2>3, <2>4
  <2> QED BY <2>5, <2>6, <2>7 DEF a, n
<1> QED BY <1>1, BusInvariance, PTL

\* While its client stays, the task of a listener or socket ends only when it is more than
\* Capacity events behind, and that of a peer listener never ends.
THEOREM NoEarlyEnd == Spec => []EndedOnlyBehind
<1>1. BusInv => EndedOnlyBehind
  BY DEF BusInv, EndedOnlyBehind, Direct, Silent, Listens
<1> QED BY <1>1, BusInvariance, PTL
=============================================================================
