------------------------ MODULE DosProtectionProofs ------------------------
(***************************************************************************)
(* Proofs about the per-address limits, for any addresses, limits, times   *)
(* and choices of the cleanup: connections are counted exactly until the   *)
(* cleanup drops an entry and never too high, and an entry carries a ban   *)
(* exactly when it has three violations.                                   *)
(***************************************************************************)
EXTENDS DosProtection, TLAPS

\* What the types of the code say of the parameters: durations and numbers of bytes.
Parameters == ban_duration \in Nat /\ Bytes \subseteq Nat

Fields == {"connections", "request_times", "bytes", "last_activity", "banned_until",
           "violations"}

\* An entry of the table, and what its fields say of each other.
Sound(s) ==
  /\ DOMAIN s = Fields
  /\ s.connections \in Nat /\ s.violations \in Nat /\ s.banned_until \in Nat
  /\ s.banned_until # 0 <=> s.violations >= 3

\* An address without an entry that the cleanup never dropped has nothing open.
LimitsInv ==
  /\ time \in Nat \ {0}
  /\ open \in [Addresses -> Nat]
  /\ DOMAIN states \subseteq Addresses
  /\ \A ip \in DOMAIN states : Sound(states[ip])
  /\ ConnectionsCounted
  /\ \A ip \in Addresses \ DOMAIN states : ip \in forgotten \/ open[ip] = 0

-----------------------------------------------------------------------------
(* Entries *)

LEMMA MaxOfTwo ==
  ASSUME NEW m \in Int, NEW n \in Int
  PROVE  Max({m, n}) = IF m >= n THEN m ELSE n
<1> DEFINE v == IF m >= n THEN m ELSE n
<1>1. v \in {m, n} /\ \A y \in {m, n} : v >= y
  OBVIOUS
<1>2. \A x \in {m, n} : (\A y \in {m, n} : x >= y) => x = v
  OBVIOUS
<1> QED BY <1>1, <1>2 DEF Max

\* The entry an operation starts from counts as many connections as it should.
Counted(ip, s) == s.connections <= open[ip] /\ (ip \notin forgotten => s.connections = open[ip])

LEMMA Entries ==
  ASSUME LimitsInv, NEW ip \in Addresses
  PROVE  Sound(Entry(ip)) /\ Counted(ip, Entry(ip))
BY DEF Entry, LimitsInv, Sound, Counted, Fresh, Fields, ConnectionsCounted

LEMMA Pardons ==
  ASSUME NEW s, Sound(s)
  PROVE  Sound(Pardoned(s)) /\ Pardoned(s).connections = s.connections
<1> DEFINE e == [s EXCEPT !.banned_until = 0, !.violations = 0]
<1>1. /\ DOMAIN e = Fields /\ e.banned_until = 0 /\ e.violations = 0
      /\ e.connections = s.connections
  BY DEF Sound, Fields
<1>2. Pardoned(s) = e \/ Pardoned(s) = s
  BY DEF Pardoned
<1> HIDE DEF e
<1> QED BY <1>1, <1>2 DEF Sound

LEMMA Violations ==
  ASSUME Parameters, time \in Nat \ {0}, NEW s, Sound(s)
  PROVE  Sound(Violated(s)) /\ Violated(s).connections = s.connections
<1> DEFINE until == IF s.violations + 1 >= 3 THEN time + ban_duration ELSE s.banned_until
           n == s.violations + 1
           e == [s EXCEPT !.violations = n, !.banned_until = until]
<1>1. until \in Nat /\ n \in Nat /\ (until # 0 <=> n >= 3)
  BY DEF Sound, Parameters
<1>2. Violated(s) = e
  BY DEF Violated
<1> HIDE DEF until, n
<1>3. /\ DOMAIN e = Fields /\ e.banned_until = until /\ e.violations = n
      /\ e.connections = s.connections
  BY DEF Sound, Fields
<1> HIDE DEF e
<1> QED BY <1>1, <1>2, <1>3 DEF Sound

\* One entry is put into the table.
LEMMA Puts ==
  ASSUME LimitsInv, NEW ip \in Addresses, NEW s, Put(ip, s), Sound(s),
         UNCHANGED <<time, forgotten>>,
         open' \in [Addresses -> Nat], \A a \in Addresses \ {ip} : open'[a] = open[a],
         s.connections <= open'[ip], ip \notin forgotten => s.connections = open'[ip]
  PROVE  LimitsInv'
<1>1. /\ DOMAIN states' = DOMAIN states \cup {ip} /\ states'[ip] = s
      /\ \A a \in DOMAIN states \ {ip} : states'[a] = states[a]
  BY DEF Put
<1>2. ConnectionsCounted'
  <2> SUFFICES ASSUME NEW a \in DOMAIN states'
               PROVE  /\ states'[a].connections <= open'[a]
                      /\ a \notin forgotten => states'[a].connections = open'[a]
    BY DEF ConnectionsCounted
  <2>1. CASE a = ip
    BY <1>1, <2>1
  <2>2. CASE a # ip
    BY <1>1, <2>2 DEF LimitsInv, ConnectionsCounted
  <2> QED BY <2>1, <2>2
<1>3. \A a \in DOMAIN states' : Sound(states'[a])
  BY <1>1 DEF LimitsInv
<1>4. \A a \in Addresses \ DOMAIN states' : a \in forgotten \/ open'[a] = 0
  BY <1>1 DEF LimitsInv
<1> QED BY <1>1, <1>2, <1>3, <1>4 DEF LimitsInv

\* The entry changes and no connection is opened or closed.
LEMMA PutsCounted ==
  ASSUME LimitsInv, NEW ip \in Addresses, NEW s, Put(ip, s), Sound(s), Counted(ip, s),
         UNCHANGED <<time, forgotten, open>>
  PROVE  LimitsInv'
BY Puts DEF Counted, LimitsInv

-----------------------------------------------------------------------------
(* Operations *)

LEMMA Connections ==
  ASSUME Parameters, LimitsInv, NEW ip \in Addresses, check_connection_allowed(ip)
  PROVE  LimitsInv'
<1> DEFINE s == Pardoned(Entry(ip))
           n == s.connections + 1
<1>1. Sound(s) /\ Counted(ip, s)
  <2>1. Sound(Entry(ip)) /\ Counted(ip, Entry(ip))
    BY Entries
  <2> QED BY <2>1, Pardons DEF Counted
<1>2. UNCHANGED <<time, forgotten>>
  BY DEF check_connection_allowed
<1>3. \/ Put(ip, s) /\ UNCHANGED open
      \/ Put(ip, Violated(s)) /\ UNCHANGED open
      \/ /\ Put(ip, [s EXCEPT !.connections = n, !.last_activity = time])
         /\ open' = [open EXCEPT ![ip] = @ + 1]
  BY DEF check_connection_allowed
<1> HIDE DEF s
<1>4. CASE Put(ip, s) /\ UNCHANGED open
  BY <1>1, <1>2, <1>4, PutsCounted
<1>5. CASE Put(ip, Violated(s)) /\ UNCHANGED open
  <2>1. Sound(Violated(s)) /\ Violated(s).connections = s.connections
    BY <1>1, Violations DEF LimitsInv
  <2>2. Counted(ip, Violated(s))
    BY <1>1, <2>1 DEF Counted
  <2> QED BY <1>2, <1>5, <2>1, <2>2, PutsCounted
<1>6. CASE /\ Put(ip, [s EXCEPT !.connections = n, !.last_activity = time])
           /\ open' = [open EXCEPT ![ip] = @ + 1]
  <2> DEFINE e == [s EXCEPT !.connections = n, !.last_activity = time]
  <2>1. s.connections \in Nat /\ n \in Nat
    BY <1>1 DEF Sound
  <2> HIDE DEF n
  <2>2. Sound(e) /\ e.connections = n
    BY <1>1, <2>1 DEF Sound, Fields
  <2>3. open \in [Addresses -> Nat]
    BY DEF LimitsInv
  <2>4. /\ open' \in [Addresses -> Nat] /\ open'[ip] = open[ip] + 1
        /\ \A a \in Addresses \ {ip} : open'[a] = open[a]
    BY <1>6, <2>3
  <2>5. e.connections <= open'[ip] /\ (ip \notin forgotten => e.connections = open'[ip])
    BY <1>1, <2>1, <2>2, <2>3, <2>4 DEF Counted, n
  <2>6. Put(ip, e)
    BY <1>6
  <2> HIDE DEF e
  <2> QED BY <1>2, <2>2, <2>4, <2>5, <2>6, Puts
<1> QED BY <1>3, <1>4, <1>5, <1>6

LEMMA Requests ==
  ASSUME Parameters, LimitsInv, NEW ip \in Addresses, check_request_allowed(ip)
  PROVE  LimitsInv'
<1> DEFINE s == Entry(ip)
           w == Window(s)
           t == [s EXCEPT !.request_times = w]
           g == [s EXCEPT !.request_times = Append(w, time), !.last_activity = time]
<1>1. Sound(s) /\ Counted(ip, s)
  BY Entries
<1>2. UNCHANGED <<time, forgotten, open>>
  BY DEF check_request_allowed
<1>3. Put(ip, s) \/ Put(ip, Violated(t))
      \/ Put(ip, [t EXCEPT !.request_times = Append(@, time), !.last_activity = time])
  BY DEF check_request_allowed
<1> HIDE DEF s, w
<1>4. Sound(t) /\ t.connections = s.connections
  BY <1>1 DEF Sound, Fields
<1>5. Sound(Violated(t)) /\ Violated(t).connections = s.connections
  <2> HIDE DEF t
  <2> QED BY <1>4, Violations DEF LimitsInv
<1>6. ASSUME NEW v
      PROVE  LET e == [t EXCEPT !.request_times = v, !.last_activity = time] IN
             Sound(e) /\ e.connections = s.connections
  <2> HIDE DEF t
  <2> QED BY <1>4 DEF Sound, Fields
<1> HIDE DEF t
<1>7. CASE Put(ip, s)
  BY <1>1, <1>2, <1>7, PutsCounted
<1>8. CASE Put(ip, Violated(t))
  <2>1. Counted(ip, Violated(t))
    BY <1>1, <1>5 DEF Counted
  <2> QED BY <1>2, <1>5, <1>8, <2>1, PutsCounted
<1>9. CASE Put(ip, [t EXCEPT !.request_times = Append(@, time), !.last_activity = time])
  <2> DEFINE v == Append(t.request_times, time)
             e == [t EXCEPT !.request_times = v, !.last_activity = time]
  <2>1. Put(ip, e)
    BY <1>9
  <2> HIDE DEF v
  <2>2. Sound(e) /\ e.connections = s.connections
    BY <1>6
  <2> HIDE DEF e
  <2>3. Counted(ip, e)
    BY <1>1, <2>2 DEF Counted
  <2> QED BY <1>2, <2>1, <2>2, <2>3, PutsCounted
<1> QED BY <1>3, <1>7, <1>8, <1>9

LEMMA Bandwidth ==
  ASSUME Parameters, LimitsInv, NEW ip \in Addresses, NEW n \in Bytes, record_bandwidth(ip, n)
  PROVE  LimitsInv'
<1> DEFINE b == Entry(ip).bytes + n
           s == [Entry(ip) EXCEPT !.bytes = b, !.last_activity = time]
<1>1. Sound(Entry(ip)) /\ Counted(ip, Entry(ip))
  BY Entries
<1>2. UNCHANGED <<time, forgotten, open>>
  BY DEF record_bandwidth
<1>3. Put(ip, s) \/ Put(ip, Violated(s))
  BY DEF record_bandwidth
<1>4. Sound(s) /\ s.connections = Entry(ip).connections
  <2> HIDE DEF b
  <2> QED BY <1>1 DEF Sound, Fields
<1> HIDE DEF s
<1>5. Sound(Violated(s)) /\ Violated(s).connections = s.connections
  BY <1>4, Violations DEF LimitsInv
<1>6. Counted(ip, s) /\ Counted(ip, Violated(s))
  BY <1>1, <1>4, <1>5 DEF Counted
<1> QED BY <1>2, <1>3, <1>4, <1>5, <1>6, PutsCounted

LEMMA Closes ==
  ASSUME LimitsInv, NEW ip \in Addresses, remove_connection(ip)
  PROVE  LimitsInv'
<1>1. /\ open \in [Addresses -> Nat] /\ open[ip] > 0
      /\ open' = [open EXCEPT ![ip] = @ - 1] /\ UNCHANGED <<time, forgotten>>
  BY DEF remove_connection, LimitsInv
<1>2. /\ open' \in [Addresses -> Nat] /\ open'[ip] = open[ip] - 1
      /\ \A a \in Addresses \ {ip} : open'[a] = open[a]
  BY <1>1
<1>3. CASE ip \in DOMAIN states
  <2> DEFINE c == states[ip].connections
             n == Max({c - 1, 0})
             e == [states[ip] EXCEPT !.connections = n]
  <2>1. Sound(states[ip]) /\ c \in Nat /\ c <= open[ip] /\ (ip \notin forgotten => c = open[ip])
    BY <1>3 DEF LimitsInv, Sound, ConnectionsCounted
  <2>2. n = IF c - 1 >= 0 THEN c - 1 ELSE 0
    <3>1. c - 1 \in Int /\ 0 \in Int
      BY <2>1
    <3> HIDE DEF c
    <3> QED BY <3>1, MaxOfTwo
  <2>3. n \in Nat /\ n <= open'[ip] /\ (ip \notin forgotten => n = open'[ip])
    <3> HIDE DEF c, n
    <3> QED BY <1>1, <1>2, <2>1, <2>2
  <2>4. states' = [states EXCEPT ![ip].connections = n]
    BY <1>3 DEF remove_connection
  <2> HIDE DEF n
  <2>5. states' = [states EXCEPT ![ip] = e]
    BY <2>4
  <2>6. Sound(e) /\ e.connections = n
    <3>1. ASSUME NEW r, Sound(r)
          PROVE  Sound([r EXCEPT !.connections = n]) /\ [r EXCEPT !.connections = n].connections = n
      BY <2>3, <3>1 DEF Sound, Fields
    <3> QED BY <2>1, <3>1
  <2> HIDE DEF e
  <2>7. Put(ip, e)
    BY <1>3, <2>5 DEF Put
  <2> QED BY <1>1, <1>2, <2>3, <2>6, <2>7, Puts
<1>4. CASE ip \notin DOMAIN states
  <2>1. states' = states /\ ip \in forgotten
    BY <1>1, <1>4 DEF remove_connection, LimitsInv
  <2>2. ConnectionsCounted'
    BY <1>1, <1>2, <1>4, <2>1 DEF LimitsInv, ConnectionsCounted
  <2> QED BY <1>1, <1>2, <2>1, <2>2 DEF LimitsInv
<1> QED BY <1>3, <1>4

LEMMA Unbans ==
  ASSUME LimitsInv, NEW ip \in Addresses, unban_ip(ip)
  PROVE  LimitsInv'
<1> DEFINE e == [states[ip] EXCEPT !.banned_until = 0, !.violations = 0]
<1>1. ip \in DOMAIN states /\ UNCHANGED <<time, forgotten, open>> /\ Sound(states[ip])
  BY DEF unban_ip, LimitsInv
<1>2. states' = [states EXCEPT ![ip] = e]
  BY DEF unban_ip
<1>3. Sound(e) /\ e.connections = states[ip].connections
  <2>1. ASSUME NEW r, Sound(r)
        PROVE  LET d == [r EXCEPT !.banned_until = 0, !.violations = 0] IN
               Sound(d) /\ d.connections = r.connections
    BY <2>1 DEF Sound, Fields
  <2> QED BY <1>1, <2>1
<1> HIDE DEF e
<1>4. Put(ip, e)
  BY <1>1, <1>2 DEF Put
<1>5. Counted(ip, e)
  BY <1>1, <1>3 DEF Counted, LimitsInv, ConnectionsCounted
<1> QED BY <1>1, <1>3, <1>4, <1>5, PutsCounted

LEMMA Cleanups ==
  ASSUME LimitsInv, cleanup
  PROVE  LimitsInv'
<1>1. PICK gone : LET left == DOMAIN states \ (OldEntries \cup gone) IN
                  /\ states' = [ip \in left |-> IF Age(ip) > Second
                                                THEN [states[ip] EXCEPT !.bytes = 0]
                                                ELSE states[ip]]
                  /\ forgotten' = forgotten \cup (DOMAIN states \ left)
  BY DEF cleanup
<1>2. UNCHANGED <<time, open>>
  BY DEF cleanup
<1>3. /\ DOMAIN states' \subseteq DOMAIN states
      /\ forgotten' = forgotten \cup (DOMAIN states \ DOMAIN states')
      /\ \A ip \in DOMAIN states' :
           states'[ip] = states[ip] \/ states'[ip] = [states[ip] EXCEPT !.bytes = 0]
  BY <1>1
<1>4. ASSUME NEW ip \in DOMAIN states'
      PROVE  Sound(states'[ip]) /\ states'[ip].connections = states[ip].connections
  <2>1. ASSUME NEW r, Sound(r)
        PROVE  Sound([r EXCEPT !.bytes = 0]) /\ [r EXCEPT !.bytes = 0].connections = r.connections
    BY <2>1 DEF Sound, Fields
  <2>2. Sound(states[ip])
    BY <1>3 DEF LimitsInv
  <2> QED BY <1>3, <2>1, <2>2
<1>5. ConnectionsCounted'
  BY <1>2, <1>3, <1>4 DEF LimitsInv, ConnectionsCounted
<1>6. \A ip \in Addresses \ DOMAIN states' : ip \in forgotten' \/ open[ip] = 0
  BY <1>3 DEF LimitsInv
<1> QED BY <1>2, <1>3, <1>4, <1>5, <1>6 DEF LimitsInv

-----------------------------------------------------------------------------
(* Results *)

LEMMA NextLimits ==
  ASSUME Parameters, LimitsInv, [Next]_vars
  PROVE  LimitsInv'
<1>1. CASE \E ip \in Addresses :
             \/ check_connection_allowed(ip) \/ check_request_allowed(ip)
             \/ remove_connection(ip) \/ unban_ip(ip)
             \/ \E n \in Bytes : record_bandwidth(ip, n)
  BY <1>1, Connections, Requests, Closes, Unbans, Bandwidth
<1>2. CASE cleanup
  BY <1>2, Cleanups
<1>3. CASE Tick
  BY <1>3 DEF Tick, LimitsInv, ConnectionsCounted
<1>4. CASE UNCHANGED vars
  BY <1>4 DEF vars, LimitsInv, ConnectionsCounted
<1> QED BY <1>1, <1>2, <1>3, <1>4 DEF Next

\* The inductive invariant of the table.
THEOREM LimitsInvariance == ASSUME Parameters PROVE Spec => []LimitsInv
<1>1. Init => LimitsInv
  BY DEF Init, LimitsInv, ConnectionsCounted
<1>2. LimitsInv /\ [Next]_vars => LimitsInv'
  BY NextLimits
<1> QED BY <1>1, <1>2, PTL DEF Spec

\* check_connection_allowed never refuses an address for connections it has closed, and
\* counts exactly the open ones until the cleanup drops the entry.
THEOREM ConnectionsExact == ASSUME Parameters PROVE Spec => []ConnectionsCounted
<1>1. LimitsInv => ConnectionsCounted
  BY DEF LimitsInv
<1> QED BY <1>1, LimitsInvariance, PTL

\* An entry carries a ban exactly when it has three violations: every path through
\* handle_violation, pardon and unban_ip sets and resets the two together.
THEOREM BanIsThree == ASSUME Parameters PROVE Spec => []ThreeViolationsBan
<1>1. LimitsInv => ThreeViolationsBan
  BY DEF LimitsInv, Sound, ThreeViolationsBan
<1> QED BY <1>1, LimitsInvariance, PTL
=============================================================================
