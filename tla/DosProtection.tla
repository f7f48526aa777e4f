--------------------------- MODULE DosProtection ---------------------------
(***************************************************************************)
(* The per-address limits on connections, requests and bandwidth           *)
(* (src/src/security/dos_protection.rs).  Every operation and every pass   *)
(* of the cleanup task holds the lock of the table throughout and is one   *)
(* step.  The counters of get_stats are left out: no decision reads them.  *)
(***************************************************************************)
EXTENDS Integers, FiniteSetsExt, SequencesExt

CONSTANTS Addresses,
          max_connections_per_ip, max_requests_per_second,
          max_bandwidth_per_second, max_tracked_ips,
          Bytes,             \* traffic that is recorded at once
          Second, ban_duration, cleanup_interval,   \* in ticks of the clock
          MaxCalls, MaxTime  \* bounds

VARIABLES states,        \* address -> PeerState
          time, next_cleanup, calls,
          open,          \* ghost: connections granted and not closed
          granted,       \* ghost: when the requests of the last second were granted
          forgotten      \* ghost: addresses whose entry the cleanup dropped

vars == <<states, time, next_cleanup, calls, open, granted, forgotten>>

Call == calls < MaxCalls /\ calls' = calls + 1

Fresh ==
  [connections |-> 0, request_times |-> <<>>, bytes |-> 0, last_activity |-> time,
   banned_until |-> 0, violations |-> 0]

\* states.entry(ip).or_insert_with(..); banned_until = 0 is None.
Entry(ip) == IF ip \in DOMAIN states THEN states[ip] ELSE Fresh

Put(ip, s) ==
  states' = [a \in DOMAIN states \cup {ip} |-> IF a = ip THEN s ELSE states[a]]

Barred(s) == s.banned_until # 0 /\ time < s.banned_until

\* handle_violation
Violated(s) ==
  [s EXCEPT !.violations = @ + 1,
            !.banned_until = IF s.violations + 1 >= 3 THEN time + ban_duration ELSE @]

\* A ban that is over is reset on the way to a connection.
Pardoned(s) ==
  IF s.banned_until # 0 /\ ~Barred(s) THEN [s EXCEPT !.banned_until = 0, !.violations = 0]
                                      ELSE s

\* Mutant: the connection is counted before it is refused.
check_connection_counting(ip) ==
  /\ Call
  /\ LET s == Pardoned(Entry(ip))
         full == s.connections >= max_connections_per_ip
         t == [s EXCEPT !.connections = @ + 1, !.last_activity = time] IN
     IF Barred(s) THEN Put(ip, s) /\ UNCHANGED open
     ELSE IF full THEN Put(ip, Violated(t)) /\ UNCHANGED open
     ELSE Put(ip, t) /\ open' = [open EXCEPT ![ip] = @ + 1]
  /\ UNCHANGED <<time, next_cleanup, granted, forgotten>>

check_connection_allowed(ip) ==
  /\ Call
  /\ LET s == Pardoned(Entry(ip))
         full == s.connections >= max_connections_per_ip IN
     IF Barred(s) THEN Put(ip, s) /\ UNCHANGED open
     ELSE IF full THEN Put(ip, Violated(s)) /\ UNCHANGED open
     ELSE /\ Put(ip, [s EXCEPT !.connections = @ + 1, !.last_activity = time])
          /\ open' = [open EXCEPT ![ip] = @ + 1]
  /\ UNCHANGED <<time, next_cleanup, granted, forgotten>>

Recent(times) == SelectSeq(times, LAMBDA t : time - t < Second)

\* The requests that count against the limit.
Window(s) == Recent(s.request_times)

check_request_allowed(ip) ==
  /\ Call
  /\ LET s == Entry(ip)
         t == [s EXCEPT !.request_times = Window(s)] IN
     IF Barred(s) THEN Put(ip, s) /\ UNCHANGED granted
     ELSE IF Len(t.request_times) >= max_requests_per_second
     THEN Put(ip, Violated(t)) /\ UNCHANGED granted
     ELSE /\ Put(ip, [t EXCEPT !.request_times = Append(@, time), !.last_activity = time])
          /\ granted' = [granted EXCEPT ![ip] = Append(Recent(@), time)]
  /\ UNCHANGED <<time, next_cleanup, open, forgotten>>

record_bandwidth(ip, bytes) ==
  /\ Call
  /\ LET s == [Entry(ip) EXCEPT !.bytes = @ + bytes, !.last_activity = time] IN
     Put(ip, IF s.bytes > max_bandwidth_per_second THEN Violated(s) ELSE s)
  /\ UNCHANGED <<time, next_cleanup, open, granted, forgotten>>

\* A connection that was granted is closed.
remove_connection(ip) ==
  /\ open[ip] > 0
  /\ open' = [open EXCEPT ![ip] = @ - 1]
  /\ states' = IF ip \in DOMAIN states
               THEN [states EXCEPT ![ip].connections = Max({@ - 1, 0})] ELSE states
  /\ UNCHANGED <<time, next_cleanup, calls, granted, forgotten>>

unban_ip(ip) ==
  /\ ip \in DOMAIN states /\ states[ip].violations > 0
  /\ states' = [states EXCEPT ![ip].banned_until = 0, ![ip].violations = 0]
  /\ UNCHANGED <<time, next_cleanup, calls, open, granted, forgotten>>

Age(ip) == time - states[ip].last_activity
OldEntries == {ip \in DOMAIN states : Age(ip) > 2 * cleanup_interval}

\* The sets of longest inactive addresses to drop so that max_tracked_ips remain.
Surplus(left) ==
  LET n == Max({Cardinality(left) - max_tracked_ips, 0}) IN
  {gone \in kSubset(n, left) : \A a \in gone, b \in left \ gone : Age(a) >= Age(b)}

\* One pass of the cleanup task.
cleanup ==
  /\ time >= next_cleanup
  /\ next_cleanup' = next_cleanup + cleanup_interval
  /\ \E gone \in Surplus(DOMAIN states \ OldEntries) :
       LET left == DOMAIN states \ (OldEntries \cup gone) IN
       /\ states' = [ip \in left |-> IF Age(ip) > Second
                                     THEN [states[ip] EXCEPT !.bytes = 0] ELSE states[ip]]
       /\ forgotten' = forgotten \cup (DOMAIN states \ left)
  /\ UNCHANGED <<time, calls, open, granted>>

Tick ==
  /\ time < MaxTime /\ time' = time + 1
  /\ UNCHANGED <<states, next_cleanup, calls, open, granted, forgotten>>

\* The clock starts at 1 so that 0 is no time of a ban.
Init ==
  /\ states = <<>> /\ time = 1 /\ next_cleanup = 1 /\ calls = 0
  /\ open = [ip \in Addresses |-> 0] /\ granted = [ip \in Addresses |-> <<>>]
  /\ forgotten = {}

Next ==
  \/ \E ip \in Addresses :
       \/ check_connection_allowed(ip) \/ check_request_allowed(ip)
       \/ remove_connection(ip) \/ unban_ip(ip)
       \/ \E n \in Bytes : record_bandwidth(ip, n)
  \/ cleanup \/ Tick

Spec == Init /\ [][Next]_vars

-----------------------------------------------------------------------------
(* Properties *)

\* Types.
TypeOK ==
  /\ DOMAIN states \subseteq Addresses /\ forgotten \subseteq Addresses
  /\ \A ip \in DOMAIN states :
       /\ states[ip].connections \in Nat
       /\ Len(states[ip].request_times) <= max_requests_per_second
       /\ states[ip].last_activity \in 1..time

\* The connection counter never exceeds the connections that are open, so no address
\* is refused for connections it has closed; and it is exact for as long as the
\* cleanup has not dropped the entry of the address.
ConnectionsCounted ==
  \A ip \in DOMAIN states :
    /\ states[ip].connections <= open[ip]
    /\ ip \notin forgotten => states[ip].connections = open[ip]

\* In no window of a second are more requests granted than the limit says, whatever
\* bans, pardons and cleanups happen meanwhile; entries dropped to make room for
\* others excepted.
RequestsLimited ==
  \A ip \in Addresses \ forgotten :
    Len(Recent(granted[ip])) <= max_requests_per_second

\* An entry carries a ban exactly when it has three violations or more: the two are
\* set and reset together on every path.
ThreeViolationsBan ==
  \A ip \in DOMAIN states : states[ip].banned_until # 0 <=> states[ip].violations >= 3
=============================================================================
