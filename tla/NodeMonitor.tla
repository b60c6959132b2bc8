------------------------------ MODULE NodeMonitor ------------------------------
(***************************************************************************)
(* common/node: the table of peers of a node.  A table is a sequence of     *)
(* records in the order in which the peers were first heard; the functions  *)
(* of node_monitor.c are operators from a table to the new table, and to    *)
(* the events they report.  Firmware version, error flags and heartbeat     *)
(* counter of a peer are left out: nothing here depends on them.            *)
(***************************************************************************)
EXTENDS Integers, Sequences, FiniteSets

CONSTANTS
    NodeIdMax,    \* RJS_NODE_ID_MAX
    MaxNodes,     \* RJS_MONITOR_MAX_NODES
    Timeout,      \* timeout_ms
    Modulus       \* millisecond counters wrap at this value (2^32)

ASSUME MonitorAssumption ==
    /\ NodeIdMax \in Nat
    /\ MaxNodes \in Nat
    /\ Timeout \in Nat
    /\ Modulus \in Nat \ {0}

Broadcast == 0                          \* RJS_NODE_BROADCAST
Millis == 0..(Modulus - 1)              \* values of a millisecond counter

\* Arithmetic of an unsigned counter: the next value, and a - b.  The mutant
\* subtracts as if the counter never wrapped.
Later(t) == IF t + 1 = Modulus THEN 0 ELSE t + 1
SignedMinus(a, b) == a - b
Minus(a, b) == IF b <= a THEN a - b ELSE a - b + Modulus

Valid(n) == n # Broadcast /\ n <= NodeIdMax

\* Peers known by the table, and the first slot of one, as find_mut returns it.
Known(t, n) == \E i \in DOMAIN t : t[i].node = n
Slot(t, n) == CHOOSE i \in DOMAIN t :
                  t[i].node = n /\ \A j \in DOMAIN t : j < i => t[j].node # n

\* What rjs_monitor_find tells of a node.
StatusIn(t, n) == IF Known(t, n) THEN t[Slot(t, n)].status ELSE "UNKNOWN"

\* The return value of rjs_monitor_on_heartbeat; the mutant forgets the room left.
AcceptedAlways(t, n) == Valid(n)
Accepted(t, n) == Valid(n) /\ (Known(t, n) \/ Len(t) < MaxNodes)

Peer(n, up, now) == [node |-> n, status |-> "ALIVE", lastSeen |-> now, uptime |-> up]

\* Table after rjs_monitor_on_heartbeat.  Mutants: a heartbeat of a known peer
\* that does not refresh lastSeen, and a table searched for living peers only.
HeardStale(t, n, up, now) ==
    IF ~Accepted(t, n) THEN t
    ELSE IF Known(t, n) THEN [t EXCEPT ![Slot(t, n)].status = "ALIVE"]
    ELSE Append(t, Peer(n, up, now))
HeardTwice(t, n, up, now) ==
    IF ~Accepted(t, n) THEN t
    ELSE IF Known(t, n) /\ t[Slot(t, n)].status = "ALIVE"
    THEN [t EXCEPT ![Slot(t, n)] = Peer(n, up, now)]
    ELSE Append(t, Peer(n, up, now))
Heard(t, n, up, now) ==
    IF ~Accepted(t, n) THEN t
    ELSE IF Known(t, n) THEN [t EXCEPT ![Slot(t, n)] = Peer(n, up, now)]
    ELSE Append(t, Peer(n, up, now))

\* Events of rjs_monitor_on_heartbeat.  Mutants: the comparison the wrong way
\* round, and with the monitor's clock instead of the last uptime.
Alive(t, n) == StatusIn(t, n) = "ALIVE"
WentForward(t, n, up) == Alive(t, n) /\ up > t[Slot(t, n)].uptime
WentBehindClock(t, n, up) == Alive(t, n) /\ up < t[Slot(t, n)].lastSeen
WentBack(t, n, up) == Alive(t, n) /\ up < t[Slot(t, n)].uptime
HeardEvents(t, n, up) ==
    IF ~Accepted(t, n) THEN {}
    ELSE IF ~Alive(t, n) THEN {<<"JOINED", n>>}
    ELSE IF WentBack(t, n, up) THEN {<<"REBOOTED", n>>} ELSE {}

\* Peers that rjs_monitor_poll gives up; the table and the events after it.
ExpiredEarly(p, now) == p.status = "ALIVE" /\ Minus(now, p.lastSeen) >= Timeout
Expired(p, now) == p.status = "ALIVE" /\ Minus(now, p.lastSeen) > Timeout
Polled(t, now) ==
    [i \in DOMAIN t |-> IF Expired(t[i], now) THEN [t[i] EXCEPT !.status = "LOST"] ELSE t[i]]
LostEvents(t, now) == {<<"LOST", t[i].node>> : i \in {j \in DOMAIN t : Expired(t[j], now)}}

\* rjs_monitor_alive_count
AliveCount(t) == Cardinality({i \in DOMAIN t : t[i].status = "ALIVE"})
================================================================================
