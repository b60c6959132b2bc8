------------------------------ MODULE Supervision ------------------------------
(***************************************************************************)
(* The can_rx task of app.c supervising the other nodes of the bus: the     *)
(* peers run, send a HEARTBEAT every HeartbeatMs, are reset; frames are     *)
(* lost; the loop of can_rx feeds the monitor and polls it, at the latest   *)
(* every PollMax.  Time is counted in ticks of the millisecond counter,     *)
(* which wraps, and so do the uptimes the peers report.                     *)
(***************************************************************************)
EXTENDS NodeMonitor

CONSTANTS
    Nodes,          \* nodes that send heartbeats, invalid identifiers included
    Restarting,     \* those of them that may be reset
    HeartbeatMs,    \* HEARTBEAT_PERIOD_MS
    PollMax,        \* longest time between two rounds of the can_rx loop
    ViewPeers       \* RJS_VIEW_PEERS

ASSUME SupervisionAssumption ==
    /\ Nodes \subseteq Nat /\ Restarting \subseteq Nodes
    /\ HeartbeatMs \in Nat \ {0}
    /\ PollMax \in Nat \ {0} /\ ViewPeers \in Nat
    /\ Timeout + PollMax < Modulus

VARIABLES
    peers,        \* s_monitor.peers[0 .. count-1]
    alivePeers,   \* s_alive_peers
    view,         \* s_peer_view[0 .. s_peer_view_count-1], for the display
    now,          \* board_millis()
    rx,           \* heartbeats in s_rx_queue
    sinceLoop,    \* time since the last round of the loop
    events,       \* what the rounds of this tick last reported (on_monitor_event)
    uptime,       \* millisecond counter of each node
    silence,      \* history: time since a node's last accepted heartbeat
    restarts      \* history: what took its uptime back to 0 since then

vars == <<peers, alivePeers, view, now, rx, sinceLoop, events, uptime, silence, restarts>>

\* Silences beyond the bound on detection need not be told apart.
Long == Timeout + PollMax + 1
Older(s) == IF s < Long THEN s + 1 ELSE Long

--------------------------------------------------------------------------------
Init ==
    /\ peers = <<>> /\ alivePeers = 0 /\ view = <<>>
    /\ now = 0 /\ rx = {} /\ sinceLoop = 0 /\ events = {}
    /\ uptime = [n \in Nodes |-> 0]
    /\ silence = [n \in Nodes |-> Long]
    /\ restarts = [n \in Nodes |-> {}]

\* A millisecond passes.  Of the heartbeats due then, any may be lost: a cable
\* unplugged, a node off, a bus-off.  The loop serves a frame at once (only the
\* control task has a higher priority), so time stands still while one is queued.
Tick ==
    /\ rx = {} /\ sinceLoop < PollMax
    /\ now' = Later(now)
    /\ sinceLoop' = sinceLoop + 1
    /\ uptime' = [n \in Nodes |-> Later(uptime[n])]
    /\ \E got \in SUBSET {n \in Nodes : uptime'[n] % HeartbeatMs = 0} :
           rx' = {[node |-> n, uptime |-> uptime'[n]] : n \in got}
    /\ silence' = [n \in Nodes |-> Older(silence[n])]
    /\ restarts' = [n \in Nodes |-> IF uptime'[n] = 0 THEN restarts[n] \union {"wrap"}
                                    ELSE restarts[n]]
    /\ events' = {}
    /\ UNCHANGED <<peers, alivePeers, view>>

\* A node is reset, or comes back after having been off.  A frame it has just
\* sent is handled first: that takes less time than its restart.
Reset(n) ==
    /\ uptime[n] # 0
    /\ \A f \in rx : f.node # n
    /\ uptime' = [uptime EXCEPT ![n] = 0]
    /\ restarts' = [restarts EXCEPT ![n] = @ \union {"reset"}]
    /\ UNCHANGED <<peers, alivePeers, view, now, rx, sinceLoop, events, silence>>

\* What app_get_view hands to the display: the first peers of the table, by node and
\* status, LOST ones included.
View(t) ==
    [i \in {j \in DOMAIN t : j <= ViewPeers} |-> [node |-> t[i].node, status |-> t[i].status]]

\* The end of every round of the can_rx loop, with table t: poll, count, publish.
Poll(t) ==
    /\ peers' = Polled(t, now)
    /\ alivePeers' = AliveCount(Polled(t, now))
    /\ view' = View(Polled(t, now))
    /\ sinceLoop' = 0
    /\ UNCHANGED <<now, uptime>>

\* A round of the loop that handles a heartbeat.
Receive(f) ==
    /\ rx' = rx \ {f}
    /\ LET heard == Heard(peers, f.node, f.uptime, now)
       IN  /\ Poll(heard)
           /\ events' = HeardEvents(peers, f.node, f.uptime) \union LostEvents(heard, now)
    /\ IF Accepted(peers, f.node)
       THEN /\ silence' = [silence EXCEPT ![f.node] = 0]
            /\ restarts' = [restarts EXCEPT ![f.node] = {}]
       ELSE UNCHANGED <<silence, restarts>>

\* A round that found the queue empty for 10 ms.
Idle ==
    /\ rx = {} /\ sinceLoop > 0
    /\ Poll(peers)
    /\ events' = LostEvents(peers, now)
    /\ UNCHANGED <<rx, silence, restarts>>

Next ==
    \/ Tick
    \/ Idle
    \/ \E n \in Restarting : Reset(n)
    \/ \E f \in rx : Receive(f)

Spec == Init /\ [][Next]_vars

--------------------------------------------------------------------------------
(* Properties *)

PeerRecord == [node : Nodes, status : {"ALIVE", "LOST"}, lastSeen : Millis, uptime : Millis]

\* Types; the table never outgrows its array.
TypeOK ==
    /\ peers \in Seq(PeerRecord) /\ Len(peers) <= MaxNodes
    /\ alivePeers \in 0..Len(peers)
    /\ view \in Seq([node : Nodes, status : {"ALIVE", "LOST"}])
    /\ now \in Millis
    /\ rx \subseteq [node : Nodes, uptime : Millis]
    /\ sinceLoop \in 0..PollMax
    /\ events \subseteq {"JOINED", "LOST", "REBOOTED"} \X Nodes
    /\ uptime \in [Nodes -> Millis]
    /\ silence \in [Nodes -> 0..Long]
    /\ restarts \in [Nodes -> SUBSET {"reset", "wrap"}]

\* A node has one slot of the table, and only a node with a valid identifier has
\* one (find_mut finds it again, LOST or not).
OneSlot(t) ==
    /\ \A i, j \in DOMAIN t : t[i].node = t[j].node => i = j
    /\ \A i \in DOMAIN t : Valid(t[i].node)
OneSlotPerNode == OneSlot(peers)

\* The age of a living peer by the counter arithmetic of the monitor is the true silence,
\* and exceeds the timeout by no more than the time since the last round.
AgeExact ==
    \A i \in DOMAIN peers : peers[i].status = "ALIVE" =>
        /\ Minus(now, peers[i].lastSeen) = silence[peers[i].node]
        /\ silence[peers[i].node] <= Timeout + sinceLoop

\* The counter arithmetic of the monitor is right across any number of wraps, and so, by
\* way of the table and of its published copy, is the display: no node that it shows
\* alive has been silent for longer than Timeout + PollMax.
AgeIsTrue ==
    /\ AgeExact
    /\ \A i \in DOMAIN view :
           view[i].status = "ALIVE" => silence[view[i].node] <= Timeout + PollMax

\* The published copy is that of the last round.
ViewIsCurrent == view = View(peers)

\* These are inductive together (see SupervisionProofs), and imply AgeIsTrue ...
IInv == TypeOK /\ OneSlotPerNode /\ AgeExact /\ ViewIsCurrent

\* ... and so is this with them.  The uptimes tell the time passed: as long as
\* nothing took the uptime of a living peer back to 0, it has grown by the
\* silence of the peer; and after a reset it is at most that silence.
UptimesTell ==
    /\ \A f \in rx : f.uptime = uptime[f.node]
    /\ \A i \in DOMAIN peers :
           LET n == peers[i].node
           IN  peers[i].status = "ALIVE" =>
                   /\ restarts[n] = {} => uptime[n] = peers[i].uptime + silence[n]
                   /\ restarts[n] = {"reset"} => uptime[n] <= silence[n]

\* Supervision is the failure detector with PollMax as its slack: no node is
\* given up before Timeout has passed and every watched node is by the end of
\* Timeout + PollMax.
Detector == INSTANCE FailureDetector WITH
                Slack <- PollMax,
                status <- [n \in Nodes |-> StatusIn(peers, n)]
ImplementsDetector == Detector!Spec

\* A reset of a node that had been up for longer than the detection bound never
\* goes unnoticed: its next heartbeat is reported as a reboot or as joining.
ResetNoticed ==
    [][\A f \in rx :
          /\ Receive(f)
          /\ Accepted(peers, f.node)
          /\ restarts[f.node] = {"reset"}
          /\ Known(peers, f.node)
          /\ peers[Slot(peers, f.node)].uptime > Timeout + PollMax
          => {<<"JOINED", f.node>>, <<"REBOOTED", f.node>>} \intersect events' # {}]_vars

\* A node reported as rebooted did start its uptime again since its last heartbeat: it
\* was reset, or its counter wrapped.  Nothing else, no lost or late heartbeat and no
\* wrap of the monitor's own counter, is taken for a reboot.
RebootHasCause ==
    [][\A n \in Nodes : <<"REBOOTED", n>> \in events' \ events => restarts[n] # {}]_vars

\* docs/protocol.md says of uptime_ms "a decrease means the node rebooted", node_monitor.h
\* of RJS_EVENT_NODE_REBOOTED "uptime went backwards: node reset in between", and README.md
\* promises "reboot detection, timer wrap-around safe": a node reported as rebooted was
\* reset.  The code compares the uptimes with <, and a wrap is a decrease too.
RebootMeansReset ==
    [][\A n \in Nodes : <<"REBOOTED", n>> \in events' \ events => "reset" \in restarts[n]]_vars
================================================================================
