------------------------------- MODULE JointNode -------------------------------
(***************************************************************************)
(* app/joint_node: the tasks of one node, the queue, mutex and snapshot     *)
(* they share, and the receive interrupt.  The scheduler runs the ready     *)
(* task of the highest priority and preempts at once:                       *)
(*                                                                         *)
(*     control (5)  >  can_rx (4)  >  comms (3)                             *)
(*                                                                         *)
(* so a round of control, and of can_rx as seen by comms, is one action;    *)
(* comms is preempted between any two of its accesses to shared data.       *)
(* The joint is reduced to JointTimer, with the control period as its unit;  *)
(* node supervision, which can_rx keeps to itself, is in Supervision.        *)
(***************************************************************************)
EXTENDS Integers, Sequences, JointTimer

CONSTANTS
    CmdQueueDepth,     \* CMD_QUEUE_DEPTH
    RxQueueDepth,      \* RX_QUEUE_DEPTH
    TxFifoSize,        \* frames the controller holds for transmission
    JointStatePeriod,  \* JOINT_STATE_PERIOD_MS, in control periods
    CommsPeriod,       \* HEARTBEAT_PERIOD_MS, in control periods
    Controller,        \* is this the node that commands the others?
    Burst,             \* most COMMANDs the bus brings in a control period
    CounterCap         \* counters are told apart up to this value

ASSUME NodeAssumption ==
    /\ CmdQueueDepth \in Nat \ {0} /\ RxQueueDepth \in Nat \ {0} /\ TxFifoSize \in Nat \ {0}
    /\ CommandTimeout \in Nat \ {0}
    /\ JointStatePeriod \in Nat \ {0} /\ CommsPeriod \in Nat \ {0}
    /\ Controller \in BOOLEAN
    /\ Burst \in Nat /\ CounterCap \in Nat \ {0}

Modes == {"DISABLED", "POSITION"}

VARIABLES
    control,    \* "asleep", "due", or "waiting" for s_tx_mutex
    phase,      \* control periods passed, for the periods of JOINT_STATE and comms
    joint,      \* the model owned by control: its mode, PEER_LOST and timer
    snapshot,   \* s_joint_snapshot.mode and PEER_LOST of s_joint_flags
    cmdQueue,   \* s_cmd_queue
    rxQueue,    \* COMMANDs for this node in s_rx_queue
    arrived,    \* COMMANDs the bus brought in this control period
    commsDue,   \* has the delay of comms expired?
    comms,      \* comms: where it is, and its local variables while they are used
    mutex,      \* does comms hold s_tx_mutex?
    fifo,       \* frames in the transmit FIFO
    stats,      \* s_stats.tx_frames and tx_busy
    sweep,      \* s_sweep_enabled
    calls       \* history: results of rjs_can_send

vars == <<control, phase, joint, snapshot, cmdQueue, rxQueue, arrived, commsDue,
          comms, mutex, fifo, stats, sweep, calls>>

Results == {"OK", "BUSY"}

\* xQueueSend without waiting: a full queue loses what is new.
Offered(q, depth, x) == IF Len(q) < depth THEN Append(q, x) ELSE q

Bump(c) == IF c < CounterCap THEN c + 1 ELSE c

\* Comms at rest; it remembers whether the button was down.
Asleep(down) == [at |-> "asleep", frame |-> "HEARTBEAT", mode |-> "DISABLED", lost |-> FALSE,
                 result |-> "OK", loaded |-> 0, down |-> down]

Init ==
    /\ control = "asleep" /\ phase = 0
    /\ joint = [mode |-> "DISABLED", lost |-> FALSE, since |-> 0]
    /\ snapshot = [mode |-> "DISABLED", lost |-> FALSE]
    /\ cmdQueue = <<>> /\ rxQueue = <<>> /\ arrived = 0
    /\ commsDue = FALSE
    /\ comms = Asleep(FALSE)
    /\ mutex = FALSE /\ fifo = 0
    /\ stats = [r \in Results |-> 0]
    /\ sweep = TRUE
    /\ calls = [r \in Results |-> 0]

--------------------------------------------------------------------------------
(* The scheduler *)

\* Control is ready when its delay has expired or the mutex it waits for is free.
ControlReady == control = "due" \/ (control = "waiting" /\ ~mutex)

\* While control waits for the mutex, its holder runs at the priority of control: what
\* the kernel does for the mutexes of xSemaphoreCreateMutex, which app_start makes.
Inherits == control = "waiting" /\ mutex

RxRuns == rxQueue # <<>> /\ ~ControlReady /\ ~Inherits
CommsRuns == ~ControlReady /\ (Inherits \/ rxQueue = <<>>)

\* The tick interrupt: delays expire.  Control always finishes within its period
\* (it waits for one transmission of comms at most), comms need not.
Tick ==
    /\ control = "asleep"
    /\ control' = "due"
    /\ phase' = (phase + 1) % (JointStatePeriod * CommsPeriod)
    /\ commsDue' = (commsDue \/ phase' % CommsPeriod = 0)
    /\ arrived' = 0
    /\ UNCHANGED <<joint, snapshot, cmdQueue, rxQueue, comms, mutex, fifo, stats, sweep,
                   calls>>

\* can_rx_isr: a COMMAND for this node arrives.
Arrive(m) ==
    /\ arrived < Burst
    /\ arrived' = arrived + 1
    /\ rxQueue' = Offered(rxQueue, RxQueueDepth, m)
    /\ UNCHANGED <<control, phase, joint, snapshot, cmdQueue, commsDue, comms, mutex, fifo,
                   stats, sweep, calls>>

\* The CAN controller gets a frame onto the bus.
Transmitted ==
    /\ fifo > 0
    /\ fifo' = fifo - 1
    /\ UNCHANGED <<control, phase, joint, snapshot, cmdQueue, rxQueue, arrived, commsDue,
                   comms, mutex, stats, sweep, calls>>

--------------------------------------------------------------------------------
(* control_task *)

\* The queue is drained, every command applied in its order, then the joint steps.
\* The mutant steps the joint only when there is a command.
CycleOnCommand(j) ==
    IF cmdQueue = <<>> THEN j ELSE Stepped(Commanded(cmdQueue[Len(cmdQueue)]), 1)
Cycle(j) == Stepped(IF cmdQueue = <<>> THEN j ELSE Commanded(cmdQueue[Len(cmdQueue)]), 1)

\* What control publishes.  Mutants: the mode of before the step; no flags.
PublishMixed(old, new) == [mode |-> old.mode, lost |-> new.lost]
PublishMode(old, new) == [mode |-> new.mode, lost |-> FALSE]
Publish(old, new) == [mode |-> new.mode, lost |-> new.lost]

\* rjs_can_send by control, with its counter: nothing can come between.
ControlSends ==
    LET r == IF fifo < TxFifoSize THEN "OK" ELSE "BUSY"
    IN  /\ fifo' = IF r = "OK" THEN fifo + 1 ELSE fifo
        /\ calls' = [calls EXCEPT ![r] = Bump(@)]
        /\ stats' = [stats EXCEPT ![r] = Bump(@)]

\* A round of control_task up to its transmission, which is due every
\* JointStatePeriod and has to wait while comms holds the mutex.
SendDue == phase % JointStatePeriod = 0
BlocksNever == FALSE
Blocks == SendDue /\ mutex

ControlRound ==
    /\ control = "due"
    /\ cmdQueue' = <<>>
    /\ joint' = Cycle(joint)
    /\ snapshot' = Publish(joint, Cycle(joint))
    /\ control' = IF Blocks THEN "waiting" ELSE "asleep"
    /\ IF SendDue /\ ~Blocks THEN ControlSends ELSE UNCHANGED <<fifo, calls, stats>>
    /\ UNCHANGED <<phase, rxQueue, arrived, commsDue, comms, mutex, sweep>>

ControlResumes ==
    /\ control = "waiting" /\ ~mutex
    /\ control' = "asleep"
    /\ ControlSends
    /\ UNCHANGED <<phase, joint, snapshot, cmdQueue, rxQueue, arrived, commsDue, comms, mutex,
                   sweep>>

--------------------------------------------------------------------------------
(* can_rx_task *)

\* handle_frame, case RJS_MSG_COMMAND.
RxRound ==
    /\ RxRuns
    /\ rxQueue' = Tail(rxQueue)
    /\ cmdQueue' = Offered(cmdQueue, CmdQueueDepth, Head(rxQueue))
    /\ UNCHANGED <<control, phase, joint, snapshot, arrived, commsDue, comms, mutex, fifo,
                   stats, sweep, calls>>

--------------------------------------------------------------------------------
(* comms_task *)

CommsAt(from, to) == CommsRuns /\ comms.at = from /\ comms' = [comms EXCEPT !.at = to]

CommsWakes ==
    /\ commsDue /\ commsDue' = FALSE
    /\ CommsAt("asleep", "state")
    /\ UNCHANGED <<control, phase, joint, snapshot, cmdQueue, rxQueue, arrived, mutex, fifo,
                   stats, sweep, calls>>

\* The first critical section: js = s_joint_snapshot.
ReadState ==
    /\ CommsRuns /\ comms.at = "state"
    /\ comms' = [comms EXCEPT !.at = "flags", !.mode = snapshot.mode]
    /\ UNCHANGED <<control, phase, joint, snapshot, cmdQueue, rxQueue, arrived, commsDue,
                   mutex, fifo, stats, sweep, calls>>

\* heartbeat_flags, with the second critical section (tx_busy is read there too).
ReadFlags ==
    /\ CommsRuns /\ comms.at = "flags"
    /\ comms' = [comms EXCEPT !.at = "take", !.lost = snapshot.lost]
    /\ UNCHANGED <<control, phase, joint, snapshot, cmdQueue, rxQueue, arrived, commsDue,
                   mutex, fifo, stats, sweep, calls>>

\* can_send: the mutex, the driver, the mutex, and then the counter is read and
\* written outside of it.
TakeMutex ==
    /\ CommsRuns /\ comms.at = "take"
    /\ comms' = [Asleep(comms.down) EXCEPT !.at = "send", !.frame = comms.frame]
    /\ mutex' = TRUE
    /\ UNCHANGED <<control, phase, joint, snapshot, cmdQueue, rxQueue, arrived, commsDue,
                   fifo, stats, sweep, calls>>

CommsSends ==
    /\ CommsRuns /\ comms.at = "send"
    /\ LET r == IF fifo < TxFifoSize THEN "OK" ELSE "BUSY"
       IN  /\ comms' = [comms EXCEPT !.at = "give", !.result = r]
           /\ fifo' = IF r = "OK" THEN fifo + 1 ELSE fifo
           /\ calls' = [calls EXCEPT ![r] = Bump(@)]
    /\ UNCHANGED <<control, phase, joint, snapshot, cmdQueue, rxQueue, arrived, commsDue,
                   mutex, stats, sweep>>

GiveMutex ==
    /\ CommsAt("give", "load")
    /\ mutex' = FALSE
    /\ UNCHANGED <<control, phase, joint, snapshot, cmdQueue, rxQueue, arrived, commsDue,
                   fifo, stats, sweep, calls>>

LoadCounter ==
    /\ CommsRuns /\ comms.at = "load"
    /\ comms' = [comms EXCEPT !.at = "store", !.loaded = stats[comms.result]]
    /\ UNCHANGED <<control, phase, joint, snapshot, cmdQueue, rxQueue, arrived, commsDue,
                   mutex, fifo, stats, sweep, calls>>

\* The value written back; the mutant writes back what was loaded.
StoredUnchanged(v) == v
Stored(v) == Bump(v)

StoreCounter ==
    /\ CommsRuns /\ comms.at = "store"
    /\ comms' = IF comms.frame = "COMMAND" THEN [Asleep(comms.down) EXCEPT !.at = "enqueue"]
                ELSE IF Controller THEN [Asleep(comms.down) EXCEPT !.at = "button"]
                ELSE Asleep(comms.down)
    /\ stats' = [stats EXCEPT ![comms.result] = Stored(comms.loaded)]
    /\ UNCHANGED <<control, phase, joint, snapshot, cmdQueue, rxQueue, arrived, commsDue,
                   mutex, fifo, sweep, calls>>

\* The button is sampled; a press toggles the sweep; with the sweep on, a COMMAND
\* is broadcast.
Button(down) ==
    /\ CommsRuns /\ comms.at = "button"
    /\ sweep' = IF down /\ ~comms.down THEN ~sweep ELSE sweep
    /\ comms' = IF sweep' THEN [Asleep(down) EXCEPT !.at = "take", !.frame = "COMMAND"]
                ELSE Asleep(down)
    /\ UNCHANGED <<control, phase, joint, snapshot, cmdQueue, rxQueue, arrived, commsDue,
                   mutex, fifo, stats, calls>>

\* ... and handed to the own joint, whatever became of the frame.
EnqueueOwn ==
    /\ CommsAt("enqueue", "asleep")
    /\ cmdQueue' = Offered(cmdQueue, CmdQueueDepth, "POSITION")
    /\ UNCHANGED <<control, phase, joint, snapshot, rxQueue, arrived, commsDue, mutex, fifo,
                   stats, sweep, calls>>

--------------------------------------------------------------------------------
Control == ControlRound \/ ControlResumes

Comms ==
    \/ CommsWakes \/ ReadState \/ ReadFlags
    \/ TakeMutex \/ CommsSends \/ GiveMutex \/ LoadCounter \/ StoreCounter
    \/ (\E down \in BOOLEAN : Button(down))
    \/ EnqueueOwn

Next ==
    \/ Tick \/ (\E m \in Modes : Arrive(m)) \/ Transmitted
    \/ Control \/ RxRound \/ Comms

Spec == Init /\ [][Next]_vars

\* The tick never stops and control, the highest priority, runs when it can.  The
\* other tasks get the processor again and again because the load is below its
\* capacity, and the controller keeps trying to transmit.
Fairness ==
    /\ WF_vars(Tick) /\ WF_vars(Control) /\ WF_vars(Transmitted)
    /\ SF_vars(RxRound) /\ SF_vars(Comms)

FairSpec == Spec /\ Fairness

--------------------------------------------------------------------------------
(* Properties *)

Frames == {"HEARTBEAT", "COMMAND"}
Places == {"asleep", "state", "flags", "take", "send", "give", "load", "store", "button", "enqueue"}

\* The type of every variable; in particular the queues and the FIFO keep to
\* their depths, and the mutex is held exactly between its take and its give.
TypeOK ==
    /\ control \in {"asleep", "due", "waiting"}
    /\ phase \in 0 .. JointStatePeriod * CommsPeriod - 1
    /\ joint \in [mode : Modes, lost : BOOLEAN, since : 0 .. CommandTimeout + 1]
    /\ snapshot \in [mode : Modes, lost : BOOLEAN]
    /\ cmdQueue \in Seq(Modes) /\ Len(cmdQueue) <= CmdQueueDepth
    /\ rxQueue \in Seq(Modes) /\ Len(rxQueue) <= RxQueueDepth
    /\ arrived \in 0 .. Burst /\ commsDue \in BOOLEAN
    /\ comms \in [at : Places, frame : Frames, mode : Modes, lost : BOOLEAN,
                  result : Results, loaded : 0 .. CounterCap, down : BOOLEAN]
    /\ mutex \in BOOLEAN /\ (mutex <=> comms.at \in {"send", "give"})
    /\ fifo \in 0 .. TxFifoSize
    /\ stats \in [Results -> 0 .. CounterCap] /\ calls \in [Results -> 0 .. CounterCap]
    /\ sweep \in BOOLEAN

\* A driven joint has not timed out: its timer is within the timeout, and it is not
\* reported lost (joint.c clears PEER_LOST with every command).
DrivenInTime == joint.mode = "POSITION" => joint.since <= CommandTimeout /\ ~joint.lost

\* Frames enter the FIFO of the driver by one task at a time: while comms is inside
\* rjs_can_send no frame but its own does (app.c can_send).
TxExclusive ==
    [][comms.at \in {"send", "give"} /\ fifo' > fifo
          => comms.at = "send" /\ comms'.at = "give"]_vars

\* What other tasks read of the joint never shows it lost and driven at once, at
\* whatever moment they read (the critical section of control_task).
SnapshotConsistent == snapshot.lost => snapshot.mode = "DISABLED"

\* A dropped frame stays visible in tx_busy, hence in every later heartbeat as
\* TX_DROPPED, although the counter is updated outside of the mutex by two tasks
\* that preempt each other and loses counts: no lost update takes it back to 0.
BeingCounted == comms.at \in {"give", "load", "store"} /\ comms.result = "BUSY"
DropStaysVisible == calls["BUSY"] # 0 /\ ~BeingCounted => stats["BUSY"] # 0

\* ... and neither counter ever shows a send that was not made: the two tasks can only
\* lose counts to each other.
NeverOvercounted == \A r \in Results : stats[r] <= calls[r]

\* Together: what the counters show is true as far as it goes, and it goes far enough
\* for TX_DROPPED.
CountersSound == DropStaysVisible /\ NeverOvercounted

\* A send that is still to be counted is in calls and not yet in what will be written.
Uncounted(n) == n < calls[comms.result] \/ calls[comms.result] = CounterCap
SendPending ==
    /\ comms.at \in {"give", "load"} => Uncounted(stats[comms.result])
    /\ comms.at = "store" => Uncounted(comms.loaded)

\* Inductive (see JointNodeProofs): IInv by itself, Counted while IInv holds.
IInv == TypeOK /\ DrivenInTime /\ SnapshotConsistent /\ DropStaysVisible
Counted == NeverOvercounted /\ SendPending

\* What makes JointStops hold, step by step: a COMMAND of comms is on its way only while
\* the sweep is on.  With the sweep off and no COMMAND in rxQueue, only a round of control
\* touches the joint and its queue: it empties the queue, and once that is empty, brings the
\* joint nearer to its timeout.
SweepOwnsCommands == comms.at = "enqueue" \/ comms.frame = "COMMAND" => sweep
RunsDown == joint'.mode = "POSITION" => joint.mode = "POSITION" /\ joint'.since > joint.since
NearsStop ==
    [][~sweep' /\ rxQueue = <<>> =>
          IF ControlRound THEN cmdQueue' = <<>> /\ (cmdQueue = <<>> => RunsDown)
          ELSE UNCHANGED <<cmdQueue, joint>>]_vars

\* Once the sweep is off for good and the bus brings no command any more, the joint
\* disables itself and stays so, whatever was still in the queues (app.c:318).
JointStops == <>[](~sweep /\ rxQueue = <<>>) => <>[](joint.mode = "DISABLED")

\* A joint that stays lost is put into heartbeat after heartbeat as PEER_LOST, although
\* control and can_rx preempt comms at every point.  Whether the FIFO then takes the
\* heartbeat, and the bus brings it to anyone, is another matter.
Heartbeat == comms.at = "take" /\ comms.frame = "HEARTBEAT"
LostReported == <>[](joint.lost) => []<>(Heartbeat /\ comms.lost)

\* docs/protocol.md says of PEER_LOST "the joint stopped because commands timed out",
\* app.c that tasks read consistent snapshots: no heartbeat reports PEER_LOST and
\* an operational joint.  The code copies state and flags in two critical sections.
HeartbeatConsistent == Heartbeat /\ comms.lost => comms.mode = "DISABLED"

\* app.c: "Ownership rules keep the design free of shared-data races": when no send is
\* being counted, tx_frames and tx_busy are the numbers of sends that succeeded and
\* failed.  The code reads and writes the counters outside of the mutex.
SendsCounted ==
    comms.at \notin {"give", "load", "store"} /\ control # "waiting" => stats = calls
================================================================================
