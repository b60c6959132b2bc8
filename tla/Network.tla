-------------------------------- MODULE Network --------------------------------
(***************************************************************************)
(* The way of a COMMAND from the controller to the joints of all nodes: the *)
(* comms task, the transmit FIFO of its CAN controller, the bus with its    *)
(* connectors, and the command timeout of each joint.  Nodes are unplugged, *)
(* the bus is shorted, nodes restart, the controller goes bus-off and back.  *)
(*                                                                         *)
(* The unit of time is JOINT_STATE_PERIOD_MS.  A bus that delivers empties   *)
(* the FIFO well within one: 3 frames, less than 1 ms, against 10 ms.        *)
(***************************************************************************)
EXTENDS Integers, Sequences

CONSTANTS
    Peers,             \* the other nodes
    Own,               \* the controller, which is a joint too
    FifoSize,          \* frames the CAN controller holds for transmission
    CommandTimeout,    \* command_timeout_ms, in periods
    CommsPeriod,       \* HEARTBEAT_PERIOD_MS, in periods
    FaultsPerPeriod    \* most changes of the wiring and restarts in a period

ASSUME NetworkAssumption ==
    /\ Own \notin Peers
    /\ FifoSize \in Nat \ {0} /\ CommandTimeout \in Nat \ {0}
    /\ CommsPeriod \in Nat \ {0} /\ FaultsPerPeriod \in Nat

Joints == Peers \union {Own}

VARIABLES
    sweep,      \* s_sweep_enabled
    phase,      \* periods since comms was due
    round,      \* what comms still has to do
    stateDue,   \* does control still have to send JOINT_STATE in this period?
    fifo,       \* transmit FIFO: the ages of COMMANDs, Other for all other frames
    can,        \* CAN controller: "on", "off" (bus-off) or "rejoining"
    plugged,    \* peers with a connection to the controller
    short,      \* is the bus shorted?
    joint,      \* each joint: mode, timer, and the age of its last command
    calm,       \* periods for which frames have been delivered without a fault
    faults      \* changes of the wiring and restarts in this period

vars == <<sweep, phase, round, stateDue, fifo, can, plugged, short, joint, calm, faults>>

\* Ages are told apart up to this value, which is two periods past the timeout.
MaxAge == CommandTimeout + 2
Ages == 0 .. MaxAge
Older(a) == IF a < MaxAge THEN a + 1 ELSE MaxAge
Other == -1

Init ==
    /\ sweep = TRUE /\ phase = 0 /\ round = "done" /\ stateDue = FALSE /\ fifo = <<>>
    /\ can = "on" /\ plugged \in SUBSET Peers /\ short = FALSE
    /\ joint = [j \in Joints |-> [mode |-> "DISABLED", since |-> 0, age |-> MaxAge]]
    /\ calm = 0 /\ faults = 0

--------------------------------------------------------------------------------
(* The transmit FIFO *)

\* rjs_can_send: a full FIFO drops the frame.
Sent(frame) == IF Len(fifo) < FifoSize THEN Append(fifo, frame) ELSE fifo

\* Frames leave in the order of their sending (FDCAN_TX_FIFO_OPERATION); the
\* mutant lets a later one overtake.
NextOutLatest == Len(fifo)
NextOut == 1
Without(q, i) == SubSeq(q, 1, i - 1) \o SubSeq(q, i + 1, Len(q))

\* A frame that some node acknowledges is gone from the FIFO; one that nobody does is
\* sent again and again (AutoRetransmission).
Delivers == can = "on" /\ ~short /\ plugged # {}

--------------------------------------------------------------------------------
(* Joints *)

\* rjs_joint_command with a POSITION command of age a.
Obey(a) == [mode |-> "POSITION", since |-> 0, age |-> a]

\* A period of rjs_joint_step; the timer of a disabled joint, which nothing reads before
\* the next command resets it, is kept at 0 here.  Mutants: the timeout compares before it
\* counts; no timeout at all (command_timeout_ms = 0).
ExpiresLate(r) == r.mode = "POSITION" /\ r.since > CommandTimeout
Expires(r) == r.mode = "POSITION" /\ r.since + 1 > CommandTimeout
AgedUnwatched(r) == [r EXCEPT !.age = Older(@)]
Aged(r) ==
    [mode |-> IF Expires(r) THEN "DISABLED" ELSE r.mode,
     since |-> IF r.mode = "POSITION" /\ ~Expires(r) THEN r.since + 1 ELSE 0,
     age |-> Older(r.age)]

--------------------------------------------------------------------------------
(* Actions *)

\* A period passes for everybody; by then the tasks have done their rounds and a bus
\* that delivers has taken all frames.
Tick ==
    /\ round = "done" /\ ~stateDue
    /\ Delivers => fifo = <<>>
    /\ phase' = (phase + 1) % CommsPeriod
    /\ round' = IF phase' = 0 THEN "heartbeat" ELSE "done"
    /\ stateDue' = TRUE /\ faults' = 0
    /\ joint' = [j \in Joints |-> Aged(joint[j])]
    /\ fifo' = [i \in DOMAIN fifo |-> IF fifo[i] = Other THEN Other ELSE Older(fifo[i])]
    /\ calm' = IF Delivers THEN Older(calm) ELSE 0
    /\ UNCHANGED <<sweep, can, plugged, short>>

\* comms_task, first half: the HEARTBEAT.
SendHeartbeat ==
    /\ round = "heartbeat"
    /\ fifo' = Sent(Other)
    /\ round' = "button"
    /\ UNCHANGED <<sweep, phase, stateDue, can, plugged, short, joint, calm, faults>>

\* comms_task, second half: the button, then a COMMAND for all and for the own joint,
\* which gets it even when the FIFO has no room for the frame.
Command(press) ==
    /\ round = "button"
    /\ round' = "done"
    /\ sweep' = (sweep # press)
    /\ IF sweep'
       THEN /\ fifo' = Sent(0)
            /\ joint' = [joint EXCEPT ![Own] = Obey(0)]
       ELSE UNCHANGED <<fifo, joint>>
    /\ UNCHANGED <<phase, stateDue, can, plugged, short, calm, faults>>

\* control_task of the controller sends a JOINT_STATE.
SendJointState ==
    /\ stateDue /\ stateDue' = FALSE
    /\ fifo' = Sent(Other)
    /\ UNCHANGED <<sweep, phase, round, can, plugged, short, joint, calm, faults>>

\* A frame reaches all nodes that are plugged in; their can_rx hands a COMMAND to control.
Deliver ==
    /\ Delivers /\ fifo # <<>>
    /\ LET frame == fifo[NextOut]
       IN  joint' = [j \in Joints |-> IF frame # Other /\ j \in plugged
                                      THEN Obey(frame) ELSE joint[j]]
    /\ fifo' = Without(fifo, NextOut)
    /\ UNCHANGED <<sweep, phase, round, stateDue, can, plugged, short, calm, faults>>

\* The wiring changes: a node is unplugged or plugged in, a short comes or goes.
Rewire ==
    /\ faults < FaultsPerPeriod
    /\ faults' = faults + 1
    /\ calm' = 0
    /\ UNCHANGED <<sweep, phase, round, stateDue, fifo, can, joint>>

Plug(n) ==
    /\ plugged' = IF n \in plugged THEN plugged \ {n} ELSE plugged \union {n}
    /\ UNCHANGED short
    /\ Rewire

Short == short' = ~short /\ UNCHANGED plugged /\ Rewire

\* Errors on the bus take the CAN controller off it.  Whether it keeps the frames it
\* has is up to the hardware.
GoBusOff ==
    /\ short /\ can = "on"
    /\ can' = "off" /\ calm' = 0
    /\ fifo' \in {fifo, <<>>}
    /\ UNCHANGED <<sweep, phase, round, stateDue, plugged, short, joint, faults>>

\* HAL_FDCAN_ErrorStatusCallback clears INIT; the mutant forgets to.
StaysOff == "off"
AfterCallback == "rejoining"
BusOffCallback ==
    /\ can = "off"
    /\ can' = AfterCallback
    /\ UNCHANGED <<sweep, phase, round, stateDue, fifo, plugged, short, joint, calm, faults>>

\* The hardware is back after 128 idle periods on a sound bus.
Rejoin ==
    /\ can = "rejoining" /\ ~short
    /\ can' = "on" /\ calm' = 0
    /\ UNCHANGED <<sweep, phase, round, stateDue, fifo, plugged, short, joint, faults>>

\* A node is reset or power-cycled: it starts with a disabled joint; the controller also
\* with an empty FIFO, an enabled sweep and a CAN controller that waits for an idle bus.
\* The age stays: it is history.
Restart(n) ==
    /\ faults < FaultsPerPeriod /\ faults' = faults + 1
    /\ joint' = [joint EXCEPT ![n].mode = "DISABLED", ![n].since = 0]
    /\ IF n = Own
       THEN /\ sweep' = TRUE /\ phase' = 0 /\ round' = "done" /\ stateDue' = FALSE
            /\ fifo' = <<>> /\ can' = "rejoining" /\ calm' = 0
       ELSE UNCHANGED <<sweep, phase, round, stateDue, fifo, can, calm>>
    /\ UNCHANGED <<plugged, short>>

Comms == SendHeartbeat \/ (\E press \in BOOLEAN : Command(press))

Next ==
    \/ Tick \/ Comms \/ SendJointState
    \/ Deliver
    \/ (\E n \in Peers : Plug(n)) \/ Short
    \/ GoBusOff \/ BusOffCallback \/ Rejoin
    \/ (\E n \in Joints : Restart(n))

Spec == Init /\ [][Next]_vars

\* Time passes, comms has its round, and the hardware transmits and rejoins when it can.
Fairness ==
    /\ WF_vars(Tick) /\ WF_vars(Comms) /\ WF_vars(SendJointState)
    /\ WF_vars(Deliver) /\ WF_vars(BusOffCallback) /\ WF_vars(Rejoin)

FairSpec == Spec /\ Fairness

--------------------------------------------------------------------------------
(* Properties *)

\* The type of every variable; a joint is driven within its timeout only.
TypeOK ==
    /\ sweep \in BOOLEAN /\ round \in {"done", "heartbeat", "button"}
    /\ phase \in 0 .. CommsPeriod - 1 /\ stateDue \in BOOLEAN
    /\ fifo \in Seq(Ages \union {Other}) /\ Len(fifo) <= FifoSize
    /\ can \in {"on", "off", "rejoining"}
    /\ plugged \subseteq Peers /\ short \in BOOLEAN
    /\ joint \in [Joints -> [mode : {"DISABLED", "POSITION"}, since : 0 .. CommandTimeout,
                             age : Ages]]
    /\ calm \in Ages /\ faults \in 0 .. FaultsPerPeriod

\* No node ever obeys a command older than one it has obeyed before, whatever frames
\* were dropped, retransmitted or held back meanwhile, and whoever restarted.
CommandsInOrder ==
    [][\A j \in Joints : joint'[j].age < MaxAge => joint'[j].age <= joint[j].age + 1]_vars

\* A joint that obeys a command from before an outage does so for one timeout after
\* the reconnection at most: stale frames are a burst, they do not linger.
StaleOnlyAfterFault ==
    \A j \in Joints : joint[j].mode = "POSITION" /\ joint[j].age > CommandTimeout + 1
                      => calm <= CommandTimeout

\* The FIFO holds its commands oldest first, and none older than the last one of any peer.
\* While all has been calm, frames get through, no command waits from one period to the
\* next, and a driven joint got its last command fresh, or before all was calm.
OldestFirst ==
    \A i, k \in DOMAIN fifo : i <= k /\ fifo[i] # Other => fifo[k] <= fifo[i]
NoneOlder == \A p \in Peers : \A i \in DOMAIN fifo : fifo[i] <= joint[p].age
CalmDelivers == calm > 0 => Delivers /\ \A i \in DOMAIN fifo : fifo[i] \in {0, Other}
StaleFades ==
    \A j \in Joints : joint[j].mode = "POSITION"
                      => joint[j].age <= joint[j].since \/ calm <= joint[j].since

\* These are inductive together (see NetworkProofs).
IInv == TypeOK /\ OldestFirst /\ NoneOlder /\ CalmDelivers /\ StaleFades

\* Once the sweep is off for good every joint stops for good, although COMMANDs wait
\* in the FIFO of an unplugged or bus-off controller and connectors come and go.
AllStop == <>[](~sweep) => <>[](\A j \in Joints : joint[j].mode = "DISABLED")

\* What makes AllStop hold, step by step: while the sweep is off no COMMAND is sent, a
\* frame that leaves brings the last of them nearer to its delivery, and once none
\* waits no joint starts to be driven and each period brings a driven one nearer to its timeout.
CommandsUpTo(n) == \A i \in DOMAIN fifo : fifo[i] # Other => i <= n
RunsDown(j) ==
    joint'[j].mode = "POSITION" =>
        /\ joint[j].mode = "POSITION" /\ joint'[j].since >= joint[j].since
        /\ Tick => joint'[j].since > joint[j].since
NearsStop ==
    [][~sweep' =>
          /\ \A n \in 0 .. FifoSize :
                CommandsUpTo(n) => CommandsUpTo(n)' /\ (Deliver /\ n > 0 => CommandsUpTo(n - 1)')
          /\ CommandsUpTo(0) => \A j \in Joints : RunsDown(j)]_vars

\* When the sweep stays on, the wiring stays sound and nobody restarts any more, every
\* joint ends up driven and never times out again: the FIFO has room for all that is sent
\* in a period, comms keeps within the timeout, and the controller recovers by itself from
\* bus-off, from a reset and from a FIFO full of old frames.
Sound == plugged = Peers /\ ~short /\ faults = 0
AllFollow == <>[](sweep /\ Sound) => <>[](\A j \in Joints : joint[j].mode = "POSITION")

\* app.c, at the button: "every joint disables itself 500 ms after the last command".
\* A joint is not driven by a command issued longer ago than that.  The CAN
\* controller delivers what it held during an outage, however old.
DrivenByFreshCommand ==
    \A j \in Joints : joint[j].mode = "POSITION" => joint[j].age <= CommandTimeout + 1
================================================================================
