---------------------------- MODULE JointNodeProofs ----------------------------
(* Theorems about JointNode, for every depth of its queues and every period. *)
EXTENDS JointNode, TLAPS

--------------------------------------------------------------------------------
(* Operators *)

CommsType ==
    [at : Places, frame : Frames, mode : Modes, lost : BOOLEAN,
     result : Results, loaded : 0 .. CounterCap, down : BOOLEAN]
JointType == [mode : Modes, lost : BOOLEAN, since : 0 .. CommandTimeout + 1]

\* A saturating counter keeps its range, and once bumped is not 0.
LEMMA BumpFacts ==
    ASSUME NEW c \in 0 .. CounterCap
    PROVE  Bump(c) \in 0 .. CounterCap /\ Bump(c) # 0
BY NodeAssumption DEF Bump

\* A queue keeps to its depth and does not get shorter when something is offered.
LEMMA OfferedFacts ==
    ASSUME NEW q \in Seq(Modes), NEW depth \in Nat, NEW x \in Modes, Len(q) <= depth
    PROVE  /\ Offered(q, depth, x) \in Seq(Modes)
           /\ Len(Offered(q, depth, x)) <= depth
           /\ Len(Offered(q, depth, x)) >= Len(q)
BY DEF Offered

LEMMA AsleepType ==
    ASSUME NEW down \in BOOLEAN
    PROVE  Asleep(down) \in CommsType /\ Asleep(down).at = "asleep"
BY NodeAssumption DEF Asleep, CommsType, Places, Frames, Modes, Results

\* What a round of control makes of the joint: it is typed, and if it is driven it
\* is within its timeout and not lost.
InTime(j) == j.mode = "POSITION" => j.since <= CommandTimeout /\ ~j.lost

LEMMA SteppedFacts ==
    ASSUME NEW j \in JointType, InTime(j)
    PROVE  Stepped(j, 1) \in JointType /\ InTime(Stepped(j, 1))
BY NodeAssumption DEF Stepped, JointType, InTime, Modes

LEMMA CycleFacts ==
    ASSUME TypeOK, DrivenInTime
    PROVE  Cycle(joint) \in JointType /\ InTime(Cycle(joint))
<1>1. joint \in JointType /\ InTime(joint)
  BY DEF TypeOK, DrivenInTime, JointType, InTime
<1>2. CASE cmdQueue = <<>>
  BY <1>1, <1>2, SteppedFacts DEF Cycle
<1>3. CASE cmdQueue # <<>>
  <2> DEFINE m == cmdQueue[Len(cmdQueue)]
  <2>1. m \in Modes BY <1>3 DEF TypeOK
  <2>2. Commanded(m) \in JointType /\ InTime(Commanded(m))
    BY <2>1, NodeAssumption DEF Commanded, JointType, InTime
  <2> QED BY <1>3, <2>2, SteppedFacts DEF Cycle
<1> QED BY <1>2, <1>3

\* What is published of a joint in time is consistent.
LEMMA PublishFacts ==
    ASSUME NEW old, NEW new \in JointType, InTime(new)
    PROVE  /\ Publish(old, new) \in [mode : Modes, lost : BOOLEAN]
           /\ Publish(old, new).lost => Publish(old, new).mode = "DISABLED"
BY DEF Publish, JointType, InTime, Modes

LEMMA ControlSendsFacts ==
    ASSUME TypeOK, ControlSends
    PROVE  /\ fifo' \in 0 .. TxFifoSize
           /\ stats' \in [Results -> 0 .. CounterCap]
           /\ calls' \in [Results -> 0 .. CounterCap]
           /\ stats'["BUSY"] # 0 \/ (stats'["BUSY"] = stats["BUSY"] /\ calls'["BUSY"] = calls["BUSY"])
<1> DEFINE r == IF fifo < TxFifoSize THEN "OK" ELSE "BUSY"
<1>1. r \in Results BY DEF Results
<1>2. /\ fifo \in 0 .. TxFifoSize /\ stats \in [Results -> 0 .. CounterCap]
      /\ calls \in [Results -> 0 .. CounterCap]
  BY DEF TypeOK
<1>3. fifo' \in 0 .. TxFifoSize BY <1>2, NodeAssumption DEF ControlSends
<1>4. /\ Bump(stats[r]) \in 0 .. CounterCap /\ Bump(stats[r]) # 0
      /\ Bump(calls[r]) \in 0 .. CounterCap
  BY <1>1, <1>2, BumpFacts
<1>5. /\ stats' = [stats EXCEPT ![r] = Bump(stats[r])]
      /\ calls' = [calls EXCEPT ![r] = Bump(calls[r])]
  BY DEF ControlSends
<1> HIDE DEF r
<1>6. stats' \in [Results -> 0 .. CounterCap] /\ calls' \in [Results -> 0 .. CounterCap]
  BY <1>1, <1>2, <1>4, <1>5
<1>7. stats'["BUSY"] # 0 \/ (stats'["BUSY"] = stats["BUSY"] /\ calls'["BUSY"] = calls["BUSY"])
  BY <1>1, <1>2, <1>4, <1>5 DEF Results
<1> QED BY <1>3, <1>6, <1>7

--------------------------------------------------------------------------------
(* The inductive invariant *)

LEMMA InitIInv == Init => IInv
<1> SUFFICES ASSUME Init PROVE IInv
  OBVIOUS
<1>1. 0 \in 0 .. CounterCap BY NodeAssumption
<1>2. JointStatePeriod * CommsPeriod \in Nat \ {0}
  BY NodeAssumption
<1>3. 0 \in 0 .. JointStatePeriod * CommsPeriod - 1
  BY <1>2
<1>4. TypeOK
  <2>1. comms \in CommsType /\ comms.at = "asleep" /\ mutex = FALSE
    BY AsleepType DEF Init
  <2>2. mutex \in BOOLEAN /\ (mutex <=> comms.at \in {"send", "give"})
    BY <2>1
  <2>3. joint \in JointType /\ snapshot \in [mode : Modes, lost : BOOLEAN]
    BY NodeAssumption DEF Init, JointType, Modes
  <2>4. stats \in [Results -> 0 .. CounterCap] /\ calls \in [Results -> 0 .. CounterCap]
    BY <1>1 DEF Init
  <2>5. cmdQueue \in Seq(Modes) /\ Len(cmdQueue) = 0 /\ rxQueue \in Seq(Modes) /\ Len(rxQueue) = 0
    BY DEF Init
  <2>6. /\ control \in {"asleep", "due", "waiting"} /\ phase = 0
        /\ arrived = 0 /\ commsDue \in BOOLEAN /\ fifo = 0 /\ sweep \in BOOLEAN
    BY DEF Init
  <2> QED BY <1>3, <2>1, <2>2, <2>3, <2>4, <2>5, <2>6, NodeAssumption
          DEF TypeOK, CommsType, JointType
<1>5. DrivenInTime /\ SnapshotConsistent
  BY DEF Init, DrivenInTime, SnapshotConsistent
<1>6. DropStaysVisible
  BY DEF Init, DropStaysVisible, Results
<1> QED BY <1>4, <1>5, <1>6 DEF IInv

\* The environment: the tick, a COMMAND from the bus, and a frame that leaves.
LEMMA EnvironmentIInv ==
    ASSUME IInv, Tick \/ (\E m \in Modes : Arrive(m)) \/ Transmitted
    PROVE  IInv'
<1>1. ASSUME Tick PROVE IInv'
  <2>1. phase' \in 0 .. JointStatePeriod * CommsPeriod - 1
    <3> DEFINE P == JointStatePeriod * CommsPeriod
    <3>1. P \in Nat \ {0} BY NodeAssumption
    <3>2. phase \in 0 .. P - 1 /\ phase' = (phase + 1) % P
      BY <1>1 DEF IInv, TypeOK, Tick
    <3> HIDE DEF P
    <3>3. phase' \in 0 .. P - 1 BY <3>1, <3>2
    <3> QED BY <3>3 DEF P
  <2>2. TypeOK'
    BY <1>1, <2>1, NodeAssumption DEF IInv, TypeOK, Tick
  <2>3. DrivenInTime' /\ SnapshotConsistent'
    BY <1>1 DEF IInv, DrivenInTime, SnapshotConsistent, Tick
  <2>4. DropStaysVisible'
    BY <1>1 DEF IInv, DropStaysVisible, BeingCounted, Tick
  <2> QED BY <2>2, <2>3, <2>4 DEF IInv
<1>2. ASSUME NEW m \in Modes, Arrive(m) PROVE IInv'
  <2>1. rxQueue' \in Seq(Modes) /\ Len(rxQueue') <= RxQueueDepth
    BY <1>2, OfferedFacts, NodeAssumption DEF IInv, TypeOK, Arrive
  <2>2. TypeOK'
    BY <1>2, <2>1, NodeAssumption DEF IInv, TypeOK, Arrive
  <2>3. DrivenInTime' /\ SnapshotConsistent'
    BY <1>2 DEF IInv, DrivenInTime, SnapshotConsistent, Arrive
  <2>4. DropStaysVisible'
    BY <1>2 DEF IInv, DropStaysVisible, BeingCounted, Arrive
  <2> QED BY <2>2, <2>3, <2>4 DEF IInv
<1>3. ASSUME Transmitted PROVE IInv'
  <2>1. TypeOK'
    BY <1>3, NodeAssumption DEF IInv, TypeOK, Transmitted
  <2>2. DrivenInTime' /\ SnapshotConsistent'
    BY <1>3 DEF IInv, DrivenInTime, SnapshotConsistent, Transmitted
  <2>3. DropStaysVisible'
    BY <1>3 DEF IInv, DropStaysVisible, BeingCounted, Transmitted
  <2> QED BY <2>1, <2>2, <2>3 DEF IInv
<1> QED BY <1>1, <1>2, <1>3

LEMMA ControlIInv ==
    ASSUME IInv, Control
    PROVE  IInv'
<1>1. ASSUME ControlRound PROVE IInv'
  <2>1. joint' \in JointType /\ InTime(joint')
    BY <1>1, CycleFacts DEF IInv, ControlRound
  <2>2. /\ snapshot' \in [mode : Modes, lost : BOOLEAN]
        /\ snapshot'.lost => snapshot'.mode = "DISABLED"
    BY <1>1, <2>1, PublishFacts DEF ControlRound
  <2>3. /\ fifo' \in 0 .. TxFifoSize
        /\ stats' \in [Results -> 0 .. CounterCap]
        /\ calls' \in [Results -> 0 .. CounterCap]
        /\ stats'["BUSY"] # 0
             \/ (stats'["BUSY"] = stats["BUSY"] /\ calls'["BUSY"] = calls["BUSY"])
    <3>1. CASE ControlSends BY <3>1, ControlSendsFacts DEF IInv
    <3>2. CASE UNCHANGED <<fifo, calls, stats>> BY <3>2 DEF IInv, TypeOK
    <3> QED BY <1>1, <3>1, <3>2 DEF ControlRound
  <2>4. cmdQueue' \in Seq(Modes) /\ Len(cmdQueue') <= CmdQueueDepth
    BY <1>1, NodeAssumption DEF ControlRound
  <2>5. TypeOK'
    BY <1>1, <2>1, <2>2, <2>3, <2>4 DEF IInv, TypeOK, ControlRound, JointType
  <2>6. DrivenInTime' /\ SnapshotConsistent'
    BY <2>1, <2>2 DEF DrivenInTime, SnapshotConsistent, InTime
  <2>7. DropStaysVisible'
    BY <1>1, <2>3 DEF IInv, DropStaysVisible, BeingCounted, ControlRound
  <2> QED BY <2>5, <2>6, <2>7 DEF IInv
<1>2. ASSUME ControlResumes PROVE IInv'
  <2>1. /\ fifo' \in 0 .. TxFifoSize
        /\ stats' \in [Results -> 0 .. CounterCap]
        /\ calls' \in [Results -> 0 .. CounterCap]
        /\ stats'["BUSY"] # 0
             \/ (stats'["BUSY"] = stats["BUSY"] /\ calls'["BUSY"] = calls["BUSY"])
    BY <1>2, ControlSendsFacts DEF IInv, ControlResumes
  <2>2. TypeOK'
    BY <1>2, <2>1 DEF IInv, TypeOK, ControlResumes
  <2>3. DrivenInTime' /\ SnapshotConsistent'
    BY <1>2 DEF IInv, DrivenInTime, SnapshotConsistent, ControlResumes
  <2>4. DropStaysVisible'
    BY <1>2, <2>1 DEF IInv, DropStaysVisible, BeingCounted, ControlResumes
  <2> QED BY <2>2, <2>3, <2>4 DEF IInv
<1> QED BY <1>1, <1>2 DEF Control

LEMMA RxIInv ==
    ASSUME IInv, RxRound
    PROVE  IInv'
<1>1. rxQueue # <<>> /\ rxQueue \in Seq(Modes) /\ Len(rxQueue) <= RxQueueDepth
  BY DEF IInv, TypeOK, RxRound, RxRuns
<1>2. Head(rxQueue) \in Modes /\ Tail(rxQueue) \in Seq(Modes) /\ Len(Tail(rxQueue)) <= RxQueueDepth
  BY <1>1, NodeAssumption
<1>3. cmdQueue' \in Seq(Modes) /\ Len(cmdQueue') <= CmdQueueDepth
  BY <1>2, OfferedFacts, NodeAssumption DEF IInv, TypeOK, RxRound
<1>4. TypeOK'
  BY <1>2, <1>3 DEF IInv, TypeOK, RxRound
<1>5. DrivenInTime' /\ SnapshotConsistent' /\ DropStaysVisible'
  BY DEF IInv, DrivenInTime, SnapshotConsistent, DropStaysVisible, BeingCounted, RxRound
<1> QED BY <1>4, <1>5 DEF IInv

\* The rounds of comms up to the transmit mutex.
LEMMA CommsReadsIInv ==
    ASSUME IInv, CommsWakes \/ ReadState \/ ReadFlags \/ TakeMutex
    PROVE  IInv'
<1>1. ASSUME CommsWakes PROVE IInv'
  <2>1. TypeOK'
    BY <1>1 DEF IInv, TypeOK, CommsWakes, CommsAt, Places
  <2>2. DrivenInTime' /\ SnapshotConsistent' /\ DropStaysVisible'
    BY <1>1 DEF IInv, TypeOK, DrivenInTime, SnapshotConsistent, DropStaysVisible, BeingCounted,
                CommsWakes, CommsAt
  <2> QED BY <2>1, <2>2 DEF IInv
<1>2. ASSUME ReadState PROVE IInv'
  <2>1. TypeOK'
    BY <1>2 DEF IInv, TypeOK, ReadState, Places
  <2>2. DrivenInTime' /\ SnapshotConsistent' /\ DropStaysVisible'
    BY <1>2 DEF IInv, TypeOK, DrivenInTime, SnapshotConsistent, DropStaysVisible, BeingCounted,
                ReadState
  <2> QED BY <2>1, <2>2 DEF IInv
<1>3. ASSUME ReadFlags PROVE IInv'
  <2>1. TypeOK'
    BY <1>3 DEF IInv, TypeOK, ReadFlags, Places
  <2>2. DrivenInTime' /\ SnapshotConsistent' /\ DropStaysVisible'
    BY <1>3 DEF IInv, TypeOK, DrivenInTime, SnapshotConsistent, DropStaysVisible, BeingCounted,
                ReadFlags
  <2> QED BY <2>1, <2>2 DEF IInv
<1>4. ASSUME TakeMutex PROVE IInv'
  <2>1. comms' \in CommsType /\ comms'.at = "send"
    <3>1. Asleep(comms.down) \in CommsType
      BY AsleepType DEF IInv, TypeOK
    <3>2. comms.frame \in Frames
      BY DEF IInv, TypeOK
    <3> QED BY <1>4, <3>1, <3>2 DEF TakeMutex, CommsType, Places
  <2>2. mutex' \in BOOLEAN /\ mutex'
    BY <1>4 DEF TakeMutex
  <2>3. TypeOK'
    BY <1>4, <2>1, <2>2 DEF IInv, TypeOK, TakeMutex, CommsType
  <2>4. DrivenInTime' /\ SnapshotConsistent'
    BY <1>4 DEF IInv, DrivenInTime, SnapshotConsistent, TakeMutex
  <2>5. DropStaysVisible'
    BY <1>4 DEF IInv, DropStaysVisible, BeingCounted, TakeMutex
  <2> QED BY <2>3, <2>4, <2>5 DEF IInv
<1> QED BY <1>1, <1>2, <1>3, <1>4

\* can_send as comms goes through it.
LEMMA CommsSendIInv ==
    ASSUME IInv, CommsSends \/ GiveMutex \/ LoadCounter \/ StoreCounter
    PROVE  IInv'
<1>1. ASSUME CommsSends PROVE IInv'
  <2> DEFINE r == IF fifo < TxFifoSize THEN "OK" ELSE "BUSY"
  <2>1. /\ comms' = [comms EXCEPT !.at = "give", !.result = r]
        /\ fifo' = IF r = "OK" THEN fifo + 1 ELSE fifo
        /\ calls' = [calls EXCEPT ![r] = Bump(calls[r])]
    BY <1>1 DEF CommsSends
  <2>2. fifo' \in 0 .. TxFifoSize
    <3>1. fifo' = fifo \/ (fifo < TxFifoSize /\ fifo' = fifo + 1)
      BY <2>1
    <3> HIDE DEF r
    <3> QED BY <3>1, NodeAssumption DEF IInv, TypeOK
  <2>3. r \in Results BY DEF Results
  <2> HIDE DEF r
  <2>4. /\ comms' \in CommsType /\ comms'.at = "give"
        /\ comms'.result = r
    BY <2>1, <2>3 DEF IInv, TypeOK, CommsType, Places
  <2>5. calls \in [Results -> 0 .. CounterCap] BY DEF IInv, TypeOK
  <2>6. calls' \in [Results -> 0 .. CounterCap]
    BY <2>1, <2>3, <2>5, BumpFacts
  <2>7. TypeOK'
    BY <1>1, <2>2, <2>4, <2>6 DEF IInv, TypeOK, CommsSends, CommsType
  <2>8. DrivenInTime' /\ SnapshotConsistent'
    BY <1>1 DEF IInv, DrivenInTime, SnapshotConsistent, CommsSends
  <2>9. DropStaysVisible'
    <3>1. CASE r = "BUSY" BY <3>1, <2>4 DEF DropStaysVisible, BeingCounted
    <3>2. CASE r = "OK"
      <4>1. calls'["BUSY"] = calls["BUSY"] BY <2>1, <2>5, <3>2 DEF Results
      <4>2. ~BeingCounted BY <1>1 DEF BeingCounted, CommsSends
      <4> QED BY <1>1, <4>1, <4>2 DEF IInv, DropStaysVisible, CommsSends
    <3> QED BY <2>3, <3>1, <3>2 DEF Results
  <2> QED BY <2>7, <2>8, <2>9 DEF IInv
<1>2. ASSUME GiveMutex PROVE IInv'
  <2>1. comms' \in CommsType /\ comms'.at = "load" /\ comms'.result = comms.result
    BY <1>2 DEF IInv, TypeOK, GiveMutex, CommsAt, CommsType, Places
  <2>2. mutex' \in BOOLEAN /\ ~mutex' BY <1>2 DEF GiveMutex
  <2>3. TypeOK'
    BY <1>2, <2>1, <2>2 DEF IInv, TypeOK, GiveMutex, CommsType
  <2>4. DrivenInTime' /\ SnapshotConsistent'
    BY <1>2 DEF IInv, DrivenInTime, SnapshotConsistent, GiveMutex
  <2>5. DropStaysVisible'
    BY <1>2, <2>1 DEF IInv, DropStaysVisible, BeingCounted, GiveMutex, CommsAt
  <2> QED BY <2>3, <2>4, <2>5 DEF IInv
<1>3. ASSUME LoadCounter PROVE IInv'
  <2>1. stats[comms.result] \in 0 .. CounterCap
    BY DEF IInv, TypeOK
  <2>2. comms' \in CommsType /\ comms'.at = "store" /\ comms'.result = comms.result
    BY <1>3, <2>1 DEF IInv, TypeOK, LoadCounter, CommsType, Places
  <2>3. TypeOK'
    BY <1>3, <2>2 DEF IInv, TypeOK, LoadCounter, CommsType
  <2>4. DrivenInTime' /\ SnapshotConsistent'
    BY <1>3 DEF IInv, DrivenInTime, SnapshotConsistent, LoadCounter
  <2>5. DropStaysVisible'
    BY <1>3, <2>2 DEF IInv, DropStaysVisible, BeingCounted, LoadCounter
  <2> QED BY <2>3, <2>4, <2>5 DEF IInv
<1>4. ASSUME StoreCounter PROVE IInv'
  <2>1. Asleep(comms.down) \in CommsType
    BY AsleepType DEF IInv, TypeOK
  <2>2. comms' \in CommsType /\ comms'.at \in {"asleep", "button", "enqueue"}
    BY <1>4, <2>1, AsleepType DEF IInv, TypeOK, StoreCounter, CommsType, Places
  <2>3. /\ comms.result \in Results
        /\ Stored(comms.loaded) \in 0 .. CounterCap /\ Stored(comms.loaded) # 0
    BY BumpFacts DEF IInv, TypeOK, Stored
  <2>4. stats' = [stats EXCEPT ![comms.result] = Stored(comms.loaded)]
    BY <1>4 DEF StoreCounter
  <2>5. stats \in [Results -> 0 .. CounterCap] BY DEF IInv, TypeOK
  <2>6. stats' \in [Results -> 0 .. CounterCap]
    BY <2>3, <2>4, <2>5
  <2>7. TypeOK'
    BY <1>4, <2>2, <2>6 DEF IInv, TypeOK, StoreCounter, CommsType
  <2>8. DrivenInTime' /\ SnapshotConsistent'
    BY <1>4 DEF IInv, DrivenInTime, SnapshotConsistent, StoreCounter
  <2>9. DropStaysVisible'
    <3>1. CASE comms.result = "BUSY"
      <4>1. stats'["BUSY"] # 0 BY <3>1, <2>3, <2>4, <2>5 DEF Results
      <4> QED BY <4>1 DEF DropStaysVisible
    <3>2. CASE comms.result # "BUSY"
      <4>1. stats'["BUSY"] = stats["BUSY"] /\ ~BeingCounted
        BY <3>2, <2>4, <2>5 DEF Results, BeingCounted
      <4> QED BY <1>4, <4>1 DEF IInv, DropStaysVisible, StoreCounter
    <3> QED BY <3>1, <3>2
  <2> QED BY <2>7, <2>8, <2>9 DEF IInv
<1> QED BY <1>1, <1>2, <1>3, <1>4

\* The controller's half of the round.
LEMMA CommsCommandIInv ==
    ASSUME IInv, (\E down \in BOOLEAN : Button(down)) \/ EnqueueOwn
    PROVE  IInv'
<1>1. ASSUME NEW down \in BOOLEAN, Button(down) PROVE IInv'
  <2>1. Asleep(down) \in CommsType /\ Asleep(down).at = "asleep"
    BY AsleepType
  <2>2. sweep' \in BOOLEAN
    BY <1>1 DEF IInv, TypeOK, Button
  <2>3. comms' \in CommsType /\ comms'.at \in {"asleep", "take"}
    BY <1>1, <2>1 DEF Button, CommsType, Places, Frames
  <2>4. TypeOK'
    BY <1>1, <2>2, <2>3 DEF IInv, TypeOK, Button, CommsType
  <2>5. DrivenInTime' /\ SnapshotConsistent'
    BY <1>1 DEF IInv, DrivenInTime, SnapshotConsistent, Button
  <2>6. DropStaysVisible'
    BY <1>1 DEF IInv, DropStaysVisible, BeingCounted, Button
  <2> QED BY <2>4, <2>5, <2>6 DEF IInv
<1>2. ASSUME EnqueueOwn PROVE IInv'
  <2>1. cmdQueue' \in Seq(Modes) /\ Len(cmdQueue') <= CmdQueueDepth
    BY <1>2, OfferedFacts, NodeAssumption DEF IInv, TypeOK, EnqueueOwn, Modes
  <2>2. TypeOK'
    BY <1>2, <2>1 DEF IInv, TypeOK, EnqueueOwn, CommsAt, Places
  <2>3. DrivenInTime' /\ SnapshotConsistent'
    BY <1>2 DEF IInv, DrivenInTime, SnapshotConsistent, EnqueueOwn
  <2>4. DropStaysVisible'
    BY <1>2 DEF IInv, DropStaysVisible, BeingCounted, EnqueueOwn, CommsAt
  <2> QED BY <2>2, <2>3, <2>4 DEF IInv
<1> QED BY <1>1, <1>2

LEMMA NextIInv == IInv /\ [Next]_vars => IInv'
<1> SUFFICES ASSUME IInv, [Next]_vars PROVE IInv'
  OBVIOUS
<1>1. CASE Tick \/ (\E m \in Modes : Arrive(m)) \/ Transmitted
  BY <1>1, EnvironmentIInv
<1>2. CASE Control BY <1>2, ControlIInv
<1>3. CASE RxRound BY <1>3, RxIInv
<1>4. CASE Comms
  BY <1>4, CommsReadsIInv, CommsSendIInv, CommsCommandIInv DEF Comms
<1>5. CASE UNCHANGED vars
  BY <1>5 DEF vars, IInv, TypeOK, DrivenInTime, SnapshotConsistent, DropStaysVisible, BeingCounted
<1> QED BY <1>1, <1>2, <1>3, <1>4, <1>5 DEF Next

LEMMA Inductive == Spec => []IInv
<1> QED BY InitIInv, NextIInv, PTL DEF Spec

--------------------------------------------------------------------------------
(* The counters never run ahead *)

\* One more send, counted or not, leaves what is pending pending.
LEMMA BumpUncounted ==
    ASSUME NEW n \in 0 .. CounterCap, NEW c \in 0 .. CounterCap, n <= c
    PROVE  /\ n < Bump(c) \/ Bump(c) = CounterCap
           /\ Bump(n) <= Bump(c)
           /\ n < c => Bump(n) < Bump(c) \/ Bump(c) = CounterCap
           /\ n < c \/ c = CounterCap => Bump(n) <= c
           /\ c = CounterCap => Bump(c) = CounterCap
BY NodeAssumption DEF Bump

\* A send of control is counted at once; comms may be anywhere in its own.
LEMMA ControlCounted ==
    ASSUME IInv, Counted, ControlSends, UNCHANGED comms
    PROVE  Counted'
<1> DEFINE r == IF fifo < TxFifoSize THEN "OK" ELSE "BUSY"
<1>1. r \in Results BY DEF Results
<1>2. /\ stats \in [Results -> 0 .. CounterCap] /\ calls \in [Results -> 0 .. CounterCap]
      /\ comms.result \in Results /\ comms.loaded \in 0 .. CounterCap
  BY DEF IInv, TypeOK
<1>3. /\ stats' = [stats EXCEPT ![r] = Bump(stats[r])]
      /\ calls' = [calls EXCEPT ![r] = Bump(calls[r])]
  BY DEF ControlSends
<1> HIDE DEF r
<1>4. \A x \in Results : /\ stats[x] \in 0 .. CounterCap /\ calls[x] \in 0 .. CounterCap
                         /\ stats[x] <= calls[x]
  BY <1>2 DEF Counted, NeverOvercounted
<1>5. NeverOvercounted'
  <2> SUFFICES ASSUME NEW x \in Results PROVE stats'[x] <= calls'[x]
    BY DEF NeverOvercounted
  <2>1. CASE x = r
    <3>1. stats'[x] = Bump(stats[x]) /\ calls'[x] = Bump(calls[x]) BY <1>2, <1>3, <2>1
    <3> QED BY <1>4, <3>1, BumpUncounted
  <2>2. CASE x # r BY <1>2, <1>3, <1>4, <2>2
  <2> QED BY <2>1, <2>2
<1>6. SendPending'
  <2> DEFINE x == comms.result
  <2>1. CASE x = r
    <3>1. stats'[x] = Bump(stats[x]) /\ calls'[x] = Bump(calls[x]) BY <1>2, <1>3, <2>1
    <3>2. Uncounted(stats[x]) => stats'[x] < calls'[x] \/ calls'[x] = CounterCap
      BY <1>2, <1>4, <3>1, BumpUncounted DEF Uncounted
    <3>3. Uncounted(comms.loaded) => comms.loaded < calls'[x] \/ calls'[x] = CounterCap
      <4>1. CASE comms.loaded < calls[x]
        <5>1. calls[x] \in 0 .. CounterCap /\ comms.loaded <= calls[x] BY <1>2, <4>1
        <5> QED BY <1>2, <3>1, <5>1, BumpUncounted
      <4>2. CASE calls[x] = CounterCap
        <5>1. calls[x] \in 0 .. CounterCap /\ stats[x] <= calls[x] /\ stats[x] \in 0 .. CounterCap
          BY <1>2, <1>4
        <5> QED BY <3>1, <4>2, <5>1, BumpUncounted
      <4> QED BY <4>1, <4>2 DEF Uncounted
    <3> QED BY <3>2, <3>3 DEF Counted, SendPending, Uncounted
  <2>2. CASE x # r
    <3>1. stats'[x] = stats[x] /\ calls'[x] = calls[x] BY <1>2, <1>3, <2>2
    <3> QED BY <3>1 DEF Counted, SendPending, Uncounted
  <2> QED BY <2>1, <2>2
<1> QED BY <1>5, <1>6 DEF Counted

\* Comms inside can_send: its send is in calls first and in its counter last.
LEMMA CommsCounted ==
    ASSUME IInv, Counted, CommsSends \/ GiveMutex \/ LoadCounter \/ StoreCounter
    PROVE  Counted'
<1>1. /\ stats \in [Results -> 0 .. CounterCap] /\ calls \in [Results -> 0 .. CounterCap]
      /\ comms.result \in Results /\ comms.loaded \in 0 .. CounterCap
      /\ comms \in CommsType
  BY DEF IInv, TypeOK, CommsType
<1>2. \A x \in Results : /\ stats[x] \in 0 .. CounterCap /\ calls[x] \in 0 .. CounterCap
                         /\ stats[x] <= calls[x]
  BY <1>1 DEF Counted, NeverOvercounted
<1>3. ASSUME CommsSends PROVE Counted'
  <2> DEFINE r == IF fifo < TxFifoSize THEN "OK" ELSE "BUSY"
  <2>1. r \in Results BY DEF Results
  <2>2. /\ comms' = [comms EXCEPT !.at = "give", !.result = r]
        /\ calls' = [calls EXCEPT ![r] = Bump(calls[r])]
        /\ stats' = stats
    BY <1>3 DEF CommsSends
  <2> HIDE DEF r
  <2>3. comms'.at = "give" /\ comms'.result = r BY <1>1, <2>2 DEF CommsType
  <2>4. calls'[r] = Bump(calls[r]) BY <1>1, <2>1, <2>2
  <2>5. stats[r] < calls'[r] \/ calls'[r] = CounterCap
    BY <1>2, <2>1, <2>4, BumpUncounted
  <2>6. SendPending' BY <2>2, <2>3, <2>5 DEF SendPending, Uncounted
  <2>7. NeverOvercounted'
    <3> SUFFICES ASSUME NEW x \in Results PROVE stats[x] <= calls'[x]
      BY <2>2 DEF NeverOvercounted
    <3>1. CASE x = r
      <4>1. calls'[x] \in 0 .. CounterCap BY <1>2, <2>4, <3>1, BumpFacts
      <4>2. stats[x] \in 0 .. CounterCap BY <1>2
      <4> QED BY <2>5, <3>1, <4>1, <4>2
    <3>2. CASE x # r BY <1>1, <1>2, <2>2, <3>2
    <3> QED BY <3>1, <3>2
  <2> QED BY <2>6, <2>7 DEF Counted
<1>4. ASSUME GiveMutex PROVE Counted'
  <2>1. comms'.at = "load" /\ comms'.result = comms.result /\ comms.at = "give"
        /\ stats' = stats /\ calls' = calls
    BY <1>1, <1>4 DEF GiveMutex, CommsAt, CommsType
  <2> QED BY <2>1 DEF Counted, NeverOvercounted, SendPending, Uncounted
<1>5. ASSUME LoadCounter PROVE Counted'
  <2>1. comms'.at = "store" /\ comms'.result = comms.result /\ comms.at = "load"
        /\ comms'.loaded = stats[comms.result] /\ stats' = stats /\ calls' = calls
    BY <1>1, <1>5 DEF LoadCounter, CommsType
  <2> QED BY <2>1 DEF Counted, NeverOvercounted, SendPending, Uncounted
<1>6. ASSUME StoreCounter PROVE Counted'
  <2> DEFINE x == comms.result
  <2>1. /\ comms'.at \in {"asleep", "button", "enqueue"} /\ comms.at = "store" /\ calls' = calls
        /\ stats' = [stats EXCEPT ![x] = Bump(comms.loaded)]
    BY <1>6, AsleepType DEF StoreCounter, Stored, Asleep, IInv, TypeOK
  <2>2. comms.loaded < calls[x] \/ calls[x] = CounterCap
    BY <2>1 DEF Counted, SendPending, Uncounted
  <2>3. Bump(comms.loaded) <= calls[x]
    <3>1. comms.loaded <= calls[x] /\ calls[x] \in 0 .. CounterCap BY <1>1, <2>2
    <3> QED BY <1>1, <2>2, <3>1, BumpUncounted
  <2>4. NeverOvercounted' BY <1>1, <1>2, <2>1, <2>3 DEF NeverOvercounted
  <2>5. SendPending' BY <2>1 DEF SendPending
  <2> QED BY <2>4, <2>5 DEF Counted
<1> QED BY <1>3, <1>4, <1>5, <1>6

LEMMA NextCounted == IInv /\ Counted /\ [Next]_vars => Counted'
<1> SUFFICES ASSUME IInv, Counted, [Next]_vars PROVE Counted'
  OBVIOUS
<1>1. CASE UNCHANGED <<comms, stats, calls>>
  BY <1>1 DEF Counted, NeverOvercounted, SendPending, Uncounted
<1>2. CASE Tick \/ (\E m \in Modes : Arrive(m)) \/ Transmitted \/ RxRound \/ UNCHANGED vars
  BY <1>1, <1>2 DEF Tick, Arrive, Transmitted, RxRound, vars
<1>3. CASE Control
  BY <1>1, <1>3, ControlCounted DEF Control, ControlRound, ControlResumes
<1>4. CASE CommsSends \/ GiveMutex \/ LoadCounter \/ StoreCounter
  BY <1>4, CommsCounted
<1>5. CASE CommsWakes \/ ReadState \/ ReadFlags \/ TakeMutex
             \/ (\E down \in BOOLEAN : Button(down)) \/ EnqueueOwn
  <2>1. stats' = stats /\ calls' = calls
    BY <1>5 DEF CommsWakes, ReadState, ReadFlags, TakeMutex, Button, EnqueueOwn
  <2>2. comms'.at \in {"state", "flags", "take", "send", "asleep"}
    <3>1. comms \in CommsType /\ comms.down \in BOOLEAN BY DEF IInv, TypeOK, CommsType
    <3>2. ASSUME TakeMutex PROVE comms'.at = "send"
      <4>1. Asleep(comms.down) \in CommsType BY <3>1, AsleepType
      <4> QED BY <3>2, <4>1 DEF TakeMutex, CommsType
    <3>3. ASSUME NEW down \in BOOLEAN, Button(down) PROVE comms'.at \in {"take", "asleep"}
      <4>1. Asleep(down) \in CommsType /\ Asleep(down).at = "asleep" BY AsleepType
      <4> QED BY <3>3, <4>1 DEF Button, CommsType
    <3>4. CASE CommsWakes \/ ReadState \/ ReadFlags \/ EnqueueOwn
      BY <3>1, <3>4 DEF CommsWakes, ReadState, ReadFlags, EnqueueOwn, CommsAt, CommsType
    <3> QED BY <1>5, <3>2, <3>3, <3>4
  <2> QED BY <2>1, <2>2 DEF Counted, NeverOvercounted, SendPending
<1> QED BY <1>2, <1>3, <1>4, <1>5 DEF Next, Comms

LEMMA CountedInductive == Spec => []Counted
<1>1. Init => Counted
  <2> SUFFICES ASSUME Init PROVE Counted
    OBVIOUS
  <2>1. comms.at = "asleep" BY AsleepType DEF Init
  <2>2. NeverOvercounted BY DEF Init, NeverOvercounted
  <2> QED BY <2>1, <2>2 DEF Counted, SendPending
<1> QED BY <1>1, NextCounted, Inductive, PTL DEF Spec

--------------------------------------------------------------------------------
(* Theorems *)

\* Queues and FIFO keep to their depths, and the transmit mutex is held exactly
\* between its take and its give in can_send.
THEOREM TypeCorrect == Spec => []TypeOK
<1>1. IInv => TypeOK BY DEF IInv
<1> QED BY <1>1, Inductive, PTL

\* What control publishes never shows the joint lost and driven at once.
THEOREM SnapshotSound == Spec => []SnapshotConsistent
<1>1. IInv => SnapshotConsistent BY DEF IInv
<1> QED BY <1>1, Inductive, PTL

\* No lost update of the transmit counters hides that a frame was dropped, and none makes
\* up a send: whatever the two tasks lose to each other, the counters stay below the truth.
THEOREM CountersTrue == Spec => []CountersSound
<1>1. IInv /\ Counted => CountersSound BY DEF IInv, Counted, CountersSound
<1> QED BY <1>1, Inductive, CountedInductive, PTL

\* While comms is inside rjs_can_send, no other task queues a frame.
THEOREM SendsExclude == Spec => TxExclusive
<1> DEFINE A == comms.at \in {"send", "give"} /\ fifo' > fifo
                  => comms.at = "send" /\ comms'.at = "give"
<1>1. IInv /\ [Next]_vars => [A]_vars
  <2> SUFFICES ASSUME IInv, Next, comms.at \in {"send", "give"}, fifo' > fifo
               PROVE  comms.at = "send" /\ comms'.at = "give"
    BY DEF vars
  <2>1. mutex BY DEF IInv, TypeOK
  <2>2. fifo \in Nat BY NodeAssumption DEF IInv, TypeOK
  <2>3. ~Control
    <3>1. ControlRound => fifo' = fifo
      BY <2>1 DEF ControlRound, Blocks
    <3>2. ~ControlResumes BY <2>1 DEF ControlResumes
    <3> QED BY <2>2, <3>1, <3>2 DEF Control
  <2>4. CASE CommsSends
    BY <2>4 DEF CommsSends, IInv, TypeOK
  <2>5. CASE Transmitted BY <2>5, <2>2 DEF Transmitted
  <2>6. CASE Tick \/ (\E m \in Modes : Arrive(m)) \/ RxRound
    BY <2>6, <2>2 DEF Tick, Arrive, RxRound
  <2>7. CASE CommsWakes \/ ReadState \/ ReadFlags \/ TakeMutex \/ GiveMutex \/ LoadCounter
               \/ StoreCounter \/ (\E down \in BOOLEAN : Button(down)) \/ EnqueueOwn
    <3>1. UNCHANGED fifo
      BY <2>7 DEF CommsWakes, ReadState, ReadFlags, TakeMutex, GiveMutex, LoadCounter,
                  StoreCounter, Button, EnqueueOwn
    <3> QED BY <3>1, <2>2
  <2> QED BY <2>3, <2>4, <2>5, <2>6, <2>7 DEF Next, Comms
<1> QED BY <1>1, Inductive, PTL DEF Spec, TxExclusive

--------------------------------------------------------------------------------
(* Progress: what a step does towards the stop of the joint *)

\* The sweep is switched at the button only, where comms has no COMMAND in hand.
LEMMA CommandsOfSweep == Spec => []SweepOwnsCommands
<1>1. Init => SweepOwnsCommands BY DEF Init, Asleep, SweepOwnsCommands
<1>2. ASSUME IInv, SweepOwnsCommands, [Next]_vars PROVE SweepOwnsCommands'
  <2>1. comms \in CommsType BY <1>2 DEF IInv, TypeOK, CommsType
  <2>2. CASE \/ CommsWakes \/ ReadState \/ ReadFlags \/ TakeMutex \/ CommsSends \/ GiveMutex
            \/ LoadCounter \/ EnqueueOwn
    <3>1. sweep' = sweep /\ comms'.at # "enqueue" /\ comms'.frame \in {comms.frame, "HEARTBEAT"}
      BY <2>1, <2>2 DEF CommsWakes, ReadState, ReadFlags, TakeMutex, CommsSends, GiveMutex,
                        LoadCounter, EnqueueOwn, CommsAt, Asleep, CommsType
    <3> QED BY <1>2, <3>1 DEF SweepOwnsCommands
  <2>3. CASE StoreCounter
    <3>1. /\ sweep' = sweep /\ comms'.frame = "HEARTBEAT"
          /\ comms'.at = "enqueue" => comms.frame = "COMMAND"
      BY <2>3 DEF StoreCounter, Asleep
    <3> QED BY <1>2, <3>1 DEF SweepOwnsCommands
  <2>4. CASE \E down \in BOOLEAN : Button(down)
    <3>1. comms'.at # "enqueue" /\ (comms'.frame = "COMMAND" => sweep')
      BY <2>4 DEF Button, Asleep
    <3> QED BY <3>1 DEF SweepOwnsCommands
  <2>5. CASE \/ Tick \/ (\E m \in Modes : Arrive(m)) \/ Transmitted \/ Control \/ RxRound
            \/ UNCHANGED vars
    <3>1. UNCHANGED <<comms, sweep>>
      BY <2>5 DEF Tick, Arrive, Transmitted, Control, ControlRound, ControlResumes, RxRound, vars
    <3> QED BY <1>2, <3>1 DEF SweepOwnsCommands
  <2> QED BY <1>2, <2>2, <2>3, <2>4, <2>5 DEF Next, Comms
<1> QED BY <1>1, <1>2, Inductive, PTL DEF Spec

\* With the sweep off and no COMMAND received, nothing but a round of control touches the
\* joint, and at most the first one still drives it anew; each one after it brings the
\* joint nearer to its timeout, wherever the other tasks are.
THEOREM StopNears == Spec => NearsStop
<1> DEFINE A == ~sweep' /\ rxQueue = <<>> =>
                   IF ControlRound THEN cmdQueue' = <<>> /\ (cmdQueue = <<>> => RunsDown)
                   ELSE UNCHANGED <<cmdQueue, joint>>
<1>1. ASSUME IInv, SweepOwnsCommands, [Next]_vars PROVE A
  <2> SUFFICES ASSUME ~sweep', rxQueue = <<>>
               PROVE  IF ControlRound THEN cmdQueue' = <<>> /\ (cmdQueue = <<>> => RunsDown)
                      ELSE UNCHANGED <<cmdQueue, joint>>
    OBVIOUS
  <2>1. CASE ControlRound
    <3>1. cmdQueue' = <<>> BY <2>1 DEF ControlRound
    <3>2. ASSUME cmdQueue = <<>> PROVE RunsDown
      <4>1. joint \in JointType BY <1>1 DEF IInv, TypeOK, JointType
      <4>2. joint' = Stepped(joint, 1) BY <2>1, <3>2 DEF ControlRound, Cycle
      <4> QED BY <4>1, <4>2, NodeAssumption DEF RunsDown, Stepped, JointType, Modes
    <3> QED BY <2>1, <3>1, <3>2
  <2>2. CASE ~ControlRound
    <3>1. CASE EnqueueOwn
      <4>1. comms.at = "enqueue" /\ sweep' = sweep BY <3>1 DEF EnqueueOwn, CommsAt
      <4> QED BY <1>1, <4>1 DEF SweepOwnsCommands
    <3>2. ~RxRound BY DEF RxRound, RxRuns
    <3>3. CASE ~EnqueueOwn
      <4>1. UNCHANGED <<cmdQueue, joint>>
        BY <1>1, <2>2, <3>2, <3>3
           DEF Next, Tick, Arrive, Transmitted, Control, ControlResumes, Comms, CommsWakes,
               ReadState, ReadFlags, TakeMutex, CommsSends, GiveMutex, LoadCounter,
               StoreCounter, Button, vars
      <4> QED BY <2>2, <4>1
    <3> QED BY <3>1, <3>3
  <2> QED BY <2>1, <2>2
<1>2. IInv /\ SweepOwnsCommands /\ [Next]_vars => [A]_vars BY <1>1
<1> QED BY <1>2, Inductive, CommandsOfSweep, PTL DEF Spec, NearsStop
================================================================================
