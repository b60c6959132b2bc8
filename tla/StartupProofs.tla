----------------------------- MODULE StartupProofs ------------------------------
(* Theorems about Startup, with or without a display, for every queue and FIFO size. *)
EXTENDS Startup, TLAPS

--------------------------------------------------------------------------------
(* The program of main *)

LEMMA ProgramEnd ==
    /\ Len(Program) \in Nat /\ Len(Program) > 11
    /\ Program[Len(Program)] = "idle"
    /\ \A i \in 1 .. Len(Program) : Program[i] = "idle" => i = Len(Program)
BY DEF Program, BoardInit, AppStart

\* HAL calls come before the first kernel object, which is step 7.
LEMMA HalCallsFirst ==
    /\ \A i \in 1 .. Len(Program) : i >= 7 => Program[i] \notin HalCalls
    /\ \A i \in 1 .. Len(Program) : Program[i] \in Queues \union Tasks => i >= 7
BY DEF Program, BoardInit, AppStart, HalCalls, Queues, Tasks

\* Every queue and task is a step, and lines are logged after the log queue is created.
LEMMA ProgramCreates ==
    /\ \A o \in Queues \union Tasks : \E i \in 1 .. Len(Program) : Program[i] = o
    /\ \A i \in 1 .. Len(Program) : Program[i] = "banner" => i > 10
    /\ Program[10] = "s_queue" /\ 10 \in 1 .. Len(Program)
<1> DEFINE P == Program
<1>1. /\ P[6] = "can" /\ P[7] = "s_rx_queue" /\ P[8] = "s_cmd_queue" /\ P[9] = "s_tx_mutex"
      /\ P[10] = "s_queue" /\ P[11] = "log" /\ P[15] = "control" /\ P[16] = "can_rx"
      /\ P[17] = "comms" /\ P[18] = "stats" /\ Len(P) >= 19 /\ Len(P) \in Nat
      /\ EnableDisplay => P[19] = "ui"
  BY DEF Program, BoardInit, AppStart
<1>2. \A i \in 1 .. Len(P) : P[i] = "banner" => i > 10
  BY DEF Program, BoardInit, AppStart
<1>3. P[Len(P)] = "idle" BY ProgramEnd
<1>4. ASSUME NEW o \in Queues \union Tasks PROVE \E i \in 1 .. Len(P) : P[i] = o
  <2>1. CASE o = "idle" BY <2>1, <1>1, <1>3
  <2>2. CASE o = "ui" /\ EnableDisplay
    <3>1. P[19] = "ui" /\ 19 \in 1 .. Len(P) BY <1>1, <2>2
    <3> QED BY <3>1, <2>2
  <2>3. CASE o \in {"s_rx_queue", "s_cmd_queue", "s_tx_mutex", "s_queue", "log"}
    <3>1. {7, 8, 9, 10, 11} \subseteq 1 .. Len(P) BY <1>1
    <3> HIDE DEF P
    <3> QED BY <3>1, <1>1, <2>3
  <2>4. CASE o \in {"control", "can_rx", "comms", "stats"}
    <3>1. {15, 16, 17, 18} \subseteq 1 .. Len(P) BY <1>1
    <3> HIDE DEF P
    <3> QED BY <3>1, <1>1, <2>4
  <2> QED BY <2>1, <2>2, <2>3, <2>4 DEF Queues, Tasks
<1> QED BY <1>1, <1>2, <1>4

--------------------------------------------------------------------------------
(* The inductive invariant *)

LoggerType == [at : {"away", "load", "store"}, loaded : 0 .. CounterCap]

\* A saturating counter keeps its range, and once bumped is not 0.
LEMMA BumpFacts ==
    ASSUME NEW c \in 0 .. CounterCap
    PROVE  Bump(c) \in 0 .. CounterCap /\ Bump(c) # 0
BY StartupAssumption DEF Bump

LEMMA InitIInv == Init => IInv
<1> SUFFICES ASSUME Init PROVE IInv OBVIOUS
<1>1. Program[1] = "voltage" /\ 1 \in 1 .. Len(Program)
  BY DEF Program, BoardInit, AppStart
<1>2. TypeOK
  BY <1>1, StartupAssumption DEF Init, TypeOK, HalCallsTick
<1>3. AllPresent /\ MadeInOrder /\ MaskedByKernel /\ LossesCounted
  BY <1>1 DEF Init, AllPresent, MadeInOrder, MaskedByKernel, LossesCounted
<1> QED BY <1>2, <1>3 DEF IInv

\* What main does before the scheduler leaves reception and logging as they are.
LEMMA BootKeeps ==
    ASSUME IInv, UNCHANGED <<receive, logging, lost>>,
           status' \in {"booting", "running", "fatal", "stuck"},
           step' \in 1 .. Len(Program), waited' \in 0 .. HalTimeout,
           masked' \in BOOLEAN, uart' \in BOOLEAN, message' \in BOOLEAN,
           led' \in {"floating", "off", "on"},
           made \subseteq made', made' \subseteq Queues \union Tasks,
           status' = "booting" /\ Program[step'] \in HalCalls => ~masked',
           status' = "running" => Queues \union Tasks \subseteq made'
    PROVE  TypeOK' /\ AllPresent' /\ LossesCounted'
<1>1. TypeOK' BY DEF IInv, TypeOK, HalCallsTick, receive, logging, boot
<1>2. AllPresent' BY DEF IInv, AllPresent, receive, logging
<1>3. LossesCounted' BY DEF IInv, LossesCounted, receive, logging
<1> QED BY <1>1, <1>2, <1>3

\* A step of main that is not the last one is followed by another.
LEMMA Followed ==
    ASSUME IInv, NEW s, Program[step] = s, s # "idle"
    PROVE  step + 1 \in 1 .. Len(Program)
<1>1. step \in 1 .. Len(Program) BY DEF IInv, TypeOK
<1>2. step # Len(Program) BY ProgramEnd
<1> QED BY <1>1, <1>2, ProgramEnd

\* A step of main that creates nothing, or creates what it should.
LEMMA Advances ==
    ASSUME IInv, status = "booting", Program[step] # "idle", Continue,
           Program[step] \in Queues \union Tasks => Program[step] \in made',
           made \subseteq made', masked' => masked \/ step >= 7
    PROVE  /\ MadeInOrder' /\ MaskedByKernel'
           /\ step' \in 1 .. Len(Program) /\ status' = "booting"
           /\ Program[step'] \in HalCalls => ~masked'
<1>1. step \in 1 .. Len(Program) BY DEF IInv, TypeOK
<1>2. step' \in 1 .. Len(Program) /\ step' = step + 1 /\ status' = "booting"
  BY Followed DEF Continue
<1>3. MadeInOrder'
  <2> SUFFICES ASSUME NEW i \in 1 .. step, Program[i] \in Queues \union Tasks
               PROVE  Program[i] \in made'
    BY <1>1, <1>2 DEF MadeInOrder
  <2>1. CASE i = step BY <2>1
  <2>2. CASE i # step
    <3>1. i \in 1 .. step - 1 BY <1>1, <2>2
    <3> QED BY <3>1 DEF IInv, MadeInOrder
  <2> QED BY <2>1, <2>2
<1>4. MaskedByKernel' BY <1>1, <1>2 DEF IInv, MaskedByKernel
<1>5. Program[step'] \in HalCalls => ~masked'
  BY <1>1, <1>2, HalCallsFirst DEF IInv, MaskedByKernel
<1> QED BY <1>2, <1>3, <1>4, <1>5

\* A step that does not move main keeps what main has passed made.
LEMMA StaysMade ==
    ASSUME IInv, UNCHANGED step, made \subseteq made',
           masked' /\ status' = "booting" => masked /\ status = "booting"
    PROVE  MadeInOrder' /\ MaskedByKernel'
BY DEF IInv, MadeInOrder, MaskedByKernel

LEMMA DieType ==
    ASSUME IInv, Die
    PROVE  /\ status' = "fatal" /\ message' \in BOOLEAN
           /\ led' \in {"floating", "off", "on"}
BY DEF IInv, TypeOK, Die

--------------------------------------------------------------------------------
(* Steps of main *)

LEMMA MainStep ==
    ASSUME IInv, Main \/ HalTick \/ Fault \/ (\E s \in HalCalls : HalAnswers(s) \/ HalError(s))
    PROVE  IInv'
<1> USE DEF boot, receive, logging
<1>1. /\ status \in {"booting", "running", "fatal", "stuck"} /\ step \in 1 .. Len(Program)
      /\ waited \in 0 .. HalTimeout /\ masked \in BOOLEAN /\ uart \in BOOLEAN
      /\ message \in BOOLEAN /\ led \in {"floating", "off", "on"}
      /\ made \subseteq Queues \union Tasks
  BY DEF IInv, TypeOK
<1>2. "idle" \notin HalCalls /\ "idle" \notin Queues /\ 0 \in 0 .. HalTimeout
  BY StartupAssumption DEF HalCalls, Queues
<1>3. HalCalls \intersect (Queues \union Tasks) = {} BY DEF HalCalls, Queues, Tasks
<1>4. ASSUME NEW s \in HalCalls, HalAnswers(s) PROVE IInv'
  <2>1. MadeInOrder' /\ MaskedByKernel' /\ step' \in 1 .. Len(Program) /\ status' = "booting"
        /\ (Program[step'] \in HalCalls => ~masked')
    BY <1>2, <1>3, <1>4, Advances DEF HalAnswers, At
  <2> QED BY <1>1, <1>2, <1>4, <2>1, BootKeeps DEF HalAnswers, IInv
<1>5. ASSUME NEW s \in HalCalls, CallFails(s), At(s) PROVE IInv'
  <2>1. /\ status' \in {"fatal", "stuck"} /\ message' \in BOOLEAN
        /\ led' \in {"floating", "off", "on"}
    BY <1>1, <1>5, DieType DEF CallFails
  <2>2. MadeInOrder' /\ MaskedByKernel' BY <1>5, <2>1, StaysMade DEF CallFails
  <2> QED BY <1>1, <1>5, <2>1, <2>2, BootKeeps DEF CallFails, IInv
<1>6. CASE HalTick
  <2>1. MadeInOrder' /\ MaskedByKernel' BY <1>6, StaysMade DEF HalTick
  <2>2. waited' \in 0 .. HalTimeout BY <1>1, <1>6, StartupAssumption DEF HalTick
  <2> QED BY <1>1, <1>6, <2>1, <2>2, BootKeeps DEF HalTick, IInv, At
<1>7. CASE Fault
  <2>1. MadeInOrder' /\ MaskedByKernel' BY <1>7, StaysMade, DieType DEF Fault
  <2> QED BY <1>1, <1>7, <2>1, DieType, BootKeeps DEF Fault, IInv
<1>8. CASE GpioInit
  <2>1. "gpio" \notin Queues \union Tasks BY DEF Queues, Tasks
  <2>2. MadeInOrder' /\ MaskedByKernel' /\ step' \in 1 .. Len(Program) /\ status' = "booting"
        /\ (Program[step'] \in HalCalls => ~masked')
    BY <1>8, <2>1, Advances DEF GpioInit, At
  <2> QED BY <1>1, <1>8, <2>2, BootKeeps DEF GpioInit, IInv
<1>9. ASSUME NEW o \in (Queues \union Tasks) \ {"idle"}, Create(o) PROVE IInv'
  <2>1. step >= 7 BY <1>1, <1>9, HalCallsFirst DEF Create, At
  <2>2. MadeInOrder' /\ MaskedByKernel' /\ step' \in 1 .. Len(Program) /\ status' = "booting"
        /\ (Program[step'] \in HalCalls => ~masked')
    BY <1>9, <2>1, Advances DEF Create, At
  <2> QED BY <1>1, <1>9, <2>2, BootKeeps DEF Create, IInv
<1>10. ASSUME NEW o \in Queues \union Tasks, CreateFails(o) PROVE IInv'
  <2>1. Die /\ UNCHANGED step BY <1>10 DEF CreateFails, HookStops
  <2>2. status' = "fatal" /\ message' \in BOOLEAN /\ led' \in {"floating", "off", "on"}
    BY <2>1, DieType
  <2>3. MadeInOrder' /\ MaskedByKernel' BY <1>10, <2>1, <2>2, StaysMade DEF CreateFails
  <2> QED BY <1>1, <1>10, <2>1, <2>2, <2>3, BootKeeps DEF CreateFails, IInv
<1>11. CASE StartScheduler
  <2>1. step = Len(Program) BY <1>1, <1>11, ProgramEnd DEF StartScheduler, At
  <2>2. Queues \union Tasks \subseteq made'
    <3> SUFFICES ASSUME NEW o \in Queues \union Tasks PROVE o \in made' OBVIOUS
    <3>1. PICK i \in 1 .. Len(Program) : Program[i] = o BY ProgramCreates
    <3>2. CASE i = step BY <1>11, <3>1, <3>2 DEF StartScheduler, At
    <3>3. CASE i # step
      <4>1. i \in 1 .. step - 1 BY <1>1, <2>1, <3>3, ProgramEnd
      <4> QED BY <1>11, <3>1, <4>1 DEF IInv, MadeInOrder, StartScheduler
    <3> QED BY <3>2, <3>3
  <2>3. MadeInOrder' /\ MaskedByKernel' BY <1>11, StaysMade DEF StartScheduler
  <2>4. made' \subseteq Queues \union Tasks BY <1>1, <1>11 DEF StartScheduler, Tasks
  <2> QED BY <1>1, <1>11, <2>2, <2>3, <2>4, BootKeeps DEF StartScheduler, IInv
<1>12. CASE Banner
  <2>1. "banner" \notin Queues \union Tasks BY DEF Queues, Tasks
  <2>2. MadeInOrder' /\ MaskedByKernel' /\ step' \in 1 .. Len(Program) /\ status' = "booting"
        /\ (Program[step'] \in HalCalls => ~masked')
    BY <1>12, <2>1, Advances DEF Banner, At
  <2>3. "s_queue" \in made
    <3>1. 10 \in 1 .. step - 1 BY <1>1, <1>12, ProgramCreates DEF Banner, At
    <3>2. "s_queue" \in Queues BY DEF Queues
    <3> QED BY <3>1, <3>2, ProgramCreates DEF IInv, MadeInOrder
  <2>4. /\ logQueue' \in 0 .. LogQueueDepth /\ dropped' \in 0 .. CounterCap
        /\ lost' \subseteq {"fifo", "queue", "log"}
    <3>1. /\ dropped \in 0 .. CounterCap /\ lost \subseteq {"fifo", "queue", "log"}
          /\ logQueue \in 0 .. LogQueueDepth /\ LogQueueDepth \in Nat
      BY StartupAssumption DEF IInv, TypeOK
    <3>2. Bump(dropped) \in 0 .. CounterCap BY <3>1, BumpFacts
    <3>3. CASE logQueue < LogQueueDepth
      <4>1. logQueue' = logQueue + 1 /\ dropped' = dropped /\ lost' = lost
        BY <1>12, <3>3 DEF Banner
      <4> QED BY <3>1, <3>3, <4>1
    <3>4. CASE ~(logQueue < LogQueueDepth)
      <4>1. logQueue' = logQueue /\ dropped' = Bump(dropped) /\ lost' = lost \union {"log"}
        BY <1>12, <3>4 DEF Banner
      <4> QED BY <3>1, <3>2, <4>1
    <3> QED BY <3>3, <3>4
  <2>5. TypeOK'
    BY <1>1, <1>12, <2>2, <2>4 DEF Banner, IInv, TypeOK, HalCallsTick
  <2>6. AllPresent' BY <1>12, <2>2, <2>3 DEF Banner, IInv, AllPresent
  <2>7. LossesCounted'
    <3>1. dropped \in 0 .. CounterCap /\ Bump(dropped) # 0
      BY BumpFacts DEF IInv, TypeOK
    <3>2. CASE logQueue < LogQueueDepth
      BY <1>12, <3>2 DEF Banner, IInv, LossesCounted
    <3>3. CASE ~(logQueue < LogQueueDepth)
      BY <1>12, <3>1, <3>3 DEF Banner, IInv, LossesCounted
    <3> QED BY <3>2, <3>3
  <2> QED BY <2>2, <2>5, <2>6, <2>7 DEF IInv
<1> QED BY <1>4, <1>5, <1>6, <1>7, <1>8, <1>9, <1>10, <1>11, <1>12
        DEF Main, HalTimesOut, HalError

--------------------------------------------------------------------------------
(* Steps of the interrupt and of the tasks *)

LEMMA ReceptionStep ==
    ASSUME IInv, FrameArrives \/ RxInterrupt \/ Drain
    PROVE  IInv'
<1> USE DEF boot, logging
<1>1. /\ UNCHANGED <<status, step, waited, masked, led, uart, message, made>>
      /\ UNCHANGED <<logQueue, dropped, logger>>
  BY DEF FrameArrives, RxInterrupt, Drain
<1>2. MadeInOrder' /\ MaskedByKernel' BY <1>1 DEF IInv, MadeInOrder, MaskedByKernel
<1>3. /\ rxFifo \in 0 .. RxFifoSize /\ flags \subseteq {"NEW", "LOST"}
      /\ isr \in {"idle", "draining"} /\ came \in 0 .. Burst /\ rxQueue \in 0 .. RxQueueDepth
      /\ rxOverrun \in 0 .. CounterCap /\ rxDropped \in 0 .. CounterCap
      /\ lost \subseteq {"fifo", "queue", "log"}
  BY DEF IInv, TypeOK
<1>4. /\ Bump(rxOverrun) \in 0 .. CounterCap /\ Bump(rxOverrun) # 0
      /\ Bump(rxDropped) \in 0 .. CounterCap /\ Bump(rxDropped) # 0
  BY <1>3, BumpFacts
<1> DEFINE Goal == /\ rxFifo' \in 0 .. RxFifoSize /\ flags' \subseteq {"NEW", "LOST"}
                   /\ isr' \in {"idle", "draining"} /\ came' \in 0 .. Burst
                   /\ rxQueue' \in 0 .. RxQueueDepth
                   /\ rxOverrun' \in 0 .. CounterCap /\ rxDropped' \in 0 .. CounterCap
                   /\ lost' \subseteq {"fifo", "queue", "log"}
                   /\ AllPresent' /\ LossesCounted'
<1>5. Goal => IInv'
  <2> SUFFICES ASSUME Goal PROVE IInv' OBVIOUS
  <2>1. TypeOK' BY <1>1 DEF IInv, TypeOK, HalCallsTick
  <2> QED BY <1>2, <2>1 DEF IInv
<1>6. ASSUME rxQueue' = rxQueue \/ ("s_rx_queue" \in made /\ rxQueue' = rxQueue + 1),
             made' = made, status' = status, logQueue' = logQueue
      PROVE  AllPresent'
  BY <1>6 DEF IInv, AllPresent
<1>7. ASSUME FrameArrives PROVE Goal
  <2>1. UNCHANGED <<isr, rxQueue, rxOverrun, rxDropped>> BY <1>7 DEF FrameArrives
  <2>2. came' \in 0 .. Burst
    <3>1. CASE isr = "draining"
      <4>1. came' = came + 1 /\ came < Burst BY <1>7, <3>1 DEF FrameArrives
      <4> QED BY <1>3, <4>1, StartupAssumption
    <3>2. CASE isr # "draining"
      <4>1. came' = came BY <1>7, <3>2 DEF FrameArrives
      <4> QED BY <1>3, <4>1
    <3> QED BY <3>1, <3>2
  <2>3. CASE rxFifo < RxFifoSize
    <3>1. rxFifo' = rxFifo + 1 /\ flags' = flags \union {"NEW"} /\ lost' = lost
      BY <1>7, <2>3 DEF FrameArrives
    <3>2. rxFifo' \in 0 .. RxFifoSize BY <1>3, <2>3, <3>1, StartupAssumption
    <3>3. LossesCounted' BY <1>1, <2>1, <3>1 DEF IInv, LossesCounted
    <3>4. AllPresent' BY <1>1, <1>6, <2>1
    <3>5. flags' \subseteq {"NEW", "LOST"} BY <1>3, <3>1
    <3> QED BY <1>3, <2>1, <2>2, <3>1, <3>2, <3>3, <3>4, <3>5
  <2>4. CASE ~(rxFifo < RxFifoSize)
    <3>1. flags' = flags \union {"LOST"} /\ lost' = lost \union {"fifo"} /\ rxFifo' = rxFifo
      BY <1>7, <2>4 DEF FrameArrives
    <3>2. LossesCounted' BY <1>1, <2>1, <3>1 DEF IInv, LossesCounted
    <3>3. AllPresent' BY <1>1, <1>6, <2>1
    <3> QED BY <1>3, <2>1, <2>2, <3>1, <3>2, <3>3
  <2> QED BY <2>3, <2>4
<1>8. ASSUME RxInterrupt PROVE Goal
  <2>1. UNCHANGED <<rxFifo, rxQueue, rxDropped, lost>> /\ flags' = {} /\ came' = 0
        /\ isr' \in {"idle", "draining"}
    BY <1>8 DEF RxInterrupt
  <2>2. AllPresent' BY <1>1, <1>6, <2>1
  <2>3. rxOverrun' = IF "LOST" \in flags THEN Bump(rxOverrun) ELSE rxOverrun
    BY <1>8 DEF RxInterrupt, CountsOverrun
  <2>4. rxOverrun' \in 0 .. CounterCap BY <1>3, <1>4, <2>3
  <2>5. LossesCounted' BY <1>1, <1>4, <2>1, <2>3 DEF IInv, LossesCounted
  <2>6. 0 \in 0 .. Burst BY StartupAssumption
  <2> QED BY <1>3, <2>1, <2>2, <2>4, <2>5, <2>6
<1>9. ASSUME Drain PROVE Goal
  <2>1. UNCHANGED <<flags, came, rxOverrun>> BY <1>9 DEF Drain
  <2>2. CASE rxFifo = 0
    <3>1. isr' = "idle" /\ UNCHANGED <<rxFifo, rxQueue, rxDropped, lost>>
      BY <1>9, <2>2 DEF Drain
    <3>2. AllPresent' BY <1>1, <1>6, <3>1
    <3>3. LossesCounted' BY <1>1, <2>1, <3>1 DEF IInv, LossesCounted
    <3> QED BY <1>3, <2>1, <3>1, <3>2, <3>3
  <2>3. CASE rxFifo # 0
    <3>1. rxFifo' = rxFifo - 1 /\ isr' = "draining" BY <1>9, <2>3 DEF Drain, GoesOn
    <3>2. rxFifo' \in 0 .. RxFifoSize BY <1>3, <2>3, <3>1, StartupAssumption
    <3>3. CASE "s_rx_queue" \in made /\ rxQueue < RxQueueDepth
      <4>1. rxQueue' = rxQueue + 1 /\ rxDropped' = rxDropped /\ lost' = lost
        BY <1>9, <2>3, <3>3 DEF Drain
      <4>2. rxQueue' \in 0 .. RxQueueDepth BY <1>3, <3>3, <4>1, StartupAssumption
      <4>3. AllPresent' BY <1>1, <1>6, <3>3, <4>1
      <4>4. LossesCounted' BY <1>1, <2>1, <4>1 DEF IInv, LossesCounted
      <4> QED BY <1>3, <2>1, <3>1, <3>2, <4>1, <4>2, <4>3, <4>4
    <3>4. CASE ~("s_rx_queue" \in made /\ rxQueue < RxQueueDepth)
      <4>1. rxQueue' = rxQueue /\ rxDropped' = Bump(rxDropped) /\ lost' = lost \union {"queue"}
        BY <1>9, <2>3, <3>4 DEF Drain
      <4>2. AllPresent' BY <1>1, <1>6, <4>1
      <4>3. LossesCounted' BY <1>1, <1>4, <2>1, <4>1 DEF IInv, LossesCounted
      <4> QED BY <1>3, <1>4, <2>1, <3>1, <3>2, <4>1, <4>2, <4>3
    <3> QED BY <3>3, <3>4
  <2> QED BY <2>2, <2>3
<1> QED BY <1>5, <1>7, <1>8, <1>9

LEMMA TaskStep ==
    ASSUME IInv,
           \/ ReceiveFrame \/ WriteLine
           \/ \E t \in Loggers : Log(t) \/ LoadDropped(t) \/ StoreDropped(t)
    PROVE  IInv'
<1> USE DEF boot, receive
<1>1. /\ UNCHANGED <<status, step, waited, masked, led, uart, message, made>>
      /\ status = "running"
  BY DEF ReceiveFrame, WriteLine, Log, LoadDropped, StoreDropped, Runs
<1>2. MadeInOrder' /\ MaskedByKernel' BY <1>1 DEF IInv, MadeInOrder, MaskedByKernel
<1>3. /\ rxQueue \in 0 .. RxQueueDepth /\ logQueue \in 0 .. LogQueueDepth
      /\ dropped \in 0 .. CounterCap /\ logger \in [Loggers -> LoggerType]
      /\ lost \subseteq {"fifo", "queue", "log"}
  BY DEF IInv, TypeOK, LoggerType
<1>4. "s_queue" \in made BY <1>1 DEF IInv, AllPresent, Queues
<1>5. UNCHANGED <<rxFifo, flags, isr, came, rxOverrun, rxDropped>>
  BY DEF ReceiveFrame, WriteLine, Log, LoadDropped, StoreDropped
<1> DEFINE Goal == /\ rxQueue' \in 0 .. RxQueueDepth /\ logQueue' \in 0 .. LogQueueDepth
                   /\ dropped' \in 0 .. CounterCap /\ logger' \in [Loggers -> LoggerType]
                   /\ lost' \subseteq {"fifo", "queue", "log"}
                   /\ AllPresent' /\ LossesCounted'
<1>6. Goal => IInv'
  <2> SUFFICES ASSUME Goal PROVE IInv' OBVIOUS
  <2>1. TypeOK' BY <1>1, <1>5 DEF IInv, TypeOK, HalCallsTick, LoggerType
  <2> QED BY <1>2, <2>1 DEF IInv
<1>7. ASSUME ReceiveFrame PROVE Goal
  BY <1>1, <1>3, <1>7, StartupAssumption DEF ReceiveFrame, logging, IInv, AllPresent, LossesCounted
<1>8. ASSUME WriteLine PROVE Goal
  BY <1>1, <1>3, <1>8, StartupAssumption DEF WriteLine, IInv, AllPresent, LossesCounted
<1>9. ASSUME NEW t \in Loggers, Log(t) PROVE Goal
  <2>1. logger[t] \in LoggerType BY <1>3
  <2>2. CASE logQueue < LogQueueDepth
    BY <1>1, <1>3, <1>4, <1>9, <2>2, StartupAssumption
       DEF Log, IInv, AllPresent, LossesCounted
  <2>3. CASE ~(logQueue < LogQueueDepth)
    <3>1. logger' \in [Loggers -> LoggerType] /\ logger'[t].at = "load"
      BY <1>3, <1>9, <2>1, <2>3 DEF Log, LoggerType
    <3> QED BY <1>1, <1>3, <1>9, <2>3, <3>1 DEF Log, IInv, AllPresent, LossesCounted
  <2> QED BY <2>2, <2>3
<1>10. ASSUME NEW t \in Loggers, LoadDropped(t) PROVE Goal
  <2>1. logger' \in [Loggers -> LoggerType] /\ logger'[t].at = "store"
    BY <1>3, <1>10 DEF LoadDropped, LoggerType
  <2> QED BY <1>1, <1>3, <1>10, <2>1 DEF LoadDropped, IInv, AllPresent, LossesCounted
<1>11. ASSUME NEW t \in Loggers, StoreDropped(t) PROVE Goal
  <2>1. logger[t].loaded \in 0 .. CounterCap BY <1>3 DEF LoggerType
  <2>2. dropped' \in 0 .. CounterCap /\ dropped' # 0
    BY <1>11, <2>1, BumpFacts DEF StoreDropped
  <2>3. logger' \in [Loggers -> LoggerType]
    BY <1>3, <1>11, StartupAssumption DEF StoreDropped, LoggerType
  <2> QED BY <1>1, <1>3, <1>11, <2>2, <2>3 DEF StoreDropped, IInv, AllPresent, LossesCounted
<1> QED BY <1>6, <1>7, <1>8, <1>9, <1>10, <1>11

--------------------------------------------------------------------------------
(* Theorems *)

LEMMA StepIInv == IInv /\ [Next]_vars => IInv'
<1>1. IInv /\ UNCHANGED vars => IInv'
  BY DEF vars, boot, receive, logging, IInv, TypeOK, HalCallsTick, MadeInOrder, MaskedByKernel,
         AllPresent, LossesCounted
<1>2. IInv /\ Next => IInv'
  BY <1>1, MainStep, ReceptionStep, TaskStep DEF Next, StayHere
<1> QED BY <1>1, <1>2

THEOREM Inductive == Spec => []IInv
BY InitIInv, StepIInv, PTL DEF Spec

\* FIFO and queues keep to their sizes, and no HAL call waits for a masked tick.
THEOREM TypeCorrect == Spec => []TypeOK
<1>1. IInv => TypeOK BY DEF IInv
<1> QED BY <1>1, Inductive, PTL

\* The tasks never run without one of them or without an object they use.
THEOREM NothingMissing == Spec => []AllPresent
<1>1. IInv => AllPresent BY DEF IInv
<1> QED BY <1>1, Inductive, PTL

\* No frame and no line is lost without a count.
THEOREM NoSilentLoss == Spec => []LossesCounted
<1>1. IInv => LossesCounted BY DEF IInv
<1> QED BY <1>1, Inductive, PTL

\* A frame in the FIFO is never without its flag or the interrupt that drains it: what
\* NoFrameStuck needs of every state.
THEOREM NoneForgotten == Spec => []FramesAnnounced
<1>1. Init => FramesAnnounced BY DEF Init, FramesAnnounced
<1>2. ASSUME FramesAnnounced, [Next]_vars PROVE FramesAnnounced'
  <2>1. CASE FrameArrives BY <1>2, <2>1 DEF FrameArrives, FramesAnnounced
  <2>2. CASE RxInterrupt BY <1>2, <2>2 DEF RxInterrupt, FramesAnnounced
  <2>3. CASE Drain BY <2>3 DEF Drain, FramesAnnounced, GoesOn
  <2>4. CASE \/ Main \/ HalTick \/ Fault \/ StayHere \/ ReceiveFrame \/ WriteLine
            \/ (\E h \in HalCalls : HalAnswers(h) \/ HalError(h))
            \/ (\E t \in Loggers : Log(t) \/ LoadDropped(t) \/ StoreDropped(t))
            \/ UNCHANGED vars
    <3>1. UNCHANGED <<rxFifo, flags, isr>>
      BY <2>4 DEF Main, HalTimesOut, HalError, CallFails, HalAnswers, GpioInit, Banner,
                  StartScheduler, Create, CreateFails, HalTick, Fault, StayHere, ReceiveFrame,
                  WriteLine, Log, LoadDropped, StoreDropped, vars, receive
    <3> QED BY <1>2, <3>1 DEF FramesAnnounced
  <2> QED BY <1>2, <2>1, <2>2, <2>3, <2>4 DEF Next
<1> QED BY <1>1, <1>2, PTL DEF Spec

\* Start-up never stands still by what main or the tick does, nor goes back; a HAL call,
\* whose ticks are the only thing that main waits for, is never made while they are
\* masked (HalCallsTick, in TypeCorrect).
THEOREM TasksNear == Spec => NearsTasks
<1> DEFINE A == status = "booting" =>
                   \/ status' # "booting"
                   \/ step' = step + 1
                   \/ step' = step /\ waited' = waited + 1
                   \/ UNCHANGED <<step, waited>> /\ ~Main /\ ~HalTick
<1>1. ASSUME [Next]_vars, status = "booting"
      PROVE  \/ status' # "booting"
             \/ step' = step + 1
             \/ step' = step /\ waited' = waited + 1
             \/ UNCHANGED <<step, waited>> /\ ~Main /\ ~HalTick
  <2>1. CASE Main
    <3>1. CASE \E s \in HalCalls : HalTimesOut(s)
      <4>1. status' # "booting" BY <3>1 DEF HalTimesOut, CallFails, Die
      <4> QED BY <4>1
    <3>2. CASE GpioInit \/ Banner \/ \E o \in (Queues \union Tasks) \ {"idle"} : Create(o)
      <4>1. step' = step + 1 BY <3>2 DEF GpioInit, Banner, Create, Continue
      <4> QED BY <4>1
    <3>3. CASE StartScheduler
      <4>1. status' # "booting" BY <3>3 DEF StartScheduler
      <4> QED BY <4>1
    <3>4. CASE \E o \in Queues \union Tasks : CreateFails(o)
      <4>1. status' # "booting" \/ step' = step + 1 BY <3>4 DEF CreateFails, Die, Continue
      <4> QED BY <4>1
    <3> QED BY <2>1, <3>1, <3>2, <3>3, <3>4 DEF Main
  <2>2. CASE HalTick
    <3>1. step' = step /\ waited' = waited + 1 BY <2>2 DEF HalTick
    <3> QED BY <3>1
  <2>3. CASE ~Main /\ ~HalTick
    <3>1. CASE Fault \/ StayHere \/ \E s \in HalCalls : HalError(s)
      <4>1. status' # "booting" BY <1>1, <3>1 DEF Fault, StayHere, HalError, CallFails, Die
      <4> QED BY <4>1
    <3>2. CASE \E s \in HalCalls : HalAnswers(s)
      <4>1. step' = step + 1 BY <3>2 DEF HalAnswers, Continue
      <4> QED BY <4>1
    <3>3. CASE \/ FrameArrives \/ RxInterrupt \/ Drain \/ ReceiveFrame \/ WriteLine
              \/ (\E t \in Loggers : Log(t) \/ LoadDropped(t) \/ StoreDropped(t))
              \/ UNCHANGED vars
      <4>1. UNCHANGED boot
        BY <3>3 DEF FrameArrives, RxInterrupt, Drain, ReceiveFrame, WriteLine, Log,
                    LoadDropped, StoreDropped, vars
      <4> QED BY <2>3, <4>1 DEF boot
    <3> QED BY <1>1, <2>3, <3>1, <3>2, <3>3 DEF Next
  <2> QED BY <2>1, <2>2, <2>3
<1>2. [Next]_vars => [A]_vars BY <1>1
<1> QED BY <1>2, PTL DEF Spec, NearsTasks
================================================================================
