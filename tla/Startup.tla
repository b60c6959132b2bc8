-------------------------------- MODULE Startup ---------------------------------
(***************************************************************************)
(* main.c, board.c, app_start, the receive interrupt and the log: a node     *)
(* from reset to its tasks.  main() runs its steps one after the other;      *)
(* HAL calls wait for hardware that may never answer, allocations may fail,  *)
(* frames arrive as soon as the CAN controller runs, and the kernel masks     *)
(* interrupts from its first object to the start of the scheduler.  Once the *)
(* tasks run, those that log share the queue and the drop counter of log.c.  *)
(***************************************************************************)
EXTENDS Integers, Sequences

CONSTANTS
    EnableDisplay,  \* RJS_ENABLE_DISPLAY
    HalTimeout,     \* HAL ticks after which a HAL call gives up
    RxFifoSize,     \* frames the CAN controller holds for reception
    RxQueueDepth,   \* RX_QUEUE_DEPTH
    LogQueueDepth,  \* LOG_QUEUE_DEPTH
    Loggers,        \* the tasks that log, by priority
    CanRx,          \* PRIO_CAN_RX
    Burst,          \* most frames that arrive while one interrupt is served
    CounterCap      \* counters are told apart up to this value

ASSUME StartupAssumption ==
    /\ EnableDisplay \in BOOLEAN
    /\ HalTimeout \in Nat /\ RxFifoSize \in Nat \ {0}
    /\ RxQueueDepth \in Nat \ {0} /\ LogQueueDepth \in Nat \ {0}
    /\ Loggers \subseteq Nat \ {0, 1} /\ CanRx \in Loggers
    /\ Burst \in Nat /\ CounterCap \in Nat \ {0}

VARIABLES
    status,     \* "booting", "running", "fatal" (board_fatal) or "stuck" (uart_init)
    step,       \* the step of Program that main has come to
    waited,     \* HAL ticks the HAL call of this step has taken
    masked,     \* has the kernel masked interrupts?
    led,        \* error LED: "floating" until gpio_init, then "off" or "on"
    uart,       \* does the UART work?
    message,    \* did the message of board_fatal get out?
    made,       \* kernel objects and tasks created
    rxFifo,     \* frames in the receive FIFO of the CAN controller
    flags,      \* its pending interrupt flags: "NEW", "LOST"
    isr,        \* the receive interrupt: "idle" or "draining"
    came,       \* frames that arrived while it was served
    rxQueue,    \* frames in s_rx_queue
    rxOverrun, rxDropped,   \* s_rx_overrun, s_stats.rx_dropped
    logQueue,   \* lines in s_queue of log.c
    dropped,    \* s_dropped
    logger,     \* what each task does in rjs_log, and the counter it has loaded
    lost        \* history: what was lost at "fifo", "queue" or "log"

boot == <<status, step, waited, masked, led, uart, message, made>>
receive == <<rxFifo, flags, isr, came, rxQueue, rxOverrun, rxDropped>>
logging == <<logQueue, dropped, logger>>
vars == <<boot, receive, logging, lost>>

Bump(c) == IF c < CounterCap THEN c + 1 ELSE c

--------------------------------------------------------------------------------
(* The program of main *)

BoardInit == <<"voltage", "oscillator", "clock", "gpio", "uart">>

\* The CAN controller first, because its HAL calls need the HAL tick, then the kernel
\* objects and tasks; the mutant has the queues first.
AppStartQueuesFirst ==
    <<"s_rx_queue", "s_cmd_queue", "s_tx_mutex", "can", "s_queue", "log",
      "banner", "banner", "banner", "control", "can_rx", "comms", "stats">>
AppStart ==
    <<"can", "s_rx_queue", "s_cmd_queue", "s_tx_mutex", "s_queue", "log",
      "banner", "banner", "banner", "control", "can_rx", "comms", "stats">>
Program ==
    BoardInit \o AppStart \o (IF EnableDisplay THEN <<"ui", "idle">> ELSE <<"idle">>)

HalCalls == {"voltage", "oscillator", "clock", "uart", "can"}
Queues == {"s_rx_queue", "s_cmd_queue", "s_tx_mutex", "s_queue"}
Tasks == {"log", "control", "can_rx", "comms", "stats", "idle"}
             \union (IF EnableDisplay THEN {"ui"} ELSE {})

\* Objects whose creation the code checks in a way that can fail: by configASSERT, or
\* because vTaskStartScheduler returns.  (pdPASS & errCOULD_NOT_ALLOCATE is pdPASS, so
\* that ok in app_start stays pdPASS.)
Checked == Queues \union {"log", "ui", "idle"}

Init ==
    /\ status = "booting" /\ step = 1 /\ waited = 0 /\ masked = FALSE
    /\ led = "floating" /\ uart = FALSE /\ message = FALSE /\ made = {}
    /\ rxFifo = 0 /\ flags = {} /\ isr = "idle" /\ came = 0
    /\ rxQueue = 0 /\ rxOverrun = 0 /\ rxDropped = 0
    /\ logQueue = 0 /\ dropped = 0
    /\ logger = [t \in Loggers |-> [at |-> "away", loaded |-> 0]]
    /\ lost = {}

--------------------------------------------------------------------------------
(* main, before the scheduler *)

\* main is at step s, and not interrupted.
At(s) == status = "booting" /\ isr = "idle" /\ Program[step] = s

Continue == step' = step + 1 /\ UNCHANGED status

\* board_fatal: interrupts off, LED on, message out; the pin must be an output and the
\* UART initialised to that end.
Die ==
    /\ status' = "fatal"
    /\ led' = IF led = "floating" THEN led ELSE "on"
    /\ message' = uart

\* The HAL call does what it should ...
HalAnswers(s) ==
    /\ At(s) /\ Continue
    /\ waited' = 0
    /\ uart' = (uart \/ s = "uart")
    /\ UNCHANGED <<masked, led, message, made, receive, logging, lost>>

\* ... or returns an error: without a UART there is no message, only the LED.
CallFails(s) ==
    /\ IF s = "uart" THEN status' = "stuck" /\ led' = "on" /\ UNCHANGED message ELSE Die
    /\ UNCHANGED <<step, waited, masked, uart, made, receive, logging, lost>>
HalError(s) == At(s) /\ CallFails(s)
HalTimesOut(s) == At(s) /\ waited = HalTimeout /\ CallFails(s)

\* SysTick_Handler, as far as HAL calls wait for it; its priority is the lowest.
HalTick ==
    /\ \E s \in HalCalls : At(s)
    /\ ~masked /\ waited < HalTimeout
    /\ waited' = waited + 1
    /\ UNCHANGED <<status, step, masked, led, uart, message, made, receive, logging, lost>>

GpioInit ==
    /\ At("gpio") /\ Continue
    /\ led' = "off"
    /\ UNCHANGED <<waited, masked, uart, message, made, receive, logging, lost>>

\* A queue, mutex or task is created.  The kernel leaves interrupts masked from the first
\* one on.
Create(o) ==
    /\ At(o) /\ Continue
    /\ made' = made \union {o} /\ masked' = TRUE
    /\ UNCHANGED <<waited, led, uart, message, receive, logging, lost>>

\* The heap is exhausted: vApplicationMallocFailedHook calls board_fatal.  The mutant has
\* no hook, so that only checked objects are missed.
NoHook == FALSE
HookStops == TRUE
CreateFails(o) ==
    /\ At(o)
    /\ masked' = TRUE
    /\ IF HookStops \/ o \in Checked THEN Die /\ UNCHANGED step
       ELSE Continue /\ UNCHANGED <<led, message>>
    /\ UNCHANGED <<waited, uart, made, receive, logging, lost>>

\* rjs_log by app_start: nobody else runs yet.
Banner ==
    /\ At("banner") /\ Continue
    /\ IF logQueue < LogQueueDepth
       THEN logQueue' = logQueue + 1 /\ UNCHANGED <<dropped, lost>>
       ELSE /\ dropped' = Bump(dropped) /\ lost' = lost \union {"log"}
            /\ UNCHANGED logQueue
    /\ UNCHANGED <<waited, masked, led, uart, message, made, receive, logger>>

\* vTaskStartScheduler creates the idle task and unmasks interrupts.
StartScheduler ==
    /\ At("idle")
    /\ status' = "running" /\ made' = made \union {"idle"} /\ masked' = FALSE
    /\ UNCHANGED <<step, waited, led, uart, message, receive, logging, lost>>

\* A fault exception, a failed assertion or a stack overflow, at any time.
Fault ==
    /\ status \in {"booting", "running"}
    /\ Die
    /\ UNCHANGED <<step, waited, masked, uart, made, receive, logging, lost>>

\* The for (;;) after a failure.
StayHere == status \in {"fatal", "stuck"} /\ UNCHANGED vars

--------------------------------------------------------------------------------
(* Reception *)

\* rjs_can_init has started the CAN controller.
CanStarted == \E i \in 1 .. step - 1 : Program[i] = "can"

\* A frame is received; a full FIFO loses it.
FrameArrives ==
    /\ CanStarted
    /\ isr = "draining" => came < Burst
    /\ came' = IF isr = "draining" THEN came + 1 ELSE came
    /\ IF rxFifo < RxFifoSize
       THEN rxFifo' = rxFifo + 1 /\ flags' = flags \union {"NEW"} /\ UNCHANGED lost
       ELSE flags' = flags \union {"LOST"} /\ lost' = lost \union {"fifo"} /\ UNCHANGED rxFifo
    /\ UNCHANGED <<boot, isr, rxQueue, rxOverrun, rxDropped, logging>>

\* HAL_FDCAN_IRQHandler takes the flags and calls HAL_FDCAN_RxFifo0Callback, whose first
\* half counts an overrun; the mutant returns first when there is no new message.
CountsOverrunIfNew(taken) == "LOST" \in taken /\ "NEW" \in taken
CountsOverrun(taken) == "LOST" \in taken
RxInterrupt ==
    /\ status \in {"booting", "running"} /\ ~masked
    /\ isr = "idle" /\ flags # {}
    /\ flags' = {} /\ came' = 0
    /\ rxOverrun' = IF CountsOverrun(flags) THEN Bump(rxOverrun) ELSE rxOverrun
    /\ isr' = IF "NEW" \in flags THEN "draining" ELSE "idle"
    /\ UNCHANGED <<boot, rxFifo, rxQueue, rxDropped, logging, lost>>

\* A round of its loop: HAL_FDCAN_GetRxMessage and can_rx_isr.  The mutant takes one frame
\* an interrupt (if for while).
GoesOnOnce == "idle"
GoesOn == "draining"
Drain ==
    /\ status \in {"booting", "running"}
    /\ isr = "draining"
    /\ IF rxFifo = 0 THEN isr' = "idle" /\ UNCHANGED <<rxFifo, rxQueue, rxDropped, lost>>
       ELSE /\ rxFifo' = rxFifo - 1 /\ isr' = GoesOn
            /\ IF "s_rx_queue" \in made /\ rxQueue < RxQueueDepth
               THEN rxQueue' = rxQueue + 1 /\ UNCHANGED <<rxDropped, lost>>
               ELSE /\ rxDropped' = Bump(rxDropped) /\ lost' = lost \union {"queue"}
                    /\ UNCHANGED rxQueue
    /\ UNCHANGED <<boot, flags, came, rxOverrun, logging>>

--------------------------------------------------------------------------------
(* The tasks *)

\* May a task of priority p run?  Tasks inside rjs_log are ready, can_rx is while its
\* queue holds frames, and the interrupt comes before all of them.
Runs(p) ==
    /\ status = "running" /\ isr = "idle"
    /\ \A t \in Loggers : t > p => logger[t].at = "away"
    /\ rxQueue > 0 => p >= CanRx

ReceiveFrame ==
    /\ Runs(CanRx) /\ logger[CanRx].at = "away" /\ rxQueue > 0
    /\ rxQueue' = rxQueue - 1
    /\ UNCHANGED <<boot, rxFifo, flags, isr, came, rxOverrun, rxDropped, logging, lost>>

\* rjs_log: the line goes to the queue if there is room ...
Log(t) ==
    /\ Runs(t) /\ logger[t].at = "away"
    /\ IF logQueue < LogQueueDepth
       THEN logQueue' = logQueue + 1 /\ UNCHANGED <<logger, lost>>
       ELSE /\ logger' = [logger EXCEPT ![t].at = "load"]
            /\ lost' = lost \union {"log"}
            /\ UNCHANGED logQueue
    /\ UNCHANGED <<boot, receive, dropped>>

\* ... or s_dropped++, which is a load and a store.
LoadDropped(t) ==
    /\ Runs(t) /\ logger[t].at = "load"
    /\ logger' = [logger EXCEPT ![t] = [at |-> "store", loaded |-> dropped]]
    /\ UNCHANGED <<boot, receive, logQueue, dropped, lost>>

StoreDropped(t) ==
    /\ Runs(t) /\ logger[t].at = "store"
    /\ dropped' = Bump(logger[t].loaded)
    /\ logger' = [logger EXCEPT ![t] = [at |-> "away", loaded |-> 0]]
    /\ UNCHANGED <<boot, receive, logQueue, lost>>

\* log_task takes a line to write it to the UART, at the lowest priority.
WriteLine ==
    /\ Runs(1) /\ logQueue > 0
    /\ logQueue' = logQueue - 1
    /\ UNCHANGED <<boot, receive, dropped, logger, lost>>

--------------------------------------------------------------------------------
\* What main does of itself; whether a HAL call answers is up to the hardware.
Main ==
    \/ \E s \in HalCalls : HalTimesOut(s)
    \/ GpioInit \/ Banner \/ StartScheduler
    \/ \E o \in (Queues \union Tasks) \ {"idle"} : Create(o)
    \/ \E o \in Queues \union Tasks : CreateFails(o)

Next ==
    \/ Main \/ HalTick \/ Fault \/ StayHere
    \/ \E s \in HalCalls : HalAnswers(s) \/ HalError(s)
    \/ FrameArrives \/ RxInterrupt \/ Drain \/ ReceiveFrame
    \/ \E t \in Loggers : Log(t) \/ LoadDropped(t) \/ StoreDropped(t)
    \/ WriteLine

Spec == Init /\ [][Next]_vars

\* The tick and the interrupt come when they are not masked; main goes on, although the
\* interrupt may delay it again and again.
Fairness ==
    /\ WF_vars(HalTick) /\ WF_vars(RxInterrupt) /\ WF_vars(Drain)
    /\ SF_vars(Main)

FairSpec == Spec /\ Fairness

--------------------------------------------------------------------------------
(* Properties *)

\* The type of every variable; FIFO and queues keep to their sizes, and no HAL call is made
\* while the tick it counts on is masked.
HalCallsTick == status = "booting" /\ Program[step] \in HalCalls => ~masked
TypeOK ==
    /\ HalCallsTick
    /\ status \in {"booting", "running", "fatal", "stuck"}
    /\ step \in 1 .. Len(Program) /\ waited \in 0 .. HalTimeout
    /\ masked \in BOOLEAN /\ uart \in BOOLEAN /\ message \in BOOLEAN
    /\ led \in {"floating", "off", "on"}
    /\ made \subseteq Queues \union Tasks
    /\ rxFifo \in 0 .. RxFifoSize /\ flags \subseteq {"NEW", "LOST"}
    /\ isr \in {"idle", "draining"} /\ came \in 0 .. Burst
    /\ rxQueue \in 0 .. RxQueueDepth /\ logQueue \in 0 .. LogQueueDepth
    /\ rxOverrun \in 0 .. CounterCap /\ rxDropped \in 0 .. CounterCap
    /\ dropped \in 0 .. CounterCap
    /\ logger \in [Loggers -> [at : {"away", "load", "store"}, loaded : 0 .. CounterCap]]
    /\ lost \subseteq {"fifo", "queue", "log"}

\* The tasks never run without one of them, or without a queue or the mutex, whatever
\* allocation failed; and nothing is put into a queue that is not there, although frames
\* arrive before s_rx_queue exists.
AllPresent ==
    /\ status = "running" => Queues \union Tasks \subseteq made
    /\ rxQueue > 0 => "s_rx_queue" \in made
    /\ logQueue > 0 => "s_queue" \in made

\* No loss is silent: a frame lost in the FIFO of the controller, a frame that found no
\* room in s_rx_queue, a line that found none in the log shows in a counter as soon as
\* the interrupt is served, or the task comes back from rjs_log, although tasks that
\* preempt each other take counts of lines from each other.
LossesCounted ==
    /\ "fifo" \in lost => rxOverrun # 0 \/ "LOST" \in flags
    /\ "queue" \in lost => rxDropped # 0
    /\ "log" \in lost /\ (\A t \in Loggers : logger[t].at = "away") => dropped # 0

\* What main has passed is made, and the kernel masks interrupts from its first object on.
MadeInOrder ==
    \A i \in 1 .. step - 1 : Program[i] \in Queues \union Tasks => Program[i] \in made
MaskedByKernel == masked /\ status = "booting" => step >= 7

\* These are inductive together (see StartupProofs).
IInv == TypeOK /\ MadeInOrder /\ MaskedByKernel /\ AllPresent /\ LossesCounted

\* Start-up comes to an end, whatever hardware never answers: the node runs, or it has
\* stopped for good.  HAL calls time out by the tick, so that all of them have to come
\* before the kernel masks it (the comment in app_start).
StartsOrStops == <>(status # "booting")

\* What makes StartsOrStops hold, step by step: whatever main or the tick does before the
\* tasks run takes main to its next step, its HAL call nearer to giving up, or ends
\* start-up; and nothing else takes it back.
NearsTasks ==
    [][status = "booting" =>
          \/ status' # "booting"
          \/ step' = step + 1
          \/ step' = step /\ waited' = waited + 1
          \/ UNCHANGED <<step, waited>> /\ ~Main /\ ~HalTick]_vars

\* What NoFrameStuck rests on: a frame in the FIFO is announced by its flag or is being
\* drained, in every state.
FramesAnnounced == rxFifo > 0 => "NEW" \in flags \/ isr = "draining"

\* A frame does not stay in the controller until the next one arrives: one interrupt for
\* several frames, and frames that arrived while interrupts were masked, are not forgotten.
NoFrameStuck == status = "running" /\ rxFifo > 0 ~> rxFifo = 0 \/ status = "fatal"
================================================================================
