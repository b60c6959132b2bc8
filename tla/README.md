# Verification of robot-joint-stack

TLA+ models of the firmware of a robot joint node, checked with TLC, and theorems about them
checked with TLAPS. Paths are those of the repository; line numbers of single definitions are in
`PROJECT.json` ("map").

## 1. The system

Up to 127 boards share a CAN FD bus. Each runs the same firmware (`app/joint_node`); node 1 is the
controller. Four FreeRTOS tasks matter, scheduled by fixed priority with preemption:

    FDCAN interrupt --> s_rx_queue --> can_rx (4) --> s_cmd_queue --> control (5, 1 kHz)
                                         |  node monitor                |  joint model
                                         |                              v
    bus <-- 3-deep TX FIFO <-- mutex <-- comms (3, 10 Hz) <-- snapshot + flags
                                ^------- control (JOINT_STATE, 100 Hz)
    stats (2), ui (2), log (1): readers and output

| Component | State it keeps | Operations | What makes it correct | Hard part |
|---|---|---|---|---|
| joint model (`common/joint`) | mode, position, velocity, target, timer, flags | `rjs_joint_command`, `rjs_joint_step` | position in its limits; speed it can stop from; target never passed and always reached; timeout exact; standstill | truncating arithmetic, arbitrary order of commands and steps |
| node supervision (`common/node`, `can_rx_task`) | table of peers: status, last seen, last uptime; its copy for the display | heartbeat, poll, find, count, publish | no node given up early or late, one slot a node, resets reported, display not out of date | lost frames, resets, full table, wrap of two counters |
| tasks (`app.c`) | queues, mutex, snapshot, counters, sweep switch | rounds of three tasks, receive interrupt | consistent snapshot, exclusion, joint stops when commands stop | preemption between any two accesses |
| command path (`app.c`, `hal_can_fdcan.c`) | TX FIFO, bus-off state, timeout of every joint | send, deliver, retransmit, bus-off callback | commands in order, bounded staleness, all stop, all follow | unplugging, short circuits, bus-off, restarts, stale frames |
| wire protocol (`common/protocol`) | none | encode, decode, identifiers, DLC | round trip, refusal of commands that must never be executed | boundary values, other versions and lengths |
| CAN bit timing (`common/hal/can_timing.c`) | none | `rjs_can_calc_timing` | exact bitrate, nearest sample point, smallest prescaler | rounding, early exit of the search |
| text screen, display, ui (`common/ui`, `display_st7789.c`, `ui.c`) | cells and change marks; drawing window, DMA transfer, semaphore | init, fill, render, flush, blit, interrupts | every change reaches the panel, transfers do not overlap, ui never hangs | late interrupts, failed transfers, ignored errors |
| bring-up (`main.c`, `board.c`, `app_start`) | clocks, LED, UART, kernel objects, interrupt mask | `board_init`, `rjs_can_init`, creations, `vTaskStartScheduler`, `board_fatal` | nothing runs half built, start-up ends | silent hardware, exhausted heap, masked tick, failures before LED and UART |
| reception (`hal_can_fdcan.c`, `can_rx_isr`) | RX FIFO and flags of the controller, `s_rx_queue`, two counters | interrupt, its loop | no frame stuck, no silent loss | frames before the queue exists, several frames an interrupt |
| log (`log.c`) | queue of lines, count of drops | `rjs_log`, `log_task` | no silent loss | unlocked counter |
| HAL configuration, C library stubs, font, host tools, tests | - | - | - | - |

Components interact by calls (control calls the joint model, can_rx the node monitor), by queues
(`s_rx_queue`, `s_cmd_queue`), by shared data under a critical section (`s_joint_snapshot`,
`s_joint_flags`) or without one (`s_stats`), by the transmit mutex, by interrupts (FDCAN, DMA) and,
between nodes, by frames. "hazards" in `PROJECT.json` lists where each of these can go wrong.

## 2. The modules

| Module | Models | Uses |
|---|---|---|
| `CommandWatchdog` | abstract: a joint drives only on a COMMAND that is young enough | |
| `IntegerRoot`, `IntegerRootProofs` | `isqrt_u64` of `joint.c` | |
| `Joint`, `MCJoint`, `JointProofs` | `joint.c` | `IntegerRoot`; implements `CommandWatchdog` |
| `JointTimer` | mode, PEER_LOST and timer of `joint.c` alone | implemented by `Joint` (`ReducesToTimer`) |
| `FailureDetector` | abstract: when a node may, and when it must, be given up | |
| `NodeMonitor` | `node_monitor.c`, functions on the table | |
| `Supervision`, `SupervisionProofs` | `can_rx_task` feeding the monitor, and the peers | `NodeMonitor`; implements `FailureDetector` |
| `JointNode`, `JointNodeProofs` | the tasks of one node | `JointTimer` |
| `Network`, `NetworkProofs` | the way of a COMMAND through FIFO and bus to all joints | |
| `Startup`, `StartupProofs` | `main.c`, `board.c`, `app_start`, reception, `log.c` | |
| `TextScreen` | `text_screen.c`, functions on the screen | |
| `Display`, `MCDisplay`, `DisplayProofs` | `ui_task` on the ST7789 driver | `TextScreen` |
| `Wire` | `protocol.c` | |
| `CanTiming` | `can_timing.c` | |
| `MCCan`, `CanProofs` | instance of the last two for TLC; theorems about both | `Wire`, `CanTiming` |

A definition marked as a mutant is a plausible bug in the definition that follows it; it is used by
no specification. "mutants" in `PROJECT.json` pairs every checked property with one that breaks it.

### Joint

One action per function. `Command(c)` is `rjs_joint_command`, `Step(dt)` is `rjs_joint_step`: the
timeout check (`Supervise`) followed, on the mode it leaves, by `Brake` or `Drive`. All divisions
truncate as in C (`TruncDiv`). `Isqrt` is the loop of `isqrt_u64`, pass by pass (`Round`), in a word of
`2 * HalfBits` bits (64 in the code); `ProductAssumption` says that the product under the root fits
an `int64_t`, which is the case for all limits and accelerations anywhere near those of `app.c`. `Second` is the divisor 1000 of the code. The fields used
nowhere else (measured current and temperature are constants) are left out. `Commands` are what
`rjs_decode_command` lets through: a mode that is known and, in POSITION mode, a positive velocity,
which `CommandsExecutable` of `Wire` relates to the bytes of the frame.
`quiet` is a history variable: the true age of the last command, in every mode.
Integers are unbounded: configuration and commands are 32-bit, the code computes in 64 bits and
stores a velocity bounded by `SpeedIsStoppable` and by the commanded `int32_t` limit.

### NodeMonitor and Supervision

A table is a sequence of records; `Heard`, `Polled`, `StatusIn`, `AliveCount` are the functions of
`node_monitor.c`, `HeardEvents` and `LostEvents` what they report through the callback. `Supervision`
adds time: `Tick` is a millisecond in which heartbeats become due and any of them may be lost,
`Receive` and `Idle` are rounds of the `can_rx` loop (both end in the poll, as in the code),
`Reset(n)` takes the uptime of a peer to 0. `view` is `s_peer_view`, the first `ViewPeers` entries as
the last round published them. `silence` and `restarts` are history variables.
The counters wrap at `Modulus`.

### JointNode

The unit of time is the control period. Rounds of control are atomic as seen by the lower
priorities, except that control waits in `can_send` when comms holds the mutex. `comms_task` is split
at every access to shared data: `ReadState` and `ReadFlags` (two critical sections), `TakeMutex`,
`CommsSends`, `GiveMutex`, `LoadCounter`, `StoreCounter` (the `++` of `can_send`), `Button`,
`EnqueueOwn`. `CommsRuns` and `RxRuns` are the scheduler: who may run, given who is ready and
that the mutex lends the priority of control to its holder (`Inherits`). That, and preemption at once, is
taken over from the kernel, which is not modelled: an assumption of the checks, not a result. So is that
control ends a round, its wait for the mutex included, within its period (`Tick`). The joint is that of `JointTimer`: mode,
PEER_LOST and timer. `ReducesToTimer` proves that the whole joint changes these as `JointTimer` does,
so that nothing is lost by it. `calls` is a history variable that counts sends without losing any.

### Network

The unit of time is 10 ms. COMMANDs carry their age through the FIFO; `Deliver` hands the oldest
frame to every plugged-in node. Connectors and a short circuit change at most `FaultsPerPeriod`
times a period; a shorted controller may go bus-off, keeping or losing its FIFO; the callback
clears INIT and the hardware rejoins a sound bus. `Restart(n)` resets or power-cycles a node at any
moment: its joint is disabled, and the controller also loses its FIFO and has the sweep on again.
The controller's own joint is commanded even if the frame is dropped, as in `app.c:341-344`. A joint
is mode and timer, as in `JointTimer` (`JointsAreTimers`).

### Startup

`Program` is what `main` calls, in order; `step` is how far it has come. A HAL call returns
(`HalAnswers`), fails (`HalError`) or times out by the HAL tick (`HalTimesOut`); a creation
succeeds or exhausts the heap. The kernel masks interrupts, the tick included, from its
first object to the start of the scheduler. The CAN controller runs before that:
`FrameArrives` fills its receive FIFO, `RxInterrupt` takes the flags, `Drain` is a round of the loop
in the callback. Once the tasks run, `Log(t)`, `LoadDropped(t)` and `StoreDropped(t)` are `rjs_log`
by a task that tasks of higher priority may preempt. `lost` is a history variable. Losses are
counted up to `CounterCap`, where the code's counters wrap at 2^32.

### TextScreen and Display

`Put` is `put_char` for a set of cells, on which all printing rests. The ui task initialises
the panel, or deletes itself, and fills it row by row (`FillRow`, the chunks of a row at once);
then it renders and flushes. A flush takes the marks of a row, then draws its cells from left to
right: `SetWindow`, whose blocking writes may fail without anybody looking, and one DMA transfer.
The transfer is a process of its own: it completes, fails or never ends, at any time, also between
the timeout of the wait and the abort (`raced`, excused by `OneTransferAtATime` and shown by run `display_late`); whoever writes `s_chunk` or deselects the panel
meanwhile cuts it (`Cut`). `spoilt` is the history of cells whose last transfer failed, or
went elsewhere. Foreground and background are one colour.

### Wire and CanTiming

`Layout` gives offset, width and sign of every field; one encoder and one decoder, driven by it,
stand for the eight functions. A byte has `Base` values, so that a small `Base` covers all carries
and signs; `Power` are the code's shifts. `Spec` of `Wire` sends every value the types can hold, and any
byte may be overwritten any number of times (`Overwrite`), so that every content of a frame is reached;
`MCSpec` of `MCCan` sends the values at the ends of their ranges and overwrites a byte of a COMMAND and
then possibly its mode. `CommandsExecutable` compares what the decoder does with a COMMAND, by way of sums,
cast and checks, with the table of `docs/protocol.md` read on the raw bytes (`Executable`). `rjs_can_calc_timing` is compared with `ExactTimings`, written from `can_timing.h`.

## 3. The runs

| Run | States (distinct) | Shows |
|---|---|---|
| `joint` | 8 499 | limits (of speed, of its change, of its gain), braking, arrival, timeout, implementation of the watchdog; standstill and convergence |
| `supervision` | 665 975 | implementation of the failure detector, slots, ages and the display's copy, resets, reboots |
| `supervision_wrap` | violation | the wrap of a peer's uptime is reported as a reboot (finding) |
| `joint_node` | 497 764 | snapshot, counters (no drop hidden, none too high), mutex, stopping, reporting |
| `joint_node_torn` | violation | a heartbeat that is OPERATIONAL with PEER_LOST (finding) |
| `joint_node_count` | violation | lost update of a transmit counter (finding) |
| `network` | 361 571 | order, bounded staleness, all stop, all follow, with restarts |
| `network_stale` | violation | a stale COMMAND drives a joint after reconnection (finding) |
| `display` | 601 194 | completeness of marks, transfers, ui never hangs |
| `display_late` | violation | the task goes on while the transfer of a cell runs, after one that ended late (finding) |
| `can_arithmetic` | 206 191 | wire round trip at any length, commands let through exactly if their bytes allow it, best bit timing |
| `startup` | 47 460 | nothing missing, no silent loss, start-up ends, no frame stuck |

### Bounds, and why they are enough

* `joint`: travel -6..7, velocities up to 15, `Second` 4, acceleration 8, fast targets at both limits and at 3. A step of the velocity is
  2, positions move by up to 3 a step, and velocities below 4 round to no movement, so that
  overshoot, truncation, crawl, ramp and limit clamps all happen, on both sides of zero. The
  timeout of 3 steps leaves room for commands at every age. A word of 10 bits (`HalfBits` 5) holds the
  product under the root, at most 208, and half of the passes of its loop skip zeros at the top. The theorems lift all bounds.
* `supervision`: 2 slots for 3 valid nodes and the identifier 0, a counter of 4 values, timeout 1,
  a view of 1 peer: the table fills up and is cut off, counters wrap several times within one
  silence, a peer is lost and rejoins. `supervision_wrap` has one peer, a counter of 8 and a timeout of 3, so that
  the peer stays alive across the wrap.
  The theorems lift these bounds.
* `joint_node`: a command queue of 2, a FIFO of 1, one COMMAND from the bus a period, a timeout of
  2: queue full, FIFO full and timeout between any two steps of comms. Counters saturate at
  `CounterCap`, where the code's wrap at 2^32: at 2 in `joint_node`, the least that tells a lost update
  from none, and at 3 in the counterexamples of `joint_node_torn` and `joint_node_count`.
* `network`: two peers, a FIFO of 3 as in the hardware, a timeout of 3 periods, one restart or
  change of the wiring a period and any number in all. With a FIFO of 2 `AllFollow` fails: 3 is exactly enough
  for the JOINT_STATE, HEARTBEAT and COMMAND that one period can queue.
* `display`, `display_late`: two rows of one cell, two colours, a string that is cut off. The theorems lift the bounds.
* `startup`: the receive FIFO of 3 as in the hardware, a queue of 2 behind it, one frame more
  during an interrupt; a log of 4 lines, of which the banner takes 3, and two tasks that log. The FIFO and
  the queue overflow before and after the scheduler starts, the log after it. The theorems lift the bounds.
* `can_arithmetic`: base 8, every field at the ends of its range and where its sign or its first carry changes, any byte of a COMMAND set to 0, 1, the least with the top bit
  set or the greatest, and then possibly its mode (which reaches POSITION with a velocity of 0); all requests
  with a clock up to 60 and bitrates up to 3, prescalers up to 4, segments up to 8 and 4.

`CHECK_DEADLOCK FALSE` stands in `MCCan.cfg` only: a message is sent, decoded, and that is all.

### Fairness, and why the code justifies it

* `Joint`: steps go on for ever (control has the highest priority and the tick does not stop).
  Nothing is assumed of commands.
* `JointNode`: weak for tick, control and the transmitter; strong for can_rx and comms, which get
  the processor again and again because all rounds are finite and the load is far below
  capacity, but may be preempted at any step.
* `Network`: weak for time, comms, control, delivery, the bus-off callback and rejoining. Nothing
  is assumed of the wiring; `AllFollow` has it sound from some time on as a premise.
* `Display`: weak for the ui task only; the DMA interrupt need not ever come.
* `Startup`: weak for tick and interrupt, which come when they are not masked; strong for `main`,
  which each interrupt delays. No HAL call need ever answer.

## 4. The theorems

TLAPS proves, for every value of the constants that satisfies the named assumptions:

* `IntegerRootProofs`: `isqrt_u64` returns the floor of the square root of every number of its word
  (`RootExact`), and its sums fit the word (`RootFits`), for every width. The loop invariant is `Settled(s, u, root, b)`:
  with the bit `b * b` next, `s.r` is `2 * root * b`, what is left in `s.x` is `u - root * root`, and the root lies
  between `root` and `root + 2 * b`. The induction over the passes cannot cite the library
  (its theorems take an operator); it takes the least pass at which the invariant fails (`Least`,
  `Induction`), and `Iteration` does the same once for the recursive functions `TwoTo` and `Loop`.
* `JointProofs`: every safety and action property of run `joint`, and that `Joint` implements
  `CommandWatchdog` (for a timeout other than 0). The inductive invariant is `IInv` of `Joint`:
  `TypeOK`, `TimeoutIsExact`, `LimitFlagMeansClamped`, `SpeedIsStoppable` and `TimerIsAge`. The last
  is the link between the code's timer and the true age, without which `TimeoutIsExact` is not
  inductive. The heart is `SpeedIsStoppable`: the new velocity lies between the old one and
  the one wanted (`ApproachBetween`, `SpedBetween`), both satisfy `v^2 <= 2 a (max - min)`, hence
  so does everything between (`BetweenSquares`). That the speed wanted does is `RootExact`
  (`SpeedLimitFacts`), which also gives `MovesWithinLimits`. `ReducesToTimer` relates `Joint` to
  `JointTimer`. Assumptions: `ProductAssumption`, `ConfigAssumption`
  (soft limits on both sides of 0, where the joint starts; `Second` positive) and
  `CommandAssumption` (what the decoder lets through).
* `SupervisionProofs`: every property of run `supervision`, the implementation of
  `FailureDetector` included. The inductive invariant is `TypeOK`, `OneSlotPerNode`, `AgeExact` and
  `ViewIsCurrent`, of which the last two make up `AgeIsTrue`;
  modular subtraction yields the true age only while that is below `Modulus`, which is why
  `AgeExact` carries the bound `Timeout + sinceLoop`, and `SupervisionAssumption` says
  `Timeout + PollMax < Modulus`. `UptimesTell`, on top of it, relates uptimes to time passed, and
  gives `RebootHasCause` (a reset or a wrap; that the wrap counts is the finding of `supervision_wrap`) and `ResetNoticed`. For the refinement, every round of the loop is one
  `Observe` of the detector (`RoundObserves`).
* `JointNodeProofs`: the safety and action properties of run `joint_node`. The inductive invariant
  is `IInv` of `JointNode`: `TypeOK` (whose equivalence of the mutex and the place of comms gives
  `TxExclusive`), `SnapshotConsistent`, `DropStaysVisible` and `DrivenInTime`, which says of the joint
  itself what the snapshot then shows, and bounds its timer. Control and can_rx may preempt comms
  between any two of its steps; `DropStaysVisible` survives because every value ever stored to
  `tx_busy` is a successor, hence not 0. The other half of `CountersSound`, that no counter ever
  exceeds the sends it counts, is not inductive: a send that is done but not counted yet must
  be known to be pending (`SendPending`), or the increment would look like one too many.
* `NetworkProofs`: the safety and action properties of run `network`, for any number of joints, any
  FIFO and any timeout. `CommandsInOrder` needs that commands wait in the FIFO oldest first
  (`OldestFirst`) and that none is older than what a peer obeyed last (`NoneOlder`).
  `StaleOnlyAfterFault` is not inductive: a joint driven by a stale command got it before all was
  calm (`StaleFades`), since calm means that no command waits from one period to the next
  (`CalmDelivers`). `JointsAreTimers` says that its joints are those of `JointTimer`, apart from the
  timer of a disabled joint, which nothing reads.
* `StartupProofs`: the invariants of run `startup`. `TypeOK` says that no HAL call is made while its
  tick is masked, which needs to know how far `main` has come when the kernel masks it
  (`MaskedByKernel`); `AllPresent` needs that whatever `main` has passed was made (`MadeInOrder`).
  `LossesCounted` rests on the fact that every value ever stored to a counter is a successor.
* `DisplayProofs`: the invariants of run `display`, for any number of rows and columns. The inductive
  invariant adds `Stages` (the fill precedes the flush, with all cells marked) and
  `Truthful`: what a running transfer carries is what the screen has, or will be drawn again. A
  transfer that is cut or fails lands in `spoilt`, and `ShownOrMarked` survives.
* `CanProofs`, on the wire: whatever is sent arrives as it was sent (`ArrivesAsSent`), for every value of every
  field and every even `Base` from 6 on, 256 included. `DivDiv` and `DigitsBack` put the bytes of a number
  together again, `CastBack` its sign; `LayoutFacts` says that the fields of no message overlap,
  so that each byte of the payload belongs to one field (`PayloadFacts`). The invariant is
  `RoundTripInv`: a frame that was not changed carries the message (`Carries`). `InstanceArrives`
  carries the theorem over to the instance that TLC checks.
* `CanProofs`, on commands and timing: whatever a frame holds that has the type, length and version of a
  COMMAND, it is let through if and only if its bytes say DISABLED, or POSITION with a velocity above 0
  (`RefusesCommands`, of `Spec` of `Wire`). `PositiveBytes` is the heart: the sum of four bytes, cast to a signed
  type, is positive exactly if the sign bit of the last byte is clear and not all are 0. And
  `rjs_can_calc_timing` finds the best timing for all clocks, bitrates and registers (`TimingBest`):
  the rounded phase segment 2 is nearest (`Tseg2Nearest`), an exact timing divides the
  clock (`ExactTotal`), and a larger prescaler gives a bit fewer quanta (`LongerQuantum`), so that the
  early exit loses nothing. From `WellFoundedInduction` only theorems
  without operator parameters are used.

* Progress. Liveness itself is out of the prover's reach, but not the argument for it: that every step brings
  the system nearer to the goal, or at least no farther from it. These theorems say so, each by a
  measure that cannot fall for ever:

  | Theorem | of | Behind | What goes down |
  |---|---|---|---|
  | `StandstillNears` | `JointProofs` | `ComesToStandstill` | time left to the timeout, then the speed, unless the braking step rounds to 0 |
  | `TargetNears` | `JointProofs` | `ReachesTarget` | speed while the joint is at the target or moves away from it, then the distance; it arrives at rest, and a joint at rest there stays |
  | `StopNears` | `JointNodeProofs` | `JointStops` | the queue, then the time left to the timeout; needs `SweepOwnsCommands`: comms has a COMMAND in hand only while the sweep is on |
  | `StopNears` | `NetworkProofs` | `AllStop` | place of the last COMMAND in the FIFO, then the time left to each timeout |
  | `TasksNear` | `StartupProofs` | `StartsOrStops` | steps of `main` left, then ticks left to its HAL call |
  | `NoneForgotten` | `StartupProofs` | `NoFrameStuck` | (an invariant: a frame in the FIFO is announced or being drained) |
  | `SleepNears` | `DisplayProofs` | `UiKeepsRunning` | rows left, then cells left, then what is left of a transfer |

  What they leave to TLC is that the steps are taken: ENABLED and the fairness of section 3. Their formulas
  (`NearsStandstill`, `NearsTarget`, `NearsStop`, `NearsTasks`, `FramesAnnounced`, `NearsSleep`), like `BehavesAsTimer`, are in no
  `.cfg`; TLC found each to hold on the instance of the run of its module before it was proved.

Only model-checked: all liveness (`ComesToStandstill`, `ReachesTarget`, `JointStops`, `LostReported`,
`AllStop`, `AllFollow`, `UiKeepsRunning`, `StartsOrStops`, `NoFrameStuck`), which with fairness and
ENABLED is out of the prover's reach. Induction over data is done by hand where it is needed (`isqrt_u64`);
elsewhere fields have at most four bytes. Every invariant and every safety property of the passing
runs is proved. No module declares a RECURSIVE operator.

## 5. What the code does that its documents do not say

Five disagreements between code and documents have a run and are under "findings". Further ones, seen while modelling:

* `docs/bring-up.md:44`, `docs/measurements.md:21`: a node is LOST within 350 ms of silence. The code
  gives it up after more than 350 ms, up to 360 with the poll (`ImplementsDetector` has the poll
  period as its slack).
* `README.md:47`: a node supervises all other nodes. The 17th is never supervised (`Accepted`).
* A node reset soon after its last heartbeat may not be noticed: `ResetNoticed` needs an uptime
  above the detection bound, and fails without that.
* `docs/protocol.md:25`: the type of a frame sets its priority for the whole bus. Within a node the FIFO does.
* `ui.c:91` prints the number of known peers as the number alive.
* A cell whose transfer failed is not drawn again until its content changes (`spoilt`).
* The crawl of 1 mdeg a step can exceed a commanded velocity below 1000 mdeg/s.
* A disabled joint whose acceleration is below 1000 units a step keeps its speed: the braking step
  rounds to 0 (`joint.c:94`). The configuration in `app.c` is far from that, and
  `ComesToStandstill` is checked for an acceleration that does not round to 0.
* `README.md:34` promises acceleration limits. On every arrival, also an ordinary one, `joint.c:132-142` sets
  the velocity to 0 whatever it was: with the numbers of `app.c` about 1200 mdeg/s at once, where a step may
  change it by 360. Arrival is the one exception that `MovesWithinLimits` makes.
* A failure before the pins and the UART are set up shows neither on the LED nor on the UART, although
  `docs/bring-up.md:33` expects the banner `FATAL: oscillator config` and `board.h:54` an error LED: `clock_config`
  runs before `gpio_init` and `uart_init` (`board.c:188-191`). In `Startup`, `Die` then leaves `led` floating and
  `message` FALSE.
* `ok &= xTaskCreate(...)` (`app.c:436`) stays true when a creation fails, because the error code is
  -1. Only the hook for failed allocations stops the node then (`HookStops`).
* `s_rx_overrun` counts interrupts that found a loss, not frames (`hal_can.h:44`), and neither
  it nor `rjs_log_dropped` is read by anybody. `LossesCounted` therefore claims only that a loss leaves a counter
  that is not 0; "number of lines" (`log.h:28`) and of frames is more than the code gives.

## 6. Not modelled, and why

* The readers `stats_task` and `app_get_view`, which copy and print; the loop statistics of
  `control_task` and the count of decode errors, on which nothing depends; the flips of the sweep's target.
* What the steps of bring-up configure (MPU, caches, clock tree, pins), text of messages: only that they
  succeed, fail or never end matters to the properties. `rjs_can_get_status` only reads.
* ST7789 start-up commands, pixels and glyphs, cache maintenance, what exactly `render` prints.
* `syscalls.c` (stubs without state), the Python decoder, generated font, tests, vendor configuration.

## 7. Plan

Done: joint with the loop of its square root, supervision, tasks, command path with restarts, start-up,
reception, log, display, wire, bit timing; the theorems above. Next, in this order:

1. The measures behind the two liveness properties that have none yet, `LostReported` and `AllFollow`.
2. `stats_task` and `app_get_view` as readers in `JointNode`, with the loop statistics they read.
