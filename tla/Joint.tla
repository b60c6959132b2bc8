--------------------------------- MODULE Joint ---------------------------------
(***************************************************************************)
(* common/joint: the joint model with its velocity and acceleration limits, *)
(* soft position limits and command timeout.                               *)
(*                                                                         *)
(* The numbers are the code's integers: millidegrees, millidegrees per      *)
(* Second and milliseconds.  Second is 1000 in the code (the divisor of     *)
(* every rate); the model checker uses a smaller one so that rounding a     *)
(* step to zero, the interesting case, needs only small velocities.         *)
(***************************************************************************)
EXTENDS Integers, IntegerRoot

CONSTANTS
    MinPos, MaxPos,    \* soft limits (cfg.min_mdeg, cfg.max_mdeg)
    CfgAccel,          \* cfg.accel_mdeg_s2 as configured
    CommandTimeout,    \* cfg.command_timeout_ms, 0 = no timeout
    Second,            \* milliseconds in the unit of time of the rates
    StepSizes,         \* values of dt_ms the control loop passes
    Commands,          \* decoded COMMAND messages
    CounterMod         \* the timeout counter wraps at this value (2^32)

ASSUME ConfigAssumption ==
    /\ MinPos \in Int /\ MaxPos \in Int /\ MinPos <= 0 /\ 0 <= MaxPos
    /\ CfgAccel \in Int
    /\ CommandTimeout \in Nat
    /\ Second \in Nat \ {0}
    /\ StepSizes \subseteq Nat
    /\ CounterMod \in Nat \ {0}

\* rjs_decode_command lets no other command through.
ASSUME CommandAssumption ==
    \A c \in Commands :
        /\ c.mode \in {"DISABLED", "POSITION"}
        /\ c.target \in Int
        /\ c.maxVelocity \in Int
        /\ c.mode = "POSITION" => c.maxVelocity > 0
        /\ c.sequence \in Nat

VARIABLES
    mode,          \* "DISABLED" or "POSITION"
    position,
    velocity,
    target,
    maxVelocity,   \* velocity limit of the last POSITION command
    lastSeq,       \* sequence number of the last command
    since,         \* since_command_ms
    errorFlags,    \* subset of {"PEER_LOST", "LIMIT_REACHED"}
    timeouts,      \* command timeouts so far, modulo CounterMod
    quiet          \* history: true age of the last command, see CommandWatchdog

vars == <<mode, position, velocity, target, maxVelocity, lastSeq, since,
          errorFlags, timeouts, quiet>>

--------------------------------------------------------------------------------
(* Arithmetic *)

\* Integer division of C: rounds towards zero.
TruncDiv(a, b) == IF a >= 0 THEN a \div b ELSE -((-a) \div b)

Magnitude(v) == IF v < 0 THEN -v ELSE v

ClampBelowOnly(v, lo, hi) == IF v < lo THEN lo ELSE v   \* a mutant
Clamp(v, lo, hi) == IF v < lo THEN lo ELSE IF v > hi THEN hi ELSE v

Accel == IF CfgAccel <= 0 THEN 1 ELSE CfgAccel

\* v moved towards want by at most most; the mutant limits only speeding up.
ApproachAtOnce(v, want, most) ==
    IF want > v /\ want - v > most THEN v + most ELSE want
Approach(v, want, most) ==
    IF want > v
    THEN IF want - v > most THEN v + most ELSE want
    ELSE IF v - want > most THEN v - most ELSE want

\* Largest change of velocity in dt ms, as the disabled joint computes it ...
BrakeStep(dt) == (Accel * dt) \div Second

\* ... and as the driven joint does: never less than 1.
DriveStep(dt) == IF BrakeStep(dt) < 1 THEN 1 ELSE BrakeStep(dt)

\* v_stop, the largest speed from which the joint can still stop at distance d, and
\* v_limit, the smaller of it and the commanded limit.
StopSpeed(d) == Isqrt(2 * Accel * d)
SpeedLimit(limit, d) == IF StopSpeed(d) < limit THEN StopSpeed(d) ELSE limit

\* 2 * a * abs64(err) is a product of int64_t and does not overflow: with the
\* configuration of app.c it is at most 2 * 360000 * 340000, of 2^63.
ASSUME ProductAssumption == 2 * Accel * (MaxPos - MinPos) < Word \div 2

--------------------------------------------------------------------------------
Init ==
    /\ mode = "DISABLED"
    /\ position = 0 /\ velocity = 0 /\ target = 0 /\ maxVelocity = 0
    /\ lastSeq = 0 /\ since = 0 /\ errorFlags = {} /\ timeouts = 0
    /\ quiet = CommandTimeout + 1

OutsideLimits(t) == t < MinPos \/ t > MaxPos

\* LIMIT_REACHED is set or cleared by every POSITION command; PEER_LOST is
\* cleared by any command.  The mutant forgets to clear LIMIT_REACHED.
LimitFlagSticky(t) ==
    IF OutsideLimits(t) THEN {"LIMIT_REACHED"} ELSE errorFlags \ {"PEER_LOST"}
LimitFlag(t) == IF OutsideLimits(t) THEN {"LIMIT_REACHED"} ELSE {}

\* rjs_joint_command(c)
Command(c) ==
    /\ lastSeq' = c.sequence
    /\ since' = 0
    /\ quiet' = 0
    /\ mode' = c.mode
    /\ IF c.mode = "POSITION"
       THEN /\ maxVelocity' = c.maxVelocity
            /\ target' = Clamp(c.target, MinPos, MaxPos)
            /\ errorFlags' = LimitFlag(c.target)
       ELSE /\ errorFlags' = errorFlags \ {"PEER_LOST"}
            /\ UNCHANGED <<maxVelocity, target>>
    /\ UNCHANGED <<position, velocity, timeouts>>

\* The timeout check at the head of rjs_joint_step.  Mutants: the check before
\* the increment, and a timeout that expires on the last good millisecond.
Watched == mode = "POSITION" /\ CommandTimeout # 0
ExpiresLate(dt) == Watched /\ since > CommandTimeout
ExpiresEarly(dt) == Watched /\ since + dt >= CommandTimeout
Expires(dt) == Watched /\ since + dt > CommandTimeout

Supervise(dt) ==
    /\ since' = IF Watched THEN since + dt ELSE since
    /\ IF Expires(dt)
       THEN /\ mode' = "DISABLED"
            /\ errorFlags' = errorFlags \union {"PEER_LOST"}
            /\ timeouts' = (timeouts + 1) % CounterMod
       ELSE UNCHANGED <<mode, errorFlags, timeouts>>
    /\ quiet' = IF quiet + dt > CommandTimeout THEN CommandTimeout + 1 ELSE quiet + dt

\* Disabled: brake to standstill with the acceleration limit.  The mutant has no
\* case for the last part of a step.
BrakedPastZero(dt) ==
    IF velocity > 0 THEN velocity - BrakeStep(dt)
    ELSE IF velocity < 0 THEN velocity + BrakeStep(dt) ELSE 0
Braked(dt) ==
    IF Magnitude(velocity) <= BrakeStep(dt) THEN 0
    ELSE IF velocity > 0 THEN velocity - BrakeStep(dt) ELSE velocity + BrakeStep(dt)

Brake(dt) ==
    /\ velocity' = Braked(dt)
    /\ position' = Clamp(position + TruncDiv(Braked(dt) * dt, Second), MinPos, MaxPos)

\* POSITION mode, with the speed limit v: accelerate towards the target, stop on
\* reaching it, and crawl 1 mdeg when the step rounds to zero.
Err == target - position

SpedAsCommanded(v, dt) == IF Err > 0 THEN maxVelocity ELSE -maxVelocity   \* a mutant
Sped(v, dt) == Approach(velocity, IF Err > 0 THEN v ELSE -v, DriveStep(dt))

PassesUpwards(move) == Err > 0 /\ move > Err   \* a mutant
Passes(move) == (Err > 0 /\ move > Err) \/ (Err < 0 /\ move < Err)

TravelWithoutCrawl(move) == IF Passes(move) THEN Err ELSE move   \* a mutant
Travel(move) ==
    IF Passes(move) THEN Err
    ELSE IF move = 0 /\ Err # 0 THEN (IF Err > 0 THEN 1 ELSE -1)
    ELSE move

Drive(v, dt) ==
    LET move == TruncDiv(Sped(v, dt) * dt, Second)
    IN  /\ velocity' = IF Travel(move) = Err THEN 0 ELSE Sped(v, dt)
        /\ position' = Clamp(position + Travel(move), MinPos, MaxPos)

\* rjs_joint_step(dt); dt = 0 returns at once.
Step(dt) ==
    /\ dt # 0
    /\ Supervise(dt)
    /\ \/ mode' # "POSITION" /\ Brake(dt)
       \/ mode' = "POSITION" /\ Drive(SpeedLimit(maxVelocity, Magnitude(Err)), dt)
    /\ UNCHANGED <<target, maxVelocity, lastSeq>>

Next == (\E c \in Commands : Command(c)) \/ (\E dt \in StepSizes : Step(dt))

Spec == Init /\ [][Next]_vars

\* The control task runs at the highest priority and steps the joint every
\* millisecond for ever; commands may stop.
FairSpec == Spec /\ WF_vars(\E dt \in StepSizes : Step(dt))

--------------------------------------------------------------------------------
(* Properties *)

\* Types, with the soft limits as the type of the position and of the target.
TypeOK ==
    /\ mode \in {"DISABLED", "POSITION"}
    /\ position \in MinPos..MaxPos
    /\ target \in MinPos..MaxPos
    /\ velocity \in Int
    /\ maxVelocity \in Nat
    /\ lastSeq \in Nat
    /\ since \in Nat
    /\ errorFlags \subseteq {"PEER_LOST", "LIMIT_REACHED"}
    /\ timeouts \in 0..(CounterMod - 1)
    /\ quiet \in 0..(CommandTimeout + 1)

\* A joint that lost its controller stops driving, neither late nor early: it
\* drives only while its last command is at most CommandTimeout old, and it
\* reports PEER_LOST only once the command is older (rjs_joint_step, timeout).
TimeoutIsExact ==
    CommandTimeout # 0 =>
        /\ mode = "POSITION" => quiet <= CommandTimeout
        /\ "PEER_LOST" \in errorFlags => quiet > CommandTimeout

\* What the code's timer counts while it is watched is the true age of the
\* command: no step is counted twice or missed (joint.c, since_command_ms).
TimerIsAge == CommandTimeout # 0 /\ mode = "POSITION" => since = quiet

\* While LIMIT_REACHED is reported, the target in force is a soft limit itself.
LimitFlagMeansClamped == "LIMIT_REACHED" \in errorFlags => target \in {MinPos, MaxPos}

\* The joint is never faster than its travel allows it to stop in, whatever
\* limits were commanded: v^2 <= 2 a (max - min).  The bound holds in
\* every mode and through every change of target (joint.c, v_stop).
SpeedIsStoppable == velocity * velocity <= 2 * Accel * (MaxPos - MinPos)

\* The invariants together are inductive (see JointProofs).
IInv ==
    /\ TypeOK
    /\ TimeoutIsExact
    /\ TimerIsAge
    /\ LimitFlagMeansClamped
    /\ SpeedIsStoppable

\* A driven step towards a target ahead stops at the target and does not pass it.
NeverPassesTarget ==
    [][mode' = "POSITION" /\ target' = target =>
          /\ position < target => position' <= target
          /\ position > target => position' >= target]_vars

\* The velocity changes by at most the acceleration limit in a step, except that
\* a driven joint comes to rest on arriving at its target; and a driven joint gains
\* speed only up to one from which it can still stop at its target (v^2 = 2 a d).
ChangeIsLimited(dt) ==
    \/ Magnitude(velocity' - velocity) <= DriveStep(dt)
    \/ mode' = "POSITION" /\ position' = target /\ velocity' = 0
GainIsStoppable ==
    mode' = "POSITION" /\ Magnitude(velocity') > Magnitude(velocity)
        => velocity' * velocity' <= 2 * Accel * Magnitude(Err)
MovesWithinLimits ==
    [][\A dt \in StepSizes : Step(dt) => ChangeIsLimited(dt) /\ GainIsStoppable]_vars

\* A disabled joint only brakes: it never gains speed, never turns round, and
\* moves no way but the way it was going.
DisabledOnlyBrakes ==
    [][mode' = "DISABLED" =>
          /\ Magnitude(velocity') <= Magnitude(velocity)
          /\ velocity >= 0 => velocity' >= 0 /\ position' >= position
          /\ velocity <= 0 => velocity' <= 0 /\ position' <= position]_vars

\* What makes ComesToStandstill hold, step by step: a joint whose braking step does not
\* round to zero is left by a step driven with an older command, slower, or at rest.
NearsStandstill ==
    [][\A dt \in StepSizes : Step(dt) /\ CommandTimeout # 0 /\ BrakeStep(dt) > 0 =>
          \/ mode' = "POSITION" /\ quiet < quiet' /\ quiet' <= CommandTimeout
          \/ mode' = "DISABLED" /\ Magnitude(velocity') < Magnitude(velocity)
          \/ mode' = "DISABLED" /\ velocity' = 0]_vars

\* What makes ReachesTarget hold, step by step: a driven joint that does not move away
\* from its target comes nearer to it and does not turn round, one that moves away brakes,
\* it arrives at rest, and at the target it brakes until it rests, and then stays.
NearsFromBelow ==
    position < target =>
        IF velocity >= 0 THEN position' \in (position + 1) .. target /\ velocity' >= 0
        ELSE velocity' > velocity
NearsFromAbove ==
    position > target =>
        IF velocity <= 0 THEN position' \in target .. (position - 1) /\ velocity' <= 0
        ELSE velocity' < velocity
ArrivesAtRest == position # target /\ position' = target => velocity' = 0
RestsThere ==
    position = target =>
        IF velocity = 0 THEN position' = position /\ velocity' = 0
        ELSE Magnitude(velocity') < Magnitude(velocity)
NearsTarget ==
    [][\A dt \in StepSizes : Step(dt) /\ mode' = "POSITION" =>
          NearsFromBelow /\ NearsFromAbove /\ ArrivesAtRest /\ RestsThere]_vars

\* Joint keeps the promise of the command watchdog.
Watchdog == INSTANCE CommandWatchdog WITH
                Timeout <- CommandTimeout,
                driving <- (mode = "POSITION")
ImplementsWatchdog == Watchdog!Spec

\* Seen from the rest of a node, a joint with a timeout is the timer of JointTimer:
\* JointNode and Network may leave out the rest of the joint (proved in JointProofs).
Timer == INSTANCE JointTimer
Reduced == [mode |-> mode, lost |-> "PEER_LOST" \in errorFlags, since |-> since]
BehavesAsTimer ==
    [][CommandTimeout # 0 =>
          /\ \A c \in Commands : Command(c) => Reduced' = Timer!Commanded(c.mode)
          /\ \A dt \in StepSizes : Step(dt) => Reduced' = Timer!Stepped(Reduced, dt)]_vars

\* Once commands stop, the joint comes to a standstill for good (the brake of
\* rjs_joint_step, after the timeout has disabled the joint).
ComesToStandstill ==
    <>[][\A c \in Commands : ~Command(c)]_vars => <>[](velocity = 0)

\* A target that is commanded often enough and never changed is reached, and
\* the joint then stays there.
ReachesTarget ==
    \A t \in MinPos..MaxPos :
        <>[](mode = "POSITION" /\ target = t) => <>[](position = t /\ velocity = 0)
================================================================================
