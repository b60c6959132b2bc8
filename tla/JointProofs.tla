------------------------------ MODULE JointProofs ------------------------------
(* Theorems about Joint, for every configuration and every set of commands. *)
EXTENDS Joint, IntegerRootProofs, TLAPS

--------------------------------------------------------------------------------
(* Arithmetic *)

\* A product with a non-negative factor keeps the order of the other factor.
LEMMA MulMono ==
    ASSUME NEW a \in Int, NEW b \in Int, NEW c \in Nat, a <= b
    PROVE  c * a <= c * b
OBVIOUS

LEMMA SquareMono ==
    ASSUME NEW a \in Int, NEW b \in Int, 0 <= a, a <= b
    PROVE  a * a <= b * b
<1>1. a * a <= a * b BY MulMono
<1>2. b * a <= b * b BY MulMono
<1>3. a * b = b * a OBVIOUS
<1> QED BY <1>1, <1>2, <1>3

LEMMA SquareMagnitude ==
    ASSUME NEW a \in Int
    PROVE  Magnitude(a) \in Nat /\ Magnitude(a) * Magnitude(a) = a * a
BY DEF Magnitude

\* What lies between two numbers is no larger in magnitude than both.
LEMMA BetweenSquares ==
    ASSUME NEW a \in Int, NEW b \in Int, NEW u \in Int, NEW s \in Int,
           a * a <= s, b * b <= s,
           (a <= u /\ u <= b) \/ (b <= u /\ u <= a)
    PROVE  u * u <= s
<1>1. Magnitude(u) <= Magnitude(a) \/ Magnitude(u) <= Magnitude(b)
  BY DEF Magnitude
<1>2. /\ Magnitude(u) \in Nat /\ Magnitude(u) * Magnitude(u) = u * u
      /\ Magnitude(a) \in Nat /\ Magnitude(a) * Magnitude(a) = a * a
      /\ Magnitude(b) \in Nat /\ Magnitude(b) * Magnitude(b) = b * b
  BY SquareMagnitude
<1> DEFINE um == Magnitude(u)
           am == Magnitude(a)
           bm == Magnitude(b)
<1> HIDE DEF um, am, bm
<1>3. um \in Nat /\ am \in Nat /\ bm \in Nat BY <1>2 DEF um, am, bm
<1>4. ASSUME um <= am PROVE u * u <= s
  <2>1. um * um <= am * am BY <1>3, <1>4, SquareMono
  <2> QED BY <2>1, <1>2 DEF um, am
<1>5. ASSUME um <= bm PROVE u * u <= s
  <2>1. um * um <= bm * bm BY <1>3, <1>5, SquareMono
  <2> QED BY <2>1, <1>2 DEF um, bm
<1> QED BY <1>1, <1>4, <1>5 DEF um, am, bm

LEMMA TruncDivType ==
    ASSUME NEW a \in Int, NEW b \in Nat \ {0}
    PROVE  /\ TruncDiv(a, b) \in Int
           /\ a >= 0 => TruncDiv(a, b) >= 0
           /\ a <= 0 => TruncDiv(a, b) <= 0
BY DEF TruncDiv

LEMMA ClampRange ==
    ASSUME NEW v \in Int, NEW lo \in Int, NEW hi \in Int, lo <= hi
    PROVE  /\ Clamp(v, lo, hi) \in lo..hi
           /\ v \in lo..hi => Clamp(v, lo, hi) = v
BY DEF Clamp

LEMMA AccelType == Accel \in Nat \ {0}
BY ConfigAssumption DEF Accel

LEMMA StepTypes ==
    ASSUME NEW dt \in StepSizes
    PROVE  /\ dt \in Nat
           /\ BrakeStep(dt) \in Nat
           /\ DriveStep(dt) \in Nat \ {0}
<1>1. dt \in Nat BY ConfigAssumption
<1>2. Accel * dt \in Nat BY <1>1, AccelType
<1>3. BrakeStep(dt) \in Nat BY <1>2, ConfigAssumption DEF BrakeStep
<1> QED BY <1>1, <1>3 DEF DriveStep

\* Approach lands between where it starts and where it wants to go, and moves by
\* no more than it may.
LEMMA ApproachBetween ==
    ASSUME NEW v \in Int, NEW want \in Int, NEW most \in Nat \ {0}
    PROVE  /\ Approach(v, want, most) \in Int
           /\ \/ v <= Approach(v, want, most) /\ Approach(v, want, most) <= want
              \/ want <= Approach(v, want, most) /\ Approach(v, want, most) <= v
           /\ Magnitude(Approach(v, want, most) - v) <= most
BY DEF Approach, Magnitude

\* The limit a driven joint obeys at distance d: no more than commanded, and slow enough
\* to stop in d.  The product under the root fits its word.
LEMMA SpeedLimitFacts ==
    ASSUME NEW limit \in Nat, NEW d \in 0 .. MaxPos - MinPos
    PROVE  /\ SpeedLimit(limit, d) \in 0 .. limit
           /\ SpeedLimit(limit, d) * SpeedLimit(limit, d) <= 2 * Accel * d
<1> DEFINE u == 2 * Accel * d
           s == 2 * Accel * (MaxPos - MinPos)
           i == Isqrt(u)
<1>1. MaxPos - MinPos \in Nat /\ d \in Nat /\ d <= MaxPos - MinPos BY ConfigAssumption
<1>2. 2 * Accel \in Nat BY AccelType
<1>3. u \in Nat /\ s \in Nat /\ u <= s BY <1>1, <1>2, MulMono
<1>4. Word \in Nat
  <2>1. TwoTo[HalfBits] \in Nat BY TwoToFacts, HalfBitsAssumption
  <2> QED BY <2>1 DEF Word
<1>5. s < Word \div 2 BY ProductAssumption
<1> HIDE DEF u, s
<1>6. u < Word BY <1>3, <1>4, <1>5
<1>7. i \in Nat /\ i * i <= u BY <1>3, <1>6, RootExact
<1>8. SpeedLimit(limit, d) = IF i < limit THEN i ELSE limit
  BY DEF SpeedLimit, StopSpeed, i, u
<1> HIDE DEF i
<1>9. CASE i < limit BY <1>7, <1>8, <1>9 DEF u
<1>10. CASE ~(i < limit)
  <2>1. limit * limit <= i * i BY <1>7, <1>10, SquareMono
  <2>2. limit * limit \in Nat /\ i * i \in Nat BY <1>7
  <2>3. limit * limit <= u BY <1>3, <1>7, <2>1, <2>2
  <2> QED BY <1>8, <1>10, <2>3 DEF u
<1> QED BY <1>9, <1>10

--------------------------------------------------------------------------------
(* The kinematics of one step *)

\* A braking joint keeps its direction, does not gain speed and loses at most
\* what the acceleration limit allows.
LEMMA BrakedBetween ==
    ASSUME NEW dt \in StepSizes, velocity \in Int
    PROVE  /\ Braked(dt) \in Int
           /\ velocity >= 0 => 0 <= Braked(dt) /\ Braked(dt) <= velocity
           /\ velocity <= 0 => velocity <= Braked(dt) /\ Braked(dt) <= 0
           /\ Magnitude(Braked(dt) - velocity) <= DriveStep(dt)
<1>1. BrakeStep(dt) \in Nat BY StepTypes
<1> QED BY <1>1 DEF Braked, Magnitude, DriveStep

\* How far a step moves, as a whole number of millidegrees.
LEMMA DistanceType ==
    ASSUME NEW dt \in StepSizes, NEW v \in Int
    PROVE  /\ TruncDiv(v * dt, Second) \in Int
           /\ v >= 0 => TruncDiv(v * dt, Second) >= 0
           /\ v <= 0 => TruncDiv(v * dt, Second) <= 0
<1>1. dt \in Nat BY StepTypes
<1>2. v * dt \in Int BY <1>1
<1>3. (v >= 0 => v * dt >= 0) /\ (v <= 0 => v * dt <= 0)
  <2>1. CASE v >= 0
    <3>1. dt * 0 <= dt * v BY <1>1, <2>1, MulMono
    <3> QED BY <1>1, <2>1, <3>1
  <2>2. CASE v <= 0
    <3>1. dt * v <= dt * 0 BY <1>1, <2>2, MulMono
    <3> QED BY <1>1, <2>2, <3>1
  <2> QED BY <2>1, <2>2
<1>4. Second \in Nat \ {0} BY ConfigAssumption
<1> QED BY <1>2, <1>3, <1>4, TruncDivType

\* Travel stays on the near side of the target, and Clamp does not undo that.
LEMMA TravelType ==
    ASSUME NEW move \in Int, Err \in Int
    PROVE  /\ Travel(move) \in Int
           /\ Err > 0 => Travel(move) <= Err
           /\ Err < 0 => Travel(move) >= Err
BY DEF Travel, Passes

\* The speed of a driven joint moves from where it was towards the limit.
LEMMA SpedBetween ==
    ASSUME NEW dt \in StepSizes, NEW v \in Nat, velocity \in Int
    PROVE  /\ Sped(v, dt) \in Int
           /\ \E w \in {v, -v} : \/ velocity <= Sped(v, dt) /\ Sped(v, dt) <= w
                                 \/ w <= Sped(v, dt) /\ Sped(v, dt) <= velocity
           /\ Magnitude(Sped(v, dt) - velocity) <= DriveStep(dt)
<1>1. DriveStep(dt) \in Nat \ {0} BY StepTypes
<1>2. ASSUME NEW w \in {v, -v}, Sped(v, dt) = Approach(velocity, w, DriveStep(dt))
      PROVE  /\ Sped(v, dt) \in Int
             /\ \/ velocity <= Sped(v, dt) /\ Sped(v, dt) <= w
                \/ w <= Sped(v, dt) /\ Sped(v, dt) <= velocity
             /\ Magnitude(Sped(v, dt) - velocity) <= DriveStep(dt)
  <2>1. w \in Int OBVIOUS
  <2> QED BY <1>1, <1>2, <2>1, ApproachBetween
<1>3. CASE Err > 0
  <2>1. Sped(v, dt) = Approach(velocity, v, DriveStep(dt)) BY <1>3 DEF Sped
  <2> QED BY <1>2, <2>1
<1>4. CASE ~(Err > 0)
  <2>1. Sped(v, dt) = Approach(velocity, -v, DriveStep(dt)) BY <1>4 DEF Sped
  <2> QED BY <1>2, <2>1
<1> QED BY <1>3, <1>4

--------------------------------------------------------------------------------
(* The inductive invariant *)

LEMMA InitIInv == Init => IInv
<1> SUFFICES ASSUME Init PROVE IInv
  OBVIOUS
<1>1. TypeOK BY ConfigAssumption DEF Init, TypeOK
<1>2. TimeoutIsExact /\ TimerIsAge /\ LimitFlagMeansClamped
  BY DEF Init, TimeoutIsExact, TimerIsAge, LimitFlagMeansClamped
<1>3. SpeedIsStoppable
  <2>1. MaxPos - MinPos \in Nat BY ConfigAssumption
  <2>2. Accel \in Nat BY AccelType
  <2>3. 2 * Accel * (MaxPos - MinPos) \in Nat BY <2>1, <2>2
  <2>4. velocity * velocity = 0 BY DEF Init
  <2> QED BY <2>3, <2>4 DEF SpeedIsStoppable
<1> QED BY <1>1, <1>2, <1>3 DEF IInv

\* A command changes neither position nor velocity and restarts the timer.
LEMMA CommandIInv ==
    ASSUME IInv, NEW c \in Commands, Command(c)
    PROVE  IInv'
<1>1. /\ c.mode \in {"DISABLED", "POSITION"}
      /\ c.target \in Int /\ c.maxVelocity \in Int /\ c.sequence \in Nat
      /\ c.mode = "POSITION" => c.maxVelocity > 0
  BY CommandAssumption
<1>2. MinPos \in Int /\ MaxPos \in Int /\ MinPos <= MaxPos /\ CommandTimeout \in Nat
  BY ConfigAssumption
<1>3. Clamp(c.target, MinPos, MaxPos) \in MinPos..MaxPos
  BY <1>1, <1>2, ClampRange
<1>4. TypeOK'
  <2>1. CASE c.mode = "POSITION"
    BY <1>1, <1>2, <1>3, <2>1 DEF IInv, TypeOK, Command, LimitFlag
  <2>2. CASE c.mode # "POSITION"
    <3>1. /\ mode' = c.mode /\ lastSeq' = c.sequence /\ since' = 0 /\ quiet' = 0
          /\ errorFlags' = errorFlags \ {"PEER_LOST"}
          /\ UNCHANGED <<maxVelocity, target, position, velocity, timeouts>>
      BY <2>2 DEF Command
    <3> QED BY <1>1, <1>2, <3>1 DEF IInv, TypeOK
  <2> QED BY <2>1, <2>2
<1>5. "PEER_LOST" \notin errorFlags' BY DEF Command, LimitFlag
<1>6. TimeoutIsExact' /\ TimerIsAge'
  BY <1>2, <1>5 DEF Command, TimeoutIsExact, TimerIsAge
<1>7. LimitFlagMeansClamped'
  <2>1. OutsideLimits(c.target) => Clamp(c.target, MinPos, MaxPos) \in {MinPos, MaxPos}
    BY <1>1, <1>2 DEF OutsideLimits, Clamp
  <2> QED BY <2>1 DEF IInv, Command, LimitFlag, LimitFlagMeansClamped
<1>8. SpeedIsStoppable' BY DEF IInv, Command, SpeedIsStoppable
<1> QED BY <1>4, <1>6, <1>7, <1>8 DEF IInv

\* The head of a control step: timer, timeout, flags.
LEMMA SuperviseInv ==
    ASSUME IInv, NEW dt \in StepSizes, Step(dt)
    PROVE  /\ mode' \in {"DISABLED", "POSITION"}
           /\ target' = target /\ maxVelocity' = maxVelocity /\ lastSeq' = lastSeq
           /\ since' \in Nat
           /\ errorFlags' \subseteq {"PEER_LOST", "LIMIT_REACHED"}
           /\ timeouts' \in 0..(CounterMod - 1)
           /\ quiet' \in 0..(CommandTimeout + 1)
           /\ TimeoutIsExact' /\ TimerIsAge' /\ LimitFlagMeansClamped'
<1>1. dt \in Nat /\ CommandTimeout \in Nat /\ CounterMod \in Nat \ {0}
  BY ConfigAssumption
<1>2. Supervise(dt) /\ UNCHANGED <<target, maxVelocity, lastSeq>> BY DEF Step
<1>3. since' \in Nat /\ quiet' \in 0..(CommandTimeout + 1)
  BY <1>1, <1>2 DEF IInv, TypeOK, Supervise
<1>4. CASE Expires(dt)
  <2>1. /\ mode = "POSITION" /\ CommandTimeout # 0 /\ since + dt > CommandTimeout
        /\ mode' = "DISABLED" /\ errorFlags' = errorFlags \union {"PEER_LOST"}
        /\ timeouts' = (timeouts + 1) % CounterMod
    BY <1>2, <1>4 DEF Supervise, Expires, Watched
  <2>2. quiet' = CommandTimeout + 1
    BY <1>1, <1>2, <2>1 DEF Supervise, IInv, TimerIsAge, TypeOK
  <2>3. timeouts' \in 0..(CounterMod - 1)
    BY <1>1, <2>1 DEF IInv, TypeOK
  <2>4. TimeoutIsExact' /\ TimerIsAge'
    BY <1>1, <2>1, <2>2 DEF TimeoutIsExact, TimerIsAge
  <2>5. LimitFlagMeansClamped'
    BY <1>2, <2>1 DEF IInv, LimitFlagMeansClamped
  <2> QED BY <1>2, <1>3, <2>1, <2>3, <2>4, <2>5 DEF IInv, TypeOK
<1>5. CASE ~Expires(dt)
  <2>1. mode' = mode /\ errorFlags' = errorFlags /\ timeouts' = timeouts
    BY <1>2, <1>5 DEF Supervise
  <2>2. TimeoutIsExact' /\ TimerIsAge'
    <3>1. ASSUME CommandTimeout # 0, mode = "POSITION"
          PROVE  quiet' <= CommandTimeout /\ since' = quiet'
      BY <1>1, <1>2, <1>5, <3>1
      DEF Supervise, Expires, Watched, IInv, TypeOK, TimerIsAge
    <3>2. ASSUME CommandTimeout # 0, "PEER_LOST" \in errorFlags
          PROVE  quiet' > CommandTimeout
      BY <1>1, <1>2, <3>2 DEF Supervise, IInv, TypeOK, TimeoutIsExact
    <3> QED BY <2>1, <3>1, <3>2 DEF TimeoutIsExact, TimerIsAge
  <2>3. LimitFlagMeansClamped'
    BY <1>2, <2>1 DEF IInv, LimitFlagMeansClamped
  <2> QED BY <1>2, <1>3, <2>1, <2>2, <2>3 DEF IInv, TypeOK
<1> QED BY <1>4, <1>5

\* A disabled joint is no faster than it was.
LEMMA BrakeInv ==
    ASSUME IInv, NEW dt \in StepSizes, Brake(dt)
    PROVE  velocity' \in Int /\ position' \in MinPos..MaxPos /\ SpeedIsStoppable'
<1>1. velocity \in Int /\ position \in MinPos..MaxPos BY DEF IInv, TypeOK
<1>2. MinPos \in Int /\ MaxPos \in Int /\ MinPos <= MaxPos BY ConfigAssumption
<1>3. /\ Braked(dt) \in Int
      /\ velocity >= 0 => 0 <= Braked(dt) /\ Braked(dt) <= velocity
      /\ velocity <= 0 => velocity <= Braked(dt) /\ Braked(dt) <= 0
  BY <1>1, BrakedBetween
<1>4. position' \in MinPos..MaxPos
  <2>1. TruncDiv(Braked(dt) * dt, Second) \in Int BY <1>3, DistanceType
  <2>2. position + TruncDiv(Braked(dt) * dt, Second) \in Int BY <1>1, <2>1
  <2> QED BY <1>2, <2>2, ClampRange DEF Brake
<1>5. SpeedIsStoppable'
  <2> DEFINE s == 2 * Accel * (MaxPos - MinPos)
  <2>1. s \in Int BY <1>2, AccelType
  <2>2. velocity * velocity <= s /\ 0 * 0 <= s
    <3>1. velocity * velocity <= s BY DEF IInv, SpeedIsStoppable
    <3>2. velocity * velocity >= 0
      BY <1>1, SquareMagnitude
    <3> QED BY <1>1, <2>1, <3>1, <3>2
  <2> HIDE DEF s
  <2>3. Braked(dt) * Braked(dt) <= s
    BY <1>1, <1>3, <2>1, <2>2, BetweenSquares
  <2> QED BY <2>3 DEF s, Brake, SpeedIsStoppable
<1> QED BY <1>3, <1>4, <1>5 DEF Brake

\* A driven joint obeys the limit it computed from its distance to the target.
LEMMA DriveInv ==
    ASSUME IInv, NEW dt \in StepSizes, NEW v \in 0..maxVelocity,
           v * v <= 2 * Accel * Magnitude(Err), Drive(v, dt)
    PROVE  velocity' \in Int /\ position' \in MinPos..MaxPos /\ SpeedIsStoppable'
<1>1. velocity \in Int /\ position \in MinPos..MaxPos /\ target \in MinPos..MaxPos
      /\ maxVelocity \in Nat
  BY DEF IInv, TypeOK
<1>2. MinPos \in Int /\ MaxPos \in Int /\ MinPos <= MaxPos BY ConfigAssumption
<1>3. v \in Nat BY <1>1
<1>4. Err \in Int BY <1>1, <1>2 DEF Err
<1>5. /\ Sped(v, dt) \in Int
      /\ \E w \in {v, -v} : \/ velocity <= Sped(v, dt) /\ Sped(v, dt) <= w
                            \/ w <= Sped(v, dt) /\ Sped(v, dt) <= velocity
  BY <1>1, <1>3, SpedBetween
<1>6. velocity' \in Int BY <1>5 DEF Drive
<1>7. position' \in MinPos..MaxPos
  <2>1. TruncDiv(Sped(v, dt) * dt, Second) \in Int BY <1>5, DistanceType
  <2>2. Travel(TruncDiv(Sped(v, dt) * dt, Second)) \in Int BY <1>4, <2>1, TravelType
  <2>3. position + Travel(TruncDiv(Sped(v, dt) * dt, Second)) \in Int BY <1>1, <2>2
  <2> QED BY <1>2, <2>3, ClampRange DEF Drive
<1>8. SpeedIsStoppable'
  <2> DEFINE s == 2 * Accel * (MaxPos - MinPos)
  <2>1. s \in Int BY <1>2, AccelType
  <2>2. velocity * velocity <= s BY DEF IInv, SpeedIsStoppable
  <2>3. v * v <= s
    <3>1. v * v <= 2 * Accel * Magnitude(Err) OBVIOUS
    <3>2. Magnitude(Err) <= MaxPos - MinPos BY <1>1, <1>2 DEF Err, Magnitude
    <3>3. Magnitude(Err) \in Int BY <1>4, SquareMagnitude
    <3>4. 2 * Accel \in Nat BY AccelType
    <3>5. MaxPos - MinPos \in Int BY <1>2
    <3>6. (2 * Accel) * Magnitude(Err) <= (2 * Accel) * (MaxPos - MinPos)
      BY <3>2, <3>3, <3>4, <3>5, MulMono
    <3>7. v * v \in Int /\ (2 * Accel) * Magnitude(Err) \in Int
      BY <1>3, <3>3, <3>4
    <3> QED BY <2>1, <3>1, <3>6, <3>7
  <2>4. (-v) * (-v) <= s BY <1>3, <2>3
  <2>5. 0 * 0 <= s
    <3>1. velocity * velocity >= 0 BY <1>1, SquareMagnitude
    <3> QED BY <1>1, <2>1, <2>2, <3>1
  <2> HIDE DEF s
  <2>6. Sped(v, dt) * Sped(v, dt) <= s
    <3>1. PICK w \in {v, -v} : \/ velocity <= Sped(v, dt) /\ Sped(v, dt) <= w
                               \/ w <= Sped(v, dt) /\ Sped(v, dt) <= velocity
      BY <1>5
    <3>2. w \in Int /\ w * w <= s BY <1>3, <2>3, <2>4
    <3> QED BY <1>1, <1>5, <2>1, <2>2, <3>1, <3>2, BetweenSquares
  <2>7. velocity' * velocity' <= s BY <2>5, <2>6 DEF Drive
  <2> QED BY <2>7 DEF s, SpeedIsStoppable
<1> QED BY <1>6, <1>7, <1>8

\* A driven step is a drive with a speed from which the joint can stop.
LEMMA DrivenStep ==
    ASSUME IInv, NEW dt \in StepSizes, Step(dt), mode' = "POSITION"
    PROVE  \E v \in 0..maxVelocity : v * v <= 2 * Accel * Magnitude(Err) /\ Drive(v, dt)
<1> DEFINE d == Magnitude(Err)
           v == SpeedLimit(maxVelocity, d)
<1>1. /\ position \in MinPos..MaxPos /\ target \in MinPos..MaxPos /\ maxVelocity \in Nat
      /\ MinPos \in Int /\ MaxPos \in Int
  BY ConfigAssumption DEF IInv, TypeOK
<1>2. d \in 0 .. MaxPos - MinPos BY <1>1 DEF Err, Magnitude
<1> HIDE DEF d
<1>3. v \in 0..maxVelocity /\ v * v <= 2 * Accel * d BY <1>1, <1>2, SpeedLimitFacts
<1>4. Drive(v, dt) BY DEF Step, d
<1> QED BY <1>3, <1>4 DEF d

LEMMA StepIInv ==
    ASSUME IInv, NEW dt \in StepSizes, Step(dt)
    PROVE  IInv'
<1>1. velocity' \in Int /\ position' \in MinPos..MaxPos /\ SpeedIsStoppable'
  <2>1. CASE Brake(dt) BY <2>1, BrakeInv
  <2>2. CASE mode' = "POSITION" BY <2>2, DrivenStep, DriveInv
  <2> QED BY <2>1, <2>2 DEF Step
<1> QED BY <1>1, SuperviseInv DEF IInv, TypeOK

LEMMA NextIInv == IInv /\ [Next]_vars => IInv'
<1> SUFFICES ASSUME IInv, [Next]_vars PROVE IInv'
  OBVIOUS
<1>1. ASSUME NEW c \in Commands, Command(c) PROVE IInv'
  BY <1>1, CommandIInv
<1>2. ASSUME NEW dt \in StepSizes, Step(dt) PROVE IInv'
  BY <1>2, StepIInv
<1>3. CASE UNCHANGED vars
  BY <1>3 DEF vars, IInv, TypeOK, TimeoutIsExact, TimerIsAge,
              LimitFlagMeansClamped, SpeedIsStoppable
<1> QED BY <1>1, <1>2, <1>3 DEF Next

LEMMA Inductive == Spec => []IInv
BY InitIInv, NextIInv, PTL DEF Spec

--------------------------------------------------------------------------------
(* Safety *)

\* Types, and the soft limits: neither the position nor the target in force ever
\* leaves them (joint.c, both clamps).
THEOREM TypeCorrect == Spec => []TypeOK
BY Inductive, PTL DEF IInv

\* The command timeout is exact, for every timeout and every step size.
THEOREM TimeoutExact == Spec => []TimeoutIsExact
BY Inductive, PTL DEF IInv

\* A joint that reports LIMIT_REACHED drives to a soft limit.
THEOREM LimitClamped == Spec => []LimitFlagMeansClamped
BY Inductive, PTL DEF IInv

\* Whatever is commanded, the joint is never faster than sqrt(2 a (max - min)).
THEOREM Stoppable == Spec => []SpeedIsStoppable
BY Inductive, PTL DEF IInv

--------------------------------------------------------------------------------
(* What a step may not do *)

\* A step driven towards a target ahead ends on the near side of it or on it.
THEOREM TargetNotPassed == Spec => NeverPassesTarget
<1> DEFINE A == mode' = "POSITION" /\ target' = target =>
                   /\ position < target => position' <= target
                   /\ position > target => position' >= target
<1>1. ASSUME IInv, Next, mode' = "POSITION" /\ target' = target
      PROVE  /\ position < target => position' <= target
             /\ position > target => position' >= target
  <2>1. /\ position \in MinPos..MaxPos /\ target \in MinPos..MaxPos /\ velocity \in Int
        /\ maxVelocity \in Nat /\ MinPos \in Int /\ MaxPos \in Int
    BY <1>1, ConfigAssumption DEF IInv, TypeOK
  <2>2. ASSUME NEW c \in Commands, Command(c) PROVE position' = position
    BY <2>2 DEF Command
  <2>3. ASSUME NEW dt \in StepSizes, Step(dt)
        PROVE  /\ position < target => position' <= target
               /\ position > target => position' >= target
    <3>1. PICK v \in 0..maxVelocity : Drive(v, dt) BY <1>1, <2>3, DrivenStep
    <3>2. v \in Nat BY <2>1
    <3>3. Sped(v, dt) \in Int BY <2>1, <3>2, SpedBetween
    <3> DEFINE move == TruncDiv(Sped(v, dt) * dt, Second)
    <3>4. move \in Int BY <3>3, DistanceType
    <3>5. Err \in Int /\ Err = target - position BY <2>1 DEF Err
    <3>6. position' = Clamp(position + Travel(move), MinPos, MaxPos)
      BY <3>1 DEF Drive
    <3> HIDE DEF move
    <3>7. /\ Travel(move) \in Int
          /\ Err > 0 => Travel(move) <= Err
          /\ Err < 0 => Travel(move) >= Err
      BY <3>4, <3>5, TravelType
    <3> QED BY <2>1, <3>5, <3>6, <3>7 DEF Clamp
  <2> QED BY <1>1, <2>1, <2>2, <2>3 DEF Next
<1>2. IInv /\ [Next]_vars => [A]_vars BY <1>1
<1> QED BY Inductive, <1>2, PTL DEF Spec, NeverPassesTarget

\* A driven joint that gains speed ends at or below the speed it wants.
LEMMA GainStopsAtLimit ==
    ASSUME NEW v \in Nat, NEW want \in {v, -v}, velocity \in Int, NEW most \in Nat \ {0},
           Magnitude(Approach(velocity, want, most)) > Magnitude(velocity)
    PROVE  Magnitude(Approach(velocity, want, most)) <= v
BY DEF Approach, Magnitude

\* Only on arriving at its target does a joint change its velocity by more than
\* the acceleration limit, and what it gains leaves it able to stop there.
THEOREM WithinLimits == Spec => MovesWithinLimits
<1> DEFINE A == \A dt \in StepSizes : Step(dt) => ChangeIsLimited(dt) /\ GainIsStoppable
<1>1. ASSUME IInv, NEW dt \in StepSizes, Step(dt)
      PROVE  ChangeIsLimited(dt) /\ GainIsStoppable
  <2>1. /\ position \in MinPos..MaxPos /\ target \in MinPos..MaxPos /\ velocity \in Int
        /\ maxVelocity \in Nat /\ MinPos \in Int /\ MaxPos \in Int
    BY <1>1, ConfigAssumption DEF IInv, TypeOK
  <2>2. CASE mode' # "POSITION"
    <3>1. Brake(dt) BY <1>1, <2>2 DEF Step
    <3>2. ChangeIsLimited(dt) BY <2>1, <3>1, BrakedBetween DEF Brake, ChangeIsLimited
    <3> QED BY <2>2, <3>2 DEF GainIsStoppable
  <2>3. CASE mode' = "POSITION"
    <3>1. PICK v \in 0..maxVelocity : v * v <= 2 * Accel * Magnitude(Err) /\ Drive(v, dt)
      BY <1>1, <2>3, DrivenStep
    <3>2. v \in Nat BY <2>1
    <3>3. Sped(v, dt) \in Int /\ Magnitude(Sped(v, dt) - velocity) <= DriveStep(dt)
      BY <2>1, <3>2, SpedBetween
    <3> DEFINE move == TruncDiv(Sped(v, dt) * dt, Second)
    <3>4. CASE Travel(move) = Err
      <4>1. velocity' = 0 /\ position' = Clamp(position + Err, MinPos, MaxPos)
        BY <3>1, <3>4 DEF Drive
      <4>2. position + Err = target BY <2>1 DEF Err
      <4>3. position' = target BY <2>1, <4>1, <4>2, ClampRange DEF Clamp
      <4>4. ~(Magnitude(velocity') > Magnitude(velocity)) BY <2>1, <4>1 DEF Magnitude
      <4> QED BY <2>3, <4>1, <4>3, <4>4 DEF ChangeIsLimited, GainIsStoppable
    <3>5. CASE Travel(move) # Err
      <4>1. velocity' = Sped(v, dt) BY <3>1, <3>5 DEF Drive
      <4>2. ChangeIsLimited(dt) BY <3>3, <4>1 DEF ChangeIsLimited
      <4>3. GainIsStoppable
        <5> SUFFICES ASSUME Magnitude(velocity') > Magnitude(velocity)
                     PROVE  velocity' * velocity' <= 2 * Accel * Magnitude(Err)
          BY DEF GainIsStoppable
        <5>1. PICK want \in {v, -v} : Sped(v, dt) = Approach(velocity, want, DriveStep(dt))
          BY DEF Sped
        <5>2. Magnitude(velocity') <= v
          BY <2>1, <3>2, <4>1, <5>1, StepTypes, GainStopsAtLimit
        <5>3. velocity' \in Int BY <3>3, <4>1
        <5> DEFINE m == Magnitude(velocity')
        <5>4. m \in Nat /\ m * m = velocity' * velocity' BY <5>3, SquareMagnitude
        <5> HIDE DEF m
        <5>5. m * m <= v * v BY <3>2, <5>2, <5>4, SquareMono DEF m
        <5>6. 2 * Accel * Magnitude(Err) \in Int
          <6>1. Err \in Int BY <2>1 DEF Err
          <6>2. Magnitude(Err) \in Nat /\ Accel \in Nat BY <6>1, SquareMagnitude, AccelType
          <6> QED BY <6>2
        <5>7. m * m \in Int /\ v * v \in Int BY <3>2, <5>4
        <5> QED BY <3>1, <5>4, <5>5, <5>6, <5>7
      <4> QED BY <4>2, <4>3
    <3> QED BY <3>4, <3>5
  <2> QED BY <2>2, <2>3
<1>2. IInv /\ [Next]_vars => [A]_vars BY <1>1
<1> QED BY Inductive, <1>2, PTL DEF Spec, MovesWithinLimits

\* A disabled joint only brakes.
THEOREM BrakesOnly == Spec => DisabledOnlyBrakes
<1> DEFINE A == mode' = "DISABLED" =>
                   /\ Magnitude(velocity') <= Magnitude(velocity)
                   /\ velocity >= 0 => velocity' >= 0 /\ position' >= position
                   /\ velocity <= 0 => velocity' <= 0 /\ position' <= position
<1>1. ASSUME IInv, Next, mode' = "DISABLED"
      PROVE  /\ Magnitude(velocity') <= Magnitude(velocity)
             /\ velocity >= 0 => velocity' >= 0 /\ position' >= position
             /\ velocity <= 0 => velocity' <= 0 /\ position' <= position
  <2>1. /\ position \in MinPos..MaxPos /\ velocity \in Int
        /\ MinPos \in Int /\ MaxPos \in Int
    BY <1>1, ConfigAssumption DEF IInv, TypeOK
  <2>2. ASSUME NEW c \in Commands, Command(c)
        PROVE  velocity' = velocity /\ position' = position
    BY <2>2 DEF Command
  <2>3. ASSUME NEW dt \in StepSizes, Brake(dt)
        PROVE  /\ Magnitude(velocity') <= Magnitude(velocity)
               /\ velocity >= 0 => velocity' >= 0 /\ position' >= position
               /\ velocity <= 0 => velocity' <= 0 /\ position' <= position
    <3>1. /\ Braked(dt) \in Int
          /\ velocity >= 0 => 0 <= Braked(dt) /\ Braked(dt) <= velocity
          /\ velocity <= 0 => velocity <= Braked(dt) /\ Braked(dt) <= 0
      BY <2>1, BrakedBetween
    <3> DEFINE move == TruncDiv(Braked(dt) * dt, Second)
    <3>2. /\ move \in Int
          /\ Braked(dt) >= 0 => move >= 0
          /\ Braked(dt) <= 0 => move <= 0
      BY <3>1, DistanceType
    <3>3. velocity' = Braked(dt) /\ position' = Clamp(position + move, MinPos, MaxPos)
      BY <2>3 DEF Brake
    <3> HIDE DEF move
    <3>4. /\ move >= 0 => position' >= position
          /\ move <= 0 => position' <= position
      BY <2>1, <3>2, <3>3 DEF Clamp
    <3>5. Magnitude(velocity') <= Magnitude(velocity)
      BY <2>1, <3>1, <3>3 DEF Magnitude
    <3> QED BY <2>1, <3>1, <3>2, <3>3, <3>4, <3>5
  <2>4. ASSUME NEW dt \in StepSizes, Step(dt) PROVE Brake(dt)
    BY <1>1, <2>4 DEF Step
  <2>5. CASE \E c \in Commands : Command(c) BY <2>1, <2>2, <2>5 DEF Magnitude
  <2>6. CASE \E dt \in StepSizes : Step(dt) BY <2>3, <2>4, <2>6
  <2> QED BY <1>1, <2>5, <2>6 DEF Next
<1>2. IInv /\ [Next]_vars => [A]_vars BY <1>1
<1> QED BY Inductive, <1>2, PTL DEF Spec, DisabledOnlyBrakes

--------------------------------------------------------------------------------
(* Progress: what a step does towards standstill and towards the target *)

\* Unless its braking step rounds to zero, a joint with a timeout comes to rest within
\* CommandTimeout and then |velocity| steps without a command: every step is one of them.
THEOREM StandstillNears == Spec => NearsStandstill
<1> DEFINE P(dt) == \/ mode' = "POSITION" /\ quiet < quiet' /\ quiet' <= CommandTimeout
                    \/ mode' = "DISABLED" /\ Magnitude(velocity') < Magnitude(velocity)
                    \/ mode' = "DISABLED" /\ velocity' = 0
           A == \A dt \in StepSizes :
                   Step(dt) /\ CommandTimeout # 0 /\ BrakeStep(dt) > 0 => P(dt)
<1>1. ASSUME IInv, NEW dt \in StepSizes, Step(dt), CommandTimeout # 0, BrakeStep(dt) > 0
      PROVE  P(dt)
  <2>1. /\ velocity \in Int /\ mode \in {"DISABLED", "POSITION"}
        /\ quiet \in Nat /\ since \in Nat /\ dt \in Nat \ {0} /\ CommandTimeout \in Nat
    BY <1>1, ConfigAssumption DEF IInv, TypeOK, Step
  <2>2. Supervise(dt) BY <1>1 DEF Step
  <2>3. mode' \in {"DISABLED", "POSITION"} BY <2>1, <2>2 DEF Supervise
  <2>4. CASE mode' = "POSITION"
    <3>1. mode = "POSITION" /\ ~Expires(dt) BY <2>2, <2>4 DEF Supervise, Expires
    <3>2. since = quiet BY <1>1, <3>1 DEF IInv, TimerIsAge
    <3>3. since + dt <= CommandTimeout BY <1>1, <2>1, <3>1 DEF Expires, Watched
    <3> QED BY <2>1, <2>2, <2>4, <3>2, <3>3 DEF Supervise
  <2>5. CASE mode' = "DISABLED"
    <3>1. velocity' = Braked(dt) BY <1>1, <2>5 DEF Step, Brake
    <3>2. BrakeStep(dt) \in Nat BY StepTypes
    <3> QED BY <1>1, <2>1, <2>5, <3>1, <3>2 DEF Braked, Magnitude
  <2> QED BY <2>3, <2>4, <2>5
<1>2. IInv /\ [Next]_vars => [A]_vars BY <1>1
<1> QED BY Inductive, <1>2, PTL DEF Spec, NearsStandstill

\* A driven joint is brought to its target by its steps: it comes at least 1 mdeg nearer
\* with each one, as soon as it has stopped moving away, arrives at rest, and stays.
THEOREM TargetNears == Spec => NearsTarget
<1> DEFINE A == \A dt \in StepSizes : Step(dt) /\ mode' = "POSITION" =>
                   NearsFromBelow /\ NearsFromAbove /\ ArrivesAtRest /\ RestsThere
<1>1. ASSUME IInv, NEW dt \in StepSizes, Step(dt), mode' = "POSITION"
      PROVE  NearsFromBelow /\ NearsFromAbove /\ ArrivesAtRest /\ RestsThere
  <2>1. /\ position \in MinPos..MaxPos /\ target \in MinPos..MaxPos /\ velocity \in Int
        /\ maxVelocity \in Nat /\ MinPos \in Int /\ MaxPos \in Int
    BY <1>1, ConfigAssumption DEF IInv, TypeOK
  <2>2. PICK v \in 0..maxVelocity : v * v <= 2 * Accel * Magnitude(Err) /\ Drive(v, dt)
    BY <1>1, DrivenStep
  <2>3. v \in Nat BY <2>1
  <2> DEFINE sped == Sped(v, dt)
             most == DriveStep(dt)
             move == TruncDiv(sped * dt, Second)
             travel == Travel(move)
  <2>4. sped \in Int BY <2>1, <2>3, SpedBetween
  <2>5. most \in Nat \ {0} BY StepTypes
  <2>6. sped = Approach(velocity, IF Err > 0 THEN v ELSE -v, most) BY DEF Sped
  <2>7. move \in Int /\ (sped >= 0 => move >= 0) /\ (sped <= 0 => move <= 0)
    BY <2>4, DistanceType
  <2>8. Err \in Int /\ Err = target - position BY <2>1 DEF Err
  <2>9. /\ velocity' = (IF travel = Err THEN 0 ELSE sped)
        /\ position' = Clamp(position + travel, MinPos, MaxPos)
    BY <2>2 DEF Drive
  <2> HIDE DEF sped, most, move
  <2>10. /\ travel \in Int
         /\ Err > 0 => travel <= Err /\ (move >= 0 => travel > 0)
         /\ Err < 0 => travel >= Err /\ (move <= 0 => travel < 0)
    BY <2>7, <2>8 DEF Travel, Passes
  <2> HIDE DEF travel
  <2>11. NearsFromBelow
    <3> SUFFICES ASSUME position < target
                 PROVE  IF velocity >= 0
                        THEN position' \in (position + 1) .. target /\ velocity' >= 0
                        ELSE velocity' > velocity
      BY DEF NearsFromBelow
    <3>1. Err > 0 BY <2>1, <2>8
    <3>2. CASE velocity >= 0
      <4>1. sped >= 0 BY <2>1, <2>3, <2>5, <2>6, <3>1, <3>2 DEF Approach
      <4>2. travel > 0 /\ travel <= Err BY <2>7, <2>10, <3>1, <4>1
      <4>3. position' = position + travel BY <2>1, <2>8, <2>9, <2>10, <4>2 DEF Clamp
      <4> QED BY <2>1, <2>8, <2>9, <2>10, <3>2, <4>1, <4>2, <4>3
    <3>3. CASE velocity < 0
      <4>1. sped > velocity BY <2>1, <2>3, <2>5, <2>6, <3>1, <3>3 DEF Approach
      <4> QED BY <2>1, <2>9, <3>3, <4>1
    <3> QED BY <2>1, <3>2, <3>3
  <2>12. NearsFromAbove
    <3> SUFFICES ASSUME position > target
                 PROVE  IF velocity <= 0
                        THEN position' \in target .. (position - 1) /\ velocity' <= 0
                        ELSE velocity' < velocity
      BY DEF NearsFromAbove
    <3>1. Err < 0 BY <2>1, <2>8
    <3>2. CASE velocity <= 0
      <4>1. sped <= 0 BY <2>1, <2>3, <2>5, <2>6, <2>8, <3>1, <3>2 DEF Approach
      <4>2. travel < 0 /\ travel >= Err BY <2>7, <2>10, <3>1, <4>1
      <4>3. position' = position + travel BY <2>1, <2>8, <2>9, <2>10, <4>2 DEF Clamp
      <4> QED BY <2>1, <2>8, <2>9, <2>10, <3>2, <4>1, <4>2, <4>3
    <3>3. CASE velocity > 0
      <4>1. sped < velocity BY <2>1, <2>3, <2>5, <2>6, <2>8, <3>1, <3>3 DEF Approach
      <4> QED BY <2>1, <2>9, <3>3, <4>1
    <3> QED BY <2>1, <3>2, <3>3
  <2>13. RestsThere
    <3> SUFFICES ASSUME position = target
                 PROVE  IF velocity = 0 THEN position' = position /\ velocity' = 0
                        ELSE Magnitude(velocity') < Magnitude(velocity)
      BY DEF RestsThere
    <3>1. Err = 0 BY <2>1, <2>8
    <3>2. v * v <= 0 BY <2>2, <3>1, AccelType DEF Magnitude
    <3>3. v = 0
      <4>1. ASSUME v >= 1 PROVE FALSE
        <5>1. v * 1 <= v * v BY <2>3, <4>1, MulMono
        <5> QED BY <2>3, <3>2, <4>1, <5>1
      <4> QED BY <2>3, <4>1
    <3>4. sped = Approach(velocity, 0, most) BY <2>6, <3>1, <3>3
    <3>5. CASE velocity = 0
      <4>1. sped = 0 BY <2>5, <3>4, <3>5 DEF Approach
      <4>2. move = 0 BY <2>7, <4>1
      <4>3. travel = 0 BY <3>1, <4>2 DEF travel, Travel, Passes
      <4>4. position' = position BY <2>1, <2>9, <4>3 DEF Clamp
      <4> QED BY <2>9, <3>1, <3>5, <4>3, <4>4
    <3>6. CASE velocity # 0
      <4>1. Magnitude(sped) < Magnitude(velocity)
        BY <2>1, <2>5, <3>4, <3>6 DEF Approach, Magnitude
      <4> QED BY <2>1, <2>9, <3>6, <4>1 DEF Magnitude
    <3> QED BY <3>5, <3>6
  <2>14. ArrivesAtRest
    <3> SUFFICES ASSUME position # target, position' = target PROVE velocity' = 0
      BY DEF ArrivesAtRest
    <3>1. travel = Err BY <2>1, <2>8, <2>9, <2>10 DEF Clamp
    <3> QED BY <2>9, <3>1
  <2> QED BY <2>11, <2>12, <2>13, <2>14
<1>2. IInv /\ [Next]_vars => [A]_vars BY <1>1
<1> QED BY Inductive, <1>2, PTL DEF Spec, NearsTarget

--------------------------------------------------------------------------------
(* Refinement *)

\* A joint with a command timeout implements the command watchdog: between two
\* commands it drives exactly as long as the last one is fresh.
THEOREM WatchdogImplemented ==
    ASSUME CommandTimeout # 0
    PROVE  Spec => ImplementsWatchdog
<1> USE DEF Watchdog!Stale, Watchdog!Aged
<1>1. Init => Watchdog!Init
  BY DEF Init, Watchdog!Init
<1>2. IInv /\ [Next]_vars => [Watchdog!Next]_(Watchdog!vars)
  <2> SUFFICES ASSUME IInv, [Next]_vars
               PROVE  Watchdog!Next \/ UNCHANGED Watchdog!vars
    OBVIOUS
  <2>1. ASSUME NEW c \in Commands, Command(c) PROVE Watchdog!Command
    BY <2>1 DEF Command, Watchdog!Command
  <2>2. ASSUME NEW dt \in StepSizes, Step(dt) PROVE Watchdog!Elapse(dt)
    <3>1. dt \in Nat /\ CommandTimeout \in Nat BY ConfigAssumption
    <3>2. quiet \in Nat /\ since \in Nat BY <3>1 DEF IInv, TypeOK
    <3>3. Supervise(dt) BY <2>2 DEF Step
    <3>4. quiet' = Watchdog!Aged(quiet, dt) BY <3>3 DEF Supervise
    <3>5. CASE mode = "POSITION"
      <4>1. since = quiet BY <3>5 DEF IInv, TimerIsAge
      <4>2. Expires(dt) <=> quiet' = CommandTimeout + 1
        BY <3>1, <3>2, <3>3, <3>5, <4>1 DEF Supervise, Expires, Watched
      <4>3. mode' = IF Expires(dt) THEN "DISABLED" ELSE mode BY <3>3 DEF Supervise
      <4> QED BY <3>4, <3>5, <4>2, <4>3 DEF Watchdog!Elapse
    <3>6. CASE mode # "POSITION"
      <4>1. mode' = mode BY <3>3, <3>6 DEF Supervise, Expires, Watched
      <4> QED BY <3>4, <3>6, <4>1 DEF Watchdog!Elapse
    <3> QED BY <3>5, <3>6
  <2>3. CASE UNCHANGED vars BY <2>3 DEF vars, Watchdog!vars
  <2> QED BY <2>1, <2>2, <2>3 DEF Next, Watchdog!Next
<1> QED BY <1>1, <1>2, Inductive, PTL DEF Spec, ImplementsWatchdog, Watchdog!Spec

\* rjs_joint_command and rjs_joint_step change mode, PEER_LOST and the timer as the
\* reduced joint of JointTimer does, whatever else they do: the tasks may be modelled
\* with the reduced joint.
THEOREM ReducesToTimer == Spec => BehavesAsTimer
<1> DEFINE A == CommandTimeout # 0 =>
                    /\ \A c \in Commands : Command(c) => Reduced' = Timer!Commanded(c.mode)
                    /\ \A dt \in StepSizes :
                          Step(dt) => Reduced' = Timer!Stepped(Reduced, dt)
<1>1. ASSUME IInv, [Next]_vars PROVE [A]_vars
  <2> SUFFICES ASSUME CommandTimeout # 0 PROVE A OBVIOUS
  <2>1. ASSUME NEW c \in Commands, Command(c)
        PROVE  Reduced' = Timer!Commanded(c.mode)
    <3>1. "PEER_LOST" \notin errorFlags'
      <4>1. CASE c.mode = "POSITION"
        <5>1. errorFlags' = LimitFlag(c.target) BY <2>1, <4>1 DEF Command
        <5> QED BY <5>1 DEF LimitFlag
      <4>2. CASE c.mode # "POSITION"
        <5>1. errorFlags' = errorFlags \ {"PEER_LOST"} BY <2>1, <4>2 DEF Command
        <5> QED BY <5>1
      <4> QED BY <4>1, <4>2
    <3>2. mode' = c.mode /\ since' = 0 BY <2>1 DEF Command
    <3>3. ("PEER_LOST" \in errorFlags') = FALSE BY <3>1
    <3>4. Reduced' = [mode |-> c.mode, lost |-> FALSE, since |-> 0]
      BY <3>2, <3>3 DEF Reduced
    <3> QED BY <3>4 DEF Timer!Commanded
  <2>2. ASSUME NEW dt \in StepSizes, Step(dt)
        PROVE  Reduced' = Timer!Stepped(Reduced, dt)
    <3>1. Supervise(dt) BY <2>2 DEF Step
    <3>2. CASE mode = "DISABLED"
      <4>1. UNCHANGED <<mode, errorFlags, since>>
        BY <3>1, <3>2 DEF Supervise, Expires, Watched
      <4> QED BY <3>2, <4>1 DEF Reduced, Timer!Stepped
    <3>3. CASE mode = "POSITION"
      <4>1. since' = since + dt BY <1>1, <3>1, <3>3 DEF Supervise, Watched
      <4>2. CASE since + dt > CommandTimeout
        <5>1. mode' = "DISABLED" /\ "PEER_LOST" \in errorFlags'
          BY <1>1, <3>1, <3>3, <4>2 DEF Supervise, Expires, Watched
        <5> QED BY <3>3, <4>1, <4>2, <5>1 DEF Reduced, Timer!Stepped
      <4>3. CASE ~(since + dt > CommandTimeout)
        <5>1. UNCHANGED <<mode, errorFlags>>
          BY <3>1, <4>3 DEF Supervise, Expires
        <5> QED BY <3>3, <4>1, <4>3, <5>1 DEF Reduced, Timer!Stepped
      <4> QED BY <4>2, <4>3
    <3> QED BY <1>1, <3>2, <3>3 DEF IInv, TypeOK
  <2> QED BY <2>1, <2>2
<1>2. IInv /\ [Next]_vars => [A]_vars BY <1>1
<1> QED BY <1>2, Inductive, PTL DEF Spec, BehavesAsTimer
================================================================================
