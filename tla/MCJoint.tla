-------------------------------- MODULE MCJoint --------------------------------
(* Instances of Joint for TLC. *)
EXTENDS Joint

MCMinPos == -6

Pos(t, v) == [mode |-> "POSITION", target |-> t, maxVelocity |-> v, sequence |-> 1]
Off == [mode |-> "DISABLED", target |-> 0, maxVelocity |-> 0, sequence |-> 0]

\* Targets inside and beyond the limits, fast enough to be passed when the target is
\* moved close, and a limit below 1 mdeg per step.
MCCommands == {Off, Pos(3, 15), Pos(-9, 12), Pos(9, 12), Pos(-2, 2)}
================================================================================
