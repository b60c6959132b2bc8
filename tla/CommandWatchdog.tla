---------------------------- MODULE CommandWatchdog ----------------------------
(***************************************************************************)
(* What a joint promises about its command timeout, without saying how it  *)
(* keeps the promise: it may drive towards a target only while its last    *)
(* COMMAND is at most Timeout milliseconds old, and nothing but a COMMAND  *)
(* makes it drive again.  Joint implements this specification.             *)
(***************************************************************************)
EXTENDS Naturals

CONSTANTS
    Timeout,    \* oldest COMMAND, in ms, that still lets the joint drive (> 0)
    StepSizes   \* the amounts of time, in ms, a control step may advance

VARIABLES
    driving,    \* is the joint driven towards a target?
    quiet       \* age of the last COMMAND in ms, Stale once beyond Timeout

vars == <<driving, quiet>>

\* Every age beyond the timeout is as good as any other.
Stale == Timeout + 1
Aged(q, dt) == IF q + dt > Timeout THEN Stale ELSE q + dt

Init ==
    /\ driving = FALSE
    /\ quiet = Stale

\* A COMMAND arrives; it decides whether the joint drives.
Command ==
    /\ driving' \in BOOLEAN
    /\ quiet' = 0

\* Time passes: the joint must stop driving when its COMMAND becomes stale, and
\* must not stop earlier.
Elapse(dt) ==
    /\ quiet' = Aged(quiet, dt)
    /\ driving' = (driving /\ quiet' # Stale)

Next == Command \/ \E dt \in StepSizes : Elapse(dt)

Spec == Init /\ [][Next]_vars
================================================================================
