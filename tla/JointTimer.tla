------------------------------- MODULE JointTimer -------------------------------
(* joint.c as the other parts of a node see it: the mode, PEER_LOST, and the timer  *)
(* that decides about both.  JointProofs shows that the whole joint does just this. *)
EXTENDS Naturals

CONSTANT CommandTimeout   \* command_timeout_ms, not 0

\* The joint after a command, and after a step of dt.  The mutant watches a disabled
\* joint too.
Commanded(m) == [mode |-> m, lost |-> FALSE, since |-> 0]
SteppedUnguarded(j, dt) ==
    IF j.since + dt > CommandTimeout
    THEN [mode |-> "DISABLED", lost |-> TRUE, since |-> j.since + dt]
    ELSE [j EXCEPT !.since = @ + dt]
Stepped(j, dt) ==
    IF j.mode = "DISABLED" THEN j
    ELSE IF j.since + dt > CommandTimeout
    THEN [mode |-> "DISABLED", lost |-> TRUE, since |-> j.since + dt]
    ELSE [j EXCEPT !.since = @ + dt]
================================================================================
