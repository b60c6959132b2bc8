---------------------------- MODULE FailureDetector ----------------------------
(***************************************************************************)
(* What node supervision promises, without tables, counters or events: a   *)
(* node that is watched is held ALIVE while it is heard, may be declared    *)
(* LOST only after a silence longer than Timeout, and is declared LOST      *)
(* before its silence exceeds Timeout + Slack.  Supervision implements it.  *)
(***************************************************************************)
EXTENDS Naturals

CONSTANTS
    Nodes,
    Timeout,    \* longest silence, in ms, of a node that may not be given up
    Slack       \* how much later than that a node is given up at the latest

VARIABLES
    status,     \* what is reported of each node
    silence     \* time since each node was last heard, Ages at most Long

vars == <<status, silence>>

\* Silences beyond Timeout + Slack need not be told apart.
Long == Timeout + Slack + 1
Older(s) == IF s < Long THEN s + 1 ELSE Long

Init ==
    /\ status = [n \in Nodes |-> "UNKNOWN"]
    /\ silence = [n \in Nodes |-> Long]

\* The nodes in heard are heard, and those in suspects given up.
Observe(heard, suspects) ==
    /\ \A n \in suspects \ heard : status[n] = "ALIVE" /\ silence[n] > Timeout
    /\ status' = [n \in Nodes |-> IF n \in heard THEN "ALIVE"
                                  ELSE IF n \in suspects THEN "LOST" ELSE status[n]]
    /\ silence' = [n \in Nodes |-> IF n \in heard THEN 0 ELSE silence[n]]

\* A millisecond passes, unless a node that is overdue is still held ALIVE.
Elapse ==
    /\ \A n \in Nodes : status[n] = "ALIVE" => silence[n] < Timeout + Slack
    /\ silence' = [n \in Nodes |-> Older(silence[n])]
    /\ UNCHANGED status

Next ==
    \/ Elapse
    \/ \E heard, suspects \in SUBSET Nodes : Observe(heard, suspects)

Spec == Init /\ [][Next]_vars
================================================================================
