---------------------------------- MODULE MCCan ---------------------------------
(***************************************************************************)
(* The pure parts of the CAN stack for model checking: the wire format on    *)
(* the boundary values of every field, and the bit timing against its        *)
(* reference for every request up to MaxClock.                               *)
(***************************************************************************)
EXTENDS Wire, CanTiming, TLC

CONSTANTS Nodes, MaxClock, MaxBitrate, Samples, Presc, Seg1, Seg2

ASSUME SenderAssumption == Nodes \subseteq Nat

ASSUME TimingAssumption ==
    /\ MaxClock \in Nat /\ MaxBitrate \in Nat /\ Samples \subseteq Nat
    /\ Presc \in Nat /\ Seg1 \in Nat /\ Seg2 \in Nat

VARIABLE request

None == [clock |-> 0]
Requests == [clock : 1 .. MaxClock, bitrate : 0 .. MaxBitrate, sample : Samples]

Boundary(f) ==
    LET all == Power(f.width)
    IN  IF f.signed THEN <<-(all \div 2), -1, all \div 2 - 1>>
        ELSE IF f.width = 1 THEN <<0, 1, 4>> ELSE <<1, Base, all - 1>>

\* All values of a message whose fields are at a boundary.
Values(kind) ==
    {[i \in DOMAIN Layout[kind] |-> Boundary(Layout[kind][i])[n[i]]] :
        n \in [DOMAIN Layout[kind] -> 1 .. 3]}

Limits == [presc |-> Presc, tseg1 |-> Seg1, tseg2 |-> Seg2, sjw |-> 2]

MCInit ==
    /\ Init
    /\ \/ request = None
       \/ request \in Requests

\* Any byte of a COMMAND is changed, and then possibly its mode.
MCNext ==
    /\ request = None /\ UNCHANGED request
    /\ \/ stage = "idle" /\ \E kind \in Kinds, node \in Nodes : \E v \in Values(kind) : Send(kind, node, v)
       \/ \E len \in {4, 8, 20} : Resize(len)
       \/ /\ message.kind = "COMMAND"
          /\ \E b \in 0 .. 11, byte \in {0, 1, Base \div 2, Base - 1} :
                 (mangled => b = 1) /\ Overwrite(b, byte)
       \/ \E kind \in Kinds : Decode(kind)

MCSpec == MCInit /\ [][MCNext]_<<vars, request>>

\* The timing found is one of the exact timings with the fewest clock cycles to a
\* quantum, and none is found only if there is none, as can_timing.h promises;
\* leaving the loop at the first bit of less than 4 quanta loses nothing.
TimingIsBest ==
    request # None /\ ValidRequest(request) =>
        LET t == rjs_can_calc_timing(request, Limits)
            all == ExactTimings(request, Limits)
        IN  IF t.ok
            THEN /\ [presc |-> t.presc, tseg1 |-> t.tseg1, tseg2 |-> t.tseg2] \in all
                 /\ \A o \in all : t.presc <= o.presc
                 /\ t.sjw <= t.tseg2 /\ t.sjw <= Limits.sjw
            ELSE all = {}
================================================================================
