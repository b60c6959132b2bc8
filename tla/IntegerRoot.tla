------------------------------ MODULE IntegerRoot ------------------------------
(* isqrt_u64 (common/joint): the integer square root, bit by bit, in a word of   *)
(* 2 * HalfBits bits (HalfBits is 32 in the code).                               *)
EXTENDS Integers

CONSTANT HalfBits

ASSUME HalfBitsAssumption == HalfBits \in Nat \ {0}

TwoTo[n \in Nat] == IF n = 0 THEN 1 ELSE 2 * TwoTo[n - 1]

Word == TwoTo[HalfBits] * TwoTo[HalfBits]
TopBit == TwoTo[HalfBits - 1] * TwoTo[HalfBits - 1]   \* 1 << 62

\* The variables of isqrt_u64.
LoopState == [x : Nat, r : Nat, bit : Nat]

\* One pass of the second while loop, for as long as bit is not 0.  The first loop, which
\* shifts bit down to x, is this one too: with r = 0 and bit > x a pass shifts bit only.
\* The mutant does not take off what it has used.
RoundKeepingRest == [s \in LoopState |->
    IF s.bit = 0 THEN s
    ELSE IF s.x >= s.r + s.bit
    THEN [x |-> s.x, r |-> s.r \div 2 + s.bit, bit |-> s.bit \div 4]
    ELSE [x |-> s.x, r |-> s.r \div 2, bit |-> s.bit \div 4]]
Round == [s \in LoopState |->
    IF s.bit = 0 THEN s
    ELSE IF s.x >= s.r + s.bit
    THEN [x |-> s.x - (s.r + s.bit), r |-> s.r \div 2 + s.bit, bit |-> s.bit \div 4]
    ELSE [x |-> s.x, r |-> s.r \div 2, bit |-> s.bit \div 4]]

\* The variables of isqrt_u64(u) after n passes, and what it returns.
Loop(u) ==
    LET s[n \in Nat] == IF n = 0 THEN [x |-> u, r |-> 0, bit |-> TopBit] ELSE Round[s[n - 1]]
    IN  s
Isqrt(u) == Loop(u)[HalfBits].r
================================================================================
