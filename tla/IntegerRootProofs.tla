--------------------------- MODULE IntegerRootProofs ---------------------------
(* isqrt_u64 is exact and overflows nowhere, for every width of the word. *)
EXTENDS IntegerRoot, NaturalsInduction, WellFoundedInduction, TLAPS

--------------------------------------------------------------------------------
(* Induction *)

\* A set of naturals has a least element: what a proof by induction rests on here.
LEMMA Least ==
    ASSUME NEW S \in SUBSET Nat, S # {}
    PROVE  \E x \in S : \A y \in S : x <= y
<1> DEFINE R == OpToRel(<, Nat)
<1>1. \A x, y \in Nat : <<y, x>> \in R <=> y < x BY DEF OpToRel
<1>2. IsWellFoundedOn(R, Nat) BY NatLessThanWellFounded
<1> HIDE DEF R
<1>3. PICK x \in S : \A y \in S : ~(<<y, x>> \in R) BY <1>2, WFMin
<1>4. \A y \in S : x <= y
  <2> TAKE y \in S
  <2>1. x \in Nat /\ y \in Nat /\ ~(y < x) BY <1>1, <1>3
  <2> QED BY <2>1
<1> QED BY <1>4

\* A set that holds 0 and the successor of each of its elements holds every natural.
LEMMA Induction ==
    ASSUME NEW S, 0 \in S, \A n \in Nat : n \in S => n + 1 \in S
    PROVE  Nat \subseteq S
<1> SUFFICES ASSUME Nat \ S # {} PROVE FALSE
  OBVIOUS
<1>1. PICK x \in Nat \ S : \A y \in Nat \ S : x <= y BY Least
<1>2. x \in Nat /\ x # 0 BY <1>1
<1>3. x - 1 \in Nat /\ ~(x <= x - 1) /\ (x - 1) + 1 = x BY <1>2
<1>4. x - 1 \in S BY <1>1, <1>3
<1>5. x \in S BY <1>3, <1>4
<1> QED BY <1>1, <1>5

\* Iterating a function from a value gives a function on the naturals.
LEMMA Iteration ==
    ASSUME NEW S, NEW a \in S, NEW F \in [S -> S]
    PROVE  \E g \in [Nat -> S] : g[0] = a /\ \A n \in Nat : g[n + 1] = F[g[n]]
<1> DEFINE Part(n) == {h \in [0 .. n -> S] : h[0] = a /\ \A i \in 0 .. n : i # 0 => h[i] = F[h[i - 1]]}
           Ends == {n \in Nat : Part(n) # {}}
<1>1. Nat \subseteq Ends
  <2>1. 0 \in Ends
    <3> DEFINE h == [i \in 0 .. 0 |-> a]
    <3>1. h \in [0 .. 0 -> S] /\ h[0] = a OBVIOUS
    <3>2. \A i \in 0 .. 0 : i = 0 OBVIOUS
    <3>3. h \in Part(0) BY <3>1, <3>2
    <3> QED BY <3>3
  <2>2. ASSUME NEW n \in Nat, n \in Ends PROVE n + 1 \in Ends
    <3>1. PICK h \in [0 .. n -> S] : h[0] = a /\ \A i \in 0 .. n : i # 0 => h[i] = F[h[i - 1]]
      BY <2>2
    <3> DEFINE k == [i \in 0 .. n + 1 |-> IF i <= n THEN h[i] ELSE F[h[n]]]
    <3>2. h[n] \in S /\ F[h[n]] \in S BY <3>1
    <3>3. k \in [0 .. n + 1 -> S]
      <4>1. ASSUME NEW i \in 0 .. n + 1 PROVE (IF i <= n THEN h[i] ELSE F[h[n]]) \in S
        <5>1. CASE i <= n BY <3>1, <5>1
        <5>2. CASE ~(i <= n) BY <3>2, <5>2
        <5> QED BY <5>1, <5>2
      <4> QED BY <4>1
    <3>4. k[0] = a BY <3>1
    <3>5. ASSUME NEW i \in 0 .. n + 1, i # 0 PROVE k[i] = F[k[i - 1]]
      <4>1. i - 1 \in 0 .. n /\ k[i - 1] = h[i - 1] BY <3>5
      <4>2. CASE i <= n
        <5>1. i \in 0 .. n /\ k[i] = h[i] BY <4>2
        <5> QED BY <3>1, <3>5, <4>1, <5>1
      <4>3. CASE ~(i <= n)
        <5>1. i - 1 = n /\ k[i] = F[h[n]] BY <4>3
        <5> QED BY <4>1, <5>1
      <4> QED BY <4>2, <4>3
    <3> HIDE DEF k
    <3>6. k \in Part(n + 1) BY <3>3, <3>4, <3>5
    <3> QED BY <3>6
  <2> HIDE DEF Ends
  <2> QED BY <2>1, <2>2, Induction
<1>2. ASSUME NEW m \in Nat, NEW n \in Nat, m <= n, NEW h \in Part(m), NEW k \in Part(n)
      PROVE  h[m] = k[m]
  <2> DEFINE Same == {i \in Nat : i <= m => h[i] = k[i]}
  <2>1. 0 \in Same OBVIOUS
  <2>2. ASSUME NEW i \in Nat, i \in Same PROVE i + 1 \in Same
    <3> SUFFICES ASSUME i + 1 <= m PROVE h[i + 1] = k[i + 1]
      OBVIOUS
    <3>1. i + 1 \in 0 .. m /\ i + 1 \in 0 .. n /\ i + 1 # 0 /\ (i + 1) - 1 = i /\ i <= m
      BY <1>2
    <3>2. h[i + 1] = F[h[i]] /\ k[i + 1] = F[k[i]] BY <3>1
    <3>3. h[i] = k[i] BY <2>2, <3>1
    <3> QED BY <3>2, <3>3
  <2>3. m \in Same
    <3> HIDE DEF Same
    <3> QED BY <2>1, <2>2, Induction
  <2> QED BY <2>3
<1> DEFINE p == [n \in Nat |-> CHOOSE h \in Part(n) : TRUE]
           g == [n \in Nat |-> p[n][n]]
<1>3. ASSUME NEW n \in Nat PROVE p[n] \in Part(n)
  <2>1. Part(n) # {} BY <1>1
  <2> HIDE DEF Part
  <2> QED BY <2>1
<1>4. ASSUME NEW n \in Nat PROVE g[n] = p[n][n] /\ g[n] \in S
  <2>1. p[n] \in Part(n) BY <1>3
  <2>2. p[n][n] \in S
    <3> HIDE DEF p
    <3> QED BY <2>1
  <2> HIDE DEF p
  <2> QED BY <2>2
<1>5. ASSUME NEW n \in Nat PROVE g[n] = IF n = 0 THEN a ELSE F[g[n - 1]]
  <2>1. p[n] \in Part(n) BY <1>3
  <2>2. CASE n = 0
    <3>1. p[n][0] = a
      <4> HIDE DEF p
      <4> QED BY <2>1
    <3> QED BY <1>4, <2>2, <3>1
  <2>3. CASE n # 0
    <3>1. n - 1 \in Nat /\ n - 1 <= n BY <2>3
    <3>2. p[n - 1] \in Part(n - 1) BY <1>3, <3>1
    <3> HIDE DEF p
    <3>3. p[n - 1][n - 1] = p[n][n - 1]
      <4> HIDE DEF Part
      <4> QED BY <1>2, <2>1, <3>1, <3>2
    <3>4. p[n][n] = F[p[n][n - 1]] BY <2>1, <2>3
    <3>5. g[n] = p[n][n] /\ g[n - 1] = p[n - 1][n - 1] BY <1>4, <3>1
    <3> QED BY <2>3, <3>3, <3>4, <3>5
  <2> QED BY <2>2, <2>3
<1>6. g \in [Nat -> S]
  <2>1. g = [n \in Nat |-> g[n]] OBVIOUS
  <2> HIDE DEF g
  <2> QED BY <1>4, <2>1
<1>7. g[0] = a BY <1>5
<1>8. ASSUME NEW n \in Nat PROVE g[n + 1] = F[g[n]]
  <2>1. n + 1 \in Nat /\ n + 1 # 0 /\ (n + 1) - 1 = n OBVIOUS
  <2> HIDE DEF g
  <2> QED BY <1>5, <2>1
<1> HIDE DEF g
<1> QED BY <1>6, <1>7, <1>8

--------------------------------------------------------------------------------
(* The integer square root *)

LEMMA TwoToFacts ==
    /\ TwoTo \in [Nat -> Nat]
    /\ \A n \in Nat : TwoTo[n] >= 1
    /\ TwoTo[0] = 1
    /\ \A n \in Nat \ {0} : TwoTo[n] = 2 * TwoTo[n - 1]
<1> DEFINE F == [v \in Nat |-> 2 * v]
           Defines(g) == g = [n \in Nat |-> IF n = 0 THEN 1 ELSE 2 * g[n - 1]]
<1>1. F \in [Nat -> Nat] /\ 1 \in Nat OBVIOUS
<1>2. PICK g \in [Nat -> Nat] : g[0] = 1 /\ \A n \in Nat : g[n + 1] = F[g[n]]
  <2> DEFINE S == Nat
             a == 1
  <2>1. a \in S OBVIOUS
  <2>2. F \in [S -> S] BY <1>1
  <2> HIDE DEF F, S, a
  <2>3. \E g \in [Nat -> S] : g[0] = a /\ \A n \in Nat : g[n + 1] = F[g[n]]
    BY <2>1, <2>2, Iteration
  <2> QED BY <2>3 DEF S, a
<1>3. Defines(g)
  <2> DEFINE e == [n \in Nat |-> IF n = 0 THEN 1 ELSE 2 * g[n - 1]]
  <2>1. ASSUME NEW n \in Nat PROVE g[n] = e[n]
    <3>1. CASE n = 0 BY <1>2, <3>1
    <3>2. CASE n # 0
      <4>1. n - 1 \in Nat /\ (n - 1) + 1 = n /\ g[n - 1] \in Nat BY <3>2
      <4>2. g[n] = F[g[n - 1]] BY <1>2, <4>1
      <4> QED BY <3>2, <4>1, <4>2
    <3> QED BY <3>1, <3>2
  <2>2. g = [n \in Nat |-> g[n]] OBVIOUS
  <2>3. e = [n \in Nat |-> e[n]] OBVIOUS
  <2> HIDE DEF e
  <2>4. g = e BY <2>1, <2>2, <2>3
  <2> QED BY <2>4 DEF e
<1>4. TwoTo = CHOOSE f : Defines(f) BY DEF TwoTo
<1>5. Defines(TwoTo)
  <2> HIDE DEF Defines
  <2> QED BY <1>3, <1>4
<1>6. TwoTo[0] = 1 /\ \A n \in Nat \ {0} : TwoTo[n] = 2 * TwoTo[n - 1] BY <1>5
<1> DEFINE Typed == {n \in Nat : TwoTo[n] \in Nat /\ TwoTo[n] >= 1}
<1>7. Nat \subseteq Typed
  <2>1. 0 \in Typed BY <1>6
  <2>2. ASSUME NEW n \in Nat, n \in Typed PROVE n + 1 \in Typed
    <3>1. TwoTo[n + 1] = 2 * TwoTo[n] BY <1>6
    <3> QED BY <2>2, <3>1
  <2> HIDE DEF Typed
  <2> QED BY <2>1, <2>2, Induction
<1>8. TwoTo \in [Nat -> Nat]
  <2>1. TwoTo = [n \in Nat |-> TwoTo[n]] BY <1>5
  <2> QED BY <1>7, <2>1
<1> QED BY <1>6, <1>7, <1>8

LEMMA RoundType == Round \in [LoopState -> LoopState]
<1> SUFFICES ASSUME NEW s \in LoopState PROVE Round[s] \in LoopState
  BY DEF Round
<1>1. s.x \in Nat /\ s.r \in Nat /\ s.bit \in Nat BY DEF LoopState
<1> QED BY <1>1 DEF Round, LoopState

\* The loop is what its definition says it is.
LEMMA LoopFacts ==
    ASSUME NEW u \in Nat
    PROVE  /\ Loop(u) \in [Nat -> LoopState]
           /\ Loop(u)[0] = [x |-> u, r |-> 0, bit |-> TopBit]
           /\ \A n \in Nat : Loop(u)[n + 1] = Round[Loop(u)[n]]
<1> DEFINE a == [x |-> u, r |-> 0, bit |-> TopBit]
           Defines(g) == g = [n \in Nat |-> IF n = 0 THEN a ELSE Round[g[n - 1]]]
<1>1. a \in LoopState
  <2>1. HalfBits - 1 \in Nat BY HalfBitsAssumption
  <2>2. TwoTo[HalfBits - 1] \in Nat BY <2>1, TwoToFacts
  <2>3. TopBit \in Nat BY <2>2 DEF TopBit
  <2> QED BY <2>3 DEF LoopState
<1>2. Loop(u) = CHOOSE f : Defines(f) BY DEF Loop
<1> HIDE DEF a
<1>3. \E g \in [Nat -> LoopState] : Defines(g)
  <2>1. PICK g \in [Nat -> LoopState] : g[0] = a /\ \A n \in Nat : g[n + 1] = Round[g[n]]
    BY <1>1, RoundType, Iteration
  <2> DEFINE e == [n \in Nat |-> IF n = 0 THEN a ELSE Round[g[n - 1]]]
  <2>2. ASSUME NEW n \in Nat PROVE g[n] = e[n]
    <3>1. CASE n = 0 BY <2>1, <3>1
    <3>2. CASE n # 0
      <4>1. n - 1 \in Nat /\ (n - 1) + 1 = n BY <3>2
      <4>2. g[n] = Round[g[n - 1]] BY <2>1, <4>1
      <4> QED BY <3>2, <4>2
    <3> QED BY <3>1, <3>2
  <2>3. g = [n \in Nat |-> g[n]] OBVIOUS
  <2>4. e = [n \in Nat |-> e[n]] OBVIOUS
  <2> HIDE DEF e
  <2>5. g = e BY <2>2, <2>3, <2>4
  <2> QED BY <2>5 DEF e
<1>4. Defines(Loop(u))
  <2> HIDE DEF Defines
  <2> QED BY <1>2, <1>3
<1> DEFINE l == Loop(u)
<1>5. l = [n \in Nat |-> IF n = 0 THEN a ELSE Round[l[n - 1]]] BY <1>4
<1> HIDE DEF l, Defines
<1>6. l[0] = a BY <1>5
<1>7. ASSUME NEW n \in Nat PROVE l[n + 1] = Round[l[n]]
  <2>1. n + 1 \in Nat /\ n + 1 # 0 /\ (n + 1) - 1 = n OBVIOUS
  <2> QED BY <1>5, <2>1
<1> DEFINE Typed == {n \in Nat : l[n] \in LoopState}
<1>8. Nat \subseteq Typed
  <2>1. 0 \in Typed BY <1>1, <1>6
  <2>2. ASSUME NEW n \in Nat, n \in Typed PROVE n + 1 \in Typed
    <3>1. l[n + 1] \in LoopState BY <1>7, <2>2, RoundType
    <3> QED BY <3>1
  <2> HIDE DEF Typed
  <2> QED BY <2>1, <2>2, Induction
<1>9. l \in [Nat -> LoopState]
  <2>1. l = [n \in Nat |-> l[n]] BY <1>5
  <2> QED BY <1>8, <2>1
<1> QED BY <1>6, <1>7, <1>9 DEF l, a
\* What holds before the pass for the bit b * b: root is the part of the square root that
\* is settled, and the rest of it is below 2 * b.
Settled(s, u, root, b) ==
    /\ s \in LoopState
    /\ s.bit = b * b /\ s.r = 2 * (root * b)
    /\ u = root * root + s.x
    /\ s.x < 2 * s.r + 4 * s.bit
    /\ root + 2 * b <= TwoTo[HalfBits]

\* A pass settles one more bit.
LEMMA RoundSettles ==
    ASSUME NEW u \in Nat, NEW s \in LoopState, NEW root \in Nat, NEW c \in Nat \ {0},
           Settled(s, u, root, 2 * c)
    PROVE  \E next \in Nat : Settled(Round[s], u, next, c)
<1> DEFINE p == root * c
           q == c * c
           w == root * root
           H == TwoTo[HalfBits]
<1>1. p \in Nat /\ q \in Nat /\ q # 0 /\ w \in Nat
  <2>1. q >= 1 BY SMT
  <2> QED BY <2>1
<1>2. (2 * c) * (2 * c) = 4 * q /\ root * (2 * c) = 2 * p OBVIOUS
<1>3. (root + 2 * c) * (root + 2 * c) = w + 4 * p + 4 * q /\ (root + 2 * c) * c = p + 2 * q
  OBVIOUS
<1>4. H \in Nat BY TwoToFacts, HalfBitsAssumption
<1>5. s.x \in Nat /\ s.r \in Nat /\ s.bit \in Nat BY DEF LoopState
<1>6. /\ s.bit = 4 * q /\ s.r = 4 * p /\ u = w + s.x
      /\ s.x < 2 * s.r + 4 * s.bit /\ root + 4 * c <= H
  BY <1>2, <1>4 DEF Settled
<1>7. Round[s] \in LoopState BY RoundType
<1>8. ASSUME s.x >= s.r + s.bit PROVE Settled(Round[s], u, root + 2 * c, c)
  <2>1. /\ Round[s].x = s.x - (s.r + s.bit) /\ Round[s].r = s.r \div 2 + s.bit
        /\ Round[s].bit = s.bit \div 4
    BY <1>1, <1>5, <1>6, <1>8 DEF Round
  <2> HIDE DEF p, q, w, H
  <2>2. Round[s].x = s.x - 4 * p - 4 * q /\ Round[s].r = 2 * p + 4 * q /\ Round[s].bit = q
    BY <1>1, <1>5, <1>6, <2>1
  <2>3. /\ Round[s].r = 2 * ((root + 2 * c) * c)
        /\ u = (root + 2 * c) * (root + 2 * c) + Round[s].x
        /\ Round[s].x < 2 * Round[s].r + 4 * Round[s].bit
    BY <1>1, <1>3, <1>5, <1>6, <2>2
  <2>4. (root + 2 * c) + 2 * c <= H BY <1>4, <1>6
  <2> QED BY <1>7, <2>2, <2>3, <2>4 DEF Settled, q, H
<1>9. ASSUME ~(s.x >= s.r + s.bit) PROVE Settled(Round[s], u, root, c)
  <2>1. Round[s].x = s.x /\ Round[s].r = s.r \div 2 /\ Round[s].bit = s.bit \div 4
    BY <1>1, <1>5, <1>6, <1>9 DEF Round
  <2> HIDE DEF p, q, w, H
  <2>2. Round[s].x = s.x /\ Round[s].r = 2 * p /\ Round[s].bit = q
    BY <1>1, <1>5, <1>6, <2>1
  <2>3. Round[s].x < 2 * Round[s].r + 4 * Round[s].bit
    BY <1>1, <1>5, <1>6, <1>9, <2>2
  <2>4. root + 2 * c <= H BY <1>4, <1>6
  <2> QED BY <1>6, <1>7, <2>2, <2>3, <2>4 DEF Settled, p, q, w, H
<1>10. root + 2 * c \in Nat OBVIOUS
<1> QED BY <1>8, <1>9, <1>10

\* The last pass leaves the root.
LEMMA LastRound ==
    ASSUME NEW u \in Nat, NEW s \in LoopState, NEW root \in Nat, Settled(s, u, root, 1)
    PROVE  /\ Round[s].bit = 0
           /\ Round[s].r * Round[s].r <= u
           /\ u < (Round[s].r + 1) * (Round[s].r + 1)
<1> DEFINE w == root * root
<1>1. w \in Nat /\ (root + 1) * (root + 1) = w + 2 * root + 1
      /\ (root + 2) * (root + 2) = w + 4 * root + 4
  OBVIOUS
<1>2. s.x \in Nat /\ s.r \in Nat /\ s.bit \in Nat BY DEF LoopState
<1>3. s.bit = 1 /\ s.r = 2 * root /\ u = w + s.x /\ s.x < 4 * root + 4
  BY <1>2 DEF Settled
<1> HIDE DEF w
<1>4. CASE s.x >= s.r + s.bit
  <2>1. Round[s].r = root + 1 /\ Round[s].bit = 0 BY <1>2, <1>3, <1>4 DEF Round
  <2> QED BY <1>1, <1>2, <1>3, <1>4, <2>1
<1>5. CASE ~(s.x >= s.r + s.bit)
  <2>1. Round[s].r = root /\ Round[s].bit = 0 BY <1>2, <1>3, <1>5 DEF Round
  <2> QED BY <1>1, <1>2, <1>3, <1>5, <2>1 DEF w
<1> QED BY <1>4, <1>5

LEMMA LoopSettles ==
    ASSUME NEW u \in Nat, u < Word, NEW n \in 0 .. HalfBits - 1
    PROVE  \E root \in Nat : Settled(Loop(u)[n], u, root, TwoTo[HalfBits - 1 - n])
<1> DEFINE Done == {k \in Nat : k < HalfBits =>
                       \E root \in Nat : Settled(Loop(u)[k], u, root, TwoTo[HalfBits - 1 - k])}
<1>1. HalfBits \in Nat \ {0} BY HalfBitsAssumption
<1>2. 0 \in Done
  <2> DEFINE b == TwoTo[HalfBits - 1]
  <2>1. b \in Nat /\ TwoTo[HalfBits] = 2 * b BY <1>1, TwoToFacts
  <2>2. Loop(u)[0] = [x |-> u, r |-> 0, bit |-> b * b] /\ Loop(u)[0] \in LoopState
    BY LoopFacts DEF TopBit
  <2>3. u < 4 * (b * b)
    <3> HIDE DEF b
    <3>1. Word = (2 * b) * (2 * b) BY <2>1 DEF Word
    <3> QED BY <2>1, <3>1
  <2> HIDE DEF b
  <2>4. /\ Loop(u)[0].bit = b * b /\ Loop(u)[0].r = 0 /\ Loop(u)[0].x = u
    BY <2>2
  <2>5. b * b \in Nat BY <2>1
  <2>6. Settled(Loop(u)[0], u, 0, b)
    <3>1. 0 = 2 * (0 * b) /\ u = 0 * 0 + u /\ 0 + 2 * b <= 2 * b BY <2>1
    <3>2. u < 2 * 0 + 4 * (b * b) BY <2>3, <2>5
    <3> QED BY <2>1, <2>2, <2>4, <3>1, <3>2 DEF Settled
  <2>7. HalfBits - 1 - 0 = HalfBits - 1 BY <1>1
  <2> QED BY <2>6, <2>7 DEF b
<1>3. ASSUME NEW k \in Nat, k \in Done PROVE k + 1 \in Done
  <2> SUFFICES ASSUME k + 1 < HalfBits
               PROVE  \E root \in Nat :
                          Settled(Loop(u)[k + 1], u, root, TwoTo[HalfBits - 1 - (k + 1)])
    OBVIOUS
  <2> DEFINE c == TwoTo[HalfBits - 1 - (k + 1)]
  <2>1. HalfBits - 1 - (k + 1) \in Nat /\ HalfBits - 1 - k \in Nat \ {0}
        /\ (HalfBits - 1 - k) - 1 = HalfBits - 1 - (k + 1) /\ k < HalfBits
    BY <1>1
  <2>2. c \in Nat \ {0} /\ TwoTo[HalfBits - 1 - k] = 2 * c BY <2>1, TwoToFacts
  <2>3. PICK root \in Nat : Settled(Loop(u)[k], u, root, TwoTo[HalfBits - 1 - k])
    BY <1>3, <2>1
  <2>4. Loop(u)[k + 1] = Round[Loop(u)[k]] /\ Loop(u)[k] \in LoopState BY LoopFacts
  <2> HIDE DEF c
  <2>5. Settled(Loop(u)[k], u, root, 2 * c) BY <2>2, <2>3
  <2>6. \E next \in Nat : Settled(Round[Loop(u)[k]], u, next, c)
    BY <2>2, <2>4, <2>5, RoundSettles
  <2> QED BY <2>4, <2>6 DEF c
<1>4. n \in Done
  <2>1. n \in Nat BY <1>1
  <2> HIDE DEF Done
  <2> QED BY <1>2, <1>3, <2>1, Induction
<1> QED BY <1>1, <1>4

\* isqrt_u64 is exact for every word, and needs no more passes than the word has pairs of
\* bits ("exact floor(sqrt(x))", joint.c:26).
THEOREM RootExact ==
    ASSUME NEW u \in Nat, u < Word
    PROVE  /\ Isqrt(u) \in Nat
           /\ Isqrt(u) * Isqrt(u) <= u
           /\ u < (Isqrt(u) + 1) * (Isqrt(u) + 1)
           /\ Loop(u)[HalfBits].bit = 0
<1>1. HalfBits \in Nat \ {0} /\ HalfBits - 1 \in 0 .. HalfBits - 1
      /\ HalfBits - 1 - (HalfBits - 1) = 0 /\ (HalfBits - 1) + 1 = HalfBits
  BY HalfBitsAssumption
<1>2. PICK root \in Nat : Settled(Loop(u)[HalfBits - 1], u, root, 1)
  <2>1. \E root \in Nat : Settled(Loop(u)[HalfBits - 1], u, root, TwoTo[HalfBits - 1 - (HalfBits - 1)])
    BY <1>1, LoopSettles
  <2> QED BY <1>1, <2>1, TwoToFacts
<1>3. /\ Loop(u)[HalfBits] = Round[Loop(u)[HalfBits - 1]]
      /\ Loop(u)[HalfBits - 1] \in LoopState /\ Loop(u)[HalfBits] \in LoopState
  <2>1. HalfBits - 1 \in Nat BY <1>1
  <2>2. Loop(u)[(HalfBits - 1) + 1] = Round[Loop(u)[HalfBits - 1]] BY <2>1, LoopFacts
  <2> QED BY <1>1, <2>1, <2>2, LoopFacts
<1>4. Loop(u)[HalfBits].r \in Nat BY <1>3 DEF LoopState
<1> QED BY <1>2, <1>3, <1>4, LastRound DEF Isqrt

\* No pass of isqrt_u64 overflows its word.
THEOREM RootFits ==
    ASSUME NEW u \in Nat, u < Word, NEW n \in 0 .. HalfBits - 1
    PROVE  Loop(u)[n].bit # 0 /\ Loop(u)[n].r + Loop(u)[n].bit < Word
<1> DEFINE b == TwoTo[HalfBits - 1 - n]
           H == TwoTo[HalfBits]
           s == Loop(u)[n]
<1>1. b \in Nat \ {0} /\ H \in Nat
  <2>1. HalfBits - 1 - n \in Nat /\ HalfBits \in Nat BY HalfBitsAssumption
  <2> QED BY <2>1, TwoToFacts
<1>2. PICK root \in Nat : Settled(s, u, root, b) BY LoopSettles
<1>3. s.bit = b * b /\ s.r = 2 * (root * b) /\ root + 2 * b <= H BY <1>2 DEF Settled
<1> HIDE DEF b, H, s
<1>4. s.r + s.bit <= (root + b) * (root + b)
  <2>1. (root + b) * (root + b) = root * root + 2 * (root * b) + b * b BY <1>1
  <2>2. root * root \in Nat /\ root * b \in Nat /\ b * b \in Nat BY <1>1
  <2> QED BY <1>3, <2>1, <2>2
<1>5. (root + b) * (root + b) < H * H
  <2> DEFINE d == H - (root + b)
             e == root + b
  <2>1. d \in Nat /\ d >= 1 /\ e \in Nat /\ H = e + d BY <1>1, <1>3
  <2> HIDE DEF d, e
  <2>2. H * H = e * e + 2 * (e * d) + d * d BY <2>1
  <2>3. e * d \in Nat /\ d * d \in Nat /\ d * d >= 1 /\ e * e \in Nat BY <2>1, SMT
  <2>4. e * e < H * H BY <2>2, <2>3
  <2> QED BY <2>4 DEF e
<1>6. s.bit # 0
  <2>1. b * b # 0 BY <1>1, SMT
  <2> QED BY <1>3, <2>1
<1>7. s.r + s.bit < H * H
  <2>1. s.r \in Nat /\ s.bit \in Nat BY <1>2 DEF Settled, LoopState
  <2>2. (root + b) * (root + b) \in Nat /\ H * H \in Nat BY <1>1
  <2> QED BY <1>4, <1>5, <2>1, <2>2
<1> QED BY <1>6, <1>7 DEF Word, H, s

================================================================================
