-------------------------------- MODULE CanProofs --------------------------------
(* Theorems about the wire format and the bit timing, for every range of requests *)
(* and every size of the registers.                                               *)
EXTENDS MCCan, WellFoundedInduction, NaturalsInduction, TLAPS

--------------------------------------------------------------------------------
(* The wire: division *)

\* Quotient and remainder are unique.
LEMMA DivUnique ==
    ASSUME NEW x \in Int, NEW m \in Nat \ {0}, NEW q \in Int, NEW r \in Nat, r < m,
           x = q * m + r
    PROVE  x \div m = q /\ x % m = r
<1> DEFINE d == x \div m
           e == x % m
<1>1. d \in Int /\ e \in 0 .. m - 1 /\ x = m * d + e
  OBVIOUS
<1> HIDE DEF d, e
<1>2. d = q
  <2>1. ASSUME d < q PROVE FALSE
    <3>1. m * (d + 1) <= m * q BY <1>1, <2>1, SMT
    <3>2. m * (d + 1) = m * d + m BY <1>1, SMT
    <3>3. m * q = q * m BY SMT
    <3> QED BY <1>1, <3>1, <3>2, <3>3
  <2>2. ASSUME d > q PROVE FALSE
    <3>1. m * (q + 1) <= m * d BY <1>1, <2>2, SMT
    <3>2. m * (q + 1) = m * q + m BY SMT
    <3>3. m * q = q * m BY SMT
    <3> QED BY <1>1, <3>1, <3>2, <3>3
  <2> QED BY <1>1, <2>1, <2>2
<1>3. e = r
  <2>1. m * d = q * m BY <1>1, <1>2, SMT
  <2> QED BY <1>1, <2>1
<1> QED BY <1>2, <1>3 DEF d, e

\* Dividing twice is dividing by the product.
LEMMA DivDiv ==
    ASSUME NEW x \in Nat, NEW a \in Nat \ {0}, NEW b \in Nat \ {0}
    PROVE  x \div (a * b) = (x \div a) \div b
<1> DEFINE p == x \div a
           r == x % a
           q == p \div b
           s == p % b
<1>1. p \in Nat /\ r \in 0 .. a - 1 /\ x = a * p + r
  OBVIOUS
<1> HIDE DEF p, r
<1>2. q \in Nat /\ s \in 0 .. b - 1 /\ p = b * q + s
  BY <1>1
<1> HIDE DEF q, s
<1>3. a * b \in Nat \ {0} BY SMT
<1>4. x = q * (a * b) + (a * s + r)
  <2>1. a * p = a * (b * q) + a * s BY <1>1, <1>2, SMT
  <2>2. a * (b * q) = q * (a * b) BY <1>2, SMT
  <2> DEFINE ap == a * p
             sa == a * s
             qab == q * (a * b)
  <2>3. ap \in Int /\ sa \in Int /\ qab \in Int BY <1>1, <1>2, SMT
  <2>4. ap = qab + sa BY <2>1, <2>2
  <2>5. x = ap + r /\ r \in Int BY <1>1
  <2> HIDE DEF ap, sa, qab
  <2>6. x = (qab + sa) + r BY <2>4, <2>5
  <2>7. x = qab + (sa + r) BY <2>3, <2>5, <2>6
  <2> QED BY <2>7 DEF sa, qab
<1>5. a * s + r \in Nat /\ a * s + r < a * b
  <2>1. a * s \in Nat BY <1>2, SMT
  <2>2. a * (s + 1) <= a * b BY <1>2, SMT
  <2>3. a * (s + 1) = a * s + a BY <1>2, SMT
  <2> QED BY <1>1, <2>1, <2>2, <2>3
<1> DEFINE m == a * b
           t == a * s + r
<1> HIDE DEF m, t
<1>6. x \div m = q BY <1>2, <1>3, <1>4, <1>5, DivUnique DEF m, t
<1> QED BY <1>6 DEF m, q, p

LEMMA QuotientLess ==
    ASSUME NEW x \in Nat, NEW b \in Nat \ {0}, NEW p \in Nat, x < p * b
    PROVE  x \div b < p
<1> DEFINE d == x \div b
<1>1. d \in Nat /\ b * d <= x
  OBVIOUS
<1> HIDE DEF d
<1>2. ASSUME p <= d PROVE FALSE
  <2>1. b * p <= b * d BY <1>1, <1>2, SMT
  <2>2. p * b = b * p BY SMT
  <2> QED BY <1>1, <2>1, <2>2
<1>3. d < p BY <1>1, <1>2
<1> QED BY <1>3 DEF d

--------------------------------------------------------------------------------
(* Bytes *)

LEMMA Powers ==
    /\ Base \in Nat \ {0}
    /\ \A k \in 0 .. 4 : Power(k) \in Nat \ {0}
    /\ Power(0) = 1 /\ Power(1) = Base
    /\ \A k \in 0 .. 3 : Power(k + 1) = Power(k) * Base
<1>1. Base \in Nat \ {0} BY WireAssumption
<1> DEFINE b2 == Base * Base
           b3 == b2 * Base
           b4 == b3 * Base
<1>2. b2 \in Nat \ {0} BY <1>1, SMT
<1>3. b3 \in Nat \ {0} BY <1>1, <1>2, SMT
<1>4. b4 \in Nat \ {0} BY <1>1, <1>3, SMT
<1>5. Power(0) = 1 /\ Power(1) = Base /\ Power(2) = b2 /\ Power(3) = b3 /\ Power(4) = b4
  BY DEF Power
<1>6. b2 = Base * Base /\ b3 = b2 * Base /\ b4 = b3 * Base /\ Base = 1 * Base
  BY <1>1
<1> HIDE DEF b2, b3, b4
<1>7. \A k \in 0 .. 4 : Power(k) \in Nat \ {0}
  BY <1>1, <1>2, <1>3, <1>4, <1>5
<1>8. \A k \in 0 .. 3 : Power(k + 1) = Power(k) * Base
  BY <1>5, <1>6
<1> QED BY <1>1, <1>5, <1>7, <1>8

\* The bytes of an unsigned number, put together again, are the number.
LEMMA DigitsBack ==
    ASSUME NEW width \in {1, 2, 4}, NEW u \in Nat, u < Power(width),
           NEW data, NEW at \in Nat,
           \A k \in 0 .. width - 1 : data[at + k] = (u \div Power(k)) % Base
    PROVE  Unsigned(data, at, width) = u
<1> DEFINE B == Base
           q1 == u \div Base
           q2 == q1 \div Base
           q3 == q2 \div Base
<1>1. B \in Nat \ {0} BY Powers
<1>2. q1 \in Nat /\ u % B \in 0 .. B - 1 /\ u = B * q1 + (u % B) BY <1>1
<1>3. q2 \in Nat /\ q1 % B \in 0 .. B - 1 /\ q1 = B * q2 + (q1 % B)
  <2> HIDE DEF q1
  <2> QED BY <1>1, <1>2
<1>4. q3 \in Nat /\ q2 % B \in 0 .. B - 1 /\ q2 = B * q3 + (q2 % B)
  <2> HIDE DEF q2
  <2> QED BY <1>1, <1>3
<1>5. Power(2) = B * B /\ Power(3) = Power(2) * B /\ Power(2) \in Nat \ {0}
  BY Powers DEF Power
<1>6. u \div Power(0) = u
  BY Powers
<1>7. u \div Power(1) = q1 BY Powers
<1>8. u \div Power(2) = q2 BY <1>1, <1>5, DivDiv
<1>9. u \div Power(3) = q3 BY <1>1, <1>5, <1>8, DivDiv
<1>10. CASE width = 1
  <2>1. data[at] = u % B BY <1>6, <1>10
  <2>2. u < B BY <1>10, Powers
  <2>3. u % B = u BY <1>1, <2>2
  <2> QED BY <1>10, <2>1, <2>3 DEF Unsigned
<1>11. CASE width = 2
  <2>1. data[at] = u % B /\ data[at + 1] = q1 % B BY <1>6, <1>7, <1>11
  <2>2. q1 < B BY <1>1, <1>5, <1>11, QuotientLess
  <2>3. q1 % B = q1
    <3> HIDE DEF q1, B
    <3> QED BY <1>1, <1>2, <2>2
  <2>4. data[at] + data[at + 1] * B = u
    <3> HIDE DEF q1, B
    <3> QED BY <1>1, <1>2, <2>1, <2>3, SMT
  <2> QED BY <1>11, <2>4, <1>1, <1>2, <2>1, <2>3 DEF Unsigned
<1>12. CASE width = 4
  <2>1. /\ data[at] = u % B /\ data[at + 1] = q1 % B
        /\ data[at + 2] = q2 % B /\ data[at + 3] = q3 % B
    BY <1>6, <1>7, <1>8, <1>9, <1>12
  <2>2. u < Power(3) * B /\ Power(3) \in Nat BY <1>12, Powers
  <2>3. q1 < Power(2) * B BY <1>1, <1>5, <2>2, QuotientLess
  <2>4. q2 < B * B BY <1>1, <1>2, <1>5, <2>3, QuotientLess
  <2>5. q3 < B BY <1>1, <1>3, <2>4, QuotientLess
  <2>6. q3 % B = q3
    <3> HIDE DEF q3, B
    <3> QED BY <1>1, <1>4, <2>5
  <2>7. Unsigned(data, at, width)
            = data[at] + data[at + 1] * B + (data[at + 2] * Power(2) + data[at + 3] * Power(3))
    BY <1>12 DEF Unsigned
  <2> DEFINE r0 == u % B
             r1 == q1 % B
             r2 == q2 % B
  <2>8. r0 \in Nat /\ r1 \in Nat /\ r2 \in Nat BY <1>1, <1>2, <1>3, <1>4
  <2>9. Unsigned(data, at, width) = r0 + r1 * B + (r2 * Power(2) + q3 * Power(3))
    BY <2>1, <2>6, <2>7
  <2>10. u = B * q1 + r0 /\ q1 = B * q2 + r1 /\ q2 = B * q3 + r2
    BY <1>2, <1>3, <1>4
  <2> HIDE DEF r0, r1, r2, q1, q2, q3, B
  <2>11. u = B * (B * (B * q3 + r2) + r1) + r0 BY <2>10
  <2>12. B * (B * (B * q3 + r2) + r1) + r0 = r0 + r1 * B + (r2 * (B * B) + q3 * (B * B * B))
    BY <1>1, <1>4, <2>8, SMT
  <2> QED BY <1>5, <2>9, <2>11, <2>12
<1> QED BY <1>10, <1>11, <1>12
\* The cast to a signed type undoes the wrap of a negative value.
LEMMA CastBack ==
    ASSUME NEW f, f.width \in {1, 2, 4}, f.signed \in BOOLEAN,
           NEW x \in Int, InType(x, f)
    PROVE  Cast(x % Power(f.width), f) = x
<1> DEFINE m == Power(f.width)
<1>1. m \in Nat \ {0} BY Powers
<1>2. CASE x < 0
  <2>1. f.signed /\ -m <= 2 * x BY <1>2 DEF InType
  <2> HIDE DEF m
  <2>2. x = (-1) * m + (x + m) /\ x + m \in Nat /\ x + m < m BY <1>1, <1>2, <2>1
  <2>3. x % m = x + m BY <1>1, <2>2, DivUnique
  <2>4. 2 * (x + m) >= m BY <1>1, <2>1
  <2>5. (x + m) - m = x BY <1>1
  <2> QED BY <2>1, <2>3, <2>4, <2>5 DEF Cast, m
<1>3. CASE x >= 0
  <2>1. x < m /\ (f.signed => 2 * x < m) BY <1>1, <1>3 DEF InType
  <2> HIDE DEF m
  <2>2. x % m = x BY <1>1, <1>3, <2>1
  <2>3. ~(f.signed /\ 2 * x >= m) BY <1>1, <2>1
  <2> QED BY <2>2, <2>3 DEF Cast, m
<1> QED BY <1>2, <1>3

\* A field whose bytes were put by the encoder is what was put.
LEMMA FieldBack ==
    ASSUME NEW f, f.at \in Nat, f.width \in {1, 2, 4}, f.signed \in BOOLEAN,
           NEW x \in Int, InType(x, f), NEW data,
           \A k \in 0 .. f.width - 1 : data[f.at + k] = Digit(x, f.width, k)
    PROVE  Field(data, f) = x
<1> DEFINE u == x % Power(f.width)
<1>1. Power(f.width) \in Nat \ {0} BY Powers
<1>2. u \in Nat /\ u < Power(f.width)
  <2> DEFINE m == Power(f.width)
  <2> HIDE DEF m
  <2>1. x % m \in Nat /\ x % m < m BY <1>1 DEF m
  <2> QED BY <2>1 DEF m
<1>3. \A k \in 0 .. f.width - 1 : data[f.at + k] = (u \div Power(k)) % Base
  BY DEF Digit
<1> HIDE DEF u
<1>4. Unsigned(data, f.at, f.width) = u BY <1>2, <1>3, DigitsBack
<1>5. Cast(u, f) = x BY CastBack DEF u
<1> QED BY <1>4, <1>5 DEF Field

--------------------------------------------------------------------------------
(* Layouts *)

\* Fields lie between the version and the end of the payload, and none overlap.
WellLaid(fields, length) ==
    /\ \A i \in DOMAIN fields :
           /\ fields[i].at \in Nat \ {0} /\ fields[i].width \in {1, 2, 4}
           /\ fields[i].signed \in BOOLEAN
           /\ fields[i].at + fields[i].width <= length
    /\ \A i, j \in DOMAIN fields :
           \/ i = j
           \/ fields[i].at + fields[i].width <= fields[j].at
           \/ fields[j].at + fields[j].width <= fields[i].at

LEMMA LayoutFacts ==
    ASSUME NEW kind \in Kinds
    PROVE  /\ WellLaid(Layout[kind], Length[kind])
           /\ Length[kind] \in {8, 12, 16} /\ Type[kind] \in {0, 1, 2, 7}
           /\ \A other \in Kinds : Type[other] = Type[kind] => other = kind
<1>1. Kinds = {"EMERGENCY", "COMMAND", "JOINT_STATE", "HEARTBEAT"} BY DEF Kinds, Layout
<1>2. Length[kind] \in {8, 12, 16} /\ Type[kind] \in {0, 1, 2, 7}
  BY <1>1 DEF Length, Type
<1>3. \A other \in Kinds : Type[other] = Type[kind] => other = kind
  BY <1>1 DEF Type
<1>4. CASE kind = "EMERGENCY"
  <2>1. Layout[kind] = <<F(2, 2, FALSE), F(4, 4, FALSE)>> /\ Length[kind] = 8
    BY <1>4 DEF Layout, Length
  <2> DEFINE lay == Layout[kind]
  <2>2. /\ DOMAIN lay = 1 .. 2
        /\ lay[1].at = 2 /\ lay[1].width = 2 /\ lay[1].signed = FALSE
        /\ lay[2].at = 4 /\ lay[2].width = 4 /\ lay[2].signed = FALSE
    BY <2>1 DEF F
  <2>3. Length[kind] = 8 BY <2>1
  <2> HIDE DEF lay
  <2>4. WellLaid(lay, Length[kind])
    <3>1. ASSUME NEW i \in DOMAIN lay
          PROVE  /\ lay[i].at \in Nat \ {0} /\ lay[i].width \in {1, 2, 4}
                 /\ lay[i].signed \in BOOLEAN
                 /\ lay[i].at + lay[i].width <= Length[kind]
      <4>1. i = 1 \/ i = 2 BY <2>2
      <4>2. lay[i].signed \in BOOLEAN BY <2>2, <4>1, Zenon
      <4>3. /\ lay[i].at \in Nat \ {0} /\ lay[i].width \in {1, 2, 4}
            /\ lay[i].at + lay[i].width <= Length[kind]
        BY <2>2, <2>3, <4>1
      <4> QED BY <4>2, <4>3
    <3>2. ASSUME NEW i \in DOMAIN lay, NEW j \in DOMAIN lay, i # j
          PROVE  \/ lay[i].at + lay[i].width <= lay[j].at
                 \/ lay[j].at + lay[j].width <= lay[i].at
      BY <2>2, <3>2
    <3>3. \A i, j \in DOMAIN lay : \/ i = j
                                   \/ lay[i].at + lay[i].width <= lay[j].at
                                   \/ lay[j].at + lay[j].width <= lay[i].at
      BY <3>2
    <3> QED BY <3>1, <3>3, Zenon DEF WellLaid
  <2> QED BY <1>2, <1>3, <2>4 DEF lay
<1>5. CASE kind = "COMMAND"
  <2>1. /\ Layout[kind] = <<F(1, 1, FALSE), F(2, 4, TRUE), F(6, 4, TRUE), F(10, 2, FALSE)>>
        /\ Length[kind] = 12
    BY <1>5 DEF Layout, Length
  <2> DEFINE lay == Layout[kind]
  <2>2. /\ DOMAIN lay = 1 .. 4
        /\ lay[1].at = 1 /\ lay[1].width = 1 /\ lay[1].signed = FALSE
        /\ lay[2].at = 2 /\ lay[2].width = 4 /\ lay[2].signed = TRUE
        /\ lay[3].at = 6 /\ lay[3].width = 4 /\ lay[3].signed = TRUE
        /\ lay[4].at = 10 /\ lay[4].width = 2 /\ lay[4].signed = FALSE
    BY <2>1 DEF F
  <2>3. Length[kind] = 12 BY <2>1
  <2> HIDE DEF lay
  <2>4. WellLaid(lay, Length[kind])
    <3>1. ASSUME NEW i \in DOMAIN lay
          PROVE  /\ lay[i].at \in Nat \ {0} /\ lay[i].width \in {1, 2, 4}
                 /\ lay[i].signed \in BOOLEAN
                 /\ lay[i].at + lay[i].width <= Length[kind]
      <4>1. i = 1 \/ i = 2 \/ i = 3 \/ i = 4 BY <2>2
      <4>2. lay[i].signed \in BOOLEAN BY <2>2, <4>1, Zenon
      <4>3. /\ lay[i].at \in Nat \ {0} /\ lay[i].width \in {1, 2, 4}
            /\ lay[i].at + lay[i].width <= Length[kind]
        BY <2>2, <2>3, <4>1
      <4> QED BY <4>2, <4>3
    <3>2. ASSUME NEW i \in DOMAIN lay, NEW j \in DOMAIN lay, i # j
          PROVE  \/ lay[i].at + lay[i].width <= lay[j].at
                 \/ lay[j].at + lay[j].width <= lay[i].at
      BY <2>2, <3>2
    <3>3. \A i, j \in DOMAIN lay : \/ i = j
                                   \/ lay[i].at + lay[i].width <= lay[j].at
                                   \/ lay[j].at + lay[j].width <= lay[i].at
      BY <3>2
    <3> QED BY <3>1, <3>3, Zenon DEF WellLaid
  <2> QED BY <1>2, <1>3, <2>4 DEF lay
<1>6. CASE kind = "JOINT_STATE"
  <2>1. /\ Layout[kind] = <<F(1, 1, FALSE), F(2, 4, TRUE), F(6, 4, TRUE), F(10, 2, TRUE),
                            F(12, 2, TRUE), F(14, 2, FALSE)>>
        /\ Length[kind] = 16
    BY <1>6 DEF Layout, Length
  <2> DEFINE lay == Layout[kind]
  <2>2. /\ DOMAIN lay = 1 .. 6
        /\ lay[1].at = 1 /\ lay[1].width = 1 /\ lay[1].signed = FALSE
        /\ lay[2].at = 2 /\ lay[2].width = 4 /\ lay[2].signed = TRUE
        /\ lay[3].at = 6 /\ lay[3].width = 4 /\ lay[3].signed = TRUE
        /\ lay[4].at = 10 /\ lay[4].width = 2 /\ lay[4].signed = TRUE
        /\ lay[5].at = 12 /\ lay[5].width = 2 /\ lay[5].signed = TRUE
        /\ lay[6].at = 14 /\ lay[6].width = 2 /\ lay[6].signed = FALSE
    BY <2>1 DEF F
  <2>3. Length[kind] = 16 BY <2>1
  <2> HIDE DEF lay
  <2>4. WellLaid(lay, Length[kind])
    <3>1. ASSUME NEW i \in DOMAIN lay
          PROVE  /\ lay[i].at \in Nat \ {0} /\ lay[i].width \in {1, 2, 4}
                 /\ lay[i].signed \in BOOLEAN
                 /\ lay[i].at + lay[i].width <= Length[kind]
      <4>1. i = 1 \/ i = 2 \/ i = 3 \/ i = 4 \/ i = 5 \/ i = 6 BY <2>2
      <4>2. lay[i].signed \in BOOLEAN BY <2>2, <4>1, Zenon
      <4>3. /\ lay[i].at \in Nat \ {0} /\ lay[i].width \in {1, 2, 4}
            /\ lay[i].at + lay[i].width <= Length[kind]
        BY <2>2, <2>3, <4>1
      <4> QED BY <4>2, <4>3
    <3>2. ASSUME NEW i \in DOMAIN lay, NEW j \in DOMAIN lay, i # j
          PROVE  \/ lay[i].at + lay[i].width <= lay[j].at
                 \/ lay[j].at + lay[j].width <= lay[i].at
      BY <2>2, <3>2
    <3>3. \A i, j \in DOMAIN lay : \/ i = j
                                   \/ lay[i].at + lay[i].width <= lay[j].at
                                   \/ lay[j].at + lay[j].width <= lay[i].at
      BY <3>2
    <3> QED BY <3>1, <3>3, Zenon DEF WellLaid
  <2> QED BY <1>2, <1>3, <2>4 DEF lay
<1>7. CASE kind = "HEARTBEAT"
  <2>1. /\ Layout[kind] = <<F(1, 1, FALSE), F(2, 2, FALSE), F(4, 4, FALSE), F(8, 1, FALSE),
                            F(9, 1, FALSE), F(10, 1, FALSE)>>
        /\ Length[kind] = 12
    BY <1>7 DEF Layout, Length
  <2> DEFINE lay == Layout[kind]
  <2>2. /\ DOMAIN lay = 1 .. 6
        /\ lay[1].at = 1 /\ lay[1].width = 1 /\ lay[1].signed = FALSE
        /\ lay[2].at = 2 /\ lay[2].width = 2 /\ lay[2].signed = FALSE
        /\ lay[3].at = 4 /\ lay[3].width = 4 /\ lay[3].signed = FALSE
        /\ lay[4].at = 8 /\ lay[4].width = 1 /\ lay[4].signed = FALSE
        /\ lay[5].at = 9 /\ lay[5].width = 1 /\ lay[5].signed = FALSE
        /\ lay[6].at = 10 /\ lay[6].width = 1 /\ lay[6].signed = FALSE
    BY <2>1 DEF F
  <2>3. Length[kind] = 12 BY <2>1
  <2> HIDE DEF lay
  <2>4. WellLaid(lay, Length[kind])
    <3>1. ASSUME NEW i \in DOMAIN lay
          PROVE  /\ lay[i].at \in Nat \ {0} /\ lay[i].width \in {1, 2, 4}
                 /\ lay[i].signed \in BOOLEAN
                 /\ lay[i].at + lay[i].width <= Length[kind]
      <4>1. i = 1 \/ i = 2 \/ i = 3 \/ i = 4 \/ i = 5 \/ i = 6 BY <2>2
      <4>2. lay[i].signed \in BOOLEAN BY <2>2, <4>1, Zenon
      <4>3. /\ lay[i].at \in Nat \ {0} /\ lay[i].width \in {1, 2, 4}
            /\ lay[i].at + lay[i].width <= Length[kind]
        BY <2>2, <2>3, <4>1
      <4> QED BY <4>2, <4>3
    <3>2. ASSUME NEW i \in DOMAIN lay, NEW j \in DOMAIN lay, i # j
          PROVE  \/ lay[i].at + lay[i].width <= lay[j].at
                 \/ lay[j].at + lay[j].width <= lay[i].at
      BY <2>2, <3>2
    <3>3. \A i, j \in DOMAIN lay : \/ i = j
                                   \/ lay[i].at + lay[i].width <= lay[j].at
                                   \/ lay[j].at + lay[j].width <= lay[i].at
      BY <3>2
    <3> QED BY <3>1, <3>3, Zenon DEF WellLaid
  <2> QED BY <1>2, <1>3, <2>4 DEF lay
<1> QED BY <1>1, <1>2, <1>3, <1>4, <1>5, <1>6, <1>7

\* Every byte of a field of an encoded message is a byte of that field's value.
LEMMA PayloadFacts ==
    ASSUME NEW kind \in Kinds, NEW v \in Structs(kind), NEW i \in DOMAIN Layout[kind],
           NEW k \in 0 .. Layout[kind][i].width - 1
    PROVE  /\ Layout[kind][i].at + k \in 0 .. Length[kind] - 1
           /\ Payload(kind, v)[Layout[kind][i].at + k] = Digit(v[i], Layout[kind][i].width, k)
<1> DEFINE f == Layout[kind][i]
           b == f.at + k
           at == FieldsAt(kind, b)
<1>1. WellLaid(Layout[kind], Length[kind]) /\ Length[kind] \in Nat BY LayoutFacts
<1>2. /\ f.at \in Nat \ {0} /\ f.width \in Nat /\ f.at + f.width <= Length[kind]
      /\ k \in 0 .. f.width - 1
  BY <1>1 DEF WellLaid
<1>3. b \in 1 .. Length[kind] - 1 /\ b - f.at = k BY <1>1, <1>2
<1>4. i \in at BY <1>2 DEF FieldsAt
<1>5. ASSUME NEW n \in at, n # i PROVE FALSE
  <2>1. n \in DOMAIN Layout[kind]
    BY <1>5 DEF FieldsAt
  <2>2. /\ Layout[kind][n].at \in Nat /\ Layout[kind][n].width \in Nat
        /\ \/ f.at + f.width <= Layout[kind][n].at
           \/ Layout[kind][n].at + Layout[kind][n].width <= f.at
    BY <1>1, <1>5, <2>1 DEF WellLaid
  <2>3. b \in Layout[kind][n].at .. Layout[kind][n].at + Layout[kind][n].width - 1
    BY <1>5 DEF FieldsAt
  <2> HIDE DEF f
  <2> QED BY <1>2, <1>3, <2>2, <2>3
<1>6. at # {} /\ (CHOOSE n \in at : TRUE) = i BY <1>4, <1>5
<1> HIDE DEF at, f
<1>7. Payload(kind, v)[b] = Digit(v[i], Layout[kind][i].width, b - Layout[kind][i].at)
  BY <1>3, <1>6 DEF Payload, at
<1> QED BY <1>3, <1>7 DEF f

\* A node finds its number and the type in an identifier it made.
LEMMA IdBack ==
    ASSUME NEW type \in 0 .. 15, NEW node \in 0 .. NodeIdMax
    PROVE  IdType(MakeId(type, node)) = type /\ IdNode(MakeId(type, node)) = node
<1> DEFINE m == NodeIdMax + 1
           id == MakeId(type, node)
<1>1. m \in Nat \ {0} /\ node \in Nat /\ node < m BY WireAssumption
<1>2. type % 16 = type
  OBVIOUS
<1>3. id = type * m + node BY <1>2 DEF MakeId
<1>4. id \in Int
  <2> HIDE DEF m, id
  <2>1. type * m \in Int BY <1>1, SMT
  <2> QED BY <1>1, <1>3, <2>1
<1> HIDE DEF m, id
<1>5. id \div m = type /\ id % m = node BY <1>1, <1>3, <1>4, DivUnique
<1> QED BY <1>2, <1>5 DEF IdType, IdNode, m, id

\* A length that has a code comes through it unchanged, and fits into a frame.
LEMMA DlcBack ==
    ASSUME NEW len, HasDlc(len)
    PROVE  len \in 0 .. MaxPayload /\ DlcToLen(LenToDlc(len)) = len
<1>1. \A dlc \in 0 .. 15 : Sizes[dlc + 1] \in 0 .. MaxPayload BY DEF Sizes, MaxPayload
<1> QED BY <1>1 DEF HasDlc, LenToDlc, DlcToLen

--------------------------------------------------------------------------------
(* The invariant *)

\* A frame that was not changed carries what was encoded; at the end of a longer one
\* there is something more.
Carries ==
    LET kind == message.kind
    IN  /\ kind \in Kinds /\ message.node \in 0 .. NodeIdMax
        /\ message.value \in Structs(kind)
        /\ ~Rejects(kind, message.value)
        /\ frame.id = MakeId(Type[kind], message.node)
        /\ frame.len \in Length[kind] .. MaxPayload
        /\ \A b \in 0 .. Length[kind] - 1 : frame.data[b] = Payload(kind, message.value)[b]

RoundTripInv ==
    /\ stage \in {"idle", "sent", "decoded"}
    /\ stage = "idle" => ~mangled
    /\ stage # "decoded" => result.is = "none"
    /\ frame.len \in Nat
    /\ frame = [id |-> frame.id, len |-> frame.len, data |-> frame.data]
    /\ stage = "sent" /\ ~mangled => Carries
    /\ RoundTrip

LEMMA InitRoundTrip == Init => RoundTripInv
BY DEF Init, RoundTripInv, RoundTrip

LEMMA SendStep ==
    ASSUME RoundTripInv, NEW kind \in Kinds, NEW node \in Nat, NEW v \in Structs(kind),
           Send(kind, node, v)
    PROVE  RoundTripInv'
<1>1. /\ stage = "idle" /\ stage' = "sent" /\ result' = result /\ result.is = "none"
      /\ message' = [kind |-> kind, node |-> node, value |-> v]
      /\ frame' = [id |-> MakeId(Type[kind], node), len |-> DlcToLen(LenToDlc(Length[kind])),
                   data |-> Payload(kind, v)]
      /\ Encodable(kind, node, v) /\ HasDlc(Length[kind])
  BY DEF Send, RoundTripInv
<1>2. frame'.len = Length[kind] /\ Length[kind] \in 0 .. MaxPayload BY <1>1, DlcBack
<1>3. node \in 0 .. NodeIdMax /\ ~Rejects(kind, v)
  <2>1. NodeIdMax \in Nat BY WireAssumption
  <2> QED BY <1>1, <2>1 DEF Encodable, Rejects
<1>4. /\ message'.kind = kind /\ message'.node = node /\ message'.value = v
      /\ frame'.id = MakeId(Type[kind], node) /\ frame'.data = Payload(kind, v)
  BY <1>1
<1>5. Carries' BY <1>2, <1>3, <1>4 DEF Carries
<1>6. frame' = [id |-> frame'.id, len |-> frame'.len, data |-> frame'.data] BY <1>1
<1>7. RoundTrip' BY <1>1 DEF RoundTrip
<1> QED BY <1>1, <1>2, <1>5, <1>6, <1>7 DEF RoundTripInv

LEMMA ChangeStep ==
    ASSUME RoundTripInv,
           \/ \E len \in Nat : Resize(len)
           \/ \E b \in Nat, byte \in 0 .. Base - 1 : Overwrite(b, byte)
    PROVE  RoundTripInv'
<1>1. stage = "sent" /\ stage' = stage /\ result' = result /\ message' = message
  BY DEF Resize, Overwrite
<1>2. result.is = "none" BY <1>1 DEF RoundTripInv
<1>3. RoundTrip' BY <1>1, <1>2 DEF RoundTrip
<1>4. CASE \E len \in Nat : Resize(len)
  <2>1. PICK len \in Nat : Resize(len) BY <1>4
  <2> DEFINE data == [b \in 0 .. len - 1 |-> IF b < frame.len THEN frame.data[b] ELSE Base - 1]
  <2>2. frame = [id |-> frame.id, len |-> frame.len, data |-> frame.data]
    BY DEF RoundTripInv
  <2>3. /\ frame' = [frame EXCEPT !.len = len, !.data = data] /\ HasDlc(len)
        /\ mangled' = (len < frame.len) /\ ~mangled
    BY <2>1 DEF Resize
  <2>4. frame' = [id |-> frame.id, len |-> len, data |-> data]
    <3> HIDE DEF data
    <3> QED BY <2>2, <2>3
  <2>5. /\ frame'.id = frame.id /\ frame'.len = len /\ frame'.data = data
        /\ frame' = [id |-> frame'.id, len |-> frame'.len, data |-> frame'.data]
    <3> HIDE DEF data
    <3> QED BY <2>4
  <2>6. Carries BY <1>1, <2>3 DEF RoundTripInv
  <2>7. ASSUME ~(len < frame.len) PROVE Carries'
    <3> DEFINE kind == message.kind
    <3>1. /\ Length[kind] \in Nat /\ frame.len \in Length[kind] .. MaxPayload
          /\ len \in 0 .. MaxPayload
      BY <2>3, <2>6, LayoutFacts, DlcBack DEF Carries
    <3>2. len \in Length[kind] .. MaxPayload BY <2>7, <3>1 DEF MaxPayload
    <3>3. \A b \in 0 .. Length[kind] - 1 : data[b] = frame.data[b]
      BY <2>7, <3>1 DEF MaxPayload
    <3> HIDE DEF data
    <3> QED BY <1>1, <2>5, <2>6, <3>2, <3>3 DEF Carries
  <2> QED BY <1>1, <1>2, <1>3, <2>3, <2>5, <2>7 DEF RoundTripInv
<1>5. CASE \E b \in Nat, byte \in 0 .. Base - 1 : Overwrite(b, byte)
  <2>1. PICK b \in Nat, byte \in 0 .. Base - 1 : Overwrite(b, byte) BY <1>5
  <2>2. mangled' /\ frame' = [frame EXCEPT !.data[b] = byte] BY <2>1 DEF Overwrite
  <2>3. frame = [id |-> frame.id, len |-> frame.len, data |-> frame.data]
    BY DEF RoundTripInv
  <2>4. frame' = [id |-> frame'.id, len |-> frame'.len, data |-> frame'.data]
    BY <2>2, <2>3
  <2> QED BY <1>1, <1>2, <1>3, <2>2, <2>4 DEF RoundTripInv
<1> QED BY <1>4, <1>5

\* The decoder of its own kind gets the message back.
LEMMA FieldsBack ==
    ASSUME RoundTripInv, Carries
    PROVE  Fields(message.kind, frame) = message.value
<1> DEFINE kind == message.kind
           v == message.value
           byte == [b \in 0 .. MaxPayload - 1 |-> IF b < frame.len THEN frame.data[b] ELSE 0]
           got == Fields(kind, frame)
<1>1. /\ kind \in Kinds /\ v \in Structs(kind)
      /\ frame.len \in Length[kind] .. MaxPayload /\ Length[kind] \in Nat
      /\ \A b \in 0 .. Length[kind] - 1 : frame.data[b] = Payload(kind, v)[b]
  BY LayoutFacts DEF Carries
<1>2. \A b \in 0 .. Length[kind] - 1 : byte[b] = Payload(kind, v)[b]
  <2> TAKE b \in 0 .. Length[kind] - 1
  <2>1. b \in 0 .. MaxPayload - 1 /\ b < frame.len BY <1>1 DEF MaxPayload
  <2>2. byte[b] = frame.data[b] BY <2>1
  <2> QED BY <1>1, <2>2
<1>3. got = [i \in DOMAIN Layout[kind] |-> Field(byte, Layout[kind][i])]
  BY DEF Fields
<1> HIDE DEF byte, got
<1>4. ASSUME NEW i \in DOMAIN Layout[kind] PROVE Field(byte, Layout[kind][i]) = v[i]
  <2> DEFINE f == Layout[kind][i]
  <2>1. f.at \in Nat /\ f.width \in {1, 2, 4} /\ f.signed \in BOOLEAN
    BY <1>1, LayoutFacts DEF WellLaid
  <2>2. v[i] \in Int /\ InType(v[i], f) BY <1>1 DEF Structs
  <2>3. \A k \in 0 .. f.width - 1 : byte[f.at + k] = Digit(v[i], f.width, k)
    <3> TAKE k \in 0 .. f.width - 1
    <3>1. /\ f.at + k \in 0 .. Length[kind] - 1
          /\ Payload(kind, v)[f.at + k] = Digit(v[i], f.width, k)
      BY <1>1, PayloadFacts
    <3> QED BY <1>2, <3>1
  <2> HIDE DEF f
  <2>4. Field(byte, f) = v[i] BY <2>1, <2>2, <2>3, FieldBack
  <2> QED BY <2>4 DEF f
<1>5. v = [i \in DOMAIN Layout[kind] |-> v[i]] BY <1>1 DEF Structs
<1>6. got = [i \in DOMAIN Layout[kind] |-> v[i]] BY <1>3, <1>4
<1> QED BY <1>5, <1>6 DEF got

LEMMA DecodeStep ==
    ASSUME RoundTripInv, NEW kind \in Kinds, Decode(kind)
    PROVE  RoundTripInv'
<1>1. /\ stage = "sent" /\ stage' = "decoded"
      /\ message' = message /\ frame' = frame /\ mangled' = mangled
      /\ result'.by = kind
      /\ result'.is = IF Check(kind, frame) # "OK" THEN Check(kind, frame)
                      ELSE IF Rejects(kind, Fields(kind, frame)) THEN "PARAM" ELSE "OK"
      /\ result'.is = "OK" => out' = Fields(kind, frame)
  BY DEF Decode
<1>2. ASSUME result'.is = "OK"
      PROVE  \A f \in {Layout[kind][i] : i \in DOMAIN out'} : f.at + f.width <= frame.len
  <2>1. Check(kind, frame) = "OK" BY <1>1, <1>2
  <2>2. frame.len \in Nat /\ Length[kind] \in Nat /\ Length[kind] <= frame.len
    BY <2>1, LayoutFacts DEF Check, RoundTripInv
  <2>3. DOMAIN out' = DOMAIN Layout[kind] BY <1>1, <1>2 DEF Fields
  <2>4. \A i \in DOMAIN Layout[kind] :
            Layout[kind][i].at + Layout[kind][i].width <= frame.len
    <3> TAKE i \in DOMAIN Layout[kind]
    <3>1. /\ Layout[kind][i].at \in Nat /\ Layout[kind][i].width \in Nat
          /\ Layout[kind][i].at + Layout[kind][i].width <= Length[kind]
      BY LayoutFacts DEF WellLaid
    <3> QED BY <2>2, <3>1
  <2> QED BY <2>3, <2>4
<1>3. ASSUME ~mangled
      PROVE  /\ IdNode(frame.id) = message.node
             /\ result'.is = "OK" <=> kind = message.kind
             /\ result'.is = "OK" => out' = message.value
  <2>1. Carries BY <1>1, <1>3 DEF RoundTripInv
  <2>2. /\ message.kind \in Kinds /\ message.node \in 0 .. NodeIdMax
        /\ frame.id = MakeId(Type[message.kind], message.node)
        /\ ~Rejects(message.kind, message.value)
    BY <2>1 DEF Carries
  <2>3. Type[message.kind] \in 0 .. 15 BY <2>2, LayoutFacts
  <2>4. IdType(frame.id) = Type[message.kind] /\ IdNode(frame.id) = message.node
    BY <2>2, <2>3, IdBack
  <2>5. CASE kind # message.kind
    <3>1. Check(kind, frame) = "TYPE"
      BY <2>2, <2>4, <2>5, LayoutFacts DEF Check
    <3>2. result'.is = "TYPE" BY <1>1, <3>1
    <3> QED BY <2>4, <2>5, <3>2
  <2>6. CASE kind = message.kind
    <3>1. Fields(kind, frame) = message.value BY <2>1, <2>6, FieldsBack
    <3>2. Check(kind, frame) = "OK"
      <4>1. frame.len \in Length[kind] .. MaxPayload /\ Length[kind] \in Nat \ {0}
        BY <2>1, <2>6, LayoutFacts DEF Carries
      <4>2. frame.data[0] = Version
        <5>1. frame.data[0] = Payload(kind, message.value)[0]
          BY <2>1, <2>6, <4>1 DEF Carries
        <5> QED BY <4>1, <5>1 DEF Payload
      <4> QED BY <2>4, <2>6, <4>1, <4>2 DEF Check, MaxPayload
    <3> QED BY <1>1, <2>2, <2>4, <2>6, <3>1, <3>2
  <2> QED BY <2>5, <2>6
<1>4. RoundTrip' BY <1>1, <1>2, <1>3 DEF RoundTrip
<1> QED BY <1>1, <1>4 DEF RoundTripInv

LEMMA StepRoundTrip == RoundTripInv /\ [Next]_vars => RoundTripInv'
<1>1. RoundTripInv /\ UNCHANGED vars => RoundTripInv'
  BY DEF vars, RoundTripInv, RoundTrip, Carries
<1> QED BY <1>1, SendStep, ChangeStep, DecodeStep DEF Next

--------------------------------------------------------------------------------
(* The theorem *)

\* Every message a node can hold arrives as it was sent, from the node that sent it, also
\* from software that knows longer payloads; no other decoder takes it, and no decoder
\* reads a field from beyond the payload, whatever the frame holds.
THEOREM ArrivesAsSent == Spec => []RoundTrip
<1>1. RoundTripInv => RoundTrip BY DEF RoundTripInv
<1> QED BY <1>1, InitRoundTrip, StepRoundTrip, PTL DEF Spec

--------------------------------------------------------------------------------
(* Commands, by their bytes *)

\* Four bytes are a positive number exactly if they are not all 0 and the sign bit is clear.
LEMMA PositiveBytes ==
    ASSUME NEW data, NEW at \in Nat, \A k \in at .. at + 3 : data[k] \in 0 .. Base - 1
    PROVE  Field(data, F(at, 4, TRUE)) > 0
               <=> data[at + 3] < Base \div 2 /\ \E k \in at .. at + 3 : data[k] # 0
<1> DEFINE B == Base
           h == Base \div 2
           P2 == Power(2)
           P3 == Power(3)
           d0 == data[at]
           d1 == data[at + 1]
           d2 == data[at + 2]
           d3 == data[at + 3]
           low == d0 + d1 * B + d2 * P2
           u == Unsigned(data, at, 4)
<1>1. B \in Nat /\ h \in Nat /\ B = 2 * h /\ h > 0 BY WireAssumption
<1>2. P2 = B * B /\ P3 = P2 * B /\ P2 \in Nat \ {0} /\ P3 \in Nat \ {0} /\ Power(4) = P3 * B
  BY Powers
<1>3. d0 \in 0 .. B - 1 /\ d1 \in 0 .. B - 1 /\ d2 \in 0 .. B - 1 /\ d3 \in 0 .. B - 1
  OBVIOUS
<1>4. (\E k \in at .. at + 3 : data[k] # 0) <=> d0 # 0 \/ d1 # 0 \/ d2 # 0 \/ d3 # 0
  OBVIOUS
<1>5. u = d0 + d1 * B + (d2 * P2 + d3 * P3) BY DEF Unsigned
<1>6. Field(data, F(at, 4, TRUE)) = IF 2 * u >= P3 * B THEN u - P3 * B ELSE u
  BY <1>2 DEF Field, Cast, F
<1> HIDE DEF B, h, P2, P3, d0, d1, d2, d3, u
<1>7. /\ d1 * B \in Nat /\ d2 * P2 \in Nat /\ d3 * P3 \in Nat /\ P3 * B \in Nat
      /\ d1 # 0 => d1 * B > 0
      /\ d2 # 0 => d2 * P2 > 0
      /\ d3 # 0 => d3 * P3 > 0
  BY <1>1, <1>2, <1>3, SMT
<1>8. low \in Nat /\ low < P3
  <2>1. d1 * B <= (B - 1) * B /\ (B - 1) * B = P2 - B BY <1>1, <1>2, <1>3, SMT
  <2>2. d2 * P2 <= (B - 1) * P2 BY <1>1, <1>2, <1>3, SMT
  <2>3. (B - 1) * P2 = P3 - P2 BY <1>1, <1>2, SMT
  <2> QED BY <1>1, <1>2, <1>3, <1>7, <2>1, <2>2, <2>3
<1>9. u = low + d3 * P3 /\ u \in Nat BY <1>3, <1>5, <1>7
<1>10. u > 0 <=> d0 # 0 \/ d1 # 0 \/ d2 # 0 \/ d3 # 0
  <2> DEFINE x1 == d1 * B
             x2 == d2 * P2
             x3 == d3 * P3
  <2>1. /\ x1 \in Nat /\ x2 \in Nat /\ x3 \in Nat /\ u = d0 + x1 + (x2 + x3)
        /\ d0 \in Nat /\ (d1 # 0 => x1 > 0) /\ (d2 # 0 => x2 > 0) /\ (d3 # 0 => x3 > 0)
    BY <1>1, <1>3, <1>5, <1>7
  <2>2. d1 = 0 /\ d2 = 0 /\ d3 = 0 => x1 = 0 /\ x2 = 0 /\ x3 = 0 BY <1>1, <1>2
  <2> HIDE DEF x1, x2, x3
  <2> QED BY <2>1, <2>2
<1>11. P3 * B = 2 * (h * P3) /\ h * P3 \in Nat BY <1>1, <1>2, SMT
<1> HIDE DEF low
<1>12. CASE d3 < h
  <2>1. d3 * P3 <= (h - 1) * P3 BY <1>1, <1>2, <1>3, <1>12, SMT
  <2>2. (h - 1) * P3 = h * P3 - P3 BY <1>1, <1>2, SMT
  <2>3. ~(2 * u >= P3 * B) BY <1>2, <1>7, <1>8, <1>9, <1>11, <2>1, <2>2
  <2> QED BY <1>4, <1>6, <1>10, <1>12, <2>3 DEF d3, h
<1>13. CASE ~(d3 < h)
  <2>1. h * P3 <= d3 * P3 BY <1>1, <1>2, <1>3, <1>13, SMT
  <2>2. d3 * P3 <= (B - 1) * P3 BY <1>1, <1>2, <1>3, SMT
  <2>3. (B - 1) * P3 = P3 * B - P3 BY <1>1, <1>2, SMT
  <2>4. 2 * u >= P3 * B BY <1>7, <1>8, <1>9, <1>11, <2>1
  <2>5. u - P3 * B < 0 BY <1>2, <1>7, <1>8, <1>9, <2>2, <2>3
  <2>6. Field(data, F(at, 4, TRUE)) = u - P3 * B BY <1>6, <2>4
  <2>7. ~(u - P3 * B > 0)
    <3> DEFINE all == P3 * B
    <3>1. all \in Nat BY <1>7
    <3> HIDE DEF all
    <3> QED BY <1>9, <2>5, <3>1 DEF all
  <2> QED BY <1>13, <2>6, <2>7 DEF d3, h
<1> QED BY <1>12, <1>13

\* The bytes of a frame on the bus are bytes, and no decoder has been called yet.
Bytes == stage = "sent" => frame.data \in [0 .. frame.len - 1 -> 0 .. Base - 1]
CommandsInv == RoundTripInv /\ Bytes /\ CommandsExecutable

LEMMA PayloadBytes ==
    ASSUME NEW kind \in Kinds, NEW v \in Structs(kind)
    PROVE  Payload(kind, v) \in [0 .. Length[kind] - 1 -> 0 .. Base - 1]
<1>1. Base \in Nat /\ Base >= 6 BY WireAssumption
<1>2. ASSUME NEW x \in Int, NEW width \in {1, 2, 4}, NEW k \in 0 .. width - 1
      PROVE  Digit(x, width, k) \in 0 .. Base - 1
  <2> DEFINE m == Power(width)
             p == Power(k)
             r == x % m
             d == r \div p
  <2>1. m \in Nat \ {0} /\ p \in Nat \ {0} BY Powers
  <2> HIDE DEF m, p
  <2>2. r \in Nat BY <2>1
  <2> HIDE DEF r
  <2>3. d \in Int BY <2>1, <2>2
  <2> HIDE DEF d
  <2>4. d % Base \in 0 .. Base - 1 BY <1>1, <2>3
  <2> QED BY <2>4 DEF Digit, d, r, m, p
<1> SUFFICES ASSUME NEW b \in 0 .. Length[kind] - 1
             PROVE  Payload(kind, v)[b] \in 0 .. Base - 1
  BY DEF Payload
<1>3. CASE b = 0 \/ FieldsAt(kind, b) = {}
  <2>1. Payload(kind, v)[b] = Version \/ Payload(kind, v)[b] = 0 BY <1>3 DEF Payload
  <2> QED BY <1>1, <2>1 DEF Version
<1>4. CASE b # 0 /\ FieldsAt(kind, b) # {}
  <2>1. PICK i \in FieldsAt(kind, b) :
            Payload(kind, v)[b] = Digit(v[i], Layout[kind][i].width, b - Layout[kind][i].at)
    BY <1>4 DEF Payload
  <2>2. i \in DOMAIN Layout[kind]
        /\ b \in Layout[kind][i].at .. Layout[kind][i].at + Layout[kind][i].width - 1
    BY DEF FieldsAt
  <2>3. Layout[kind][i].at \in Nat /\ Layout[kind][i].width \in {1, 2, 4}
    BY <2>2, LayoutFacts DEF WellLaid
  <2>4. b - Layout[kind][i].at \in 0 .. Layout[kind][i].width - 1 BY <2>2, <2>3
  <2>5. v[i] \in Int BY <2>2 DEF Structs
  <2> QED BY <1>2, <2>1, <2>3, <2>4, <2>5
<1> QED BY <1>3, <1>4

LEMMA StepBytes == CommandsInv /\ [Next]_vars => Bytes'
<1> SUFFICES ASSUME CommandsInv, Next PROVE Bytes'
  BY DEF Bytes, CommandsInv, vars
<1>1. ASSUME NEW kind \in Kinds, NEW node \in Nat, NEW v \in Structs(kind), Send(kind, node, v)
      PROVE  Bytes'
  <2>1. /\ frame'.data = Payload(kind, v) /\ frame'.len = DlcToLen(LenToDlc(Length[kind]))
        /\ HasDlc(Length[kind])
    BY <1>1 DEF Send
  <2>2. frame'.len = Length[kind] BY <2>1, DlcBack
  <2> QED BY <2>1, <2>2, PayloadBytes DEF Bytes
<1>2. ASSUME NEW len \in Nat, Resize(len) PROVE Bytes'
  <2> DEFINE data == [b \in 0 .. len - 1 |-> IF b < frame.len THEN frame.data[b] ELSE Base - 1]
  <2>1. /\ frame = [id |-> frame.id, len |-> frame.len, data |-> frame.data]
        /\ frame' = [frame EXCEPT !.len = len, !.data = data]
        /\ frame.data \in [0 .. frame.len - 1 -> 0 .. Base - 1] /\ frame.len \in Nat
    BY <1>2 DEF Resize, CommandsInv, RoundTripInv, Bytes
  <2>2. frame'.len = len /\ frame'.data = data
    <3> HIDE DEF data
    <3> QED BY <2>1
  <2>3. data \in [0 .. len - 1 -> 0 .. Base - 1] BY <2>1, WireAssumption
  <2> HIDE DEF data
  <2> QED BY <2>2, <2>3 DEF Bytes
<1>3. ASSUME NEW b \in Nat, NEW byte \in 0 .. Base - 1, Overwrite(b, byte) PROVE Bytes'
  <2>1. /\ frame = [id |-> frame.id, len |-> frame.len, data |-> frame.data]
        /\ frame' = [frame EXCEPT !.data[b] = byte]
        /\ frame.data \in [0 .. frame.len - 1 -> 0 .. Base - 1]
    BY <1>3 DEF Overwrite, CommandsInv, RoundTripInv, Bytes
  <2>2. frame'.len = frame.len /\ frame'.data = [frame.data EXCEPT ![b] = byte] BY <2>1
  <2>3. frame'.data \in [0 .. frame.len - 1 -> 0 .. Base - 1] BY <2>1, <2>2
  <2> QED BY <2>2, <2>3 DEF Bytes
<1>4. ASSUME NEW kind \in Kinds, Decode(kind) PROVE Bytes'
  BY <1>4 DEF Decode, Bytes
<1> QED BY <1>1, <1>2, <1>3, <1>4 DEF Next

LEMMA StepExecutable == CommandsInv /\ [Next]_vars => CommandsExecutable'
<1> SUFFICES ASSUME CommandsInv, Next PROVE CommandsExecutable'
  BY DEF CommandsInv, CommandsExecutable, vars
<1>1. CASE \/ \E kind \in Kinds, node \in Nat : \E v \in Structs(kind) : Send(kind, node, v)
           \/ \E len \in Nat : Resize(len)
           \/ \E b \in Nat, byte \in 0 .. Base - 1 : Overwrite(b, byte)
  <2>1. result' = result /\ stage # "decoded" BY <1>1 DEF Send, Resize, Overwrite
  <2>2. result.is = "none" BY <2>1 DEF CommandsInv, RoundTripInv
  <2> QED BY <2>1, <2>2 DEF CommandsExecutable
<1>2. ASSUME NEW kind \in Kinds, Decode(kind), kind = "COMMAND", result'.is \in {"OK", "PARAM"}
      PROVE  result'.is = "OK" <=> Executable(frame.data)
  <2> DEFINE byte == [b \in 0 .. MaxPayload - 1 |-> IF b < frame.len THEN frame.data[b] ELSE 0]
             got == Fields(kind, frame)
             d == frame.data
  <2>1. result'.is = IF Check(kind, frame) # "OK" THEN Check(kind, frame)
                     ELSE IF Rejects(kind, got) THEN "PARAM" ELSE "OK"
    BY <1>2 DEF Decode
  <2>2. Check(kind, frame) = "OK" BY <1>2, <2>1 DEF Check
  <2>3. Length[kind] = 12 BY <1>2 DEF Length
  <2>4. frame.len \in 12 .. 64
    BY <2>2, <2>3 DEF Check, MaxPayload, CommandsInv, RoundTripInv
  <2>5. \A b \in 0 .. 11 : d[b] \in 0 .. Base - 1 /\ byte[b] = d[b]
    <3>1. d \in [0 .. frame.len - 1 -> 0 .. Base - 1]
      BY <1>2 DEF Decode, CommandsInv, Bytes
    <3> TAKE b \in 0 .. 11
    <3>2. b \in 0 .. frame.len - 1 /\ b \in 0 .. MaxPayload - 1 /\ b < frame.len
      BY <2>4 DEF MaxPayload
    <3>3. byte[b] = d[b] BY <3>2
    <3>4. d[b] \in 0 .. Base - 1 BY <3>1, <3>2
    <3> QED BY <3>3, <3>4
  <2>6. Base \in Nat /\ Base >= 6 BY WireAssumption
  <2>7. /\ DOMAIN Layout[kind] = 1 .. 4
        /\ Layout[kind][1] = F(1, 1, FALSE) /\ Layout[kind][3] = F(6, 4, TRUE)
    BY <1>2 DEF Layout
  <2>8. got = [i \in DOMAIN Layout[kind] |-> Field(byte, Layout[kind][i])] BY DEF Fields
  <2> HIDE DEF byte, got
  <2>9. 1 \in DOMAIN Layout[kind] /\ 3 \in DOMAIN Layout[kind] BY <2>7
  <2> DEFINE velocity == Field(byte, F(6, 4, TRUE))
  <2>10. got[1] = Field(byte, F(1, 1, FALSE)) /\ got[3] = velocity
    <3>1. got[1] = Field(byte, Layout[kind][1]) /\ got[3] = Field(byte, Layout[kind][3])
      BY <2>8, <2>9
    <3> QED BY <2>7, <3>1, Zenon
  <2>11. got[1] = d[1]
    <3> DEFINE mode == Field(byte, F(1, 1, FALSE))
    <3>1. mode = byte[1] + 0 + 0 BY DEF Field, Cast, Unsigned, F
    <3>2. 1 \in 0 .. 11 OBVIOUS
    <3>3. d[1] \in Int /\ byte[1] = d[1] BY <2>5, <2>6, <3>2
    <3>4. got[1] = mode BY <2>10, Zenon
    <3> HIDE DEF mode
    <3> QED BY <3>1, <3>3, <3>4
  <2>12. velocity > 0 <=> d[9] < Base \div 2 /\ \E b \in 6 .. 9 : d[b] # 0
    <3>1. 6 + 3 = 9 /\ 6 \in Nat OBVIOUS
    <3>2. \A k \in 6 .. 9 : byte[k] = d[k] /\ byte[k] \in 0 .. Base - 1 BY <2>5
    <3>3. \A k \in 6 .. 6 + 3 : byte[k] \in 0 .. Base - 1 BY <3>2
    <3>4. velocity > 0 <=> byte[6 + 3] < Base \div 2 /\ \E k \in 6 .. 6 + 3 : byte[k] # 0
      BY <3>1, <3>3, PositiveBytes
    <3> HIDE DEF velocity
    <3> QED BY <3>1, <3>2, <3>4
  <2>13. velocity \in Int
    <3> DEFINE P2 == Power(2)
               P3 == Power(3)
               u == Unsigned(byte, 6, 4)
    <3>1. P2 \in Nat /\ P3 \in Nat /\ Power(4) \in Nat BY Powers
    <3>2. \A k \in 6 .. 9 : byte[k] \in Nat BY <2>5, <2>6
    <3>3. u = byte[6] + byte[7] * Base + (byte[8] * P2 + byte[9] * P3) BY DEF Unsigned
    <3>4. velocity = u - Power(4) \/ velocity = u BY DEF Field, Cast, F
    <3> HIDE DEF P2, P3, u, velocity
    <3>5. byte[7] * Base \in Nat /\ byte[8] * P2 \in Nat /\ byte[9] * P3 \in Nat
      BY <2>6, <3>1, <3>2
    <3>6. u \in Int BY <3>2, <3>3, <3>5
    <3> QED BY <3>1, <3>4, <3>6
  <2> HIDE DEF velocity
  <2>14. d[1] \in 0 .. Base - 1 BY <2>5
  <2>15. Rejects(kind, got) <=> d[1] > 1 \/ (d[1] = 1 /\ ~(velocity > 0))
    <3>1. Rejects(kind, got) <=> got[1] > 1 \/ (got[1] = 1 /\ got[3] <= 0)
      BY <1>2 DEF Rejects, BadCommand
    <3>2. got[3] = velocity BY <2>10 DEF velocity
    <3> QED BY <2>11, <2>13, <3>1, <3>2
  <2>16. result'.is = "OK" <=> ~Rejects(kind, got) BY <2>1, <2>2
  <2> QED BY <2>6, <2>12, <2>14, <2>15, <2>16 DEF Executable
<1>3. ASSUME NEW kind \in Kinds, Decode(kind) PROVE CommandsExecutable'
  <2>1. frame' = frame /\ result'.by = kind BY <1>3 DEF Decode
  <2> QED BY <1>2, <1>3, <2>1 DEF CommandsExecutable
<1> QED BY <1>1, <1>3 DEF Next

\* Of all frames with the type, length and version of a COMMAND, whatever else they hold,
\* the decoder lets through exactly those whose bytes say DISABLED, or POSITION with a
\* velocity that is neither 0 nor has its sign bit set.
THEOREM RefusesCommands == Spec => []CommandsExecutable
<1>1. Init => CommandsInv
  BY InitRoundTrip DEF Init, CommandsInv, Bytes, CommandsExecutable
<1>2. CommandsInv /\ [Next]_vars => CommandsInv'
  BY StepRoundTrip, StepBytes, StepExecutable DEF CommandsInv
<1>3. CommandsInv => CommandsExecutable BY DEF CommandsInv
<1> QED BY <1>1, <1>2, <1>3, PTL DEF Spec

--------------------------------------------------------------------------------
(* The wire: the instance that is checked *)

\* The values at the ends of the ranges are values of the types.
LEMMA BoundariesInType ==
    ASSUME NEW f, f.width \in {1, 2, 4}, f.signed \in BOOLEAN, NEW n \in 1 .. 3
    PROVE  Boundary(f)[n] \in Int /\ InType(Boundary(f)[n], f)
<1> DEFINE all == Power(f.width)
<1>1. Base \in Nat /\ Base >= 6 /\ Base % 2 = 0 BY WireAssumption
<1>2. all \in Nat \ {0} BY Powers
<1>3. f.width # 1 => Base < all
  <2>1. Power(2) = Base * Base /\ Power(4) = Base * Base * Base * Base BY DEF Power
  <2>2. Base < Base * Base BY <1>1, SMT
  <2>3. Base * Base \in Nat /\ Base * Base >= 1 BY <1>1, SMT
  <2>4. Base * Base <= Base * Base * Base * Base BY <1>1, SMT
  <2> QED BY <1>1, <2>1, <2>2, <2>3, <2>4
<1>4. f.width = 1 => all = Base BY Powers
<1> HIDE DEF all
<1>5. CASE f.signed
  <2>1. 2 * (all \div 2) <= all /\ all \div 2 \in Nat BY <1>2
  <2>2. Boundary(f)[n] \in {-(all \div 2), -1, all \div 2 - 1} BY <1>5 DEF Boundary, all
  <2>3. all >= 2 BY <1>1, <1>2, <1>3, <1>4
  <2>4. Boundary(f)[n] \in Int /\ -all <= 2 * Boundary(f)[n] /\ 2 * Boundary(f)[n] < all
    BY <1>2, <2>1, <2>2, <2>3
  <2> QED BY <1>5, <2>4 DEF InType, all
<1>6. CASE ~f.signed /\ f.width = 1
  <2>1. Boundary(f)[n] \in {0, 1, 4} BY <1>6 DEF Boundary
  <2> QED BY <1>1, <1>4, <1>6, <2>1 DEF InType, all
<1>7. CASE ~f.signed /\ f.width # 1
  <2>1. Boundary(f)[n] \in {1, Base, all - 1} BY <1>7 DEF Boundary, all
  <2>2. Boundary(f)[n] \in Int /\ 0 <= Boundary(f)[n] /\ Boundary(f)[n] < all
    BY <1>1, <1>2, <1>3, <1>7, <2>1
  <2> QED BY <1>7, <2>2 DEF InType, all
<1> QED BY <1>5, <1>6, <1>7

LEMMA ValuesAreStructs ==
    ASSUME NEW kind \in Kinds
    PROVE  Values(kind) \subseteq Structs(kind)
<1> SUFFICES ASSUME NEW n \in [DOMAIN Layout[kind] -> 1 .. 3]
             PROVE  [i \in DOMAIN Layout[kind] |-> Boundary(Layout[kind][i])[n[i]]]
                        \in Structs(kind)
  BY DEF Values
<1> DEFINE v == [i \in DOMAIN Layout[kind] |-> Boundary(Layout[kind][i])[n[i]]]
<1>1. ASSUME NEW i \in DOMAIN Layout[kind]
      PROVE  v[i] \in Int /\ InType(v[i], Layout[kind][i])
  <2>1. Layout[kind][i].width \in {1, 2, 4} /\ Layout[kind][i].signed \in BOOLEAN
    BY LayoutFacts DEF WellLaid
  <2>2. v[i] = Boundary(Layout[kind][i])[n[i]] /\ n[i] \in 1 .. 3
    OBVIOUS
  <2> QED BY <2>1, <2>2, BoundariesInType
<1>2. v = [i \in DOMAIN Layout[kind] |-> v[i]] OBVIOUS
<1> HIDE DEF v
<1>3. v \in [DOMAIN Layout[kind] -> Int] /\ DOMAIN v = DOMAIN Layout[kind] BY <1>1, <1>2
<1>4. v \in Structs(kind) BY <1>1, <1>3 DEF Structs
<1> QED BY <1>4 DEF v

\* The checked instance sends boundary values only; what Wire says of all values holds of it.
THEOREM InstanceArrives == MCSpec => []RoundTrip
<1>1. MCInit => RoundTripInv BY InitRoundTrip DEF MCInit
<1>2. RoundTripInv /\ [MCNext]_<<vars, request>> => RoundTripInv'
  <2>1. MCNext => Next
    BY ValuesAreStructs, WireAssumption, SenderAssumption DEF MCNext, Next
  <2>2. [MCNext]_<<vars, request>> => [Next]_vars BY <2>1
  <2> QED BY <2>2, StepRoundTrip
<1>3. RoundTripInv => RoundTrip BY DEF RoundTripInv
<1> QED BY <1>1, <1>2, <1>3, PTL DEF MCSpec

--------------------------------------------------------------------------------
(* The bit timing *)

\* A set of naturals has a least element.
LEMMA MinFacts ==
    ASSUME NEW S \in SUBSET Nat, S # {}
    PROVE  Min(S) \in S /\ \A y \in S : Min(S) <= y
<1> DEFINE R == OpToRel(<, Nat)
<1>1. \A x, y \in Nat : <<y, x>> \in R <=> y < x BY DEF OpToRel
<1>2. IsWellFoundedOn(R, Nat) BY NatLessThanWellFounded
<1> HIDE DEF R
<1>3. \E x \in S : \A y \in S : ~(<<y, x>> \in R) BY <1>2, WFMin
<1>4. PICK x \in S : \A y \in S : ~(<<y, x>> \in R) BY <1>3
<1>5. \A y \in S : x <= y
  <2> TAKE y \in S
  <2>1. x \in Nat /\ y \in Nat /\ ~(y < x) BY <1>1, <1>4
  <2> QED BY <2>1
<1> QED BY <1>4, <1>5 DEF Min

\* A request as the code takes it on, and registers of some size.
Taken(q) ==
    /\ q.clock \in Nat \ {0} /\ q.bitrate \in Nat \ {0}
    /\ q.sample \in 500 .. 950
Registers(limits) ==
    /\ limits.presc \in Nat /\ limits.tseg1 \in Nat /\ limits.tseg2 \in Nat
    /\ limits.sjw \in Nat

\* Rounding to the nearest quantum: phase segment 2 is the one length whose sample point
\* is nearest to the request.
LEMMA Tseg2Nearest ==
    ASSUME NEW q, Taken(q), NEW total \in Nat
    PROVE  /\ Tseg2(q, total) \in Nat \ {0}
           /\ Nearest(q, total, Tseg2(q, total))
           /\ \A t \in Nat \ {0} : Nearest(q, total, t) => t = Tseg2(q, total)
<1> DEFINE x == total * (1000 - q.sample)
<1>1. x \in Nat BY DEF Taken
<1>2. Tseg2(q, total) = IF (x + 500) \div 1000 < 1 THEN 1 ELSE (x + 500) \div 1000
  BY DEF Tseg2
<1>3. \A t \in Nat \ {0} :
          Nearest(q, total, t) <=> \/ -500 < 1000 * t - x /\ 1000 * t - x <= 500
                                   \/ t = 1 /\ 1000 * t - x > 0
  BY DEF Nearest
<1> HIDE DEF x
<1> QED BY <1>1, <1>2, <1>3

\* The prescalers with the exact bitrate, and the quanta they give a bit.
LEMMA ExactTotal ==
    ASSUME NEW q, Taken(q), NEW p \in Nat \ {0}, NEW n \in Nat
    PROVE  p * n * q.bitrate = q.clock <=> Exact(q, p) /\ Total(q, p) = n
<1> DEFINE m == p * q.bitrate
           c == q.clock
<1>1. m \in Nat \ {0} /\ c \in Nat BY DEF Taken
<1>2. p * n * q.bitrate = m * n BY DEF Taken
<1>3. (Exact(q, p) <=> c % m = 0) /\ Total(q, p) = c \div m BY DEF Exact, Total
<1> HIDE DEF m, c
<1>4. m * n = c <=> c % m = 0 /\ c \div m = n
  <2> DEFINE d == c \div m
             r == c % m
  <2>1. d \in Int /\ r \in 0 .. m - 1 /\ c = m * d + r BY <1>1
  <2> HIDE DEF d, r
  <2>2. CASE n > d
    <3>1. m * n >= m * (d + 1) BY <1>1, <2>1, <2>2
    <3>2. m * (d + 1) = m * d + m BY <1>1, <2>1
    <3> QED BY <1>1, <2>1, <2>2, <3>1, <3>2 DEF d, r
  <2>3. CASE n < d
    <3>1. m * d >= m * (n + 1) BY <1>1, <2>1, <2>3
    <3>2. m * (n + 1) = m * n + m BY <1>1
    <3> QED BY <1>1, <2>1, <2>3, <3>1, <3>2 DEF d, r
  <2>4. CASE n = d BY <1>1, <2>1, <2>4 DEF d, r
  <2> QED BY <2>1, <2>2, <2>3, <2>4
<1> QED BY <1>2, <1>3, <1>4 DEF c

\* A larger prescaler gives a bit no more quanta.
LEMMA LongerQuantum ==
    ASSUME NEW q, Taken(q), NEW p \in Nat \ {0}, NEW o \in Nat \ {0}, p <= o,
           NEW n \in Nat, NEW k \in Nat,
           p * n * q.bitrate = q.clock, o * k * q.bitrate = q.clock
    PROVE  k <= n
<1> SUFFICES ASSUME k > n PROVE FALSE
  OBVIOUS
<1>1. p * n < p * k BY SMT
<1>2. p * k <= o * k BY SMT
<1>3. p * n < o * k BY <1>1, <1>2
<1> DEFINE a == p * n
           b == o * k
<1>4. a \in Nat /\ b \in Nat /\ a < b BY <1>3
<1> HIDE DEF a, b
<1>5. a * q.bitrate < b * q.bitrate BY <1>4 DEF Taken
<1> QED BY <1>5 DEF a, b, Taken

\* What the search returns: one of the exact timings with the smallest prescaler; and
\* nothing only if there is no exact timing at all.
LEMMA BestTiming ==
    ASSUME NEW q, Taken(q), ValidRequest(q), NEW limits, Registers(limits)
    PROVE  LET t == rjs_can_calc_timing(q, limits)
               all == ExactTimings(q, limits)
           IN  IF t.ok
               THEN /\ [presc |-> t.presc, tseg1 |-> t.tseg1, tseg2 |-> t.tseg2] \in all
                    /\ \A o \in all : t.presc <= o.presc
                    /\ t.sjw <= t.tseg2 /\ t.sjw <= limits.sjw
               ELSE all = {}
<1> DEFINE ends == EndsAt(q, limits)
           all == ExactTimings(q, limits)
           p == Min(ends)
           n == Total(q, p)
<1>1. ends \in SUBSET Nat /\ \A e \in ends : e \in Nat \ {0} /\ e <= limits.presc
  BY DEF EndsAt, Registers
<1>2. ASSUME NEW o \in all
      PROVE  /\ o.presc \in ends
             /\ 1 + o.tseg1 + o.tseg2 \in Nat /\ 1 + o.tseg1 + o.tseg2 >= 4
             /\ o.presc * (1 + o.tseg1 + o.tseg2) * q.bitrate = q.clock
  <2> DEFINE k == 1 + o.tseg1 + o.tseg2
  <2>1. /\ o.presc \in 1 .. limits.presc /\ o.tseg1 \in 1 .. limits.tseg1
        /\ o.tseg2 \in 1 .. limits.tseg2
        /\ k >= 4 /\ o.presc * k * q.bitrate = q.clock /\ Nearest(q, k, o.tseg2)
    BY DEF ExactTimings
  <2>2. /\ o.presc \in Nat \ {0} /\ k \in Nat /\ o.tseg1 \in Nat \ {0}
        /\ o.tseg2 \in Nat \ {0}
    BY <2>1 DEF Registers
  <2>3. Exact(q, o.presc) /\ Total(q, o.presc) = k BY <2>1, <2>2, ExactTotal
  <2>4. o.tseg2 = Tseg2(q, k) BY <2>1, <2>2, Tseg2Nearest
  <2>5. Fits(q, k, limits) BY <2>1, <2>2, <2>4 DEF Fits, Tseg1, Registers
  <2> QED BY <2>1, <2>2, <2>3, <2>5 DEF EndsAt
<1>3. CASE ends = {}
  <2>1. all = {} BY <1>2, <1>3
  <2> QED BY <1>3, <2>1 DEF rjs_can_calc_timing, NoTiming
<1>4. CASE ends # {}
  <2>1. p \in ends /\ \A e \in ends : p <= e BY <1>1, <1>4, MinFacts
  <2>2. p \in Nat \ {0} /\ p <= limits.presc BY <1>1, <2>1
  <2>3. Exact(q, p) /\ (n < 4 \/ Fits(q, n, limits)) BY <2>1 DEF EndsAt
  <2>4. n \in Nat
    <3> DEFINE m == p * q.bitrate
               c == q.clock
    <3>1. m \in Nat \ {0} /\ c \in Nat BY <2>2 DEF Taken
    <3>2. n = c \div m BY DEF Total
    <3> HIDE DEF m, c
    <3> QED BY <3>1, <3>2
  <2>5. p * n * q.bitrate = q.clock BY <2>2, <2>3, <2>4, ExactTotal
  <2> HIDE DEF ends, p, n
  <2>6. CASE n < 4
    <3>1. ASSUME NEW o \in all PROVE FALSE
      <4> DEFINE k == 1 + o.tseg1 + o.tseg2
      <4>1. /\ o.presc \in ends /\ k \in Nat /\ k >= 4
            /\ o.presc * k * q.bitrate = q.clock
        BY <1>2
      <4>2. o.presc \in Nat \ {0} /\ p <= o.presc BY <1>1, <2>1, <4>1
      <4>3. k <= n BY <2>2, <2>4, <2>5, <4>1, <4>2, LongerQuantum
      <4> QED BY <2>4, <2>6, <4>1, <4>3
    <3>2. all = {} BY <3>1
    <3>3. rjs_can_calc_timing(q, limits) = NoTiming
      BY <1>4, <2>6 DEF rjs_can_calc_timing, ends, p, n
    <3> QED BY <3>2, <3>3 DEF NoTiming
  <2>7. CASE ~(n < 4)
    <3> DEFINE t2 == Tseg2(q, n)
               t1 == Tseg1(q, n)
               sjw == IF t2 < limits.sjw THEN t2 ELSE limits.sjw
    <3>1. rjs_can_calc_timing(q, limits)
              = [ok |-> TRUE, presc |-> p, tseg1 |-> t1, tseg2 |-> t2, sjw |-> sjw]
      BY <1>4, <2>7 DEF rjs_can_calc_timing, Timing, ends, p, n
    <3>2. t2 \in Nat \ {0} /\ Nearest(q, n, t2) BY <2>4, Tseg2Nearest
    <3>3. t1 = n - 1 - t2 BY DEF Tseg1
    <3>4. t1 >= 1 /\ t1 <= limits.tseg1 /\ t2 <= limits.tseg2
      BY <2>3, <2>7 DEF Fits
    <3>5. sjw <= t2 /\ sjw <= limits.sjw BY <3>2 DEF Registers
    <3> HIDE DEF t1, t2, sjw
    <3>6. p \in 1 .. limits.presc /\ t1 \in 1 .. limits.tseg1 /\ t2 \in 1 .. limits.tseg2
      BY <2>2, <2>4, <3>2, <3>3, <3>4 DEF Registers
    <3>7. 1 + t1 + t2 = n BY <2>4, <3>2, <3>3
    <3>8. [presc |-> p, tseg1 |-> t1, tseg2 |-> t2] \in all
      BY <2>4, <2>5, <2>7, <3>2, <3>6, <3>7 DEF ExactTimings
    <3>9. \A o \in all : p <= o.presc BY <1>2, <2>1
    <3> HIDE DEF all
    <3> QED BY <3>1, <3>5, <3>8, <3>9 DEF all
  <2> QED BY <2>6, <2>7
<1> QED BY <1>3, <1>4

RequestType == request = None \/ request \in Requests

\* Every request, whatever the clock and the registers, gets an exact timing with the
\* smallest prescaler and the nearest sample point, and none only if there is none.
THEOREM TimingBest == MCSpec => []TimingIsBest
<1>1. MCInit => RequestType BY DEF MCInit, RequestType
<1>2. RequestType /\ [MCNext]_<<vars, request>> => RequestType'
  BY DEF RequestType, MCNext, None
<1>3. RequestType => TimingIsBest
  <2> SUFFICES ASSUME request \in Requests, ValidRequest(request)
               PROVE  TimingIsBest
    BY DEF RequestType, TimingIsBest
  <2>1. Taken(request) BY TimingAssumption DEF Requests, ValidRequest, Taken
  <2>2. Registers(Limits) BY TimingAssumption DEF Limits, Registers
  <2> QED BY <2>1, <2>2, BestTiming DEF TimingIsBest, Limits
<1> QED BY <1>1, <1>2, <1>3, PTL DEF MCSpec
================================================================================
