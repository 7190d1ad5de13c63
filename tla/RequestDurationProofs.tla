------------------------ MODULE RequestDurationProofs ------------------------
(***************************************************************************)
(* The duration of a request is the time since its handler was entered,    *)
(* whatever the clock does short of inventing instants, and the latency of *)
(* its GCP line is that duration: to the nanosecond while it is short,     *)
(* within the precision of a float when it is long.  The proof follows the *)
(* error through the five roundings and the reading back, in parts of      *)
(* eight times the precision.                                              *)
(***************************************************************************)
EXTENDS RequestDuration, InductionLemmas

-----------------------------------------------------------------------------
(* Arithmetic                                                              *)

LEMMA MulMono ==
    ASSUME NEW a \in Int, NEW b \in Int, NEW k \in Nat, a <= b
    PROVE  k * a <= k * b
OBVIOUS

LEMMA Cancel ==
    ASSUME NEW a \in Int, NEW b \in Int, NEW k \in Nat, k > 0, k * a <= k * b
    PROVE  a <= b
OBVIOUS

LEMMA DivMod ==
    ASSUME NEW a \in Nat, NEW b \in Nat, b > 0
    PROVE  /\ a \div b \in Nat /\ a % b \in Nat /\ a % b < b
           /\ (b * (a \div b)) + (a % b) = a
OBVIOUS

LEMMA Units ==
    /\ Radix \in Nat /\ Radix > 0 /\ Precision \in Nat /\ Precision >= 64
    /\ Grains \in Nat /\ Grains > 0 /\ LimitMs \in Nat /\ LimitMs > 0
    /\ Micro \in Nat /\ Micro > 0 /\ Milli \in Nat /\ Milli > 0 /\ Second \in Nat /\ Second > 0
    /\ Milli = Radix * Micro /\ Second = Radix * Milli
    /\ Precision * Second <= Grains
<1>1. /\ Radix \in Nat /\ Radix > 0 /\ Precision \in Nat /\ Precision >= 64
      /\ Grains \in Nat /\ Grains > 0 /\ LimitMs \in Nat /\ LimitMs > 0
      /\ Precision * Second <= Grains
  BY UnitsAssumption, FloatAssumption
<1>2. Micro \in Nat /\ Micro > 0
  BY <1>1 DEF Micro
<1>3. Milli \in Nat /\ Milli > 0 /\ Milli = Radix * Micro
  BY <1>1, <1>2 DEF Milli
<1>4. Second \in Nat /\ Second > 0 /\ Second = Radix * Milli
  BY <1>1, <1>3 DEF Second
<1> QED  BY <1>1, <1>2, <1>3, <1>4

\* Ulp is defined by its recursion.
LEMMA UlpDefined ==
    \A q \in Nat : Ulp[q] \in Nat /\ Ulp[q] = IF q < Precision THEN 1 ELSE 2 * Ulp[q \div 2]
<1> DEFINE B    == {q \in Nat : q < Precision}
           down == [q \in Nat |-> q \div 2]
           F    == [v \in Nat |-> 2 * v]
           D(g) == [q \in Int |-> IF q < Precision THEN 1 ELSE 2 * g[q \div 2]]
<1>1. F \in [Nat -> Nat] /\ \A v \in Nat : F[v] = 2 * v
  OBVIOUS
<1>2. down \in [Nat -> Nat] /\ \A q \in Nat : down[q] = q \div 2
  OBVIOUS
<1>3. \A q \in Nat : q \in B \/ q \div 2 < q
  BY Units
<1>4. 1 \in Nat /\ \A q \in Nat : q \in B <=> q < Precision
  OBVIOUS
<1> HIDE DEF B, down, F
<1>5. PICK f : IsDescent(f, Nat, B, 1, down, F)
  <2>1. \A q \in Nat : q \in B \/ down[q] < q
    BY <1>2, <1>3
  <2> QED  BY <1>1, <1>2, <1>4, <2>1, DescentDefined
<1>6. /\ f \in [Nat -> Nat]
      /\ \A q \in Nat : f[q] = IF q < Precision THEN 1 ELSE 2 * f[q \div 2]
  <2>1. f \in [Nat -> Nat] /\ \A q \in Nat : f[q] = IF q \in B THEN 1 ELSE F[f[down[q]]]
    BY <1>5 DEF IsDescent
  <2>2. \A q \in Nat : q \div 2 \in Nat
    OBVIOUS
  <2> QED  BY <1>1, <1>2, <1>4, <2>1, <2>2
<1> DEFINE h == [q \in Int |-> IF q < Precision THEN 1 ELSE f[q]]
<1>7. h = D(h)
  <2>1. ASSUME NEW q \in Int PROVE h[q] = D(h)[q]
    <3>1. CASE q < Precision
      BY <3>1
    <3>2. CASE q >= Precision
      <4>1. q \in Nat /\ q \div 2 \in Nat /\ q \div 2 \in Int
        BY <3>2, Units
      <4>2. f[q] = 2 * f[q \div 2]
        BY <1>6, <3>2, <4>1, Units
      <4>3. h[q \div 2] = f[q \div 2]
        BY <1>6, <4>1
      <4> QED  BY <3>2, <4>1, <4>2, <4>3, Units
    <3> QED  BY <3>1, <3>2, Units
  <2>2. h = [q \in Int |-> h[q]] /\ D(h) = [q \in Int |-> D(h)[q]]
    OBVIOUS
  <2> HIDE DEF h, D
  <2> QED  BY <2>1, <2>2
<1> HIDE DEF h
<1>8. Ulp = CHOOSE g : g = D(g)
  BY DEF Ulp
<1>9. Ulp = D(Ulp)
  <2> HIDE DEF D
  <2> QED  BY <1>7, <1>8
<1>10. \A q \in Nat : Ulp[q] = IF q < Precision THEN 1 ELSE 2 * Ulp[q \div 2]
  <2> DEFINE u == Ulp
  <2>1. u = D(u)
    BY <1>9
  <2> HIDE DEF u
  <2>2. \A q \in Nat : u[q] = IF q < Precision THEN 1 ELSE 2 * u[q \div 2]
    BY <2>1
  <2> QED  BY <2>2 DEF u
<1> DEFINE Same == {q \in Nat : Ulp[q] = f[q]}
<1>11. ASSUME NEW q \in Nat, \A m \in Nat : m < q => m \in Same
       PROVE  q \in Same
  <2>1. q < Precision \/ (q \div 2 \in Nat /\ q \div 2 < q)
    BY Units
  <2> QED  BY <1>6, <1>10, <1>11, <2>1
<1>12. \A q \in Nat : q \in Same
  <2> HIDE DEF Same
  <2> QED  BY <1>11, StrongInduction
<1> QED  BY <1>6, <1>10, <1>12

\* Neighbours are a part in Precision / 2 of a float apart, or one grain.
LEMMA UlpSmall ==
    \A q \in Nat : Ulp[q] \in Nat /\ Ulp[q] > 0 /\ (Ulp[q] = 1 \/ Precision * Ulp[q] <= 2 * q)
<1> DEFINE S == {q \in Nat : Ulp[q] > 0 /\ (Ulp[q] = 1 \/ Precision * Ulp[q] <= 2 * q)}
<1>1. ASSUME NEW q \in Nat, \A m \in Nat : m < q => m \in S
      PROVE  q \in S
  <2>1. CASE q < Precision
    BY <2>1, UlpDefined
  <2>2. CASE q >= Precision
    <3> DEFINE h == q \div 2
               u == Ulp[h]
    <3>1. h \in Nat /\ h < q /\ 2 * h <= q
      BY <2>2, Units
    <3>2. Ulp[q] = 2 * u /\ u \in Nat
      BY <2>2, <3>1, UlpDefined, Units
    <3>3. u > 0 /\ (u = 1 \/ Precision * u <= 2 * h)
      BY <1>1, <3>1
    <3> HIDE DEF h, u
    <3>4. CASE u = 1
      <4>1. Precision * (2 * u) <= 2 * q
        BY <2>2, <3>4, Units
      <4> QED  BY <3>2, <3>3, <4>1
    <3>5. CASE Precision * u <= 2 * h
      <4>1. Precision * (2 * u) = 2 * (Precision * u)
        BY <3>2, Units
      <4>2. Precision * (2 * u) <= 2 * q
        BY <3>1, <3>2, <3>5, <4>1, Units
      <4> QED  BY <3>2, <3>3, <4>2
    <3> QED  BY <3>3, <3>4, <3>5
  <2> QED  BY <2>1, <2>2, Units
<1> HIDE DEF S
<1>2. \A q \in Nat : q \in S
  BY <1>1, StrongInduction
<1> QED  BY <1>2, UlpDefined DEF S

LEMMA NearestIsNear ==
    ASSUME NEW a \in Nat, NEW b \in Nat, b > 0
    PROVE  /\ Nearest(a, b) \in Nat
           /\ 2 * ((b * Nearest(a, b)) - a) <= b
           /\ 2 * (a - (b * Nearest(a, b))) <= b
<1> DEFINE q == a \div b
           r == a % b
<1>1. q \in Nat /\ r \in Nat /\ r < b /\ (b * q) + r = a
  BY DivMod
<1>2. CASE Up(a, b)
  <2>1. 2 * r >= b
    BY <1>1, <1>2 DEF Up
  <2>2. Nearest(a, b) = q + 1
    BY <1>2 DEF Nearest
  <2> HIDE DEF q, r
  <2>3. b * (q + 1) = (b * q) + b
    BY <1>1
  <2> QED  BY <1>1, <2>1, <2>2, <2>3
<1>3. CASE ~Up(a, b)
  <2>1. 2 * r <= b
    BY <1>1, <1>3 DEF Up
  <2>2. Nearest(a, b) = q
    BY <1>1, <1>3 DEF Nearest
  <2> HIDE DEF q, r
  <2> QED  BY <1>1, <2>1, <2>2
<1> QED  BY <1>2, <1>3

(***************************************************************************)
(* x is y but for c parts in 8 * Precision of y.  One rounding is 8 parts. *)
(***************************************************************************)
Within(x, y, c) ==
    /\ (8 * Precision) * (x - y) <= c * y
    /\ (8 * Precision) * (y - x) <= c * y

LEMMA RoundedIsNear ==
    ASSUME NEW a \in Nat, NEW b \in Nat, b > 0,
           b = 1 \/ Precision * b <= 2 * a
    PROVE  Rounded(a, b) \in Nat /\ Within(b * Rounded(a, b), a, 8)
<1> DEFINE q == a \div b
           u == Ulp[q]
           n == Nearest(a, b * u)
           R == n * u
<1>1. q \in Nat /\ b * q <= a /\ (b = 1 => q = a)
  BY DivMod
<1>2. u \in Nat /\ u > 0 /\ (u = 1 \/ Precision * u <= 2 * q)
  BY <1>1, UlpSmall
<1> HIDE DEF q, u
<1>3. b * u \in Nat /\ b * u > 0
  BY <1>2
<1>4. /\ n \in Nat
      /\ 2 * (((b * u) * n) - a) <= b * u
      /\ 2 * (a - ((b * u) * n)) <= b * u
  BY <1>3, NearestIsNear
<1> HIDE DEF n
<1>5. R \in Nat /\ (b * u) * n = b * R
  BY <1>2, <1>4
<1>6. Rounded(a, b) = R
  BY DEF Rounded, u, q, n
<1> HIDE DEF R
<1>7. Precision * (b * u) <= 2 * a \/ b * R = a
  <2>1. CASE u = 1 /\ b = 1
    <3>1. 2 * ((b * R) - a) <= 1 /\ 2 * (a - (b * R)) <= 1
      BY <1>4, <1>5, <2>1
    <3> QED  BY <1>5, <3>1
  <2>2. CASE u = 1 /\ Precision * b <= 2 * a
    BY <2>2
  <2>3. CASE Precision * u <= 2 * q
    <3>1. b * (Precision * u) <= b * (2 * q)
      BY <1>1, <1>2, <2>3, MulMono, Units
    <3>2. b * (2 * q) = 2 * (b * q) /\ b * (Precision * u) = Precision * (b * u)
      BY <1>1, <1>2, Units
    <3> QED  BY <1>1, <1>3, <3>1, <3>2, Units
  <2> QED  BY <1>2, <2>1, <2>2, <2>3
<1> DEFINE w == b * u
           x == b * R
<1>8. w \in Nat /\ x \in Nat /\ 2 * (x - a) <= w /\ 2 * (a - x) <= w
      /\ (Precision * w <= 2 * a \/ x = a)
  BY <1>3, <1>4, <1>5, <1>7
<1> HIDE DEF w, x
<1>9. Within(x, a, 8)
  <2>1. CASE x = a
    BY <1>8, <2>1, Units DEF Within
  <2>2. CASE Precision * w <= 2 * a
    <3> DEFINE over  == Precision * (2 * (x - a))
               under == Precision * (2 * (a - x))
               most  == Precision * w
    <3>1. over <= most /\ under <= most
      BY <1>8, MulMono, Units
    <3>2. (8 * Precision) * (x - a) = 4 * over /\ (8 * Precision) * (a - x) = 4 * under
      BY <1>8, Units
    <3>3. over \in Int /\ under \in Int /\ most \in Int /\ most <= 2 * a
      BY <1>8, <2>2, Units
    <3> HIDE DEF over, under, most
    <3>4. 4 * over <= 8 * a /\ 4 * under <= 8 * a
      BY <3>1, <3>3
    <3> QED  BY <3>2, <3>4 DEF Within
  <2> QED  BY <1>8, <2>1, <2>2
<1> QED  BY <1>5, <1>6, <1>9 DEF x

LEMMA WithinScaled ==
    ASSUME NEW x \in Nat, NEW y \in Nat, NEW c \in Nat, NEW k \in Nat, Within(x, y, c)
    PROVE  Within(k * x, k * y, c)
<1> DEFINE Q == 8 * Precision
<1>1. Q \in Nat
  BY Units
<1>2. Q * (x - y) <= c * y /\ Q * (y - x) <= c * y
  BY DEF Within
<1> HIDE DEF Q
<1>3. k * (Q * (x - y)) <= k * (c * y) /\ k * (Q * (y - x)) <= k * (c * y)
  BY <1>1, <1>2, MulMono
<1>4. /\ k * (Q * (x - y)) = Q * ((k * x) - (k * y))
      /\ k * (Q * (y - x)) = Q * ((k * y) - (k * x))
      /\ k * (c * y) = c * (k * y)
  BY <1>1
<1> QED  BY <1>3, <1>4 DEF Within, Q

LEMMA WithinShifted ==
    ASSUME NEW x \in Nat, NEW y \in Nat, NEW c \in Nat, NEW k \in Nat, Within(x, y, c)
    PROVE  Within(k + x, k + y, c)
<1>1. (k + x) - (k + y) = x - y /\ (k + y) - (k + x) = y - x
  OBVIOUS
<1>2. c * y <= c * (k + y)
  BY MulMono
<1> DEFINE Q == 8 * Precision
<1>3. Q * (x - y) <= c * y /\ Q * (y - x) <= c * y /\ Q \in Nat
  BY Units DEF Within
<1> HIDE DEF Q
<1>4. Q * ((k + x) - (k + y)) <= c * (k + y) /\ Q * ((k + y) - (k + x)) <= c * (k + y)
  BY <1>1, <1>2, <1>3
<1> QED  BY <1>4 DEF Within, Q

\* c parts and e parts are at most k: they add up, and little more.
AddUpTo(c, e, k) ==
    /\ c \in 0..512 /\ e \in 0..512 /\ k \in Nat
    /\ c + e < k
    /\ c * e <= 512

LEMMA WithinComposed ==
    ASSUME NEW x \in Nat, NEW y \in Nat, NEW z \in Nat, NEW c, NEW e, NEW k,
           Within(x, y, c), Within(z, x, e), AddUpTo(c, e, k)
    PROVE  Within(z, y, k)
<1> DEFINE Q == 8 * Precision
           m == k - (c + e)
<1>1. Q \in Nat /\ Q > 0 /\ Q >= 512 /\ c \in Nat /\ e \in Nat /\ k \in Nat /\ c + e <= k
      /\ m \in Nat /\ m > 0
  BY Units DEF AddUpTo
<1>2. /\ Q * (x - y) <= c * y /\ Q * (y - x) <= c * y
      /\ Q * (z - x) <= e * x /\ Q * (x - z) <= e * x
      /\ c <= Q /\ e <= Q /\ c * e <= Q * (k - (c + e))
  <2>1. /\ Q * (x - y) <= c * y /\ Q * (y - x) <= c * y
        /\ Q * (z - x) <= e * x /\ Q * (x - z) <= e * x
    BY DEF Within
  <2>2. c <= 512 /\ e <= 512 /\ c * e <= 512
    BY DEF AddUpTo
  <2> HIDE DEF Q, m
  <2>3. Q <= Q * m
    BY <1>1
  <2> QED  BY <1>1, <2>1, <2>2, <2>3 DEF m
<1> HIDE DEF Q, m
<1>3. Q * x <= (Q + c) * y /\ Q * z <= (Q + e) * x
  BY <1>1, <1>2
<1>4. Q * x >= (Q - c) * y /\ Q * z >= (Q - e) * x
  BY <1>1, <1>2
<1>5. Q * (z - y) <= k * y
  <2>1. Q * (Q * z) <= Q * ((Q + e) * x)
    BY <1>1, <1>3, MulMono
  <2>2. (Q + e) * (Q * x) <= (Q + e) * ((Q + c) * y)
    BY <1>1, <1>3, MulMono
  <2>3. Q * ((Q + e) * x) = (Q + e) * (Q * x)
    BY <1>1
  <2>4. (Q + e) * ((Q + c) * y) = ((Q * (Q * y)) + (Q * ((c + e) * y))) + ((c * e) * y)
    BY <1>1
  <2>5. (c * e) * y <= (Q * (k - (c + e))) * y
    BY <1>1, <1>2
  <2>6. (Q * (k - (c + e))) * y = (Q * (k * y)) - (Q * ((c + e) * y))
    BY <1>1
  <2>7. Q * (Q * z) <= Q * ((Q * y) + (k * y))
    BY <1>1, <2>1, <2>2, <2>3, <2>4, <2>5, <2>6
  <2>8. Q * z <= (Q * y) + (k * y)
    BY <1>1, <2>7, Cancel
  <2> QED  BY <1>1, <2>8
<1>6. Q * (y - z) <= k * y
  <2>1. Q * (Q * z) >= Q * ((Q - e) * x)
    BY <1>1, <1>4, MulMono
  <2>2. (Q - e) * (Q * x) >= (Q - e) * ((Q - c) * y)
    <3>1. Q - e \in Nat
      BY <1>1, <1>2
    <3> QED  BY <1>1, <1>4, <3>1, MulMono
  <2>3. Q * ((Q - e) * x) = (Q - e) * (Q * x)
    BY <1>1
  <2>4. (Q - e) * ((Q - c) * y) = ((Q * (Q * y)) - (Q * ((c + e) * y))) + ((c * e) * y)
    BY <1>1
  <2>5. Q * ((c + e) * y) <= Q * (k * y)
    BY <1>1
  <2>6. (c * e) * y >= 0
    BY <1>1
  <2>7. Q * (Q * z) >= Q * ((Q * y) - (k * y))
    BY <1>1, <2>1, <2>2, <2>3, <2>4, <2>5, <2>6
  <2>8. Q * z >= (Q * y) - (k * y)
    BY <1>1, <2>7, Cancel
  <2> QED  BY <1>1, <2>8
<1> QED  BY <1>5, <1>6 DEF Within, Q

\* The sums that occur.
LEMMA Sums ==
    AddUpTo(8, 8, 17) /\ AddUpTo(17, 8, 26) /\ AddUpTo(26, 16, 43) /\ AddUpTo(43, 8, 52)
BY DEF AddUpTo

\* A value read back is one of the neighbours, unless it is less than any nanosecond.
LEMMA RereadIsNear ==
    ASSUME NEW f \in Nat, Precision <= 2 * f, NEW g \in Reread(f)
    PROVE  g \in Nat /\ Within(g, f, 16)
<1> DEFINE u == Ulp[f]
           step == Precision * u
<1>1. u \in Nat /\ u > 0 /\ (u = 1 \/ step <= 2 * f)
  BY UlpSmall
<1>2. g \in {f - u, f, f + u}
  BY DEF Reread
<1>3. step \in Nat /\ step <= 2 * f /\ (8 * Precision) * u = 8 * step
  BY <1>1, Units
<1>4. 64 * u <= step
  BY <1>1, Units
<1> HIDE DEF u, step
<1>5. g \in Nat
  BY <1>1, <1>2, <1>3, <1>4
<1>6. (8 * Precision) * u <= 16 * f
  BY <1>1, <1>3
<1> DEFINE Q == 8 * Precision
<1>7. Q \in Nat /\ Q * u <= 16 * f /\ Q * 0 <= 16 * f /\ Q * (0 - u) <= 16 * f
  BY <1>1, <1>6, Units
<1> HIDE DEF Q
<1>8. g - f \in {0 - u, 0, u} /\ f - g \in {0 - u, 0, u}
  BY <1>1, <1>2
<1>9. Q * (g - f) <= 16 * f /\ Q * (f - g) <= 16 * f
  BY <1>7, <1>8
<1> QED  BY <1>5, <1>9 DEF Within, Q

\* What is near a large number is at least half of it.
LEMMA NearIsHalf ==
    ASSUME NEW x \in Nat, NEW y \in Nat, NEW c \in Nat, 2 * c <= 8 * Precision, Within(x, y, c)
    PROVE  y <= 2 * x
<1> DEFINE Q == 8 * Precision
<1>1. Q \in Nat /\ Q > 0 /\ 2 * c <= Q /\ Q * (y - x) <= c * y
  BY Units DEF Within
<1> HIDE DEF Q
<1>2. (2 * c) * y <= Q * y
  BY <1>1
<1>3. 2 * (Q * (y - x)) <= Q * y
  BY <1>1, <1>2
<1>4. 2 * (Q * (y - x)) = Q * (2 * (y - x))
  BY <1>1
<1>5. 2 * (y - x) <= y
  BY <1>1, <1>3, <1>4, Cancel
<1> QED  BY <1>5

-----------------------------------------------------------------------------
(* The roundings of a duration that is not whole milliseconds              *)

LEMMA Fraction ==
    ASSUME NEW d \in Nat, (d % Second) % Milli # 0
    PROVE  /\ d \div Second \in Nat /\ d % Second \in Nat /\ d % Second > 0 /\ d > 0
           /\ (Second * (d \div Second)) + (d % Second) = d
           /\ Precision * Second <= (d % Second) * Grains
           /\ Precision * Second <= d * Grains
<1> DEFINE r == d % Second
<1>1. /\ d \div Second \in Nat /\ r \in Nat
      /\ (Second * (d \div Second)) + r = d
  BY DivMod, Units
<1>2. r # 0
  <2>1. 0 % Milli = 0
    BY Units
  <2> QED  BY <2>1
<1>3. d >= r
  BY <1>1, Units
<1> HIDE DEF r
<1>4. Grains <= r * Grains /\ Grains <= d * Grains
  BY <1>1, <1>2, <1>3, Units
<1> QED  BY <1>1, <1>2, <1>3, <1>4, Units DEF r

\* Two roundings: within 17 parts.
LEMMA SecondsAreNear ==
    ASSUME NEW d \in Nat, (d % Second) % Milli # 0
    PROVE  AsSecs(d) \in Nat /\ Within(Second * AsSecs(d), d * Grains, 17)
<1> DEFINE s == d \div Second
           r == d % Second
           a == r * Grains
           f == Rounded(a, Second)
           b == (s * Grains) + f
           g == Rounded(b, 1)
<1>1. /\ s \in Nat /\ r \in Nat /\ (Second * s) + r = d /\ Precision * Second <= a
      /\ a \in Nat
  BY Fraction, Units
<1>2. AsSecs(d) = g
  BY DEF AsSecs
<1> HIDE DEF s, r
<1>3. f \in Nat /\ Within(Second * f, a, 8)
  <2>1. Precision * Second <= 2 * a
    BY <1>1, Units
  <2> HIDE DEF a
  <2> QED  BY <1>1, <2>1, Units, RoundedIsNear
<1> HIDE DEF f
<1> DEFINE k == Second * (s * Grains)
<1>4. k \in Nat /\ k + (Second * f) = Second * b /\ k + a = d * Grains /\ b \in Nat
  BY <1>1, <1>3, Units
<1>5. Within(Second * b, d * Grains, 8)
  <2>1. Within(k + (Second * f), k + a, 8)
    <3>1. Second * f \in Nat
      BY <1>3, Units
    <3> HIDE DEF k, a
    <3> QED  BY <1>1, <1>3, <1>4, <3>1, WithinShifted
  <2> QED  BY <1>4, <2>1
<1> HIDE DEF b
<1>6. g \in Nat /\ Within(g, b, 8)
  <2>1. Rounded(b, 1) \in Nat /\ Within(1 * Rounded(b, 1), b, 8)
    BY <1>4, RoundedIsNear
  <2> QED  BY <2>1
<1> HIDE DEF g
<1>7. Within(Second * g, Second * b, 8)
  BY <1>4, <1>6, Units, WithinScaled
<1>8. Within(Second * g, d * Grains, 17)
  <2> DEFINE x == Second * b
             y == d * Grains
             z == Second * g
  <2>1. x \in Nat /\ y \in Nat /\ z \in Nat
    BY <1>4, <1>6, Units
  <2>2. Within(x, y, 8) /\ Within(z, x, 8)
    BY <1>5, <1>7
  <2> HIDE DEF x, y, z
  <2>3. Within(z, y, 17)
    BY <2>1, <2>2, WithinComposed, Sums
  <2> QED  BY <2>3 DEF y, z
<1> QED  BY <1>2, <1>6, <1>8

\* The number of milliseconds: within 26 parts.
LEMMA MillisecondsAreNear ==
    ASSUME NEW d \in Nat, (d % Second) % Milli # 0
    PROVE  /\ Rounded(AsSecs(d) * Radix, 1) \in Nat
           /\ Within(Milli * Rounded(AsSecs(d) * Radix, 1), d * Grains, 26)
<1> DEFINE y == d * Grains
           s == AsSecs(d)
           m == s * Radix
           f == Rounded(m, 1)
<1>1. s \in Nat /\ Within(Second * s, y, 17) /\ y \in Nat
  BY SecondsAreNear, Units
<1> HIDE DEF y, s
<1>2. m \in Nat /\ Milli * m = Second * s
  BY <1>1, Units
<1> HIDE DEF m
<1>3. f \in Nat /\ Within(f, m, 8)
  <2>1. Rounded(m, 1) \in Nat /\ Within(1 * Rounded(m, 1), m, 8)
    BY <1>2, RoundedIsNear
  <2> QED  BY <2>1
<1> HIDE DEF f
<1>4. Within(Milli * f, Milli * m, 8)
  BY <1>2, <1>3, Units, WithinScaled
<1>5. Within(Milli * f, y, 26)
  <2> DEFINE x == Milli * m
             z == Milli * f
  <2>1. x \in Nat /\ z \in Nat
    BY <1>2, <1>3, Units
  <2>2. Within(x, y, 17) /\ Within(z, x, 8)
    BY <1>1, <1>2, <1>4
  <2> HIDE DEF x, z
  <2>3. Within(z, y, 26)
    BY <1>1, <2>1, <2>2, WithinComposed, Sums
  <2> QED  BY <2>3 DEF z
<1> QED  BY <1>3, <1>5 DEF f, m, s, y

\* As the formatter reads it: within 43 parts, and more than a grain's precision.
LEMMA ReceivedIsNear ==
    ASSUME NEW d \in Nat, (d % Second) % Milli # 0,
           NEW g \in Reread(Rounded(AsSecs(d) * Radix, 1))
    PROVE  g \in Nat /\ Within(Milli * g, d * Grains, 43) /\ Precision * Radix <= 2 * g
<1> DEFINE y == d * Grains
           f == Rounded(AsSecs(d) * Radix, 1)
           x == Milli * f
           z == Milli * g
<1>1. f \in Nat /\ Within(x, y, 26) /\ y \in Nat /\ Precision * Second <= y /\ g \in Reread(f)
  BY MillisecondsAreNear, Fraction, Units
<1> HIDE DEF y, f
<1>2. x \in Nat
  BY <1>1, Units
<1>3. Precision <= 2 * f
  <2>1. y <= 2 * x
    <3> HIDE DEF x
    <3> QED  BY <1>1, <1>2, Units, NearIsHalf
  <2>2. Milli * (2 * f) = 2 * x
    BY <1>1, Units
  <2>3. Milli * Precision <= Precision * Second
    <3>1. Milli <= Second
      BY Units
    <3> QED  BY <3>1, Units
  <2>4. Milli * Precision <= Milli * (2 * f)
    BY <1>1, <1>2, <2>1, <2>2, <2>3, Units
  <2> QED  BY <1>1, <2>4, Units, Cancel
<1>4. g \in Nat /\ Within(g, f, 16)
  BY <1>1, <1>3, RereadIsNear
<1>5. z \in Nat /\ Within(z, x, 16)
  <2>1. Milli \in Nat /\ f \in Nat /\ g \in Nat /\ Within(g, f, 16)
    BY <1>1, <1>4, Units
  <2>2. Within(Milli * g, Milli * f, 16)
    BY <2>1, WithinScaled
  <2> QED  BY <2>1, <2>2
<1> HIDE DEF x, z
<1>6. Within(z, y, 43)
  <2>1. x \in Nat /\ y \in Nat /\ z \in Nat /\ Within(x, y, 26) /\ Within(z, x, 16)
    BY <1>1, <1>2, <1>5
  <2> QED  BY <2>1, WithinComposed, Sums
<1>7. Precision * Radix <= 2 * g
  <2>1. y <= 2 * z
    BY <1>1, <1>5, <1>6, Units, NearIsHalf
  <2>2. Milli * (2 * g) = 2 * z
    BY <1>4, Units DEF z
  <2>3. Milli * (Precision * Radix) = Precision * Second
    BY Units
  <2>4. Milli * (Precision * Radix) <= Milli * (2 * g)
    BY <1>1, <1>5, <2>1, <2>2, <2>3, Units
  <2>5. Precision * Radix \in Int /\ 2 * g \in Int
    BY <1>4, Units
  <2> QED  BY <2>4, <2>5, Units, Cancel
<1> QED  BY <1>4, <1>6, <1>7 DEF y, z

\* In seconds again: within 52 parts.
LEMMA SecondsAgainAreNear ==
    ASSUME NEW d \in Nat, (d % Second) % Milli # 0,
           NEW g \in Reread(Rounded(AsSecs(d) * Radix, 1))
    PROVE  /\ Rounded(g, Radix) \in Nat
           /\ Within(Radix * Rounded(g, Radix), g, 8)
           /\ Within(Second * Rounded(g, Radix), d * Grains, 52)
<1> DEFINE y == d * Grains
           h == Rounded(g, Radix)
           x == Milli * g
           z == Second * h
<1>1. g \in Nat /\ Within(x, y, 43) /\ Precision * Radix <= 2 * g /\ y \in Nat
  BY ReceivedIsNear, Units
<1> HIDE DEF y
<1>2. h \in Nat /\ Within(Radix * h, g, 8)
  BY <1>1, Units, RoundedIsNear
<1> HIDE DEF h
<1>3. x \in Nat /\ z \in Nat /\ Radix * h \in Nat /\ Milli * (Radix * h) = z
  BY <1>1, <1>2, Units
<1>4. Within(z, x, 8)
  <2>1. Within(Milli * (Radix * h), Milli * g, 8)
    <3> DEFINE w == Radix * h
    <3>1. w \in Nat /\ Within(w, g, 8)
      BY <1>2, <1>3
    <3> HIDE DEF w
    <3>2. Within(Milli * w, Milli * g, 8)
      BY <1>1, <3>1, Units, WithinScaled
    <3> QED  BY <3>2 DEF w
  <2> QED  BY <1>3, <2>1
<1> HIDE DEF x, z
<1>5. Within(z, y, 52)
  <2>1. x \in Nat /\ y \in Nat /\ z \in Nat /\ Within(x, y, 43) /\ Within(z, x, 8)
    BY <1>1, <1>3, <1>4
  <2> QED  BY <2>1, WithinComposed, Sums
<1> QED  BY <1>2, <1>5 DEF y, z, h

\* The nanoseconds that are written.
Written(g) == FromSecs(Rounded(g, Radix))

\* They are within 52 parts, and the last rounding.
LEMMA WrittenIsNear ==
    ASSUME NEW d \in Nat, (d % Second) % Milli # 0,
           NEW g \in Reread(Rounded(AsSecs(d) * Radix, 1))
    PROVE  /\ Written(g) \in Nat
           /\ (16 * Precision) * (Written(g) - d) <= (8 * Precision) + (104 * d)
           /\ (16 * Precision) * (d - Written(g)) <= (8 * Precision) + (104 * d)
<1> DEFINE h == Rounded(g, Radix)
           z == Second * h
           D == Nearest(h * Second, Grains)
           Q == 8 * Precision
           y == d * Grains
           v == Grains * D
<1>1. h \in Nat /\ Within(z, y, 52)
  BY SecondsAgainAreNear
<1>2. Written(g) = D
  BY DEF Written, FromSecs
<1> HIDE DEF h
<1>3. h * Second = z /\ z \in Nat
  BY <1>1, Units
<1>4. D \in Nat /\ 2 * (v - z) <= Grains /\ 2 * (z - v) <= Grains
  BY <1>3, Units, NearestIsNear
<1>5. Q * (z - y) <= 52 * y /\ Q * (y - z) <= 52 * y /\ Q \in Nat /\ Q > 0
  BY <1>1, Units DEF Within
<1> HIDE DEF D, z, Q
<1>6. y \in Nat /\ v \in Nat
  BY <1>4, Units
<1> HIDE DEF y, v
<1>7. Q * (2 * (v - z)) <= Q * Grains /\ Q * (2 * (z - v)) <= Q * Grains
  BY <1>3, <1>4, <1>5, <1>6, Units, MulMono
<1>8. /\ (2 * Q) * (v - y) = (Q * (2 * (v - z))) + (2 * (Q * (z - y)))
      /\ (2 * Q) * (y - v) = (Q * (2 * (z - v))) + (2 * (Q * (y - z)))
  BY <1>3, <1>5, <1>6
<1>9. (2 * Q) * (v - y) <= (Q * Grains) + (104 * y) /\ (2 * Q) * (y - v) <= (Q * Grains) + (104 * y)
  <2> DEFINE a1 == Q * (2 * (v - z))
             a2 == Q * (2 * (z - v))
             b1 == Q * (z - y)
             b2 == Q * (y - z)
             m  == Q * Grains
  <2>1. a1 <= m /\ a2 <= m /\ b1 <= 52 * y /\ b2 <= 52 * y
    BY <1>5, <1>7
  <2>2. a1 \in Int /\ a2 \in Int /\ b1 \in Int /\ b2 \in Int /\ m \in Int
    BY <1>3, <1>5, <1>6, Units
  <2> HIDE DEF a1, a2, b1, b2, m
  <2>3. a1 + (2 * b1) <= m + (104 * y) /\ a2 + (2 * b2) <= m + (104 * y)
    BY <1>6, <2>1, <2>2
  <2> QED  BY <1>8, <2>3 DEF a1, a2, b1, b2, m
<1>10. /\ Grains * ((2 * Q) * (D - d)) = (2 * Q) * (v - y)
       /\ Grains * ((2 * Q) * (d - D)) = (2 * Q) * (y - v)
       /\ Grains * (Q + (104 * d)) = (Q * Grains) + (104 * y)
  BY <1>4, <1>5, Units DEF v, y
<1>11. (2 * Q) * (D - d) <= Q + (104 * d) /\ (2 * Q) * (d - D) <= Q + (104 * d)
  <2> DEFINE e1 == (2 * Q) * (D - d)
             e2 == (2 * Q) * (d - D)
             m  == Q + (104 * d)
  <2>1. e1 \in Int /\ e2 \in Int /\ m \in Int
    BY <1>4, <1>5
  <2>2. Grains * e1 <= Grains * m /\ Grains * e2 <= Grains * m
    BY <1>9, <1>10
  <2> HIDE DEF e1, e2, m
  <2>3. e1 <= m /\ e2 <= m
    BY <2>1, <2>2, Units, Cancel
  <2> QED  BY <2>3 DEF e1, e2, m
<1>12. 2 * Q = 16 * Precision
  BY Units DEF Q
<1> QED  BY <1>2, <1>4, <1>11, <1>12 DEF Q

LEMMA DivAtLeast ==
    ASSUME NEW a \in Nat, NEW b \in Nat, b > 0, NEW k \in Nat
    PROVE  a \div b >= k <=> a >= b * k
<1> DEFINE q == a \div b
           r == a % b
<1>1. q \in Nat /\ r \in Nat /\ r < b /\ (b * q) + r = a
  BY DivMod
<1> HIDE DEF q, r
<1>2. ASSUME q >= k PROVE a >= b * k
  <2>1. b * k <= b * q
    BY <1>1, <1>2, MulMono
  <2> QED  BY <1>1, <2>1
<1>3. ASSUME q < k PROVE a < b * k
  <2>1. b * (q + 1) <= b * k
    BY <1>1, <1>3, MulMono
  <2>2. b * (q + 1) = (b * q) + b
    BY <1>1
  <2> QED  BY <1>1, <2>1, <2>2
<1> QED  BY <1>1, <1>2, <1>3 DEF q

LEMMA DivModOf ==
    ASSUME NEW b \in Nat, NEW q \in Nat, NEW r \in Nat, r < b
    PROVE  ((b * q) + r) \div b = q /\ ((b * q) + r) % b = r
<1> DEFINE a == (b * q) + r
           k == a \div b
           m == a % b
<1>1. a \in Nat /\ k \in Nat /\ m \in Nat /\ m < b /\ (b * k) + m = a
  BY DivMod
<1>2. (b * k) + m = (b * q) + r
  BY <1>1
<1>3. b * (q + 1) = (b * q) + b /\ b * (k + 1) = (b * k) + b
  BY <1>1
<1> HIDE DEF k, m
<1>4. ~(q + 1 <= k)
  BY <1>1, <1>2, <1>3, MulMono
<1>5. ~(k + 1 <= q)
  BY <1>1, <1>2, <1>3, MulMono
<1>6. k = q /\ m = r
  BY <1>1, <1>2, <1>4, <1>5
<1> QED  BY <1>6 DEF k, m

\* Whole milliseconds of a duration are those of its nanoseconds below a second.
LEMMA WholeMilliseconds ==
    ASSUME NEW d \in Nat
    PROVE  (d % Second) % Milli = 0 <=> d % Milli = 0
<1> DEFINE s == d \div Second
           r == d % Second
           q == r \div Milli
           t == r % Milli
<1>1. s \in Nat /\ r \in Nat /\ (Second * s) + r = d
  BY Units, DivMod
<1>2. q \in Nat /\ t \in Nat /\ t < Milli /\ (Milli * q) + t = r
  BY <1>1, Units, DivMod
<1> HIDE DEF s, r, q
<1>3. (Milli * ((Radix * s) + q)) + t = d /\ (Radix * s) + q \in Nat
  BY <1>1, <1>2, Units
<1> HIDE DEF t
<1>4. d % Milli = t
  <2> DEFINE k == (Radix * s) + q
  <2>1. (Milli * k) + t = d /\ k \in Nat
    BY <1>3
  <2> HIDE DEF k
  <2> QED  BY <1>2, <2>1, Units, DivModOf
<1> QED  BY <1>4 DEF t, r

-----------------------------------------------------------------------------
(* The text                                                                *)

LEMMA FormatDenotes ==
    ASSUME NEW s \in Nat, NEW n \in Nat
    PROVE  /\ FormatGcpDuration(s, n) \in Texts
           /\ Denoted(FormatGcpDuration(s, n)) = (s * Second) + n
<1> DEFINE text(u) == [seconds |-> s, unit |-> u, fraction |-> n \div u]
<1>1. ASSUME NEW u \in {Second, Milli, Micro, 1}, n % u = 0
      PROVE  text(u) \in Texts /\ Denoted(text(u)) = (s * Second) + n
  <2>1. u \in Nat /\ u > 0
    BY Units
  <2>2. n \div u \in Nat /\ u * (n \div u) = n
    BY <1>1, <2>1, DivMod
  <2>3. (n \div u) * u = n
    BY <2>1, <2>2
  <2>4. text(u) \in Texts
    BY <2>2 DEF Texts
  <2>5. Denoted(text(u)) = (s * Second) + ((n \div u) * u)
    BY DEF Denoted
  <2> QED  BY <2>3, <2>4, <2>5
<1>2. n % 1 = 0 /\ (n = 0 => n % Second = 0)
  BY Units
<1>3. PICK u \in {Second, Milli, Micro, 1} : n % u = 0 /\ FormatGcpDuration(s, n) = text(u)
  <2>1. CASE n = 0
    BY <1>2, <2>1 DEF FormatGcpDuration
  <2>2. CASE n # 0 /\ n % Milli = 0
    BY <2>2 DEF FormatGcpDuration
  <2>3. CASE n # 0 /\ n % Milli # 0 /\ n % Micro = 0
    BY <2>3 DEF FormatGcpDuration
  <2>4. CASE n # 0 /\ n % Milli # 0 /\ n % Micro # 0
    BY <1>2, <2>4 DEF FormatGcpDuration
  <2> QED  BY <2>1, <2>2, <2>3, <2>4
<1> QED  BY <1>1, <1>3

\* Whole milliseconds are left out from the limit on, and exact below it.
LEMMA IntegerLatency ==
    ASSUME NEW d \in Nat, (d % Second) % Milli = 0,
           NEW n \in Received(DurationMilliseconds(d))
    PROVE  IF d \div Milli >= LimitMs
           THEN GcpLatency(n) = None
           ELSE GcpLatency(n) \in Texts /\ Denoted(GcpLatency(n)) = d
<1> DEFINE m == d \div Milli
           t == FormatGcpDuration(m \div Radix, (m % Radix) * Milli)
<1>1. n = Integral(m)
  BY DEF Received, DurationMilliseconds, Integral
<1>2. m \in Nat /\ Milli * m = d
  <2>1. d % Milli = 0
    BY WholeMilliseconds
  <2>2. m \in Nat /\ (Milli * m) + (d % Milli) = d
    BY Units, DivMod
  <2> HIDE DEF m
  <2>3. Milli * m \in Nat
    BY <2>2, Units
  <2> QED  BY <2>1, <2>2, <2>3
<1>3. GcpLatency(n) = IF m >= LimitMs THEN None ELSE t
  BY <1>1 DEF GcpLatency, Integral
<1> HIDE DEF m
<1>4. t \in Texts /\ Denoted(t) = d
  <2> DEFINE q == m \div Radix
             r == m % Radix
  <2>1. q \in Nat /\ r \in Nat /\ (Radix * q) + r = m
    BY <1>2, Units, DivMod
  <2> HIDE DEF q, r
  <2>2. r * Milli \in Nat /\ (q * Second) + (r * Milli) = Milli * ((Radix * q) + r)
    BY <2>1, Units
  <2>3. FormatGcpDuration(q, r * Milli) \in Texts
        /\ Denoted(FormatGcpDuration(q, r * Milli)) = (q * Second) + (r * Milli)
    <3> DEFINE v == r * Milli
    <3> HIDE DEF v
    <3>1. FormatGcpDuration(q, v) \in Texts /\ Denoted(FormatGcpDuration(q, v)) = (q * Second) + v
      BY <2>1, <2>2, FormatDenotes DEF v
    <3> QED  BY <3>1 DEF v
  <2>4. t = FormatGcpDuration(q, r * Milli)
    BY DEF q, r
  <2> QED  BY <1>2, <2>1, <2>2, <2>3, <2>4
<1> QED  BY <1>3, <1>4 DEF m

\* A float is left out from the limit on, and otherwise written to the nanosecond.
LEMMA FloatLatency ==
    ASSUME NEW d \in Nat, (d % Second) % Milli # 0,
           NEW n \in Received(DurationMilliseconds(d))
    PROVE  \E g \in Reread(Rounded(AsSecs(d) * Radix, 1)) :
              IF g >= LimitMs * Grains
              THEN GcpLatency(n) = None
              ELSE GcpLatency(n) \in Texts /\ Denoted(GcpLatency(n)) = Written(g)
<1> DEFINE f == Rounded(AsSecs(d) * Radix, 1)
<1>1. PICK g \in Reread(f) : n = Fractional(g)
  BY DEF Received, DurationMilliseconds, Fractional
<1> DEFINE D == Written(g)
           t == FormatGcpDuration(D \div Second, D % Second)
<1>2. GcpLatency(n) = IF g >= LimitMs * Grains THEN None ELSE t
  BY <1>1 DEF GcpLatency, Fractional, Written
<1>3. D \in Nat
  BY WrittenIsNear
<1> HIDE DEF D
<1>4. t \in Texts /\ Denoted(t) = D
  <2> DEFINE q == D \div Second
             r == D % Second
  <2>1. q \in Nat /\ r \in Nat /\ (Second * q) + r = D
    BY <1>3, Units, DivMod
  <2> HIDE DEF q, r
  <2>2. (q * Second) + r = D
    BY <2>1, Units
  <2>3. FormatGcpDuration(q, r) \in Texts /\ Denoted(FormatGcpDuration(q, r)) = (q * Second) + r
    BY <2>1, FormatDenotes
  <2>4. t = FormatGcpDuration(q, r)
    BY DEF q, r
  <2> QED  BY <2>2, <2>3, <2>4
<1> QED  BY <1>2, <1>4 DEF D

-----------------------------------------------------------------------------
(* The two properties, of a latency and its duration                       *)

Exact(d, t) ==
    d < Precision \div 16 \/ d % Milli = 0 =>
        IF d \div Milli >= LimitMs
        THEN t = None
        ELSE t # None /\ Denoted(t) = d

Slack(d) == d \div (Precision \div 8) + 1

Close(d, t) ==
    IF t = None
    THEN d + Slack(d) >= LimitMs * Milli
    ELSE /\ d - Slack(d) <= Denoted(t)
         /\ Denoted(t) <= d + Slack(d)
         /\ Denoted(t) < LimitMs * Milli + Slack(d)

LEMMA SlackCovers ==
    ASSUME NEW d \in Nat
    PROVE  Slack(d) \in Nat /\ Slack(d) >= 1 /\ 8 * d < Precision * Slack(d)
<1> DEFINE w == Precision \div 8
           q == d \div w
           r == d % w
<1>1. w \in Nat /\ w > 0 /\ 8 * w <= Precision
  BY Units
<1> HIDE DEF w
<1>2. q \in Nat /\ r \in Nat /\ r < w /\ (w * q) + r = d
  BY <1>1, DivMod
<1>3. Slack(d) = q + 1
  BY DEF Slack, w
<1> HIDE DEF q, r
<1>4. d < w * (q + 1)
  BY <1>1, <1>2
<1>5. (8 * w) * (q + 1) <= Precision * (q + 1)
  BY <1>1, <1>2, Units
<1>6. (8 * w) * (q + 1) = 8 * (w * (q + 1))
  BY <1>1, <1>2
<1>7. w * (q + 1) \in Nat /\ Precision * (q + 1) \in Nat
  BY <1>1, <1>2, Units
<1>8. 8 * d < Precision * (q + 1)
  BY <1>4, <1>5, <1>6, <1>7
<1> QED  BY <1>2, <1>3, <1>8

\* A float is taken for beyond the limit only within 43 parts of it, and what is written
\* of one below the limit is at most 8 parts and the last rounding above it.
LEMMA LimitIsNear ==
    ASSUME NEW d \in Nat, (d % Second) % Milli # 0,
           NEW g \in Reread(Rounded(AsSecs(d) * Radix, 1))
    PROVE  /\ g >= LimitMs * Grains =>
                 (8 * Precision) * ((LimitMs * Milli) - d) <= 43 * d
           /\ g < LimitMs * Grains =>
                 /\ 43 * d < 8 * Precision => d <= LimitMs * Milli
                 /\ (16 * Precision) * (Written(g) - (LimitMs * Milli))
                        <= (8 * Precision) + (16 * (LimitMs * Milli))
<1> DEFINE h == Rounded(g, Radix)
           x == Milli * g
           y == d * Grains
           z == Second * h
           L == LimitMs * Milli
           top == L * Grains
           Q == 8 * Precision
<1>1. g \in Nat /\ Within(x, y, 43) /\ h \in Nat /\ Within(Radix * h, g, 8)
  BY ReceivedIsNear, SecondsAgainAreNear
<1> HIDE DEF h
<1>2. Within(z, x, 8)
  <2> DEFINE w == Radix * h
  <2>1. w \in Nat /\ Milli * w = z
    BY <1>1, Units
  <2> HIDE DEF w
  <2>2. Within(Milli * w, Milli * g, 8)
    BY <1>1, <2>1, Units, WithinScaled DEF w
  <2> QED  BY <2>1, <2>2
<1>3. /\ Q \in Nat /\ Q > 0
      /\ Q * (x - y) <= 43 * y /\ Q * (y - x) <= 43 * y
      /\ Q * (z - x) <= 8 * x
  BY <1>1, <1>2, Units DEF Within
<1>4. x \in Nat /\ y \in Nat /\ z \in Nat /\ L \in Nat /\ top \in Nat
  BY <1>1, Units
<1>5. /\ g >= LimitMs * Grains => x >= top
      /\ g < LimitMs * Grains => x < top
  <2>1. Milli * (LimitMs * Grains) = top
    BY Units
  <2> DEFINE m == LimitMs * Grains
  <2>2. m \in Nat
    BY Units
  <2> HIDE DEF m
  <2>3. m <= g => Milli * m <= Milli * g
    BY <1>1, <2>2, Units, MulMono
  <2>4. ~(m <= g) => ~(Milli * m <= Milli * g)
    BY <1>1, <2>2, Units, Cancel
  <2> QED  BY <1>1, <1>4, <2>1, <2>2, <2>3, <2>4 DEF m
<1>6. ASSUME g >= LimitMs * Grains
      PROVE  Q * (L - d) <= 43 * d
  <2>1. top - y <= x - y
    BY <1>4, <1>5, <1>6
  <2>2. Q * (top - y) <= Q * (x - y)
    <3> HIDE DEF top, x, y, Q
    <3> QED  BY <1>3, <1>4, <2>1, MulMono
  <2>3. Grains * (Q * (L - d)) = Q * (top - y) /\ Grains * (43 * d) = 43 * y
    <3> HIDE DEF L, Q
    <3> QED  BY <1>3, <1>4, Units
  <2>4. Grains * (Q * (L - d)) <= Grains * (43 * d)
    <3> HIDE DEF top, L, x, y, Q
    <3> QED  BY <1>3, <1>4, <2>2, <2>3
  <2> HIDE DEF L, Q
  <2>5. Q * (L - d) \in Int /\ 43 * d \in Int
    BY <1>3, <1>4
  <2> QED  BY <2>4, <2>5, Units, Cancel
<1>7. ASSUME g < LimitMs * Grains, 43 * d < Q
      PROVE  d <= L
  <2>1. 43 * y < Q * Grains
    <3>1. 43 * y = (43 * d) * Grains
      BY Units
    <3> HIDE DEF Q
    <3> QED  BY <1>3, <1>7, <3>1, Units
  <2>2. Q * (y - x) < Q * Grains
    <3> HIDE DEF x, y, Q
    <3> QED  BY <1>3, <1>4, <2>1, Units
  <2>3. y - x < Grains
    <3> HIDE DEF x, y, Q
    <3>1. ~(Grains <= y - x)
      BY <1>3, <1>4, <2>2, Units, MulMono
    <3> QED  BY <1>4, <3>1, Units
  <2>4. (d * Grains) - Grains < L * Grains
    <3>1. y < Grains + top
      BY <1>4, <1>5, <1>7, <2>3, Units
    <3> HIDE DEF L
    <3> QED  BY <1>4, <3>1, Units
  <2> HIDE DEF L
  <2>5. ~(L + 1 <= d)
    <3>1. L + 1 <= d => Grains * (L + 1) <= Grains * d
      BY <1>4, Units, MulMono
    <3>2. Grains * (L + 1) = (L * Grains) + Grains /\ Grains * d = d * Grains
      BY <1>4, Units
    <3> QED  BY <1>4, <2>4, <3>1, <3>2, Units
  <2> QED  BY <1>4, <2>5
<1>8. ASSUME g < LimitMs * Grains
      PROVE  (2 * Q) * (Written(g) - L) <= Q + (16 * L)
  <2> DEFINE D == Nearest(h * Second, Grains)
             v == Grains * D
  <2>1. Written(g) = D
    BY DEF Written, FromSecs, h
  <2>2. D \in Nat /\ 2 * (v - z) <= Grains
    <3>1. h * Second = z
      BY <1>1, Units
    <3> HIDE DEF z
    <3> QED  BY <1>4, <3>1, Units, NearestIsNear
  <2> HIDE DEF D
  <2>3. v \in Nat
    BY <2>2, Units
  <2>4. (2 * Q) * (v - top) <= (Q * Grains) + (16 * top)
    <3> HIDE DEF v, top, x, z, Q
    <3>1. Q * (2 * (v - z)) <= Q * Grains
      BY <1>3, <1>4, <2>2, <2>3, Units, MulMono
    <3>2. Q * (x - top) <= 0
      BY <1>3, <1>4, <1>5, <1>8
    <3>3. (2 * Q) * (v - top) = ((Q * (2 * (v - z))) + (2 * (Q * (z - x)))) + (2 * (Q * (x - top)))
      BY <1>3, <1>4, <2>3
    <3>4. 8 * x <= 8 * top
      BY <1>4, <1>5, <1>8
    <3> DEFINE a == Q * (2 * (v - z))
               b == Q * (z - x)
               c == Q * (x - top)
               m == Q * Grains
    <3>5. a \in Int /\ b \in Int /\ c \in Int /\ m \in Int
      BY <1>3, <1>4, <2>3, Units
    <3>6. a <= m /\ b <= 8 * x /\ c <= 0
      BY <1>3, <3>1, <3>2
    <3> HIDE DEF a, b, c, m
    <3>7. (a + (2 * b)) + (2 * c) <= m + (16 * top)
      BY <1>4, <3>4, <3>5, <3>6
    <3> QED  BY <3>3, <3>7 DEF a, b, c, m
  <2>5. /\ Grains * ((2 * Q) * (D - L)) = (2 * Q) * (v - top)
        /\ Grains * (Q + (16 * L)) = (Q * Grains) + (16 * top)
    <3> HIDE DEF L, Q
    <3> QED  BY <1>3, <1>4, <2>2, Units
  <2>6. (2 * Q) * (D - L) <= Q + (16 * L)
    <3> DEFINE e == (2 * Q) * (D - L)
               m == Q + (16 * L)
    <3>1. e \in Int /\ m \in Int
      <4> HIDE DEF L, Q
      <4> QED  BY <1>3, <1>4, <2>2
    <3>2. Grains * e <= Grains * m
      BY <2>4, <2>5
    <3> HIDE DEF e, m
    <3>3. e <= m
      BY <3>1, <3>2, Units, Cancel
    <3> QED  BY <3>3 DEF e, m
  <2> QED  BY <2>1, <2>6
<1>9. 2 * Q = 16 * Precision
  BY Units
<1> QED  BY <1>6, <1>7, <1>8, <1>9

\* The latency of a duration, however its number was read back.
IsLatency(d, t) == \E n \in Received(DurationMilliseconds(d)) : t = GcpLatency(n)

LEMMA LatencyIsText ==
    ASSUME NEW d \in Nat, NEW t, IsLatency(d, t)
    PROVE  t \in Texts \cup {None}
<1>1. PICK n \in Received(DurationMilliseconds(d)) : t = GcpLatency(n)
  BY DEF IsLatency
<1>2. CASE (d % Second) % Milli = 0
  BY <1>1, <1>2, IntegerLatency
<1>3. CASE (d % Second) % Milli # 0
  BY <1>1, <1>3, FloatLatency
<1> QED  BY <1>2, <1>3

LEMMA LatencyExact ==
    ASSUME NEW d \in Nat, NEW t, IsLatency(d, t)
    PROVE  Exact(d, t)
<1>1. PICK n \in Received(DurationMilliseconds(d)) : t = GcpLatency(n)
  BY DEF IsLatency
<1>2. CASE d % Milli = 0
  <2>1. (d % Second) % Milli = 0
    BY <1>2, WholeMilliseconds
  <2>2. IF d \div Milli >= LimitMs THEN t = None ELSE t \in Texts /\ Denoted(t) = d
    BY <1>1, <2>1, IntegerLatency
  <2> QED  BY <2>2, NoneAssumption DEF Exact
<1>3. CASE d % Milli # 0 /\ d < Precision \div 16
  <2> DEFINE L == LimitMs * Milli
             Q == 8 * Precision
  <2>1. (d % Second) % Milli # 0
    BY <1>3, WholeMilliseconds
  <2>2. PICK g \in Reread(Rounded(AsSecs(d) * Radix, 1)) :
              IF g >= LimitMs * Grains
              THEN t = None
              ELSE t \in Texts /\ Denoted(t) = Written(g)
    BY <1>1, <2>1, FloatLatency
  <2>3. 16 * d < Precision /\ L \in Nat /\ Q \in Nat /\ Q > 0
    BY <1>3, Units
  <2>4. d \div Milli >= LimitMs <=> d >= L
    <3>1. Milli * LimitMs = L
      BY Units
    <3> QED  BY <3>1, Units, DivAtLeast
  <2>5. d # L
    <3>1. L % Milli = 0
      <4> DEFINE r == 0
      <4>1. /\ Milli \in Nat /\ LimitMs \in Nat /\ r \in Nat /\ r < Milli
            /\ (Milli * LimitMs) + r = L
        BY Units
      <4> HIDE DEF r, L
      <4>2. ((Milli * LimitMs) + r) % Milli = r
        BY <4>1, DivModOf
      <4> QED  BY <4>1, <4>2 DEF r
    <3> QED  BY <1>3, <3>1
  <2>6. g \in Nat
    BY <2>1, ReceivedIsNear
  <2>7. LimitMs * Grains \in Nat
    BY Units
  <2>8. CASE g >= LimitMs * Grains
    <3>1. Q * (L - d) <= 43 * d
      BY <2>1, <2>8, LimitIsNear
    <3>2. 43 * d < Q
      BY <2>3, Units
    <3> HIDE DEF L, Q
    <3>3. Q * (L - d) < Q
      BY <2>3, <3>1, <3>2
    <3>4. ~(1 <= L - d)
      BY <2>3, <3>3, MulMono
    <3> QED  BY <2>2, <2>3, <2>4, <2>8, <3>4 DEF Exact
  <2>9. CASE g < LimitMs * Grains
    <3>1. 43 * d < Q
      BY <2>3, Units
    <3>2. d <= L
      BY <2>1, <2>9, <3>1, LimitIsNear
    <3>3. t \in Texts /\ Denoted(t) = Written(g)
      BY <2>2, <2>6, <2>7, <2>9
    <3>4. Written(g) = d
      <4> DEFINE D == Written(g)
      <4>1. D \in Nat
            /\ (16 * Precision) * (D - d) <= (8 * Precision) + (104 * d)
            /\ (16 * Precision) * (d - D) <= (8 * Precision) + (104 * d)
        BY <2>1, WrittenIsNear
      <4> HIDE DEF D
      <4>2. (8 * Precision) + (104 * d) < 16 * Precision
        BY <2>3, Units
      <4> DEFINE R == 16 * Precision
      <4>3. R \in Nat /\ R * (D - d) < R /\ R * (d - D) < R
        BY <2>3, <4>1, <4>2, Units
      <4> HIDE DEF R
      <4>4. ~(1 <= D - d) /\ ~(1 <= d - D)
        BY <4>1, <4>3, MulMono
      <4> QED  BY <4>1, <4>4 DEF D
    <3> HIDE DEF L, Q
    <3> QED  BY <2>3, <2>4, <2>5, <3>2, <3>3, <3>4, NoneAssumption DEF Exact
  <2> QED  BY <2>6, <2>7, <2>8, <2>9
<1> QED  BY <1>2, <1>3 DEF Exact

LEMMA LatencyClose ==
    ASSUME NEW d \in Nat, NEW t, IsLatency(d, t)
    PROVE  Close(d, t)
<1> DEFINE L == LimitMs * Milli
           S == Slack(d)
<1>1. PICK n \in Received(DurationMilliseconds(d)) : t = GcpLatency(n)
  BY DEF IsLatency
<1>2. S \in Nat /\ S >= 1 /\ 8 * d < Precision * S
  BY SlackCovers
<1>3. L \in Nat /\ Precision \in Nat /\ Precision > 0
  BY Units
<1>4. CASE (d % Second) % Milli = 0
  <2>1. IF d \div Milli >= LimitMs THEN t = None ELSE t \in Texts /\ Denoted(t) = d
    BY <1>1, <1>4, IntegerLatency
  <2>2. d \div Milli >= LimitMs <=> d >= L
    <3>1. Milli * LimitMs = L
      BY Units
    <3> QED  BY <3>1, Units, DivAtLeast
  <2> HIDE DEF L, S
  <2>3. IF d >= L THEN t = None ELSE t # None /\ Denoted(t) = d
    BY <2>1, <2>2, NoneAssumption
  <2>4. IF t = None
        THEN d + S >= L
        ELSE d - S <= Denoted(t) /\ Denoted(t) <= d + S /\ Denoted(t) < L + S
    BY <1>2, <1>3, <2>3
  <2> QED  BY <2>4 DEF Close, L, S
<1>5. CASE (d % Second) % Milli # 0
  <2>1. PICK g \in Reread(Rounded(AsSecs(d) * Radix, 1)) :
              IF g >= LimitMs * Grains
              THEN t = None
              ELSE t \in Texts /\ Denoted(t) = Written(g)
    BY <1>1, <1>5, FloatLatency
  <2>2. g \in Nat /\ LimitMs * Grains \in Nat
    BY <1>5, ReceivedIsNear, Units
  <2> DEFINE p == Precision * S
             D == Written(g)
  <2>3. p \in Nat /\ Precision <= p
    <3> HIDE DEF S
    <3> QED  BY <1>2, <1>3
  <2>4. CASE g >= LimitMs * Grains
    <3>1. (8 * Precision) * (L - d) <= 43 * d
      BY <1>5, <2>4, LimitIsNear
    <3> HIDE DEF L, S
    <3>2. 43 * d < 8 * p
      BY <1>2, <2>3
    <3>3. (8 * Precision) * S = 8 * p
      BY <1>2, <1>3
    <3>4. ~(S <= L - d)
      <4> DEFINE Q == 8 * Precision
      <4>1. Q \in Nat /\ Q * (L - d) <= 43 * d /\ Q * S = 8 * p
        BY <1>3, <3>1, <3>3
      <4> HIDE DEF Q, p
      <4>2. Q * (L - d) < Q * S
        BY <1>2, <1>3, <2>3, <3>2, <4>1
      <4> QED  BY <1>2, <1>3, <4>1, <4>2, MulMono
    <3>5. d + S >= L
      BY <1>2, <1>3, <3>4
    <3> QED  BY <2>1, <2>4, <3>5 DEF Close, L, S
  <2>5. CASE g < LimitMs * Grains
    <3>1. t # None /\ Denoted(t) = D
      BY <2>1, <2>2, <2>5, NoneAssumption
    <3>2. D \in Nat
          /\ (16 * Precision) * (D - d) <= (8 * Precision) + (104 * d)
          /\ (16 * Precision) * (d - D) <= (8 * Precision) + (104 * d)
      BY <1>5, WrittenIsNear
    <3>3. (16 * Precision) * (D - L) <= (8 * Precision) + (16 * L)
      BY <1>5, <2>5, LimitIsNear
    <3> HIDE DEF D, L, S
    <3> DEFINE R == 16 * Precision
    <3>4. R \in Nat /\ R * S = 16 * p /\ R * (S + 1) = (16 * p) + R
      BY <1>2, <1>3
    <3>5. (8 * Precision) + (104 * d) < (16 * p) + R
      BY <1>2, <1>3, <2>3
    <3>6. /\ R * (D - d) <= (8 * Precision) + (104 * d)
          /\ R * (d - D) <= (8 * Precision) + (104 * d)
          /\ R * (D - L) <= (8 * Precision) + (16 * L)
      BY <3>2, <3>3
    <3> HIDE DEF R, p
    <3>7. R * (D - d) < R * (S + 1) /\ R * (d - D) < R * (S + 1)
      BY <1>2, <1>3, <2>3, <3>2, <3>4, <3>5, <3>6
    <3>8. L <= d => R * (D - L) < R * S
      <4>1. ASSUME L <= d PROVE (8 * Precision) + (16 * L) < 16 * p
        BY <1>2, <1>3, <2>3, <4>1 DEF p
      <4> QED  BY <1>2, <1>3, <2>3, <3>2, <3>4, <3>6, <4>1
    <3>9. D - d <= S /\ d - D <= S
      <4>1. ~(S + 1 <= D - d) /\ ~(S + 1 <= d - D)
        BY <1>2, <3>2, <3>4, <3>7, MulMono
      <4> QED  BY <1>2, <3>2, <4>1
    <3>10. D < L + S
      <4>1. CASE d < L
        BY <1>2, <1>3, <3>2, <3>9, <4>1
      <4>2. CASE L <= d
        <5>1. ~(S <= D - L)
          BY <1>2, <1>3, <3>2, <3>4, <3>8, <4>2, MulMono
        <5> QED  BY <1>2, <1>3, <3>2, <5>1
      <4> QED  BY <1>3, <4>1, <4>2
    <3>11. d - S <= D /\ D <= d + S
      BY <1>2, <3>2, <3>9
    <3> QED  BY <3>1, <3>10, <3>11 DEF Close, L, S
  <2> QED  BY <2>2, <2>4, <2>5
<1> QED  BY <1>4, <1>5

-----------------------------------------------------------------------------
(* The inductive invariant                                                 *)

\* Until finish(), the start is the instant when the service was entered, and past.
StartIsKnown ==
    /\ stage \in {"arrived", "started"} => "finish" \notin failed
    /\ stage = "started" /\ clock # "custom" => started = called /\ called <= now

\* The latency of the line is one of its duration.
LatencyIsItsOwn == stage = "done" => IsLatency(duration, latency)

IInv == TypeOK /\ StartIsKnown /\ DurationIsElapsed /\ LatencyIsItsOwn

LEMMA Bounds ==
    Horizon \in Nat /\ Readings \subseteq Nat /\ 0..Horizon \subseteq Nat
BY UnitsAssumption

LEMMA InitInv == Init => IInv
BY Bounds, UnitsAssumption DEF Init, IInv, TypeOK, StartIsKnown, DurationIsElapsed, LatencyIsItsOwn

LEMMA PassStep == ASSUME IInv, Pass PROVE IInv'
<1>1. now' \in 0..Horizon /\ now' > now /\ now \in Nat
  BY Bounds DEF Pass, TypeOK, IInv
<1>2. stage \in {"arrived", "started"} /\ UNCHANGED <<clock, stage, started, called, duration, latency, failed>>
  BY DEF Pass, TypeOK, IInv
<1>3. TypeOK'
  BY <1>1, <1>2 DEF IInv, TypeOK
<1>4. StartIsKnown'
  BY <1>1, <1>2, Bounds DEF IInv, TypeOK, StartIsKnown
<1> QED  BY <1>2, <1>3, <1>4 DEF IInv, DurationIsElapsed, LatencyIsItsOwn

LEMMA StartStep == ASSUME IInv, Start PROVE IInv'
<1>1. /\ stage = "arrived" /\ stage' = "started" /\ called' = now
      /\ UNCHANGED <<clock, now, duration, latency>>
  BY DEF Start
<1>2. /\ failed' \in {failed, failed \cup {"start"}}
      /\ started' \in Readings \cup {now}
      /\ clock # "custom" => started' = now
  BY DEF Start, Read, Shown
<1>3. TypeOK'
  BY <1>1, <1>2, Bounds DEF IInv, TypeOK
<1>4. StartIsKnown'
  BY <1>1, <1>2, <1>3, Bounds DEF IInv, TypeOK, StartIsKnown
<1> QED  BY <1>1, <1>3, <1>4 DEF IInv, DurationIsElapsed, LatencyIsItsOwn

\* A clock that fails at the end shows the start again.
LEMMA FinishStep == ASSUME IInv, Finish PROVE IInv'
<1>1. /\ stage = "started" /\ stage' = "done" /\ UNCHANGED <<clock, now, started, called>>
      /\ "finish" \notin failed
  BY DEF Finish, IInv, StartIsKnown
<1>2. PICK value \in Readings \cup {now, started} :
              /\ Read("finish", value, started)
              /\ duration' = SaturatingSince(value, started)
  BY DEF Finish
<1>3. \/ value \in Shown /\ failed' = failed
      \/ value = started /\ failed' = failed \cup {"finish"}
  BY <1>2 DEF Read
<1>4. value \in Nat /\ started \in Nat /\ now \in Nat /\ called \in Nat
  BY Bounds DEF IInv, TypeOK
<1>5. duration' \in Nat
  BY <1>2, <1>4 DEF SaturatingSince
<1>6. IsLatency(duration', latency')
  BY DEF Finish, IsLatency
<1>7. TypeOK'
  <2>1. latency' \in Texts \cup {None}
    BY <1>5, <1>6, LatencyIsText
  <2>2. failed' \subseteq {"start", "finish"}
    BY <1>3 DEF IInv, TypeOK
  <2> QED  BY <1>1, <1>5, <2>1, <2>2 DEF IInv, TypeOK
<1>8. DurationIsElapsed'
  <2> SUFFICES ASSUME clock # "custom"
               PROVE  duration' = IF "finish" \in failed' THEN 0 ELSE now - called
    BY <1>1 DEF DurationIsElapsed
  <2>1. started = called /\ called <= now
    BY <1>1 DEF IInv, StartIsKnown
  <2>2. CASE value \in Shown /\ failed' = failed
    BY <1>1, <1>2, <1>4, <2>1, <2>2 DEF Shown, SaturatingSince
  <2>3. CASE value = started /\ failed' = failed \cup {"finish"}
    BY <1>2, <1>4, <2>1, <2>3 DEF SaturatingSince
  <2> QED  BY <1>3, <2>2, <2>3
<1> QED  BY <1>1, <1>6, <1>7, <1>8 DEF IInv, StartIsKnown, LatencyIsItsOwn

LEMMA SpecInv == Spec => []IInv
<1>1. Init => IInv
  BY InitInv
<1>2. IInv /\ [Next]_vars => IInv'
  <2> SUFFICES ASSUME IInv, [Next]_vars PROVE IInv'
    OBVIOUS
  <2>1. CASE UNCHANGED vars
    BY <2>1 DEF vars, IInv, TypeOK, StartIsKnown, DurationIsElapsed, LatencyIsItsOwn
  <2> QED  BY <2>1, PassStep, StartStep, FinishStep DEF Next, Done
<1> QED  BY <1>1, <1>2, PTL DEF Spec

-----------------------------------------------------------------------------
(* Theorems                                                                *)

\* A clock that tells the time or panics gives the time since inner.call() was
\* entered, or nothing when it panicked at the end.
THEOREM DurationHolds == Spec => []DurationIsElapsed
<1>1. IInv => DurationIsElapsed
  BY DEF IInv
<1> QED  BY <1>1, SpecInv, PTL

\* The readings are numbers, whatever a clock shows, and the latency is a text or left out.
THEOREM TypeCorrect == Spec => []TypeOK
<1>1. IInv => TypeOK
  BY DEF IInv
<1> QED  BY <1>1, SpecInv, PTL

\* Through as_secs_f64, the conversion to milliseconds, the JSON text, reading it back, the
\* conversion to seconds and try_from_secs_f64, a latency loses no nanosecond of a duration
\* that fits in the precision sixteen times over, or that is whole milliseconds; and
\* exactly those below the limit are written.
THEOREM LatencyIsLossless == Spec => []LatencyIsExact
<1>1. IInv => LatencyIsExact
  <2> SUFFICES ASSUME IInv, stage = "done" PROVE Exact(duration, latency)
    BY DEF LatencyIsExact, Exact
  <2> QED  BY LatencyExact DEF IInv, TypeOK, LatencyIsItsOwn
<1> QED  BY <1>1, SpecInv, PTL

\* Any other latency is off by at most eight parts in Precision of the duration, and a
\* nanosecond, and the limit is kept as nearly.
THEOREM LatencyKeepsThePrecision == Spec => []LatencyIsClose
<1>1. IInv => LatencyIsClose
  <2> SUFFICES ASSUME IInv, stage = "done" PROVE Close(duration, latency)
    BY DEF LatencyIsClose, Close, Slack
  <2> QED  BY LatencyClose DEF IInv, TypeOK, LatencyIsItsOwn
<1> QED  BY <1>1, SpecInv, PTL
=============================================================================
