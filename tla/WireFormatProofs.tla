-------------------------- MODULE WireFormatProofs --------------------------
(***************************************************************************)
(* Framing, for bytes and integers of any size and any names, ids and      *)
(* data: however the bytes arrive and wherever the connection ends, what   *)
(* is read is what was sent.                                               *)
(***************************************************************************)
EXTENDS WireFormat, SequenceTheorems, WellFoundedInduction, TLAPS

-----------------------------------------------------------------------------
(* Induction and recursion over Nat, with sets and functions in place of   *)
(* operators.                                                              *)

LEMMA Induction ==
  ASSUME NEW S, 0 \in S, \A n \in Nat : n \in S => n + 1 \in S
  PROVE  \A n \in Nat : n \in S
<1> DEFINE D == {n \in Nat : n \notin S}
<1> SUFFICES ASSUME D # {} PROVE FALSE
  OBVIOUS
<1>1. PICK x \in D : \A y \in D : <<y, x>> \notin OpToRel(<, Nat)
  <2>1. D \in SUBSET Nat
    OBVIOUS
  <2> HIDE DEF D
  <2> QED
    BY <2>1, NatLessThanWellFounded, WFMin, Zenon
<1>2. \A y \in D : ~(y < x)
  BY <1>1, Zenon DEF OpToRel
<1>3. x \in Nat /\ x # 0
  OBVIOUS
<1>4. x - 1 \in Nat /\ x - 1 < x /\ (x - 1) + 1 = x
  BY <1>3
<1>5. x - 1 \in S
  BY <1>2, <1>4
<1> QED
  BY <1>4, <1>5

\* The first n values of a function that is defined by recursion.
Begins(h, n, a, f) ==
  h[0] = a /\ \A i \in 0 .. n - 1 : h[i + 1] = f[i][h[i]]

LEMMA BeginsAlike ==
  ASSUME NEW a, NEW f, NEW n \in Nat, NEW m \in Nat, n <= m,
         NEW g, Begins(g, n, a, f), NEW h, Begins(h, m, a, f)
  PROVE  \A i \in 0 .. n : g[i] = h[i]
<1> DEFINE S == {i \in Nat : i <= n => g[i] = h[i]}
<1>1. 0 \in S
  BY DEF Begins
<1>2. ASSUME NEW i \in Nat, i \in S PROVE i + 1 \in S
  BY <1>2 DEF Begins
<1> HIDE DEF S
<1>3. \A i \in Nat : i \in S
  BY <1>1, <1>2, Induction
<1> QED
  BY <1>3 DEF S

\* f[n] takes the value at n to the next one.
Rule(f, T) == f \in [Nat -> [T -> T]]

Obeys(g, a, f) == g[0] = a /\ \A n \in Nat : g[n + 1] = f[n][g[n]]

LEMMA Recursion ==
  ASSUME NEW T, NEW a \in T, NEW f, Rule(f, T)
  PROVE  \E g \in [Nat -> T] : Obeys(g, a, f)
<1> USE DEF Rule
<1> DEFINE S == {n \in Nat : \E h \in [0 .. n -> T] : Begins(h, n, a, f)}
<1>1. 0 \in S
  <2>1. [i \in 0 .. 0 |-> a] \in [0 .. 0 -> T] /\ Begins([i \in 0 .. 0 |-> a], 0, a, f)
    BY DEF Begins
  <2> QED
    BY <2>1
<1>2. ASSUME NEW n \in Nat, n \in S PROVE n + 1 \in S
  <2>1. PICK h \in [0 .. n -> T] : Begins(h, n, a, f)
    BY <1>2
  <2> DEFINE k == [i \in 0 .. n + 1 |-> IF i = n + 1 THEN f[n][h[n]] ELSE h[i]]
  <2>2. k \in [0 .. n + 1 -> T]
    OBVIOUS
  <2>3. Begins(k, n + 1, a, f)
    BY <2>1 DEF Begins
  <2> QED
    BY <2>2, <2>3
<1> HIDE DEF S
<1>3. \A n \in Nat : n \in S
  BY <1>1, <1>2, Induction
<1> DEFINE part == [n \in Nat |-> CHOOSE h \in [0 .. n -> T] : Begins(h, n, a, f)]
           g    == [n \in Nat |-> part[n][n]]
<1>4. ASSUME NEW n \in Nat
      PROVE  part[n] \in [0 .. n -> T] /\ Begins(part[n], n, a, f)
  <2>1. \E h \in [0 .. n -> T] : Begins(h, n, a, f)
    BY <1>3 DEF S
  <2>2. part[n] = CHOOSE h \in [0 .. n -> T] : Begins(h, n, a, f)
    OBVIOUS
  <2> HIDE DEF part
  <2> QED
    BY <2>1, <2>2, Zenon
<1>5. \A n \in Nat : g[n] = part[n][n]
  OBVIOUS
<1>6. g \in [Nat -> T]
  <2> HIDE DEF part
  <2> QED
    BY <1>4
<1> HIDE DEF part, g
<1>7. g[0] = a
  BY <1>4, <1>5 DEF Begins
<1>8. ASSUME NEW n \in Nat
      PROVE  g[n + 1] = f[n][g[n]]
  <2>1. part[n + 1][n + 1] = f[n][part[n + 1][n]]
    BY <1>4 DEF Begins
  <2>2. part[n][n] = part[n + 1][n]
    <3>1. n + 1 \in Nat /\ n <= n + 1 /\ n \in 0 .. n
      OBVIOUS
    <3> QED
      BY <1>4, <3>1, BeginsAlike
  <2> QED
    BY <1>5, <2>1, <2>2
<1> QED
  BY <1>6, <1>7, <1>8 DEF Obeys

-----------------------------------------------------------------------------
(* Numbers and their digits.                                               *)

LEMMA Powers ==
  /\ Power[0] = 1
  /\ \A n \in Nat : Power[n] \in Nat /\ Power[n] > 0 /\ Power[n + 1] = Base * Power[n]
<1>1. Base \in Nat /\ Base > 1
  BY WireAssumption
<1> DEFINE f == [n \in Nat |-> [x \in Nat |-> Base * x]]
<1>2. f \in [Nat -> [Nat -> Nat]]
  BY <1>1
<1>3. \A n \in Nat, x \in Nat : f[n][x] = Base * x
  OBVIOUS
<1> HIDE DEF f
<1>4. PICK g \in [Nat -> Nat] : g[0] = 1 /\ \A n \in Nat : g[n + 1] = f[n][g[n]]
  <2>1. Rule(f, Nat) /\ 1 \in Nat
    BY <1>2 DEF Rule
  <2>2. \E g \in [Nat -> Nat] : Obeys(g, 1, f)
    BY <2>1, Recursion
  <2> QED
    BY <2>2 DEF Obeys
<1>5. g = [n \in Nat |-> IF n = 0 THEN 1 ELSE Base * g[n - 1]]
  <2>1. ASSUME NEW n \in Nat PROVE g[n] = IF n = 0 THEN 1 ELSE Base * g[n - 1]
    <3>1. CASE n = 0
      BY <1>4, <3>1
    <3>2. CASE n # 0
      <4>1. n - 1 \in Nat /\ (n - 1) + 1 = n
        BY <3>2
      <4> QED
        BY <1>3, <1>4, <3>2, <4>1
    <3> QED
      BY <3>1, <3>2
  <2> QED
    BY <2>1
<1>6. Power = [n \in Nat |-> IF n = 0 THEN 1 ELSE Base * Power[n - 1]]
  BY <1>5, Zenon DEF Power
<1>7. Power[0] = 1
  BY <1>6
<1>8. \A n \in Nat : Power[n + 1] = Base * Power[n]
  <2> SUFFICES ASSUME NEW n \in Nat PROVE Power[n + 1] = Base * Power[n]
    OBVIOUS
  <2>1. n + 1 \in Nat /\ n + 1 # 0 /\ (n + 1) - 1 = n
    OBVIOUS
  <2> QED
    BY <1>6, <2>1
<1> DEFINE S == {n \in Nat : Power[n] \in Nat /\ Power[n] > 0}
<1>9. 0 \in S
  BY <1>7
<1>10. ASSUME NEW n \in Nat, n \in S PROVE n + 1 \in S
  <2>1. Power[n] \in Nat /\ Power[n] > 0 /\ Power[n + 1] = Base * Power[n]
    BY <1>8, <1>10
  <2>2. \A p \in Nat : p > 0 => Base * p \in Nat /\ Base * p > 0
    BY <1>1
  <2> QED
    BY <2>1, <2>2
<1> HIDE DEF S
<1>11. \A n \in Nat : n \in S
  BY <1>9, <1>10, Induction
<1> QED
  BY <1>7, <1>8, <1>11 DEF S

LEMMA PowerType ==
  ASSUME NEW n \in Nat
  PROVE  Power[n] \in Nat /\ Power[n] \in Int /\ Power[n] > 0
<1>1. Power[n] \in Nat /\ Power[n] > 0
  BY Powers
<1> QED
  BY <1>1

\* The digits add up to a number, one after the other.
LEMMA Digits ==
  ASSUME NEW b \in Seq(Bytes)
  PROVE  \E g : /\ g \in [0 .. Len(b) -> Int] /\ g[0] = 0 /\ Unsigned(b) = g[Len(b)]
                /\ \A i \in 1 .. Len(b) : g[i] = g[i - 1] + b[i] * Power[i - 1]
<1>1. Len(b) \in Nat /\ \A i \in 1 .. Len(b) : b[i] \in Int
  BY WireAssumption DEF Bytes
<1> DEFINE d(n) == IF n + 1 \in 1 .. Len(b) THEN b[n + 1] * Power[n] ELSE 0
           f == [n \in Nat |-> [x \in Int |-> x + d(n)]]
<1>2. \A n \in Nat : d(n) \in Int
  <2>1. \A n \in Nat : Power[n] \in Int
    BY PowerType
  <2> QED
    BY <1>1, <2>1
<1>3. f \in [Nat -> [Int -> Int]]
  <2> HIDE DEF d
  <2> QED
    BY <1>2
<1>4. \A n \in Nat, x \in Int : f[n][x] = x + d(n)
  OBVIOUS
<1>5. PICK h \in [Nat -> Int] : h[0] = 0 /\ \A n \in Nat : h[n + 1] = f[n][h[n]]
  <2> HIDE DEF f
  <2>1. Rule(f, Int)
    BY <1>3, Zenon DEF Rule
  <2>2. 0 \in Int
    OBVIOUS
  <2>3. \E h \in [Nat -> Int] : Obeys(h, 0, f)
    BY <2>1, <2>2, Recursion
  <2> QED
    BY <2>3 DEF Obeys
<1> HIDE DEF f
<1> DEFINE g == [i \in 0 .. Len(b) |-> h[i]]
<1>6. ASSUME NEW i \in 1 .. Len(b) PROVE h[i] = h[i - 1] + b[i] * Power[i - 1]
  <2>1. i - 1 \in Nat /\ (i - 1) + 1 = i
    BY <1>1
  <2>2. d(i - 1) = b[i] * Power[i - 1]
    BY <2>1
  <2> HIDE DEF d
  <2> QED
    BY <1>5, <1>4, <2>1, <2>2
<1>7. g = [i \in 0 .. Len(b) |-> IF i = 0 THEN 0 ELSE g[i - 1] + b[i] * Power[i - 1]]
  <2>1. ASSUME NEW i \in 0 .. Len(b)
        PROVE  g[i] = IF i = 0 THEN 0 ELSE g[i - 1] + b[i] * Power[i - 1]
    <3>1. CASE i = 0
      BY <1>5, <3>1
    <3>2. CASE i # 0
      <4>1. i \in 1 .. Len(b) /\ i - 1 \in 0 .. Len(b)
        BY <1>1, <3>2
      <4> QED
        BY <1>6, <3>2, <4>1
    <3> QED
      BY <3>1, <3>2
  <2> QED
    BY <2>1
<1> HIDE DEF g
<1> DEFINE value == CHOOSE v : v = [i \in 0 .. Len(b) |->
                                     IF i = 0 THEN 0 ELSE v[i - 1] + b[i] * Power[i - 1]]
<1>8. value = [i \in 0 .. Len(b) |-> IF i = 0 THEN 0 ELSE value[i - 1] + b[i] * Power[i - 1]]
  BY <1>7, Zenon
<1>9. Unsigned(b) = value[Len(b)]
  BY Zenon DEF Unsigned
<1> HIDE DEF value
<1>10. value[0] = 0 /\ \A i \in 1 .. Len(b) : value[i] = value[i - 1] + b[i] * Power[i - 1]
  <2>1. value[0] = 0
    BY <1>1, <1>8
  <2>2. ASSUME NEW i \in 1 .. Len(b) PROVE value[i] = value[i - 1] + b[i] * Power[i - 1]
    <3>1. i \in 0 .. Len(b) /\ i # 0
      BY <1>1
    <3> QED
      BY <1>8, <3>1
  <2> QED
    BY <2>1, <2>2
<1> DEFINE S == {i \in Nat : i <= Len(b) => value[i] \in Int}
<1>11. 0 \in S
  BY <1>10
<1>12. ASSUME NEW i \in Nat, i \in S PROVE i + 1 \in S
  <2> SUFFICES ASSUME i + 1 <= Len(b) PROVE value[i + 1] \in Int
    OBVIOUS
  <2>1. i + 1 \in 1 .. Len(b) /\ (i + 1) - 1 = i /\ value[i] \in Int
    BY <1>1, <1>12
  <2>2. value[i + 1] = value[i] + b[i + 1] * Power[i]
    BY <1>10, <2>1
  <2>3. b[i + 1] \in Int /\ Power[i] \in Int
    <3>1. \A n \in Nat : Power[n] \in Int
      BY PowerType
    <3> QED
      BY <1>1, <2>1, <3>1
  <2>4. b[i + 1] * Power[i] \in Int
    BY <2>3
  <2> QED
    BY <2>1, <2>2, <2>4
<1> HIDE DEF S
<1>13. \A i \in Nat : i \in S
  BY <1>11, <1>12, Induction
<1>14. value \in [0 .. Len(b) -> Int]
  <2>1. \A i \in 0 .. Len(b) : value[i] \in Int
    BY <1>1, <1>13 DEF S
  <2>2. value = [i \in 0 .. Len(b) |-> value[i]]
    BY <1>8
  <2> QED
    BY <2>1, <2>2
<1> QED
  BY <1>9, <1>10, <1>14

LEMMA DivisionParts ==
  ASSUME NEW v \in Int, NEW p \in Int, p > 0, NEW q \in Int, q = v \div p,
         NEW r \in Int, r = v % p
  PROVE  v = q * p + r /\ 0 <= r /\ r < p
OBVIOUS

LEMMA Remainder ==
  ASSUME NEW v \in Int, NEW p \in Int, p > 0, NEW q \in Int, NEW r \in Int,
         0 <= r, r < p, v = p * q + r
  PROVE  v % p = r
OBVIOUS

\* Another digit.
LEMMA DigitAdded ==
  ASSUME NEW v \in Int, NEW p \in Int, p > 0, NEW base \in Int, base > 1
  PROVE  /\ (v \div p) % base \in 0 .. base - 1
         /\ (v % p) + ((v \div p) % base) * p = v % (base * p)
<1> DEFINE q == v \div p
           r == v % p
           q2 == q \div base
           d == q % base
<1>1. q \in Int /\ r \in Int
  OBVIOUS
<1>2. v = q * p + r /\ 0 <= r /\ r < p
  BY <1>1, DivisionParts
<1> HIDE DEF q, r
<1>3. q2 \in Int /\ d \in Int
  BY <1>1
<1>4. q = q2 * base + d /\ 0 <= d /\ d < base
  BY <1>1, <1>3, DivisionParts
<1> HIDE DEF q2, d
<1>5. v = (base * p) * q2 + (r + d * p)
  BY <1>1, <1>2, <1>3, <1>4
<1>6. d * p \in Int /\ 0 <= d * p /\ d * p <= (base - 1) * p /\ (base - 1) * p = base * p - p
  BY <1>3, <1>4
<1>7. /\ base * p \in Int /\ base * p > 0
      /\ r + d * p \in Int /\ 0 <= r + d * p /\ r + d * p < base * p
  BY <1>1, <1>2, <1>6
<1>8. v % (base * p) = r + d * p
  <2> DEFINE m == base * p
             s == r + d * p
  <2>1. m \in Int /\ m > 0 /\ s \in Int /\ 0 <= s /\ s < m /\ v = m * q2 + s
    BY <1>5, <1>7
  <2> HIDE DEF m, s
  <2>2. v % m = s
    BY <1>3, <2>1, Remainder
  <2> QED
    BY <2>2 DEF m, s
<1> QED
  BY <1>1, <1>3, <1>4, <1>8 DEF q, r, d

\* What is packed into n bytes is read back, up to what n bytes can hold.
LEMMA Unpacked ==
  ASSUME NEW v \in Int, NEW n \in Nat
  PROVE  /\ Pack(v, n) \in Seq(Bytes) /\ Len(Pack(v, n)) = n
         /\ Unsigned(Pack(v, n)) = v % Power[n]
<1> DEFINE b == Pack(v, n)
<1>1. Base \in Int /\ Base > 1
  BY WireAssumption
<1>2. \A i \in 1 .. n : /\ i - 1 \in Nat
                        /\ b[i] = (v \div Power[i - 1]) % Base
                        /\ b[i] \in Bytes /\ b[i] \in Int
  <2> SUFFICES ASSUME NEW i \in 1 .. n
               PROVE  i - 1 \in Nat /\ b[i] = (v \div Power[i - 1]) % Base /\ b[i] \in Bytes
                      /\ b[i] \in Int
    OBVIOUS
  <2>1. i - 1 \in Nat
    OBVIOUS
  <2>2. b[i] = (v \div Power[i - 1]) % Base
    BY DEF Pack
  <2>3. Power[i - 1] \in Int /\ Power[i - 1] > 0
    BY <2>1, PowerType
  <2>4. (v \div Power[i - 1]) % Base \in 0 .. Base - 1
    BY <1>1, <2>3, DigitAdded
  <2> QED
    BY <1>1, <2>1, <2>2, <2>4 DEF Bytes
<1>3. b \in [1 .. n -> Bytes]
  <2>1. b = [i \in 1 .. n |-> b[i]]
    BY DEF Pack
  <2> HIDE DEF b
  <2> QED
    BY <1>2, <2>1
<1>4. b \in Seq(Bytes) /\ Len(b) = n
  BY <1>3
<1> HIDE DEF b
<1>5. PICK g \in [0 .. n -> Int] :
        /\ g[0] = 0 /\ Unsigned(b) = g[n]
        /\ \A i \in 1 .. n : g[i] = g[i - 1] + b[i] * Power[i - 1]
  BY <1>4, Digits
<1> DEFINE S == {i \in Nat : i <= n => g[i] = v % Power[i]}
<1>6. 0 \in S
  BY <1>5, Powers
<1>7. ASSUME NEW i \in Nat, i \in S PROVE i + 1 \in S
  <2> SUFFICES ASSUME i + 1 <= n PROVE g[i + 1] = v % Power[i + 1]
    OBVIOUS
  <2>1. i + 1 \in 1 .. n /\ (i + 1) - 1 = i /\ g[i] = v % Power[i]
    BY <1>7
  <2>2. g[i + 1] = (v % Power[i]) + ((v \div Power[i]) % Base) * Power[i]
    BY <1>2, <1>5, <2>1
  <2>3. Power[i] \in Int /\ Power[i] > 0
    BY PowerType
  <2>4. (v % Power[i]) + ((v \div Power[i]) % Base) * Power[i] = v % (Base * Power[i])
    BY <1>1, <2>3, DigitAdded
  <2>5. Power[i + 1] = Base * Power[i]
    BY Powers
  <2> QED
    BY <2>2, <2>4, <2>5
<1> HIDE DEF S
<1>8. \A i \in Nat : i \in S
  BY <1>6, <1>7, Induction
<1>9. g[n] = v % Power[n]
  BY <1>8 DEF S
<1> QED
  BY <1>4, <1>5, <1>9 DEF b

LEMMA UnsignedBack ==
  ASSUME NEW n \in Nat, NEW v \in 0 .. Power[n] - 1
  PROVE  Unsigned(Pack(v, n)) = v
<1>1. Power[n] \in Int /\ Power[n] > 0
  BY PowerType
<1>2. v \in Int /\ 0 \in Int /\ 0 <= v /\ v < Power[n] /\ v = Power[n] * 0 + v
  BY <1>1
<1>3. v % Power[n] = v
  BY <1>1, <1>2, Remainder
<1> QED
  BY <1>2, <1>3, Unpacked

\* A length that does not read as a negative number reads as itself, and only the
\* largest number reads as the marker.
LEMMA SignedBack ==
  ASSUME NEW n \in Nat, NEW v \in Nat, v < Power[n] - 1
  PROVE  /\ Signed(Pack(v, n)) >= 0 => Signed(Pack(v, n)) = v
         /\ Signed(Pack(v, n)) # -1
<1>1. Power[n] \in Int /\ Power[n] > 0
  BY PowerType
<1>2. v \in 0 .. Power[n] - 1 /\ v \in Int
  BY <1>1
<1>3. Unsigned(Pack(v, n)) = v /\ Len(Pack(v, n)) = n
  BY <1>2, UnsignedBack, Unpacked
<1>4. Signed(Pack(v, n)) = IF 2 * v < Power[n] THEN v ELSE v - Power[n]
  BY <1>3 DEF Signed
<1> QED
  BY <1>1, <1>4

LEMMA PowerOfSome ==
  ASSUME NEW n \in Nat \ {0}
  PROVE  Power[n] \in Int /\ Power[n] >= 2
<1>1. n - 1 \in Nat /\ (n - 1) + 1 = n
  OBVIOUS
<1>2. Power[n - 1] \in Nat /\ Power[n - 1] > 0
  BY <1>1, PowerType
<1>3. Power[n] = Base * Power[n - 1]
  BY <1>1, Powers
<1>4. \A p \in Nat : p > 0 => Base * p \in Int /\ Base * p >= 2
  BY WireAssumption
<1> QED
  BY <1>2, <1>3, <1>4

LEMMA MarkerBack ==
  ASSUME NEW n \in Nat \ {0}
  PROVE  Signed(Pack(-1, n)) = -1
<1>1. Power[n] \in Int /\ Power[n] >= 2
  BY PowerOfSome
<1>2. (-1) % Power[n] = Power[n] - 1
  <2> DEFINE p == Power[n]
  <2>1. /\ -1 \in Int /\ p \in Int /\ p > 0 /\ p - 1 \in Int /\ 0 <= p - 1 /\ p - 1 < p
        /\ -1 = p * (-1) + (p - 1)
    BY <1>1
  <2> HIDE DEF p
  <2>2. (-1) % p = p - 1
    BY <2>1, Remainder
  <2> QED
    BY <2>2 DEF p
<1>3. -1 \in Int /\ n \in Nat
  OBVIOUS
<1>4. Unsigned(Pack(-1, n)) = Power[n] - 1 /\ Len(Pack(-1, n)) = n
  BY <1>2, <1>3, Unpacked
<1> QED
  BY <1>1, <1>4 DEF Signed

LEMMA MaxOf ==
  ASSUME NEW n \in Nat, NEW S \in SUBSET (0 .. n), S # {}
  PROVE  Max(S) \in S
<1> DEFINE D == {k \in Nat : n - k \in S}
<1>1. D \in SUBSET Nat /\ D # {}
  <2>1. PICK s \in S : TRUE
    OBVIOUS
  <2>2. n - s \in Nat /\ n - (n - s) = s
    OBVIOUS
  <2> QED
    BY <2>2
<1>2. PICK x \in D : \A y \in D : <<y, x>> \notin OpToRel(<, Nat)
  <2> HIDE DEF D
  <2> QED
    BY <1>1, NatLessThanWellFounded, WFMin, Zenon
<1>3. \A y \in D : ~(y < x)
  BY <1>2, Zenon DEF OpToRel
<1>4. n - x \in S /\ \A s \in S : n - x >= s
  <2> SUFFICES ASSUME NEW s \in S PROVE n - x >= s
    BY <1>2
  <2>1. n - s \in Nat /\ n - (n - s) = s
    OBVIOUS
  <2>2. n - s \in D
    BY <2>1
  <2> QED
    BY <1>3, <2>1, <2>2
<1> QED
  BY <1>4 DEF Max

LEMMA StripType ==
  ASSUME NEW b \in Seq(Bytes)
  PROVE  Strip(b) \in Seq(Bytes)
<1> DEFINE S == {0} \cup {i \in DOMAIN b : b[i] # 0}
<1>1. Len(b) \in Nat /\ DOMAIN b = 1 .. Len(b)
  OBVIOUS
<1>2. S \in SUBSET (0 .. Len(b)) /\ S # {}
  BY <1>1
<1>3. Max(S) \in 0 .. Len(b)
  <2> HIDE DEF S
  <2> QED
    BY <1>1, <1>2, MaxOf
<1>4. SubSeq(b, 1, Max(S)) \in Seq(Bytes)
  <2> HIDE DEF S
  <2> QED
    BY <1>1, <1>3
<1> QED
  BY <1>4 DEF Strip

LEMMA StripNothing == Strip(<<>>) = <<>>
<1> DEFINE b == <<>>
           S == {0} \cup {i \in DOMAIN b : b[i] # 0}
<1>1. S = {0}
  OBVIOUS
<1>2. Max(S) = 0
  BY <1>1 DEF Max
<1>3. Strip(b) = SubSeq(b, 1, 0)
  BY <1>2 DEF Strip
<1> QED
  BY <1>3

-----------------------------------------------------------------------------
(* A message is four fields, each read in a step of its own.               *)

StepsOf(m) == {"first", m.format, "size", "data"}

Field(m, f) ==
  CASE f = "first" -> IF m.format = "name" THEN Pack(Len(m.name), IntBytes)
                                           ELSE Pack(-1, IntBytes)
    [] f = "name"  -> m.name
    [] f = "id"    -> Pack(m.id, IdBytes)
    [] f = "size"  -> Pack(Len(m.data), IntBytes)
    [] f = "data"  -> m.data

\* How many bytes of the message come before the field.
Begin(m, f) ==
  CASE f = "first"  -> 0
    [] f = m.format -> IntBytes
    [] f = "size"   -> IntBytes + Len(Field(m, m.format))
    [] f = "data"   -> IntBytes + Len(Field(m, m.format)) + IntBytes

LEMMA MessageParts ==
  ASSUME NEW m \in Messages
  PROVE  /\ m.format \in {"name", "id"}
         /\ m.name \in Seq(Bytes) /\ Len(m.name) \in Nat /\ Len(m.name) < Power[IntBytes] - 1
         /\ m.id \in 0 .. Power[IdBytes] - 1
         /\ m.data \in Seq(Bytes) /\ Len(m.data) \in 0 .. Power[IntBytes] - 1
         /\ m.format = "id" => m.name = <<>>
         /\ m.format = "name" => m.id = 0
         /\ m = [format |-> m.format, name |-> m.name, id |-> m.id, data |-> m.data]
<1>1. /\ IntBytes \in Nat \ {0} /\ IdBytes \in Nat
      /\ Ids \subseteq 0 .. Power[IdBytes] - 1
      /\ \A n \in Names : n \in Seq(Bytes) /\ Len(n) < Power[IntBytes] - 1
      /\ \A d \in Payloads : d \in Seq(Bytes) /\ Len(d) < Power[IntBytes]
  BY WireAssumption, Zenon
<1>2. Power[IntBytes] \in Int /\ Power[IntBytes] >= 2 /\ Power[IdBytes] \in Int /\ Power[IdBytes] > 0
  BY <1>1, PowerType, PowerOfSome
<1>3. CASE \E n \in Names, d \in Payloads : m = Named(n, d)
  <2>1. PICK n \in Names, d \in Payloads : m = Named(n, d)
    BY <1>3
  <2>2. m.format = "name" /\ m.name = n /\ m.id = 0 /\ m.data = d
    BY <2>1 DEF Named
  <2>3. /\ n \in Seq(Bytes) /\ Len(n) < Power[IntBytes] - 1
        /\ d \in Seq(Bytes) /\ Len(d) < Power[IntBytes]
    BY <1>1
  <2> QED
    BY <1>2, <2>1, <2>2, <2>3 DEF Named
<1>4. CASE \E i \in Ids, d \in Payloads : m = ById(i, d)
  <2>1. PICK i \in Ids, d \in Payloads : m = ById(i, d)
    BY <1>4
  <2>2. m.format = "id" /\ m.name = <<>> /\ m.id = i /\ m.data = d
    BY <2>1 DEF ById
  <2>3. i \in 0 .. Power[IdBytes] - 1 /\ d \in Seq(Bytes) /\ Len(d) < Power[IntBytes]
    BY <1>1
  <2>4. <<>> \in Seq(Bytes) /\ Len(<<>>) = 0
    OBVIOUS
  <2> QED
    BY <1>2, <2>1, <2>2, <2>3, <2>4 DEF ById
<1> QED
  BY <1>3, <1>4 DEF Messages

LEMMA FieldParts ==
  ASSUME NEW m \in Messages
  PROVE  /\ \A f \in StepsOf(m) : Field(m, f) \in Seq(Bytes)
         /\ Len(Field(m, "first")) = IntBytes /\ Len(Field(m, "size")) = IntBytes
         /\ Field(m, "data") = m.data
         /\ m.format = "name" => Field(m, m.format) = m.name
         /\ m.format = "id" => /\ Field(m, m.format) = Pack(m.id, IdBytes)
                               /\ Len(Field(m, m.format)) = IdBytes
<1>1. IntBytes \in Nat /\ IdBytes \in Nat
  BY WireAssumption
<1>2. \A v \in Int, n \in Nat : Pack(v, n) \in Seq(Bytes) /\ Len(Pack(v, n)) = n
  BY Unpacked
<1>3. Len(m.name) \in Int /\ Len(m.data) \in Int /\ -1 \in Int /\ m.id \in Int
  <2>1. IdBytes \in Nat => Power[IdBytes] \in Int
    BY PowerType
  <2> QED
    BY <1>1, <2>1, MessageParts
<1>4. m.format \in {"name", "id"} /\ m.name \in Seq(Bytes) /\ m.data \in Seq(Bytes)
  BY MessageParts
<1>5. /\ Field(m, "first") \in Seq(Bytes) /\ Len(Field(m, "first")) = IntBytes
      /\ Field(m, "size") \in Seq(Bytes) /\ Len(Field(m, "size")) = IntBytes
      /\ Field(m, "id") = Pack(m.id, IdBytes)
      /\ Field(m, "id") \in Seq(Bytes) /\ Len(Field(m, "id")) = IdBytes
      /\ Field(m, "name") = m.name /\ Field(m, "data") = m.data
  BY <1>1, <1>2, <1>3, <1>4 DEF Field
<1> QED
  BY <1>4, <1>5 DEF StepsOf

\* s is a, b, c and d, one after the other.
Joined(s, a, b, c, d) ==
  /\ Len(s) = Len(a) + Len(b) + Len(c) + Len(d)
  /\ \A i \in 1 .. Len(a) : s[i] = a[i]
  /\ \A i \in 1 .. Len(b) : s[Len(a) + i] = b[i]
  /\ \A i \in 1 .. Len(c) : s[Len(a) + Len(b) + i] = c[i]
  /\ \A i \in 1 .. Len(d) : s[Len(a) + Len(b) + Len(c) + i] = d[i]

LEMMA FourParts ==
  ASSUME NEW S, NEW a \in Seq(S), NEW b \in Seq(S), NEW c \in Seq(S), NEW d \in Seq(S)
  PROVE  a \o b \o c \o d \in Seq(S) /\ Joined(a \o b \o c \o d, a, b, c, d)
<1>1. /\ a \o b \in Seq(S) /\ Len(a \o b) = Len(a) + Len(b)
      /\ \A i \in 1 .. Len(a) : (a \o b)[i] = a[i]
      /\ \A i \in 1 .. Len(b) : (a \o b)[Len(a) + i] = b[i]
  OBVIOUS
<1> DEFINE ab == a \o b
<1> HIDE DEF ab
<1>2. /\ ab \o c \in Seq(S) /\ Len(ab \o c) = Len(ab) + Len(c)
      /\ \A i \in 1 .. Len(ab) : (ab \o c)[i] = ab[i]
      /\ \A i \in 1 .. Len(c) : (ab \o c)[Len(ab) + i] = c[i]
  BY <1>1 DEF ab
<1> DEFINE abc == ab \o c
<1>3. abc \in Seq(S)
  BY <1>2
<1> HIDE DEF abc
<1>4. /\ abc \o d \in Seq(S) /\ Len(abc \o d) = Len(abc) + Len(d)
      /\ \A i \in 1 .. Len(abc) : (abc \o d)[i] = abc[i]
      /\ \A i \in 1 .. Len(d) : (abc \o d)[Len(abc) + i] = d[i]
  BY <1>3
<1>5. Len(a) \in Nat /\ Len(b) \in Nat /\ Len(c) \in Nat /\ Len(d) \in Nat
  OBVIOUS
<1>6. abc \o d = a \o b \o c \o d
  BY DEF abc, ab
<1>7. Len(ab) = Len(a) + Len(b) /\ Len(abc) = Len(a) + Len(b) + Len(c)
  BY <1>1, <1>2 DEF abc, ab
<1>8. /\ \A i \in 1 .. Len(a) : ab[i] = a[i]
      /\ \A i \in 1 .. Len(b) : ab[Len(a) + i] = b[i]
      /\ \A i \in 1 .. Len(ab) : abc[i] = ab[i]
      /\ \A i \in 1 .. Len(c) : abc[Len(ab) + i] = c[i]
  BY <1>1, <1>2, Zenon DEF abc, ab
<1>9. ASSUME NEW i \in 1 .. Len(a) PROVE (abc \o d)[i] = a[i]
  BY <1>4, <1>5, <1>7, <1>8
<1>10. ASSUME NEW i \in 1 .. Len(b) PROVE (abc \o d)[Len(a) + i] = b[i]
  <2>1. Len(a) + i \in 1 .. Len(ab) /\ Len(a) + i \in 1 .. Len(abc)
    BY <1>5, <1>7
  <2> QED
    BY <1>4, <1>8, <2>1
<1>11. ASSUME NEW i \in 1 .. Len(c) PROVE (abc \o d)[Len(a) + Len(b) + i] = c[i]
  <2>1. Len(ab) + i \in 1 .. Len(abc) /\ Len(ab) + i = Len(a) + Len(b) + i
    BY <1>5, <1>7
  <2> QED
    BY <1>4, <1>8, <2>1
<1>12. ASSUME NEW i \in 1 .. Len(d) PROVE (abc \o d)[Len(a) + Len(b) + Len(c) + i] = d[i]
  BY <1>4, <1>7
<1> QED
  <2>1. Len(abc \o d) = Len(a) + Len(b) + Len(c) + Len(d)
    BY <1>4, <1>7
  <2> HIDE DEF abc
  <2>2. Joined(abc \o d, a, b, c, d)
    BY <1>9, <1>10, <1>11, <1>12, <2>1 DEF Joined
  <2> QED
    BY <1>4, <1>6, <2>2, Zenon

\* Where each field is in the bytes of the message, and what follows it.
LEMMA FieldPlace ==
  ASSUME NEW m \in Messages
  PROVE  /\ Serialize(m) \in Seq(Bytes)
         /\ Begin(m, "first") = 0
         /\ Begin(m, m.format) = IntBytes
         /\ Begin(m, "size") = IntBytes + Len(Field(m, m.format))
         /\ Begin(m, "data") = IntBytes + Len(Field(m, m.format)) + IntBytes
         /\ Len(Serialize(m)) = Begin(m, "data") + Len(m.data)
         /\ \A f \in StepsOf(m) :
              /\ Begin(m, f) \in Nat /\ Len(Field(m, f)) \in Nat
              /\ Begin(m, f) + Len(Field(m, f)) <= Len(Serialize(m))
              /\ \A i \in 1 .. Len(Field(m, f)) : Serialize(m)[Begin(m, f) + i] = Field(m, f)[i]
<1> DEFINE a == Field(m, "first")
           b == Field(m, m.format)
           c == Field(m, "size")
           d == Field(m, "data")
<1>1. /\ a \in Seq(Bytes) /\ b \in Seq(Bytes) /\ c \in Seq(Bytes) /\ d \in Seq(Bytes)
      /\ Len(a) = IntBytes /\ Len(c) = IntBytes /\ d = m.data
  BY FieldParts DEF StepsOf
<1>2. m.format \in {"name", "id"} /\ IntBytes \in Nat
  BY MessageParts, WireAssumption
<1>3. Serialize(m) = a \o b \o c \o d
  BY <1>2 DEF Serialize, Field
<1>4. /\ Begin(m, "first") = 0 /\ Begin(m, m.format) = IntBytes
      /\ Begin(m, "size") = IntBytes + Len(b) /\ Begin(m, "data") = IntBytes + Len(b) + IntBytes
  BY <1>2 DEF Begin
<1> HIDE DEF a, b, c, d
<1>5. Serialize(m) \in Seq(Bytes) /\ Joined(Serialize(m), a, b, c, d)
  <2>1. a \o b \o c \o d \in Seq(Bytes) /\ Joined(a \o b \o c \o d, a, b, c, d)
    BY <1>1, FourParts
  <2> QED
    BY <1>3, <2>1, Zenon
<1>6. Len(b) \in Nat /\ Len(d) \in Nat
  BY <1>1
<1>7. /\ Len(Serialize(m)) = IntBytes + Len(b) + IntBytes + Len(d)
      /\ Len(a) = IntBytes /\ Len(c) = IntBytes
  BY <1>1, <1>5, Zenon DEF Joined
<1>8. ASSUME NEW f \in StepsOf(m)
      PROVE  /\ Begin(m, f) \in Nat /\ Len(Field(m, f)) \in Nat
             /\ Begin(m, f) + Len(Field(m, f)) <= Len(Serialize(m))
             /\ \A i \in 1 .. Len(Field(m, f)) : Serialize(m)[Begin(m, f) + i] = Field(m, f)[i]
  <2>1. CASE f = "first"
    <3>1. Field(m, f) = a /\ Begin(m, f) = 0
      BY <1>4, <2>1 DEF a
    <3>2. \A i \in 1 .. Len(a) : Serialize(m)[i] = a[i] /\ Begin(m, f) + i = i
      <4>1. \A i \in 1 .. Len(a) : Serialize(m)[i] = a[i]
        BY <1>5, Zenon DEF Joined
      <4> QED
        BY <1>1, <1>2, <3>1, <4>1
    <3>3. Begin(m, f) \in Nat /\ Begin(m, f) + Len(a) <= Len(Serialize(m))
      BY <1>2, <1>6, <1>7, <3>1
    <3> QED
      BY <1>1, <1>2, <1>6, <3>1, <3>2, <3>3
  <2>2. CASE f = m.format
    <3>1. Field(m, f) = b /\ Begin(m, f) = IntBytes
      BY <1>4, <2>2 DEF b
    <3>2. Begin(m, f) = Len(a)
      BY <1>1, <3>1
    <3>3. \A i \in 1 .. Len(b) : Serialize(m)[Begin(m, f) + i] = b[i]
      BY <1>5, <3>2, Zenon DEF Joined
    <3>4. Begin(m, f) \in Nat /\ Begin(m, f) + Len(b) <= Len(Serialize(m))
      BY <1>2, <1>6, <1>7, <3>1
    <3> QED
      BY <1>1, <1>2, <1>6, <3>1, <3>3, <3>4
  <2>3. CASE f = "size"
    <3>1. Field(m, f) = c /\ Begin(m, f) = IntBytes + Len(b)
      BY <1>4, <2>3 DEF c
    <3>2. Begin(m, f) = Len(a) + Len(b)
      BY <1>1, <3>1
    <3>3. \A i \in 1 .. Len(c) : Serialize(m)[Begin(m, f) + i] = c[i]
      BY <1>5, <3>2, Zenon DEF Joined
    <3>4. Begin(m, f) \in Nat /\ Begin(m, f) + Len(c) <= Len(Serialize(m))
      BY <1>2, <1>6, <1>7, <3>1
    <3> QED
      BY <1>1, <1>2, <1>6, <3>1, <3>3, <3>4
  <2>4. CASE f = "data"
    <3>1. Field(m, f) = d /\ Begin(m, f) = IntBytes + Len(b) + IntBytes
      BY <1>4, <2>4 DEF d
    <3>2. Begin(m, f) = Len(a) + Len(b) + Len(c)
      BY <1>1, <3>1
    <3>3. \A i \in 1 .. Len(d) : Serialize(m)[Begin(m, f) + i] = d[i]
      BY <1>5, <3>2, Zenon DEF Joined
    <3>4. Begin(m, f) \in Nat /\ Begin(m, f) + Len(d) <= Len(Serialize(m))
      BY <1>2, <1>6, <1>7, <3>1
    <3> QED
      BY <1>1, <1>2, <1>6, <3>1, <3>3, <3>4
  <2> QED
    BY <2>1, <2>2, <2>3, <2>4 DEF StepsOf
<1>9. Len(Serialize(m)) = Begin(m, "data") + Len(d)
  BY <1>1, <1>2, <1>4, <1>6, <1>7
<1> QED
  BY <1>1, <1>4, <1>5, <1>8, <1>9, Zenon DEF b

-----------------------------------------------------------------------------
(* The invariant: what recvall has got and what is on its way continue, in *)
(* the bytes of all messages sent, where read_message is.                  *)

\* all is the bytes of the messages sent; message j ends at position pos[j].
Layout(all, pos) ==
  /\ all \in Seq(Bytes)
  /\ pos \in [0 .. Len(sent) -> Nat]
  /\ pos[0] = 0 /\ pos[Len(sent)] = Len(all)
  /\ \A j \in 1 .. Len(sent) :
       /\ pos[j] = pos[j - 1] + Len(Serialize(sent[j]))
       /\ \A i \in 1 .. Len(Serialize(sent[j])) : all[pos[j - 1] + i] = Serialize(sent[j])[i]

\* The message being read.
Current == sent[Len(handled) + 1]

\* The position of the field being read.
At(pos) == pos[Len(handled)] + (IF step = "first" THEN 0 ELSE Begin(Current, step))

\* What has been read of m before the field f.
SoFar(m, f) ==
  [format |-> m.format,
   name   |-> IF f \in {"size", "data"} THEN Strip(m.name) ELSE <<>>,
   id     |-> IF f \in {"size", "data"} THEN m.id ELSE 0,
   data   |-> <<>>]

\* b is in all from position p on.
Found(b, all, p) == \A i \in 1 .. Len(b) : b[i] = all[p + i]

Asked ==
  IF step = "first" THEN want = IntBytes /\ message = NoMessage
  ELSE /\ Len(handled) < Len(sent)
       /\ step \in StepsOf(Current)
       /\ want = Len(Field(Current, step))
       /\ message = SoFar(Current, step)

Place(all, pos) ==
  /\ Asked
  /\ Found(buffer, all, At(pos))
  /\ Found(stream, all, At(pos) + Len(buffer))
  /\ At(pos) + Len(buffer) + Len(stream) <= Len(all)
  /\ open => At(pos) + Len(buffer) + Len(stream) = Len(all)

Tracks(all, pos) == Layout(all, pos) /\ (step # "ended" => Place(all, pos))

FramingInv == WireTypeOK /\ FramingExact /\ \E all, pos : Tracks(all, pos)

LEMMA SameBytes ==
  ASSUME NEW S, NEW a \in Seq(S), NEW b \in Seq(S), Len(a) = Len(b),
         \A i \in 1 .. Len(a) : a[i] = b[i]
  PROVE  a = b
OBVIOUS

LEMMA AtType ==
  ASSUME WireTypeOK, FramingExact, step # "ended",
         NEW all, NEW pos, Layout(all, pos), Place(all, pos)
  PROVE  At(pos) \in Nat
<1>1. Len(handled) \in Nat /\ Len(sent) \in Nat /\ Len(handled) <= Len(sent)
  BY DEF WireTypeOK, FramingExact
<1>2. pos[Len(handled)] \in Nat
  BY <1>1 DEF Layout
<1>3. CASE step = "first"
  BY <1>2, <1>3 DEF At
<1>4. CASE step # "first"
  <2>1. Len(handled) < Len(sent) /\ step \in StepsOf(Current)
    BY <1>4 DEF Place, Asked
  <2>2. Current \in Messages
    BY <1>1, <2>1 DEF WireTypeOK, Current
  <2>3. Begin(Current, step) \in Nat
    BY <2>1, <2>2, FieldPlace
  <2> QED
    BY <1>2, <1>4, <2>3 DEF At
<1> QED
  BY <1>3, <1>4

\* What recvall returns is the field it was called for.
LEMMA FieldGot ==
  ASSUME WireTypeOK, FramingExact, step # "ended", Got,
         NEW all, NEW pos, Layout(all, pos), Place(all, pos)
  PROVE  /\ Len(handled) < Len(sent) /\ Current \in Messages
         /\ step \in StepsOf(Current)
         /\ buffer = Field(Current, step)
         /\ At(pos) = pos[Len(handled)] + Begin(Current, step)
<1> DEFINE h == Len(handled)
<1>1. /\ h \in Nat /\ Len(sent) \in Nat /\ h <= Len(sent)
      /\ IntBytes \in Nat \ {0} /\ buffer \in Seq(Bytes)
      /\ Len(buffer) \in Nat /\ Len(stream) \in Nat /\ Len(all) \in Nat
  BY WireAssumption DEF WireTypeOK, FramingExact, Layout
<1>2. h < Len(sent)
  <2>1. CASE step # "first"
    BY <2>1 DEF Place, Asked
  <2>2. CASE step = "first"
    <3>1. Len(buffer) = IntBytes /\ At(pos) = pos[h] /\ pos[h] \in Nat
      BY <1>1, <2>2 DEF Place, Asked, At, Got, Layout
    <3>2. pos[h] < Len(all)
      BY <1>1, <3>1 DEF Place
    <3>3. h # Len(sent)
      BY <1>1, <3>2 DEF Layout
    <3> QED
      BY <1>1, <3>3
  <2> QED
    BY <2>1, <2>2
<1>3. h + 1 \in 1 .. Len(sent) /\ (h + 1) - 1 = h /\ Current = sent[h + 1] /\ Current \in Messages
  BY <1>1, <1>2 DEF WireTypeOK, Current
<1>4. step \in StepsOf(Current)
  BY DEF Place, Asked, StepsOf
<1>5. At(pos) = pos[h] + Begin(Current, step)
  <2>1. Begin(Current, "first") = 0
    BY <1>3, FieldPlace
  <2> QED
    BY <2>1 DEF At
<1>6. Len(buffer) = Len(Field(Current, step))
  <2>1. Len(Field(Current, "first")) = IntBytes
    BY <1>3, FieldParts
  <2> QED
    BY <2>1 DEF Got, Place, Asked
<1>7. Field(Current, step) \in Seq(Bytes)
  BY <1>3, <1>4, FieldParts
<1> DEFINE b == Begin(Current, step)
           l == Serialize(Current)
<1>8. /\ b \in Nat /\ b + Len(buffer) <= Len(l) /\ l \in Seq(Bytes)
      /\ \A i \in 1 .. Len(buffer) : l[b + i] = Field(Current, step)[i]
  BY <1>3, <1>4, <1>6, FieldPlace
<1>9. \A i \in 1 .. Len(l) : all[pos[h] + i] = l[i]
  BY <1>3 DEF Layout
<1>10. pos[h] \in Nat /\ Len(l) \in Nat
  BY <1>1, <1>8 DEF Layout
<1> HIDE DEF b, l
<1>11. ASSUME NEW i \in 1 .. Len(buffer)
       PROVE  buffer[i] = Field(Current, step)[i]
  <2>1. buffer[i] = all[At(pos) + i]
    BY DEF Place, Found
  <2>2. At(pos) + i = pos[h] + (b + i) /\ b + i \in 1 .. Len(l)
    BY <1>1, <1>5, <1>8, <1>10 DEF b
  <2>3. all[pos[h] + (b + i)] = l[b + i]
    BY <1>9, <2>2, Zenon
  <2> QED
    BY <1>8, <2>1, <2>2, <2>3, Zenon
<1>12. buffer = Field(Current, step)
  BY <1>1, <1>6, <1>7, <1>11, SameBytes
<1> QED
  BY <1>2, <1>3, <1>4, <1>5, <1>12

LEMMA SoFarType ==
  ASSUME NEW m \in Messages, NEW f
  PROVE  SoFar(m, f) \in Parsed
<1>1. /\ m.format \in {"name", "id"} /\ m.name \in Seq(Bytes)
      /\ m.id \in 0 .. Power[IdBytes] - 1
  BY MessageParts
<1>2. Strip(m.name) \in Seq(Bytes) /\ <<>> \in Seq(Bytes)
  BY <1>1, StripType
<1>3. 0 \in 0 .. Power[IdBytes] - 1
  <2>1. IdBytes \in Nat
    BY WireAssumption
  <2>2. Power[IdBytes] \in Int /\ Power[IdBytes] > 0
    BY <2>1, PowerType
  <2> QED
    BY <2>2
<1> QED
  BY <1>1, <1>2, <1>3 DEF SoFar, Parsed

LEMMA NoMessageType == NoMessage \in Parsed
<1>1. IdBytes \in Nat
  BY WireAssumption
<1>2. Power[IdBytes] \in Int /\ Power[IdBytes] > 0
  BY <1>1, PowerType
<1>3. <<>> \in Seq(Bytes)
  OBVIOUS
<1> QED
  BY <1>2, <1>3 DEF NoMessage, Named, Parsed

\* From a field to the next one of the same message.
LEMMA NextField ==
  ASSUME WireTypeOK, FramingExact, step # "ended", Got,
         NEW all, NEW pos, Layout(all, pos), Place(all, pos),
         NEW f \in StepsOf(Current) \ {"first"},
         Begin(Current, f) = Begin(Current, step) + Len(Field(Current, step)),
         ReadNext(f, Len(Field(Current, f))), message' = SoFar(Current, f)
  PROVE  WireTypeOK' /\ FramingExact' /\ Tracks(all, pos)'
<1>1. /\ Len(handled) < Len(sent) /\ Current \in Messages
      /\ step \in StepsOf(Current) /\ buffer = Field(Current, step)
      /\ At(pos) = pos[Len(handled)] + Begin(Current, step)
  BY FieldGot
<1>2. /\ step' = f /\ want' = Len(Field(Current, f)) /\ buffer' = <<>>
      /\ sent' = sent /\ stream' = stream /\ open' = open /\ handled' = handled
  BY DEF ReadNext
<1>3. Current' = Current
  BY <1>2 DEF Current
<1>4. WireTypeOK'
  <2>1. message' \in Parsed
    BY <1>1, SoFarType
  <2>2. Field(Current, f) \in Seq(Bytes)
    BY <1>1, FieldParts
  <2>3. want' \in Nat /\ buffer' \in Seq(Bytes) /\ Len(buffer') <= want'
    BY <1>2, <2>2
  <2>4. f \in {"name", "id", "size", "data"}
    BY <1>1, MessageParts DEF StepsOf
  <2> QED
    BY <1>2, <2>1, <2>3, <2>4 DEF WireTypeOK
<1>5. FramingExact'
  BY <1>2 DEF FramingExact
<1>6. Layout(all, pos)'
  BY <1>2 DEF Layout
<1>7. Asked'
  BY <1>1, <1>2, <1>3 DEF Asked
<1>8. At(pos)' = At(pos) + Len(buffer) /\ Len(buffer') = 0
  <2>1. At(pos)' = pos[Len(handled)] + Begin(Current, f)
    BY <1>2, <1>3 DEF At
  <2>2. pos[Len(handled)] \in Nat
    BY DEF Layout, WireTypeOK, FramingExact
  <2>3. Begin(Current, step) \in Nat /\ Len(buffer) \in Nat
    BY <1>1, FieldPlace DEF WireTypeOK
  <2> QED
    BY <1>1, <1>2, <2>1, <2>2, <2>3
<1>9. Place(all, pos)'
  <2>1. At(pos)' \in Nat /\ At(pos)' + Len(buffer') = At(pos) + Len(buffer)
    <3>1. At(pos) \in Nat
      BY AtType
    <3> QED
      BY <1>8, <3>1 DEF WireTypeOK
  <2>2. Found(buffer, all, At(pos))'
    BY <1>8 DEF Found
  <2>3. Found(stream, all, At(pos) + Len(buffer))'
    <3>1. Found(stream, all, At(pos) + Len(buffer))
      BY DEF Place
    <3> QED
      BY <1>2, <2>1, <3>1, Zenon DEF Found
  <2>4. /\ At(pos) + Len(buffer) + Len(stream) <= Len(all)
        /\ open => At(pos) + Len(buffer) + Len(stream) = Len(all)
    BY DEF Place
  <2>5. /\ (At(pos) + Len(buffer) + Len(stream) <= Len(all))'
        /\ (open => At(pos) + Len(buffer) + Len(stream) = Len(all))'
    BY <1>2, <2>1, <2>4, Zenon
  <2> QED
    BY <1>7, <2>2, <2>3, <2>5, Zenon DEF Place
<1> QED
  BY <1>4, <1>5, <1>6, <1>9, Zenon DEF Tracks

-----------------------------------------------------------------------------
(* One lemma per step of read_message.                                     *)

LEMMA ReadMarkerKeeps ==
  ASSUME WireTypeOK, FramingExact, ReadMarker,
         NEW all, NEW pos, Tracks(all, pos)
  PROVE  FramingInv'
<1>1. step = "first" /\ step # "ended" /\ Got /\ Layout(all, pos) /\ Place(all, pos)
  BY DEF ReadMarker, Tracks
<1>2. Current \in Messages /\ buffer = Field(Current, "first")
  BY <1>1, FieldGot
<1>3. Current.format = "id"
  <2> SUFFICES ASSUME Current.format = "name" PROVE FALSE
    BY <1>2, MessageParts
  <2>1. buffer = Pack(Len(Current.name), IntBytes)
    BY <1>2 DEF Field
  <2>2. /\ IntBytes \in Nat /\ Len(Current.name) \in Nat
        /\ Len(Current.name) < Power[IntBytes] - 1
    BY <1>2, MessageParts, WireAssumption
  <2>3. Signed(buffer) # -1
    BY <2>1, <2>2, SignedBack
  <2> QED
    BY <2>3 DEF ReadMarker, IsMarker
<1>4. /\ "id" \in StepsOf(Current) \ {"first"}
      /\ Begin(Current, "id") = Begin(Current, step) + Len(Field(Current, step))
      /\ Len(Field(Current, "id")) = IdBytes
  <2>1. IntBytes \in Nat
    BY WireAssumption
  <2>2. Begin(Current, "id") = IntBytes /\ Begin(Current, "first") = 0
    BY <1>2, <1>3, FieldPlace, Zenon
  <2>3. Len(Field(Current, "first")) = IntBytes /\ Len(Field(Current, "id")) = IdBytes
    BY <1>2, <1>3, FieldParts, Zenon
  <2> QED
    BY <1>1, <1>3, <2>1, <2>2, <2>3 DEF StepsOf
<1>5. ReadNext("id", Len(Field(Current, "id"))) /\ message' = SoFar(Current, "id")
  BY <1>3, <1>4 DEF ReadMarker, SoFar, NoMessage, Named
<1>6. WireTypeOK' /\ FramingExact' /\ Tracks(all, pos)'
  BY <1>1, <1>4, <1>5, NextField
<1> QED
  BY <1>6, Zenon DEF FramingInv

LEMMA ReadLengthKeeps ==
  ASSUME WireTypeOK, FramingExact, ReadLength,
         NEW all, NEW pos, Tracks(all, pos)
  PROVE  FramingInv'
<1>1. step = "first" /\ step # "ended" /\ Got /\ Layout(all, pos) /\ Place(all, pos)
  BY DEF ReadLength, Tracks
<1>2. Current \in Messages /\ buffer = Field(Current, "first")
  BY <1>1, FieldGot
<1>3. Current.format = "name"
  <2> SUFFICES ASSUME Current.format = "id" PROVE FALSE
    BY <1>2, MessageParts
  <2>1. buffer = Pack(-1, IntBytes)
    BY <1>2 DEF Field
  <2>2. Signed(buffer) = -1
    BY <2>1, MarkerBack, WireAssumption
  <2> QED
    BY <2>2 DEF ReadLength, IsMarker
<1>4. Signed(buffer) = Len(Current.name)
  <2>1. buffer = Pack(Len(Current.name), IntBytes)
    BY <1>2, <1>3 DEF Field
  <2>2. /\ IntBytes \in Nat /\ Len(Current.name) \in Nat
        /\ Len(Current.name) < Power[IntBytes] - 1
    BY <1>2, MessageParts, WireAssumption
  <2>3. Signed(buffer) >= 0
    BY DEF ReadLength
  <2> QED
    BY <2>1, <2>2, <2>3, SignedBack
<1>5. /\ "name" \in StepsOf(Current) \ {"first"}
      /\ Begin(Current, "name") = Begin(Current, step) + Len(Field(Current, step))
      /\ Field(Current, "name") = Current.name
  <2>1. IntBytes \in Nat
    BY WireAssumption
  <2>2. Begin(Current, "name") = IntBytes /\ Begin(Current, "first") = 0
    BY <1>2, <1>3, FieldPlace, Zenon
  <2>3. Len(Field(Current, "first")) = IntBytes /\ Field(Current, "name") = Current.name
    BY <1>2, <1>3, FieldParts, Zenon
  <2> QED
    BY <1>1, <1>3, <2>1, <2>2, <2>3 DEF StepsOf
<1>6. ReadNext("name", Len(Field(Current, "name"))) /\ message' = SoFar(Current, "name")
  BY <1>3, <1>4, <1>5 DEF ReadLength, SoFar, NoMessage, Named
<1>7. WireTypeOK' /\ FramingExact' /\ Tracks(all, pos)'
  BY <1>1, <1>5, <1>6, NextField
<1> QED
  BY <1>7, Zenon DEF FramingInv

LEMMA ReadIdKeeps ==
  ASSUME WireTypeOK, FramingExact, ReadId,
         NEW all, NEW pos, Tracks(all, pos)
  PROVE  FramingInv'
<1>1. step = "id" /\ step # "ended" /\ Got /\ Layout(all, pos) /\ Place(all, pos)
  BY DEF ReadId, Tracks
<1>2. /\ Current \in Messages /\ "id" \in StepsOf(Current) /\ buffer = Field(Current, "id")
      /\ message = SoFar(Current, "id")
  BY <1>1, FieldGot DEF Place, Asked
<1>3. Current.format = "id"
  BY <1>2 DEF StepsOf
<1>4. Unsigned(buffer) = Current.id
  <2>1. buffer = Pack(Current.id, IdBytes)
    BY <1>2, <1>3 DEF Field
  <2>2. IdBytes \in Nat /\ Current.id \in 0 .. Power[IdBytes] - 1
    BY <1>2, MessageParts, WireAssumption
  <2> QED
    BY <2>1, <2>2, UnsignedBack
<1>5. /\ "size" \in StepsOf(Current) \ {"first"}
      /\ Begin(Current, "size") = Begin(Current, step) + Len(Field(Current, step))
  <2>1. Begin(Current, "id") = IntBytes
        /\ Begin(Current, "size") = IntBytes + Len(Field(Current, "id"))
    BY <1>2, <1>3, FieldPlace, Zenon
  <2> QED
    BY <1>1, <2>1 DEF StepsOf
<1>6. ReadNext("size", Len(Field(Current, "size")))
  <2>1. Len(Field(Current, "size")) = IntBytes
    BY <1>2, FieldParts
  <2> QED
    BY <2>1 DEF ReadId
<1>7. message' = SoFar(Current, "size")
  <2>1. Current.name = <<>> /\ Strip(Current.name) = <<>>
    BY <1>2, <1>3, MessageParts, StripNothing
  <2> QED
    BY <1>2, <1>4, <2>1 DEF ReadId, SoFar
<1>8. WireTypeOK' /\ FramingExact' /\ Tracks(all, pos)'
  BY <1>1, <1>5, <1>6, <1>7, NextField
<1> QED
  BY <1>8, Zenon DEF FramingInv

LEMMA ReadNameKeeps ==
  ASSUME WireTypeOK, FramingExact, ReadName,
         NEW all, NEW pos, Tracks(all, pos)
  PROVE  FramingInv'
<1>1. step = "name" /\ step # "ended" /\ Got /\ Layout(all, pos) /\ Place(all, pos)
  BY DEF ReadName, Tracks
<1>2. /\ Current \in Messages /\ "name" \in StepsOf(Current) /\ buffer = Field(Current, "name")
      /\ message = SoFar(Current, "name")
  BY <1>1, FieldGot DEF Place, Asked
<1>3. Current.format = "name" /\ buffer = Current.name
  BY <1>2 DEF StepsOf, Field
<1>4. /\ "size" \in StepsOf(Current) \ {"first"}
      /\ Begin(Current, "size") = Begin(Current, step) + Len(Field(Current, step))
  <2>1. Begin(Current, "name") = IntBytes
        /\ Begin(Current, "size") = IntBytes + Len(Field(Current, "name"))
    BY <1>2, <1>3, FieldPlace, Zenon
  <2> QED
    BY <1>1, <2>1 DEF StepsOf
<1>5. ReadNext("size", Len(Field(Current, "size")))
  <2>1. Len(Field(Current, "size")) = IntBytes
    BY <1>2, FieldParts
  <2> QED
    BY <2>1 DEF ReadName
<1>6. message' = SoFar(Current, "size")
  <2>1. Current.id = 0
    BY <1>2, <1>3, MessageParts
  <2> QED
    BY <1>2, <1>3, <2>1 DEF ReadName, SoFar
<1>7. WireTypeOK' /\ FramingExact' /\ Tracks(all, pos)'
  BY <1>1, <1>4, <1>5, <1>6, NextField
<1> QED
  BY <1>7, Zenon DEF FramingInv

LEMMA ReadSizeKeeps ==
  ASSUME WireTypeOK, FramingExact, ReadSize,
         NEW all, NEW pos, Tracks(all, pos)
  PROVE  FramingInv'
<1>1. step = "size" /\ step # "ended" /\ Got /\ Layout(all, pos) /\ Place(all, pos)
  BY DEF ReadSize, Tracks
<1>2. /\ Current \in Messages /\ buffer = Field(Current, "size")
      /\ message = SoFar(Current, "size")
  BY <1>1, FieldGot DEF Place, Asked
<1>3. DataSize(buffer) = Len(Current.data)
  <2>1. buffer = Pack(Len(Current.data), IntBytes)
    BY <1>2 DEF Field
  <2>2. IntBytes \in Nat /\ Len(Current.data) \in 0 .. Power[IntBytes] - 1
    BY <1>2, MessageParts, WireAssumption
  <2> QED
    BY <2>1, <2>2, UnsignedBack DEF DataSize
<1>4. /\ "data" \in StepsOf(Current) \ {"first"}
      /\ Begin(Current, "data") = Begin(Current, step) + Len(Field(Current, step))
  <2>1. /\ Begin(Current, "size") = IntBytes + Len(Field(Current, Current.format))
        /\ Begin(Current, "data") = IntBytes + Len(Field(Current, Current.format)) + IntBytes
    BY <1>2, FieldPlace, Zenon
  <2>2. Len(Field(Current, "size")) = IntBytes
    BY <1>2, FieldParts
  <2> QED
    BY <1>1, <2>1, <2>2 DEF StepsOf
<1>5. ReadNext("data", Len(Field(Current, "data")))
  <2>1. Field(Current, "data") = Current.data
    BY <1>2, FieldParts
  <2> QED
    BY <1>3, <2>1 DEF ReadSize
<1>6. message' = SoFar(Current, "data")
  BY <1>2 DEF ReadSize, SoFar
<1>7. WireTypeOK' /\ FramingExact' /\ Tracks(all, pos)'
  BY <1>1, <1>4, <1>5, <1>6, NextField
<1> QED
  BY <1>7, Zenon DEF FramingInv

LEMMA ReadDataKeeps ==
  ASSUME WireTypeOK, FramingExact, ReadData,
         NEW all, NEW pos, Tracks(all, pos)
  PROVE  FramingInv'
<1> DEFINE h == Len(handled)
<1>1. step = "data" /\ step # "ended" /\ Got /\ Layout(all, pos) /\ Place(all, pos)
  BY DEF ReadData, Tracks
<1>2. /\ h < Len(sent) /\ Current \in Messages /\ buffer = Field(Current, "data")
      /\ message = SoFar(Current, "data")
      /\ At(pos) = pos[h] + Begin(Current, "data")
  BY <1>1, FieldGot DEF Place, Asked
<1>3. /\ h \in Nat /\ Len(sent) \in Nat /\ IntBytes \in Nat /\ buffer \in Seq(Bytes)
      /\ Current = sent[h + 1] /\ h + 1 \in 1 .. Len(sent) /\ (h + 1) - 1 = h
  BY <1>2, WireAssumption DEF WireTypeOK, Current
<1>4. buffer = Current.data
  BY <1>2, FieldParts
<1> DEFINE r == [message EXCEPT !.data = buffer]
<1>5. r = Received(Current) /\ r \in Parsed
  <2>1. SoFar(Current, "data") \in Parsed
    BY <1>2, SoFarType
  <2>2. r \in Parsed
    BY <1>2, <1>3, <2>1 DEF Parsed
  <2>3. Current = [format |-> Current.format, name |-> Current.name,
                   id |-> Current.id, data |-> Current.data]
    BY <1>2, MessageParts
  <2> DEFINE f == Current.format
             n == Current.name
             i == Current.id
             d == Current.data
  <2>4. r = [format |-> f, name |-> Strip(n), id |-> i, data |-> d]
    BY <1>2, <1>4 DEF SoFar
  <2> HIDE DEF f, n, i, d
  <2>5. Received([format |-> f, name |-> n, id |-> i, data |-> d])
          = [format |-> f, name |-> Strip(n), id |-> i, data |-> d]
    BY DEF Received
  <2>6. Received(Current) = r
    BY <2>3, <2>4, <2>5, Zenon DEF f, n, i, d
  <2> QED
    BY <2>2, <2>6
<1> HIDE DEF r
<1>6. /\ handled' = Append(handled, r) /\ step' \in {"ended", "first"} /\ want' = IntBytes
      /\ buffer' = <<>> /\ message' = NoMessage
      /\ sent' = sent /\ stream' = stream /\ open' = open
  BY DEF ReadData, r
<1>7. /\ handled' \in Seq(Parsed) /\ Len(handled') = h + 1
      /\ \A i \in 1 .. h : handled'[i] = handled[i]
      /\ handled'[h + 1] = r
  BY <1>5, <1>6 DEF WireTypeOK
<1>8. WireTypeOK'
  <2>1. <<>> \in Seq(Bytes) /\ Len(<<>>) = 0 /\ 0 <= IntBytes
    BY <1>3
  <2>2. NoMessage \in Parsed
    BY NoMessageType
  <2> QED
    BY <1>3, <1>6, <1>7, <2>1, <2>2 DEF WireTypeOK
<1>9. FramingExact'
  <2>1. Len(handled') <= Len(sent')
    BY <1>2, <1>3, <1>6, <1>7
  <2>2. DOMAIN handled' = 1 .. h + 1 /\ DOMAIN handled = 1 .. h
    BY <1>7 DEF WireTypeOK
  <2>3. ASSUME NEW i \in 1 .. h + 1 PROVE handled'[i] = Received(sent[i])
    <3>1. CASE i = h + 1
      BY <1>3, <1>5, <1>7, <3>1
    <3>2. CASE i \in 1 .. h
      BY <1>7, <2>2, <3>2 DEF FramingExact
    <3> QED
      BY <1>3, <3>1, <3>2
  <2> QED
    BY <1>6, <2>1, <2>2, <2>3 DEF FramingExact
<1>10. Layout(all, pos)'
  BY <1>1, <1>6, Zenon DEF Layout
<1>11. ASSUME step' # "ended" PROVE Place(all, pos)'
  <2>1. step' = "first"
    BY <1>6, <1>11
  <2>2. Asked'
    BY <1>6, <2>1 DEF Asked
  <2>3. At(pos)' = At(pos) + Len(buffer) /\ At(pos)' \in Nat
    <3>1. At(pos)' = pos[h + 1]
      <4>1. pos[h + 1] \in Nat
        BY <1>1, <1>3 DEF Layout
      <4> QED
        BY <1>7, <2>1, <4>1 DEF At
    <3>2. pos[h + 1] = pos[h] + Len(Serialize(Current)) /\ pos[h] \in Nat
      BY <1>1, <1>3 DEF Layout
    <3>3. Len(Serialize(Current)) = Begin(Current, "data") + Len(buffer)
      BY <1>2, <1>4, FieldPlace
    <3>4. Begin(Current, "data") \in Nat
      BY <1>2, FieldPlace DEF StepsOf
    <3> QED
      BY <1>2, <1>3, <3>1, <3>2, <3>3, <3>4
  <2>4. At(pos)' + Len(buffer') = At(pos) + Len(buffer) /\ Len(buffer') = 0
    BY <1>6, <2>3
  <2>5. Found(buffer, all, At(pos))'
    BY <2>4 DEF Found
  <2>6. Found(stream, all, At(pos) + Len(buffer))'
    <3>1. Found(stream, all, At(pos) + Len(buffer))
      BY <1>1 DEF Place
    <3> QED
      BY <1>6, <2>4, <3>1, Zenon DEF Found
  <2>7. /\ At(pos) + Len(buffer) + Len(stream) <= Len(all)
        /\ open => At(pos) + Len(buffer) + Len(stream) = Len(all)
    BY <1>1 DEF Place
  <2>8. /\ (At(pos) + Len(buffer) + Len(stream) <= Len(all))'
        /\ (open => At(pos) + Len(buffer) + Len(stream) = Len(all))'
    BY <1>6, <2>4, <2>7, Zenon
  <2> QED
    BY <2>2, <2>5, <2>6, <2>8, Zenon DEF Place
<1> QED
  BY <1>8, <1>9, <1>10, <1>11, Zenon DEF FramingInv, Tracks

LEMMA Moved ==
  ASSUME NEW S, NEW b \in Seq(S), NEW s \in Seq(S), NEW n \in 1 .. Len(s), NEW all,
         NEW p \in Nat, Found(b, all, p), Found(s, all, p + Len(b))
  PROVE  LET c == b \o SubSeq(s, 1, n)
             t == SubSeq(s, n + 1, Len(s))
         IN  /\ c \in Seq(S) /\ t \in Seq(S)
             /\ Len(c) = Len(b) + n /\ Len(t) = Len(s) - n
             /\ Found(c, all, p) /\ Found(t, all, p + Len(c))
<1> DEFINE a == SubSeq(s, 1, n)
           c == b \o a
           t == SubSeq(s, n + 1, Len(s))
<1>1. a \in Seq(S) /\ Len(a) = n /\ \A i \in 1 .. n : a[i] = s[i]
  OBVIOUS
<1>2. t \in Seq(S) /\ Len(t) = Len(s) - n /\ \A i \in 1 .. Len(s) - n : t[i] = s[n + i]
  OBVIOUS
<1>3. Len(b) \in Nat /\ Len(s) \in Nat
  OBVIOUS
<1> HIDE DEF a, t
<1>4. /\ c \in Seq(S) /\ Len(c) = Len(b) + n
      /\ \A i \in 1 .. Len(b) : c[i] = b[i]
      /\ \A i \in Len(b) + 1 .. Len(b) + n : c[i] = a[i - Len(b)]
  BY <1>1
<1> HIDE DEF c
<1>5. ASSUME NEW i \in 1 .. Len(c) PROVE c[i] = all[p + i]
  <2>1. CASE i \in 1 .. Len(b)
    BY <1>4, <2>1 DEF Found
  <2>2. CASE i \in Len(b) + 1 .. Len(b) + n
    <3>1. i - Len(b) \in 1 .. n /\ i - Len(b) \in 1 .. Len(s)
      BY <1>3, <2>2
    <3>2. c[i] = s[i - Len(b)]
      BY <1>1, <1>4, <2>2, <3>1
    <3>3. s[i - Len(b)] = all[p + Len(b) + (i - Len(b))]
      BY <3>1 DEF Found
    <3>4. p + Len(b) + (i - Len(b)) = p + i
      BY <1>3, <2>2
    <3> QED
      BY <3>2, <3>3, <3>4
  <2> QED
    BY <1>3, <1>4, <2>1, <2>2
<1>6. ASSUME NEW i \in 1 .. Len(t) PROVE t[i] = all[p + Len(c) + i]
  <2>1. n + i \in 1 .. Len(s) /\ i \in 1 .. Len(s) - n
    BY <1>2, <1>3
  <2>2. s[n + i] = all[p + Len(b) + (n + i)]
    BY <2>1 DEF Found
  <2>3. p + Len(b) + (n + i) = p + Len(c) + i
    BY <1>3, <1>4, <2>1
  <2> QED
    BY <1>2, <2>1, <2>2, <2>3
<1> QED
  BY <1>2, <1>4, <1>5, <1>6 DEF c, t, a, Found

LEMMA ReceiveKeeps ==
  ASSUME WireTypeOK, FramingExact, Receive,
         NEW all, NEW pos, Tracks(all, pos)
  PROVE  FramingInv'
<1>1. step # "ended" /\ Layout(all, pos) /\ Place(all, pos)
  BY DEF Receive, Tracks
<1>2. PICK n \in 1 .. Len(stream) :
        /\ n <= want - Len(buffer)
        /\ buffer' = buffer \o SubSeq(stream, 1, n)
        /\ stream' = SubSeq(stream, n + 1, Len(stream))
  BY DEF Receive
<1>3. /\ sent' = sent /\ open' = open /\ step' = step /\ want' = want
      /\ message' = message /\ handled' = handled
  BY DEF Receive
<1>4. /\ At(pos) \in Nat /\ Len(buffer) \in Nat /\ Len(stream) \in Nat /\ want \in Nat
      /\ buffer \in Seq(Bytes) /\ stream \in Seq(Bytes) /\ Len(all) \in Nat
  <2>1. At(pos) \in Nat
    BY <1>1, AtType
  <2>2. Len(all) \in Nat
    BY <1>1 DEF Layout
  <2> QED
    BY <2>1, <2>2 DEF WireTypeOK
<1>5. At(pos)' = At(pos)
  BY <1>3, Zenon DEF At, Current
<1>6. /\ buffer' \in Seq(Bytes) /\ stream' \in Seq(Bytes)
      /\ Len(buffer') = Len(buffer) + n /\ Len(stream') = Len(stream) - n
      /\ Found(buffer', all, At(pos)) /\ Found(stream', all, At(pos) + Len(buffer'))
  <2>1. Found(buffer, all, At(pos)) /\ Found(stream, all, At(pos) + Len(buffer))
    BY <1>1 DEF Place
  <2> DEFINE p == At(pos)
  <2> HIDE DEF p
  <2>2. LET c == buffer \o SubSeq(stream, 1, n)
            t == SubSeq(stream, n + 1, Len(stream))
        IN  /\ c \in Seq(Bytes) /\ t \in Seq(Bytes)
            /\ Len(c) = Len(buffer) + n /\ Len(t) = Len(stream) - n
            /\ Found(c, all, p) /\ Found(t, all, p + Len(c))
    BY <1>4, <2>1, Moved, Zenon DEF p
  <2> QED
    BY <1>2, <2>2, Zenon DEF p
<1>7. WireTypeOK'
  <2>1. Len(buffer') <= want'
    BY <1>2, <1>3, <1>4, <1>6
  <2> QED
    BY <1>3, <1>6, <2>1 DEF WireTypeOK
<1>8. FramingExact' /\ Layout(all, pos)' /\ Asked'
  <2>1. FramingExact'
    BY <1>3, Zenon DEF FramingExact
  <2>2. Layout(all, pos)'
    BY <1>1, <1>3, Zenon DEF Layout
  <2>3. Asked'
    BY <1>1, <1>3, Zenon DEF Place, Asked, Current
  <2> QED
    BY <2>1, <2>2, <2>3
<1>9. Place(all, pos)'
  <2>1. Found(buffer, all, At(pos))' /\ Found(stream, all, At(pos) + Len(buffer))'
    BY <1>5, <1>6, Zenon
  <2>2. At(pos)' + Len(buffer') + Len(stream') = At(pos) + Len(buffer) + Len(stream)
    BY <1>2, <1>4, <1>5, <1>6
  <2>3. /\ At(pos) + Len(buffer) + Len(stream) <= Len(all)
        /\ open => At(pos) + Len(buffer) + Len(stream) = Len(all)
    BY <1>1 DEF Place
  <2>4. /\ (At(pos) + Len(buffer) + Len(stream) <= Len(all))'
        /\ (open => At(pos) + Len(buffer) + Len(stream) = Len(all))'
    BY <1>3, <2>2, <2>3, Zenon
  <2> QED
    BY <1>8, <2>1, <2>4, Zenon DEF Place
<1> QED
  BY <1>7, <1>8, <1>9, Zenon DEF FramingInv, Tracks

LEMMA EndKeeps ==
  ASSUME WireTypeOK, FramingExact, ReceiveEnds \/ LengthRaises,
         NEW all, NEW pos, Tracks(all, pos)
  PROVE  FramingInv'
<1>1. /\ step' = "ended" /\ sent' = sent /\ stream' = stream /\ open' = open
      /\ want' = want /\ buffer' = buffer /\ message' = message /\ handled' = handled
  BY DEF ReceiveEnds, LengthRaises
<1>2. WireTypeOK'
  BY <1>1 DEF WireTypeOK
<1>3. FramingExact' /\ Layout(all, pos)'
  BY <1>1, Zenon DEF FramingExact, Tracks, Layout
<1> QED
  BY <1>1, <1>2, <1>3, Zenon DEF FramingInv, Tracks

LEMMA CloseKeeps ==
  ASSUME WireTypeOK, FramingExact, Close,
         NEW all, NEW pos, Tracks(all, pos)
  PROVE  FramingInv'
<1>1. /\ sent' = sent /\ open' = FALSE /\ step' = step
      /\ want' = want /\ buffer' = buffer /\ message' = message /\ handled' = handled
  BY DEF Close, readVars
<1>2. PICK n \in 0 .. Len(stream) : stream' = SubSeq(stream, 1, n)
  BY DEF Close
<1>3. /\ stream' \in Seq(Bytes) /\ Len(stream') = n
      /\ \A i \in 1 .. n : stream'[i] = stream[i]
  BY <1>2 DEF WireTypeOK
<1>4. WireTypeOK'
  BY <1>1, <1>3 DEF WireTypeOK
<1>5. FramingExact' /\ Layout(all, pos)'
  BY <1>1, Zenon DEF FramingExact, Tracks, Layout
<1>6. ASSUME step # "ended" PROVE Place(all, pos)'
  <2>1. Layout(all, pos) /\ Place(all, pos)
    BY <1>6 DEF Tracks
  <2>2. /\ At(pos) \in Nat /\ Len(buffer) \in Nat /\ Len(stream) \in Nat /\ Len(all) \in Nat
    <3>1. At(pos) \in Nat
      BY <1>6, <2>1, AtType
    <3>2. Len(all) \in Nat
      BY <2>1 DEF Layout
    <3> QED
      BY <3>1, <3>2 DEF WireTypeOK
  <2>3. At(pos)' = At(pos)
    BY <1>1, Zenon DEF At, Current
  <2>4. Asked'
    BY <1>1, <2>1, Zenon DEF Place, Asked, Current
  <2>5. Found(buffer, all, At(pos))'
    BY <1>1, <2>1, <2>3, Zenon DEF Place, Found
  <2>6. Found(stream, all, At(pos) + Len(buffer))'
    <3>1. \A i \in 1 .. n : stream'[i] = all[At(pos) + Len(buffer) + i]
      <4>1. \A i \in 1 .. Len(stream) : stream[i] = all[At(pos) + Len(buffer) + i]
        BY <2>1 DEF Place, Found
      <4>2. \A i \in 1 .. n : i \in 1 .. Len(stream)
        BY <2>2
      <4> QED
        BY <1>3, <4>1, <4>2, Zenon
    <3> QED
      BY <1>1, <1>3, <2>3, <3>1, Zenon DEF Found
  <2>7. (At(pos) + Len(buffer) + Len(stream) <= Len(all))'
    <3>1. At(pos) + Len(buffer) + Len(stream) <= Len(all)
      BY <2>1 DEF Place
    <3> QED
      BY <1>1, <1>3, <2>2, <2>3, <3>1
  <2> QED
    BY <1>1, <2>4, <2>5, <2>6, <2>7, Zenon DEF Place
<1> QED
  BY <1>1, <1>4, <1>5, <1>6, Zenon DEF FramingInv, Tracks

LEMMA SendKeeps ==
  ASSUME WireTypeOK, FramingExact, NEW m \in Messages, Send(m),
         NEW all, NEW pos, Tracks(all, pos)
  PROVE  FramingInv'
<1> DEFINE l == Serialize(m)
           k == Len(sent)
<1>1. PICK more : more = all \o l
  OBVIOUS
<1>2. PICK last : last = [j \in 0 .. k + 1 |-> IF j = k + 1 THEN Len(more) ELSE pos[j]]
  OBVIOUS
<1>3. /\ open /\ sent' = Append(sent, m) /\ stream' = stream \o l
      /\ open' = open /\ step' = step /\ want' = want /\ buffer' = buffer
      /\ message' = message /\ handled' = handled
  BY DEF Send, readVars
<1>4. Layout(all, pos)
  BY DEF Tracks
<1>5. l \in Seq(Bytes) /\ Len(l) \in Nat
  BY FieldPlace
<1>6. /\ k \in Nat /\ sent' \in Seq(Messages) /\ Len(sent') = k + 1 /\ sent'[k + 1] = m
      /\ \A i \in 1 .. k : sent'[i] = sent[i]
  BY <1>3 DEF WireTypeOK
<1>7. all \in Seq(Bytes) /\ Len(all) \in Nat /\ pos \in [0 .. k -> Nat] /\ pos[k] = Len(all)
  BY <1>4 DEF Layout
<1> HIDE DEF l
<1>8. /\ more \in Seq(Bytes) /\ Len(more) = Len(all) + Len(l)
      /\ \A i \in 1 .. Len(all) : more[i] = all[i]
      /\ \A i \in 1 .. Len(l) : more[Len(all) + i] = l[i]
  BY <1>5, <1>7, <1>1
<1>9. /\ last \in [0 .. k + 1 -> Nat] /\ last[k + 1] = Len(more)
      /\ \A j \in 0 .. k : last[j] = pos[j]
  BY <1>5, <1>6, <1>7, <1>8, <1>2
<1>10. \A j \in 0 .. k : pos[j] \in Nat
  BY <1>7
<1>11. WireTypeOK'
  <2>1. stream' \in Seq(Bytes)
    BY <1>3, <1>5 DEF WireTypeOK
  <2> QED
    BY <1>3, <1>6, <2>1 DEF WireTypeOK
<1>12. FramingExact'
  <2>1. Len(handled) \in Nat /\ Len(handled) <= k /\ DOMAIN handled = 1 .. Len(handled)
    BY DEF WireTypeOK, FramingExact
  <2>2. \A i \in 1 .. Len(handled) : i \in 1 .. k /\ handled[i] = Received(sent[i])
    BY <1>6, <2>1 DEF FramingExact
  <2>3. \A i \in 1 .. Len(handled) : handled[i] = Received(sent'[i])
    BY <1>6, <2>2, Zenon
  <2>4. Len(handled) <= Len(sent')
    BY <1>6, <2>1
  <2> QED
    BY <1>3, <2>1, <2>3, <2>4, Zenon DEF FramingExact
<1>13. Layout(more, last)'
  <2>1. ASSUME NEW j \in 1 .. k
        PROVE  /\ last[j] = last[j - 1] + Len(Serialize(sent'[j]))
               /\ \A i \in 1 .. Len(Serialize(sent'[j])) :
                    more[last[j - 1] + i] = Serialize(sent'[j])[i]
    <3> DEFINE s == Serialize(sent[j])
               n == Len(s)
    <3>1. sent'[j] = sent[j] /\ last[j] = pos[j] /\ last[j - 1] = pos[j - 1]
          /\ pos[j - 1] \in Nat /\ pos[j] \in Nat
      <4>1. j \in 0 .. k /\ j - 1 \in 0 .. k
        BY <1>6
      <4> QED
        BY <1>6, <1>9, <1>10, <4>1
    <3>2. pos[j] = pos[j - 1] + n /\ \A i \in 1 .. n : all[pos[j - 1] + i] = s[i]
      BY <1>4 DEF Layout
    <3>3. n \in Nat
      <4>1. sent[j] \in Messages
        BY DEF WireTypeOK
      <4>2. s \in Seq(Bytes)
        BY <4>1, FieldPlace
      <4> QED
        BY <4>2
    <3>4. pos[j] <= Len(all)
      <4> DEFINE D == {i \in Nat : i <= k => \A h \in 0 .. i : pos[h] <= pos[i]}
      <4>1. 0 \in D
        BY <1>6, <1>10
      <4>2. ASSUME NEW i \in Nat, i \in D PROVE i + 1 \in D
        <5> SUFFICES ASSUME i + 1 <= k, NEW h \in 0 .. i + 1 PROVE pos[h] <= pos[i + 1]
          OBVIOUS
        <5>1. i + 1 \in 1 .. k /\ (i + 1) - 1 = i /\ i \in 0 .. k /\ i + 1 \in 0 .. k
          BY <1>6
        <5>2. sent[i + 1] \in Messages
          BY <5>1 DEF WireTypeOK
        <5>3. Serialize(sent[i + 1]) \in Seq(Bytes)
          BY <5>2, FieldPlace
        <5>4. Len(Serialize(sent[i + 1])) \in Nat
          BY <5>3
        <5>5. pos[i + 1] = pos[i] + Len(Serialize(sent[i + 1]))
          BY <1>4, <5>1 DEF Layout
        <5>6. pos[i] \in Nat /\ pos[i + 1] \in Nat /\ pos[i] <= pos[i + 1]
          BY <1>10, <5>1, <5>4, <5>5
        <5>7. CASE h = i + 1
          BY <5>6, <5>7
        <5>8. CASE h \in 0 .. i
          <6>1. pos[h] <= pos[i] /\ pos[h] \in Nat
            BY <1>6, <1>10, <4>2, <5>1, <5>8
          <6> QED
            BY <5>6, <6>1
        <5> QED
          BY <5>7, <5>8
      <4> HIDE DEF D
      <4>3. \A i \in Nat : i \in D
        BY <4>1, <4>2, Induction
      <4>4. k \in D
        BY <1>6, <4>3
      <4> QED
        BY <1>6, <1>7, <4>4 DEF D
    <3> HIDE DEF s
    <3>5. ASSUME NEW i \in 1 .. n PROVE more[pos[j - 1] + i] = s[i]
      <4>1. pos[j - 1] + i \in 1 .. Len(all)
        BY <1>7, <3>1, <3>2, <3>3, <3>4
      <4> QED
        BY <1>8, <3>2, <4>1
    <3> QED
      BY <3>1, <3>2, <3>5 DEF s
  <2>2. /\ last[k + 1] = last[(k + 1) - 1] + Len(Serialize(sent'[k + 1]))
        /\ \A i \in 1 .. Len(Serialize(sent'[k + 1])) :
             more[last[(k + 1) - 1] + i] = Serialize(sent'[k + 1])[i]
    <3>1. (k + 1) - 1 = k /\ last[k] = Len(all) /\ Serialize(sent'[k + 1]) = l
      BY <1>6, <1>7, <1>9 DEF l
    <3> QED
      BY <1>8, <1>9, <3>1
  <2>3. last[0] = 0
    BY <1>4, <1>6, <1>9 DEF Layout
  <2>4. ASSUME NEW j \in 1 .. k + 1
        PROVE  /\ last[j] = last[j - 1] + Len(Serialize(sent'[j]))
               /\ \A i \in 1 .. Len(Serialize(sent'[j])) :
                    more[last[j - 1] + i] = Serialize(sent'[j])[i]
    <3>1. CASE j \in 1 .. k
      BY <2>1, <3>1
    <3>2. CASE j = k + 1
      BY <2>2, <3>2, Zenon
    <3> QED
      BY <1>6, <3>1, <3>2
  <2> QED
    BY <1>6, <1>8, <1>9, <2>3, <2>4, Zenon DEF Layout
<1>14. ASSUME step # "ended" PROVE Place(more, last)'
  <2>1. Place(all, pos)
    BY <1>14 DEF Tracks
  <2>2. /\ At(pos) \in Nat /\ Len(buffer) \in Nat /\ Len(stream) \in Nat
    <3>1. At(pos) \in Nat
      BY <1>4, <1>14, <2>1, AtType
    <3> QED
      BY <3>1 DEF WireTypeOK
  <2>3. Len(handled) \in Nat /\ Len(handled) <= k
    BY DEF WireTypeOK, FramingExact
  <2>4. ASSUME Len(handled) < k PROVE Current' = Current
    BY <1>3, <1>6, <2>3, <2>4 DEF Current
  <2>5. Asked'
    <3>1. Asked
      BY <2>1 DEF Place
    <3>2. CASE step = "first"
      BY <1>3, <3>1, <3>2, Zenon DEF Asked
    <3>3. CASE step # "first"
      <4>1. /\ Len(handled) < k /\ step \in StepsOf(Current)
            /\ want = Len(Field(Current, step)) /\ message = SoFar(Current, step)
        BY <3>1, <3>3, Zenon DEF Asked
      <4>2. Current' = Current /\ Len(handled) < Len(sent')
        BY <1>6, <2>3, <2>4, <4>1
      <4> QED
        BY <1>3, <3>3, <4>1, <4>2, Zenon DEF Asked
    <3> QED
      BY <3>2, <3>3
  <2>6. At(last)' = At(pos)
    <3>1. last[Len(handled)] = pos[Len(handled)]
      BY <1>9, <2>3
    <3>2. CASE step = "first"
      BY <1>3, <3>1, <3>2, Zenon DEF At
    <3>3. CASE step # "first"
      <4>1. Len(handled) < k
        BY <2>1, <3>3, Zenon DEF Place, Asked
      <4>2. Current' = Current
        BY <2>4, <4>1
      <4> QED
        BY <1>3, <3>1, <3>3, <4>2, Zenon DEF At
    <3> QED
      BY <3>2, <3>3
  <2>7. /\ Len(stream') = Len(stream) + Len(l)
        /\ \A i \in 1 .. Len(stream) : stream'[i] = stream[i]
        /\ \A i \in 1 .. Len(l) : stream'[Len(stream) + i] = l[i]
    BY <1>3, <1>5 DEF WireTypeOK
  <2>8. /\ At(pos) + Len(buffer) + Len(stream) = Len(all)
        /\ Len(all) \in Nat /\ Len(l) \in Nat
    BY <1>3, <1>5, <1>7, <2>1 DEF Place
  <2>9. \A i \in 1 .. Len(buffer) : buffer[i] = more[At(pos) + i]
    <3> SUFFICES ASSUME NEW i \in 1 .. Len(buffer) PROVE buffer[i] = more[At(pos) + i]
      OBVIOUS
    <3>1. At(pos) + i \in 1 .. Len(all)
      BY <2>2, <2>8
    <3>2. buffer[i] = all[At(pos) + i]
      BY <2>1 DEF Place, Found
    <3> QED
      BY <1>8, <3>1, <3>2
  <2>10. \A i \in 1 .. Len(stream') : stream'[i] = more[At(pos) + Len(buffer) + i]
    <3> SUFFICES ASSUME NEW i \in 1 .. Len(stream')
                 PROVE  stream'[i] = more[At(pos) + Len(buffer) + i]
      OBVIOUS
    <3>1. CASE i \in 1 .. Len(stream)
      <4>1. At(pos) + Len(buffer) + i \in 1 .. Len(all)
        BY <2>2, <2>8, <3>1
      <4>2. stream[i] = all[At(pos) + Len(buffer) + i]
        BY <2>1, <3>1 DEF Place, Found
      <4> QED
        BY <1>8, <2>7, <3>1, <4>1, <4>2
    <3>2. CASE i \in Len(stream) + 1 .. Len(stream) + Len(l)
      <4> DEFINE j == i - Len(stream)
      <4>1. /\ j \in 1 .. Len(l) /\ Len(stream) + j = i
            /\ At(pos) + Len(buffer) + i = Len(all) + j
        BY <2>2, <2>8, <3>2
      <4> HIDE DEF j
      <4>2. stream'[i] = l[j] /\ more[Len(all) + j] = l[j]
        BY <1>8, <2>7, <4>1
      <4> QED
        BY <4>1, <4>2
    <3> QED
      BY <1>5, <2>2, <2>7, <3>1, <3>2
  <2>11. At(pos) + Len(buffer) + Len(stream') = Len(more)
    <3>1. Len(more) = Len(all) + Len(l) /\ Len(stream') = Len(stream) + Len(l)
      BY <1>8, <2>7, Zenon
    <3> DEFINE a == At(pos)
               b == Len(buffer)
               c == Len(stream)
               d == Len(all)
               e == Len(l)
    <3>2. a \in Nat /\ b \in Nat /\ c \in Nat /\ d \in Nat /\ e \in Nat /\ a + b + c = d
      BY <2>2, <2>8
    <3> HIDE DEF a, b, c, d, e
    <3>3. a + b + (c + e) = d + e
      BY <3>2
    <3> QED
      BY <3>1, <3>3, Zenon DEF a, b, c, d, e
  <2>12. At(pos) + Len(buffer) + Len(stream') <= Len(more)
    BY <1>5, <1>7, <1>8, <2>11
  <2> QED
    BY <1>3, <2>5, <2>6, <2>9, <2>10, <2>11, <2>12, Zenon DEF Place, Found
<1> QED
  BY <1>3, <1>11, <1>12, <1>13, <1>14, Zenon DEF FramingInv, Tracks

-----------------------------------------------------------------------------
(* Theorems.                                                               *)

LEMMA FramingInit ==
  ASSUME WireInit
  PROVE  FramingInv
<1> DEFINE pos == [j \in 0 .. 0 |-> 0]
           all == <<>>
<1>1. /\ sent = <<>> /\ stream = <<>> /\ open = TRUE /\ step = "first" /\ want = IntBytes
      /\ buffer = <<>> /\ message = NoMessage /\ handled = <<>>
  BY DEF WireInit
<1>2. /\ IntBytes \in Nat /\ NoMessage \in Parsed
  BY NoMessageType, WireAssumption
<1>3. WireTypeOK
  BY <1>1, <1>2 DEF WireTypeOK
<1>4. FramingExact
  BY <1>1 DEF FramingExact
<1>5. Layout(all, pos)
  <2>1. all \in Seq(Bytes) /\ Len(sent) = 0 /\ Len(all) = 0 /\ pos[0] = 0
    BY <1>1
  <2>2. pos \in [0 .. 0 -> Nat]
    OBVIOUS
  <2> HIDE DEF all, pos
  <2> QED
    BY <2>1, <2>2 DEF Layout
<1>6. Place(all, pos)
  <2>1. At(pos) = 0 /\ Len(buffer) = 0 /\ Len(stream) = 0 /\ Len(all) = 0
    BY <1>1 DEF At
  <2> HIDE DEF all, pos
  <2> QED
    BY <1>1, <2>1 DEF Place, Asked, Found
<1> HIDE DEF all, pos
<1> QED
  BY <1>3, <1>4, <1>5, <1>6, Zenon DEF FramingInv, Tracks

LEMMA FramingStep ==
  ASSUME FramingInv, [WireNext]_wireVars
  PROVE  FramingInv'
<1>1. WireTypeOK /\ FramingExact
  BY DEF FramingInv
<1>2. PICK all, pos : Tracks(all, pos)
  BY DEF FramingInv
<1>3. ASSUME NEW m \in Messages, Send(m) PROVE FramingInv'
  BY <1>1, <1>2, <1>3, SendKeeps
<1>4. CASE Close
  BY <1>1, <1>2, <1>4, CloseKeeps
<1>5. CASE ReadStep
  BY <1>1, <1>2, <1>5, ReceiveKeeps, EndKeeps, ReadMarkerKeeps, ReadLengthKeeps,
     ReadIdKeeps, ReadNameKeeps, ReadSizeKeeps, ReadDataKeeps, Zenon DEF ReadStep
<1>6. CASE UNCHANGED wireVars
  <2>1. /\ sent' = sent /\ stream' = stream /\ open' = open /\ step' = step /\ want' = want
        /\ buffer' = buffer /\ message' = message /\ handled' = handled
    BY <1>6 DEF wireVars, readVars
  <2>2. WireTypeOK' /\ FramingExact'
    BY <1>1, <2>1, Zenon DEF WireTypeOK, FramingExact
  <2>3. Tracks(all, pos)'
    BY <1>2, <2>1, Zenon DEF Tracks, Layout, Place, Asked, At, Current, Found
  <2> QED
    BY <2>2, <2>3, Zenon DEF FramingInv
<1> QED
  BY <1>3, <1>4, <1>5, <1>6, Zenon DEF WireNext

\* The thread asks for a size that is not negative and never gets more, and what it
\* has read has the form of a message: read_message and recvall.
THEOREM TypeCorrect == WireSpec => []WireTypeOK
<1>1. WireInit => FramingInv
  BY FramingInit
<1>2. FramingInv /\ [WireNext]_wireVars => FramingInv'
  BY FramingStep
<1>3. FramingInv => WireTypeOK
  BY Zenon DEF FramingInv
<1> QED
  BY <1>1, <1>2, <1>3, PTL DEF WireSpec

\* For any sizes of bytes and integers, any names, any ids and any data that fit
\* them, and however the socket cuts the stream: read_message returns the messages
\* that serialize_message and serialize_message_with_topic_id made into bytes, in
\* order, none invented, none torn.
THEOREM MessagesAsSent == WireSpec => []FramingExact
<1>1. WireInit => FramingInv
  BY FramingInit
<1>2. FramingInv /\ [WireNext]_wireVars => FramingInv'
  BY FramingStep
<1>3. FramingInv => FramingExact
  BY Zenon DEF FramingInv
<1> QED
  BY <1>1, <1>2, <1>3, PTL DEF WireSpec
=============================================================================
