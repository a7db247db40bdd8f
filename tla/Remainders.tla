------------------------------ MODULE Remainders ------------------------------
(***************************************************************************)
(* Quotients and remainders: the facts that rings (queues of so many        *)
(* places), pages and slots rest on.  The provers know of \div and % little *)
(* more than the definition.                                                *)
(***************************************************************************)
EXTENDS Integers, TLAPS

\* A quotient and a remainder are those of the division.
LEMMA Quotient ==
  ASSUME NEW n \in Nat \ {0}, NEW q \in Nat, NEW r \in 0 .. n - 1
  PROVE  (q * n + r) \div n = q /\ (q * n + r) % n = r
<1> DEFINE x == q * n + r
           d == x \div n
           m == x % n
<1>1. x \in Nat /\ d \in Int /\ m \in 0 .. n - 1 /\ x = d * n + m
  <2>1. x \in Nat
    OBVIOUS
  <2>2. d \in Int /\ m \in 0 .. n - 1
    BY <2>1
  <2>3. x = n * d + m
    BY <2>1
  <2>. QED  BY <2>1, <2>2, <2>3
<1> HIDE DEF d, m
<1>2. (q - d) * n = m - r
  BY <1>1
<1>3. m - r < n /\ r - m < n
  BY <1>1
<1>4. q = d
  <2>1. CASE q > d
    <3>1. (q - d) * n >= n
      BY <1>1, <2>1, SMTT(30)
    <3>. QED  BY <1>1, <1>2, <1>3, <3>1
  <2>2. CASE q < d
    <3>1. (d - q) * n >= n
      BY <1>1, <2>2, SMTT(30)
    <3>2. (d - q) * n = r - m
      BY <1>1, <1>2
    <3>. QED  BY <1>1, <1>3, <3>1, <3>2
  <2>. QED  BY <1>1, <2>1, <2>2
<1>5. m = r
  BY <1>1, <1>4
<1>. QED  BY <1>4, <1>5 DEF d, m

LEMMA Division ==
  ASSUME NEW n \in Nat \ {0}, NEW x \in Nat
  PROVE  x \div n \in Nat /\ x % n \in 0 .. n - 1 /\ x = (x \div n) * n + (x % n)
<1>1. x \div n \in Int /\ x % n \in 0 .. n - 1
  OBVIOUS
<1>2. x = n * (x \div n) + (x % n)
  OBVIOUS
<1> DEFINE d == x \div n
<1> HIDE DEF d
<1>3. d \in Int /\ x = d * n + (x % n)
  BY <1>1, <1>2 DEF d
<1>4. ~(d < 0)
  <2>1. SUFFICES ASSUME d < 0 PROVE FALSE
    OBVIOUS
  <2>2. d * n <= -n
    BY <1>3, <2>1, SMTT(30)
  <2>3. d * n \in Int
    BY <1>3
  <2>. QED  BY <1>1, <1>3, <2>2, <2>3
<1>. QED  BY <1>1, <1>3, <1>4 DEF d

LEMMA SmallRemainder ==
  ASSUME NEW n \in Nat \ {0}, NEW k \in 0 .. n - 1
  PROVE  k % n = k
<1>1. (0 * n + k) % n = k
  BY Quotient
<1>2. 0 * n + k = k
  OBVIOUS
<1>. QED  BY <1>1, <1>2

\* A number less than n further round a ring of n places.
LEMMA Shift ==
  ASSUME NEW n \in Nat \ {0}, NEW x \in Nat, NEW k \in 0 .. n - 1
  PROVE  /\ (x + k) % n = IF (x % n) + k < n THEN (x % n) + k ELSE (x % n) + k - n
         /\ (x + k) \div n = IF (x % n) + k < n THEN x \div n ELSE x \div n + 1
<1> DEFINE d == x \div n
           r == x % n
<1>1. d \in Nat /\ r \in 0 .. n - 1 /\ x = d * n + r
  BY Division
<1> HIDE DEF d, r
<1>2. CASE r + k < n
  <2>1. x + k = d * n + (r + k) /\ r + k \in 0 .. n - 1
    BY <1>1, <1>2
  <2>2. (d * n + (r + k)) % n = r + k /\ (d * n + (r + k)) \div n = d
    BY <1>1, <2>1, Quotient
  <2>. QED  BY <1>2, <2>1, <2>2 DEF d, r
<1>3. CASE ~(r + k < n)
  <2>1. (d + 1) * n = d * n + n
    BY <1>1
  <2>2. x + k = (d + 1) * n + (r + k - n) /\ r + k - n \in 0 .. n - 1 /\ d + 1 \in Nat
    BY <1>1, <1>3, <2>1
  <2>3. /\ ((d + 1) * n + (r + k - n)) % n = r + k - n
        /\ ((d + 1) * n + (r + k - n)) \div n = d + 1
    BY <2>2, Quotient
  <2>. QED  BY <1>3, <2>2, <2>3 DEF d, r
<1>. QED  BY <1>2, <1>3

\* Numbers are ordered by their quotients, then by their remainders.
LEMMA QuotientsOrder ==
  ASSUME NEW n \in Nat \ {0}, NEW x \in Nat, NEW y \in Nat
  PROVE  x < y <=> \/ x \div n < y \div n
                   \/ x \div n = y \div n /\ x % n < y % n
<1> DEFINE d == x \div n
           r == x % n
           e == y \div n
           s == y % n
<1>1. /\ d \in Nat /\ r \in 0 .. n - 1 /\ x = d * n + r
      /\ e \in Nat /\ s \in 0 .. n - 1 /\ y = e * n + s
  BY Division
<1> HIDE DEF d, r, e, s
<1>2. CASE d = e
  BY <1>1, <1>2 DEF d, e, r, s
<1>3. CASE d < e
  <2>1. (e - d) * n >= n
    BY <1>1, <1>3, SMTT(30)
  <2>2. (e - d) * n = e * n - d * n
    BY <1>1
  <2>3. x < y
    BY <1>1, <2>1, <2>2
  <2>. QED  BY <1>3, <2>3 DEF d, e
<1>4. CASE e < d
  <2>1. (d - e) * n >= n
    BY <1>1, <1>4, SMTT(30)
  <2>2. (d - e) * n = d * n - e * n
    BY <1>1
  <2>3. ~(x < y)
    BY <1>1, <2>1, <2>2
  <2>4. ~(d < e) /\ d # e
    BY <1>1, <1>4
  <2>. QED  BY <2>3, <2>4 DEF d, e
<1>. QED  BY <1>1, <1>2, <1>3, <1>4
==============================================================================
