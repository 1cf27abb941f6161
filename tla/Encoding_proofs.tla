--------------------------- MODULE Encoding_proofs ---------------------------
(***************************************************************************)
(* The conversions of Encoding at every base and every width, so also at   *)
(* 16 digits, words of 32 bytes and u64 of 8, and for numbers and byte     *)
(* strings of any size.  All rests on one description of a number by its   *)
(* digits: the values of the prefixes of the digits (PrefixValues), which   *)
(* are also what is left of the number when digits are taken from its end. *)
(***************************************************************************)
EXTENDS Encoding, SequenceTheorems, WellFoundedInduction, TLAPS

-----------------------------------------------------------------------------
\* The order of the natural numbers as a set of pairs.
Below == {p \in Nat \X Nat : p[1] < p[2]}

(* Induction over the natural numbers, for a set instead of a predicate.   *)
LEMMA NatSetInduction ==
  ASSUME NEW G \in SUBSET Nat, 0 \in G, \A n \in G : n + 1 \in G
  PROVE  G = Nat
  <1> DEFINE Bad == Nat \ G
  <1>1. SUFFICES ASSUME Bad # {}
                 PROVE  FALSE
    OBVIOUS
  <1> HIDE DEF Bad
  <1>2. IsWellFoundedOn(Below, Nat)
    BY NatLessThanWellFounded DEF OpToRel, Below
  <1>3. PICK n \in Bad : \A k \in Bad : <<k, n>> \notin Below
    BY <1>1, <1>2, WFMin DEF Bad
  <1>4. n \in Nat /\ n # 0 /\ n \notin G
    BY <1>3 DEF Bad
  <1>5. n - 1 \in Nat /\ <<n - 1, n>> \in Below
    BY <1>4 DEF Below
  <1>6. n - 1 \in G
    BY <1>3, <1>5 DEF Bad
  <1> QED
    BY <1>4, <1>5, <1>6

-----------------------------------------------------------------------------
(* The value of a string of digits.                                        *)

\* What the library's fold computes a value from: the values of all selections
\* of digits, each from the one without its last digit.
IsFold(g, b, d) ==
    g = [s \in SUBSET DOMAIN d |-> IF s = {} THEN 0 ELSE g[s \ {Max(s)}] * b + d[Max(s)]]

(* There is such a function: step by step, for selections that go further. *)
LEMMA FoldExists ==
  ASSUME NEW b, NEW d, NEW L \in Nat, DOMAIN d = 1..L
  PROVE  \E g : IsFold(g, b, d)
  <1> DEFINE Next(g) == [s \in SUBSET DOMAIN d |->
                            IF s = {} THEN 0 ELSE g[s \ {Max(s)}] * b + d[Max(s)]]
             Upto(n, g) == \A s \in SUBSET DOMAIN d : s \subseteq 1..n => g[s] = Next(g)[s]
             N == {n \in Nat : \E g : Upto(n, g)}
  <1>1. 0 \in N
    <2> DEFINE zero == [s \in SUBSET DOMAIN d |-> 0]
    <2>1. \A s : s \subseteq 1..0 => s = {}
      OBVIOUS
    <2>2. Upto(0, zero)
      BY <2>1
    <2> QED  BY <2>2
  <1>2. ASSUME NEW n \in N
        PROVE  n + 1 \in N
    <2>1. PICK g : Upto(n, g)
      OBVIOUS
    <2>2. ASSUME NEW s \in SUBSET DOMAIN d, s \subseteq 1..(n + 1), s # {}
          PROVE  s \ {Max(s)} \in SUBSET DOMAIN d /\ s \ {Max(s)} \subseteq 1..n
      <3>1. CASE n + 1 \in s
        <4>1. \A y \in s : n + 1 >= y
          BY <2>2
        <4>2. Max(s) = n + 1
          BY <2>2, <3>1, <4>1 DEF Max
        <4> QED  BY <2>2, <4>2
      <3>2. CASE n + 1 \notin s
        BY <2>2, <3>2
      <3> QED  BY <3>1, <3>2
    <2>3. ASSUME NEW s \in SUBSET DOMAIN d, s \subseteq 1..(n + 1)
          PROVE  Next(g)[s] = Next(Next(g))[s]
      <3>1. CASE s = {}
        BY <3>1
      <3>2. CASE s # {}
        <4>1. s \ {Max(s)} \in SUBSET DOMAIN d /\ s \ {Max(s)} \subseteq 1..n
          BY <2>2, <2>3, <3>2
        <4>2. g[s \ {Max(s)}] = Next(g)[s \ {Max(s)}]
          BY <2>1, <4>1
        <4> QED  BY <3>2, <4>2
      <3> QED  BY <3>1, <3>2
    <2>4. Upto(n + 1, Next(g))
      BY <2>3
    <2> HIDE DEF Upto, Next
    <2> QED  BY <2>4
  <1>3. N = Nat
    <2> HIDE DEF N
    <2>1. N \in SUBSET Nat
      BY DEF N
    <2> QED  BY <1>1, <1>2, <2>1, NatSetInduction
  <1>4. PICK g : Upto(L, g)
    BY <1>3
  <1> DEFINE h == [s \in SUBSET DOMAIN d |-> g[s]]
  <1>5. ASSUME NEW s \in SUBSET DOMAIN d
        PROVE  h[s] = Next(h)[s]
    BY <1>4, <1>5
  <1>6. h = Next(h)
    BY <1>5
  <1> QED
    BY <1>6 DEF IsFold

\* v holds the values of the prefixes of d.
PrefixValues(v, b, d, L) ==
    /\ v \in [0..L -> Nat]
    /\ v[0] = 0
    /\ \A i \in 1..L : v[i] = v[i - 1] * b + d[i]

(* Every string of digits has them, and Value is the last.                 *)
LEMMA PrefixesExist ==
  ASSUME NEW b \in Nat, NEW L \in Nat, NEW d \in [1..L -> Nat]
  PROVE  \E v : PrefixValues(v, b, d, L) /\ Value(b, d) = v[L]
  <1>1. PICK g : IsFold(g, b, d) /\ Value(b, d) = g[DOMAIN d]
    <2>1. PICK h : IsFold(h, b, d)
      BY FoldExists
    <2> QED  BY <2>1 DEF IsFold, Value, FoldLeft, MapThenFoldSet
  <1> DEFINE v == [i \in 0..L |-> g[1..i]]
             N == {n \in Nat : n <= L => \A i \in 0..n : v[i] \in Nat}
  <1>2. g[{}] = 0
    BY <1>1 DEF IsFold
  <1>3. ASSUME NEW i \in 1..L
        PROVE  v[i] = v[i - 1] * b + d[i]
    <2>1. /\ i \in Nat /\ i <= L /\ i \in 1..i
          /\ DOMAIN d = 1..L
      OBVIOUS
    <2>2. 1..i \in SUBSET DOMAIN d /\ 1..i # {}
      BY <2>1
    <2>3. Max(1..i) = i
      BY DEF Max
    <2>4. (1..i) \ {i} = 1..(i - 1)
      OBVIOUS
    <2>5. g[1..i] = g[(1..i) \ {Max(1..i)}] * b + d[Max(1..i)]
      BY <1>1, <2>2 DEF IsFold
    <2>6. g[1..i] = g[1..(i - 1)] * b + d[i]
      BY <2>3, <2>4, <2>5
    <2>7. v[i] = g[1..i] /\ v[i - 1] = g[1..(i - 1)]
      OBVIOUS
    <2> QED  BY <2>6, <2>7
  <1>4. v[0] = 0
    BY <1>2
  <1>5. N = Nat
    <2>1. 0 \in N
      BY <1>4
    <2>2. ASSUME NEW n \in N
          PROVE  n + 1 \in N
      <3>1. ASSUME n + 1 <= L
            PROVE  v[n + 1] \in Nat
        <4> HIDE DEF v
        <4>1. v[n] \in Nat /\ n + 1 \in 1..L /\ d[n + 1] \in Nat
          BY <2>2, <3>1
        <4>2. v[n + 1] = v[(n + 1) - 1] * b + d[n + 1] /\ (n + 1) - 1 = n
          BY <1>3, <4>1
        <4>3. v[n] * b \in Nat
          BY <4>1
        <4> QED  BY <4>1, <4>2, <4>3
      <3> HIDE DEF v
      <3>2. n + 1 <= L => \A i \in 0..(n + 1) : v[i] \in Nat
        BY <2>2, <3>1
      <3> QED  BY <3>2
    <2> HIDE DEF N
    <2>3. N \in SUBSET Nat
      BY DEF N
    <2> QED  BY <2>1, <2>2, <2>3, NatSetInduction
  <1>6. Value(b, d) = v[L]
    BY <1>1
  <1>7. \A i \in 0..L : v[i] \in Nat
    <2> HIDE DEF v
    <2>1. L \in N
      <3> HIDE DEF N
      <3> QED  BY <1>5
    <2> QED  BY <2>1
  <1>8. v \in [0..L -> Nat]
    BY <1>7
  <1> HIDE DEF v
  <1> QED
    BY <1>3, <1>4, <1>6, <1>8 DEF PrefixValues

(* Nothing else has them, so they determine the value.                     *)
LEMMA ValueIs ==
  ASSUME NEW b \in Nat, NEW L \in Nat, NEW d \in [1..L -> Nat], NEW v, PrefixValues(v, b, d, L)
  PROVE  Value(b, d) = v[L] /\ Value(b, d) \in Nat
  <1>1. PICK u : PrefixValues(u, b, d, L) /\ Value(b, d) = u[L]
    BY PrefixesExist
  <1> DEFINE N == {n \in Nat : n <= L => u[n] = v[n]}
  <1>2. 0 \in N
    BY <1>1 DEF PrefixValues
  <1>3. ASSUME NEW n \in N
        PROVE  n + 1 \in N
    <2>1. ASSUME n + 1 <= L
          PROVE  u[n + 1] = v[n + 1]
      <3>1. n + 1 \in 1..L /\ (n + 1) - 1 = n /\ u[n] = v[n]
        BY <1>3, <2>1
      <3> QED  BY <1>1, <3>1 DEF PrefixValues
    <2> QED  BY <2>1
  <1>4. N = Nat
    <2> HIDE DEF N
    <2>1. N \in SUBSET Nat
      BY DEF N
    <2> QED  BY <1>2, <1>3, <2>1, NatSetInduction
  <1>5. u[L] = v[L]
    BY <1>4
  <1> QED
    BY <1>1, <1>5 DEF PrefixValues

-----------------------------------------------------------------------------
(* Powers.                                                                 *)

(* Every power is the one before, times the base.                          *)
LEMMA PowerFacts ==
  ASSUME NEW b \in Nat
  PROVE  /\ Power(b, 0) = 1
         /\ \A n \in Nat : Power(b, n) \in Nat /\ Power(b, n + 1) = Power(b, n) * b
  <1> DEFINE One(n) == [i \in 1..(n + 1) |-> IF i = 1 THEN 1 ELSE 0]
  <1>1. \A n \in Nat : n + 1 \in Nat /\ One(n) \in [1..(n + 1) -> Nat]
    OBVIOUS
  <1>2. Power(b, 0) = 1
    <2> DEFINE v == [i \in 0..1 |-> i]
    <2>1. PrefixValues(v, b, One(0), 1)
      BY DEF PrefixValues
    <2>2. One(0) \in [1..1 -> Nat]
      OBVIOUS
    <2>3. Value(b, One(0)) = v[1]
      <3> HIDE DEF v, One
      <3> QED  BY <2>1, <2>2, ValueIs
    <2> QED  BY <2>3 DEF Power
  <1>3. ASSUME NEW n \in Nat
        PROVE  Power(b, n) \in Nat /\ Power(b, n + 1) = Power(b, n) * b
    <2>1. PICK v : PrefixValues(v, b, One(n), n + 1) /\ Value(b, One(n)) = v[n + 1]
      <3> HIDE DEF One
      <3> QED  BY <1>1, PrefixesExist
    <2> DEFINE w == [i \in 0..(n + 2) |-> IF i = n + 2 THEN v[n + 1] * b ELSE v[i]]
    <2>2. /\ v \in [0..(n + 1) -> Nat] /\ v[0] = 0 /\ v[n + 1] \in Nat
          /\ \A i \in 1..(n + 1) : v[i] = v[i - 1] * b + One(n)[i]
      <3>1. n + 1 \in 0..(n + 1)
        OBVIOUS
      <3> HIDE DEF One
      <3> QED  BY <2>1, <3>1 DEF PrefixValues
    <2>3. v[n + 1] * b \in Nat
      BY <2>2
    <2>4. w \in [0..(n + 2) -> Nat] /\ w[0] = 0
      BY <2>2, <2>3
    <2>5. ASSUME NEW i \in 1..(n + 2)
          PROVE  w[i] = w[i - 1] * b + One(n + 1)[i]
      <3>1. CASE i = n + 2
        <4>1. w[i] = v[n + 1] * b /\ w[i - 1] = v[n + 1] /\ One(n + 1)[i] = 0
          BY <3>1
        <4> QED  BY <2>3, <4>1
      <3>2. CASE i # n + 2
        <4>1. /\ i \in 1..(n + 1) /\ w[i] = v[i] /\ w[i - 1] = v[i - 1]
              /\ One(n + 1)[i] = One(n)[i]
          BY <3>2
        <4> QED  BY <2>2, <4>1
      <3> QED  BY <3>1, <3>2
    <2>6. PrefixValues(w, b, One(n + 1), n + 2)
      <3> HIDE DEF w, One
      <3> QED  BY <2>4, <2>5 DEF PrefixValues
    <2>7. One(n + 1) \in [1..(n + 2) -> Nat] /\ n + 2 \in Nat
      OBVIOUS
    <2>8. Value(b, One(n + 1)) = w[n + 2]
      <3> HIDE DEF w, One
      <3> QED  BY <2>6, <2>7, ValueIs
    <2>9. w[n + 2] = v[n + 1] * b
      OBVIOUS
    <2> QED  BY <2>1, <2>2, <2>8, <2>9 DEF Power
  <1> QED
    BY <1>2, <1>3

(* Powers grow with the exponent, and beyond it.                           *)
LEMMA PowerGrows ==
  ASSUME NEW b \in Nat, b > 1
  PROVE  /\ \A n \in Nat : Power(b, n) > n
         /\ \A n \in Nat : \A m \in 0..n : Power(b, m) <= Power(b, n)
  <1> DEFINE G == {n \in Nat : /\ Power(b, n) > n
                               /\ \A m \in 0..n : Power(b, m) <= Power(b, n)}
  <1>1. 0 \in G
    <2>1. Power(b, 0) = 1 /\ \A m \in 0..0 : m = 0
      BY PowerFacts
    <2> QED  BY <2>1
  <1>2. ASSUME NEW n \in G
        PROVE  n + 1 \in G
    <2>1. /\ Power(b, n) \in Nat /\ Power(b, n + 1) = Power(b, n) * b
          /\ Power(b, n + 1) \in Nat
      BY PowerFacts
    <2>2. \A x \in Nat : x * b >= x + x
      OBVIOUS
    <2>3. Power(b, n + 1) >= Power(b, n) + Power(b, n)
      BY <2>1, <2>2
    <2>4. Power(b, n + 1) > n + 1
      BY <2>1, <2>3
    <2>5. ASSUME NEW m \in 0..(n + 1)
          PROVE  Power(b, m) <= Power(b, n + 1)
      <3>1. CASE m = n + 1
        BY <2>1, <3>1
      <3>2. CASE m # n + 1
        <4>1. m \in 0..n /\ m \in Nat
          BY <3>2
        <4>2. Power(b, m) <= Power(b, n)
          BY <4>1
        <4>3. Power(b, m) \in Nat
          BY <4>1, PowerFacts
        <4> HIDE DEF G
        <4> QED  BY <2>1, <2>3, <4>2, <4>3
      <3> QED  BY <3>1, <3>2
    <2> QED  BY <2>4, <2>5
  <1>3. G = Nat
    <2> HIDE DEF G
    <2>1. G \in SUBSET Nat
      BY DEF G
    <2> QED  BY <1>1, <1>2, <2>1, NatSetInduction
  <1> QED
    BY <1>3

(* A power of the square has twice the exponent.                           *)
LEMMA PowerSquare ==
  ASSUME NEW b \in Nat
  PROVE  \A n \in Nat : Power(b * b, n) = Power(b, 2 * n)
  <1> DEFINE G == {n \in Nat : Power(b * b, n) = Power(b, 2 * n)}
             c == b * b
  <1>0. c \in Nat
    OBVIOUS
  <1> HIDE DEF c
  <1>1. 0 \in G
    BY <1>0, PowerFacts DEF c
  <1>2. ASSUME NEW n \in G
        PROVE  n + 1 \in G
    <2>1. Power(c, n + 1) = Power(c, n) * c /\ Power(c, n) \in Nat
      BY <1>0, PowerFacts
    <2>2. 2 * n \in Nat /\ 2 * n + 1 \in Nat /\ 2 * (n + 1) = (2 * n + 1) + 1
      OBVIOUS
    <2>3. Power(b, (2 * n + 1) + 1) = Power(b, 2 * n + 1) * b
      BY <2>2, PowerFacts
    <2>4. Power(b, 2 * n + 1) = Power(b, 2 * n) * b
      BY <2>2, PowerFacts
    <2>5. Power(b, 2 * n) = Power(c, n)
      BY DEF c
    <2>6. \A x \in Nat : (x * b) * b = x * (b * b)
      OBVIOUS
    <2>7. Power(b, 2 * (n + 1)) = Power(c, n) * c
      BY <2>1, <2>2, <2>3, <2>4, <2>5, <2>6 DEF c
    <2>8. Power(c, n + 1) = Power(b, 2 * (n + 1))
      BY <2>1, <2>7
    <2> QED  BY <2>8 DEF c
  <1>3. G = Nat
    <2> HIDE DEF G
    <2>1. G \in SUBSET Nat
      BY DEF G
    <2> QED  BY <1>1, <1>2, <2>1, NatSetInduction
  <1> QED
    BY <1>3

-----------------------------------------------------------------------------
(* Digits.                                                                 *)

(* Quotient and remainder, and what they are determined by.                *)
LEMMA Quotient ==
  ASSUME NEW x \in Nat, NEW b \in Nat, b > 0
  PROVE  /\ x \div b \in Nat /\ x % b \in 0..(b - 1)
         /\ x = (x \div b) * b + (x % b)
         /\ x \div 1 = x
         /\ x \div b = 0 <=> x < b
  <1>1. x \div b \in Nat /\ x % b \in 0..(b - 1) /\ x = (x \div b) * b + (x % b)
    OBVIOUS
  <1>2. x < b => x \div b = 0
    OBVIOUS
  <1>3. x \div b = 0 => x < b
    OBVIOUS
  <1>4. x \div 1 = x
    OBVIOUS
  <1> QED
    BY <1>1, <1>2, <1>3, <1>4

(* Nothing else is quotient and remainder.                                 *)
LEMMA QuotientOf ==
  ASSUME NEW b \in Nat, NEW q \in Nat, NEW r \in 0..(b - 1)
  PROVE  (q * b + r) \div b = q /\ (q * b + r) % b = r
  OBVIOUS

(* Division by a product.                                                  *)
LEMMA QuotientTwice ==
  ASSUME NEW x \in Nat, NEW p \in Nat, p > 0, NEW b \in Nat, b > 0
  PROVE  (x \div p) \div b = x \div (p * b)
  <1>1. PICK q \in Nat, r \in 0..(p - 1) : x = q * p + r /\ q = x \div p
    BY Quotient
  <1>2. PICK s \in Nat, t \in 0..(b - 1) : q = s * b + t /\ s = q \div b
    BY Quotient
  <1>3. t * p + r \in Nat /\ t * p + r < p * b /\ p * b \in Nat
    <2>1. t + 1 \in Nat /\ t + 1 <= b
      OBVIOUS
    <2>2. \A u \in Nat : u <= b => u * p <= b * p
      OBVIOUS
    <2>3. (t + 1) * p <= b * p
      BY <2>1, <2>2
    <2>4. (t + 1) * p = t * p + p /\ b * p = p * b /\ t * p \in Nat /\ b * p \in Nat
      OBVIOUS
    <2> QED  BY <2>3, <2>4
  <1>4. (s * b + t) * p + r = s * (p * b) + (t * p + r)
    OBVIOUS
  <1>5. x = s * (p * b) + (t * p + r)
    BY <1>1, <1>2, <1>4
  <1> DEFINE c == p * b
             y == t * p + r
  <1>6. c \in Nat /\ y \in 0..(c - 1) /\ x = s * c + y
    BY <1>3, <1>5
  <1> HIDE DEF c, y
  <1>7. x \div c = s
    BY <1>6, QuotientOf
  <1> QED
    BY <1>1, <1>2, <1>7 DEF c

(* Powers by which digits are split off.                                   *)
LEMMA Splits ==
  ASSUME NEW b \in Nat, b > 1, NEW n \in Nat, NEW k \in Nat
  PROVE  /\ Power(b, k) \in Nat /\ Power(b, k) > 0
         /\ n \div Power(b, k) \in Nat
         /\ (n \div Power(b, k)) \div b = n \div Power(b, k + 1)
         /\ n \div Power(b, 0) = n
         /\ n \div Power(b, k) = 0 <=> n < Power(b, k)
  <1>1. /\ Power(b, k) \in Nat /\ Power(b, k) > k /\ Power(b, k + 1) = Power(b, k) * b
        /\ Power(b, 0) = 1
    BY PowerFacts, PowerGrows
  <1>2. Power(b, k) > 0
    BY <1>1
  <1> QED
    BY <1>1, <1>2, Quotient, QuotientTwice

\* The last L digits of n in base b.
Digits(b, n, L) == [i \in 1..L |-> (n \div Power(b, L - i)) % b]

(* A number that has no more than L digits is their value.                 *)
LEMMA DigitsValue ==
  ASSUME NEW b \in Nat, b > 1, NEW L \in Nat, NEW n \in Nat, n < Power(b, L)
  PROVE  /\ Digits(b, n, L) \in [1..L -> 0..(b - 1)]
         /\ Value(b, Digits(b, n, L)) = n
  <1> DEFINE v == [i \in 0..L |-> n \div Power(b, L - i)]
  <1>1. ASSUME NEW k \in Nat
        PROVE  /\ n \div Power(b, k) \in Nat
               /\ (n \div Power(b, k)) \div b = n \div Power(b, k + 1)
    <2> HIDE DEF v
    <2>1. n \div Power(b, k) \in Nat
      BY Splits
    <2>2. (n \div Power(b, k)) \div b = n \div Power(b, k + 1)
      BY Splits
    <2> QED  BY <2>1, <2>2
  <1>2. ASSUME NEW i \in 1..L
        PROVE  v[i] = v[i - 1] * b + Digits(b, n, L)[i]
    <2>1. L - i \in Nat /\ L - (i - 1) = (L - i) + 1 /\ i \in 0..L /\ i - 1 \in 0..L
      OBVIOUS
    <2> DEFINE x == n \div Power(b, L - i)
    <2>2. x \in Nat /\ x \div b = n \div Power(b, L - (i - 1))
      BY <1>1, <2>1
    <2>3. v[i] = x /\ v[i - 1] = x \div b /\ Digits(b, n, L)[i] = x % b
      BY <2>1, <2>2 DEF Digits
    <2> HIDE DEF x, v
    <2>4. x = (x \div b) * b + (x % b)
      BY <2>2, Quotient
    <2> QED  BY <2>3, <2>4
  <1>3. v \in [0..L -> Nat]
    BY <1>1
  <1>4. v[0] = 0 /\ v[L] = n
    <2>1. n \div Power(b, L) = 0 /\ n \div Power(b, 0) = n
      BY Splits
    <2> QED  BY <2>1
  <1>5. Digits(b, n, L) \in [1..L -> 0..(b - 1)]
    <2>1. ASSUME NEW i \in 1..L
          PROVE  (n \div Power(b, L - i)) % b \in 0..(b - 1)
      <3>1. n \div Power(b, L - i) \in Nat
        BY <1>1
      <3> QED  BY <3>1, Quotient
    <2> QED  BY <2>1 DEF Digits
  <1>6. Digits(b, n, L) \in [1..L -> Nat]
    BY <1>5
  <1>7. PrefixValues(v, b, Digits(b, n, L), L)
    <2> HIDE DEF v
    <2> QED  BY <1>2, <1>3, <1>4 DEF PrefixValues
  <1>8. Value(b, Digits(b, n, L)) = v[L]
    <2> HIDE DEF v
    <2> QED  BY <1>6, <1>7, ValueIs
  <1> QED
    BY <1>4, <1>5, <1>8

(* Digits are those of their value, which is below the power of their      *)
(* number; the first one tells whether it is below the power before.       *)
LEMMA ValueDigits ==
  ASSUME NEW b \in Nat, b > 1, NEW L \in Nat, NEW d \in [1..L -> 0..(b - 1)]
  PROVE  /\ Value(b, d) \in Nat
         /\ Value(b, d) < Power(b, L)
         /\ d = Digits(b, Value(b, d), L)
         /\ L > 0 => (d[1] = 0 <=> Value(b, d) < Power(b, L - 1))
  <1>0. d \in [1..L -> Nat]
    OBVIOUS
  <1>1. PICK v : PrefixValues(v, b, d, L) /\ Value(b, d) = v[L]
    BY <1>0, PrefixesExist
  <1> DEFINE n == v[L]
             G == {k \in Nat : k <= L => v[L - k] = n \div Power(b, k)}
  <1>2. /\ v \in [0..L -> Nat] /\ v[0] = 0 /\ n \in Nat
        /\ \A i \in 1..L : v[i] = v[i - 1] * b + d[i]
    BY <1>1 DEF PrefixValues
  <1> HIDE DEF n
  <1>3. ASSUME NEW i \in 1..L
        PROVE  v[i - 1] = v[i] \div b /\ d[i] = v[i] % b
    <2>1. v[i - 1] \in Nat /\ d[i] \in 0..(b - 1) /\ v[i] = v[i - 1] * b + d[i]
      BY <1>2
    <2>2. /\ (v[i - 1] * b + d[i]) \div b = v[i - 1]
          /\ (v[i - 1] * b + d[i]) % b = d[i]
      BY <2>1, QuotientOf
    <2> QED  BY <2>1, <2>2
  <1>4. 0 \in G
    <2>1. n \div Power(b, 0) = n
      BY <1>2, Splits
    <2> QED  BY <1>2, <2>1 DEF n
  <1>5. ASSUME NEW k \in G
        PROVE  k + 1 \in G
    <2>1. ASSUME k + 1 <= L
          PROVE  v[L - (k + 1)] = n \div Power(b, k + 1)
      <3>1. L - k \in 1..L /\ (L - k) - 1 = L - (k + 1)
        BY <2>1
      <3>2. v[L - (k + 1)] = v[L - k] \div b
        BY <1>3, <3>1
      <3>3. v[L - k] = n \div Power(b, k)
        BY <2>1
      <3>4. (n \div Power(b, k)) \div b = n \div Power(b, k + 1)
        BY <1>2, Splits
      <3> QED  BY <3>2, <3>3, <3>4
    <2> QED  BY <2>1
  <1>6. G = Nat
    <2> HIDE DEF G
    <2>1. G \in SUBSET Nat
      BY DEF G
    <2> QED  BY <1>4, <1>5, <2>1, NatSetInduction
  <1>7. ASSUME NEW i \in 0..L
        PROVE  v[i] = n \div Power(b, L - i)
    <2>1. L - i \in G /\ L - i <= L /\ L - (L - i) = i
      <3> HIDE DEF G
      <3> QED  BY <1>6
    <2> QED  BY <2>1
  <1>8. n < Power(b, L)
    <2>1. n \div Power(b, L) = 0
      BY <1>2, <1>7
    <2> QED  BY <1>2, <2>1, Splits
  <1>9. d = Digits(b, n, L)
    <2>1. \A i \in 1..L : d[i] = (n \div Power(b, L - i)) % b
      BY <1>3, <1>7
    <2> QED  BY <2>1 DEF Digits
  <1>10. ASSUME L > 0
         PROVE  d[1] = 0 <=> n < Power(b, L - 1)
    <2>1. 1 \in 1..L /\ 1 \in 0..L /\ L - 1 \in Nat
      BY <1>10
    <2>2. v[1] = v[1 - 1] * b + d[1] /\ d[1] \in Nat
      BY <1>2, <2>1
    <2>3. v[1] = d[1]
      BY <1>2, <2>2
    <2>4. d[1] = n \div Power(b, L - 1)
      BY <1>7, <2>1, <2>3
    <2>5. n \div Power(b, L - 1) = 0 <=> n < Power(b, L - 1)
      BY <1>2, <2>1, Splits
    <2> QED  BY <2>4, <2>5
  <1> QED
    BY <1>1, <1>2, <1>8, <1>9, <1>10 DEF n

-----------------------------------------------------------------------------
(* The conversions.                                                        *)

(* The constants.                                                          *)
LEMMA Widths ==
    /\ Base \in Nat /\ Base > 1 /\ Byte \in Nat /\ Byte > 1 /\ Byte = Base * Base
    /\ Width \in Nat /\ Width > 1 /\ U64 \in Nat /\ U64 > 0 /\ U64 < Width
    /\ None \notin Nat /\ None \notin Seq(Nat)
  <1>1. /\ Base \in Nat /\ Base > 1 /\ Width \in Nat /\ U64 \in Nat /\ U64 > 0 /\ U64 < Width
        /\ None \notin Nat /\ None \notin Seq(Nat)
    BY EncodingAssumption
  <1>2. Base * Base \in Nat /\ Base * Base > 1
    BY <1>1
  <1> QED
    BY <1>1, <1>2 DEF Byte

(* A string of digits is a sequence of numbers.                            *)
LEMMA DigitsSeq ==
  ASSUME NEW b \in Nat, b > 1, NEW L \in Nat, NEW n \in Nat
  PROVE  /\ Digits(b, n, L) \in [1..L -> 0..(b - 1)]
         /\ Digits(b, n, L) \in Seq(Nat) /\ Len(Digits(b, n, L)) = L
  <1>1. ASSUME NEW i \in 1..L
        PROVE  (n \div Power(b, L - i)) % b \in 0..(b - 1)
    <2>1. n \div Power(b, L - i) \in Nat
      BY Splits
    <2> QED  BY <2>1, Quotient
  <1>2. Digits(b, n, L) \in [1..L -> 0..(b - 1)]
    BY <1>1 DEF Digits
  <1> QED
    BY <1>2

(* Hex writes the number with as many digits as it has.                    *)
LEMMA HexIs ==
  ASSUME NEW n \in Nat
  PROVE  \E w \in Nat : /\ w >= 1 /\ n < Power(Base, w)
                        /\ w > 1 => n >= Power(Base, w - 1)
                        /\ Hex(n) = Digits(Base, n, w)
  <1> DEFINE Fits(w) == n < Power(Base, w) /\ (w > 1 => n >= Power(Base, w - 1))
             G == {m \in Nat : m >= 1 /\ n < Power(Base, m) => \E w \in 1..m : Fits(w)}
  <1>1. 0 \in G
    OBVIOUS
  <1>2. ASSUME NEW m \in G
        PROVE  m + 1 \in G
    <2>1. ASSUME n < Power(Base, m + 1)
          PROVE  \E w \in 1..(m + 1) : Fits(w)
      <3>1. CASE m >= 1 /\ n < Power(Base, m)
        <4>1. PICK w \in 1..m : Fits(w)
          BY <3>1
        <4> QED  BY <4>1
      <3>2. CASE m = 0
        BY <2>1, <3>2
      <3>3. CASE m >= 1 /\ ~(n < Power(Base, m))
        <4>1. Power(Base, m) \in Nat
          BY Widths, PowerFacts
        <4>2. Fits(m + 1)
          BY <2>1, <3>3, <4>1
        <4> HIDE DEF Fits
        <4> QED  BY <4>2
      <3> QED  BY <3>1, <3>2, <3>3
    <2> HIDE DEF Fits
    <2> QED  BY <2>1
  <1>3. G = Nat
    <2> HIDE DEF G
    <2>1. G \in SUBSET Nat
      BY DEF G
    <2> QED  BY <1>1, <1>2, <2>1, NatSetInduction
  <1>4. n < Power(Base, n + 1)
    <2>1. n + 1 \in Nat /\ Base \in Nat /\ Base > 1
      BY Widths
    <2>2. Power(Base, n + 1) > n + 1 /\ Power(Base, n + 1) \in Nat
      BY <2>1, PowerGrows, PowerFacts
    <2> QED  BY <2>2
  <1>5. \E w \in 1..(n + 1) : Fits(w)
    <2> HIDE DEF Fits
    <2> QED  BY <1>3, <1>4
  <1> DEFINE w == CHOOSE w \in 1..(n + 1) : Fits(w)
  <1>6. w \in 1..(n + 1) /\ Fits(w)
    BY <1>5
  <1>7. Hex(n) = Digits(Base, n, w)
    BY DEF Hex, Digits
  <1> HIDE DEF w
  <1> QED
    BY <1>6, <1>7

(* What has been padded has the digits of the number, and zeros in front.  *)
LEMMA PadIs ==
  ASSUME NEW n \in Nat, NEW L \in Nat, L >= 1, n < Power(Base, L)
  PROVE  PadStart(Hex(n), L) = Digits(Base, n, L)
  <1>1. PICK w \in Nat : /\ w >= 1 /\ n < Power(Base, w)
                         /\ w > 1 => n >= Power(Base, w - 1)
                         /\ Hex(n) = Digits(Base, n, w)
    BY HexIs
  <1>2. Base \in Nat /\ Base > 1 /\ \A k \in Nat : Power(Base, k) \in Nat
    BY Widths, PowerFacts
  <1>3. w <= L
    <2>1. ASSUME w > L
          PROVE  FALSE
      <3>1. w - 1 \in Nat /\ L \in 0..(w - 1) /\ w > 1
        BY <2>1
      <3>2. Power(Base, L) <= Power(Base, w - 1)
        BY <1>2, <3>1, PowerGrows
      <3> QED  BY <1>1, <1>2, <3>1, <3>2
    <2> QED  BY <2>1
  <1> DEFINE h == Digits(Base, n, w)
             z == [i \in 1..(L - w) |-> 0]
  <1>4. h \in Seq(Nat) /\ Len(h) = w
    BY <1>2, DigitsSeq
  <1>5. z \in Seq(Nat) /\ Len(z) = L - w
    BY <1>3
  <1>6. ASSUME NEW i \in 1..L
        PROVE  Digits(Base, n, L)[i] = IF i <= L - w THEN 0 ELSE h[i - (L - w)]
    <2>1. Digits(Base, n, L)[i] = (n \div Power(Base, L - i)) % Base
      BY DEF Digits
    <2>2. CASE i <= L - w
      <3>1. L - i \in Nat /\ w \in 0..(L - i)
        BY <1>3, <2>2
      <3>2. Power(Base, w) <= Power(Base, L - i)
        BY <1>2, <3>1, PowerGrows
      <3>3. n < Power(Base, L - i)
        BY <1>1, <1>2, <3>1, <3>2
      <3>4. n \div Power(Base, L - i) = 0
        BY <1>2, <3>1, <3>3, Splits
      <3>5. 0 % Base = 0
        BY <1>2
      <3> QED  BY <2>1, <2>2, <3>4, <3>5
    <2>3. CASE i > L - w
      <3>1. i - (L - w) \in 1..w /\ w - (i - (L - w)) = L - i
        BY <1>3, <2>3
      <3> QED  BY <2>1, <2>3, <3>1 DEF Digits
    <2> QED  BY <1>3, <2>2, <2>3
  <1>7. PadStart(Hex(n), L) = z \o h
    BY <1>1, <1>4 DEF PadStart
  <1>8. Digits(Base, n, L) \in Seq(Nat) /\ Len(Digits(Base, n, L)) = L
    BY <1>2, DigitsSeq
  <1> HIDE DEF h, z
  <1>9. z \o h \in Seq(Nat) /\ Len(z \o h) = L
    BY <1>3, <1>4, <1>5
  <1>10. \A i \in 1..L : (z \o h)[i] = IF i <= L - w THEN 0 ELSE h[i - (L - w)]
    <2>1. \A i \in 1..Len(z) + Len(h) :
             (z \o h)[i] = IF i <= Len(z) THEN z[i] ELSE h[i - Len(z)]
      BY <1>4, <1>5, ConcatProperties
    <2>2. Len(z) + Len(h) = L
      BY <1>3, <1>4, <1>5
    <2>3. \A i \in 1..L : i <= L - w => z[i] = 0
      BY <1>3 DEF z
    <2> QED  BY <1>4, <1>5, <2>1, <2>2, <2>3
  <1>11. z \o h = Digits(Base, n, L)
    <2>1. \A i \in 1..Len(z \o h) : (z \o h)[i] = Digits(Base, n, L)[i]
      BY <1>6, <1>9, <1>10
    <2> QED  BY <1>8, <1>9, <2>1, SeqEqual
  <1> QED
    BY <1>7, <1>11

(* A byte is its two hexadecimal digits.                                   *)
LEMMA TwoDigits ==
  ASSUME NEW x \in Nat
  PROVE  x % Byte = ((x \div Base) % Base) * Base + (x % Base)
  <1> DEFINE q == x \div Base
             s == q \div Base
             r == (q % Base) * Base + (x % Base)
  <1>1. Base \in Nat /\ Base > 0 /\ Byte \in Nat /\ Byte = Base * Base
    BY Widths
  <1>2. q \in Nat /\ x % Base \in 0..(Base - 1) /\ x = q * Base + (x % Base)
    BY <1>1, Quotient
  <1>3. s \in Nat /\ q % Base \in 0..(Base - 1) /\ q = s * Base + (q % Base)
    BY <1>1, <1>2, Quotient
  <1>4. r \in 0..(Byte - 1)
    <2>1. (q % Base) + 1 <= Base /\ (q % Base) + 1 \in Nat
      BY <1>1, <1>3
    <2>2. \A u \in Nat : u <= Base => u * Base <= Base * Base
      BY <1>1
    <2>3. ((q % Base) + 1) * Base <= Base * Base
      BY <2>1, <2>2
    <2>4. /\ ((q % Base) + 1) * Base = (q % Base) * Base + Base
          /\ (q % Base) * Base \in Nat
      BY <1>1, <1>3
    <2> HIDE DEF q, s
    <2> QED  BY <1>1, <1>2, <2>3, <2>4
  <1>5. x = s * Byte + r
    <2>1. \A u, v \in Nat : (u * Base + v) * Base = u * (Base * Base) + v * Base
      BY <1>1
    <2>2. (s * Base + (q % Base)) * Base = s * Byte + (q % Base) * Base
      BY <1>1, <1>3, <2>1
    <2>3. s * Byte \in Nat /\ (q % Base) * Base \in Nat
      BY <1>1, <1>3
    <2>4. q * Base = s * Byte + (q % Base) * Base
      BY <1>3, <2>2
    <2>5. x = (s * Byte + (q % Base) * Base) + (x % Base)
      BY <1>2, <2>4
    <2>6. x % Base \in Nat
      BY <1>1, <1>2
    <2> HIDE DEF q, s
    <2> QED  BY <2>3, <2>5, <2>6
  <1> HIDE DEF r, s
  <1>6. x % Byte = r
    BY <1>1, <1>3, <1>4, <1>5, QuotientOf
  <1> QED
    BY <1>6 DEF r

(* The digits of a byte of a number are the digits of the number there.    *)
LEMMA ByteAt ==
  ASSUME NEW n \in Nat, NEW L \in Nat, NEW j \in 1..L
  PROVE  /\ Digits(Byte, n, L)[j] = (n \div Power(Base, 2 * L - 2 * j)) % Byte
         /\ Digits(Base, n, 2 * L)[2 * j] = (n \div Power(Base, 2 * L - 2 * j)) % Base
         /\ Digits(Base, n, 2 * L)[2 * j - 1] =
              ((n \div Power(Base, 2 * L - 2 * j)) \div Base) % Base
         /\ n \div Power(Base, 2 * L - 2 * j) \in Nat
  <1>1. /\ L - j \in Nat /\ 2 * (L - j) = 2 * L - 2 * j /\ 2 * L - 2 * j \in Nat
        /\ 2 * L - (2 * j - 1) = (2 * L - 2 * j) + 1
        /\ 2 * j \in 1..(2 * L) /\ 2 * j - 1 \in 1..(2 * L)
    OBVIOUS
  <1>2. Base \in Nat /\ Base > 1 /\ Byte = Base * Base
    BY Widths
  <1>3. Power(Byte, L - j) = Power(Base, 2 * L - 2 * j)
    BY <1>1, <1>2, PowerSquare
  <1>4. /\ n \div Power(Base, 2 * L - 2 * j) \in Nat
        /\ (n \div Power(Base, 2 * L - 2 * j)) \div Base
             = n \div Power(Base, (2 * L - 2 * j) + 1)
    BY <1>1, <1>2, Splits
  <1>5. Digits(Byte, n, L)[j] = (n \div Power(Base, 2 * L - 2 * j)) % Byte
    BY <1>3 DEF Digits
  <1>6. Digits(Base, n, 2 * L)[2 * j] = (n \div Power(Base, 2 * L - 2 * j)) % Base
    BY <1>1 DEF Digits
  <1>7. Digits(Base, n, 2 * L)[2 * j - 1] =
              ((n \div Power(Base, 2 * L - 2 * j)) \div Base) % Base
    BY <1>1, <1>4 DEF Digits
  <1> QED
    BY <1>4, <1>5, <1>6, <1>7

(* The bytes that an even number of hexadecimal digits stand for.          *)
LEMMA FromHexIs ==
  ASSUME NEW n \in Nat, NEW L \in Nat
  PROVE  FromHex(Digits(Base, n, 2 * L)) = Digits(Byte, n, L)
  <1>1. Len(Digits(Base, n, 2 * L)) = 2 * L /\ (2 * L) \div 2 = L
    <2>1. 2 * L \in Nat /\ (2 * L) \div 2 = L
      OBVIOUS
    <2> QED  BY <2>1, Widths, DigitsSeq
  <1>2. ASSUME NEW j \in 1..L
        PROVE  Digits(Base, n, 2 * L)[2 * j - 1] * Base + Digits(Base, n, 2 * L)[2 * j]
                 = Digits(Byte, n, L)[j]
    <2> DEFINE x == n \div Power(Base, 2 * L - 2 * j)
    <2>1. /\ Digits(Byte, n, L)[j] = x % Byte
          /\ Digits(Base, n, 2 * L)[2 * j] = x % Base
          /\ Digits(Base, n, 2 * L)[2 * j - 1] = (x \div Base) % Base
          /\ x \in Nat
      BY ByteAt
    <2> HIDE DEF x
    <2>2. x % Byte = ((x \div Base) % Base) * Base + (x % Base)
      BY <2>1, TwoDigits
    <2> QED  BY <2>1, <2>2
  <1>3. FromHex(Digits(Base, n, 2 * L))
          = [j \in 1..L |-> Digits(Base, n, 2 * L)[2 * j - 1] * Base
                              + Digits(Base, n, 2 * L)[2 * j]]
    BY <1>1 DEF FromHex
  <1>4. Digits(Byte, n, L) = [j \in 1..L |-> Digits(Byte, n, L)[j]]
    BY DEF Digits
  <1> QED
    BY <1>2, <1>3, <1>4

(* bigintToBytes32 writes a uint256 in as many bytes as that has.          *)
LEMMA Bytes32 ==
  ASSUME NEW n \in Nat, n < Power(Byte, Width)
  PROVE  BigintToBytes32(n) = Digits(Byte, n, Width)
  <1>1. Power(Byte, Width) = Power(Base, 2 * Width)
    BY Widths, PowerSquare
  <1>2. 2 * Width \in Nat /\ 2 * Width >= 1 /\ Width \in Nat
    BY Widths
  <1>3. PadStart(Hex(n), 2 * Width) = Digits(Base, n, 2 * Width)
    BY <1>1, <1>2, PadIs
  <1> QED
    BY <1>2, <1>3, FromHexIs DEF BigintToBytes32

(* buffer.toString('hex') writes the digits of the number the bytes are.   *)
LEMMA ToHexIs ==
  ASSUME NEW L \in Nat, NEW b \in [1..L -> 0..(Byte - 1)]
  PROVE  ToHex(b) = Digits(Base, U256(b), 2 * L)
  <1> DEFINE n == U256(b)
  <1>1. n \in Nat /\ b = Digits(Byte, n, L)
    BY Widths, ValueDigits DEF U256
  <1> HIDE DEF n
  <1>2. Len(b) = L
    OBVIOUS
  <1>3. ASSUME NEW i \in 1..(2 * L)
        PROVE  (IF i % 2 = 1 THEN b[(i + 1) \div 2] \div Base ELSE b[(i + 1) \div 2] % Base)
                 = Digits(Base, n, 2 * L)[i]
    <2> DEFINE j == (i + 1) \div 2
               x == n \div Power(Base, 2 * L - 2 * j)
    <2>1. /\ j \in 1..L
          /\ i % 2 = 1 => i = 2 * j - 1
          /\ i % 2 # 1 => i = 2 * j
      OBVIOUS
    <2> HIDE DEF j
    <2>2. /\ b[j] = x % Byte
          /\ Digits(Base, n, 2 * L)[2 * j] = x % Base
          /\ Digits(Base, n, 2 * L)[2 * j - 1] = (x \div Base) % Base
          /\ x \in Nat
      BY <1>1, <2>1, ByteAt
    <2> HIDE DEF x
    <2> DEFINE q == (x \div Base) % Base
               r == x % Base
    <2>3. b[j] = q * Base + r
      BY <2>2, TwoDigits
    <2>4. q \in 0..(Base - 1) /\ r \in 0..(Base - 1) /\ Base \in Nat
      BY <2>2, Widths, Quotient
    <2> HIDE DEF q, r
    <2>5. (q * Base + r) \div Base = q /\ (q * Base + r) % Base = r
      BY <2>4, QuotientOf
    <2>6. b[j] \div Base = q /\ b[j] % Base = r
      BY <2>3, <2>5
    <2> QED  BY <2>1, <2>2, <2>6 DEF q, r, j
  <1>4. ToHex(b) = [i \in 1..(2 * L) |-> Digits(Base, n, 2 * L)[i]]
    BY <1>2, <1>3 DEF ToHex
  <1>5. Digits(Base, n, 2 * L) = [i \in 1..(2 * L) |-> Digits(Base, n, 2 * L)[i]]
    BY DEF Digits
  <1> QED
    BY <1>4, <1>5 DEF n

(* Reading what was written gives the number back.                         *)
LEMMA ReadsBack ==
  /\ \A n \in Nat : BigInt(Hex(n)) = n
  /\ \A L \in Nat : \A b \in [1..L -> 0..(Byte - 1)] :
       U256(b) \in Nat /\ U256(b) < Power(Byte, L) /\ BigInt(ToHex(b)) = U256(b)
  <1>1. ASSUME NEW n \in Nat
        PROVE  BigInt(Hex(n)) = n
    <2>1. PICK w \in Nat : n < Power(Base, w) /\ Hex(n) = Digits(Base, n, w)
      BY HexIs
    <2> QED  BY <2>1, Widths, DigitsValue DEF BigInt
  <1>2. ASSUME NEW L \in Nat, NEW b \in [1..L -> 0..(Byte - 1)]
        PROVE  U256(b) \in Nat /\ U256(b) < Power(Byte, L) /\ BigInt(ToHex(b)) = U256(b)
    <2>1. U256(b) \in Nat /\ U256(b) < Power(Byte, L)
      BY Widths, ValueDigits DEF U256
    <2>2. Power(Byte, L) = Power(Base, 2 * L) /\ 2 * L \in Nat
      BY Widths, PowerSquare
    <2>3. Value(Base, Digits(Base, U256(b), 2 * L)) = U256(b)
      BY <2>1, <2>2, Widths, DigitsValue
    <2> QED  BY <2>1, <2>3, ToHexIs DEF BigInt
  <1> QED
    BY <1>1, <1>2

(* There is a number of zeros in front.                                    *)
LEMMA ZerosExist ==
  ASSUME NEW L \in Nat, NEW b \in [1..L -> Nat]
  PROVE  /\ LeadingZeros(b) \in 0..L
         /\ \A i \in 1..LeadingZeros(b) : b[i] = 0
         /\ LeadingZeros(b) < L => b[LeadingZeros(b) + 1] # 0
  <1> DEFINE OnlyZeros(z) == (\A i \in 1..z : b[i] = 0) /\ (z < L => b[z + 1] # 0)
             Found == \E z \in 0..L : OnlyZeros(z)
             G == {m \in Nat : m <= L => Found \/ \A i \in 1..m : b[i] = 0}
  <1>1. 0 \in G
    BY DEF G
  <1>2. ASSUME NEW m \in G
        PROVE  m + 1 \in G
    <2>1. ASSUME m + 1 <= L, ~Found
          PROVE  \A i \in 1..(m + 1) : b[i] = 0
      <3>1. \A i \in 1..m : b[i] = 0
        BY <2>1
      <3>2. m \in 0..L /\ m < L
        BY <2>1
      <3>3. b[m + 1] = 0
        BY <2>1, <3>1, <3>2
      <3> QED  BY <3>1, <3>3
    <2> HIDE DEF Found
    <2> QED  BY <2>1
  <1>3. G = Nat
    <2> HIDE DEF G
    <2>1. G \in SUBSET Nat
      BY DEF G
    <2> QED  BY <1>1, <1>2, <2>1, NatSetInduction
  <1>4. Found
    <2>1. ASSUME ~Found
          PROVE  FALSE
      <3>1. L \in G
        BY <1>3
      <3>2. \A i \in 1..L : b[i] = 0
        <4> HIDE DEF Found
        <4> QED  BY <2>1, <3>1
      <3>3. OnlyZeros(L) /\ L \in 0..L
        BY <3>2
      <3> QED  BY <2>1, <3>3
    <2> QED  BY <2>1
  <1>5. LeadingZeros(b) = CHOOSE z \in 0..L : OnlyZeros(z)
    BY DEF LeadingZeros
  <1>6. LeadingZeros(b) \in 0..L /\ OnlyZeros(LeadingZeros(b))
    <2> HIDE DEF OnlyZeros
    <2> QED  BY <1>4, <1>5
  <1> QED
    BY <1>6

(* Zeros in front change no value.                                         *)
LEMMA TailValue ==
  ASSUME NEW b \in Nat, NEW L \in Nat, NEW d \in [1..L -> Nat],
         NEW z \in 0..L, \A i \in 1..z : d[i] = 0,
         NEW t \in [1..(L - z) -> Nat], \A i \in 1..(L - z) : t[i] = d[z + i]
  PROVE  Value(b, t) = Value(b, d)
  <1>1. PICK v : PrefixValues(v, b, d, L) /\ Value(b, d) = v[L]
    BY PrefixesExist
  <1>2. /\ v \in [0..L -> Nat] /\ v[0] = 0
        /\ \A i \in 1..L : v[i] = v[i - 1] * b + d[i]
    BY <1>1 DEF PrefixValues
  <1> DEFINE G == {m \in Nat : m <= z => v[m] = 0}
  <1>3. 0 \in G
    BY <1>2
  <1>4. ASSUME NEW m \in G
        PROVE  m + 1 \in G
    <2>1. ASSUME m + 1 <= z
          PROVE  v[m + 1] = 0
      <3>1. m + 1 \in 1..L /\ m + 1 \in 1..z /\ (m + 1) - 1 = m /\ v[m] = 0
        BY <2>1
      <3>2. v[m + 1] = v[m] * b + d[m + 1] /\ d[m + 1] = 0
        BY <1>2, <3>1
      <3> QED  BY <3>1, <3>2
    <2> QED  BY <2>1
  <1>5. G = Nat
    <2> HIDE DEF G
    <2>1. G \in SUBSET Nat
      BY DEF G
    <2> QED  BY <1>3, <1>4, <2>1, NatSetInduction
  <1>6. v[z] = 0
    <2>1. z \in G
      <3> HIDE DEF G
      <3> QED  BY <1>5
    <2> QED  BY <2>1
  <1> DEFINE w == [i \in 0..(L - z) |-> v[z + i]]
  <1>7. w \in [0..(L - z) -> Nat] /\ w[0] = 0 /\ w[L - z] = v[L]
    BY <1>2, <1>6
  <1>8. ASSUME NEW i \in 1..(L - z)
        PROVE  w[i] = w[i - 1] * b + t[i]
    <2>1. z + i \in 1..L /\ (z + i) - 1 = z + (i - 1) /\ i - 1 \in 0..(L - z) /\ i \in 0..(L - z)
      OBVIOUS
    <2>2. v[z + i] = v[z + (i - 1)] * b + d[z + i]
      BY <1>2, <2>1
    <2>3. w[i] = v[z + i] /\ w[i - 1] = v[z + (i - 1)] /\ t[i] = d[z + i]
      BY <2>1
    <2> HIDE DEF w
    <2> QED  BY <2>2, <2>3
  <1> HIDE DEF w
  <1>9. PrefixValues(w, b, t, L - z)
    BY <1>7, <1>8 DEF PrefixValues
  <1>10. L - z \in Nat
    OBVIOUS
  <1>11. Value(b, t) = w[L - z]
    BY <1>9, <1>10, ValueIs
  <1> QED
    BY <1>1, <1>7, <1>11

(* bytes_to_u64_number decides by the number of bytes that are left, which *)
(* is deciding by the value.                                               *)
LEMMA BytesToU64Is ==
  ASSUME NEW L \in Nat, NEW b \in [1..L -> 0..(Byte - 1)]
  PROVE  BytesToU64(b) = IF U256(b) < Power(Byte, U64) THEN U256(b) ELSE None
  <1> DEFINE z == LeadingZeros(b)
             t == SubSeq(b, z + 1, L)
             k == L - z
  <1>0. Byte \in Nat /\ Byte > 1 /\ U64 \in Nat /\ U64 > 0
    BY Widths
  <1>1. b \in [1..L -> Nat] /\ Len(b) = L
    BY <1>0
  <1>2. z \in 0..L /\ (\A i \in 1..z : b[i] = 0) /\ (z < L => b[z + 1] # 0)
    BY <1>1, ZerosExist
  <1> HIDE DEF z
  <1>3. k \in Nat /\ t \in [1..k -> 0..(Byte - 1)] /\ \A i \in 1..k : t[i] = b[z + i]
    <2>1. t = [i \in 1..k |-> b[z + i]]
      BY <1>2 DEF SubSeq
    <2>2. \A i \in 1..k : z + i \in 1..L
      BY <1>2
    <2> HIDE DEF t
    <2> QED  BY <1>2, <2>1, <2>2
  <1> HIDE DEF t
  <1>4. t \in [1..k -> Nat]
    BY <1>0, <1>3
  <1>5. U256(t) = U256(b)
    <2>1. t \in [1..(L - z) -> Nat] /\ \A i \in 1..(L - z) : t[i] = b[z + i]
      BY <1>3, <1>4
    <2>2. z \in 0..L /\ \A i \in 1..z : b[i] = 0
      BY <1>2
    <2>3. Value(Byte, t) = Value(Byte, b)
      <3> HIDE DEF k
      <3>1. Byte \in Nat /\ b \in [1..L -> Nat]
        BY <1>0, <1>1
      <3> QED  BY <2>1, <2>2, <3>1, TailValue
    <2> QED  BY <2>3 DEF U256
  <1>6. BytesToU64(b) = IF k > U64 THEN None ELSE U256(b)
    <2>1. BytesToU64(b) = IF k > U64 THEN None ELSE U256(t)
      BY <1>1 DEF BytesToU64, t, z
    <2> QED  BY <1>5, <2>1
  <1>7. /\ U256(t) \in Nat /\ U256(t) < Power(Byte, k)
        /\ k > 0 => (t[1] = 0 <=> U256(t) < Power(Byte, k - 1))
    BY <1>0, <1>3, ValueDigits DEF U256
  <1>8. k > 0 => t[1] # 0
    <2>1. k > 0 => z < L /\ 1 \in 1..k
      BY <1>2
    <2> QED  BY <1>2, <1>3, <2>1
  <1>9. \A m \in Nat : Power(Byte, m) \in Nat
    BY <1>0, PowerFacts
  <1>10. CASE k > U64
    <2>1. k - 1 \in Nat /\ U64 \in 0..(k - 1) /\ k > 0
      BY <1>0, <1>3, <1>10
    <2>2. Power(Byte, U64) <= Power(Byte, k - 1)
      BY <1>0, <2>1, PowerGrows
    <2>3. ~(U256(t) < Power(Byte, k - 1))
      BY <1>7, <1>8, <2>1
    <2>4. ~(U256(b) < Power(Byte, U64))
      BY <1>0, <1>5, <1>7, <1>9, <2>1, <2>2, <2>3
    <2> QED  BY <1>6, <1>10, <2>4
  <1>11. CASE ~(k > U64)
    <2>1. k \in 0..U64
      BY <1>0, <1>3, <1>11
    <2>2. Power(Byte, k) <= Power(Byte, U64)
      BY <1>0, <2>1, PowerGrows
    <2>3. U256(b) < Power(Byte, U64)
      BY <1>0, <1>3, <1>5, <1>7, <1>9, <2>2
    <2> QED  BY <1>6, <1>11, <2>3
  <1> QED
    BY <1>10, <1>11

-----------------------------------------------------------------------------
(* What callers pass and what is converted are numbers and byte strings.   *)
EncodingTyped ==
    /\ session \in Nat /\ amount \in Nat
    /\ bytes \in Seq(0..(Byte - 1))

(* They always are.                                                        *)
LEMMA EncodingAlwaysTyped == EncodingSpec => []EncodingTyped
  <1>1. EncodingInit => EncodingTyped
    BY DEF EncodingInit, EncodingTyped
  <1>2. EncodingTyped /\ [EncodingNext]_vars => EncodingTyped'
    <2> SUFFICES ASSUME EncodingTyped, [EncodingNext]_vars
                 PROVE  EncodingTyped'
      OBVIOUS
    <2>1. CASE UNCHANGED vars
      BY <2>1 DEF EncodingTyped, vars
    <2>2. CASE session' = session + 1 /\ UNCHANGED <<amount, bytes>>
      BY <2>2 DEF EncodingTyped
    <2>3. CASE amount' = amount + 1 /\ UNCHANGED <<session, bytes>>
      BY <2>3 DEF EncodingTyped
    <2>4. CASE /\ \E b \in 0..(Byte - 1) : bytes' = Append(bytes, b)
               /\ UNCHANGED <<session, amount>>
      BY <2>4 DEF EncodingTyped
    <2> QED  BY <2>1, <2>2, <2>3, <2>4 DEF EncodingNext
  <1> QED
    BY <1>1, <1>2, PTL DEF EncodingSpec

(* The byte string, as the lemmas take it.                                 *)
LEMMA BytesAre ==
  ASSUME EncodingTyped
  PROVE  Len(bytes) \in Nat /\ bytes \in [1..Len(bytes) -> 0..(Byte - 1)]
  BY LenProperties DEF EncodingTyped

(* Whatever session id and amount a caller passes, the program computes    *)
(* the trade id of the SDK from the bytes it is sent and takes the amount  *)
(* that was meant, or nothing is deposited.                                *)
THEOREM DepositAlwaysAsMeant == EncodingSpec => []DepositIsAsMeant
  <1>1. ASSUME NEW n \in Nat, ~AbiThrows(n)
        PROVE  /\ BigintToBytes32(n) \in [1..Width -> 0..(Byte - 1)]
               /\ Len(BigintToBytes32(n)) = Width
               /\ U256(BigintToBytes32(n)) = n
    <2>1. n < Power(Byte, Width)
      <3>1. Power(Byte, Width) \in Nat
        BY Widths, PowerFacts
      <3> QED  BY <1>1, <3>1 DEF AbiThrows
    <2>2. BigintToBytes32(n) = Digits(Byte, n, Width)
      BY <2>1, Bytes32
    <2>3. /\ Digits(Byte, n, Width) \in [1..Width -> 0..(Byte - 1)]
          /\ Len(Digits(Byte, n, Width)) = Width
      BY Widths, DigitsSeq
    <2>4. Value(Byte, Digits(Byte, n, Width)) = n
      BY <2>1, Widths, DigitsValue
    <2> QED  BY <2>2, <2>3, <2>4 DEF U256
  <1>2. ASSUME EncodingTyped
        PROVE  DepositIsAsMeant
    <2> DEFINE input == GetTradeInput
               s == BigintToBytes32(session)
               a == BigintToBytes32(amount)
    <2>1. SUFFICES ASSUME input # None
                   PROVE  /\ Len(input.sessionId) = Width /\ Len(input.amountIn) = Width
                          /\ CalculateTradeId(input) = input.tradeId
                          /\ BytesToU64(input.amountIn) =
                               IF amount < Power(Byte, U64) THEN amount ELSE None
      BY DEF DepositIsAsMeant
    <2>2. ~AbiThrows(session) /\ ~AbiThrows(amount)
      BY <2>1 DEF GetTradeInput
    <2>3. input = [sessionId |-> s, amountIn |-> a, tradeId |-> <<session, amount>>]
      BY <2>2 DEF GetTradeInput
    <2>4. session \in Nat /\ amount \in Nat
      BY <1>2 DEF EncodingTyped
    <2> HIDE DEF input, s, a
    <2>5. Len(s) = Width /\ U256(s) = session
      BY <1>1, <2>2, <2>4 DEF s
    <2>6. a \in [1..Width -> 0..(Byte - 1)] /\ Len(a) = Width /\ U256(a) = amount
      BY <1>1, <2>2, <2>4 DEF a
    <2>7. input.sessionId = s /\ input.amountIn = a /\ input.tradeId = <<session, amount>>
      BY <2>3
    <2>8. CalculateTradeId(input) = input.tradeId
      BY <2>5, <2>6, <2>7 DEF CalculateTradeId
    <2>9. BytesToU64(a) = IF U256(a) < Power(Byte, U64) THEN U256(a) ELSE None
      BY <2>6, Widths, BytesToU64Is
    <2> QED  BY <2>5, <2>6, <2>7, <2>8, <2>9
  <1> QED
    BY <1>2, EncodingAlwaysTyped, PTL

(* Of a byte string of any length, bytes_to_u64_number returns the value   *)
(* if that is a u64 and an error otherwise.                                *)
THEOREM U64AtEveryLength == EncodingSpec => []U64OfAnyLength
  <1>1. EncodingTyped => U64OfAnyLength
    BY BytesAre, BytesToU64Is DEF U64OfAnyLength
  <1> QED
    BY <1>1, EncodingAlwaysTyped, PTL

(* The two forms of the id of a trade: all its digits, and those that are  *)
(* printed, which are the same unless the first digit is a zero.           *)
LEMMA Forms ==
  ASSUME EncodingTyped, IsTradeId(bytes)
  PROVE  LET whole == SdkTradeId(bytes) shown == TradeIdBytesToString(bytes) IN
         /\ whole \in Seq(Nat) /\ shown \in Seq(Nat)
         /\ whole # None /\ shown # None
         /\ BigInt(whole) = U256(bytes) /\ BigInt(shown) = U256(bytes)
         /\ BigintToBytes32(U256(bytes)) = bytes
         /\ (whole[1] # 0 \/ Len(whole) = 1) <=> shown = whole
         /\ shown[1] # 0 \/ Len(shown) = 1
  <1> DEFINE n == U256(bytes)
             whole == Digits(Base, n, 2 * Width)
             shown == Hex(n)
  <1>0. /\ Base \in Nat /\ Base > 1 /\ Byte \in Nat /\ Byte > 1 /\ Width \in Nat /\ Width > 1
        /\ 2 * Width \in Nat /\ 2 * Width > 1 /\ 2 * Width - 1 \in Nat
        /\ Power(Byte, Width) = Power(Base, 2 * Width)
    BY Widths, PowerSquare
  <1>1. bytes \in [1..Width -> 0..(Byte - 1)]
    BY BytesAre DEF IsTradeId
  <1>2. n \in Nat /\ n < Power(Base, 2 * Width) /\ BigInt(ToHex(bytes)) = n
    BY <1>0, <1>1, ReadsBack
  <1>3. SdkTradeId(bytes) = whole /\ TradeIdBytesToString(bytes) = shown
    <2>1. ToHex(bytes) = whole
      BY <1>0, <1>1, ToHexIs
    <2> QED  BY <1>2, <2>1 DEF SdkTradeId, TradeIdBytesToString
  <1>4. BigInt(whole) = n /\ BigInt(shown) = n
    BY <1>2, <1>3, ReadsBack DEF SdkTradeId
  <1>5. BigintToBytes32(n) = bytes
    <2>1. n < Power(Byte, Width)
      BY <1>0, <1>2
    <2>2. BigintToBytes32(n) = Digits(Byte, n, Width)
      BY <1>2, <2>1, Bytes32
    <2>3. bytes = Digits(Byte, n, Width)
      BY <1>0, <1>1, ValueDigits DEF U256
    <2> QED  BY <2>2, <2>3
  <1> HIDE DEF n
  <1>6. PICK w \in Nat : /\ w >= 1 /\ n < Power(Base, w)
                         /\ w > 1 => n >= Power(Base, w - 1)
                         /\ shown = Digits(Base, n, w)
    BY <1>2, HexIs
  <1>7. /\ whole \in [1..(2 * Width) -> 0..(Base - 1)]
        /\ whole \in Seq(Nat) /\ Len(whole) = 2 * Width
    BY <1>0, <1>2, DigitsSeq
  <1>8. /\ shown \in [1..w -> 0..(Base - 1)]
        /\ shown \in Seq(Nat) /\ Len(shown) = w
    <2>1. /\ Digits(Base, n, w) \in [1..w -> 0..(Base - 1)]
          /\ Digits(Base, n, w) \in Seq(Nat) /\ Len(Digits(Base, n, w)) = w
      BY <1>0, <1>2, DigitsSeq
    <2> QED  BY <1>6, <2>1
  <1>9. \A k \in Nat : Power(Base, k) \in Nat
    BY <1>0, PowerFacts
  <1> HIDE DEF whole, shown
  <1>10. whole[1] = 0 <=> n < Power(Base, 2 * Width - 1)
    <2>1. 2 * Width > 0 => (whole[1] = 0 <=> Value(Base, whole) < Power(Base, 2 * Width - 1))
      BY <1>0, <1>7, ValueDigits
    <2>2. Value(Base, whole) = n
      BY <1>4 DEF BigInt
    <2> QED  BY <1>0, <2>1, <2>2
  <1>11. shown[1] # 0 \/ Len(shown) = 1
    <2>1. ASSUME w > 1
          PROVE  shown[1] # 0
      <3>1. w > 0 => (shown[1] = 0 <=> Value(Base, shown) < Power(Base, w - 1))
        BY <1>0, <1>8, ValueDigits
      <3>2. Value(Base, shown) = n
        BY <1>4 DEF BigInt
      <3>3. w - 1 \in Nat /\ Power(Base, w - 1) \in Nat /\ n >= Power(Base, w - 1)
        BY <1>6, <1>9, <2>1
      <3> QED  BY <1>2, <2>1, <3>1, <3>2, <3>3
    <2> QED  BY <1>6, <1>8, <2>1
  <1>12. ASSUME whole[1] # 0
         PROVE  shown = whole
    <2>1. n >= Power(Base, 2 * Width - 1)
      BY <1>0, <1>2, <1>9, <1>10, <1>12
    <2>2. ~(w < 2 * Width)
      <3>1. ASSUME w < 2 * Width
            PROVE  FALSE
        <4>1. w \in 0..(2 * Width - 1)
          BY <1>0, <3>1
        <4>2. Power(Base, w) <= Power(Base, 2 * Width - 1)
          BY <1>0, <4>1, PowerGrows
        <4>3. Power(Base, w) \in Nat /\ Power(Base, 2 * Width - 1) \in Nat
          BY <1>0, <1>9
        <4> QED  BY <1>2, <1>6, <2>1, <4>2, <4>3
      <3> QED  BY <3>1
    <2>3. ~(w > 2 * Width)
      <3>1. ASSUME w > 2 * Width
            PROVE  FALSE
        <4>1. 2 * Width \in 0..(w - 1) /\ w - 1 \in Nat /\ w > 1
          BY <1>0, <3>1
        <4>2. Power(Base, 2 * Width) <= Power(Base, w - 1)
          BY <1>0, <4>1, PowerGrows
        <4>3. Power(Base, w - 1) \in Nat /\ Power(Base, 2 * Width) \in Nat
          BY <1>0, <1>9, <4>1
        <4> QED  BY <1>2, <1>6, <4>1, <4>2, <4>3
      <3> QED  BY <3>1
    <2>4. w = 2 * Width
      BY <1>0, <2>2, <2>3
    <2> QED  BY <1>6, <2>4 DEF whole
  <1>13. ASSUME whole[1] = 0
         PROVE  shown # whole
    <2>1. shown = whole => Len(shown) = 2 * Width
      BY <1>7
    <2>2. shown = whole => shown[1] = 0
      BY <1>13
    <2> QED  BY <1>0, <1>11, <2>1, <2>2
  <1>14. Len(whole) # 1
    BY <1>0, <1>7
  <1>15. whole # None /\ shown # None
    BY <1>7, <1>8, Widths
  <1>16. (whole[1] # 0 \/ Len(whole) = 1) <=> shown = whole
    BY <1>12, <1>13, <1>14
  <1> QED
    BY <1>3, <1>4, <1>5, <1>7, <1>8, <1>11, <1>15, <1>16 DEF n

(* The receipts of a trade are found by either form of its id.             *)
THEOREM ReceiptsFoundById == EncodingSpec => []ReceiptFoundById
  <1>1. ASSUME EncodingTyped, IsTradeId(bytes),
               NEW id \in {SdkTradeId(bytes), TradeIdBytesToString(bytes)}
        PROVE  GetPaymentReceiptAddresses({Receipt}, Ask(id)) = {Receipt}
    <2>1. BigInt(id) = U256(bytes) /\ BigintToBytes32(U256(bytes)) = bytes
      BY <1>1, Forms
    <2>2. ReceiptOf(Receipt, id)
      BY <2>1 DEF ReceiptOf, Receipt
    <2>3. Ask(id).fromUser = None /\ Ask(id).toUser = None /\ Ask(id).tradeId = id
      BY DEF Ask
    <2> QED  BY <2>2, <2>3 DEF GetPaymentReceiptAddresses
  <1>2. EncodingTyped => ReceiptFoundById
    BY <1>1 DEF ReceiptFoundById
  <1> QED
    BY <1>2, EncodingAlwaysTyped, PTL

(* The fetch commands find a trade and its payments by the id the command  *)
(* line prints, and by the id the SDK computes exactly if that does not    *)
(* start with a zero.                                                      *)
THEOREM FetchFindsAsStated == EncodingSpec => []FetchFindsById
  <1>1. ASSUME EncodingTyped, IsTradeId(bytes),
               NEW id \in {SdkTradeId(bytes), TradeIdBytesToString(bytes)}
        PROVE  LET whole == id[1] # 0 \/ Len(id) = 1 IN
               /\ FetchTradeDetail({Detail}, Ask(id)) = IF whole THEN {Detail} ELSE {}
               /\ FetchPayment({Receipt}, Ask(id)) = IF whole THEN {Receipt} ELSE {}
    <2> DEFINE whole == id[1] # 0 \/ Len(id) = 1
    <2>1. id # None /\ (whole <=> TradeIdBytesToString(bytes) = id)
      BY <1>1, Forms
    <2>2. /\ Ask(id).tradeId = id /\ Ask(id).token = None /\ Ask(id).status = None
          /\ Ask(id).from = None /\ Ask(id).to = None
          /\ Detail.tradeId = bytes /\ Receipt.tradeId = bytes
      BY DEF Ask, Detail, Receipt
    <2> HIDE DEF whole
    <2>3. FetchTradeDetail({Detail}, Ask(id)) = IF whole THEN {Detail} ELSE {}
      BY <2>1, <2>2 DEF FetchTradeDetail
    <2>4. FetchPayment({Receipt}, Ask(id)) = IF whole THEN {Receipt} ELSE {}
      BY <2>1, <2>2 DEF FetchPayment
    <2> QED  BY <2>3, <2>4 DEF whole
  <1>2. EncodingTyped => FetchFindsById
    BY <1>1 DEF FetchFindsById
  <1> QED
    BY <1>2, EncodingAlwaysTyped, PTL
=============================================================================
