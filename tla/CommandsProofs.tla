---------------------------- MODULE CommandsProofs ----------------------------
(***************************************************************************)
(* Theorems about Commands, for any functions, virtual methods, widths and *)
(* bounds: every value stays in the range of its type, the null pointer    *)
(* comes only from fields and from functions that return objects, numbers  *)
(* obey the laws of arithmetic, and a safe call leaves the same stack      *)
(* whether its receiver is null or not.                                    *)
(***************************************************************************)
EXTENDS Commands, FiniteSetTheorems, WellFoundedInduction, TLAPS

(* Induction over the numbers, by the least number of a set.               *)
LEMMA LeastNumber ==
    ASSUME NEW T, T \subseteq Nat, T # {}
    PROVE  \E m \in T : \A k \in T : m <= k
<1>. DEFINE R == OpToRel(<, Nat)
<1>1. IsWellFoundedOn(R, Nat)
  BY NatLessThanWellFounded
<1>. HIDE DEF R
<1>2. PICK m \in T : \A k \in T : <<k, m>> \notin R
  BY <1>1, WFMin
<1>3. ASSUME NEW k \in T PROVE m <= k
  <2>1. k \in Nat /\ m \in Nat /\ <<k, m>> \notin R
    BY <1>2
  <2>2. ~(k < m)
    BY <2>1 DEF R, OpToRel
  <2>. QED  BY <2>1, <2>2
<1>. QED  BY <1>3

LEMMA Induction ==
    ASSUME NEW S, 0 \in S, \A n \in Nat : n \in S => n + 1 \in S
    PROVE  Nat \subseteq S
<1>. DEFINE T == Nat \ S
<1>1. ASSUME T # {} PROVE FALSE
  <2>1. PICK m \in T : \A k \in T : m <= k
    BY <1>1, LeastNumber
  <2>2. m # 0 /\ m - 1 \in Nat /\ m - 1 \notin T
    BY <2>1
  <2>3. m - 1 \in S /\ m - 1 + 1 = m
    BY <2>2, <2>1
  <2>. QED  BY <2>3, <2>2
<1>. QED  BY <1>1

(* Division, by any quotient and remainder that fit.                       *)
LEMMA DivisionUnique ==
    ASSUME NEW n \in Int, NEW d \in Nat \ {0}, NEW q \in Int, NEW r \in 0..(d - 1), n = d * q + r
    PROVE  n \div d = q /\ n % d = r
<1>. DEFINE u == n \div d
            v == n % d
<1>1. u \in Int /\ v \in 0..(d - 1) /\ n = d * u + v
  OBVIOUS
<1>. HIDE DEF u, v
<1>2. d * q \in Int /\ d * u \in Int
  BY <1>1
<1>3. ASSUME u < q PROVE FALSE
  <2>1. q = u + (q - u) /\ q - u \in Nat /\ q - u >= 1
    BY <1>1, <1>3
  <2>2. ASSUME NEW e \in Nat, e >= 1, q = u + e
        PROVE  FALSE
    <3>1. d * q = d * u + d * e /\ d * e \in Nat /\ d * e >= d
      BY <1>1, <2>2
    <3>. QED  BY <1>1, <1>2, <3>1
  <2>. QED  BY <2>1, <2>2
<1>4. ASSUME q < u PROVE FALSE
  <2>1. u = q + (u - q) /\ u - q \in Nat /\ u - q >= 1
    BY <1>1, <1>4
  <2>2. ASSUME NEW e \in Nat, e >= 1, u = q + e
        PROVE  FALSE
    <3>1. d * u = d * q + d * e /\ d * e \in Nat /\ d * e >= d
      BY <1>1, <2>2
    <3>. QED  BY <1>1, <1>2, <3>1
  <2>. QED  BY <2>1, <2>2
<1>5. q = u
  BY <1>1, <1>3, <1>4
<1>6. v = r
  BY <1>1, <1>2, <1>5
<1>. QED  BY <1>5, <1>6 DEF u, v

(* Doubling the divisor takes one more bit into the remainder, and halving *)
(* a number drops its lowest.                                              *)
LEMMA NextBit ==
    ASSUME NEW n \in Int, NEW d \in Nat \ {0}
    PROVE  n % (2 * d) = (n % d) + d * ((n \div d) % 2)
<1>. DEFINE u == n \div d
            v == n % d
            q == u \div 2
            e == u % 2
<1>1. u \in Int /\ v \in 0..(d - 1) /\ n = d * u + v
  OBVIOUS
<1>. HIDE DEF u, v
<1>2. q \in Int /\ e \in 0..1 /\ u = 2 * q + e
  BY <1>1
<1>. HIDE DEF q, e
<1>3. d * u = (2 * d) * q + d * e /\ d * e \in 0..d
  BY <1>1, <1>2
<1>4. n = (2 * d) * q + (v + d * e)
  BY <1>1, <1>2, <1>3
<1>5. v + d * e \in 0..(2 * d - 1)
  <2>1. CASE e = 0
    BY <1>1, <2>1
  <2>2. CASE e = 1
    BY <1>1, <2>2
  <2>. QED  BY <1>2, <2>1, <2>2
<1>. DEFINE D == 2 * d
            w == v + d * e
<1>6. D \in Nat \ {0} /\ w \in 0..(D - 1) /\ n = D * q + w
  BY <1>4, <1>5
<1>. HIDE DEF D, w
<1>7. n % D = w
  BY <1>2, <1>6, DivisionUnique
<1>. QED  BY <1>7 DEF D, w, u, v, e

LEMMA HigherBit ==
    ASSUME NEW n \in Int, NEW d \in Nat \ {0}, NEW e \in {0, 1}
    PROVE  (2 * n + e) \div (2 * d) = n \div d
<1>. DEFINE u == n \div d
            v == n % d
<1>1. u \in Int /\ v \in 0..(d - 1) /\ n = d * u + v
  OBVIOUS
<1>. HIDE DEF u, v
<1>. DEFINE m == 2 * n + e
            D == 2 * d
            w == 2 * v + e
<1>2. m \in Int /\ D \in Nat \ {0} /\ w \in 0..(D - 1)
  BY <1>1
<1>3. m = D * u + w
  BY <1>1
<1>. HIDE DEF m, D, w
<1>4. m \div D = u
  BY <1>1, <1>2, <1>3, DivisionUnique
<1>. QED  BY <1>4 DEF m, D, u
-----------------------------------------------------------------------------
(* The powers of two that the widths need.                                 *)
Places == 0..(IntBits + PromotedBits)

LEMMA PowersArePositive == \A n \in Places : 2^n \in Nat \ {0}
<1>. DEFINE S == {n \in Nat : n \in Places => 2^n \in Nat \ {0}}
<1>1. 0 \in S
  BY PowersOfTwo
<1>2. ASSUME NEW n \in Nat, n \in S
      PROVE  n + 1 \in S
  <2>1. CASE n + 1 \in Places
    <3>1. n \in Places
      BY <2>1, WidthAssumption DEF Places
    <3>2. 2^n \in Nat \ {0} /\ 2^(n + 1) = 2 * 2^n
      BY <1>2, <3>1, PowersOfTwo DEF Places
    <3>3. \A p \in Nat \ {0} : 2 * p \in Nat \ {0}
      OBVIOUS
    <3>. QED  BY <3>2, <3>3
  <2>2. CASE n + 1 \notin Places
    BY <2>2
  <2>. QED  BY <2>1, <2>2
<1>. HIDE DEF S
<1>3. Nat \subseteq S
  BY <1>1, <1>2, Induction
<1>4. Places \subseteq Nat
  BY DEF Places
<1>. QED  BY <1>3, <1>4 DEF S

LEMMA PowersDouble == \A n \in Places : n + 1 \in Places => 2^(n + 1) = 2 * 2^n
  BY PowersOfTwo DEF Places

LEMMA PowersGrow ==
    ASSUME NEW n \in Places, NEW m \in Places, n <= m
    PROVE  2^n <= 2^m
<1>. DEFINE S == {k \in Nat : n + k \in Places => 2^n <= 2^(n + k)}
<1>1. 0 \in S
  <2>1. n + 0 = n
    BY DEF Places
  <2>2. 2^n \in Nat
    BY PowersArePositive
  <2>3. \A p \in Nat : p <= p
    OBVIOUS
  <2>. QED  BY <2>1, <2>2, <2>3
<1>2. ASSUME NEW k \in Nat, k \in S
      PROVE  k + 1 \in S
  <2>1. CASE n + (k + 1) \in Places
    <3>1. n + k \in Places /\ n + (k + 1) = (n + k) + 1
      BY <2>1, WidthAssumption DEF Places
    <3>2. 2^(n + (k + 1)) = 2 * 2^(n + k)
      BY <2>1, <3>1, PowersDouble
    <3>3. 2^n \in Nat /\ 2^(n + k) \in Nat /\ 2^n <= 2^(n + k)
      BY <1>2, <3>1, PowersArePositive
    <3>4. \A p, q \in Nat : p <= q => p <= 2 * q
      OBVIOUS
    <3>. QED  BY <3>2, <3>3, <3>4
  <2>2. CASE n + (k + 1) \notin Places
    BY <2>2
  <2>. QED  BY <2>1, <2>2
<1>. HIDE DEF S
<1>3. Nat \subseteq S
  BY <1>1, <1>2, Induction
<1>4. m - n \in Nat /\ n + (m - n) = m
  BY DEF Places
<1>. QED  BY <1>3, <1>4 DEF S

(* The bits of n below the k-th as a number.                               *)
Low(n, k) == n % 2^k
Bit(n, i) == (n \div 2^i) % 2

LEMMA LowFacts ==
    ASSUME NEW n \in Int
    PROVE  /\ Low(n, 0) = 0
           /\ \A k \in Places : /\ Low(n, k) \in 0..(2^k - 1) /\ Bit(n, k) \in {0, 1}
                                /\ 2^k \in Nat \ {0}
           /\ \A k \in Places : k + 1 \in Places => Low(n, k + 1) = Low(n, k) + 2^k * Bit(n, k)
<1>1. Low(n, 0) = 0
  <2>1. n % 1 = 0
    OBVIOUS
  <2>. QED  BY <2>1, PowersOfTwo DEF Low
<1>2. ASSUME NEW k \in Places
      PROVE  Low(n, k) \in 0..(2^k - 1) /\ Bit(n, k) \in {0, 1}
  <2>1. PICK d \in Nat \ {0} : d = 2^k
    BY PowersArePositive
  <2>2. n % d \in 0..(d - 1) /\ (n \div d) % 2 \in {0, 1}
    OBVIOUS
  <2>. QED  BY <2>1, <2>2 DEF Low, Bit
<1>3. ASSUME NEW k \in Places, k + 1 \in Places
      PROVE  Low(n, k + 1) = Low(n, k) + 2^k * Bit(n, k)
  <2>1. PICK d \in Nat \ {0} : d = 2^k
    BY PowersArePositive
  <2>2. 2^(k + 1) = 2 * d
    BY <1>3, <2>1, PowersDouble
  <2>3. n % (2 * d) = (n % d) + d * ((n \div d) % 2)
    BY NextBit
  <2>. QED  BY <2>1, <2>2, <2>3 DEF Low, Bit
<1>. QED  BY <1>1, <1>2, <1>3, PowersArePositive

(* Numbers that add up bit by bit, add up.                                 *)
LEMMA SumsOfBits ==
    ASSUME NEW k \in Places, NEW m \in Int, NEW n \in Int, NEW x \in Int, NEW y \in Int,
           \A i \in 0..(k - 1) : Bit(m, i) + Bit(n, i) = Bit(x, i) + Bit(y, i)
    PROVE  Low(m, k) + Low(n, k) = Low(x, k) + Low(y, k)
<1>. DEFINE S == {j \in Nat : j <= k => Low(m, j) + Low(n, j) = Low(x, j) + Low(y, j)}
<1>1. 0 \in S
  BY LowFacts
<1>2. ASSUME NEW j \in Nat, j \in S
      PROVE  j + 1 \in S
  <2>1. CASE j + 1 <= k
    <3>1. j \in Places /\ j + 1 \in Places /\ j \in 0..(k - 1) /\ j <= k
      BY <2>1, WidthAssumption DEF Places
    <3>2. PICK d \in Nat \ {0} : d = 2^j
      BY <3>1, PowersArePositive
    <3>3. \A v \in Int : /\ Low(v, j + 1) = Low(v, j) + d * Bit(v, j)
                         /\ Low(v, j) \in 0..(d - 1) /\ Bit(v, j) \in {0, 1}
      BY <3>1, <3>2, LowFacts
    <3>4. Bit(m, j) + Bit(n, j) = Bit(x, j) + Bit(y, j)
      BY <3>1
    <3>5. Low(m, j) + Low(n, j) = Low(x, j) + Low(y, j)
      BY <1>2, <3>1
    <3>6. \A p, q, r, s \in Int, e, f, g, h \in {0, 1} :
             p + q = r + s /\ e + f = g + h => (p + d * e) + (q + d * f) = (r + d * g) + (s + d * h)
      OBVIOUS
    <3>7. \A v \in Int : Low(v, j) \in Int
      BY <3>3
    <3>. QED  BY <3>3, <3>4, <3>5, <3>6, <3>7
  <2>2. CASE ~(j + 1 <= k)
    BY <2>2
  <2>. QED  BY <2>1, <2>2
<1>. HIDE DEF S
<1>3. Nat \subseteq S
  BY <1>1, <1>2, Induction
<1>4. k \in Nat /\ k <= k
  BY DEF Places
<1>. QED  BY <1>3, <1>4 DEF S

LEMMA SameBits ==
    ASSUME NEW k \in Places, NEW m \in Int, NEW n \in Int, \A i \in 0..(k - 1) : Bit(m, i) = Bit(n, i)
    PROVE  Low(m, k) = Low(n, k)
<1>1. \A i \in 0..(k - 1) : Bit(m, i) \in Int /\ Bit(n, i) \in Int
  BY LowFacts, WidthAssumption DEF Places
<1>2. \A i \in 0..(k - 1) : Bit(m, i) + Bit(m, i) = Bit(n, i) + Bit(n, i)
  BY <1>1
<1>3. Low(m, k) + Low(m, k) = Low(n, k) + Low(n, k)
  BY <1>2, SumsOfBits
<1>4. Low(m, k) \in Int /\ Low(n, k) \in Int
  BY LowFacts
<1>. QED  BY <1>3, <1>4

(* Each set of places is that of the bits of a number.                     *)
LEMMA WordExists ==
    ASSUME NEW k \in Places, NEW places \in SUBSET (0..(k - 1))
    PROVE  \E n \in 0..(2^k - 1) : places = {i \in 0..(k - 1) : Bit(n, i) = 1}
<1>. DEFINE Has(j) == \A P \in SUBSET (0..(j - 1)) :
                          \E n \in 0..(2^j - 1) : P = {i \in 0..(j - 1) : Bit(n, i) = 1}
            S == {j \in Nat : j \in Places => Has(j)}
<1>1. 0 \in S
  <2>1. 0 \in 0..(2^0 - 1)
    BY PowersOfTwo
  <2>2. 0..(0 - 1) = {}
    OBVIOUS
  <2>. QED  BY <2>1, <2>2
<1>2. ASSUME NEW j \in Nat, j \in S
      PROVE  j + 1 \in S
  <2>1. SUFFICES ASSUME j + 1 \in Places, NEW P \in SUBSET (0..j)
                 PROVE  \E n \in 0..(2^(j + 1) - 1) : P = {i \in 0..j : Bit(n, i) = 1}
    <3>1. \A P \in SUBSET (0..(j + 1 - 1)) : P \in SUBSET (0..j)
      OBVIOUS
    <3>2. 0..(j + 1 - 1) = 0..j
      OBVIOUS
    <3>. QED  BY <3>1, <3>2
  <2>. DEFINE Q == {i \in 0..(j - 1) : i + 1 \in P}
              e == IF 0 \in P THEN 1 ELSE 0
  <2>2. j \in Places
    BY <2>1, WidthAssumption DEF Places
  <2>3. PICK n \in 0..(2^j - 1) : Q = {i \in 0..(j - 1) : Bit(n, i) = 1}
    BY <1>2, <2>2
  <2>. DEFINE w == 2 * n + e
  <2>4. 2^j \in Nat \ {0} /\ 2^(j + 1) = 2 * 2^j
    BY <2>1, <2>2, PowersArePositive, PowersDouble
  <2>5. n \in Nat /\ w \in Int /\ w \in 0..(2^(j + 1) - 1)
    <3>1. ASSUME NEW d \in Nat \ {0}, n \in 0..(d - 1)
          PROVE  n \in Nat /\ w \in Int /\ w \in 0..(2 * d - 1)
      BY <3>1
    <3>. QED  BY <2>3, <2>4, <3>1
  <2>6. Bit(w, 0) = e
    <3>1. w \div 1 = w
      BY <2>5
    <3>2. w % 2 = e
      <4>1. e \in 0..(2 - 1) /\ w = 2 * n + e /\ n \in Int
        BY <2>5
      <4>. QED  BY <2>5, <4>1, DivisionUnique
    <3>. QED  BY <3>1, <3>2, PowersOfTwo DEF Bit
  <2>7. ASSUME NEW i \in 0..(j - 1)
        PROVE  Bit(w, i + 1) = Bit(n, i)
    <3>1. i \in Places /\ i + 1 \in Places
      BY <2>2, WidthAssumption DEF Places
    <3>2. PICK d \in Nat \ {0} : d = 2^i /\ 2 * d = 2^(i + 1)
      BY <3>1, PowersArePositive, PowersDouble
    <3>3. e \in {0, 1} /\ n \in Int
      BY <2>5
    <3>. HIDE DEF e
    <3>4. (2 * n + e) \div (2 * d) = n \div d
      BY <3>3, HigherBit
    <3>. QED  BY <3>2, <3>4 DEF Bit
  <2>. HIDE DEF w
  <2>8. ASSUME NEW i \in 0..j
        PROVE  i \in P <=> Bit(w, i) = 1
    <3>1. CASE i = 0
      BY <2>6, <3>1
    <3>2. CASE i # 0
      <4>1. i - 1 \in 0..(j - 1) /\ (i - 1) + 1 = i
        BY <3>2
      <4>2. Bit(w, i) = Bit(n, i - 1)
        BY <2>7, <4>1
      <4>3. i - 1 \in Q <=> i \in P
        BY <4>1
      <4>4. i - 1 \in Q <=> Bit(n, i - 1) = 1
        BY <2>3, <4>1
      <4>. QED  BY <4>2, <4>3, <4>4
    <3>. QED  BY <3>1, <3>2
  <2>9. P = {i \in 0..j : Bit(w, i) = 1}
    BY <2>8
  <2>. QED  BY <2>5, <2>9
<1>. HIDE DEF S
<1>3. Nat \subseteq S
  BY <1>1, <1>2, Induction
<1>4. k \in Nat
  BY DEF Places
<1>5. Has(k)
  BY <1>3, <1>4 DEF S
<1>. QED  BY <1>5

Widths == {IntBits, ByteBits}

LEMMA WidthFacts ==
    ASSUME NEW bits \in Widths
    PROVE  /\ bits \in Places /\ bits \in Nat \ {0} /\ 2^bits \in Nat \ {0}
           /\ \A i \in 0..(bits - 1) : i \in Places /\ i + 1 \in Places
           /\ \A n \in Int : Low(n, bits) \in 0..(2^bits - 1)
<1>1. bits \in Places /\ bits \in Nat \ {0} /\ \A i \in 0..(bits - 1) : i \in Places /\ i + 1 \in Places
  BY WidthAssumption DEF Widths, Places
<1>. QED  BY <1>1, LowFacts, PowersArePositive

LEMMA BitsAre ==
    ASSUME NEW bits \in Widths, NEW n \in Int
    PROVE  \A i \in 0..(bits - 1) : i \in BitsOf(n, bits) <=> Bit(Low(n, bits), i) = 1
  BY DEF BitsOf, Low, Bit

LEMMA LowIsLow ==
    ASSUME NEW bits \in Widths, NEW n \in 0..(2^bits - 1)
    PROVE  n \in Int /\ Low(n, bits) = n
<1>1. PICK d \in Nat \ {0} : d = 2^bits
  BY WidthFacts
<1>2. n % d = n
  BY <1>1
<1>. QED  BY <1>1, <1>2 DEF Low

(* The word of some places has the bits of those places, and no other does.*)
LEMMA WordFacts ==
    ASSUME NEW bits \in Widths, NEW places \in SUBSET (0..(bits - 1))
    PROVE  /\ Word(places, bits) \in 0..(2^bits - 1) /\ Word(places, bits) \in Int
           /\ BitsOf(Word(places, bits), bits) = places
           /\ \A i \in 0..(bits - 1) : Bit(Word(places, bits), i) = IF i \in places THEN 1 ELSE 0
           /\ Low(Word(places, bits), bits) = Word(places, bits)
<1>1. PICK n \in 0..(2^bits - 1) : places = {i \in 0..(bits - 1) : Bit(n, i) = 1}
  BY WidthFacts, WordExists
<1>2. n \in Int /\ Low(n, bits) = n
  BY LowIsLow
<1>3. BitsOf(n, bits) = places
  BY <1>1, <1>2, BitsAre DEF BitsOf
<1>. DEFINE w == Word(places, bits)
<1>4. w \in 0..(2^bits - 1) /\ BitsOf(w, bits) = places
  BY <1>3 DEF Word
<1>. HIDE DEF w
<1>5. w \in Int /\ Low(w, bits) = w
  BY <1>4, LowIsLow
<1>6. ASSUME NEW i \in 0..(bits - 1)
      PROVE  Bit(w, i) = IF i \in places THEN 1 ELSE 0
  <2>1. Bit(w, i) \in {0, 1}
    BY <1>5, WidthFacts, LowFacts
  <2>2. i \in places <=> Bit(w, i) = 1
    BY <1>4, <1>5, BitsAre
  <2>. QED  BY <2>1, <2>2
<1>. QED  BY <1>4, <1>5, <1>6 DEF w

LEMMA WordOfBits ==
    ASSUME NEW bits \in Widths, NEW n \in Int
    PROVE  BitsOf(n, bits) \in SUBSET (0..(bits - 1)) /\ Word(BitsOf(n, bits), bits) = Low(n, bits)
<1>1. BitsOf(n, bits) \in SUBSET (0..(bits - 1))
  BY DEF BitsOf
<1>. DEFINE P == BitsOf(n, bits)
            w == Word(P, bits)
            m == Low(n, bits)
<1>2. m \in 0..(2^bits - 1)
  BY WidthFacts
<1>3. m \in Int /\ Low(m, bits) = m
  BY <1>2, LowIsLow
<1>4. w \in Int /\ Low(w, bits) = w /\ \A i \in 0..(bits - 1) : Bit(w, i) = IF i \in P THEN 1 ELSE 0
  BY <1>1, WordFacts
<1>5. ASSUME NEW i \in 0..(bits - 1)
      PROVE  Bit(w, i) = Bit(m, i)
  <2>1. Bit(m, i) \in {0, 1}
    BY <1>3, WidthFacts, LowFacts
  <2>2. i \in P <=> Bit(m, i) = 1
    BY BitsAre
  <2>. QED  BY <1>4, <2>1, <2>2
<1>. HIDE DEF w, m, P
<1>6. Low(w, bits) = Low(m, bits)
  BY <1>3, <1>4, <1>5, WidthFacts, SameBits
<1>. QED  BY <1>1, <1>3, <1>4, <1>6 DEF w, m, P

(* Two words without their common places, and the common places alone.     *)
LEMMA WordsAddUp ==
    ASSUME NEW bits \in Widths, NEW X \in SUBSET (0..(bits - 1)), NEW Y \in SUBSET (0..(bits - 1))
    PROVE  Word(X \cap Y, bits) + Word(X \cup Y, bits) = Word(X, bits) + Word(Y, bits)
<1>. DEFINE m == Word(X \cap Y, bits)
            n == Word(X \cup Y, bits)
            x == Word(X, bits)
            y == Word(Y, bits)
<1>1. X \cap Y \in SUBSET (0..(bits - 1)) /\ X \cup Y \in SUBSET (0..(bits - 1))
  OBVIOUS
<1>2. m \in Int /\ Low(m, bits) = m /\ \A i \in 0..(bits - 1) : Bit(m, i) = IF i \in X \cap Y THEN 1 ELSE 0
  BY <1>1, WordFacts
<1>3. n \in Int /\ Low(n, bits) = n /\ \A i \in 0..(bits - 1) : Bit(n, i) = IF i \in X \cup Y THEN 1 ELSE 0
  BY <1>1, WordFacts
<1>4. x \in Int /\ Low(x, bits) = x /\ \A i \in 0..(bits - 1) : Bit(x, i) = IF i \in X THEN 1 ELSE 0
  BY WordFacts
<1>5. y \in Int /\ Low(y, bits) = y /\ \A i \in 0..(bits - 1) : Bit(y, i) = IF i \in Y THEN 1 ELSE 0
  BY WordFacts
<1>. HIDE DEF m, n, x, y
<1>6. \A i \in 0..(bits - 1) : Bit(m, i) + Bit(n, i) = Bit(x, i) + Bit(y, i)
  BY <1>2, <1>3, <1>4, <1>5
<1>7. bits \in Places
  BY WidthFacts
<1>8. Low(m, bits) + Low(n, bits) = Low(x, bits) + Low(y, bits)
  <2>1. m \in Int /\ n \in Int /\ x \in Int /\ y \in Int
    BY <1>2, <1>3, <1>4, <1>5
  <2>. QED  BY <2>1, <1>6, <1>7, SumsOfBits
<1>. QED  BY <1>2, <1>3, <1>4, <1>5, <1>8 DEF m, n, x, y

(* The largest word has every place, and the other places make what is     *)
(* missing to it.                                                          *)
LEMMA LargestWord ==
    ASSUME NEW bits \in Widths
    PROVE  Word(0..(bits - 1), bits) = 2^bits - 1 /\ Word({}, bits) = 0
<1>. DEFINE w == Word(0..(bits - 1), bits)
            S == {j \in Nat : j <= bits => Low(w, j) = 2^j - 1}
<1>1. w \in Int /\ Low(w, bits) = w /\ \A i \in 0..(bits - 1) : Bit(w, i) = 1
  BY WordFacts
<1>. HIDE DEF w
<1>2. 0 \in S
  BY <1>1, LowFacts, PowersOfTwo
<1>3. ASSUME NEW j \in Nat, j \in S
      PROVE  j + 1 \in S
  <2>1. CASE j + 1 <= bits
    <3>1. j \in Places /\ j + 1 \in Places /\ j \in 0..(bits - 1) /\ j <= bits
      BY <2>1, WidthFacts
    <3>2. PICK d \in Nat \ {0} : d = 2^j /\ 2^(j + 1) = 2 * d
      BY <3>1, PowersArePositive, PowersDouble
    <3>3. Low(w, j + 1) = Low(w, j) + d * Bit(w, j)
      BY <1>1, <3>1, <3>2, LowFacts
    <3>4. Low(w, j) = d - 1 /\ Bit(w, j) = 1
      BY <1>1, <1>3, <3>1, <3>2
    <3>. QED  BY <3>2, <3>3, <3>4
  <2>2. CASE ~(j + 1 <= bits)
    BY <2>2
  <2>. QED  BY <2>1, <2>2
<1>. HIDE DEF S
<1>4. Nat \subseteq S
  BY <1>2, <1>3, Induction
<1>5. bits \in Nat /\ bits <= bits
  BY WidthFacts
<1>6. w = 2^bits - 1
  BY <1>1, <1>4, <1>5 DEF S
<1>7. Word({}, bits) = 0
  <2>1. PICK d \in Nat \ {0} : d = 2^bits
    BY WidthFacts
  <2>2. Low(0, bits) = 0
    BY <2>1 DEF Low
  <2>3. ASSUME NEW i \in 0..(bits - 1)
        PROVE  Bit(0, i) # 1
    <3>1. PICK p \in Nat \ {0} : p = 2^i
      BY WidthFacts, PowersArePositive
    <3>2. 0 \div p = 0
      BY <3>1
    <3>. QED  BY <3>1, <3>2 DEF Bit
  <2>4. BitsOf(0, bits) = {}
    BY <2>2, <2>3, BitsAre DEF BitsOf
  <2>5. Word(BitsOf(0, bits), bits) = Low(0, bits)
    BY WordOfBits
  <2>. QED  BY <2>2, <2>4, <2>5
<1>. QED  BY <1>6, <1>7 DEF w

LEMMA OtherPlaces ==
    ASSUME NEW bits \in Widths, NEW X \in SUBSET (0..(bits - 1))
    PROVE  Word((0..(bits - 1)) \ X, bits) = (2^bits - 1) - Word(X, bits)
<1>. DEFINE all == 0..(bits - 1)
            Y == all \ X
<1>1. X \cap Y = {} /\ X \cup Y = all /\ Y \in SUBSET all
  OBVIOUS
<1>2. Word({}, bits) + Word(all, bits) = Word(X, bits) + Word(Y, bits)
  BY <1>1, WordsAddUp
<1>3. Word(X, bits) \in Int /\ Word(Y, bits) \in Int /\ 2^bits \in Nat
  BY <1>1, WordFacts, WidthFacts
<1>. QED  BY <1>2, <1>3, LargestWord
-----------------------------------------------------------------------------

(* Numbers.  What a type has in it besides its name.                       *)
Content(t) ==
    CASE t = "int" -> Ints [] t = "float" -> Floats [] t = "bool" -> BOOLEAN
      [] t = "char" -> Chars [] t = "byte" -> Bytes

LEMMA RangeFacts ==
    \E h, k \in Nat \ {0} :
        /\ 2^(IntBits - 1) = h /\ 2^IntBits = 2 * h
        /\ 2^(ByteBits - 1) = k /\ 2^ByteBits = 2 * k /\ 2 * k <= h
        /\ Ints = (-h)..(h - 1) /\ Bytes = 0..(2 * k - 1)
<1>1. /\ IntBits - 1 \in Places /\ IntBits \in Places /\ (IntBits - 1) + 1 = IntBits
      /\ ByteBits - 1 \in Places /\ ByteBits \in Places /\ (ByteBits - 1) + 1 = ByteBits
      /\ ByteBits <= IntBits - 1
  BY WidthAssumption DEF Places
<1>2. 2^(IntBits - 1) \in Nat \ {0} /\ 2^(ByteBits - 1) \in Nat \ {0}
  BY <1>1, PowersArePositive
<1>3. /\ 2^IntBits = 2 * 2^(IntBits - 1) /\ 2^ByteBits = 2 * 2^(ByteBits - 1)
      /\ 2^ByteBits <= 2^(IntBits - 1)
  <2>1. 2^((IntBits - 1) + 1) = 2 * 2^(IntBits - 1) /\ 2^((ByteBits - 1) + 1) = 2 * 2^(ByteBits - 1)
    BY <1>1, PowersDouble
  <2>. QED  BY <1>1, <2>1, PowersGrow
<1>4. Ints = (-(2^(IntBits - 1)))..(2^(IntBits - 1) - 1) /\ Bytes = 0..(2^ByteBits - 1)
  BY DEF Ints, Bytes, MinInt, MaxInt
<1>. QED  BY <1>2, <1>3, <1>4

LEMMA WrappedInRange ==
    ASSUME NEW n \in Int
    PROVE  WrapInt(n) \in Ints /\ WrapByte(n) \in Bytes
<1>1. PICK h, k \in Nat \ {0} :
         /\ 2^(IntBits - 1) = h /\ 2^IntBits = 2 * h
         /\ 2^ByteBits = 2 * k /\ Ints = (-h)..(h - 1) /\ Bytes = 0..(2 * k - 1)
  BY RangeFacts
<1>2. WrapInt(n) = ((n + h) % (2 * h)) - h
  BY <1>1 DEF WrapInt, Signed
<1>3. (n + h) % (2 * h) \in 0..(2 * h - 1)
  BY <1>1
<1>4. n % (2 * k) \in 0..(2 * k - 1)
  BY <1>1
<1>. QED  BY <1>1, <1>2, <1>3, <1>4 DEF WrapByte

LEMMA NumbersAreInt ==
    /\ Ints \subseteq Int /\ Bytes \subseteq Nat /\ Bytes \subseteq Ints /\ Chars \subseteq Int
    /\ MinInt \in Ints /\ {-1, 0} \subseteq Ints /\ {0, 1} \subseteq Bytes
    /\ \A n \in Ints : -n - 1 \in Ints
<1>1. PICK h, k \in Nat \ {0} :
         /\ 2^(IntBits - 1) = h /\ 2^ByteBits = 2 * k /\ 2 * k <= h
         /\ 2^(ByteBits - 1) = k /\ Ints = (-h)..(h - 1) /\ Bytes = 0..(2 * k - 1)
  BY RangeFacts
<1>2. Chars \subseteq Int
  <2>1. ASSUME NEW b \in Bytes PROVE Signed(b, ByteBits) \in Int
    BY <1>1 DEF Signed
  <2>. QED  BY <2>1 DEF Chars
<1>. QED  BY <1>1, <1>2 DEF MinInt

LEMMA DivisionFacts ==
    ASSUME NEW a \in Nat, NEW b \in Nat, b > 0
    PROVE  /\ a \div b \in 0..a /\ a % b \in 0..(b - 1) /\ a % b <= a
           /\ a = b * (a \div b) + (a % b)
  OBVIOUS

LEMMA RemainderInRange ==
    ASSUME NEW h \in Nat, NEW a \in (-h)..(h - 1), NEW b \in Int, b # 0
    PROVE  Quotient(a, b) \in Int /\ Remainder(a, b) \in (-h)..(h - 1)
<1>. DEFINE A == AbsOf(a)
            B == AbsOf(b)
            q == A \div B
            r == A % B
<1>1. A \in Nat /\ B \in Nat /\ B > 0
  BY DEF AbsOf
<1>. HIDE DEF A, B
<1>2. q \in Nat /\ r \in 0..A /\ A = B * q + r
  <2>1. A \div B \in 0..A /\ A % B \in 0..(B - 1) /\ A % B <= A
    BY <1>1, DivisionFacts
  <2>2. A = B * (A \div B) + (A % B)
    BY <1>1, DivisionFacts
  <2>. QED  BY <1>1, <2>1, <2>2
<1>. USE DEF A, B
<1>. HIDE DEF q, r
<1>3. Quotient(a, b) = SignOf(a) * SignOf(b) * q
  BY DEF Quotient, q
<1>4. Quotient(a, b) \in Int
  BY <1>2, <1>3 DEF SignOf
<1>5. CASE a >= 0 /\ b > 0
  <2>1. A = a /\ B = b /\ SignOf(b) = 1 /\ (a = 0 \/ SignOf(a) = 1)
    BY <1>5 DEF AbsOf, SignOf
  <2>2. Remainder(a, b) = r
    BY <1>2, <1>3, <2>1 DEF Remainder, SignOf
  <2>. QED  BY <1>2, <1>4, <1>5, <2>1, <2>2
<1>6. CASE a >= 0 /\ b < 0
  <2>1. A = a /\ B = -b /\ SignOf(b) = -1 /\ (a = 0 \/ SignOf(a) = 1)
    BY <1>6 DEF AbsOf, SignOf
  <2>2. Remainder(a, b) = r
    BY <1>2, <1>3, <2>1 DEF Remainder, SignOf
  <2>. QED  BY <1>2, <1>4, <1>6, <2>1, <2>2
<1>7. CASE a < 0 /\ b > 0
  <2>1. A = -a /\ B = b /\ SignOf(b) = 1 /\ SignOf(a) = -1
    BY <1>7 DEF AbsOf, SignOf
  <2>2. Remainder(a, b) = -r
    BY <1>2, <1>3, <2>1 DEF Remainder
  <2>. QED  BY <1>2, <1>4, <1>7, <2>1, <2>2
<1>8. CASE a < 0 /\ b < 0
  <2>1. A = -a /\ B = -b /\ SignOf(b) = -1 /\ SignOf(a) = -1
    BY <1>8 DEF AbsOf, SignOf
  <2>2. Remainder(a, b) = -r
    BY <1>2, <1>3, <2>1 DEF Remainder
  <2>. QED  BY <1>2, <1>4, <1>8, <2>1, <2>2
<1>. QED  BY <1>5, <1>6, <1>7, <1>8

LEMMA FloorInRange ==
    ASSUME NEW h \in Nat, NEW a \in (-h)..(h - 1), NEW d \in Nat, d > 0
    PROVE  a \div d \in (-h)..(h - 1)
  OBVIOUS
-----------------------------------------------------------------------------
(* Every arithmetic command stays in the range of its type.                *)

LEMMA ComputedInRange == \A n : Computed(n) \subseteq Ints
  BY DEF Computed

LEMMA IntCommandsInRange ==
    ASSUME NEW a \in Ints, NEW b \in Ints
    PROVE  /\ \A op \in IntUnaryOps : IntUnary(op, a) \subseteq Ints
           /\ \A op \in IntBinaryOps : IntArithmetic(op, a, b) \subseteq Ints
           /\ \A op \in BitOps : IntBitwise(op, a, b) \subseteq Ints
           /\ \A op \in Shifts : IntShift(op, a, b) \subseteq Ints
<1>1. a \in Int /\ b \in Int
  BY NumbersAreInt
<1>2. ASSUME NEW op \in IntUnaryOps
      PROVE  IntUnary(op, a) \subseteq Ints
  BY ComputedInRange, NumbersAreInt DEF IntUnary, IntUnaryOps
<1>3. b # 0 => Quotient(a, b) \in Int /\ Remainder(a, b) \in Ints
  BY <1>1, RangeFacts, RemainderInRange
<1>4. ASSUME NEW op \in IntBinaryOps
      PROVE  IntArithmetic(op, a, b) \subseteq Ints
  BY <1>3, ComputedInRange DEF IntArithmetic, IntBinaryOps
<1>5. ASSUME NEW op \in BitOps
      PROVE  IntBitwise(op, a, b) \subseteq Ints
  <2>. DEFINE places == BitwiseOn(op, BitsOf(a, IntBits), BitsOf(b, IntBits))
  <2>1. places \in SUBSET (0..(IntBits - 1))
    BY DEF BitOps, BitwiseOn, BitsOf
  <2>2. Word(places, IntBits) \in Int
    BY <2>1, WordFacts DEF Widths
  <2>. QED  BY <2>2, WrappedInRange DEF IntBitwise
<1>6. ASSUME NEW op \in Shifts
      PROVE  IntShift(op, a, b) \subseteq Ints
  <2>1. CASE b \notin 0..(IntBits - 1)
    BY <2>1 DEF IntShift
  <2>2. CASE b \in 0..(IntBits - 1)
    <3>1. b \in Places
      BY <2>2, WidthAssumption DEF Places
    <3>2. PICK d \in Nat \ {0} : 2^b = d
      BY <3>1, PowersArePositive
    <3>3. a * d \in Int
      BY <1>1
    <3>4. WrapInt(a * d) \in Ints
      BY <3>3, WrappedInRange
    <3>5. a \div d \in Ints
      BY <3>2, RangeFacts, FloorInRange
    <3>. QED  BY <2>2, <3>2, <3>4, <3>5 DEF IntShift, Shifts
  <2>. QED  BY <2>1, <2>2
<1>. QED  BY <1>2, <1>4, <1>5, <1>6

LEMMA ByteCommandsInRange ==
    ASSUME NEW a \in Bytes, NEW b \in Bytes
    PROVE  /\ \A op \in ByteUnaryOps : ByteUnary(op, a) \subseteq Bytes
           /\ \A op \in ByteBinaryOps : ByteArithmetic(op, a, b) \subseteq Bytes
           /\ \A op \in BitOps : ByteBitwise(op, a, b) \subseteq Bytes
           /\ \A op \in Shifts : ByteShift(op, a, b) \subseteq Bytes
<1>1. a \in Nat /\ b \in Nat
  BY NumbersAreInt
<1>2. ASSUME NEW n \in 0..a
      PROVE  n \in Bytes
  BY RangeFacts
<1>3. ASSUME NEW op \in ByteUnaryOps
      PROVE  ByteUnary(op, a) \subseteq Bytes
  <2>1. -a \in Int /\ a + 1 \in Int /\ a - 1 \in Int /\ -a - 1 \in Int
    BY <1>1
  <2>. QED  BY <2>1, WrappedInRange DEF ByteUnary, ByteUnaryOps
<1>4. ASSUME NEW op \in ByteBinaryOps
      PROVE  ByteArithmetic(op, a, b) \subseteq Bytes
  <2>1. a + b \in Int /\ a - b \in Int /\ a * b \in Int
    BY <1>1
  <2>2. WrapByte(a + b) \in Bytes /\ WrapByte(a - b) \in Bytes /\ WrapByte(a * b) \in Bytes
    BY <2>1, WrappedInRange
  <2>3. b # 0 => a \div b \in 0..a /\ a % b \in 0..a
    BY <1>1, DivisionFacts
  <2>. QED  BY <1>2, <2>2, <2>3 DEF ByteArithmetic, ByteBinaryOps
<1>5. ASSUME NEW op \in BitOps
      PROVE  ByteBitwise(op, a, b) \subseteq Bytes
  <2>. DEFINE places == BitwiseOn(op, BitsOf(a, ByteBits), BitsOf(b, ByteBits))
  <2>1. places \in SUBSET (0..(ByteBits - 1))
    BY DEF BitOps, BitwiseOn, BitsOf
  <2>. QED  BY <2>1, WordFacts DEF ByteBitwise, Bytes, Widths
<1>6. ASSUME NEW op \in Shifts
      PROVE  ByteShift(op, a, b) \subseteq Bytes
  <2>1. CASE b >= PromotedBits
    BY <1>1, <2>1, WidthAssumption DEF ByteShift
  <2>2. CASE ~(b >= PromotedBits)
    <3>1. b \in Places /\ b < PromotedBits
      BY <1>1, <2>2, WidthAssumption DEF Places
    <3>2. PICK d \in Nat \ {0} : 2^b = d
      BY <3>1, PowersArePositive
    <3>3. a * d \in Int
      BY <1>1
    <3>4. WrapByte(a * d) \in Bytes
      BY <3>3, WrappedInRange
    <3>5. a \div d \in 0..a
      BY <1>1, <3>2, DivisionFacts
    <3>. QED  BY <1>2, <2>2, <3>1, <3>2, <3>4, <3>5 DEF ByteShift, Shifts
  <2>. QED  BY <2>1, <2>2
<1>. QED  BY <1>3, <1>4, <1>5, <1>6

LEMMA ComparesTruly ==
    ASSUME NEW relation \in Relations, NEW a \in Int, NEW b \in Int
    PROVE  Compares(relation, a, b) \in BOOLEAN
<1>1. /\ (a = b) \in BOOLEAN /\ (a # b) \in BOOLEAN /\ (a < b) \in BOOLEAN
      /\ (a <= b) \in BOOLEAN /\ (a > b) \in BOOLEAN /\ (a >= b) \in BOOLEAN
  OBVIOUS
<1>2. CASE relation = "Equal"
  BY <1>1, <1>2 DEF Compares
<1>3. CASE relation = "NotEqual"
  BY <1>1, <1>3 DEF Compares
<1>4. CASE relation = "LessThan"
  BY <1>1, <1>4 DEF Compares
<1>5. CASE relation = "LessEqual"
  BY <1>1, <1>5 DEF Compares
<1>6. CASE relation = "GreaterThan"
  BY <1>1, <1>6 DEF Compares
<1>7. CASE relation = "GreaterEqual"
  BY <1>1, <1>7 DEF Compares
<1>. QED  BY <1>2, <1>3, <1>4, <1>5, <1>6, <1>7 DEF Relations

LEMMA FloatCommandsInRange ==
    ASSUME NEW a \in Floats, NEW b \in Floats
    PROVE  /\ \A op \in {"FloatNegate", "FloatSqrt"} : FloatUnary(op, a) \subseteq Floats
           /\ \A op \in FloatBinaryOps : FloatArithmetic(op, a, b) \subseteq Floats
           /\ \A relation \in Relations : FloatCompares(relation, a, b) \subseteq BOOLEAN
           /\ FloatToInt(a) \subseteq Ints
<1>1. ASSUME NEW op \in {"FloatNegate", "FloatSqrt"}
      PROVE  FloatUnary(op, a) \subseteq Floats
  BY DEF FloatUnary, Floats, Signs, NaN
<1>2. ASSUME NEW op \in FloatBinaryOps
      PROVE  FloatArithmetic(op, a, b) \subseteq Floats
  <2>1. a \in {-1, 0, 1, 2} /\ b \in {-1, 0, 1, 2}
    BY DEF Floats, Signs, NaN
  <2>2. ASSUME NEW n, n \in FloatArithmetic(op, a, b)
        PROVE  n \in {-1, 0, 1, 2}
    BY <2>1, <2>2 DEF FloatArithmetic, FloatBinaryOps, Floats, Signs, NaN
  <2>. QED  BY <2>2 DEF Floats, Signs, NaN
<1>3. ASSUME NEW relation \in Relations
      PROVE  FloatCompares(relation, a, b) \subseteq BOOLEAN
  <2>1. Compares(relation, a, b) \in BOOLEAN
    BY ComparesTruly DEF Floats, Signs, NaN
  <2>2. (relation = "NotEqual") \in BOOLEAN
    OBVIOUS
  <2>. QED  BY <2>1, <2>2 DEF FloatCompares
<1>4. FloatToInt(a) \subseteq Ints
  BY NumbersAreInt DEF FloatToInt, Floats, Signs, NaN
<1>. QED  BY <1>1, <1>2, <1>3, <1>4
-----------------------------------------------------------------------------
(* What is on the stack and in the locals: values in the range of their    *)
(* type, objects that were built, and the null pointer if N allows it: N   *)
(* is {} or NullOnly.                                                      *)
NullOnly == {Ref(NullPointer)}

SoundPrimitive(v) == v[1] \in Primitive /\ v \in ValuesOf(v[1])

SoundObject(o) ==
    \/ o[1] \in PlainClasses
    \/ \E t \in Primitive : o[1] = BoxClass[t] /\ o[2][1] = t /\ SoundPrimitive(o[2])

Sound(N, v) ==
    \/ SoundPrimitive(v)
    \/ v = Ref(NullPointer) /\ v \in N
    \/ /\ v[1] = "ref"
       /\ IF v[2][1] = "Nullable" THEN v[2][2] = NullPointer \/ SoundObject(v[2][2])
          ELSE SoundObject(v[2])

Holding(N, s) == \E S : s \in Seq(S) /\ \A v \in S : Sound(N, v)

Inv(N) == Holding(N, stack) /\ Holding(N, locals)
-----------------------------------------------------------------------------
(* Sequences of sound values.                                              *)

LEMMA ElementsHold ==
    ASSUME NEW N, NEW S, NEW s \in Seq(S), \A v \in S : Sound(N, v)
    PROVE  Holding(N, s)
  BY DEF Holding

LEMMA EmptyHolds == \A N : Holding(N, <<>>)
<1>. TAKE N
<1>. DEFINE S == {}
<1>1. <<>> \in Seq(S) /\ \A v \in S : Sound(N, v)
  OBVIOUS
<1>. HIDE DEF S
<1>. QED  BY <1>1, ElementsHold

LEMMA OneHolds ==
    ASSUME NEW N, NEW v, Sound(N, v)
    PROVE  Holding(N, <<v>>)
<1>. DEFINE S == {v}
<1>1. <<v>> \in Seq(S) /\ \A w \in S : Sound(N, w)
  OBVIOUS
<1>. HIDE DEF S
<1>. QED  BY <1>1, ElementsHold

LEMMA HeldFacts ==
    ASSUME NEW N, NEW s, Holding(N, s)
    PROVE  /\ Len(s) \in Nat /\ DOMAIN s = 1..Len(s)
           /\ \A i \in 1..Len(s) : Sound(N, s[i])
           /\ s # <<>> => Len(s) \in 1..Len(s)
<1>1. PICK S : s \in Seq(S) /\ \A v \in S : Sound(N, v)
  BY DEF Holding
<1>2. Len(s) \in Nat /\ DOMAIN s = 1..Len(s) /\ \A i \in 1..Len(s) : s[i] \in S
  BY <1>1
<1>3. s # <<>> => Len(s) > 0
  BY <1>1
<1>. QED  BY <1>1, <1>2, <1>3

LEMMA ConcatHolds ==
    ASSUME NEW N, NEW s, NEW t, Holding(N, s), Holding(N, t)
    PROVE  Holding(N, s \o t)
<1>1. PICK S : s \in Seq(S) /\ \A v \in S : Sound(N, v)
  BY DEF Holding
<1>2. PICK T : t \in Seq(T) /\ \A v \in T : Sound(N, v)
  BY DEF Holding
<1>3. s \in Seq(S \cup T) /\ t \in Seq(S \cup T)
  BY <1>1, <1>2
<1>4. s \o t \in Seq(S \cup T)
  BY <1>3
<1>5. \A v \in S \cup T : Sound(N, v)
  BY <1>1, <1>2
<1>. QED  BY <1>4, <1>5 DEF Holding

LEMMA PrefixHolds ==
    ASSUME NEW N, NEW s, Holding(N, s), NEW n \in Int, n <= Len(s)
    PROVE  Holding(N, SubSeq(s, 1, n))
<1>1. PICK S : s \in Seq(S) /\ \A v \in S : Sound(N, v)
  BY DEF Holding
<1>2. SubSeq(s, 1, n) \in Seq(S)
  BY <1>1
<1>. QED  BY <1>1, <1>2 DEF Holding

LEMMA FunctionHolds ==
    ASSUME NEW N, NEW n \in Nat, NEW f, f = [i \in 1..n |-> f[i]], \A i \in 1..n : Sound(N, f[i])
    PROVE  Holding(N, f)
<1>. DEFINE S == {f[i] : i \in 1..n}
<1>1. f \in [1..n -> S]
  OBVIOUS
<1>2. \A v \in S : Sound(N, v)
  OBVIOUS
<1>. HIDE DEF S
<1>3. f \in Seq(S)
  BY <1>1
<1>. QED  BY <1>2, <1>3, ElementsHold
LEMMA JoinFacts ==
    ASSUME NEW T, NEW s \in Seq(T), NEW t \in Seq(T)
    PROVE  /\ s \o t \in Seq(T) /\ Len(s \o t) = Len(s) + Len(t)
           /\ \A i \in 1..Len(t) : (s \o t)[Len(s) + i] = t[i]
  OBVIOUS

LEMMA ReplacedFacts ==
    ASSUME NEW N, NEW s, Holding(N, s), NEW n \in 0..Len(s), NEW v
    PROVE  LET t == SubSeq(s, 1, n) \o <<v>>
           IN Len(t) = n + 1 /\ t[n + 1] = v /\ SubSeq(t, 1, n) = SubSeq(s, 1, n)
<1>1. PICK S : s \in Seq(S)
  BY DEF Holding
<1>. DEFINE T == S \cup {v}
            p == SubSeq(s, 1, n)
            q == <<v>>
<1>2. p \in Seq(S) /\ Len(p) = n /\ n \in Nat
  BY <1>1
<1>3. q \in Seq(T) /\ p \in Seq(T) /\ Len(q) = 1 /\ q[1] = v
  BY <1>2
<1>. HIDE DEF p, q, T
<1>4. p \o q \in Seq(T) /\ Len(p \o q) = n + 1 /\ (p \o q)[n + 1] = v
  <2>1. p \o q \in Seq(T) /\ Len(p \o q) = Len(p) + Len(q)
    BY <1>3, JoinFacts
  <2>2. \A i \in 1..Len(q) : (p \o q)[Len(p) + i] = q[i]
    BY <1>3, JoinFacts
  <2>3. 1 \in 1..Len(q)
    BY <1>3
  <2>. QED  BY <1>2, <1>3, <2>1, <2>2, <2>3
<1>5. \A i \in 1..n : (p \o q)[i] = p[i]
  BY <1>2, <1>3
<1>6. SubSeq(p \o q, 1, n) = p
  BY <1>2, <1>3, <1>4, <1>5
<1>. QED  BY <1>4, <1>6 DEF p, q

LEMMA StackReplaced ==
    ASSUME NEW N, Holding(N, stack), NEW n \in 0..Len(stack), NEW v,
           stack' = SubSeq(stack, 1, n) \o <<v>>
    PROVE  Len(stack') = n + 1 /\ stack'[n + 1] = v /\ SubSeq(stack', 1, n) = SubSeq(stack, 1, n)
<1>. DEFINE t == SubSeq(stack, 1, n) \o <<v>>
<1>1. Len(t) = n + 1 /\ t[n + 1] = v /\ SubSeq(t, 1, n) = SubSeq(stack, 1, n)
  BY ReplacedFacts
<1>. QED  BY <1>1

LEMMA SharedPrefix ==
    ASSUME NEW N, NEW s, NEW t, Holding(N, s), Holding(N, t), NEW n \in Nat, NEW k \in 0..n,
           n <= Len(s), n <= Len(t), SubSeq(s, 1, n) = SubSeq(t, 1, n)
    PROVE  SubSeq(s, 1, k) = SubSeq(t, 1, k)
<1>1. PICK S : s \in Seq(S)
  BY DEF Holding
<1>2. PICK T : t \in Seq(T)
  BY DEF Holding
<1>3. \A i \in 1..n : SubSeq(s, 1, n)[i] = s[i] /\ SubSeq(t, 1, n)[i] = t[i]
  BY <1>1, <1>2
<1>4. \A i \in 1..k : s[i] = t[i]
  BY <1>3
<1>. QED  BY <1>1, <1>2, <1>4

LEMMA WholePrefix ==
    ASSUME NEW N, NEW s, Holding(N, s)
    PROVE  SubSeq(s, 1, Len(s)) = s
<1>1. PICK S : s \in Seq(S)
  BY DEF Holding
<1>. QED  BY <1>1

(* Values that are sound without null pointers are sound with them, and    *)
(* the other way round if there are none.                                  *)
LEMMA NullsAllowed ==
    ASSUME NEW N, NEW s, Holding(N, s)
    PROVE  Holding(NullOnly, s)
<1>1. PICK S : s \in Seq(S) /\ \A v \in S : Sound(N, v)
  BY DEF Holding
<1>2. \A v \in S : Sound(NullOnly, v)
  BY <1>1 DEF Sound, NullOnly
<1>. QED  BY <1>1, <1>2 DEF Holding

LEMMA NullsExcluded ==
    ASSUME NEW s, Holding(NullOnly, s), \A i \in DOMAIN s : s[i] # Ref(NullPointer)
    PROVE  Holding({}, s)
<1>1. Len(s) \in Nat /\ DOMAIN s = 1..Len(s) /\ \A i \in 1..Len(s) : Sound(NullOnly, s[i])
  BY HeldFacts
<1>2. \A i \in 1..Len(s) : Sound({}, s[i])
  BY <1>1 DEF Sound
<1>3. s = [i \in 1..Len(s) |-> s[i]]
  <2>1. PICK S : s \in Seq(S)
    BY DEF Holding
  <2>. QED  BY <1>1, <2>1
<1>. QED  BY <1>1, <1>2, <1>3, FunctionHolds

-----------------------------------------------------------------------------
(* The values commands leave.                                              *)
Kinds == {"Int", "Nullable"} \cup Primitive \cup PlainClasses
Results == Kinds \cup {"Object", "none"}

LEMMA Classes ==
    /\ BoxClasses = {"Int", "Float", "Bool", "Char", "Byte"}
    /\ \A t \in Primitive : BoxClass[t] \in BoxClasses
    /\ \A c \in PlainClasses : c \notin BoxClasses
  BY DEF BoxClasses, BoxClass, Primitive, PlainClasses

LEMMA ObjectFacts ==
    ASSUME NEW o, SoundObject(o)
    PROVE  /\ o[1] # "nullptr" /\ o[1] # "Nullable"
           /\ o[1] \in BoxClasses => SoundPrimitive(o[2])
<1>1. CASE o[1] \in PlainClasses
  BY <1>1, Classes DEF PlainClasses
<1>2. CASE \E t \in Primitive : o[1] = BoxClass[t] /\ SoundPrimitive(o[2])
  BY <1>2, Classes
<1>. QED  BY <1>1, <1>2 DEF SoundObject

LEMMA PlainSound ==
    ASSUME NEW N, NEW c \in PlainClasses
    PROVE  Sound(N, <<"ref", <<c, <<>>>>>>)
<1>1. c # "Nullable"
  BY DEF PlainClasses
<1>. QED  BY <1>1 DEF Sound, SoundObject

LEMMA ContentFacts ==
    ASSUME NEW t \in Primitive
    PROVE  /\ \A n : <<t, n>> \in ValuesOf(t) <=> n \in Content(t)
           /\ \A v \in ValuesOf(t) : v = <<t, v[2]>> /\ v[2] \in Content(t)
  BY DEF ValuesOf, Content, Primitive

LEMMA PrimitiveSound ==
    ASSUME NEW N, NEW t \in Primitive, NEW n \in Content(t)
    PROVE  Sound(N, <<t, n>>)
  BY ContentFacts DEF Sound, SoundPrimitive

LEMMA BoxesSound ==
    ASSUME NEW N, NEW v, SoundPrimitive(v)
    PROVE  SoundObject(Box(v)) /\ Sound(N, Ref(Box(v)))
<1>1. Box(v)[1] = BoxClass[v[1]] /\ Box(v)[2] = v /\ v[1] \in Primitive
  BY DEF Box, SoundPrimitive
<1>2. SoundObject(Box(v))
  BY <1>1 DEF SoundObject
<1>3. Box(v)[1] # "Nullable"
  BY <1>2, ObjectFacts
<1>. QED  BY <1>2, <1>3 DEF Sound, Ref

LEMMA ValuesSound ==
    ASSUME NEW N, NEW kind \in Kinds, NEW v \in ValuesOf(kind)
    PROVE  Sound(N, v)
<1>1. CASE kind \in Primitive
  BY <1>1, ContentFacts DEF Sound, SoundPrimitive
<1>2. CASE kind = "Nullable"
  BY <1>2 DEF ValuesOf, Sound, SoundObject, Ref, Nullable, NullPointer, Text, PlainClasses
<1>3. CASE kind = "Int"
  <2>1. PICK n \in Ints : v = Ref(Box(<<"int", n>>))
    BY <1>3 DEF ValuesOf
  <2>2. <<"int", n>>[1] = "int" /\ SoundPrimitive(<<"int", n>>)
    BY DEF SoundPrimitive, ValuesOf, Primitive
  <2>. QED  BY <2>1, <2>2, BoxesSound
<1>4. CASE kind \in PlainClasses
  <2>1. v = <<"ref", <<kind, <<>>>>>>
    BY <1>4 DEF ValuesOf, Ref, PlainClasses
  <2>. QED  BY <1>4, <2>1, PlainSound
<1>. QED  BY <1>1, <1>2, <1>3, <1>4 DEF Kinds

(* What a field or a function for objects may give: the null pointer, too. *)
LEMMA ReferencesSound ==
    ASSUME NEW N, NEW v \in References
    PROVE  v = Ref(NullPointer) \/ Sound(N, v)
<1>1. ASSUME NEW o \in Stored
      PROVE  SoundObject(o) /\ Sound(N, Ref(o)) /\ Sound(N, Ref(Nullable(o)))
  <2>1. SoundObject(o)
    <3>1. IsObject(o)
      BY StoredAssumption
    <3>2. ASSUME NEW t \in Primitive, BoxClass[t] = o[1], o[2] \in ValuesOf(t)
          PROVE  SoundObject(o)
      <4>1. o[2][1] = t
        BY <3>2, ContentFacts
      <4>. QED  BY <3>2, <4>1 DEF SoundObject, SoundPrimitive
    <3>. QED  BY <3>1, <3>2 DEF IsObject, SoundObject
  <2>. QED  BY <2>1, ObjectFacts DEF Sound, Ref, Nullable
<1>2. Sound(N, Ref(Nullable(NullPointer)))
  BY DEF Sound, Ref, Nullable
<1>. QED  BY <1>1, <1>2 DEF References

LEMMA SomeHold ==
    ASSUME NEW N, NEW kind \in Kinds, NEW r \in Some(kind)
    PROVE  Holding(N, r)
<1>1. kind # "Object"
  BY DEF Kinds, Primitive, PlainClasses
<1>2. PICK v \in ValuesOf(kind) : r = <<v>>
  BY <1>1 DEF Some
<1>. QED  BY <1>2, OneHolds, ValuesSound

LEMMA GivesHold ==
    ASSUME NEW N, NEW kind \in Primitive, NEW numbers, numbers \subseteq Content(kind),
           NEW r \in Gives(kind, numbers)
    PROVE  Holding(N, r)
<1>1. PICK n \in Content(kind) : r = <<<<kind, n>>>>
  BY DEF Gives
<1>. QED  BY <1>1, OneHolds, PrimitiveSound
-----------------------------------------------------------------------------
(* Operands.                                                               *)

LEMMA OperandFacts ==
    ASSUME NEW N, Inv(N), NEW i \in Nat \ {0}, i <= Len(stack)
    PROVE  Sound(N, Arg(i))
<1>1. Len(stack) + 1 - i \in 1..Len(stack)
  BY HeldFacts DEF Inv
<1>. QED  BY <1>1, HeldFacts DEF Inv, Arg

LEMMA BelowHolds ==
    ASSUME NEW N, Inv(N), NEW n \in Nat
    PROVE  Holding(N, Below(n))
<1>1. Len(stack) - n \in Int /\ Len(stack) - n <= Len(stack)
  BY HeldFacts DEF Inv
<1>. QED  BY <1>1, PrefixHolds DEF Inv, Below

LEMMA LeaveKeepsInv ==
    ASSUME NEW N, Inv(N), NEW n \in Nat, NEW r, Holding(N, r), Leave(n, r), locals' = locals
    PROVE  Inv(N)'
<1>1. Holding(N, Below(n) \o r)
  BY BelowHolds, ConcatHolds
<1>. QED  BY <1>1 DEF Leave, Inv

LEMMA TakenKeepsInv ==
    ASSUME NEW N, Inv(N), NEW n \in Nat, stack' = Below(n), locals' = locals
    PROVE  Inv(N)'
  BY BelowHolds DEF Inv

LEMMA RefuseKeepsInv ==
    ASSUME NEW N, Inv(N), Refuse \/ Undefined
    PROVE  Inv(N)'
  BY DEF Refuse, Undefined, Rest, Inv

(* Whether a command computes, fails or refuses, what it leaves is sound   *)
(* if its results are.                                                     *)
LEMMA ComputeKeepsInv ==
    ASSUME NEW N, Inv(N), NEW kinds, Len(kinds) \in Nat, NEW results,
           Extracted(kinds) /\ Believed(kinds) => \A r \in results : Holding(N, r),
           Attempt(kinds, results)
    PROVE  Inv(N)'
<1>1. ASSUME Extracted(kinds), Believed(kinds), NEW r \in results,
             Leave(Len(kinds), r), Rest
      PROVE  Inv(N)'
  BY <1>1, LeaveKeepsInv DEF Rest
<1>2. ASSUME stack' = Below(Len(kinds)), Rest
      PROVE  Inv(N)'
  BY <1>2, TakenKeepsInv DEF Rest
<1>. QED  BY <1>1, <1>2, RefuseKeepsInv DEF Attempt, Compute

LEMMA AbandonKeepsInv ==
    ASSUME NEW N, Inv(N), NEW kinds, Len(kinds) \in Nat, NEW left, Holding(N, left),
           NEW m, Abandon(m, kinds, left)
    PROVE  Inv(N)'
<1>1. Holding(N, Below(Len(kinds)) \o left)
  BY BelowHolds, ConcatHolds
<1>. QED  BY <1>1 DEF Abandon, Rest, Inv

LEMMA ThrowKeepsInv ==
    ASSUME NEW N, Inv(N), NEW kinds, Len(kinds) \in Nat, NEW left, Holding(N, left), Throw(kinds, left)
    PROVE  Inv(N)'
  BY AbandonKeepsInv DEF Throw

LEMMA TextSound == \A N : Sound(N, Ref(Text)) /\ Sound(N, Ref(Point))
  BY PlainSound DEF Ref, Text, Point, PlainClasses

(* Commands whose results do not depend on their operands.                 *)
LEMMA LeavingKeepsInv ==
    ASSUME NEW N, Inv(N), NEW kinds, Len(kinds) \in Nat, NEW kind \in Kinds, NEW results,
           \/ results = Some(kind)
           \/ results = {<<>>}
           \/ results = {<<Ref(Text)>>},
           Compute(kinds, results) \/ Attempt(kinds, results)
    PROVE  Inv(N)'
<1>1. Holding(N, <<Ref(Text)>>)
  BY TextSound, OneHolds
<1>2. \A r \in results : Holding(N, r)
  BY <1>1, EmptyHolds, SomeHold
<1>3. Attempt(kinds, results)
  BY DEF Attempt
<1>. QED  BY <1>2, <1>3, ComputeKeepsInv

LEMMA GivingKeepsInv ==
    ASSUME NEW N, Inv(N), NEW kinds, Len(kinds) \in Nat, NEW kind \in Primitive, NEW numbers,
           Extracted(kinds) => numbers \subseteq Content(kind),
           Compute(kinds, Gives(kind, numbers))
    PROVE  Inv(N)'
<1>1. Extracted(kinds) => \A r \in Gives(kind, numbers) : Holding(N, r)
  BY GivesHold
<1>2. Attempt(kinds, Gives(kind, numbers))
  BY DEF Attempt
<1>. QED  BY <1>1, <1>2, ComputeKeepsInv

(* Operands of primitive types are in the range of their type.             *)
LEMMA PrimitiveOperand ==
    ASSUME NEW N, Inv(N), NEW i \in Nat \ {0}, i <= Len(stack), NEW t \in Primitive, Holds(Arg(i), t)
    PROVE  SoundPrimitive(Arg(i)) /\ Arg(i)[1] = t /\ Num(i) \in Content(t)
<1>1. Arg(i)[1] = t /\ t # "ref" /\ t # "Any"
  BY DEF Holds, Primitive
<1>2. SoundPrimitive(Arg(i))
  BY <1>1, OperandFacts DEF Sound, Ref
<1>. QED  BY <1>1, <1>2, ContentFacts DEF SoundPrimitive, Num

LEMMA OneOperand ==
    ASSUME NEW N, Inv(N), NEW t \in Primitive, Extracted(<<t>>)
    PROVE  Num(1) \in Content(t)
<1>1. Len(stack) >= 1 /\ Holds(Arg(1), t)
  BY DEF Extracted
<1>. QED  BY <1>1, PrimitiveOperand

LEMMA TwoOperands ==
    ASSUME NEW N, Inv(N), NEW t \in Primitive, NEW u \in Primitive, Extracted(<<t, u>>)
    PROVE  Num(1) \in Content(t) /\ Num(2) \in Content(u)
<1>1. Len(stack) >= 2 /\ Holds(Arg(1), t) /\ Holds(Arg(2), u)
  BY DEF Extracted
<1>2. Len(stack) >= 1
  BY <1>1, HeldFacts DEF Inv
<1>. QED  BY <1>1, <1>2, PrimitiveOperand

LEMMA SomeKeepsInv ==
    ASSUME NEW N, Inv(N), NEW kinds, Len(kinds) \in Nat, NEW kind \in Kinds,
           Compute(kinds, Some(kind)) \/ Attempt(kinds, Some(kind))
    PROVE  Inv(N)'
  BY LeavingKeepsInv

LEMMA TextKeepsInv ==
    ASSUME NEW N, Inv(N), NEW kinds, Len(kinds) \in Nat,
           Compute(kinds, {<<Ref(Text)>>}) \/ Attempt(kinds, {<<Ref(Text)>>})
    PROVE  Inv(N)'
<1>1. "Int" \in Kinds
  BY DEF Kinds
<1>. QED  BY <1>1, LeavingKeepsInv

LEMMA NoneKeepsInv ==
    ASSUME NEW N, Inv(N), NEW kinds, Len(kinds) \in Nat, Compute(kinds, {<<>>})
    PROVE  Inv(N)'
<1>1. "Int" \in Kinds
  BY DEF Kinds
<1>. QED  BY <1>1, LeavingKeepsInv

LEMMA KindFacts ==
    /\ \A kind \in Primitive : kind \in Kinds
    /\ {"int", "float", "bool", "char", "byte"} \subseteq Primitive
    /\ {"Int", "Nullable", "StringArray"} \subseteq Kinds
  BY DEF Kinds, Primitive, PlainClasses

LEMMA OperandLists ==
    /\ Len(<<>>) = 0
    /\ \A a : Len(<<a>>) = 1
    /\ \A a, b : Len(<<a, b>>) = 2
    /\ \A a, b, c : Len(<<a, b, c>>) = 3
    /\ \A a, b, c, d : Len(<<a, b, c, d>>) = 4
  OBVIOUS
-----------------------------------------------------------------------------
LEMMA ContentsAre ==
    /\ Content("int") = Ints /\ Content("float") = Floats /\ Content("bool") = BOOLEAN
    /\ Content("char") = Chars /\ Content("byte") = Bytes
  BY DEF Content

(* A command with one or two operands of a type and a result of a type.    *)
LEMMA UnaryKeepsInv ==
    ASSUME NEW N, Inv(N), NEW t \in Primitive, NEW kind \in Primitive, NEW numbers,
           Num(1) \in Content(t) => numbers \subseteq Content(kind),
           Compute(<<t>>, Gives(kind, numbers))
    PROVE  Inv(N)'
<1>1. Extracted(<<t>>) => numbers \subseteq Content(kind)
  BY OneOperand
<1>2. Len(<<t>>) \in Nat
  OBVIOUS
<1>. QED  BY <1>1, <1>2, GivingKeepsInv

LEMMA BinaryKeepsInv ==
    ASSUME NEW N, Inv(N), NEW t \in Primitive, NEW kind \in Primitive, NEW numbers,
           Num(1) \in Content(t) /\ Num(2) \in Content(t) => numbers \subseteq Content(kind),
           Compute(<<t, t>>, Gives(kind, numbers))
    PROVE  Inv(N)'
<1>1. Extracted(<<t, t>>) => numbers \subseteq Content(kind)
  BY TwoOperands
<1>2. Len(<<t, t>>) \in Nat
  OBVIOUS
<1>. QED  BY <1>1, <1>2, GivingKeepsInv

LEMMA IntOpsKeepInv ==
    ASSUME NEW N, Inv(N), IntOps
    PROVE  Inv(N)'
<1>1. ASSUME NEW numbers, Num(1) \in Ints => numbers \subseteq Ints,
             Compute(<<"int">>, Gives("int", numbers))
      PROVE  Inv(N)'
  BY <1>1, UnaryKeepsInv, ContentsAre, KindFacts
<1>2. ASSUME NEW numbers, Num(1) \in Ints /\ Num(2) \in Ints => numbers \subseteq Ints,
             Compute(<<"int", "int">>, Gives("int", numbers))
      PROVE  Inv(N)'
  BY <1>2, BinaryKeepsInv, ContentsAre, KindFacts
<1>3. 0 \in Ints
  BY NumbersAreInt
<1>4. ASSUME NEW op \in IntUnaryOps, Compute(<<"int">>, Gives("int", IntUnary(op, Num(1))))
      PROVE  Inv(N)'
  BY <1>1, <1>3, <1>4, IntCommandsInRange
<1>5. ASSUME NEW op \in IntBinaryOps, IntBinary(op)
      PROVE  Inv(N)'
  <2>1. CASE Compute(<<"int", "int">>, Gives("int", IntArithmetic(op, Num(1), Num(2))))
    BY <1>2, <1>5, <2>1, IntCommandsInRange
  <2>2. CASE stack' = Below(2) /\ Rest
    BY <2>2, TakenKeepsInv DEF Rest
  <2>. QED  BY <1>5, <2>1, <2>2 DEF IntBinary
<1>6. ASSUME NEW op \in BitOps,
             Compute(<<"int", "int">>, Gives("int", IntBitwise(op, Num(1), Num(2))))
      PROVE  Inv(N)'
  BY <1>2, <1>6, IntCommandsInRange
<1>7. ASSUME NEW op \in Shifts,
             Compute(<<"int", "int">>, Gives("int", IntShift(op, Num(1), Num(2))))
      PROVE  Inv(N)'
  BY <1>2, <1>7, IntCommandsInRange
<1>. QED  BY <1>4, <1>5, <1>6, <1>7 DEF IntOps

LEMMA ByteOpsKeepInv ==
    ASSUME NEW N, Inv(N), ByteOps
    PROVE  Inv(N)'
<1>1. ASSUME NEW numbers, Num(1) \in Bytes => numbers \subseteq Bytes,
             Compute(<<"byte">>, Gives("byte", numbers))
      PROVE  Inv(N)'
  BY <1>1, UnaryKeepsInv, ContentsAre, KindFacts
<1>2. ASSUME NEW numbers, Num(1) \in Bytes /\ Num(2) \in Bytes => numbers \subseteq Bytes,
             Compute(<<"byte", "byte">>, Gives("byte", numbers))
      PROVE  Inv(N)'
  BY <1>2, BinaryKeepsInv, ContentsAre, KindFacts
<1>3. 0 \in Bytes
  BY NumbersAreInt
<1>4. ASSUME NEW op \in ByteUnaryOps, Compute(<<"byte">>, Gives("byte", ByteUnary(op, Num(1))))
      PROVE  Inv(N)'
  BY <1>1, <1>3, <1>4, ByteCommandsInRange
<1>5. ASSUME NEW op \in ByteBinaryOps,
             Compute(<<"byte", "byte">>, Gives("byte", ByteArithmetic(op, Num(1), Num(2))))
      PROVE  Inv(N)'
  BY <1>2, <1>5, ByteCommandsInRange
<1>6. ASSUME NEW op \in BitOps,
             Compute(<<"byte", "byte">>, Gives("byte", ByteBitwise(op, Num(1), Num(2))))
      PROVE  Inv(N)'
  BY <1>2, <1>6, ByteCommandsInRange
<1>7. ASSUME NEW op \in Shifts,
             Compute(<<"byte", "byte">>, Gives("byte", ByteShift(op, Num(1), Num(2))))
      PROVE  Inv(N)'
  BY <1>2, <1>7, ByteCommandsInRange
<1>. QED  BY <1>4, <1>5, <1>6, <1>7 DEF ByteOps

LEMMA FloatAndBoolOpsKeepInv ==
    ASSUME NEW N, Inv(N), FloatOps \/ BoolOps
    PROVE  Inv(N)'
<1>1. ASSUME NEW t \in {"float", "bool"}, NEW numbers,
             Num(1) \in Content(t) => numbers \subseteq Content(t),
             Compute(<<t>>, Gives(t, numbers))
      PROVE  Inv(N)'
  BY <1>1, UnaryKeepsInv, KindFacts
<1>2. ASSUME NEW t \in {"float", "bool"}, NEW numbers,
             Num(1) \in Content(t) /\ Num(2) \in Content(t) => numbers \subseteq Content(t),
             Compute(<<t, t>>, Gives(t, numbers))
      PROVE  Inv(N)'
  BY <1>2, BinaryKeepsInv, KindFacts
<1>3. CASE FloatOps
  <2>1. ASSUME NEW op \in {"FloatNegate", "FloatSqrt"},
               Compute(<<"float">>, Gives("float", FloatUnary(op, Num(1))))
        PROVE  Inv(N)'
    BY <1>1, <2>1, FloatCommandsInRange, ContentsAre
  <2>2. ASSUME NEW op \in FloatBinaryOps,
               Compute(<<"float", "float">>, Gives("float", FloatArithmetic(op, Num(1), Num(2))))
        PROVE  Inv(N)'
    BY <1>2, <2>2, FloatCommandsInRange, ContentsAre
  <2>. QED  BY <1>3, <2>1, <2>2 DEF FloatOps
<1>4. CASE BoolOps
  <2>1. CASE Compute(<<"bool">>, Gives("bool", {~Num(1)}))
    BY <1>1, <2>1, ContentsAre
  <2>2. ASSUME NEW op \in {"BoolAnd", "BoolOr", "BoolXor"},
               Compute(<<"bool", "bool">>, Gives("bool", BoolBinary(op, Num(1), Num(2))))
        PROVE  Inv(N)'
    <3>1. ASSUME NEW p \in BOOLEAN, NEW q \in BOOLEAN
          PROVE  BoolBinary(op, p, q) \subseteq BOOLEAN
      BY DEF BoolBinary
    <3>. QED  BY <1>2, <2>2, <3>1, ContentsAre
  <2>. QED  BY <1>4, <2>1, <2>2 DEF BoolOps
<1>. QED  BY <1>3, <1>4

LEMMA ConvertKeepsInv ==
    ASSUME NEW N, Inv(N), Convert
    PROVE  Inv(N)'
<1>1. ASSUME NEW t \in Primitive, NEW kind \in Primitive, NEW n,
             Num(1) \in Content(t) => n \in Content(kind),
             Compute(<<t>>, Gives(kind, {n}))
      PROVE  Inv(N)'
  BY <1>1, UnaryKeepsInv
<1>2. CASE Compute(<<"int">>, Gives("float", {SignOf(Num(1))}))
  <2>1. SignOf(Num(1)) \in Floats
    BY DEF SignOf, Floats, Signs
  <2>. QED  BY <1>1, <1>2, <2>1, ContentsAre, KindFacts
<1>3. CASE Compute(<<"float">>, Gives("int", FloatToInt(Num(1))))
  BY <1>3, UnaryKeepsInv, FloatCommandsInRange, ContentsAre, KindFacts
<1>4. CASE Compute(<<"byte">>, Gives("int", {Num(1)}))
  BY <1>1, <1>4, NumbersAreInt, ContentsAre, KindFacts
<1>5. CASE Compute(<<"char">>, Gives("byte", {WrapByte(Num(1))}))
  BY <1>1, <1>5, NumbersAreInt, WrappedInRange, ContentsAre, KindFacts
<1>6. CASE Compute(<<"byte">>, Gives("char", {Signed(Num(1), ByteBits)}))
  <2>1. Num(1) \in Bytes => Signed(Num(1), ByteBits) \in Chars
    BY DEF Chars
  <2>. QED  BY <1>1, <1>6, <2>1, ContentsAre, KindFacts
<1>7. CASE Compute(<<"bool">>, Gives("byte", {IF Num(1) THEN 1 ELSE 0}))
  <2>1. (IF Num(1) THEN 1 ELSE 0) \in Bytes
    BY NumbersAreInt
  <2>. QED  BY <1>1, <1>7, <2>1, ContentsAre, KindFacts
<1>. QED  BY <1>2, <1>3, <1>4, <1>5, <1>6, <1>7 DEF Convert

LEMMA NumbersKeepInv ==
    ASSUME NEW N, Inv(N), Numbers
    PROVE  Inv(N)'
<1>1. CASE PushLiteral
  <2>1. PICK kind \in Primitive : Compute(<<>>, Some(kind))
    BY <1>1 DEF PushLiteral, Push
  <2>. QED  BY <2>1, SomeKeepsInv, KindFacts, OperandLists
<1>. QED  BY <1>1, IntOpsKeepInv, FloatAndBoolOpsKeepInv, ByteOpsKeepInv, ConvertKeepsInv
             DEF Numbers

LEMMA ComparisonsKeepInv ==
    ASSUME NEW N, Inv(N), Comparisons
    PROVE  Inv(N)'
<1>1. PICK kind \in {"int", "float", "byte"} : Compare(kind)
  BY DEF Comparisons
<1>2. PICK relation \in Relations :
         Compute(<<kind, kind>>,
                 Gives("bool", IF kind = "float" THEN FloatCompares(relation, Num(1), Num(2))
                               ELSE {Compares(relation, Num(1), Num(2))}))
  BY <1>1 DEF Compare
<1>. DEFINE numbers == IF kind = "float" THEN FloatCompares(relation, Num(1), Num(2))
                       ELSE {Compares(relation, Num(1), Num(2))}
<1>3. Num(1) \in Content(kind) /\ Num(2) \in Content(kind) => numbers \subseteq Content("bool")
  <2>1. CASE kind = "float"
    BY <2>1, FloatCommandsInRange, ContentsAre
  <2>2. CASE kind # "float"
    <3>1. Content(kind) \subseteq Int
      BY <2>2, NumbersAreInt, ContentsAre
    <3>. QED  BY <2>2, <3>1, ComparesTruly, ContentsAre
  <2>. QED  BY <2>1, <2>2
<1>. HIDE DEF numbers
<1>4. Compute(<<kind, kind>>, Gives("bool", numbers))
  BY <1>2 DEF numbers
<1>. QED  BY <1>3, <1>4, BinaryKeepsInv, KindFacts

LEMMA PushStringKeepsInv ==
    ASSUME NEW N, Inv(N), PushString
    PROVE  Inv(N)'
<1>1. Attempt(<<>>, {<<Ref(Text)>>})
  BY DEF PushString
<1>2. Len(<<>>) \in Nat
  OBVIOUS
<1>. QED  BY <1>1, <1>2, TextKeepsInv

LEMMA CellsKeepInv ==
    ASSUME NEW N, Inv(N), Cells
    PROVE  Inv(N)'
<1>1. CASE PushString
  BY <1>1, PushStringKeepsInv
<1>2. CASE PushNull
  <2>1. Sound(N, Ref(Nullable(NullPointer)))
    BY DEF Sound, Ref, Nullable
  <2>2. \A r \in {<<Ref(Nullable(NullPointer))>>} : Holding(N, r)
    BY <2>1, OneHolds
  <2>. QED  BY <1>2, <2>2, ComputeKeepsInv, OperandLists DEF PushNull
<1>3. ASSUME stack # <<>>
      PROVE  Len(stack) >= 1 /\ Sound(N, Arg(1))
  <2>1. Len(stack) >= 1
    BY <1>3, HeldFacts DEF Inv
  <2>. QED  BY <2>1, OperandFacts
<1>4. CASE Pop
  <2>1. CASE Leave(1, <<>>) /\ Rest
    BY <2>1, EmptyHolds, LeaveKeepsInv DEF Rest
  <2>. QED  BY <1>4, <2>1, RefuseKeepsInv DEF Pop, Unchecked
<1>5. CASE Dup
  <2>1. CASE stack # <<>> /\ Leave(0, <<Arg(1)>>) /\ Rest
    BY <1>3, <2>1, OneHolds, LeaveKeepsInv DEF Rest
  <2>. QED  BY <1>5, <2>1, RefuseKeepsInv DEF Dup, Unchecked
<1>6. CASE Swap
  <2>1. CASE Len(stack) >= 2 /\ Leave(2, <<Arg(1), Arg(2)>>) /\ Rest
    <3>1. Sound(N, Arg(1)) /\ Sound(N, Arg(2))
      BY <2>1, HeldFacts, OperandFacts DEF Inv
    <3>2. <<Arg(1), Arg(2)>> = <<Arg(1)>> \o <<Arg(2)>>
      OBVIOUS
    <3>3. Holding(N, <<Arg(1), Arg(2)>>)
      BY <3>1, <3>2, OneHolds, ConcatHolds
    <3>. QED  BY <2>1, <3>3, LeaveKeepsInv DEF Rest
  <2>. QED  BY <1>6, <2>1, RefuseKeepsInv DEF Swap
<1>7. ASSUME NEW n, Rotate(n)
      PROVE  Inv(N)'
  BY <1>7, RefuseKeepsInv DEF Rotate, Rest, Inv
<1>8. ASSUME NEW i \in 0..1, LoadLocal(i)
      PROVE  Inv(N)'
  <2>1. CASE i < Len(locals) /\ Leave(0, <<locals[i + 1]>>) /\ Rest
    <3>1. Sound(N, locals[i + 1])
      BY <2>1, HeldFacts DEF Inv
    <3>. QED  BY <2>1, <3>1, OneHolds, LeaveKeepsInv DEF Rest
  <2>. QED  BY <1>8, <2>1, RefuseKeepsInv DEF LoadLocal
<1>9. ASSUME NEW i \in 0..1, SetLocal(i)
      PROVE  Inv(N)'
  <2>. DEFINE n == IF i < Len(locals) THEN Len(locals) ELSE i + 1
  <2>1. CASE /\ stack # <<>> /\ stack' = Below(1)
             /\ locals' = [j \in 1..n |-> IF j = i + 1 THEN Arg(1)
                              ELSE IF j <= Len(locals) THEN locals[j] ELSE <<"int", 0>>]
    <3>1. n \in Nat /\ Len(locals) \in Nat
      BY HeldFacts DEF Inv
    <3>2. \A j \in 1..Len(locals) : Sound(N, locals[j])
      BY HeldFacts DEF Inv
    <3>3. Sound(N, <<"int", 0>>)
      BY PrimitiveSound, KindFacts, ContentsAre, NumbersAreInt
    <3>. HIDE DEF n
    <3>4. locals' = [j \in 1..n |-> locals'[j]]
      BY <2>1
    <3>5. \A j \in 1..n : Sound(N, locals'[j])
      BY <1>3, <2>1, <3>1, <3>2, <3>3
    <3>6. Holding(N, locals')
      BY <3>1, <3>4, <3>5, FunctionHolds
    <3>. QED  BY <2>1, <3>6, BelowHolds DEF Inv
  <2>. QED  BY <1>9, <2>1, RefuseKeepsInv DEF SetLocal, Unchecked
<1>. QED  BY <1>1, <1>2, <1>4, <1>5, <1>6, <1>7, <1>8, <1>9 DEF Cells

LEMMA StringsKeepInv ==
    ASSUME NEW N, Inv(N), Strings
    PROVE  Inv(N)'
<1>1. ASSUME NEW kinds, Len(kinds) \in Nat, Attempt(kinds, {<<Ref(Text)>>})
      PROVE  Inv(N)'
  BY <1>1, TextKeepsInv
<1>2. CASE StringConcat
  BY <1>1, <1>2, OperandLists DEF StringConcat
<1>3. CASE StringLength
  <2>1. {n \in Ints : n >= 0} \subseteq Content("int")
    BY ContentsAre
  <2>. QED  BY <1>3, <2>1, GivingKeepsInv, OperandLists, KindFacts DEF StringLength
<1>4. CASE StringSubstring
  <2>1. Holding(N, <<Ref(Text)>>)
    BY OneHolds, TextSound
  <2>2. CASE Attempt(<<"String", "int", "int">>, {<<Ref(Text)>>})
    BY <1>1, <2>2, OperandLists
  <2>3. CASE Throw(<<"String", "int", "int">>, <<Ref(Text)>>)
    BY <2>1, <2>3, ThrowKeepsInv, OperandLists
  <2>. QED  BY <1>4, <2>2, <2>3 DEF StringSubstring
<1>5. CASE StringCompare
  BY <1>5, SomeKeepsInv, OperandLists, KindFacts DEF StringCompare
<1>6. ASSUME NEW kind \in {"int", "float"}, StringTo(kind)
      PROVE  Inv(N)'
  <2>1. CASE Compute(<<"String">>, Some(kind))
    BY <2>1, SomeKeepsInv, OperandLists, KindFacts
  <2>2. CASE Throw(<<"String">>, <<>>)
    BY <2>2, ThrowKeepsInv, EmptyHolds, OperandLists
  <2>. QED  BY <1>6, <2>1, <2>2 DEF StringTo
<1>7. ASSUME NEW kind, ToText(kind)
      PROVE  Inv(N)'
  BY <1>1, <1>7, OperandLists DEF ToText
<1>. QED  BY <1>2, <1>3, <1>4, <1>5, <1>6, <1>7 DEF Strings

LEMMA ReadKeepsInv ==
    ASSUME NEW N, Inv(N), NEW kind \in Kinds, Push(kind)
    PROVE  Inv(N)'
  BY SomeKeepsInv, OperandLists DEF Push

(* Console, clock, files, the process and the random numbers.              *)
LEMMA WorldKeepsInv ==
    ASSUME NEW N, Inv(N), Console \/ Clock \/ FileSystem \/ Process \/ Randoms
    PROVE  Inv(N)'
<1>1. ASSUME NEW kinds, Len(kinds) \in Nat, NEW kind \in Kinds,
             Compute(kinds, Some(kind)) \/ Attempt(kinds, Some(kind))
      PROVE  Inv(N)'
  BY <1>1, SomeKeepsInv
<1>2. ASSUME NEW kinds, Len(kinds) \in Nat, Compute(kinds, {<<>>})
      PROVE  Inv(N)'
  BY <1>2, NoneKeepsInv
<1>3. CASE Console
  <2>1. CASE PrintText
    BY <1>2, <2>1, OperandLists DEF PrintText
  <2>2. CASE Read
    BY <2>2, ReadKeepsInv, PushStringKeepsInv, KindFacts DEF Read
  <2>. QED  BY <1>3, <2>1, <2>2 DEF Console
<1>4. CASE Clock
  <2>1. CASE Time \/ Sleep
    BY <1>2, <2>1, ReadKeepsInv, OperandLists, KindFacts DEF Time, Sleep
  <2>2. CASE FormatDateTime
    <3>1. CASE Attempt(<<"int", "String">>, {<<Ref(Text)>>})
      <4>1. Len(<<"int", "String">>) \in Nat
        OBVIOUS
      <4>. QED  BY <3>1, <4>1, TextKeepsInv
    <3>2. CASE stack' = Below(2) /\ Rest
      BY <3>2, TakenKeepsInv DEF Rest
    <3>. QED  BY <2>2, <3>1, <3>2 DEF FormatDateTime
  <2>3. CASE ParseDateTime
    BY <1>1, <2>3, OperandLists, KindFacts DEF ParseDateTime
  <2>. QED  BY <1>4, <2>1, <2>2, <2>3 DEF Clock
<1>5. CASE FileSystem
  BY <1>1, <1>5, PushStringKeepsInv, OperandLists, KindFacts
     DEF FileSystem, FileQuery, FilePair, ListDirectory, GetCurrentDirectory, ChangeDirectory
<1>6. CASE Process
  <2>1. CASE Exit
    <3>1. CASE stack' = Below(1) /\ Rest
      BY <3>1, TakenKeepsInv DEF Rest
    <3>. QED  BY <2>1, <3>1, RefuseKeepsInv DEF Exit
  <2>2. CASE SystemInfo
    BY <2>2, ReadKeepsInv, PushStringKeepsInv, KindFacts DEF SystemInfo
  <2>3. CASE GetEnvironmentVar \/ SetEnvironmentVar \/ Interop
    <3>1. CASE Abandon("error", <<"String">>, <<Ref(Nullable(NullPointer))>>)
      <4>1. Holding(N, <<Ref(Nullable(NullPointer))>>) /\ Len(<<"String">>) \in Nat
        BY OneHolds DEF Sound, Ref, Nullable
      <4>. QED  BY <3>1, <4>1, AbandonKeepsInv
    <3>. QED  BY <1>1, <2>3, <3>1, OperandLists, KindFacts
                 DEF GetEnvironmentVar, SetEnvironmentVar, Interop
  <2>. QED  BY <1>6, <2>1, <2>2, <2>3 DEF Process
<1>7. CASE Randoms
  <2>1. CASE Random
    BY <2>1, ReadKeepsInv, KindFacts DEF Random
  <2>2. CASE RandomRange \/ RandomFloatRange
    <3>1. \A a, b : Between(a, b, Ints) \subseteq Content("int")
      BY ContentsAre DEF Between
    <3>2. \A a, b : (IF NaN \in {a, b} THEN Floats ELSE Between(a, b, Signs)) \subseteq Content("float")
      BY ContentsAre DEF Between, Floats
    <3>. QED  BY <2>2, <3>1, <3>2, GivingKeepsInv, OperandLists, KindFacts
                 DEF RandomRange, RandomFloatRange
  <2>3. CASE SeedRandom
    BY <1>2, <2>3, OperandLists DEF SeedRandom
  <2>. QED  BY <1>7, <2>1, <2>2, <2>3 DEF Randoms
<1>. QED  BY <1>3, <1>4, <1>5, <1>6, <1>7

(* The operand of a command for objects, if it is one.                     *)
LEMMA ObjectOperand ==
    ASSUME NEW N, Inv(N), Extracted(<<"Object">>), Believed(<<"Object">>)
    PROVE  /\ Len(stack) >= 1 /\ Arg(1)[1] = "ref" /\ Arg(1)[2] = Num(1)
           /\ Num(1) # NullPointer
           /\ IF Num(1)[1] = "Nullable" THEN Num(1)[2] = NullPointer \/ SoundObject(Num(1)[2])
              ELSE SoundObject(Num(1))
<1>1. Len(stack) >= 1 /\ Holds(Arg(1), "Object") /\ Arg(1) # Ref(NullPointer)
  BY DEF Extracted, Believed
<1>2. Arg(1)[1] = "ref" /\ Arg(1)[2] = Num(1) /\ Sound(N, Arg(1))
  BY <1>1, OperandFacts DEF Holds, Primitive, Num
<1>3. IF Num(1)[1] = "Nullable" THEN Num(1)[2] = NullPointer \/ SoundObject(Num(1)[2])
      ELSE SoundObject(Num(1))
  BY <1>1, <1>2 DEF Sound, SoundPrimitive, Primitive
<1>4. Num(1) # NullPointer
  BY <1>3, ObjectFacts DEF NullPointer
<1>. QED  BY <1>1, <1>2, <1>3, <1>4

LEMMA LayoutFacts ==
    /\ Layout("Point") = <<"bool", "Object">> /\ Layout("Nullable") = <<"Object">>
    /\ \A t \in Primitive : Layout(BoxClass[t]) = <<t>>
    /\ \A class : class \notin BoxClasses \cup {"Point", "Nullable"} => Layout(class) = <<>>
<1>1. ASSUME NEW t \in Primitive
      PROVE  Layout(BoxClass[t]) = <<t>>
  <2>1. \A u \in Primitive : BoxClass[u] = BoxClass[t] => u = t
    BY DEF Primitive, BoxClass
  <2>2. BoxClass[t] \in BoxClasses /\ BoxClass[t] # "Point" /\ BoxClass[t] # "Nullable"
    BY Classes
  <2>. QED  BY <2>1, <2>2 DEF Layout
<1>. QED  BY <1>1, Classes DEF Layout

(* A field gives a sound value or the null pointer.                        *)
LEMMA FieldsHold ==
    ASSUME NEW N, Inv(N), Extracted(<<"Object">>), Believed(<<"Object">>),
           NEW i, NEW r \in Fields(Num(1), i)
    PROVE  r = <<Ref(NullPointer)>> \/ Holding(N, r)
<1>1. PICK f \in Field(Num(1), i) : r = <<f>>
  BY DEF Fields
<1>2. f = Ref(NullPointer) \/ Sound(N, f)
  <2>1. CASE Num(1)[1] = "Nullable"
    <3>1. f = Ref(Num(1)[2])
      BY <1>1, <2>1, Classes DEF Field
    <3>2. Num(1)[2] = NullPointer \/ SoundObject(Num(1)[2])
      BY <2>1, ObjectOperand
    <3>. QED  BY <3>1, <3>2, ObjectFacts DEF Sound, Ref
  <2>2. CASE Num(1)[1] \in BoxClasses
    <3>1. Num(1)[1] # "Nullable"
      BY <2>2, Classes
    <3>2. f = Num(1)[2] /\ SoundObject(Num(1))
      BY <1>1, <2>2, <3>1, ObjectOperand DEF Field
    <3>. QED  BY <2>2, <3>2, ObjectFacts DEF Sound
  <2>3. CASE Num(1)[1] \notin BoxClasses \cup {"Nullable"}
    <3>1. f \in ValuesOf("bool") \/ f \in References
      BY <1>1, <2>3 DEF Field
    <3>. QED  BY <3>1, ValuesSound, ReferencesSound, KindFacts
  <2>. QED  BY <2>1, <2>2, <2>3
<1>. QED  BY <1>1, <1>2, OneHolds

LEMMA GetFieldKeepsInv ==
    ASSUME NEW N, Inv(N), Ref(NullPointer) \in N, NEW i, GetField(i)
    PROVE  Inv(N)'
<1>. DEFINE results == Fields(Num(1), i)
<1>1. Holding(N, <<Ref(NullPointer)>>)
  BY OneHolds DEF Sound
<1>2. Extracted(<<"Object">>) /\ Believed(<<"Object">>) => \A r \in results : Holding(N, r)
  BY <1>1, FieldsHold
<1>3. Compute(<<"Object">>, results)
  BY DEF GetField
<1>. HIDE DEF results
<1>. QED  BY <1>2, <1>3, ComputeKeepsInv, OperandLists DEF Attempt

(* Writing through a reference leaves sound values sound, whichever of the *)
(* equal ones see it.                                                      *)
LEMMA AliasedHold ==
    ASSUME NEW N, NEW s, Holding(N, s), NEW old, NEW new, old # NullPointer,
           Sound(N, Ref(new)), SoundObject(old) => SoundObject(new), NEW t \in Aliased(s, old, new)
    PROVE  Holding(N, t)
<1>1. Len(s) \in Nat /\ DOMAIN s = 1..Len(s) /\ \A j \in 1..Len(s) : Sound(N, s[j])
  BY HeldFacts
<1>2. ASSUME NEW v, Sound(N, v)
      PROVE  Sound(N, Follow(v, old, new))
  <2>1. CASE v = Ref(old)
    <3>1. ASSUME v = Ref(Nullable(old)) PROVE FALSE
      <4>1. old = Nullable(old)
        BY <2>1, <3>1 DEF Ref
      <4>2. old[1] = "Nullable" /\ old[2] = old
        BY <4>1 DEF Nullable
      <4>3. SoundObject(old)
        BY <1>2, <2>1, <4>2 DEF Sound, SoundPrimitive, Primitive, Ref
      <4>. QED  BY <4>2, <4>3, ObjectFacts
    <3>. QED  BY <2>1, <3>1 DEF Follow
  <2>2. CASE v # Ref(old) /\ v = Ref(Nullable(old))
    <3>1. SoundObject(old)
      BY <1>2, <2>2 DEF Sound, SoundPrimitive, Primitive, Ref, Nullable, NullPointer
    <3>. QED  BY <2>2, <3>1 DEF Follow, Sound, Ref, Nullable
  <2>3. CASE v # Ref(old) /\ v # Ref(Nullable(old))
    BY <1>2, <2>3 DEF Follow
  <2>. QED  BY <2>1, <2>2, <2>3
<1>3. PICK same : t = [j \in DOMAIN s |-> IF j \in same THEN Follow(s[j], old, new) ELSE s[j]]
  BY DEF Aliased
<1>4. t = [j \in 1..Len(s) |-> t[j]] /\ \A j \in 1..Len(s) : Sound(N, t[j])
  BY <1>1, <1>2, <1>3
<1>. QED  BY <1>1, <1>4, FunctionHolds

LEMMA SetFieldKeepsInv ==
    ASSUME NEW N, Inv(N), NEW i \in 0..1, SetField(i)
    PROVE  Inv(N)'
<1>. DEFINE object == Num(1)
            new == Assigned(object, Arg(2))
            takes == HasField(object, i) /\ Holds(Arg(2), Layout(object[1])[i + 1])
<1>1. ASSUME Extracted(<<"Object", "Any">>), Believed(<<"Object">>), takes, Shallow(Ref(new)),
             stack' \in Aliased(Below(2), object, new), locals' \in Aliased(locals, object, new)
      PROVE  Inv(N)'
  <2>1. Extracted(<<"Object">>) /\ Len(stack) >= 2
    BY <1>1 DEF Extracted
  <2>2. /\ object # NullPointer
        /\ IF object[1] = "Nullable" THEN object[2] = NullPointer \/ SoundObject(object[2])
           ELSE SoundObject(object)
    BY <1>1, <2>1, ObjectOperand
  <2>3. Sound(N, Arg(2))
    BY <2>1, OperandFacts
  <2>4. Sound(N, Ref(new)) /\ (SoundObject(object) => SoundObject(new))
    <3>1. CASE object[1] = "Nullable"
      <4>1. new = Nullable(Arg(2)[2]) /\ ~SoundObject(object)
        BY <3>1, ObjectFacts, Classes DEF Assigned
      <4>2. i = 0
        BY <1>1, <3>1, LayoutFacts DEF HasField
      <4>3. Arg(2)[1] = "ref"
        BY <1>1, <3>1, <4>2, LayoutFacts DEF Holds, Primitive
      <4>4. Arg(2)[2][1] # "Nullable"
        BY <1>1, <4>1 DEF Shallow, IsNullable, Ref, Nullable
      <4>5. Arg(2)[2] = NullPointer \/ SoundObject(Arg(2)[2])
        BY <2>3, <4>3, <4>4 DEF Sound, SoundPrimitive, Primitive, Ref
      <4>. QED  BY <4>1, <4>5 DEF Sound, Ref, Nullable
    <3>2. CASE object[1] \in BoxClasses
      <4>1. PICK t \in Primitive : object[1] = BoxClass[t]
        BY <3>2 DEF BoxClasses
      <4>2. i = 0 /\ Holds(Arg(2), t)
        BY <1>1, <4>1, LayoutFacts DEF HasField
      <4>3. SoundPrimitive(Arg(2))
        BY <2>1, <4>2, PrimitiveOperand
      <4>4. new = Box(Arg(2))
        BY <3>2, Classes DEF Assigned
      <4>. QED  BY <4>3, <4>4, BoxesSound
    <3>3. CASE object[1] \notin BoxClasses \cup {"Nullable"}
      <4>1. new = object
        BY <3>3 DEF Assigned
      <4>. QED  BY <2>2, <3>3, <4>1 DEF Sound, Ref
    <3>. QED  BY <3>1, <3>2, <3>3
  <2>5. Holding(N, Below(2)) /\ Holding(N, locals)
    BY BelowHolds DEF Inv
  <2>. HIDE DEF object, new
  <2>. QED  BY <1>1, <2>2, <2>4, <2>5, AliasedHold DEF Inv
<1>2. CASE stack' = Below(2) /\ Rest
  BY <1>2, TakenKeepsInv DEF Rest
<1>3. CASE stack' = <<>> /\ Rest
  BY <1>3, EmptyHolds DEF Rest, Inv
<1>. QED  BY <1>1, <1>2, <1>3, RefuseKeepsInv DEF SetField

(* Unwrap gives what is in the Nullable, a box or a Point: not the pointer.*)
LEMMA UnwrapKeepsInv ==
    ASSUME NEW N, Inv(N), Unwrap
    PROVE  Inv(N)'
<1>. DEFINE results == Fields(Num(1), 0) \ {<<Ref(NullPointer)>>}
<1>1. Extracted(<<"Object">>) /\ Believed(<<"Object">>) => \A r \in results : Holding(N, r)
  BY FieldsHold
<1>2. Compute(<<"Object">>, results)
  BY DEF Unwrap
<1>. HIDE DEF results
<1>. QED  BY <1>1, <1>2, ComputeKeepsInv, OperandLists DEF Attempt

(* The operand of a command for Nullables, if it is one.                   *)
LEMMA NullableOperand ==
    ASSUME NEW N, Inv(N), Extracted(<<"Nullable">>), Believed(<<"Nullable">>)
    PROVE  /\ Len(stack) >= 1 /\ Arg(1)[1] = "ref" /\ Arg(1)[2] = Num(1) /\ Sound(N, Arg(1))
           /\ Num(1)[1] = "Nullable"
           /\ Num(1)[2] # NullPointer => SoundObject(Num(1)[2]) /\ Sound(N, Ref(Num(1)[2]))
<1>1. Len(stack) >= 1 /\ Holds(Arg(1), "Nullable") /\ OfKind(Arg(1), "Nullable")
  BY DEF Extracted, Believed
<1>2. Arg(1)[1] = "ref" /\ Arg(1)[2] = Num(1) /\ Sound(N, Arg(1))
  BY <1>1, OperandFacts DEF Holds, Primitive, Num
<1>3. Num(1)[1] = "Nullable"
  BY <1>1, <1>2 DEF OfKind, KindOf
<1>4. Num(1)[2] # NullPointer => SoundObject(Num(1)[2])
  BY <1>2, <1>3 DEF Sound, SoundPrimitive, Primitive, Ref, NullPointer
<1>5. SoundObject(Num(1)[2]) => Sound(N, Ref(Num(1)[2]))
  BY ObjectFacts DEF Sound, Ref
<1>. QED  BY <1>1, <1>2, <1>3, <1>4, <1>5

LEMMA NullCoalesceKeepsInv ==
    ASSUME NEW N, Inv(N), NullCoalesce
    PROVE  Inv(N)'
<1>1. CASE /\ Extracted(<<"Nullable">>) /\ Believed(<<"Nullable">>)
           /\ \/ Leave(1, <<>>)
              \/ Num(1)[2] # NullPointer /\ Leave(2, <<Ref(Num(1)[2])>>)
           /\ Rest
  <2>1. CASE Leave(1, <<>>)
    BY <1>1, <2>1, EmptyHolds, LeaveKeepsInv DEF Rest
  <2>2. CASE Num(1)[2] # NullPointer /\ Leave(2, <<Ref(Num(1)[2])>>)
    <3>1. Holding(N, <<Ref(Num(1)[2])>>)
      BY <1>1, <2>2, NullableOperand, OneHolds
    <3>. QED  BY <1>1, <2>2, <3>1, LeaveKeepsInv DEF Rest
  <2>. QED  BY <1>1, <2>1, <2>2
<1>. QED  BY <1>1, RefuseKeepsInv DEF NullCoalesce

LEMMA ObjectsKeepInv ==
    ASSUME NEW N, Inv(N), Objects, (\E i \in 0..1 : GetField(i)) => Ref(NullPointer) \in N
    PROVE  Inv(N)'
<1>1. CASE NullCoalesce
  BY <1>1, NullCoalesceKeepsInv
<1>2. CASE IsNull
  <2>1. {Num(1)[2] = NullPointer} \subseteq Content("bool")
    BY ContentsAre
  <2>. QED  BY <1>2, <2>1, GivingKeepsInv, OperandLists, KindFacts DEF IsNull
<1>3. CASE GetVTable \/ SizeOf
  BY <1>3, SomeKeepsInv, OperandLists, KindFacts DEF GetVTable, SizeOf
<1>4. CASE SetVTable
  <2>1. \A r \in {<<Ref(Point)>>} : Holding(N, r)
    BY OneHolds, TextSound
  <2>2. Attempt(<<"Point">>, {<<Ref(Point)>>}) /\ Len(<<"Point">>) \in Nat
    BY <1>4 DEF SetVTable
  <2>. QED  BY <2>1, <2>2, ComputeKeepsInv
<1>5. CASE TypeOf
  <2>1. CASE Attempt(<<"Any">>, {<<Ref(Text)>>})
    <3>1. Len(<<"Any">>) \in Nat
      OBVIOUS
    <3>. QED  BY <2>1, <3>1, TextKeepsInv
  <2>. QED  BY <1>5, <2>1, RefuseKeepsInv DEF TypeOf, Unchecked
<1>6. ASSUME NEW type, IsType(type)
      PROVE  Inv(N)'
  <2>1. CASE Compute(<<"Any">>, Gives("bool", {TypeNamed(Arg(1)) = type}))
    <3>1. {TypeNamed(Arg(1)) = type} \subseteq Content("bool")
      BY ContentsAre
    <3>. QED  BY <2>1, <3>1, GivingKeepsInv, OperandLists, KindFacts
  <2>. QED  BY <1>6, <2>1, RefuseKeepsInv DEF IsType, Unchecked
<1>7. ASSUME NEW i \in 0..1, GetField(i) \/ SetField(i)
      PROVE  Inv(N)'
  BY <1>7, GetFieldKeepsInv, SetFieldKeepsInv
<1>. QED  BY <1>1, <1>2, <1>3, <1>4, <1>5, <1>6, <1>7, UnwrapKeepsInv DEF Objects
-----------------------------------------------------------------------------
(* Calls.                                                                  *)

LEMMA FunctionFacts ==
    ASSUME NEW i \in DOMAIN Functions
    PROVE  /\ Arity(Functions[i]) \in Nat
           /\ Functions[i].params \in Seq(STRING)
           /\ Functions[i].result \in Results
<1>1. Functions[i] \in [id : STRING, params : Seq(STRING), result : STRING]
  <2>1. ASSUME NEW S, NEW s \in Seq(S), NEW j \in DOMAIN s
        PROVE  s[j] \in S
    OBVIOUS
  <2>. QED  BY <2>1, FunctionsAssumption
<1>2. Functions[i].params \in Seq(STRING)
  BY <1>1
<1>. QED  BY <1>2, FunctionsAssumption DEF Arity, Kinds, Results

LEMMA ResultsHold ==
    ASSUME NEW N, NEW i \in DOMAIN Functions, NEW r \in ResultsOf(Functions[i])
    PROVE  \/ Holding(N, r)
           \/ Functions[i].result = "Object" /\ r = <<Ref(NullPointer)>>
<1>1. CASE Functions[i].result = "none"
  BY <1>1, EmptyHolds DEF ResultsOf
<1>2. CASE Functions[i].result \in Kinds
  <2>1. Functions[i].result # "none"
    BY <1>2 DEF Kinds, Primitive, PlainClasses
  <2>. QED  BY <1>2, <2>1, SomeHold DEF ResultsOf
<1>3. CASE Functions[i].result = "Object"
  <2>1. PICK v \in References : r = <<v>>
    BY <1>3 DEF ResultsOf, Some
  <2>. QED  BY <1>3, <2>1, ReferencesSound, OneHolds
<1>. QED  BY <1>1, <1>2, <1>3, FunctionFacts DEF Results

(* A result becomes a Nullable, boxed if need be and whether it is null or *)
(* not; a Nullable of a Nullable is not within the bound.                  *)
LEMMA OptionalHolds ==
    ASSUME NEW N, NEW s, Holding(NullOnly, s), Holding(N, SubSeq(s, 1, Len(s) - 1)),
           \A i \in DOMAIN Optional(s) : Shallow(Optional(s)[i])
    PROVE  Holding(N, Optional(s))
<1>1. CASE s = <<>>
  BY <1>1, EmptyHolds DEF Optional
<1>2. CASE s # <<>>
  <2>. DEFINE top == s[Len(s)]
              object == IF top[1] = "ref" THEN top[2] ELSE Box(top)
              below == SubSeq(s, 1, Len(s) - 1)
              last == Ref(Nullable(object))
  <2>1. Optional(s) = below \o <<last>>
    BY <1>2 DEF Optional
  <2>2. Len(s) \in 1..Len(s) /\ Len(s) \in Nat /\ Sound(NullOnly, top)
    BY <1>2, HeldFacts
  <2>3. Holding(N, below)
    OBVIOUS
  <2>. HIDE DEF below, last
  <2>4. Len(below) \in Nat
    BY <2>3, HeldFacts
  <2>5. Len(below) + 1 \in DOMAIN (below \o <<last>>) /\ (below \o <<last>>)[Len(below) + 1] = last
    <3>1. PICK S : below \in Seq(S)
      BY <2>3 DEF Holding
    <3>. DEFINE T == S \cup {last}
    <3>2. below \in Seq(T) /\ <<last>> \in Seq(T)
      BY <3>1
    <3>. HIDE DEF T
    <3>. QED  BY <2>4, <3>2
  <2>6. Shallow(last)
    BY <2>1, <2>5
  <2>7. object[1] # "Nullable"
    BY <2>6 DEF Shallow, IsNullable, last, Ref, Nullable
  <2>8. object = NullPointer \/ SoundObject(object)
    <3>1. CASE top[1] = "ref"
      BY <2>2, <2>7, <3>1 DEF Sound, SoundPrimitive, Primitive, Ref
    <3>2. CASE top[1] # "ref"
      <4>1. SoundPrimitive(top)
        BY <2>2, <3>2 DEF Sound, Ref
      <4>. QED  BY <3>2, <4>1, BoxesSound
    <3>. QED  BY <3>1, <3>2
  <2>9. Sound(N, last)
    BY <2>8 DEF Sound, last, Ref, Nullable
  <2>. QED  BY <2>1, <2>3, <2>9, OneHolds, ConcatHolds
<1>. QED  BY <1>1, <1>2

LEMMA ExecuteKeepsInv ==
    ASSUME NEW N, Inv(N), NEW i \in DOMAIN Functions, NEW s, Holding(N, s), NEW safe \in BOOLEAN,
           Functions[i].result = "Object" /\ ~safe => Ref(NullPointer) \in N,
           Execute(Functions[i], s, safe)
    PROVE  Inv(N)'
<1>. DEFINE f == Functions[i]
            rest == SubSeq(s, 1, Len(s) - Arity(f))
<1>1. Holding(N, rest)
  <2>1. Len(s) - Arity(f) \in Int /\ Len(s) - Arity(f) <= Len(s)
    BY HeldFacts, FunctionFacts
  <2>. QED  BY <2>1, PrefixHolds
<1>2. ASSUME NEW r \in ResultsOf(f), Fits(stack', locals), locals' = locals,
             stack' = IF safe THEN Optional(rest \o r) ELSE rest \o r
      PROVE  Inv(N)'
  <2>. HIDE DEF rest
  <2>. DEFINE u == rest \o r
  <2>1. Holding(N, r) \/ r = <<Ref(NullPointer)>>
    BY ResultsHold
  <2>2. CASE ~safe
    <3>1. Holding(N, <<Ref(NullPointer)>>) \/ f.result # "Object"
      BY <2>2, OneHolds DEF Sound
    <3>2. Holding(N, r)
      BY <3>1, ResultsHold
    <3>3. Holding(N, u)
      BY <1>1, <3>2, ConcatHolds
    <3>. QED  BY <1>2, <2>2, <3>3 DEF Inv
  <2>3. CASE safe
    <3>1. \A j \in DOMAIN stack' : Shallow(stack'[j])
      BY <1>2 DEF Fits
    <3>2. Holding(NullOnly, r)
      <4>1. Holding(NullOnly, <<Ref(NullPointer)>>)
        BY OneHolds DEF Sound, NullOnly
      <4>. QED  BY <2>1, <4>1, NullsAllowed
    <3>3. Holding(NullOnly, rest)
      BY <1>1, NullsAllowed
    <3>4. Holding(NullOnly, u)
      BY <3>2, <3>3, ConcatHolds
    <3>5. Holding(N, SubSeq(u, 1, Len(u) - 1))
      <4>1. CASE Holding(N, r)
        <5>1. Holding(N, u)
          BY <1>1, <4>1, ConcatHolds
        <5>. HIDE DEF u
        <5>2. Len(u) \in Nat
          BY <5>1, HeldFacts
        <5>3. Len(u) - 1 \in Int /\ Len(u) - 1 <= Len(u)
          BY <5>2
        <5>. QED  BY <5>1, <5>3, PrefixHolds
      <4>2. CASE r = <<Ref(NullPointer)>>
        <5>1. Len(rest) \in 0..Len(rest) /\ SubSeq(rest, 1, Len(rest)) = rest /\ Len(rest) \in Nat
          BY <1>1, HeldFacts, WholePrefix
        <5>. DEFINE t == SubSeq(rest, 1, Len(rest)) \o <<Ref(NullPointer)>>
        <5>3. Len(t) = Len(rest) + 1 /\ SubSeq(t, 1, Len(rest)) = SubSeq(rest, 1, Len(rest))
          BY <1>1, <5>1, ReplacedFacts
        <5>2. Len(u) = Len(rest) + 1 /\ SubSeq(u, 1, Len(rest)) = rest
          BY <4>2, <5>1, <5>3
        <5>. HIDE DEF u, t
        <5>4. Len(u) - 1 = Len(rest)
          BY <5>1, <5>2
        <5>. QED  BY <1>1, <5>2, <5>4
      <4>. QED  BY <2>1, <4>1, <4>2
    <3>6. stack' = Optional(u)
      BY <1>2, <2>3
    <3>. HIDE DEF u
    <3>7. Holding(N, stack')
      BY <3>1, <3>4, <3>5, <3>6, OptionalHolds
    <3>. QED  BY <1>2, <3>7 DEF Inv
  <2>. QED  BY <2>2, <2>3
<1>3. CASE stack' = s /\ locals' = locals
  BY <1>3 DEF Inv
<1>4. CASE stack' = rest /\ locals' = locals
  BY <1>1, <1>4 DEF Inv
<1>. QED  BY <1>2, <1>3, <1>4 DEF Execute, Rest

LEMMA DiscardedFacts ==
    ASSUME NEW m \in DOMAIN Virtual \cup Methods, Len(stack) \in Nat
    PROVE  Discarded(m) \in Nat
<1>1. CASE Named(m) # {}
  <2>. DEFINE i == CHOOSE j \in Named(m) : TRUE
              n == Arity(Functions[i]) - 1
  <2>1. i \in DOMAIN Functions
    BY <1>1 DEF Named
  <2>2. n \in Int
    BY <2>1, FunctionFacts
  <2>3. Discarded(m) = Max({0, n})
    BY <1>1 DEF Discarded
  <2>. HIDE DEF n
  <2>4. Max({0, n}) = IF n > 0 THEN n ELSE 0
    BY <2>2 DEF Max
  <2>. QED  BY <2>2, <2>3, <2>4
<1>2. CASE Named(m) = {}
  <2>1. m \notin Methods
    BY <1>2 DEF Methods, Named
  <2>2. Underscores[m] \in Nat
    BY <2>1, FunctionsAssumption
  <2>. QED  BY <1>2, <2>2 DEF Discarded
<1>. QED  BY <1>1, <1>2

LEMMA SafeCallKeepsInv ==
    ASSUME NEW N, Inv(N), NEW m \in DOMAIN Virtual \cup Methods, SafeCall(m)
    PROVE  Inv(N)'
<1>1. ASSUME Extracted(<<"Nullable">>), Believed(<<"Nullable">>), Rest,
             stack' = SubSeq(stack, 1, Len(stack) - 1 - Discarded(m)) \o <<Arg(1)>>
      PROVE  Inv(N)'
  <2>1. Discarded(m) \in Nat
    BY HeldFacts, DiscardedFacts DEF Inv
  <2>2. Len(stack) - 1 - Discarded(m) \in Int /\ Len(stack) - 1 - Discarded(m) <= Len(stack)
    BY <2>1, HeldFacts DEF Inv
  <2>3. Holding(N, SubSeq(stack, 1, Len(stack) - 1 - Discarded(m)))
    BY <2>2, PrefixHolds DEF Inv
  <2>4. Holding(N, <<Arg(1)>>)
    BY <1>1, NullableOperand, OneHolds
  <2>5. Holding(N, stack')
    BY <1>1, <2>3, <2>4, ConcatHolds
  <2>. QED  BY <1>1, <2>5 DEF Rest, Inv
<1>2. ASSUME Extracted(<<"Nullable">>), Believed(<<"Nullable">>), Num(1)[2] # NullPointer,
             NEW i \in Targets(m, Num(1)[2][1]),
             Execute(Functions[i], Below(1) \o <<Ref(Num(1)[2])>>, TRUE)
      PROVE  Inv(N)'
  <2>1. Holding(N, Below(1) \o <<Ref(Num(1)[2])>>)
    BY <1>2, NullableOperand, BelowHolds, OneHolds, ConcatHolds
  <2>2. i \in DOMAIN Functions
    BY DEF Targets, Overrides, Named
  <2>. QED  BY <1>2, <2>1, <2>2, ExecuteKeepsInv
<1>3. ASSUME stack' = Below(1), Rest
      PROVE  Inv(N)'
  BY <1>3, TakenKeepsInv DEF Rest
<1>. QED  BY <1>1, <1>2, <1>3, RefuseKeepsInv DEF SafeCall

LEMMA CallsKeepInv ==
    ASSUME NEW N, Inv(N), Calls, Yields => Ref(NullPointer) \in N
    PROVE  Inv(N)'
<1>1. Holding(N, stack)
  BY DEF Inv
<1>7. ASSUME NEW i \in DOMAIN Functions, NEW s, s = stack \/ s = Below(1),
             Execute(Functions[i], s, FALSE)
      PROVE  Inv(N)'
  <2>1. Functions[i].result = "Object" => Yields
    BY <1>7 DEF Yields
  <2>2. Holding(N, s)
    BY <1>1, <1>7, BelowHolds
  <2>. QED  BY <1>7, <2>1, <2>2, ExecuteKeepsInv
<1>2. ASSUME stack' = Below(1), Rest
      PROVE  Inv(N)'
  BY <1>2, TakenKeepsInv DEF Rest
<1>3. ASSUME NEW id, Call(id)
      PROVE  Inv(N)'
  BY <1>3, <1>7, RefuseKeepsInv DEF Call, Named
<1>4. CASE CallIndirect
  <2>1. CASE Num(1) + 1 \in DOMAIN Functions /\ Execute(Functions[Num(1) + 1], Below(1), FALSE)
    BY <1>7, <2>1
  <2>. QED  BY <1>2, <1>4, <2>1, RefuseKeepsInv DEF CallIndirect
<1>5. ASSUME NEW m, CallVirtual(m)
      PROVE  Inv(N)'
  <2>1. ASSUME NEW i \in Overrides(m, KindOf(Arg(1))), Execute(Functions[i], stack, FALSE)
        PROVE  Inv(N)'
    BY <1>7, <2>1 DEF Overrides, Named
  <2>. QED  BY <1>2, <1>5, <2>1, RefuseKeepsInv DEF CallVirtual
<1>6. ASSUME NEW c \in {<<"Int", "int">>, <<"Point", "bool">>, <<"ByteArray", "int">>},
             CallConstructor(c[1], c[2])
      PROVE  Inv(N)'
  <2>1. CASE Extracted(<<c[2]>>) /\ Leave(1, <<Constructed(c[1], Arg(1))>>) /\ Rest
    <3>1. Len(stack) >= 1 /\ Holds(Arg(1), c[2])
      BY <2>1 DEF Extracted
    <3>2. SoundPrimitive(Arg(1))
      BY <1>6, <3>1, PrimitiveOperand DEF Primitive
    <3>3. Sound(N, Constructed(c[1], Arg(1)))
      <4>1. CASE c[1] \in BoxClasses
        BY <3>2, <4>1, BoxesSound DEF Constructed
      <4>2. CASE c[1] \notin BoxClasses
        <5>1. c[1] \in {"Point", "ByteArray"}
          BY <1>6, <4>2, Classes
        <5>2. Constructed(c[1], Arg(1)) = <<"ref", <<c[1], <<>>>>>>
          BY <4>2 DEF Constructed, Ref
        <5>. QED  BY <5>1, <5>2, PlainSound DEF PlainClasses
      <4>. QED  BY <4>1, <4>2
    <3>. QED  BY <2>1, <3>3, OneHolds, LeaveKeepsInv DEF Rest
  <2>2. CASE stack' = <<Constructed(c[1], <<c[2], 0>>)>> /\ Rest
    <3>1. Sound(N, Constructed(c[1], <<c[2], 0>>))
      <4>1. CASE c[1] = "Int"
        <5>1. SoundPrimitive(<<"int", 0>>)
          BY ContentFacts, ContentsAre, NumbersAreInt, KindFacts DEF SoundPrimitive
        <5>. QED  BY <1>6, <4>1, <5>1, BoxesSound, Classes DEF Constructed
      <4>2. CASE c[1] # "Int"
        <5>1. c[1] \in {"Point", "ByteArray"}
          BY <1>6, <4>2
        <5>2. Constructed(c[1], <<c[2], 0>>) = <<"ref", <<c[1], <<>>>>>>
          BY <5>1, Classes DEF Constructed, Ref, PlainClasses
        <5>. QED  BY <5>1, <5>2, PlainSound DEF PlainClasses
      <4>. QED  BY <4>1, <4>2
    <3>. QED  BY <2>2, <3>1, OneHolds DEF Rest, Inv
  <2>. QED  BY <1>2, <1>6, <2>1, <2>2, RefuseKeepsInv DEF CallConstructor
<1>. QED  BY <1>3, <1>4, <1>5, <1>6, SafeCallKeepsInv DEF Calls

LEMMA StepKeepsInv ==
    ASSUME NEW N, Inv(N), Next, Yields => Ref(NullPointer) \in N
    PROVE  Inv(N)'
<1>1. CASE Objects
  <2>1. (\E i \in 0..1 : GetField(i)) => Ref(NullPointer) \in N
    BY DEF Yields
  <2>. QED  BY <1>1, <2>1, ObjectsKeepInv
<1>. QED  BY <1>1, NumbersKeepInv, ComparisonsKeepInv, CellsKeepInv, StringsKeepInv,
             WorldKeepsInv, CallsKeepInv DEF Next

LEMMA Invariance == Spec => []Inv(NullOnly)
<1>1. Init => Inv(NullOnly)
  BY EmptyHolds DEF Init, Inv
<1>2. ASSUME Inv(NullOnly), [Next]_vars
      PROVE  Inv(NullOnly)'
  <2>1. CASE Next
    <3>1. Ref(NullPointer) \in NullOnly
      BY DEF NullOnly
    <3>. QED  BY <1>2, <2>1, <3>1, StepKeepsInv
  <2>2. CASE UNCHANGED vars
    BY <1>2, <2>2 DEF vars, Inv
  <2>. QED  BY <1>2, <2>1, <2>2
<1>. QED  BY <1>1, <1>2, PTL DEF Spec

LEMMA NoNullFacts ==
    ASSUME Inv(NullOnly), NoNull
    PROVE  Inv({})
<1>1. /\ \A i \in DOMAIN stack : stack[i] # Ref(NullPointer)
      /\ \A i \in DOMAIN locals : locals[i] # Ref(NullPointer)
  BY DEF NoNull
<1>. QED  BY <1>1, NullsExcluded DEF Inv

LEMMA NoNullIfSound ==
    ASSUME Inv({})
    PROVE  NoNull
<1>1. ~Sound({}, Ref(NullPointer))
  BY ObjectFacts DEF Sound, SoundPrimitive, Ref, NullPointer, Primitive
<1>. QED  BY <1>1, HeldFacts DEF Inv, NoNull

(* A program that has no null pointer gets one from a field or from a      *)
(* function that returns an object, and from no other command: not from    *)
(* Unwrap, NullCoalesce or SafeCall, whatever they are used on.            *)
THEOREM NullIsContained == Spec => NullComesFromFields
<1>1. ASSUME Inv(NullOnly), [Next]_vars, NoNull, ~NoNull'
      PROVE  Yields /\ ~Guarded
  <2>1. Inv({})
    BY <1>1, NoNullFacts
  <2>2. ~Inv({})'
    <3>1. Inv({})' => NoNull'
      BY NoNullIfSound, PTL
    <3>. QED  BY <1>1, <3>1
  <2>3. Next
    <3>1. UNCHANGED vars => Inv({})'
      BY <2>1 DEF vars, Inv
    <3>. QED  BY <1>1, <2>2, <3>1
  <2>4. Yields
    BY <2>1, <2>2, <2>3, StepKeepsInv
  <2>5. ~Guarded
    BY <2>1, <2>2, UnwrapKeepsInv, NullCoalesceKeepsInv, SafeCallKeepsInv DEF Guarded
  <2>. QED  BY <2>4, <2>5
<1>2. Inv(NullOnly) /\ [Next]_vars => [NoNull /\ ~NoNull' => Yields /\ ~Guarded]_vars
  BY <1>1
<1>. QED  BY <1>2, Invariance, PTL DEF Spec, NullComesFromFields
-----------------------------------------------------------------------------
(* What a value is, and what is counted.                                   *)

LEMMA SoundIsValue ==
    ASSUME NEW v, Sound(NullOnly, v)
    PROVE  IsValue(v) \/ v = Ref(NullPointer)
<1>1. ASSUME NEW o, SoundObject(o)
      PROVE  IsObject(o)
  BY <1>1 DEF SoundObject, SoundPrimitive, IsObject
<1>2. CASE SoundPrimitive(v)
  <2>1. v[1] # "ref"
    BY <1>2 DEF SoundPrimitive, Primitive
  <2>. QED  BY <1>2, <2>1 DEF IsValue, SoundPrimitive
<1>3. CASE v[1] = "ref" /\ v[2][1] = "Nullable" /\ (v[2][2] = NullPointer \/ SoundObject(v[2][2]))
  BY <1>1, <1>3 DEF IsValue
<1>4. CASE v[1] = "ref" /\ SoundObject(v[2])
  BY <1>1, <1>4 DEF IsValue
<1>. QED  BY <1>2, <1>3, <1>4 DEF Sound

Endings == Ends \cup {"run"}
Tallies == actions \in [Tiered -> 0..(Boundary + 1)] /\ mode \in Endings
Uncounted == actions' = actions /\ mode' \in Endings

LEMMA PlainCommandsDoNotCount ==
    ASSUME Tallies
    PROVE  /\ \A kinds, results : Attempt(kinds, results) => Uncounted
           /\ \A kinds, results : Compute(kinds, results) => Uncounted
           /\ \A kinds, left : Throw(kinds, left) => Uncounted
           /\ \A kinds, left : Abandon("error", kinds, left) => Uncounted
           /\ \A m \in Endings : End(m) /\ Rest => Uncounted
           /\ Go /\ Rest => Uncounted
           /\ Refuse \/ Undefined => Uncounted
<1>1. /\ \A m \in Endings : End(m) /\ Rest => Uncounted
      /\ Go /\ Rest => Uncounted
  BY DEF Tallies, Uncounted, End, Go, Rest
<1>2. {"error", "undefined", "exception"} \subseteq Endings
  BY DEF Endings, Ends
<1>3. Refuse \/ Undefined => Uncounted
  BY <1>1, <1>2 DEF Refuse, Undefined
<1>4. ASSUME NEW kinds, NEW results, Compute(kinds, results)
      PROVE  Uncounted
  BY <1>1, <1>2, <1>3, <1>4 DEF Compute
<1>5. ASSUME NEW kinds, NEW results, Attempt(kinds, results)
      PROVE  Uncounted
  BY <1>1, <1>2, <1>4, <1>5 DEF Attempt
<1>6. ASSUME NEW kinds, NEW left, Throw(kinds, left) \/ Abandon("error", kinds, left)
      PROVE  Uncounted
  BY <1>1, <1>2, <1>6 DEF Throw, Abandon
<1>. QED  BY <1>1, <1>3, <1>4, <1>5, <1>6

LEMMA ExecuteCounts ==
    ASSUME Tallies, NEW f, NEW s, NEW safe, Execute(f, s, safe)
    PROVE  Tallies'
<1>1. Uncounted => Tallies'
  BY DEF Uncounted, Tallies
<1>2. ASSUME Go, Counted(f)
      PROVE  Tallies'
  <2>1. CASE f.id \in DOMAIN actions
    <3>1. PICK n \in actions[f.id]..(Boundary + 1) : actions' = [actions EXCEPT ![f.id] = n]
      BY <1>2, <2>1 DEF Counted
    <3>2. f.id \in Tiered /\ actions[f.id] \in 0..(Boundary + 1)
      BY <2>1 DEF Tallies
    <3>3. n \in 0..(Boundary + 1)
      BY <3>1, <3>2, BoundsAssumption
    <3>. QED  BY <1>2, <3>1, <3>3 DEF Tallies, Go
  <2>2. CASE f.id \notin DOMAIN actions
    BY <1>2, <2>2 DEF Counted, Tallies, Go
  <2>. QED  BY <2>1, <2>2
<1>3. "error" \in Endings /\ "undefined" \in Endings /\ Ends \subseteq Endings
  BY DEF Endings, Ends
<1>. QED  BY <1>1, <1>2, <1>3, PlainCommandsDoNotCount DEF Execute

LEMMA CommandsCount ==
    ASSUME Tallies, Next
    PROVE  Tallies'
<1>1. Uncounted => Tallies'
  BY DEF Uncounted, Tallies
<1>. DEFINE Plain == /\ \A kinds, results : Attempt(kinds, results) => Uncounted
                     /\ \A kinds, results : Compute(kinds, results) => Uncounted
                     /\ \A kinds, left : Throw(kinds, left) => Uncounted
                     /\ \A kinds, left : Abandon("error", kinds, left) => Uncounted
            Bare == /\ Go /\ Rest => Uncounted
                    /\ Refuse \/ Undefined => Uncounted
                    /\ End("error") \/ End("exited") \/ End("crashed") \/ End("undefined") =>
                           (Rest => Uncounted)
                    /\ \A m \in Ends : End(m) /\ Rest => Uncounted
<1>2. Plain /\ Bare
  <2>1. Ends \subseteq Endings /\ {"error", "exited", "crashed", "undefined"} \subseteq Ends
    BY DEF Endings, Ends
  <2>. QED  BY <2>1, PlainCommandsDoNotCount
<1>. HIDE DEF Plain, Bare
<1>3. CASE Numbers
  <2>1. ASSUME NEW t, NEW kind, NEW numbers, Compute(<<t>>, Gives(kind, numbers))
        PROVE  Uncounted
    BY <1>2, <2>1 DEF Plain
  <2>2. ASSUME NEW t, NEW u, NEW kind, NEW numbers, Compute(<<t, u>>, Gives(kind, numbers))
        PROVE  Uncounted
    BY <1>2, <2>2 DEF Plain
  <2>3. ASSUME NEW op, IntBinary(op)
        PROVE  Uncounted
    BY <1>2, <2>2, <2>3 DEF Bare, IntBinary
  <2>4. CASE IntOps
    BY <1>1, <2>1, <2>2, <2>3, <2>4 DEF IntOps
  <2>5. CASE FloatOps
    BY <1>1, <2>1, <2>2, <2>5 DEF FloatOps
  <2>6. CASE ByteOps
    BY <1>1, <2>1, <2>2, <2>6 DEF ByteOps
  <2>7. CASE BoolOps
    BY <1>1, <2>1, <2>2, <2>7 DEF BoolOps
  <2>8. CASE Convert
    BY <1>1, <2>1, <2>8 DEF Convert
  <2>9. CASE PushLiteral
    BY <1>1, <1>2, <2>9 DEF Plain, PushLiteral, Push
  <2>. QED  BY <1>3, <2>4, <2>5, <2>6, <2>7, <2>8, <2>9 DEF Numbers
<1>4. CASE Comparisons
  BY <1>1, <1>2, <1>4 DEF Plain, Comparisons, Compare
<1>5. PushString => Uncounted
  BY <1>2 DEF Plain, PushString
<1>6. \A kind : Push(kind) => Uncounted
  BY <1>2 DEF Plain, Push
<1>7. CASE Cells
  <2>1. PushNull => Uncounted
    BY <1>2 DEF Plain, PushNull
  <2>2. Pop \/ Dup \/ Swap => Uncounted
    BY <1>2 DEF Bare, Pop, Dup, Swap, Unchecked
  <2>3. ASSUME NEW n, Rotate(n) PROVE Uncounted
    BY <1>2, <2>3 DEF Bare, Rotate
  <2>4. ASSUME NEW i, LoadLocal(i) PROVE Uncounted
    BY <1>2, <2>4 DEF Bare, LoadLocal
  <2>5. ASSUME NEW i, SetLocal(i) PROVE Uncounted
    <3>1. CASE stack # <<>>
      BY <2>5, <3>1 DEF SetLocal, Unchecked, Go, Uncounted, Tallies
    <3>. QED  BY <1>2, <2>5, <3>1 DEF Bare, SetLocal, Unchecked
  <2>. QED  BY <1>1, <1>5, <1>7, <2>1, <2>2, <2>3, <2>4, <2>5 DEF Cells
<1>8. CASE Strings
  BY <1>1, <1>2, <1>8 DEF Plain, Strings, StringConcat, StringLength, StringSubstring,
     StringCompare, StringTo, ToText
<1>9. CASE Console \/ Randoms
  BY <1>1, <1>2, <1>5, <1>6, <1>9 DEF Plain, Console, PrintText, Read,
     Randoms, Random, RandomRange, RandomFloatRange, SeedRandom
<1>10. CASE Clock
  BY <1>1, <1>2, <1>6, <1>10 DEF Plain, Bare, Clock, Time, Sleep, FormatDateTime, ParseDateTime
<1>11. CASE FileSystem
  BY <1>1, <1>2, <1>5, <1>11 DEF Plain, FileSystem, FileQuery, FilePair, ListDirectory,
     GetCurrentDirectory, ChangeDirectory
<1>12. CASE Process
  BY <1>1, <1>2, <1>5, <1>6, <1>12 DEF Plain, Bare, Process, Exit, GetEnvironmentVar,
     SetEnvironmentVar, SystemInfo, Interop
<1>13. CASE Objects
  <2>1. ASSUME NEW i, GetField(i) \/ SetField(i) PROVE Uncounted
    <3>1. CASE Go /\ UNCHANGED actions
      BY <3>1 DEF Go, Uncounted, Tallies
    <3>. QED  BY <1>2, <2>1, <3>1 DEF Plain, Bare, GetField, SetField, Ends
  <2>2. Unwrap \/ IsNull \/ GetVTable \/ SetVTable \/ SizeOf => Uncounted
    BY <1>2 DEF Plain, Unwrap, IsNull, GetVTable, SetVTable, SizeOf
  <2>3. NullCoalesce => Uncounted
    BY <1>2 DEF Bare, NullCoalesce
  <2>4. ASSUME NEW type, TypeOf \/ IsType(type) PROVE Uncounted
    BY <1>2, <2>4 DEF Plain, Bare, TypeOf, IsType, Unchecked
  <2>. QED  BY <1>1, <1>13, <2>1, <2>2, <2>3, <2>4 DEF Objects
<1>14. CASE Calls
  <2>1. \A f, s, safe : Execute(f, s, safe) => Tallies'
    BY ExecuteCounts
  <2>2. ASSUME NEW id, Call(id) PROVE Tallies'
    BY <1>1, <1>2, <2>1, <2>2 DEF Bare, Call
  <2>3. CASE CallIndirect
    BY <1>1, <1>2, <2>1, <2>3 DEF Bare, CallIndirect
  <2>4. ASSUME NEW m, CallVirtual(m) PROVE Tallies'
    BY <1>1, <1>2, <2>1, <2>4 DEF Bare, CallVirtual
  <2>5. ASSUME NEW class, NEW kind, CallConstructor(class, kind) PROVE Tallies'
    BY <1>1, <1>2, <2>5 DEF Bare, CallConstructor, EndsOf, Ends
  <2>6. ASSUME NEW m, SafeCall(m) PROVE Tallies'
    BY <1>1, <1>2, <2>1, <2>6 DEF Bare, SafeCall
  <2>. QED  BY <1>14, <2>2, <2>3, <2>4, <2>5, <2>6 DEF Calls
<1>. QED  BY <1>3, <1>4, <1>7, <1>8, <1>9, <1>10, <1>11, <1>12, <1>13, <1>14 DEF Next

(* No command leaves a number its type cannot hold, or an object that was  *)
(* not built: whatever the widths, the functions and the program.          *)
THEOREM TypeCorrect == Spec => []TypeOK
<1>1. Spec => []Tallies
  <2>1. Init => Tallies
    BY BoundsAssumption DEF Init, Tallies, Endings
  <2>2. Tallies /\ [Next]_vars => Tallies'
    <3>1. Tallies /\ UNCHANGED vars => Tallies'
      BY DEF Tallies, vars
    <3>. QED  BY <3>1, CommandsCount
  <2>. QED  BY <2>1, <2>2, PTL DEF Spec
<1>2. ASSUME Inv(NullOnly), Tallies
      PROVE  TypeOK
  BY <1>2, HeldFacts, SoundIsValue DEF Inv, Tallies, Endings, TypeOK
<1>. QED  BY <1>1, <1>2, Invariance, PTL
-----------------------------------------------------------------------------
(* The laws of arithmetic, for numbers cut to their width.                 *)

LEMMA FloorFacts ==
    ASSUME NEW n \in Int, NEW m \in Nat \ {0}
    PROVE  n \div m \in Int /\ n % m \in 0..(m - 1) /\ n = m * (n \div m) + (n % m)
  OBVIOUS

LEMMA ModUnique ==
    ASSUME NEW m \in Nat \ {0}, NEW n \in Int, NEW k \in Int, NEW r \in 0..(m - 1), n = m * k + r
    PROVE  n % m = r
  BY DivisionUnique

LEMMA ModShift ==
    ASSUME NEW m \in Nat \ {0}, NEW n \in Int, NEW k \in Int
    PROVE  (n + m * k) % m = n % m
<1>. DEFINE q == n \div m
            s == n % m
<1>1. s \in 0..(m - 1) /\ n = m * q + s /\ q \in Int
  OBVIOUS
<1>. HIDE DEF q, s
<1>2. q + k \in Int /\ n + m * k \in Int /\ n + m * k = m * (q + k) + s
  BY <1>1
<1>3. (n + m * k) % m = s
  BY <1>1, <1>2, ModUnique
<1>. QED  BY <1>3 DEF s

(* Cutting a number to the width changes it by a multiple of 2^IntBits,    *)
(* and makes numbers equal that differ by one.                             *)
LEMMA WrapFacts ==
    \E m \in Nat \ {0} :
        /\ m = 2^IntBits
        /\ \A n \in Ints : WrapInt(n) = n
        /\ \A n \in Int : \E k \in Int : WrapInt(n) = n + m * k
        /\ \A n, k \in Int : WrapInt(n + m * k) = WrapInt(n)
<1>1. PICK h \in Nat \ {0} : 2^(IntBits - 1) = h /\ 2^IntBits = 2 * h /\ Ints = (-h)..(h - 1)
  BY RangeFacts
<1>. DEFINE m == 2 * h
<1>2. m \in Nat \ {0} /\ m = 2 * h
  OBVIOUS
<1>3. \A n : WrapInt(n) = ((n + h) % m) - h
  BY <1>1 DEF WrapInt, Signed
<1>. HIDE DEF m
<1>4. ASSUME NEW n \in Ints
      PROVE  WrapInt(n) = n
  <2>1. n + h \in 0..(m - 1) /\ n + h \in Int /\ n + h = m * 0 + (n + h)
    BY <1>1, <1>2
  <2>2. (n + h) % m = n + h
    BY <1>2, <2>1, ModUnique
  <2>. QED  BY <1>1, <1>3, <2>2
<1>5. ASSUME NEW n \in Int
      PROVE  \E k \in Int : WrapInt(n) = n + m * k
  <2>. DEFINE q == (n + h) \div m
              r == (n + h) % m
  <2>1. q \in Int /\ r \in Int /\ n + h = m * q + r
    <3>. DEFINE x == n + h
    <3>1. x \in Int
      OBVIOUS
    <3>. HIDE DEF x
    <3>2. x \div m \in Int /\ x % m \in 0..(m - 1) /\ x = m * (x \div m) + (x % m)
      BY <1>2, <3>1, FloorFacts
    <3>3. x % m \in Int
      BY <1>2, <3>2
    <3>. QED  BY <3>2, <3>3 DEF x
  <2>2. WrapInt(n) = r - h
    BY <1>3
  <2>. HIDE DEF q, r
  <2>3. -q \in Int /\ r - h = n + m * (-q)
    BY <1>2, <2>1
  <2>. QED  BY <2>2, <2>3
<1>6. ASSUME NEW n \in Int, NEW k \in Int
      PROVE  WrapInt(n + m * k) = WrapInt(n)
  <2>1. n + h \in Int /\ (n + m * k) + h = (n + h) + m * k
    BY <1>2
  <2>2. ((n + h) + m * k) % m = (n + h) % m
    BY <1>2, <2>1, ModShift
  <2>. QED  BY <1>3, <2>1, <2>2
<1>. QED  BY <1>1, <1>2, <1>4, <1>5, <1>6

LEMMA RemainderLaws ==
    ASSUME NEW a \in Int, NEW b \in Int, b # 0
    PROVE  /\ Quotient(a, b) \in Int /\ Quotient(a, b) * b + Remainder(a, b) = a
           /\ Remainder(a, b) \in Int
           /\ AbsOf(Remainder(a, b)) < AbsOf(b) /\ Remainder(a, b) * a >= 0
<1>. DEFINE A == AbsOf(a)
            B == AbsOf(b)
            q == A \div B
            r == A % B
<1>1. A \in Nat /\ B \in Nat /\ B > 0
  BY DEF AbsOf
<1>. HIDE DEF A, B
<1>2. q \in Nat /\ r \in Nat /\ r < B /\ A = B * q + r
  <2>1. A \div B \in 0..A /\ A % B \in 0..(B - 1)
    BY <1>1, DivisionFacts
  <2>2. A = B * (A \div B) + (A % B)
    BY <1>1, DivisionFacts
  <2>. QED  BY <1>1, <2>1, <2>2
<1>. USE DEF A, B
<1>. HIDE DEF q, r
<1>3. Quotient(a, b) = SignOf(a) * SignOf(b) * q
  BY DEF Quotient, q
<1>4. Quotient(a, b) \in Int
  BY <1>2, <1>3 DEF SignOf
<1>5. CASE a >= 0
  <2>1. Remainder(a, b) = r
    <3>1. CASE b > 0
      <4>1. A = a /\ B = b /\ SignOf(b) = 1 /\ (a = 0 \/ SignOf(a) = 1)
        BY <1>5, <3>1 DEF AbsOf, SignOf
      <4>. QED  BY <1>2, <1>3, <4>1 DEF Remainder, SignOf
    <3>2. CASE b < 0
      <4>1. A = a /\ B = -b /\ SignOf(b) = -1 /\ (a = 0 \/ SignOf(a) = 1)
        BY <1>5, <3>2 DEF AbsOf, SignOf
      <4>. QED  BY <1>2, <1>3, <4>1 DEF Remainder, SignOf
    <3>. QED  BY <3>1, <3>2
  <2>2. AbsOf(r) = r /\ r * a >= 0
    BY <1>2, <1>5 DEF AbsOf
  <2>. QED  BY <1>2, <1>4, <2>1, <2>2 DEF Remainder
<1>6. CASE a < 0
  <2>1. Remainder(a, b) = -r
    <3>1. CASE b > 0
      <4>1. A = -a /\ B = b /\ SignOf(b) = 1 /\ SignOf(a) = -1
        BY <1>6, <3>1 DEF AbsOf, SignOf
      <4>. QED  BY <1>2, <1>3, <4>1 DEF Remainder
    <3>2. CASE b < 0
      <4>1. A = -a /\ B = -b /\ SignOf(b) = -1 /\ SignOf(a) = -1
        BY <1>6, <3>2 DEF AbsOf, SignOf
      <4>. QED  BY <1>2, <1>3, <4>1 DEF Remainder
    <3>. QED  BY <3>1, <3>2
  <2>2. AbsOf(-r) = r /\ (-r) * a >= 0
    BY <1>2, <1>6 DEF AbsOf
  <2>. QED  BY <1>2, <1>4, <2>1, <2>2 DEF Remainder
<1>. QED  BY <1>5, <1>6

(* Of three comparisons one holds.                                         *)
LEMMA OneComparisonHolds ==
    ASSUME NEW a \in Int, NEW b \in Int
    PROVE  Cardinality({r \in {"LessThan", "Equal", "GreaterThan"} : Compares(r, a, b)}) = 1
<1>. DEFINE S == {r \in {"LessThan", "Equal", "GreaterThan"} : Compares(r, a, b)}
<1>1. /\ Compares("LessThan", a, b) <=> a < b
      /\ Compares("Equal", a, b) <=> a = b
      /\ Compares("GreaterThan", a, b) <=> a > b
  BY DEF Compares
<1>2. S = {"LessThan"} \/ S = {"Equal"} \/ S = {"GreaterThan"}
  <2>1. CASE a < b
    BY <1>1, <2>1
  <2>2. CASE a = b
    BY <1>1, <2>2
  <2>3. CASE a > b
    BY <1>1, <2>3
  <2>. QED  BY <2>1, <2>2, <2>3
<1>. HIDE DEF S
<1>3. Cardinality(S) = 1
  BY <1>2, FS_Singleton
<1>. QED  BY <1>3 DEF S

(* Of quotients only that of the least integer by -1 does not fit.         *)
LEMMA QuotientInRange ==
    ASSUME NEW a \in Ints, NEW b \in Ints, b # 0, ~DivisionTraps(a, b)
    PROVE  Quotient(a, b) \in Ints
<1>1. PICK h \in Nat \ {0} : 2^(IntBits - 1) = h /\ Ints = (-h)..(h - 1)
  BY RangeFacts
<1>2. a \in Int /\ b \in Int /\ (a # -h \/ b # -1)
  BY <1>1, NumbersAreInt DEF DivisionTraps, MinInt
<1>. DEFINE A == AbsOf(a)
            B == AbsOf(b)
            q == A \div B
<1>3. A \in 0..h /\ B \in Nat /\ B > 0 /\ (A = h => a = -h)
  BY <1>1, <1>2 DEF AbsOf
<1>. HIDE DEF A, B
<1>4. q \in 0..A /\ A \in Nat /\ q \in Nat
  <2>1. A \in Nat
    BY <1>3
  <2>. QED  BY <1>3, <2>1, DivisionFacts
<1>5. q = h => A = h /\ B = 1
  <2>1. ASSUME q = h PROVE A = h /\ B = 1
    <3>1. A = h
      BY <1>3, <1>4, <2>1
    <3>2. A = B * q + (A % B) /\ A % B \in 0..(B - 1)
      BY <1>3, <1>4, DivisionFacts
    <3>3. ASSUME B >= 2 PROVE FALSE
      <4>1. B * h >= 2 * h
        BY <1>3, <3>3
      <4>. QED  BY <1>3, <2>1, <3>1, <3>2, <4>1
    <3>. QED  BY <1>3, <3>1, <3>3
  <2>. QED  BY <2>1
<1>6. Quotient(a, b) = SignOf(a) * SignOf(b) * q
  BY DEF Quotient, q, A, B
<1>. HIDE DEF q
<1>7. CASE q # h
  <2>1. q \in 0..(h - 1)
    BY <1>3, <1>4, <1>7
  <2>. QED  BY <1>1, <1>6, <2>1 DEF SignOf
<1>8. CASE q = h
  <2>1. a = -h /\ AbsOf(b) = 1
    BY <1>3, <1>5, <1>8 DEF B
  <2>2. b = 1 \/ b = -1
    BY <1>2, <2>1 DEF AbsOf
  <2>3. b = 1 /\ a < 0
    BY <1>1, <1>2, <2>1, <2>2
  <2>4. Quotient(a, b) = -h
    BY <1>6, <1>8, <2>3 DEF SignOf
  <2>. QED  BY <1>1, <2>4
<1>. QED  BY <1>7, <1>8

LEMMA IntNumbersObey ==
    ASSUME NEW a \in Ints, NEW b \in Ints
    PROVE  IntNumberLaws(a, b)
<1>1. a \in Int /\ b \in Int
  BY NumbersAreInt
<1>2. ASSUME b # 0, ~DivisionTraps(a, b),
             NEW q \in IntArithmetic("IntDivide", a, b), NEW r \in IntArithmetic("IntModulo", a, b)
      PROVE  q * b + r = a /\ AbsOf(r) < AbsOf(b) /\ r * a >= 0
  <2>1. q = Quotient(a, b) /\ r = Remainder(a, b)
    BY <1>2, QuotientInRange DEF IntArithmetic, Computed
  <2>. QED  BY <1>1, <1>2, <2>1, RemainderLaws
<1>3. ASSUME a + b \in Ints, NEW n \in IntArithmetic("IntAdd", a, b)
      PROVE  IntArithmetic("IntSubtract", n, b) = {a}
  <2>1. n = a + b
    BY <1>3 DEF IntArithmetic, Computed
  <2>2. n - b = a
    BY <1>1, <2>1
  <2>. QED  BY <2>2 DEF IntArithmetic, Computed
<1>. QED  BY <1>1, <1>2, <1>3, OneComparisonHolds DEF IntNumberLaws

LEMMA ByteNumbersObey ==
    ASSUME NEW a \in Bytes, NEW b \in Bytes
    PROVE  ByteNumberLaws(a, b)
<1>1. PICK k \in Nat \ {0} : 2^ByteBits = 2 * k /\ Bytes = 0..(2 * k - 1)
  BY RangeFacts
<1>. DEFINE m == 2 * k
<1>2. m \in Nat \ {0} /\ a \in 0..(m - 1) /\ b \in 0..(m - 1) /\ a \in Nat /\ b \in Nat
  BY <1>1
<1>3. \A n : WrapByte(n) = n % m
  BY <1>1 DEF WrapByte
<1>. HIDE DEF m
<1>4. ASSUME b # 0, NEW q \in ByteArithmetic("ByteDivide", a, b), NEW r \in ByteArithmetic("ByteModulo", a, b)
      PROVE  q * b + r = a /\ r < b
  <2>1. q = a \div b /\ r = a % b
    BY <1>4 DEF ByteArithmetic
  <2>2. b > 0
    BY <1>2, <1>4
  <2>3. a % b \in 0..(b - 1) /\ a \div b \in Nat /\ a = b * (a \div b) + (a % b)
    BY <1>2, <2>2, DivisionFacts
  <2>. QED  BY <1>2, <2>1, <2>3
<1>5. ASSUME NEW n \in ByteArithmetic("ByteAdd", a, b)
      PROVE  ByteArithmetic("ByteSubtract", n, b) = {a}
  <2>1. n = (a + b) % m /\ ByteArithmetic("ByteSubtract", n, b) = {(n - b) % m}
    BY <1>3, <1>5 DEF ByteArithmetic
  <2>. DEFINE q == (a + b) \div m
  <2>2. q \in Int /\ n \in Int /\ a + b = m * q + n
    BY <1>2, <2>1
  <2>. HIDE DEF q
  <2>3. -q \in Int /\ n - b \in Int /\ n - b = m * (-q) + a
    BY <1>2, <2>2
  <2>4. (n - b) % m = a
    BY <1>2, <2>3, ModUnique
  <2>. QED  BY <2>1, <2>4
<1>. QED  BY <1>4, <1>5 DEF ByteNumberLaws

(* A word with its top bit stands for a negative integer.                  *)
Top(places) == IF IntBits - 1 \in places THEN 1 ELSE 0

LEMMA SignedWord ==
    ASSUME NEW places \in SUBSET (0..(IntBits - 1))
    PROVE  /\ Word(places, IntBits) \in Int
           /\ WrapInt(Word(places, IntBits)) = Word(places, IntBits) - 2^IntBits * Top(places)
<1>. DEFINE w == Word(places, IntBits)
<1>1. PICK h \in Nat \ {0} : 2^(IntBits - 1) = h /\ 2^IntBits = 2 * h /\ Ints = (-h)..(h - 1)
  BY RangeFacts
<1>2. w \in Int /\ w \in 0..(2 * h - 1) /\ (w \div h) % 2 = Top(places)
  <2>1. IntBits \in Widths /\ IntBits - 1 \in 0..(IntBits - 1)
    BY WidthAssumption DEF Widths
  <2>2. w \in 0..(2^IntBits - 1) /\ w \in Int /\ Bit(w, IntBits - 1) = Top(places)
    BY <2>1, WordFacts DEF Top
  <2>. QED  BY <1>1, <2>2 DEF Bit
<1>3. PICK m \in Nat \ {0} :
          /\ m = 2^IntBits
          /\ \A n \in Ints : WrapInt(n) = n
          /\ \A n, k \in Int : WrapInt(n + m * k) = WrapInt(n)
  BY WrapFacts
<1>. HIDE DEF w
<1>4. CASE w < h
  <2>1. w \div h = 0 /\ w \in Ints
    BY <1>1, <1>2, <1>4
  <2>2. Top(places) = 0
    BY <1>2, <2>1
  <2>3. m * 0 = 0
    BY <1>3
  <2>. QED  BY <1>2, <1>3, <2>1, <2>2, <2>3 DEF w
<1>5. CASE w >= h
  <2>1. w - h \in 0..(h - 1) /\ w = h * 1 + (w - h)
    BY <1>1, <1>2, <1>5
  <2>2. w \div h = 1
    <3>1. PICK r \in 0..(h - 1) : w = h * 1 + r
      BY <2>1
    <3>2. h \in Nat \ {0} /\ 1 \in Int
      BY <1>1
    <3>. QED  BY <1>2, <3>1, <3>2, DivisionUnique
  <2>3. Top(places) = 1
    BY <1>2, <2>2
  <2>. DEFINE n == w - m
  <2>4. n \in Ints /\ n \in Int /\ w = n + m * 1
    <3>1. m = 2 * h /\ m * 1 = m
      BY <1>1, <1>3
    <3>. HIDE DEF n
    <3>2. w - m \in (-h)..(h - 1) /\ w = (w - m) + m
      BY <1>1, <1>2, <1>5, <3>1
    <3>. QED  BY <1>1, <3>1, <3>2 DEF n
  <2>. HIDE DEF n
  <2>5. WrapInt(w) = n
    BY <1>3, <2>4
  <2>6. m * 1 = m
    BY <1>3
  <2>. QED  BY <1>2, <1>3, <2>3, <2>5, <2>6 DEF w, n
<1>. QED  BY <1>2, <1>4, <1>5

LEMMA IntBitsObey ==
    ASSUME NEW a \in Ints, NEW b \in Ints
    PROVE  IntBitLaws(a, b)
<1>. DEFINE X == BitsOf(a, IntBits)
            Y == BitsOf(b, IntBits)
            places == 0..(IntBits - 1)
<1>1. a \in Int /\ b \in Int /\ IntBits \in Widths
  BY NumbersAreInt DEF Widths
<1>2. X \in SUBSET places /\ Y \in SUBSET places
  BY <1>1, WordOfBits
<1>3. PICK m \in Nat \ {0} :
          /\ m = 2^IntBits
          /\ \A n \in Ints : WrapInt(n) = n
          /\ \A n \in Int : \E k \in Int : WrapInt(n) = n + m * k
          /\ \A n, k \in Int : WrapInt(n + m * k) = WrapInt(n)
  BY WrapFacts
<1>4. ASSUME NEW n \in Int
      PROVE  Low(n, IntBits) = n % m /\ n % m \in Int /\ \E k \in Int : n % m = n + m * k
  <2>1. n \div m \in Int /\ n % m \in Int /\ n = m * (n \div m) + (n % m)
    <3>1. n \div m \in Int /\ n % m \in 0..(m - 1) /\ n = m * (n \div m) + (n % m)
      BY FloorFacts
    <3>. QED  BY <3>1
  <2>. DEFINE q == n \div m
              r == n % m
  <2>. HIDE DEF q, r
  <2>2. q \in Int /\ r \in Int /\ n = m * q + r
    BY <2>1 DEF q, r
  <2>3. -q \in Int /\ r = n + m * (-q)
    BY <1>3, <2>2
  <2>4. \E k \in Int : r = n + m * k
    BY <2>3
  <2>. QED  BY <1>3, <2>1, <2>4 DEF Low, r
<1>. DEFINE w == Word(X \cap Y, IntBits)
            v == Word(X \cup Y, IntBits)
<1>5. w \in Int /\ v \in Int /\ w + v = (a % m) + (b % m)
  <2>1. X \cap Y \in SUBSET places /\ X \cup Y \in SUBSET places
    BY <1>2
  <2>2. w + v = Word(X, IntBits) + Word(Y, IntBits)
    BY <1>1, <1>2, WordsAddUp
  <2>3. Word(X, IntBits) = a % m /\ Word(Y, IntBits) = b % m
    BY <1>1, <1>4, WordOfBits
  <2>4. w \in Int /\ v \in Int
    BY <1>1, <2>1, WordFacts
  <2>. QED  BY <2>2, <2>3, <2>4
<1>8. ASSUME NEW n \in Ints
      PROVE  n = (n % m) - m * Top(BitsOf(n, IntBits))
  <2>1. n \in Int
    BY NumbersAreInt
  <2>2. Word(BitsOf(n, IntBits), IntBits) = n % m /\ BitsOf(n, IntBits) \in SUBSET places
    BY <1>1, <1>4, <2>1, WordOfBits
  <2>3. WrapInt(n % m) = n
    BY <1>3, <1>4, <2>1
  <2>. QED  BY <1>3, <2>2, <2>3, SignedWord
<1>6. ASSUME NEW x \in IntBitwise("And", a, b), NEW y \in IntBitwise("Or", a, b)
      PROVE  IntArithmetic("IntAdd", x, y) = IntArithmetic("IntAdd", a, b)
  <2>1. x = WrapInt(w) /\ y = WrapInt(v)
    BY <1>6 DEF IntBitwise, BitwiseOn
  <2>2. x = w - m * Top(X \cap Y) /\ y = v - m * Top(X \cup Y)
    <3>1. X \cap Y \in SUBSET places /\ X \cup Y \in SUBSET places
      BY <1>2
    <3>. QED  BY <1>3, <2>1, <3>1, SignedWord
  <2>3. a = (a % m) - m * Top(X) /\ b = (b % m) - m * Top(Y)
    BY <1>8
  <2>4. a % m \in Int /\ b % m \in Int
    BY <1>1, <1>4
  <2>. HIDE DEF w, v
  <2>5. x + y = a + b
    <3>. DEFINE c == m * Top(X \cap Y)
                d == m * Top(X \cup Y)
                e == m * Top(X)
                f == m * Top(Y)
    <3>1. c \in Int /\ d \in Int /\ e \in Int /\ f \in Int /\ c + d = e + f
      <4>1. ASSUME NEW S PROVE m * Top(S) = IF IntBits - 1 \in S THEN m ELSE 0
        <5>1. m * 1 = m /\ m * 0 = 0
          BY <1>3
        <5>. QED  BY <5>1 DEF Top
      <4>2. \A S : m * Top(S) \in Int
        BY <1>3, <4>1
      <4>3. m * Top(X \cap Y) + m * Top(X \cup Y) = m * Top(X) + m * Top(Y)
        <5>. DEFINE z == IntBits - 1
        <5>1. (z \in X \cap Y <=> z \in X /\ z \in Y) /\ (z \in X \cup Y <=> z \in X \/ z \in Y)
          OBVIOUS
        <5>2. m + 0 = 0 + m
          BY <1>3
        <5>. QED  BY <4>1, <5>1, <5>2
      <4>. QED  BY <4>2, <4>3
    <3>2. x = w - c /\ y = v - d /\ a = (a % m) - e /\ b = (b % m) - f
      BY <2>2, <2>3
    <3>. HIDE DEF c, d, e, f
    <3>3. w - c + (v - d) = (a % m) - e + ((b % m) - f)
      BY <1>5, <2>4, <3>1
    <3>. QED  BY <3>2, <3>3
  <2>. QED  BY <2>5 DEF IntArithmetic
<1>7. ASSUME NEW x \in IntBitwise("Xor", a, b)
      PROVE  IntBitwise("Xor", x, b) = {a}
  <2>. DEFINE Z == (X \ Y) \cup (Y \ X)
              u == Word(Z, IntBits)
  <2>1. Z \in SUBSET places
    BY <1>2
  <2>2. u \in Int /\ BitsOf(u, IntBits) = Z
    BY <1>1, <2>1, WordFacts
  <2>3. x = WrapInt(u)
    BY <1>7 DEF IntBitwise, BitwiseOn
  <2>. HIDE DEF u
  <2>4. PICK k \in Int : x = u + m * k
    BY <1>3, <2>2, <2>3
  <2>5. x % m = u % m
    BY <1>3, <2>2, <2>4, ModShift
  <2>6. BitsOf(x, IntBits) = Z
    BY <1>3, <2>2, <2>5 DEF BitsOf
  <2>7. (Z \ Y) \cup (Y \ Z) = X
    BY <1>2
  <2>. HIDE DEF Z
  <2>8. IntBitwise("Xor", x, b) = {WrapInt(Word(X, IntBits))}
    BY <2>6, <2>7 DEF IntBitwise, BitwiseOn
  <2>9. Word(X, IntBits) = a % m
    BY <1>1, <1>4, WordOfBits
  <2>10. PICK i \in Int : a % m = a + m * i
    BY <1>1, <1>4
  <2>11. WrapInt(a + m * i) = a
    BY <1>1, <1>3
  <2>. QED  BY <2>8, <2>9, <2>10, <2>11
<1>. QED  BY <1>6, <1>7 DEF IntBitLaws

LEMMA ByteBitsObey ==
    ASSUME NEW a \in Bytes, NEW b \in Bytes
    PROVE  ByteBitLaws(a, b)
<1>. DEFINE X == BitsOf(a, ByteBits)
            Y == BitsOf(b, ByteBits)
            places == 0..(ByteBits - 1)
            top == 2^ByteBits - 1
            w == Word(X \cap Y, ByteBits)
<1>1. a \in Int /\ b \in Int /\ ByteBits \in Widths /\ Bytes = 0..top /\ top \in Nat
  <2>1. ByteBits \in Widths
    BY DEF Widths
  <2>2. 2^ByteBits \in Nat \ {0}
    BY <2>1, WidthFacts
  <2>. QED  BY <2>1, <2>2, NumbersAreInt DEF Bytes
<1>2. X \in SUBSET places /\ Y \in SUBSET places /\ X \cap Y \in SUBSET places
  BY <1>1, WordOfBits
<1>3. ASSUME NEW n \in Bytes
      PROVE  /\ WrapByte(-n - 1) = top - n /\ top - n \in Int
             /\ BitsOf(top - n, ByteBits) = places \ BitsOf(n, ByteBits)
  <2>. DEFINE m == 2^ByteBits
              P == BitsOf(n, ByteBits)
  <2>1. m \in Nat \ {0} /\ n \in Int /\ n \in 0..(m - 1)
    BY <1>1, WidthFacts, NumbersAreInt DEF Bytes
  <2>2. Low(n, ByteBits) = n
    BY <1>1, <2>1, LowIsLow
  <2>3. P \in SUBSET places /\ Word(P, ByteBits) = n
    BY <1>1, <2>1, <2>2, WordOfBits
  <2>4. Word(places \ P, ByteBits) = top - n
    BY <1>1, <2>3, OtherPlaces
  <2>5. places \ P \in SUBSET places
    OBVIOUS
  <2>6. BitsOf(top - n, ByteBits) = places \ P
    BY <1>1, <2>4, <2>5, WordFacts
  <2>. HIDE DEF m
  <2>7. -n - 1 \in Int /\ (m - 1) - n \in 0..(m - 1) /\ -n - 1 = m * (-1) + ((m - 1) - n)
    BY <2>1
  <2>. DEFINE r == (m - 1) - n
              z == -n - 1
  <2>. HIDE DEF r, z
  <2>8. z % m = r
    <3>1. z \in Int /\ r \in 0..(m - 1) /\ z = m * (-1) + r /\ -1 \in Int
      BY <2>7 DEF r, z
    <3>. QED  BY <2>1, <3>1, ModUnique
  <2>. USE DEF r, z
  <2>. QED  BY <2>1, <2>6, <2>8 DEF WrapByte, m
<1>4. w \in Bytes
  BY <1>1, <1>2, WordFacts DEF Bytes
<1>5. Word(places \ (X \cap Y), ByteBits) = top - w
  BY <1>1, <1>2, OtherPlaces
<1>6. ASSUME NEW x \in ByteBitwise("And", a, b), NEW y \in ByteUnary("ByteNot", x),
             NEW u \in ByteUnary("ByteNot", a), NEW v \in ByteUnary("ByteNot", b)
      PROVE  ByteBitwise("Or", u, v) = {y}
  <2>1. x = w
    BY DEF ByteBitwise, BitwiseOn
  <2>2. y = top - w /\ u = top - a /\ v = top - b
    BY <1>3, <1>4, <2>1 DEF ByteUnary
  <2>3. BitsOf(u, ByteBits) = places \ X /\ BitsOf(v, ByteBits) = places \ Y
    BY <1>3, <2>2
  <2>4. (places \ X) \cup (places \ Y) = places \ (X \cap Y)
    OBVIOUS
  <2>5. ByteBitwise("Or", u, v) = {Word((places \ X) \cup (places \ Y), ByteBits)}
    BY <2>3 DEF ByteBitwise, BitwiseOn
  <2>. QED  BY <1>5, <2>2, <2>4, <2>5
<1>. QED  BY <1>6 DEF ByteBitLaws

LEMMA NumbersOnTop ==
    ASSUME NEW N, Inv(N), NEW kind \in {"int", "byte"}, TwoOnTop(kind)
    PROVE  Num(1) \in Content(kind) /\ Num(2) \in Content(kind)
<1>1. ASSUME NEW i \in {1, 2}
      PROVE  Num(i) \in Content(kind)
  <2>1. Sound(N, Arg(i)) /\ KindOf(Arg(i)) = kind
    <3>1. i \in Nat \ {0} /\ i <= Len(stack)
      BY HeldFacts DEF TwoOnTop, Inv
    <3>. QED  BY <3>1, OperandFacts DEF TwoOnTop
  <2>2. Arg(i)[1] # "ref"
    <3>1. ASSUME Arg(i)[1] = "ref" PROVE FALSE
      <4>1. Arg(i)[2][1] = kind
        BY <2>1, <3>1 DEF KindOf
      <4>2. kind # "Nullable" /\ kind # "nullptr" /\ kind \notin PlainClasses /\ \A t \in Primitive : kind # BoxClass[t]
        BY DEF PlainClasses, Primitive, BoxClass
      <4>. QED  BY <2>1, <3>1, <4>1, <4>2
                DEF Sound, SoundObject, SoundPrimitive, Primitive, Ref, NullPointer
    <3>. QED  BY <3>1
  <2>3. SoundPrimitive(Arg(i)) /\ Arg(i)[1] = kind
    BY <2>1, <2>2 DEF Sound, KindOf, Ref
  <2>. QED  BY <2>3, ContentFacts DEF SoundPrimitive, Num
<1>. QED  BY <1>1

(* The numbers of the VM are numbers where the result fits: quotient and   *)
(* remainder belong together but for the one quotient that does not fit,   *)
(* subtracting undoes a sum that fits, and of three comparisons one holds. *)
(* Conjunction and disjunction have the sum of their operands, or no sum   *)
(* either if that does not fit, an exclusive or is its own inverse, and    *)
(* bytes obey De Morgan's law.                                             *)
THEOREM NumbersObeyTheirLaws == Spec => []ArithmeticLaws
<1>1. ASSUME Inv(NullOnly)
      PROVE  ArithmeticLaws
  <2>1. Content("int") = Ints /\ Content("byte") = Bytes
    BY DEF Content
  <2>2. NumberLaws
    BY <1>1, <2>1, NumbersOnTop, IntNumbersObey, ByteNumbersObey DEF NumberLaws
  <2>3. BitLaws
    BY <1>1, <2>1, NumbersOnTop, IntBitsObey, ByteBitsObey DEF BitLaws
  <2>. QED  BY <2>2, <2>3 DEF ArithmeticLaws
<1>. QED  BY <1>1, Invariance, PTL
-----------------------------------------------------------------------------
(* Safe calls.                                                             *)

LEMMA TargetFacts ==
    ASSUME NamesTellOperands, NEW m \in DOMAIN Virtual \cup Methods,
           NEW class, NEW i \in Targets(m, class), NEW other, NEW j \in Targets(m, other)
    PROVE  /\ i \in DOMAIN Functions
           /\ Arity(Functions[i]) \in Nat /\ Arity(Functions[i]) > 0
           /\ Functions[i].result \in Results /\ Functions[i].result # "none"
           /\ Arity(Functions[j]) = Arity(Functions[i])
           /\ Discarded(m) = Arity(Functions[i]) - 1
<1>1. i \in Reached(m) /\ j \in Reached(m)
  BY DEF Targets, Overrides, Reached
<1>2. i \in DOMAIN Functions /\ j \in DOMAIN Functions
  BY DEF Targets, Overrides, Named
<1>3. /\ Arity(Functions[i]) \in Nat /\ Arity(Functions[j]) \in Nat
      /\ Arity(Functions[i]) > 0
      /\ Functions[i].result \in Results /\ Functions[i].result # "none"
  BY <1>1, <1>2, FunctionFacts DEF NamesTellOperands
<1>4. CASE Named(m) # {}
  <2>. DEFINE k == CHOOSE l \in Named(m) : TRUE
              n == Arity(Functions[i]) - 1
  <2>1. k \in Named(m) /\ i \in Named(m) /\ j \in Named(m)
    BY <1>4 DEF Targets
  <2>2. k = i /\ j = i
    BY <2>1 DEF NamesTellOperands, Named
  <2>3. Discarded(m) = Max({0, n})
    BY <1>4, <2>2 DEF Discarded
  <2>4. n \in Nat
    BY <1>3
  <2>. HIDE DEF n
  <2>5. Max({0, n}) = n
    BY <2>4 DEF Max
  <2>6. Discarded(m) = Arity(Functions[i]) - 1
    BY <2>3, <2>5 DEF n
  <2>. QED  BY <1>2, <1>3, <2>2, <2>6
<1>5. CASE Named(m) = {}
  <2>1. /\ Underscores[m] = Arity(Functions[i]) + 1
        /\ Underscores[m] = Arity(Functions[j]) + 1
    BY <1>1, <1>5 DEF NamesTellOperands
  <2>2. Discarded(m) = Underscores[m] - 2
    BY <1>3, <1>5, <2>1 DEF Discarded
  <2>. QED  BY <1>2, <1>3, <2>1, <2>2
<1>. QED  BY <1>4, <1>5

(* A safe call of a method that does not end the program: its receiver and *)
(* operands are gone, and a Nullable is there.                             *)
LEMMA SafeCallStep ==
    ASSUME NEW N, Inv(N), NamesTellOperands, mode' = "run", stack # <<>>,
           NEW m \in DOMAIN Virtual \cup Methods, SafeCall(m),
           NEW class, NEW i \in Targets(m, class),
           NEW below \in Nat, below = Len(stack) - Arity(Functions[i])
    PROVE  /\ Len(stack') = below + 1 /\ IsNullable(stack'[below + 1])
           /\ SubSeq(stack', 1, below) = SubSeq(stack, 1, below)
<1>. DEFINE Shape(v) == stack' = SubSeq(stack, 1, below) \o <<v>>
<1>1. /\ Holding(N, stack) /\ Len(stack) \in Nat
      /\ Arity(Functions[i]) \in Nat /\ Arity(Functions[i]) > 0
      /\ Discarded(m) = Arity(Functions[i]) - 1
  BY HeldFacts, TargetFacts DEF Inv
<1>2. below \in 0..Len(stack) /\ below <= Len(stack) - 1
  BY <1>1
<1>3. SUFFICES \E v : IsNullable(v) /\ Shape(v)
  <2>1. PICK v : IsNullable(v) /\ stack' = SubSeq(stack, 1, below) \o <<v>>
    BY <1>3
  <2>2. Holding(N, stack) /\ below \in 0..Len(stack)
    BY <1>1, <1>2
  <2>. QED  BY <2>1, <2>2, StackReplaced
<1>4. Extracted(<<"Nullable">>) /\ Believed(<<"Nullable">>)
  BY DEF SafeCall, Refuse, Undefined, End
<1>5. CASE stack' = SubSeq(stack, 1, Len(stack) - 1 - Discarded(m)) \o <<Arg(1)>>
  <2>1. Len(stack) - 1 - Discarded(m) = below
    BY <1>1
  <2>2. IsNullable(Arg(1))
    BY <1>4, NullableOperand DEF IsNullable
  <2>. QED  BY <1>5, <2>1, <2>2
<1>6. ASSUME NEW c, NEW j \in Targets(m, c), Num(1)[2] # NullPointer,
             Execute(Functions[j], Below(1) \o <<Ref(Num(1)[2])>>, TRUE)
      PROVE  \E v : IsNullable(v) /\ Shape(v)
  <2>. DEFINE f == Functions[j]
              receiver == Ref(Num(1)[2])
              s == Below(1) \o <<receiver>>
              rest == SubSeq(s, 1, Len(s) - Arity(f))
  <2>1. Arity(f) = Arity(Functions[i]) /\ f.result # "none" /\ j \in DOMAIN Functions
    BY TargetFacts
  <2>2. Sound(N, receiver)
    BY <1>4, <1>6, NullableOperand
  <2>3. Len(stack) - 1 \in 0..Len(stack)
    BY <1>1, <1>2
  <2>4. /\ Len(s) = Len(stack)
        /\ SubSeq(s, 1, Len(stack) - 1) = SubSeq(stack, 1, Len(stack) - 1)
    <3>. DEFINE n == Len(stack) - 1
    <3>1. s = SubSeq(stack, 1, n) \o <<receiver>>
      BY DEF Below
    <3>2. n \in 0..Len(stack) /\ n + 1 = Len(stack)
      BY <1>1, <2>3
    <3>. HIDE DEF s, receiver, n
    <3>3. Len(s) = n + 1 /\ SubSeq(s, 1, n) = SubSeq(stack, 1, n)
      BY <1>1, <3>1, <3>2, ReplacedFacts
    <3>. QED  BY <3>2, <3>3 DEF n
  <2>5. Holding(N, s)
    BY <2>2, BelowHolds, OneHolds, ConcatHolds
  <2>. HIDE DEF s
  <2>6. SubSeq(s, 1, below) = SubSeq(stack, 1, below)
    BY <1>1, <1>2, <2>4, <2>5, SharedPrefix
  <2>7. rest = SubSeq(stack, 1, below)
    BY <2>1, <2>4, <2>6
  <2>8. PICK r \in ResultsOf(f) : stack' = Optional(rest \o r)
    BY <1>6 DEF Execute, End, Ends, s
  <2>9. PICK v : r = <<v>>
    BY <2>1, <2>8 DEF ResultsOf, Some
  <2>. HIDE DEF rest
  <2>10. /\ rest \o r # <<>> /\ Len(rest \o r) = Len(rest) + 1
         /\ SubSeq(rest \o r, 1, Len(rest)) = rest /\ Len(rest) \in Nat
    BY <1>1, <1>2, <2>7, <2>9, ReplacedFacts, PrefixHolds, WholePrefix
  <2>. DEFINE top == (rest \o r)[Len(rest \o r)]
              last == Ref(Nullable(IF top[1] = "ref" THEN top[2] ELSE Box(top)))
  <2>11. stack' = rest \o <<last>>
    <3>. DEFINE u == rest \o r
    <3>1. Optional(u) = SubSeq(u, 1, Len(u) - 1) \o <<last>>
      BY <2>10 DEF Optional
    <3>2. Len(u) - 1 = Len(rest)
      BY <2>10
    <3>. HIDE DEF u, last
    <3>3. SubSeq(u, 1, Len(u) - 1) = rest
      BY <2>10, <3>2 DEF u
    <3>. QED  BY <2>8, <3>1, <3>3 DEF u
  <2>12. IsNullable(last)
    BY DEF IsNullable, Ref, Nullable
  <2>. QED  BY <2>7, <2>11, <2>12
<1>. QED  BY <1>4, <1>5, <1>6 DEF SafeCall, Undefined, Refuse, End

(* After a safe call the code finds the same stack whether the receiver    *)
(* was null or not, if names tell how many operands methods have.          *)
THEOREM SafeCallsAreUniform ==
    ASSUME NamesTellOperands
    PROVE  Spec => SafeCallIsUniform
<1>. DEFINE Uniform ==
        (mode' = "run" /\ stack # <<>> /\ IsNullable(Arg(1))) =>
            \A r \in Receivers :
                LET below == Len(stack) - 1 - Operands(r[1], r[2])
                IN (below >= 0 /\ SafeCall(r[1])) =>
                       /\ Len(stack') = below + 1 /\ IsNullable(stack'[below + 1])
                       /\ SubSeq(stack', 1, below) = SubSeq(stack, 1, below)
<1>1. ASSUME Inv(NullOnly)
      PROVE  Uniform
  <2>. SUFFICES ASSUME mode' = "run", stack # <<>>, NEW r \in Receivers,
                       Len(stack) - 1 - Operands(r[1], r[2]) >= 0, SafeCall(r[1])
                PROVE  LET below == Len(stack) - 1 - Operands(r[1], r[2])
                       IN /\ Len(stack') = below + 1 /\ IsNullable(stack'[below + 1])
                          /\ SubSeq(stack', 1, below) = SubSeq(stack, 1, below)
    OBVIOUS
  <2>. DEFINE i == CHOOSE j \in Targets(r[1], r[2]) : TRUE
              below == Len(stack) - 1 - Operands(r[1], r[2])
  <2>1. r[1] \in DOMAIN Virtual \cup Methods /\ i \in Targets(r[1], r[2])
    BY DEF Receivers
  <2>2. Operands(r[1], r[2]) = Arity(Functions[i]) - 1
    BY DEF Operands
  <2>3. Arity(Functions[i]) \in Nat /\ Len(stack) \in Nat
    BY <1>1, <2>1, TargetFacts, HeldFacts DEF Inv
  <2>4. below \in Nat /\ below = Len(stack) - Arity(Functions[i])
    BY <2>2, <2>3
  <2>. HIDE DEF i, below
  <2>5. /\ Len(stack') = below + 1 /\ IsNullable(stack'[below + 1])
        /\ SubSeq(stack', 1, below) = SubSeq(stack, 1, below)
    BY <1>1, <2>1, <2>4, SafeCallStep
  <2>. QED  BY <2>5 DEF below
<1>2. Inv(NullOnly) => [Uniform]_vars
  BY <1>1
<1>. QED  BY <1>2, Invariance, PTL DEF SafeCallIsUniform
=============================================================================
