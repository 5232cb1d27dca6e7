-------------------------- MODULE GaloisField_proofs --------------------------
(***************************************************************************)
(* Theorems about the tables of the field.                                 *)
(***************************************************************************)
EXTENDS GaloisField, FiniteSetTheorems, FunctionTheorems, WellFoundedInduction, TLAPS

-----------------------------------------------------------------------------
(* Induction over the naturals, and functions defined by recursion.        *)

\* A set that is not all of Nat leaves out a least number.
LEMMA LeastMissing ==
  ASSUME NEW S, ~(Nat \subseteq S)
  PROVE  \E m \in Nat : m \notin S /\ \A n \in 0 .. m - 1 : n \in S
<1> DEFINE T == {n \in Nat : n \notin S}
           R == OpToRel(<, Nat)
<1>1. T # {} /\ T \subseteq Nat
  OBVIOUS
<1>2. IsWellFoundedOn(R, Nat)
  BY NatLessThanWellFounded
<1>3. PICK m \in T : \A n \in T : <<n, m>> \notin R
  <2> HIDE DEF R, T
  <2> QED BY <1>1, <1>2, WFMin
<1>4. \A n \in 0 .. m - 1 : n \in Nat /\ <<n, m>> \in R
  BY DEF OpToRel
<1> HIDE DEF R
<1> QED BY <1>3, <1>4

LEMMA SetInduction ==
  ASSUME NEW S, 0 \in S, \A n \in Nat : n \in S => n + 1 \in S
  PROVE  Nat \subseteq S
<1>1. SUFFICES ASSUME ~(Nat \subseteq S) PROVE FALSE
  OBVIOUS
<1>2. PICK m \in Nat : m \notin S /\ \A n \in 0 .. m - 1 : n \in S
  BY <1>1, LeastMissing
<1>3. m # 0 /\ m - 1 \in Nat /\ m - 1 \in 0 .. m - 1
  BY <1>2
<1> QED BY <1>2, <1>3

LEMMA StrongSetInduction ==
  ASSUME NEW S, \A m \in Nat : (\A n \in 0 .. m - 1 : n \in S) => m \in S
  PROVE  Nat \subseteq S
BY LeastMissing

IsIteration(f, k, S, f0, G) ==
  /\ f \in [0 .. k -> S]
  /\ f[0] = f0 /\ \A i \in 1 .. k : f[i] = G[i][f[i - 1]]

LEMMA IterationExists ==
  ASSUME NEW S, NEW k \in Nat, NEW f0 \in S, NEW G \in [1 .. k -> [S -> S]]
  PROVE  \E f : IsIteration(f, k, S, f0, G)
<1> DEFINE I == {n \in Nat : n <= k => \E f : IsIteration(f, n, S, f0, G)}
<1>1. 0 \in I
  <2> DEFINE f == [i \in 0 .. 0 |-> f0]
  <2>1. IsIteration(f, 0, S, f0, G)
    BY DEF IsIteration
  <2> HIDE DEF f
  <2> QED BY <2>1
<1>2. ASSUME NEW n \in Nat, n \in I PROVE n + 1 \in I
  <2>1. SUFFICES ASSUME n + 1 <= k PROVE \E f : IsIteration(f, n + 1, S, f0, G)
    OBVIOUS
  <2>2. PICK f : IsIteration(f, n, S, f0, G)
    BY <1>2, <2>1
  <2> DEFINE g == [i \in 0 .. n + 1 |-> IF i = n + 1 THEN G[n + 1][f[n]] ELSE f[i]]
  <2>3. f \in [0 .. n -> S] /\ f[0] = f0 /\ \A i \in 1 .. n : f[i] = G[i][f[i - 1]]
    BY <2>2 DEF IsIteration
  <2>4. G[n + 1][f[n]] \in S
    <3>1. G[n + 1] \in [S -> S] /\ f[n] \in S
      BY <2>1, <2>3
    <3> QED BY <3>1
  <2>5. g \in [0 .. n + 1 -> S] /\ g[0] = f0
    BY <2>3, <2>4
  <2>6. ASSUME NEW i \in 1 .. n + 1 PROVE g[i] = G[i][g[i - 1]]
    BY <2>3
  <2>7. IsIteration(g, n + 1, S, f0, G)
    <3> HIDE DEF g
    <3> QED BY <2>5, <2>6 DEF IsIteration
  <2> HIDE DEF g
  <2> QED BY <2>7
<1>3. k \in I
  <2> HIDE DEF I
  <2> QED BY <1>1, <1>2, SetInduction
<1> QED BY <1>3

LEMMA NatIterationExists ==
  ASSUME NEW S, NEW f0 \in S, NEW G \in [S -> S]
  PROVE  \E f \in [Nat -> S] : f[0] = f0 /\ \A n \in Nat : f[n + 1] = G[f[n]]
<1> DEFINE Is(f, n) == IsIteration(f, n, S, f0, [i \in 1 .. n |-> G])
           It(n) == CHOOSE f : Is(f, n)
           F == [n \in Nat |-> It(n)[n]]
<1>1. ASSUME NEW n \in Nat
      PROVE  It(n) \in [0 .. n -> S] /\ It(n)[0] = f0 /\ \A i \in 1 .. n : It(n)[i] = G[It(n)[i - 1]]
  <2>1. [i \in 1 .. n |-> G] \in [1 .. n -> [S -> S]]
    OBVIOUS
  <2>2. \E f : Is(f, n)
    BY <2>1, IterationExists
  <2>3. Is(It(n), n)
    <3> HIDE DEF Is
    <3> QED BY <2>2
  <2> HIDE DEF It
  <2> QED BY <2>3 DEF IsIteration
<1> HIDE DEF Is, It
<1>2. ASSUME NEW n \in Nat PROVE It(n + 1)[n] = It(n)[n]
  <2> DEFINE I == {i \in Nat : i <= n => It(n + 1)[i] = It(n)[i]}
  <2>1. 0 \in I
    BY <1>1
  <2>2. ASSUME NEW i \in Nat, i \in I PROVE i + 1 \in I
    <3> SUFFICES ASSUME i + 1 <= n PROVE It(n + 1)[i + 1] = It(n)[i + 1]
      OBVIOUS
    <3>1. i + 1 \in 1 .. n /\ i + 1 \in 1 .. n + 1 /\ i + 1 - 1 = i /\ i <= n
      OBVIOUS
    <3>2. It(n + 1)[i + 1] = G[It(n + 1)[i]]
      BY <1>1, <3>1
    <3>3. It(n)[i + 1] = G[It(n)[i]]
      BY <1>1, <3>1
    <3> QED BY <2>2, <3>1, <3>2, <3>3
  <2>3. Nat \subseteq I
    <3> HIDE DEF I
    <3> QED BY <2>1, <2>2, SetInduction
  <2> QED BY <2>3
<1>3. F \in [Nat -> S] /\ F[0] = f0
  BY <1>1
<1>4. ASSUME NEW n \in Nat PROVE F[n + 1] = G[F[n]]
  <2>1. n + 1 \in 1 .. n + 1 /\ n + 1 - 1 = n /\ n + 1 \in Nat
    OBVIOUS
  <2>2. It(n + 1)[n + 1] = G[It(n + 1)[n]]
    BY <1>1, <2>1
  <2> QED BY <1>2, <2>1, <2>2
<1> HIDE DEF F
<1> QED BY <1>3, <1>4

-----------------------------------------------------------------------------
(* Powers of two.                                                          *)

LEMMA BitStep == bit \in [0 .. 16 -> Nat \ {0}] /\ bit[0] = 1 /\ \A i \in 0 .. 15 : bit[i + 1] = 2 * bit[i]
<1> DEFINE Def(f) == [i \in 0 .. 16 |-> IF i = 0 THEN 1 ELSE 2 * f[i - 1]]
           S == Nat \ {0}
           G == [i \in 1 .. 16 |-> [x \in S |-> 2 * x]]
<1>1. PICK f : IsIteration(f, 16, S, 1, G)
  <2>1. G \in [1 .. 16 -> [S -> S]] /\ 1 \in S /\ 16 \in Nat
    OBVIOUS
  <2> HIDE DEF G, S
  <2> QED BY <2>1, IterationExists
<1>2. f = Def(f)
  <2>1. f \in [0 .. 16 -> S] /\ f[0] = 1
    BY <1>1 DEF IsIteration
  <2>2. ASSUME NEW i \in 1 .. 16 PROVE f[i] = 2 * f[i - 1]
    <3>1. f[i] = G[i][f[i - 1]] /\ f[i - 1] \in S
      BY <1>1 DEF IsIteration
    <3> QED BY <3>1
  <2> QED BY <2>1, <2>2
<1>3. bit = Def(bit)
  BY <1>2 DEF bit
<1>4. DOMAIN bit = 0 .. 16 /\ bit[0] = 1 /\ \A i \in 0 .. 15 : bit[i + 1] = 2 * bit[i]
  BY <1>3
<1>5. \A i \in 0 .. 16 : bit[i] \in S
  <2> DEFINE I == {n \in Nat : n <= 16 => bit[n] \in S}
  <2>1. 0 \in I
    BY <1>4
  <2>2. ASSUME NEW n \in Nat, n \in I PROVE n + 1 \in I
    BY <1>4, <2>2
  <2>3. Nat \subseteq I
    <3> HIDE DEF I
    <3> QED BY <2>1, <2>2, SetInduction
  <2> QED BY <2>3
<1>6. bit = [i \in 0 .. 16 |-> bit[i]]
  BY <1>3
<1> QED BY <1>4, <1>5, <1>6

LEMMA Sizes ==
  /\ GF_BITS \in 2 .. 16 /\ GF_SIZE \in Nat /\ GF_SIZE >= 3 /\ HighBit \in Nat /\ HighBit >= 2
  /\ GF_SIZE + 1 = bit[GF_BITS] /\ GF_SIZE + 1 = 2 * HighBit
  /\ Elem = 0 .. 2 * HighBit - 1 /\ 0 \in Elem /\ 1 \in Elem
<1>1. GF_BITS \in 2 .. 16
  BY FieldAssumption
<1>2. bit[GF_BITS - 1] = 2 * bit[GF_BITS - 2] /\ bit[GF_BITS - 2] \in Nat \ {0}
  <2>1. GF_BITS - 2 \in 0 .. 15 /\ GF_BITS - 2 + 1 = GF_BITS - 1
    BY <1>1
  <2> QED BY <2>1, BitStep
<1>3. bit[GF_BITS] = 2 * bit[GF_BITS - 1]
  <2>1. GF_BITS - 1 \in 0 .. 15 /\ GF_BITS - 1 + 1 = GF_BITS
    BY <1>1
  <2> QED BY <2>1, BitStep
<1> QED BY <1>1, <1>2, <1>3 DEF GF_SIZE, HighBit, Elem

\* The bits below GF_BITS are elements.
LEMMA BitsBelow ==
  ASSUME NEW w \in 0 .. GF_BITS
  PROVE  /\ bit[w] \in Nat \ {0} /\ bit[w] <= bit[GF_BITS]
         /\ w < GF_BITS => bit[w + 1] = 2 * bit[w] /\ bit[w] \in Elem /\ bit[w] <= HighBit
<1> DEFINE I == {n \in Nat : n <= GF_BITS => bit[GF_BITS - n] <= bit[GF_BITS]}
           J == {n \in Nat : n <= GF_BITS - 1 => bit[GF_BITS - 1 - n] <= bit[GF_BITS - 1]}
<1>1. GF_BITS \in 2 .. 16
  BY FieldAssumption
<1>2. \A v \in 0 .. 16 : bit[v] \in Nat \ {0}
  BY BitStep
<1>3. \A v \in 0 .. GF_BITS - 1 : bit[v + 1] = 2 * bit[v]
  BY <1>1, BitStep
<1>4. Nat \subseteq I
  <2>1. 0 \in I
    BY <1>1, <1>2
  <2>2. ASSUME NEW n \in Nat, n \in I PROVE n + 1 \in I
    <3>1. SUFFICES ASSUME n + 1 <= GF_BITS PROVE bit[GF_BITS - (n + 1)] <= bit[GF_BITS]
      OBVIOUS
    <3>2. GF_BITS - (n + 1) \in 0 .. GF_BITS - 1 /\ GF_BITS - (n + 1) + 1 = GF_BITS - n
      BY <1>1, <3>1
    <3>3. bit[GF_BITS - n] = 2 * bit[GF_BITS - (n + 1)]
      BY <1>3, <3>2
    <3>4. bit[GF_BITS - n] <= bit[GF_BITS]
      BY <1>1, <2>2, <3>1
    <3>5. bit[GF_BITS - (n + 1)] \in Nat /\ bit[GF_BITS] \in Nat
      BY <1>1, <1>2, <3>2
    <3> QED BY <3>3, <3>4, <3>5
  <2> HIDE DEF I
  <2> QED BY <2>1, <2>2, SetInduction
<1>5. Nat \subseteq J
  <2>1. 0 \in J
    BY <1>1, <1>2
  <2>2. ASSUME NEW n \in Nat, n \in J PROVE n + 1 \in J
    <3>1. SUFFICES ASSUME n + 1 <= GF_BITS - 1 PROVE bit[GF_BITS - 1 - (n + 1)] <= bit[GF_BITS - 1]
      OBVIOUS
    <3>2. GF_BITS - 1 - (n + 1) \in 0 .. GF_BITS - 1 /\ GF_BITS - 1 - (n + 1) + 1 = GF_BITS - 1 - n
      BY <1>1, <3>1
    <3>3. bit[GF_BITS - 1 - n] = 2 * bit[GF_BITS - 1 - (n + 1)]
      BY <1>3, <3>2
    <3>4. bit[GF_BITS - 1 - n] <= bit[GF_BITS - 1]
      BY <1>1, <2>2, <3>1
    <3>5. bit[GF_BITS - 1 - (n + 1)] \in Nat /\ bit[GF_BITS - 1] \in Nat
      BY <1>1, <1>2, <3>2
    <3> QED BY <3>3, <3>4, <3>5
  <2> HIDE DEF J
  <2> QED BY <2>1, <2>2, SetInduction
<1>6. bit[w] <= bit[GF_BITS]
  <2>1. GF_BITS - w \in I /\ GF_BITS - (GF_BITS - w) = w
    BY <1>1, <1>4
  <2> QED BY <1>1, <2>1
<1>7. ASSUME w < GF_BITS PROVE bit[w + 1] = 2 * bit[w] /\ bit[w] \in Elem /\ bit[w] <= HighBit
  <2>1. GF_BITS - 1 - w \in J /\ GF_BITS - 1 - (GF_BITS - 1 - w) = w
    BY <1>1, <1>5, <1>7
  <2>2. bit[w] <= HighBit
    BY <1>1, <1>7, <2>1 DEF HighBit
  <2>3. bit[w] \in Nat
    BY <1>1, <1>2
  <2> QED BY <1>3, <1>7, <2>2, <2>3, Sizes
<1> QED BY <1>1, <1>2, <1>6, <1>7

-----------------------------------------------------------------------------
(* The exclusive or.                                                       *)

LEMMA XorStep ==
  /\ \A w \in 0 .. GF_BITS, a, b \in Elem : xorLow[w][a][b] \in Nat
  /\ \A a, b \in Elem : xorLow[0][a][b] = 0
  /\ \A w \in 0 .. GF_BITS - 1, a, b \in Elem :
       xorLow[w + 1][a][b] = 2 * xorLow[w][a \div 2][b \div 2] + ((a + b) % 2)
<1> DEFINE Def(f) == [w \in 0 .. GF_BITS |-> [a \in Elem |-> [b \in Elem |->
                        IF w = 0 THEN 0 ELSE 2 * f[w - 1][a \div 2][b \div 2] + ((a + b) % 2)]]]
           S == [Elem -> [Elem -> Nat]]
           zero == [a \in Elem |-> [b \in Elem |-> 0]]
           G == [w \in 1 .. GF_BITS |-> [x \in S |->
                  [a \in Elem |-> [b \in Elem |-> 2 * x[a \div 2][b \div 2] + ((a + b) % 2)]]]]
<1>1. \A a \in Elem : a \div 2 \in Elem
  BY Sizes
<1>0. \A a \in Elem : a \in Nat
  BY Sizes
<1>2. G \in [1 .. GF_BITS -> [S -> S]]
  <2> SUFFICES ASSUME NEW x \in S, NEW a \in Elem, NEW b \in Elem
               PROVE  2 * x[a \div 2][b \div 2] + ((a + b) % 2) \in Nat
    OBVIOUS
  <2>1. x[a \div 2][b \div 2] \in Nat
    BY <1>1
  <2>2. a + b \in Nat
    BY <1>0
  <2> QED BY <2>1, <2>2
<1>3. PICK f : IsIteration(f, GF_BITS, S, zero, G)
  <2>1. zero \in S /\ GF_BITS \in Nat
    BY Sizes
  <2> HIDE DEF G, S, zero
  <2> QED BY <1>2, <2>1, IterationExists
<1>4. f = Def(f)
  <2>1. f \in [0 .. GF_BITS -> S] /\ f[0] = zero
    BY <1>3 DEF IsIteration
  <2>2. ASSUME NEW w \in 1 .. GF_BITS
        PROVE  f[w] = [a \in Elem |-> [b \in Elem |-> 2 * f[w - 1][a \div 2][b \div 2] + ((a + b) % 2)]]
    <3>1. f[w] = G[w][f[w - 1]]
      BY <1>3 DEF IsIteration
    <3>2. f[w - 1] \in S
      BY <2>1, Sizes
    <3> QED BY <3>1, <3>2
  <2>3. ASSUME NEW w \in 0 .. GF_BITS PROVE f[w] = Def(f)[w]
    <3>1. CASE w = 0
      BY <2>1, <3>1
    <3>2. CASE w # 0
      <4>1. w \in 1 .. GF_BITS
        BY <3>2, Sizes
      <4> QED BY <2>2, <3>2, <4>1
    <3> QED BY <3>1, <3>2
  <2>4. f = [w \in 0 .. GF_BITS |-> f[w]]
    BY <2>1
  <2> QED BY <2>3, <2>4
<1>5. xorLow = Def(xorLow)
  <2> HIDE DEF Def
  <2>1. xorLow = CHOOSE g : g = Def(g)
    BY DEF xorLow, Def
  <2> QED BY <1>4, <2>1
<1>6. \A w \in 0 .. GF_BITS, a, b \in Elem :
        xorLow[w][a][b] = IF w = 0 THEN 0 ELSE 2 * xorLow[w - 1][a \div 2][b \div 2] + ((a + b) % 2)
  <2> SUFFICES ASSUME NEW w \in 0 .. GF_BITS, NEW a \in Elem, NEW b \in Elem
               PROVE  xorLow[w][a][b] = IF w = 0 THEN 0 ELSE 2 * xorLow[w - 1][a \div 2][b \div 2] + ((a + b) % 2)
    OBVIOUS
  <2>1. xorLow[w] = Def(xorLow)[w]
    BY <1>5
  <2> HIDE <1>5
  <2> QED BY <2>1
<1>7. \A a, b \in Elem : xorLow[0][a][b] = 0
  <2>1. 0 \in 0 .. GF_BITS
    BY Sizes
  <2> QED BY <1>6, <2>1
<1>8. \A w \in 0 .. GF_BITS - 1, a, b \in Elem :
        xorLow[w + 1][a][b] = 2 * xorLow[w][a \div 2][b \div 2] + ((a + b) % 2)
  <2> SUFFICES ASSUME NEW w \in 0 .. GF_BITS - 1, NEW a \in Elem, NEW b \in Elem
               PROVE  xorLow[w + 1][a][b] = 2 * xorLow[w][a \div 2][b \div 2] + ((a + b) % 2)
    OBVIOUS
  <2>1. w + 1 \in 0 .. GF_BITS /\ w + 1 # 0 /\ w + 1 - 1 = w
    BY Sizes
  <2> QED BY <1>6, <2>1
<1>9. \A w \in 0 .. GF_BITS, a, b \in Elem : xorLow[w][a][b] \in Nat
  <2> DEFINE I == {w \in Nat : w <= GF_BITS => \A a, b \in Elem : xorLow[w][a][b] \in Nat}
  <2>1. 0 \in I
    BY <1>7
  <2>2. ASSUME NEW w \in Nat, w \in I PROVE w + 1 \in I
    <3> SUFFICES ASSUME w + 1 <= GF_BITS, NEW a \in Elem, NEW b \in Elem PROVE xorLow[w + 1][a][b] \in Nat
      OBVIOUS
    <3>1. w \in 0 .. GF_BITS - 1 /\ xorLow[w][a \div 2][b \div 2] \in Nat
      BY <1>1, <2>2, Sizes
    <3>2. a + b \in Nat
      BY <1>0
    <3> QED BY <1>8, <3>1, <3>2
  <2>3. Nat \subseteq I
    <3> HIDE DEF I
    <3> QED BY <2>1, <2>2, SetInduction
  <2> QED BY <2>3, Sizes
<1> QED BY <1>7, <1>8, <1>9

\* The halves of numbers below 2 * b.
LEMMA Halves ==
  /\ \A a \in Elem : a \in Nat /\ a \div 2 \in Elem /\ a = 2 * (a \div 2) + (a % 2) /\ a % 2 \in {0, 1}
  /\ \A a, b \in Elem : (a + b) % 2 \in {0, 1} /\ (a + b) % 2 = ((a % 2) + (b % 2)) % 2
  /\ \A q \in Nat : (2 * q) \div 2 = q /\ (2 * q) % 2 = 0 /\ (2 * q + 1) \div 2 = q /\ (2 * q + 1) % 2 = 1
<1>1. \A a \in Elem : a \in Nat /\ a \div 2 \in Elem /\ a = 2 * (a \div 2) + (a % 2) /\ a % 2 \in {0, 1}
  BY Sizes
<1>2. \A q \in Nat : (2 * q) \div 2 = q /\ (2 * q) % 2 = 0 /\ (2 * q + 1) \div 2 = q /\ (2 * q + 1) % 2 = 1
  OBVIOUS
<1>3. ASSUME NEW a \in Elem, NEW b \in Elem
      PROVE  (a + b) % 2 \in {0, 1} /\ (a + b) % 2 = ((a % 2) + (b % 2)) % 2
  <2>1. a \in Nat /\ b \in Nat
    BY <1>1
  <2> HIDE <1>1, <1>2
  <2> QED BY <2>1
<1> QED BY <1>1, <1>2, <1>3

LEMMA XorBound ==
  \A w \in 0 .. GF_BITS, a, b \in Elem : xorLow[w][a][b] < bit[w] /\ xorLow[w][a][b] \in Elem
<1> DEFINE I == {w \in Nat : w <= GF_BITS => \A a, b \in Elem : xorLow[w][a][b] < bit[w]}
<1>1. 0 \in I
  BY XorStep, BitStep
<1>2. ASSUME NEW w \in Nat, w \in I PROVE w + 1 \in I
  <2> SUFFICES ASSUME w + 1 <= GF_BITS, NEW a \in Elem, NEW b \in Elem PROVE xorLow[w + 1][a][b] < bit[w + 1]
    OBVIOUS
  <2>1. w \in 0 .. GF_BITS - 1 /\ w \in 0 .. GF_BITS /\ w < GF_BITS /\ w <= GF_BITS
    BY Sizes
  <2>2. xorLow[w + 1][a][b] = 2 * xorLow[w][a \div 2][b \div 2] + ((a + b) % 2)
    BY <2>1, XorStep
  <2>3. a \div 2 \in Elem /\ b \div 2 \in Elem /\ (a + b) % 2 \in {0, 1}
    BY Halves
  <2>4. xorLow[w][a \div 2][b \div 2] < bit[w] /\ xorLow[w][a \div 2][b \div 2] \in Nat
    BY <1>2, <2>1, <2>3, XorStep
  <2>5. bit[w + 1] = 2 * bit[w] /\ bit[w] \in Nat
    BY <2>1, BitsBelow
  <2> QED BY <2>2, <2>3, <2>4, <2>5
<1>3. Nat \subseteq I
  <2> HIDE DEF I
  <2> QED BY <1>1, <1>2, SetInduction
<1>4. ASSUME NEW w \in 0 .. GF_BITS, NEW a \in Elem, NEW b \in Elem
      PROVE  xorLow[w][a][b] < bit[w] /\ xorLow[w][a][b] \in Elem
  <2>1. xorLow[w][a][b] < bit[w]
    BY <1>3, Sizes
  <2>2. xorLow[w][a][b] \in Nat /\ bit[w] <= 2 * HighBit /\ bit[w] \in Nat
    BY XorStep, BitsBelow, Sizes
  <2> QED BY <2>1, <2>2, Sizes
<1> QED BY <1>4

LEMMA XorLowCommutes == \A w \in 0 .. GF_BITS, a, b \in Elem : xorLow[w][a][b] = xorLow[w][b][a]
<1> DEFINE I == {w \in Nat : w <= GF_BITS => \A a, b \in Elem : xorLow[w][a][b] = xorLow[w][b][a]}
<1>1. 0 \in I
  BY XorStep
<1>2. ASSUME NEW w \in Nat, w \in I PROVE w + 1 \in I
  <2> SUFFICES ASSUME w + 1 <= GF_BITS, NEW a \in Elem, NEW b \in Elem PROVE xorLow[w + 1][a][b] = xorLow[w + 1][b][a]
    OBVIOUS
  <2>1. w \in 0 .. GF_BITS - 1 /\ w <= GF_BITS
    BY Sizes
  <2>2. /\ xorLow[w + 1][a][b] = 2 * xorLow[w][a \div 2][b \div 2] + ((a + b) % 2)
        /\ xorLow[w + 1][b][a] = 2 * xorLow[w][b \div 2][a \div 2] + ((b + a) % 2)
    BY <2>1, XorStep
  <2>3. xorLow[w][a \div 2][b \div 2] = xorLow[w][b \div 2][a \div 2]
    BY <1>2, <2>1, Halves
  <2>4. a + b = b + a
    BY Halves
  <2> QED BY <2>2, <2>3, <2>4
<1>3. Nat \subseteq I
  <2> HIDE DEF I
  <2> QED BY <1>1, <1>2, SetInduction
<1> QED BY <1>3, Sizes

LEMMA XorLowSelf == \A w \in 0 .. GF_BITS, a \in Elem : xorLow[w][a][a] = 0
<1> DEFINE I == {w \in Nat : w <= GF_BITS => \A a \in Elem : xorLow[w][a][a] = 0}
<1>1. 0 \in I
  BY XorStep
<1>2. ASSUME NEW w \in Nat, w \in I PROVE w + 1 \in I
  <2> SUFFICES ASSUME w + 1 <= GF_BITS, NEW a \in Elem PROVE xorLow[w + 1][a][a] = 0
    OBVIOUS
  <2>1. w \in 0 .. GF_BITS - 1 /\ w <= GF_BITS
    BY Sizes
  <2>2. xorLow[w + 1][a][a] = 2 * xorLow[w][a \div 2][a \div 2] + ((a + a) % 2)
    BY <2>1, XorStep
  <2>3. xorLow[w][a \div 2][a \div 2] = 0
    BY <1>2, <2>1, Halves
  <2>4. (a + a) % 2 = 0
    BY Halves
  <2> QED BY <2>2, <2>3, <2>4
<1>3. Nat \subseteq I
  <2> HIDE DEF I
  <2> QED BY <1>1, <1>2, SetInduction
<1> QED BY <1>3, Sizes

LEMMA XorLowZero == \A w \in 0 .. GF_BITS, a \in Elem : a < bit[w] => xorLow[w][a][0] = a
<1> DEFINE I == {w \in Nat : w <= GF_BITS => \A a \in Elem : a < bit[w] => xorLow[w][a][0] = a}
<1>1. 0 \in I
  <2>1. \A a \in Elem : a < bit[0] => a = 0
    BY BitStep, Halves
  <2> QED BY <2>1, XorStep, Sizes
<1>2. ASSUME NEW w \in Nat, w \in I PROVE w + 1 \in I
  <2> SUFFICES ASSUME w + 1 <= GF_BITS, NEW a \in Elem, a < bit[w + 1] PROVE xorLow[w + 1][a][0] = a
    OBVIOUS
  <2>1. w \in 0 .. GF_BITS - 1 /\ w <= GF_BITS /\ w \in 0 .. GF_BITS /\ w < GF_BITS
    BY Sizes
  <2>2. xorLow[w + 1][a][0] = 2 * xorLow[w][a \div 2][0] + (a % 2)
    <3>1. 0 \div 2 = 0 /\ a + 0 = a /\ 0 \in Elem
      BY Halves, Sizes
    <3> QED BY <2>1, <3>1, XorStep
  <2>3. bit[w + 1] = 2 * bit[w] /\ bit[w] \in Nat
    BY <2>1, BitsBelow
  <2>4. a \div 2 \in Elem /\ a \div 2 < bit[w]
    <3>1. a \in Nat /\ a \div 2 \in Elem
      BY Halves
    <3> QED BY <3>1, <2>3
  <2>5. xorLow[w][a \div 2][0] = a \div 2
    BY <1>2, <2>1, <2>4
  <2> QED BY <2>2, <2>5, Halves
<1>3. Nat \subseteq I
  <2> HIDE DEF I
  <2> QED BY <1>1, <1>2, SetInduction
<1> QED BY <1>3, Sizes

LEMMA XorLowAssociates ==
  \A w \in 0 .. GF_BITS, a, b, c \in Elem : xorLow[w][xorLow[w][a][b]][c] = xorLow[w][a][xorLow[w][b][c]]
<1> DEFINE I == {w \in Nat : w <= GF_BITS => \A a, b, c \in Elem :
                   xorLow[w][xorLow[w][a][b]][c] = xorLow[w][a][xorLow[w][b][c]]}
<1>1. 0 \in I
  <2> SUFFICES ASSUME NEW a \in Elem, NEW b \in Elem, NEW c \in Elem
               PROVE  xorLow[0][xorLow[0][a][b]][c] = xorLow[0][a][xorLow[0][b][c]]
    OBVIOUS
  <2>1. xorLow[0][a][b] = 0 /\ xorLow[0][b][c] = 0
    BY XorStep
  <2>2. 0 \in Elem
    BY Sizes
  <2>3. xorLow[0][0][c] = 0 /\ xorLow[0][a][0] = 0
    BY <2>2, XorStep
  <2> QED BY <2>1, <2>3
<1>2. ASSUME NEW w \in Nat, w \in I PROVE w + 1 \in I
  <2> SUFFICES ASSUME w + 1 <= GF_BITS, NEW a \in Elem, NEW b \in Elem, NEW c \in Elem
               PROVE  xorLow[w + 1][xorLow[w + 1][a][b]][c] = xorLow[w + 1][a][xorLow[w + 1][b][c]]
    OBVIOUS
  <2> DEFINE ab == xorLow[w + 1][a][b]
             bc == xorLow[w + 1][b][c]
             x == xorLow[w][a \div 2][b \div 2]
             y == xorLow[w][b \div 2][c \div 2]
  <2>1. w \in 0 .. GF_BITS - 1 /\ w <= GF_BITS /\ w \in 0 .. GF_BITS /\ w + 1 \in 0 .. GF_BITS
    BY Sizes
  <2>2. a \div 2 \in Elem /\ b \div 2 \in Elem /\ c \div 2 \in Elem
    BY Halves
  <2>3. ab = 2 * x + ((a + b) % 2) /\ bc = 2 * y + ((b + c) % 2)
    BY <2>1, XorStep
  <2>4. ab \in Elem /\ bc \in Elem /\ x \in Elem /\ y \in Elem
    BY <2>1, <2>2, XorBound
  <2>5. xorLow[w][x][c \div 2] = xorLow[w][a \div 2][y]
    BY <1>2, <2>1, <2>2
  <2>6. /\ xorLow[w + 1][ab][c] = 2 * xorLow[w][ab \div 2][c \div 2] + ((ab + c) % 2)
        /\ xorLow[w + 1][a][bc] = 2 * xorLow[w][a \div 2][bc \div 2] + ((a + bc) % 2)
    BY <2>1, <2>4, XorStep
  <2>7. a \in Nat /\ b \in Nat /\ c \in Nat /\ x \in Nat /\ y \in Nat
    BY <2>4, Halves
  <2> HIDE DEF ab, bc, x, y
  <2>8. ab \div 2 = x /\ bc \div 2 = y
    BY <2>3, <2>7
  <2>9. (ab + c) % 2 = (a + bc) % 2
    BY <2>3, <2>7
  <2>10. xorLow[w + 1][ab][c] = xorLow[w + 1][a][bc]
    BY <2>5, <2>6, <2>8, <2>9
  <2> QED BY <2>10 DEF ab, bc
<1>3. Nat \subseteq I
  <2> HIDE DEF I
  <2> QED BY <1>1, <1>2, SetInduction
<1> QED BY <1>3, Sizes

\* Bit w of the operands is bit w of the result, the lower ones are those of the lower bits.
LEMMA XorTopBit ==
  \A w \in 0 .. GF_BITS - 1, a, b \in Elem : a < bit[w] /\ b < bit[w] =>
    /\ xorLow[w + 1][a][b] = xorLow[w][a][b]
    /\ xorLow[w + 1][a + bit[w]][b] = xorLow[w][a][b] + bit[w]
    /\ xorLow[w + 1][a + bit[w]][b + bit[w]] = xorLow[w][a][b]
<1> DEFINE Top(w, a, b) == /\ xorLow[w + 1][a][b] = xorLow[w][a][b]
                           /\ xorLow[w + 1][a + bit[w]][b] = xorLow[w][a][b] + bit[w]
                           /\ xorLow[w + 1][a + bit[w]][b + bit[w]] = xorLow[w][a][b]
           I == {w \in Nat : w < GF_BITS => \A a, b \in Elem : a < bit[w] /\ b < bit[w] => Top(w, a, b)}
<1>1. 0 \in I
  <2> SUFFICES ASSUME NEW a \in Elem, NEW b \in Elem, a < bit[0], b < bit[0] PROVE Top(0, a, b)
    OBVIOUS
  <2>1. a = 0 /\ b = 0 /\ bit[0] = 1
    BY BitStep, Halves
  <2>2. 0 \in 0 .. GF_BITS - 1 /\ 0 \in Elem /\ 1 \in Elem /\ 0 \div 2 = 0 /\ 1 \div 2 = 0 /\ 0 + 1 = 1
        /\ (0 + 0) % 2 = 0 /\ (1 + 0) % 2 = 1 /\ (1 + 1) % 2 = 0
    BY Sizes
  <2>3. xorLow[0][0][0] = 0
    BY <2>2, XorStep
  <2>4. xorLow[0 + 1][0][0] = 0 /\ xorLow[0 + 1][1][0] = 1 /\ xorLow[0 + 1][1][1] = 0
    BY <2>2, <2>3, XorStep
  <2> QED BY <2>1, <2>3, <2>4
<1>2. ASSUME NEW w \in Nat, w \in I PROVE w + 1 \in I
  <2> SUFFICES ASSUME w + 1 < GF_BITS, NEW a \in Elem, NEW b \in Elem, a < bit[w + 1], b < bit[w + 1]
               PROVE  Top(w + 1, a, b)
    OBVIOUS
  <2> DEFINE A == a \div 2
             B == b \div 2
             c == bit[w]
             d == bit[w + 1]
             r == (a + b) % 2
  <2>1. /\ w \in 0 .. GF_BITS - 1 /\ w + 1 \in 0 .. GF_BITS - 1 /\ w < GF_BITS /\ w + 1 < GF_BITS
        /\ w \in 0 .. GF_BITS /\ w + 1 \in 0 .. GF_BITS
    BY Sizes
  <2>2. d = 2 * c /\ c \in Nat \ {0} /\ d <= HighBit /\ c \in Elem
    BY <2>1, BitsBelow
  <2>3. A \in Elem /\ B \in Elem /\ a \in Nat /\ b \in Nat /\ A \in Nat /\ B \in Nat
    BY Halves
  <2>4. A < c /\ B < c
    <3> HIDE DEF c
    <3> QED BY <2>2, <2>3
  <2>5. Top(w, A, B)
    BY <1>2, <2>1, <2>3, <2>4
  <2>6. a + d \in Elem /\ b + d \in Elem
    <3>1. a < d /\ b < d
      OBVIOUS
    <3>2. Elem = 0 .. 2 * HighBit - 1 /\ HighBit \in Nat
      BY Sizes
    <3> HIDE DEF d, c, A, B, r
    <3>3. a \in Nat /\ b \in Nat /\ d \in Nat /\ d <= HighBit
      BY <2>2, <2>3
    <3> QED BY ONLY <3>1, <3>2, <3>3
  <2>7. (a + d) \div 2 = A + c /\ (b + d) \div 2 = B + c
    <3> HIDE DEF c, d
    <3> QED BY <2>2, <2>3
  <2>8. (a + d + b) % 2 = r /\ (a + d + (b + d)) % 2 = r
    <3> HIDE DEF c, d
    <3> QED BY <2>2, <2>3
  <2>9. /\ xorLow[w + 1 + 1][a][b] = 2 * xorLow[w + 1][A][B] + r
        /\ xorLow[w + 1 + 1][a + d][b] = 2 * xorLow[w + 1][A + c][B] + r
        /\ xorLow[w + 1 + 1][a + d][b + d] = 2 * xorLow[w + 1][A + c][B + c] + r
    <3>1. xorLow[w + 1 + 1][a][b] = 2 * xorLow[w + 1][A][B] + r
      BY <2>1, XorStep
    <3>2. xorLow[w + 1 + 1][a + d][b] = 2 * xorLow[w + 1][(a + d) \div 2][B] + ((a + d + b) % 2)
      BY <2>1, <2>6, XorStep
    <3>3. xorLow[w + 1 + 1][a + d][b + d] = 2 * xorLow[w + 1][(a + d) \div 2][(b + d) \div 2] + ((a + d + (b + d)) % 2)
      BY <2>1, <2>6, XorStep
    <3> QED BY <3>1, <3>2, <3>3, <2>7, <2>8
  <2>10. xorLow[w + 1][a][b] = 2 * xorLow[w][A][B] + r
    BY <2>1, XorStep
  <2>11. xorLow[w][A][B] \in Nat
    BY <2>1, <2>3, XorStep
  <2> HIDE DEF A, B, r
  <2>12. /\ xorLow[w + 1 + 1][a][b] = xorLow[w + 1][a][b]
         /\ xorLow[w + 1 + 1][a + d][b] = 2 * (xorLow[w][A][B] + c) + r
         /\ xorLow[w + 1 + 1][a + d][b + d] = xorLow[w + 1][a][b]
    BY <2>5, <2>9, <2>10
  <2>13. 2 * (xorLow[w][A][B] + c) + r = 2 * xorLow[w][A][B] + r + d
    <3>1. r \in {0, 1}
      BY Halves DEF r
    <3> HIDE DEF c, d
    <3> QED BY <2>2, <2>11, <3>1
  <2> QED BY <2>10, <2>12, <2>13
<1>3. Nat \subseteq I
  <2> HIDE DEF I
  <2> QED BY <1>1, <1>2, SetInduction
<1>4. \A w \in 0 .. GF_BITS - 1 : w \in I /\ w < GF_BITS
  BY <1>3, Sizes
<1> QED BY <1>4

\* What the field needs of the exclusive or: a group in which every element is its own inverse.
LEMMA XorLaws ==
  /\ \A a, b \in Elem : xor[a][b] \in Elem /\ xor[a][b] = xor[b][a]
  /\ \A a \in Elem : xor[a][a] = 0 /\ xor[a][0] = a /\ xor[0][a] = a
  /\ \A a, b, c \in Elem : xor[xor[a][b]][c] = xor[a][xor[b][c]]
<1>1. GF_BITS \in 0 .. GF_BITS /\ \A a \in Elem : a < bit[GF_BITS]
  BY Sizes
<1>2. \A a, b \in Elem : xor[a][b] \in Elem /\ xor[a][b] = xor[b][a]
  BY <1>1, XorBound, XorLowCommutes DEF xor
<1>3. \A a \in Elem : xor[a][a] = 0 /\ xor[a][0] = a
  BY <1>1, XorLowSelf, XorLowZero DEF xor
<1>4. \A a, b, c \in Elem : xor[xor[a][b]][c] = xor[a][xor[b][c]]
  BY <1>1, XorLowAssociates DEF xor
<1> QED BY <1>2, <1>3, <1>4, Sizes

\* The upper half of the elements, and doubling in the lower half.
LEMMA XorHalves ==
  \A a, b \in Elem : a < HighBit /\ b < HighBit =>
    /\ xor[a][b] < HighBit
    /\ xor[a + HighBit][b] = xor[a][b] + HighBit
    /\ xor[a][b + HighBit] = xor[a][b] + HighBit
    /\ xor[a + HighBit][b + HighBit] = xor[a][b]
    /\ xor[2 * a][2 * b] = 2 * xor[a][b]
    /\ xor[2 * a][1] = 2 * a + 1
<1> SUFFICES ASSUME NEW a \in Elem, NEW b \in Elem, a < HighBit, b < HighBit
             PROVE  /\ xor[a][b] < HighBit
                    /\ xor[a + HighBit][b] = xor[a][b] + HighBit
                    /\ xor[a][b + HighBit] = xor[a][b] + HighBit
                    /\ xor[a + HighBit][b + HighBit] = xor[a][b]
                    /\ xor[2 * a][2 * b] = 2 * xor[a][b]
                    /\ xor[2 * a][1] = 2 * a + 1
  OBVIOUS
<1> DEFINE w == GF_BITS - 1
<1>1. w \in 0 .. GF_BITS - 1 /\ w \in 0 .. GF_BITS /\ w + 1 = GF_BITS /\ bit[w] = HighBit
  BY Sizes DEF HighBit
<1>2. a \in Nat /\ b \in Nat /\ a + HighBit \in Elem /\ b + HighBit \in Elem /\ 2 * a \in Elem /\ 2 * b \in Elem
  BY Sizes
<1> HIDE DEF w
<1>3. \A x, y \in Elem : x < HighBit /\ y < HighBit =>
        /\ xor[x][y] = xorLow[w][x][y]
        /\ xor[x + HighBit][y] = xorLow[w][x][y] + HighBit
        /\ xor[x + HighBit][y + HighBit] = xorLow[w][x][y]
  BY <1>1, XorTopBit DEF xor
<1>4. xorLow[w][a][b] < HighBit
  BY <1>1, XorBound
<1>5. xor[a][b + HighBit] = xor[a][b] + HighBit
  BY <1>2, <1>3, XorLaws
<1>6. xor[2 * a][2 * b] = 2 * xor[a][b]
  <2>1. (2 * a) \div 2 = a /\ (2 * b) \div 2 = b /\ (2 * a + 2 * b) % 2 = 0
    BY <1>2
  <2>2. xorLow[w + 1][2 * a][2 * b] = 2 * xorLow[w][a][b] + 0
    BY <1>1, <1>2, <2>1, XorStep
  <2>3. xorLow[w][a][b] \in Nat
    BY <1>1, XorStep
  <2> QED BY <1>1, <1>3, <2>2, <2>3 DEF xor
<1>7. xor[2 * a][1] = 2 * a + 1
  <2>1. (2 * a) \div 2 = a /\ 1 \div 2 = 0 /\ (2 * a + 1) % 2 = 1 /\ 1 \in Elem /\ 0 \in Elem
    BY <1>2, Sizes
  <2>2. xorLow[w + 1][2 * a][1] = 2 * xorLow[w][a][0] + 1
    BY <1>1, <1>2, <2>1, XorStep
  <2>3. xorLow[w][a][0] = a
    BY <1>1, XorLowZero
  <2> QED BY <1>1, <2>2, <2>3 DEF xor
<1> QED BY <1>3, <1>4, <1>5, <1>6, <1>7

LEMMA XorExchange ==
  ASSUME NEW a \in Elem, NEW b \in Elem, NEW c \in Elem, NEW d \in Elem
  PROVE  xor[xor[a][b]][xor[c][d]] = xor[xor[a][c]][xor[b][d]]
<1>1. xor[c][d] \in Elem /\ xor[b][d] \in Elem
  BY XorLaws
<1>2. \A x, y, z \in Elem : xor[xor[x][y]][z] = xor[x][xor[y][z]]
  BY XorLaws
<1>3. xor[xor[a][b]][xor[c][d]] = xor[a][xor[b][xor[c][d]]]
  BY <1>1, <1>2
<1>4. xor[b][xor[c][d]] = xor[xor[b][c]][d]
  BY <1>2
<1>5. xor[b][c] = xor[c][b]
  BY XorLaws
<1>6. xor[xor[c][b]][d] = xor[c][xor[b][d]]
  BY <1>2
<1>7. \A z \in Elem : xor[xor[a][c]][z] = xor[a][xor[c][z]]
  BY <1>2
<1>8. xor[xor[a][c]][xor[b][d]] = xor[a][xor[c][xor[b][d]]]
  BY <1>1, <1>7
<1> QED BY <1>3, <1>4, <1>5, <1>6, <1>8

LEMMA XorZeroEqual == ASSUME NEW a \in Elem, NEW b \in Elem, xor[a][b] = 0 PROVE a = b
<1>1. xor[xor[a][b]][b] = xor[a][xor[b][b]]
  BY XorLaws
<1>2. xor[b][b] = 0 /\ xor[a][0] = a /\ xor[0][b] = b
  BY XorLaws
<1> QED BY <1>1, <1>2

-----------------------------------------------------------------------------
(* Multiplication by alpha.                                                *)

LEMMA TermsStep ==
  /\ terms \in [0 .. GF_BITS -> Elem] /\ terms[0] = 0
  /\ \A i \in 0 .. GF_BITS - 1 : terms[i + 1] = IF i \in Pp THEN xor[terms[i]][bit[i]] ELSE terms[i]
<1> DEFINE Def(f) == [i \in 0 .. GF_BITS |-> IF i = 0 THEN 0
                        ELSE IF i - 1 \in Pp THEN xor[f[i - 1]][bit[i - 1]] ELSE f[i - 1]]
           G == [i \in 1 .. GF_BITS |-> [x \in Elem |-> IF i - 1 \in Pp THEN xor[x][bit[i - 1]] ELSE x]]
<1>1. \A i \in 1 .. GF_BITS : bit[i - 1] \in Elem
  <2> SUFFICES ASSUME NEW i \in 1 .. GF_BITS PROVE bit[i - 1] \in Elem
    OBVIOUS
  <2>1. i - 1 \in 0 .. GF_BITS /\ i - 1 < GF_BITS
    BY Sizes
  <2> QED BY <2>1, BitsBelow
<1>2. G \in [1 .. GF_BITS -> [Elem -> Elem]]
  BY <1>1, XorLaws
<1>3. PICK f : IsIteration(f, GF_BITS, Elem, 0, G)
  <2>1. 0 \in Elem /\ GF_BITS \in Nat
    BY Sizes
  <2> HIDE DEF G
  <2> QED BY <1>2, <2>1, IterationExists
<1>4. f \in [0 .. GF_BITS -> Elem] /\ f[0] = 0
  BY <1>3 DEF IsIteration
<1>5. f = Def(f)
  <2>1. ASSUME NEW i \in 1 .. GF_BITS
        PROVE  f[i] = IF i - 1 \in Pp THEN xor[f[i - 1]][bit[i - 1]] ELSE f[i - 1]
    <3>1. f[i] = G[i][f[i - 1]]
      BY <1>3 DEF IsIteration
    <3>2. f[i - 1] \in Elem
      BY <1>4, Sizes
    <3> QED BY <3>1, <3>2
  <2>2. ASSUME NEW i \in 0 .. GF_BITS PROVE f[i] = Def(f)[i]
    <3>1. CASE i = 0
      BY <1>4, <3>1
    <3>2. CASE i # 0
      <4>1. i \in 1 .. GF_BITS
        BY <3>2, Sizes
      <4> QED BY <2>1, <3>2, <4>1
    <3> QED BY <3>1, <3>2
  <2>3. f = [i \in 0 .. GF_BITS |-> f[i]]
    BY <1>4
  <2> QED BY <2>2, <2>3
<1>6. terms = Def(terms)
  <2> HIDE DEF Def
  <2>1. terms = CHOOSE g : g = Def(g)
    BY DEF terms, Def
  <2> QED BY <1>5, <2>1
<1>7. terms = [i \in 0 .. GF_BITS |-> terms[i]]
  BY <1>6
<1>8. terms[0] = 0
  <2>1. 0 \in 0 .. GF_BITS
    BY Sizes
  <2>2. terms[0] = Def(terms)[0]
    BY <1>6
  <2> HIDE <1>6
  <2> QED BY <2>1, <2>2
<1>9. ASSUME NEW i \in 0 .. GF_BITS - 1
      PROVE  terms[i + 1] = IF i \in Pp THEN xor[terms[i]][bit[i]] ELSE terms[i]
  <2>1. i + 1 \in 0 .. GF_BITS /\ i + 1 # 0 /\ i + 1 - 1 = i
    BY Sizes
  <2>2. terms[i + 1] = Def(terms)[i + 1]
    BY <1>6
  <2> HIDE <1>6
  <2> QED BY <2>1, <2>2
<1>10. \A i \in 0 .. GF_BITS : terms[i] \in Elem
  <2> DEFINE I == {i \in Nat : i <= GF_BITS => terms[i] \in Elem}
  <2>1. 0 \in I
    BY <1>8, Sizes
  <2>2. ASSUME NEW i \in Nat, i \in I PROVE i + 1 \in I
    <3> SUFFICES ASSUME i + 1 <= GF_BITS PROVE terms[i + 1] \in Elem
      OBVIOUS
    <3>1. i \in 0 .. GF_BITS - 1 /\ i <= GF_BITS /\ i + 1 \in 1 .. GF_BITS /\ i + 1 - 1 = i
      BY Sizes
    <3>2. terms[i] \in Elem /\ bit[i] \in Elem
      BY <1>1, <2>2, <3>1
    <3>3. xor[terms[i]][bit[i]] \in Elem
      BY <3>2, XorLaws
    <3>4. terms[i + 1] = IF i \in Pp THEN xor[terms[i]][bit[i]] ELSE terms[i]
      BY <1>9, <3>1
    <3> HIDE <1>6
    <3> QED BY <3>2, <3>3, <3>4
  <2>3. Nat \subseteq I
    <3> HIDE DEF I
    <3> QED BY <2>1, <2>2, SetInduction
  <2> QED BY <2>3, Sizes
<1> HIDE <1>6
<1> QED BY <1>7, <1>8, <1>9, <1>10

LEMMA TimesAlphaLinear ==
  /\ \A x \in Elem : TimesAlpha(x) \in Elem
  /\ \A x, y \in Elem : TimesAlpha(xor[x][y]) = xor[TimesAlpha(x)][TimesAlpha(y)]
  /\ TimesAlpha(0) = 0
<1> DEFINE H == HighBit
           R == Reduction
<1>1. R \in Elem
  BY TermsStep, Sizes DEF Reduction
<1>2. \A x \in Elem : x \in Nat /\ (x < H => 2 * x \in Elem)
                      /\ (x >= H => x - H \in Elem /\ x - H < H /\ x = x - H + H /\ 2 * (x - H) \in Elem)
  BY Sizes
<1>3. \A x \in Elem : IF x < H THEN TimesAlpha(x) = 2 * x ELSE TimesAlpha(x) = xor[2 * (x - H)][R]
  BY <1>2, Sizes DEF TimesAlpha
<1>4. \A x \in Elem : TimesAlpha(x) \in Elem
  <2> SUFFICES ASSUME NEW x \in Elem PROVE TimesAlpha(x) \in Elem
    OBVIOUS
  <2>1. CASE x < H
    BY <1>2, <1>3, <2>1
  <2>2. CASE x >= H
    <3>1. TimesAlpha(x) = xor[2 * (x - H)][R] /\ 2 * (x - H) \in Elem
      BY <1>2, <1>3, <2>2, Sizes
    <3> HIDE DEF H, R
    <3> QED BY <1>1, <3>1, XorLaws
  <2> QED BY <1>2, <2>1, <2>2, Sizes
<1>5. ASSUME NEW x \in Elem, NEW y \in Elem, x < H, y < H
      PROVE  TimesAlpha(xor[x][y]) = xor[TimesAlpha(x)][TimesAlpha(y)]
  <2>1. xor[x][y] \in Elem /\ xor[x][y] < H /\ xor[2 * x][2 * y] = 2 * xor[x][y]
    BY <1>5, XorHalves, XorLaws
  <2> QED BY <1>3, <1>5, <2>1
<1>6. ASSUME NEW x \in Elem, NEW y \in Elem, x >= H, y < H
      PROVE  TimesAlpha(xor[x][y]) = xor[TimesAlpha(x)][TimesAlpha(y)]
  <2> DEFINE a == x - H
  <2>1. a \in Elem /\ a < H /\ x = a + H /\ 2 * a \in Elem /\ 2 * y \in Elem /\ y \in Nat /\ H \in Nat
    BY <1>2, <1>6, Sizes
  <2>2. xor[x][y] = xor[a][y] + H /\ xor[a][y] \in Elem /\ 2 * xor[a][y] = xor[2 * a][2 * y]
    BY <1>6, <2>1, XorHalves, XorLaws
  <2>3. xor[x][y] \in Elem /\ ~(xor[x][y] < H) /\ xor[x][y] - H = xor[a][y]
    <3>1. xor[x][y] \in Elem
      BY XorLaws
    <3>2. xor[a][y] \in Nat
      BY <2>2, Sizes
    <3> HIDE DEF a, H
    <3> QED BY <2>1, <2>2, <3>1, <3>2
  <2>4. TimesAlpha(xor[x][y]) = xor[xor[2 * a][2 * y]][R]
    BY <1>3, <2>2, <2>3
  <2>5. TimesAlpha(x) = xor[2 * a][R] /\ TimesAlpha(y) = 2 * y
    BY <1>2, <1>3, <1>6, <2>1
  <2>6. xor[xor[2 * a][2 * y]][R] = xor[2 * a][xor[2 * y][R]]
    BY <1>1, <2>1, XorLaws
  <2>7. xor[xor[2 * a][R]][2 * y] = xor[2 * a][xor[R][2 * y]]
    BY <1>1, <2>1, XorLaws
  <2>8. xor[R][2 * y] = xor[2 * y][R]
    BY <1>1, <2>1, XorLaws
  <2> QED BY <2>4, <2>5, <2>6, <2>7, <2>8
<1>7. ASSUME NEW x \in Elem, NEW y \in Elem, x >= H, y >= H
      PROVE  TimesAlpha(xor[x][y]) = xor[TimesAlpha(x)][TimesAlpha(y)]
  <2> DEFINE a == x - H
             b == y - H
  <2>1. /\ a \in Elem /\ a < H /\ x = a + H /\ 2 * a \in Elem
        /\ b \in Elem /\ b < H /\ y = b + H /\ 2 * b \in Elem /\ H \in Nat
    BY <1>2, <1>7, Sizes
  <2>2. xor[x][y] = xor[a][b] /\ xor[a][b] \in Elem /\ xor[a][b] < H /\ 2 * xor[a][b] = xor[2 * a][2 * b]
    BY <2>1, XorHalves, XorLaws
  <2>3. TimesAlpha(xor[x][y]) = xor[2 * a][2 * b]
    BY <1>3, <2>2
  <2>4. TimesAlpha(x) = xor[2 * a][R] /\ TimesAlpha(y) = xor[2 * b][R]
    BY <1>2, <1>3, <1>7, <2>1
  <2>5. xor[xor[2 * a][R]][xor[2 * b][R]] = xor[xor[2 * a][2 * b]][xor[R][R]]
    BY <1>1, <2>1, XorExchange
  <2>6. xor[R][R] = 0 /\ xor[xor[2 * a][2 * b]][0] = xor[2 * a][2 * b]
    BY <1>1, <2>1, XorLaws
  <2> QED BY <2>3, <2>4, <2>5, <2>6
<1>8. ASSUME NEW x \in Elem, NEW y \in Elem
      PROVE  TimesAlpha(xor[x][y]) = xor[TimesAlpha(x)][TimesAlpha(y)]
  <2>1. x \in Nat /\ y \in Nat /\ H \in Nat
    BY <1>2, Sizes
  <2>2. CASE x < H /\ y >= H
    <3>1. TimesAlpha(xor[y][x]) = xor[TimesAlpha(y)][TimesAlpha(x)]
      BY <1>6, <2>2
    <3> QED BY <1>4, <3>1, XorLaws
  <2>3. x < H \/ x >= H
    BY <2>1
  <2>4. y < H \/ y >= H
    BY <2>1
  <2> QED BY <1>5, <1>6, <1>7, <2>2, <2>3, <2>4
<1>9. TimesAlpha(0) = 0
  BY Sizes DEF TimesAlpha
<1> QED BY <1>4, <1>8, <1>9

-----------------------------------------------------------------------------
(* The powers of alpha.                                                    *)

IsOrbit(f) ==
  /\ f \in [Nat -> [Elem -> Elem]]
  /\ f[0] = [x \in Elem |-> x]
  /\ \A n \in Nat : f[n + 1] = [x \in Elem |-> TimesAlpha(f[n][x])]

\* alpha ** n * x, for every n.
shifts == CHOOSE f : IsOrbit(f)
alpha(n) == shifts[n][1]

LEMMA ShiftsStep ==
  /\ \A n \in Nat, x \in Elem : shifts[n][x] \in Elem
  /\ \A x \in Elem : shifts[0][x] = x
  /\ \A n \in Nat, x \in Elem : shifts[n + 1][x] = TimesAlpha(shifts[n][x])
<1> DEFINE S == [Elem -> Elem]
           f0 == [x \in Elem |-> x]
           G == [h \in S |-> [x \in Elem |-> TimesAlpha(h[x])]]
<1>1. f0 \in S /\ G \in [S -> S]
  BY TimesAlphaLinear
<1>2. PICK f \in [Nat -> S] : f[0] = f0 /\ \A n \in Nat : f[n + 1] = G[f[n]]
  <2> HIDE DEF S, f0, G
  <2> QED BY <1>1, NatIterationExists
<1>3. IsOrbit(f)
  <2>1. ASSUME NEW n \in Nat PROVE f[n + 1] = [x \in Elem |-> TimesAlpha(f[n][x])]
    <3>1. f[n] \in S
      BY <1>2
    <3> QED BY <1>2, <3>1
  <2> QED BY <1>2, <2>1 DEF IsOrbit
<1>4. IsOrbit(shifts)
  BY <1>3 DEF shifts
<1>5. /\ shifts \in [Nat -> [Elem -> Elem]]
      /\ shifts[0] = [x \in Elem |-> x]
      /\ \A n \in Nat : shifts[n + 1] = [x \in Elem |-> TimesAlpha(shifts[n][x])]
  BY <1>4 DEF IsOrbit
<1> HIDE DEF S, f0, G
<1>6. ASSUME NEW n \in Nat, NEW x \in Elem PROVE shifts[n + 1][x] = TimesAlpha(shifts[n][x])
  <2>1. shifts[n + 1] = [y \in Elem |-> TimesAlpha(shifts[n][y])]
    BY <1>5
  <2> HIDE <1>4, <1>5
  <2> QED BY <2>1
<1>7. ASSUME NEW n \in Nat, NEW x \in Elem PROVE shifts[n][x] \in Elem
  <2>1. shifts[n] \in [Elem -> Elem]
    BY <1>5
  <2> QED BY <2>1
<1>8. \A x \in Elem : shifts[0][x] = x
  BY <1>5
<1> QED BY <1>6, <1>7, <1>8

LEMMA ShiftsAdd == \A m, n \in Nat, x \in Elem : shifts[m + n][x] = shifts[m][shifts[n][x]]
<1> DEFINE I == {m \in Nat : \A n \in Nat, x \in Elem : shifts[m + n][x] = shifts[m][shifts[n][x]]}
<1>1. 0 \in I
  BY ShiftsStep
<1>2. ASSUME NEW m \in Nat, m \in I PROVE m + 1 \in I
  <2> SUFFICES ASSUME NEW n \in Nat, NEW x \in Elem
               PROVE  shifts[m + 1 + n][x] = shifts[m + 1][shifts[n][x]]
    OBVIOUS
  <2>1. m + 1 + n = m + n + 1 /\ m + n \in Nat
    OBVIOUS
  <2>2. shifts[m + n + 1][x] = TimesAlpha(shifts[m + n][x])
    BY <2>1, ShiftsStep
  <2>3. shifts[n][x] \in Elem
    BY ShiftsStep
  <2>4. shifts[m + 1][shifts[n][x]] = TimesAlpha(shifts[m][shifts[n][x]])
    BY <2>3, ShiftsStep
  <2> QED BY <1>2, <2>1, <2>2, <2>4
<1>3. Nat \subseteq I
  <2> HIDE DEF I
  <2> QED BY <1>1, <1>2, SetInduction
<1> QED BY <1>3

LEMMA ShiftsCommute == \A m, n \in Nat, x \in Elem : shifts[m][shifts[n][x]] = shifts[n][shifts[m][x]]
<1> SUFFICES ASSUME NEW m \in Nat, NEW n \in Nat, NEW x \in Elem
             PROVE  shifts[m][shifts[n][x]] = shifts[n][shifts[m][x]]
  OBVIOUS
<1>1. m + n = n + m
  OBVIOUS
<1> QED BY <1>1, ShiftsAdd

LEMMA ShiftsLinear ==
  \A n \in Nat : /\ shifts[n][0] = 0
                /\ \A x, y \in Elem : shifts[n][xor[x][y]] = xor[shifts[n][x]][shifts[n][y]]
<1> DEFINE I == {n \in Nat : /\ shifts[n][0] = 0
                            /\ \A x, y \in Elem : shifts[n][xor[x][y]] = xor[shifts[n][x]][shifts[n][y]]}
<1>0. 0 \in Elem
  BY Sizes
<1>1. 0 \in I
  <2>1. shifts[0][0] = 0
    BY <1>0, ShiftsStep
  <2>2. \A x, y \in Elem : xor[x][y] \in Elem
    BY XorLaws
  <2> QED BY <2>1, <2>2, ShiftsStep
<1>2. ASSUME NEW n \in Nat, n \in I PROVE n + 1 \in I
  <2>1. shifts[n + 1][0] = 0
    <3>1. shifts[n + 1][0] = TimesAlpha(shifts[n][0])
      BY <1>0, ShiftsStep
    <3> QED BY <1>2, <3>1, TimesAlphaLinear
  <2>2. ASSUME NEW x \in Elem, NEW y \in Elem
        PROVE  shifts[n + 1][xor[x][y]] = xor[shifts[n + 1][x]][shifts[n + 1][y]]
    <3>1. xor[x][y] \in Elem /\ shifts[n][x] \in Elem /\ shifts[n][y] \in Elem
      BY ShiftsStep, XorLaws
    <3>2. shifts[n][xor[x][y]] = xor[shifts[n][x]][shifts[n][y]]
      BY <1>2
    <3>3. TimesAlpha(xor[shifts[n][x]][shifts[n][y]]) = xor[TimesAlpha(shifts[n][x])][TimesAlpha(shifts[n][y])]
      BY <3>1, TimesAlphaLinear
    <3> QED BY <3>1, <3>2, <3>3, ShiftsStep
  <2> QED BY <2>1, <2>2
<1>3. Nat \subseteq I
  <2> HIDE DEF I
  <2> QED BY <1>1, <1>2, SetInduction
<1> QED BY <1>3

LEMMA PowerStep ==
  /\ \A i \in 0 .. GF_SIZE, x \in Elem :
       power[i][x] = IF i = 0 THEN x ELSE IF i = 1 THEN TimesAlpha(x)
                     ELSE power[i - (i \div 2)][power[i \div 2][x]]
<1> DEFINE Def(f) == [i \in 0 .. GF_SIZE |->
                       [x \in Elem |-> IF i = 0 THEN x ELSE IF i = 1 THEN TimesAlpha(x)
                                       ELSE f[i - (i \div 2)][f[i \div 2][x]]]]
           f == [i \in 0 .. GF_SIZE |-> [x \in Elem |-> shifts[i][x]]]
<1>1. ASSUME NEW i \in 0 .. GF_SIZE, NEW x \in Elem PROVE f[i][x] = Def(f)[i][x]
  <2>1. CASE i = 0
    BY <2>1, ShiftsStep
  <2>2. CASE i = 1
    <3>1. shifts[0 + 1][x] = TimesAlpha(shifts[0][x]) /\ shifts[0][x] = x
      BY ShiftsStep
    <3> QED BY <2>2, <3>1
  <2>3. CASE i # 0 /\ i # 1
    <3> DEFINE b == i \div 2
               a == i - b
    <3>1. b \in 0 .. GF_SIZE /\ a \in 0 .. GF_SIZE /\ a \in Nat /\ b \in Nat /\ a + b = i
      BY Sizes
    <3>2. shifts[a + b][x] = shifts[a][shifts[b][x]] /\ shifts[b][x] \in Elem
      BY <3>1, ShiftsAdd, ShiftsStep
    <3>3. f[a][f[b][x]] = shifts[a][shifts[b][x]]
      BY <3>1, <3>2
    <3> QED BY <2>3, <3>1, <3>2, <3>3
  <2> QED BY <2>1, <2>2, <2>3
<1>2. f = Def(f)
  BY <1>1
<1>3. power = Def(power)
  <2> HIDE DEF f, Def
  <2>1. power = CHOOSE g : g = Def(g)
    BY DEF power, Def
  <2> QED BY <1>2, <2>1
<1>4. ASSUME NEW i \in 0 .. GF_SIZE, NEW x \in Elem
      PROVE  power[i][x] = IF i = 0 THEN x ELSE IF i = 1 THEN TimesAlpha(x)
                           ELSE power[i - (i \div 2)][power[i \div 2][x]]
  <2>1. power[i] = Def(power)[i]
    <3> HIDE DEF Def
    <3> QED BY <1>3
  <2> HIDE <1>3
  <2> QED BY <2>1
<1> QED BY <1>4

LEMMA PowerIsShift == \A i \in 0 .. GF_SIZE, x \in Elem : power[i][x] = shifts[i][x]
<1> DEFINE I == {i \in Nat : i <= GF_SIZE => \A x \in Elem : power[i][x] = shifts[i][x]}
<1>1. ASSUME NEW i \in Nat, \A j \in 0 .. i - 1 : j \in I PROVE i \in I
  <2> SUFFICES ASSUME i <= GF_SIZE, NEW x \in Elem PROVE power[i][x] = shifts[i][x]
    OBVIOUS
  <2>0. i \in 0 .. GF_SIZE
    BY Sizes
  <2>1. CASE i = 0
    BY <2>0, <2>1, PowerStep, ShiftsStep
  <2>2. CASE i = 1
    <3>1. shifts[0 + 1][x] = TimesAlpha(shifts[0][x]) /\ shifts[0][x] = x /\ 0 + 1 = 1
      BY ShiftsStep
    <3> QED BY <2>0, <2>2, <3>1, PowerStep
  <2>3. CASE i # 0 /\ i # 1
    <3> DEFINE b == i \div 2
               a == i - b
    <3>1. b \in 0 .. i - 1 /\ a \in 0 .. i - 1 /\ a \in Nat /\ b \in Nat /\ a + b = i
          /\ a <= GF_SIZE /\ b <= GF_SIZE
      BY <2>3, Sizes
    <3>2. shifts[a + b][x] = shifts[a][shifts[b][x]] /\ shifts[b][x] \in Elem
      BY <3>1, ShiftsAdd, ShiftsStep
    <3>3. power[i][x] = power[a][power[b][x]]
      BY <2>0, <2>3, PowerStep
    <3>4. \A y \in Elem : power[a][y] = shifts[a][y] /\ power[b][y] = shifts[b][y]
      BY <1>1, <3>1
    <3> QED BY <3>1, <3>2, <3>3, <3>4
  <2> QED BY <2>1, <2>2, <2>3
<1>2. Nat \subseteq I
  <2> HIDE DEF I
  <2> QED BY <1>1, StrongSetInduction
<1> QED BY <1>2, Sizes

\* alpha is primitive: its powers below GF_SIZE are different, and they are all but 0.
LEMMA AlphaCycle ==
  /\ \A n \in Nat : alpha(n) \in Elem \ {0}
  /\ alpha(0) = 1 /\ alpha(GF_SIZE) = 1
  /\ \A m, n \in Nat : alpha(m + n) = shifts[m][alpha(n)]
  /\ \A n \in Nat : alpha(n + GF_SIZE) = alpha(n)
  /\ \A i, j \in 0 .. GF_SIZE - 1 : alpha(i) = alpha(j) => i = j
<1>0. 1 \in Elem /\ 0 \in Elem /\ GF_SIZE \in Nat /\ GF_SIZE >= 3
  BY Sizes
<1>1. alpha(GF_SIZE) = 1 /\ \A i \in 1 .. GF_SIZE - 1 : alpha(i) # 1
  <2>1. GF_SIZE \in 0 .. GF_SIZE /\ \A i \in 1 .. GF_SIZE - 1 : i \in 0 .. GF_SIZE
    BY <1>0
  <2> QED BY <1>0, <2>1, PowerIsShift, PrimitiveAssumption DEF alpha
<1>2. \A n \in Nat : alpha(n) \in Elem
  BY <1>0, ShiftsStep DEF alpha
<1>3. \A m, n \in Nat : alpha(m + n) = shifts[m][alpha(n)]
  BY <1>0, ShiftsAdd DEF alpha
<1>4. \A n \in Nat : alpha(n + GF_SIZE) = alpha(n)
  BY <1>0, <1>1, <1>3 DEF alpha
<1>5. alpha(0) = 1
  BY <1>0, ShiftsStep DEF alpha
<1>6. ASSUME NEW i \in 0 .. GF_SIZE - 1 PROVE alpha(i) # 0
  <2>1. GF_SIZE - i \in Nat /\ i \in Nat /\ GF_SIZE - i + i = GF_SIZE
    BY <1>0
  <2>2. alpha(GF_SIZE) = shifts[GF_SIZE - i][alpha(i)]
    BY <1>3, <2>1
  <2>3. shifts[GF_SIZE - i][0] = 0
    BY <2>1, ShiftsLinear
  <2> QED BY <1>1, <2>2, <2>3
<1>7. ASSUME NEW n \in Nat PROVE alpha(n) # 0
  <2> DEFINE I == {m \in Nat : alpha(m) # 0}
  <2>1. ASSUME NEW m \in Nat, \A j \in 0 .. m - 1 : j \in I PROVE m \in I
    <3>1. CASE m < GF_SIZE
      BY <1>0, <1>6, <3>1
    <3>2. CASE m >= GF_SIZE
      <4>1. m - GF_SIZE \in Nat /\ m - GF_SIZE \in 0 .. m - 1 /\ m - GF_SIZE + GF_SIZE = m
        BY <1>0, <3>2
      <4> QED BY <1>4, <2>1, <4>1
    <3> QED BY <1>0, <3>1, <3>2
  <2>2. Nat \subseteq I
    <3> HIDE DEF I
    <3> QED BY <2>1, StrongSetInduction
  <2> QED BY <2>2
<1>8. ASSUME NEW i \in 0 .. GF_SIZE - 1, NEW j \in 0 .. GF_SIZE - 1, alpha(i) = alpha(j), i < j PROVE FALSE
  <2> DEFINE m == GF_SIZE - i
  <2>1. m \in Nat /\ i \in Nat /\ j \in Nat /\ m + i = GF_SIZE /\ m + j = (j - i) + GF_SIZE
        /\ j - i \in Nat /\ j - i \in 1 .. GF_SIZE - 1
    BY <1>0, <1>8
  <2> HIDE DEF m
  <2>2. alpha(GF_SIZE) = shifts[m][alpha(i)] /\ alpha((j - i) + GF_SIZE) = shifts[m][alpha(j)]
    BY <1>3, <2>1
  <2>3. alpha((j - i) + GF_SIZE) = alpha(j - i)
    BY <1>4, <2>1
  <2> QED BY <1>1, <1>8, <2>1, <2>2, <2>3
<1>9. ASSUME NEW i \in 0 .. GF_SIZE - 1, NEW j \in 0 .. GF_SIZE - 1, alpha(i) = alpha(j) PROVE i = j
  <2>1. i \in Nat /\ j \in Nat
    OBVIOUS
  <2> QED BY <1>8, <1>9, <2>1
<1> QED BY <1>1, <1>2, <1>3, <1>4, <1>5, <1>7, <1>9

LEMMA AlphaElem == \A n \in Nat : alpha(n) \in Elem
BY AlphaCycle

LEMMA AlphaOnto == \A x \in Elem \ {0} : \E i \in 0 .. GF_SIZE - 1 : x = alpha(i)
<1> DEFINE D == 0 .. GF_SIZE - 1
           R == {alpha(i) : i \in D}
           f == [i \in D |-> alpha(i)]
<1>1. GF_SIZE \in Nat /\ GF_SIZE >= 3
  BY Sizes
<1>2. IsFiniteSet(D) /\ Cardinality(D) = GF_SIZE
  BY <1>1, FS_Interval
<1>3. ExistsBijection(D, R)
  <2>1. f \in [D -> R] /\ (\A i, j \in D : f[i] = f[j] => i = j) /\ (\A x \in R : \E i \in D : f[i] = x)
    BY AlphaCycle
  <2> HIDE DEF f, D, R
  <2>2. f \in Bijection(D, R)
    BY <2>1, Fun_IsBij
  <2> QED BY <2>2 DEF ExistsBijection
<1>4. IsFiniteSet(R) /\ Cardinality(R) = GF_SIZE
  <2> HIDE DEF D, R
  <2> QED BY <1>2, <1>3, FS_Bijection
<1>5. Elem \ {0} = 1 .. GF_SIZE
  BY Sizes DEF Elem
<1>6. IsFiniteSet(Elem \ {0}) /\ Cardinality(Elem \ {0}) = GF_SIZE
  <2>1. IsFiniteSet(1 .. GF_SIZE) /\ Cardinality(1 .. GF_SIZE) = GF_SIZE
    BY <1>1, FS_Interval
  <2> QED BY <1>5, <2>1
<1>7. R \subseteq Elem \ {0}
  BY AlphaCycle, <1>1
<1>8. R = Elem \ {0}
  <2> HIDE DEF R
  <2> QED BY <1>4, <1>6, <1>7, FS_Subset
<1> QED BY <1>8

\* The product by a power of alpha depends on its value alone.
LEMMA ShiftsByValue ==
  ASSUME NEW m \in Nat, NEW n \in Nat, alpha(m) = alpha(n), NEW x \in Elem
  PROVE  shifts[m][x] = shifts[n][x]
<1>1. CASE x = 0
  BY <1>1, ShiftsLinear
<1>2. CASE x # 0
  <2>1. PICK i \in 0 .. GF_SIZE - 1 : x = alpha(i)
    BY <1>2, AlphaOnto
  <2>2. i \in Nat /\ m + i = i + m /\ n + i = i + n
    OBVIOUS
  <2>3. alpha(m + i) = shifts[m][x] /\ alpha(n + i) = shifts[n][x]
    BY <2>1, <2>2, AlphaCycle
  <2>4. alpha(i + m) = shifts[i][alpha(m)] /\ alpha(i + n) = shifts[i][alpha(n)]
    BY <2>2, AlphaCycle
  <2> QED BY <2>2, <2>3, <2>4
<1> QED BY <1>1, <1>2

-----------------------------------------------------------------------------
(* The tables and what they give.                                          *)

ExpTable == gf_exp \in [0 .. 2 * GF_SIZE - 1 -> Elem] /\ \A i \in 0 .. 2 * GF_SIZE - 1 : gf_exp[i] = alpha(i)
LogTable == \A i \in 0 .. GF_SIZE - 1 : gf_log[alpha(i)] = i
MulTable ==
  /\ gf_mul_table \in [Elem -> [Elem -> Elem]]
  /\ \A i \in 0 .. GF_SIZE - 1, y \in Elem : gf_mul_table[alpha(i)][y] = shifts[i][y]
  /\ \A y \in Elem : gf_mul_table[0][y] = 0
InverseTable ==
  /\ inverse \in [Elem -> Elem]
  /\ inverse[1] = 1
  /\ \A x \in Elem \ {0} : gf_mul_table[x][inverse[x]] = 1

\* modnn is the remainder modulo GF_SIZE: it stays in the first turn of the powers.
LEMMA AlphaTurns == \A q, z \in Nat : alpha(z + GF_SIZE * q) = alpha(z)
<1> DEFINE I == {q \in Nat : \A z \in Nat : alpha(z + GF_SIZE * q) = alpha(z)}
<1>1. GF_SIZE \in Nat
  BY Sizes
<1>2. 0 \in I
  BY <1>1
<1>3. ASSUME NEW q \in Nat, q \in I PROVE q + 1 \in I
  <2> SUFFICES ASSUME NEW z \in Nat PROVE alpha(z + GF_SIZE * (q + 1)) = alpha(z)
    OBVIOUS
  <2>1. z + GF_SIZE * (q + 1) = (z + GF_SIZE) + GF_SIZE * q /\ z + GF_SIZE \in Nat
    BY <1>1
  <2> QED BY <1>3, <2>1, AlphaCycle
<1>4. Nat \subseteq I
  <2> HIDE DEF I
  <2> QED BY <1>2, <1>3, SetInduction
<1> QED BY <1>4

LEMMA Remainder ==
  ASSUME NEW N \in Nat \ {0}, NEW q \in Nat, NEW r \in 0 .. N - 1
  PROVE  (N * q + r) % N = r
OBVIOUS

LEMMA ModnnStep ==
  \A x \in Nat : modnn[x] = IF x < GF_SIZE THEN x
                          ELSE modnn[((x - GF_SIZE) \div (GF_SIZE + 1)) + ((x - GF_SIZE) % (GF_SIZE + 1))]
<1> DEFINE N == GF_SIZE
           fold(x) == ((x - N) \div (N + 1)) + ((x - N) % (N + 1))
           Def(f) == [x \in Nat |-> IF x < N THEN x ELSE f[fold(x)]]
           f == [x \in Nat |-> x % N]
<1>1. N \in Nat /\ N >= 3
  BY Sizes
<1> HIDE DEF N
<1>2. ASSUME NEW x \in Nat, ~(x < N) PROVE fold(x) \in Nat /\ fold(x) % N = x % N
  <2> DEFINE q == (x - N) \div (N + 1)
             t == (x - N) % (N + 1)
  <2>1. x - N \in Nat /\ N + 1 \in Nat \ {0}
    BY <1>1, <1>2
  <2>2. q \in Nat /\ t \in Nat /\ x - N = (N + 1) * q + t
    BY <2>1
  <2> HIDE DEF q, t
  <2>3. x = (q + t) + N * (q + 1)
    BY <1>1, <2>2
  <2>4. x % N = (q + t) % N
    <3> DEFINE v == (q + t) \div N
               u == (q + t) % N
    <3>1. q + t = N * v + u /\ v \in Nat /\ u \in 0 .. N - 1
      BY <1>1, <2>2
    <3> HIDE DEF u, v
    <3>2. x = N * (v + (q + 1)) + u /\ v + (q + 1) \in Nat
      BY <1>1, <2>2, <2>3, <3>1
    <3>3. (N * (v + (q + 1)) + u) % N = u
      <4>1. N \in Nat \ {0}
        BY <1>1
      <4> QED BY <3>1, <3>2, <4>1, Remainder
    <3> QED BY <3>2, <3>3 DEF u
  <2> QED BY <2>2, <2>3, <2>4 DEF q, t
<1>3. f = Def(f)
  <2>1. \A x \in Nat : x < N => x % N = x
    BY <1>1
  <2> HIDE DEF fold
  <2> QED BY <1>2, <2>1
<1>4. modnn = Def(modnn)
  <2> HIDE DEF f, Def, fold
  <2>1. modnn = CHOOSE g : g = Def(g)
    BY DEF modnn, Def, fold, N
  <2> QED BY <1>3, <2>1
<1>5. ASSUME NEW x \in Nat PROVE modnn[x] = IF x < N THEN x ELSE modnn[fold(x)]
  <2>1. modnn[x] = Def(modnn)[x]
    <3> HIDE DEF Def, fold
    <3> QED BY <1>4
  <2> HIDE <1>4
  <2> HIDE DEF fold
  <2> QED BY <2>1
<1> QED BY <1>5 DEF N

LEMMA ModnnTurns == \A x \in Nat : modnn[x] \in 0 .. GF_SIZE - 1 /\ alpha(modnn[x]) = alpha(x)
<1> DEFINE N == GF_SIZE
           I == {x \in Nat : modnn[x] \in 0 .. N - 1 /\ alpha(modnn[x]) = alpha(x)}
<1>1. N \in Nat /\ N >= 3
  BY Sizes
<1>2. ASSUME NEW x \in Nat, \A j \in 0 .. x - 1 : j \in I PROVE x \in I
  <2>1. CASE x < N
    BY <1>1, <2>1, ModnnStep
  <2>2. CASE ~(x < N)
    <3> DEFINE q == (x - N) \div (N + 1)
               t == (x - N) % (N + 1)
    <3> HIDE DEF N
    <3>1. x - N \in Nat /\ N + 1 \in Nat \ {0}
      BY <1>1, <2>2
    <3>2. q \in Nat /\ t \in Nat /\ x - N = (N + 1) * q + t
      BY <3>1
    <3>3. modnn[x] = modnn[q + t]
      BY <2>2, ModnnStep DEF N
    <3> HIDE DEF q, t
    <3>4. x = (q + t) + N * (q + 1)
      BY <1>1, <3>2
    <3>5. q + t \in 0 .. x - 1
      <4>1. N * (q + 1) \in Nat /\ N * (q + 1) > 0
        BY <1>1, <3>2
      <4> QED BY <3>2, <3>4, <4>1
    <3>6. alpha(x) = alpha(q + t)
      <4>1. q + 1 \in Nat /\ q + t \in Nat
        BY <3>2
      <4> QED BY <3>4, <4>1, AlphaTurns DEF N
    <3> QED BY <1>2, <3>3, <3>5, <3>6
  <2> QED BY <2>1, <2>2
<1>3. Nat \subseteq I
  <2> HIDE DEF I
  <2> QED BY <1>2, StrongSetInduction
<1> QED BY <1>3

-----------------------------------------------------------------------------
(* The laws of the field.                                                  *)

\* Every element but 0 is a power of alpha, and its row of the table shifts by that power.
LEMMA MulRow ==
  ASSUME MulTable
  PROVE  \A x \in Elem \ {0} : \E i \in 0 .. GF_SIZE - 1 :
           x = alpha(i) /\ \A y \in Elem : gf_mul(x, y) = shifts[i][y]
BY AlphaOnto DEF MulTable, gf_mul

LEMMA MulAlpha ==
  ASSUME MulTable
  PROVE  /\ \A n \in Nat, y \in Elem : gf_mul(alpha(n), y) = shifts[n][y]
         /\ \A m, n \in Nat : gf_mul(alpha(m), alpha(n)) = alpha(m + n)
<1>1. ASSUME NEW n \in Nat, NEW y \in Elem PROVE gf_mul(alpha(n), y) = shifts[n][y]
  <2>1. PICK i \in 0 .. GF_SIZE - 1 : alpha(n) = alpha(i)
    BY AlphaCycle, AlphaOnto
  <2>2. gf_mul(alpha(i), y) = shifts[i][y]
    BY DEF MulTable, gf_mul
  <2>3. i \in Nat
    OBVIOUS
  <2> QED BY <2>1, <2>2, <2>3, ShiftsByValue
<1>2. ASSUME NEW m \in Nat, NEW n \in Nat PROVE gf_mul(alpha(m), alpha(n)) = alpha(m + n)
  <2>1. alpha(n) \in Elem /\ alpha(m + n) = shifts[m][alpha(n)]
    BY AlphaCycle
  <2> QED BY <1>1, <2>1
<1> QED BY <1>1, <1>2

LEMMA FieldLaws ==
  ASSUME MulTable
  PROVE  /\ \A x, y \in Elem : gf_mul(x, y) \in Elem /\ gf_mul(x, y) = gf_mul(y, x)
         /\ \A x \in Elem : gf_mul(0, x) = 0 /\ gf_mul(x, 0) = 0 /\ gf_mul(1, x) = x /\ gf_mul(x, 1) = x
         /\ \A x, y, z \in Elem : gf_mul(gf_mul(x, y), z) = gf_mul(x, gf_mul(y, z))
         /\ \A x, y, z \in Elem : gf_mul(x, xor[y][z]) = xor[gf_mul(x, y)][gf_mul(x, z)]
         /\ \A x, y, z \in Elem : gf_mul(xor[x][y], z) = xor[gf_mul(x, z)][gf_mul(y, z)]
         /\ \A x, y \in Elem : gf_mul(x, y) = 0 => x = 0 \/ y = 0
<1>0. 0 \in Elem /\ 1 \in Elem /\ alpha(0) = 1
  BY Sizes, AlphaCycle
<1>1. \A y \in Elem : gf_mul(0, y) = 0
  BY DEF MulTable, gf_mul
<1>2. \A x, y \in Elem : gf_mul(x, y) \in Elem
  BY DEF MulTable, gf_mul
<1>3. \A x \in Elem : gf_mul(x, 0) = 0
  <2> SUFFICES ASSUME NEW x \in Elem PROVE gf_mul(x, 0) = 0
    OBVIOUS
  <2>1. CASE x # 0
    <3>1. PICK i \in 0 .. GF_SIZE - 1 : gf_mul(x, 0) = shifts[i][0]
      BY <1>0, <2>1, MulRow
    <3>2. i \in Nat
      OBVIOUS
    <3> QED BY <3>1, <3>2, ShiftsLinear
  <2> QED BY <1>0, <1>1, <2>1
<1>4. \A x, y \in Elem : gf_mul(x, y) = gf_mul(y, x)
  <2> SUFFICES ASSUME NEW x \in Elem, NEW y \in Elem PROVE gf_mul(x, y) = gf_mul(y, x)
    OBVIOUS
  <2>1. CASE x # 0 /\ y # 0
    <3>1. PICK i \in 0 .. GF_SIZE - 1 : x = alpha(i)
      BY <2>1, AlphaOnto
    <3>2. PICK j \in 0 .. GF_SIZE - 1 : y = alpha(j)
      BY <2>1, AlphaOnto
    <3>3. i \in Nat /\ j \in Nat /\ i + j = j + i
      OBVIOUS
    <3>4. gf_mul(x, y) = alpha(i + j) /\ gf_mul(y, x) = alpha(j + i)
      BY <3>1, <3>2, <3>3, MulAlpha
    <3> QED BY <3>3, <3>4
  <2> QED BY <1>1, <1>3, <2>1
<1>5. \A x \in Elem : gf_mul(1, x) = x
  <2> SUFFICES ASSUME NEW x \in Elem PROVE gf_mul(1, x) = x
    OBVIOUS
  <2>1. gf_mul(alpha(0), x) = shifts[0][x]
    BY MulAlpha
  <2> QED BY <1>0, <2>1, ShiftsStep
<1>6. \A x, y, z \in Elem : gf_mul(gf_mul(x, y), z) = gf_mul(x, gf_mul(y, z))
  <2> SUFFICES ASSUME NEW x \in Elem, NEW y \in Elem, NEW z \in Elem
               PROVE  gf_mul(gf_mul(x, y), z) = gf_mul(x, gf_mul(y, z))
    OBVIOUS
  <2>1. CASE x # 0 /\ y # 0
    <3>1. PICK i \in 0 .. GF_SIZE - 1 : x = alpha(i)
      BY <2>1, AlphaOnto
    <3>2. PICK j \in 0 .. GF_SIZE - 1 : y = alpha(j)
      BY <2>1, AlphaOnto
    <3>3. i \in Nat /\ j \in Nat /\ i + j \in Nat
      OBVIOUS
    <3>4. gf_mul(x, y) = alpha(i + j)
      BY <3>1, <3>2, <3>3, MulAlpha
    <3>5. gf_mul(gf_mul(x, y), z) = shifts[i + j][z]
      BY <3>3, <3>4, MulAlpha
    <3>6. gf_mul(y, z) = shifts[j][z]
      BY <3>2, <3>3, MulAlpha
    <3>7. gf_mul(x, gf_mul(y, z)) = shifts[i][shifts[j][z]]
      BY <1>2, <3>1, <3>3, <3>6, MulAlpha
    <3> QED BY <3>3, <3>5, <3>7, ShiftsAdd
  <2>2. CASE x = 0
    BY <1>0, <1>1, <1>2, <2>2
  <2>3. CASE y = 0
    <3>1. gf_mul(x, y) = 0 /\ gf_mul(y, z) = 0 /\ gf_mul(0, z) = 0
      BY <1>1, <1>3, <2>3
    <3> QED BY <1>3, <3>1
  <2> QED BY <2>1, <2>2, <2>3
<1>7. \A x, y, z \in Elem : gf_mul(x, xor[y][z]) = xor[gf_mul(x, y)][gf_mul(x, z)]
  <2> SUFFICES ASSUME NEW x \in Elem, NEW y \in Elem, NEW z \in Elem
               PROVE  gf_mul(x, xor[y][z]) = xor[gf_mul(x, y)][gf_mul(x, z)]
    OBVIOUS
  <2>0. xor[y][z] \in Elem
    BY XorLaws
  <2>1. CASE x # 0
    <3>1. PICK i \in 0 .. GF_SIZE - 1 : x = alpha(i)
      BY <2>1, AlphaOnto
    <3>2. i \in Nat
      OBVIOUS
    <3>3. \A v \in Elem : gf_mul(x, v) = shifts[i][v]
      BY <3>1, <3>2, MulAlpha
    <3>4. shifts[i][xor[y][z]] = xor[shifts[i][y]][shifts[i][z]]
      BY <3>2, ShiftsLinear
    <3> QED BY <2>0, <3>3, <3>4
  <2>2. CASE x = 0
    <3>1. xor[0][0] = 0
      BY <1>0, XorLaws
    <3> QED BY <1>1, <2>0, <2>2, <3>1
  <2> QED BY <2>1, <2>2
<1>8. \A x, y, z \in Elem : gf_mul(xor[x][y], z) = xor[gf_mul(x, z)][gf_mul(y, z)]
  <2> SUFFICES ASSUME NEW x \in Elem, NEW y \in Elem, NEW z \in Elem
               PROVE  gf_mul(xor[x][y], z) = xor[gf_mul(x, z)][gf_mul(y, z)]
    OBVIOUS
  <2>1. xor[x][y] \in Elem
    BY XorLaws
  <2>2. gf_mul(xor[x][y], z) = gf_mul(z, xor[x][y])
    BY <1>4, <2>1
  <2> QED BY <1>4, <1>7, <2>2
<1>9. \A x, y \in Elem : gf_mul(x, y) = 0 => x = 0 \/ y = 0
  <2> SUFFICES ASSUME NEW x \in Elem, NEW y \in Elem, x # 0, y # 0 PROVE gf_mul(x, y) # 0
    OBVIOUS
  <2>1. PICK i \in 0 .. GF_SIZE - 1 : x = alpha(i)
    BY AlphaOnto
  <2>2. PICK j \in 0 .. GF_SIZE - 1 : y = alpha(j)
    BY AlphaOnto
  <2>3. i \in Nat /\ j \in Nat /\ i + j \in Nat
    OBVIOUS
  <2>4. gf_mul(x, y) = alpha(i + j)
    BY <2>1, <2>2, <2>3, MulAlpha
  <2> QED BY <2>3, <2>4, AlphaCycle
<1>10. \A x \in Elem : gf_mul(x, 1) = x
  BY <1>0, <1>4, <1>5
<1> QED BY <1>1, <1>2, <1>3, <1>4, <1>5, <1>6, <1>7, <1>8, <1>9, <1>10

-----------------------------------------------------------------------------
(* The table against polynomial multiplication.                            *)

LEMMA HalfQuotient ==
  ASSUME NEW b \in Nat \ {0}, NEW y \in Nat
  PROVE  y \div b \in Nat /\ y \div (2 * b) = (y \div b) \div 2
OBVIOUS

LEMMA TableIsProduct ==
  ASSUME MulTable, NEW x \in Elem, NEW y \in Elem
  PROVE  gf_mul_table[x][y] = Product(x, y)
<1> DEFINE Def(f) == [j \in 0 .. GF_BITS |->
                       IF j = 0 THEN 0
                       ELSE LET shifted == TimesAlpha(f[j - 1])
                            IN IF (y \div bit[GF_BITS - j]) % 2 = 1 THEN xor[shifted][x] ELSE shifted]
           z(j) == y \div bit[GF_BITS - j]
           f == [j \in 0 .. GF_BITS |-> gf_mul(x, z(j))]
<1>1. GF_BITS \in 2 .. 16 /\ y \in Nat /\ 0 \in Elem /\ 1 \in Elem /\ HighBit \in Nat /\ HighBit >= 2
  BY Sizes
<1>2. z(0) = 0
  <2>1. y < bit[GF_BITS] /\ bit[GF_BITS] \in Nat /\ GF_BITS - 0 = GF_BITS
    BY <1>1, Sizes
  <2> HIDE <1>1
  <2>2. y \div bit[GF_BITS] = 0
    BY <1>1, <2>1
  <2> QED BY <2>1, <2>2
<1>3. \A j \in 1 .. GF_BITS : z(j) \in Nat /\ z(j - 1) = z(j) \div 2
  <2> SUFFICES ASSUME NEW j \in 1 .. GF_BITS PROVE z(j) \in Nat /\ z(j - 1) = z(j) \div 2
    OBVIOUS
  <2>1. GF_BITS - j \in 0 .. GF_BITS /\ GF_BITS - j < GF_BITS /\ GF_BITS - j + 1 = GF_BITS - (j - 1)
    BY <1>1
  <2>2. bit[GF_BITS - j] \in Nat \ {0} /\ bit[GF_BITS - (j - 1)] = 2 * bit[GF_BITS - j]
    BY <2>1, BitsBelow
  <2> QED BY <1>1, <2>2, HalfQuotient
<1>4. bit[0] = 1 /\ z(GF_BITS) = y
  BY <1>1, BitStep
<1> HIDE DEF z
<1>5. \A j \in 0 .. GF_BITS : z(j) \in Elem
  <2> DEFINE I == {n \in Nat : n <= GF_BITS => z(GF_BITS - n) \in Elem}
  <2>1. 0 \in I
    BY <1>1, <1>4
  <2>2. ASSUME NEW n \in Nat, n \in I PROVE n + 1 \in I
    <3> SUFFICES ASSUME n + 1 <= GF_BITS PROVE z(GF_BITS - (n + 1)) \in Elem
      OBVIOUS
    <3>1. GF_BITS - n \in 1 .. GF_BITS /\ GF_BITS - n - 1 = GF_BITS - (n + 1) /\ n <= GF_BITS
      BY <1>1
    <3>2. z(GF_BITS - n) \in Elem /\ z(GF_BITS - (n + 1)) = z(GF_BITS - n) \div 2
      BY <1>3, <2>2, <3>1
    <3> QED BY <3>2, Halves
  <2>3. Nat \subseteq I
    <3> HIDE DEF I
    <3> QED BY <2>1, <2>2, SetInduction
  <2>4. ASSUME NEW j \in 0 .. GF_BITS PROVE z(j) \in Elem
    <3>1. GF_BITS - j \in I /\ GF_BITS - (GF_BITS - j) = j /\ GF_BITS - j <= GF_BITS
      BY <1>1, <2>3
    <3> QED BY <3>1
  <2> QED BY <2>4
<1>6. ASSUME NEW a \in Elem, NEW h \in Elem, h = a \div 2
      PROVE  gf_mul(x, a) = IF a % 2 = 1 THEN xor[TimesAlpha(gf_mul(x, h))][x] ELSE TimesAlpha(gf_mul(x, h))
  <2>1. a = 2 * h + (a % 2) /\ a % 2 \in {0, 1} /\ a \in Nat /\ h \in Nat
    BY <1>6, Halves
  <2>2. h < HighBit /\ 2 * h \in Elem
    BY <2>1, Sizes
  <2>3. TimesAlpha(h) = 2 * h
    BY <1>1, <2>1, <2>2 DEF TimesAlpha
  <2>4. \A v \in Elem : gf_mul(x, TimesAlpha(v)) = TimesAlpha(gf_mul(x, v))
    <3> SUFFICES ASSUME NEW v \in Elem PROVE gf_mul(x, TimesAlpha(v)) = TimesAlpha(gf_mul(x, v))
      OBVIOUS
    <3>0. TimesAlpha(v) \in Elem
      BY TimesAlphaLinear
    <3>1. CASE x = 0
      BY <3>0, <3>1, FieldLaws, TimesAlphaLinear
    <3>2. CASE x # 0
      <4>1. PICK i \in 0 .. GF_SIZE - 1 : \A u \in Elem : gf_mul(x, u) = shifts[i][u]
        BY <3>2, MulRow
      <4>2. i \in Nat /\ \A u \in Elem : shifts[1][u] = TimesAlpha(u)
        <5>1. \A u \in Elem : shifts[0 + 1][u] = TimesAlpha(shifts[0][u]) /\ shifts[0][u] = u
          BY ShiftsStep
        <5> QED BY <5>1
      <4>3. shifts[i][shifts[1][v]] = shifts[1][shifts[i][v]] /\ shifts[i][v] \in Elem
        BY <4>2, ShiftsCommute, ShiftsStep
      <4> QED BY <3>0, <4>1, <4>2, <4>3
    <3> QED BY <3>1, <3>2
  <2>5. gf_mul(x, 2 * h) = TimesAlpha(gf_mul(x, h))
    BY <2>3, <2>4
  <2>6. CASE a % 2 = 0
    BY <2>1, <2>5, <2>6
  <2>7. CASE a % 2 = 1
    <3>1. a = xor[2 * h][1]
      BY <1>1, <2>1, <2>2, <2>7, XorHalves
    <3>2. gf_mul(x, xor[2 * h][1]) = xor[gf_mul(x, 2 * h)][gf_mul(x, 1)] /\ gf_mul(x, 1) = x
      BY <1>1, <2>2, FieldLaws
    <3> QED BY <2>5, <2>7, <3>1, <3>2
  <2> QED BY <2>1, <2>6, <2>7
<1>7. f = Def(f)
  <2>1. ASSUME NEW j \in 0 .. GF_BITS PROVE f[j] = Def(f)[j]
    <3>1. CASE j = 0
      BY <1>2, <3>1, FieldLaws
    <3>2. CASE j # 0
      <4>1. j \in 1 .. GF_BITS /\ j - 1 \in 0 .. GF_BITS
        BY <1>1, <3>2
      <4>2. z(j) \in Elem /\ z(j - 1) \in Elem /\ z(j - 1) = z(j) \div 2
        BY <1>3, <1>5, <4>1
      <4>3. gf_mul(x, z(j)) = IF z(j) % 2 = 1 THEN xor[TimesAlpha(gf_mul(x, z(j - 1)))][x]
                              ELSE TimesAlpha(gf_mul(x, z(j - 1)))
        BY <1>6, <4>2
      <4>4. f[j - 1] = gf_mul(x, z(j - 1)) /\ f[j] = gf_mul(x, z(j))
        BY <4>1
      <4>5. Def(f)[j] = IF z(j) % 2 = 1 THEN xor[TimesAlpha(f[j - 1])][x] ELSE TimesAlpha(f[j - 1])
        <5> HIDE DEF f
        <5> QED BY <3>2 DEF z
      <4> HIDE DEF f, Def
      <4> QED BY <4>3, <4>4, <4>5
    <3> QED BY <3>1, <3>2
  <2> HIDE DEF z
  <2>2. f = [j \in 0 .. GF_BITS |-> f[j]]
    OBVIOUS
  <2>3. Def(f) = [j \in 0 .. GF_BITS |-> Def(f)[j]]
    <3> HIDE DEF f
    <3> QED OBVIOUS
  <2> HIDE DEF f, Def
  <2> QED BY <2>1, <2>2, <2>3
<1> HIDE DEF f
<1> DEFINE h == CHOOSE g : g = Def(g)
<1>8. h = Def(h)
  <2> HIDE DEF Def
  <2> QED BY <1>7
<1>9. \A j \in 0 .. GF_BITS : h[j] = f[j]
  <2> DEFINE I == {n \in Nat : n <= GF_BITS => h[n] = f[n]}
  <2>0. \A g, j : j \in 0 .. GF_BITS =>
          Def(g)[j] = IF j = 0 THEN 0
                      ELSE LET shifted == TimesAlpha(g[j - 1])
                           IN IF (y \div bit[GF_BITS - j]) % 2 = 1 THEN xor[shifted][x] ELSE shifted
    OBVIOUS
  <2> HIDE DEF h, Def
  <2>1. ASSUME NEW j \in 0 .. GF_BITS PROVE Def(h)[j] = h[j] /\ Def(f)[j] = f[j]
    BY <1>7, <1>8
  <2>2. 0 \in I
    <3>1. 0 \in 0 .. GF_BITS
      BY <1>1
    <3> HIDE <1>7, <1>8
    <3>2. Def(h)[0] = 0 /\ Def(f)[0] = 0
      BY <2>0, <3>1
    <3> QED BY <2>1, <3>1, <3>2
  <2>3. ASSUME NEW n \in Nat, n \in I PROVE n + 1 \in I
    <3> SUFFICES ASSUME n + 1 <= GF_BITS PROVE h[n + 1] = f[n + 1]
      OBVIOUS
    <3>1. n + 1 \in 0 .. GF_BITS /\ n + 1 # 0 /\ n + 1 - 1 = n /\ h[n] = f[n]
      BY <1>1, <2>3
    <3> HIDE <1>7, <1>8
    <3>2. Def(h)[n + 1] = Def(f)[n + 1]
      BY <2>0, <3>1
    <3> QED BY <2>1, <3>1, <3>2
  <2>4. Nat \subseteq I
    <3> HIDE DEF I
    <3> QED BY <2>2, <2>3, SetInduction
  <2> QED BY <2>4
<1>10. Product(x, y) = h[GF_BITS]
  BY DEF Product
<1>11. f[GF_BITS] = gf_mul(x, y)
  BY <1>1, <1>4 DEF f
<1>12. GF_BITS \in 0 .. GF_BITS
  BY <1>1
<1> HIDE DEF h, Def
<1>13. Product(x, y) = gf_mul(x, y)
  BY <1>9, <1>10, <1>11, <1>12
<1> QED BY <1>13 DEF gf_mul

-----------------------------------------------------------------------------
(* The steps that fill the tables, taken by one sender alone.              *)

LEMMA LowPowersAreBits ==
  /\ GF_BITS < GF_SIZE
  /\ \A i \in 0 .. GF_BITS - 1 : alpha(i) = bit[i]
  /\ alpha(GF_BITS) = terms[GF_BITS]
<1>1. GF_BITS \in 2 .. 16 /\ 0 \in Elem /\ 1 \in Elem /\ HighBit \in Nat
  BY Sizes
<1>2. GF_BITS < GF_SIZE
  <2> DEFINE I == {n \in Nat : n <= 14 => bit[n + 2] >= n + 4}
  <2>1. 0 \in I
    <3>1. 0 \in 0 .. 15 /\ 1 \in 0 .. 15
      OBVIOUS
    <3> HIDE <1>1
    <3>2. bit[0 + 1] = 2 * bit[0] /\ bit[1 + 1] = 2 * bit[1] /\ bit[0] = 1
      BY <3>1, BitStep
    <3> QED BY <3>2
  <2>2. ASSUME NEW n \in Nat, n \in I PROVE n + 1 \in I
    <3> SUFFICES ASSUME n + 1 <= 14 PROVE bit[n + 1 + 2] >= n + 1 + 4
      OBVIOUS
    <3>1. n + 2 \in 0 .. 15 /\ n + 1 + 2 = n + 2 + 1 /\ n + 2 \in 0 .. 16
      OBVIOUS
    <3>2. bit[n + 2 + 1] = 2 * bit[n + 2] /\ bit[n + 2] \in Nat
      BY <3>1, BitStep
    <3> QED BY <2>2, <3>1, <3>2
  <2>3. Nat \subseteq I
    <3> HIDE DEF I
    <3> QED BY <2>1, <2>2, SetInduction
  <2>4. GF_BITS - 2 \in I /\ GF_BITS - 2 + 2 = GF_BITS /\ GF_BITS - 2 <= 14
    BY <1>1, <2>3
  <2>5. bit[GF_BITS] >= GF_BITS - 2 + 4
    BY <2>4
  <2> QED BY <1>1, <2>5, Sizes
<1>3. \A i \in 0 .. GF_BITS - 1 : alpha(i) = bit[i]
  <2> DEFINE I == {i \in Nat : i <= GF_BITS - 1 => alpha(i) = bit[i]}
  <2>1. 0 \in I
    BY AlphaCycle, BitStep
  <2>2. ASSUME NEW i \in Nat, i \in I PROVE i + 1 \in I
    <3> SUFFICES ASSUME i + 1 <= GF_BITS - 1 PROVE alpha(i + 1) = bit[i + 1]
      OBVIOUS
    <3>1. i \in 0 .. GF_BITS /\ i < GF_BITS /\ i + 1 \in 0 .. GF_BITS /\ i + 1 < GF_BITS /\ i <= GF_BITS - 1
      BY <1>1
    <3>2. bit[i + 1] = 2 * bit[i] /\ bit[i] \in Elem /\ bit[i] \in Nat \ {0} /\ bit[i + 1] <= HighBit
      BY <3>1, BitsBelow
    <3>3. TimesAlpha(bit[i]) = 2 * bit[i]
      BY <1>1, <3>2 DEF TimesAlpha
    <3>4. alpha(i + 1) = TimesAlpha(alpha(i))
      BY <1>1, ShiftsStep DEF alpha
    <3> QED BY <2>2, <3>1, <3>2, <3>3, <3>4
  <2>3. Nat \subseteq I
    <3> HIDE DEF I
    <3> QED BY <2>1, <2>2, SetInduction
  <2> QED BY <2>3
<1>4. alpha(GF_BITS) = terms[GF_BITS]
  <2>1. GF_BITS - 1 \in Nat /\ GF_BITS - 1 \in 0 .. GF_BITS - 1 /\ GF_BITS - 1 + 1 = GF_BITS
    BY <1>1
  <2>2. alpha(GF_BITS) = TimesAlpha(alpha(GF_BITS - 1))
    BY <1>1, <2>1, ShiftsStep DEF alpha
  <2>3. alpha(GF_BITS - 1) = HighBit
    BY <1>3, <2>1 DEF HighBit
  <2>4. TimesAlpha(HighBit) = xor[0][Reduction]
    BY <1>1 DEF TimesAlpha
  <2>5. Reduction \in Elem /\ Reduction = terms[GF_BITS]
    <3>1. GF_BITS \in 0 .. GF_BITS
      BY <1>1
    <3> QED BY <3>1, TermsStep DEF Reduction
  <2> QED BY <2>2, <2>3, <2>4, <2>5, XorLaws
<1> QED BY <1>2, <1>3, <1>4

TableTypes ==
  /\ gf_exp \in [0 .. 2 * GF_SIZE - 1 -> Elem] /\ gf_log \in [Elem -> Nat]
  /\ inverse \in [Elem -> Elem]
  /\ gf_pc \in [Senders -> {"idle", "clear", "low", "high", "mul", "ready"}]
  /\ gf_i \in [Senders -> Nat]
  /\ fec_initialized \in BOOLEAN

\* The powers below i are in place.
Filled(i) == \A j \in 0 .. i - 1 : gf_exp[j] = alpha(j) /\ gf_log[alpha(j)] = j
Inverted == inverse[1] = 1 /\ \A j \in 1 .. GF_SIZE - 1 : inverse[alpha(j)] = alpha(GF_SIZE - j)
FieldReady == ExpTable /\ MulTable /\ InverseTable

\* The tables while only s fills them.
AloneInv(s) ==
  /\ TableTypes
  /\ fec_initialized <=> gf_pc[s] = "ready"
  /\ gf_pc[s] = "low" => gf_i[s] \in 0 .. GF_BITS /\ Filled(gf_i[s]) /\ gf_exp[GF_BITS] = terms[gf_i[s]]
  /\ gf_pc[s] = "high" => gf_i[s] \in GF_BITS + 1 .. GF_SIZE /\ Filled(gf_i[s])
  /\ gf_pc[s] = "mul" => ExpTable /\ LogTable /\ Inverted
  /\ gf_pc[s] = "ready" => FieldReady

LEMMA AloneInit == ASSUME NEW s \in Senders, GFInit PROVE AloneInv(s)
BY Sizes DEF GFInit, AloneInv, TableTypes

\* Writing the power i leaves the earlier ones alone.
LEMMA FillOne ==
  ASSUME NEW i \in 0 .. GF_SIZE - 1, TableTypes, Filled(i),
         gf_exp' \in [0 .. 2 * GF_SIZE - 1 -> Elem], gf_exp'[i] = alpha(i),
         \A j \in 0 .. i - 1 : gf_exp'[j] = gf_exp[j],
         gf_log' = [gf_log EXCEPT ![alpha(i)] = i]
  PROVE  Filled(i + 1)' /\ gf_log' \in [Elem -> Nat]
<1>1. GF_SIZE \in Nat /\ i \in Nat
  BY Sizes
<1>2. gf_log \in [Elem -> Nat] /\ \A j \in 0 .. i : alpha(j) \in Elem
  BY <1>1, AlphaElem DEF TableTypes
<1>3. gf_log' \in [Elem -> Nat]
  BY <1>1, <1>2
<1>4. ASSUME NEW j \in 0 .. i PROVE gf_exp'[j] = alpha(j) /\ gf_log'[alpha(j)] = j
  <2>1. CASE j = i
    BY <1>2, <2>1
  <2>2. CASE j # i
    <3>1. j \in 0 .. i - 1 /\ j \in 0 .. GF_SIZE - 1
      BY <1>1, <2>2
    <3>2. alpha(j) # alpha(i)
      BY <2>2, <3>1, AlphaCycle
    <3> QED BY <1>2, <3>1, <3>2 DEF Filled
  <2> QED BY <2>1, <2>2
<1>5. 0 .. i + 1 - 1 = 0 .. i
  BY <1>1
<1> QED BY <1>3, <1>4, <1>5 DEF Filled, alpha

LEMMA AloneCheck == ASSUME NEW s \in Senders, AloneInv(s), CheckInitialized(s) PROVE AloneInv(s)'
<1>1. gf_pc[s] = "idle" /\ ~fec_initialized
  BY DEF AloneInv, CheckInitialized
<1>2. gf_pc'[s] = "clear" /\ gf_pc' \in [Senders -> {"idle", "clear", "low", "high", "mul", "ready"}]
  BY <1>1 DEF CheckInitialized, AloneInv, TableTypes
<1>3. TableTypes' /\ ~fec_initialized'
  BY <1>1, <1>2 DEF CheckInitialized, AloneInv, TableTypes, tables
<1> QED BY <1>2, <1>3 DEF AloneInv

LEMMA AloneClear == ASSUME NEW s \in Senders, AloneInv(s), ClearTop(s) PROVE AloneInv(s)'
<1>1. GF_BITS \in 0 .. 2 * GF_SIZE - 1 /\ 0 \in Elem /\ GF_BITS \in 2 .. 16
  BY Sizes, LowPowersAreBits
<1>2. gf_pc'[s] = "low" /\ gf_i'[s] = 0 /\ gf_exp'[GF_BITS] = 0 /\ ~fec_initialized'
  BY <1>1 DEF AloneInv, TableTypes, ClearTop
<1>3. TableTypes'
  BY <1>1 DEF AloneInv, TableTypes, ClearTop
<1>4. Filled(0)' /\ terms[0] = 0
  BY TermsStep DEF Filled
<1> QED BY <1>1, <1>2, <1>3, <1>4 DEF AloneInv, Filled

LEMMA AloneLow == ASSUME NEW s \in Senders, AloneInv(s), LowPower(s) PROVE AloneInv(s)'
<1> PICK i : i = gf_i[s]
  OBVIOUS
<1> DEFINE top == IF i \in Pp THEN xor[gf_exp[GF_BITS]][bit[i]] ELSE gf_exp[GF_BITS]
<1>1. GF_BITS \in 0 .. 2 * GF_SIZE - 1 /\ GF_BITS \in 2 .. 16 /\ GF_BITS < GF_SIZE /\ GF_SIZE \in Nat
  BY Sizes, LowPowersAreBits
<1>2. /\ i \in 0 .. GF_BITS - 1 /\ i \in 0 .. GF_SIZE - 1 /\ i \in 0 .. 2 * GF_SIZE - 1 /\ i # GF_BITS
      /\ Filled(i) /\ gf_exp[GF_BITS] = terms[i] /\ TableTypes /\ ~fec_initialized
  BY <1>1 DEF AloneInv, LowPower
<1>3. gf_exp \in [0 .. 2 * GF_SIZE - 1 -> Elem] /\ gf_i \in [Senders -> Nat]
  BY <1>2 DEF TableTypes
<1>4. bit[i] = alpha(i) /\ bit[i] \in Elem
  BY <1>1, <1>2, LowPowersAreBits, BitsBelow
<1>5. top \in Elem /\ top = terms[i + 1]
  BY <1>1, <1>2, <1>3, <1>4, XorLaws, TermsStep
<1>6. gf_exp' = [gf_exp EXCEPT ![i] = bit[i], ![GF_BITS] = top]
  BY <1>1, <1>2, <1>3 DEF LowPower
<1> HIDE DEF top
<1>7. /\ gf_exp' \in [0 .. 2 * GF_SIZE - 1 -> Elem] /\ gf_exp'[i] = alpha(i) /\ gf_exp'[GF_BITS] = terms[i + 1]
      /\ \A j \in 0 .. i - 1 : gf_exp'[j] = gf_exp[j]
  <2>1. alpha(i) \in Elem
    BY <1>4
  <2>2. GF_BITS \notin 0 .. i - 1 /\ i \notin 0 .. i - 1 /\ \A j \in 0 .. i - 1 : j \in 0 .. 2 * GF_SIZE - 1
    BY <1>1, <1>2
  <2>3. gf_exp' \in [0 .. 2 * GF_SIZE - 1 -> Elem]
    BY <1>3, <1>4, <1>5, <1>6
  <2>4. gf_exp'[i] = bit[i] /\ gf_exp'[GF_BITS] = top
    BY <1>1, <1>2, <1>3, <1>6
  <2>5. ASSUME NEW j \in 0 .. i - 1 PROVE gf_exp'[j] = gf_exp[j]
    <3>1. j # i /\ j # GF_BITS /\ j \in 0 .. 2 * GF_SIZE - 1
      BY <2>2
    <3> QED BY <1>3, <1>6, <3>1
  <2> QED BY <1>4, <1>5, <2>3, <2>4, <2>5
<1>8. gf_log' = [gf_log EXCEPT ![alpha(i)] = i]
  BY <1>4 DEF LowPower
<1>9. Filled(i + 1)' /\ gf_log' \in [Elem -> Nat]
  BY <1>2, <1>7, <1>8, FillOne
<1>10. gf_i'[s] = i + 1 /\ gf_i' \in [Senders -> Nat]
  BY <1>2, <1>3 DEF LowPower
<1>11. TableTypes'
  BY <1>2, <1>7, <1>9, <1>10 DEF TableTypes, LowPower
<1>12. gf_pc'[s] = "low" /\ ~fec_initialized'
  BY <1>2 DEF LowPower
<1>13. (gf_i[s] + 1)' = gf_i'[s] + 1 /\ Filled(gf_i[s])' /\ gf_i'[s] \in 0 .. GF_BITS
  BY <1>1, <1>2, <1>9, <1>10 DEF Filled
<1> QED BY <1>7, <1>10, <1>11, <1>12, <1>13 DEF AloneInv

LEMMA AloneTop == ASSUME NEW s \in Senders, AloneInv(s), TopLog(s) PROVE AloneInv(s)'
<1>1. GF_BITS \in 2 .. 16 /\ GF_BITS < GF_SIZE /\ GF_SIZE \in Nat /\ GF_BITS \in 0 .. GF_SIZE - 1
  BY Sizes, LowPowersAreBits
<1>2. Filled(GF_BITS) /\ gf_exp[GF_BITS] = alpha(GF_BITS) /\ TableTypes /\ ~fec_initialized
  BY LowPowersAreBits DEF AloneInv, TopLog
<1>3. gf_log' = [gf_log EXCEPT ![alpha(GF_BITS)] = GF_BITS] /\ gf_exp' = gf_exp
  BY <1>2 DEF TopLog
<1>4. gf_exp' \in [0 .. 2 * GF_SIZE - 1 -> Elem]
  BY <1>2, <1>3 DEF TableTypes
<1>5. Filled(GF_BITS + 1)' /\ gf_log' \in [Elem -> Nat]
  BY <1>1, <1>2, <1>3, <1>4, FillOne
<1>6. gf_i'[s] = GF_BITS + 1 /\ gf_i' \in [Senders -> Nat] /\ gf_pc'[s] = "high"
      /\ gf_pc' \in [Senders -> {"idle", "clear", "low", "high", "mul", "ready"}] /\ ~fec_initialized'
  BY <1>1, <1>2 DEF TopLog, TableTypes
<1>7. TableTypes'
  BY <1>2, <1>4, <1>5, <1>6 DEF TableTypes, TopLog
<1>8. Filled(gf_i[s])' /\ gf_i'[s] \in GF_BITS + 1 .. GF_SIZE
  BY <1>1, <1>5, <1>6 DEF Filled
<1> QED BY <1>6, <1>7, <1>8 DEF AloneInv

LEMMA AloneHigh == ASSUME NEW s \in Senders, AloneInv(s), HighPower(s) PROVE AloneInv(s)'
<1> PICK i : i = gf_i[s]
  OBVIOUS
<1> DEFINE next == Shifted(gf_exp[i - 1], gf_exp[GF_BITS])
<1>1. GF_BITS \in 2 .. 16 /\ GF_BITS < GF_SIZE /\ GF_SIZE \in Nat /\ HighBit \in Nat
  BY Sizes, LowPowersAreBits
<1>2. /\ i \in GF_BITS + 1 .. GF_SIZE - 1 /\ i \in 0 .. GF_SIZE - 1 /\ i \in 0 .. 2 * GF_SIZE - 1
      /\ i - 1 \in 0 .. i - 1 /\ i - 1 \in Nat /\ GF_BITS \in 0 .. i - 1
      /\ Filled(i) /\ TableTypes /\ ~fec_initialized
  BY <1>1 DEF AloneInv, HighPower
<1>3. gf_exp \in [0 .. 2 * GF_SIZE - 1 -> Elem] /\ gf_i \in [Senders -> Nat]
  BY <1>2 DEF TableTypes
<1>4. gf_exp[i - 1] = alpha(i - 1) /\ gf_exp[GF_BITS] = Reduction
  <2>1. gf_exp[i - 1] = alpha(i - 1) /\ gf_exp[GF_BITS] = alpha(GF_BITS)
    BY <1>2 DEF Filled
  <2> QED BY <2>1, LowPowersAreBits DEF Reduction
<1>5. next = alpha(i)
  <2>1. Reduction \in Elem /\ alpha(i - 1) \in Elem /\ i - 1 + 1 = i
    <3>1. GF_BITS \in 0 .. GF_BITS
      BY <1>1
    <3>2. Reduction \in Elem
      BY <3>1, TermsStep DEF Reduction
    <3>3. alpha(i - 1) \in Elem
      BY <1>2, AlphaElem
    <3> QED BY <1>1, <1>2, <3>2, <3>3
  <2>2. alpha(i) = TimesAlpha(alpha(i - 1))
    <3>1. alpha(i - 1 + 1) = TimesAlpha(alpha(i - 1))
      BY <1>2, Sizes, ShiftsStep DEF alpha
    <3> QED BY <2>1, <3>1
  <2> DEFINE v == alpha(i - 1)
  <2>3. next = IF v >= HighBit THEN xor[Reduction][2 * (v - HighBit)] ELSE 2 * v
    BY <1>4 DEF Shifted
  <2>4. TimesAlpha(v) = IF v >= HighBit THEN xor[2 * (v - HighBit)][Reduction] ELSE 2 * v
    BY DEF TimesAlpha
  <2> HIDE DEF v, next
  <2>5. v \in Elem /\ (v >= HighBit => 2 * (v - HighBit) \in Elem)
    BY <2>1, Sizes DEF v
  <2>6. v >= HighBit => xor[Reduction][2 * (v - HighBit)] = xor[2 * (v - HighBit)][Reduction]
    BY <2>1, <2>5, XorLaws
  <2>7. next = TimesAlpha(v)
    BY <2>3, <2>4, <2>6
  <2> QED BY <2>2, <2>7 DEF v
<1>6. gf_exp' = [gf_exp EXCEPT ![i] = alpha(i)] /\ gf_log' = [gf_log EXCEPT ![alpha(i)] = i]
  BY <1>5 DEF HighPower
<1> HIDE DEF next
<1>7. /\ gf_exp' \in [0 .. 2 * GF_SIZE - 1 -> Elem] /\ gf_exp'[i] = alpha(i)
      /\ \A j \in 0 .. i - 1 : gf_exp'[j] = gf_exp[j]
  <2>1. alpha(i) \in Elem
    BY <1>1, <1>2, AlphaElem
  <2> QED BY <1>1, <1>2, <1>3, <1>6, <2>1
<1>8. Filled(i + 1)' /\ gf_log' \in [Elem -> Nat]
  BY <1>2, <1>6, <1>7, FillOne
<1>9. gf_i'[s] = i + 1 /\ gf_i' \in [Senders -> Nat]
  BY <1>1, <1>2, <1>3 DEF HighPower
<1>10. TableTypes'
  BY <1>2, <1>7, <1>8, <1>9 DEF TableTypes, HighPower
<1>11. gf_pc'[s] = "high" /\ ~fec_initialized'
  BY <1>2 DEF HighPower
<1>12. Filled(gf_i[s])' /\ gf_i'[s] \in GF_BITS + 1 .. GF_SIZE
  BY <1>1, <1>2, <1>8, <1>9 DEF Filled
<1> QED BY <1>9, <1>10, <1>11, <1>12 DEF AloneInv

LEMMA AloneExtend == ASSUME NEW s \in Senders, AloneInv(s), Extend(s) PROVE AloneInv(s)'
<1> DEFINE N == GF_SIZE
<1>1. N \in Nat /\ N >= 3 /\ 0 \in Elem /\ 1 \in Elem
  BY Sizes
<1> HIDE DEF N
<1>2. Filled(N) /\ TableTypes /\ ~fec_initialized
  <2>1. gf_i[s] = N
    BY <1>1 DEF AloneInv, Extend, N, TableTypes
  <2> QED BY <2>1 DEF AloneInv, Extend
<1>3. gf_exp \in [0 .. 2 * N - 1 -> Elem] /\ gf_log \in [Elem -> Nat]
  BY <1>2 DEF TableTypes, N
<1>4. ASSUME NEW i \in 0 .. 2 * N - 1 PROVE gf_exp'[i] = alpha(i)
  <2>0. gf_exp'[i] = gf_exp[i % N]
    BY <1>3 DEF Extend, N
  <2>1. CASE i < N
    <3>1. i % N = i /\ i \in 0 .. N - 1
      BY <1>1, <2>1
    <3> QED BY <1>2, <2>0, <3>1 DEF Filled
  <2>2. CASE i >= N
    <3>1. i - N \in 0 .. N - 1 /\ i = N * 1 + (i - N) /\ N \in Nat \ {0} /\ 1 \in Nat /\ i - N + N = i
      BY <1>1, <2>2
    <3>2. (N * 1 + (i - N)) % N = i - N
      BY <3>1, Remainder
    <3>3. gf_exp'[i] = alpha(i - N)
      BY <1>2, <2>0, <3>1, <3>2 DEF Filled
    <3>4. alpha(i - N + N) = alpha(i - N)
      <4>1. i - N \in Nat
        BY <3>1
      <4> QED BY <4>1, AlphaCycle DEF N
    <3> QED BY <3>1, <3>3, <3>4
  <2> QED BY <1>1, <2>1, <2>2
<1>5. DOMAIN gf_exp' = 0 .. 2 * N - 1 /\ gf_exp' = [i \in DOMAIN gf_exp |-> gf_exp[i % GF_SIZE]]
  BY <1>3 DEF Extend
<1>6. gf_exp' \in [0 .. 2 * N - 1 -> Elem]
  <2>1. \A i \in 0 .. 2 * N - 1 : gf_exp'[i] \in Elem
    BY <1>4, AlphaElem
  <2>2. gf_exp' = [i \in 0 .. 2 * N - 1 |-> gf_exp'[i]]
    BY <1>3, <1>5
  <2> QED BY <2>1, <2>2
<1>7. ExpTable'
  BY <1>4, <1>6 DEF ExpTable, N, alpha
<1>8. gf_log' \in [Elem -> Nat] /\ \A x \in Elem : x # 0 => gf_log'[x] = gf_log[x]
  BY <1>1, <1>3 DEF Extend, N
<1>9. LogTable'
  <2> SUFFICES ASSUME NEW i \in 0 .. N - 1 PROVE gf_log'[alpha(i)] = i
    BY DEF LogTable, N, alpha
  <2>1. i \in Nat
    OBVIOUS
  <2>2. alpha(i) \in Elem \ {0}
    BY <2>1, AlphaCycle
  <2> QED BY <1>2, <1>8, <2>2 DEF Filled
<1>10. ASSUME NEW x \in Elem \ {0, 1}
       PROVE  \E j \in 1 .. N - 1 : x = alpha(j) /\ inverse'[x] = alpha(N - j) /\ alpha(N - j) \in Elem
  <2>1. PICK j \in 0 .. N - 1 : x = alpha(j)
    BY AlphaOnto DEF N
  <2>2. j # 0 /\ j \in 1 .. N - 1 /\ N - j \in 0 .. 2 * N - 1 /\ N - j \in Nat
    <3>1. j # 0
      BY <2>1, AlphaCycle
    <3> QED BY <1>1, <3>1
  <2>3. gf_log'[x] = j
    BY <1>9, <2>1 DEF LogTable, N, alpha
  <2>4. inverse'[x] = gf_exp'[N - gf_log'[x]]
    <3>1. ~(x <= 1)
      BY Sizes
    <3> QED BY <3>1 DEF Extend, N
  <2>5. gf_exp'[N - j] = alpha(N - j)
    BY <1>4, <2>2
  <2>6. alpha(N - j) \in Elem
    BY <2>2, AlphaElem
  <2> QED BY <2>1, <2>2, <2>3, <2>4, <2>5, <2>6
<1>11. inverse'[0] = 0 /\ inverse'[1] = 1 /\ inverse' = [x \in Elem |-> inverse'[x]]
  BY <1>1 DEF Extend
<1>12. inverse' \in [Elem -> Elem]
  <2>1. \A x \in Elem : inverse'[x] \in Elem
    BY <1>1, <1>10, <1>11
  <2> QED BY <1>11, <2>1
<1>13. Inverted'
  <2> SUFFICES ASSUME NEW j \in 1 .. N - 1 PROVE inverse'[alpha(j)] = alpha(N - j)
    BY <1>11 DEF Inverted, N, alpha
  <2>1. j \in 0 .. N - 1 /\ 0 \in 0 .. N - 1 /\ j # 0 /\ j \in Nat
    BY <1>1
  <2>2. alpha(j) \in Elem \ {0} /\ alpha(j) # 1
    <3>1. alpha(j) \in Elem \ {0} /\ alpha(0) = 1
      BY <2>1, AlphaCycle
    <3>2. alpha(j) # alpha(0)
      BY <2>1, AlphaCycle DEF N
    <3> QED BY <3>1, <3>2
  <2>3. PICK i \in 1 .. N - 1 : alpha(j) = alpha(i) /\ inverse'[alpha(j)] = alpha(N - i)
    BY <1>10, <2>2
  <2>4. i \in 0 .. N - 1
    BY <1>1
  <2>5. i = j
    BY <2>1, <2>3, <2>4, AlphaCycle DEF N
  <2> QED BY <2>3, <2>5
<1>14. gf_pc'[s] = "mul" /\ gf_pc' \in [Senders -> {"idle", "clear", "low", "high", "mul", "ready"}] /\ ~fec_initialized'
  BY <1>2 DEF Extend, TableTypes
<1>15. TableTypes'
  BY <1>2, <1>6, <1>8, <1>12, <1>14 DEF TableTypes, Extend, N
<1> QED BY <1>7, <1>9, <1>13, <1>14, <1>15 DEF AloneInv

LEMMA AloneMul == ASSUME NEW s \in Senders, AloneInv(s), init_mul_table(s) PROVE AloneInv(s)'
<1> DEFINE N == GF_SIZE
<1>1. N \in Nat /\ N >= 3 /\ 0 \in Elem /\ 1 \in Elem /\ \A i \in 0 .. N - 1 : i \in 0 .. 2 * N - 1
  BY Sizes
<1>2. ExpTable /\ LogTable /\ Inverted /\ TableTypes
  BY DEF AloneInv, init_mul_table
<1>3. gf_mul_table' = [x \in Elem |-> [y \in Elem |->
                        IF x = 0 \/ y = 0 THEN 0 ELSE gf_exp[modnn[gf_log[x] + gf_log[y]]]]]
  BY DEF init_mul_table
<1>4. ASSUME NEW i \in 0 .. N - 1, NEW y \in Elem PROVE gf_mul_table'[alpha(i)][y] = shifts[i][y]
  <2>0. i \in Nat /\ alpha(i) \in Elem \ {0}
    <3>1. i \in Nat
      OBVIOUS
    <3> QED BY <3>1, AlphaCycle
  <2>1. CASE y = 0
    BY <1>3, <2>0, <2>1, ShiftsLinear
  <2>2. CASE y # 0
    <3>1. PICK j \in 0 .. N - 1 : y = alpha(j)
      BY <2>2, AlphaOnto
    <3>2. gf_log[alpha(i)] = i /\ gf_log[y] = j
      BY <1>2, <3>1 DEF LogTable
    <3>3. gf_mul_table'[alpha(i)][y] = gf_exp[modnn[i + j]]
      BY <1>3, <2>0, <2>2, <3>2
    <3>4. i + j \in Nat /\ j \in Nat
      OBVIOUS
    <3>5. modnn[i + j] \in 0 .. N - 1 /\ alpha(modnn[i + j]) = alpha(i + j)
      BY <3>4, ModnnTurns
    <3>6. gf_exp[modnn[i + j]] = alpha(i + j)
      BY <1>1, <1>2, <3>5 DEF ExpTable
    <3>7. alpha(i + j) = shifts[i][y]
      BY <2>0, <3>1, <3>4, AlphaCycle
    <3> QED BY <3>3, <3>6, <3>7
  <2> QED BY <2>1, <2>2
<1>5. \A y \in Elem : gf_mul_table'[0][y] = 0
  BY <1>1, <1>3
<1>6. gf_mul_table' \in [Elem -> [Elem -> Elem]]
  <2>1. ASSUME NEW x \in Elem, NEW y \in Elem PROVE gf_mul_table'[x][y] \in Elem
    <3>1. CASE x = 0
      BY <1>1, <1>5, <3>1
    <3>2. CASE x # 0
      <4>1. PICK i \in 0 .. N - 1 : x = alpha(i)
        BY <3>2, AlphaOnto
      <4>2. i \in Nat
        OBVIOUS
      <4> QED BY <1>4, <4>1, <4>2, ShiftsStep
    <3> QED BY <3>1, <3>2
  <2>2. gf_mul_table' = [x \in Elem |-> [y \in Elem |-> gf_mul_table'[x][y]]]
    BY <1>3
  <2> QED BY <2>1, <2>2
<1>7. MulTable'
  BY <1>4, <1>5, <1>6 DEF MulTable, alpha
<1>8. inverse' = inverse /\ gf_exp' = gf_exp
  BY DEF init_mul_table
<1>9. InverseTable'
  <2>1. inverse' \in [Elem -> Elem] /\ inverse'[1] = 1
    BY <1>2, <1>8 DEF TableTypes, Inverted
  <2>2. ASSUME NEW x \in Elem \ {0} PROVE gf_mul_table'[x][inverse'[x]] = 1
    <3>1. PICK i \in 0 .. N - 1 : x = alpha(i)
      BY AlphaOnto
    <3>2. CASE i = 0
      <4>1. x = 1 /\ inverse'[x] = 1 /\ alpha(0) = 1 /\ 0 \in 0 .. N - 1
        BY <1>1, <2>1, <3>1, <3>2, AlphaCycle
      <4>2. gf_mul_table'[alpha(0)][1] = shifts[0][1]
        BY <1>1, <1>4, <4>1
      <4> QED BY <1>1, <4>1, <4>2, ShiftsStep
    <3>3. CASE i # 0
      <4>1. i \in 1 .. N - 1 /\ N - i \in Nat /\ i \in Nat /\ i + (N - i) = N
        BY <1>1, <3>3
      <4>2. inverse'[x] = alpha(N - i)
        BY <1>2, <1>8, <3>1, <4>1 DEF Inverted
      <4>3. alpha(N - i) \in Elem /\ alpha(i + (N - i)) = shifts[i][alpha(N - i)] /\ alpha(N) = 1
        BY <4>1, AlphaCycle
      <4> QED BY <1>4, <3>1, <4>1, <4>2, <4>3
    <3> QED BY <3>2, <3>3
  <2> QED BY <2>1, <2>2 DEF InverseTable
<1>10. ExpTable'
  BY <1>2, <1>8 DEF ExpTable, alpha
<1>11. gf_pc'[s] = "ready" /\ gf_pc' \in [Senders -> {"idle", "clear", "low", "high", "mul", "ready"}] /\ fec_initialized' = TRUE
  BY <1>2 DEF init_mul_table, TableTypes
<1>12. TableTypes'
  BY <1>2, <1>6, <1>11 DEF TableTypes, init_mul_table
<1> QED BY <1>7, <1>9, <1>10, <1>11, <1>12 DEF AloneInv, FieldReady

LEMMA AloneStep == ASSUME NEW s \in Senders, AloneInv(s), CheckInitialized(s) \/ init_fec(s) PROVE AloneInv(s)'
BY AloneCheck, AloneClear, AloneLow, AloneTop, AloneHigh, AloneExtend, AloneMul DEF init_fec

LEMMA AloneStutter == ASSUME NEW s \in Senders, AloneInv(s), UNCHANGED gfVars PROVE AloneInv(s)'
BY DEF AloneInv, TableTypes, Filled, ExpTable, LogTable, Inverted, FieldReady, MulTable, InverseTable, gfVars, tables

\* What FieldTables says of the step that sets fec_initialized.
LEMMA FieldTablesStep ==
  ASSUME FieldReady
  PROVE  \A x \in Elem :
           /\ x # 0 => gf_mul_table[x][inverse[x]] = 1
           /\ \A y \in Elem : gf_mul_table[x][y] = Product(x, y)
BY TableIsProduct DEF FieldReady, InverseTable

-----------------------------------------------------------------------------
(***************************************************************************)
(* A single sender fills the tables with the field, whatever its width:    *)
(* what test_gf checks holds (fec.cc:999-1005).  For two it does not.      *)
(***************************************************************************)
THEOREM OneSenderPassesTest == ASSUME NEW s, Senders = {s} PROVE GFSpec => []TestGf
<1>1. GFInit => AloneInv(s)
  BY AloneInit
<1>2. AloneInv(s) /\ [GFNext]_gfVars => AloneInv(s)'
  BY AloneStep, AloneStutter DEF GFNext
<1>3. AloneInv(s) => TestGf
  <2> SUFFICES ASSUME FieldReady, NEW i \in Elem
               PROVE  (i # 0 => gf_mul(i, inverse[i]) = 1) /\ gf_mul(0, i) = 0 /\ gf_mul(i, 0) = 0
    BY DEF AloneInv, TestGf
  <2>1. i # 0 => gf_mul(i, inverse[i]) = 1
    BY FieldTablesStep DEF gf_mul
  <2>2. gf_mul(0, i) = 0 /\ gf_mul(i, 0) = 0
    BY FieldLaws DEF FieldReady
  <2> QED BY <2>1, <2>2
<1> QED BY <1>1, <1>2, <1>3, PTL DEF GFSpec

=============================================================================
