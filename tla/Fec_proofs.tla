------------------------------ MODULE Fec_proofs ------------------------------
(***************************************************************************)
(* Theorems about the erasure code of Fec, for tables that are those of    *)
(* the field (FieldReady).                                                 *)
(*                                                                         *)
(* A matrix matters here by its image: the pairs of vectors x, y with      *)
(* y = m * x.  Gauss-Jordan keeps it while unknowns and values exchange    *)
(* places one by one.  A row of a Vandermonde matrix takes coefficients to *)
(* the value of their polynomial at the row's point, and a polynomial with *)
(* fewer roots than points is zero; hence every choice of k rows of the    *)
(* encoding matrix can be inverted, which is what decoding needs.          *)
(***************************************************************************)
EXTENDS Fec, GaloisField_proofs

-----------------------------------------------------------------------------
(* The laws of FieldLaws one by one.                                       *)

LEMMA MulElem == ASSUME FieldReady, NEW x \in Elem, NEW y \in Elem PROVE gf_mul(x, y) \in Elem
BY FieldLaws DEF FieldReady
LEMMA MulCommutes ==
  ASSUME FieldReady, NEW x \in Elem, NEW y \in Elem PROVE gf_mul(x, y) = gf_mul(y, x)
BY FieldLaws DEF FieldReady
LEMMA MulAssociates ==
  ASSUME FieldReady, NEW x \in Elem, NEW y \in Elem, NEW z \in Elem
  PROVE  gf_mul(gf_mul(x, y), z) = gf_mul(x, gf_mul(y, z))
BY FieldLaws DEF FieldReady
LEMMA MulXor ==
  ASSUME FieldReady, NEW x \in Elem, NEW y \in Elem, NEW z \in Elem
  PROVE  gf_mul(x, xor[y][z]) = xor[gf_mul(x, y)][gf_mul(x, z)]
BY FieldLaws DEF FieldReady
LEMMA XorMul ==
  ASSUME FieldReady, NEW x \in Elem, NEW y \in Elem, NEW z \in Elem
  PROVE  gf_mul(xor[x][y], z) = xor[gf_mul(x, z)][gf_mul(y, z)]
BY FieldLaws DEF FieldReady
LEMMA MulUnits ==
  ASSUME FieldReady, NEW x \in Elem
  PROVE  gf_mul(0, x) = 0 /\ gf_mul(x, 0) = 0 /\ gf_mul(1, x) = x /\ gf_mul(x, 1) = x
BY FieldLaws DEF FieldReady
LEMMA MulNonzero ==
  ASSUME FieldReady, NEW x \in Elem, NEW y \in Elem, gf_mul(x, y) = 0 PROVE x = 0 \/ y = 0
BY FieldLaws DEF FieldReady
LEMMA InverseLaw ==
  ASSUME FieldReady, NEW x \in Elem
  PROVE  inverse[x] \in Elem /\ inverse[1] = 1 /\ (x # 0 => gf_mul(x, inverse[x]) = 1 /\ gf_mul(inverse[x], x) = 1)
<1>1. inverse[x] \in Elem /\ inverse[1] = 1 /\ (x # 0 => gf_mul(x, inverse[x]) = 1)
  BY DEF FieldReady, InverseTable, gf_mul
<1> QED BY <1>1, MulCommutes

-----------------------------------------------------------------------------
(* Sums.                                                                   *)

Vec(k) == [Below(k) -> Elem]

LEMMA XorAllStep ==
  ASSUME NEW n \in Nat, NEW f, \A i \in Below(n) : f[i] \in Elem
  PROVE  /\ \A k \in 0 .. n : XorAll(f, k) \in Elem
         /\ XorAll(f, 0) = 0
         /\ \A k \in 0 .. n - 1 : XorAll(f, k + 1) = xor[XorAll(f, k)][f[k]]
<1> DEFINE G == [i \in 1 .. n |-> [x \in Elem |-> xor[x][f[i - 1]]]]
           Def(k, g) == [i \in 0 .. k |-> IF i = 0 THEN 0 ELSE xor[g[i - 1]][f[i - 1]]]
<1>1. G \in [1 .. n -> [Elem -> Elem]]
  <2> SUFFICES ASSUME NEW i \in 1 .. n, NEW x \in Elem PROVE xor[x][f[i - 1]] \in Elem
    OBVIOUS
  <2>1. f[i - 1] \in Elem
    BY DEF Below
  <2> QED BY <2>1, XorLaws
<1>2. PICK A : IsIteration(A, n, Elem, 0, G)
  <2> HIDE DEF G
  <2> QED BY <1>1, Sizes, IterationExists
<1>3. A \in [0 .. n -> Elem] /\ A[0] = 0
  BY <1>2 DEF IsIteration
<1>4. ASSUME NEW i \in 1 .. n PROVE A[i] = xor[A[i - 1]][f[i - 1]]
  <2>1. A[i] = G[i][A[i - 1]] /\ A[i - 1] \in Elem
    BY <1>2 DEF IsIteration
  <2> QED BY <2>1
<1>5. ASSUME NEW k \in 0 .. n PROVE XorAll(f, k) = A[k]
  <2> DEFINE B == [i \in 0 .. k |-> A[i]]
             acc == CHOOSE g : g = Def(k, g)
  <2>1. ASSUME NEW i \in 0 .. k PROVE B[i] = Def(k, B)[i]
    <3>1. CASE i = 0
      BY <1>3, <3>1
    <3>2. CASE i # 0
      <4>1. i \in 1 .. n /\ i - 1 \in 0 .. k
        BY <3>2
      <4> QED BY <1>4, <3>2, <4>1
    <3> QED BY <3>1, <3>2
  <2>2. B = Def(k, B)
    <3>1. B = [i \in 0 .. k |-> B[i]] /\ Def(k, B) = [i \in 0 .. k |-> Def(k, B)[i]]
      OBVIOUS
    <3> HIDE DEF B, Def
    <3> QED BY <2>1, <3>1
  <2>3. acc = Def(k, acc)
    <3> HIDE DEF B, Def
    <3> QED BY <2>2
  <2>4. XorAll(f, k) = acc[k]
    BY DEF XorAll
  <2>5. \A g, i : i \in 0 .. k => Def(k, g)[i] = IF i = 0 THEN 0 ELSE xor[g[i - 1]][f[i - 1]]
    OBVIOUS
  <2> HIDE DEF acc, Def
  <2> DEFINE I == {i \in Nat : i <= k => acc[i] = A[i]}
  <2>6. ASSUME NEW i \in 0 .. k PROVE acc[i] = IF i = 0 THEN 0 ELSE xor[acc[i - 1]][f[i - 1]]
    <3>1. acc[i] = Def(k, acc)[i]
      BY <2>3
    <3> HIDE <2>3
    <3> QED BY <2>5, <3>1
  <2>7. 0 \in I
    BY <1>3, <2>6
  <2>8. ASSUME NEW i \in Nat, i \in I PROVE i + 1 \in I
    <3> SUFFICES ASSUME i + 1 <= k PROVE acc[i + 1] = A[i + 1]
      OBVIOUS
    <3>1. i + 1 \in 0 .. k /\ i + 1 # 0 /\ i + 1 \in 1 .. n /\ i + 1 - 1 = i /\ acc[i] = A[i]
      BY <2>8
    <3> QED BY <1>4, <2>6, <3>1
  <2>9. Nat \subseteq I
    <3> HIDE DEF I
    <3> QED BY <2>7, <2>8, SetInduction
  <2> QED BY <2>4, <2>9
<1>6. \A k \in 0 .. n - 1 : k + 1 \in 1 .. n /\ k + 1 \in 0 .. n /\ k \in 0 .. n /\ k + 1 - 1 = k
  OBVIOUS
<1>7. 0 \in 0 .. n
  OBVIOUS
<1> HIDE DEF G, Def
<1> QED BY <1>3, <1>4, <1>5, <1>6, <1>7

LEMMA XorAllElem ==
  ASSUME NEW k \in Nat, NEW f, \A i \in Below(k) : f[i] \in Elem
  PROVE  XorAll(f, k) \in Elem
BY XorAllStep

LEMMA XorAllEqual ==
  ASSUME NEW k \in Nat, NEW f, NEW g, \A i \in Below(k) : f[i] \in Elem /\ f[i] = g[i]
  PROVE  XorAll(f, k) = XorAll(g, k)
<1> DEFINE I == {m \in Nat : m <= k => XorAll(f, m) = XorAll(g, m)}
<1>0. \A i \in Below(k) : g[i] \in Elem
  OBVIOUS
<1>1. 0 \in I
  BY <1>0, XorAllStep
<1>2. ASSUME NEW m \in Nat, m \in I PROVE m + 1 \in I
  <2> SUFFICES ASSUME m + 1 <= k PROVE XorAll(f, m + 1) = XorAll(g, m + 1)
    OBVIOUS
  <2>1. m \in 0 .. k - 1 /\ m \in Below(k) /\ m <= k
    BY DEF Below
  <2>2. XorAll(f, m + 1) = xor[XorAll(f, m)][f[m]]
    BY <2>1, XorAllStep
  <2>3. XorAll(g, m + 1) = xor[XorAll(g, m)][g[m]]
    BY <1>0, <2>1, XorAllStep
  <2> QED BY <1>2, <2>1, <2>2, <2>3
<1>3. Nat \subseteq I
  <2> HIDE DEF I
  <2> QED BY <1>1, <1>2, SetInduction
<1> QED BY <1>3

SumOf(h, f, g, k) == \A i \in Below(k) : f[i] \in Elem /\ g[i] \in Elem /\ h[i] = xor[f[i]][g[i]]
Multiple(h, c, f, k) == \A i \in Below(k) : f[i] \in Elem /\ h[i] = gf_mul(c, f[i])

LEMMA XorAllAdd ==
  ASSUME NEW k \in Nat, NEW f, NEW g, NEW h, SumOf(h, f, g, k)
  PROVE  XorAll(h, k) = xor[XorAll(f, k)][XorAll(g, k)]
<1> DEFINE I == {m \in Nat : m <= k => XorAll(h, m) = xor[XorAll(f, m)][XorAll(g, m)]}
<1>0. \A i \in Below(k) : h[i] \in Elem /\ f[i] \in Elem /\ g[i] \in Elem /\ h[i] = xor[f[i]][g[i]]
  BY XorLaws DEF SumOf
<1>1. 0 \in I
  <2>1. XorAll(f, 0) = 0 /\ XorAll(g, 0) = 0 /\ XorAll(h, 0) = 0
    BY <1>0, XorAllStep
  <2> QED BY <2>1, XorLaws, Sizes
<1>2. ASSUME NEW m \in Nat, m \in I PROVE m + 1 \in I
  <2> SUFFICES ASSUME m + 1 <= k PROVE XorAll(h, m + 1) = xor[XorAll(f, m + 1)][XorAll(g, m + 1)]
    OBVIOUS
  <2>1. m \in 0 .. k - 1 /\ m \in Below(k) /\ m <= k /\ m \in 0 .. k
    BY DEF Below
  <2>2. XorAll(f, m + 1) = xor[XorAll(f, m)][f[m]] /\ XorAll(f, m) \in Elem
    BY <1>0, <2>1, XorAllStep
  <2>3. XorAll(g, m + 1) = xor[XorAll(g, m)][g[m]] /\ XorAll(g, m) \in Elem
    BY <1>0, <2>1, XorAllStep
  <2>4. XorAll(h, m + 1) = xor[XorAll(h, m)][h[m]]
    BY <1>0, <2>1, XorAllStep
  <2>5. XorAll(h, m) = xor[XorAll(f, m)][XorAll(g, m)] /\ h[m] = xor[f[m]][g[m]] /\ f[m] \in Elem /\ g[m] \in Elem
    BY <1>0, <1>2, <2>1
  <2>6. xor[xor[XorAll(f, m)][XorAll(g, m)]][xor[f[m]][g[m]]] = xor[xor[XorAll(f, m)][f[m]]][xor[XorAll(g, m)][g[m]]]
    <3> DEFINE aa == XorAll(f, m)
               bb == XorAll(g, m)
               cc == f[m]
               dd == g[m]
    <3>1. aa \in Elem /\ bb \in Elem /\ cc \in Elem /\ dd \in Elem
      BY <2>2, <2>3, <2>5
    <3> HIDE DEF aa, bb, cc, dd
    <3>2. xor[xor[aa][bb]][xor[cc][dd]] = xor[xor[aa][cc]][xor[bb][dd]]
      BY <3>1, XorExchange
    <3> QED BY <3>2 DEF aa, bb, cc, dd
  <2> QED BY <2>2, <2>3, <2>4, <2>5, <2>6
<1>3. Nat \subseteq I
  <2> HIDE DEF I
  <2> QED BY <1>1, <1>2, SetInduction
<1> QED BY <1>3

LEMMA XorAllScale ==
  ASSUME FieldReady, NEW k \in Nat, NEW c \in Elem, NEW f, NEW h, Multiple(h, c, f, k)
  PROVE  XorAll(h, k) = gf_mul(c, XorAll(f, k))
<1> DEFINE I == {m \in Nat : m <= k => XorAll(h, m) = gf_mul(c, XorAll(f, m))}
<1>0. \A i \in Below(k) : h[i] \in Elem /\ f[i] \in Elem /\ h[i] = gf_mul(c, f[i])
  BY MulElem DEF Multiple
<1>1. 0 \in I
  <2>1. XorAll(f, 0) = 0 /\ XorAll(h, 0) = 0
    BY <1>0, XorAllStep
  <2> QED BY <2>1, MulUnits
<1>2. ASSUME NEW m \in Nat, m \in I PROVE m + 1 \in I
  <2> SUFFICES ASSUME m + 1 <= k PROVE XorAll(h, m + 1) = gf_mul(c, XorAll(f, m + 1))
    OBVIOUS
  <2>1. m \in 0 .. k - 1 /\ m \in Below(k) /\ m <= k /\ m \in 0 .. k
    BY DEF Below
  <2>2. XorAll(f, m + 1) = xor[XorAll(f, m)][f[m]] /\ XorAll(f, m) \in Elem
    BY <1>0, <2>1, XorAllStep
  <2>4. XorAll(h, m + 1) = xor[XorAll(h, m)][h[m]]
    BY <1>0, <2>1, XorAllStep
  <2>5. XorAll(h, m) = gf_mul(c, XorAll(f, m)) /\ h[m] = gf_mul(c, f[m]) /\ f[m] \in Elem
    BY <1>0, <1>2, <2>1
  <2>6. gf_mul(c, xor[XorAll(f, m)][f[m]]) = xor[gf_mul(c, XorAll(f, m))][gf_mul(c, f[m])]
    <3> DEFINE aa == XorAll(f, m)
               cc == f[m]
    <3>1. aa \in Elem /\ cc \in Elem
      BY <2>2, <2>5
    <3> HIDE DEF aa, cc
    <3>2. gf_mul(c, xor[aa][cc]) = xor[gf_mul(c, aa)][gf_mul(c, cc)]
      BY <3>1, MulXor
    <3> QED BY <3>2 DEF aa, cc
  <2> QED BY <2>2, <2>4, <2>5, <2>6
<1>3. Nat \subseteq I
  <2> HIDE DEF I
  <2> QED BY <1>1, <1>2, SetInduction
<1> QED BY <1>3

\* At most one term is not 0.
LEMMA XorAllOne ==
  ASSUME NEW k \in Nat, NEW j \in Below(k), NEW f, f[j] \in Elem,
         \A i \in Below(k) : i # j => f[i] = 0
  PROVE  XorAll(f, k) = f[j]
<1> DEFINE I == {m \in Nat : m <= k => XorAll(f, m) = IF j < m THEN f[j] ELSE 0}
<1>0. 0 \in Elem /\ j \in 0 .. k - 1 /\ \A i \in Below(k) : f[i] \in Elem
  BY Sizes DEF Below
<1>1. 0 \in I
  BY <1>0, XorAllStep
<1>2. ASSUME NEW m \in Nat, m \in I PROVE m + 1 \in I
  <2> SUFFICES ASSUME m + 1 <= k PROVE XorAll(f, m + 1) = IF j < m + 1 THEN f[j] ELSE 0
    OBVIOUS
  <2>1. m \in 0 .. k - 1 /\ m \in Below(k) /\ m <= k
    BY DEF Below
  <2>2. XorAll(f, m + 1) = xor[XorAll(f, m)][f[m]]
    BY <1>0, <2>1, XorAllStep
  <2>3. CASE m = j
    BY <1>0, <1>2, <2>1, <2>2, <2>3, XorLaws
  <2>4. CASE m # j
    <3>1. f[m] = 0 /\ (j < m + 1 <=> j < m)
      BY <1>0, <2>1, <2>4
    <3> QED BY <1>0, <1>2, <2>1, <2>2, <3>1, XorLaws
  <2> QED BY <2>3, <2>4
<1>3. Nat \subseteq I
  <2> HIDE DEF I
  <2> QED BY <1>1, <1>2, SetInduction
<1> QED BY <1>0, <1>3

LEMMA XorAllZero ==
  ASSUME NEW k \in Nat, NEW f, \A i \in Below(k) : f[i] = 0
  PROVE  XorAll(f, k) = 0
<1>1. CASE k = 0
  BY <1>1, Sizes, XorAllStep DEF Below
<1>2. CASE k # 0
  <2>1. 0 \in Below(k) /\ f[0] \in Elem
    BY <1>2, Sizes DEF Below
  <2> QED BY <2>1, XorAllOne
<1> QED BY <1>1, <1>2

\* The term j taken out of the sum.
LEMMA XorAllExtract ==
  ASSUME NEW k \in Nat, NEW j \in Below(k), NEW f, \A i \in Below(k) : f[i] \in Elem
  PROVE  XorAll(f, k) = xor[f[j]][XorAll([i \in Below(k) |-> IF i = j THEN 0 ELSE f[i]], k)]
<1> DEFINE one == [i \in Below(k) |-> IF i = j THEN f[i] ELSE 0]
           rest == [i \in Below(k) |-> IF i = j THEN 0 ELSE f[i]]
<1>1. \A i \in Below(k) : one[i] \in Elem /\ rest[i] \in Elem /\ f[i] = xor[one[i]][rest[i]]
  BY XorLaws, Sizes
<1>2. one[j] = f[j] /\ one[j] \in Elem /\ \A i \in Below(k) : i # j => one[i] = 0
  OBVIOUS
<1> HIDE DEF one, rest
<1>3. XorAll(one, k) = f[j]
  BY <1>2, XorAllOne
<1>4. XorAll(f, k) = xor[XorAll(one, k)][XorAll(rest, k)]
  <2>1. SumOf(f, one, rest, k)
    BY <1>1 DEF SumOf
  <2> QED BY <2>1, XorAllAdd
<1> QED BY <1>3, <1>4 DEF rest

\* A sum by rows is the sum by columns.
LEMMA XorAllFubini ==
  ASSUME NEW n \in Nat, NEW m \in Nat, NEW a,
         \A i \in Below(n), j \in Below(m) : a[i][j] \in Elem
  PROVE  XorAll([i \in Below(n) |-> XorAll([j \in Below(m) |-> a[i][j]], m)], n)
         = XorAll([j \in Below(m) |-> XorAll([i \in Below(n) |-> a[i][j]], n)], m)
<1> DEFINE row(i) == XorAll([j \in Below(m) |-> a[i][j]], m)
           rows == [i \in Below(n) |-> row(i)]
           col(j) == [i \in Below(n) |-> a[i][j]]
           cols(l) == [j \in Below(m) |-> XorAll(col(j), l)]
           I == {l \in Nat : l <= n => XorAll(rows, l) = XorAll(cols(l), m)}
<1>1. \A i \in Below(n) : rows[i] \in Elem
  <2> SUFFICES ASSUME NEW i \in Below(n) PROVE row(i) \in Elem
    OBVIOUS
  <2> QED BY XorAllElem
<1>2. ASSUME NEW j \in Below(m), NEW l \in 0 .. n
      PROVE  XorAll(col(j), l) \in Elem /\ XorAll(col(j), 0) = 0
             /\ (l < n => XorAll(col(j), l + 1) = xor[XorAll(col(j), l)][a[l][j]])
  <2>1. \A i \in Below(n) : col(j)[i] \in Elem
    OBVIOUS
  <2>2. l < n => l \in 0 .. n - 1 /\ col(j)[l] = a[l][j]
    BY DEF Below
  <2> HIDE DEF col
  <2> QED BY <2>1, <2>2, XorAllStep
<1>3. 0 \in I
  <2>1. XorAll(rows, 0) = 0
    BY <1>1, XorAllStep
  <2>2. \A j \in Below(m) : cols(0)[j] = 0
    <3>1. 0 \in 0 .. n
      OBVIOUS
    <3> HIDE DEF col
    <3> QED BY <1>2, <3>1
  <2>3. XorAll(cols(0), m) = 0
    <3> HIDE DEF cols
    <3> QED BY <2>2, XorAllZero
  <2> QED BY <2>1, <2>3
<1>4. ASSUME NEW l \in Nat, l \in I PROVE l + 1 \in I
  <2> SUFFICES ASSUME l + 1 <= n PROVE XorAll(rows, l + 1) = XorAll(cols(l + 1), m)
    OBVIOUS
  <2>1. l \in 0 .. n - 1 /\ l \in 0 .. n /\ l < n /\ l \in Below(n) /\ l <= n
    BY DEF Below
  <2>2. XorAll(rows, l + 1) = xor[XorAll(rows, l)][rows[l]]
    <3> HIDE DEF rows
    <3> QED BY <1>1, <2>1, XorAllStep
  <2>3. rows[l] = row(l)
    BY <2>1
  <2> DEFINE f == cols(l)
             g == [j \in Below(m) |-> a[l][j]]
             h == cols(l + 1)
  <2>4. \A j \in Below(m) : f[j] \in Elem /\ g[j] \in Elem /\ h[j] = xor[f[j]][g[j]]
    <3> HIDE DEF col
    <3> QED BY <1>2, <2>1
  <2>5. XorAll(h, m) = xor[XorAll(f, m)][XorAll(g, m)]
    <3> HIDE DEF f, g, h
    <3>1. SumOf(h, f, g, m)
      BY <2>4 DEF SumOf
    <3> QED BY <3>1, XorAllAdd
  <2>6. XorAll(rows, l) = XorAll(f, m)
    BY <1>4, <2>1
  <2>7. row(l) = XorAll(g, m)
    OBVIOUS
  <2> HIDE DEF f, g, h, row, rows
  <2> QED BY <2>2, <2>3, <2>5, <2>6, <2>7 DEF h
<1>5. Nat \subseteq I
  <2> HIDE DEF I
  <2> QED BY <1>3, <1>4, SetInduction
<1>6. XorAll(rows, n) = XorAll(cols(n), m)
  BY <1>5
<1> QED BY <1>6

-----------------------------------------------------------------------------
(* Vectors, and rows times vectors.                                        *)

Mat(k) == [Below(k) -> Vec(k)]
Dot(r, x, k) == XorAll([j \in Below(k) |-> gf_mul(r[j], x[j])], k)
\* The row without its column c.
Rest(r, x, c, k) == XorAll([j \in Below(k) |-> IF j = c THEN 0 ELSE gf_mul(r[j], x[j])], k)

LEMMA DotElem ==
  ASSUME FieldReady, NEW k \in Nat, NEW r \in Vec(k), NEW x \in Vec(k)
  PROVE  Dot(r, x, k) \in Elem /\ \A c \in Below(k) : Rest(r, x, c, k) \in Elem
<1>1. \A j \in Below(k) : gf_mul(r[j], x[j]) \in Elem
  BY MulElem DEF Vec
<1>2. Dot(r, x, k) \in Elem
  BY <1>1, XorAllElem DEF Dot
<1>3. ASSUME NEW c \in Below(k) PROVE Rest(r, x, c, k) \in Elem
  <2> DEFINE f == [j \in Below(k) |-> IF j = c THEN 0 ELSE gf_mul(r[j], x[j])]
  <2>1. \A j \in Below(k) : f[j] \in Elem
    BY <1>1, Sizes
  <2> HIDE DEF f
  <2>2. XorAll(f, k) \in Elem
    BY <2>1, XorAllElem
  <2> QED BY <2>2 DEF Rest, f
<1> QED BY <1>2, <1>3

LEMMA DotExtract ==
  ASSUME FieldReady, NEW k \in Nat, NEW r \in Vec(k), NEW x \in Vec(k), NEW c \in Below(k)
  PROVE  Dot(r, x, k) = xor[gf_mul(r[c], x[c])][Rest(r, x, c, k)]
<1> DEFINE f == [j \in Below(k) |-> gf_mul(r[j], x[j])]
<1>1. \A j \in Below(k) : f[j] \in Elem
  BY MulElem DEF Vec
<1>2. [i \in Below(k) |-> IF i = c THEN 0 ELSE f[i]] = [j \in Below(k) |-> IF j = c THEN 0 ELSE gf_mul(r[j], x[j])]
  OBVIOUS
<1>3. f[c] = gf_mul(r[c], x[c])
  OBVIOUS
<1> HIDE DEF f
<1>4. XorAll(f, k) = xor[f[c]][XorAll([i \in Below(k) |-> IF i = c THEN 0 ELSE f[i]], k)]
  BY <1>1, XorAllExtract
<1> QED BY <1>2, <1>3, <1>4 DEF f, Dot, Rest

LEMMA RestEqual ==
  ASSUME FieldReady, NEW k \in Nat, NEW r \in Vec(k), NEW s \in Vec(k), NEW x \in Vec(k), NEW y \in Vec(k),
         NEW c \in Below(k), \A j \in Below(k) : j # c => r[j] = s[j] /\ x[j] = y[j]
  PROVE  Rest(r, x, c, k) = Rest(s, y, c, k)
<1> DEFINE f == [j \in Below(k) |-> IF j = c THEN 0 ELSE gf_mul(r[j], x[j])]
           g == [j \in Below(k) |-> IF j = c THEN 0 ELSE gf_mul(s[j], y[j])]
<1>1. f = g
  OBVIOUS
<1> HIDE DEF f, g
<1>2. XorAll(f, k) = XorAll(g, k)
  BY <1>1
<1> QED BY <1>2 DEF f, g, Rest

RowScaled(s, q, r, c, k) == \A j \in Below(k) : j # c => s[j] = gf_mul(q, r[j])
RowAdded(t, r, d, s, c, k) == \A j \in Below(k) : j # c => t[j] = xor[r[j]][gf_mul(d, s[j])]

LEMMA RestScale ==
  ASSUME FieldReady, NEW k \in Nat, NEW r \in Vec(k), NEW s \in Vec(k), NEW x \in Vec(k),
         NEW c \in Below(k), NEW q \in Elem, RowScaled(s, q, r, c, k)
  PROVE  Rest(s, x, c, k) = gf_mul(q, Rest(r, x, c, k))
<1> DEFINE f == [j \in Below(k) |-> IF j = c THEN 0 ELSE gf_mul(r[j], x[j])]
           h == [j \in Below(k) |-> IF j = c THEN 0 ELSE gf_mul(s[j], x[j])]
<1>1. Multiple(h, q, f, k)
  <2> SUFFICES ASSUME NEW j \in Below(k) PROVE f[j] \in Elem /\ h[j] = gf_mul(q, f[j])
    BY DEF Multiple
  <2>1. CASE j = c
    BY <2>1, MulUnits, Sizes
  <2>2. CASE j # c
    <3>1. r[j] \in Elem /\ x[j] \in Elem
      BY DEF Vec
    <3>2. gf_mul(gf_mul(q, r[j]), x[j]) = gf_mul(q, gf_mul(r[j], x[j]))
      BY <3>1, MulAssociates
    <3>3. gf_mul(r[j], x[j]) \in Elem
      BY <3>1, MulElem
    <3> QED BY <2>2, <3>2, <3>3 DEF RowScaled
  <2> QED BY <2>1, <2>2
<1> HIDE DEF f, h
<1>2. XorAll(h, k) = gf_mul(q, XorAll(f, k))
  BY <1>1, XorAllScale
<1> QED BY <1>2 DEF f, h, Rest

LEMMA RestAdd ==
  ASSUME FieldReady, NEW k \in Nat, NEW r \in Vec(k), NEW s \in Vec(k), NEW t \in Vec(k), NEW x \in Vec(k),
         NEW c \in Below(k), NEW d \in Elem, RowAdded(t, r, d, s, c, k)
  PROVE  Rest(t, x, c, k) = xor[Rest(r, x, c, k)][gf_mul(d, Rest(s, x, c, k))]
<1> DEFINE f == [j \in Below(k) |-> IF j = c THEN 0 ELSE gf_mul(r[j], x[j])]
           g == [j \in Below(k) |-> IF j = c THEN 0 ELSE gf_mul(s[j], x[j])]
           dg == [j \in Below(k) |-> gf_mul(d, g[j])]
           h == [j \in Below(k) |-> IF j = c THEN 0 ELSE gf_mul(t[j], x[j])]
<1>0. ASSUME NEW j \in Below(k) PROVE f[j] \in Elem /\ g[j] \in Elem
  <2>1. r[j] \in Elem /\ s[j] \in Elem /\ x[j] \in Elem
    BY DEF Vec
  <2>2. gf_mul(r[j], x[j]) \in Elem /\ gf_mul(s[j], x[j]) \in Elem
    BY <2>1, MulElem
  <2> QED BY <2>2, Sizes
<1>1. Multiple(dg, d, g, k)
  BY <1>0 DEF Multiple
<1>2. SumOf(h, f, dg, k)
  <2> SUFFICES ASSUME NEW j \in Below(k) PROVE f[j] \in Elem /\ dg[j] \in Elem /\ h[j] = xor[f[j]][dg[j]]
    BY DEF SumOf
  <2>0. f[j] \in Elem /\ dg[j] \in Elem
    BY <1>0, MulElem
  <2>1. CASE j = c
    BY <2>1, MulUnits, Sizes, XorLaws
  <2>2. CASE j # c
    <3>1. r[j] \in Elem /\ s[j] \in Elem /\ x[j] \in Elem
      BY DEF Vec
    <3>2. gf_mul(d, s[j]) \in Elem
      BY <3>1, MulElem
    <3>3. gf_mul(xor[r[j]][gf_mul(d, s[j])], x[j]) = xor[gf_mul(r[j], x[j])][gf_mul(gf_mul(d, s[j]), x[j])]
      <4> DEFINE rj == r[j]
                 ds == gf_mul(d, s[j])
                 xj == x[j]
      <4>1. rj \in Elem /\ ds \in Elem /\ xj \in Elem
        BY <3>1, <3>2
      <4> HIDE DEF rj, ds, xj
      <4>2. gf_mul(xor[rj][ds], xj) = xor[gf_mul(rj, xj)][gf_mul(ds, xj)]
        BY <4>1, XorMul
      <4> QED BY <4>2 DEF rj, ds, xj
    <3>4. gf_mul(gf_mul(d, s[j]), x[j]) = gf_mul(d, gf_mul(s[j], x[j]))
      BY <3>1, MulAssociates
    <3> QED BY <2>0, <2>2, <3>3, <3>4 DEF RowAdded
  <2> QED BY <2>1, <2>2
<1> HIDE DEF f, g, dg, h
<1>3. XorAll(h, k) = xor[XorAll(f, k)][XorAll(dg, k)] /\ XorAll(dg, k) = gf_mul(d, XorAll(g, k))
  BY <1>1, <1>2, XorAllAdd, XorAllScale
<1> QED BY <1>3 DEF f, g, h, Rest

LEMMA XorAllSwap ==
  ASSUME NEW k \in Nat, NEW f \in Vec(k), NEW i \in Below(k), NEW j \in Below(k)
  PROVE  XorAll(Swap(f, i, j), k) = XorAll(f, k)
<1> DEFINE g == Swap(f, i, j)
           f1 == [l \in Below(k) |-> IF l = i THEN 0 ELSE f[l]]
           g1 == [l \in Below(k) |-> IF l = i THEN 0 ELSE g[l]]
           f2 == [l \in Below(k) |-> IF l = j THEN 0 ELSE f1[l]]
           g2 == [l \in Below(k) |-> IF l = j THEN 0 ELSE g1[l]]
<1>1. g \in Vec(k) /\ g[i] = f[j] /\ g[j] = f[i] /\ \A l \in Below(k) : l # i /\ l # j => g[l] = f[l]
  BY DEF Swap, Vec
<1>2. CASE i = j
  <2>1. g = f
    BY <1>2 DEF Swap, Vec
  <2> QED BY <2>1
<1>3. CASE i # j
  <2> HIDE DEF g
  <2>1. f1[j] = f[j] /\ g1[j] = f[i] /\ f2 = g2
    BY <1>1, <1>3 DEF Vec
  <2>2. (\A l \in Below(k) : f[l] \in Elem) /\ (\A l \in Below(k) : g[l] \in Elem)
        /\ (\A l \in Below(k) : f1[l] \in Elem) /\ (\A l \in Below(k) : g1[l] \in Elem)
        /\ (\A l \in Below(k) : f2[l] \in Elem)
    BY <1>1, Sizes DEF Vec
  <2> DEFINE F1 == XorAll(f1, k)
             G1 == XorAll(g1, k)
             F2 == XorAll(f2, k)
  <2>3. XorAll(f, k) = xor[f[i]][F1] /\ XorAll(g, k) = xor[g[i]][G1]
    BY <2>2, XorAllExtract
  <2> HIDE DEF f1, g1
  <2>4. F1 = xor[f1[j]][F2] /\ G1 = xor[g1[j]][XorAll(g2, k)]
    BY <2>2, XorAllExtract
  <2>5. F2 \in Elem
    <3> HIDE DEF f2, g2
    <3> QED BY <2>2, XorAllElem
  <2> DEFINE a == f[i]
             b == f[j]
  <2>6. a \in Elem /\ b \in Elem
    BY <2>2
  <2>7. XorAll(f, k) = xor[a][xor[b][F2]] /\ XorAll(g, k) = xor[b][xor[a][F2]]
    BY <1>1, <2>1, <2>3, <2>4
  <2> HIDE DEF a, b, F1, G1, F2
  <2>8. xor[a][xor[b][F2]] = xor[xor[a][b]][F2] /\ xor[b][xor[a][F2]] = xor[xor[b][a]][F2] /\ xor[a][b] = xor[b][a]
    BY <2>5, <2>6, XorLaws
  <2> QED BY <2>7, <2>8 DEF g
<1> QED BY <1>2, <1>3

LEMMA DotSwap ==
  ASSUME FieldReady, NEW k \in Nat, NEW r \in Vec(k), NEW x \in Vec(k), NEW i \in Below(k), NEW j \in Below(k)
  PROVE  Dot(Swap(r, i, j), x, k) = Dot(r, Swap(x, i, j), k)
<1> DEFINE f == [l \in Below(k) |-> gf_mul(Swap(r, i, j)[l], x[l])]
           g == [l \in Below(k) |-> gf_mul(r[l], Swap(x, i, j)[l])]
<1>1. g \in Vec(k)
  <2> SUFFICES ASSUME NEW l \in Below(k) PROVE gf_mul(r[l], Swap(x, i, j)[l]) \in Elem
    BY DEF Vec
  <2>1. r[l] \in Elem /\ Swap(x, i, j)[l] \in Elem
    BY DEF Vec, Swap
  <2> QED BY <2>1, MulElem
<1>2. f = Swap(g, i, j)
  <2>1. ASSUME NEW l \in Below(k) PROVE f[l] = Swap(g, i, j)[l]
    BY DEF Swap, Vec
  <2>2. Swap(g, i, j) \in Vec(k)
    <3> HIDE DEF g
    <3> QED BY <1>1 DEF Swap, Vec
  <2>3. Swap(g, i, j) = [l \in Below(k) |-> Swap(g, i, j)[l]] /\ f = [l \in Below(k) |-> f[l]]
    <3> HIDE DEF g
    <3> QED BY <2>2 DEF Vec
  <2> HIDE DEF f, g
  <2> QED BY <2>1, <2>3
<1> HIDE DEF f, g
<1>3. XorAll(Swap(g, i, j), k) = XorAll(g, k)
  BY <1>1, XorAllSwap
<1>4. XorAll(f, k) = XorAll(g, k)
  BY <1>2, <1>3
<1> QED BY <1>4 DEF f, g, Dot

-----------------------------------------------------------------------------
(* Gauss-Jordan as exchanges. With the pivots P found, the matrix m of     *)
(* invert_mat takes x, with its entries in P replaced by those of y, to y, *)
(* with its entries in P replaced by those of x.                           *)

Mixed(x, y, P, k) == [j \in Below(k) |-> IF j \in P THEN y[j] ELSE x[j]]
Exchanged(m, P, x, y, k) ==
  \A i \in Below(k) : Mixed(y, x, P, k)[i] = Dot(m[i], Mixed(x, y, P, k), k)
Image(a, x, y, k) == \A i \in Below(k) : y[i] = Dot(a[i], x, k)

\* The equation of the pivot row, solved for the other unknown.
LEMMA SolveRow ==
  ASSUME FieldReady, NEW a \in Elem, NEW b \in Elem, NEW p \in Elem, NEW q \in Elem, NEW t \in Elem,
         gf_mul(p, q) = 1, gf_mul(q, p) = 1
  PROVE  b = xor[gf_mul(p, a)][t] <=> a = xor[gf_mul(q, b)][gf_mul(q, t)]
<1>1. ASSUME NEW u \in Elem, NEW v \in Elem, NEW w \in Elem, u = xor[v][w] PROVE v = xor[u][w]
  <2>1. xor[xor[v][w]][w] = xor[v][xor[w][w]] /\ xor[w][w] = 0 /\ xor[v][0] = v
    BY XorLaws
  <2> QED BY <1>1, <2>1
<1>2. gf_mul(p, a) \in Elem /\ gf_mul(q, b) \in Elem /\ gf_mul(q, t) \in Elem
  BY MulElem
<1>3. gf_mul(q, gf_mul(p, a)) = a /\ gf_mul(p, gf_mul(q, b)) = b /\ gf_mul(p, gf_mul(q, t)) = t
  <2>1. gf_mul(gf_mul(q, p), a) = gf_mul(q, gf_mul(p, a)) /\ gf_mul(gf_mul(p, q), b) = gf_mul(p, gf_mul(q, b))
        /\ gf_mul(gf_mul(p, q), t) = gf_mul(p, gf_mul(q, t))
    BY MulAssociates
  <2>2. gf_mul(1, a) = a /\ gf_mul(1, b) = b /\ gf_mul(1, t) = t
    BY MulUnits
  <2> QED BY <2>1, <2>2
<1>4. ASSUME b = xor[gf_mul(p, a)][t] PROVE a = xor[gf_mul(q, b)][gf_mul(q, t)]
  <2>1. gf_mul(q, xor[gf_mul(p, a)][t]) = xor[gf_mul(q, gf_mul(p, a))][gf_mul(q, t)]
    BY <1>2, MulXor
  <2>2. gf_mul(q, b) = xor[a][gf_mul(q, t)]
    BY <1>3, <1>4, <2>1
  <2> QED BY <1>1, <1>2, <2>2
<1>5. ASSUME a = xor[gf_mul(q, b)][gf_mul(q, t)] PROVE b = xor[gf_mul(p, a)][t]
  <2>1. gf_mul(p, xor[gf_mul(q, b)][gf_mul(q, t)]) = xor[gf_mul(p, gf_mul(q, b))][gf_mul(p, gf_mul(q, t))]
    BY <1>2, MulXor
  <2>2. gf_mul(p, a) = xor[b][t]
    BY <1>3, <1>5, <2>1
  <2> QED BY <1>1, <1>2, <2>2
<1> QED BY <1>4, <1>5

\* The equation of another row, with the pivot row put in.
LEMMA PutIn ==
  ASSUME FieldReady, NEW q \in Elem, NEW y \in Elem, NEW w \in Elem, NEW d \in Elem, NEW t \in Elem
  PROVE  xor[gf_mul(d, xor[gf_mul(q, y)][w])][t] = xor[gf_mul(gf_mul(d, q), y)][xor[t][gf_mul(d, w)]]
<1> DEFINE x == xor[gf_mul(q, y)][w]
           u == gf_mul(gf_mul(d, q), y)
           v == gf_mul(d, w)
<1>1. gf_mul(q, y) \in Elem /\ u \in Elem /\ v \in Elem
  BY MulElem
<1>2. gf_mul(d, xor[gf_mul(q, y)][w]) = xor[gf_mul(d, gf_mul(q, y))][v]
  BY <1>1, MulXor
<1>3. u = gf_mul(d, gf_mul(q, y))
  BY MulAssociates
<1>4. gf_mul(d, x) = xor[u][v]
  BY <1>2, <1>3
<1> HIDE DEF u, v
<1>5. xor[xor[u][v]][t] = xor[u][xor[v][t]] /\ xor[v][t] = xor[t][v]
  BY <1>1, XorLaws
<1>6. xor[gf_mul(d, x)][t] = xor[u][xor[t][v]]
  BY <1>4, <1>5
<1> QED BY <1>6 DEF u, v

\* What pivoting on <<c, c>> makes of m.
Pivoted(m2, m, c, k) ==
  LET q == inverse[m[c][c]] IN
  /\ m2 \in Mat(k)
  /\ m2[c][c] = q /\ \A j \in Below(k) : j # c => m2[c][j] = gf_mul(q, m[c][j])
  /\ \A i \in Below(k) : i # c =>
       /\ m2[i][c] = gf_mul(m[i][c], q)
       /\ \A j \in Below(k) : j # c => m2[i][j] = xor[m[i][j]][gf_mul(m[i][c], m2[c][j])]

LEMMA PivotExchanges ==
  ASSUME FieldReady, NEW k \in Nat, NEW m \in Mat(k), NEW m2, NEW P \in SUBSET Below(k), NEW c \in Below(k) \ P,
         m[c][c] # 0, Pivoted(m2, m, c, k), NEW x \in Vec(k), NEW y \in Vec(k)
  PROVE  Exchanged(m, P, x, y, k) <=> Exchanged(m2, P \cup {c}, x, y, k)
<1> DEFINE p == m[c][c]
           q == inverse[p]
           U == Mixed(x, y, P, k)
           V == Mixed(y, x, P, k)
           U2 == Mixed(x, y, P \cup {c}, k)
           V2 == Mixed(y, x, P \cup {c}, k)
           S == Rest(m[c], U, c, k)
<1>1. /\ U \in Vec(k) /\ V \in Vec(k) /\ U2 \in Vec(k) /\ V2 \in Vec(k)
      /\ U[c] = x[c] /\ V[c] = y[c] /\ U2[c] = y[c] /\ V2[c] = x[c]
      /\ \A j \in Below(k) : j # c => U2[j] = U[j] /\ V2[j] = V[j]
  BY DEF Mixed, Vec
<1>2. m2 \in Mat(k) /\ \A i \in Below(k) : m[i] \in Vec(k) /\ m2[i] \in Vec(k) /\ m[i][c] \in Elem
  BY DEF Mat, Vec, Pivoted
<1>3. p \in Elem /\ q \in Elem /\ gf_mul(p, q) = 1 /\ gf_mul(q, p) = 1
  BY <1>2, InverseLaw
<1>4. m2[c][c] = q /\ RowScaled(m2[c], q, m[c], c, k)
  BY DEF Pivoted, RowScaled
<1> HIDE DEF U, V, U2, V2, q
<1>5. S \in Elem /\ x[c] \in Elem /\ y[c] \in Elem
  BY <1>1, <1>2, DotElem DEF Vec
<1>6. Rest(m2[c], U2, c, k) = gf_mul(q, S)
  <2>1. Rest(m2[c], U2, c, k) = Rest(m2[c], U, c, k)
    BY <1>1, <1>2, RestEqual
  <2>2. Rest(m2[c], U, c, k) = gf_mul(q, S)
    BY <1>1, <1>2, <1>3, <1>4, RestScale
  <2> QED BY <2>1, <2>2
<1>7. Dot(m[c], U, k) = xor[gf_mul(p, x[c])][S]
  BY <1>1, <1>2, DotExtract
<1>8. Dot(m2[c], U2, k) = xor[gf_mul(q, y[c])][gf_mul(q, S)]
  BY <1>1, <1>2, <1>4, <1>6, DotExtract
<1> HIDE DEF p, S
<1>9. V[c] = Dot(m[c], U, k) <=> V2[c] = Dot(m2[c], U2, k)
  <2>1. y[c] = xor[gf_mul(p, x[c])][S] <=> x[c] = xor[gf_mul(q, y[c])][gf_mul(q, S)]
    <3> DEFINE xc == x[c]
               yc == y[c]
    <3>1. xc \in Elem /\ yc \in Elem
      BY <1>5
    <3> HIDE DEF xc, yc
    <3>2. yc = xor[gf_mul(p, xc)][S] <=> xc = xor[gf_mul(q, yc)][gf_mul(q, S)]
      BY <1>3, <1>5, <3>1, SolveRow
    <3> QED BY <3>2 DEF xc, yc
  <2> QED BY <1>1, <1>7, <1>8, <2>1
<1>10. ASSUME NEW i \in Below(k), i # c, V2[c] = Dot(m2[c], U2, k)
       PROVE  Dot(m[i], U, k) = Dot(m2[i], U2, k) /\ V[i] = V2[i]
  <2> DEFINE d == m[i][c]
             T == Rest(m[i], U, c, k)
             w == gf_mul(q, S)
  <2>1. d \in Elem /\ T \in Elem /\ w \in Elem
    BY <1>1, <1>2, <1>3, <1>5, DotElem, MulElem
  <2>2. Dot(m[i], U, k) = xor[gf_mul(d, x[c])][T]
    BY <1>1, <1>2, DotExtract
  <2>3. m2[i][c] = gf_mul(d, q) /\ RowAdded(m2[i], m[i], d, m2[c], c, k)
    BY <1>10 DEF Pivoted, RowAdded, p, q
  <2>4. Rest(m2[i], U2, c, k) = xor[T][gf_mul(d, w)]
    <3>1. Rest(m2[i], U2, c, k) = xor[Rest(m[i], U2, c, k)][gf_mul(d, Rest(m2[c], U2, c, k))]
      <4>1. m[i] \in Vec(k) /\ m2[i] \in Vec(k) /\ m2[c] \in Vec(k) /\ U2 \in Vec(k) /\ d \in Elem
        BY <1>1, <1>2, <2>1
      <4>2. RowAdded(m2[i], m[i], d, m2[c], c, k)
        BY <2>3
      <4> HIDE DEF d
      <4> QED BY <4>1, <4>2, RestAdd
    <3>2. Rest(m[i], U2, c, k) = T
      BY <1>1, <1>2, RestEqual
    <3> QED BY <1>6, <3>1, <3>2
  <2>5. Dot(m2[i], U2, k) = xor[gf_mul(gf_mul(d, q), y[c])][xor[T][gf_mul(d, w)]]
    BY <1>1, <1>2, <2>3, <2>4, DotExtract
  <2> HIDE DEF d, T, w
  <2>6. x[c] = xor[gf_mul(q, y[c])][w]
    BY <1>1, <1>8, <1>10 DEF w
  <2>7. xor[gf_mul(d, x[c])][T] = xor[gf_mul(gf_mul(d, q), y[c])][xor[T][gf_mul(d, w)]]
    <3> DEFINE xc == x[c]
               yc == y[c]
    <3>1. xc \in Elem /\ yc \in Elem /\ xc = xor[gf_mul(q, yc)][w]
      BY <1>5, <2>6
    <3> HIDE DEF xc, yc
    <3>2. xor[gf_mul(d, xc)][T] = xor[gf_mul(gf_mul(d, q), yc)][xor[T][gf_mul(d, w)]]
      <4>1. q \in Elem /\ d \in Elem /\ T \in Elem /\ w \in Elem
        BY <1>3, <2>1
      <4>2. xor[gf_mul(d, xor[gf_mul(q, yc)][w])][T] = xor[gf_mul(gf_mul(d, q), yc)][xor[T][gf_mul(d, w)]]
        BY <3>1, <4>1, PutIn
      <4> QED BY <3>1, <4>2
    <3> QED BY <3>2 DEF xc, yc
  <2> QED BY <1>1, <1>10, <2>2, <2>5, <2>7
<1>11. (\A i \in Below(k) : V[i] = Dot(m[i], U, k)) <=> (\A i \in Below(k) : V2[i] = Dot(m2[i], U2, k))
  BY <1>9, <1>10
<1> QED BY <1>11 DEF Exchanged, U, V, U2, V2

LEMMA EliminatePivots ==
  ASSUME FieldReady, NEW k \in Nat, NEW m \in Mat(k), NEW c \in Below(k), m[c][c] # 0
  PROVE  Pivoted(Eliminate([m EXCEPT ![c] = Scaled(@, c)], c, k), m, c, k)
<1> DEFINE q == inverse[m[c][c]]
           row == Scaled(m[c], c)
           pm == [m EXCEPT ![c] = row]
           m2 == Eliminate(pm, c, k)
<1>1. /\ \A i \in Below(k) : m[i] \in Vec(k) /\ DOMAIN m[i] = Below(k) /\ \A j \in Below(k) : m[i][j] \in Elem
      /\ DOMAIN m = Below(k) /\ q \in Elem
  <2>1. \A i \in Below(k) : m[i] \in Vec(k) /\ DOMAIN m[i] = Below(k) /\ \A j \in Below(k) : m[i][j] \in Elem
    BY DEF Mat, Vec
  <2>2. DOMAIN m = Below(k)
    BY DEF Mat
  <2> QED BY <2>1, <2>2, InverseLaw
<1>2. row \in Vec(k) /\ row[c] = q /\ \A j \in Below(k) : j # c => row[j] = gf_mul(q, m[c][j])
  <2>1. CASE m[c][c] = 1
    <3>1. q = 1 /\ row = m[c]
      BY <1>1, <2>1, InverseLaw DEF Scaled
    <3>2. \A j \in Below(k) : gf_mul(1, m[c][j]) = m[c][j]
      BY <1>1, MulUnits
    <3> QED BY <1>1, <2>1, <3>1, <3>2
  <2>2. CASE m[c][c] # 1
    <3>1. row = [j \in Below(k) |-> gf_mul(q, IF j = c THEN 1 ELSE m[c][j])]
      BY <1>1, <2>2 DEF Scaled
    <3>2. gf_mul(q, 1) = q /\ \A j \in Below(k) : gf_mul(q, m[c][j]) \in Elem
      BY <1>1, MulUnits, MulElem
    <3> HIDE DEF row, q
    <3> QED BY <1>1, <3>1, <3>2 DEF Vec
  <2> QED BY <2>1, <2>2
<1> HIDE DEF row, q
<1>3. pm[c] = row /\ \A i \in Below(k) : i # c => pm[i] = m[i]
  BY <1>1
<1>4. m2[c] = row
  BY <1>3 DEF Eliminate
<1>5. ASSUME NEW i \in Below(k), i # c
      PROVE  /\ m2[i] \in Vec(k) /\ m2[i][c] = gf_mul(m[i][c], q)
             /\ \A j \in Below(k) : j # c => m2[i][j] = xor[m[i][j]][gf_mul(m[i][c], row[j])]
  <2>1. CASE row = Identity(k)[c]
    <3>1. q = 1 /\ \A j \in Below(k) : j # c => row[j] = 0
      BY <1>2, <2>1 DEF Identity
    <3>2. m2[i] = m[i]
      BY <1>3, <1>5, <2>1 DEF Eliminate
    <3>3. gf_mul(m[i][c], 1) = m[i][c] /\ gf_mul(m[i][c], 0) = 0
      BY <1>1, MulUnits
    <3>4. \A j \in Below(k) : xor[m[i][j]][0] = m[i][j]
      BY <1>1, XorLaws
    <3> QED BY <1>1, <3>1, <3>2, <3>3, <3>4
  <2>2. CASE row # Identity(k)[c]
    <3> DEFINE dst == [m[i] EXCEPT ![c] = 0]
    <3>1. m2[i] = [j \in Below(k) |-> xor[dst[j]][gf_mul(m[i][c], row[j])]]
      <4>1. DOMAIN dst = Below(k)
        BY <1>1
      <4> HIDE DEF dst
      <4>2. m2[i] = addmul(dst, row, m[i][c])
        BY <1>3, <1>5, <2>2 DEF Eliminate, dst
      <4> QED BY <4>1, <4>2 DEF addmul
    <3>2. dst[c] = 0 /\ \A j \in Below(k) : j # c => dst[j] = m[i][j]
      BY <1>1
    <3> HIDE DEF dst, m2
    <3>3. \A j \in Below(k) : gf_mul(m[i][c], row[j]) \in Elem
      <4>1. \A j \in Below(k) : row[j] \in Elem
        BY <1>2 DEF Vec
      <4> QED BY <1>1, <4>1, MulElem
    <3>4. \A j \in Below(k) : dst[j] \in Elem
      BY <1>1, <3>2, Sizes
    <3>5. \A j \in Below(k) : xor[dst[j]][gf_mul(m[i][c], row[j])] \in Elem
      BY <3>3, <3>4, XorLaws
    <3>6. xor[0][gf_mul(m[i][c], q)] = gf_mul(m[i][c], q)
      BY <1>1, MulElem, XorLaws
    <3> QED BY <1>2, <3>1, <3>2, <3>5, <3>6 DEF Vec
  <2> QED BY <2>1, <2>2
<1>6. m2 \in Mat(k)
  <2>1. m2 = [i \in Below(k) |-> m2[i]]
    BY DEF Eliminate
  <2> HIDE DEF m2
  <2> QED BY <1>2, <1>4, <1>5, <2>1 DEF Mat
<1> HIDE DEF m2
<1>7. Pivoted(m2, m, c, k)
  BY <1>2, <1>4, <1>5, <1>6 DEF Pivoted, q
<1> QED BY <1>7 DEF m2, pm, row

\* A set of naturals has a least element.
LEMMA LeastElement ==
  ASSUME NEW S \in SUBSET Nat, S # {} PROVE \E m \in S : \A n \in S : m <= n
<1> DEFINE T == {n \in Nat : n \notin S}
<1>1. ~(Nat \subseteq T)
  OBVIOUS
<1>2. PICK m \in Nat : m \notin T /\ \A n \in 0 .. m - 1 : n \in T
  <2> HIDE DEF T
  <2> QED BY <1>1, LeastMissing
<1>3. \A n \in S : m <= n
  <2> SUFFICES ASSUME NEW n \in S, n < m PROVE FALSE
    BY <1>2
  <2>1. n \in 0 .. m - 1
    BY <1>2
  <2> QED BY <1>2, <2>1
<1> QED BY <1>2, <1>3

\* The pivot is an entry that is not 0 outside the rows and columns already used.
LEMMA PivotIsCandidate ==
  ASSUME NEW k \in Nat, NEW m, NEW P, NEW col \in Below(k), Candidates(m, P, k) # {}
  PROVE  Pivot(m, P, col, k) \in Candidates(m, P, k)
<1> DEFINE C == Candidates(m, P, k)
           Least(rc) == \A other \in C : rc[1] < other[1] \/ (rc[1] = other[1] /\ rc[2] <= other[2])
<1>1. \A rc \in C : rc[1] \in Nat /\ rc[2] \in Nat
  BY DEF Candidates, Below
<1>2. CASE col \notin P /\ m[col][col] # 0
  BY <1>2 DEF Pivot, Candidates
<1>3. CASE ~(col \notin P /\ m[col][col] # 0)
  <2> DEFINE rows == {rc[1] : rc \in C}
  <2>1. rows \subseteq Nat /\ rows # {}
    BY <1>1
  <2>2. PICK r \in rows : \A n \in rows : r <= n
    <3> HIDE DEF rows
    <3> QED BY <2>1, LeastElement
  <2> DEFINE cols == {rc[2] : rc \in {d \in C : d[1] = r}}
  <2>3. cols \subseteq Nat /\ cols # {}
    BY <1>1, <2>2
  <2>4. PICK c \in cols : \A n \in cols : c <= n
    <3> HIDE DEF cols
    <3> QED BY <2>3, LeastElement
  <2>5. PICK rc \in C : rc[1] = r /\ rc[2] = c
    BY <2>4
  <2>6. Least(rc)
    <3> SUFFICES ASSUME NEW other \in C PROVE rc[1] < other[1] \/ (rc[1] = other[1] /\ rc[2] <= other[2])
      OBVIOUS
    <3>1. r <= other[1] /\ (other[1] = r => c <= other[2])
      BY <2>2, <2>4
    <3> HIDE DEF C
    <3> QED BY <1>1, <2>5, <3>1
  <2>7. Pivot(m, P, col, k) = CHOOSE d \in C : Least(d)
    BY <1>3 DEF Pivot
  <2> HIDE DEF C, Least
  <2> QED BY <2>5, <2>6, <2>7 DEF C
<1> QED BY <1>2, <1>3

LEMMA SwapExchanges ==
  ASSUME FieldReady, NEW k \in Nat, NEW m \in Mat(k), NEW P \in SUBSET Below(k),
         NEW r \in Below(k) \ P, NEW c \in Below(k) \ P, NEW x \in Vec(k), NEW y \in Vec(k)
  PROVE  Exchanged(m, P, x, y, k) <=> Exchanged(Swap(m, r, c), P, x, Swap(y, r, c), k)
<1> DEFINE m2 == Swap(m, r, c)
           y2 == Swap(y, r, c)
           U == Mixed(x, y, P, k)
           V == Mixed(y, x, P, k)
           V2 == Mixed(y2, x, P, k)
<1>1. y2 \in Vec(k) /\ y2[r] = y[c] /\ y2[c] = y[r] /\ \A l \in Below(k) : l # r /\ l # c => y2[l] = y[l]
  BY DEF Swap, Vec
<1>2. m2[r] = m[c] /\ m2[c] = m[r] /\ \A l \in Below(k) : l # r /\ l # c => m2[l] = m[l]
  BY DEF Swap, Mat
<1> HIDE DEF y2, m2
<1>3. Mixed(x, y2, P, k) = U
  BY <1>1 DEF Mixed
<1>4. V2[r] = V[c] /\ V2[c] = V[r] /\ \A l \in Below(k) : l # r /\ l # c => V2[l] = V[l]
  BY <1>1 DEF Mixed
<1> HIDE DEF U, V, V2
<1>5. (\A i \in Below(k) : V[i] = Dot(m[i], U, k)) <=> (\A i \in Below(k) : V2[i] = Dot(m2[i], U, k))
  <2> DEFINE dot(row) == Dot(row, U, k)
  <2>1. dot(m2[r]) = dot(m[c]) /\ dot(m2[c]) = dot(m[r]) /\ \A l \in Below(k) : l # r /\ l # c => dot(m2[l]) = dot(m[l])
    BY <1>2
  <2> QED BY <1>4, <2>1
<1> QED BY <1>3, <1>5 DEF Exchanged, U, V, V2, y2, m2

\* The vector y after each of the row swaps.
Swaps(Y, y, indx, k) ==
  /\ Y \in [0 .. Len(indx) -> Vec(k)] /\ Y[0] = y
  /\ \A i \in 1 .. Len(indx) : Y[i] = Swap(Y[i - 1], indx[i][1], indx[i][2])

Singular(a, k) ==
  \E x \in Vec(k) : (\E i \in Below(k) : x[i] # 0) /\ \A i \in Below(k) : Dot(a[i], x, k) = 0

GaussState(k) ==
  [m : Mat(k), ipiv : SUBSET Below(k), indx : Seq(Below(k) \X Below(k)), error : BOOLEAN]

\* After col columns of the matrix a.
GaussInv(st, a, col, k) ==
  /\ st.error => Singular(a, k)
  /\ ~st.error =>
       /\ Cardinality(st.ipiv) = col /\ Len(st.indx) = col
       /\ \A x, y \in Vec(k) : \A Y :
            Swaps(Y, y, st.indx, k) =>
              (Image(a, x, y, k) <=> Exchanged(st.m, st.ipiv, x, Y[Len(st.indx)], k))

\* One column in which a pivot is found.
LEMMA ReduceFound ==
  ASSUME FieldReady, NEW k \in Nat, NEW col \in Below(k), NEW st \in GaussState(k),
         ~st.error, Candidates(st.m, st.ipiv, k) # {}
  PROVE  LET st2 == ReduceColumn(st, col, k) IN
         \E rc \in Candidates(st.m, st.ipiv, k) :
           /\ st2 \in GaussState(k) /\ st2.ipiv = st.ipiv \cup {rc[2]} /\ st2.indx = Append(st.indx, rc)
           /\ ~st2.error
           /\ Swap(st.m, rc[1], rc[2]) \in Mat(k) /\ Swap(st.m, rc[1], rc[2])[rc[2]][rc[2]] # 0
           /\ Pivoted(st2.m, Swap(st.m, rc[1], rc[2]), rc[2], k)
<1> DEFINE rc == Pivot(st.m, st.ipiv, col, k)
           m1 == Swap(st.m, rc[1], rc[2])
           m2 == Eliminate([m1 EXCEPT ![rc[2]] = Scaled(@, rc[2])], rc[2], k)
           st2 == ReduceColumn(st, col, k)
<1>1. rc \in Candidates(st.m, st.ipiv, k)
  BY PivotIsCandidate
<1>2. st.m \in Mat(k) /\ st.ipiv \in SUBSET Below(k) /\ st.indx \in Seq(Below(k) \X Below(k))
  BY DEF GaussState
<1>3. st2 = [m |-> m2, ipiv |-> st.ipiv \cup {rc[2]}, indx |-> Append(st.indx, rc), error |-> FALSE]
  BY DEF ReduceColumn
<1> HIDE DEF rc, st2
<1>4. rc \in Below(k) \X Below(k) /\ rc[1] \in Below(k) /\ rc[2] \in Below(k) /\ st.m[rc[1]][rc[2]] # 0
  BY <1>1 DEF Candidates
<1>5. m1 \in Mat(k) /\ m1[rc[2]] = st.m[rc[1]]
  <2> DEFINE mm == st.m
             r == rc[1]
             c == rc[2]
  <2>1. mm \in Mat(k) /\ r \in Below(k) /\ c \in Below(k)
    BY <1>2, <1>4
  <2> HIDE DEF mm, r, c
  <2>2. Swap(mm, r, c) \in Mat(k) /\ Swap(mm, r, c)[c] = mm[r]
    BY <2>1 DEF Swap, Mat
  <2> QED BY <2>2 DEF mm, r, c
<1> HIDE DEF m1
<1>6. m1[rc[2]][rc[2]] # 0
  BY <1>4, <1>5
<1>7. Pivoted(m2, m1, rc[2], k)
  BY <1>4, <1>5, <1>6, EliminatePivots
<1>8. m2 \in Mat(k)
  BY <1>7 DEF Pivoted
<1> HIDE DEF m2
<1>9. st2 \in GaussState(k)
  BY <1>2, <1>3, <1>4, <1>8 DEF GaussState
<1>10. st2.m = m2 /\ st2.ipiv = st.ipiv \cup {rc[2]} /\ st2.indx = Append(st.indx, rc) /\ ~st2.error
  BY <1>3
<1> QED BY <1>1, <1>5, <1>6, <1>7, <1>9, <1>10 DEF m1, st2

\* A column in which none is found leaves a vector that the matrix takes to 0.
LEMMA NoPivotSingular ==
  ASSUME FieldReady, NEW k \in Nat, NEW a, NEW m \in Mat(k), NEW P \in SUBSET Below(k), NEW j \in Below(k) \ P,
         NEW indx \in Seq(Below(k) \X Below(k)), Candidates(m, P, k) = {},
         \A x, y \in Vec(k) : \A Y :
            Swaps(Y, y, indx, k) => (Image(a, x, y, k) <=> Exchanged(m, P, x, Y[Len(indx)], k))
  PROVE  Singular(a, k)
<1> DEFINE zero == [l \in Below(k) |-> 0]
           Y == [i \in 0 .. Len(indx) |-> zero]
           U == [l \in Below(k) |-> IF l = j THEN 1 ELSE 0]
           x == [l \in Below(k) |-> IF l \in P THEN Dot(m[l], U, k) ELSE U[l]]
<1>1. zero \in Vec(k) /\ U \in Vec(k) /\ 0 \in Elem /\ 1 \in Elem
  BY Sizes DEF Vec
<1>2. \A l \in Below(k) : m[l] \in Vec(k) /\ \A i \in Below(k) : m[l][i] \in Elem
  BY DEF Mat, Vec
<1>3. Swaps(Y, zero, indx, k)
  <2>1. Len(indx) \in Nat
    OBVIOUS
  <2>2. ASSUME NEW i \in 1 .. Len(indx) PROVE Y[i] = Swap(Y[i - 1], indx[i][1], indx[i][2])
    <3>1. indx[i] \in Below(k) \X Below(k) /\ i \in 0 .. Len(indx) /\ i - 1 \in 0 .. Len(indx)
      BY <2>1
    <3>2. Swap(zero, indx[i][1], indx[i][2]) = zero
      BY <3>1 DEF Swap
    <3> QED BY <3>1, <3>2
  <2> QED BY <1>1, <2>1, <2>2 DEF Swaps
<1>4. Y[Len(indx)] = zero
  OBVIOUS
<1> HIDE DEF U
<1>5. x \in Vec(k)
  <2> SUFFICES ASSUME NEW l \in Below(k) PROVE x[l] \in Elem
    BY DEF Vec
  <2>1. Dot(m[l], U, k) \in Elem /\ U[l] \in Elem
    BY <1>1, <1>2, DotElem DEF Vec
  <2> QED BY <2>1
<1>6. Mixed(x, zero, P, k) = U
  BY DEF Mixed, U
<1>7. ASSUME NEW l \in Below(k) \ P PROVE Dot(m[l], U, k) = 0
  <2> SUFFICES ASSUME NEW i \in Below(k) PROVE gf_mul(m[l][i], U[i]) = 0
    BY XorAllZero DEF Dot
  <2>1. CASE i \in P
    <3>1. U[i] = 0
      BY <2>1 DEF U
    <3> QED BY <1>2, <3>1, MulUnits
  <2>2. CASE i \notin P
    <3>1. <<l, i>> \notin Candidates(m, P, k)
      OBVIOUS
    <3>2. m[l][i] = 0
      BY <2>2, <3>1 DEF Candidates
    <3>3. U[i] \in Elem
      BY <1>1 DEF Vec
    <3> QED BY <3>2, <3>3, MulUnits
  <2> QED BY <2>1, <2>2
<1>8. Exchanged(m, P, x, zero, k)
  <2> SUFFICES ASSUME NEW i \in Below(k) PROVE Mixed(zero, x, P, k)[i] = Dot(m[i], U, k)
    BY <1>6 DEF Exchanged
  <2> QED BY <1>7 DEF Mixed
<1>9. Image(a, x, zero, k)
  <2> HIDE DEF x, zero, Y
  <2>1. Exchanged(m, P, x, Y[Len(indx)], k)
    BY <1>4, <1>8
  <2> QED BY <1>1, <1>3, <1>5, <2>1
<1>10. x[j] # 0
  BY DEF U
<1>11. \A i \in Below(k) : Dot(a[i], x, k) = 0
  BY <1>9 DEF Image
<1> HIDE DEF x
<1> QED BY <1>5, <1>10, <1>11 DEF Singular

LEMMA BelowFinite ==
  ASSUME NEW k \in Nat PROVE IsFiniteSet(Below(k)) /\ Cardinality(Below(k)) = k
<1>1. 0 \in Int /\ k - 1 \in Int
  OBVIOUS
<1>2. IsFiniteSet(0 .. k - 1) /\ Cardinality(0 .. k - 1) = IF 0 > k - 1 THEN 0 ELSE k - 1 - 0 + 1
  BY <1>1, FS_Interval
<1> QED BY <1>2 DEF Below

LEMMA SwapsShorter ==
  ASSUME NEW k \in Nat, NEW indx \in Seq(Below(k) \X Below(k)), NEW rc \in Below(k) \X Below(k), NEW y, NEW Y,
         Swaps(Y, y, Append(indx, rc), k)
  PROVE  LET Y0 == [i \in 0 .. Len(indx) |-> Y[i]] IN
         /\ Swaps(Y0, y, indx, k) /\ Y0[Len(indx)] = Y[Len(indx)] /\ Y[Len(indx)] \in Vec(k)
         /\ Len(Append(indx, rc)) = Len(indx) + 1
         /\ Y[Len(indx) + 1] = Swap(Y[Len(indx)], rc[1], rc[2])
<1> DEFINE L == Len(indx)
           longer == Append(indx, rc)
           Y0 == [i \in 0 .. L |-> Y[i]]
<1>1. L \in Nat /\ Len(longer) = L + 1 /\ longer[L + 1] = rc /\ \A i \in 1 .. L : longer[i] = indx[i]
  OBVIOUS
<1> HIDE DEF L, longer
<1>2. Y \in [0 .. L + 1 -> Vec(k)] /\ Y[0] = y /\ \A i \in 1 .. L + 1 : Y[i] = Swap(Y[i - 1], longer[i][1], longer[i][2])
  BY <1>1 DEF Swaps, longer
<1>3. \A i \in 0 .. L : i \in 0 .. L + 1
  BY <1>1
<1>4. Y0 \in [0 .. L -> Vec(k)] /\ Y0[0] = y /\ Y0[L] = Y[L] /\ Y[L] \in Vec(k)
  BY <1>1, <1>2, <1>3
<1>5. ASSUME NEW i \in 1 .. L PROVE Y0[i] = Swap(Y0[i - 1], indx[i][1], indx[i][2])
  <2>1. i \in 1 .. L + 1 /\ i \in 0 .. L /\ i - 1 \in 0 .. L
    BY <1>1
  <2>2. Y0[i] = Y[i] /\ Y0[i - 1] = Y[i - 1]
    BY <2>1
  <2> HIDE DEF Y0
  <2> QED BY <1>1, <1>2, <2>1, <2>2
<1>6. Y[L + 1] = Swap(Y[L], rc[1], rc[2])
  <2>1. L + 1 \in 1 .. L + 1 /\ L + 1 - 1 = L
    BY <1>1
  <2> QED BY <1>1, <1>2, <2>1
<1>7. Swaps(Y0, y, indx, k)
  BY <1>4, <1>5 DEF Swaps, L
<1> QED BY <1>1, <1>4, <1>6, <1>7 DEF L, longer

LEMMA GaussStep ==
  ASSUME FieldReady, NEW k \in Nat, NEW a, NEW col \in Below(k), NEW st \in GaussState(k), GaussInv(st, a, col, k)
  PROVE  ReduceColumn(st, col, k) \in GaussState(k) /\ GaussInv(ReduceColumn(st, col, k), a, col + 1, k)
<1> DEFINE st2 == ReduceColumn(st, col, k)
<1>1. st.m \in Mat(k) /\ st.ipiv \in SUBSET Below(k) /\ st.indx \in Seq(Below(k) \X Below(k)) /\ st.error \in BOOLEAN
  BY DEF GaussState
<1>2. CASE st.error \/ Candidates(st.m, st.ipiv, k) = {}
  <2>1. st2 = [st EXCEPT !.error = TRUE]
    BY <1>2 DEF ReduceColumn
  <2>2. st2 \in GaussState(k) /\ st2.error
    BY <2>1 DEF GaussState
  <2>3. Singular(a, k)
    <3>1. CASE st.error
      BY <3>1 DEF GaussInv
    <3>2. CASE ~st.error
      <4> DEFINE m == st.m
                 P == st.ipiv
                 indx == st.indx
      <4>1. Cardinality(P) = col
        BY <3>2 DEF GaussInv
      <4>2. Cardinality(Below(k)) = k /\ col # k
        BY BelowFinite DEF Below
      <4>3. PICK j \in Below(k) : j \notin P
        <5>1. P # Below(k) /\ P \subseteq Below(k)
          BY <1>1, <4>1, <4>2
        <5> HIDE DEF P
        <5> QED BY <5>1
      <4>4. \A x, y \in Vec(k) : \A Y :
              Swaps(Y, y, indx, k) => (Image(a, x, y, k) <=> Exchanged(m, P, x, Y[Len(indx)], k))
        BY <3>2 DEF GaussInv
      <4>5. m \in Mat(k) /\ P \in SUBSET Below(k) /\ indx \in Seq(Below(k) \X Below(k)) /\ Candidates(m, P, k) = {}
        BY <1>1, <1>2, <3>2
      <4> HIDE DEF m, P, indx
      <4> QED BY <4>3, <4>4, <4>5, NoPivotSingular
    <3> QED BY <3>1, <3>2
  <2> HIDE DEF st2
  <2>4. GaussInv(st2, a, col + 1, k)
    BY <2>2, <2>3 DEF GaussInv
  <2> QED BY <2>2, <2>4 DEF st2
<1>3. CASE ~st.error /\ Candidates(st.m, st.ipiv, k) # {}
  <2> DEFINE m == st.m
             P == st.ipiv
             indx == st.indx
             m2 == st2.m
  <2>1. PICK rc \in Candidates(m, P, k) :
          /\ st2 \in GaussState(k) /\ st2.ipiv = P \cup {rc[2]} /\ st2.indx = Append(indx, rc)
          /\ ~st2.error
          /\ Swap(m, rc[1], rc[2]) \in Mat(k) /\ Swap(m, rc[1], rc[2])[rc[2]][rc[2]] # 0
          /\ Pivoted(m2, Swap(m, rc[1], rc[2]), rc[2], k)
    BY <1>3, ReduceFound
  <2> DEFINE r == rc[1]
             c == rc[2]
             m1 == Swap(m, r, c)
  <2>2. r \in Below(k) \ P /\ c \in Below(k) \ P /\ rc \in Below(k) \X Below(k)
    BY DEF Candidates
  <2>3. m \in Mat(k) /\ P \in SUBSET Below(k) /\ indx \in Seq(Below(k) \X Below(k))
    BY <1>1
  <2>4. Cardinality(P) = col /\ Len(indx) = col
    BY <1>3 DEF GaussInv
  <2>5. \A x, y \in Vec(k) : \A Y :
          Swaps(Y, y, indx, k) => (Image(a, x, y, k) <=> Exchanged(m, P, x, Y[Len(indx)], k))
    BY <1>3 DEF GaussInv
  <2>6. m1 \in Mat(k) /\ m1[c][c] # 0 /\ Pivoted(m2, m1, c, k)
    BY <2>1
  <2> HIDE DEF m, P, indx, m2, r, c, m1
  <2>7. Cardinality(P \cup {c}) = col + 1
    <3>1. IsFiniteSet(P)
      BY <2>3, BelowFinite, FS_Subset
    <3> QED BY <2>2, <2>4, <3>1, FS_AddElement
  <2>8. ASSUME NEW x \in Vec(k), NEW y \in Vec(k), NEW Y, Swaps(Y, y, Append(indx, rc), k)
        PROVE  Image(a, x, y, k) <=> Exchanged(m2, P \cup {c}, x, Y[Len(indx) + 1], k)
    <3> DEFINE Y0 == [i \in 0 .. Len(indx) |-> Y[i]]
               z == Y[Len(indx)]
    <3>1. Swaps(Y0, y, indx, k) /\ Y0[Len(indx)] = z /\ z \in Vec(k) /\ Y[Len(indx) + 1] = Swap(z, r, c)
      BY <2>2, <2>3, <2>8, SwapsShorter DEF r, c
    <3> HIDE DEF Y0, z
    <3>2. Image(a, x, y, k) <=> Exchanged(m, P, x, z, k)
      BY <2>5, <3>1
    <3>3. Exchanged(m, P, x, z, k) <=> Exchanged(m1, P, x, Swap(z, r, c), k)
      BY <2>2, <2>3, <3>1, SwapExchanges DEF m1
    <3> DEFINE z2 == Swap(z, r, c)
    <3>4. z2 \in Vec(k)
      BY <2>2, <3>1 DEF Swap, Vec
    <3> HIDE DEF z2
    <3>5. Exchanged(m1, P, x, z2, k) <=> Exchanged(m2, P \cup {c}, x, z2, k)
      BY <2>2, <2>3, <2>6, <3>4, PivotExchanges
    <3> QED BY <3>1, <3>2, <3>3, <3>5 DEF z2
  <2>9. Len(st2.indx) = Len(indx) + 1
    BY <2>1, <2>2, <2>3 DEF indx
  <2>10. st2 \in GaussState(k) /\ st2.ipiv = P \cup {c} /\ st2.indx = Append(indx, rc) /\ ~st2.error /\ st2.m = m2
    BY <2>1 DEF m, P, indx, m2, c
  <2> HIDE DEF st2
  <2>11. GaussInv(st2, a, col + 1, k)
    <3>1. Len(st2.indx) = col + 1 /\ Cardinality(st2.ipiv) = col + 1
      BY <2>4, <2>7, <2>9, <2>10
    <3>2. ASSUME NEW x \in Vec(k), NEW y \in Vec(k), NEW Y, Swaps(Y, y, st2.indx, k)
          PROVE  Image(a, x, y, k) <=> Exchanged(st2.m, st2.ipiv, x, Y[Len(st2.indx)], k)
      BY <2>8, <2>9, <2>10, <3>2
    <3> QED BY <2>10, <3>1, <3>2 DEF GaussInv
  <2> QED BY <2>10, <2>11 DEF st2
<1> QED BY <1>2, <1>3

LEMMA ReduceTyped ==
  ASSUME FieldReady, NEW k \in Nat, NEW col \in Below(k), NEW st \in GaussState(k)
  PROVE  ReduceColumn(st, col, k) \in GaussState(k)
<1>1. CASE st.error \/ Candidates(st.m, st.ipiv, k) = {}
  <2>1. ReduceColumn(st, col, k) = [st EXCEPT !.error = TRUE]
    BY <1>1 DEF ReduceColumn
  <2> QED BY <2>1 DEF GaussState
<1>2. CASE ~st.error /\ Candidates(st.m, st.ipiv, k) # {}
  BY <1>2, ReduceFound
<1> QED BY <1>1, <1>2

GaussStart(a) == [m |-> a, ipiv |-> {}, indx |-> <<>>, error |-> FALSE]

LEMMA GaussUnfolds ==
  ASSUME FieldReady, NEW k \in Nat, NEW a \in Mat(k)
  PROVE  \E c : /\ c[0] = GaussStart(a) /\ \A i \in 1 .. k : c[i] = ReduceColumn(c[i - 1], i - 1, k)
                /\ invert_mat(a, k) =
                     [error |-> c[k].error,
                      m |-> IF c[k].error THEN c[k].m ELSE SwapColumns(c[k].m, c[k].indx)]
<1> DEFINE Def(g) == [i \in 0 .. k |-> IF i = 0 THEN GaussStart(a) ELSE ReduceColumn(g[i - 1], i - 1, k)]
           S == GaussState(k)
           G == [i \in 1 .. k |-> [st \in S |-> ReduceColumn(st, i - 1, k)]]
           c == CHOOSE g : g = Def(g)
<1>1. GaussStart(a) \in S
  BY DEF GaussStart, GaussState
<1>2. G \in [1 .. k -> [S -> S]]
  <2> SUFFICES ASSUME NEW i \in 1 .. k, NEW st \in S PROVE ReduceColumn(st, i - 1, k) \in S
    OBVIOUS
  <2>1. i - 1 \in Below(k)
    BY DEF Below
  <2> QED BY <2>1, ReduceTyped
<1>3. PICK A : IsIteration(A, k, S, GaussStart(a), G)
  <2> HIDE DEF S, G
  <2> QED BY <1>1, <1>2, IterationExists
<1>4. A \in [0 .. k -> S] /\ A[0] = GaussStart(a) /\ \A i \in 1 .. k : A[i] = ReduceColumn(A[i - 1], i - 1, k)
  <2>1. A \in [0 .. k -> S] /\ A[0] = GaussStart(a) /\ \A i \in 1 .. k : A[i] = G[i][A[i - 1]] /\ i - 1 \in 0 .. k
    BY <1>3 DEF IsIteration
  <2> HIDE DEF S
  <2> QED BY <2>1
<1>5. A = Def(A)
  <2>1. ASSUME NEW i \in 0 .. k PROVE A[i] = Def(A)[i]
    <3>1. i = 0 \/ i \in 1 .. k
      OBVIOUS
    <3> QED BY <1>4, <3>1
  <2>2. A = [i \in 0 .. k |-> A[i]] /\ Def(A) = [i \in 0 .. k |-> Def(A)[i]]
    BY <1>4
  <2> HIDE DEF Def
  <2> QED BY <2>1, <2>2
<1>6. c = Def(c)
  <2> HIDE DEF Def
  <2> QED BY <1>5
<1>7. invert_mat(a, k) = [error |-> c[k].error, m |-> IF c[k].error THEN c[k].m ELSE SwapColumns(c[k].m, c[k].indx)]
  BY DEF invert_mat, GaussStart
<1> HIDE DEF c
<1>8. \A g : Def(g)[0] = GaussStart(a) /\ \A i \in 1 .. k : Def(g)[i] = ReduceColumn(g[i - 1], i - 1, k)
  OBVIOUS
<1>9. c[0] = GaussStart(a) /\ \A i \in 1 .. k : c[i] = ReduceColumn(c[i - 1], i - 1, k)
  <2> HIDE DEF Def
  <2> QED BY <1>6, <1>8
<1> QED BY <1>7, <1>9

LEMMA UndoneUnfolds ==
  ASSUME NEW k \in Nat, NEW m \in Mat(k), NEW indx \in Seq(Below(k) \X Below(k))
  PROVE  \E u : /\ u \in [0 .. Len(indx) -> Mat(k)] /\ u[0] = m /\ SwapColumns(m, indx) = u[Len(indx)]
                /\ \A i \in 1 .. Len(indx) :
                     u[i] = [row \in Below(k) |->
                               Swap(u[i - 1][row], indx[Len(indx) + 1 - i][1], indx[Len(indx) + 1 - i][2])]
<1> DEFINE L == Len(indx)
           Back(x, i) == [row \in Below(k) |-> Swap(x[row], indx[L + 1 - i][1], indx[L + 1 - i][2])]
           Def(g) == [i \in 0 .. L |-> IF i = 0 THEN m ELSE Back(g[i - 1], i)]
           S == Mat(k)
           G == [i \in 1 .. L |-> [x \in S |-> Back(x, i)]]
           c == CHOOSE g : g = Def(g)
<1>1. L \in Nat
  OBVIOUS
<1>2. G \in [1 .. L -> [S -> S]]
  <2> SUFFICES ASSUME NEW i \in 1 .. L, NEW x \in S PROVE Back(x, i) \in S
    OBVIOUS
  <2>1. indx[L + 1 - i] \in Below(k) \X Below(k)
    BY <1>1
  <2>2. \A row \in Below(k) : x[row] \in [Below(k) -> Elem]
    BY DEF Mat, Vec
  <2>3. \A row \in Below(k) : Swap(x[row], indx[L + 1 - i][1], indx[L + 1 - i][2]) \in [Below(k) -> Elem]
    BY <2>1, <2>2 DEF Swap
  <2> QED BY <2>3 DEF Mat, Vec
<1>3. PICK A : IsIteration(A, L, S, m, G)
  <2> HIDE DEF S, G, L
  <2>1. m \in S
    BY DEF S
  <2> QED BY <1>1, <1>2, <2>1, IterationExists
<1>4. A \in [0 .. L -> S] /\ A[0] = m /\ \A i \in 1 .. L : A[i] = Back(A[i - 1], i)
  <2>1. A \in [0 .. L -> S] /\ A[0] = m /\ \A i \in 1 .. L : A[i] = G[i][A[i - 1]] /\ i - 1 \in 0 .. L
    BY <1>1, <1>3 DEF IsIteration
  <2> HIDE DEF S, L, Back
  <2> QED BY <2>1
<1> HIDE DEF Back
<1>5. A = Def(A)
  <2>1. ASSUME NEW i \in 0 .. L PROVE A[i] = Def(A)[i]
    <3>1. i = 0 \/ i \in 1 .. L
      BY <1>1
    <3> HIDE DEF L
    <3> QED BY <1>4, <3>1
  <2>2. A = [i \in 0 .. L |-> A[i]] /\ Def(A) = [i \in 0 .. L |-> Def(A)[i]]
    BY <1>4
  <2> HIDE DEF Def, L
  <2> QED BY <2>1, <2>2
<1>6. c = Def(c)
  <2> HIDE DEF Def
  <2> QED BY <1>5
<1>7. SwapColumns(m, indx) = c[L]
  <2>1. DOMAIN m = Below(k)
    BY DEF Mat
  <2> QED BY <2>1 DEF SwapColumns, Back
<1> HIDE DEF c
<1>8. \A g : /\ Def(g)[0] = m /\ \A i \in 1 .. L : Def(g)[i] = Back(g[i - 1], i)
             /\ Def(g) = [i \in 0 .. L |-> Def(g)[i]]
  BY <1>1
<1>9. c[0] = m /\ \A i \in 1 .. L : c[i] = Back(c[i - 1], i)
  <2> HIDE DEF Def
  <2> QED BY <1>6, <1>8
<1>12. c = [i \in 0 .. L |-> c[i]]
  <2> HIDE DEF Def
  <2> QED BY <1>6, <1>8
<1>10. ASSUME NEW i \in 0 .. L PROVE c[i] = A[i]
  <2> DEFINE I == {j \in Nat : j <= L => c[j] = A[j]}
  <2>1. 0 \in I
    BY <1>4, <1>9
  <2>2. ASSUME NEW j \in Nat, j \in I PROVE j + 1 \in I
    <3> SUFFICES ASSUME j + 1 <= L PROVE c[j + 1] = A[j + 1]
      OBVIOUS
    <3>1. j + 1 \in 1 .. L /\ j + 1 - 1 = j /\ c[j] = A[j]
      BY <1>1, <2>2
    <3> HIDE DEF L
    <3>2. c[j + 1] = Back(c[j + 1 - 1], j + 1)
      BY <1>9, <3>1
    <3>3. A[j + 1] = Back(A[j + 1 - 1], j + 1)
      BY <1>4, <3>1
    <3> QED BY <3>1, <3>2, <3>3
  <2>3. Nat \subseteq I
    <3> HIDE DEF I
    <3> QED BY <2>1, <2>2, SetInduction
  <2> QED BY <1>1, <2>3
<1>11. c \in [0 .. L -> S]
  <2> HIDE DEF L, S
  <2> QED BY <1>4, <1>10, <1>12
<1> QED BY <1>7, <1>9, <1>11 DEF Back

LEMMA SwapsExist ==
  ASSUME NEW k \in Nat, NEW indx \in Seq(Below(k) \X Below(k)), NEW y \in Vec(k)
  PROVE  \E Y : Swaps(Y, y, indx, k)
<1> DEFINE L == Len(indx)
           S == Vec(k)
           G == [i \in 1 .. L |-> [x \in S |-> Swap(x, indx[i][1], indx[i][2])]]
<1>1. L \in Nat
  OBVIOUS
<1>2. G \in [1 .. L -> [S -> S]]
  <2> SUFFICES ASSUME NEW i \in 1 .. L, NEW x \in S PROVE Swap(x, indx[i][1], indx[i][2]) \in S
    OBVIOUS
  <2>1. indx[i] \in Below(k) \X Below(k)
    OBVIOUS
  <2> QED BY <2>1 DEF Swap, Vec
<1>3. PICK Y : IsIteration(Y, L, S, y, G)
  <2> HIDE DEF S, G, L
  <2>1. y \in S
    BY DEF S
  <2> QED BY <1>1, <1>2, <2>1, IterationExists
<1>4. Y \in [0 .. L -> S] /\ Y[0] = y /\ \A i \in 1 .. L : Y[i] = G[i][Y[i - 1]] /\ i - 1 \in 0 .. L
  BY <1>1, <1>3 DEF IsIteration
<1>5. ASSUME NEW i \in 1 .. L PROVE Y[i] = Swap(Y[i - 1], indx[i][1], indx[i][2])
  <2>1. Y[i - 1] \in S /\ Y[i] = G[i][Y[i - 1]]
    BY <1>4
  <2> HIDE DEF S, L
  <2> QED BY <2>1
<1>6. Swaps(Y, y, indx, k)
  BY <1>4, <1>5 DEF Swaps
<1> QED BY <1>6

\* Taking the column swaps back on the matrix is redoing the row swaps on the vector.
LEMMA UndoneDot ==
  ASSUME FieldReady, NEW k \in Nat, NEW m \in Mat(k), NEW indx \in Seq(Below(k) \X Below(k)),
         NEW y \in Vec(k), NEW Y, Swaps(Y, y, indx, k)
  PROVE  /\ SwapColumns(m, indx) \in Mat(k)
         /\ \A r \in Below(k) : Dot(SwapColumns(m, indx)[r], y, k) = Dot(m[r], Y[Len(indx)], k)
<1> DEFINE L == Len(indx)
<1>1. L \in Nat
  OBVIOUS
<1>2. \A i \in 1 .. L : indx[i][1] \in Below(k) /\ indx[i][2] \in Below(k)
  <2>1. \A i \in 1 .. L : indx[i] \in Below(k) \X Below(k)
    OBVIOUS
  <2> QED BY <2>1
<1>3. PICK u : /\ u \in [0 .. L -> Mat(k)] /\ u[0] = m /\ SwapColumns(m, indx) = u[L]
               /\ \A i \in 1 .. L :
                    u[i] = [row \in Below(k) |-> Swap(u[i - 1][row], indx[L + 1 - i][1], indx[L + 1 - i][2])]
  BY UndoneUnfolds
<1>4. Y \in [0 .. L -> Vec(k)] /\ Y[0] = y /\ \A i \in 1 .. L : Y[i] = Swap(Y[i - 1], indx[i][1], indx[i][2])
  BY DEF Swaps
<1> HIDE DEF L
<1>5. ASSUME NEW r \in Below(k) PROVE Dot(u[L][r], y, k) = Dot(m[r], Y[L], k)
  <2> DEFINE I == {i \in Nat : i <= L => Dot(u[i][r], Y[L - i], k) = Dot(m[r], Y[L], k)}
  <2>1. 0 \in I
    BY <1>1, <1>3
  <2>2. ASSUME NEW i \in Nat, i \in I PROVE i + 1 \in I
    <3> SUFFICES ASSUME i + 1 <= L PROVE Dot(u[i + 1][r], Y[L - (i + 1)], k) = Dot(m[r], Y[L], k)
      OBVIOUS
    <3> DEFINE j == L - i
               p == indx[j][1]
               q == indx[j][2]
               row == u[i][r]
               v == Y[j - 1]
    <3>1. i + 1 \in 1 .. L /\ j \in 1 .. L /\ j - 1 \in 0 .. L /\ i \in 0 .. L /\ L + 1 - (i + 1) = j /\ L - (i + 1) = j - 1
          /\ i + 1 - 1 = i
      BY <1>1
    <3>2. p \in Below(k) /\ q \in Below(k)
      BY <1>2, <3>1
    <3>3. row \in Vec(k) /\ v \in Vec(k)
      <4>1. u[i] \in Mat(k)
        BY <1>3, <3>1
      <4> QED BY <1>4, <3>1, <4>1 DEF Mat
    <3>4. u[i + 1][r] = Swap(row, p, q)
      <4>1. u[i + 1] = [t \in Below(k) |-> Swap(u[i + 1 - 1][t], indx[L + 1 - (i + 1)][1], indx[L + 1 - (i + 1)][2])]
        BY <1>3, <3>1
      <4> QED BY <3>1, <4>1
    <3>5. Y[j] = Swap(v, p, q)
      BY <1>4, <3>1
    <3>6. Dot(row, Y[j], k) = Dot(m[r], Y[L], k)
      <4>1. i <= L => Dot(u[i][r], Y[L - i], k) = Dot(m[r], Y[L], k)
        BY <2>2
      <4> QED BY <1>1, <3>1, <4>1
    <3> HIDE DEF row, v, p, q, j
    <3>7. Dot(Swap(row, p, q), v, k) = Dot(row, Swap(v, p, q), k)
      BY <3>2, <3>3, DotSwap
    <3>8. Y[L - (i + 1)] = v
      BY <3>1 DEF v
    <3> QED BY <3>4, <3>5, <3>6, <3>7, <3>8
  <2>3. Nat \subseteq I
    <3> HIDE DEF I
    <3> QED BY <2>1, <2>2, SetInduction
  <2>4. L \in I /\ L - L = 0
    BY <1>1, <2>3
  <2> QED BY <1>4, <2>4
<1>6. u[L] \in Mat(k)
  BY <1>1, <1>3
<1> QED BY <1>3, <1>5, <1>6 DEF L

(***************************************************************************)
(* invert_mat reports a matrix only if it is singular, and otherwise       *)
(* returns the matrix that takes each image back, wherever the pivots were *)
(* found (fec.cc:391-515).                                                 *)
(***************************************************************************)
THEOREM InvertMat ==
  ASSUME FieldReady, NEW k \in Nat, NEW a \in Mat(k)
  PROVE  LET r == invert_mat(a, k) IN
         /\ r = [error |-> r.error, m |-> r.m] /\ r.error \in BOOLEAN
         /\ r.error => Singular(a, k)
         /\ ~r.error => r.m \in Mat(k) /\ \A x, y \in Vec(k) : Image(a, x, y, k) <=> Image(r.m, y, x, k)
<1> DEFINE ret == invert_mat(a, k)
<1>1. PICK c : /\ c[0] = GaussStart(a) /\ \A i \in 1 .. k : c[i] = ReduceColumn(c[i - 1], i - 1, k)
               /\ ret = [error |-> c[k].error,
                         m |-> IF c[k].error THEN c[k].m ELSE SwapColumns(c[k].m, c[k].indx)]
  BY GaussUnfolds
<1> HIDE DEF ret
<1> DEFINE I == {i \in Nat : i <= k => c[i] \in GaussState(k) /\ GaussInv(c[i], a, i, k)}
<1>2. 0 \in I
  <2> DEFINE st == GaussStart(a)
  <2>1. st \in GaussState(k) /\ ~st.error /\ st.m = a /\ st.ipiv = {} /\ st.indx = <<>> /\ Len(st.indx) = 0
    BY DEF GaussStart, GaussState
  <2> HIDE DEF st
  <2>2. Cardinality(st.ipiv) = 0
    BY <2>1, FS_EmptySet
  <2>3. ASSUME NEW x \in Vec(k), NEW y \in Vec(k), NEW Y, Swaps(Y, y, st.indx, k)
        PROVE  Image(a, x, y, k) <=> Exchanged(st.m, st.ipiv, x, Y[Len(st.indx)], k)
    <3>1. Y[0] = y
      BY <2>3 DEF Swaps
    <3>2. Mixed(x, y, {}, k) = x /\ Mixed(y, x, {}, k) = y
      BY DEF Mixed, Vec
    <3> QED BY <2>1, <3>1, <3>2 DEF Exchanged, Image
  <2>4. GaussInv(st, a, 0, k)
    BY <2>1, <2>2, <2>3 DEF GaussInv
  <2> QED BY <1>1, <2>1, <2>4 DEF st
<1>3. ASSUME NEW i \in Nat, i \in I PROVE i + 1 \in I
  <2> SUFFICES ASSUME i + 1 <= k PROVE c[i + 1] \in GaussState(k) /\ GaussInv(c[i + 1], a, i + 1, k)
    OBVIOUS
  <2>1. c[i] \in GaussState(k) /\ GaussInv(c[i], a, i, k)
    BY <1>3
  <2>2. i + 1 \in 1 .. k /\ i + 1 - 1 = i /\ i \in Below(k)
    BY DEF Below
  <2>3. c[i + 1] = ReduceColumn(c[i], i, k)
    <3>1. c[i + 1] = ReduceColumn(c[i + 1 - 1], i + 1 - 1, k)
      BY <1>1, <2>2
    <3> QED BY <2>2, <3>1
  <2> QED BY <2>1, <2>2, <2>3, GaussStep
<1>4. Nat \subseteq I
  <2> HIDE DEF I
  <2> QED BY <1>2, <1>3, SetInduction
<1> DEFINE last == c[k]
<1>5. last \in GaussState(k) /\ GaussInv(last, a, k, k)
  BY <1>4
<1>6. ret = [error |-> last.error, m |-> IF last.error THEN last.m ELSE SwapColumns(last.m, last.indx)]
  BY <1>1
<1> HIDE DEF last, I
<1>7. last.m \in Mat(k) /\ last.ipiv \in SUBSET Below(k) /\ last.indx \in Seq(Below(k) \X Below(k)) /\ last.error \in BOOLEAN
  BY <1>5 DEF GaussState
<1>8. ret = [error |-> ret.error, m |-> ret.m] /\ ret.error \in BOOLEAN /\ (ret.error => Singular(a, k))
      /\ (ret.error <=> last.error)
  BY <1>5, <1>6, <1>7 DEF GaussInv
<1>9. ASSUME ~last.error
      PROVE  ret.m \in Mat(k) /\ \A x, y \in Vec(k) : Image(a, x, y, k) <=> Image(ret.m, y, x, k)
  <2> DEFINE m == last.m
             indx == last.indx
             m2 == SwapColumns(m, indx)
  <2>1. ret.m = m2
    BY <1>6, <1>9
  <2>2. last.ipiv = Below(k)
    <3>1. Cardinality(last.ipiv) = k
      BY <1>5, <1>9 DEF GaussInv
    <3> QED BY <1>7, <3>1, BelowFinite, FS_Subset
  <2>3. \A x, y \in Vec(k) : \A Y :
          Swaps(Y, y, indx, k) => (Image(a, x, y, k) <=> Exchanged(m, Below(k), x, Y[Len(indx)], k))
    BY <1>5, <1>9, <2>2 DEF GaussInv
  <2>4. m \in Mat(k) /\ indx \in Seq(Below(k) \X Below(k))
    BY <1>7
  <2> HIDE DEF m, indx, m2
  <2>5. ASSUME NEW x \in Vec(k), NEW y \in Vec(k)
        PROVE  m2 \in Mat(k) /\ (Image(a, x, y, k) <=> Image(m2, y, x, k))
    <3>1. PICK Y : Swaps(Y, y, indx, k)
      BY <2>4, SwapsExist
    <3> DEFINE z == Y[Len(indx)]
    <3>2. m2 \in Mat(k) /\ \A r \in Below(k) : Dot(m2[r], y, k) = Dot(m[r], z, k)
      BY <2>4, <3>1, UndoneDot DEF m2
    <3>3. Image(a, x, y, k) <=> Exchanged(m, Below(k), x, z, k)
      BY <2>3, <3>1
    <3>4. z \in Vec(k)
      BY <2>4, <3>1 DEF Swaps
    <3> HIDE DEF z
    <3>5. Mixed(x, z, Below(k), k) = z /\ Mixed(z, x, Below(k), k) = x
      BY <3>4 DEF Mixed, Vec
    <3> QED BY <3>2, <3>3, <3>5 DEF Exchanged, Image
  <2>6. [j \in Below(k) |-> 0] \in Vec(k)
    BY Sizes DEF Vec
  <2> QED BY <2>1, <2>5, <2>6
<1> QED BY <1>8, <1>9 DEF ret

-----------------------------------------------------------------------------
(* Polynomials. The values of Horner's rule at x for the coefficients a    *)
(* below the k-th power, with the coefficient lead of that power, and the  *)
(* powers of x.                                                            *)

IsHorner(h, lead, a, x, k) ==
  /\ h \in [0 .. k -> Elem] /\ h[0] = lead
  /\ \A s \in Below(k) : h[s + 1] = xor[gf_mul(x, h[s])][a[k - 1 - s]]
IsPowers(w, x, k) ==
  w \in Vec(k) /\ (k > 0 => w[0] = 1) /\ \A j \in Below(k - 1) : w[j + 1] = gf_mul(x, w[j])

LEMMA HornerExists ==
  ASSUME FieldReady, NEW k \in Nat, NEW lead \in Elem, NEW a \in Vec(k), NEW x \in Elem
  PROVE  \E h : IsHorner(h, lead, a, x, k)
<1> DEFINE G == [i \in 1 .. k |-> [v \in Elem |-> xor[gf_mul(x, v)][a[k - i]]]]
<1>1. G \in [1 .. k -> [Elem -> Elem]]
  <2> SUFFICES ASSUME NEW i \in 1 .. k, NEW v \in Elem PROVE xor[gf_mul(x, v)][a[k - i]] \in Elem
    OBVIOUS
  <2>1. k - i \in Below(k)
    BY DEF Below
  <2>2. a[k - i] \in Elem /\ gf_mul(x, v) \in Elem
    BY <2>1, MulElem DEF Vec
  <2> QED BY <2>2, XorLaws
<1>2. PICK h : IsIteration(h, k, Elem, lead, G)
  <2> HIDE DEF G
  <2> QED BY <1>1, IterationExists
<1>3. h \in [0 .. k -> Elem] /\ h[0] = lead /\ \A i \in 1 .. k : h[i] = G[i][h[i - 1]]
  BY <1>2 DEF IsIteration
<1>4. ASSUME NEW s \in Below(k) PROVE h[s + 1] = xor[gf_mul(x, h[s])][a[k - 1 - s]]
  <2>1. s + 1 \in 1 .. k /\ s + 1 - 1 = s /\ s \in 0 .. k /\ k - (s + 1) = k - 1 - s
    BY DEF Below
  <2>2. h[s + 1] = G[s + 1][h[s + 1 - 1]] /\ h[s] \in Elem
    <3> HIDE DEF G
    <3>1. h[s + 1] = G[s + 1][h[s + 1 - 1]]
      BY <1>3, <2>1
    <3>2. h[s] \in Elem
      BY <1>3, <2>1
    <3> QED BY <2>1, <3>1, <3>2
  <2> QED BY <2>1, <2>2
<1> QED BY <1>3, <1>4 DEF IsHorner

\* One step of the value of the polynomial from its powers to Horner's rule.
LEMMA HornerFactor ==
  ASSUME FieldReady, NEW x \in Elem, NEW w \in Elem, NEW h \in Elem, NEW a \in Elem, NEW sum \in Elem
  PROVE  xor[xor[sum][gf_mul(a, w)]][gf_mul(gf_mul(x, w), h)] = xor[sum][gf_mul(w, xor[gf_mul(x, h)][a])]
<1>1. gf_mul(x, w) = gf_mul(w, x) /\ gf_mul(a, w) = gf_mul(w, a)
  BY MulCommutes
<1>2. gf_mul(gf_mul(w, x), h) = gf_mul(w, gf_mul(x, h))
  BY MulAssociates
<1> DEFINE u == gf_mul(w, a)
           xh == gf_mul(x, h)
           v == gf_mul(w, xh)
<1>3. u \in Elem /\ xh \in Elem
  BY MulElem
<1> HIDE DEF xh
<1>4. v \in Elem
  BY <1>3, MulElem
<1>5. gf_mul(w, xor[xh][a]) = xor[v][u]
  BY <1>3, MulXor
<1> HIDE DEF u, v
<1>6. xor[xor[sum][u]][v] = xor[sum][xor[u][v]] /\ xor[u][v] = xor[v][u]
  BY <1>3, <1>4, XorLaws
<1>7. xor[xor[sum][u]][v] = xor[sum][gf_mul(w, xor[xh][a])]
  BY <1>5, <1>6
<1> QED BY <1>1, <1>2, <1>7 DEF u, v, xh

LEMMA HornerDot ==
  ASSUME FieldReady, NEW k \in Nat, NEW a \in Vec(k), NEW x \in Elem, NEW w, NEW h,
         IsPowers(w, x, k), IsHorner(h, 0, a, x, k)
  PROVE  Dot(a, w, k) = h[k]
<1> DEFINE f == [j \in Below(k) |-> gf_mul(a[j], w[j])]
           sum(m) == XorAll(f, m)
<1>1. w \in Vec(k) /\ (\A j \in Below(k) : a[j] \in Elem /\ w[j] \in Elem)
  BY DEF IsPowers, Vec
<1>2. h \in [0 .. k -> Elem] /\ h[0] = 0
      /\ \A s \in Below(k) : h[s + 1] = xor[gf_mul(x, h[s])][a[k - 1 - s]]
  BY DEF IsHorner
<1>3. \A j \in Below(k) : f[j] \in Elem /\ f[j] = gf_mul(a[j], w[j])
  BY <1>1, MulElem
<1> HIDE DEF f
<1>4. /\ \A m \in 0 .. k : sum(m) \in Elem
      /\ sum(0) = 0 /\ \A m \in 0 .. k - 1 : sum(m + 1) = xor[sum(m)][f[m]]
  BY <1>3, XorAllStep
<1> HIDE DEF sum
<1>5. CASE k = 0
  BY <1>2, <1>4, <1>5 DEF Dot, f, sum
<1>6. CASE k # 0
  <2> DEFINE I == {s \in Nat : s < k => sum(k) = xor[sum(k - 1 - s)][gf_mul(w[k - 1 - s], h[s + 1])]}
  <2>1. 0 \in I
    <3> DEFINE v == a[k - 1]
               u == w[k - 1]
    <3>1. k - 1 \in Below(k) /\ 0 \in Below(k) /\ k - 1 - 0 = k - 1 /\ k - 1 \in 0 .. k - 1 /\ k - 1 + 1 = k
      BY <1>6 DEF Below
    <3>2. sum(k) = xor[sum(k - 1)][f[k - 1]]
      <4>1. sum(k - 1 + 1) = xor[sum(k - 1)][f[k - 1]]
        BY <1>4, <3>1
      <4> QED BY <3>1, <4>1
    <3>3. f[k - 1] = gf_mul(v, u) /\ v \in Elem /\ u \in Elem
      BY <1>1, <1>3, <3>1
    <3>4. h[0 + 1] = xor[gf_mul(x, 0)][v]
      BY <1>2, <3>1
    <3>5. h[0 + 1] = v
      <4> HIDE DEF v
      <4>1. gf_mul(x, 0) = 0 /\ xor[0][v] = v
        BY <3>3, MulUnits, XorLaws
      <4> QED BY <3>4, <4>1
    <3>6. gf_mul(v, u) = gf_mul(u, v)
      <4> HIDE DEF v, u
      <4> QED BY <3>3, MulCommutes
    <3> QED BY <3>1, <3>2, <3>3, <3>5, <3>6
  <2>2. ASSUME NEW s \in Nat, s \in I PROVE s + 1 \in I
    <3> SUFFICES ASSUME s + 1 < k
                 PROVE  sum(k) = xor[sum(k - 1 - (s + 1))][gf_mul(w[k - 1 - (s + 1)], h[s + 1 + 1])]
      OBVIOUS
    <3> DEFINE j == k - 1 - (s + 1)
               S == sum(j)
               v == a[j]
               u == w[j]
               g == h[s + 1]
    <3>1. /\ j \in Below(k) /\ j \in Below(k - 1) /\ j \in 0 .. k - 1 /\ j \in 0 .. k /\ k - 1 - s = j + 1
          /\ s + 1 \in Below(k) /\ s + 1 \in 0 .. k /\ s < k
      BY DEF Below
    <3>2. sum(j + 1) = xor[S][gf_mul(v, u)] /\ S \in Elem
      BY <1>3, <1>4, <3>1
    <3>3. v \in Elem /\ u \in Elem /\ g \in Elem
      BY <1>1, <1>2, <3>1
    <3>4. w[j + 1] = gf_mul(x, u)
      BY <3>1 DEF IsPowers
    <3>5. h[s + 1 + 1] = xor[gf_mul(x, g)][v]
      <4>1. h[s + 1 + 1] = xor[gf_mul(x, h[s + 1])][a[k - 1 - (s + 1)]]
        BY <1>2, <3>1
      <4> QED BY <4>1
    <3>6. sum(k) = xor[sum(j + 1)][gf_mul(w[j + 1], g)]
      <4>1. sum(k) = xor[sum(k - 1 - s)][gf_mul(w[k - 1 - s], h[s + 1])]
        BY <2>2, <3>1
      <4> QED BY <3>1, <4>1
    <3> HIDE DEF S, v, u, g
    <3>7. sum(k) = xor[xor[S][gf_mul(v, u)]][gf_mul(gf_mul(x, u), g)]
      BY <3>2, <3>4, <3>6
    <3>8. xor[xor[S][gf_mul(v, u)]][gf_mul(gf_mul(x, u), g)] = xor[S][gf_mul(u, xor[gf_mul(x, g)][v])]
      <4>1. S \in Elem /\ v \in Elem /\ u \in Elem /\ g \in Elem
        BY <3>2, <3>3
      <4> HIDE DEF I, sum, j
      <4> QED BY ONLY FieldReady, x \in Elem, <4>1, HornerFactor
    <3>9. sum(k) = xor[S][gf_mul(u, h[s + 1 + 1])]
      BY <3>5, <3>7, <3>8
    <3> QED BY <3>9 DEF S, u
  <2>3. Nat \subseteq I
    <3> HIDE DEF I
    <3> QED BY <2>1, <2>2, SetInduction
  <2>4. k - 1 \in I /\ k - 1 < k /\ k - 1 - (k - 1) = 0 /\ k - 1 + 1 = k /\ k \in 0 .. k
    BY <1>6, <2>3
  <2>5. sum(k) = xor[sum(0)][gf_mul(w[0], h[k])]
    <3>1. sum(k) = xor[sum(k - 1 - (k - 1))][gf_mul(w[k - 1 - (k - 1)], h[k - 1 + 1])]
      BY <2>4
    <3> QED BY <2>4, <3>1
  <2>6. w[0] = 1 /\ h[k] \in Elem
    BY <1>2, <1>6 DEF IsPowers
  <2>7. gf_mul(1, h[k]) = h[k] /\ xor[0][h[k]] = h[k]
    BY <2>6, MulUnits, XorLaws
  <2>8. sum(k) = h[k]
    BY <1>4, <2>5, <2>6, <2>7
  <2> QED BY <2>8 DEF Dot, f, sum
<1> QED BY <1>5, <1>6

\* One step of the division by (x - q).
LEMMA DivisionStep ==
  ASSUME FieldReady, NEW x \in Elem, NEW q \in Elem, NEW g \in Elem, NEW f \in Elem, NEW a \in Elem
  PROVE  xor[gf_mul(x, xor[g][gf_mul(xor[x][q], f)])][a]
         = xor[xor[gf_mul(q, g)][a]][gf_mul(xor[x][q], xor[gf_mul(x, f)][g])]
<1> DEFINE d == xor[x][q]
           xg == gf_mul(x, g)
           qg == gf_mul(q, g)
           xf == gf_mul(x, f)
           u == gf_mul(d, xf)
<1>1. d \in Elem
  BY XorLaws
<1>2. gf_mul(d, g) = xor[xg][qg]
  BY XorMul
<1> HIDE DEF d
<1>3. xg \in Elem /\ qg \in Elem /\ xf \in Elem /\ gf_mul(d, f) \in Elem
  BY <1>1, MulElem
<1>4. gf_mul(x, gf_mul(d, f)) = u
  <2>1. gf_mul(x, gf_mul(d, f)) = gf_mul(gf_mul(x, d), f) /\ gf_mul(d, xf) = gf_mul(gf_mul(d, x), f)
    BY <1>1, MulAssociates
  <2>2. gf_mul(x, d) = gf_mul(d, x)
    BY <1>1, MulCommutes
  <2> QED BY <2>1, <2>2
<1> HIDE DEF xf
<1>5. u \in Elem
  BY <1>1, <1>3, MulElem
<1>6. gf_mul(x, xor[g][gf_mul(d, f)]) = xor[xg][u]
  BY <1>3, <1>4, MulXor
<1>7. gf_mul(d, xor[xf][g]) = xor[u][xor[xg][qg]]
  BY <1>1, <1>2, <1>3, MulXor
<1> HIDE DEF xg, qg, u
<1>8. xor[xor[xg][u]][a] = xor[xor[qg][a]][xor[u][xor[xg][qg]]]
  <2> DEFINE t == xor[xg][u]
             qa == xor[qg][a]
  <2>1. xor[u][xor[xg][qg]] = xor[xor[u][xg]][qg] /\ xor[u][xg] = t
    BY <1>3, <1>5, XorLaws
  <2>2. t \in Elem /\ qa \in Elem
    BY <1>3, <1>5, XorLaws
  <2> HIDE DEF t, qa
  <2>3. xor[t][qg] = xor[qg][t]
    BY <1>3, <2>2, XorLaws
  <2>4. xor[xor[qa][qg]][t] = xor[qa][xor[qg][t]]
    BY <1>3, <2>2, XorLaws
  <2>5. xor[qa][qg] = a
    <3>1. xor[qg][a] = xor[a][qg]
      BY <1>3, XorLaws
    <3>2. xor[xor[a][qg]][qg] = xor[a][xor[qg][qg]]
      BY <1>3, XorLaws
    <3>3. xor[qg][qg] = 0 /\ xor[a][0] = a
      BY <1>3, XorLaws
    <3> QED BY <3>1, <3>2, <3>3 DEF qa
  <2>6. xor[a][t] = xor[t][a]
    BY <2>2, XorLaws
  <2>7. xor[qa][xor[u][xor[xg][qg]]] = xor[t][a]
    BY <2>1, <2>3, <2>4, <2>5, <2>6
  <2> QED BY <2>7 DEF t, qa
<1> QED BY <1>6, <1>7, <1>8 DEF d, xg, qg, xf, u

\* The values of Horner's rule at q are the coefficients of the quotient by (x - q).
Quotient(b, g, k) == b \in Vec(k) /\ \A s \in Below(k) : b[k - 1 - s] = g[s]

LEMMA QuotientExists ==
  ASSUME NEW k \in Nat, NEW g, \A s \in Below(k) : g[s] \in Elem
  PROVE  \E b : Quotient(b, g, k)
<1> DEFINE b == [j \in Below(k) |-> g[k - 1 - j]]
<1>1. ASSUME NEW s \in Below(k) PROVE k - 1 - s \in Below(k) /\ k - 1 - (k - 1 - s) = s
  BY DEF Below
<1>2. Quotient(b, g, k)
  BY <1>1 DEF Quotient, Vec
<1> QED BY <1>2

LEMMA HornerDivides ==
  ASSUME FieldReady, NEW k \in Nat, NEW a \in Vec(k), NEW lead \in Elem, NEW x \in Elem, NEW q \in Elem,
         NEW h, NEW g, NEW b, NEW f,
         IsHorner(h, lead, a, x, k), IsHorner(g, lead, a, q, k), Quotient(b, g, k), IsHorner(f, 0, b, x, k)
  PROVE  \A s \in 0 .. k : h[s] = xor[g[s]][gf_mul(xor[x][q], f[s])]
<1> DEFINE I == {s \in Nat : s <= k => h[s] = xor[g[s]][gf_mul(xor[x][q], f[s])]}
<1>1. /\ \A s \in 0 .. k : h[s] \in Elem /\ g[s] \in Elem /\ f[s] \in Elem
      /\ h[0] = lead /\ g[0] = lead /\ f[0] = 0
      /\ \A s \in Below(k) : h[s + 1] = xor[gf_mul(x, h[s])][a[k - 1 - s]]
      /\ \A s \in Below(k) : g[s + 1] = xor[gf_mul(q, g[s])][a[k - 1 - s]]
      /\ \A s \in Below(k) : f[s + 1] = xor[gf_mul(x, f[s])][b[k - 1 - s]]
      /\ \A s \in Below(k) : b[k - 1 - s] = g[s]
  BY DEF IsHorner, Quotient
<1>2. 0 \in I
  <2>1. xor[x][q] \in Elem
    BY XorLaws
  <2>2. gf_mul(xor[x][q], 0) = 0 /\ xor[lead][0] = lead
    BY <2>1, MulUnits, XorLaws
  <2> QED BY <1>1, <2>2
<1>3. ASSUME NEW s \in Nat, s \in I PROVE s + 1 \in I
  <2> SUFFICES ASSUME s + 1 <= k PROVE h[s + 1] = xor[g[s + 1]][gf_mul(xor[x][q], f[s + 1])]
    OBVIOUS
  <2> DEFINE hs == h[s]
             gs == g[s]
             fs == f[s]
             c == a[k - 1 - s]
  <2>1. s \in Below(k) /\ s \in 0 .. k /\ k - 1 - s \in Below(k)
    BY DEF Below
  <2>2. hs = xor[gs][gf_mul(xor[x][q], fs)]
    BY <1>3, <2>1
  <2>3. gs \in Elem /\ fs \in Elem /\ c \in Elem
    BY <1>1, <2>1 DEF Vec
  <2>4. h[s + 1] = xor[gf_mul(x, hs)][c] /\ g[s + 1] = xor[gf_mul(q, gs)][c] /\ f[s + 1] = xor[gf_mul(x, fs)][gs]
    <3>1. h[s + 1] = xor[gf_mul(x, hs)][c]
      BY <1>1, <2>1
    <3>2. g[s + 1] = xor[gf_mul(q, gs)][c]
      BY <1>1, <2>1
    <3>3. f[s + 1] = xor[gf_mul(x, fs)][gs]
      BY <1>1, <2>1
    <3> QED BY <3>1, <3>2, <3>3
  <2> HIDE DEF hs, gs, fs, c
  <2>5. xor[gf_mul(x, xor[gs][gf_mul(xor[x][q], fs)])][c]
        = xor[xor[gf_mul(q, gs)][c]][gf_mul(xor[x][q], xor[gf_mul(x, fs)][gs])]
    BY <2>3, DivisionStep
  <2> QED BY <2>2, <2>4, <2>5
<1>4. Nat \subseteq I
  <2> HIDE DEF I
  <2> QED BY <1>2, <1>3, SetInduction
<1> QED BY <1>4

\* The highest coefficient as the lead.
LEMMA HornerLead ==
  ASSUME FieldReady, NEW k \in Nat, NEW a \in Vec(k + 1), NEW x \in Elem, NEW h, IsHorner(h, 0, a, x, k + 1)
  PROVE  /\ IsHorner([s \in 0 .. k |-> h[s + 1]], a[k], [j \in Below(k) |-> a[j]], x, k)
         /\ [j \in Below(k) |-> a[j]] \in Vec(k)
<1> DEFINE low == [j \in Below(k) |-> a[j]]
           h2 == [s \in 0 .. k |-> h[s + 1]]
<1>1. h \in [0 .. k + 1 -> Elem] /\ h[0] = 0
      /\ \A s \in Below(k + 1) : h[s + 1] = xor[gf_mul(x, h[s])][a[(k + 1) - 1 - s]]
  BY DEF IsHorner
<1>2. low \in Vec(k)
  <2>1. Below(k) \subseteq Below(k + 1)
    BY DEF Below
  <2> QED BY <2>1 DEF Vec
<1>3. h2 \in [0 .. k -> Elem]
  <2>1. \A s \in 0 .. k : s + 1 \in 0 .. k + 1
    OBVIOUS
  <2> QED BY <1>1, <2>1
<1>4. h2[0] = a[k]
  <2> DEFINE c == a[k]
  <2>1. 0 \in Below(k + 1) /\ (k + 1) - 1 - 0 = k /\ k \in Below(k + 1) /\ 0 \in 0 .. k
    BY DEF Below
  <2>2. c \in Elem
    BY <2>1 DEF Vec
  <2>3. h[0 + 1] = xor[gf_mul(x, h[0])][a[(k + 1) - 1 - 0]]
    BY <1>1, <2>1
  <2>4. gf_mul(x, 0) = 0
    BY MulUnits
  <2>5. h2[0] = xor[0][c]
    BY <1>1, <2>1, <2>3, <2>4
  <2> HIDE DEF c, h2
  <2>6. xor[0][c] = c
    BY <2>2, XorLaws
  <2> QED BY <2>5, <2>6 DEF c
<1>5. ASSUME NEW s \in Below(k) PROVE h2[s + 1] = xor[gf_mul(x, h2[s])][low[k - 1 - s]]
  <2>1. /\ s + 1 \in Below(k + 1) /\ (k + 1) - 1 - (s + 1) = k - 1 - s /\ k - 1 - s \in Below(k)
        /\ s \in 0 .. k /\ s + 1 \in 0 .. k
    BY DEF Below
  <2>2. h[s + 1 + 1] = xor[gf_mul(x, h[s + 1])][a[(k + 1) - 1 - (s + 1)]]
    BY <1>1, <2>1
  <2>3. h2[s + 1] = h[s + 1 + 1] /\ h2[s] = h[s + 1] /\ low[k - 1 - s] = a[k - 1 - s]
    BY <2>1
  <2> HIDE DEF h2, low
  <2> QED BY <2>1, <2>2, <2>3
<1> HIDE DEF h2, low
<1>6. IsHorner(h2, a[k], low, x, k)
  BY <1>3, <1>4, <1>5 DEF IsHorner
<1> QED BY <1>2, <1>6 DEF h2, low

Root(a, x, k) == \E h : IsHorner(h, 0, a, x, k) /\ h[k] = 0
Distinct(p, k) == p \in [Below(k) -> Elem] /\ \A i, j \in Below(k) : p[i] = p[j] => i = j

\* A coefficient is 0 where Horner's rule gives only zeros.
LEMMA HornerZero ==
  ASSUME FieldReady, NEW k \in Nat, NEW a \in Vec(k), NEW x \in Elem, NEW h, IsHorner(h, 0, a, x, k),
         \A s \in 0 .. k : h[s] = 0
  PROVE  \A j \in Below(k) : a[j] = 0
<1> SUFFICES ASSUME NEW j \in Below(k) PROVE a[j] = 0
  OBVIOUS
<1> DEFINE s == k - 1 - j
           c == a[j]
<1>1. s \in Below(k) /\ s \in 0 .. k /\ s + 1 \in 0 .. k /\ k - 1 - s = j /\ c \in Elem
  BY DEF Below, Vec
<1>2. h[s + 1] = xor[gf_mul(x, h[s])][c]
  <2>1. h[s + 1] = xor[gf_mul(x, h[s])][a[k - 1 - s]]
    BY <1>1 DEF IsHorner
  <2> QED BY <1>1, <2>1
<1>3. h[s + 1] = 0 /\ h[s] = 0
  BY <1>1
<1> HIDE DEF c
<1>4. gf_mul(x, 0) = 0 /\ xor[0][c] = c
  BY <1>1, MulUnits, XorLaws
<1> QED BY <1>2, <1>3, <1>4 DEF c

\* A root x # q of the polynomial a (of lead) with the root q is a root of the quotient.
LEMMA QuotientRoot ==
  ASSUME FieldReady, NEW k \in Nat, NEW a \in Vec(k), NEW lead \in Elem, NEW x \in Elem, NEW q \in Elem, x # q,
         NEW h, NEW g, NEW b,
         IsHorner(h, lead, a, x, k), h[k] = 0, IsHorner(g, lead, a, q, k), g[k] = 0, Quotient(b, g, k)
  PROVE  Root(b, x, k)
<1>1. b \in Vec(k)
  BY DEF Quotient
<1>2. PICK f : IsHorner(f, 0, b, x, k)
  BY <1>1, Sizes, HornerExists
<1> DEFINE d == xor[x][q]
           fk == f[k]
<1>3. h[k] = xor[g[k]][gf_mul(d, fk)]
  <2>1. k \in 0 .. k
    OBVIOUS
  <2>2. \A s \in 0 .. k : h[s] = xor[g[s]][gf_mul(xor[x][q], f[s])]
    BY <1>2, HornerDivides
  <2> QED BY <2>1, <2>2
<1>4. fk \in Elem /\ d \in Elem /\ d # 0
  <2>1. fk \in Elem
    BY <1>2 DEF IsHorner
  <2> QED BY <2>1, XorLaws, XorZeroEqual
<1> HIDE DEF d, fk
<1>5. gf_mul(d, fk) \in Elem
  BY <1>4, MulElem
<1>6. gf_mul(d, fk) = 0
  BY <1>3, <1>5, XorLaws
<1>7. fk = 0
  BY <1>4, <1>6, MulNonzero
<1> QED BY <1>2, <1>7 DEF Root, fk

\* A polynomial below the k-th power with k roots is 0.
LEMMA RootCount ==
  ASSUME FieldReady, NEW k \in Nat, NEW a \in Vec(k), NEW p, Distinct(p, k), \A i \in Below(k) : Root(a, p[i], k)
  PROVE  \A j \in Below(k) : a[j] = 0
<1> DEFINE All(n) == \A aa \in Vec(n) : \A pp \in [Below(n) -> Elem] :
                       Distinct(pp, n) /\ (\A i \in Below(n) : Root(aa, pp[i], n)) => \A j \in Below(n) : aa[j] = 0
           I == {n \in Nat : All(n)}
<1>1. 0 \in I
  <2>1. Below(0) = {}
    BY DEF Below
  <2> QED BY <2>1
<1>2. ASSUME NEW n \in Nat, n \in I PROVE n + 1 \in I
  <2> SUFFICES ASSUME NEW aa \in Vec(n + 1), NEW pp \in [Below(n + 1) -> Elem], Distinct(pp, n + 1),
                      \A i \in Below(n + 1) : Root(aa, pp[i], n + 1)
               PROVE  \A j \in Below(n + 1) : aa[j] = 0
    OBVIOUS
  <2> DEFINE q == pp[n]
             low == [j \in Below(n) |-> aa[j]]
             lead == aa[n]
  <2>1. n \in Below(n + 1) /\ n + 1 \in Nat /\ \A i \in Below(n) : i \in Below(n + 1) /\ i # n
    BY DEF Below
  <2>2. q \in Elem /\ lead \in Elem
    BY <2>1 DEF Vec
  <2>3. PICK g0 : IsHorner(g0, 0, aa, q, n + 1) /\ g0[n + 1] = 0
    BY <2>1 DEF Root
  <2> DEFINE g == [s \in 0 .. n |-> g0[s + 1]]
  <2> HIDE DEF q
  <2>4. IsHorner(g, lead, low, q, n) /\ low \in Vec(n)
    BY <2>2, <2>3, HornerLead
  <2>5. g[n] = 0
    BY <2>3
  <2>6. \A s \in Below(n) : g[s] \in Elem
    <3>1. \A s \in Below(n) : s \in 0 .. n
      BY DEF Below
    <3> HIDE DEF g
    <3> QED BY <2>4, <3>1 DEF IsHorner
  <2>7. PICK b : Quotient(b, g, n)
    <3> HIDE DEF g
    <3> QED BY <2>6, QuotientExists
  <2> DEFINE p2 == [i \in Below(n) |-> pp[i]]
  <2>8. p2 \in [Below(n) -> Elem] /\ Distinct(p2, n)
    BY <2>1 DEF Distinct
  <2>9. ASSUME NEW i \in Below(n) PROVE Root(b, p2[i], n)
    <3> DEFINE x == p2[i]
    <3>1. x \in Elem /\ x = pp[i] /\ i \in Below(n + 1)
      BY <2>1
    <3>2. x # q
      <4>1. pp[i] # pp[n]
        BY <2>1 DEF Distinct
      <4> QED BY <3>1, <4>1 DEF q
    <3>3. PICK h0 : IsHorner(h0, 0, aa, x, n + 1) /\ h0[n + 1] = 0
      BY <3>1 DEF Root
    <3> DEFINE h == [s \in 0 .. n |-> h0[s + 1]]
    <3> HIDE DEF x, g
    <3>4. IsHorner(h, lead, low, x, n)
      BY <3>1, <3>3, HornerLead
    <3>5. h[n] = 0
      BY <3>3
    <3> HIDE DEF h, lead, low
    <3>6. Root(b, x, n)
      BY <2>2, <2>4, <2>5, <2>7, <3>1, <3>2, <3>4, <3>5, QuotientRoot
    <3> QED BY <3>6 DEF x
  <2>10. b \in Vec(n)
    BY <2>7 DEF Quotient
  <2>11. \A j \in Below(n) : b[j] = 0
    <3> HIDE DEF p2
    <3>1. All(n)
      BY <1>2
    <3> QED BY <2>8, <2>9, <2>10, <3>1
  <2>12. ASSUME NEW s \in 0 .. n + 1 PROVE g0[s] = 0
    <3>1. CASE s = 0
      BY <2>3, <3>1 DEF IsHorner
    <3>2. CASE s = n + 1
      BY <2>3, <3>2
    <3>3. CASE s # 0 /\ s # n + 1
      <4> DEFINE t == s - 1
      <4>1. t \in Below(n) /\ n - 1 - t \in Below(n) /\ t \in 0 .. n /\ t + 1 = s
        BY <3>3 DEF Below
      <4>2. g[t] = g0[s]
        BY <4>1
      <4> HIDE DEF g, t
      <4>3. b[n - 1 - t] = g[t]
        BY <2>7, <4>1 DEF Quotient
      <4> QED BY <2>11, <4>1, <4>2, <4>3
    <3> QED BY <3>1, <3>2, <3>3
  <2> HIDE DEF g, low, lead
  <2> QED BY <2>1, <2>2, <2>3, <2>12, HornerZero
<1>3. Nat \subseteq I
  <2> HIDE DEF I
  <2> QED BY <1>1, <1>2, SetInduction
<1>4. All(k)
  BY <1>3
<1>5. p \in [Below(k) -> Elem]
  BY DEF Distinct
<1> QED BY <1>4, <1>5

-----------------------------------------------------------------------------
(* The Vandermonde matrix.                                                 *)

Point(row) == IF row = 0 THEN 0 ELSE gf_exp[row - 1]

LEMMA PointsDiffer ==
  ASSUME FieldReady
  PROVE  /\ \A r \in 0 .. GF_SIZE : Point(r) \in Elem
         /\ \A r, s \in 0 .. GF_SIZE : Point(r) = Point(s) => r = s
<1>1. GF_SIZE \in Nat /\ GF_SIZE >= 3 /\ 0 \in Elem
  BY Sizes
<1>2. ASSUME NEW r \in 1 .. GF_SIZE PROVE r - 1 \in 0 .. GF_SIZE - 1 /\ Point(r) = alpha(r - 1) /\ Point(r) \in Elem \ {0}
  <2>1. r - 1 \in 0 .. GF_SIZE - 1 /\ r - 1 \in 0 .. 2 * GF_SIZE - 1 /\ r - 1 \in Nat /\ r # 0
    BY <1>1
  <2>2. gf_exp[r - 1] = alpha(r - 1)
    BY <2>1 DEF FieldReady, ExpTable
  <2>3. alpha(r - 1) \in Elem \ {0}
    BY <2>1, AlphaCycle
  <2> QED BY <2>1, <2>2, <2>3 DEF Point
<1>3. \A r \in 0 .. GF_SIZE : r = 0 \/ r \in 1 .. GF_SIZE
  OBVIOUS
<1>4. Point(0) = 0
  BY DEF Point
<1>5. ASSUME NEW r \in 0 .. GF_SIZE, NEW s \in 0 .. GF_SIZE, Point(r) = Point(s) PROVE r = s
  <2>1. CASE r # 0 /\ s # 0
    <3>1. r - 1 \in 0 .. GF_SIZE - 1 /\ s - 1 \in 0 .. GF_SIZE - 1 /\ alpha(r - 1) = alpha(s - 1)
      BY <1>2, <1>3, <1>5, <2>1
    <3>2. r - 1 = s - 1
      BY <3>1, AlphaCycle
    <3> QED BY <3>2
  <2>2. CASE r = 0 \/ s = 0
    BY <1>2, <1>3, <1>4, <1>5, <2>2
  <2> QED BY <2>1, <2>2
<1> QED BY <1>1, <1>2, <1>3, <1>4, <1>5

LEMMA VandermondeRows ==
  ASSUME FieldReady, NEW k \in Nat, NEW n \in Nat, n <= GF_SIZE + 1, NEW row \in Below(n)
  PROVE  /\ Point(row) \in Elem /\ Vandermonde(k, n)[row] \in Vec(k)
         /\ IsPowers(Vandermonde(k, n)[row], Point(row), k)
         /\ k >= 2 => Vandermonde(k, n)[row][1] = Point(row)
<1> DEFINE w == Vandermonde(k, n)[row]
           x == Point(row)
<1>1. w = [col \in Below(k) |-> IF row = 0 THEN (IF col = 0 THEN 1 ELSE 0) ELSE gf_exp[modnn[(row - 1) * col]]]
  BY DEF Vandermonde
<1> HIDE DEF w
<1>2. row \in 0 .. GF_SIZE /\ GF_SIZE \in Nat /\ GF_SIZE >= 3 /\ 0 \in Elem /\ 1 \in Elem
  BY Sizes DEF Below
<1>3. x \in Elem
  BY <1>2, PointsDiffer
<1>4. CASE row = 0
  <2>1. w = [col \in Below(k) |-> IF col = 0 THEN 1 ELSE 0] /\ x = 0
    BY <1>1, <1>4 DEF Point
  <2> HIDE DEF x
  <2>2. w \in Vec(k) /\ (k > 0 => w[0] = 1) /\ (k >= 2 => w[1] = 0)
    BY <1>2, <2>1 DEF Vec, Below
  <2>3. ASSUME NEW j \in Below(k - 1) PROVE w[j + 1] = gf_mul(x, w[j])
    <3> DEFINE v == w[j]
    <3>1. j \in Below(k) /\ j + 1 \in Below(k) /\ j + 1 # 0
      BY DEF Below
    <3>2. w[j + 1] = 0 /\ v \in Elem
      BY <2>1, <2>2, <3>1 DEF Vec
    <3> HIDE DEF v
    <3>3. gf_mul(0, v) = 0
      BY <3>2, MulUnits
    <3> QED BY <2>1, <3>2, <3>3 DEF v
  <2>4. IsPowers(w, x, k)
    BY <2>2, <2>3 DEF IsPowers
  <2> QED BY <1>3, <2>1, <2>2, <2>4 DEF w, x
<1>5. CASE row # 0
  <2> DEFINE m == row - 1
  <2>1. m \in 0 .. GF_SIZE - 1 /\ m \in 0 .. 2 * GF_SIZE - 1 /\ m \in Nat
    BY <1>2, <1>5
  <2>2. x = alpha(m)
    <3>1. x = gf_exp[m]
      BY <1>5 DEF Point
    <3> QED BY <2>1, <3>1 DEF FieldReady, ExpTable
  <2> HIDE DEF x, m
  <2>3. ASSUME NEW col \in Below(k) PROVE col \in Nat /\ m * col \in Nat /\ w[col] = alpha(m * col) /\ w[col] \in Elem
    <3>1. w[col] = gf_exp[modnn[m * col]]
      BY <1>1, <1>5 DEF m
    <3>2. m * col \in Nat /\ col \in Nat
      BY <2>1 DEF Below
    <3> DEFINE e == modnn[m * col]
    <3>3. e \in 0 .. GF_SIZE - 1 /\ alpha(e) = alpha(m * col)
      BY <3>2, ModnnTurns
    <3> HIDE DEF e
    <3>4. e \in 0 .. 2 * GF_SIZE - 1 /\ e \in Nat
      BY <1>2, <3>3
    <3>5. gf_exp[e] = alpha(e)
      BY <3>4 DEF FieldReady, ExpTable
    <3>6. alpha(e) \in Elem
      BY <3>4, AlphaElem
    <3> QED BY <3>1, <3>2, <3>3, <3>5, <3>6 DEF e
  <2>4. w = [col \in Below(k) |-> w[col]]
    BY <1>1
  <2>5. w \in Vec(k)
    BY <2>3, <2>4 DEF Vec
  <2>6. k > 0 => w[0] = 1
    <3> SUFFICES ASSUME k > 0 PROVE w[0] = 1
      OBVIOUS
    <3>1. 0 \in Below(k) /\ m * 0 = 0
      BY <2>1 DEF Below
    <3>2. w[0] = alpha(m * 0)
      BY <2>3, <3>1
    <3> QED BY <3>1, <3>2, AlphaCycle
  <2>7. k >= 2 => w[1] = x
    <3> SUFFICES ASSUME k >= 2 PROVE w[1] = x
      OBVIOUS
    <3>1. 1 \in Below(k) /\ m * 1 = m
      BY <2>1 DEF Below
    <3>2. w[1] = alpha(m * 1)
      BY <2>3, <3>1
    <3> QED BY <2>2, <3>1, <3>2
  <2>8. ASSUME NEW j \in Below(k - 1) PROVE w[j + 1] = gf_mul(x, w[j])
    <3>1. j \in Below(k) /\ j + 1 \in Below(k) /\ j \in Nat
      BY DEF Below
    <3>2. m * (j + 1) = m + m * j
      BY <2>1, <3>1
    <3> DEFINE mj == m * j
    <3>3. w[j] = alpha(mj) /\ mj \in Nat
      BY <2>3, <3>1
    <3>4. w[j + 1] = alpha(m + mj)
      <4>1. w[j + 1] = alpha(m * (j + 1))
        BY <2>3, <3>1
      <4> QED BY <3>2, <4>1
    <3> HIDE DEF mj
    <3>5. gf_mul(alpha(m), alpha(mj)) = alpha(m + mj)
      BY <2>1, <3>3, MulAlpha DEF FieldReady
    <3> QED BY <2>2, <3>3, <3>4, <3>5
  <2>9. IsPowers(w, x, k)
    BY <2>5, <2>6, <2>8 DEF IsPowers
  <2> QED BY <1>3, <2>5, <2>7, <2>9 DEF w, x
<1> QED BY <1>4, <1>5

LEMMA DotCommutes ==
  ASSUME FieldReady, NEW k \in Nat, NEW r \in Vec(k), NEW x \in Vec(k)
  PROVE  Dot(r, x, k) = Dot(x, r, k)
<1>1. \A j \in Below(k) : gf_mul(r[j], x[j]) = gf_mul(x[j], r[j])
  BY MulCommutes DEF Vec
<1>2. [j \in Below(k) |-> gf_mul(r[j], x[j])] = [j \in Below(k) |-> gf_mul(x[j], r[j])]
  BY <1>1
<1> QED BY <1>2 DEF Dot

\* A row times a vector is the value at the row's point of the polynomial.
LEMMA RowIsValue ==
  ASSUME FieldReady, NEW k \in Nat, NEW n \in Nat, n <= GF_SIZE + 1, NEW row \in Below(n), NEW a \in Vec(k),
         NEW h, IsHorner(h, 0, a, Point(row), k)
  PROVE  Dot(Vandermonde(k, n)[row], a, k) = h[k]
<1> DEFINE w == Vandermonde(k, n)[row]
           x == Point(row)
<1>1. x \in Elem /\ w \in Vec(k) /\ IsPowers(w, x, k) /\ IsHorner(h, 0, a, x, k)
  BY VandermondeRows
<1> HIDE DEF w, x
<1>2. Dot(a, w, k) = h[k]
  BY <1>1, HornerDot
<1>3. Dot(w, a, k) = Dot(a, w, k)
  BY <1>1, DotCommutes
<1> QED BY <1>2, <1>3 DEF w

LEMMA RowRoot ==
  ASSUME FieldReady, NEW k \in Nat, NEW n \in Nat, n <= GF_SIZE + 1, NEW row \in Below(n), NEW a \in Vec(k)
  PROVE  Root(a, Point(row), k) <=> Dot(Vandermonde(k, n)[row], a, k) = 0
<1>1. Point(row) \in Elem
  BY VandermondeRows
<1>2. PICK h : IsHorner(h, 0, a, Point(row), k)
  BY <1>1, Sizes, HornerExists
<1>3. Dot(Vandermonde(k, n)[row], a, k) = h[k]
  BY <1>2, RowIsValue
<1>4. ASSUME Root(a, Point(row), k) PROVE Dot(Vandermonde(k, n)[row], a, k) = 0
  <2>1. PICK g : IsHorner(g, 0, a, Point(row), k) /\ g[k] = 0
    BY <1>4 DEF Root
  <2>2. Dot(Vandermonde(k, n)[row], a, k) = g[k]
    BY <2>1, RowIsValue
  <2> QED BY <2>1, <2>2
<1> QED BY <1>2, <1>3, <1>4 DEF Root

\* Any k different rows are independent.
LEMMA VandermondeRegular ==
  ASSUME FieldReady, NEW k \in Nat, NEW n \in Nat, n <= GF_SIZE + 1,
         NEW row \in [Below(k) -> Below(n)], \A i, j \in Below(k) : row[i] = row[j] => i = j,
         NEW a \in Vec(k), \A i \in Below(k) : Dot(Vandermonde(k, n)[row[i]], a, k) = 0
  PROVE  \A j \in Below(k) : a[j] = 0
<1> DEFINE p == [i \in Below(k) |-> Point(row[i])]
<1>1. Distinct(p, k)
  <2>1. \A i \in Below(k) : row[i] \in 0 .. GF_SIZE
    BY Sizes DEF Below
  <2>2. \A i \in Below(k) : p[i] \in Elem
    BY <2>1, PointsDiffer
  <2>3. \A i, j \in Below(k) : p[i] = p[j] => i = j
    <3> SUFFICES ASSUME NEW i \in Below(k), NEW j \in Below(k), p[i] = p[j] PROVE i = j
      OBVIOUS
    <3>1. row[i] \in 0 .. GF_SIZE /\ row[j] \in 0 .. GF_SIZE /\ Point(row[i]) = Point(row[j])
      BY <2>1
    <3>2. row[i] = row[j]
      BY <3>1, PointsDiffer
    <3> QED BY <3>2
  <2> QED BY <2>2, <2>3 DEF Distinct
<1>2. ASSUME NEW i \in Below(k) PROVE Root(a, p[i], k)
  <2>1. row[i] \in Below(n) /\ p[i] = Point(row[i]) /\ Dot(Vandermonde(k, n)[row[i]], a, k) = 0
    OBVIOUS
  <2>2. Root(a, Point(row[i]), k)
    BY <2>1, RowRoot
  <2> QED BY <2>1, <2>2
<1> HIDE DEF p
<1> QED BY <1>1, <1>2, RootCount

-----------------------------------------------------------------------------
(* The polynomial with a root at every point.                              *)

\* What one pass of the loop of Coefficients does, given that old[j] = 0 below.
Passed(new, old, q, k) ==
  /\ new[k - 1] = xor[old[k - 1]][q]
  /\ \A j \in Below(k - 1) : new[j] = xor[old[j]][gf_mul(q, old[j + 1])]
MonicRoot(c, x, k) == \E h : IsHorner(h, 1, c, x, k) /\ h[k] = 0

PassEquation(x, q, g, f, a, b) ==
  xor[gf_mul(x, xor[g][gf_mul(q, f)])][xor[a][gf_mul(q, b)]]
  = xor[xor[gf_mul(x, g)][a]][gf_mul(q, xor[gf_mul(x, f)][b])]

LEMMA PassStep ==
  ASSUME FieldReady, NEW x \in Elem, NEW q \in Elem, NEW g \in Elem, NEW f \in Elem, NEW a \in Elem, NEW b \in Elem
  PROVE  PassEquation(x, q, g, f, a, b)
<1> DEFINE xg == gf_mul(x, g)
           xf == gf_mul(x, f)
           qf == gf_mul(q, f)
           qb == gf_mul(q, b)
           u == gf_mul(q, xf)
<1>1. xg \in Elem /\ xf \in Elem /\ qf \in Elem /\ qb \in Elem
  BY MulElem
<1>2. gf_mul(x, qf) = u
  <2>1. gf_mul(x, qf) = gf_mul(gf_mul(x, q), f) /\ u = gf_mul(gf_mul(q, x), f)
    BY MulAssociates
  <2>2. gf_mul(x, q) = gf_mul(q, x)
    BY MulCommutes
  <2> QED BY <2>1, <2>2
<1> HIDE DEF qf, xf
<1>3. u \in Elem
  BY <1>1, MulElem
<1>4. gf_mul(x, xor[g][qf]) = xor[xg][u]
  BY <1>1, <1>2, MulXor
<1>5. gf_mul(q, xor[xf][b]) = xor[u][qb]
  BY <1>1, MulXor
<1> HIDE DEF xg, qb, u
<1>6. xor[xor[xg][u]][xor[a][qb]] = xor[xor[xg][a]][xor[u][qb]]
  <2>1. xg \in Elem /\ u \in Elem /\ a \in Elem /\ qb \in Elem
    BY <1>1, <1>3
  <2> QED BY ONLY <2>1, XorExchange
<1> QED BY <1>4, <1>5, <1>6 DEF xg, xf, qf, qb, PassEquation

LEMMA PassValue ==
  ASSUME FieldReady, NEW k \in Nat, k >= 1, NEW old \in Vec(k), NEW new \in Vec(k), NEW q \in Elem, NEW x \in Elem,
         Passed(new, old, q, k), NEW h, NEW g, IsHorner(h, 1, new, x, k), IsHorner(g, 1, old, x, k)
  PROVE  \A s \in Below(k) : h[s + 1] = xor[g[s + 1]][gf_mul(q, g[s])]
<1> DEFINE I == {s \in Nat : s < k => h[s + 1] = xor[g[s + 1]][gf_mul(q, g[s])]}
<1>1. /\ h[0] = 1 /\ g[0] = 1 /\ \A s \in 0 .. k : g[s] \in Elem
      /\ \A s \in Below(k) : h[s + 1] = xor[gf_mul(x, h[s])][new[k - 1 - s]]
      /\ \A s \in Below(k) : g[s + 1] = xor[gf_mul(x, g[s])][old[k - 1 - s]]
  BY DEF IsHorner
<1>2. 0 \in I
  <2> DEFINE a == old[k - 1]
  <2>1. 0 \in Below(k) /\ k - 1 - 0 = k - 1 /\ k - 1 \in Below(k)
    BY DEF Below
  <2>2. a \in Elem
    BY <2>1 DEF Vec
  <2>3. h[0 + 1] = xor[gf_mul(x, 1)][new[k - 1]] /\ g[0 + 1] = xor[gf_mul(x, 1)][a]
    BY <1>1, <2>1
  <2>4. new[k - 1] = xor[a][q]
    BY DEF Passed
  <2> HIDE DEF a
  <2>5. gf_mul(x, 1) = x /\ gf_mul(q, 1) = q
    BY MulUnits
  <2>6. xor[xor[x][a]][q] = xor[x][xor[a][q]]
    BY <2>2, XorLaws
  <2> QED BY <1>1, <2>3, <2>4, <2>5, <2>6
<1>3. ASSUME NEW s \in Nat, s \in I PROVE s + 1 \in I
  <2> SUFFICES ASSUME s + 1 < k PROVE h[s + 1 + 1] = xor[g[s + 1 + 1]][gf_mul(q, g[s + 1])]
    OBVIOUS
  <2> DEFINE j == k - 1 - (s + 1)
             a == old[j]
             b == old[j + 1]
             f0 == g[s]
             g1 == g[s + 1]
  <2>1. /\ s \in Below(k) /\ s + 1 \in Below(k) /\ s \in 0 .. k /\ s + 1 \in 0 .. k
        /\ j \in Below(k - 1) /\ j \in Below(k) /\ j + 1 \in Below(k) /\ k - 1 - s = j + 1
    BY DEF Below
  <2>2. a \in Elem /\ b \in Elem /\ f0 \in Elem /\ g1 \in Elem
    BY <1>1, <2>1 DEF Vec
  <2>3. h[s + 1] = xor[g1][gf_mul(q, f0)]
    BY <1>3, <2>1
  <2>4. g1 = xor[gf_mul(x, f0)][b]
    <3>1. g[s + 1] = xor[gf_mul(x, g[s])][old[k - 1 - s]]
      BY <1>1, <2>1
    <3> QED BY <2>1, <3>1
  <2>5. g[s + 1 + 1] = xor[gf_mul(x, g1)][a]
    BY <1>1, <2>1
  <2>6. h[s + 1 + 1] = xor[gf_mul(x, h[s + 1])][new[j]]
    BY <1>1, <2>1
  <2>7. new[j] = xor[a][gf_mul(q, b)]
    BY <2>1 DEF Passed
  <2> HIDE DEF a, b, f0, g1, j
  <2>8. xor[gf_mul(x, xor[g1][gf_mul(q, f0)])][xor[a][gf_mul(q, b)]]
        = xor[xor[gf_mul(x, g1)][a]][gf_mul(q, xor[gf_mul(x, f0)][b])]
    <3>1. PassEquation(x, q, g1, f0, a, b)
      BY <2>2, PassStep
    <3> QED BY <3>1 DEF PassEquation
  <2>9. h[s + 1 + 1] = xor[g[s + 1 + 1]][gf_mul(q, g1)]
    BY <2>3, <2>4, <2>5, <2>6, <2>7, <2>8
  <2> QED BY <2>9 DEF g1
<1>4. Nat \subseteq I
  <2> HIDE DEF I
  <2> QED BY <1>2, <1>3, SetInduction
<1>5. \A s \in Below(k) : s \in Nat /\ s < k
  BY DEF Below
<1> QED BY <1>4, <1>5

\* With old[0] = 0, a pass adds the root q and keeps every other than 0.
LEMMA PassRoots ==
  ASSUME FieldReady, NEW k \in Nat, k >= 1, NEW old \in Vec(k), old[0] = 0, NEW new \in Vec(k), NEW q \in Elem,
         Passed(new, old, q, k), NEW x \in Elem, x = q \/ (x # 0 /\ MonicRoot(old, x, k))
  PROVE  MonicRoot(new, x, k)
<1>1. PICK g : IsHorner(g, 1, old, x, k) /\ (x = q \/ (x # 0 /\ g[k] = 0))
  <2>1. CASE x = q
    BY <2>1, Sizes, HornerExists
  <2>2. CASE x # q
    BY <2>2 DEF MonicRoot
  <2> QED BY <2>1, <2>2
<1>2. PICK h : IsHorner(h, 1, new, x, k)
  BY Sizes, HornerExists
<1> DEFINE f == g[k - 1]
<1>3. k - 1 \in Below(k) /\ k - 1 + 1 = k /\ k - 1 - (k - 1) = 0 /\ k - 1 \in 0 .. k
  BY DEF Below
<1>4. h[k] = xor[g[k]][gf_mul(q, f)]
  <2>1. \A s \in Below(k) : h[s + 1] = xor[g[s + 1]][gf_mul(q, g[s])]
    BY <1>1, <1>2, PassValue
  <2>2. h[k - 1 + 1] = xor[g[k - 1 + 1]][gf_mul(q, g[k - 1])]
    BY <1>3, <2>1
  <2> QED BY <1>3, <2>2
<1>5. f \in Elem /\ g[k] = xor[gf_mul(x, f)][0]
  <2>1. g[k - 1 + 1] = xor[gf_mul(x, g[k - 1])][old[k - 1 - (k - 1)]]
    BY <1>1, <1>3 DEF IsHorner
  <2>2. f \in Elem
    BY <1>1, <1>3 DEF IsHorner
  <2> QED BY <1>3, <2>1, <2>2
<1> HIDE DEF f
<1> DEFINE xf == gf_mul(x, f)
<1>6. xf \in Elem
  BY <1>5, MulElem
<1>7. g[k] = xf
  <2> HIDE DEF xf
  <2> QED BY <1>5, <1>6, XorLaws DEF xf
<1>8. h[k] = 0
  <2>1. CASE x = q
    <3>1. h[k] = xor[xf][xf]
      BY <1>4, <1>7, <2>1
    <3> HIDE DEF xf
    <3> QED BY <1>6, <3>1, XorLaws
  <2>2. CASE x # q
    <3>1. gf_mul(x, f) = 0 /\ x # 0
      BY <1>1, <1>7, <2>2
    <3>2. f = 0
      BY <1>5, <3>1, MulNonzero
    <3>3. gf_mul(q, 0) = 0 /\ xor[0][0] = 0
      BY Sizes, MulUnits, XorLaws
    <3> QED BY <1>4, <1>7, <3>1, <3>2, <3>3
  <2> QED BY <2>1, <2>2
<1> QED BY <1>2, <1>8 DEF MonicRoot

LEMMA ZeroRoot ==
  ASSUME FieldReady, NEW k \in Nat, k >= 1, NEW c \in Vec(k), c[0] = 0
  PROVE  MonicRoot(c, 0, k)
<1>1. PICK h : IsHorner(h, 1, c, 0, k)
  BY Sizes, HornerExists
<1> DEFINE f == h[k - 1]
<1>2. k - 1 \in Below(k) /\ k - 1 + 1 = k /\ k - 1 - (k - 1) = 0 /\ k - 1 \in 0 .. k
  BY DEF Below
<1>3. f \in Elem /\ h[k] = xor[gf_mul(0, f)][0]
  <2>1. h[k - 1 + 1] = xor[gf_mul(0, h[k - 1])][c[k - 1 - (k - 1)]]
    BY <1>1, <1>2 DEF IsHorner
  <2>2. f \in Elem
    BY <1>1, <1>2 DEF IsHorner
  <2> QED BY <1>2, <2>1, <2>2
<1> HIDE DEF f
<1>4. gf_mul(0, f) = 0 /\ xor[0][0] = 0
  BY <1>3, MulUnits, Sizes, XorLaws
<1> QED BY <1>1, <1>3, <1>4 DEF MonicRoot

LEMMA CoefficientsUnfold ==
  ASSUME FieldReady, NEW k \in Nat, k >= 1, NEW p \in [Below(k) -> Elem]
  PROVE  \E c : /\ c \in [0 .. k - 1 -> Vec(k)] /\ Coefficients(p, k) = c[k - 1]
                /\ c[0] = [j \in Below(k) |-> IF j = k - 1 THEN p[0] ELSE 0]
                /\ \A i \in 1 .. k - 1 :
                     c[i] = [j \in Below(k) |->
                               IF j = k - 1 THEN xor[c[i - 1][j]][p[i]]
                               ELSE IF j >= k - i THEN xor[c[i - 1][j]][gf_mul(p[i], c[i - 1][j + 1])]
                               ELSE c[i - 1][j]]
<1> DEFINE first == [j \in Below(k) |-> IF j = k - 1 THEN p[0] ELSE 0]
           Pass(old, i) == [j \in Below(k) |->
                              IF j = k - 1 THEN xor[old[j]][p[i]]
                              ELSE IF j >= k - i THEN xor[old[j]][gf_mul(p[i], old[j + 1])]
                              ELSE old[j]]
           Def(g) == [i \in 0 .. k - 1 |-> IF i = 0 THEN first ELSE Pass(g[i - 1], i)]
           S == Vec(k)
           G == [i \in 1 .. k - 1 |-> [x \in S |-> Pass(x, i)]]
           c == CHOOSE g : g = Def(g)
           L == k - 1
<1>1. L \in Nat /\ first \in S
  <2>1. p[0] \in Elem
    BY DEF Below
  <2> QED BY <2>1, Sizes DEF Vec
<1>2. G \in [1 .. L -> [S -> S]]
  <2> SUFFICES ASSUME NEW i \in 1 .. L, NEW x \in S PROVE Pass(x, i) \in S
    OBVIOUS
  <2> SUFFICES ASSUME NEW j \in Below(k) PROVE Pass(x, i)[j] \in Elem
    BY DEF Vec
  <2>1. i \in Below(k) /\ x[j] \in Elem /\ p[i] \in Elem
    BY DEF Below, Vec
  <2>2. CASE j = k - 1
    BY <2>1, <2>2, XorLaws
  <2>3. CASE j # k - 1
    <3>1. j + 1 \in Below(k)
      BY <2>3 DEF Below
    <3>2. x[j + 1] \in Elem
      BY <3>1 DEF Vec
    <3> DEFINE v == gf_mul(p[i], x[j + 1])
    <3>3. v \in Elem
      BY <2>1, <3>2, MulElem
    <3>4. xor[x[j]][v] \in Elem
      <4> HIDE DEF v
      <4> QED BY <2>1, <3>3, XorLaws
    <3> QED BY <2>1, <2>3, <3>4
  <2> QED BY <2>2, <2>3
<1>3. PICK A : IsIteration(A, L, S, first, G)
  <2> HIDE DEF S, G, first, L
  <2> QED BY <1>1, <1>2, IterationExists
<1>4. A \in [0 .. L -> S] /\ A[0] = first /\ \A i \in 1 .. L : A[i] = Pass(A[i - 1], i)
  <2>1. A \in [0 .. L -> S] /\ A[0] = first /\ \A i \in 1 .. L : A[i] = G[i][A[i - 1]] /\ i - 1 \in 0 .. L
    BY <1>1, <1>3 DEF IsIteration
  <2> HIDE DEF S, Pass
  <2> QED BY <2>1
<1> HIDE DEF Pass, first
<1>5. A = Def(A)
  <2>1. ASSUME NEW i \in 0 .. L PROVE A[i] = Def(A)[i]
    <3>1. i = 0 \/ i \in 1 .. L
      BY <1>1
    <3> QED BY <1>4, <3>1
  <2>2. A = [i \in 0 .. L |-> A[i]] /\ Def(A) = [i \in 0 .. L |-> Def(A)[i]]
    BY <1>4
  <2> HIDE DEF Def
  <2> QED BY <2>1, <2>2
<1>6. c = Def(c)
  <2> HIDE DEF Def
  <2> QED BY <1>5
<1>7. Coefficients(p, k) = c[L]
  BY DEF Coefficients, Pass, first
<1> HIDE DEF c
<1>8. \A g : Def(g)[0] = first /\ (\A i \in 1 .. L : Def(g)[i] = Pass(g[i - 1], i))
  BY <1>1
<1>9. c[0] = first /\ \A i \in 1 .. L : c[i] = Pass(c[i - 1], i)
  <2> HIDE DEF Def
  <2> QED BY <1>6, <1>8
<1>10. c = [i \in 0 .. L |-> c[i]]
  <2>1. \A g : Def(g) = [i \in 0 .. L |-> Def(g)[i]]
    OBVIOUS
  <2> HIDE DEF Def
  <2> QED BY <1>6, <2>1
<1>11. ASSUME NEW i \in 0 .. L PROVE c[i] = A[i]
  <2> DEFINE I == {j \in Nat : j <= L => c[j] = A[j]}
  <2>1. 0 \in I
    BY <1>4, <1>9
  <2>2. ASSUME NEW j \in Nat, j \in I PROVE j + 1 \in I
    <3> SUFFICES ASSUME j + 1 <= L PROVE c[j + 1] = A[j + 1]
      OBVIOUS
    <3>1. j + 1 \in 1 .. L /\ j + 1 - 1 = j /\ c[j] = A[j]
      BY <1>1, <2>2
    <3>2. c[j + 1] = Pass(c[j + 1 - 1], j + 1)
      BY <1>9, <3>1
    <3>3. A[j + 1] = Pass(A[j + 1 - 1], j + 1)
      BY <1>4, <3>1
    <3> QED BY <3>1, <3>2, <3>3
  <2>3. Nat \subseteq I
    <3> HIDE DEF I
    <3> QED BY <2>1, <2>2, SetInduction
  <2> QED BY <1>1, <2>3
<1>12. c \in [0 .. L -> S]
  <2> HIDE DEF L, S
  <2> QED BY <1>4, <1>10, <1>11
<1> QED BY <1>7, <1>9, <1>12 DEF Pass, first

\* Every point is a root, the first of them being 0.
LEMMA CoefficientsRoots ==
  ASSUME FieldReady, NEW k \in Nat, k >= 1, NEW p \in [Below(k) -> Elem], p[0] = 0
  PROVE  Coefficients(p, k) \in Vec(k) /\ \A t \in Below(k) : MonicRoot(Coefficients(p, k), p[t], k)
<1>1. PICK c : /\ c \in [0 .. k - 1 -> Vec(k)] /\ Coefficients(p, k) = c[k - 1]
               /\ c[0] = [j \in Below(k) |-> IF j = k - 1 THEN p[0] ELSE 0]
               /\ \A i \in 1 .. k - 1 :
                    c[i] = [j \in Below(k) |->
                              IF j = k - 1 THEN xor[c[i - 1][j]][p[i]]
                              ELSE IF j >= k - i THEN xor[c[i - 1][j]][gf_mul(p[i], c[i - 1][j + 1])]
                              ELSE c[i - 1][j]]
  BY CoefficientsUnfold
<1> DEFINE Low(i) == \A j \in 0 .. k - 1 - i : c[i][j] = 0
           Roots(i) == \A t \in 0 .. i : MonicRoot(c[i], p[t], k)
           I == {i \in Nat : i < k => Low(i) /\ Roots(i)}
<1>2. 0 \in I
  <2>1. Low(0)
    <3> SUFFICES ASSUME NEW j \in 0 .. k - 1 PROVE c[0][j] = 0
      OBVIOUS
    <3>1. j \in Below(k)
      BY DEF Below
    <3> QED BY <1>1, <3>1
  <2>2. Roots(0)
    <3> DEFINE c0 == c[0]
    <3>1. c0 \in Vec(k) /\ c0[0] = 0
      BY <1>1, <2>1
    <3> HIDE DEF c0
    <3>2. MonicRoot(c0, 0, k)
      BY <3>1, ZeroRoot
    <3> QED BY <3>2 DEF c0
  <2> QED BY <2>1, <2>2
<1>3. ASSUME NEW i \in Nat, i \in I PROVE i + 1 \in I
  <2> SUFFICES ASSUME i + 1 < k PROVE Low(i + 1) /\ Roots(i + 1)
    OBVIOUS
  <2> DEFINE old == c[i]
             new == c[i + 1]
             q == p[i + 1]
  <2>1. Low(i) /\ Roots(i)
    BY <1>3
  <2>2. i + 1 \in 1 .. k - 1 /\ i + 1 - 1 = i /\ i \in 0 .. k - 1 /\ i + 1 \in 0 .. k - 1 /\ i + 1 \in Below(k)
    BY DEF Below
  <2>3. old \in Vec(k) /\ new \in Vec(k) /\ q \in Elem
    BY <1>1, <2>2
  <2>4. new = [j \in Below(k) |->
                 IF j = k - 1 THEN xor[old[j]][q]
                 ELSE IF j >= k - (i + 1) THEN xor[old[j]][gf_mul(q, old[j + 1])]
                 ELSE old[j]]
    <3>1. c[i + 1] = [j \in Below(k) |->
                        IF j = k - 1 THEN xor[c[i + 1 - 1][j]][p[i + 1]]
                        ELSE IF j >= k - (i + 1) THEN xor[c[i + 1 - 1][j]][gf_mul(p[i + 1], c[i + 1 - 1][j + 1])]
                        ELSE c[i + 1 - 1][j]]
      BY <1>1, <2>2
    <3> QED BY <2>2, <3>1
  <2>5. \A j \in 0 .. k - 1 - i : old[j] = 0
    BY <2>1
  <2> HIDE DEF old, new, q
  <2>6. \A j \in 0 .. k - 1 - (i + 1) : new[j] = 0
    <3> SUFFICES ASSUME NEW j \in 0 .. k - 1 - (i + 1) PROVE new[j] = 0
      OBVIOUS
    <3>1. j \in Below(k) /\ j # k - 1 /\ ~(j >= k - (i + 1)) /\ j \in 0 .. k - 1 - i
      BY DEF Below
    <3> QED BY <2>4, <2>5, <3>1
  <2>7. Passed(new, old, q, k)
    <3>1. new[k - 1] = xor[old[k - 1]][q]
      <4>1. k - 1 \in Below(k)
        BY DEF Below
      <4> QED BY <2>4, <4>1
    <3>2. ASSUME NEW j \in Below(k - 1) PROVE new[j] = xor[old[j]][gf_mul(q, old[j + 1])]
      <4>1. j \in Below(k) /\ j # k - 1
        BY DEF Below
      <4>2. CASE j >= k - (i + 1)
        BY <2>4, <4>1, <4>2
      <4>3. CASE ~(j >= k - (i + 1))
        <5>1. j \in 0 .. k - 1 - i /\ j + 1 \in 0 .. k - 1 - i
          BY <4>3 DEF Below
        <5>2. old[j] = 0 /\ old[j + 1] = 0 /\ new[j] = old[j]
          BY <2>4, <2>5, <4>1, <4>3, <5>1
        <5>3. gf_mul(q, 0) = 0 /\ xor[0][0] = 0
          BY <2>3, MulUnits, Sizes, XorLaws
        <5> QED BY <5>2, <5>3
      <4> QED BY <4>2, <4>3
    <3> QED BY <3>1, <3>2 DEF Passed
  <2>8. old[0] = 0 /\ new[0] = 0
    <3>1. 0 \in 0 .. k - 1 - i /\ 0 \in 0 .. k - 1 - (i + 1)
      OBVIOUS
    <3> QED BY <2>5, <2>6, <3>1
  <2>9. ASSUME NEW t \in 0 .. i + 1 PROVE MonicRoot(new, p[t], k)
    <3> DEFINE x == p[t]
    <3>1. x \in Elem
      BY DEF Below
    <3>2. CASE t = i + 1
      <4>1. x = q
        BY <3>2 DEF q
      <4> HIDE DEF x
      <4>2. MonicRoot(new, x, k)
        BY <2>3, <2>7, <2>8, <3>1, <4>1, PassRoots
      <4> QED BY <4>2 DEF x
    <3>3. CASE t # i + 1
      <4>1. MonicRoot(old, x, k)
        BY <2>1, <3>3 DEF old
      <4> HIDE DEF x
      <4>2. CASE x = 0
        <5>1. MonicRoot(new, 0, k)
          BY <2>3, <2>8, ZeroRoot
        <5> QED BY <4>2, <5>1 DEF x
      <4>3. CASE x # 0
        <5>1. MonicRoot(new, x, k)
          BY <2>3, <2>7, <2>8, <3>1, <4>1, <4>3, PassRoots
        <5> QED BY <5>1 DEF x
      <4> QED BY <4>2, <4>3
    <3> QED BY <3>2, <3>3
  <2> QED BY <2>6, <2>9 DEF new
<1>4. Nat \subseteq I
  <2> HIDE DEF I
  <2> QED BY <1>2, <1>3, SetInduction
<1>5. Roots(k - 1) /\ k - 1 \in 0 .. k - 1
  BY <1>4
<1>6. ASSUME NEW t \in Below(k) PROVE MonicRoot(c[k - 1], p[t], k)
  <2>1. t \in 0 .. k - 1
    BY DEF Below
  <2> QED BY <1>5, <2>1
<1> QED BY <1>1, <1>5, <1>6

\* One turn of the loop of Division.
DivisionTurn(old, c, xx, i) ==
  LET b == xor[c[i + 1]][gf_mul(xx, old.b[i + 1])]
  IN [b |-> [old.b EXCEPT ![i] = b], t |-> xor[gf_mul(xx, old.t)][b]]

LEMMA DivisionUnfold ==
  ASSUME FieldReady, NEW k \in Nat, k >= 1, NEW c \in Vec(k), NEW xx \in Elem
  PROVE  \E st : /\ st \in [0 .. k - 1 -> [b : Vec(k), t : Elem]] /\ Division(c, xx, k) = st[k - 1]
                 /\ st[0] = [b |-> [i \in Below(k) |-> IF i = k - 1 THEN 1 ELSE 0], t |-> 1]
                 /\ \A j \in 1 .. k - 1 : st[j] = DivisionTurn(st[j - 1], c, xx, k - 1 - j)
<1> DEFINE first == [b |-> [i \in Below(k) |-> IF i = k - 1 THEN 1 ELSE 0], t |-> 1]
           Step(old, j) == DivisionTurn(old, c, xx, k - 1 - j)
           Def(g) == [i \in 0 .. k - 1 |-> IF i = 0 THEN first ELSE Step(g[i - 1], i)]
           S == [b : Vec(k), t : Elem]
           L == k - 1
           G == [i \in 1 .. L |-> [x \in S |-> Step(x, i)]]
           st == CHOOSE g : g = Def(g)
<1>1. L \in Nat /\ first \in S
  BY Sizes DEF Vec
<1>2. G \in [1 .. L -> [S -> S]]
  <2> SUFFICES ASSUME NEW i \in 1 .. L, NEW x \in S PROVE Step(x, i) \in S
    OBVIOUS
  <2> DEFINE j == k - 1 - i
             u == c[j + 1]
             v == x.b[j + 1]
             b == xor[u][gf_mul(xx, v)]
  <2>1. j \in Below(k) /\ j + 1 \in Below(k) /\ x.b \in Vec(k) /\ x.t \in Elem
    BY DEF Below
  <2>2. u \in Elem /\ v \in Elem
    BY <2>1 DEF Vec
  <2> HIDE DEF u, v
  <2>3. b \in Elem
    <3>1. gf_mul(xx, v) \in Elem
      BY <2>2, MulElem
    <3> QED BY <2>2, <3>1, XorLaws
  <2> HIDE DEF b
  <2>4. xor[gf_mul(xx, x.t)][b] \in Elem
    <3> DEFINE y == x.t
    <3>1. y \in Elem
      BY <2>1
    <3> HIDE DEF y
    <3>2. gf_mul(xx, y) \in Elem
      BY <3>1, MulElem
    <3>3. xor[gf_mul(xx, y)][b] \in Elem
      BY <2>3, <3>2, XorLaws
    <3> QED BY <3>3 DEF y
  <2>5. [x.b EXCEPT ![j] = b] \in Vec(k)
    BY <2>1, <2>3 DEF Vec
  <2>6. Step(x, i) = [b |-> [x.b EXCEPT ![j] = b], t |-> xor[gf_mul(xx, x.t)][b]]
    BY DEF b, u, v, DivisionTurn
  <2> QED BY <2>4, <2>5, <2>6
<1>3. PICK A : IsIteration(A, L, S, first, G)
  <2> HIDE DEF S, G, first, L
  <2> QED BY <1>1, <1>2, IterationExists
<1>4. A \in [0 .. L -> S] /\ A[0] = first /\ \A i \in 1 .. L : A[i] = Step(A[i - 1], i)
  <2>1. A \in [0 .. L -> S] /\ A[0] = first /\ \A i \in 1 .. L : A[i] = G[i][A[i - 1]] /\ i - 1 \in 0 .. L
    <3> HIDE DEF S, G, first
    <3> QED BY <1>1, <1>3 DEF IsIteration
  <2> HIDE DEF S, Step
  <2> QED BY <2>1
<1> HIDE DEF Step, first
<1>5. A = Def(A)
  <2>1. ASSUME NEW i \in 0 .. L PROVE A[i] = Def(A)[i]
    <3>1. i = 0 \/ i \in 1 .. L
      BY <1>1
    <3> QED BY <1>4, <3>1
  <2>2. A = [i \in 0 .. L |-> A[i]] /\ Def(A) = [i \in 0 .. L |-> Def(A)[i]]
    BY <1>4
  <2> HIDE DEF Def
  <2> QED BY <2>1, <2>2
<1>6. st = Def(st)
  <2> HIDE DEF Def
  <2> QED BY <1>5
<1>7. Division(c, xx, k) = st[L]
  BY DEF Division, DivisionTurn, Step, first
<1> HIDE DEF st
<1>8. \A g : Def(g)[0] = first /\ (\A i \in 1 .. L : Def(g)[i] = Step(g[i - 1], i))
  BY <1>1
<1>9. st[0] = first /\ \A i \in 1 .. L : st[i] = Step(st[i - 1], i)
  <2> HIDE DEF Def
  <2> QED BY <1>6, <1>8
<1>10. st = [i \in 0 .. L |-> st[i]]
  <2>1. \A g : Def(g) = [i \in 0 .. L |-> Def(g)[i]]
    OBVIOUS
  <2> HIDE DEF Def
  <2> QED BY <1>6, <2>1
<1>11. ASSUME NEW i \in 0 .. L PROVE st[i] = A[i]
  <2> DEFINE I == {j \in Nat : j <= L => st[j] = A[j]}
  <2>1. 0 \in I
    BY <1>4, <1>9
  <2>2. ASSUME NEW j \in Nat, j \in I PROVE j + 1 \in I
    <3> SUFFICES ASSUME j + 1 <= L PROVE st[j + 1] = A[j + 1]
      OBVIOUS
    <3>1. j + 1 \in 1 .. L /\ j + 1 - 1 = j /\ st[j] = A[j]
      BY <1>1, <2>2
    <3>2. st[j + 1] = Step(st[j + 1 - 1], j + 1)
      BY <1>9, <3>1
    <3>3. A[j + 1] = Step(A[j + 1 - 1], j + 1)
      BY <1>4, <3>1
    <3> QED BY <3>1, <3>2, <3>3
  <2>3. Nat \subseteq I
    <3> HIDE DEF I
    <3> QED BY <2>1, <2>2, SetInduction
  <2> QED BY <1>1, <2>3
<1>12. st \in [0 .. L -> S]
  <2> HIDE DEF L, S
  <2> QED BY <1>4, <1>10, <1>11
<1> QED BY <1>7, <1>9, <1>12 DEF Step, first

\* Division gives the quotient and its value at the root.
LEMMA DivisionIs ==
  ASSUME FieldReady, NEW k \in Nat, k >= 1, NEW c \in Vec(k), NEW xx \in Elem
  PROVE  LET d == Division(c, xx, k) IN
         /\ d.b \in Vec(k) /\ d.t \in Elem
         /\ \E g, f : IsHorner(g, 1, c, xx, k) /\ Quotient(d.b, g, k) /\ IsHorner(f, 0, d.b, xx, k) /\ d.t = f[k]
<1> DEFINE d == Division(c, xx, k)
<1>1. PICK st : /\ st \in [0 .. k - 1 -> [b : Vec(k), t : Elem]] /\ d = st[k - 1]
                /\ st[0] = [b |-> [i \in Below(k) |-> IF i = k - 1 THEN 1 ELSE 0], t |-> 1]
                /\ \A j \in 1 .. k - 1 : st[j] = DivisionTurn(st[j - 1], c, xx, k - 1 - j)
  BY DivisionUnfold
<1>2. PICK g : IsHorner(g, 1, c, xx, k)
  BY Sizes, HornerExists
<1>3. /\ \A s \in 0 .. k : g[s] \in Elem
      /\ g[0] = 1 /\ \A s \in Below(k) : g[s + 1] = xor[gf_mul(xx, g[s])][c[k - 1 - s]]
  BY <1>2 DEF IsHorner
<1>4. PICK q : Quotient(q, g, k)
  <2>1. \A s \in Below(k) : g[s] \in Elem
    BY <1>3 DEF Below
  <2> QED BY <2>1, QuotientExists
<1>5. PICK f : IsHorner(f, 0, q, xx, k)
  BY <1>4, Sizes, HornerExists DEF Quotient
<1>6. /\ \A s \in 0 .. k : f[s] \in Elem
      /\ f[0] = 0 /\ \A s \in Below(k) : f[s + 1] = xor[gf_mul(xx, f[s])][g[s]]
  <2>1. \A s \in 0 .. k : f[s] \in Elem
    BY <1>5 DEF IsHorner
  <2>2. f[0] = 0
    BY <1>5 DEF IsHorner
  <2>3. ASSUME NEW s \in Below(k) PROVE f[s + 1] = xor[gf_mul(xx, f[s])][g[s]]
    <3>1. f[s + 1] = xor[gf_mul(xx, f[s])][q[k - 1 - s]]
      BY <1>5 DEF IsHorner
    <3>2. q[k - 1 - s] = g[s]
      BY <1>4 DEF Quotient
    <3> QED BY <3>1, <3>2
  <2> QED BY <2>1, <2>2, <2>3
<1> HIDE DEF d
<1> DEFINE Agree(j) == (\A s \in 0 .. j : st[j].b[k - 1 - s] = g[s]) /\ st[j].t = f[j + 1]
           I == {j \in Nat : j < k => Agree(j)}
<1>7. 0 \in I
  <2>1. st[0].b[k - 1 - 0] = g[0]
    <3>1. k - 1 - 0 = k - 1 /\ k - 1 \in Below(k)
      BY DEF Below
    <3> QED BY <1>1, <1>3, <3>1
  <2>2. st[0].t = 1
    BY <1>1
  <2>3. f[0 + 1] = 1
    <3>1. 0 \in Below(k)
      BY DEF Below
    <3>2. f[0 + 1] = xor[gf_mul(xx, 0)][1]
      BY <1>3, <1>6, <3>1
    <3>3. gf_mul(xx, 0) = 0 /\ xor[0][1] = 1
      BY Sizes, MulUnits, XorLaws
    <3> QED BY <3>2, <3>3
  <2> QED BY <2>1, <2>2, <2>3
<1>8. ASSUME NEW j \in Nat, j \in I PROVE j + 1 \in I
  <2> SUFFICES ASSUME j + 1 < k PROVE Agree(j + 1)
    OBVIOUS
  <2> DEFINE i == k - 1 - (j + 1)
             old == st[j]
             u == c[i + 1]
             v == old.b[i + 1]
             b == xor[u][gf_mul(xx, v)]
  <2>1. Agree(j) /\ j + 1 \in 1 .. k - 1 /\ j \in 0 .. k - 1 /\ j + 1 - 1 = j
    BY <1>8
  <2>2. old \in [b : Vec(k), t : Elem]
    BY <1>1, <2>1
  <2>3. i \in Below(k) /\ i + 1 \in Below(k) /\ i + 1 = k - 1 - j /\ j \in Below(k) /\ j + 1 \in Below(k)
    BY DEF Below
  <2>4. u \in Elem /\ v = g[j] /\ v \in Elem
    <3>1. u \in Elem
      BY <2>3 DEF Vec
    <3>2. v = g[j]
      BY <2>1, <2>3
    <3> QED BY <1>3, <2>1, <3>1, <3>2
  <2>5. st[j + 1] = [b |-> [old.b EXCEPT ![i] = b], t |-> xor[gf_mul(xx, old.t)][b]]
    <3>1. st[j + 1] = DivisionTurn(st[j + 1 - 1], c, xx, k - 1 - (j + 1))
      BY <1>1, <2>1
    <3> QED BY <2>1, <3>1 DEF DivisionTurn
  <2>6. g[j + 1] = b
    <3>1. g[j + 1] = xor[gf_mul(xx, v)][u]
      <4>1. g[j + 1] = xor[gf_mul(xx, g[j])][c[k - 1 - j]]
        BY <1>3, <2>3
      <4> QED BY <2>3, <2>4, <4>1
    <3>2. gf_mul(xx, v) \in Elem
      BY <2>4, MulElem
    <3> HIDE DEF u, v
    <3>3. xor[gf_mul(xx, v)][u] = xor[u][gf_mul(xx, v)]
      BY <2>4, <3>2, XorLaws
    <3> QED BY <3>1, <3>3
  <2> HIDE DEF b
  <2>7. f[j + 1 + 1] = xor[gf_mul(xx, f[j + 1])][b]
    BY <1>6, <2>3, <2>6
  <2>8. st[j + 1].t = f[j + 1 + 1]
    BY <2>1, <2>5, <2>7
  <2>9. ASSUME NEW s \in 0 .. j + 1 PROVE st[j + 1].b[k - 1 - s] = g[s]
    <3>1. st[j + 1].b = [old.b EXCEPT ![i] = b] /\ DOMAIN old.b = Below(k)
      BY <2>2, <2>5 DEF Vec
    <3>2. CASE s = j + 1
      BY <2>3, <2>6, <3>1, <3>2
    <3>3. CASE s # j + 1
      <4>1. s \in 0 .. j /\ k - 1 - s # i
        BY <3>3
      <4>2. old.b[k - 1 - s] = g[s]
        BY <2>1, <4>1
      <4> QED BY <3>1, <4>1, <4>2
    <3> QED BY <3>2, <3>3
  <2> QED BY <2>8, <2>9
<1>9. Nat \subseteq I
  <2> HIDE DEF I
  <2> QED BY <1>7, <1>8, SetInduction
<1>10. Agree(k - 1) /\ k - 1 + 1 = k /\ k - 1 \in 0 .. k - 1
  BY <1>9
<1>11. d.b \in Vec(k) /\ d.t \in Elem
  BY <1>1, <1>10
<1>12. \A s \in Below(k) : d.b[k - 1 - s] = g[s]
  <2>1. \A s \in Below(k) : s \in 0 .. k - 1
    BY DEF Below
  <2> QED BY <1>1, <1>10, <2>1
<1>13. Quotient(d.b, g, k)
  BY <1>11, <1>12 DEF Quotient
<1>14. IsHorner(f, 0, d.b, xx, k)
  <2>1. \A s \in Below(k) : f[s + 1] = xor[gf_mul(xx, f[s])][d.b[k - 1 - s]]
    BY <1>6, <1>12
  <2>2. f \in [0 .. k -> Elem] /\ f[0] = 0
    BY <1>5 DEF IsHorner
  <2> QED BY <2>1, <2>2 DEF IsHorner
<1>15. d.t = f[k]
  BY <1>1, <1>10
<1> QED BY <1>2, <1>11, <1>13, <1>14, <1>15 DEF d

LEMMA HornerUnique ==
  ASSUME NEW k \in Nat, NEW lead, NEW a, NEW x, NEW h, NEW g, IsHorner(h, lead, a, x, k), IsHorner(g, lead, a, x, k)
  PROVE  h[k] = g[k]
<1> DEFINE I == {s \in Nat : s <= k => h[s] = g[s]}
<1>1. 0 \in I
  BY DEF IsHorner
<1>2. ASSUME NEW s \in Nat, s \in I PROVE s + 1 \in I
  <2> SUFFICES ASSUME s + 1 <= k PROVE h[s + 1] = g[s + 1]
    OBVIOUS
  <2>1. s \in Below(k) /\ h[s] = g[s]
    BY <1>2 DEF Below
  <2>2. h[s + 1] = xor[gf_mul(x, h[s])][a[k - 1 - s]] /\ g[s + 1] = xor[gf_mul(x, g[s])][a[k - 1 - s]]
    BY <2>1 DEF IsHorner
  <2> QED BY <2>1, <2>2
<1>3. Nat \subseteq I
  <2> HIDE DEF I
  <2> QED BY <1>1, <1>2, SetInduction
<1> QED BY <1>3

LEMMA DotScale ==
  ASSUME FieldReady, NEW k \in Nat, NEW w \in Vec(k), NEW b \in Vec(k), NEW q \in Elem
  PROVE  Dot(w, [i \in Below(k) |-> gf_mul(q, b[i])], k) = gf_mul(q, Dot(w, b, k))
<1> DEFINE f == [j \in Below(k) |-> gf_mul(w[j], b[j])]
           h == [j \in Below(k) |-> gf_mul(w[j], [i \in Below(k) |-> gf_mul(q, b[i])][j])]
<1>1. ASSUME NEW j \in Below(k) PROVE f[j] \in Elem /\ h[j] = gf_mul(q, f[j])
  <2> DEFINE u == w[j]
             v == b[j]
  <2>1. u \in Elem /\ v \in Elem /\ f[j] = gf_mul(u, v) /\ h[j] = gf_mul(u, gf_mul(q, v))
    BY DEF Vec
  <2> HIDE DEF u, v, f, h
  <2>2. gf_mul(gf_mul(u, q), v) = gf_mul(u, gf_mul(q, v)) /\ gf_mul(gf_mul(q, u), v) = gf_mul(q, gf_mul(u, v))
    BY <2>1, MulAssociates
  <2>3. gf_mul(u, q) = gf_mul(q, u)
    BY <2>1, MulCommutes
  <2> QED BY <2>1, <2>2, <2>3, MulElem
<1> HIDE DEF f, h
<1>2. Multiple(h, q, f, k)
  BY <1>1 DEF Multiple
<1>3. XorAll(h, k) = gf_mul(q, XorAll(f, k))
  BY <1>2, XorAllScale
<1> QED BY <1>3 DEF f, h, Dot

\* The quotients by each point: their values there, and 0 at the other points.
LEMMA Quotients ==
  ASSUME FieldReady, NEW k \in Nat, k >= 2, NEW n \in Nat, k <= n, n <= GF_SIZE + 1, NEW c \in Below(k),
         NEW p, p = [i \in Below(k) |-> Vandermonde(k, n)[i][1]]
  PROVE  LET d == Division(Coefficients(p, k), p[c], k) IN
         /\ d.b \in Vec(k) /\ d.t \in Elem /\ d.t # 0
         /\ \A r \in Below(k) : Dot(Vandermonde(k, n)[r], d.b, k) = IF r = c THEN d.t ELSE 0
<1> DEFINE co == Coefficients(p, k)
           d == Division(co, p[c], k)
           V(r) == Vandermonde(k, n)[r]
<1>1. \A r \in Below(k) : r \in Below(n) /\ r \in 0 .. GF_SIZE
  BY Sizes DEF Below
<1>2. \A r \in Below(k) : p[r] = Point(r) /\ p[r] \in Elem /\ V(r) \in Vec(k)
  <2> SUFFICES ASSUME NEW r \in Below(k) PROVE p[r] = Point(r) /\ p[r] \in Elem /\ V(r) \in Vec(k)
    OBVIOUS
  <2>1. r \in Below(n)
    BY <1>1
  <2>2. V(r) \in Vec(k) /\ V(r)[1] = Point(r) /\ Point(r) \in Elem
    BY <2>1, VandermondeRows
  <2> QED BY <2>2
<1> HIDE DEF V
<1>3. p \in [Below(k) -> Elem] /\ p[0] = 0
  <2>1. 0 \in Below(k)
    BY DEF Below
  <2> QED BY <1>2, <2>1 DEF Point
<1>4. co \in Vec(k) /\ \A t \in Below(k) : MonicRoot(co, p[t], k)
  BY <1>3, CoefficientsRoots
<1> DEFINE q == p[c]
           b == d.b
<1>5. q \in Elem /\ q = Point(c)
  BY <1>2
<1> HIDE DEF co, q
<1>6. b \in Vec(k) /\ d.t \in Elem
      /\ \E g, f : IsHorner(g, 1, co, q, k) /\ Quotient(b, g, k) /\ IsHorner(f, 0, b, q, k) /\ d.t = f[k]
  BY <1>4, <1>5, DivisionIs DEF q
<1> HIDE DEF d
<1>7. PICK g, f : IsHorner(g, 1, co, q, k) /\ Quotient(b, g, k) /\ IsHorner(f, 0, b, q, k) /\ d.t = f[k]
  BY <1>6
<1> HIDE DEF b
<1>8. g[k] = 0
  <2>1. PICK h : IsHorner(h, 1, co, q, k) /\ h[k] = 0
    BY <1>4 DEF MonicRoot, q
  <2> QED BY <1>7, <2>1, HornerUnique
<1>9. Dot(V(c), b, k) = d.t
  <2>1. c \in Below(n) /\ IsHorner(f, 0, b, Point(c), k)
    BY <1>1, <1>5, <1>7
  <2>2. Dot(V(c), b, k) = f[k]
    BY <1>6, <2>1, RowIsValue DEF V
  <2> QED BY <1>7, <2>2
<1>10. ASSUME NEW r \in Below(k), r # c PROVE Dot(V(r), b, k) = 0
  <2> DEFINE x == p[r]
  <2>1. x \in Elem /\ x = Point(r) /\ x # q
    BY <1>1, <1>2, <1>5, <1>10, PointsDiffer
  <2>2. PICK h : IsHorner(h, 1, co, x, k) /\ h[k] = 0
    BY <1>4 DEF MonicRoot
  <2> HIDE DEF x
  <2>3. Root(b, x, k)
    BY <1>4, <1>5, <1>7, <1>8, <2>1, <2>2, Sizes, QuotientRoot
  <2> QED BY <1>1, <1>6, <2>1, <2>3, RowRoot DEF V
<1>11. d.t # 0
  <2> SUFFICES ASSUME d.t = 0 PROVE FALSE
    OBVIOUS
  <2> DEFINE row == [i \in Below(k) |-> i]
  <2>1. row \in [Below(k) -> Below(n)] /\ \A i, j \in Below(k) : row[i] = row[j] => i = j
    BY <1>1
  <2>2. \A i \in Below(k) : Dot(Vandermonde(k, n)[row[i]], b, k) = 0
    BY <1>9, <1>10 DEF V
  <2> HIDE DEF row
  <2>3. \A j \in Below(k) : b[j] = 0
    BY <1>6, <2>1, <2>2, VandermondeRegular
  <2>4. 0 \in Below(k) /\ k - 1 - 0 = k - 1 /\ k - 1 \in Below(k)
    BY DEF Below
  <2>5. b[k - 1 - 0] = g[0]
    BY <1>7, <2>4 DEF Quotient
  <2>6. g[0] = 1
    BY <1>7 DEF IsHorner
  <2> QED BY <2>3, <2>4, <2>5, <2>6
<1> QED BY <1>6, <1>9, <1>10, <1>11 DEF d, V, b, q, co

Column(m, c, k) == [i \in Below(k) |-> m[i][c]]

(***************************************************************************)
(* invert_vdm returns the inverse of the Vandermonde matrix of any k and   *)
(* n, although each pass leaves out the product of all points              *)
(* (fec.cc:529-583).                                                       *)
(***************************************************************************)
THEOREM FastInverse ==
  ASSUME FieldReady, NEW k \in Nat, k >= 1, NEW n \in Nat, k <= n, n <= GF_SIZE + 1
  PROVE  /\ invert_vdm(Vandermonde(k, n), k) \in Mat(k)
         /\ \A r, c \in Below(k) :
              Dot(Vandermonde(k, n)[r], Column(invert_vdm(Vandermonde(k, n), k), c, k), k) = IF r = c THEN 1 ELSE 0
<1> DEFINE W == Vandermonde(k, n)
           F == invert_vdm(W, k)
<1>1. CASE k = 1
  <2> DEFINE v == W[0]
  <2>1. Below(k) = {0} /\ 0 \in Below(n)
    BY <1>1 DEF Below
  <2>2. v \in Vec(k) /\ v[0] = 1
    <3>1. v \in Vec(k) /\ IsPowers(v, Point(0), k)
      BY <2>1, VandermondeRows
    <3> QED BY <1>1, <3>1 DEF IsPowers
  <2>3. F = [row \in Below(k) |-> v]
    BY <1>1 DEF invert_vdm
  <2> HIDE DEF F, v
  <2>4. F \in Mat(k)
    BY <2>2, <2>3 DEF Mat
  <2>5. ASSUME NEW r \in Below(k), NEW c \in Below(k) PROVE Dot(W[r], Column(F, c, k), k) = 1
    <3> DEFINE f == [j \in Below(k) |-> gf_mul(v[j], Column(F, c, k)[j])]
    <3>1. r = 0 /\ c = 0
      BY <2>1
    <3>2. Column(F, c, k)[0] = 1
      BY <2>1, <2>2, <2>3, <3>1 DEF Column
    <3>3. gf_mul(1, 1) = 1
      BY Sizes, MulUnits
    <3>4. 0 \in Below(k) /\ f[0] = 1
      BY <2>1, <2>2, <3>2, <3>3
    <3> HIDE DEF f
    <3>5. XorAll(f, k) = f[0]
      BY <2>1, <3>4, Sizes, XorAllOne
    <3> QED BY <3>1, <3>4, <3>5 DEF f, Dot, v
  <2>6. \A r, c \in Below(k) : r = c
    BY <2>1
  <2> QED BY <2>4, <2>5, <2>6 DEF F
<1>2. CASE k # 1
  <2> DEFINE p == [i \in Below(k) |-> W[i][1]]
             D(c) == Division(Coefficients(p, k), p[c], k)
             q(c) == inverse[D(c).t]
  <2>1. F = [col \in Below(k) |-> [row \in Below(k) |-> gf_mul(q(row), D(row).b[col])]]
    BY <1>2 DEF invert_vdm
  <2>2. ASSUME NEW c \in Below(k)
        PROVE  /\ D(c).b \in Vec(k) /\ D(c).t \in Elem /\ D(c).t # 0
               /\ \A r \in Below(k) : Dot(W[r], D(c).b, k) = IF r = c THEN D(c).t ELSE 0
    BY <1>2, Quotients
  <2> HIDE DEF D
  <2>3. ASSUME NEW c \in Below(k) PROVE q(c) \in Elem /\ gf_mul(q(c), D(c).t) = 1
    BY <2>2, InverseLaw
  <2> HIDE DEF F, q
  <2>4. ASSUME NEW c \in Below(k) PROVE Column(F, c, k) = [i \in Below(k) |-> gf_mul(q(c), D(c).b[i])]
    BY <2>1 DEF Column
  <2>5. F \in Mat(k)
    <3>1. ASSUME NEW col \in Below(k), NEW row \in Below(k) PROVE gf_mul(q(row), D(row).b[col]) \in Elem
      <4> DEFINE u == D(row).b[col]
                 v == q(row)
      <4>1. u \in Elem /\ v \in Elem
        BY <2>2, <2>3 DEF Vec
      <4> HIDE DEF u, v
      <4>2. gf_mul(v, u) \in Elem
        BY <4>1, MulElem
      <4> QED BY <4>2 DEF u, v
    <3> QED BY <2>1, <3>1 DEF Mat, Vec
  <2>6. ASSUME NEW r \in Below(k), NEW c \in Below(k) PROVE Dot(W[r], Column(F, c, k), k) = IF r = c THEN 1 ELSE 0
    <3> DEFINE w == W[r]
               b == D(c).b
               t == D(c).t
               qc == q(c)
    <3>1. w \in Vec(k)
      <4>1. r \in Below(n)
        BY DEF Below
      <4> QED BY <4>1, VandermondeRows
    <3>2. b \in Vec(k) /\ qc \in Elem /\ Dot(w, b, k) = (IF r = c THEN t ELSE 0) /\ gf_mul(qc, t) = 1
      BY <2>2, <2>3
    <3>3. Column(F, c, k) = [i \in Below(k) |-> gf_mul(qc, b[i])]
      BY <2>4
    <3> HIDE DEF w, b, t, qc
    <3>4. Dot(w, [i \in Below(k) |-> gf_mul(qc, b[i])], k) = gf_mul(qc, Dot(w, b, k))
      BY <3>1, <3>2, DotScale
    <3>5. gf_mul(qc, 0) = 0
      BY <3>2, MulUnits
    <3> QED BY <3>2, <3>3, <3>4, <3>5 DEF w
  <2> QED BY <2>5, <2>6 DEF F
<1> QED BY <1>1, <1>2

-----------------------------------------------------------------------------
(* The encoding matrix.                                                    *)

RowMat(w, m, k) == [col \in Below(k) |-> Dot(w, Column(m, col, k), k)]
MatVec(m, x, k) == [i \in Below(k) |-> Dot(m[i], x, k)]

\* A row times a matrix, times a vector.
LEMMA RowTimesMatrix ==
  ASSUME FieldReady, NEW k \in Nat, NEW w \in Vec(k), NEW m \in Mat(k), NEW x \in Vec(k)
  PROVE  RowMat(w, m, k) \in Vec(k) /\ MatVec(m, x, k) \in Vec(k)
         /\ Dot(RowMat(w, m, k), x, k) = Dot(w, MatVec(m, x, k), k)
<1> DEFINE a == [i \in Below(k) |-> [j \in Below(k) |-> gf_mul(w[i], gf_mul(m[i][j], x[j]))]]
           wm == [col \in Below(k) |-> Dot(w, Column(m, col, k), k)]
           mx == [i \in Below(k) |-> Dot(m[i], x, k)]
<1>1. \A i, j \in Below(k) : w[i] \in Elem /\ x[j] \in Elem /\ m[i] \in Vec(k) /\ m[i][j] \in Elem
  BY DEF Mat, Vec
<1>2. \A i, j \in Below(k) : gf_mul(m[i][j], x[j]) \in Elem /\ a[i][j] \in Elem
      /\ a[i][j] = gf_mul(w[i], gf_mul(m[i][j], x[j]))
  <2> SUFFICES ASSUME NEW i \in Below(k), NEW j \in Below(k)
               PROVE  gf_mul(m[i][j], x[j]) \in Elem /\ a[i][j] \in Elem
                      /\ a[i][j] = gf_mul(w[i], gf_mul(m[i][j], x[j]))
    OBVIOUS
  <2> DEFINE mij == m[i][j]
             wi == w[i]
             xj == x[j]
             v == gf_mul(mij, xj)
  <2>1. mij \in Elem /\ wi \in Elem /\ xj \in Elem /\ a[i][j] = gf_mul(wi, v)
    BY <1>1
  <2> HIDE DEF a, mij, wi, xj
  <2>2. v \in Elem
    BY <2>1, MulElem
  <2> HIDE DEF v
  <2>3. gf_mul(wi, v) \in Elem
    BY <2>1, <2>2, MulElem
  <2> QED BY <2>1, <2>2, <2>3 DEF v, mij, wi, xj
<1>3. \A col \in Below(k) : Column(m, col, k) \in Vec(k)
  BY <1>1 DEF Column, Vec
<1>4. wm \in Vec(k)
  <2>1. \A col \in Below(k) : Dot(w, Column(m, col, k), k) \in Elem
    BY <1>3, DotElem
  <2> QED BY <2>1 DEF Vec
<1>5. mx \in Vec(k)
  <2>1. \A i \in Below(k) : Dot(m[i], x, k) \in Elem
    BY <1>1, DotElem
  <2> QED BY <2>1 DEF Vec
<1>6. ASSUME NEW i \in Below(k) PROVE XorAll([j \in Below(k) |-> a[i][j]], k) = gf_mul(w[i], mx[i])
  <2> DEFINE f == [j \in Below(k) |-> gf_mul(m[i][j], x[j])]
             h == [j \in Below(k) |-> a[i][j]]
             c == w[i]
  <2>1. c \in Elem /\ \A j \in Below(k) : f[j] \in Elem /\ h[j] = gf_mul(c, f[j])
    BY <1>1, <1>2
  <2>2. mx[i] = XorAll(f, k)
    BY DEF Dot
  <2> HIDE DEF f, h, c, mx
  <2>3. Multiple(h, c, f, k)
    BY <2>1 DEF Multiple
  <2>4. XorAll(h, k) = gf_mul(c, XorAll(f, k))
    BY <2>1, <2>3, XorAllScale
  <2> QED BY <2>2, <2>4 DEF h, c
<1>7. ASSUME NEW j \in Below(k) PROVE XorAll([i \in Below(k) |-> a[i][j]], k) = gf_mul(wm[j], x[j])
  <2> DEFINE f == [i \in Below(k) |-> gf_mul(w[i], Column(m, j, k)[i])]
             h == [i \in Below(k) |-> a[i][j]]
             c == x[j]
  <2>1. ASSUME NEW i \in Below(k) PROVE f[i] \in Elem /\ h[i] = gf_mul(c, f[i])
    <3> DEFINE mij == m[i][j]
               wi == w[i]
    <3>1. mij \in Elem /\ wi \in Elem /\ c \in Elem /\ f[i] = gf_mul(wi, mij) /\ h[i] = gf_mul(wi, gf_mul(mij, c))
      BY <1>1, <1>2 DEF Column
    <3> HIDE DEF mij, wi, c, f, h
    <3>2. gf_mul(gf_mul(wi, mij), c) = gf_mul(wi, gf_mul(mij, c))
      BY <3>1, MulAssociates
    <3> DEFINE v == gf_mul(wi, mij)
    <3>3. v \in Elem
      BY <3>1, MulElem
    <3> HIDE DEF v
    <3>4. gf_mul(v, c) = gf_mul(c, v)
      BY <3>1, <3>3, MulCommutes
    <3> QED BY <3>1, <3>2, <3>3, <3>4 DEF v
  <2>2. wm[j] = XorAll(f, k) /\ c \in Elem
    BY <1>1 DEF Dot
  <2> HIDE DEF f, h, c
  <2>3. Multiple(h, c, f, k)
    BY <2>1 DEF Multiple
  <2>4. XorAll(h, k) = gf_mul(c, XorAll(f, k))
    BY <2>2, <2>3, XorAllScale
  <2> DEFINE s == wm[j]
  <2>5. s \in Elem
    BY <1>4 DEF Vec
  <2>6. XorAll(h, k) = gf_mul(c, s)
    BY <2>2, <2>4
  <2> HIDE DEF s
  <2>7. gf_mul(c, s) = gf_mul(s, c)
    BY <2>2, <2>5, MulCommutes
  <2>8. XorAll(h, k) = gf_mul(s, c)
    BY <2>6, <2>7
  <2> QED BY <2>8 DEF h, c, s
<1> HIDE DEF a, wm, mx
<1>8. XorAll([i \in Below(k) |-> XorAll([j \in Below(k) |-> a[i][j]], k)], k)
      = XorAll([j \in Below(k) |-> XorAll([i \in Below(k) |-> a[i][j]], k)], k)
  BY <1>2, XorAllFubini
<1>9. [i \in Below(k) |-> XorAll([j \in Below(k) |-> a[i][j]], k)] = [i \in Below(k) |-> gf_mul(w[i], mx[i])]
  BY <1>6
<1>10. [j \in Below(k) |-> XorAll([i \in Below(k) |-> a[i][j]], k)] = [j \in Below(k) |-> gf_mul(wm[j], x[j])]
  BY <1>7
<1>11. Dot(wm, x, k) = Dot(w, mx, k)
  BY <1>8, <1>9, <1>10 DEF Dot
<1> QED BY <1>4, <1>5, <1>11 DEF wm, mx, RowMat, MatVec

LEMMA IdentityDot ==
  ASSUME FieldReady, NEW k \in Nat, NEW r \in Below(k), NEW x \in Vec(k)
  PROVE  Identity(k)[r] \in Vec(k) /\ Dot(Identity(k)[r], x, k) = x[r]
<1> DEFINE f == [j \in Below(k) |-> gf_mul(Identity(k)[r][j], x[j])]
<1>1. \A j \in Below(k) : Identity(k)[r][j] = IF r = j THEN 1 ELSE 0
  BY DEF Identity
<1>2. Identity(k)[r] \in Vec(k)
  BY Sizes DEF Identity, Vec
<1>3. ASSUME NEW j \in Below(k) PROVE f[j] = IF r = j THEN x[r] ELSE 0
  <2> DEFINE v == x[j]
  <2>1. v \in Elem
    BY DEF Vec
  <2>2. f[j] = gf_mul(IF r = j THEN 1 ELSE 0, v)
    BY <1>1
  <2> HIDE DEF v, f
  <2>3. gf_mul(0, v) = 0 /\ gf_mul(1, v) = v
    BY <2>1, MulUnits
  <2> QED BY <2>2, <2>3 DEF v
<1>4. x[r] \in Elem
  BY DEF Vec
<1> HIDE DEF f
<1>5. XorAll(f, k) = x[r]
  <2>1. f[r] \in Elem /\ f[r] = x[r] /\ \A i \in Below(k) : i # r => f[i] = 0
    BY <1>3, <1>4
  <2>2. XorAll(f, k) = f[r]
    BY <2>1, XorAllOne
  <2> QED BY <2>1, <2>2
<1> QED BY <1>2, <1>5 DEF f, Dot

\* Every row of the encoding matrix is the Vandermonde row times the fast inverse.
LEMMA EncodingRows ==
  ASSUME FieldReady, NEW k \in Nat, k >= 1, NEW n \in Nat, k <= n, n <= GF_SIZE + 1, NEW row \in Below(n)
  PROVE  LET F == invert_vdm(Vandermonde(k, n), k) IN
         /\ fec_new(k, n)[row] \in Vec(k)
         /\ fec_new(k, n)[row] = RowMat(Vandermonde(k, n)[row], F, k)
         /\ row < k => fec_new(k, n)[row] = Identity(k)[row]
<1> DEFINE W == Vandermonde(k, n)
           F == invert_vdm(W, k)
           G == fec_new(k, n)
           D == RowMat(W[row], F, k)
<1>1. F \in Mat(k) /\ \A r, c \in Below(k) : Dot(W[r], Column(F, c, k), k) = IF r = c THEN 1 ELSE 0
  BY FastInverse
<1>2. W[row] \in Vec(k)
  BY VandermondeRows
<1>3. D \in Vec(k)
  <2> DEFINE zero == [i \in Below(k) |-> 0]
  <2>1. zero \in Vec(k)
    BY Sizes DEF Vec
  <2> HIDE DEF zero, F, W
  <2> QED BY <1>1, <1>2, <2>1, RowTimesMatrix
<1>4. CASE row < k
  <2>1. row \in Below(k)
    BY <1>4 DEF Below
  <2>2. G[row] = Identity(k)[row]
    BY <1>4 DEF fec_new
  <2>3. Identity(k)[row] = D
    <3>1. Identity(k)[row] = [col \in Below(k) |-> IF row = col THEN 1 ELSE 0]
      BY <2>1 DEF Identity
    <3> HIDE DEF F, W
    <3> QED BY <1>1, <2>1, <3>1 DEF RowMat
  <2> QED BY <1>3, <2>2, <2>3
<1>5. CASE ~(row < k)
  <2>1. row - k \in Below(n - k) /\ k + (row - k) = row
    BY <1>5 DEF Below
  <2> DEFINE top == [r \in Below(n - k) |-> W[k + r]]
  <2>2. G[row] = matmul(top, F, n - k, k, k)[row - k]
    BY <1>5 DEF fec_new
  <2>3. top[row - k] = W[row]
    BY <2>1
  <2> HIDE DEF top, F, W
  <2>4. matmul(top, F, n - k, k, k)[row - k] = [col \in Below(k) |-> XorAll([i \in Below(k) |-> gf_mul(top[row - k][i], F[i][col])], k)]
    BY <2>1 DEF matmul
  <2>5. matmul(top, F, n - k, k, k)[row - k] = [col \in Below(k) |-> XorAll([i \in Below(k) |-> gf_mul(W[row][i], F[i][col])], k)]
    BY <2>3, <2>4
  <2>6. \A col \in Below(k) : [i \in Below(k) |-> gf_mul(W[row][i], F[i][col])] = [i \in Below(k) |-> gf_mul(W[row][i], Column(F, col, k)[i])]
    BY DEF Column
  <2>7. D = [col \in Below(k) |-> XorAll([i \in Below(k) |-> gf_mul(W[row][i], F[i][col])], k)]
    BY <2>6 DEF Dot, RowMat
  <2> QED BY <1>3, <1>5, <2>2, <2>5, <2>7 DEF F, W
<1> QED BY <1>4, <1>5

(***************************************************************************)
(* Any k different rows of the encoding matrix are linearly independent,   *)
(* for every k and n that fec_new accepts (fec.cc:630-685).                *)
(***************************************************************************)
THEOREM EncodingRegular ==
  ASSUME FieldReady, NEW k \in Nat, k >= 1, NEW n \in Nat, k <= n, n <= GF_SIZE + 1,
         NEW row \in [Below(k) -> Below(n)], \A i, j \in Below(k) : row[i] = row[j] => i = j,
         NEW x \in Vec(k), \A i \in Below(k) : Dot(fec_new(k, n)[row[i]], x, k) = 0
  PROVE  \A j \in Below(k) : x[j] = 0
<1> DEFINE W == Vandermonde(k, n)
           F == invert_vdm(W, k)
           G == fec_new(k, n)
           z == MatVec(F, x, k)
<1>1. F \in Mat(k)
  BY FastInverse
<1>2. ASSUME NEW r \in Below(n) PROVE Dot(G[r], x, k) = Dot(W[r], z, k) /\ z \in Vec(k)
  <2> DEFINE w == W[r]
  <2>1. w \in Vec(k)
    BY VandermondeRows
  <2>2. G[r] = RowMat(w, F, k)
    BY EncodingRows
  <2> HIDE DEF w, F, G
  <2>3. Dot(RowMat(w, F, k), x, k) = Dot(w, z, k) /\ z \in Vec(k)
    BY <1>1, <2>1, RowTimesMatrix
  <2> QED BY <2>2, <2>3 DEF w
<1>3. 0 \in Below(n)
  BY DEF Below
<1>4. z \in Vec(k)
  BY <1>2, <1>3
<1> HIDE DEF z, G
<1>5. \A i \in Below(k) : Dot(W[row[i]], z, k) = 0
  <2> SUFFICES ASSUME NEW i \in Below(k) PROVE Dot(W[row[i]], z, k) = 0
    OBVIOUS
  <2>1. row[i] \in Below(n) /\ Dot(G[row[i]], x, k) = 0
    BY DEF G
  <2> QED BY <1>2, <2>1
<1>6. \A j \in Below(k) : z[j] = 0
  BY <1>4, <1>5, VandermondeRegular
<1> SUFFICES ASSUME NEW j \in Below(k) PROVE x[j] = 0
  OBVIOUS
<1>7. j \in Below(n) /\ j < k
  BY DEF Below
<1>8. G[j] = Identity(k)[j]
  BY <1>7 DEF fec_new, G
<1>9. Dot(G[j], x, k) = x[j]
  BY <1>8, IdentityDot
<1>10. Dot(W[j], z, k) = 0
  <2> DEFINE w == W[j]
             f == [l \in Below(k) |-> gf_mul(w[l], z[l])]
  <2>1. w \in Vec(k)
    BY <1>7, VandermondeRows
  <2> HIDE DEF w
  <2>2. \A l \in Below(k) : w[l] \in Elem
    BY <2>1 DEF Vec
  <2>3. \A l \in Below(k) : f[l] = 0
    BY <1>6, <2>2, MulUnits
  <2> HIDE DEF f
  <2>4. XorAll(f, k) = 0
    BY <2>3, XorAllZero
  <2> QED BY <2>4 DEF f, Dot, w
<1> QED BY <1>2, <1>7, <1>9, <1>10

-----------------------------------------------------------------------------
(* shuffle.                                                                *)

Placing(k, n, S) == [pkt : [Below(k) -> S], index : [Below(k) -> Below(n)], i : 0 .. k, error : BOOLEAN]
Repeats(index, k) == \E i, j \in Below(k) : i # j /\ index[i] = index[j]
InPlace(index, k) == {j \in Below(k) : index[j] = j}
Held(index, k) == {index[j] : j \in Below(k)}

\* After s turns: every packet moved with its number, which P[number] is.
PlaceInv(st, P, index, s, k) ==
  /\ \A j \in Below(k) : st.pkt[j] = P[st.index[j]]
  /\ Repeats(st.index, k) <=> Repeats(index, k)
  /\ Held(st.index, k) = Held(index, k)
  /\ \A j \in Below(k) : j < st.i => st.index[j] >= k \/ st.index[j] = j
  /\ st.error => Repeats(st.index, k)
  /\ ~st.error /\ st.i < k => s <= st.i + Cardinality(InPlace(st.index, k))

LEMMA SwapKeepsRepeats ==
  ASSUME NEW k \in Nat, NEW S, NEW f \in [Below(k) -> S], NEW i \in Below(k), NEW j \in Below(k), Repeats(f, k)
  PROVE  Repeats(Swap(f, i, j), k)
<1> DEFINE at(x) == IF x = i THEN j ELSE IF x = j THEN i ELSE x
<1>1. PICK a \in Below(k), b \in Below(k) : a # b /\ f[a] = f[b]
  BY DEF Repeats
<1>2. at(a) \in Below(k) /\ at(b) \in Below(k) /\ at(a) # at(b)
  BY <1>1
<1>3. Swap(f, i, j)[at(a)] = f[a] /\ Swap(f, i, j)[at(b)] = f[b]
  BY DEF Swap
<1> HIDE DEF at
<1> QED BY <1>1, <1>2, <1>3 DEF Repeats

LEMMA SwapRepeats ==
  ASSUME NEW k \in Nat, NEW S, NEW f \in [Below(k) -> S], NEW i \in Below(k), NEW j \in Below(k)
  PROVE  Swap(f, i, j) \in [Below(k) -> S] /\ (Repeats(Swap(f, i, j), k) <=> Repeats(f, k))
<1> DEFINE g == Swap(f, i, j)
<1>1. g \in [Below(k) -> S] /\ Swap(g, i, j) = f
  BY DEF Swap
<1> HIDE DEF g
<1>2. Repeats(g, k) => Repeats(f, k)
  <2>1. Repeats(g, k) => Repeats(Swap(g, i, j), k)
    BY <1>1, SwapKeepsRepeats
  <2> QED BY <1>1, <2>1
<1>3. Repeats(f, k) => Repeats(g, k)
  BY SwapKeepsRepeats DEF g
<1> QED BY <1>1, <1>2, <1>3 DEF g

LEMMA SwapKeepsHeld ==
  ASSUME NEW k \in Nat, NEW S, NEW f \in [Below(k) -> S], NEW i \in Below(k), NEW j \in Below(k)
  PROVE  Held(Swap(f, i, j), k) = Held(f, k)
<1> DEFINE g == Swap(f, i, j)
           at(x) == IF x = i THEN j ELSE IF x = j THEN i ELSE x
<1>1. \A x \in Below(k) : at(x) \in Below(k) /\ g[at(x)] = f[x] /\ f[at(x)] = g[x]
  BY DEF Swap
<1> HIDE DEF g, at
<1>2. \A x \in Below(k) : f[x] \in Held(g, k) /\ g[x] \in Held(f, k)
  BY <1>1 DEF Held
<1>3. Held(g, k) = Held(f, k)
  BY <1>2 DEF Held
<1> QED BY <1>3 DEF g

LEMMA PlaceStep ==
  ASSUME NEW k \in Nat, NEW n \in Nat, NEW S, NEW P, NEW index, NEW s \in Nat, NEW st \in Placing(k, n, S),
         PlaceInv(st, P, index, s, k)
  PROVE  Place(st, k) \in Placing(k, n, S) /\ PlaceInv(Place(st, k), P, index, s + 1, k)
<1> DEFINE i == st.i
           ix == st.index
           c == ix[i]
           st2 == Place(st, k)
<1>1. st.pkt \in [Below(k) -> S] /\ ix \in [Below(k) -> Below(n)] /\ i \in 0 .. k /\ st.error \in BOOLEAN
      /\ st = [pkt |-> st.pkt, index |-> ix, i |-> i, error |-> st.error]
  BY DEF Placing
<1>2. /\ \A j \in Below(k) : st.pkt[j] = P[ix[j]]
      /\ Repeats(ix, k) <=> Repeats(index, k)
      /\ Held(ix, k) = Held(index, k)
      /\ \A j \in Below(k) : j < i => ix[j] >= k \/ ix[j] = j
      /\ st.error => Repeats(ix, k)
      /\ ~st.error /\ i < k => s <= i + Cardinality(InPlace(ix, k))
  BY DEF PlaceInv
<1>3. CASE st.error \/ i >= k
  <2>1. st2 = st
    BY <1>3 DEF Place
  <2>2. PlaceInv(st, P, index, s + 1, k)
    BY <1>1, <1>2, <1>3 DEF PlaceInv
  <2> QED BY <2>1, <2>2
<1>4. CASE ~st.error /\ i < k /\ (c >= k \/ c = i)
  <2>1. st2 = [st EXCEPT !.i = i + 1]
    BY <1>1, <1>4 DEF Place
  <2>2. st2.pkt = st.pkt /\ st2.index = ix /\ st2.i = i + 1 /\ ~st2.error /\ st2 \in Placing(k, n, S)
    BY <1>1, <1>4, <2>1 DEF Placing
  <2>3. i + 1 < k => s + 1 <= i + 1 + Cardinality(InPlace(ix, k))
    <3> DEFINE card == Cardinality(InPlace(ix, k))
    <3>1. card \in Nat
      <4>1. InPlace(ix, k) \in SUBSET Below(k)
        BY DEF InPlace
      <4>2. IsFiniteSet(InPlace(ix, k))
        BY <4>1, BelowFinite, FS_Subset
      <4> QED BY <4>2, FS_CardinalityType
    <3>2. s <= i + card
      BY <1>2, <1>4
    <3> HIDE DEF card, i
    <3>3. i \in 0 .. k
      BY <1>1
    <3>4. s + 1 <= i + 1 + card
      BY <3>1, <3>2, <3>3
    <3> QED BY <3>4 DEF card, i
  <2>4. \A j \in Below(k) : j < i + 1 => ix[j] >= k \/ ix[j] = j
    <3> SUFFICES ASSUME NEW j \in Below(k), j < i + 1 PROVE ix[j] >= k \/ ix[j] = j
      OBVIOUS
    <3>1. j < i \/ j = i
      BY <1>1 DEF Below
    <3> QED BY <1>2, <1>4, <3>1
  <2> HIDE DEF st2, i, ix
  <2>5. PlaceInv(st2, P, index, s + 1, k)
    BY <1>2, <2>2, <2>3, <2>4 DEF PlaceInv
  <2> QED BY <2>2, <2>5 DEF st2
<1>5. CASE ~st.error /\ i < k /\ ~(c >= k \/ c = i) /\ ix[c] = c
  <2>1. st2 = [st EXCEPT !.error = TRUE]
    BY <1>1, <1>5 DEF Place
  <2>2. st2.pkt = st.pkt /\ st2.index = ix /\ st2.i = i /\ st2.error /\ st2 \in Placing(k, n, S)
    BY <1>1, <1>5, <2>1 DEF Placing
  <2>3. Repeats(ix, k)
    <3>1. i \in Below(k) /\ c \in Below(k) /\ c # i /\ ix[c] = ix[i]
      BY <1>1, <1>5 DEF Below
    <3> QED BY <3>1 DEF Repeats
  <2> HIDE DEF st2, i, ix
  <2>5. PlaceInv(st2, P, index, s + 1, k)
    BY <1>2, <2>2, <2>3 DEF PlaceInv
  <2> QED BY <2>2, <2>5 DEF st2
<1>6. CASE ~st.error /\ i < k /\ ~(c >= k \/ c = i) /\ ix[c] # c
  <2> DEFINE ix2 == Swap(ix, i, c)
             pkt2 == Swap(st.pkt, i, c)
  <2>1. st2 = [st EXCEPT !.pkt = pkt2, !.index = ix2]
    BY <1>1, <1>6 DEF Place
  <2>2. i \in Below(k) /\ c \in Below(k) /\ c # i
    BY <1>1, <1>6 DEF Below
  <2>3. ix2 \in [Below(k) -> Below(n)] /\ (Repeats(ix2, k) <=> Repeats(ix, k)) /\ Held(ix2, k) = Held(ix, k)
    <3> HIDE DEF ix, c, i
    <3> QED BY <1>1, <2>2, SwapRepeats, SwapKeepsHeld
  <2>4. /\ ix2[i] = ix[c] /\ ix2[c] = c /\ \A j \in Below(k) : j # i /\ j # c => ix2[j] = ix[j]
        /\ pkt2 \in [Below(k) -> S]
        /\ pkt2[i] = st.pkt[c] /\ pkt2[c] = st.pkt[i] /\ \A j \in Below(k) : j # i /\ j # c => pkt2[j] = st.pkt[j]
    BY <1>1, <2>2 DEF Swap
  <2>5. st2.pkt = pkt2 /\ st2.index = ix2 /\ st2.i = i /\ ~st2.error /\ st2 \in Placing(k, n, S)
    <3> HIDE DEF pkt2, ix2, ix, i
    <3> QED BY <1>1, <1>6, <2>1, <2>3, <2>4 DEF Placing, ix, i
  <2> HIDE DEF ix2, pkt2, st2
  <2>6. \A j \in Below(k) : pkt2[j] = P[ix2[j]]
    <3> SUFFICES ASSUME NEW j \in Below(k) PROVE pkt2[j] = P[ix2[j]]
      OBVIOUS
    <3>1. st.pkt[c] = P[ix[c]] /\ st.pkt[i] = P[c]
      BY <1>2, <2>2
    <3>2. CASE j = i \/ j = c
      BY <2>4, <3>1, <3>2
    <3>3. CASE j # i /\ j # c
      BY <1>2, <2>4, <3>3
    <3> QED BY <3>2, <3>3
  <2>7. \A j \in Below(k) : j < i => ix2[j] >= k \/ ix2[j] = j
    <3> SUFFICES ASSUME NEW j \in Below(k), j < i PROVE ix2[j] >= k \/ ix2[j] = j
      OBVIOUS
    <3>1. j # i
      BY <1>1 DEF Below
    <3> QED BY <1>2, <2>4, <3>1
  <2>8. s + 1 <= i + Cardinality(InPlace(ix2, k))
    <3> DEFINE X == InPlace(ix, k)
               X2 == InPlace(ix2, k)
    <3>1. X \in SUBSET Below(k) /\ X2 \in SUBSET Below(k) /\ c \notin X /\ X \cup {c} \subseteq X2
      <4>1. X \in SUBSET Below(k) /\ X2 \in SUBSET Below(k)
        BY DEF InPlace
      <4>2. c \notin X /\ i \notin X
        BY <1>6, <2>2 DEF InPlace
      <4>3. \A j \in X : ix2[j] = j
        BY <2>4, <4>2 DEF InPlace
      <4>4. \A j \in X : j \in X2
        BY <4>3 DEF InPlace
      <4>5. c \in X2
        BY <2>2, <2>4 DEF InPlace
      <4> HIDE DEF X, X2
      <4> QED BY <4>1, <4>2, <4>4, <4>5
    <3>2. s <= i + Cardinality(X)
      BY <1>2, <1>6
    <3> HIDE DEF X, X2
    <3>3. IsFiniteSet(X) /\ IsFiniteSet(X2)
      BY <3>1, BelowFinite, FS_Subset
    <3>4. Cardinality(X \cup {c}) = Cardinality(X) + 1
      BY <3>1, <3>3, FS_AddElement
    <3>5. Cardinality(X \cup {c}) <= Cardinality(X2)
      BY <3>1, <3>3, FS_Subset
    <3>6. Cardinality(X) \in Nat /\ Cardinality(X2) \in Nat
      BY <3>3, FS_CardinalityType
    <3> DEFINE a == Cardinality(X)
               b == Cardinality(X2)
    <3>7. a \in Nat /\ b \in Nat /\ a + 1 <= b /\ s <= i + a
      BY <3>2, <3>4, <3>5, <3>6
    <3> HIDE DEF a, b, i
    <3>8. i \in 0 .. k
      BY <1>1
    <3>9. s + 1 <= i + b
      BY <3>7, <3>8
    <3> QED BY <3>9 DEF b, X2
  <2> HIDE DEF i, ix, c
  <2>9. PlaceInv(st2, P, index, s + 1, k)
    BY <1>2, <2>3, <2>5, <2>6, <2>7, <2>8 DEF PlaceInv
  <2> QED BY <2>5, <2>9 DEF st2
<1> QED BY <1>1, <1>3, <1>4, <1>5, <1>6

Turns(turn, pkt, index, k) ==
  /\ turn[0] = [pkt |-> pkt, index |-> index, i |-> 0, error |-> FALSE]
  /\ \A s \in 1 .. 2 * k : turn[s] = Place(turn[s - 1], k)
  /\ shuffle(pkt, index, k) = turn[2 * k]


LEMMA ShuffleUnfolds ==
  ASSUME NEW k \in Nat, NEW n \in Nat, NEW S, NEW pkt \in [Below(k) -> S], NEW index \in [Below(k) -> Below(n)]
  PROVE  \E turn : Turns(turn, pkt, index, k)
<1> DEFINE first == [pkt |-> pkt, index |-> index, i |-> 0, error |-> FALSE]
           L == 2 * k
           Def(g) == [s \in 0 .. L |-> IF s = 0 THEN first ELSE Place(g[s - 1], k)]
           T == Placing(k, n, S)
           G == [s \in 1 .. L |-> [st \in T |-> Place(st, k)]]
           turn == CHOOSE g : g = Def(g)
<1>1. L \in Nat /\ first \in T
  BY DEF Placing
<1>2. G \in [1 .. L -> [T -> T]]
  <2> SUFFICES ASSUME NEW st \in T PROVE Place(st, k) \in T
    OBVIOUS
  <2>1. st.pkt \in [Below(k) -> S] /\ st.index \in [Below(k) -> Below(n)] /\ st.i \in 0 .. k /\ st.error \in BOOLEAN
    BY DEF Placing
  <2> DEFINE i == st.i
             ix == st.index
             c == ix[i]
  <2>2. CASE st.error \/ i >= k
    BY <2>2 DEF Place
  <2>3. CASE ~st.error /\ i < k /\ (c >= k \/ c = i)
    <3>1. Place(st, k) = [st EXCEPT !.i = i + 1]
      BY <2>1, <2>3 DEF Place
    <3> QED BY <2>1, <2>3, <3>1 DEF Placing
  <2>4. CASE ~st.error /\ i < k /\ ~(c >= k \/ c = i) /\ ix[c] = c
    <3>1. Place(st, k) = [st EXCEPT !.error = TRUE]
      BY <2>1, <2>4 DEF Place
    <3> QED BY <2>1, <3>1 DEF Placing
  <2>5. CASE ~st.error /\ i < k /\ ~(c >= k \/ c = i) /\ ix[c] # c
    <3> DEFINE ix2 == Swap(ix, i, c)
               pkt2 == Swap(st.pkt, i, c)
    <3>1. Place(st, k) = [st EXCEPT !.pkt = pkt2, !.index = ix2]
      BY <2>1, <2>5 DEF Place
    <3>2. i \in Below(k) /\ c \in Below(k)
      BY <2>1, <2>5 DEF Below
    <3>3. ix2 \in [Below(k) -> Below(n)] /\ pkt2 \in [Below(k) -> S]
      BY <2>1, <3>2 DEF Swap
    <3> HIDE DEF ix2, pkt2
    <3> QED BY <2>1, <3>1, <3>3 DEF Placing
  <2> QED BY <2>1, <2>2, <2>3, <2>4, <2>5
<1>3. PICK A : IsIteration(A, L, T, first, G)
  <2> HIDE DEF T, G, first, L
  <2> QED BY <1>1, <1>2, IterationExists
<1>4. A \in [0 .. L -> T] /\ A[0] = first /\ \A s \in 1 .. L : A[s] = Place(A[s - 1], k)
  <2>1. A \in [0 .. L -> T] /\ A[0] = first /\ \A s \in 1 .. L : A[s] = G[s][A[s - 1]] /\ s - 1 \in 0 .. L
    <3> HIDE DEF T, G, first
    <3> QED BY <1>1, <1>3 DEF IsIteration
  <2> HIDE DEF T, first
  <2> QED BY <2>1
<1> HIDE DEF first
<1>5. A = Def(A)
  <2>1. ASSUME NEW s \in 0 .. L PROVE A[s] = Def(A)[s]
    <3>1. s = 0 \/ s \in 1 .. L
      BY <1>1
    <3> HIDE DEF L
    <3> QED BY <1>4, <3>1
  <2>2. A = [s \in 0 .. L |-> A[s]] /\ Def(A) = [s \in 0 .. L |-> Def(A)[s]]
    BY <1>4
  <2> HIDE DEF Def, L
  <2> QED BY <2>1, <2>2
<1>6. turn = Def(turn)
  <2> HIDE DEF Def
  <2> QED BY <1>5
<1>7. shuffle(pkt, index, k) = turn[L]
  BY DEF shuffle, first
<1> HIDE DEF turn
<1>8. \A g : Def(g)[0] = first /\ \A s \in 1 .. L : Def(g)[s] = Place(g[s - 1], k)
  BY <1>1
<1>9. turn[0] = first /\ \A s \in 1 .. L : turn[s] = Place(turn[s - 1], k)
  <2> HIDE DEF Def
  <2> QED BY <1>6, <1>8
<1>10. PICK t : t = turn
  OBVIOUS
<1>11. t[0] = first /\ (\A s \in 1 .. L : t[s] = Place(t[s - 1], k)) /\ shuffle(pkt, index, k) = t[L]
  BY <1>7, <1>9, <1>10
<1>12. /\ t[0] = [pkt |-> pkt, index |-> index, i |-> 0, error |-> FALSE]
       /\ \A s \in 1 .. 2 * k : t[s] = Place(t[s - 1], k)
       /\ shuffle(pkt, index, k) = t[2 * k]
  BY ONLY <1>11 DEF first, L
<1>13. Turns(t, pkt, index, k)
  BY ONLY <1>12 DEF Turns
<1> QED BY <1>13

IsShuffled(sh, P, index, k, n, S) ==
  /\ sh \in Placing(k, n, S)
  /\ \A j \in Below(k) : sh.pkt[j] = P[sh.index[j]]
  /\ Repeats(sh.index, k) <=> Repeats(index, k)
  /\ Held(sh.index, k) = Held(index, k)
  /\ sh.error => Repeats(sh.index, k)
  /\ ~sh.error => \A j \in Below(k) : sh.index[j] >= k \/ sh.index[j] = j

(***************************************************************************)
(* shuffle ends, keeps each packet with its number, and either finds a     *)
(* repeat or leaves every packet of the first k in its place               *)
(* (fec.cc:716-749).                                                       *)
(***************************************************************************)
THEOREM Shuffled ==
  ASSUME NEW k \in Nat, NEW n \in Nat, NEW S, NEW pkt \in [Below(k) -> S], NEW index \in [Below(k) -> Below(n)],
         NEW P, \A j \in Below(k) : pkt[j] = P[index[j]]
  PROVE  IsShuffled(shuffle(pkt, index, k), P, index, k, n, S)
<1>0. PICK turn : Turns(turn, pkt, index, k)
  BY ShuffleUnfolds
<1>1. /\ turn[0] = [pkt |-> pkt, index |-> index, i |-> 0, error |-> FALSE]
      /\ \A s \in 1 .. 2 * k : turn[s] = Place(turn[s - 1], k)
      /\ shuffle(pkt, index, k) = turn[2 * k]
  BY <1>0 DEF Turns
<1> DEFINE I == {s \in Nat : s <= 2 * k => turn[s] \in Placing(k, n, S) /\ PlaceInv(turn[s], P, index, s, k)}
<1>2. 0 \in I
  <2> DEFINE st == turn[0]
  <2>1. st \in Placing(k, n, S) /\ st.pkt = pkt /\ st.index = index /\ st.i = 0 /\ ~st.error
    BY <1>1 DEF Placing
  <2>2. 0 <= 0 + Cardinality(InPlace(index, k))
    <3>1. InPlace(index, k) \in SUBSET Below(k)
      BY DEF InPlace
    <3>2. IsFiniteSet(InPlace(index, k))
      BY <3>1, BelowFinite, FS_Subset
    <3>3. Cardinality(InPlace(index, k)) \in Nat
      BY <3>2, FS_CardinalityType
    <3> QED BY <3>3
  <2>3. \A j \in Below(k) : ~(j < 0)
    BY DEF Below
  <2> HIDE DEF st
  <2>4. PlaceInv(st, P, index, 0, k)
    BY <2>1, <2>2, <2>3 DEF PlaceInv
  <2> QED BY <2>1, <2>4 DEF st
<1>3. ASSUME NEW s \in Nat, s \in I PROVE s + 1 \in I
  <2> SUFFICES ASSUME s + 1 <= 2 * k
               PROVE  turn[s + 1] \in Placing(k, n, S) /\ PlaceInv(turn[s + 1], P, index, s + 1, k)
    OBVIOUS
  <2> DEFINE st == turn[s]
  <2>1. st \in Placing(k, n, S) /\ PlaceInv(st, P, index, s, k)
    BY <1>3
  <2>2. turn[s + 1] = Place(st, k)
    <3>1. s + 1 \in 1 .. 2 * k /\ s + 1 - 1 = s
      OBVIOUS
    <3>2. turn[s + 1] = Place(turn[s + 1 - 1], k)
      BY <1>1, <3>1
    <3> QED BY <3>1, <3>2
  <2> HIDE DEF st
  <2> QED BY <2>1, <2>2, PlaceStep
<1>4. Nat \subseteq I
  <2> HIDE DEF I
  <2> QED BY <1>2, <1>3, SetInduction
<1> DEFINE sh == shuffle(pkt, index, k)
<1>5. sh \in Placing(k, n, S) /\ PlaceInv(sh, P, index, 2 * k, k)
  <2>1. 2 * k \in Nat
    OBVIOUS
  <2> QED BY <1>1, <1>4, <2>1
<1> HIDE DEF sh, I
<1>6. ~sh.error => \A j \in Below(k) : sh.index[j] >= k \/ sh.index[j] = j
  <2> SUFFICES ASSUME ~sh.error PROVE \A j \in Below(k) : sh.index[j] >= k \/ sh.index[j] = j
    OBVIOUS
  <2> DEFINE X == InPlace(sh.index, k)
  <2>1. X \in SUBSET Below(k)
    BY DEF InPlace
  <2> HIDE DEF X
  <2>2. Cardinality(X) \in Nat /\ Cardinality(X) <= k
    <3>1. IsFiniteSet(X) /\ Cardinality(X) <= k
      BY <2>1, BelowFinite, FS_Subset
    <3> QED BY <3>1, FS_CardinalityType
  <2>3. sh.i \in 0 .. k
    BY <1>5 DEF Placing
  <2>4. sh.i < k => 2 * k <= sh.i + Cardinality(X)
    BY <1>5 DEF PlaceInv, X
  <2>5. sh.i = k
    <3> DEFINE i == sh.i
               a == Cardinality(X)
    <3>1. i \in 0 .. k /\ a \in Nat /\ a <= k /\ (i < k => 2 * k <= i + a)
      BY <2>2, <2>3, <2>4
    <3> HIDE DEF i, a
    <3>2. i = k
      BY <3>1
    <3> QED BY <3>2 DEF i
  <2>6. \A j \in Below(k) : j < k
    BY DEF Below
  <2> QED BY <1>5, <2>5, <2>6 DEF PlaceInv
<1>7. IsShuffled(sh, P, index, k, n, S)
  BY <1>5, <1>6 DEF PlaceInv, IsShuffled
<1> QED BY <1>7 DEF sh

-----------------------------------------------------------------------------
(* fec_decode.                                                             *)

Unit(r, k) == [i \in Below(k) |-> IF i = r THEN 1 ELSE 0]

\* A matrix with a row twice is reported: it has no unit vector of that row as an image.
LEMMA RepeatedRow ==
  ASSUME FieldReady, NEW k \in Nat, NEW a \in Mat(k), NEW r \in Below(k), NEW s \in Below(k), r # s, a[r] = a[s]
  PROVE  invert_mat(a, k).error
<1> DEFINE inv == invert_mat(a, k)
           y == Unit(r, k)
           x == [i \in Below(k) |-> Dot(inv.m[i], y, k)]
<1> SUFFICES ASSUME ~inv.error PROVE FALSE
  OBVIOUS
<1>1. inv.m \in Mat(k) /\ \A u, v \in Vec(k) : Image(a, u, v, k) <=> Image(inv.m, v, u, k)
  BY InvertMat
<1> HIDE DEF inv
<1>2. y \in Vec(k) /\ y[r] = 1 /\ y[s] = 0
  BY Sizes DEF Unit, Vec
<1> HIDE DEF y
<1>3. \A i \in Below(k) : Dot(inv.m[i], y, k) \in Elem
  <2> SUFFICES ASSUME NEW i \in Below(k) PROVE Dot(inv.m[i], y, k) \in Elem
    OBVIOUS
  <2>1. inv.m[i] \in Vec(k)
    BY <1>1 DEF Mat
  <2> QED BY <2>1, <1>2, DotElem
<1>4. x \in Vec(k) /\ \A i \in Below(k) : x[i] = Dot(inv.m[i], y, k)
  BY <1>3 DEF Vec
<1> HIDE DEF x
<1>5. Image(a, x, y, k)
  BY <1>1, <1>2, <1>4 DEF Image
<1>6. y[r] = Dot(a[r], x, k) /\ y[s] = Dot(a[s], x, k)
  BY <1>5 DEF Image
<1> QED BY <1>2, <1>6

\* Different rows of the encoding matrix are never singular.
LEMMA EncodingRowsInvert ==
  ASSUME FieldReady, NEW k \in Nat, k >= 1, NEW n \in Nat, k <= n, n <= GF_SIZE + 1,
         NEW row \in [Below(k) -> Below(n)], NEW a \in Mat(k), \A i \in Below(k) : a[i] = fec_new(k, n)[row[i]]
  PROVE  invert_mat(a, k).error <=> Repeats(row, k)
<1>1. ASSUME Repeats(row, k) PROVE invert_mat(a, k).error
  <2>1. PICK i \in Below(k), j \in Below(k) : i # j /\ row[i] = row[j]
    BY <1>1 DEF Repeats
  <2>2. a[i] = a[j]
    BY <2>1
  <2> QED BY <2>1, <2>2, RepeatedRow
<1>2. ASSUME ~Repeats(row, k), invert_mat(a, k).error PROVE FALSE
  <2>1. Singular(a, k)
    BY <1>2, InvertMat
  <2>2. PICK x \in Vec(k) : (\E j \in Below(k) : x[j] # 0) /\ \A i \in Below(k) : Dot(a[i], x, k) = 0
    BY <2>1 DEF Singular
  <2>3. \A i, j \in Below(k) : row[i] = row[j] => i = j
    BY <1>2 DEF Repeats
  <2>4. \A i \in Below(k) : Dot(fec_new(k, n)[row[i]], x, k) = 0
    BY <2>2
  <2>5. \A j \in Below(k) : x[j] = 0
    BY <2>3, <2>4, EncodingRegular
  <2> QED BY <2>2, <2>5
<1>3. invert_mat(a, k).error \in BOOLEAN
  BY InvertMat
<1> QED BY <1>1, <1>2, <1>3

\* The words of the source packets at one position.
Slice(src, w, k) == [i \in Below(k) |-> src[i][w]]

\* A packet of fec_encode holds the row of its number times the source packets.
LEMMA EncodeIsDot ==
  ASSUME FieldReady, NEW k \in Nat, k >= 1, NEW n \in Nat, k <= n, n <= GF_SIZE + 1, NEW sz \in Nat,
         NEW src, \A i \in Below(k), w \in Below(sz) : src[i][w] \in Elem, NEW index \in Below(n)
  PROVE  /\ fec_encode(fec_new(k, n), k, src, index, sz) \in [Below(sz) -> Elem]
         /\ \A w \in Below(sz) :
              /\ Slice(src, w, k) \in Vec(k)
              /\ fec_encode(fec_new(k, n), k, src, index, sz)[w] = Dot(fec_new(k, n)[index], Slice(src, w, k), k)
<1> DEFINE G == fec_new(k, n)
           P == fec_encode(G, k, src, index, sz)
<1>1. G[index] \in Vec(k) /\ (index < k => G[index] = Identity(k)[index])
  BY EncodingRows
<1> HIDE DEF G
<1>2. \A w \in Below(sz) : Slice(src, w, k) \in Vec(k) /\ \A i \in Below(k) : Slice(src, w, k)[i] = src[i][w]
  BY DEF Slice, Vec
<1>3. ASSUME NEW w \in Below(sz) PROVE Dot(G[index], Slice(src, w, k), k) \in Elem
  <2>1. Slice(src, w, k) \in Vec(k)
    BY <1>2
  <2> QED BY <1>1, <2>1, DotElem
<1>4. ASSUME index < k PROVE P = [w \in Below(sz) |-> Dot(G[index], Slice(src, w, k), k)]
  <2>0. index \in Below(k)
    BY <1>4 DEF Below
  <2>1. index \in Below(k) /\ G[index] = Identity(k)[index]
    BY <1>1, <1>4, <2>0
  <2>2. ASSUME NEW w \in Below(sz) PROVE src[index][w] = Dot(G[index], Slice(src, w, k), k)
    <3>1. Slice(src, w, k) \in Vec(k) /\ Slice(src, w, k)[index] = src[index][w]
      BY <1>2, <2>1
    <3> QED BY <2>1, <3>1, IdentityDot
  <2> QED BY <1>4, <2>2 DEF fec_encode
<1>5. ASSUME ~(index < k) PROVE P = [w \in Below(sz) |-> Dot(G[index], Slice(src, w, k), k)]
  <2>1. ASSUME NEW w \in Below(sz)
        PROVE  [i \in Below(k) |-> gf_mul(G[index][i], src[i][w])]
               = [i \in Below(k) |-> gf_mul(G[index][i], Slice(src, w, k)[i])]
    BY <1>2
  <2> QED BY <1>5, <2>1 DEF fec_encode, Dot
<1> HIDE DEF P
<1> QED BY <1>2, <1>3, <1>4, <1>5 DEF G, P

\* The decoding matrix has the rows of the packets: one in its place is a unit vector.
LEMMA DecodingRows ==
  ASSUME FieldReady, NEW k \in Nat, k >= 1, NEW n \in Nat, k <= n, n <= GF_SIZE + 1,
         NEW index \in [Below(k) -> Below(n)], \A j \in Below(k) : index[j] >= k \/ index[j] = j
  PROVE  /\ build_decode_matrix(fec_new(k, n), index, k) \in Mat(k)
         /\ \A i \in Below(k) : build_decode_matrix(fec_new(k, n), index, k)[i] = fec_new(k, n)[index[i]]
<1> DEFINE G == fec_new(k, n)
           a == build_decode_matrix(G, index, k)
<1>1. \A r \in Below(n) : G[r] \in Vec(k) /\ (r < k => G[r] = Identity(k)[r])
  BY EncodingRows
<1> HIDE DEF G
<1>2. ASSUME NEW i \in Below(k) PROVE a[i] = G[index[i]] /\ a[i] \in Vec(k)
  <2>1. index[i] \in Below(n) /\ (index[i] < k => index[i] = i)
    BY DEF Below
  <2>2. a[i] = IF index[i] < k THEN Identity(k)[i] ELSE G[index[i]]
    BY DEF build_decode_matrix
  <2> QED BY <1>1, <2>1, <2>2
<1>3. a = [i \in Below(k) |-> a[i]]
  BY DEF build_decode_matrix
<1> HIDE DEF a
<1>4. a \in Mat(k)
  BY <1>2, <1>3 DEF Mat
<1> QED BY <1>2, <1>4 DEF a, G

IsDecoded(r, pkt, index, src, k, sz) ==
  /\ r.error \in BOOLEAN /\ (r.error <=> Repeats(index, k))
  /\ r.error => Held(r.pkt, k) = Held(pkt, k)
  /\ ~r.error => \A i \in Below(k), w \in Below(sz) : r.pkt[i][w] = src[i][w]

(***************************************************************************)
(* fec_decode of k packets of a batch fails exactly when one of them is    *)
(* there twice, and then leaves the packets as they are, in some order;    *)
(* otherwise it gives back the packets that were encoded (fec.cc:799-839). *)
(***************************************************************************)
THEOREM Decoded ==
  ASSUME FieldReady, NEW k \in Nat, k >= 1, NEW n \in Nat, k <= n, n <= GF_SIZE + 1, NEW sz \in Nat,
         NEW src, \A i \in Below(k), w \in Below(sz) : src[i][w] \in Elem,
         NEW index \in [Below(k) -> Below(n)], NEW pkt,
         pkt = [i \in Below(k) |-> fec_encode(fec_new(k, n), k, src, index[i], sz)]
  PROVE  IsDecoded(fec_decode(fec_new(k, n), k, pkt, index), pkt, index, src, k, sz)
<1> DEFINE G == fec_new(k, n)
           P == [j \in Below(n) |-> fec_encode(G, k, src, j, sz)]
           S == [Below(sz) -> Elem]
           sh == shuffle(pkt, index, k)
           a == build_decode_matrix(G, sh.index, k)
           m_dec == invert_mat(a, k)
           r == fec_decode(G, k, pkt, index)
           new_pkt(row) == [w \in DOMAIN sh.pkt[row] |->
                              XorAll([col \in Below(k) |-> gf_mul(m_dec.m[row][col], sh.pkt[col][w])], k)]
<1>1. /\ \A j \in Below(n) : P[j] \in S
      /\ \A j \in Below(n), w \in Below(sz) : Slice(src, w, k) \in Vec(k) /\ P[j][w] = Dot(G[j], Slice(src, w, k), k)
  BY EncodeIsDot
<1>2. \A j \in Below(k) : index[j] \in Below(n) /\ pkt[j] = P[index[j]]
  OBVIOUS
<1>3. r = IF sh.error \/ m_dec.error THEN [error |-> TRUE, pkt |-> sh.pkt]
          ELSE [error |-> FALSE,
                pkt |-> [row \in Below(k) |-> IF sh.index[row] < k THEN sh.pkt[row] ELSE new_pkt(row)]]
  BY DEF fec_decode
<1> HIDE DEF P
<1>4. pkt \in [Below(k) -> S]
  BY <1>1, <1>2
<1> HIDE DEF S
<1>5. /\ sh \in Placing(k, n, S) /\ \A j \in Below(k) : sh.pkt[j] = P[sh.index[j]]
      /\ Repeats(sh.index, k) <=> Repeats(index, k)
      /\ Held(sh.index, k) = Held(index, k)
      /\ sh.error => Repeats(sh.index, k)
      /\ ~sh.error => \A j \in Below(k) : sh.index[j] >= k \/ sh.index[j] = j
  <2>1. \A j \in Below(k) : pkt[j] = P[index[j]]
    BY <1>2
  <2>2. IsShuffled(sh, P, index, k, n, S)
    BY <1>4, <2>1, Shuffled
  <2> HIDE DEF sh
  <2> QED BY <2>2 DEF IsShuffled
<1> HIDE DEF sh, r
<1>6. sh.error \in BOOLEAN /\ sh.index \in [Below(k) -> Below(n)]
  BY <1>5 DEF Placing
<1> HIDE DEF a, m_dec
<1>9. Held(sh.pkt, k) = Held(pkt, k)
  <2>0. {sh.index[j] : j \in Below(k)} = {index[j] : j \in Below(k)}
    BY <1>5 DEF Held
  <2>1. \A j \in Below(k) : \E l \in Below(k) : sh.index[j] = index[l]
    BY ONLY <2>0
  <2>2. \A l \in Below(k) : \E j \in Below(k) : index[l] = sh.index[j]
    BY ONLY <2>0
  <2>3. \A j, l \in Below(k) : sh.index[j] = index[l] => sh.pkt[j] = pkt[l]
    BY <1>2, <1>5
  <2>4. (\A j \in Below(k) : \E l \in Below(k) : sh.pkt[j] = pkt[l]) /\ \A l \in Below(k) : \E j \in Below(k) : pkt[l] = sh.pkt[j]
    BY <2>1, <2>2, <2>3
  <2> QED BY ONLY <2>4 DEF Held
<1> USE DEF a, m_dec
<1>7. CASE sh.error
  <2>1. r.error = TRUE /\ r.pkt = sh.pkt
    BY <1>3, <1>7
  <2>2. IsDecoded(r, pkt, index, src, k, sz)
    BY <1>5, <1>7, <1>9, <2>1 DEF IsDecoded
  <2> QED BY <2>2 DEF r, G
<1>8. CASE ~sh.error
  <2>1. a \in Mat(k) /\ \A i \in Below(k) : a[i] = G[sh.index[i]]
    BY <1>5, <1>6, <1>8, DecodingRows
  <2> HIDE DEF a
  <2>2. m_dec.error \in BOOLEAN /\ (m_dec.error <=> Repeats(sh.index, k))
    BY <1>6, <2>1, EncodingRowsInvert, InvertMat
  <2>3. ~m_dec.error => m_dec.m \in Mat(k) /\ \A x, y \in Vec(k) : Image(a, x, y, k) <=> Image(m_dec.m, y, x, k)
    BY <2>1, InvertMat
  <2> HIDE DEF G, m_dec
  <2>4. r.error \in BOOLEAN /\ (r.error <=> m_dec.error) /\ (r.error => r.pkt = sh.pkt)
    BY <1>3, <1>8, <2>2
  <2>5. ASSUME ~m_dec.error, NEW i \in Below(k), NEW w \in Below(sz) PROVE r.pkt[i][w] = src[i][w]
    <3> DEFINE x == Slice(src, w, k)
               y == [col \in Below(k) |-> sh.pkt[col][w]]
    <3>1. x \in Vec(k) /\ x[i] = src[i][w]
      <4>1. k <= n /\ i \in Below(n)
        BY DEF Below
      <4> QED BY <1>1, <4>1 DEF Slice
    <3>2. r.pkt[i] = IF sh.index[i] < k THEN sh.pkt[i] ELSE new_pkt(i)
      BY <1>3, <1>8, <2>5
    <3>3. ASSUME NEW j \in Below(k)
          PROVE  sh.index[j] \in Below(n) /\ sh.pkt[j][w] = Dot(a[j], x, k) /\ sh.pkt[j] \in [Below(sz) -> Elem]
                 /\ y[j] = sh.pkt[j][w]
      <4>1. sh.index[j] \in Below(n) /\ sh.pkt[j] = P[sh.index[j]] /\ a[j] = G[sh.index[j]]
        BY <1>5, <1>6, <2>1
      <4> QED BY <1>1, <4>1 DEF S
    <3> HIDE DEF x
    <3>4. y \in Vec(k) /\ \A j \in Below(k) : y[j] = Dot(a[j], x, k)
      BY <3>3 DEF Vec
    <3>5. x[i] = Dot(m_dec.m[i], y, k)
      <4> HIDE DEF y
      <4>1. Image(a, x, y, k)
        BY <3>4 DEF Image
      <4>2. Image(m_dec.m, y, x, k)
        BY <2>3, <2>5, <3>1, <3>4, <4>1
      <4> QED BY <4>2 DEF Image
    <3>6. CASE sh.index[i] < k
      <4>1. sh.index[i] = i
        <5>1. sh.index[i] \in Below(n) /\ (sh.index[i] >= k \/ sh.index[i] = i)
          BY <1>5, <1>8, <3>3
        <5> QED BY <3>6, <5>1 DEF Below
      <4>2. Dot(G[i], x, k) = sh.pkt[i][w]
        BY <3>3, <2>1, <4>1
      <4>3. G[i] = Identity(k)[i]
        <5>1. i \in Below(n) /\ i < k
          BY <3>3, <3>6, <4>1
        <5> QED BY <5>1, EncodingRows DEF G
      <4>4. Dot(G[i], x, k) = x[i]
        BY <3>1, <4>3, IdentityDot
      <4> QED BY <3>1, <3>2, <3>6, <4>2, <4>4
    <3>7. CASE ~(sh.index[i] < k)
      <4>1. r.pkt[i][w] = XorAll([col \in Below(k) |-> gf_mul(m_dec.m[i][col], sh.pkt[col][w])], k)
        BY <3>2, <3>3, <3>7
      <4>2. [col \in Below(k) |-> gf_mul(m_dec.m[i][col], sh.pkt[col][w])]
            = [col \in Below(k) |-> gf_mul(m_dec.m[i][col], y[col])]
        OBVIOUS
      <4> HIDE DEF y
      <4>3. r.pkt[i][w] = Dot(m_dec.m[i], y, k)
        BY <4>1, <4>2 DEF Dot
      <4> QED BY <3>1, <3>5, <4>3
    <3> QED BY <3>6, <3>7
  <2>6. IsDecoded(r, pkt, index, src, k, sz)
    BY <1>5, <1>9, <2>2, <2>4, <2>5 DEF IsDecoded
  <2> QED BY <2>6 DEF r, G
<1> QED BY <1>6, <1>7, <1>8

-----------------------------------------------------------------------------
(* The two inversions of the Vandermonde matrix.                           *)

IsInverse(a, b, k) == \A r, c \in Below(k) : Dot(a[r], Column(b, c, k), k) = IF r = c THEN 1 ELSE 0

LEMMA DotUnit ==
  ASSUME FieldReady, NEW k \in Nat, NEW r \in Vec(k), NEW c \in Below(k)
  PROVE  Unit(c, k) \in Vec(k) /\ Dot(r, Unit(c, k), k) = r[c]
<1>1. Unit(c, k) \in Vec(k) /\ Unit(c, k)[c] = 1 /\ \A i \in Below(k) : i # c => Unit(c, k)[i] = 0
  BY Sizes DEF Unit, Vec
<1> DEFINE u == Unit(c, k)
           f == [j \in Below(k) |-> gf_mul(r[j], u[j])]
<1> HIDE DEF u
<1>2. \A j \in Below(k) : r[j] \in Elem /\ f[j] = gf_mul(r[j], u[j])
  BY DEF Vec
<1>3. f[c] = r[c] /\ \A j \in Below(k) : j # c => f[j] = 0
  <2>1. f[c] = gf_mul(r[c], 1) /\ r[c] \in Elem
    BY <1>1, <1>2 DEF u
  <2>2. ASSUME NEW j \in Below(k), j # c PROVE f[j] = gf_mul(r[j], 0) /\ r[j] \in Elem
    BY <1>1, <1>2, <2>2 DEF u
  <2> HIDE DEF f
  <2> QED BY <2>1, <2>2, MulUnits
<1>4. r[c] \in Elem
  BY <1>2
<1>5. Dot(r, u, k) = XorAll(f, k)
  BY DEF Dot
<1> HIDE DEF f
<1> QED BY <1>1, <1>3, <1>4, <1>5, XorAllOne DEF u

LEMMA ProductIsIdentity ==
  ASSUME NEW k \in Nat, NEW a, NEW b, IsInverse(a, b, k)
  PROVE  matmul(a, b, k, k, k) = Identity(k)
<1>1. ASSUME NEW r \in Below(k), NEW c \in Below(k)
      PROVE  XorAll([i \in Below(k) |-> gf_mul(a[r][i], b[i][c])], k) = IF r = c THEN 1 ELSE 0
  <2>1. [i \in Below(k) |-> gf_mul(a[r][i], b[i][c])] = [i \in Below(k) |-> gf_mul(a[r][i], Column(b, c, k)[i])]
    BY DEF Column
  <2> QED BY <2>1 DEF IsInverse, Dot
<1> QED BY <1>1 DEF matmul, Identity

\* What invert_mat returns is an inverse from the right.
LEMMA InvertMatIsInverse ==
  ASSUME FieldReady, NEW k \in Nat, NEW a \in Mat(k), ~invert_mat(a, k).error
  PROVE  invert_mat(a, k).m \in Mat(k) /\ IsInverse(a, invert_mat(a, k).m, k)
<1> DEFINE m == invert_mat(a, k).m
<1>1. m \in Mat(k) /\ \A x, y \in Vec(k) : Image(a, x, y, k) <=> Image(m, y, x, k)
  BY InvertMat
<1> HIDE DEF m
<1>2. ASSUME NEW r \in Below(k), NEW c \in Below(k)
      PROVE  Dot(a[r], Column(m, c, k), k) = IF r = c THEN 1 ELSE 0
  <2>1. \A i \in Below(k) : m[i] \in Vec(k) /\ Column(m, c, k)[i] = m[i][c] /\ m[i][c] \in Elem
    BY <1>1 DEF Mat, Vec, Column
  <2>2. Column(m, c, k) \in Vec(k)
    BY <2>1 DEF Column, Vec
  <2>3. Unit(c, k) \in Vec(k) /\ Unit(c, k)[r] = IF r = c THEN 1 ELSE 0
    BY Sizes DEF Unit, Vec
  <2>4. Image(m, Unit(c, k), Column(m, c, k), k)
    BY <2>1, DotUnit DEF Image
  <2>5. Image(a, Column(m, c, k), Unit(c, k), k)
    BY <1>1, <2>2, <2>3, <2>4
  <2> QED BY <2>3, <2>5 DEF Image
<1>3. IsInverse(a, m, k)
  BY <1>2 DEF IsInverse
<1> QED BY <1>1, <1>3 DEF m

\* It is the only one.
LEMMA InverseUnique ==
  ASSUME FieldReady, NEW k \in Nat, NEW a \in Mat(k), ~invert_mat(a, k).error, NEW b \in Mat(k), IsInverse(a, b, k)
  PROVE  invert_mat(a, k).m = b
<1> DEFINE m == invert_mat(a, k).m
<1>1. m \in Mat(k) /\ \A x, y \in Vec(k) : Image(a, x, y, k) <=> Image(m, y, x, k)
  BY InvertMat
<1> HIDE DEF m
<1>2. ASSUME NEW i \in Below(k), NEW c \in Below(k) PROVE m[i][c] = b[i][c]
  <2>1. Column(b, c, k) \in Vec(k) /\ Column(b, c, k)[i] = b[i][c]
    BY DEF Mat, Vec, Column
  <2>2. Unit(c, k) \in Vec(k) /\ \A r \in Below(k) : Unit(c, k)[r] = IF r = c THEN 1 ELSE 0
    BY Sizes DEF Unit, Vec
  <2>3. Image(a, Column(b, c, k), Unit(c, k), k)
    BY <2>2 DEF Image, IsInverse
  <2>4. Image(m, Unit(c, k), Column(b, c, k), k)
    BY <1>1, <2>1, <2>2, <2>3
  <2>5. b[i][c] = Dot(m[i], Unit(c, k), k)
    BY <2>1, <2>4 DEF Image
  <2>6. m[i] \in Vec(k)
    BY <1>1 DEF Mat
  <2> QED BY <2>5, <2>6, DotUnit
<1>3. \A i \in Below(k) : m[i] = [c \in Below(k) |-> m[i][c]] /\ b[i] = [c \in Below(k) |-> b[i][c]]
  BY <1>1 DEF Mat, Vec
<1>4. m = [i \in Below(k) |-> m[i]] /\ b = [i \in Below(k) |-> b[i]]
  BY <1>1 DEF Mat
<1>5. \A i \in Below(k) : m[i] = b[i]
  BY <1>2, <1>3
<1>6. m = b
  BY <1>4, <1>5
<1> QED BY <1>6 DEF m

LEMMA XorAllReverse ==
  ASSUME NEW k \in Nat, NEW f \in Vec(k)
  PROVE  XorAll([i \in Below(k) |-> f[k - 1 - i]], k) = XorAll(f, k)
<1> DEFINE a == [i \in Below(k) |-> [j \in Below(k) |-> IF j = k - 1 - i THEN f[j] ELSE 0]]
           back == [i \in Below(k) |-> f[k - 1 - i]]
<1>1. \A i \in Below(k) : k - 1 - i \in Below(k) /\ k - 1 - (k - 1 - i) = i
  BY DEF Below
<1>2. \A j \in Below(k) : f[j] \in Elem
  BY DEF Vec
<1>3. \A i, j \in Below(k) : a[i][j] \in Elem /\ a[i][j] = IF j = k - 1 - i THEN f[j] ELSE 0
  BY <1>2, Sizes
<1> HIDE DEF a
<1>4. ASSUME NEW i \in Below(k) PROVE XorAll([j \in Below(k) |-> a[i][j]], k) = back[i]
  <2> DEFINE g == [j \in Below(k) |-> a[i][j]]
             c == k - 1 - i
  <2>1. c \in Below(k) /\ g[c] = f[c] /\ back[i] = f[c] /\ f[c] \in Elem
    BY <1>1, <1>2, <1>3
  <2>2. \A j \in Below(k) : j # c => g[j] = 0
    BY <1>3
  <2> HIDE DEF g, c, back
  <2>3. XorAll(g, k) = g[c]
    BY <2>1, <2>2, XorAllOne
  <2> QED BY <2>1, <2>3 DEF g
<1>5. ASSUME NEW j \in Below(k) PROVE XorAll([i \in Below(k) |-> a[i][j]], k) = f[j]
  <2> DEFINE g == [i \in Below(k) |-> a[i][j]]
             c == k - 1 - j
  <2>1. c \in Below(k) /\ g[c] = f[j] /\ f[j] \in Elem
    BY <1>1, <1>2, <1>3
  <2>2. \A i \in Below(k) : i # c => g[i] = 0
    <3>1. \A i \in Below(k) : j = k - 1 - i => i = c
      BY DEF Below
    <3> QED BY <3>1, <1>3
  <2> HIDE DEF g, c
  <2>3. XorAll(g, k) = g[c]
    BY <2>1, <2>2, XorAllOne
  <2> QED BY <2>1, <2>3 DEF g
<1>6. XorAll([i \in Below(k) |-> XorAll([j \in Below(k) |-> a[i][j]], k)], k)
      = XorAll([j \in Below(k) |-> XorAll([i \in Below(k) |-> a[i][j]], k)], k)
  BY <1>3, XorAllFubini
<1>7. [i \in Below(k) |-> XorAll([j \in Below(k) |-> a[i][j]], k)] = back
  BY <1>4
<1>8. [j \in Below(k) |-> XorAll([i \in Below(k) |-> a[i][j]], k)] = f
  <2>1. f = [j \in Below(k) |-> f[j]]
    BY DEF Vec
  <2> QED BY <1>5, <2>1
<1> QED BY <1>6, <1>7, <1>8

Reversed(a, k) == [row \in Below(k) |-> [col \in Below(k) |-> a[row][k - 1 - col]]]
Regular(a, k) == \A x \in Vec(k) : (\A i \in Below(k) : Dot(a[i], x, k) = 0) => \A i \in Below(k) : x[i] = 0

LEMMA RegularInverts ==
  ASSUME FieldReady, NEW k \in Nat, NEW a \in Mat(k), Regular(a, k)
  PROVE  ~invert_mat(a, k).error
<1>1. ~Singular(a, k)
  BY DEF Singular, Regular
<1> QED BY <1>1, InvertMat

\* Turning the columns around turns the vector around.
LEMMA ReversedRegular ==
  ASSUME FieldReady, NEW k \in Nat, NEW a \in Mat(k), Regular(a, k)
  PROVE  Reversed(a, k) \in Mat(k) /\ Regular(Reversed(a, k), k)
<1>1. \A i \in Below(k) : k - 1 - i \in Below(k) /\ k - 1 - (k - 1 - i) = i
  BY DEF Below
<1>2. \A i, j \in Below(k) : a[i] \in Vec(k) /\ a[i][j] \in Elem
  BY DEF Mat, Vec
<1>3. \A i, j \in Below(k) : Reversed(a, k)[i][j] = a[i][k - 1 - j]
  BY DEF Reversed
<1>4. Reversed(a, k) \in Mat(k)
  <2>1. \A i, j \in Below(k) : a[i][k - 1 - j] \in Elem
    BY <1>1, <1>2
  <2> QED BY <2>1 DEF Reversed, Mat, Vec
<1>5. ASSUME NEW x \in Vec(k), \A i \in Below(k) : Dot(Reversed(a, k)[i], x, k) = 0, NEW j \in Below(k)
      PROVE  x[j] = 0
  <2> DEFINE z == [i \in Below(k) |-> x[k - 1 - i]]
  <2>1. \A i \in Below(k) : x[i] \in Elem /\ z[i] = x[k - 1 - i]
    BY DEF Vec
  <2>2. z \in Vec(k)
    BY <1>1, <2>1 DEF Vec
  <2> HIDE DEF z
  <2>3. ASSUME NEW i \in Below(k) PROVE Dot(a[i], z, k) = 0
    <3> DEFINE f == [l \in Below(k) |-> gf_mul(a[i][l], z[l])]
               g == [l \in Below(k) |-> gf_mul(Reversed(a, k)[i][l], x[l])]
    <3>1. ASSUME NEW l \in Below(k) PROVE gf_mul(a[i][l], z[l]) \in Elem
      <4>1. a[i][l] \in Elem /\ z[l] \in Elem
        BY <1>2, <2>2 DEF Vec
      <4> QED BY <4>1, MulElem
    <3>2. f \in Vec(k) /\ \A l \in Below(k) : f[l] = gf_mul(a[i][l], z[l])
      BY <3>1 DEF Vec
    <3>3. Dot(a[i], z, k) = XorAll(f, k) /\ Dot(Reversed(a, k)[i], x, k) = XorAll(g, k)
      BY DEF Dot
    <3>4. \A l \in Below(k) : z[k - 1 - l] = x[l]
      BY <1>1, <2>1
    <3>5. ASSUME NEW l \in Below(k) PROVE g[l] = f[k - 1 - l]
      <4>1. g[l] = gf_mul(a[i][k - 1 - l], x[l]) /\ x[l] = z[k - 1 - l] /\ k - 1 - l \in Below(k)
        BY <1>1, <1>3, <3>4
      <4> HIDE DEF f, g
      <4> QED BY <3>2, <4>1
    <3>6. g = [l \in Below(k) |-> f[k - 1 - l]]
      <4>1. g = [l \in Below(k) |-> g[l]]
        OBVIOUS
      <4> HIDE DEF f, g
      <4> QED BY <3>5, <4>1
    <3> HIDE DEF f, g
    <3>7. XorAll(g, k) = XorAll(f, k)
      BY <3>2, <3>6, XorAllReverse
    <3> QED BY <1>5, <3>3, <3>7
  <2>4. z[k - 1 - j] = 0
    BY <1>1, <2>2, <2>3 DEF Regular
  <2> QED BY <1>1, <2>1, <2>4
<1> QED BY <1>4, <1>5 DEF Regular

(***************************************************************************)
(* Both inversions of the Vandermonde matrix agree, and Gauss-Jordan also  *)
(* inverts it with its columns turned around, where pivots lie off the     *)
(* diagonal (fec.cc:391-583).                                              *)
(***************************************************************************)
THEOREM InversionsAgree ==
  ASSUME FieldReady, NEW k \in Nat, k >= 1, k <= GF_SIZE + 1
  PROVE  LET points == Vandermonde(k, k)
             fast == invert_vdm(points, k)
             general == invert_mat(Reversed(points, k), k)
         IN /\ matmul(points, fast, k, k, k) = Identity(k)
            /\ invert_mat(points, k) = [error |-> FALSE, m |-> fast]
            /\ ~general.error /\ matmul(Reversed(points, k), general.m, k, k, k) = Identity(k)
<1> DEFINE points == Vandermonde(k, k)
           fast == invert_vdm(points, k)
           turned == Reversed(points, k)
           general == invert_mat(turned, k)
<1>1. points \in Mat(k)
  <2>1. \A i \in Below(k) : points[i] \in Vec(k)
    BY VandermondeRows
  <2>2. points = [i \in Below(k) |-> points[i]]
    BY DEF Vandermonde
  <2> HIDE DEF points
  <2> QED BY <2>1, <2>2 DEF Mat
<1>2. Regular(points, k)
  <2> SUFFICES ASSUME NEW x \in Vec(k), \A i \in Below(k) : Dot(points[i], x, k) = 0
               PROVE  \A i \in Below(k) : x[i] = 0
    BY DEF Regular
  <2> DEFINE row == [i \in Below(k) |-> i]
  <2>1. row \in [Below(k) -> Below(k)] /\ (\A i, j \in Below(k) : row[i] = row[j] => i = j)
        /\ \A i \in Below(k) : row[i] = i
    OBVIOUS
  <2> HIDE DEF row
  <2>2. \A i \in Below(k) : Dot(Vandermonde(k, k)[row[i]], x, k) = 0
    BY <2>1
  <2> QED BY <2>1, <2>2, VandermondeRegular
<1>3. fast \in Mat(k) /\ IsInverse(points, fast, k)
  BY FastInverse DEF IsInverse
<1> HIDE DEF points, fast
<1>4. turned \in Mat(k) /\ Regular(turned, k)
  BY <1>1, <1>2, ReversedRegular
<1> HIDE DEF turned
<1>5. ~invert_mat(points, k).error /\ ~general.error
  BY <1>1, <1>2, <1>4, RegularInverts
<1>6. invert_mat(points, k).m = fast
  BY <1>1, <1>3, <1>5, InverseUnique
<1>7. invert_mat(points, k) = [error |-> FALSE, m |-> fast]
  <2>1. invert_mat(points, k) = [error |-> invert_mat(points, k).error, m |-> invert_mat(points, k).m]
        /\ invert_mat(points, k).error \in BOOLEAN
    BY <1>1, InvertMat
  <2>2. invert_mat(points, k).error = FALSE
    BY <1>5, <2>1
  <2> QED BY <1>6, <2>1, <2>2
<1>8. matmul(points, fast, k, k, k) = Identity(k)
  BY <1>3, ProductIsIdentity
<1>9. matmul(turned, general.m, k, k, k) = Identity(k)
  BY <1>4, <1>5, InvertMatIsInverse, ProductIsIdentity
<1> QED BY <1>5, <1>7, <1>8, <1>9 DEF points, fast, turned, general
=============================================================================
