--------------------------------- MODULE Fec ---------------------------------
(***************************************************************************)
(* The erasure code of fec.cc over the tables of GaloisField: a systematic *)
(* code from a Vandermonde matrix, and its decoding from any k packets.    *)
(*                                                                         *)
(* Rows, columns and packets are numbered from 0 as in the code; a packet  *)
(* is a function from the positions of its words to field elements.        *)
(***************************************************************************)
EXTENDS GaloisField, Sequences

Below(k) == 0 .. k - 1
XorAll(f, k) ==
  LET acc[i \in 0 .. k] == IF i = 0 THEN 0 ELSE xor[acc[i - 1]][f[i - 1]] IN acc[k]
Swap(f, i, j) == [f EXCEPT ![i] = f[j], ![j] = f[i]]
Identity(k) == [i \in Below(k) |-> [j \in Below(k) |-> IF i = j THEN 1 ELSE 0]]

\* dst[] + c * src[]
addmul(dst, src, c) == [w \in DOMAIN dst |-> xor[dst[w]][gf_mul(c, src[w])]]

\* a is n*k, b is k*m.
matmul(a, b, n, k, m) ==
  [row \in Below(n) |-> [col \in Below(m) |->
    XorAll([i \in Below(k) |-> gf_mul(a[row][i], b[i][col])], k)]]

-----------------------------------------------------------------------------
(* invert_vdm: the inverse of a Vandermonde matrix from its second column. *)

\* The coefficients of Prod (x - p[i]), the leading one left out. Each pass leaves
\* out the product of all points so far, which is right only because p[0] is 0.
Coefficients(p, k) ==
  LET c[i \in 0 .. k - 1] ==
        IF i = 0 THEN [j \in Below(k) |-> IF j = k - 1 THEN p[0] ELSE 0]
        ELSE LET old == c[i - 1]
             IN [j \in Below(k) |->
                   IF j = k - 1 THEN xor[old[j]][p[i]]
                   ELSE IF j >= k - i THEN xor[old[j]][gf_mul(p[i], old[j + 1])]
                   ELSE old[j]]
  IN c[k - 1]

\* Synthetic division of the polynomial c by (x - xx): quotient and its value at xx.
Division(c, xx, k) ==
  LET step[j \in 0 .. k - 1] ==
        IF j = 0 THEN [b |-> [i \in Below(k) |-> IF i = k - 1 THEN 1 ELSE 0], t |-> 1]
        ELSE LET i == k - 1 - j
                 old == step[j - 1]
                 b == xor[c[i + 1]][gf_mul(xx, old.b[i + 1])]
             IN [b |-> [old.b EXCEPT ![i] = b], t |-> xor[gf_mul(xx, old.t)][b]]
  IN step[k - 1]

invert_vdm(src, k) ==
  IF k = 1 THEN [row \in Below(1) |-> src[0]]
  ELSE LET p == [i \in Below(k) |-> src[i][1]]
           c == Coefficients(p, k)
           division == [row \in Below(k) |-> Division(c, p[row], k)]
       IN [col \in Below(k) |-> [row \in Below(k) |->
             gf_mul(inverse[division[row].t], division[row].b[col])]]

-----------------------------------------------------------------------------
(* invert_mat: Gauss-Jordan. The unused pivots of the code's "singular     *)
(* matrix" cases beyond a missing pivot do not arise: ipiv never passes 1. *)

Candidates(m, ipiv, k) ==
  {rc \in (Below(k) \ ipiv) \X (Below(k) \ ipiv) : m[rc[1]][rc[2]] # 0}

Pivot(m, ipiv, col, k) ==
  IF col \notin ipiv /\ m[col][col] # 0 THEN <<col, col>>
  ELSE CHOOSE rc \in Candidates(m, ipiv, k) :
         \A other \in Candidates(m, ipiv, k) :
           rc[1] < other[1] \/ (rc[1] = other[1] /\ rc[2] <= other[2])

\* The selected row scaled to make its pivot 1; the pivot's place takes the inverse.
Scaled(row, icol) ==
  IF row[icol] = 1 THEN row
  ELSE [ix \in DOMAIN row |->
          gf_mul(inverse[row[icol]], IF ix = icol THEN 1 ELSE row[ix])]

\* Every other row loses its multiple of the pivot row.
Eliminate(m, icol, k) ==
  [ix \in Below(k) |->
     IF ix = icol \/ m[icol] = Identity(k)[icol] THEN m[ix]
     ELSE addmul([m[ix] EXCEPT ![icol] = 0], m[icol], m[ix][icol])]

ReduceColumn(st, col, k) ==
  IF st.error \/ Candidates(st.m, st.ipiv, k) = {} THEN [st EXCEPT !.error = TRUE]
  ELSE LET rc == Pivot(st.m, st.ipiv, col, k)
           swapped == Swap(st.m, rc[1], rc[2])
           pivoted == [swapped EXCEPT ![rc[2]] = Scaled(@, rc[2])]
       IN [m |-> Eliminate(pivoted, rc[2], k), ipiv |-> st.ipiv \cup {rc[2]},
           indx |-> Append(st.indx, rc), error |-> FALSE]

\* Broken variant: the columns stay where the row swaps left them.
SwapNoColumns(m, indx) == m

\* The columns go back in the reverse order of the row swaps.
SwapColumns(m, indx) ==
  LET undone[i \in 0 .. Len(indx)] ==
        IF i = 0 THEN m
        ELSE LET rc == indx[Len(indx) + 1 - i]
             IN [row \in DOMAIN m |-> Swap(undone[i - 1][row], rc[1], rc[2])]
  IN undone[Len(indx)]

invert_mat(src, k) ==
  LET column[i \in 0 .. k] ==
        IF i = 0 THEN [m |-> src, ipiv |-> {}, indx |-> <<>>, error |-> FALSE]
        ELSE ReduceColumn(column[i - 1], i - 1, k)
      last == column[k]
  IN [error |-> last.error,
      m |-> IF last.error THEN last.m ELSE SwapColumns(last.m, last.indx)]

-----------------------------------------------------------------------------
\* Row 0 is the point 0, row r the point alpha ** (r - 1).
Vandermonde(k, n) ==
  [row \in Below(n) |-> [col \in Below(k) |->
    IF row = 0 THEN (IF col = 0 THEN 1 ELSE 0) ELSE gf_exp[modnn[(row - 1) * col]]]]

ValidParameters(k, n) == k <= GF_SIZE + 1 /\ n <= GF_SIZE + 1 /\ k <= n

\* The encoding matrix: the identity on top, so the first k packets go out as they are.
fec_new(k, n) ==
  LET points == Vandermonde(k, n)
      bottom == matmul([row \in Below(n - k) |-> points[k + row]], invert_vdm(points, k), n - k, k, k)
  IN [row \in Below(n) |-> IF row < k THEN Identity(k)[row] ELSE bottom[row - k]]

fec_encode(enc_matrix, k, src, index, sz) ==
  IF index < k THEN [w \in Below(sz) |-> src[index][w]]
  ELSE [w \in Below(sz) |-> XorAll([i \in Below(k) |-> gf_mul(enc_matrix[index][i], src[i][w])], k)]

\* One turn of the loop of shuffle; nothing changes after its end.
Place(st, k) ==
  LET c == st.index[st.i] IN
  IF st.error \/ st.i >= k THEN st
  ELSE IF c >= k \/ c = st.i THEN [st EXCEPT !.i = @ + 1]
  ELSE IF st.index[c] = c THEN [st EXCEPT !.error = TRUE]
  ELSE [st EXCEPT !.pkt = Swap(@, st.i, c), !.index = Swap(@, st.i, c)]

\* Moves each received packet of the first k to its position. A turn goes on to the
\* next position or puts one packet in its place for good, so 2 * k turns are enough.
shuffle(pkt, index, k) ==
  LET turn[s \in 0 .. 2 * k] ==
        IF s = 0 THEN [pkt |-> pkt, index |-> index, i |-> 0, error |-> FALSE]
        ELSE Place(turn[s - 1], k)
  IN turn[2 * k]

\* Broken variant: the first redundant packet is taken for a packet of the first k.
BuildOffByOne(enc_matrix, index, k) ==
  [i \in Below(k) |-> IF index[i] <= k THEN Identity(k)[i] ELSE enc_matrix[index[i]]]

build_decode_matrix(enc_matrix, index, k) ==
  [i \in Below(k) |-> IF index[i] < k THEN Identity(k)[i] ELSE enc_matrix[index[i]]]

\* Broken variant: a singular matrix is used all the same.
FecDecodeSingular(enc_matrix, k, pkt, index) ==
  LET sh == shuffle(pkt, index, k)
      m_dec == invert_mat(build_decode_matrix(enc_matrix, sh.index, k), k)
      new_pkt(row) == [w \in DOMAIN sh.pkt[row] |->
                         XorAll([col \in Below(k) |-> gf_mul(m_dec.m[row][col], sh.pkt[col][w])], k)]
  IN IF sh.error THEN [error |-> TRUE, pkt |-> sh.pkt]
     ELSE [error |-> FALSE,
           pkt |-> [row \in Below(k) |-> IF sh.index[row] < k THEN sh.pkt[row] ELSE new_pkt(row)]]

\* pkt and index hold the k packets received first; a failure leaves them shuffled.
fec_decode(enc_matrix, k, pkt, index) ==
  LET sh == shuffle(pkt, index, k)
      m_dec == invert_mat(build_decode_matrix(enc_matrix, sh.index, k), k)
      new_pkt(row) == [w \in DOMAIN sh.pkt[row] |->
                         XorAll([col \in Below(k) |-> gf_mul(m_dec.m[row][col], sh.pkt[col][w])], k)]
  IN IF sh.error \/ m_dec.error THEN [error |-> TRUE, pkt |-> sh.pkt]
     ELSE [error |-> FALSE,
           pkt |-> [row \in Below(k) |-> IF sh.index[row] < k THEN sh.pkt[row] ELSE new_pkt(row)]]
=============================================================================
