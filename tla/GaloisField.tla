----------------------------- MODULE GaloisField -----------------------------
(***************************************************************************)
(* The tables of fec.cc for arithmetic in GF(2^GF_BITS). They are global   *)
(* and empty at start-up; fec_new fills them (init_fec: generate_gf,       *)
(* init_mul_table) in the thread of the sender that finds fec_initialized  *)
(* unset. Nothing is locked, and every client has a sender.                *)
(*                                                                         *)
(* A field element is the number whose bits are the coefficients of its    *)
(* polynomial.                                                             *)
(***************************************************************************)
EXTENDS Integers

CONSTANTS
  GF_BITS,   \* 8 in the code, which supports 2 .. 16
  Senders    \* the threads that encode

ASSUME FieldAssumption == GF_BITS \in 2 .. 16 /\ Senders # {}

\* 1 << i
bit[i \in 0 .. 16] == IF i = 0 THEN 1 ELSE 2 * bit[i - 1]

GF_SIZE == bit[GF_BITS] - 1
Elem == 0 .. GF_SIZE
HighBit == bit[GF_BITS - 1]

\* The exponents with coefficient 1 in the primitive polynomial of each size.
allPp ==
  <<{}, {0,1,2}, {0,1,3}, {0,1,4}, {0,2,5}, {0,1,6}, {0,3,7}, {0,2,3,4,8}, {0,4,9},
    {0,3,10}, {0,2,11}, {0,1,4,6,12}, {0,1,3,4,13}, {0,1,6,10,14}, {0,1,15}, {0,1,3,12,16}>>
Pp == allPp[GF_BITS]

\* The exclusive or of the w lowest bits.
xorLow[w \in 0 .. GF_BITS] ==
  [a \in Elem |-> [b \in Elem |->
     IF w = 0 THEN 0 ELSE 2 * xorLow[w - 1][a \div 2][b \div 2] + ((a + b) % 2)]]
xor == xorLow[GF_BITS]

modnn[x \in Nat] ==
  IF x < GF_SIZE THEN x
  ELSE LET y == x - GF_SIZE IN modnn[(y \div (GF_SIZE + 1)) + (y % (GF_SIZE + 1))]

-----------------------------------------------------------------------------
(* The field, defined without tables: polynomials modulo Pp.               *)

\* alpha ** GF_BITS, the sum of the lower terms of the polynomial.
terms[i \in 0 .. GF_BITS] ==
  IF i = 0 THEN 0
  ELSE IF i - 1 \in Pp THEN xor[terms[i - 1]][bit[i - 1]] ELSE terms[i - 1]
Reduction == terms[GF_BITS]

TimesAlpha(x) == IF x >= HighBit THEN xor[2 * (x - HighBit)][Reduction] ELSE 2 * x

\* alpha ** i * x, by halving i.
power[i \in 0 .. GF_SIZE] ==
  [x \in Elem |-> IF i = 0 THEN x
                  ELSE IF i = 1 THEN TimesAlpha(x)
                  ELSE power[i - (i \div 2)][power[i \div 2][x]]]

\* "Primitive polynomials" (fec.cc:97): no earlier power of alpha than the last is 1.
ASSUME PrimitiveAssumption ==
  power[GF_SIZE][1] = 1 /\ \A i \in 1 .. GF_SIZE - 1 : power[i][1] # 1

Product(x, y) ==
  LET horner[j \in 0 .. GF_BITS] ==
        IF j = 0 THEN 0
        ELSE LET shifted == TimesAlpha(horner[j - 1])
             IN IF (y \div bit[GF_BITS - j]) % 2 = 1 THEN xor[shifted][x] ELSE shifted
  IN horner[GF_BITS]

-----------------------------------------------------------------------------
VARIABLES
  gf_exp,          \* index -> alpha ** index
  gf_log,          \* its inverse, GF_SIZE for 0
  inverse,
  gf_mul_table,
  fec_initialized,
  gf_pc,           \* where each sender is in fec_new
  gf_i             \* the loop variable of its generate_gf

tables  == <<gf_exp, gf_log, inverse, gf_mul_table>>
gfVars  == <<tables, fec_initialized, gf_pc, gf_i>>

\* The rows of gf_mul_table, zeros at start-up, are read by nobody before they are
\* filled: no row is there yet.
GFInit ==
  /\ gf_exp = [i \in 0 .. 2 * GF_SIZE - 1 |-> 0]
  /\ gf_log = [x \in Elem |-> 0]
  /\ inverse = [x \in Elem |-> 0]
  /\ gf_mul_table = <<>>
  /\ fec_initialized = FALSE
  /\ gf_pc = [s \in Senders |-> "idle"]
  /\ gf_i = [s \in Senders |-> 0]

-----------------------------------------------------------------------------
(* Each iteration of the loops that generate the powers is one step.       *)

CheckInitialized(s) ==
  /\ gf_pc[s] = "idle"
  /\ gf_pc' = [gf_pc EXCEPT ![s] = IF fec_initialized THEN "ready" ELSE "clear"]
  /\ UNCHANGED <<tables, fec_initialized, gf_i>>

ClearTop(s) ==
  /\ gf_pc[s] = "clear"
  /\ gf_exp' = [gf_exp EXCEPT ![GF_BITS] = 0]
  /\ gf_pc' = [gf_pc EXCEPT ![s] = "low"]
  /\ gf_i' = [gf_i EXCEPT ![s] = 0]
  /\ UNCHANGED <<gf_log, inverse, gf_mul_table, fec_initialized>>

\* The powers below GF_BITS, with the polynomial collected in gf_exp[GF_BITS].
LowPower(s) ==
  LET i == gf_i[s]
      mask == bit[i]
  IN /\ gf_pc[s] = "low" /\ i < GF_BITS
     /\ gf_exp' = [gf_exp EXCEPT ![i] = mask,
                                 ![GF_BITS] = IF i \in Pp THEN xor[@][mask] ELSE @]
     /\ gf_log' = [gf_log EXCEPT ![mask] = i]
     /\ gf_i' = [gf_i EXCEPT ![s] = i + 1]
     /\ UNCHANGED <<inverse, gf_mul_table, fec_initialized, gf_pc>>

TopLog(s) ==
  /\ gf_pc[s] = "low" /\ gf_i[s] = GF_BITS
  /\ gf_log' = [gf_log EXCEPT ![gf_exp[GF_BITS]] = GF_BITS]
  /\ gf_pc' = [gf_pc EXCEPT ![s] = "high"]
  /\ gf_i' = [gf_i EXCEPT ![s] = GF_BITS + 1]
  /\ UNCHANGED <<gf_exp, inverse, gf_mul_table, fec_initialized>>

Shifted(x, top) == IF x >= HighBit THEN xor[top][2 * (x - HighBit)] ELSE 2 * x

HighPower(s) ==
  LET i == gf_i[s]
      next == Shifted(gf_exp[i - 1], gf_exp[GF_BITS])
  IN /\ gf_pc[s] = "high" /\ i < GF_SIZE
     /\ gf_exp' = [gf_exp EXCEPT ![i] = next]
     /\ gf_log' = [gf_log EXCEPT ![next] = i]
     /\ gf_i' = [gf_i EXCEPT ![s] = i + 1]
     /\ UNCHANGED <<inverse, gf_mul_table, fec_initialized, gf_pc>>

\* Broken variant: inverses as the comment on the table has them (fec.cc:133).
ExtendAsCommented(s) ==
  /\ gf_pc[s] = "high" /\ gf_i[s] >= GF_SIZE
  /\ gf_log' = [gf_log EXCEPT ![0] = GF_SIZE]
  /\ gf_exp' = [i \in DOMAIN gf_exp |-> gf_exp[i % GF_SIZE]]
  /\ inverse' = [x \in Elem |-> IF x <= 1 THEN x ELSE gf_exp'[GF_SIZE - gf_log'[x] - 1]]
  /\ gf_pc' = [gf_pc EXCEPT ![s] = "mul"]
  /\ UNCHANGED <<gf_mul_table, fec_initialized, gf_i>>

\* log(0), the second half of gf_exp and the inverses.
Extend(s) ==
  /\ gf_pc[s] = "high" /\ gf_i[s] >= GF_SIZE
  /\ gf_log' = [gf_log EXCEPT ![0] = GF_SIZE]
  /\ gf_exp' = [i \in DOMAIN gf_exp |-> gf_exp[i % GF_SIZE]]
  /\ inverse' = [x \in Elem |-> IF x <= 1 THEN x ELSE gf_exp'[GF_SIZE - gf_log'[x]]]
  /\ gf_pc' = [gf_pc EXCEPT ![s] = "mul"]
  /\ UNCHANGED <<gf_mul_table, fec_initialized, gf_i>>

init_mul_table(s) ==
  /\ gf_pc[s] = "mul"
  /\ gf_mul_table' = [x \in Elem |-> [y \in Elem |->
                        IF x = 0 \/ y = 0 THEN 0 ELSE gf_exp[modnn[gf_log[x] + gf_log[y]]]]]
  /\ fec_initialized' = TRUE
  /\ gf_pc' = [gf_pc EXCEPT ![s] = "ready"]
  /\ UNCHANGED <<gf_exp, gf_log, inverse, gf_i>>

init_fec(s) ==
  \/ ClearTop(s) \/ LowPower(s) \/ TopLog(s) \/ HighPower(s) \/ Extend(s)
  \/ init_mul_table(s)

GFNext == \E s \in Senders : CheckInitialized(s) \/ init_fec(s)
GFSpec == GFInit /\ [][GFNext]_gfVars

gf_mul(x, y) == gf_mul_table[x][y]

-----------------------------------------------------------------------------
(***************************************************************************)
(* When fec_initialized lets senders through (fec.cc:597, 638), the tables *)
(* are the multiplication and the inverses of the field, and they stay so. *)
(***************************************************************************)
FieldTables ==
  [][/\ ~fec_initialized /\ fec_initialized' =>
          \A x \in Elem :
            /\ x # 0 => gf_mul_table'[x][inverse'[x]] = 1
            /\ \A y \in Elem : gf_mul_table'[x][y] = Product(x, y)
     /\ fec_initialized => UNCHANGED tables]_gfVars

(***************************************************************************)
(* What test_gf checks of the tables (fec.cc:999-1005), once every sender  *)
(* is through init_fec: the product with the inverse is 1 and with 0 is 0. *)
(***************************************************************************)
TestGf ==
  (\A s \in Senders : gf_pc[s] = "ready") =>
    \A i \in Elem :
      /\ i # 0 => gf_mul(i, inverse[i]) = 1
      /\ gf_mul(0, i) = 0 /\ gf_mul(i, 0) = 0
=============================================================================
