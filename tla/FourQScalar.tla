----------------------------- MODULE FourQScalar -----------------------------
(***************************************************************************)
(* Scalars of FourQ and the multiplication of points by them               *)
(* (oZKS/fourq/eccp2.c, eccp2_core.c, crypto_util.c), with words of a few  *)
(* bits and a small order.                                                 *)
(*                                                                         *)
(* A point is known by its multiple of an element that generates the       *)
(* group, as in FourQPoint; what the formulas for coordinates do to it is  *)
(* shown in FourQCurve.  Scalars are numbers of four words.                *)
(***************************************************************************)
EXTENDS Integers, Sequences, SequencesExt

CONSTANTS
  Bits,                        \* of a word, 64 in the code
  Order,                       \* curve_order
  Phi, Psi,                    \* the multiples that the endomorphisms take
  Ell,                         \* ell1..ell4
  B,                           \* B[i][j] is bij, all positive
  C,                           \* c1..c4
  W_FIXEDBASE, V_FIXEDBASE,    \* 5 and 5 in the code
  NBITS_ORDER_PLUS_ONE,
  WP_DOUBLEBASE, WQ_DOUBLEBASE,  \* 8 and 4
  K_EXPON,                     \* k_EXPON, 5
  Montgomery_rprime,           \* -Order^-1 modulo Whole
  Tried, Others, Points        \* the scalars and points to try

VARIABLES
  first, second,               \* scalars
  point                        \* in Group

Base == 2^Bits
Whole == 2^(4 * Bits)
Word(a, i) == (a \div Base^i) % Base

(* The low half of what multiply gives: TLC's integers are too short for   *)
(* all of it.                                                              *)
LowHalf(a, b) == (((a * (b \div Base^2)) % Base^2) * Base^2 + a * (b % Base^2)) % Whole

(* What is assumed of the constants.  The rows of B and the offset are     *)
(* vectors that give zero, with the signs that decompose has.              *)
ConstantsAreGiven ==
  /\ {Bits, Order, Phi, Psi, W_FIXEDBASE, V_FIXEDBASE} \subseteq Nat \ {0}
  /\ Order % 2 = 1 /\ 2^(NBITS_ORDER_PLUS_ONE - 2) < Order
  /\ Order < 2^(NBITS_ORDER_PLUS_ONE - 1) /\ 2 * Order < Whole
  /\ {W_FIXEDBASE, V_FIXEDBASE, WP_DOUBLEBASE, WQ_DOUBLEBASE, K_EXPON} \cap {0, 1} = {}
  /\ B[4][1] % 2 = 1
  /\ \A v \in {<<B[1][1], -B[1][2], B[1][3], -B[1][4]>>, <<B[2][1], -1, 1, B[2][4]>>,
                <<B[3][1], B[3][2], -B[3][3], B[3][4]>>, <<B[4][1], B[4][2], -B[4][3], -B[4][4]>>, C} :
       (v[1] + v[2] * Phi + v[3] * Psi + v[4] * ((Phi * Psi) % Order)) % Order = 0
  /\ LowHalf(Order, Montgomery_rprime) = Whole - 1

-----------------------------------------------------------------------------
(* The order *)

Montgomery_Rprime == (Whole % Order)^2 % Order

SubtractOnce(a) == IF a >= Order THEN a - Order ELSE a

(* The low half of the product and of the multiple of the order cancel.    *)
Montgomery_multiply_mod_order(ma, mb) ==
  SubtractOnce((ma * mb + LowHalf((ma * mb) % Whole, Montgomery_rprime) * Order) \div Whole)

to_Montgomery(a) == Montgomery_multiply_mod_order(a, Montgomery_Rprime)
from_Montgomery(ma) == Montgomery_multiply_mod_order(ma, 1)

modulo_order(a) == from_Montgomery(to_Montgomery(a))

subtract_mod_order(a, b) == (a - b + (IF a < b THEN Order ELSE 0)) % Whole
add_mod_order(a, b) == subtract_mod_order((a + b) % Whole, Order)

conversion_to_odd(n) == IF n % 2 = 1 THEN n ELSE n + Order

(* The bits of Order - 2 that are left, of i; a window starts with a bit   *)
(* that is set and ends with one, and takes at most K_EXPON of them.       *)
Left(i) == (Order - 2) % 2^i
Window(i) == (Left(i) * 2^K_EXPON) \div 2^i
Count(i) == CHOOSE n \in 1..K_EXPON :
              /\ Window(i) % 2^(K_EXPON - n) = 0
              /\ (Window(i) \div 2^(K_EXPON - n)) % 2 = 1

Length == CHOOSE n \in 1..4 * Bits : 2^n <= Order - 2 /\ Order - 2 < 2^(n + 1)

Squared(n, mc) ==
  LET S[i \in 0..n] == IF i = 0 THEN mc ELSE Montgomery_multiply_mod_order(S[i - 1], S[i - 1])
  IN  S[n]

(* table[j] is the power 2 * j + 1.                                        *)
Power(ma, j) ==
  LET T[i \in 0..j] == IF i = 0 THEN ma
                       ELSE Montgomery_multiply_mod_order(T[i - 1], Montgomery_multiply_mod_order(ma, ma))
  IN  T[j]

WindowPower(ma, i) == Power(ma, (Window(i) \div 2^(K_EXPON - Count(i)) - 1) \div 2)

(* The first bit is ma itself.                                             *)
Montgomery_inversion_mod_order(ma) ==
  LET Evaluate[i \in 0..Length, mc \in 0..Order - 1] ==
        IF i = 0 THEN mc
        ELSE IF Left(i) < 2^(i - 1) THEN Evaluate[i - 1, Squared(1, mc)]
        ELSE Evaluate[i - Count(i),
                      Montgomery_multiply_mod_order(Squared(Count(i), mc), WindowPower(ma, i))]
  IN  Evaluate[Length, ma]

(* As FourQPoint calls them. *)
MultiplyScalar(a, b) ==
  from_Montgomery(Montgomery_multiply_mod_order(to_Montgomery(a), to_Montgomery(b)))
InvertScalar(a) == from_Montgomery(Montgomery_inversion_mod_order(to_Montgomery(a)))

-----------------------------------------------------------------------------
(* Points, and the formulas by what they do *)

Cofactor == 392
Group == 0..Cofactor * Order - 1

eccdouble(P) == (2 * P) % (Cofactor * Order)
eccadd(Q, P) == (P + Q) % (Cofactor * Order)
Negated(P) == (-P) % (Cofactor * Order)
ecc_phi(P) == (Phi * P) % (Cofactor * Order)
ecc_psi(P) == (Psi * P) % (Cofactor * Order)

Doubled(n, P) == (2^n * P) % (Cofactor * Order)

Generator == Cofactor

cofactor_clearing(P) == Doubled(3, eccadd(P, Doubled(4, eccadd(P, eccdouble(P)))))

-----------------------------------------------------------------------------
(* Decomposition, with unsigned words *)

Product(s, c, i, j) == Word(s, i) * Word(c, j)

(* Of sums of two words: the high words, and what the low ones carry.      *)
Above(sums) ==
  FoldLeft(LAMBDA n, x : n + x \div Base, 0, sums)
  + FoldLeft(LAMBDA n, x : n + (x % Base), 0, sums) \div Base

(* Registers hold two words. *)
Register(n) == n % Base^2

Column1(s, c) ==
  Above(<<Register(Product(s, c, 1, 0) + Product(s, c, 0, 0) \div Base), Product(s, c, 0, 1)>>)
Column2(s, c) ==
  Above(<<Register(Column1(s, c) + Product(s, c, 2, 0)), Product(s, c, 0, 2), Product(s, c, 1, 1)>>)
Column3(s, c) ==
  Above(<<Register(Column2(s, c) + Product(s, c, 0, 3)), Product(s, c, 3, 0),
          Product(s, c, 1, 2), Product(s, c, 2, 1)>>)

mul_truncate(s, c) ==
  (Register(Column3(s, c)) + Product(s, c, 1, 3) + Product(s, c, 3, 1) + Product(s, c, 2, 2)) % Base

(* Mutant: an even scalar is left as it is. *)
CoordinatesMayBeEven(k0, a) ==
  <<(k0 - a[1] * B[1][1] - a[2] * B[2][1] - a[3] * B[3][1] - a[4] * B[4][1] + C[1]) % Base,
    (a[1] * B[1][2] + a[2] - a[3] * B[3][2] - a[4] * B[4][2] + C[2]) % Base,
    (a[3] * B[3][3] - a[1] * B[1][3] - a[2] + a[4] * B[4][3] + C[3]) % Base,
    (a[1] * B[1][4] - a[2] * B[2][4] - a[3] * B[3][4] + a[4] * B[4][4] + C[4]) % Base>>

(* Scalars from the rounded coordinates a; where the first would be even,  *)
(* the last row is added.                                                  *)
FromCoordinates(k0, a) ==
  LET temp == (k0 - a[1] * B[1][1] - a[2] * B[2][1] - a[3] * B[3][1] - a[4] * B[4][1] + C[1]) % Base
      Masked(n) == IF temp % 2 = 0 THEN n ELSE 0
  IN  <<(temp + Masked(B[4][1])) % Base,
        (a[1] * B[1][2] + a[2] - a[3] * B[3][2] - a[4] * B[4][2] + C[2] + Masked(B[4][2])) % Base,
        (a[3] * B[3][3] - a[1] * B[1][3] - a[2] + a[4] * B[4][3] + C[3] - Masked(B[4][3])) % Base,
        (a[1] * B[1][4] - a[2] * B[2][4] - a[3] * B[3][4] + a[4] * B[4][4] + C[4]
           - Masked(B[4][4])) % Base>>

decompose(s) == FromCoordinates(Word(s, 0), [i \in 1..4 |-> mul_truncate(s, Ell[i])])

-----------------------------------------------------------------------------
(* Variable-base multiplication *)

(* The sign of digit i is the next bit of the first scalar. *)
Positive(scalars, i) == i = Bits \/ (scalars[1] \div 2^(i + 1)) % 2 = 1

(* Scalar j when i digits are taken: a bit that counts negative is carried.*)
Rest(scalars, j, i) ==
  LET R[n \in 0..i] ==
        IF n = 0 THEN scalars[j]
        ELSE (R[n - 1] \div 2 + (IF Positive(scalars, n - 1) THEN 0 ELSE R[n - 1] % 2)) % Base
  IN  R[i]

(* recode: the last digit takes all that is left. *)
Digit(scalars, i) ==
  LET part(j) == IF i < Bits THEN Rest(scalars, j, i) % 2 ELSE Rest(scalars, j, i)
  IN  part(2) + 2 * part(3) + 4 * part(4)

ecc_precomp(P) ==
  LET T[i \in 0..7] ==
        IF i = 0 THEN P
        ELSE IF i = 1 THEN eccadd(T[0], ecc_phi(P))
        ELSE IF i < 4 THEN eccadd(T[i - 2], ecc_psi(P))
        ELSE eccadd(T[i - 4], ecc_psi(ecc_phi(P)))
  IN  T

(* Every entry is read, and the last one with an index up to digit stays.  *)
table_lookup_1x8(table, digit, positive) ==
  LET found == table[IF digit < 8 THEN digit ELSE 7]
  IN  IF positive THEN found ELSE Negated(found)

MultiplyBy(scalars, table) ==
  LET R[i \in 0..Bits] ==
        IF i = Bits THEN table_lookup_1x8(table, Digit(scalars, i), TRUE)
        ELSE eccadd(table_lookup_1x8(table, Digit(scalars, i), Positive(scalars, i)),
                    eccdouble(R[i + 1]))
  IN  R[0]

(* Of a point on the curve; for others ecc_mul returns false. *)
ecc_mul(P, s, clear_cofactor) ==
  MultiplyBy(decompose(s), ecc_precomp(IF clear_cofactor THEN cofactor_clearing(P) ELSE P))

-----------------------------------------------------------------------------
(* Fixed-base multiplication *)

E_FIXEDBASE ==
  (NBITS_ORDER_PLUS_ONE + W_FIXEDBASE * V_FIXEDBASE - 1) \div (W_FIXEDBASE * V_FIXEDBASE)
D_FIXEDBASE == E_FIXEDBASE * V_FIXEDBASE
L_FIXEDBASE == D_FIXEDBASE * W_FIXEDBASE

(* mLSB_set_recode: the first D_FIXEDBASE digits are signs, 0 or -1; what  *)
(* is left of the scalar after i of the others is Remaining[i].            *)
Sign(scalar, i) ==
  IF i = D_FIXEDBASE - 1 THEN 0 ELSE ((scalar \div 2^(i + 1)) % 2) - 1

mLSB_set_recode(scalar) ==
  LET Remaining[i \in D_FIXEDBASE..L_FIXEDBASE] ==
        IF i = D_FIXEDBASE THEN scalar \div 2^D_FIXEDBASE
        ELSE Remaining[i - 1] \div 2
             - Sign(scalar, (i - 1) % D_FIXEDBASE) * (Remaining[i - 1] % 2)
  IN  [i \in 0..L_FIXEDBASE - 1 |->
        IF i < D_FIXEDBASE THEN Sign(scalar, i) ELSE Remaining[i] % 2]

(* The digit of the rows above the sign, in the column i. *)
ColumnDigit(digits, i) ==
  LET D[row \in 1..W_FIXEDBASE] ==
        IF row = W_FIXEDBASE THEN 0 ELSE 2 * D[row + 1] + digits[i + row * D_FIXEDBASE]
  IN  D[1]

(* FIXED_BASE_TABLE holds the multiples that the columns of a block of     *)
(* E_FIXEDBASE stand for.                                                  *)
FIXED_BASE_TABLE(block, digit) ==
  LET Rows[row \in 0..W_FIXEDBASE - 1] ==
        IF row = 0 THEN 1
        ELSE Rows[row - 1] + ((digit \div 2^(row - 1)) % 2) * 2^(row * D_FIXEDBASE)
  IN  (Generator * (2^(block * E_FIXEDBASE) * Rows[W_FIXEDBASE - 1])) % (Cofactor * Order)

table_lookup_fixed_base(block, digit, sign) ==
  IF sign = 0 THEN FIXED_BASE_TABLE(block, digit) ELSE Negated(FIXED_BASE_TABLE(block, digit))

(* The entry for one column of one block. *)
Entry(digits, block, column) ==
  LET i == block * E_FIXEDBASE + column
  IN  table_lookup_fixed_base(block, ColumnDigit(digits, i), digits[i])

(* The blocks from the last one on: the columns with the same place.       *)
WithColumn(digits, column, start) ==
  LET R[j \in 0..V_FIXEDBASE] ==
        IF j = 0 THEN start
        ELSE eccadd(Entry(digits, V_FIXEDBASE - j, column), R[j - 1])
  IN  R[V_FIXEDBASE]

FixedBy(digits) ==
  LET R[column \in 0..E_FIXEDBASE - 1] ==
        WithColumn(digits, column,
                   IF column = E_FIXEDBASE - 1 THEN 0 ELSE eccdouble(R[column + 1]))
  IN  R[0]

ecc_mul_fixed(s) == FixedBy(mLSB_set_recode(conversion_to_odd(modulo_order(s))))

-----------------------------------------------------------------------------
(* Double multiplication *)

(* wNAF_recode: the digits written, the first one first. *)
wNAF_recode(scalar, w) ==
  LET Signed(n) == IF n % 2^w > 2^(w - 1) - 1 THEN (n % 2^w) - 2^w ELSE n % 2^w
      Next(n) == n \div 2^w + (IF Signed(n) < 0 THEN 1 ELSE 0)
      Digits[n \in 0..Base] ==
        IF n = 0 THEN <<>>
        ELSE IF n % 2 = 0 THEN <<0>> \o Digits[n \div 2]
        ELSE <<Signed(n)>>
             \o (IF Next(n) = 0 THEN <<>> ELSE [i \in 1..w - 1 |-> 0] \o Digits[Next(n)])
  IN  Digits[scalar]

(* The arrays of digits are zero beyond what is written. *)
DigitAt(digits, i) == IF i < Len(digits) THEN digits[i + 1] ELSE 0

(* Odd multiples of P, the one at i being 2 * i + 1. *)
ecc_precomp_double(P, npoints) ==
  LET T[i \in 0..npoints - 1] == IF i = 0 THEN P ELSE eccadd(T[i - 1], eccdouble(P))
  IN  T

(* DOUBLE_SCALAR_TABLE holds the same of the generator and its images.     *)
DOUBLE_SCALAR_TABLE(P) == [i \in 0..2^(WP_DOUBLEBASE - 2) - 1 |->
                            ((2 * i + 1) * P) % (Cofactor * Order)]

(* What a digit adds, from a table of odd multiples. *)
Load(table, digit) ==
  IF digit = 0 THEN 0
  ELSE IF digit < 0 THEN Negated(table[(-digit) \div 2]) ELSE table[digit \div 2]

Images(P) == <<P, ecc_phi(P), ecc_psi(P), ecc_psi(ecc_phi(P))>>

(* digits and tables are of l and Q, then of k and the generator. *)
Interleaved(digits, tables) ==
  LET T[i \in 0..Bits + 1] ==
        IF i = Bits + 1 THEN 0
        ELSE FoldLeft(LAMBDA t, n : eccadd(Load(tables[n], DigitAt(digits[n], i)), t),
                      eccdouble(T[i + 1]), [n \in 1..8 |-> n])
  IN  T[0]

Recoded(scalars, w) == [j \in 1..4 |-> wNAF_recode(scalars[j], w)]

ecc_mul_double(s, Q, t) ==
  Interleaved(Recoded(decompose(t), WQ_DOUBLEBASE) \o Recoded(decompose(s), WP_DOUBLEBASE),
             [j \in 1..4 |-> ecc_precomp_double(Images(Q)[j], 2^(WQ_DOUBLEBASE - 2))]
             \o [j \in 1..4 |-> DOUBLE_SCALAR_TABLE(Images(Generator)[j])])

-----------------------------------------------------------------------------
(* The program is given the scalars and the point, and nothing changes.    *)

Init == first \in Tried /\ second \in Others /\ point \in Points

-----------------------------------------------------------------------------
(* Properties *)

InSubgroup == Cofactor * (point % Order)

(* Reduction, sums, differences, products and inverses are those of the    *)
(* integers modulo the order, and all are reduced, for products of scalars *)
(* that are not (crypto_util.c, fp_x64.h).                                 *)
ScalarsAreModuloOrder ==
  /\ modulo_order(first) = first % Order
  /\ MultiplyScalar(first % Order, second) = ((first % Order) * (second % Order)) % Order
  /\ add_mod_order(first % Order, second % Order) = (first + second) % Order
  /\ subtract_mod_order(first % Order, second % Order) = (first - second) % Order
  /\ first % Order # 0 => (first * InvertScalar(first % Order)) % Order = 1

(* For every scalar of four words, reduced or not, the decomposition gives *)
(* scalars of one word that never wrap, the first one odd, with which the  *)
(* multiple is found; with the cofactor cleared, of any point (eccp2.c).   *)
VariableBaseMultiplies ==
  /\ decompose(first)[1] % 2 = 1
  /\ ecc_mul(InSubgroup, first, FALSE) = ((first % Order) * InSubgroup) % (Cofactor * Order)
  /\ ecc_mul(point, first, TRUE) = Cofactor * (((first % Order) * (point % Order)) % Order)

(* The comb with digits that are all odd or negated gives the multiple of  *)
(* the generator (ecc_mul_fixed in eccp2_core.c).                          *)
FixedBaseMultiplies == ecc_mul_fixed(first) = Cofactor * (first % Order)

(* Both multiples are added, and no digit is outside its array or table:   *)
(* 65 digits in the code, one more than a word has bits (ecc_mul_double).  *)
DoubleMultiplies ==
  /\ ecc_mul_double(first, InSubgroup, second) = Cofactor * ((first + second * (point % Order)) % Order)
  /\ \A s \in {decompose(first)[j] : j \in 1..4}, w \in {WP_DOUBLEBASE, WQ_DOUBLEBASE} :
       /\ Len(wNAF_recode(s, w)) <= Bits + 1
       /\ \A i \in DOMAIN wNAF_recode(s, w) :
            wNAF_recode(s, w)[i] \in -(2^(w - 1) - 1)..2^(w - 1) - 1
=============================================================================
