------------------------------ MODULE FourQCurve ------------------------------
(***************************************************************************)
(* Field elements and points of FourQ (oZKS/fourq/amd64/fp_x64.h,          *)
(* eccp2_core.c, crypto_util.c), and the functions of utils::FourQPoint    *)
(* (oZKS/ecpoint.cpp) that call them, over a small prime of the same form. *)
(*                                                                         *)
(* A number has Q bits and is not always reduced: all bits set is the      *)
(* prime, a second zero.  Elements of the quadratic extension are pairs,   *)
(* the real part first.  The curve is -x^2 + y^2 = 1 + d * x^2 * y^2.      *)
(***************************************************************************)
EXTENDS Integers

CONSTANTS
  Q,            \* 127 in the code; 2^Q - 1 is a prime, and 3 modulo 4
  PARAMETER_d   \* not a square

VARIABLES
  encoding,     \* bytes to load
  left, right   \* points to add

prime1271 == 2^Q - 1
Numbers == 0..prime1271
Elements == Numbers \X Numbers
Reduced == 0..prime1271 - 1

ConstantsAreGiven ==
  /\ Q \in Nat /\ Q > 2 /\ prime1271 % 4 = 3
  /\ PARAMETER_d \in Reduced \X Reduced
  /\ \A a, b \in Reduced :
       <<(a * a - b * b) % prime1271, (2 * a * b) % prime1271>> # PARAMETER_d

-----------------------------------------------------------------------------
(* Numbers; registers have one bit to spare. *)

Borrowed(t) == (t - t \div 2^Q) % 2^Q
Folded(n) == (n \div 2^Q) + (n % 2^Q)

mod1271(a) == IF a >= prime1271 THEN a - prime1271 ELSE a
fpadd1271(a, b) == Folded(a + b) % 2^Q
fpsub1271(a, b) == Borrowed((a - b) % 2^(Q + 1))
fpneg1271(a) == prime1271 - a
fpmul1271(a, b) == Folded(Folded(a * b))
fpsqr1271(a) == fpmul1271(a, a)
fpdiv1271(a) == (a + (a % 2) * prime1271) \div 2

SquaredTimes(n, a) ==
  LET S[i \in 0..n] == IF i = 0 THEN a ELSE fpsqr1271(S[i - 1])
  IN  S[n]

(* The power 2^(Q - 2) - 1. *)
fpexp1251(a) ==
  LET T[i \in 1..Q - 2] == IF i = 1 THEN a ELSE fpmul1271(fpsqr1271(T[i - 1]), a)
  IN  T[Q - 2]

fpinv1271(a) == fpmul1271(a, SquaredTimes(2, fpexp1251(a)))

-----------------------------------------------------------------------------
(* The extension *)

One == <<1, 0>>

fp2neg1271(a) == <<fpneg1271(a[1]), fpneg1271(a[2])>>
fp2add1271(a, b) == <<fpadd1271(a[1], b[1]), fpadd1271(a[2], b[2])>>
fp2sub1271(a, b) == <<fpsub1271(a[1], b[1]), fpsub1271(a[2], b[2])>>
fp2addsub1271(a, b) == fp2sub1271(fp2add1271(a, a), b)
fp2div1271(a) == <<fpdiv1271(a[1]), fpdiv1271(a[2])>>

fp2sqr1271(a) ==
  <<fpmul1271(fpadd1271(a[1], a[2]), fpsub1271(a[1], a[2])),
    fpadd1271(fpmul1271(a[1], a[2]), fpmul1271(a[1], a[2]))>>

FromProducts(t1, t2, t3) == <<fpsub1271(t1, t2), fpsub1271(fpsub1271(t3, t1), t2)>>

fp2mul1271(a, b) ==
  FromProducts(fpmul1271(a[1], b[1]), fpmul1271(a[2], b[2]),
               fpmul1271(fpadd1271(a[1], a[2]), fpadd1271(b[1], b[2])))

Norm(a) == fpadd1271(fpsqr1271(a[1]), fpsqr1271(a[2]))

TimesConjugate(a, t) == <<fpmul1271(a[1], t), fpmul1271(fpneg1271(a[2]), t)>>
fp2inv1271(a) == TimesConjugate(a, fpinv1271(Norm(a)))

fp2mod1271(a) == <<mod1271(a[1]), mod1271(a[2])>>

-----------------------------------------------------------------------------
(* Points.  R1 is (X, Y, Z, Ta, Tb), R2 is (X+Y, Y-X, 2Z, 2dT), R3 is      *)
(* (X+Y, Y-X, Z, T), R4 is (2X, 2Y, 2Z), R5 is (x+y, y-x, 2dt).            *)

point_setup(P) == [x |-> P.x, y |-> P.y, z |-> One, ta |-> P.x, tb |-> P.y]

R1_to_R2(P) ==
  [xy |-> fp2add1271(P.x, P.y), yx |-> fp2sub1271(P.y, P.x), z2 |-> fp2add1271(P.z, P.z),
   t2 |-> fp2mul1271(fp2mul1271(fp2add1271(P.ta, P.ta), P.tb), PARAMETER_d)]

R1_to_R3(P) ==
  [xy |-> fp2add1271(P.x, P.y), yx |-> fp2sub1271(P.y, P.x), z2 |-> P.z,
   t2 |-> fp2mul1271(P.ta, P.tb)]

(* Ta and Tb are not set; eccdouble, which is next, does not read them.    *)
R2_to_R4(P) ==
  [x |-> fp2sub1271(P.xy, P.yx), y |-> fp2add1271(P.xy, P.yx), z |-> P.z2]

FromTwice(x2, y2) == point_setup([x |-> fp2div1271(x2), y |-> fp2div1271(y2)])
R5_to_R1(P) == FromTwice(fp2sub1271(P.xy, P.yx), fp2add1271(P.xy, P.yx))

eccneg_extproj_precomp(P) ==
  [P EXCEPT !.xy = P.yx, !.yx = P.xy, !.t2 = fp2neg1271(P.t2)]

(* From sums and differences: of a doubling, with t2 = 2Z^2 - t1.          *)
DoubleOf(ta, tb, t1, t2) ==
  [x |-> fp2mul1271(t2, ta), y |-> fp2mul1271(t1, tb), z |-> fp2mul1271(t1, t2),
   ta |-> ta, tb |-> tb]

DoubleFrom(xx, yy, both, zz) ==
  DoubleOf(fp2sub1271(both, fp2add1271(xx, yy)), fp2add1271(xx, yy), fp2sub1271(yy, xx),
           fp2addsub1271(zz, fp2sub1271(yy, xx)))

eccdouble(P) ==
  DoubleFrom(fp2sqr1271(P.x), fp2sqr1271(P.y), fp2sqr1271(fp2add1271(P.x, P.y)), fp2sqr1271(P.z))

(* Of an addition: omega, beta, alpha and theta. *)
SumOf(ta, tb, t1, t2) ==
  [x |-> fp2mul1271(tb, t2), y |-> fp2mul1271(ta, t1), z |-> fp2mul1271(t1, t2),
   ta |-> ta, tb |-> tb]

SumFrom(z, t1, x, y) ==
  SumOf(fp2add1271(x, y), fp2sub1271(x, y), fp2add1271(t1, z), fp2sub1271(t1, z))

eccadd_core(P, R) ==
  SumFrom(fp2mul1271(P.t2, R.t2), fp2mul1271(P.z2, R.z2),
          fp2mul1271(P.xy, R.xy), fp2mul1271(P.yx, R.yx))

eccadd(R, P) == eccadd_core(R, R1_to_R3(P))

eccmadd(R, P) ==
  SumFrom(fp2mul1271(fp2mul1271(P.ta, P.tb), R.t2), fp2add1271(P.z, P.z),
          fp2mul1271(R.xy, fp2add1271(P.x, P.y)), fp2mul1271(R.yx, fp2sub1271(P.y, P.x)))

Divided(P, inverse) ==
  [x |-> fp2mod1271(fp2mul1271(P.x, inverse)), y |-> fp2mod1271(fp2mul1271(P.y, inverse))]
eccnorm(P) == Divided(P, fp2inv1271(P.z))

(* The entries of the tables for multiples of the generator. *)
TableEntry(P) ==
  [xy |-> fp2add1271(P.x, P.y), yx |-> fp2sub1271(P.y, P.x),
   t2 |-> fp2mul1271(fp2mul1271(fp2add1271(P.x, P.x), P.y), PARAMETER_d)]

(* FourQPoint::add *)
AddPoint(P, other) ==
  eccnorm(eccadd_core(R1_to_R2(point_setup(P)), R1_to_R3(point_setup(other))))

-----------------------------------------------------------------------------
(* Validation and encoding *)

(* 0 or all bits of the registers, never the prime. *)
is_zero(a) == {a[1], a[2]} \subseteq {0, 2^(Q + 1) - 1}

OnCurve(xx, yy) ==
  is_zero(fp2sub1271(fp2sub1271(yy, xx),
                     fp2add1271(fp2mul1271(PARAMETER_d, fp2mul1271(yy, xx)), One)))

ecc_point_validate(P) == OnCurve(fp2sqr1271(P.x), fp2sqr1271(P.y))

Sign(x) == (IF x[1] = 0 THEN x[2] ELSE x[1]) \div 2^(Q - 1)

encode(P) == [y |-> P.y, sign |-> Sign(P.x)]

(* Of the two that decode tries, the first on the curve. *)
FirstOnCurve(x, other, y) ==
  IF ecc_point_validate([x |-> x, y |-> y]) THEN [valid |-> TRUE, point |-> [x |-> x, y |-> y]]
  ELSE [valid |-> ecc_point_validate([x |-> other, y |-> y]),
        point |-> [x |-> other, y |-> y]]

Conjugate(x) == <<x[1], fpneg1271(x[2])>>

WithSign(x, e) ==
  IF Sign(x) = e.sign THEN FirstOnCurve(x, Conjugate(x), e.y)
  ELSE FirstOnCurve(fp2neg1271(x), Conjugate(fp2neg1271(x)), e.y)

(* The parts change places unless t = t0 * x0^2. *)
Placed(x0, x1, t, t1) ==
  IF mod1271(fpsub1271(t, t1)) = 0 THEN <<mod1271(fpdiv1271(x0)), x1>>
  ELSE <<mod1271(x1), fpdiv1271(x0)>>

RootFrom(t0, t2, t, t3) ==
  Placed(fpmul1271(t, t3), fpmul1271(t2, t3), t, fpmul1271(t0, fpsqr1271(fpmul1271(t, t3))))

Root(t0, t2, t) ==
  RootFrom(t0, t2, t, fpmul1271(t0, fpexp1251(fpmul1271(t, fpmul1271(t0, fpsqr1271(t0))))))

Numerator(t1, t3) ==
  IF mod1271(fpadd1271(t1, t3)) = 0 THEN fpsub1271(t1, t3) ELSE mod1271(fpadd1271(t1, t3))

Twice(t) == fpadd1271(t, t)

SquareRoot(t0, t1, t2) ==
  Root(t0, t2,
       Twice(Numerator(t1, SquaredTimes(Q - 2, fpadd1271(fpsqr1271(t1), fpsqr1271(t2))))))

(* x is the root of u / v. *)
RootOfRatio(u, v) ==
  SquareRoot(Norm(v),
             fpadd1271(fpmul1271(u[1], v[1]), fpmul1271(u[2], v[2])),
             fpsub1271(fpmul1271(u[2], v[1]), fpmul1271(u[1], v[2])))

decode(e) ==
  WithSign(RootOfRatio(fp2sub1271(fp2sqr1271(e.y), One),
                       fp2add1271(fp2mul1271(fp2sqr1271(e.y), PARAMETER_d), One)), e)

-----------------------------------------------------------------------------
(* What the numbers stand for, modulo the prime *)

Times(a, b) == <<(a[1] * b[1] - a[2] * b[2]) % prime1271, (a[1] * b[2] + a[2] * b[1]) % prime1271>>
Plus(a, b) == <<(a[1] + b[1]) % prime1271, (a[2] + b[2]) % prime1271>>
Minus(a, b) == <<(a[1] - b[1]) % prime1271, (a[2] - b[2]) % prime1271>>

Same(a, b) == Minus(a, b) = <<0, 0>>

IsOnCurve(P) ==
  Same(Minus(Times(P.y, P.y), Times(P.x, P.x)),
       Plus(One, Times(PARAMETER_d, Times(Times(P.x, P.x), Times(P.y, P.y)))))

Curve == {P \in [x : Elements, y : Elements] : IsOnCurve(P)}
Neutral == [x |-> <<0, 0>>, y |-> One]

(* R is the sum: the denominators are never zero, as d is not a square.    *)
SumIs(P, other, R) ==
  LET t == Times(PARAMETER_d, Times(Times(P.x, P.y), Times(other.x, other.y))) IN
  /\ Same(Times(R.x, Plus(One, t)), Plus(Times(P.x, other.y), Times(P.y, other.x)))
  /\ Same(Times(R.y, Minus(One, t)), Plus(Times(P.y, other.y), Times(P.x, other.x)))

IsReduced(P) == {P.x, P.y} \subseteq Reduced \X Reduced
IsSum(R, P, other) == IsReduced(R) /\ SumIs(P, other, R)

(* Bytes to load, or any two points to add.  The half of y that has no     *)
(* sign in its highest bit has that bit clear: what the field makes of a   *)
(* number of Q + 1 bits depends on the variant of its arithmetic.          *)
Init ==
  \/ encoding \in [y : Elements, sign : 0..1] /\ left = Neutral /\ right = Neutral
  \/ encoding = encode(Neutral) /\ left \in Curve /\ right \in Curve

-----------------------------------------------------------------------------
(* Properties *)

(* The formulas for sums, mixed sums and doubles, with any of the          *)
(* representations and with zeros of either kind, give the sum of the      *)
(* curve without exceptions, and what is normalized is reduced: of points, *)
(* of a double that was not normalized, and of what is loaded from tables  *)
(* (eccp2_core.c, FourQPoint::add).                                        *)
SumsAreOfCurve ==
  /\ IsSum(AddPoint(left, right), left, right)
  /\ IsSum(eccnorm(eccdouble(point_setup(left))), left, left)
  /\ \A P \in {eccnorm(eccdouble(point_setup(right)))} :
       /\ IsSum(eccnorm(eccadd(R1_to_R2(point_setup(left)), eccdouble(point_setup(right)))), left, P)
       /\ IsSum(eccnorm(eccmadd(TableEntry(left), eccdouble(point_setup(right)))), left, P)
       /\ IsSum(eccnorm(eccdouble(R2_to_R4(R1_to_R2(eccdouble(point_setup(right)))))), P, P)
  /\ \A P \in {eccnorm(eccadd(eccneg_extproj_precomp(R1_to_R2(point_setup(right))),
                             R5_to_R1(TableEntry(left))))} : SumIs(P, right, left)

(* A point that was calculated is loaded from its encoding: the square     *)
(* root and its sign are found, whichever of its parts are zero; and what  *)
(* is loaded from any numbers of Q bits is on the curve (encode, decode).  *)
EncodedIsDecoded ==
  /\ IsReduced(left) =>
       \A loaded \in {decode(encode(left))} :
         loaded.valid /\ Same(loaded.point.x, left.x) /\ loaded.point.y = left.y
  /\ decode(encoding).valid => IsOnCurve(decode(encoding).point)
=============================================================================
