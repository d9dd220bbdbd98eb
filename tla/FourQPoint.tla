------------------------------ MODULE FourQPoint ------------------------------
(***************************************************************************)
(* utils::FourQPoint (oZKS/ecpoint.*, the default): points and scalars of  *)
(* FourQ.                                                                  *)
(*                                                                         *)
(* The group has Cofactor * Order elements and is taken to be cyclic; a    *)
(* point is known by its multiple of an element that generates all of it,  *)
(* the generator of the subgroup of prime order being Cofactor times that. *)
(* A decoded point keeps the coordinate y of its encoding as it is, which  *)
(* need not be reduced modulo 2^127 - 1; then it is saved as another       *)
(* encoding than a point with the same coordinates that was calculated.    *)
(***************************************************************************)
EXTENDS Naturals

CONSTANTS
  Order,     \* order of the subgroup, a prime
  Cofactor,  \* 392 in the code
  Limit      \* number of values that order_size bytes have

-----------------------------------------------------------------------------
(* Scalars *)

(* modulo_order. *)
ReduceModOrder(value) == value % Order

IsZero(scalar) == scalar = 0
SaveScalar(scalar) == scalar
LoadScalar(bytes) == bytes

RandomNonzeroScalars == {ReduceModOrder(value) : value \in 0..Limit - 1} \ {0}

SeededScalar(hash) == ReduceModOrder(hash)

InvertScalar(scalar) == CHOOSE n \in 0..Order - 1 : (n * scalar) % Order = 1

(* By way of Montgomery's representation. *)
MultiplyScalar(a, b) == (a * b) % Order

(* subtract_mod_order takes arguments that are reduced. *)
SubtractScalar(a, b) == IF a >= b THEN a - b ELSE a + Order - b

-----------------------------------------------------------------------------
(* Points *)

Point(multiple) == [at |-> multiple % (Cofactor * Order), reduced |-> TRUE]

Neutral == Point(0)
MakeGenerator == Point(Cofactor)
MakeGeneratorMultiple(scalar) == Point(Cofactor * scalar)

(* HashToCurve ends with the clearing of the cofactor. *)
HashedPoints == {Point(Cofactor * multiple) : multiple \in 0..Order - 1}

(* Every point that is made, loaded or calculated is on the curve.         *)
ScalarMultiply(point, scalar) == Point(point.at * scalar)

DoubleScalarMultiply(point, scalar1, scalar2) ==
  Point(point.at * scalar1 + MakeGenerator.at * scalar2)

AddPoint(point, other) == Point(point.at + other.at)

SavePoint(point) == [valid |-> TRUE, at |-> point.at, canonical |-> point.reduced]

LoadPoint(encoding) ==
  IF encoding.valid
  THEN [threw |-> "nothing", point |-> [at |-> encoding.at, reduced |-> encoding.canonical]]
  ELSE [threw |-> "logic_error", point |-> Neutral]

(* Mutant: points are compared, not their encodings. *)
InSubgroupByValue(point) ==
  point.at = ScalarMultiply(Point(point.at * Cofactor), InvertScalar(Cofactor)).at

(* The cofactor is cleared and divided out again; the encodings must match.*)
InPrimeOrderSubgroup(point) ==
  SavePoint(point) =
    SavePoint(ScalarMultiply(Point(point.at * Cofactor), InvertScalar(Cofactor)))
=============================================================================
