------------------------------ MODULE P256Point ------------------------------
(***************************************************************************)
(* utils::P256Point (oZKS/ecpoint.*, with OZKS_USE_OPENSSL_P256): points   *)
(* and scalars of NIST P-256 by way of OpenSSL.                            *)
(*                                                                         *)
(* The group has prime order Order; a point is known by its multiple of    *)
(* the generator.  A scalar is the number that its bytes say, which may be *)
(* as large as Limit - 1.  The calls of OpenSSL are modelled by what they  *)
(* are documented to do, and are assumed not to fail.                      *)
(***************************************************************************)
EXTENDS Naturals

CONSTANTS
  Order,  \* order of the group
  Limit   \* number of values that order_size bytes have

-----------------------------------------------------------------------------
(* Scalars *)

ReduceModOrder(value) == value % Order

IsZero(scalar) == scalar = 0
SaveScalar(scalar) == scalar
LoadScalar(bytes) == bytes

(* Twice as many bits as a scalar has, less one, then reduced; until the   *)
(* result is not zero.                                                     *)
RandomNonzeroScalars == {ReduceModOrder(value) : value \in 0..((Limit * Limit) \div 2) - 1} \ {0}

(* What is made of a seed may be zero. *)
SeededScalar(hash) == ReduceModOrder(hash)

MultiplyScalar(a, b) == (a * b) % Order

(* BN_mod_sub_quick takes arguments that are reduced. *)
SubtractScalar(a, b) == IF a >= b THEN a - b ELSE a + Order - b

-----------------------------------------------------------------------------
(* Points *)

Point(multiple) == [at |-> multiple % Order, reduced |-> TRUE]

Neutral == Point(0)
MakeGenerator == Point(1)
MakeGeneratorMultiple(scalar) == Point(scalar)

(* The first counter whose hash is the encoding of a point decides, which  *)
(* makes it any point but the one at infinity.                             *)
HashedPoints == {Point(multiple) : multiple \in 1..Order - 1}

(* A point is on the curve whenever it is made, loaded or calculated, so   *)
(* the multiplications do not return false.                                *)
ScalarMultiply(point, scalar) == Point(point.at * scalar)

DoubleScalarMultiply(point, scalar1, scalar2) ==
  Point(point.at * scalar1 + MakeGenerator.at * scalar2)

AddPoint(point, other) == Point(point.at + other.at)

(* The order of the curve is prime: on the curve is in the subgroup. *)
InPrimeOrderSubgroup(point) == TRUE

(* The point at infinity is written as one byte of zero, and the others    *)
(* stay zero; 33 bytes that begin with a zero are no encoding.             *)
SavePoint(point) == [valid |-> point # Neutral, at |-> point.at, canonical |-> TRUE]

(* EC_POINT_oct2point takes canonical encodings only.  The load from a     *)
(* span throws another exception than the one from a stream.               *)
LoadPoint(encoding) ==
  IF encoding.valid /\ encoding.canonical
  THEN [threw |-> "nothing", point |-> Point(encoding.at)]
  ELSE [threw |-> "runtime_error", point |-> Neutral]
=============================================================================
