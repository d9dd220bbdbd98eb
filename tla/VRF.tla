--------------------------------- MODULE VRF ---------------------------------
(***************************************************************************)
(* Verifiable random functions (oZKS/vrf.h, vrf.cpp): the secret key, the  *)
(* proofs made with it, and the verifier who has loaded the public key.    *)
(*                                                                         *)
(* Hash functions are random oracles: a value is chosen when an argument   *)
(* is hashed first, and remembered.  Points and scalars are those of the   *)
(* curve that the library was built with.                                  *)
(***************************************************************************)
EXTENDS Integers, FiniteSets, TLC

CONSTANTS
  Curve,      \* "P256" or "FourQ", by OZKS_USE_OPENSSL_P256
  Order, Cofactor, Limit,
  Data,       \* inputs
  Seeds,      \* seeds of secret keys
  MaxHashed,  \* bound: arguments of the challenge; one of each other function
  MaxProofs,  \* bound: proofs that are made
  Prover      \* whether there is an owner of the secret key; if not, the
              \* verifier is offered every proof that there could be

(* What is assumed of the constants. *)
ConstantsAreGiven ==
  /\ Curve \in {"P256", "FourQ"} /\ (Curve = "P256" => Cofactor = 1)
  /\ Order \in Nat \ {0, 1} /\ Limit \in Nat /\ Order < Limit
  /\ Cofactor \in Nat \ {0} /\ \E n \in 1..Order : (n * Cofactor) % Order = 1
  /\ MaxHashed \in Nat /\ MaxProofs \in Nat /\ Prover \in BOOLEAN

P == INSTANCE P256Point
F == INSTANCE FourQPoint

VARIABLES
  secret,     \* VRFSecretKey
  saved,      \* what VRFSecretKey::save wrote last
  published,  \* what VRFPublicKey::save wrote
  verifier,   \* VRFPublicKey of the verifier
  tables,     \* what the hash functions have returned
  proofs,     \* the proofs made
  answer,     \* the last answer of the verifier
  terminated  \* an exception has left a function that is noexcept

vars == <<secret, saved, published, verifier, tables, proofs, answer, terminated>>

-----------------------------------------------------------------------------
(* ECPoint is one of the two. *)

Neutral == IF Curve = "P256" THEN P!Neutral ELSE F!Neutral
MakeGeneratorMultiple(s) ==
  IF Curve = "P256" THEN P!MakeGeneratorMultiple(s) ELSE F!MakeGeneratorMultiple(s)
RandomNonzeroScalars ==
  IF Curve = "P256" THEN P!RandomNonzeroScalars ELSE F!RandomNonzeroScalars
SeededScalar(h) == IF Curve = "P256" THEN P!SeededScalar(h) ELSE F!SeededScalar(h)
MultiplyScalar(a, b) ==
  IF Curve = "P256" THEN P!MultiplyScalar(a, b) ELSE F!MultiplyScalar(a, b)
SubtractScalar(a, b) ==
  IF Curve = "P256" THEN P!SubtractScalar(a, b) ELSE F!SubtractScalar(a, b)
ReduceModOrder(v) == IF Curve = "P256" THEN P!ReduceModOrder(v) ELSE F!ReduceModOrder(v)
IsZero(s) == IF Curve = "P256" THEN P!IsZero(s) ELSE F!IsZero(s)
SaveScalar(s) == IF Curve = "P256" THEN P!SaveScalar(s) ELSE F!SaveScalar(s)
LoadScalar(b) == IF Curve = "P256" THEN P!LoadScalar(b) ELSE F!LoadScalar(b)
HashedPoints == IF Curve = "P256" THEN P!HashedPoints ELSE F!HashedPoints
ScalarMultiply(p, s) ==
  IF Curve = "P256" THEN P!ScalarMultiply(p, s) ELSE F!ScalarMultiply(p, s)
DoubleScalarMultiply(p, s, t) ==
  IF Curve = "P256" THEN P!DoubleScalarMultiply(p, s, t) ELSE F!DoubleScalarMultiply(p, s, t)
AddPoint(p, r) == IF Curve = "P256" THEN P!AddPoint(p, r) ELSE F!AddPoint(p, r)
InPrimeOrderSubgroup(p) ==
  IF Curve = "P256" THEN P!InPrimeOrderSubgroup(p) ELSE F!InPrimeOrderSubgroup(p)
SavePoint(p) == IF Curve = "P256" THEN P!SavePoint(p) ELSE F!SavePoint(p)
LoadPoint(e) == IF Curve = "P256" THEN P!LoadPoint(e) ELSE F!LoadPoint(e)

(* What the bytes of a point may be. *)
Encodings ==
  [valid : {TRUE}, at : 0..Cofactor * Order - 1, canonical : BOOLEAN]
  \cup {[valid |-> FALSE, at |-> 0, canonical |-> TRUE]}

-----------------------------------------------------------------------------
(* Hash functions *)

(* The tables after argument has been hashed by function. *)
Hashed(t, function, argument, values) ==
  IF argument \in DOMAIN t[function] THEN {t}
  ELSE {[t EXCEPT ![function] = @ @@ (argument :> value)] : value \in values}

HashToCurve(t, data, salt) == Hashed(t, "curve", <<data, salt>>, HashedPoints)
Nonce(t, point, scalar) == Hashed(t, "nonce", <<point, scalar>>, 0..Limit - 1)

(* A challenge hashes the encodings of five points, one after the other. *)
Challenged(public, h, gamma, u, v) ==
  <<SavePoint(public), SavePoint(h), SavePoint(gamma), SavePoint(u), SavePoint(v)>>
Challenge(t, points) == Hashed(t, "challenge", points, 0..Limit - 1)
Seeded(t, seed) == Hashed(t, "seed", seed, 0..Limit - 1)

(* The value of a proof is the hash of the bytes of gamma, and has no      *)
(* collisions.                                                             *)
ComputeVRFValue(gamma) == gamma

-----------------------------------------------------------------------------
(* The secret key *)

IsInitialized(key) == ~IsZero(key.scalar)

(* Bytes that are no encoding of a point. *)
NoEncoding == [valid |-> FALSE, at |-> 0, canonical |-> FALSE]
NoScalar == -1

Uninitialized == [scalar |-> 0, public |-> Neutral, salt |-> NoEncoding]

KeyOf(scalar) ==
  LET public == MakeGeneratorMultiple(scalar)
  IN  [scalar |-> scalar, public |-> public, salt |-> SavePoint(public)]

Nothing == [call |-> "none"]

Init ==
  /\ secret = Uninitialized /\ saved = NoScalar /\ published = NoEncoding
  /\ verifier = Neutral
  /\ tables = [function \in {"curve", "nonce", "challenge", "seed"} |-> <<>>]
  /\ proofs = {} /\ answer = Nothing /\ terminated = FALSE

Others == answer' = Nothing /\ UNCHANGED <<verifier, proofs, terminated>>

Initialize ==
  /\ \E scalar \in RandomNonzeroScalars : secret' = KeyOf(scalar)
  /\ UNCHANGED <<saved, published, tables>> /\ Others

InitializeSeeded(seed) ==
  /\ tables' \in Seeded(tables, seed)
  /\ secret' = KeyOf(SeededScalar(tables'["seed"][seed]))
  /\ UNCHANGED <<saved, published>> /\ Others

SaveKey ==
  /\ saved' = SaveScalar(secret.scalar)
  /\ UNCHANGED <<secret, published, tables>> /\ Others

(* Mutant: the salt is that of the key before. *)
LoadKeyWithoutSalt ==
  /\ saved # NoScalar
  /\ secret' = [KeyOf(LoadScalar(saved)) EXCEPT !.salt = secret.salt]
  /\ UNCHANGED <<saved, published, tables>> /\ Others

(* The public key is calculated unless the scalar is zero. *)
LoadKey ==
  /\ saved # NoScalar
  /\ LET scalar == LoadScalar(saved)
     IN  secret' = IF IsZero(scalar) THEN Uninitialized ELSE KeyOf(scalar)
  /\ UNCHANGED <<saved, published, tables>> /\ Others

(* get_vrf_public_key throws for a key that is not initialized; a          *)
(* Commitment without VRF labels has a public key that was never set.      *)
SavePublicKey ==
  /\ IF IsInitialized(secret) THEN published' = SavePoint(secret.public)
     ELSE published' = SavePoint(Neutral)
  /\ UNCHANGED <<secret, saved, tables>> /\ Others

Nonces(t, h, key) == ReduceModOrder(t["nonce"][<<h, key.scalar>>])

(* What get_vrf_proof(data) returns when the hash functions have returned  *)
(* what t says.                                                            *)
ProofOf(t, key, data) ==
  LET h     == t["curve"][<<data, key.salt>>]
      gamma == ScalarMultiply(h, key.scalar)
      nonce == Nonces(t, h, key)
      c     == ReduceModOrder(t["challenge"][Challenged(key.public, h, gamma,
                 MakeGeneratorMultiple(nonce), ScalarMultiply(h, nonce))])
  IN  [gamma |-> SavePoint(gamma), c |-> c,
       s |-> SaveScalar(SubtractScalar(nonce, MultiplyScalar(LoadScalar(c), key.scalar)))]

GetVRFProof(data) ==
  /\ IsInitialized(secret) /\ Cardinality(proofs) < MaxProofs
  /\ \E t1 \in HashToCurve(tables, data, secret.salt) :
       LET h == t1["curve"][<<data, secret.salt>>] IN
       \E t2 \in Nonce(t1, h, secret.scalar) :
         LET nonce == Nonces(t2, h, secret) IN
         tables' \in Challenge(t2, Challenged(secret.public, h,
           ScalarMultiply(h, secret.scalar), MakeGeneratorMultiple(nonce), ScalarMultiply(h, nonce)))
  /\ proofs' = proofs \cup {[public |-> SavePoint(secret.public), data |-> data,
                             proof |-> ProofOf(tables', secret, data)]}
  /\ answer' = Nothing
  /\ UNCHANGED <<secret, saved, published, verifier, terminated>>

(* get_vrf_value(data), when the data have been hashed to a point.         *)
ValueOf(t, key, data) ==
  ComputeVRFValue(SavePoint(ScalarMultiply(t["curve"][<<data, key.salt>>], key.scalar)))

-----------------------------------------------------------------------------
(* The verifier *)

(* VRFPublicKey::load: the key stays as it is when an exception is thrown. *)
LoadPublicKey(encoding) ==
  /\ LET loaded == LoadPoint(encoding)
         good   == loaded.threw = "nothing" /\ InPrimeOrderSubgroup(loaded.point)
     IN  /\ verifier' = IF good THEN loaded.point ELSE verifier
         /\ answer' = [call |-> "load", encoding |-> encoding, good |-> good]
  /\ UNCHANGED <<secret, saved, published, tables, proofs, terminated>>

(* VRFProof::is_valid catches logic_error; any other exception ends the    *)
(* program.                                                                *)
Terminates(proof) == LoadPoint(proof.gamma).threw \notin {"nothing", "logic_error"}

IsValid(proof) ==
  LoadPoint(proof.gamma).threw = "nothing" /\ InPrimeOrderSubgroup(LoadPoint(proof.gamma).point)

U(public, c, s) == DoubleScalarMultiply(public, c, s)
V(gamma, h, c, s) == AddPoint(ScalarMultiply(gamma, c), ScalarMultiply(h, s))

Answer(data, proof, accepted) ==
  answer' = [call |-> "verify", data |-> data, proof |-> proof, accepted |-> accepted]

VerifyVRFProof(data, proof) ==
  /\ IF Terminates(proof) \/ ~IsValid(proof)
     THEN /\ terminated' = Terminates(proof)
          /\ tables' = tables
          /\ Answer(data, proof, FALSE)
     ELSE LET gamma == LoadPoint(proof.gamma).point
              u     == U(verifier, LoadScalar(proof.c), LoadScalar(proof.s))
          IN  /\ \E t1 \in HashToCurve(tables, data, SavePoint(verifier)) :
                   LET h == t1["curve"][<<data, SavePoint(verifier)>>]
                       points == Challenged(verifier, h, gamma, u,
                                 V(gamma, h, LoadScalar(proof.c), LoadScalar(proof.s)))
                   IN  \E t2 \in Challenge(t1, points) :
                         /\ tables' = t2
                         /\ Answer(data, proof, ReduceModOrder(t2["challenge"][points]) = proof.c)
              /\ UNCHANGED terminated
  /\ UNCHANGED <<secret, saved, published, verifier, proofs>>

Proofs ==
  IF Prover THEN {made.proof : made \in proofs}
  ELSE [gamma : Encodings, c : 0..Limit - 1, s : 0..Limit - 1]

(* The public key is what was published, or without a prover any bytes.    *)
PublicKeys == IF Prover THEN {published} \ {NoEncoding} ELSE Encodings

(* Bound: without a prover one proof is verified.                          *)
Next ==
  /\ ~terminated /\ (Prover \/ answer.call # "verify")
  /\ \/ /\ Prover
        /\ \/ Initialize
           \/ \E seed \in Seeds : InitializeSeeded(seed)
           \/ SaveKey \/ LoadKey \/ SavePublicKey
           \/ \E data \in Data : GetVRFProof(data)
     \/ \E encoding \in PublicKeys : LoadPublicKey(encoding)
     \/ \E data \in Data, proof \in Proofs : VerifyVRFProof(data, proof)
  /\ \A function \in DOMAIN tables' :
       Cardinality(DOMAIN tables'[function]) <= IF function = "challenge" THEN MaxHashed ELSE 1

Spec == Init /\ [][Next]_vars

-----------------------------------------------------------------------------
(* Properties *)

Verified == answer.call = "verify"

(* A proof that was made for the data with the key of the verifier is      *)
(* accepted, whatever was saved and loaded in between (vrf.cpp: s = nonce  *)
(* - c * key, u = c * pk + s * G).                                         *)
HonestProofsVerify ==
  Verified /\ [public |-> SavePoint(verifier), data |-> answer.data, proof |-> answer.proof] \in proofs
    => answer.accepted

(* The value that a proof shows is the one that get_vrf_value returns, for *)
(* which the same data and salt are hashed to the curve.                   *)
ProofsHaveTheValue ==
  \A made \in proofs :
    IsInitialized(secret) /\ made.public = SavePoint(secret.public)
      => /\ <<made.data, secret.salt>> \in DOMAIN tables["curve"]
         /\ ComputeVRFValue(made.proof.gamma) = ValueOf(tables, secret, made.data)

KeyScalar(public) == CHOOSE scalar \in 0..Order - 1 : MakeGeneratorMultiple(scalar) = public

(* A proof that is accepted, and whose point gamma is the key times the    *)
(* hashed data, shows the value of the data: the same point has no second  *)
(* encoding that the verifier would take.                                  *)
AcceptedValueIsUnique ==
  Verified /\ answer.accepted =>
    LET salt  == SavePoint(verifier)
        value == SavePoint(ScalarMultiply(tables["curve"][<<answer.data, salt>>],
                                          KeyScalar(verifier)))
    IN  answer.proof.gamma.at = value.at => answer.proof.gamma = value

(* A gamma that is not the key times the hashed data fits one challenge    *)
(* only for each u and v, so that it is accepted by chance at most.  It is *)
(* why gamma must be in the subgroup of prime order.                       *)
WrongGammaIsGuessed ==
  \A made \in DOMAIN tables["curve"] : made[2] = SavePoint(verifier) =>
    LET h == tables["curve"][made] IN
    \A encoding \in Encodings :
      LET gamma == LoadPoint(encoding).point IN
      IsValid([gamma |-> encoding]) /\ gamma.at # ScalarMultiply(h, KeyScalar(verifier)).at
        => \A c1, c2, s1, s2 \in 0..Order - 1 :
             U(verifier, c1, s1) = U(verifier, c2, s2)
               /\ V(gamma, h, c1, s1) = V(gamma, h, c2, s2)
             => c1 = c2

(* vrf.h says of is_valid: "Return whether the proof is valid."            *)
ValidityIsReturned == ~terminated

(* What was saved as a public key can be loaded, also one that was never   *)
(* set, as in a commitment without VRF labels.                             *)
SavedPublicKeysLoad ==
  answer.call = "load" /\ answer.encoding = published => answer.good
=============================================================================
