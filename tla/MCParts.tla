------------------------------- MODULE MCParts -------------------------------
(***************************************************************************)
(* The parts of oZKS that keep to themselves, in one instance for TLC: the *)
(* words of a label, what objects write and read, the cache of VRF proofs, *)
(* VRF proofs on either curve, and the arithmetic of FourQ.  The part is   *)
(* chosen at the start, and the variables of the others stay as they are.  *)
(***************************************************************************)
EXTENDS PartialLabelWords, TLC

CONSTANT
  Parts  \* the parts to check

VARIABLES
  part,                                                    \* the part that runs;
                                                           \* a, b: its labels
  source, units, written, loaded, position, cut,           \* its input and output
  sk, cache, call, uses,                                   \* its instances and queries
  secret, saved, published, verifier, tables, proofs, answer, terminated, \* its keys
  first, second, point,                                    \* its scalars
  encoding, left, right                                    \* its points

serialVars == <<source, units, written, loaded, position, cut>>
cacheVars == <<sk, cache, call, uses>>
vrfVars == <<secret, saved, published, verifier, tables, proofs, answer, terminated>>
fourqVars == <<first, second, point, encoding, left, right>>

-----------------------------------------------------------------------------
(* Serialization: at most two objects in one output. *)

Element(l) == [label |-> l, hash |-> "h"]

Config(label_type, seed, size) ==
  [class |-> "OZKSConfig", commitment_type |-> "CommitedPayload", label_type |-> label_type,
   trie_type |-> "Linked", vrf_seed |-> seed, vrf_cache_size |-> size, thread_count |-> 3]

Results ==
  {[class |-> "Commitment", public_key |-> "pk", root_commitment |-> "r"]}
  \cup {[class |-> "InsertResult", commitment |-> "r", append_proof |-> p] :
          p \in {<<>>, <<Element("a"), Element("b")>>}}
  \cup {[class |-> "QueryResult", is_member |-> m, key |-> <<"k">>,
         payload |-> IF m THEN <<"p", "q">> ELSE <<>>,
         lookup_proof |-> <<Element("a")>>, randomness |-> "r",
         vrf_proof |-> IF v THEN <<"gamma", "c", "s">> ELSE <<>>, use_vrf |-> v] :
          m, v \in BOOLEAN}

Stored ==
  {[class |-> "CTNode", label |-> <<0>>, left |-> l, right |-> r, hash |-> "h", dirty |-> d] :
     l \in {<<>>, <<0, 0>>}, r \in {<<>>, <<0, 1>>}, d \in BOOLEAN}
  \cup {[class |-> "CompressedTrie", epoch |-> 7, id |-> "id", thread_count |-> 2,
         trie_type |-> "Stored"]}

Instances ==
  {[class |-> "OZKS", config |-> Config("VRFLabels", s, 5), vrf_sk |-> "sk", id |-> "id"] :
     s \in {<<>>, <<"s", "e">>}}
  \cup {[class |-> "OZKS", config |-> Config("HashedLabels", <<>>, 0),
         vrf_sk |-> "uninitialized", id |-> "id"]}
  \cup {[class |-> "OZKSDistributed", config |-> Config("VRFLabels", <<"s">>, 5),
         vrf_sk |-> "sk", id |-> "id", storage_querier |-> q] : q \in {"own", "of the trie"}}

Configs == {Config("VRFLabels", s, 5) : s \in {<<>>, <<"s", "e">>}}
           \cup {Config("HashedLabels", <<>>, 0)}

InVectors == Results \cup Stored \cup Instances
InStreams == InVectors \cup Configs

Stream == INSTANCE Serialization
            WITH saved <- written, Objects <- InStreams, Sources <- {"stream"},
                 Version <- 1, OwnVersion <- 1, FirstToRead <- 2, MaxObjects <- 2
Vector == INSTANCE Serialization
            WITH saved <- written, Objects <- InVectors, Sources <- {"vector"},
                 Version <- 1, OwnVersion <- 1, FirstToRead <- 2, MaxObjects <- 2

-----------------------------------------------------------------------------
(* The cache: two threads and instances that are copied; or one thread and *)
(* more lookups.                                                           *)

Copies == INSTANCE VRFCache
            WITH Instances <- {1, 2}, Threads <- {1, 2}, Keys <- {"x", "y"},
                 SecretKeys <- {"s", "t"}, CacheSize <- 1, Copied <- TRUE, MaxGets <- 3
Recent == INSTANCE VRFCache
            WITH Instances <- {1, 2}, Threads <- {1}, Keys <- {"x", "y", "z"},
                 SecretKeys <- {"s"}, CacheSize <- 2, Copied <- FALSE, MaxGets <- 4

-----------------------------------------------------------------------------
(* VRF: the smallest group of odd prime order, with the cofactor 2 on      *)
(* FourQ, and bytes that say more than a reduced scalar.                   *)

P256 == INSTANCE VRF
          WITH Curve <- "P256", Order <- 3, Cofactor <- 1, Limit <- 4, Data <- {"d"},
               Seeds <- {"s"}, MaxHashed <- 2, MaxProofs <- 1, Prover <- TRUE
FourQ == INSTANCE VRF
          WITH Curve <- "FourQ", Order <- 3, Cofactor <- 2, Limit <- 4, Data <- {"d"},
               Seeds <- {}, MaxHashed <- 2, MaxProofs <- 1, Prover <- TRUE
Offered == INSTANCE VRF
          WITH Curve <- "FourQ", Order <- 3, Cofactor <- 2, Limit <- 5, Data <- {"d"},
               Seeds <- {}, MaxHashed <- 2, MaxProofs <- 0, Prover <- FALSE

-----------------------------------------------------------------------------
(* FourQ: words of four bits and a subgroup of order 283, with vectors     *)
(* that decompose every scalar; and a field of 49 elements.                *)

Scalars == INSTANCE FourQScalar
             WITH Bits <- 4, Order <- 283, Phi <- 202, Psi <- 179,
                  Ell <- <<8105, 5789, 3010, 9031>>, C <- <<0, 3, 11, 9>>,
                  B <- <<<<3, 3, 3, 1>>, <<4, 1, 1, 4>>, <<3, 4, 1, 1>>, <<1, 2, 3, 2>>>>,
                  W_FIXEDBASE <- 3, V_FIXEDBASE <- 2, NBITS_ORDER_PLUS_ONE <- 10,
                  WP_DOUBLEBASE <- 4, WQ_DOUBLEBASE <- 3, K_EXPON <- 3,
                  Montgomery_rprime <- 36589,
                  Tried <- {n * 283 + d : n \in {1, 2, 115, 230}, d \in -1..2}
                           \cup {n * 1021 : n \in 0..64} \cup {1, 2, 65535},
                  Others <- {0, 284, 46368, 65535}, Points <- {1, 5000}
Field == INSTANCE FourQCurve WITH Q <- 3, PARAMETER_d <- <<1, 2>>

-----------------------------------------------------------------------------
AllParts == {"labels", "stream", "vector", "copies", "recent", "P256", "FourQ", "offered",
             "scalars", "curve"}

ASSUME PartsAssumption == Parts \subseteq AllParts
ASSUME GivenAssumption ==
  /\ Stream!ConstantsAreGiven /\ Vector!ConstantsAreGiven
  /\ Copies!ConstantsAreGiven /\ Recent!ConstantsAreGiven
  /\ P256!ConstantsAreGiven /\ FourQ!ConstantsAreGiven /\ Offered!ConstantsAreGiven
  /\ Scalars!ConstantsAreGiven /\ Field!ConstantsAreGiven

InitCache ==
  IF part = "copies" THEN Copies!Init
  ELSE IF part = "recent" THEN Recent!Init
  ELSE sk = <<>> /\ cache = <<>> /\ call = <<>> /\ uses = <<>>

InitFourQ ==
  /\ IF part = "scalars" THEN Scalars!Init ELSE first = 0 /\ second = 0 /\ point = 0
  /\ IF part = "curve" THEN Field!Init ELSE encoding = <<>> /\ left = <<>> /\ right = <<>>

InitPart ==
  /\ part \in Parts
  /\ InitFourQ
  /\ Init
  /\ IF part = "vector" THEN Vector!Init ELSE Stream!Init
  /\ InitCache
  /\ IF part = "P256" THEN P256!Init ELSE FourQ!Init

StepLabels ==
  /\ part = "labels" /\ Next
  /\ UNCHANGED <<part, serialVars, cacheVars, vrfVars, fourqVars>>

StepSerial ==
  /\ \/ part = "stream" /\ Stream!Next
     \/ part = "vector" /\ Vector!Next
  /\ UNCHANGED <<part, a, b, cacheVars, vrfVars, fourqVars>>

StepCache ==
  /\ \/ part = "copies" /\ Copies!Next
     \/ part = "recent" /\ Recent!Next
  /\ UNCHANGED <<part, a, b, serialVars, vrfVars, fourqVars>>

StepVRF ==
  /\ \/ part = "P256" /\ P256!Next
     \/ part = "FourQ" /\ FourQ!Next
     \/ part = "offered" /\ Offered!Next
  /\ UNCHANGED <<part, a, b, serialVars, cacheVars, fourqVars>>

NextOfPart == StepLabels \/ StepSerial \/ StepCache \/ StepVRF

partVars == <<part, a, b, serialVars, cacheVars, vrfVars, fourqVars>>
PartsSpec == InitPart /\ [][NextOfPart]_partVars

-----------------------------------------------------------------------------
(* Properties; those of the parts are stated and explained there.          *)

(* Labels in words are compared, written as bytes and hashed as strings of *)
(* bits: unused bits are zero (partial_label.h).                           *)
LabelsAreOfBits ==
  part = "labels" => ZeroBeyondCount /\ OrderIsOfBits /\ BytesMakeTheLabel

(* What is loaded is what was saved; a whole input is loaded without an    *)
(* exception; and a reader that skips by the returned sizes stays in step  *)
(* (serialization_helpers.cpp and the save and Load members).              *)
LoadedIsSaved ==
  /\ part = "stream" => Stream!LoadedIsSaved /\ Stream!CompleteIsLoaded
  /\ part = "vector" => Vector!LoadedIsSaved /\ Vector!CompleteIsLoaded /\ Vector!SizesAgree

(* Cached proofs are of the key that the instance has, whatever was copied *)
(* and assigned; and what was used last is cached (vrf_cache.cpp).         *)
CachedIsOfKey ==
  /\ part = "copies" => Copies!AnswersAreOfKey
  /\ part = "recent" => Recent!AnswersAreOfKey /\ Recent!RecentIsCached

(* Proofs that were made verify and show the value of get_vrf_value, after *)
(* keys were saved and loaded, on either curve; and of all proofs that     *)
(* could be offered, the one that is accepted shows the value of the data, *)
(* unless the challenge was guessed (vrf.cpp).                             *)
ProofsShowTheValue ==
  /\ part = "P256" => P256!HonestProofsVerify /\ P256!ProofsHaveTheValue
                        /\ P256!ValidityIsReturned
  /\ part = "FourQ" => FourQ!HonestProofsVerify /\ FourQ!ProofsHaveTheValue
                         /\ FourQ!SavedPublicKeysLoad
  /\ part = "offered" => Offered!AcceptedValueIsUnique /\ Offered!WrongGammaIsGuessed
                           /\ Offered!ValidityIsReturned

(* Scalars, their decomposition and recodings multiply points by what they *)
(* stand for; the formulas add points, and what is encoded is decoded      *)
(* (eccp2.c, eccp2_core.c, crypto_util.c).                                 *)
FourQIsTheGroup ==
  /\ part = "scalars" => Scalars!ScalarsAreModuloOrder /\ Scalars!VariableBaseMultiplies
                           /\ Scalars!FixedBaseMultiplies /\ Scalars!DoubleMultiplies
  /\ part = "curve" => Field!SumsAreOfCurve /\ Field!EncodedIsDecoded
=============================================================================
