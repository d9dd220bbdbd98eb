------------------------------ MODULE VRFCache ------------------------------
(***************************************************************************)
(* The cache of VRF proofs that every OZKS instance keeps for its queries  *)
(* (oZKS/vrf_cache.h, vrf_cache.cpp, get_node_label of utilities.cpp): an  *)
(* LRU cache that several threads query, and that is copied, assigned and  *)
(* cleared with its instance.                                              *)
(*                                                                         *)
(* A proof is known by the secret key it was made with; what is cached for *)
(* a key hash is that secret key.                                          *)
(***************************************************************************)
EXTENDS Naturals, Sequences, FiniteSets

CONSTANTS
  Instances,  \* the OZKS instances of the process
  Threads,    \* threads that query
  Keys,       \* key hashes
  SecretKeys, \* VRF secret keys
  CacheSize,  \* vrf_cache_size() of the configuration
  Copied,     \* whether instances are copied
  MaxGets     \* bound: lookups between two clears

(* What is assumed of the constants. *)
ConstantsAreGiven == CacheSize \in Nat /\ MaxGets \in Nat /\ Copied \in BOOLEAN

VARIABLES
  sk,     \* vrf_sk_ of each instance
  cache,  \* vrf_cache_ of each instance
  call,   \* what each thread is doing
  uses    \* per instance, the key hashes looked up, oldest first

vars == <<sk, cache, call, uses>>

NoCall == [at |-> "idle"]

(* cache_size_; the cached key hashes, least recently used first, and      *)
(* their proofs; cache_hits_ and cache_misses_.                            *)
Cache(size, order, proof, hits, misses) ==
  [size |-> size, order |-> order, proof |-> proof, hits |-> hits, misses |-> misses]

(* The constructor from a size. *)
NewCache(size) == Cache(size, <<>>, <<>>, 0, 0)

Cached(c) == {c.order[k] : k \in DOMAIN c.order}
Without(order, key) == SelectSeq(order, LAMBDA k : k # key)

Init ==
  /\ sk \in [Instances -> SecretKeys]
  /\ cache = [i \in Instances |-> NewCache(CacheSize)]
  /\ call = [t \in Threads |-> NoCall]
  /\ uses = [i \in Instances |-> <<>>]

-----------------------------------------------------------------------------
(* The operations of the cache. *)

(* Poco::LRUCache::get makes the key the most recently used one. *)
Get(c, key) ==
  IF key \in Cached(c)
  THEN Cache(c.size, Append(Without(c.order, key), key), c.proof, c.hits + 1, c.misses)
  ELSE Cache(c.size, c.order, c.proof, c.hits, c.misses + 1)

(* Poco::LRUCache::add replaces what it has and evicts the oldest. *)
Add(c, key, secret) ==
  LET added == Append(Without(c.order, key), key)
      order == IF Len(added) > c.size THEN Tail(added) ELSE added
  IN  IF c.size = 0 THEN c
      ELSE Cache(c.size, order,
                 [k \in {order[n] : n \in DOMAIN order} |->
                    IF k = key THEN secret ELSE c.proof[k]],
                 c.hits, c.misses)

(* The copy constructor, which takes size() of the other. *)
CopyOf(c) == NewCache(Len(c.order))

(* Mutant: the other's size is taken over, and the contents stay. *)
AssignSizeOnly(c, other) == Cache(other.size, c.order, c.proof, c.hits, c.misses)

(* operator= takes over the size and keeps the statistics. *)
Assign(c, other) == Cache(other.size, <<>>, <<>>, c.hits, c.misses)

Clear(c) == NewCache(c.size)

-----------------------------------------------------------------------------
(* get_node_label with a cache: look up; if absent compute, then add. *)

SetCall(t, c) == call' = [call EXCEPT ![t] = c]
SetCache(i, c) == cache' = [cache EXCEPT ![i] = c]

Gets(i) == cache[i].hits + cache[i].misses

LookUp(t, i, key) ==
  /\ call[t] = NoCall /\ Gets(i) < MaxGets
  /\ SetCache(i, Get(cache[i], key))
  /\ uses' = [uses EXCEPT ![i] = Append(Without(@, key), key)]
  /\ SetCall(t, IF key \in Cached(cache[i])
                THEN [at |-> "answered", of |-> i, key |-> key, proof |-> cache[i].proof[key]]
                ELSE [at |-> "missed", of |-> i, key |-> key])
  /\ UNCHANGED sk

AddProof(t) ==
  /\ call[t].at = "missed"
  /\ LET i == call[t].of
     IN  /\ SetCache(i, Add(cache[i], call[t].key, sk[i]))
         /\ SetCall(t, [at |-> "answered", of |-> i, key |-> call[t].key, proof |-> sk[i]])
  /\ UNCHANGED <<sk, uses>>

Return(t) ==
  /\ call[t].at = "answered"
  /\ SetCall(t, NoCall)
  /\ UNCHANGED <<sk, cache, uses>>

(* No thread is using i, as it is replaced or cleared. *)
Unused(i) == {t \in Threads : call[t].at # "idle" /\ call[t].of = i} = {}

(* Instance i becomes a copy of j: the copy constructor of the class, as   *)
(* OZKS::Load returns its instance and vectors move theirs.                *)
ConstructCopy(i, j) ==
  /\ Copied /\ i # j /\ Unused(i) /\ Unused(j)
  /\ sk' = [sk EXCEPT ![i] = sk[j]]
  /\ SetCache(i, CopyOf(cache[j]))
  /\ uses' = [uses EXCEPT ![i] = <<>>]
  /\ UNCHANGED call

(* Instance j is assigned to i. *)
AssignInstance(i, j) ==
  /\ i # j /\ Unused(i) /\ Unused(j)
  /\ sk' = [sk EXCEPT ![i] = sk[j]]
  /\ SetCache(i, Assign(cache[i], cache[j]))
  /\ uses' = [uses EXCEPT ![i] = <<>>]
  /\ UNCHANGED call

(* OZKS::clear *)
ClearInstance(i) ==
  /\ Unused(i)
  /\ SetCache(i, Clear(cache[i]))
  /\ uses' = [uses EXCEPT ![i] = <<>>]
  /\ UNCHANGED <<sk, call>>

Next ==
  \/ \E t \in Threads, i \in Instances, key \in Keys : LookUp(t, i, key)
  \/ \E t \in Threads : AddProof(t) \/ Return(t)
  \/ \E i, j \in Instances : ConstructCopy(i, j) \/ AssignInstance(i, j)
  \/ \E i \in Instances : ClearInstance(i)

Spec == Init /\ [][Next]_vars

-----------------------------------------------------------------------------
(* Properties *)

(* A query is answered with a proof made with the secret key that the      *)
(* instance has, also after the key changed with an assignment.            *)
AnswersAreOfKey ==
  \A t \in Threads : call[t].at = "answered" => call[t].proof = sk[call[t].of]

(* What was looked up last is cached: the last CacheSize key hashes of an  *)
(* instance are, once no thread is between looking up and adding.          *)
RecentIsCached ==
  \A i \in Instances :
    Unused(i) =>
      \A n \in DOMAIN uses[i] : n > Len(uses[i]) - CacheSize => uses[i][n] \in Cached(cache[i])
=============================================================================
