----------------------- MODULE OZKSDistributed_proofs -----------------------
(***************************************************************************)
(* What OZKSDistributed promises for any tries, keys, payloads, clients    *)
(* and ways of using the instances.                                        *)
(*                                                                         *)
(* The argument follows an entry on its way: a call that has stored its    *)
(* element, the list of its trie, the batch of a tick, the updater's trie, *)
(* the trie in storage, a querier.  Whatever is past the first of these    *)
(* has an element, unsaved, in the hands of a flush or durable, unless its *)
(* insert met a flush; and when no two inserts of a key run at a time, it  *)
(* is the element of this very entry, and the entry is in one place.       *)
(***************************************************************************)
EXTENDS OZKSDistributed, FiniteSetTheorems, TLAPS

Entry == [key : Keys, payload : Payloads]
Call == [pc : {"save", "enqueue"}, trie : Tries, key : Keys, payload : Payloads]
TickState ==
  [pc : {"insert", "flush", "clear", "hand over", "end"}, trie : Tries, batch : Seq(Entry)]
ElementMap == [Keys -> Payloads \cup {None}]
ElementMaps == [Tries -> ElementMap]
Taken == {"clear", "hand over"}

(* A set of tuples of a trie; its epochs play no role. *)
Tuples(d) == \A e \in d : e[1] \in Keys /\ e[2] \in Payloads

Types ==
  /\ use \in Uses
  /\ unsaved \in ElementMaps /\ durable \in ElementMaps /\ moving \in ElementMap
  /\ tick.pc \notin Taken => moving = NoElements
  /\ client \in [Clients -> Call \cup {NoCall}]
  /\ updates \in [Tries -> Seq(Entry)]
  /\ tick \in TickState \/ tick = NoTick
  /\ tick # NoTick => locked
  /\ memory = [t \in Tries |-> memory[t]]
  /\ published = [t \in Tries |-> published[t]]
  /\ seen = [t \in Tries |-> seen[t]]
  /\ \A t \in Tries : Tuples(memory[t]) /\ Tuples(published[t]) /\ Tuples(seen[t])
  /\ restarts \in Nat

(* The entries of trie t that are past SaveElement, as <<key, payload>>. *)
Handed(t) ==
  {<<client[c].key, client[c].payload>> :
     c \in {d \in Clients : client[d].pc = "enqueue" /\ client[d].trie = t}}
ListedIn(b) == {<<b[i].key, b[i].payload>> : i \in DOMAIN b}
Ticked(t) == IF tick.pc # "idle" /\ tick.trie = t THEN ListedIn(tick.batch) ELSE {}
PairsOf(d) == {<<e[1], e[2]>> : e \in d}
Past(t) ==
  Handed(t) \cup ListedIn(updates[t]) \cup Ticked(t)
    \cup PairsOf(memory[t]) \cup PairsOf(published[t]) \cup PairsOf(seen[t])

(* The entry p of trie t has an element: its own, wherever there is one,   *)
(* if no two inserts of a key run at a time.                               *)
Right(t, p) ==
  /\ Stored(t)[p[1]] # None
  /\ use.oneInsertPerKey =>
       \A f \in {unsaved[t], Moving(t), durable[t]} : f[p[1]] \in {None, p[2]}

(* Where the element of an entry that is handed over, or will be with the  *)
(* flush that runs, is found.                                              *)
Backed ==
  \A t \in Tries :
    /\ \A p \in Past(t) : p[1] \in Missed(t) \/ Right(t, p)
    /\ \A p \in PairsOf(published[t]) \cup PairsOf(seen[t]) :
         p[1] \in Missed(t) \/ durable[t][p[1]] # None
    /\ (tick.pc \in Taken /\ tick.trie = t) =>
         \A p \in PairsOf(memory[t]) :
           p[1] \in Missed(t) \/ Over(moving, durable[t])[p[1]] # None

(* No other call is about the key of a call; and there is no element where *)
(* a call has yet to store it, unless it met a flush.                      *)
Alone ==
  use.oneInsertPerKey =>
    \A c \in Clients : client[c].pc # "idle" =>
      /\ \A d \in Clients :
           (client[d].pc # "idle" /\ client[d].trie = client[c].trie
              /\ client[d].key = client[c].key) => d = c
      /\ client[c].pc = "save" =>
           \/ client[c].key \in Missed(client[c].trie)
           \/ Stored(client[c].trie)[client[c].key] = None

Singleton(S) == \E x \in S : S = {x}
OneOf(A, B, C, D) ==
  \/ Singleton(A) /\ B = {} /\ C = {} /\ D = {}
  \/ A = {} /\ Singleton(B) /\ C = {} /\ D = {}
  \/ A = {} /\ B = {} /\ Singleton(C) /\ D = {}
  \/ A = {} /\ B = {} /\ C = {} /\ Singleton(D)
NoneOf(A, B, C, D) == A = {} /\ B = {} /\ C = {} /\ D = {}

(* The place of what was stored. *)
PlaceOf(t, k) ==
  IF Stored(t)[k] = None
  THEN NoneOf(Waiting(t, k), Queued(t, k), InTick(t, k), InTrie(t, k))
  ELSE OneOf(Waiting(t, k), Queued(t, k), InTick(t, k), InTrie(t, k))

InOnePlace ==
  (use.oneInsertPerKey /\ restarts = 0) =>
    \A t \in Tries, k \in Keys : Missed(t) = {} => PlaceOf(t, k)

IInv == Types /\ Backed /\ Alone /\ InOnePlace

-----------------------------------------------------------------------------
(* What the types say of an entry on its way. *)

LEMMA CallFact ==
  ASSUME Types, NEW c \in Clients, client[c].pc # "idle"
  PROVE  /\ client[c] \in Call
         /\ client[c].trie \in Tries /\ client[c].key \in Keys
         /\ client[c].payload \in Payloads
BY DEF Types, Call, NoCall

LEMMA TickFact ==
  ASSUME Types, tick.pc # "idle"
  PROVE  tick \in TickState /\ locked
BY DEF Types, NoTick

LEMMA IdleTick ==
  ASSUME Types, ~locked
  PROVE  tick = NoTick /\ tick.pc = "idle"
BY DEF Types, NoTick

LEMMA ListedFact ==
  ASSUME NEW b \in Seq(Entry), NEW i \in DOMAIN b
  PROVE  b[i] \in Entry /\ b[i].key \in Keys /\ b[i].payload \in Payloads
<1>1. b[i] \in Entry
  OBVIOUS
<1> QED
  BY <1>1 DEF Entry

LEMMA PastKey ==
  ASSUME Types, NEW t \in Tries, NEW p \in Past(t)
  PROVE  p[1] \in Keys
<1>1. CASE p \in Handed(t)
  BY <1>1, CallFact DEF Handed
<1>2. CASE p \in ListedIn(updates[t])
  BY <1>2, ListedFact DEF ListedIn, Types
<1>3. CASE p \in Ticked(t)
  <2>1. tick.pc # "idle" /\ p \in ListedIn(tick.batch)
    BY <1>3 DEF Ticked
  <2>2. tick.batch \in Seq(Entry)
    BY <2>1, TickFact DEF TickState
  <2> QED
    BY <2>1, <2>2, ListedFact DEF ListedIn
<1>4. CASE p \in PairsOf(memory[t]) \cup PairsOf(published[t]) \cup PairsOf(seen[t])
  BY <1>4 DEF PairsOf, Types, Tuples
<1> QED
  BY <1>1, <1>2, <1>3, <1>4 DEF Past

LEMMA StoredFact ==
  ASSUME NEW t \in Tries, NEW k \in Keys
  PROVE  Stored(t)[k] = IF unsaved[t][k] # None THEN unsaved[t][k]
                        ELSE IF Moving(t)[k] # None THEN Moving(t)[k] ELSE durable[t][k]
BY DEF Stored, Over

(* A flush has elements in its hands of its own trie only. *)
LEMMA MovingKept ==
  ASSUME Types, moving' = moving, tick'.trie = tick.trie \/ tick.pc \notin Taken,
         NEW t \in Tries
  PROVE  Moving(t)' = Moving(t)
BY DEF Types, Moving

(* Steps that store, move and forget no element. *)
LEMMA BackedKept ==
  ASSUME Backed, use' = use, unsaved' = unsaved, moving' = moving, durable' = durable,
         missed \subseteq missed', \A t \in Tries : Moving(t)' = Moving(t),
         \A t \in Tries : Past(t)' \subseteq Past(t),
         \A t \in Tries : PairsOf(published'[t]) \cup PairsOf(seen'[t])
                            \subseteq PairsOf(published[t]) \cup PairsOf(seen[t]),
         tick'.pc \in Taken => tick' = tick /\ memory' = memory
  PROVE  Backed'
<1>1. \A t \in Tries : Missed(t) \subseteq Missed(t)' /\ Stored(t)' = Stored(t)
  BY DEF Missed, Stored
<1>2. \A t \in Tries : \A p : Right(t, p)' <=> Right(t, p)
  BY <1>1 DEF Right
<1> QED
  BY <1>1, <1>2 DEF Backed

LEMMA PlacesKept ==
  ASSUME InOnePlace, use' = use, restarts' = restarts, missed \subseteq missed',
         NEW t \in Tries, NEW k \in Keys,
         Stored(t)'[k] = Stored(t)[k] \/ Missed(t)' # {},
         Waiting(t, k)' = Waiting(t, k), Queued(t, k)' = Queued(t, k),
         InTick(t, k)' = InTick(t, k), InTrie(t, k)' = InTrie(t, k),
         use.oneInsertPerKey /\ restarts = 0
  PROVE  Missed(t)' = {} => PlaceOf(t, k)'
<1>1. Missed(t) \subseteq Missed(t)'
  BY DEF Missed
<1> QED
  BY <1>1 DEF InOnePlace, PlaceOf, OneOf, NoneOf, Singleton

-----------------------------------------------------------------------------
LEMMA InitInv == Init => IInv
<1> SUFFICES ASSUME Init PROVE IInv
  OBVIOUS
<1>1. Types
  <2>1. NoElements \in ElementMap /\ unsaved \in ElementMaps /\ durable \in ElementMaps
    BY DEF Init, NoElements, ElementMap, ElementMaps
  <2>2. restarts \in Nat /\ <<>> \in Seq(Entry)
    BY DEF Init
  <2> QED
    BY <2>1, <2>2 DEF Types, Init, Tuples
<1>2. \A t \in Tries :
        /\ Past(t) = {} /\ PairsOf(published[t]) = {} /\ PairsOf(seen[t]) = {}
        /\ PairsOf(memory[t]) = {}
  BY DEF Init, Past, Handed, ListedIn, Ticked, PairsOf, NoCall, NoTick
<1>3. \A t \in Tries, k \in Keys : PlaceOf(t, k)
  <2> SUFFICES ASSUME NEW t \in Tries, NEW k \in Keys PROVE PlaceOf(t, k)
    OBVIOUS
  <2>1. Stored(t)[k] = None
    BY StoredFact DEF Init, NoElements, Moving
  <2>2. Waiting(t, k) = {} /\ Queued(t, k) = {} /\ InTick(t, k) = {} /\ InTrie(t, k) = {}
    BY DEF Init, Waiting, Queued, InTick, InTrie, NoCall, NoTick
  <2> QED
    BY <2>1, <2>2 DEF PlaceOf, NoneOf
<1>4. Alone
  BY DEF Init, Alone, NoCall
<1> QED
  BY <1>1, <1>2, <1>3, <1>4 DEF IInv, Backed, InOnePlace

-----------------------------------------------------------------------------
LEMMA BeginInv ==
  ASSUME IInv, NEW c \in Clients, NEW t \in Tries, NEW k \in Keys, NEW p \in Payloads,
         BeginInsert(c, t, k, p)
  PROVE  IInv'
<1> DEFINE r == [pc |-> "save", trie |-> t, key |-> k, payload |-> p]
<1>0. r \in Call /\ r.pc = "save" /\ r.trie = t /\ r.key = k
  BY DEF Call
<1> USE DEF IInv
<1> HIDE DEF r
<1>1. /\ client' = [client EXCEPT ![c] = r] /\ client[c].pc = "idle"
      /\ Elements(t)[k] = None
      /\ use.oneInsertPerKey => InsertsOf(t, k) = {}
      /\ missed' = IF tick.trie = t /\ moving[k] # None THEN missed \cup {<<t, k>>} ELSE missed
      /\ UNCHANGED <<use, unsaved, moving, durable, updates, locked, tick, memory, published,
                     seen, restarts>>
  BY DEF BeginInsert, trieState, r
<1>2. client'[c] = r /\ \A d \in Clients \ {c} : client'[d] = client[d]
  BY <1>1 DEF Types
<1>3. Types'
  BY <1>0, <1>1 DEF Types, Tuples, NoTick
<1>4. \A s \in Tries : Handed(s)' = Handed(s)
  BY <1>0, <1>1, <1>2 DEF Handed
<1>5. \A s \in Tries : Past(s)' = Past(s)
  BY <1>1, <1>4 DEF Past, Ticked
<1>6. \A s \in Tries : Moving(s)' = Moving(s) /\ Stored(s)' = Stored(s)
  BY <1>1, MovingKept DEF Stored
<1>7. missed \subseteq missed'
  BY <1>1
<1>8. Backed'
  BY <1>1, <1>5, <1>6, <1>7, BackedKept
<1>9. k \in Missed(t)' \/ Stored(t)'[k] = None
  <2>1. unsaved[t][k] = None /\ durable[t][k] = None
    BY <1>1, <1>6 DEF Elements, Over
  <2>2. CASE tick.trie = t /\ moving[k] # None
    BY <1>1, <2>2 DEF Missed
  <2>3. CASE ~(tick.trie = t /\ moving[k] # None)
    BY <1>6, <2>1, <2>3, StoredFact DEF Moving, NoElements
  <2> QED
    BY <2>2, <2>3
<1>10. Alone'
  <2>1. \A s \in Tries : Missed(s) \subseteq Missed(s)'
    BY <1>7 DEF Missed
  <2>2. \A d \in Clients : client[d].pc # "idle" => client[d].trie \in Tries
    BY CallFact
  <2> QED
    BY <1>0, <1>1, <1>2, <1>6, <1>9, <2>1, <2>2 DEF Alone, InsertsOf
<1>11. InOnePlace'
  <2> SUFFICES ASSUME use.oneInsertPerKey /\ restarts = 0, NEW s \in Tries, NEW l \in Keys
               PROVE  Missed(s)' = {} => PlaceOf(s, l)'
    BY <1>1 DEF InOnePlace
  <2>1. Waiting(s, l)' = Waiting(s, l)
    BY <1>0, <1>1, <1>2 DEF Waiting
  <2>2. /\ Queued(s, l)' = Queued(s, l) /\ InTick(s, l)' = InTick(s, l)
        /\ InTrie(s, l)' = InTrie(s, l)
    BY <1>1 DEF Queued, InTick, InTrie
  <2> QED
    BY <1>1, <1>6, <1>7, <2>1, <2>2, PlacesKept
<1> QED
  BY <1>3, <1>8, <1>10, <1>11

(* The element that is stored is that of the entry; with one insert of a   *)
(* key at a time no other entry of the key is past this step.              *)
LEMMA SaveInv ==
  ASSUME IInv, NEW c \in Clients, SaveElement(c)
  PROVE  IInv'
<1> USE DEF IInv
<1> DEFINE r == client[c]
<1>1. /\ unsaved' = [unsaved EXCEPT ![r.trie][r.key] = r.payload]
      /\ client' = [client EXCEPT ![c].pc = "enqueue"] /\ r.pc = "save"
      /\ UNCHANGED <<use, moving, durable, missed, updates, locked, tick, memory, published,
                     seen, restarts>>
  BY DEF SaveElement, trieState
<1>2. r \in Call /\ r.trie \in Tries /\ r.key \in Keys /\ r.payload \in Payloads
  BY <1>1, CallFact
<1>3. /\ client'[c].pc = "enqueue" /\ client'[c].trie = r.trie /\ client'[c].key = r.key
      /\ client'[c].payload = r.payload /\ client'[c] \in Call
      /\ \A d \in Clients \ {c} : client'[d] = client[d]
  BY <1>1, <1>2 DEF Types, Call
<1>4. /\ unsaved'[r.trie][r.key] = r.payload
      /\ \A t \in Tries, k \in Keys :
           (t # r.trie \/ k # r.key) => unsaved'[t][k] = unsaved[t][k]
      /\ unsaved' \in ElementMaps
  BY <1>1, <1>2 DEF Types, ElementMaps, ElementMap
<1> HIDE DEF r
<1>5. Types'
  <2>1. client' \in [Clients -> Call \cup {NoCall}]
    BY <1>1, <1>3 DEF Types
  <2> QED
    BY <1>1, <1>4, <2>1 DEF Types, Tuples, NoTick
<1>6. \A t \in Tries : Past(t)' \subseteq
        Past(t) \cup (IF t = r.trie THEN {<<r.key, r.payload>>} ELSE {})
  <2> SUFFICES ASSUME NEW t \in Tries
               PROVE  Handed(t)' \subseteq
                        Handed(t) \cup (IF t = r.trie THEN {<<r.key, r.payload>>} ELSE {})
    BY <1>1 DEF Past, Ticked
  <2> QED
    BY <1>1, <1>2, <1>3 DEF Handed
<1>7. \A t \in Tries : /\ Missed(t)' = Missed(t) /\ Moving(t)' = Moving(t)
                       /\ durable'[t] = durable[t]
  BY <1>1 DEF Missed, Moving
<1>8. \A t \in Tries, k \in Keys :
        Stored(t)'[k] = IF t = r.trie /\ k = r.key THEN r.payload ELSE Stored(t)[k]
  BY <1>2, <1>4, <1>7, NoneAssumption DEF Stored, Over
<1>9. Backed'
  <2> SUFFICES ASSUME NEW t \in Tries, NEW p \in Past(t)', p[1] \notin Missed(t)
               PROVE  Right(t, p)'
    BY <1>1, <1>7 DEF Backed
  <2>1. CASE p \in Past(t)
    <3>1. Right(t, p) /\ p[1] \in Keys
      BY <2>1, PastKey DEF Backed
    <3>2. CASE t # r.trie \/ p[1] # r.key
      BY <1>1, <1>4, <1>7, <1>8, <3>1, <3>2 DEF Right
    <3>3. CASE t = r.trie /\ p[1] = r.key
      <4>1. ~use.oneInsertPerKey
        BY <1>1, <3>1, <3>3 DEF Alone, Right, r
      <4> QED
        BY <1>1, <1>2, <1>8, <3>3, <4>1, NoneAssumption DEF Right
    <3> QED
      BY <3>2, <3>3
  <2>2. CASE p \notin Past(t)
    <3>1. t = r.trie /\ p = <<r.key, r.payload>> /\ p[1] = r.key /\ p[2] = r.payload
      BY <1>6, <2>2
    <3>2. Stored(t)'[p[1]] # None
      BY <1>2, <1>8, <3>1, NoneAssumption
    <3>3. ASSUME use.oneInsertPerKey
          PROVE  Moving(t)[r.key] = None /\ durable[t][r.key] = None
      <4>1. Stored(t)[r.key] = None
        BY <1>1, <3>1, <3>3 DEF Alone, r
      <4> QED
        BY <1>2, <3>1, <4>1, StoredFact
    <3> QED
      BY <1>1, <1>4, <1>7, <3>1, <3>2, <3>3 DEF Right
  <2> QED
    BY <2>1, <2>2
<1>10. Alone'
  <2> SUFFICES ASSUME use.oneInsertPerKey, NEW d \in Clients, client'[d].pc # "idle"
               PROVE  /\ \A e \in Clients :
                           (client'[e].pc # "idle" /\ client'[e].trie = client'[d].trie
                              /\ client'[e].key = client'[d].key) => e = d
                      /\ client'[d].pc = "save" =>
                           (\/ client[d].key \in Missed(client[d].trie)
                            \/ Stored(client[d].trie)[client[d].key] = None)'
    BY <1>1 DEF Alone
  <2>1. \A e \in Clients : /\ client'[e].pc # "idle" <=> client[e].pc # "idle"
                           /\ client'[e].trie = client[e].trie
                           /\ client'[e].key = client[e].key
    BY <1>1, <1>3 DEF r
  <2>2. ASSUME client'[d].pc = "save"
        PROVE  (\/ client[d].key \in Missed(client[d].trie)
                \/ Stored(client[d].trie)[client[d].key] = None)'
    <3>1. d # c /\ client'[d] = client[d]
      BY <1>3, <2>2
    <3>2. client[d].trie # r.trie \/ client[d].key # r.key
      BY <1>1, <2>1, <3>1 DEF Alone, r
    <3>3. client[d].trie \in Tries /\ client[d].key \in Keys
      BY <2>1, CallFact
    <3> QED
      BY <1>7, <1>8, <2>2, <3>1, <3>2, <3>3 DEF Alone
  <2> QED
    BY <2>1, <2>2 DEF Alone
<1>11. InOnePlace'
  <2> SUFFICES ASSUME use.oneInsertPerKey /\ restarts = 0, NEW t \in Tries, NEW k \in Keys
               PROVE  Missed(t)' = {} => PlaceOf(t, k)'
    BY <1>1 DEF InOnePlace
  <2>1. /\ Queued(t, k)' = Queued(t, k) /\ InTick(t, k)' = InTick(t, k)
        /\ InTrie(t, k)' = InTrie(t, k)
    BY <1>1 DEF Queued, InTick, InTrie
  <2>2. CASE t = r.trie /\ k = r.key /\ Missed(t) = {}
    <3>1. Stored(t)[k] = None
      BY <1>1, <2>2 DEF Alone, r
    <3>2. NoneOf(Waiting(t, k), Queued(t, k), InTick(t, k), InTrie(t, k))
      BY <2>2, <3>1 DEF InOnePlace, PlaceOf
    <3>3. Waiting(t, k)' = {c}
      BY <1>3, <2>2, <3>2 DEF Waiting, NoneOf
    <3>4. Stored(t)'[k] # None
      BY <1>2, <1>8, <2>2, NoneAssumption
    <3> QED
      BY <2>1, <3>2, <3>3, <3>4 DEF PlaceOf, OneOf, NoneOf, Singleton
  <2>3. CASE t # r.trie \/ k # r.key
    <3>1. Waiting(t, k)' = Waiting(t, k)
      BY <1>1, <1>3, <2>3 DEF Waiting, r
    <3>2. Stored(t)'[k] = Stored(t)[k]
      BY <1>8, <2>3
    <3> QED
      BY <1>1, <2>1, <3>1, <3>2, PlacesKept
  <2> QED
    BY <1>7, <2>2, <2>3
<1> QED
  BY <1>5, <1>9, <1>10, <1>11

LEMMA EnqueueInv ==
  ASSUME IInv, NEW c \in Clients, Enqueue(c)
  PROVE  IInv'
<1> USE DEF IInv
<1> DEFINE r == client[c]
           e == [key |-> r.key, payload |-> r.payload]
           u == updates[r.trie]
<1>1. /\ updates' = [updates EXCEPT ![r.trie] = Append(u, e)]
      /\ client' = [client EXCEPT ![c] = NoCall] /\ r.pc = "enqueue"
      /\ UNCHANGED <<use, unsaved, moving, durable, missed, locked, tick, memory, published,
                     seen, restarts>>
  BY DEF Enqueue, elements, trieState
<1>2. r \in Call /\ r.trie \in Tries /\ r.key \in Keys /\ r.payload \in Payloads
  BY <1>1, CallFact
<1>3. e \in Entry /\ e.key = r.key /\ e.payload = r.payload
  BY <1>2 DEF Entry
<1>4. u \in Seq(Entry)
  BY <1>2 DEF Types
<1>5. /\ client'[c] = NoCall /\ client'[c].pc = "idle"
      /\ \A d \in Clients \ {c} : client'[d] = client[d]
  BY <1>1 DEF Types, NoCall
<1> HIDE DEF r, e, u
<1>6. /\ Append(u, e) \in Seq(Entry)
      /\ DOMAIN Append(u, e) = DOMAIN u \cup {Len(u) + 1} /\ Len(u) + 1 \notin DOMAIN u
      /\ Append(u, e)[Len(u) + 1] = e /\ \A i \in DOMAIN u : Append(u, e)[i] = u[i]
  BY <1>3, <1>4
<1>7. /\ updates'[r.trie] = Append(u, e)
      /\ \A t \in Tries : t # r.trie => updates'[t] = updates[t]
  BY <1>1, <1>2 DEF Types
<1>8. Types'
  <2>1. updates' \in [Tries -> Seq(Entry)]
    BY <1>1, <1>2, <1>6 DEF Types
  <2> QED
    BY <1>1, <2>1 DEF Types, Tuples, NoTick
<1>9. \A t \in Tries : Past(t)' \subseteq Past(t)
  <2> SUFFICES ASSUME NEW t \in Tries
               PROVE  Handed(t)' \cup ListedIn(updates'[t]) \subseteq
                        Handed(t) \cup ListedIn(updates[t])
    BY <1>1 DEF Past, Ticked
  <2>1. Handed(t)' \subseteq Handed(t)
    BY <1>5 DEF Handed
  <2>2. CASE t = r.trie
    <3>1. <<r.key, r.payload>> \in Handed(t)
      BY <1>1, <2>2 DEF Handed, r
    <3>2. ListedIn(Append(u, e)) \subseteq ListedIn(u) \cup {<<r.key, r.payload>>}
      BY <1>3, <1>6 DEF ListedIn
    <3> QED
      BY <1>7, <2>1, <2>2, <3>1, <3>2 DEF u
  <2>3. CASE t # r.trie
    BY <1>7, <2>1, <2>3
  <2> QED
    BY <2>2, <2>3
<1>10. \A t \in Tries : /\ Moving(t)' = Moving(t) /\ Stored(t)' = Stored(t)
                        /\ Missed(t)' = Missed(t)
  BY <1>1 DEF Moving, Stored, Missed
<1>11. Backed'
  BY <1>1, <1>9, <1>10, BackedKept
<1>12. Alone'
  BY <1>1, <1>5, <1>10, CallFact DEF Alone
<1>13. InOnePlace'
  <2> SUFFICES ASSUME use.oneInsertPerKey /\ restarts = 0, NEW t \in Tries, NEW k \in Keys,
                      Missed(t) = {}
               PROVE  PlaceOf(t, k)'
    BY <1>1, <1>10 DEF InOnePlace
  <2>1. InTick(t, k)' = InTick(t, k) /\ InTrie(t, k)' = InTrie(t, k)
    BY <1>1 DEF InTick, InTrie
  <2>2. PlaceOf(t, k)
    BY DEF InOnePlace
  <2>3. CASE t = r.trie /\ k = r.key
    <3>1. c \in Waiting(t, k)
      BY <1>1, <2>3 DEF Waiting, r
    <3>2. /\ Stored(t)[k] # None /\ Waiting(t, k) = {c} /\ Queued(t, k) = {}
          /\ InTick(t, k) = {} /\ InTrie(t, k) = {}
      BY <2>2, <3>1 DEF PlaceOf, OneOf, NoneOf, Singleton
    <3>3. Waiting(t, k)' = {}
      BY <1>5, <3>2 DEF Waiting
    <3>4. Queued(t, k)' = {Len(u) + 1}
      BY <1>3, <1>6, <1>7, <2>3, <3>2 DEF Queued, u
    <3> QED
      BY <1>10, <2>1, <3>2, <3>3, <3>4 DEF PlaceOf, OneOf, Singleton
  <2>4. CASE t # r.trie \/ k # r.key
    <3>1. Waiting(t, k)' = Waiting(t, k)
      BY <1>1, <1>5, <2>4 DEF Waiting, r
    <3>2. Queued(t, k)' = Queued(t, k)
      <4>1. CASE t # r.trie
        BY <1>7, <4>1 DEF Queued
      <4>2. CASE t = r.trie
        <5>1. updates'[t] = Append(u, e) /\ updates[t] = u /\ e.key # k
          BY <1>3, <1>7, <2>4, <4>2 DEF u
        <5>2. \A i \in DOMAIN Append(u, e) :
                Append(u, e)[i].key = k <=> (i \in DOMAIN u /\ u[i].key = k)
          BY <1>6, <5>1
        <5> QED
          BY <1>6, <5>1, <5>2 DEF Queued
      <4> QED
        BY <4>1, <4>2
    <3> QED
      BY <1>1, <1>10, <2>1, <3>1, <3>2, PlacesKept
  <2> QED
    BY <2>3, <2>4
<1> QED
  BY <1>8, <1>11, <1>12, <1>13

-----------------------------------------------------------------------------
(* The timer's steps. *)

LEMMA TickStartInv ==
  ASSUME IInv, NEW t \in Tries, TickStart(t)
  PROVE  IInv'
<1> USE DEF IInv
<1> DEFINE b == updates[t]
           new == [pc |-> "insert", trie |-> t, batch |-> b]
<1>1. /\ ~locked /\ locked' = TRUE /\ tick' = new
      /\ updates' = [updates EXCEPT ![t] = <<>>]
      /\ UNCHANGED <<use, unsaved, moving, durable, missed, memory, published, seen, client,
                     restarts>>
  BY DEF TickStart, GetUpdates, elements, trieState
<1>2. tick.pc = "idle" /\ tick.pc \notin Taken /\ moving = NoElements
  BY <1>1, IdleTick DEF Taken, Types
<1>3. /\ b \in Seq(Entry) /\ new \in TickState
      /\ new.pc = "insert" /\ new.trie = t /\ new.batch = b
  BY DEF Types, TickState
<1> HIDE DEF new
<1>4. /\ updates'[t] = <<>> /\ updates' \in [Tries -> Seq(Entry)]
      /\ \A s \in Tries : s # t => updates'[s] = updates[s]
  <2>1. <<>> \in Seq(Entry)
    OBVIOUS
  <2> QED
    BY <1>1, <2>1 DEF Types
<1>5. Types'
  BY <1>1, <1>2, <1>3, <1>4 DEF Types, Tuples, Taken
<1>6. \A s \in Tries : Past(s)' \subseteq Past(s)
  <2> SUFFICES ASSUME NEW s \in Tries
               PROVE  ListedIn(updates'[s]) \cup Ticked(s)' \subseteq ListedIn(updates[s])
    BY <1>1 DEF Past, Handed
  <2>1. CASE s = t
    BY <1>1, <1>3, <1>4, <2>1 DEF Ticked, ListedIn
  <2>2. CASE s # t
    BY <1>1, <1>3, <1>4, <2>2 DEF Ticked
  <2> QED
    BY <2>1, <2>2
<1>7. \A s \in Tries : /\ Moving(s)' = Moving(s) /\ Stored(s)' = Stored(s)
                       /\ Missed(s)' = Missed(s)
  BY <1>1, <1>2 DEF Moving, Stored, Missed
<1>8. Backed'
  BY <1>1, <1>3, <1>6, <1>7, BackedKept DEF Taken
<1>9. Alone'
  BY <1>1, <1>7, CallFact DEF Alone
<1>10. InOnePlace'
  <2> SUFFICES ASSUME use.oneInsertPerKey /\ restarts = 0, NEW s \in Tries, NEW k \in Keys,
                      Missed(s) = {}
               PROVE  PlaceOf(s, k)'
    BY <1>1, <1>7 DEF InOnePlace
  <2>1. PlaceOf(s, k) /\ InTick(s, k) = {}
    BY <1>2 DEF InOnePlace, InTick
  <2>2. Waiting(s, k)' = Waiting(s, k) /\ InTrie(s, k)' = InTrie(s, k)
    BY <1>1 DEF Waiting, InTrie
  <2>3. CASE s = t
    <3>1. Queued(s, k)' = {}
      BY <1>4, <2>3 DEF Queued
    <3>2. InTick(s, k)' = Queued(s, k)
      BY <1>1, <1>3, <2>3 DEF InTick, Queued
    <3> QED
      BY <1>7, <2>1, <2>2, <3>1, <3>2 DEF PlaceOf, OneOf, NoneOf, Singleton
  <2>4. CASE s # t
    <3>1. Queued(s, k)' = Queued(s, k)
      BY <1>4, <2>4 DEF Queued
    <3>2. InTick(s, k)' = {}
      BY <1>1, <1>3, <2>4 DEF InTick
    <3> QED
      BY <1>1, <1>7, <2>1, <2>2, <3>1, <3>2, PlacesKept
  <2> QED
    BY <2>3, <2>4
<1> QED
  BY <1>5, <1>8, <1>9, <1>10

(* With one insert of a key at a time, the trie takes every batch. *)
LEMMA NothingRepeats ==
  ASSUME IInv, use.oneInsertPerKey, restarts = 0, tick.pc = "insert", Missed(tick.trie) = {}
  PROVE  ~Repeats(tick.trie, tick.batch)
<1> USE DEF IInv
<1>1. tick \in TickState /\ tick.trie \in Tries /\ tick.batch \in Seq(Entry)
  BY TickFact DEF TickState
<1>2. \A i \in DOMAIN tick.batch :
        /\ tick.batch[i].key \in Keys
        /\ InTick(tick.trie, tick.batch[i].key) = {i}
        /\ InTrie(tick.trie, tick.batch[i].key) = {}
  <2> SUFFICES ASSUME NEW i \in DOMAIN tick.batch
               PROVE  /\ tick.batch[i].key \in Keys
                      /\ InTick(tick.trie, tick.batch[i].key) = {i}
                      /\ InTrie(tick.trie, tick.batch[i].key) = {}
    OBVIOUS
  <2> DEFINE k == tick.batch[i].key
  <2>1. k \in Keys
    BY <1>1, ListedFact
  <2>2. i \in InTick(tick.trie, k)
    BY DEF InTick
  <2>3. PlaceOf(tick.trie, k)
    BY <1>1, <2>1 DEF InOnePlace
  <2> HIDE DEF k
  <2>4. InTick(tick.trie, k) = {i} /\ InTrie(tick.trie, k) = {}
    BY <2>2, <2>3 DEF PlaceOf, OneOf, NoneOf, Singleton
  <2> QED
    BY <2>1, <2>4 DEF k
<1>3. BatchKeys(tick.batch) \cap KeysOf(memory[tick.trie]) = {}
  BY <1>2 DEF BatchKeys, KeysOf, InTrie
<1>4. \A i, j \in DOMAIN tick.batch : tick.batch[i].key = tick.batch[j].key => i = j
  <2> SUFFICES ASSUME NEW i \in DOMAIN tick.batch, NEW j \in DOMAIN tick.batch,
                      tick.batch[i].key = tick.batch[j].key
               PROVE  i = j
    OBVIOUS
  <2>1. InTick(tick.trie, tick.batch[i].key) = {i} /\ InTick(tick.trie, tick.batch[j].key) = {j}
    BY <1>2
  <2> QED
    BY <2>1
<1> QED
  BY <1>3, <1>4 DEF Repeats

LEMMA TickThrowsInv ==
  ASSUME IInv, TickThrows
  PROVE  IInv'
<1> USE DEF IInv
<1>1. /\ tick.pc = "insert" /\ Repeats(tick.trie, tick.batch)
      /\ tick' = NoTick /\ NoTick.pc = "idle"
      /\ UNCHANGED <<use, unsaved, moving, durable, missed, updates, locked, memory, published,
                     seen, client, restarts>>
  BY DEF TickThrows, elements, trieState, NoTick
<1>2. tick.pc \notin Taken /\ tick'.pc \notin Taken /\ moving = NoElements
  BY <1>1 DEF Taken, Types
<1>3. \A t \in Tries : /\ Moving(t)' = Moving(t) /\ Stored(t)' = Stored(t)
                       /\ Missed(t)' = Missed(t)
  BY <1>1, <1>2 DEF Moving, Stored, Missed
<1>4. Types'
  BY <1>1, <1>2 DEF Types, Tuples
<1>5. \A t \in Tries : Past(t)' \subseteq Past(t)
  BY <1>1 DEF Past, Handed, Ticked
<1>6. Backed'
  BY <1>1, <1>2, <1>3, <1>5, BackedKept
<1>7. Alone'
  BY <1>1, <1>3, CallFact DEF Alone
<1>8. InOnePlace'
  <2> SUFFICES ASSUME use.oneInsertPerKey /\ restarts = 0, NEW t \in Tries, NEW k \in Keys,
                      Missed(t) = {}
               PROVE  PlaceOf(t, k)'
    BY <1>1, <1>3 DEF InOnePlace
  <2>1. tick.trie # t
    BY <1>1, NothingRepeats
  <2>2. InTick(t, k)' = {} /\ InTick(t, k) = {}
    BY <1>1, <2>1 DEF InTick
  <2>3. /\ Waiting(t, k)' = Waiting(t, k) /\ Queued(t, k)' = Queued(t, k)
        /\ InTrie(t, k)' = InTrie(t, k)
    BY <1>1 DEF Waiting, Queued, InTrie
  <2> QED
    BY <1>1, <1>3, <2>2, <2>3, PlacesKept
<1> QED
  BY <1>4, <1>6, <1>7, <1>8

LEMMA TickInsertInv ==
  ASSUME IInv, TickInsert
  PROVE  IInv'
<1> USE DEF IInv
<1> DEFINE t == tick.trie
           b == tick.batch
           m == Added(memory[t], b)
<1>1. /\ tick.pc = "insert" /\ ~Repeats(t, b)
      /\ memory' = [memory EXCEPT ![t] = m] /\ tick' = [tick EXCEPT !.pc = "flush"]
      /\ UNCHANGED <<use, unsaved, moving, durable, missed, updates, locked, published, seen,
                     client, restarts>>
  BY DEF TickInsert, elements
<1>2. tick \in TickState /\ t \in Tries /\ b \in Seq(Entry) /\ locked
  BY <1>1, TickFact DEF TickState
<1>3. tick' \in TickState /\ tick'.pc = "flush" /\ tick'.trie = t /\ tick'.batch = b
  BY <1>1, <1>2 DEF TickState
<1>4. memory'[t] = m /\ \A s \in Tries : s # t => memory'[s] = memory[s]
  BY <1>1, <1>2 DEF Types
<1>5. \A i \in DOMAIN b : b[i].key \in Keys /\ b[i].payload \in Payloads
  BY <1>2, ListedFact
<1>6. \A e \in m : e \in memory[t] \/ \E i \in DOMAIN b :
        e[1] = b[i].key /\ e[2] = b[i].payload
  BY DEF Added
<1> HIDE DEF t, b, m
<1>7. Types'
  <2>1. Tuples(m)
    BY <1>2, <1>5, <1>6 DEF Types, Tuples
  <2>2. memory' = [s \in Tries |-> memory'[s]]
    BY <1>1 DEF Types
  <2>3. \A s \in Tries : Tuples(memory'[s])
    BY <1>4, <2>1 DEF Types
  <2>4. tick' # NoTick
    BY <1>3 DEF NoTick
  <2> QED
    BY <1>1, <1>2, <1>3, <2>2, <2>3, <2>4 DEF Types, Tuples, Taken
<1>8. \A s \in Tries : Past(s)' \subseteq Past(s)
  <2> SUFFICES ASSUME NEW s \in Tries
               PROVE  Ticked(s)' \cup PairsOf(memory'[s]) \subseteq Ticked(s) \cup PairsOf(memory[s])
    BY <1>1 DEF Past, Handed
  <2>1. Ticked(s)' = Ticked(s)
    BY <1>1, <1>3 DEF Ticked, t, b
  <2>2. CASE s = t
    <3>1. PairsOf(m) \subseteq PairsOf(memory[t]) \cup ListedIn(b)
      BY <1>6 DEF PairsOf, ListedIn
    <3> QED
      BY <1>1, <1>4, <2>1, <2>2, <3>1 DEF Ticked, t, b
  <2>3. CASE s # t
    BY <1>4, <2>1, <2>3
  <2> QED
    BY <2>2, <2>3
<1>9. \A s \in Tries : /\ Moving(s)' = Moving(s) /\ Stored(s)' = Stored(s)
                       /\ Missed(s)' = Missed(s)
  BY <1>1, <1>3 DEF Moving, Stored, Missed, t
<1>10. Backed'
  BY <1>1, <1>3, <1>8, <1>9, BackedKept DEF Taken
<1>11. Alone'
  BY <1>1, <1>9, CallFact DEF Alone
<1>12. InOnePlace'
  <2> SUFFICES ASSUME use.oneInsertPerKey /\ restarts = 0, NEW s \in Tries, NEW k \in Keys,
                      Missed(s) = {}
               PROVE  PlaceOf(s, k)'
    BY <1>1, <1>9 DEF InOnePlace
  <2>1. Waiting(s, k)' = Waiting(s, k) /\ Queued(s, k)' = Queued(s, k)
    BY <1>1 DEF Waiting, Queued
  <2>2. InTick(s, k)' = {}
    BY <1>3 DEF InTick
  <2>3. PlaceOf(s, k)
    BY DEF InOnePlace
  <2>4. CASE InTick(s, k) = {}
    <3>1. InTrie(s, k)' = InTrie(s, k)
      <4>1. CASE s # t
        BY <1>4, <4>1 DEF InTrie
      <4>2. CASE s = t
        <5>1. \A i \in DOMAIN b : b[i].key # k
          BY <1>1, <2>4, <4>2 DEF InTick, t, b
        <5>2. \A e \in m : e[1] = k => e \in memory[t]
          BY <1>6, <5>1
        <5>3. memory[t] \subseteq m
          BY DEF m, Added
        <5> QED
          BY <1>4, <4>2, <5>2, <5>3 DEF InTrie
      <4> QED
        BY <4>1, <4>2
    <3> QED
      BY <1>1, <1>9, <2>1, <2>2, <2>4, <3>1, PlacesKept
  <2>5. CASE InTick(s, k) # {}
    <3>1. PICK i : InTick(s, k) = {i}
      BY <2>3, <2>5 DEF PlaceOf, OneOf, NoneOf, Singleton
    <3>2. s = t /\ i \in DOMAIN b /\ b[i].key = k
      BY <3>1 DEF InTick, t, b
    <3>3. \A j \in DOMAIN b : b[j].key = k => j = i
      BY <1>1, <3>1, <3>2 DEF InTick, t, b
    <3>4. /\ Stored(s)[k] # None /\ Waiting(s, k) = {} /\ Queued(s, k) = {}
          /\ InTrie(s, k) = {}
      BY <2>3, <3>1 DEF PlaceOf, OneOf, NoneOf, Singleton
    <3> DEFINE e == <<b[i].key, b[i].payload, EpochOf(memory[t]) + 1>>
    <3>5. e \in m /\ e[1] = k
      BY <3>2 DEF m, Added
    <3>6. \A d \in m : d[1] = k => d = e
      <4> SUFFICES ASSUME NEW d \in m, d[1] = k PROVE d = e
        OBVIOUS
      <4>1. d \notin memory[t]
        BY <3>2, <3>4 DEF InTrie
      <4>2. PICK j \in DOMAIN b : d = <<b[j].key, b[j].payload, EpochOf(memory[t]) + 1>>
        BY <4>1 DEF m, Added
      <4>3. j = i
        BY <3>3, <4>2
      <4> QED
        BY <4>2, <4>3
    <3> HIDE DEF e
    <3>7. InTrie(s, k)' = {e}
      BY <1>4, <3>2, <3>5, <3>6 DEF InTrie
    <3> QED
      BY <1>9, <2>1, <2>2, <3>4, <3>7 DEF PlaceOf, OneOf, Singleton
  <2> QED
    BY <2>4, <2>5
<1> QED
  BY <1>7, <1>10, <1>11, <1>12

(* The steps of a flush keep what is stored, but for what it misses; and   *)
(* what has been copied, with what is durable, backs the trie.             *)
LEMMA FlushStep ==
  ASSUME IInv, UNCHANGED <<use, updates, memory, seen, client, restarts>>,
         missed \subseteq missed', tick'.trie = tick.trie, tick'.batch = tick.batch,
         tick.pc \notin {"idle", "insert"}, tick'.pc \notin {"idle", "insert"},
         \A t \in Tries : published'[t] = published[t] \/ published'[t] = memory[t],
         \A t \in Tries, k \in Keys : k \in Missed(t)' \/ Stored(t)'[k] = Stored(t)[k]
  PROVE  /\ Alone' /\ InOnePlace'
         /\ \A t \in Tries : Past(t)' \subseteq Past(t) /\ Missed(t) \subseteq Missed(t)'
<1> USE DEF IInv
<1>1. \A t \in Tries : Missed(t) \subseteq Missed(t)'
  BY DEF Missed
<1>2. Alone'
  <2>1. \A c \in Clients : client[c].pc # "idle" => client[c].trie \in Tries /\ client[c].key \in Keys
    BY CallFact
  <2> QED
    BY <1>1, <2>1 DEF Alone
<1>3. InOnePlace'
  <2> SUFFICES ASSUME use.oneInsertPerKey /\ restarts = 0, NEW t \in Tries, NEW k \in Keys
               PROVE  Missed(t)' = {} => PlaceOf(t, k)'
    BY DEF InOnePlace
  <2>1. InTick(t, k)' = {} /\ InTick(t, k) = {}
    BY DEF InTick
  <2>2. /\ Waiting(t, k)' = Waiting(t, k) /\ Queued(t, k)' = Queued(t, k)
        /\ InTrie(t, k)' = InTrie(t, k)
    BY DEF Waiting, Queued, InTrie
  <2> QED
    BY <2>1, <2>2, PlacesKept
<1>4. ASSUME NEW t \in Tries PROVE Past(t)' \subseteq Past(t)
  <2>1. Handed(t)' = Handed(t) /\ Ticked(t)' = Ticked(t)
    BY DEF Handed, Ticked
  <2>2. PairsOf(published'[t]) \subseteq PairsOf(published[t]) \cup PairsOf(memory[t])
    OBVIOUS
  <2> QED
    BY <2>1, <2>2 DEF Past
<1> QED
  BY <1>1, <1>2, <1>3, <1>4

LEMMA TickCopyInv ==
  ASSUME IInv, TickCopy
  PROVE  IInv'
<1> USE DEF IInv
<1> DEFINE r == tick.trie
<1>1. /\ tick.pc = "flush" /\ moving' = unsaved[r] /\ tick' = [tick EXCEPT !.pc = "clear"]
      /\ UNCHANGED <<use, unsaved, durable, missed, updates, locked, memory, published, seen,
                     client, restarts>>
  BY DEF TickCopy, trieState
<1>2. tick \in TickState /\ r \in Tries /\ locked /\ moving = NoElements
  BY <1>1, TickFact DEF TickState, Types, Taken
<1>3. tick' \in TickState /\ tick'.pc = "clear" /\ tick'.trie = r /\ tick'.batch = tick.batch
  BY <1>1, <1>2 DEF TickState
<1> HIDE DEF r
<1>4. Types'
  <2>1. moving' \in ElementMap /\ tick' # NoTick
    BY <1>1, <1>2, <1>3 DEF Types, ElementMaps, NoTick
  <2> QED
    BY <1>1, <1>2, <1>3, <2>1 DEF Types, Taken
<1>5. \A t \in Tries : /\ Moving(t)' = (IF t = r THEN unsaved[r] ELSE NoElements)
                       /\ Moving(t) = NoElements
  BY <1>1, <1>2, <1>3 DEF Moving, r
<1>6. ASSUME NEW t \in Tries, NEW k \in Keys
      PROVE  /\ Stored(t)'[k] = Stored(t)[k]
             /\ t = r => Stored(t)[k] = Over(moving', durable[t])[k]
  BY <1>1, <1>5 DEF Stored, Over, NoElements
<1>7. /\ Alone' /\ InOnePlace'
      /\ \A t \in Tries : Past(t)' \subseteq Past(t) /\ Missed(t) \subseteq Missed(t)'
  BY <1>1, <1>3, <1>6, FlushStep DEF r
<1>8. Backed'
  <2>1. ASSUME NEW t \in Tries, NEW p \in Past(t)', p[1] \notin Missed(t)'
        PROVE  Right(t, p)'
    <3>1. p[1] \in Keys /\ Right(t, p)
      BY <1>7, <2>1, PastKey DEF Backed
    <3>2. Stored(t)'[p[1]] = Stored(t)[p[1]]
      BY <1>6, <3>1
    <3>3. Moving(t)'[p[1]] \in {unsaved[t][p[1]], None}
      BY <1>5, <3>1 DEF NoElements
    <3> QED
      BY <1>1, <3>1, <3>2, <3>3 DEF Right
  <2>2. ASSUME NEW p \in PairsOf(memory[r]), p[1] \notin Missed(r)
        PROVE  Over(moving', durable[r])[p[1]] # None
    <3>1. p \in Past(r)
      BY <2>2 DEF Past
    <3>2. p[1] \in Keys /\ Right(r, p)
      BY <1>2, <1>7, <2>2, <3>1, PastKey DEF Backed
    <3> QED
      BY <1>2, <1>6, <3>2 DEF Right
  <2> QED
    BY <1>1, <1>3, <1>7, <2>1, <2>2 DEF Backed
<1> QED
  BY <1>4, <1>7, <1>8

LEMMA TickClearInv ==
  ASSUME IInv, TickClear
  PROVE  IInv'
<1> USE DEF IInv
<1> DEFINE r == tick.trie
<1>1. /\ tick.pc = "clear" /\ unsaved' = [unsaved EXCEPT ![r] = NoElements]
      /\ missed' = missed \cup ({r} \X Lost(r)) /\ tick' = [tick EXCEPT !.pc = "hand over"]
      /\ UNCHANGED <<use, moving, durable, updates, locked, memory, published, seen, client,
                     restarts>>
  BY DEF TickClear, trieState
<1>2. tick \in TickState /\ r \in Tries /\ locked
  BY <1>1, TickFact DEF TickState
<1>3. /\ tick' \in TickState /\ tick'.pc = "hand over" /\ tick'.trie = r
      /\ tick'.batch = tick.batch
  BY <1>1, <1>2 DEF TickState
<1>4. unsaved'[r] = NoElements /\ \A t \in Tries : t # r => unsaved'[t] = unsaved[t]
  BY <1>1, <1>2 DEF Types, ElementMaps
<1> HIDE DEF r
<1>5. Types'
  <2>1. unsaved' \in ElementMaps /\ tick' # NoTick
    BY <1>1, <1>2, <1>3 DEF Types, ElementMaps, ElementMap, NoElements, NoTick
  <2> QED
    BY <1>1, <1>2, <1>3, <2>1 DEF Types, Taken
<1>6. \A t \in Tries : Moving(t)' = Moving(t)
  BY <1>1, <1>3 DEF Moving, r
<1>7. ASSUME NEW t \in Tries, NEW k \in Keys
      PROVE  k \in Missed(t)' \/ Stored(t)'[k] = Stored(t)[k]
  <2>1. CASE t # r
    BY <1>1, <1>4, <1>6, <2>1 DEF Stored
  <2>2. CASE t = r /\ k \in Lost(r)
    BY <1>1, <2>2 DEF Missed
  <2>3. CASE t = r /\ k \notin Lost(r)
    <3>1. unsaved[t][k] \in {None, Moving(t)[k]}
      BY <2>3 DEF Lost, Moving, r
    <3>2. unsaved'[t][k] = None
      BY <1>4, <2>3 DEF NoElements
    <3> QED
      BY <1>1, <1>6, <3>1, <3>2 DEF Stored, Over
  <2> QED
    BY <2>1, <2>2, <2>3
<1>8. /\ Alone' /\ InOnePlace'
      /\ \A t \in Tries : Past(t)' \subseteq Past(t) /\ Missed(t) \subseteq Missed(t)'
  BY <1>1, <1>3, <1>7, FlushStep DEF r
<1>9. Backed'
  <2>1. ASSUME NEW t \in Tries, NEW p \in Past(t)', p[1] \notin Missed(t)'
        PROVE  Right(t, p)'
    <3>1. p[1] \in Keys /\ Right(t, p)
      BY <1>8, <2>1, PastKey DEF Backed
    <3>2. Stored(t)'[p[1]] = Stored(t)[p[1]]
      BY <1>7, <2>1, <3>1
    <3>3. unsaved'[t][p[1]] \in {unsaved[t][p[1]], None}
      BY <1>4, <3>1 DEF NoElements
    <3> QED
      BY <1>1, <1>6, <3>1, <3>2, <3>3 DEF Right
  <2> QED
    BY <1>1, <1>3, <1>8, <2>1 DEF Backed, Taken, r
<1> QED
  BY <1>5, <1>8, <1>9

LEMMA TickHandOverInv ==
  ASSUME IInv, TickHandOver
  PROVE  IInv'
<1> USE DEF IInv
<1> DEFINE r == tick.trie
           d == Over(moving, durable[r])
<1>1. /\ tick.pc = "hand over" /\ tick' = [tick EXCEPT !.pc = "end"]
      /\ published' = [published EXCEPT ![r] = memory[r]]
      /\ durable' = [durable EXCEPT ![r] = d] /\ moving' = NoElements
      /\ UNCHANGED <<use, unsaved, missed, updates, locked, memory, seen, client, restarts>>
  BY DEF TickHandOver
<1>2. tick \in TickState /\ r \in Tries /\ locked
  BY <1>1, TickFact DEF TickState
<1>3. tick' \in TickState /\ tick'.pc = "end" /\ tick'.trie = r /\ tick'.batch = tick.batch
  BY <1>1, <1>2 DEF TickState
<1>4. /\ published'[r] = memory[r] /\ durable'[r] = d
      /\ \A t \in Tries : t # r => published'[t] = published[t] /\ durable'[t] = durable[t]
  BY <1>1, <1>2 DEF Types, ElementMaps
<1>5. \A k \in Keys : d[k] = IF moving[k] # None THEN moving[k] ELSE durable[r][k]
  BY DEF Over
<1>6. d \in ElementMap
  BY <1>2 DEF Types, ElementMaps, ElementMap, Over
<1> HIDE DEF r, d
<1>7. Types'
  <2>1. durable' \in ElementMaps /\ moving' \in ElementMap
    BY <1>1, <1>2, <1>6 DEF Types, ElementMaps, ElementMap, NoElements
  <2>2. published' = [t \in Tries |-> published'[t]]
    BY <1>1 DEF Types
  <2>3. \A t \in Tries : Tuples(published'[t])
    BY <1>2, <1>4 DEF Types
  <2>4. tick' # NoTick
    BY <1>3 DEF NoTick
  <2> QED
    BY <1>1, <1>2, <1>3, <2>1, <2>2, <2>3, <2>4 DEF Types, Taken
<1>8. /\ Moving(r) = moving /\ \A t \in Tries : Moving(t)' = NoElements
      /\ \A t \in Tries : t # r => Moving(t) = NoElements
  BY <1>1 DEF Moving, r
<1>9. ASSUME NEW t \in Tries, NEW k \in Keys
      PROVE  Stored(t)'[k] = Stored(t)[k]
  <2>1. Stored(t)'[k] = IF unsaved[t][k] # None THEN unsaved[t][k] ELSE durable'[t][k]
    <3>1. unsaved' = unsaved /\ Moving(t)'[k] = None
      BY <1>1, <1>8 DEF NoElements
    <3> QED
      BY <3>1 DEF Stored, Over
  <2>2. durable'[t][k] = IF Moving(t)[k] # None THEN Moving(t)[k] ELSE durable[t][k]
    BY <1>4, <1>5, <1>8 DEF NoElements
  <2> QED
    BY <2>1, <2>2, StoredFact
<1>10. \A t \in Tries : Missed(t)' = Missed(t)
  BY <1>1 DEF Missed
<1>11. /\ Alone' /\ InOnePlace'
       /\ \A t \in Tries : Past(t)' \subseteq Past(t) /\ Missed(t) \subseteq Missed(t)'
  BY <1>1, <1>3, <1>4, <1>9, FlushStep DEF r
<1>12. Backed'
  <2>1. ASSUME NEW t \in Tries, NEW p \in Past(t)', p[1] \notin Missed(t)
        PROVE  Right(t, p)'
    <3>1. p[1] \in Keys /\ Right(t, p)
      BY <1>11, <2>1, PastKey DEF Backed
    <3>2. Stored(t)'[p[1]] = Stored(t)[p[1]] /\ Moving(t)'[p[1]] = None
      BY <1>8, <1>9, <3>1 DEF NoElements
    <3>3. durable'[t][p[1]] \in {durable[t][p[1]], Moving(t)[p[1]]}
      BY <1>4, <1>5, <1>8, <3>1
    <3> QED
      BY <1>1, <3>1, <3>2, <3>3 DEF Right
  <2>2. ASSUME NEW t \in Tries, NEW p \in PairsOf(published[t]) \cup PairsOf(seen[t]),
               p[1] \notin Missed(t)
        PROVE  durable'[t][p[1]] # None
    <3>1. p[1] \in Keys /\ durable[t][p[1]] # None
      BY <2>2, PastKey DEF Backed, Past
    <3> QED
      BY <1>4, <1>5, <3>1
  <2>3. ASSUME NEW p \in PairsOf(memory[r]), p[1] \notin Missed(r)
        PROVE  durable'[r][p[1]] # None
    <3>1. tick.pc \in Taken /\ tick.trie = r
      BY <1>1 DEF Taken, r
    <3>2. Over(moving, durable[r])[p[1]] # None
      BY <1>2, <2>3, <3>1 DEF Backed
    <3> QED
      BY <1>4, <3>2 DEF d
  <2>4. ASSUME NEW t \in Tries, NEW p \in PairsOf(published'[t]) \cup PairsOf(seen'[t]),
               p[1] \notin Missed(t)
        PROVE  durable'[t][p[1]] # None
    <3>1. \/ p \in PairsOf(published[t]) \cup PairsOf(seen[t])
          \/ t = r /\ p \in PairsOf(memory[r])
      BY <1>1, <1>4, <2>4
    <3> QED
      BY <2>2, <2>3, <2>4, <3>1
  <2> QED
    BY <1>3, <1>10, <2>1, <2>4 DEF Backed, Taken
<1> QED
  BY <1>7, <1>11, <1>12

LEMMA TickEndInv ==
  ASSUME IInv, TickEnd
  PROVE  IInv'
<1> USE DEF IInv
<1>1. /\ tick.pc = "end" /\ tick' = NoTick /\ NoTick.pc = "idle" /\ locked' = FALSE
      /\ UNCHANGED <<use, unsaved, moving, durable, missed, updates, memory, published, seen,
                     client, restarts>>
  BY DEF TickEnd, NoTick, elements, trieState
<1>2. tick.pc \notin Taken /\ tick'.pc \notin Taken /\ moving = NoElements
  BY <1>1 DEF Taken, Types
<1>3. \A t \in Tries : /\ Moving(t)' = Moving(t) /\ Stored(t)' = Stored(t)
                       /\ Missed(t)' = Missed(t)
  BY <1>1, <1>2 DEF Moving, Stored, Missed
<1>4. Types'
  BY <1>1, <1>2 DEF Types, Tuples
<1>5. \A t \in Tries : Past(t)' \subseteq Past(t)
  BY <1>1 DEF Past, Handed, Ticked
<1>6. Backed'
  BY <1>1, <1>2, <1>3, <1>5, BackedKept
<1>7. Alone'
  BY <1>1, <1>3, CallFact DEF Alone
<1>8. InOnePlace'
  <2> SUFFICES ASSUME use.oneInsertPerKey /\ restarts = 0, NEW t \in Tries, NEW k \in Keys
               PROVE  Missed(t)' = {} => PlaceOf(t, k)'
    BY <1>1 DEF InOnePlace
  <2>1. InTick(t, k)' = {} /\ InTick(t, k) = {}
    BY <1>1 DEF InTick
  <2>2. /\ Waiting(t, k)' = Waiting(t, k) /\ Queued(t, k)' = Queued(t, k)
        /\ InTrie(t, k)' = InTrie(t, k)
    BY <1>1 DEF Waiting, Queued, InTrie
  <2> QED
    BY <1>1, <1>3, <2>1, <2>2, PlacesKept
<1> QED
  BY <1>4, <1>6, <1>7, <1>8

-----------------------------------------------------------------------------
LEMMA CheckForUpdateInv ==
  ASSUME IInv, NEW t \in Tries, CheckForUpdate(t)
  PROVE  IInv'
<1> USE DEF IInv
<1>1. /\ seen' = [seen EXCEPT ![t] = published[t]]
      /\ UNCHANGED <<use, unsaved, moving, durable, missed, updates, locked, tick, memory,
                     published, client, restarts>>
  BY DEF CheckForUpdate, elements, trieState
<1>2. seen'[t] = published[t] /\ \A s \in Tries : s # t => seen'[s] = seen[s]
  BY <1>1 DEF Types
<1>3. Types'
  <2>1. seen' = [s \in Tries |-> seen'[s]]
    BY <1>1 DEF Types
  <2>2. \A s \in Tries : Tuples(seen'[s])
    BY <1>2 DEF Types
  <2> QED
    BY <1>1, <2>1, <2>2 DEF Types, NoTick
<1>4. \A s \in Tries : Past(s)' \subseteq Past(s)
  BY <1>1, <1>2 DEF Past, Handed, Ticked
<1>5. \A s \in Tries : /\ Moving(s)' = Moving(s) /\ Stored(s)' = Stored(s)
                       /\ Missed(s)' = Missed(s)
  BY <1>1 DEF Moving, Stored, Missed
<1>6. \A s \in Tries : PairsOf(published'[s]) \cup PairsOf(seen'[s])
                         \subseteq PairsOf(published[s]) \cup PairsOf(seen[s])
  BY <1>1, <1>2
<1>7. Backed'
  BY <1>1, <1>4, <1>5, <1>6, BackedKept
<1>8. Alone'
  BY <1>1, <1>5, CallFact DEF Alone
<1>9. InOnePlace'
  BY <1>1, <1>5, PlacesKept DEF InOnePlace, Waiting, Queued, InTick, InTrie
<1> QED
  BY <1>3, <1>7, <1>8, <1>9

(* What is durable is all that the new process knows. *)
LEMMA RestartInv ==
  ASSUME IInv, Restart
  PROVE  IInv'
<1> USE DEF IInv
<1>1. /\ restarts' = restarts + 1
      /\ unsaved' = [t \in Tries |-> NoElements] /\ moving' = NoElements
      /\ updates' = [t \in Tries |-> <<>>] /\ tick' = NoTick /\ NoTick.pc = "idle"
      /\ memory' = [t \in Tries |-> {}] /\ seen' = [t \in Tries |-> {}]
      /\ client' = [c \in Clients |-> NoCall] /\ NoCall.pc = "idle"
      /\ UNCHANGED <<use, durable, missed, published>>
  BY DEF Restart, NoTick, NoCall
<1>2. Types'
  <2>1. moving' \in ElementMap /\ unsaved' \in ElementMaps
    BY <1>1 DEF ElementMap, ElementMaps, NoElements
  <2> QED
    BY <1>1, <2>1 DEF Types, Tuples
<1>3. \A t \in Tries : Past(t)' = PairsOf(published[t])
  <2> SUFFICES ASSUME NEW t \in Tries PROVE Past(t)' = PairsOf(published[t])
    OBVIOUS
  <2>1. Handed(t)' = {} /\ Ticked(t)' = {}
    BY <1>1 DEF Handed, Ticked
  <2>2. ListedIn(updates'[t]) = {} /\ PairsOf(memory'[t]) = {} /\ PairsOf(seen'[t]) = {}
    BY <1>1 DEF ListedIn, PairsOf
  <2> QED
    BY <1>1, <2>1, <2>2 DEF Past
<1>4. Backed'
  <2>1. \A t \in Tries : Moving(t)' = NoElements /\ Missed(t)' = Missed(t)
    BY <1>1 DEF Moving, Missed
  <2>2. ASSUME NEW t \in Tries, NEW p \in PairsOf(published[t]), p[1] \notin Missed(t)
        PROVE  durable[t][p[1]] # None /\ Right(t, p)'
    <3>1. p \in Past(t)
      BY <2>2 DEF Past
    <3>2. p[1] \in Keys /\ durable[t][p[1]] # None /\ Right(t, p)
      BY <2>2, <3>1, PastKey DEF Backed
    <3>3. /\ unsaved'[t][p[1]] = None /\ Moving(t)'[p[1]] = None
          /\ Stored(t)'[p[1]] = durable[t][p[1]]
      BY <1>1, <2>1, <3>2 DEF Stored, Over, NoElements
    <3> QED
      BY <1>1, <3>2, <3>3 DEF Right
  <2>3. \A t \in Tries : PairsOf(seen'[t]) = {}
    BY <1>1 DEF PairsOf
  <2> QED
    BY <1>1, <1>3, <2>1, <2>2, <2>3 DEF Backed, Taken
<1>5. Alone'
  BY <1>1 DEF Alone
<1>6. InOnePlace'
  BY <1>1 DEF InOnePlace, Types
<1> QED
  BY <1>2, <1>4, <1>5, <1>6

LEMMA StutterInv ==
  ASSUME IInv, UNCHANGED <<use, elements, updates, locked, tick, trieState, seen, client,
                           restarts>>
  PROVE  IInv'
<1> USE DEF IInv
<1>1. Types'
  BY DEF Types, Tuples, NoTick, elements, trieState
<1>2. \A t \in Tries : /\ Moving(t)' = Moving(t) /\ Stored(t)' = Stored(t)
                       /\ Missed(t)' = Missed(t)
  BY DEF Moving, Stored, Missed, elements
<1>3. \A t \in Tries : Past(t)' \subseteq Past(t)
  BY DEF Past, Handed, Ticked, trieState
<1>4. Backed'
  BY <1>2, <1>3, BackedKept DEF elements, trieState
<1>5. Alone'
  BY <1>2, CallFact DEF Alone
<1>6. InOnePlace'
  BY <1>2, PlacesKept DEF InOnePlace, Waiting, Queued, InTick, InTrie, elements, trieState
<1> QED
  BY <1>1, <1>4, <1>5, <1>6

LEMMA NextInv == IInv /\ [Next]_vars => IInv'
<1> SUFFICES ASSUME IInv, [Next]_vars PROVE IInv'
  OBVIOUS
<1>1. CASE \E c \in Clients : \E t \in Tries, k \in Keys, p \in Payloads : BeginInsert(c, t, k, p)
  BY <1>1, BeginInv
<1>2. CASE \E c \in Clients : SaveElement(c)
  BY <1>2, SaveInv
<1>3. CASE \E c \in Clients : Enqueue(c)
  BY <1>3, EnqueueInv
<1>4. CASE InsertBatch
  BY <1>4, StutterInv DEF InsertBatch
<1>5. CASE \E t \in Tries : TickStart(t)
  BY <1>5, TickStartInv
<1>6. CASE \E t \in Tries : CheckForUpdate(t)
  BY <1>6, CheckForUpdateInv
<1>7. CASE TickThrows
  BY <1>7, TickThrowsInv
<1>8. CASE TickInsert
  BY <1>8, TickInsertInv
<1>9. CASE TickCopy
  BY <1>9, TickCopyInv
<1>10. CASE TickClear
  BY <1>10, TickClearInv
<1>11. CASE TickHandOver
  BY <1>11, TickHandOverInv
<1>12. CASE TickEnd
  BY <1>12, TickEndInv
<1>13. CASE Restart
  BY <1>13, RestartInv
<1>14. CASE UNCHANGED vars
  BY <1>14, StutterInv DEF vars
<1> QED
  BY <1>1, <1>2, <1>3, <1>4, <1>5, <1>6, <1>7, <1>8, <1>9, <1>10, <1>11, <1>12, <1>13, <1>14
     DEF Next

LEMMA Inductive == Spec => []IInv
BY InitInv, NextInv, PTL DEF Spec

-----------------------------------------------------------------------------
LEMMA TupleHasElement ==
  ASSUME IInv, NEW t \in Tries, NEW e \in seen[t] \cup published[t], e[1] \notin Missed(t)
  PROVE  /\ e[1] \in Keys /\ durable[t][e[1]] # None /\ Elements(t)[e[1]] # None
         /\ use.oneInsertPerKey => durable[t][e[1]] = e[2] /\ Elements(t)[e[1]] = e[2]
<1> DEFINE p == <<e[1], e[2]>>
<1>1. p \in PairsOf(published[t]) \cup PairsOf(seen[t]) /\ p[1] = e[1] /\ p[2] = e[2]
  BY DEF PairsOf
<1>2. p \in Past(t)
  BY <1>1 DEF Past
<1> HIDE DEF p
<1>3. p[1] \in Keys /\ durable[t][p[1]] # None /\ Right(t, p)
  BY <1>1, <1>2, PastKey DEF IInv, Backed
<1> QED
  BY <1>1, <1>3 DEF Right, Elements, Over

(* What a querier finds has a store element, and what is published has one *)
(* that survives the process, unless the insert of the key met a flush.    *)
THEOREM ElementOfFound == Spec => []FoundHasElement
<1>1. IInv => FoundHasElement
  BY TupleHasElement DEF KeysOf, FoundHasElement
<1> QED
  BY <1>1, Inductive, PTL

(* When no two inserts of a key run at a time, the element is the one that *)
(* the trie commits to, with the same exception.                           *)
THEOREM PayloadOfFound == Spec => []PayloadOfOneInsert
<1>1. IInv => PayloadOfOneInsert
  BY TupleHasElement DEF FoundHasPayload, PayloadOfOneInsert
<1> QED
  BY <1>1, Inductive, PTL

(* What such callers have stored is in one place, in a process that is not *)
(* stopped and a trie none of whose inserts met a flush.                   *)
THEOREM PlaceOfStored == Spec => []StoredOnceIsInsertedOnce
<1>1. ASSUME NEW S, Singleton(S) PROVE Cardinality(S) = 1
  BY <1>1, FS_Singleton DEF Singleton
<1>2. Cardinality({}) = 0
  BY FS_EmptySet
<1>3. IInv => StoredOnceIsInsertedOnce
  <2> SUFFICES ASSUME IInv, use.oneInsertPerKey /\ restarts = 0,
                      NEW t \in Tries, NEW k \in Keys, Missed(t) = {}
               PROVE  Cardinality(Waiting(t, k)) + Cardinality(Queued(t, k))
                        + Cardinality(InTick(t, k)) + Cardinality(InTrie(t, k))
                        = IF Stored(t)[k] = None THEN 0 ELSE 1
    BY DEF StoredOnceIsInsertedOnce
  <2>1. PlaceOf(t, k)
    BY DEF IInv, InOnePlace
  <2> QED
    BY <1>1, <1>2, <2>1 DEF PlaceOf, OneOf, NoneOf
<1> QED
  BY <1>3, Inductive, PTL

=============================================================================
