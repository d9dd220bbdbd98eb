------------------------- MODULE StorageStack_proofs -------------------------
(***************************************************************************)
(* Proofs about the layers of storage, for any entries, capacity and       *)
(* number of saves, with and without a cache or a batch inserter: a cache  *)
(* that one thread uses, and which flushes one trie before it writes       *)
(* another, never hides a newer value; a flush of one trie at a time       *)
(* changes no answer; and the layers together implement one map.           *)
(***************************************************************************)
EXTENDS StorageStack, TLAPS

(* The callers of a stack that has a cache: one thread, one trie at a time.*)
OneCallerPerCache ==
  \A s \in Stacks :
    s.cache => s.oneTrieAtATime /\ \A t, u \in s.callers : t = u

Pcs == {"idle", "load", "fill", "update", "flush"}
OpType == [Threads -> [pc : Pcs, entry : Entries, value : Nat]]

Types ==
  /\ stack \in Stacks
  /\ backing \in [Entries -> Nat]
  /\ DOMAIN unsaved \subseteq Entries /\ \A e \in DOMAIN unsaved : unsaved[e] \in Nat
  /\ DOMAIN moving \subseteq Entries /\ \A e \in DOMAIN moving : moving[e] \in Nat
  /\ DOMAIN cached \subseteq Entries
  /\ op \in OpType
  /\ saves \in Nat

(* Threads that do not call are idle; layers that are missing are not used. *)
Callers ==
  /\ \A t \in Threads : op[t].pc # "idle" => t \in stack.callers
  /\ ~HasInserter => DOMAIN unsaved = {}
  /\ ~HasCache => /\ DOMAIN cached = {}
                  /\ \A t \in Threads : op[t].pc \in {"idle", "flush"}

(* What a flush has moved out is unsaved too until the maps are cleared,   *)
(* and belongs to the trie that is flushed.                                *)
Flushes ==
  /\ flushing.pc = "idle" => DOMAIN moving = {} /\ \A t \in Threads : op[t].pc # "flush"
  /\ flushing.pc # "idle" =>
       /\ \E t \in Threads : op[t].pc = "flush"
       /\ \A x \in DOMAIN moving : x.trie = flushing.trie
  /\ flushing.pc = "clear" => moving = unsaved
  /\ flushing.pc = "hand over" => DOMAIN unsaved = {}
  /\ flushing.pc \in {"idle", "clear", "hand over"}

(* What a call is about to put in the cache is what the layers below hold. *)
CallsAreCurrent ==
  \A t \in Threads :
    op[t].pc \in {"fill", "update"} => op[t].value = Kept(op[t].entry)

IInv == Types /\ Callers /\ (HasCache => Flushes /\ CallsAreCurrent /\ CacheIsCurrent)

-----------------------------------------------------------------------------
LEMMA AnyEntryFact == AnyEntry \in Entries
  BY EntriesAssumption DEF AnyEntry

LEMMA NoCallType == NoCall \in [pc : Pcs, entry : Entries, value : Nat]
  BY AnyEntryFact DEF NoCall, Pcs, Absent

LEMMA InitInv == Init => IInv
<1> SUFFICES ASSUME Init PROVE IInv
  OBVIOUS
<1>1. Types
  BY NoCallType DEF Init, Types, Nothing, Absent, OpType
<1>2. Callers
  BY DEF Init, Callers, Nothing, NoCall
<1>3. Flushes
  BY DEF Init, Flushes, Nothing, NotFlushing, NoCall
<1>4. CallsAreCurrent
  BY DEF Init, CallsAreCurrent, NoCall
<1>5. CacheIsCurrent
  BY DEF Init, CacheIsCurrent, Nothing
<1> QED
  BY <1>1, <1>2, <1>3, <1>4, <1>5 DEF IInv

-----------------------------------------------------------------------------
(* Helpers *)

(* The caller of a cache is alone: the other threads are in no call. *)
LEMMA OthersIdle ==
  ASSUME OneCallerPerCache, Types, Callers, HasCache,
         NEW t \in Threads, t \in stack.callers,
         NEW u \in Threads, u # t
  PROVE  op[u].pc = "idle"
<1>1. \A x, y \in stack.callers : x = y
  BY DEF OneCallerPerCache, Types, HasCache
<1> QED
  BY <1>1 DEF Callers

(* While no flush runs a load of the layers below answers what they hold. *)
LEMMA BelowIsKept ==
  ASSUME Flushes, flushing.pc = "idle", NEW e
  PROVE  Below(e) = Kept(e)
  BY DEF Flushes, Below, Kept

LEMMA BelowType ==
  ASSUME Types, NEW e \in Entries
  PROVE  Below(e) \in Nat
  BY DEF Types, Below

(* An addition sets its entry and keeps or drops the others. *)
LEMMA AddToCacheFact ==
  ASSUME NEW e \in Entries, NEW v, DOMAIN cached \subseteq Entries, AddToCache(e, v)
  PROVE  /\ DOMAIN cached' \subseteq Entries
         /\ \A x \in DOMAIN cached' :
              IF x = e THEN cached'[x] = v
              ELSE x \in DOMAIN cached /\ cached'[x] = cached[x]
<1>1. PICK gone : cached' = [x \in (DOMAIN cached \cup {e}) \ gone |->
                               IF x = e THEN v ELSE cached[x]]
  BY Zenon DEF AddToCache
<1> QED
  BY <1>1

(* Entries differ in their trie, kind or name. *)
LEMMA FiledFact ==
  ASSUME NEW e \in Entries
  PROVE  Filed(e, e.trie) = e
<1>1. e \in [trie : Tries, kind : Kinds, name : Names]
  BY EntriesAssumption
<1>2. e = [trie |-> e.trie, kind |-> e.kind, name |-> e.name]
  BY <1>1, Zenon
<1> QED
  BY <1>2, Zenon DEF Filed

(* A call that loads or updates runs in a cache, and no flush runs then. *)
LEMMA CacheCall ==
  ASSUME OneCallerPerCache, IInv, NEW t \in Threads,
         op[t].pc \in {"load", "fill", "update"}
  PROVE  HasCache /\ t \in stack.callers /\ flushing.pc = "idle"
<1>1. HasCache /\ t \in stack.callers
  BY DEF IInv, Callers
<1>2. \A u \in Threads : u # t => op[u].pc = "idle"
  BY <1>1, OthersIdle DEF IInv
<1>3. flushing.pc = "idle"
  BY <1>1, <1>2 DEF IInv, Flushes
<1> QED
  BY <1>1, <1>3

(* Nor does one while its one caller is idle. *)
LEMMA IdleCache ==
  ASSUME OneCallerPerCache, IInv, NEW t \in Threads, Idle(t), HasCache
  PROVE  /\ t \in stack.callers /\ flushing.pc = "idle"
         /\ \A u \in Threads : op[u].pc = "idle"
<1>1. t \in stack.callers /\ op[t].pc = "idle"
  BY DEF Idle
<1>2. \A u \in Threads : op[u].pc = "idle"
  BY <1>1, OthersIdle DEF IInv
<1>3. flushing.pc = "idle"
  BY <1>2 DEF IInv, Flushes
<1> QED
  BY <1>1, <1>2, <1>3

(* What a thread's call becomes leaves the calls of the others. *)
LEMMA OpFact ==
  ASSUME Types, NEW t \in Threads,
         NEW r \in [pc : Pcs, entry : Entries, value : Nat],
         op' = [op EXCEPT ![t] = r]
  PROVE  /\ op' \in OpType /\ op'[t] = r
         /\ \A u \in Threads : u # t => op'[u] = op[u]
  BY DEF Types, OpType

-----------------------------------------------------------------------------
(* One lemma for each kind of step *)

(* Steps that change neither the layers nor the cache nor a call. *)
LEMMA AnswersInv ==
  ASSUME IInv, UNCHANGED <<layers, cached, op>>, saves' \in Nat
  PROVE  IInv'
  BY DEF IInv, layers, Types, Callers, Flushes, CallsAreCurrent, CacheIsCurrent, HasCache,
         HasInserter, Kept

(* Calls that begin or end and change no layer and not the cache. *)
LEMMA CallInv ==
  ASSUME OneCallerPerCache, IInv, HasCache, UNCHANGED <<layers, cached, saves>>,
         NEW t \in Threads, t \in stack.callers, op[t].pc \notin {"flush", "update"},
         NEW r \in [pc : {"idle", "load", "fill"}, entry : Entries, value : Nat],
         op' = [op EXCEPT ![t] = r],
         r.pc = "fill" => r.value = Kept(r.entry)
  PROVE  IInv'
<1>1. /\ op \in OpType /\ op' \in OpType
      /\ op'[t] = r /\ \A u \in Threads : u # t => op'[u] = op[u]
  BY DEF IInv, Types, OpType, Pcs
<1>2. Types'
  BY <1>1 DEF IInv, Types, layers
<1>3. Callers'
  BY <1>1 DEF IInv, Callers, HasCache, HasInserter, layers
<1>4. Flushes'
  BY <1>1 DEF IInv, Flushes, layers
<1>5. CallsAreCurrent'
  BY <1>1 DEF IInv, CallsAreCurrent, Kept, layers
<1>6. CacheIsCurrent'
  BY <1>1 DEF IInv, CacheIsCurrent, Kept, layers
<1> QED
  BY <1>2, <1>3, <1>4, <1>5, <1>6 DEF IInv

(* A cache takes what the layers below hold, in or at the end of a call. *)
LEMMA CacheInv ==
  ASSUME OneCallerPerCache, IInv, HasCache, UNCHANGED <<layers, saves>>,
         NEW t \in Threads, t \in stack.callers, op[t].pc # "flush",
         op' \in OpType, op'[t].pc = "idle",
         \A u \in Threads : u # t => op'[u] = op[u],
         NEW e \in Entries, op[t].pc = "update" => op[t].entry = e,
         AddToCache(e, Kept(e))
  PROVE  IInv'
<1>3. /\ DOMAIN cached' \subseteq Entries
      /\ \A x \in DOMAIN cached' :
           IF x = e THEN cached'[x] = Kept(e)
           ELSE x \in DOMAIN cached /\ cached'[x] = cached[x]
  BY AddToCacheFact DEF IInv, Types
<1>4. Types'
  BY <1>3 DEF IInv, Types, layers
<1>5. Callers'
  BY DEF IInv, Callers, HasCache, HasInserter, layers
<1>6. Flushes'
  BY DEF IInv, Flushes, layers
<1>7. CallsAreCurrent'
  BY DEF IInv, CallsAreCurrent, Kept, layers
<1>8. \A u \in Threads : u # t => op[u].pc = "idle"
  BY OthersIdle DEF IInv
<1>9. CacheIsCurrent'
  <2>1. ASSUME NEW x \in DOMAIN cached', x # e PROVE cached'[x] = Kept(x)'
    <3>1. cached[x] = Kept(x)
      BY <2>1, <1>3, <1>8 DEF IInv, CacheIsCurrent
    <3> QED
      BY <3>1, <2>1, <1>3 DEF Kept, layers
  <2>2. ASSUME e \in DOMAIN cached' PROVE cached'[e] = Kept(e)'
    BY <2>2, <1>3 DEF Kept, layers
  <2> QED
    BY <2>1, <2>2 DEF CacheIsCurrent
<1> QED
  BY <1>4, <1>5, <1>6, <1>7, <1>9 DEF IInv

LEMMA LoadInv ==
  ASSUME OneCallerPerCache, IInv, NEW t \in Threads, NEW e \in Entries,
         LoadHit(t, e) \/ LoadMiss(t, e) \/ LoadUncached(t, e) \/ GetEpoch(t, e)
  PROVE  IInv'
<1>1. CASE LoadHit(t, e) \/ LoadUncached(t, e) \/ GetEpoch(t, e)
  <2>1. UNCHANGED <<layers, cached, op>> /\ saves' \in Nat
    BY <1>1 DEF LoadHit, LoadUncached, GetEpoch, IInv, Types
  <2> QED
    BY <2>1, AnswersInv
<1>2. CASE LoadMiss(t, e)
  <2> DEFINE r == [pc |-> "load", entry |-> e, value |-> Absent]
  <2>1. /\ UNCHANGED <<layers, cached, saves>> /\ HasCache /\ Idle(t)
        /\ op' = [op EXCEPT ![t] = r]
    BY <1>2 DEF LoadMiss, Call
  <2>2. t \in stack.callers /\ op[t].pc = "idle"
    BY <2>1 DEF Idle
  <2>3. r \in [pc : {"idle", "load", "fill"}, entry : Entries, value : Nat]
    BY DEF Absent
  <2>4. r.pc = "load"
    OBVIOUS
  <2> HIDE DEF r
  <2> QED
    BY <2>1, <2>2, <2>3, <2>4, CallInv
<1> QED
  BY <1>1, <1>2

LEMMA MissInv ==
  ASSUME OneCallerPerCache, IInv, NEW t \in Threads, LoadAbsent(t) \/ LoadBelow(t)
  PROVE  IInv'
<1>1. op[t].pc = "load" /\ UNCHANGED <<layers, cached, saves>>
  BY DEF LoadAbsent, LoadBelow
<1>2. HasCache /\ t \in stack.callers /\ flushing.pc = "idle"
  BY <1>1, CacheCall
<1>3. op[t].entry \in Entries
  BY DEF IInv, Types, OpType
<1>4. CASE LoadAbsent(t)
  <2>1. op' = [op EXCEPT ![t] = NoCall]
    BY <1>4 DEF LoadAbsent, Return
  <2>2. NoCall \in [pc : {"idle", "load", "fill"}, entry : Entries, value : Nat]
    BY AnyEntryFact DEF NoCall, Absent
  <2>3. NoCall.pc = "idle"
    BY DEF NoCall
  <2> QED
    BY <1>1, <1>2, <2>1, <2>2, <2>3, CallInv
<1>5. CASE LoadBelow(t)
  <2> DEFINE r == [pc |-> "fill", entry |-> op[t].entry, value |-> Below(op[t].entry)]
  <2>1. op' = [op EXCEPT ![t] = r]
    BY <1>5 DEF LoadBelow, Call
  <2>2. r \in [pc : {"idle", "load", "fill"}, entry : Entries, value : Nat]
    BY <1>3, BelowType DEF IInv
  <2>3. r.value = Kept(r.entry)
    BY <1>2, BelowIsKept DEF IInv
  <2> HIDE DEF r
  <2> QED
    BY <1>1, <1>2, <2>1, <2>2, <2>3, CallInv
<1> QED
  BY <1>4, <1>5

LEMMA FillInv ==
  ASSUME OneCallerPerCache, IInv, NEW t \in Threads, Fill(t) \/ UpdateCache(t)
  PROVE  IInv'
<1>1. /\ op[t].pc \in {"fill", "update"} /\ UNCHANGED <<layers, saves>>
      /\ AddToCache(op[t].entry, op[t].value)
      /\ op' = [op EXCEPT ![t] = NoCall]
  BY DEF Fill, UpdateCache, Return
<1>2. HasCache /\ t \in stack.callers
  BY <1>1, CacheCall
<1>3. op[t].entry \in Entries
  BY DEF IInv, Types, OpType
<1>4. op[t].value = Kept(op[t].entry)
  BY <1>1, <1>2 DEF IInv, CallsAreCurrent
<1>5. /\ op' \in OpType /\ op'[t] = NoCall
      /\ \A u \in Threads : u # t => op'[u] = op[u]
  BY <1>1, NoCallType, OpFact DEF IInv
<1>6. op'[t].pc = "idle"
  BY <1>5 DEF NoCall
<1>7. op[t].pc # "flush"
  BY <1>1
<1>8. AddToCache(op[t].entry, Kept(op[t].entry))
  BY <1>1, <1>4
<1> QED
  BY <1>1, <1>2, <1>3, <1>5, <1>6, <1>7, <1>8, CacheInv

LEMMA LoadUpdatedInv ==
  ASSUME OneCallerPerCache, IInv, NEW t \in Threads, NEW e \in Entries, LoadUpdated(t, e)
  PROVE  IInv'
<1>1. /\ Idle(t) /\ HasCache /\ UNCHANGED <<layers, op, saves>>
      /\ AddToCache(e, backing[e])
      /\ stack.oneTrieAtATime => unsaved = Nothing
  BY DEF LoadUpdated
<1>2. /\ t \in stack.callers /\ flushing.pc = "idle" /\ op[t].pc = "idle"
  BY <1>1, IdleCache
<1>3. stack.oneTrieAtATime
  BY <1>1 DEF OneCallerPerCache, IInv, Types, HasCache
<1>4. backing[e] = Kept(e)
  BY <1>1, <1>2, <1>3 DEF IInv, Flushes, Kept, Nothing
<1>5. op' \in OpType /\ op'[t].pc = "idle" /\ \A u \in Threads : op'[u] = op[u]
  BY <1>1, <1>2 DEF IInv, Types
<1>6. AddToCache(e, Kept(e))
  BY <1>1, <1>4
<1> QED
  BY <1>1, <1>2, <1>5, <1>6, CacheInv

LEMMA SaveInv ==
  ASSUME OneCallerPerCache, IInv, NEW t \in Threads, NEW e \in Entries, SaveBelow(t, e)
  PROVE  IInv'
<1> DEFINE v == saves + 1
           r == [pc |-> "update", entry |-> e, value |-> v]
<1>1. /\ Idle(t) /\ saves' = v /\ StoreBelow(e, v)
      /\ op' = IF HasCache THEN [op EXCEPT ![t] = r] ELSE op
      /\ UNCHANGED <<stack, moving, flushing, cached>>
  BY DEF SaveBelow, Call, StoreBelow
<1>2. v \in Nat
  BY DEF IInv, Types
<1> HIDE DEF v
<1>3. r \in [pc : Pcs, entry : Entries, value : Nat] /\ r.pc = "update"
  BY <1>2 DEF Pcs
<1>4. Types'
  <2>1. backing' \in [Entries -> Nat]
    <3>1. CASE HasInserter
      BY <3>1, <1>1 DEF StoreBelow, IInv, Types
    <3>2. CASE ~HasInserter
      <4>1. backing' = [x \in DOMAIN backing \cup {e} |-> IF x = e THEN v ELSE backing[x]]
        BY <3>2, <1>1 DEF StoreBelow, With
      <4> QED
        BY <4>1, <1>2 DEF IInv, Types
    <3> QED
      BY <3>1, <3>2
  <2>2. DOMAIN unsaved' \subseteq Entries /\ \A x \in DOMAIN unsaved' : unsaved'[x] \in Nat
    <3>1. CASE HasInserter
      <4>1. unsaved' = [x \in DOMAIN unsaved \cup {e} |-> IF x = e THEN v ELSE unsaved[x]]
        BY <3>1, <1>1 DEF StoreBelow, With
      <4> QED
        BY <4>1, <1>2 DEF IInv, Types
    <3>2. CASE ~HasInserter
      BY <3>2, <1>1 DEF StoreBelow, IInv, Types
    <3> QED
      BY <3>1, <3>2
  <2>3. op' \in OpType
    BY <1>1, <1>3, OpFact DEF IInv, Types
  <2> QED
    BY <1>1, <1>2, <2>1, <2>2, <2>3 DEF IInv, Types
<1>5. CASE ~HasCache
  <2>1. Callers'
    BY <1>1, <1>5 DEF IInv, Callers, HasCache, HasInserter, StoreBelow
  <2> QED
    BY <1>1, <1>4, <1>5, <2>1 DEF IInv, HasCache
<1>6. CASE HasCache
  <2>1. /\ t \in stack.callers /\ flushing.pc = "idle"
        /\ \A u \in Threads : op[u].pc = "idle"
    BY <1>1, <1>6, IdleCache
  <2>2. op'[t] = r /\ \A u \in Threads : u # t => op'[u] = op[u]
    BY <1>1, <1>3, <1>6, OpFact DEF IInv
  <2> HIDE DEF r
  <2>3. Callers'
    BY <1>1, <1>6, <2>1, <2>2 DEF IInv, Callers, HasCache, HasInserter, StoreBelow
  <2>4. Flushes'
    BY <1>1, <1>3, <1>6, <2>1, <2>2 DEF IInv, Flushes
  <2>5. DOMAIN moving = {}
    BY <1>6, <2>1 DEF IInv, Flushes
  <2>6. \A x \in Entries : Kept(x)' = IF x = e THEN v ELSE Kept(x)
    <3>1. CASE HasInserter
      <4>1. /\ unsaved' = [x \in DOMAIN unsaved \cup {e} |-> IF x = e THEN v ELSE unsaved[x]]
            /\ backing' = backing
        BY <3>1, <1>1 DEF StoreBelow, With
      <4> QED
        BY <4>1, <2>5, <1>1 DEF Kept
    <3>2. CASE ~HasInserter
      <4>1. /\ backing' = [x \in DOMAIN backing \cup {e} |-> IF x = e THEN v ELSE backing[x]]
            /\ unsaved' = unsaved /\ DOMAIN unsaved = {} /\ DOMAIN backing = Entries
        BY <3>2, <1>1 DEF StoreBelow, With, IInv, Callers, Types
      <4> QED
        BY <4>1, <2>5, <1>1 DEF Kept
    <3> QED
      BY <3>1, <3>2
  <2>7. r.pc = "update" /\ r.entry = e /\ r.value = v
    BY DEF r
  <2>8. CallsAreCurrent'
    BY <2>1, <2>2, <2>6, <2>7 DEF CallsAreCurrent
  <2>9. CacheIsCurrent'
    BY <1>1, <2>1, <2>2, <2>6, <2>7 DEF IInv, CacheIsCurrent, Types
  <2> QED
    BY <1>4, <2>3, <2>4, <2>8, <2>9 DEF IInv
<1> QED
  BY <1>5, <1>6

LEMMA FlushInv ==
  ASSUME OneCallerPerCache, IInv, NEW t \in Threads, NEW e \in Entries, Flush(t, e.trie)
  PROVE  IInv'
<1> DEFINE r == [pc |-> "flush", entry |-> AnyEntry, value |-> Absent]
<1>1. /\ Idle(t) /\ HasInserter /\ moving' = unsaved
      /\ flushing' = [pc |-> "clear", trie |-> e.trie]
      /\ op' = [op EXCEPT ![t] = r] /\ MayWrite(e.trie)
      /\ UNCHANGED <<stack, backing, unsaved, cached, saves>>
  BY DEF Flush, Call
<1>2. r \in [pc : Pcs, entry : Entries, value : Nat] /\ r.pc = "flush"
  BY AnyEntryFact DEF Pcs, Absent
<1>3. op' \in OpType /\ op'[t] = r /\ \A u \in Threads : u # t => op'[u] = op[u]
  BY <1>1, <1>2, OpFact DEF IInv
<1> HIDE DEF r
<1>4. Types'
  BY <1>1, <1>3 DEF IInv, Types
<1>5. Callers'
  BY <1>1, <1>2, <1>3 DEF IInv, Callers, HasCache, HasInserter, Idle
<1>6. CASE ~HasCache
  BY <1>1, <1>4, <1>5, <1>6 DEF IInv, HasCache
<1>7. CASE HasCache
  <2>1. stack.oneTrieAtATime
    BY <1>7 DEF OneCallerPerCache, IInv, Types, HasCache
  <2>2. /\ flushing.pc = "idle" /\ \A u \in Threads : op[u].pc = "idle"
    BY <1>1, <1>7, IdleCache
  <2>3. \A x \in DOMAIN unsaved : x.trie = e.trie
    BY <1>1, <2>1 DEF MayWrite
  <2>4. Flushes'
    BY <1>1, <1>2, <1>3, <2>3 DEF Flushes
  <2>5. \A x : Kept(x)' = Kept(x)
    BY <1>1, <1>7, <2>2 DEF IInv, Flushes, Kept
  <2>6. CallsAreCurrent' /\ CacheIsCurrent'
    BY <1>1, <1>2, <1>3, <1>7, <2>2, <2>5 DEF IInv, CallsAreCurrent, CacheIsCurrent
  <2> QED
    BY <1>4, <1>5, <2>4, <2>6 DEF IInv
<1> QED
  BY <1>6, <1>7

LEMMA FlushClearInv ==
  ASSUME OneCallerPerCache, IInv, NEW t \in Threads, FlushClear(t)
  PROVE  IInv'
<1>1. /\ op[t].pc = "flush" /\ flushing.pc = "clear"
      /\ DOMAIN unsaved' = {} /\ flushing' = [pc |-> "hand over", trie |-> flushing.trie]
      /\ UNCHANGED <<stack, backing, moving, cached, op, saves>>
  BY DEF FlushClear, Nothing
<1>2. Types' /\ Callers'
  BY <1>1 DEF IInv, Types, Callers, HasCache, HasInserter
<1>3. ASSUME HasCache PROVE Flushes' /\ CallsAreCurrent' /\ CacheIsCurrent'
  <2>1. \A x : Kept(x)' = Kept(x)
    BY <1>1, <1>3 DEF IInv, Flushes, Kept
  <2>2. Flushes'
    BY <1>1, <1>3 DEF IInv, Flushes
  <2>3. CallsAreCurrent' /\ CacheIsCurrent'
    BY <1>1, <1>3, <2>1 DEF IInv, CallsAreCurrent, CacheIsCurrent
  <2> QED
    BY <2>2, <2>3
<1> QED
  BY <1>1, <1>2, <1>3 DEF IInv, HasCache

(* What is handed over stays under its own trie, the only one there is. *)
LEMMA FlushHandOverInv ==
  ASSUME OneCallerPerCache, IInv, NEW t \in Threads, FlushHandOver(t)
  PROVE  IInv'
<1> DEFINE arriving == {Filed(x, flushing.trie) : x \in DOMAIN moving}
<1>1. PICK from \in [arriving -> DOMAIN moving] :
        /\ \A e \in arriving : Filed(from[e], flushing.trie) = e
        /\ backing' = [e \in Entries |->
             IF e \in arriving THEN moving[from[e]] ELSE backing[e]]
  BY Zenon DEF FlushHandOver
<1>2. /\ op[t].pc = "flush" /\ flushing.pc = "hand over" /\ op' = [op EXCEPT ![t] = NoCall]
      /\ DOMAIN moving' = {} /\ \A x \in DOMAIN moving' : moving'[x] \in Nat
      /\ flushing'.pc = "idle"
      /\ UNCHANGED <<stack, unsaved, cached, saves>>
  BY DEF FlushHandOver, Nothing, NotFlushing, Return
<1>3. op' \in OpType /\ op'[t] = NoCall /\ \A u \in Threads : u # t => op'[u] = op[u]
  BY <1>2, NoCallType, OpFact DEF IInv
<1>4. NoCall.pc = "idle"
  BY DEF NoCall
<1> HIDE DEF arriving
<1>5. backing' \in [Entries -> Nat]
  BY <1>1 DEF IInv, Types
<1>6. Types' /\ Callers'
  BY <1>2, <1>3, <1>4, <1>5 DEF IInv, Types, Callers, HasCache, HasInserter
<1>7. ASSUME HasCache PROVE Flushes' /\ CallsAreCurrent' /\ CacheIsCurrent'
  <2>1. \A x \in DOMAIN moving : Filed(x, flushing.trie) = x
    <3>1. ASSUME NEW x \in DOMAIN moving PROVE Filed(x, flushing.trie) = x
      <4>1. x \in Entries /\ x.trie = flushing.trie
        BY <1>2, <1>7 DEF IInv, Types, Flushes
      <4> QED
        BY <4>1, FiledFact
    <3> QED
      BY <3>1
  <2>2. arriving = DOMAIN moving
    BY <2>1, Zenon DEF arriving
  <2>3. \A x \in DOMAIN moving : from[x] = x
    BY <1>1, <2>1, <2>2
  <2>4. \A x \in Entries : Kept(x)' = Kept(x)
    BY <1>1, <1>2, <1>7, <2>2, <2>3 DEF IInv, Flushes, Kept
  <2>5. t \in stack.callers
    BY <1>2 DEF IInv, Callers
  <2>6. \A u \in Threads : op'[u].pc = "idle"
    BY <1>3, <1>4, <1>7, <2>5, OthersIdle DEF IInv
  <2>7. Flushes'
    BY <1>2, <2>6 DEF Flushes
  <2>8. CallsAreCurrent'
    BY <2>6 DEF CallsAreCurrent
  <2>9. CacheIsCurrent'
    <3>1. ASSUME NEW x \in DOMAIN cached PROVE cached[x] = Kept(x)
      BY <1>2, <1>7, <2>5, OthersIdle DEF IInv, CacheIsCurrent
    <3> QED
      BY <1>2, <2>4, <3>1 DEF CacheIsCurrent, IInv, Types
  <2> QED
    BY <2>7, <2>8, <2>9
<1> QED
  BY <1>2, <1>6, <1>7 DEF IInv, HasCache

LEMMA DeleteInv ==
  ASSUME OneCallerPerCache, IInv, NEW t \in Threads, NEW trie, DeleteOZKS(t, trie)
  PROVE  IInv'
<1>1. /\ Idle(t) /\ UNCHANGED <<stack, moving, flushing, op, saves>>
      /\ cached' = [x \in {y \in DOMAIN cached : y.trie # trie} |-> cached[x]]
      /\ unsaved' = [x \in {y \in DOMAIN unsaved : y.trie # trie} |-> unsaved[x]]
      /\ backing' = [x \in Entries |-> IF x.trie = trie THEN Absent ELSE backing[x]]
  BY DEF DeleteOZKS, DeleteFromCache, DeleteStored, Without
<1>2. Types'
  BY <1>1 DEF IInv, Types, Absent
<1>3. Callers'
  BY <1>1 DEF IInv, Callers, HasCache, HasInserter
<1>4. ASSUME HasCache PROVE Flushes' /\ CallsAreCurrent' /\ CacheIsCurrent'
  <2>1. /\ flushing.pc = "idle" /\ \A u \in Threads : op[u].pc = "idle"
    BY <1>1, <1>4, IdleCache
  <2>2. DOMAIN moving = {}
    BY <1>4, <2>1 DEF IInv, Flushes
  <2>3. \A x \in Entries : x.trie # trie => Kept(x)' = Kept(x)
    BY <1>1, <2>2 DEF Kept
  <2>4. Flushes'
    BY <1>1, <1>4, <2>1, <2>2 DEF IInv, Flushes
  <2>5. CallsAreCurrent'
    BY <1>1, <2>1 DEF CallsAreCurrent
  <2>6. CacheIsCurrent'
    BY <1>1, <1>4, <2>1, <2>3 DEF IInv, CacheIsCurrent, Types
  <2> QED
    BY <2>4, <2>5, <2>6
<1> QED
  BY <1>1, <1>2, <1>3, <1>4 DEF IInv, HasCache

LEMMA StepInv ==
  ASSUME OneCallerPerCache, IInv, [Next]_vars
  PROVE  IInv'
<1>1. CASE UNCHANGED vars
  <2>1. UNCHANGED <<layers, cached, op>> /\ saves' \in Nat
    BY <1>1 DEF vars, layers, IInv, Types
  <2> QED
    BY <2>1, AnswersInv
<1>2. ASSUME NEW t \in Threads, NEW e \in Entries,
             LoadHit(t, e) \/ LoadMiss(t, e) \/ LoadUncached(t, e) \/ GetEpoch(t, e)
      PROVE  IInv'
  BY <1>2, LoadInv
<1>3. ASSUME NEW t \in Threads, NEW e \in Entries,
             SaveBelow(t, e) \/ LoadUpdated(t, e) \/ Flush(t, e.trie) \/ DeleteOZKS(t, e.trie)
      PROVE  IInv'
  BY <1>3, SaveInv, LoadUpdatedInv, FlushInv, DeleteInv
<1>4. ASSUME NEW t \in Threads,
             LoadAbsent(t) \/ LoadBelow(t) \/ Fill(t) \/ UpdateCache(t)
               \/ FlushClear(t) \/ FlushHandOver(t)
      PROVE  IInv'
  BY <1>4, MissInv, FillInv, FlushClearInv, FlushHandOverInv
<1> QED
  BY <1>1, <1>2, <1>3, <1>4, Zenon DEF Next

-----------------------------------------------------------------------------
(* A cache that one thread uses, one trie at a time, never holds anything  *)
(* but what the layers below hold, except during the save that changes it: *)
(* with any number of entries and any capacity, with an inserter that is   *)
(* flushed at any moment or without, whatever is handed back or deleted.   *)
THEOREM OneCallerSeesCurrent == OneCallerPerCache => (Spec => []CacheIsCurrent)
<1> SUFFICES ASSUME OneCallerPerCache PROVE Spec => []CacheIsCurrent
  OBVIOUS
<1>1. Init => IInv
  BY InitInv
<1>2. IInv /\ [Next]_vars => IInv'
  BY StepInv
<1>3. IInv => CacheIsCurrent
  <2> SUFFICES ASSUME IInv PROVE CacheIsCurrent
    OBVIOUS
  <2>1. CASE HasCache
    BY <2>1 DEF IInv
  <2>2. CASE ~HasCache
    BY <2>2 DEF IInv, Callers, CacheIsCurrent
  <2> QED
    BY <2>1, <2>2
<1> QED
  BY <1>1, <1>2, <1>3, PTL DEF Spec

-----------------------------------------------------------------------------
(* A batch is of the trie that is flushed, with any number of callers.     *)

(* Whoever uses an inserter flushes one trie before writing another. *)
OneTriePerBatch == \A s \in Stacks : s.inserter => s.oneTrieAtATime

BatchInv ==
  /\ stack \in Stacks
  /\ DOMAIN unsaved \subseteq Entries /\ DOMAIN moving \subseteq Entries
  /\ flushing.pc # "idle" => \A x \in DOMAIN moving : x.trie = flushing.trie

LEMMA BatchStep ==
  ASSUME OneTriePerBatch, BatchInv, [Next]_vars
  PROVE  BatchInv'
<1>1. CASE UNCHANGED <<stack, unsaved, moving, flushing>>
  BY <1>1 DEF BatchInv
<1>2. ASSUME NEW t \in Threads, NEW e \in Entries, SaveBelow(t, e)
      PROVE  BatchInv'
  BY <1>2 DEF BatchInv, SaveBelow, StoreBelow, With
<1>3. ASSUME NEW t \in Threads, NEW e \in Entries, Flush(t, e.trie)
      PROVE  BatchInv'
  <2>1. stack.oneTrieAtATime /\ MayWrite(e.trie)
    BY <1>3 DEF Flush, OneTriePerBatch, BatchInv, HasInserter
  <2>2. \A x \in DOMAIN unsaved : x.trie = e.trie
    BY <2>1 DEF MayWrite
  <2> QED
    BY <1>3, <2>2 DEF BatchInv, Flush
<1>4. ASSUME NEW t \in Threads, FlushClear(t)
      PROVE  BatchInv'
  BY <1>4 DEF BatchInv, FlushClear, Nothing
<1>5. ASSUME NEW t \in Threads, FlushHandOver(t)
      PROVE  BatchInv'
  BY <1>5 DEF BatchInv, FlushHandOver, Nothing, NotFlushing
<1>6. ASSUME NEW t \in Threads, NEW e \in Entries, DeleteOZKS(t, e.trie)
      PROVE  BatchInv'
  BY <1>6 DEF BatchInv, DeleteOZKS, Without
<1> QED
  BY <1>1, <1>2, <1>3, <1>4, <1>5, <1>6 DEF Next, vars, layers, LoadHit, LoadMiss,
     LoadUncached, GetEpoch, LoadUpdated, LoadAbsent, LoadBelow, Fill, UpdateCache

(* What is handed over stays under its own trie. *)
LEMMA HandOverKept ==
  ASSUME BatchInv, NEW t \in Threads, FlushHandOver(t), NEW e \in Entries
  PROVE  Kept(e)' = Kept(e)
<1> DEFINE arriving == {Filed(x, flushing.trie) : x \in DOMAIN moving}
<1>1. PICK from \in [arriving -> DOMAIN moving] :
        /\ \A x \in arriving : Filed(from[x], flushing.trie) = x
        /\ backing' = [x \in Entries |->
             IF x \in arriving THEN moving[from[x]] ELSE backing[x]]
  BY Zenon DEF FlushHandOver
<1>2. /\ flushing.pc = "hand over" /\ DOMAIN moving' = {} /\ unsaved' = unsaved
  BY DEF FlushHandOver, Nothing
<1>3. ASSUME NEW x \in DOMAIN moving PROVE Filed(x, flushing.trie) = x
  <2>1. x \in Entries /\ x.trie = flushing.trie
    BY <1>2 DEF BatchInv
  <2> QED
    BY <2>1, FiledFact
<1>4. arriving = DOMAIN moving
  BY <1>3, Zenon
<1> HIDE DEF arriving
<1>5. \A x \in DOMAIN moving : from[x] = x
  BY <1>1, <1>3, <1>4
<1> QED
  BY <1>1, <1>2, <1>4, <1>5 DEF Kept

(* Handing a batch over changes no answer, with any number of threads that *)
(* save and load meanwhile, one access to a map at a time, with a cache    *)
(* above the inserter or without.                                          *)
THEOREM FlushChangesNoAnswer == OneTriePerBatch => (Spec => FlushIsInvisible)
<1> SUFFICES ASSUME OneTriePerBatch PROVE Spec => FlushIsInvisible
  OBVIOUS
<1>1. Init => BatchInv
  BY DEF Init, BatchInv, Nothing, NotFlushing
<1>2. BatchInv /\ [Next]_vars => BatchInv'
  BY BatchStep
<1>3. BatchInv /\ [Next]_vars => [\A t \in Threads : FlushHandOver(t) => View' = View]_vars
  <2> SUFFICES ASSUME BatchInv, NEW t \in Threads, FlushHandOver(t)
               PROVE  View' = View
    OBVIOUS
  <2>1. \A e \in Entries : Kept(e)' = Kept(e)
    BY HandOverKept
  <2>2. cached' = cached
    BY DEF FlushHandOver
  <2> QED
    BY <2>1, <2>2 DEF View
<1> QED
  BY <1>1, <1>2, <1>3, PTL DEF Spec, FlushIsInvisible

-----------------------------------------------------------------------------
(* The stack is one map.                                                   *)

(* An inserter that is called without a cache may answer with an older     *)
(* epoch than was saved; and MemoryStorage has maps without a lock, so it  *)
(* is one map for one thread.                                              *)
Orderly ==
  OneCallerPerCache
  /\ \A s \in Stacks : ~s.cache => ~s.inserter /\ \A x, y \in s.callers : x = y

(* The save that has yet to reach the cache is the last one. *)
LastSave ==
  /\ ~HasInserter => DOMAIN moving = {} /\ flushing.pc = "idle"
  /\ \A t \in Threads : op[t].pc = "update" => op[t].value = saves

MapInv == IInv /\ LastSave

NoUpdate == \A t \in Threads : op[t].pc # "update"

(* While no save is half done, loads answer what the layers below hold. *)
LEMMA ViewIsKept ==
  ASSUME IInv, NoUpdate
  PROVE  View = [e \in Entries |-> Kept(e)] /\ SavesDone = saves
<1>1. \A e \in DOMAIN cached : cached[e] = Kept(e)
  BY DEF IInv, Callers, CacheIsCurrent, NoUpdate
<1> QED
  BY <1>1 DEF View, SavesDone, NoUpdate

(* A save that is half done hides behind the older value in the cache. *)
LEMMA ViewOfUpdate ==
  ASSUME OneCallerPerCache, MapInv, NEW t \in Threads, op[t].pc = "update"
  PROVE  /\ op[t].entry \in Entries /\ Kept(op[t].entry) = saves
         /\ \A e \in Entries : e # op[t].entry => View[e] = Kept(e)
         /\ IF op[t].entry \in DOMAIN cached
            THEN SavesDone = saves - 1
            ELSE SavesDone = saves /\ View[op[t].entry] = Kept(op[t].entry)
<1>1. HasCache /\ t \in stack.callers
  BY CacheCall DEF MapInv
<1>2. \A u \in Threads : u # t => op[u].pc = "idle"
  BY <1>1, OthersIdle DEF MapInv, IInv
<1>3. op[t].entry \in Entries /\ Kept(op[t].entry) = saves
  BY <1>1 DEF MapInv, LastSave, IInv, CallsAreCurrent, Types, OpType
<1>4. \A e \in DOMAIN cached : e # op[t].entry => cached[e] = Kept(e)
  BY <1>1, <1>2 DEF MapInv, IInv, CacheIsCurrent
<1> QED
  BY <1>2, <1>3, <1>4 DEF View, SavesDone

(* A cache that takes what the layers below hold shows them. *)
LEMMA ViewOfAddition ==
  ASSUME OneCallerPerCache, MapInv, MapInv', HasCache, UNCHANGED <<layers, saves>>,
         NEW t \in Threads, t \in stack.callers, op'[t].pc # "update",
         \A u \in Threads : u # t => op'[u] = op[u]
  PROVE  View' = [e \in Entries |-> Kept(e)] /\ SavesDone' = saves
<1>1. NoUpdate'
  BY OthersIdle DEF MapInv, IInv, NoUpdate
<1>2. View' = [e \in Entries |-> Kept(e)'] /\ SavesDone' = saves'
  <2>1. \A e \in DOMAIN cached' : cached'[e] = Kept(e)'
    BY <1>1 DEF MapInv, IInv, Callers, CacheIsCurrent, NoUpdate
  <2> QED
    BY <1>1, <2>1 DEF View, SavesDone, NoUpdate
<1>3. \A e \in Entries : Kept(e)' = Kept(e)
  BY DEF Kept, layers
<1> QED
  BY <1>2, <1>3

LEMMA StutterView ==
  ASSUME UNCHANGED <<layers, cached, saves>>,
         \A t \in Threads :
           op'[t] = op[t] \/ (op[t].pc # "update" /\ op'[t].pc # "update")
  PROVE  View' = View /\ SavesDone' = SavesDone
<1>1. \A e : Kept(e)' = Kept(e)
  BY DEF Kept, layers
<1> QED
  BY <1>1 DEF View, SavesDone

(* The layers below after a save. *)
LEMMA KeptAfterSave ==
  ASSUME IInv, DOMAIN moving = {}, NEW t \in Threads, NEW e \in Entries, SaveBelow(t, e),
         NEW x \in Entries
  PROVE  Kept(x)' = IF x = e THEN saves + 1 ELSE Kept(x)
<1>1. StoreBelow(e, saves + 1) /\ moving' = moving
  BY DEF SaveBelow, StoreBelow
<1>2. CASE HasInserter
  <2>1. /\ unsaved' = [y \in DOMAIN unsaved \cup {e} |-> IF y = e THEN saves + 1 ELSE unsaved[y]]
        /\ backing' = backing
    BY <1>1, <1>2 DEF StoreBelow, With
  <2> QED
    BY <1>1, <2>1 DEF Kept
<1>3. CASE ~HasInserter
  <2>1. /\ backing' = [y \in DOMAIN backing \cup {e} |-> IF y = e THEN saves + 1 ELSE backing[y]]
        /\ unsaved' = unsaved /\ DOMAIN unsaved = {} /\ DOMAIN backing = Entries
    BY <1>1, <1>3 DEF StoreBelow, With, IInv, Callers, Types
  <2> QED
    BY <1>1, <2>1 DEF Kept
<1> QED
  BY <1>2, <1>3

-----------------------------------------------------------------------------
LEMMA LastSaveStep ==
  ASSUME OneCallerPerCache, MapInv, [Next]_vars
  PROVE  LastSave'
<1>1. CASE UNCHANGED <<stack, moving, flushing, op, saves>>
  BY <1>1 DEF MapInv, LastSave, HasInserter
<1>2. ASSUME NEW t \in Threads, UNCHANGED <<layers, saves>>,
             \E r : op' = [op EXCEPT ![t] = r] /\ r.pc # "update"
      PROVE  LastSave'
  BY <1>2 DEF MapInv, IInv, Types, OpType, LastSave, HasInserter, layers
<1>3. ASSUME NEW t \in Threads, NEW e \in Entries, SaveBelow(t, e)
      PROVE  LastSave'
  <2> DEFINE r == [pc |-> "update", entry |-> e, value |-> saves + 1]
  <2>1. /\ Idle(t) /\ saves' = saves + 1 /\ UNCHANGED <<stack, moving, flushing>>
        /\ op' = IF HasCache THEN [op EXCEPT ![t] = r] ELSE op
    BY <1>3 DEF SaveBelow, StoreBelow, Call
  <2>2. r.value = saves + 1
    OBVIOUS
  <2> HIDE DEF r
  <2>3. CASE HasCache
    <3>1. \A u \in Threads : op[u].pc = "idle"
      BY <2>1, <2>3, IdleCache DEF MapInv
    <3> QED
      BY <2>1, <2>2, <2>3, <3>1 DEF MapInv, IInv, Types, OpType, LastSave, HasInserter
  <2>4. CASE ~HasCache
    BY <2>1, <2>4 DEF MapInv, IInv, Callers, LastSave, HasInserter
  <2> QED
    BY <2>3, <2>4
<1>4. ASSUME NEW t \in Threads, NEW e \in Entries, Flush(t, e.trie)
      PROVE  LastSave'
  BY <1>4 DEF Flush, Call, MapInv, IInv, Types, OpType, LastSave, HasInserter
<1>5. ASSUME NEW t \in Threads, FlushClear(t)
      PROVE  LastSave'
  BY <1>5 DEF FlushClear, MapInv, LastSave, HasInserter
<1>6. ASSUME NEW t \in Threads, FlushHandOver(t)
      PROVE  LastSave'
  BY <1>6 DEF FlushHandOver, Return, NoCall, NotFlushing, MapInv, IInv, Types, OpType, LastSave,
     HasInserter
<1>7. ASSUME NEW t \in Threads, NEW e \in Entries, DeleteOZKS(t, e.trie)
      PROVE  LastSave'
  BY <1>1, <1>7 DEF DeleteOZKS
<1>8. ASSUME NEW t \in Threads, NEW e \in Entries,
             LoadHit(t, e) \/ LoadUncached(t, e) \/ GetEpoch(t, e) \/ LoadUpdated(t, e)
      PROVE  LastSave'
  BY <1>1, <1>8 DEF LoadHit, LoadUncached, GetEpoch, LoadUpdated, layers
<1>9. ASSUME NEW t \in Threads, NEW e \in Entries, LoadMiss(t, e)
      PROVE  LastSave'
  <2> DEFINE r == [pc |-> "load", entry |-> e, value |-> Absent]
  <2>1. UNCHANGED <<layers, saves>> /\ op' = [op EXCEPT ![t] = r] /\ r.pc # "update"
    BY <1>9 DEF LoadMiss, Call
  <2> HIDE DEF r
  <2> QED
    BY <1>2, <2>1
<1>10. ASSUME NEW t \in Threads, LoadAbsent(t) \/ LoadBelow(t) \/ Fill(t) \/ UpdateCache(t)
       PROVE  LastSave'
  <2>1. CASE LoadBelow(t)
    <3> DEFINE r == [pc |-> "fill", entry |-> op[t].entry, value |-> Below(op[t].entry)]
    <3>1. UNCHANGED <<layers, saves>> /\ op' = [op EXCEPT ![t] = r] /\ r.pc # "update"
      BY <2>1 DEF LoadBelow, Call
    <3> HIDE DEF r
    <3> QED
      BY <1>2, <3>1
  <2>2. CASE LoadAbsent(t) \/ Fill(t) \/ UpdateCache(t)
    <3>1. UNCHANGED <<layers, saves>> /\ op' = [op EXCEPT ![t] = NoCall] /\ NoCall.pc # "update"
      BY <2>2 DEF LoadAbsent, Fill, UpdateCache, Return, NoCall
    <3> QED
      BY <1>2, <3>1
  <2> QED
    BY <1>10, <2>1, <2>2
<1>11. CASE UNCHANGED vars
  BY <1>1, <1>11 DEF vars, layers
<1> QED
  BY <1>3, <1>4, <1>5, <1>6, <1>7, <1>8, <1>9, <1>10, <1>11 DEF Next

LEMMA MapStep ==
  ASSUME OneCallerPerCache, MapInv, [Next]_vars
  PROVE  MapInv'
BY StepInv, LastSaveStep DEF MapInv

LEMMA MapInit == Init => MapInv
BY InitInv DEF Init, MapInv, LastSave, Nothing, NotFlushing, NoCall

-----------------------------------------------------------------------------
(* Every step is one of the map's, or leaves the map as it is. *)

MapStutter == UNCHANGED <<View, SavesDone, answer>>

(* While a caller is idle a load of the lower layers answers from the map. *)
LEMMA Quiet ==
  ASSUME Orderly, MapInv, NEW t \in Threads, Idle(t)
  PROVE  /\ NoUpdate /\ flushing.pc = "idle" /\ DOMAIN moving = {}
         /\ \A e \in Entries : Below(e) = Kept(e)
         /\ View = [e \in Entries |-> Kept(e)] /\ SavesDone = saves
<1>1. NoUpdate /\ flushing.pc = "idle" /\ DOMAIN moving = {}
  <2>1. CASE HasCache
    <3>1. flushing.pc = "idle" /\ \A u \in Threads : op[u].pc = "idle"
      BY <2>1, IdleCache DEF Orderly, MapInv
    <3>2. Flushes
      BY <2>1 DEF MapInv, IInv
    <3> QED
      BY <3>1, <3>2 DEF Flushes, NoUpdate
  <2>2. CASE ~HasCache
    <3>1. ~HasInserter
      BY <2>2 DEF Orderly, MapInv, IInv, Types, HasCache, HasInserter
    <3> QED
      BY <2>2, <3>1 DEF MapInv, LastSave, IInv, Callers, NoUpdate
  <2> QED
    BY <2>1, <2>2
<1>2. \A e \in Entries : Below(e) = Kept(e)
  BY <1>1 DEF Below, Kept
<1> QED
  BY <1>1, <1>2, ViewIsKept DEF MapInv

LEMMA StutterMaps ==
  ASSUME UNCHANGED <<layers, cached, saves, answer>>,
         \A t \in Threads :
           op'[t] = op[t] \/ (op[t].pc # "update" /\ op'[t].pc # "update")
  PROVE  MapStutter
  BY StutterView DEF MapStutter

LEMMA CallMaps ==
  ASSUME IInv, UNCHANGED <<layers, cached, saves, answer>>,
         NEW t \in Threads, op[t].pc # "update",
         NEW r, r.pc # "update", op' = [op EXCEPT ![t] = r]
  PROVE  MapStutter
<1>1. \A u \in Threads : op'[u] = op[u] \/ (op[u].pc # "update" /\ op'[u].pc # "update")
  BY DEF IInv, Types, OpType
<1> QED
  BY <1>1, StutterMaps

(* A load that is answered at once *)
LEMMA LoadMaps ==
  ASSUME Orderly, MapInv, NEW t \in Threads, NEW e \in Entries,
         LoadHit(t, e) \/ LoadUncached(t, e) \/ GetEpoch(t, e)
  PROVE  Store!Load(e)
<1>1. Idle(t) /\ UNCHANGED <<layers, cached, op, saves>>
  BY DEF LoadHit, LoadUncached, GetEpoch
<1>2. View' = View /\ SavesDone' = SavesDone
  BY <1>1, StutterView
<1>3. /\ View[e] = Kept(e) /\ Below(e) = Kept(e)
      /\ e \in DOMAIN cached => cached[e] = View[e]
  BY <1>1, Quiet DEF View
<1>4. EpochBelow(e) = Below(e)
  <2>1. HasCache \/ ~HasInserter
    BY DEF Orderly, MapInv, IInv, Types, HasCache, HasInserter
  <2> QED
    BY <2>1 DEF EpochBelow
<1>5. answer' = [entry |-> e, value |-> View[e]]
  BY <1>3, <1>4 DEF LoadHit, LoadUncached, GetEpoch, Answer
<1> QED
  BY <1>2, <1>5 DEF Store!Load

(* A load that finds nothing in the layers below *)
LEMMA AbsentMaps ==
  ASSUME Orderly, MapInv, NEW t \in Threads, LoadAbsent(t)
  PROVE  op[t].entry \in Entries /\ Store!Load(op[t].entry)
<1> DEFINE e == op[t].entry
<1>1. /\ op[t].pc = "load" /\ Below(e) = Absent /\ answer' = [entry |-> e, value |-> Absent]
      /\ UNCHANGED <<layers, cached, saves>> /\ op' = [op EXCEPT ![t] = NoCall]
  BY DEF LoadAbsent, Answer, Return
<1>2. e \in Entries
  BY DEF MapInv, IInv, Types, OpType
<1>3. HasCache /\ t \in stack.callers /\ flushing.pc = "idle"
  BY <1>1, CacheCall DEF Orderly, MapInv
<1>4. NoUpdate
  BY <1>1, <1>3, OthersIdle DEF Orderly, MapInv, IInv, NoUpdate
<1>5. View[e] = Absent
  BY <1>1, <1>2, <1>3, <1>4, BelowIsKept, ViewIsKept DEF MapInv, IInv
<1>6. \A u \in Threads : op'[u] = op[u] \/ (op[u].pc # "update" /\ op'[u].pc # "update")
  BY <1>1 DEF MapInv, IInv, Types, OpType, NoCall
<1>7. View' = View /\ SavesDone' = SavesDone
  BY <1>1, <1>6, StutterView
<1> QED
  BY <1>1, <1>2, <1>5, <1>7 DEF Store!Load

LEMMA FillMaps ==
  ASSUME Orderly, MapInv, MapInv', NEW t \in Threads, Fill(t)
  PROVE  op[t].entry \in Entries /\ Store!Load(op[t].entry)
<1> DEFINE e == op[t].entry
<1>1. /\ op[t].pc = "fill" /\ answer' = [entry |-> e, value |-> op[t].value]
      /\ UNCHANGED <<layers, saves>> /\ op' = [op EXCEPT ![t] = NoCall]
  BY DEF Fill, Answer, Return
<1>2. e \in Entries /\ op \in OpType
  BY DEF MapInv, IInv, Types, OpType
<1>3. HasCache /\ t \in stack.callers
  BY <1>1, CacheCall DEF Orderly, MapInv
<1>4. NoUpdate
  BY <1>1, <1>3, OthersIdle DEF Orderly, MapInv, IInv, NoUpdate
<1>5. View = [x \in Entries |-> Kept(x)] /\ SavesDone = saves
  BY <1>4, ViewIsKept DEF MapInv
<1>6. op[t].value = View[e]
  BY <1>1, <1>2, <1>3, <1>5 DEF MapInv, IInv, CallsAreCurrent
<1>7. op'[t].pc # "update" /\ \A u \in Threads : u # t => op'[u] = op[u]
  BY <1>1, <1>2 DEF OpType, NoCall
<1>8. View' = [x \in Entries |-> Kept(x)] /\ SavesDone' = saves
  BY <1>1, <1>3, <1>7, ViewOfAddition DEF Orderly
<1> QED
  BY <1>1, <1>2, <1>5, <1>6, <1>8 DEF Store!Load

LEMMA LoadUpdatedMaps ==
  ASSUME Orderly, MapInv, MapInv', NEW t \in Threads, NEW e \in Entries, LoadUpdated(t, e)
  PROVE  MapStutter
<1>1. Idle(t) /\ HasCache /\ UNCHANGED <<layers, op, saves, answer>>
  BY DEF LoadUpdated
<1>2. t \in stack.callers /\ op'[t].pc # "update"
  BY <1>1 DEF Idle
<1>3. View = [x \in Entries |-> Kept(x)] /\ SavesDone = saves
  BY <1>1, Quiet
<1>4. View' = [x \in Entries |-> Kept(x)] /\ SavesDone' = saves
  BY <1>1, <1>2, ViewOfAddition DEF Orderly
<1> QED
  BY <1>1, <1>3, <1>4 DEF MapStutter

(* The save reaches the map in the cache, if that has the entry. *)
LEMMA UpdateMaps ==
  ASSUME Orderly, MapInv, MapInv', NEW t \in Threads, UpdateCache(t)
  PROVE  op[t].entry \in Entries /\ (Store!Save(op[t].entry) \/ MapStutter)
<1> DEFINE e == op[t].entry
<1>1. /\ op[t].pc = "update" /\ op' = [op EXCEPT ![t] = NoCall]
      /\ UNCHANGED <<layers, saves, answer>>
  BY DEF UpdateCache, Return
<1>2. HasCache /\ t \in stack.callers
  BY <1>1, CacheCall DEF Orderly, MapInv
<1>3. op'[t].pc # "update" /\ \A u \in Threads : u # t => op'[u] = op[u]
  BY <1>1 DEF MapInv, IInv, Types, OpType, NoCall
<1>4. View' = [x \in Entries |-> Kept(x)] /\ SavesDone' = saves
  BY <1>1, <1>2, <1>3, ViewOfAddition DEF Orderly
<1>5. /\ e \in Entries /\ Kept(e) = saves
      /\ \A x \in Entries : x # e => View[x] = Kept(x)
      /\ IF e \in DOMAIN cached
         THEN SavesDone = saves - 1
         ELSE SavesDone = saves /\ View[e] = Kept(e)
  BY <1>1, ViewOfUpdate DEF Orderly
<1>6. saves \in Nat
  BY DEF MapInv, IInv, Types
<1>7. View = [x \in Entries |-> View[x]]
  BY DEF View
<1>8. CASE e \in DOMAIN cached
  <2>1. SavesDone + 1 = saves
    BY <1>5, <1>6, <1>8
  <2>2. View' = [View EXCEPT ![e] = saves]
    BY <1>4, <1>5, <1>7
  <2>3. Store!Save(e)
    BY <1>1, <1>4, <2>1, <2>2 DEF Store!Save
  <2> QED
    BY <1>5, <2>3
<1>9. CASE e \notin DOMAIN cached
  <2>1. \A x \in Entries : View[x] = Kept(x)
    BY <1>5, <1>9
  <2>2. View' = View
    BY <1>4, <1>7, <2>1
  <2> QED
    BY <1>1, <1>4, <1>5, <1>9, <2>2 DEF MapStutter
<1> QED
  BY <1>8, <1>9

(* A save below a cache that has the entry is not seen yet. *)
LEMMA SaveMaps ==
  ASSUME Orderly, MapInv, NEW t \in Threads, NEW e \in Entries, SaveBelow(t, e)
  PROVE  Store!Save(e) \/ MapStutter
<1> DEFINE r == [pc |-> "update", entry |-> e, value |-> saves + 1]
<1>1. /\ Idle(t) /\ saves' = saves + 1 /\ UNCHANGED <<stack, cached, answer>>
      /\ op' = IF HasCache THEN [op EXCEPT ![t] = r] ELSE op
  BY DEF SaveBelow, Call
<1>2. r.pc = "update" /\ r.entry = e
  OBVIOUS
<1> HIDE DEF r
<1>3. /\ NoUpdate /\ DOMAIN moving = {}
      /\ View = [x \in Entries |-> Kept(x)] /\ SavesDone = saves
  BY <1>1, Quiet
<1>4. \A x \in Entries : Kept(x)' = IF x = e THEN saves + 1 ELSE Kept(x)
  BY <1>3, KeptAfterSave DEF MapInv
<1>5. op \in OpType /\ saves \in Nat
  BY DEF MapInv, IInv, Types
<1>6. \A x \in DOMAIN cached : cached[x] = View[x]
  BY DEF View, MapInv, IInv, Types
<1>7. View' = [x \in Entries |-> IF x \in DOMAIN cached THEN cached[x] ELSE Kept(x)']
  BY <1>1 DEF View
<1>8. CASE HasCache /\ e \in DOMAIN cached
  <2>1. op'[t].pc = "update" /\ op'[t].entry \in DOMAIN cached'
    BY <1>1, <1>2, <1>5, <1>8 DEF OpType
  <2>2. SavesDone' = saves
    BY <1>1, <1>5, <2>1 DEF SavesDone
  <2>3. View' = View
    BY <1>3, <1>4, <1>6, <1>7, <1>8
  <2> QED
    BY <1>1, <1>3, <2>2, <2>3 DEF MapStutter
<1>9. CASE ~(HasCache /\ e \in DOMAIN cached)
  <2>1. e \notin DOMAIN cached
    BY <1>9 DEF MapInv, IInv, Callers
  <2>2. \A u \in Threads : op'[u].pc = "update" => op'[u].entry = e
    BY <1>1, <1>2, <1>3, <1>5 DEF OpType, NoUpdate
  <2>3. SavesDone' = saves + 1
    BY <1>1, <2>1, <2>2 DEF SavesDone
  <2>4. View' = [View EXCEPT ![e] = saves + 1]
    BY <1>3, <1>4, <1>6, <1>7, <2>1
  <2> QED
    BY <1>1, <1>3, <2>3, <2>4 DEF Store!Save
<1> QED
  BY <1>8, <1>9

(* The steps of a flush move what the layers keep, and keep it. *)
LEMMA FlushMaps ==
  ASSUME Orderly, MapInv, NEW t \in Threads,
         \/ \E e \in Entries : Flush(t, e.trie)
         \/ FlushClear(t) \/ FlushHandOver(t)
  PROVE  MapStutter
<1>1. UNCHANGED <<cached, saves, answer>>
  BY DEF Flush, FlushClear, FlushHandOver
<1>2. /\ \A e \in Entries : Kept(e)' = Kept(e)
      /\ \A u \in Threads : op'[u] = op[u] \/ (op[u].pc # "update" /\ op'[u].pc # "update")
  <2>1. ASSUME NEW e \in Entries, Flush(t, e.trie)
        PROVE  <1>2
    <3> DEFINE r == [pc |-> "flush", entry |-> AnyEntry, value |-> Absent]
    <3>1. /\ Idle(t) /\ moving' = unsaved /\ UNCHANGED <<unsaved, backing>>
          /\ op' = [op EXCEPT ![t] = r] /\ r.pc # "update"
      BY <2>1 DEF Flush, Call
    <3> HIDE DEF r
    <3>2. DOMAIN moving = {}
      BY <3>1, Quiet
    <3> QED
      BY <3>1, <3>2 DEF Kept, MapInv, IInv, Types, OpType, Idle
  <2>2. CASE FlushClear(t)
    <3>1. /\ flushing.pc = "clear" /\ DOMAIN unsaved' = {}
          /\ UNCHANGED <<moving, backing, op>>
      BY <2>2 DEF FlushClear, Nothing
    <3>2. HasCache
      BY <3>1 DEF MapInv, LastSave, Orderly, IInv, Types, HasCache, HasInserter
    <3>3. moving = unsaved
      BY <3>1, <3>2 DEF MapInv, IInv, Flushes
    <3> QED
      BY <3>1, <3>3 DEF Kept
  <2>3. CASE FlushHandOver(t)
    <3>1. /\ op[t].pc = "flush" /\ flushing.pc = "hand over"
          /\ op' = [op EXCEPT ![t] = NoCall] /\ NoCall.pc = "idle"
      BY <2>3 DEF FlushHandOver, Return, NoCall
    <3>2. HasCache
      BY <3>1 DEF MapInv, LastSave, Orderly, IInv, Types, HasCache, HasInserter
    <3>3. BatchInv
      BY <3>2 DEF MapInv, IInv, Flushes, Types, BatchInv
    <3>4. \A e \in Entries : Kept(e)' = Kept(e)
      BY <2>3, <3>3, HandOverKept
    <3> QED
      BY <3>1, <3>4 DEF MapInv, IInv, Types, OpType
  <2> QED
    BY <2>1, <2>2, <2>3
<1> QED
  BY <1>1, <1>2 DEF MapStutter, View, SavesDone

LEMMA DeleteMaps ==
  ASSUME Orderly, MapInv, NEW t \in Threads, NEW trie, DeleteOZKS(t, trie)
  PROVE  Store!DeleteOZKS(trie)
<1>1. /\ Idle(t) /\ UNCHANGED <<moving, op, saves, answer>>
      /\ cached' = [e \in {x \in DOMAIN cached : x.trie # trie} |-> cached[e]]
      /\ unsaved' = [e \in {x \in DOMAIN unsaved : x.trie # trie} |-> unsaved[e]]
      /\ backing' = [e \in Entries |-> IF e.trie = trie THEN Absent ELSE backing[e]]
  BY DEF DeleteOZKS, DeleteFromCache, DeleteStored, Without
<1>2. NoUpdate /\ DOMAIN moving = {}
  BY <1>1, Quiet
<1>3. SavesDone' = SavesDone
  BY <1>1, <1>2 DEF SavesDone, NoUpdate
<1>4. \A e \in Entries : Kept(e)' = IF e.trie = trie THEN Absent ELSE Kept(e)
  BY <1>1, <1>2 DEF Kept
<1>5. View' = [e \in Entries |-> IF e.trie = trie THEN Absent ELSE View[e]]
  BY <1>1, <1>4 DEF View
<1> QED
  BY <1>1, <1>3, <1>5 DEF Store!DeleteOZKS

LEMMA InitMaps == Init => Store!Init
<1> SUFFICES ASSUME Init PROVE Store!Init
  OBVIOUS
<1>1. View = [e \in Entries |-> Absent]
  BY DEF Init, View, Kept, Nothing
<1>2. SavesDone = 0
  BY DEF Init, SavesDone, NoCall
<1>3. answer \in [entry : Entries, value : {Absent}]
  BY AnyEntryFact DEF Init
<1> QED
  BY <1>1, <1>2, <1>3 DEF Store!Init

LEMMA StepMaps ==
  ASSUME Orderly, MapInv, MapInv', [Next]_vars
  PROVE  [Store!Next]_(Store!vars)
<1>1. ASSUME NEW e \in Entries, Store!Load(e) \/ Store!Save(e) \/ Store!DeleteOZKS(e.trie)
      PROVE  Store!Next
  BY <1>1 DEF Store!Next
<1>2. MapStutter => UNCHANGED Store!vars
  BY DEF MapStutter, Store!vars
<1>3. CASE UNCHANGED vars
  BY <1>2, <1>3, StutterMaps DEF vars, layers
<1>4. ASSUME NEW t \in Threads, NEW e \in Entries,
             LoadHit(t, e) \/ LoadUncached(t, e) \/ GetEpoch(t, e)
      PROVE  Store!Next
  BY <1>1, <1>4, LoadMaps
<1>5. ASSUME NEW t \in Threads, NEW e \in Entries, LoadMiss(t, e)
      PROVE  MapStutter
  <2> DEFINE r == [pc |-> "load", entry |-> e, value |-> Absent]
  <2>1. /\ Idle(t) /\ UNCHANGED <<layers, cached, saves, answer>>
        /\ op' = [op EXCEPT ![t] = r] /\ r.pc # "update"
    BY <1>5 DEF LoadMiss, Call
  <2> HIDE DEF r
  <2> QED
    BY <2>1, CallMaps DEF MapInv, Idle
<1>6. ASSUME NEW t \in Threads, LoadBelow(t)
      PROVE  MapStutter
  <2> DEFINE r == [pc |-> "fill", entry |-> op[t].entry, value |-> Below(op[t].entry)]
  <2>1. /\ op[t].pc = "load" /\ UNCHANGED <<layers, cached, saves, answer>>
        /\ op' = [op EXCEPT ![t] = r] /\ r.pc # "update"
    BY <1>6 DEF LoadBelow, Call
  <2> HIDE DEF r
  <2> QED
    BY <2>1, CallMaps DEF MapInv
<1>7. ASSUME NEW t \in Threads, LoadAbsent(t) \/ Fill(t)
      PROVE  Store!Next
  BY <1>1, <1>7, AbsentMaps, FillMaps
<1>8. ASSUME NEW t \in Threads, UpdateCache(t)
      PROVE  Store!Next \/ MapStutter
  BY <1>1, <1>8, UpdateMaps
<1>9. ASSUME NEW t \in Threads, NEW e \in Entries, SaveBelow(t, e)
      PROVE  Store!Next \/ MapStutter
  BY <1>1, <1>9, SaveMaps
<1>10. ASSUME NEW t \in Threads, NEW e \in Entries, LoadUpdated(t, e)
       PROVE  MapStutter
  BY <1>10, LoadUpdatedMaps
<1>11. ASSUME NEW t \in Threads,
              \/ \E e \in Entries : Flush(t, e.trie)
              \/ FlushClear(t) \/ FlushHandOver(t)
       PROVE  MapStutter
  BY <1>11, FlushMaps
<1>12. ASSUME NEW t \in Threads, NEW e \in Entries, DeleteOZKS(t, e.trie)
       PROVE  Store!Next
  BY <1>1, <1>12, DeleteMaps
<1> QED
  BY <1>2, <1>3, <1>4, <1>5, <1>6, <1>7, <1>8, <1>9, <1>10, <1>11, <1>12 DEF Next

(* Loads through the layers answer with what was saved last: evictions,    *)
(* the steps of a flush and deletes of other tries are not seen, whatever  *)
(* the capacity of the caches, if a cache has one caller (OneCallerPerCache)*)
(* and an inserter is used under a cache.  Without a cache one thread may  *)
(* call: the maps of MemoryStorage have no lock.                           *)
THEOREM LayersAreOneMap == Orderly => (Spec => ImplementsStorageMap)
<1> SUFFICES ASSUME Orderly PROVE Spec => ImplementsStorageMap
  OBVIOUS
<1>1. Init => MapInv /\ Store!Init
  BY MapInit, InitMaps
<1>2. MapInv /\ [Next]_vars => MapInv'
  BY MapStep DEF Orderly
<1>3. MapInv /\ MapInv' /\ [Next]_vars => [Store!Next]_(Store!vars)
  BY StepMaps
<1> QED
  BY <1>1, <1>2, <1>3, PTL DEF Spec, ImplementsStorageMap, Store!Spec

=============================================================================
