---------------------------- MODULE StorageStack ----------------------------
(***************************************************************************)
(* The layers of storage between a trie and its data:                      *)
(*                                                                         *)
(*   MemoryStorageCache            three LRU caches, write-through         *)
(*     MemoryStorageBatchInserter  holds what was saved until flush        *)
(*       BatchStorage              the data itself                         *)
(*                                                                         *)
(* (oZKS/storage/memory_storage_cache.cpp, memory_storage_batch_inserter.  *)
(* cpp, memory_storage.cpp).  Either of the upper layers may be missing.   *)
(* The bottom is a MemoryStorage or, under an inserter, a storage that     *)
(* stores a flushed batch at once, as the storages of the unit tests do.   *)
(*                                                                         *)
(* A call of the cache is two or three steps, because nothing holds a lock *)
(* from one layer to the next; so is a flush of the inserter.  A call of   *)
(* MemoryStorage is one: its maps have no lock at all, and two threads     *)
(* must not use them at a time.  Values are numbered in the order in which *)
(* they are saved.                                                         *)
(***************************************************************************)
EXTENDS Naturals, Sequences, FiniteSets

CONSTANTS
  Tries, Names, \* trie ids; node labels and element keys
  Entries,      \* what is stored: records of a trie, a kind and a name
  Threads,      \* the threads that may call the storage
  Stacks,       \* the stacks that may be built, and how they are called
  Capacity,     \* cache_size, of each of the three caches
  MaxSaves      \* bound: saves in a behaviour

Kinds == {"node", "trie", "element"}
Absent == 0
Values == 1..MaxSaves

ASSUME EntriesAssumption ==
  /\ Entries \subseteq [trie : Tries, kind : Kinds, name : Names]
  /\ Entries # {}
ASSUME CapacityAssumption == Capacity \in Nat \ {0}
ASSUME StacksAssumption ==
  Stacks \subseteq [cache : BOOLEAN, inserter : BOOLEAN,
                    callers : SUBSET Threads, oneTrieAtATime : BOOLEAN]
ASSUME MaxSavesAssumption == MaxSaves \in Nat

VARIABLES
  stack,        \* which layers there are, the threads that call them, and
                \* whether they flush one trie before they write another
  backing,      \* entry -> value, in the storage at the bottom
  unsaved,      \* unsaved_nodes_, unsaved_tries_, unsaved_store_elements_
  moving,       \* what flush has moved out and not yet handed over
  flushing,     \* the thread that runs flush, its trie and its next step
  cached,       \* the three LRU caches, together: entry -> value
  recent,       \* kind -> the entries cached, the least recently used first
  op,           \* thread -> the call it is in
  saves,        \* how many values were saved
  answer        \* the last load: its entry and what it answered

vars == <<stack, backing, unsaved, moving, flushing, cached, recent, op, saves, answer>>
layers == <<stack, backing, unsaved, moving, flushing>>

HasCache == stack.cache
HasInserter == stack.inserter

Nothing == [e \in {} |-> Absent]
AnyEntry == CHOOSE e \in Entries : TRUE
NoCall == [pc |-> "idle", entry |-> AnyEntry, value |-> Absent]
NotFlushing == [pc |-> "idle", trie |-> AnyEntry.trie]

Idle(t) == t \in stack.callers /\ op[t].pc = "idle"
Call(t, pc, e, v) == op' = [op EXCEPT ![t] = [pc |-> pc, entry |-> e, value |-> v]]
Return(t) == op' = [op EXCEPT ![t] = NoCall]
Answer(e, v) == answer' = [entry |-> e, value |-> v]

-----------------------------------------------------------------------------
(* The layers under the cache *)

(* MemoryStorageBatchInserter::load_X: the unsaved entries, then below. *)
Below(e) == IF e \in DOMAIN unsaved THEN unsaved[e] ELSE backing[e]

(* map_[key] = value *)
With(m, e, v) == [x \in DOMAIN m \cup {e} |-> IF x = e THEN v ELSE m[x]]

(* save_X of the layer under the cache *)
StoreBelow(e, v) ==
  IF HasInserter
  THEN unsaved' = With(unsaved, e, v) /\ UNCHANGED <<backing, moving, flushing>>
  ELSE backing' = With(backing, e, v) /\ UNCHANGED <<unsaved, moving, flushing>>

-----------------------------------------------------------------------------
(* Poco::LRUCache *)

Others(s, e) == SelectSeq(s, LAMBDA x : x # e)

(* A hit makes the entry the most recently used one. *)
Touch(e) ==
  recent' = [recent EXCEPT ![e.kind] = Append(Others(@, e), e)]

(* add and update: the entry becomes the most recent, the oldest leaves. *)
AddToCache(e, v) ==
  LET queue  == Append(Others(recent[e.kind], e), e)
      full   == Len(queue) > Capacity
      kept   == IF full THEN Tail(queue) ELSE queue
      oldest == IF full THEN {Head(queue)} ELSE {}
  IN  /\ recent' = [recent EXCEPT ![e.kind] = kept]
      /\ cached' = [x \in (DOMAIN cached \cup {e}) \ oldest |->
                      IF x = e THEN v ELSE cached[x]]

-----------------------------------------------------------------------------
Init ==
  /\ stack \in Stacks
  /\ backing = [e \in Entries |-> Absent]
  /\ unsaved = Nothing
  /\ moving = Nothing
  /\ flushing = NotFlushing
  /\ cached = Nothing
  /\ recent = [k \in Kinds |-> <<>>]
  /\ op = [t \in Threads |-> NoCall]
  /\ saves = 0
  /\ answer = [entry |-> AnyEntry, value |-> Absent]

(* load_ctnode, load_compressed_trie, load_store_element *)
LoadHit(t, e) ==
  /\ Idle(t) /\ HasCache /\ e \in DOMAIN cached
  /\ Answer(e, cached[e])
  /\ Touch(e)
  /\ UNCHANGED <<layers, cached, op, saves>>

LoadMiss(t, e) ==
  /\ Idle(t) /\ HasCache /\ e \notin DOMAIN cached
  /\ Call(t, "load", e, Absent)
  /\ UNCHANGED <<layers, cached, recent, saves, answer>>

LoadUncached(t, e) ==
  /\ Idle(t) /\ ~HasCache
  /\ Answer(e, Below(e))
  /\ UNCHANGED <<layers, cached, recent, op, saves>>

(* storage_->load_X answers false: the cache is left alone. *)
LoadAbsent(t) ==
  /\ op[t].pc = "load" /\ Below(op[t].entry) = Absent
  /\ Answer(op[t].entry, Absent)
  /\ Return(t)
  /\ UNCHANGED <<layers, cached, recent, saves>>

LoadBelow(t) ==
  /\ op[t].pc = "load" /\ Below(op[t].entry) # Absent
  /\ Call(t, "fill", op[t].entry, Below(op[t].entry))
  /\ UNCHANGED <<layers, cached, recent, saves, answer>>

Fill(t) ==
  /\ op[t].pc = "fill"
  /\ AddToCache(op[t].entry, op[t].value)
  /\ Answer(op[t].entry, op[t].value)
  /\ Return(t)
  /\ UNCHANGED <<layers, saves>>

(* Callers that flush one trie before they write another. *)
MayWrite(trie) ==
  stack.oneTrieAtATime => \A x \in DOMAIN unsaved \cup DOMAIN moving : x.trie = trie

(* save_X: storage_->save_X, then the cache *)
SaveBelow(t, e) ==
  /\ Idle(t) /\ saves < MaxSaves /\ MayWrite(e.trie)
  /\ saves' = saves + 1
  /\ StoreBelow(e, saves + 1)
  /\ IF HasCache THEN Call(t, "update", e, saves + 1) ELSE UNCHANGED op
  /\ UNCHANGED <<stack, cached, recent, answer>>

UpdateCache(t) ==
  /\ op[t].pc = "update"
  /\ AddToCache(op[t].entry, op[t].value)
  /\ Return(t)
  /\ UNCHANGED <<layers, saves, answer>>

(* Mutant: what is handed back is the value before the last one. *)
LoadUpdatedOlder(t, e) ==
  /\ Idle(t) /\ HasCache /\ backing[e] > 1
  /\ stack.oneTrieAtATime => unsaved = Nothing
  /\ AddToCache(e, backing[e] - 1)
  /\ UNCHANGED <<layers, op, saves, answer>>

(***************************************************************************)
(* load_updated_elements goes down to the storage at the bottom, which     *)
(* hands nodes and tries of an epoch, here the last one, to the add_X of   *)
(* the layer it was called with, one by one.  The inserter, if it is that  *)
(* layer, hands over none.  Orderly callers ask after a flush.  Epochs     *)
(* that are handed over one after the other are in TrieReplicas.           *)
(***************************************************************************)
LoadUpdated(t, e) ==
  /\ Idle(t) /\ HasCache /\ e.kind # "element" /\ backing[e] # Absent
  /\ stack.oneTrieAtATime => unsaved = Nothing
  /\ AddToCache(e, backing[e])
  /\ UNCHANGED <<layers, op, saves, answer>>

-----------------------------------------------------------------------------
(* MemoryStorageBatchInserter::flush(trie_id), one at a time.  Without an  *)
(* inserter a flush reaches MemoryStorage, which has nothing to do.        *)

Flush(t, trie) ==
  /\ Idle(t) /\ HasInserter /\ flushing.pc = "idle" /\ MayWrite(trie)
  /\ moving' = unsaved
  /\ flushing' = [pc |-> "clear", trie |-> trie]
  /\ Call(t, "flush", AnyEntry, Absent)
  /\ UNCHANGED <<stack, backing, unsaved, cached, recent, saves, answer>>

FlushClear(t) ==
  /\ op[t].pc = "flush" /\ flushing.pc = "clear"
  /\ unsaved' = Nothing
  /\ flushing' = [pc |-> "hand over", trie |-> flushing.trie]
  /\ UNCHANGED <<stack, backing, moving, cached, recent, op, saves, answer>>

(* Nodes and store elements are handed over without their trie: the       *)
(* storage below files them under the trie_id that flush was given.       *)
Filed(e, trie) ==
  IF e.kind = "trie" THEN e ELSE [trie |-> trie, kind |-> e.kind, name |-> e.name]

(* Mutant: an insert that leaves what is stored already. *)
FlushHandOverNew(t) ==
  /\ op[t].pc = "flush" /\ flushing.pc = "hand over"
  /\ backing' = [e \in Entries |->
       IF e \in DOMAIN moving /\ backing[e] = Absent THEN moving[e] ELSE backing[e]]
  /\ moving' = Nothing
  /\ flushing' = NotFlushing
  /\ Return(t)
  /\ UNCHANGED <<stack, unsaved, cached, recent, saves, answer>>

FlushHandOver(t) ==
  /\ op[t].pc = "flush" /\ flushing.pc = "hand over"
  /\ LET arriving == {Filed(x, flushing.trie) : x \in DOMAIN moving}
     IN  \E from \in [arriving -> DOMAIN moving] :
           /\ \A e \in arriving : Filed(from[e], flushing.trie) = e
           /\ backing' = [e \in Entries |->
                IF e \in arriving THEN moving[from[e]] ELSE backing[e]]
  /\ moving' = Nothing
  /\ flushing' = NotFlushing
  /\ Return(t)
  /\ UNCHANGED <<stack, unsaved, cached, recent, saves, answer>>

-----------------------------------------------------------------------------
(* MemoryStorage::delete_ozks; an inserter's or a cache's map without trie *)
DeleteStored(trie) ==
  backing' = [e \in Entries |-> IF e.trie = trie THEN Absent ELSE backing[e]]
Without(m, trie) == [e \in {x \in DOMAIN m : x.trie # trie} |-> m[e]]

(* Mutant: the store elements stay in their cache. *)
DeleteFromCacheNodes(trie) ==
  /\ cached' = [e \in {x \in DOMAIN cached : x.kind = "element" \/ x.trie # trie} |->
                  cached[e]]
  /\ recent' = [k \in Kinds |->
       SelectSeq(recent[k], LAMBDA x : x.kind = "element" \/ x.trie # trie)]

DeleteFromCache(trie) ==
  /\ cached' = Without(cached, trie)
  /\ recent' = [k \in Kinds |-> SelectSeq(recent[k], LAMBDA x : x.trie # trie)]

(* delete_ozks of every layer, from the cache down, in one step: only a    *)
(* caller that is alone deletes a trie.                                    *)
DeleteOZKS(t, trie) ==
  /\ Idle(t) /\ flushing.pc = "idle"
  /\ DeleteFromCache(trie)
  /\ unsaved' = Without(unsaved, trie)
  /\ DeleteStored(trie)
  /\ UNCHANGED <<stack, moving, flushing, op, saves, answer>>

(***************************************************************************)
(* get_compressed_trie_epoch: the cache asks the layer below and itself    *)
(* only if that has no trie; so does the inserter, with its unsaved tries. *)
(***************************************************************************)
EpochBelow(e) ==
  IF HasCache \/ ~HasInserter THEN Below(e)
  ELSE IF backing[e] # Absent THEN backing[e] ELSE Below(e)

GetEpoch(t, e) ==
  /\ Idle(t) /\ e.kind = "trie"
  /\ IF EpochBelow(e) = Absent /\ e \in DOMAIN cached
     THEN Answer(e, cached[e]) /\ Touch(e)
     ELSE Answer(e, EpochBelow(e)) /\ UNCHANGED recent
  /\ UNCHANGED <<layers, cached, op, saves>>

-----------------------------------------------------------------------------
Next ==
  \E t \in Threads :
    \/ \E e \in Entries :
         \/ LoadHit(t, e) \/ LoadMiss(t, e) \/ LoadUncached(t, e)
         \/ SaveBelow(t, e) \/ GetEpoch(t, e) \/ LoadUpdated(t, e)
         \/ Flush(t, e.trie) \/ DeleteOZKS(t, e.trie)
    \/ LoadAbsent(t) \/ LoadBelow(t) \/ Fill(t) \/ UpdateCache(t)
    \/ FlushClear(t) \/ FlushHandOver(t)

Spec == Init /\ [][Next]_vars

-----------------------------------------------------------------------------
(* What the layers under the cache hold, a running flush included. *)
Kept(e) == IF e \in DOMAIN unsaved THEN unsaved[e]
           ELSE IF e \in DOMAIN moving THEN moving[e] ELSE backing[e]

(* What a load of each entry answers once no other call runs. *)
View == [e \in Entries |-> IF e \in DOMAIN cached THEN cached[e] ELSE Kept(e)]

(* A save takes effect when it reaches the upmost layer that has the entry. *)
SavesDone ==
  IF \E t \in Threads : op[t].pc = "update" /\ op[t].entry \in DOMAIN cached
  THEN saves - 1 ELSE saves

Store == INSTANCE StorageMap WITH map <- View, saves <- SavesDone

(* Every variable has its type; each LRU queue lists what its cache holds, *)
(* once, and no more than its capacity.                                    *)
TypeOK ==
  /\ stack \in Stacks
  /\ backing \in [Entries -> Values \cup {Absent}]
  /\ \A m \in {unsaved, moving, cached} :
       DOMAIN m \subseteq Entries /\ \A e \in DOMAIN m : m[e] \in Values
  /\ flushing \in [pc : {"idle", "clear", "hand over"}, trie : Tries]
  /\ \A k \in Kinds :
       /\ recent[k] \in Seq({e \in DOMAIN cached : e.kind = k})
       /\ Len(recent[k]) = Cardinality({e \in DOMAIN cached : e.kind = k})
       /\ Len(recent[k]) <= Capacity
  /\ op \in [Threads -> [pc : {"idle", "load", "fill", "update", "flush"},
                         entry : Entries, value : Values \cup {Absent}]]
  /\ saves \in 0..MaxSaves
  /\ answer \in [entry : Entries, value : Values \cup {Absent}]

(* A cached entry is what the layers below hold, except while the call    *)
(* that is saving it runs: the cache never hides a newer value.           *)
CacheIsCurrent ==
  \A e \in DOMAIN cached :
    \/ cached[e] = Kept(e)
    \/ \E t \in Threads : op[t].pc = "update" /\ op[t].entry = e

(* The stack of layers is one map that answers with what was saved last:   *)
(* eviction, a flush at any moment and deletes of other tries are not seen.*)
ImplementsStorageMap == Store!Spec

(* Handing a batch over leaves every load with the same answer. *)
FlushIsInvisible ==
  [][\A t \in Threads : FlushHandOver(t) => View' = View]_vars

(* What was saved and not deleted is still there, whatever other threads do. *)
SavedStays ==
  [][\A e \in Entries :
       (View[e] # Absent /\ View'[e] = Absent) =>
          \E t \in Threads : DeleteOZKS(t, e.trie)]_vars
=============================================================================
