--------------------------- MODULE OZKSDistributed --------------------------
(***************************************************************************)
(* The writing side of the distributed example                             *)
(* (examples/ozks_distributed/ozks_distributed.cpp and its providers).     *)
(*                                                                         *)
(*   OZKS::insert             stores the payload and hands the label over  *)
(*     UpdateProvider         keeps one list of updates for each trie      *)
(*       Updater::time_tick   inserts the list into the trie, every five   *)
(*                            seconds, and flushes the storage             *)
(*     MemoryStorageBatchInserter  keeps what is saved until it is flushed *)
(*                                                                         *)
(* Several clients call insert; every trie has a storage and a timer, and  *)
(* all timers share one mutex.  Nothing guards the inserter: clients look  *)
(* for elements and save them while a timer flushes them.  A process can   *)
(* stop and another one load the instances from their saved form.          *)
(* TrieReplicas models the queriers; here their view is the trie of the    *)
(* last refresh.                                                           *)
(***************************************************************************)
EXTENDS Naturals, Sequences, FiniteSets

CONSTANTS
  Tries, Keys, Payloads, Clients,
  Uses,       \* the ways in which the instances may be used: the clients that
              \* call, what they insert into which trie, whether no two
              \* inserts of a key run at the same time, whether clients call
              \* the batch form of insert; bound: how often the process stops
  None        \* no payload

ASSUME UsesAssumption ==
  \A u \in Uses : u.clients \subseteq Clients /\ u.inserts \subseteq Tries \X Keys \X Payloads
                 /\ u.oneInsertPerKey \in BOOLEAN /\ u.batches \in BOOLEAN
                 /\ u.restarts \in Nat
ASSUME NoneAssumption == None \notin Payloads

VARIABLES
  use,        \* one of Uses
  unsaved,    \* unsaved_store_elements_: trie -> key -> payload
  moving,     \* the store_elements of the flush that runs: key -> payload
  durable,    \* the store elements in the storage below the batch inserter
  updates,    \* updates_: trie -> the entries that wait for its timer
  locked,     \* timer_tick_mtx_
  tick,       \* the tick that holds it: its step, trie and entries
  memory,     \* the updater's trie: a set of <<key, payload, epoch>>
  published,  \* the trie in storage, likewise
  seen,       \* what the queriers of each trie saw at their last refresh
  client,     \* the calls of insert that run
  updated,    \* trie -> whether this process has an updater for it
  halted,     \* the process died of an arithmetic fault
  missed,     \* history: the keys, with their trie, whose insert met a flush
  restarts

elements == <<unsaved, moving, durable, missed>>
trieState == <<memory, published>>
vars == <<use, elements, updates, locked, tick, trieState, seen, client, updated, halted,
          restarts>>

NoCall == [pc |-> "idle"]
NoTick == [pc |-> "idle", trie |-> CHOOSE t \in Tries : TRUE, batch |-> <<>>]
NoElements == [k \in Keys |-> None]
Over(a, b) == [k \in Keys |-> IF a[k] # None THEN a[k] ELSE b[k]]

(* What load_store_element finds: the unsaved elements first. *)
Elements(t) == Over(unsaved[t], durable[t])

KeysOf(d) == {e[1] : e \in d}
EpochOf(d) == IF d = {} THEN 0 ELSE CHOOSE n \in {e[3] : e \in d} : \A e \in d : e[3] <= n
BatchKeys(b) == {b[i].key : i \in DOMAIN b}

-----------------------------------------------------------------------------
Init ==
  /\ use \in Uses
  /\ unsaved = [t \in Tries |-> NoElements] /\ durable = unsaved
  /\ moving = NoElements /\ missed = {}
  /\ updates = [t \in Tries |-> <<>>]
  /\ locked = FALSE /\ tick = NoTick
  /\ memory = [t \in Tries |-> {}] /\ published = memory
  /\ seen = published
  /\ client = [c \in Clients |-> NoCall]
  /\ updated = [t \in Tries |-> TRUE]
  /\ halted = FALSE /\ restarts = 0

-----------------------------------------------------------------------------
(* OZKS::insert(key, payload)                                              *)

InsertsOf(t, k) ==
  {c \in Clients : client[c].pc # "idle" /\ client[c].trie = t /\ client[c].key = k}

(***************************************************************************)
(* The key is looked for; "Key is already contained" ends the call here.   *)
(* What a flush has taken and not yet handed over is not found.            *)
(***************************************************************************)
BeginInsert(c, t, k, p) ==
  /\ ~halted /\ c \in use.clients /\ <<t, k, p>> \in use.inserts /\ client[c].pc = "idle"
  /\ Elements(t)[k] = None
  /\ use.oneInsertPerKey => InsertsOf(t, k) = {}
  /\ client' = [client EXCEPT ![c] = [pc |-> "save", trie |-> t, key |-> k, payload |-> p]]
  /\ missed' = IF tick.trie = t /\ moving[k] # None THEN missed \cup {<<t, k>>} ELSE missed
  /\ UNCHANGED <<use, unsaved, moving, durable, updates, locked, tick, trieState, seen, updated,
                 halted, restarts>>

(* Mutant: the label is handed over and the payload never stored. *)
SaveElementForgotten(c) ==
  /\ ~halted /\ client[c].pc = "save"
  /\ client' = [client EXCEPT ![c].pc = "enqueue"]
  /\ UNCHANGED <<use, elements, updates, locked, tick, trieState, seen, updated,
                 halted, restarts>>

SaveElement(c) ==
  /\ ~halted /\ client[c].pc = "save"
  /\ LET r == client[c] IN unsaved' = [unsaved EXCEPT ![r.trie][r.key] = r.payload]
  /\ client' = [client EXCEPT ![c].pc = "enqueue"]
  /\ UNCHANGED <<use, moving, durable, missed, updates, locked, tick, trieState, seen,
                 updated, halted, restarts>>

(* UpdateProvider::insert, under updates_mtx_ *)
Enqueue(c) ==
  /\ ~halted /\ client[c].pc = "enqueue"
  /\ LET r == client[c]
     IN  updates' = [updates EXCEPT ![r.trie] =
                       Append(@, [key |-> r.key, payload |-> r.payload])]
  /\ client' = [client EXCEPT ![c] = NoCall]
  /\ UNCHANGED <<use, elements, locked, tick, trieState, seen, updated, halted,
                 restarts>>

(***************************************************************************)
(* OZKS::insert(batch) divides by the smaller of the thread limit and the  *)
(* size of pending_insertions_, which nothing fills.                       *)
(***************************************************************************)
PendingInsertions == <<>>
ThreadCount(limit) ==
  IF Len(PendingInsertions) < limit THEN Len(PendingInsertions) ELSE limit

InsertBatch ==
  /\ use.batches /\ ~halted
  /\ ThreadCount(1) = 0
  /\ halted' = TRUE
  /\ UNCHANGED <<use, elements, updates, locked, tick, trieState, seen, client,
                 updated, restarts>>

-----------------------------------------------------------------------------
(* Updater::time_tick, for the timer of trie t.                            *)

(* Mutant: the list is read and not moved out. *)
TickStartCopies(t) ==
  /\ ~halted /\ updated[t] /\ ~locked /\ updates[t] # <<>>
  /\ locked' = TRUE
  /\ tick' = [pc |-> "insert", trie |-> t, batch |-> updates[t]]
  /\ UNCHANGED <<use, elements, updates, trieState, seen, client, updated, halted,
                 restarts>>

(* UpdateProvider::get_updates, under updates_mtx_, moves the list out. *)
GetUpdates(t) == updates' = [updates EXCEPT ![t] = <<>>]

(* try_lock succeeds.  A tick that does not get the lock, or finds no      *)
(* updates and gives it back, changes nothing.                             *)
TickStart(t) ==
  /\ ~halted /\ updated[t] /\ ~locked /\ updates[t] # <<>>
  /\ locked' = TRUE
  /\ tick' = [pc |-> "insert", trie |-> t, batch |-> updates[t]]
  /\ GetUpdates(t)
  /\ UNCHANGED <<use, elements, trieState, seen, client, updated, halted, restarts>>

(* CompressedTrie::insert throws when the trie, or the batch itself, has   *)
(* one of the keys already.                                                *)
Repeats(t, b) ==
  \/ BatchKeys(b) \cap KeysOf(memory[t]) # {}
  \/ \E i, j \in DOMAIN b : i # j /\ b[i].key = b[j].key

(* The exception ends the tick and is swallowed by the timer: nobody       *)
(* unlocks the mutex.                                                      *)
TickThrows ==
  /\ ~halted /\ tick.pc = "insert" /\ Repeats(tick.trie, tick.batch)
  /\ tick' = NoTick
  /\ UNCHANGED <<use, elements, updates, locked, trieState, seen, client, updated,
                 halted, restarts>>

Added(d, b) ==
  d \cup {<<b[i].key, b[i].payload, EpochOf(d) + 1>> : i \in DOMAIN b}

(* trie_->insert: memory and the batch inserter's maps have the new trie. *)
TickInsert ==
  /\ ~halted /\ tick.pc = "insert" /\ ~Repeats(tick.trie, tick.batch)
  /\ memory' = [memory EXCEPT ![tick.trie] = Added(@, tick.batch)]
  /\ tick' = [tick EXCEPT !.pc = "flush"]
  /\ UNCHANGED <<use, elements, updates, locked, published, seen, client, updated,
                 halted, restarts>>

(***************************************************************************)
(* storage()->flush: the unsaved elements are copied, then the map that    *)
(* has them is emptied, then the storage below takes them with the nodes   *)
(* and the trie, at once.  What was saved since it was copied is lost.     *)
(***************************************************************************)
TickCopy ==
  /\ ~halted /\ tick.pc = "flush"
  /\ moving' = unsaved[tick.trie]
  /\ tick' = [tick EXCEPT !.pc = "clear"]
  /\ UNCHANGED <<use, unsaved, durable, missed, updates, locked, trieState, seen, client,
                 updated, halted, restarts>>

Lost(t) == {k \in Keys : unsaved[t][k] \notin {None, moving[k]}}

TickClear ==
  /\ ~halted /\ tick.pc = "clear"
  /\ unsaved' = [unsaved EXCEPT ![tick.trie] = NoElements]
  /\ missed' = missed \cup ({tick.trie} \X Lost(tick.trie))
  /\ tick' = [tick EXCEPT !.pc = "hand over"]
  /\ UNCHANGED <<use, moving, durable, updates, locked, trieState, seen, client, updated,
                 halted, restarts>>

(* Mutant: the store elements are not handed over. *)
TickHandOverTrie ==
  /\ ~halted /\ tick.pc = "hand over"
  /\ published' = [published EXCEPT ![tick.trie] = memory[tick.trie]]
  /\ moving' = NoElements
  /\ tick' = [tick EXCEPT !.pc = "end"]
  /\ UNCHANGED <<use, unsaved, durable, missed, updates, locked, memory, seen, client,
                 updated, halted, restarts>>

TickHandOver ==
  /\ ~halted /\ tick.pc = "hand over"
  /\ published' = [published EXCEPT ![tick.trie] = memory[tick.trie]]
  /\ durable' = [durable EXCEPT ![tick.trie] = Over(moving, @)]
  /\ moving' = NoElements
  /\ tick' = [tick EXCEPT !.pc = "end"]
  /\ UNCHANGED <<use, unsaved, missed, updates, locked, memory, seen, client, updated,
                 halted, restarts>>

(* Mutant: the mutex is kept. *)
TickEndLocked ==
  /\ ~halted /\ tick.pc = "end"
  /\ tick' = NoTick
  /\ UNCHANGED <<use, elements, updates, locked, trieState, seen, client, updated,
                 halted, restarts>>

(* save_insert_result does nothing; the mutex is unlocked. *)
TickEnd ==
  /\ ~halted /\ tick.pc = "end"
  /\ locked' = FALSE /\ tick' = NoTick
  /\ UNCHANGED <<use, elements, updates, trieState, seen, client, updated, halted,
                 restarts>>

-----------------------------------------------------------------------------
(* OZKS::check_for_update, as TrieReplicas has it for calls of one client; *)
(* a loaded instance has no queriers to refresh.                           *)
CheckForUpdate(t) ==
  /\ ~halted /\ updated[t]
  /\ seen' = [seen EXCEPT ![t] = published[t]]
  /\ UNCHANGED <<use, elements, updates, locked, tick, trieState, client, updated,
                 halted, restarts>>

(***************************************************************************)
(* The process stops, and OZKS::Load makes the instances anew from what    *)
(* save wrote: the id, the configuration and the VRF key.  Lists, calls    *)
(* and unflushed elements are gone.  The providers are those of the new    *)
(* instance's random id and storage: none of them knows the loaded trie.   *)
(***************************************************************************)
Restart ==
  /\ restarts < use.restarts
  /\ restarts' = restarts + 1
  /\ unsaved' = [t \in Tries |-> NoElements] /\ moving' = NoElements
  /\ updates' = [t \in Tries |-> <<>>]
  /\ locked' = FALSE /\ tick' = NoTick
  /\ memory' = [t \in Tries |-> {}]
  /\ seen' = [t \in Tries |-> {}]
  /\ client' = [c \in Clients |-> NoCall]
  /\ updated' = [t \in Tries |-> FALSE]
  /\ halted' = FALSE
  /\ UNCHANGED <<use, durable, missed, published>>

-----------------------------------------------------------------------------
Next ==
  \/ \E c \in Clients :
       \/ \E t \in Tries, k \in Keys, p \in Payloads : BeginInsert(c, t, k, p)
       \/ SaveElement(c) \/ Enqueue(c)
  \/ InsertBatch
  \/ \E t \in Tries : TickStart(t) \/ CheckForUpdate(t)
  \/ TickThrows \/ TickInsert \/ TickCopy \/ TickClear \/ TickHandOver \/ TickEnd
  \/ Restart

Spec == Init /\ [][Next]_vars

(***************************************************************************)
(* A timer that has started a tick finishes it, and one that finds the     *)
(* mutex free again and again, at its ticks, gets it: the ticks of the     *)
(* tries are not in step for ever.  Nothing is assumed of the clients.     *)
(***************************************************************************)
FairSpec ==
  /\ Spec
  /\ WF_vars(TickThrows \/ TickInsert \/ TickCopy \/ TickClear \/ TickHandOver \/ TickEnd)
  /\ \A t \in Tries : SF_vars(TickStart(t))

-----------------------------------------------------------------------------
(* Properties                                                              *)

IsDictionary(d) ==
  \A e \in d : e = <<e[1], e[2], e[3]>> /\ e[1] \in Keys /\ e[2] \in Payloads /\ e[3] > 0

TypeOK ==
  /\ use \in Uses
  /\ unsaved \in [Tries -> [Keys -> Payloads \cup {None}]]
  /\ moving \in [Keys -> Payloads \cup {None}] /\ missed \subseteq Tries \X Keys
  /\ durable \in [Tries -> [Keys -> Payloads \cup {None}]]
  /\ \A t \in Tries :
       /\ IsDictionary(memory[t]) /\ IsDictionary(published[t]) /\ IsDictionary(seen[t])
       /\ \A i \in DOMAIN updates[t] : updates[t][i].key \in Keys
  /\ tick.pc \in {"idle", "insert", "flush", "clear", "hand over", "end"} /\ tick.trie \in Tries
  /\ tick.pc # "idle" => locked
  /\ \A c \in Clients : client[c].pc \in {"idle", "save", "enqueue"}
  /\ restarts \in 0..use.restarts

(***************************************************************************)
(* The keys of trie t whose insert met a flush: the element was saved      *)
(* after the flush had copied the unsaved ones and is lost, or the key was *)
(* looked for while the flush had its element.  Neither the caller nor the *)
(* code can tell, and nothing more is promised of such a key.              *)
(***************************************************************************)
Missed(t) == {k \in Keys : <<t, k>> \in missed}

(* Whatever else a querier finds has a store element, though the element   *)
(* and the label take different ways: query throws "Store should contain   *)
(* the key we found in the trie" in no other case, whatever inserts and    *)
(* flushes run at the same time, after failed ticks and restarts either.   *)
FoundHasElement ==
  \A t \in Tries :
    /\ \A k \in KeysOf(seen[t]) \ Missed(t) : Elements(t)[k] # None
    /\ \A k \in KeysOf(published[t]) \ Missed(t) : durable[t][k] # None

(* README.md:13: "once a (label, value, epoch) tuple is added, it cannot   *)
(* be modified or removed": the element's payload is the one that the trie *)
(* commits to, before and after a restart, and the result of query         *)
(* verifies.                                                               *)
FoundHasPayload ==
  \A t \in Tries :
    /\ \A e \in seen[t] : e[1] \in Missed(t) \/ Elements(t)[e[1]] = e[2]
    /\ \A e \in published[t] : e[1] \in Missed(t) \/ durable[t][e[1]] = e[2]

(* So it is when callers do not insert a key while they insert it.         *)
PayloadOfOneInsert == use.oneInsertPerKey => FoundHasPayload

(* Insertions do not get past each other: until a process stops or an      *)
(* insert meets a flush, what such a client has stored waits in one place, *)
(* a call, a list or a tick, or is in the trie.                            *)
Moving(t) == IF tick.trie = t THEN moving ELSE NoElements
Stored(t) == Over(unsaved[t], Over(Moving(t), durable[t]))
Waiting(t, k) ==
  {c \in Clients : client[c].pc = "enqueue" /\ client[c].trie = t /\ client[c].key = k}
Queued(t, k) == {i \in DOMAIN updates[t] : updates[t][i].key = k}
InTick(t, k) ==
  {i \in DOMAIN tick.batch : tick.trie = t /\ tick.batch[i].key = k /\ tick.pc = "insert"}
InTrie(t, k) == {e \in memory[t] : e[1] = k}

StoredOnceIsInsertedOnce ==
  (use.oneInsertPerKey /\ restarts = 0) =>
    \A t \in Tries, k \in Keys : Missed(t) = {} =>
      Cardinality(Waiting(t, k)) + Cardinality(Queued(t, k)) + Cardinality(InTick(t, k))
        + Cardinality(InTrie(t, k)) = IF Stored(t)[k] = None THEN 0 ELSE 1

(* An entry that was handed over is published, with whichever other tries  *)
(* and entries it shares the mutex and the list.                           *)
UpdatesArePublished ==
  \A t \in Tries, k \in Keys : Queued(t, k) # {} ~> k \in KeysOf(published[t])

(* So it is in a process that is not stopped and inserts each key once, by *)
(* the single form of insert, until an insert meets a flush: its key can   *)
(* then be inserted again, and the tick that has it throws.                *)
OneInsertIsPublished ==
  \A t \in Tries, k \in Keys :
    (use.oneInsertPerKey /\ ~use.batches /\ use.restarts = 0 /\ Queued(t, k) # {})
      ~> (k \in KeysOf(published[t]) \/ missed # {})

=============================================================================
