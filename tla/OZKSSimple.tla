----------------------------- MODULE OZKSSimple -----------------------------
(***************************************************************************)
(* The example that runs in one process (examples/ozks_simple/ozks.cpp and *)
(* its providers): instances of OZKS, each with a trie id and a storage,   *)
(* that keep insertions until flush.  flush computes labels and saves the  *)
(* store elements on several threads, then inserts the labels in the trie. *)
(*                                                                         *)
(* The tries of all instances are in one static map, which makes a trie    *)
(* when it is first asked for, over the storage that the last instance     *)
(* constructed has set (providers/mapped_tries.cpp).                       *)
(*                                                                         *)
(* A store is a batch inserter over a storage that survives the process.   *)
(* Tries are linked ones, in memory; a trie is its epoch and dictionary.   *)
(***************************************************************************)
EXTENDS Naturals, Sequences, FiniteSets

CONSTANTS
  Instances, Stores, Keys, Payloads,
  ThreadLimit,    \* get_insertion_thread_limit
  Uses,           \* the ways in which the instances may be used: which there
                  \* are, with which keys and payloads; whether the caller
                  \* inserts no key twice, asks a new instance for its epoch
                  \* first, uses clear; bounds: how many insertions wait and
                  \* how often the process stops
  MaxPending, MaxEpoch, \* bounds: insertions that wait, epochs
  None            \* no payload, no trie, no instance

ASSUME LimitAssumption == ThreadLimit \in Nat \ {0}
ASSUME BoundAssumption == {MaxPending, MaxEpoch} \subseteq Nat
ASSUME UsesAssumption ==
  \A u \in Uses :
    /\ u.instances \subseteq Instances /\ u.keys \subseteq Keys
    /\ u.payloads \subseteq Payloads
    /\ {u.once, u.asksFirst, u.clear} \subseteq BOOLEAN
    /\ u.pending \in 0..MaxPending /\ u.restarts \in Nat

VARIABLES
  use,       \* one of Uses
  instance,  \* the open instances: their trie id and storage, or None
  made,      \* the instances constructed, in saved form: they can be loaded
  config,    \* storage_ of mapped_tries.cpp
  tries,     \* tries_: trie id -> its storage, epoch and dictionary, or None
  trieIn, elementsIn,   \* store -> id -> trie record, store elements: as seen
  trieKept, elementsKept, \* the same, below the batch inserter
  pending,   \* pending_insertions_
  results,   \* the keys whose InsertResult was initialised, of each instance
  call,      \* the flush that runs
  checked,   \* the last call was check_for_update, of this instance
  restarts

Ids == Instances     \* an instance's random id
Scratch == "scratch" \* the MemoryStorage of the instance that Load starts from
AllStores == Stores \cup {Scratch}

ASSUME NoneAssumption ==
  /\ None \notin Payloads \cup Instances
  /\ None \notin [id : Ids, store : Stores]
  /\ None \notin [store : AllStores, epoch : Nat, dict : SUBSET (Keys \X Payloads \X Nat)]
  /\ None \notin [epoch : Nat, dict : SUBSET (Keys \X Payloads \X Nat)]
ASSUME ScratchAssumption == Scratch \notin Stores

stored == <<trieIn, elementsIn, trieKept, elementsKept>>
vars == <<use, instance, made, config, tries, stored, pending, results, call, checked, restarts>>

NoElements == [k \in Keys |-> None]
NoCall == [of |-> None]
Idle == call.of = None
Open == {x \in Instances : instance[x] # None}
IdOf(x) == instance[x].id
StoreOf(x) == instance[x].store

-----------------------------------------------------------------------------
Init ==
  /\ use \in Uses
  /\ instance = [x \in Instances |-> None]
  /\ made = {}
  /\ config = Scratch
  /\ tries = [i \in Ids |-> None]
  /\ trieIn = [s \in AllStores |-> [i \in Ids |-> None]] /\ trieKept = trieIn
  /\ elementsIn = [s \in AllStores |-> [i \in Ids |-> NoElements]]
  /\ elementsKept = elementsIn
  /\ pending = [x \in Instances |-> <<>>]
  /\ results = [x \in Instances |-> {}]
  /\ call = NoCall /\ checked = None /\ restarts = 0

-----------------------------------------------------------------------------
(* get_compressed_trie *)

TrieFor(i) ==
  IF tries[i] # None THEN tries[i] ELSE [store |-> config, epoch |-> 0, dict |-> {}]

Record(t) == [epoch |-> t.epoch, dict |-> t.dict]

(* A new trie is saved as it is, empty, over whatever is stored for the id. *)
GetTrie(i) ==
  /\ tries' = [tries EXCEPT ![i] = TrieFor(i)]
  /\ trieIn' = IF tries[i] # None THEN trieIn
               ELSE [trieIn EXCEPT ![config][i] = Record(TrieFor(i))]

(* OZKS::OZKS(config): initialize makes the providers, whose constructors  *)
(* call set_config, and draws a new id.                                    *)
Construct(x, s) ==
  /\ Idle /\ x \in use.instances /\ instance[x] = None /\ \A f \in made : f.id # x
  /\ instance' = [instance EXCEPT ![x] = [id |-> x, store |-> s]]
  /\ made' = made \cup {[id |-> x, store |-> s]}
  /\ config' = s
  /\ checked' = None
  /\ UNCHANGED <<use, tries, stored, pending, results, call, restarts>>

(* OZKS::Load starts from OZKS(), whose providers set their own storage;   *)
(* then the configuration, the key and the id are those that were saved.   *)
Load(x, f) ==
  /\ Idle /\ x \in use.instances /\ instance[x] = None
  /\ use.asksFirst => tries[f.id] # None \/ restarts > 0
  /\ instance' = [instance EXCEPT ![x] = f]
  /\ config' = Scratch
  /\ checked' = None
  /\ UNCHANGED <<use, made, tries, stored, pending, results, call, restarts>>

(* query, get_epoch and get_commitment answer from the trie, and make it   *)
(* if need be.                                                             *)
Ask(x) ==
  /\ Idle /\ x \in Open
  /\ GetTrie(IdOf(x))
  /\ checked' = None
  /\ UNCHANGED <<use, instance, made, config, elementsIn, trieKept, elementsKept, pending,
                 results, call, restarts>>

(* What query(k) answers. *)
Found(x, k) == \E e \in TrieFor(IdOf(x)).dict : e[1] = k
ElementOf(x, k) == elementsIn[StoreOf(x)][IdOf(x)][k]

-----------------------------------------------------------------------------
(* insert and flush *)

Inserted(k) ==
  \/ \E x \in Instances, j \in 1..MaxPending :
       j \in DOMAIN pending[x] /\ pending[x][j].key = k
  \/ \E s \in AllStores, i \in Ids : elementsIn[s][i][k] # None

Insert(x, k, p) ==
  /\ Idle /\ x \in Open
  /\ Len(pending[x]) < use.pending /\ k \in use.keys /\ p \in use.payloads
  /\ use.once => ~Inserted(k)
  /\ use.asksFirst => tries[IdOf(x)] # None
  /\ pending' = [pending EXCEPT ![x] = Append(@, [key |-> k, payload |-> p])]
  /\ checked' = None
  /\ UNCHANGED <<use, instance, made, config, tries, stored, results, call, restarts>>

ThreadsFor(n) == IF n < ThreadLimit THEN n ELSE ThreadLimit

(* Mutant: the batch size is rounded down. *)
ChunkRoundedDown(i, n) ==
  LET size == n \div ThreadsFor(n)
  IN  {j \in 1..n : i * size < j /\ j <= (i + 1) * size}

(* Mutant: the chunks overlap. *)
ChunkOverlaps(i, n) ==
  LET size == (n + ThreadsFor(n) - 1) \div ThreadsFor(n)
  IN  {j \in 1..n : i * size <= j /\ j <= (i + 1) * size}

(* The insertions of thread i of a flush with n insertions. *)
Chunk(i, n) ==
  LET size == (n + ThreadsFor(n) - 1) \div ThreadsFor(n)
  IN  {j \in 1..n : i * size < j /\ j <= (i + 1) * size}

(* do_pending_insertions, up to the tasks; without insertions it returns. *)
BeginFlush(x) ==
  /\ Idle /\ x \in Open /\ pending[x] # <<>>
  /\ TrieFor(IdOf(x)).epoch < MaxEpoch
  /\ LET n == Len(pending[x])
     IN  call' = [of |-> x, failed |-> {}, labelled |-> {},
                  left |-> [i \in 0..(ThreadsFor(n) - 1) |-> Chunk(i, n)]]
  /\ checked' = None
  /\ UNCHANGED <<use, instance, made, config, tries, stored, pending, results, restarts>>

NextIn(S) == CHOOSE j \in S : \A m \in S : j <= m

(* Mutant: no element is saved. *)
LabelOnly(i) ==
  /\ ~Idle /\ i \in DOMAIN call.left /\ call.left[i] # {}
  /\ LET j == NextIn(call.left[i])
     IN  call' = [call EXCEPT !.left[i] = @ \ {j}, !.labelled = @ \cup {j}]
  /\ UNCHANGED <<use, instance, made, config, tries, stored, pending, results, checked,
                 restarts>>

(* One insertion of thread i: the label and the commitment, then, under    *)
(* storage_mutex, the store element.  "Key is already contained" ends the  *)
(* task; the other tasks go on.                                            *)
Label(i) ==
  /\ ~Idle /\ i \in DOMAIN call.left /\ call.left[i] # {}
  /\ LET x == call.of
         j == NextIn(call.left[i])
         r == pending[x][j]
     IN  IF ElementOf(x, r.key) # None
         THEN /\ call' = [call EXCEPT !.failed = @ \cup {i}, !.left[i] = {},
                                      !.labelled = @ \cup {j}]
              /\ UNCHANGED elementsIn
         ELSE /\ call' = [call EXCEPT !.left[i] = @ \ {j}, !.labelled = @ \cup {j}]
              /\ elementsIn' = [elementsIn EXCEPT ![StoreOf(x)][IdOf(x)][r.key] = r.payload]
  /\ UNCHANGED <<use, instance, made, config, tries, trieIn, trieKept, elementsKept, pending,
                 results, checked, restarts>>

TasksDone == ~Idle /\ \A i \in DOMAIN call.left : call.left[i] = {}

(* get() of a future throws, and the pool's destructor lets the other      *)
(* tasks end: nothing else happened, and the insertions stay pending.      *)
FlushThrows ==
  /\ TasksDone /\ call.failed # {}
  /\ call' = NoCall
  /\ UNCHANGED <<use, instance, made, config, tries, stored, pending, results, checked,
                 restarts>>

KeysAt(S) == {pending[call.of][j].key : j \in S}

(* The tuples of the insertions at positions S of the flush. *)
Entries(S, epoch) ==
  {<<pending[call.of][j].key, pending[call.of][j].payload, epoch>> : j \in S}

(* Mutant: the epoch is not counted. *)
GrownSameEpoch(t, S) ==
  [t EXCEPT !.dict = @ \cup Entries(S, t.epoch + 1)]

(* The trie with the insertions of S, under a new epoch. *)
Grown(t, S) ==
  [t EXCEPT !.epoch = @ + 1,
            !.dict = @ \cup Entries(S, t.epoch + 1)]

KeysIn(t) == {e[1] : e \in t.dict}

(* CompressedTrie::insert throws for a key that the trie has, which it     *)
(* finds when it has inserted some of the others.                          *)
TrieThrows ==
  /\ TasksDone /\ call.failed = {}
  /\ LET i == IdOf(call.of)
         t == TrieFor(i)
     IN  /\ KeysAt(call.labelled) \cap KeysIn(t) # {}
         /\ \E S \in SUBSET call.labelled :
              /\ KeysAt(S) \cap KeysIn(t) = {}
              /\ tries' = [tries EXCEPT ![i] = Grown(t, S)]
  /\ call' = NoCall
  /\ UNCHANGED <<use, instance, made, config, stored, pending, results, checked, restarts>>

(* The trie's record and the elements reach the storage below. *)
Flushed(s, i) ==
  /\ trieKept' = [trieKept EXCEPT ![s][i] = trieIn'[s][i]]
  /\ elementsKept' = [elementsKept EXCEPT ![s][i] = elementsIn'[s][i]]

(* The labels are inserted, which saves the trie and its nodes; the        *)
(* results are initialised, nothing is pending any more, and the           *)
(* instance's storage is flushed.                                          *)
FlushInserts ==
  /\ TasksDone /\ call.failed = {}
  /\ LET x == call.of
         i == IdOf(x)
         t == TrieFor(i)
         new == Grown(t, call.labelled)
     IN  /\ KeysAt(call.labelled) \cap KeysIn(t) = {}
         /\ tries' = [tries EXCEPT ![i] = new]
         /\ trieIn' = [trieIn EXCEPT ![new.store][i] = Record(new)]
         /\ results' = [results EXCEPT ![x] = @ \cup KeysAt(call.labelled)]
         /\ pending' = [pending EXCEPT ![x] = <<>>]
         /\ UNCHANGED elementsIn
         /\ Flushed(StoreOf(x), i)
  /\ call' = NoCall
  /\ UNCHANGED <<use, instance, made, config, checked, restarts>>

-----------------------------------------------------------------------------
(* load_updated_elements of newer epochs, which fills caches and leaves    *)
(* the trie as it is.                                                      *)
CheckForUpdate(x) ==
  /\ Idle /\ x \in Open
  /\ GetTrie(IdOf(x))
  /\ checked' = x
  /\ UNCHANGED <<use, instance, made, config, elementsIn, trieKept, elementsKept, pending,
                 results, call, restarts>>

(* delete_ozks removes all that is stored for the id; initialize clears    *)
(* the insertions and calls set_config; the id is put back.                *)
Clear(x) ==
  /\ use.clear /\ Idle /\ x \in Open
  /\ LET s == StoreOf(x)
         i == IdOf(x)
     IN  /\ trieIn' = [trieIn EXCEPT ![s][i] = None]
         /\ trieKept' = [trieKept EXCEPT ![s][i] = None]
         /\ elementsIn' = [elementsIn EXCEPT ![s][i] = NoElements]
         /\ elementsKept' = [elementsKept EXCEPT ![s][i] = NoElements]
         /\ config' = s
  /\ pending' = [pending EXCEPT ![x] = <<>>]
  /\ results' = [results EXCEPT ![x] = {}]
  /\ checked' = None
  /\ UNCHANGED <<use, instance, made, tries, call, restarts>>

(* The process stops and another one starts. *)
Restart ==
  /\ restarts < use.restarts
  /\ restarts' = restarts + 1
  /\ instance' = [x \in Instances |-> None]
  /\ config' = Scratch
  /\ tries' = [i \in Ids |-> None]
  /\ trieIn' = [trieKept EXCEPT ![Scratch] = [i \in Ids |-> None]]
  /\ elementsIn' = elementsKept
  /\ pending' = [x \in Instances |-> <<>>]
  /\ results' = [x \in Instances |-> {}]
  /\ call' = NoCall /\ checked' = None
  /\ UNCHANGED <<use, made, trieKept, elementsKept>>

-----------------------------------------------------------------------------
Next ==
  \/ \E x \in Instances :
       \/ \E s \in Stores : Construct(x, s)
       \/ \E f \in made : Load(x, f)
       \/ Ask(x)
       \/ \E k \in Keys, p \in Payloads : Insert(x, k, p)
       \/ BeginFlush(x) \/ CheckForUpdate(x) \/ Clear(x)
  \/ \E i \in 0..(ThreadLimit - 1) : Label(i)
  \/ FlushThrows \/ TrieThrows \/ FlushInserts
  \/ Restart

Spec == Init /\ [][Next]_vars

(***************************************************************************)
(* The threads of a flush run, a flush goes on, and the caller of an       *)
(* instance flushes again and again.                                       *)
(***************************************************************************)
FairSpec ==
  /\ Spec
  /\ WF_vars(\E i \in 0..(ThreadLimit - 1) : Label(i))
  /\ WF_vars(FlushThrows \/ TrieThrows \/ FlushInserts)
  /\ \A x \in Instances : SF_vars(BeginFlush(x))

-----------------------------------------------------------------------------
(* Properties *)

TypeOK ==
  /\ use \in Uses
  /\ \A x \in Open : IdOf(x) \in Ids /\ StoreOf(x) \in Stores
  /\ config \in AllStores
  /\ \A i \in Ids : tries[i] # None =>
       /\ tries[i].store \in AllStores
       /\ \A e \in tries[i].dict :
            e[1] \in Keys /\ e[2] \in Payloads /\ e[3] \in 1..tries[i].epoch
  /\ \A x \in Instances : Len(pending[x]) <= MaxPending
  /\ Idle \/ (call.of \in Open /\ \A i \in DOMAIN call.left : i < ThreadLimit)

(* query answers with a payload that the trie commits to, through every    *)
(* instance of the trie, whichever of them inserted it, and after failed   *)
(* calls too; it never throws "Store should contain the key we found".     *)
(* (clear leaves the trie in the map and takes the elements away.)         *)
FoundHasPayload ==
  ~use.clear => \A x \in Open : \A e \in TrieFor(IdOf(x)).dict : ElementOf(x, e[1]) = e[2]

(* Between calls a key has its store element and its place in the trie, or *)
(* neither: the threads of a flush have left nothing half done, for a      *)
(* caller who inserts no key twice, without clear and in a process that is *)
(* not stopped.                                                            *)
NothingIsHalfDone ==
  (Idle /\ use.once /\ ~use.clear /\ restarts = 0) =>
    \A x \in Open, k \in Keys : ElementOf(x, k) # None => Found(x, k)

KeptDict(s, i) == IF trieKept[s][i] = None THEN {} ELSE trieKept[s][i].dict

(* README.md:13: "once a (label, value, epoch) tuple is added, it cannot   *)
(* be modified or removed": what is stored for an id is a dictionary that  *)
(* only grows, over flushes that fail, and over restarts of a process that *)
(* has no other instance, as long as nobody clears it.                     *)
KeptAlone(s, i) ==
  IF use.clear \/ (use.restarts > 0 /\ use.instances # {i}) THEN {} ELSE KeptDict(s, i)
OwnDirectory(s, i) == INSTANCE AppendOnlyDictionary WITH dict <- KeptAlone(s, i)
StoredAloneIsAppendOnly ==
  /\ \A s \in Stores, i \in Ids : OwnDirectory(s, i)!Init
  /\ [][\A s \in Stores, i \in Ids : [OwnDirectory(s, i)!Append]_(KeptAlone(s, i))]_vars

(* The pending insertions of a caller who flushes are inserted. *)
IsPending(x, k) == \E j \in DOMAIN pending[x] : pending[x][j].key = k
PendingIsInserted ==
  \A x \in Instances, k \in Keys :
    IsPending(x, k) ~> (k \in results[x] \/ instance[x] = None)

(* So it is for callers who insert no key twice. *)
PendingOnceIsInserted ==
  \A x \in Instances, k \in Keys :
    (use.once /\ IsPending(x, k)) ~> (k \in results[x] \/ instance[x] = None)

(* "Clear the contents of this instance." *)
ClearEmpties ==
  [][\A x \in Instances : Clear(x) => TrieFor(IdOf(x))'.dict = {}]_vars

(* "Check for an updated trie": after it, the instance is not behind. *)
CheckSeesUpdate ==
  \A x \in Open : checked = x =>
    trieKept[StoreOf(x)][IdOf(x)] = None
      \/ tries[IdOf(x)].epoch >= trieKept[StoreOf(x)][IdOf(x)].epoch
=============================================================================
