# TLA+ models of oZKS

oZKS is an ordered, append-only zero-knowledge set: a dictionary of
`(label, value, epoch)` tuples kept in a Patricia-Merkle trie whose root hash is
the commitment, with proofs that a label is, or is not, in the dictionary. This
directory models the library and its two example services, checks the models
with TLC on small instances, and proves with TLAPS what matters most about the
trie, the thread pool, the storage stack and both services for every size.

Run, in this directory: `tlc -config MCTrieStored.cfg MCCompressedTrie` for a
model-checking run (section 4 lists them); `tlapm CompressedTrie_proofs.tla`
and the same for the seven other `*_proofs` modules for the proofs.

## 1. Inventory

| Part | State | Operations | Hard behaviour | What makes it correct |
|---|---|---|---|---|
| Labels (`oZKS/partial_label.*`) | 64-bit words and a bit count | `operator[]`, `add_bit`, `CommonPrefix`, `<`, `to_bytes` | word boundaries, byte order within words | the operations are those on strings of bits |
| Trie nodes (`oZKS/ct_node*.{h,cpp}`) | children, hash, dirty bit | `insert`, `update_hashes`, `lookup`, `save_to_storage`, `load_from_storage` | splits in place, shared nodes written by several threads | the nodes are the Patricia trie of the labels; hashes are those of the children |
| Compressed trie (`oZKS/compressed_trie.*`) | root, epoch | `insert` of one label and of a batch, `lookup`, load and save | tasks on several threads, exceptions in mid-batch, order of writes, stops | append-only; the commitment stands for the dictionary; storage can be loaded |
| Batch division (`oZKS/utilities.cpp`) | none | `get_insertion_thread_limit`, `get_insertion_index` | skewed tries | threads never meet below the levels they share, and restructure no node there |
| Thread pool (`oZKS/thread_pool.h`) | queue, workers, limits, `in_flight` | `enqueue`, two waits, two setters, destructor | condition variables, resizing, shutdown | every task runs once; waits and the destructor return, and not too early |
| Proof verification (`oZKS/query_result.cpp`, `insert_result.cpp`) | none | `verify_lookup_path`, `verify` | only children, absent labels | a path from `lookup` verifies against the commitment |
| Storage stack (`oZKS/storage/*`) | maps, LRU caches, unsaved writes | load, save, flush, update notices, delete | stale caches, writes that are held back | reads see the newest write |
| VRF cache (`oZKS/vrf_cache.*`) | LRU cache | add, get, copy, assign, clear | capacity, a key that changes | answers are those of the instance's key |
| VRF and elliptic curve (`oZKS/vrf.*`, `ecpoint.*`) | secret key, public key, salt | initialize, prove, verify, save, load | uninitialized keys, encodings, cofactors | proofs verify; a key has one value |
| Serialization (`serialization_helpers.*`, save and load of all classes) | none | save, load | several objects in a row, truncated input | what is loaded is what was saved, or the load throws |
| Hashes, FourQ (`hash.*`, `fourq/`, `blake*`) | none | arithmetic of scalars, field and points; hash rounds | truncated products, words that wrap, zero with two forms | multiples and sums are those of the group; what is encoded is decoded; hashes: section 8 |
| Configuration, versions (`config.h.in`, `version.*`, `ozks_config.*`) | values | convert, compare | none | as the modules use them |
| Provider interfaces (`oZKS/providers/*`) | none | abstract | none | implemented by the examples |
| OZKS simple (`examples/ozks_simple`) | pending insertions, map of tries | insert, flush, query, clear, load | failed flush, stale tries, restarts | a flushed key is found, with its payload |
| OZKS distributed (`examples/ozks_distributed`) | update lists, timers, queriers | insert, tick, query, refresh | timers against inserts, refresh of one querier after another | every accepted insert is published; proofs never mix epochs |

How they interact: an `OZKS` turns keys into labels on a `ThreadPool` and hands
them to an update provider, which calls `CompressedTrie::insert`. A batch insert
makes a pool of its own, divides the batch by the first bits of the labels and
runs one task per thread that inserts nodes and then one that computes hashes.
The threads share the nodes of the top levels without any lock. Nodes are written
to `Storage`: a linked trie collects them in one map per thread and stores the
maps at the end, a stored trie writes each node at once. Lookups read the same
nodes and refuse a dirty one. A `Storage` is a stack: a cache that writes
through, over a batch inserter that holds back what is saved until `flush`, over
the data. In the simple example all instances of a process share one map of tries
and one configuration. In the distributed example a client saves a store element
and hands the label to an update provider; a timer for each trie inserts what has
been handed over and flushes, under a mutex that all tries share; queriers hold a
root each and read everything else through one cache, which is refreshed with the
updates of the epochs they missed.

The hazards that follow from this, each with its line and the properties aimed
at it, are the `hazards` of `PROJECT.json`.

## 2. Plan

Done, in this order:

1. `PartialLabel`, `CTNode`, `InsertionThreads`, `LookupProof`: labels, node
   operations, batch division, lookup and verification, as operators.
2. `CompressedTrie`: both inserts with threads, failures and storage, composing 1;
   `AppendOnlyDictionary` is what the whole promises, `MCCompressedTrie` has the
   refinement, `DictionaryTrie` the trie as a function of the dictionary.
3. `ThreadPool`, with `ThreadPool_proofs`; for the trie `CTNode_proofs` (labels,
   nodes, lookup, the trie of a dictionary) and `CompressedTrie_proofs` (type correctness,
   threads stay apart, `AppendOnly` for callers that insert new labels only and up to
   eight threads, and what insert with one thread achieves).
4. `StorageMap` and `StorageStack`, which implements it; `StorageStack_proofs`.
5. `TriePersistence`: a process that stops at any step of an insert, and both loads;
   `TriePersistence_proofs`.
6. `TrieReplicas` and `OZKSDistributed`: the reading and the writing side of the
   distributed example; `OZKSSimple`: the simple one; `TrieReplicas_proofs`,
   `OZKSDistributed_proofs` and `OZKSSimple_proofs`.
7. `LabelPair` and `PartialLabelWords`, `Serialization`, `VRFCache`, `P256Point`,
   `FourQPoint` and `VRF`, `FourQScalar` and `FourQCurve`, composed by `MCParts`.

Left, in the order of what it would add:

1. `HashesUpdated` for several threads without storage, proved: `SerialInv` with a
   recursion per thread, which `Apart` keeps from each other's nodes.
2. `VRFCache`: that answers are of the instance's key, proved for any number of
   instances and threads.
3. Stops in the middle of a batch of several threads (`TriePersistence` has
   single inserts).

## 3. Modules and the code

Several modules have one *rigid* variable, a record that `Init` chooses and no step
changes: `stack`, `provider`, `use`, `setup`, `part`. It says which configuration
a behaviour is in, such as whether there is a cache, or what the callers do, so
that one run covers several configurations without multiplying them.

### The trie

**`PartialLabel`**: a label is the sequence of its bits; bit `i` of the code is
element `i + 1`. The empty label is the root's and also means "no child", as
in `CTNodeStored`. `LabelData` is what a hash reads of a label: the words,
not the number of bits.

**`CTNode`**: a trie is a function from labels to nodes. `CTNodeStored` refers to
its children by label, as the model does; `CTNodeLinked` by pointer, which is
the same as long as the trie is a tree, and `TrieOfDictionary` says it is. Hashes
are terms, equal only when the hashed bytes are equal: collision-freedom is
assumed. The dirty bit is the lowest bit of `hash_[0]` in the code and a field
here; hashes of nodes have that bit cleared in the code, so nothing is lost.
`SplitLeaf`, `FillSlot` and `SplitEdge` are the three ways in which
`CTNode::insert` hangs in a new leaf; `UpdateHash` is `update_hash` on a set of
nodes none of which is an ancestor of another.

**`InsertionThreads`**: `GetInsertionThreadLimit` follows the loop pass by pass,
with the swap of `level` inside the `for` loop as it is in the code.

**`LookupProof`**: `Lookup` is the iterative, static `CTNode::lookup`; its path is
built in final order. `VerifyLookupPath` is the verification of both
result classes; they differ in that `InsertResult::verify` throws where the other
returns false. Both are recursive functions, the last element of which is the result.

**`CompressedTrie`**: one call of `insert` at a time (concurrent calls are not
supported by the code); `phase` is where that call is. A thread of a batch is a
record `th[i]` with the entries it has left, the stack of the recursion and a
program counter. The steps:

| Action | Code |
|---|---|
| `BeginInsert`, `BeginInsertBatch` | `CompressedTrie::insert` up to the tasks: epoch, thread limit, division |
| `FollowRoute`, `ThrowSameLabel` | `CTNode::insert` on the way down |
| `AttachAtLeaf`, `AttachInSlot`, `AttachOnEdge` | the three places where it inserts, and the order of the saves that follow |
| `SaveNext` | the next of these saves |
| `Race` | two threads come to a node that one of them restructures: undefined |
| `SetDirty` | on the way up: the child's label and the dirty bit |
| `ReadStatus`, `ClearDirty`, `SaveAndRestore` | `CTNodeLinked::save_to_storage` on a node that threads share |
| `NextEntry` | the loops of the two lambdas |
| `JoinInsertion`, `JoinHashing`, `TaskThrew`, `TopThrew` | the `future::get` loops and the check of the top levels |
| `HashFollow`, `HashFound`, `HashReturn` | the recursive `CTNode::lookup` with `update_hashes` |
| `ComputeTop` | hashes of the shared levels, deepest first |
| `Finish` | saving the maps, the append proofs, saving the trie |

Granularity. Threads share the nodes of the first `bits + 1` levels, and on these
every access to the dirty bit is a step. Where a node goes to storage at once, in a
trie of stored nodes and in the insert of one label, it does so node by node
(`saves`, `SaveNext`), in the order of the code: children first, except where a root
with an empty slot takes a leaf (`ct_node.cpp:225`, `:244`). A linked trie saves a batch in
the map of the thread, which nobody else reads before the threads are done.

What an attachment does to the nodes in memory is one step, although the code writes
several fields without a lock. That is right as long as no other thread comes to
the node. Below the shared levels none does (`ThreadsAreApart`). On the shared levels one
may: `get_insertion_thread_limit` does not see all of a level, and in a skewed trie with 32
threads the threads of 00001 and 00010 both come to a leaf 00000 that is a child of 00. An
attachment therefore has the guard `~IsShared(i)`, and a thread that would restructure a node
to which the entry of another thread leads takes the step `Race` instead, at whatever
time the other comes: the phase is "undefined", the behaviour ends, and nothing is said of
what the code does then. With eight threads or fewer, which is the case as long as
`MaxThreads < 16`, no race is possible, because the limit then counts on the levels that it
does look at whole. The copy that a linked node puts into `updated_nodes` reads the labels of
the children while another thread may be replacing one below the shared levels; only the copy
can be torn by it, and the thread that replaced the child saves the node again after it.
Accesses of two threads to the byte of the dirty bit are modelled by their values.

Callers that look for a label before they insert it, as `OZKS` does through its store,
are `FreshOnly = TRUE`.

Limits: when a task throws while others still run, the code destroys what they
use (`compressed_trie.cpp:113`), which is undefined; the model lets the others
finish. A Merkle proof is checked at the end of a call as part of `Finish`.

**`AppendOnlyDictionary`**: the promise of the repository's README. A step adds
new labels under one new epoch and changes nothing else. **`DictionaryTrie`** gives
the trie of a dictionary without inserting anything: one node for each place
where labels part. `TrieOfDictionary` of `CompressedTrie` says that between calls the
trie is that of the tuples in its leaves, and the modules that follow build on it. The thread pool of a batch
insert is not composed with `CompressedTrie`: tasks that run once, which is what
`ThreadPool` promises, are all that insert needs.

**`TriePersistence`**: one single insert at a time, written node by node, with the
order of saves of both node types. `Stop` may come at any step; what storage had
by then, and what a batch inserter had *not* flushed, decides what
`LoadStored` (`LoadFromStorage`) or `LoadLinked` (`LoadFromStorageWithChildren`)
finds. `setup` says which kinds of node a process uses, whether storage keeps node
objects or bytes, and whether there is an inserter.

### The thread pool

**`ThreadPool`**: a step is what a thread does while it holds `queue_mutex`, or one
access to `in_flight`. A client has the call it is in and whether it is about to
enter, ready to test its predicate, or blocked; a worker has its place in the loop
and its task. `notify_one` picks any blocked worker; `notify_all` makes all
ready. `Enqueue` is the part of `enqueue` that puts the task in the queue,
`EnqueueWaits` the part that goes to sleep; both raise the limit of a full queue
first, when the call has just come in. Only the last worker may `Leave`; the others
spin, which changes no state. Not modelled: spurious wake-ups, which only add
steps that test a predicate again, and calls made while the destructor runs.

### Storage

**`StorageMap`** is one map that reads the last save. **`StorageStack`** is what the
repository stacks: `MemoryStorageCache` over `MemoryStorageBatchInserter` over a
`BatchStorage`; `stack` says which layers there are and which threads call.
An entry is a trie, a node or a store element; a value is the number of the
save that made it. No lock is held from one layer to the next, so a call is two
or three steps: a load that misses is `LoadMiss`, `LoadBelow` and `Fill`, a
save `SaveBelow` and `UpdateCache`, a flush `Flush`, `FlushClear` and
`FlushHandOver` (which hands over the copied maps and files them all under one
trie, as the code does). `Touch` is the LRU order, with eviction from a full
cache. `LoadUpdated` is `load_updated_elements` as far as one entry goes: the newest value
that was saved in several epochs goes into the cache. The batches of the epochs in their
order are in `TrieReplicas`. `DeleteOZKS` goes through the layers in one step; the code does
so key by key, which one thread cannot tell apart. `MemoryStorage` keeps plain unordered maps
without a lock, so the configurations in which it is a map have one thread, and those with two
threads (section 6) show only what goes wrong between whole accesses.

### The examples

**`TrieReplicas`**: the queriers of one query provider. Nodes of the published trie
are those of `DictionaryTrie`; `Publish` is a tick that completes, at any moment,
also between the loads of one lookup. The storage at the bottom is the one that the
code's tests use for a `BatchStorage`: it applies a flushed batch at once and keeps
each epoch's batch for `load_updated_elements`. One thread calls `query` and
`check_for_update`. `Evict` lets a node leave the cache at any time, because
other tries use the same cache, and the trie itself where `provider` says so.

**`OZKSDistributed`**: `BeginInsert`, `SaveElement` and `Enqueue` are the three steps
of `insert`, `InsertBatch` its batch form (which divides by zero, section 6, and
ends the program), `TickStart` to `TickEnd` those of `Updater::time_tick`. The flush in it has
three steps, because clients look for elements in the inserter and save them into it while
it runs, and nothing is locked: `TickCopy` copies the unsaved elements of the trie,
`TickClear` empties their map, and `TickHandOver` gives the copy to the storage below
with the nodes and the trie. What is saved between the first two is lost, and what is
looked for between the last two is not found. Neither `insert` nor its caller can
notice; the history variable `missed` has the keys that this happened to, and the
properties say what is promised of all others. The copying is one step: the map is read
element by element, so that an element which is saved meanwhile may be copied or not, and
one that is not is in `missed` as if it had come later. `BatchStorage::flush` takes its batch at
once, as the storages of the tests do.
`TickThrows` is the exception of a repeated label that leaves the mutex locked.
`Restart` loses everything in memory and keeps what was flushed.

**`OZKSSimple`**: instances, the static map of tries and the static configuration
they share. `BeginFlush` divides the pending insertions over the threads, whose
steps are `Label`: looking a key up in the store and saving it is atomic, because
one lock covers both. `FlushThrows` and `TrieThrows` are the two ways in which a
flush fails, `FlushInserts` the batch insert and the flush of the storage. A trie
is its epoch and dictionary. Linked tries are modelled; with stored
ones the trie of an instance is loaded where a linked one is in memory.

### The parts that keep to themselves

**`PartialLabelWords`**: a label as words of bytes, which lie in memory in the order
of a little-endian machine, and every operation as it works on words: shifts,
masks, and the reversal of each word's bytes on the way in and out. It implements
**`LabelPair`**, two labels as strings of bits, by the mapping `BitsOf`.

**`Serialization`**: input and output are sequences of units. A flatbuffer is a size
and units that know their table, so that a reader which starts at the wrong
place, or reads too little, gets no table. `Cut` loses the end of the input.
Reading happens in the rounds of `read_from_serialization_reader`.

**`VRFCache`**: instances that are queried by threads, copied, assigned and cleared;
a proof is known by the secret key it was made with. The LRU cache is Poco's, and
external: the one that was used longest ago leaves.

**`P256Point`**, **`FourQPoint`**, **`VRF`**: points are multiples of a generator in a
cyclic group: of prime order for P-256, with a cofactor for FourQ. What the
code calls on a point is modelled by its result, encodings included. Hash functions
are random oracles: a value is chosen when an argument is first hashed, and
kept. A prover (`Initialize`, `SaveKey`, `LoadKey`, `GetVRFProof`) and a verifier
(`LoadPublicKey`, `VerifyVRFProof`, which takes any proof at all when no prover is
there).

**`FourQScalar`**: what `fourq/` does with scalars, over words of a few bits and a
small order: arithmetic modulo the order in Montgomery form with the window of its
inversion, the decomposition into four scalars of one word with its truncated
products, the recodings, and the multiplications (variable base, the comb of
the fixed base, two bases at once) as sums of what the digits stand for. A point
is known by its multiple, the endomorphisms and the precomputed tables by the
multiples that they hold. `ConstantsAreGiven` says what the constants
of `eccp2.c` have to satisfy: the rows `b` and the offset `c` are vectors that give
zero, the order is odd and fits, the last row's first entry is odd.

**`FourQCurve`**: the other half, what the formulas for coordinates do to a point:
the field modulo 2^Q - 1 with both forms of zero, its quadratic extension, doubling,
the three additions with their precomputed representations, normalization,
validation, `encode` and `decode` with its square root. TLC compares them with the
addition law of the curve as it is written in fractions.

**`MCParts`** has these parts in one instance; `part` says which one is on.

## 4. Runs

| Run | Module, cfg | What it shows | Bounds |
|---|---|---|---|
| `trie_stored` | `MCCompressedTrie`, `MCTrieStored` | after each call storage has the trie of the dictionary and all proofs verify; between any two saves it can be loaded, but between the root's and its new leaf's; the refinement of the dictionary | 3-bit labels, every single and every batch of at most two new ones, two calls; a trie of stored nodes has one insertion thread |
| `trie_parallel` | `MCCompressedTrie`, `MCTrieParallel` | hashes are complete, threads meet on shared levels only and race only from 16 threads on, only a skewed trie makes a call throw or threads race, every call ends | 5-bit labels; eight keys, then any two of eight more, or any three of the lower half, on four threads; sixteen keys in a skewed trie, then one on 32 threads, or two that race there |
| `trie_failures` | `MCCompressedTrie`, `MCTrieFailures` | types; answers after failed calls are right; leaves stay | 2-bit labels, repeated labels, two threads, four calls |
| `pool` | `MCThreadPool`, `MCPool` | counts, conservation, assertion, waits; tasks run, calls and the destructor return | two clients, two workers resized to 1 and 3, three tasks, queue limit 2 lowered to 1 |
| `storage` | `MCStorageStack`, `MCStorage` | the stack is one map; the cache hides nothing newer; a flush changes no answer | one thread; two tries with two nodes and elements, capacity 1, three saves |
| `replicas` | `MCTrieReplicas`, `MCReplicas` | no published key is missed; after a refresh answers are of the published trie | 3-bit labels, two queriers or one, two or three epochs, with and without a cache |
| `dist` | `MCOZKSDistributed`, `MCDist` | entries are in one place until they are published, with their payload, and are published in the end, unless their insert met a flush | two clients, two tries, three inserts of two keys; one client and a stop; two clients as they like with batches and a stop |
| `simple` | `MCOZKSSimple`, `MCSimple` | found keys have their payload; nothing is half done; what is stored only grows; what is pending is inserted | two instances, two flush threads, three keys, three pending, three epochs, one stop |
| `persist` | `MCTriePersistence`, `MCPersist` | a stop at any step loses no completed insert, and what is loaded is the trie of what was flushed | 3-bit labels, up to three inserts, one or two loads, three setups |
| `parts` | `MCParts`, `MCParts` | labels are strings of bits; loads give what was saved; cached proofs are of the key; VRF proofs show the value of the key; the arithmetic of FourQ is that of its group | below |
| `trie_race` | `MCCompressedTrie`, `MCTrieRace` | violated: `HashesUpdated` with storage and two threads | 3-bit labels, four keys and then any three |
| `dist_stuck_timer` | `MCOZKSDistributed`, `MCDistStuck` | violated: `UpdatesArePublished` when a key is inserted twice | two clients, one trie |

Why the bounds are enough. Three bits give every case of `CTNode::insert` at
the root, at an inner node and at a leaf, on either side, with edges of length
one and two. Four threads need a trie with two complete levels, which
eight keys give, and labels that go on below them; three more keys in one half make one
thread work on two while others share the levels above. The skewed trie has what
`get_insertion_thread_limit` looks at, and neither a node 110 or 111 with two nodes below
nor more than leaves under 0, so that with 32 threads both things go wrong that can
(section 6). `trie_parallel` uses nodes without storage, because with
storage the run is `trie_race`, which fails with two threads. A repeated label in a trie of
2-bit labels fails at a leaf, in a full slot and after a split. In the pool, two
clients are a producer and a waiter, or two producers that compete for one
place; three workers can be reduced to one in mid-task, and a limit of 1 below
three tasks makes producers wait. In the storage stack a capacity of one makes
every second access evict, and three saves are an old value, a newer one, and
one of another trie or kind. A querier that misses two epochs has two batches to
take over, in order; a lookup of three levels can meet two publications. In the
distributed example two timers and one mutex are all there is to contend for, and two clients
an insert that meets a flush and one that does not. Two
flush threads and three insertions make chunks of unequal size. A stop is possible at
every step, so that one or two are enough to reach every state that storage can
be left in, and a third insert shows what becomes of it.

`parts`: labels are two words of two bytes of two bits, every pair of labels, so
that every boundary (bit, byte, word, full label) is crossed. Streams and
vectors hold one or two objects of every class and may be cut anywhere. VRF caches: two
instances used by two threads with one place, three queries; or one thread with
three keys, two places and four queries. P-256: order 3, every proof an honest
prover makes, with keys saved and loaded. FourQ: order 3, cofactor 2, scalars
below 4; and, without prover, every proof with scalars below 5 offered to the
verifier. Random oracles make every constant of a hash possible; collisions of two
arguments are among the choices, and the properties allow what follows from them
(`WrongGammaIsGuessed` says when a wrong proof passes).
FourQ's scalars: words of four bits, a subgroup of order 283 with endomorphisms of the
eigenvalues 202 and 179, and vectors for them with the signs that those of the code
have; windows and tables shrink with the words. Tried are the neighbours of four
multiples of the order, the least and greatest, and every 1021st of the 65536
values of four words, against four others, on two points of the whole group. FourQ's points:
the field of 7^2 = 49 elements with both forms of zero in each half, every pair of points of
the curve in each, and every encoding, valid or not, of numbers of Q bits. `decode` clears
the highest bit of one half of `y` only (`crypto_util.c:55`); an encoding with that bit set
in the other half is not tried, because what the field's functions make of it depends on the
variant that is built.

`MaxEpoch`, `MaxTasks`, `MaxSaves`, `MaxPending` and the counts in the rigid records
bound calls, not the program's variables.

Deadlock is checked in `replicas`, where a querier can always ask. The other
models stop when the bound on the calls is reached, or when the program has ended:
a pool that is destroyed, a trie at its last epoch, a division by zero.

With failures the refinement of the dictionary does not hold: entries of a failed
batch stay in memory and get under the commitment with a later insert, under their
old epoch. `trie_failures` therefore checks what does hold: a lookup that answers at
all answers what the commitment stands for, with a path that verifies.

## 5. Fairness

`CompressedTrie!FairSpec` has weak fairness of `CallStep`: while a call runs, some
thread of it takes a step. The tasks run on the pool's threads and the caller
waits for their futures, so nothing else can hold them up. Nothing is assumed
about new calls.

`ThreadPool!FairSpec` has weak fairness of each worker, of each client within a call
and of the destructor: the scheduler runs every thread and tasks end. A blocked
thread is not enabled, so nothing is assumed about notifications: `CallsReturn`
fails as soon as one is dropped. Acquiring the mutex is part of a step; that a thread which
keeps asking gets it is the one assumption the C++ standard does not make, and
every usual implementation satisfies it.

`OZKSDistributed!FairSpec` has weak fairness of a tick that has begun, since the
timer's thread runs on, and strong fairness of `TickStart` for each trie: a timer
that fires every few seconds and only *tries* the mutex finds it free at one of
its ticks, because the ticks of two tries are not in step for ever. Nothing is
assumed about clients.

`OZKSSimple!FairSpec` has weak fairness of the flush that runs, threads and caller, and
strong fairness of `BeginFlush` for each instance: `PendingOnceIsInserted` is about a
caller who flushes again after a failure, and says nothing of one who never does.

## 6. Observations

Where the code and what its documents say of it differ. The first two are runs
of `PROJECT.json` and listed there as findings.

- **Lost dirty mark** (`trie_race`, `ct_node_linked.cpp:22`). `save_to_storage` takes
  the dirty bit off a shared node to write a clean copy and puts it back. Another
  thread that reads the bit in between restores "clean", and the node's hash, with
  those above it, is never computed: the commitment is stale although `insert`
  succeeds.
- **Stuck timer** (`dist_stuck_timer`, `updater.cpp:73`). `time_tick` locks the mutex by
  hand. A repeated key makes the trie's insert throw, the timer swallows the
  exception, and no tick of any trie does anything again.

The next ones have a configuration beside the runs, in which TLC violates the
property named; some take the configuration of a run, with another property or
another value of one constant. Each is why a passing run has a smaller set of
behaviours than the code.

| Configuration | Module | Property | What happens |
|---|---|---|---|
| `MCTrieSkewed.cfg` | `MCCompressedTrie` | `FreshInsertSucceeds` | `utilities.cpp:362`: levels are swapped inside the loop over a level, so of each level only two nodes are looked at (0 and 1; 10 and 11; 100 and 101; ...); where others of the level are missing a batch throws "This node should exist" after its nodes are in, with 32 threads for instance because 110 has no two children. `trie_parallel` checks that nothing else makes it throw |
| `MCTrieSkewed.cfg`, with `INVARIANT NoRace` | `MCCompressedTrie` | `NoRace` | `utilities.cpp:362` again: with 16 threads or more two of them can come to one leaf at a level they share, and both split it without a lock |
| `MCTrieFailures.cfg`, with `INVARIANTS StorageLoads` | `MCCompressedTrie` | `StorageLoads` | `compressed_trie.cpp:185`: a failed batch leaves its nodes in memory and not in storage; the next insert stores nodes that refer to them |
| `MCPersistOrder.cfg` | `MCTriePersistence` | `StorageLoads` | `ct_node.cpp:222`: a node with a free slot is saved before the leaf it takes, everywhere else children come first; a stop in between leaves a root whose child storage does not have |
| `MCStorage.cfg`, with `Stacks <- TwoOnCache` and `INVARIANT CacheIsCurrent` | `MCStorageStack` | `CacheIsCurrent` | `memory_storage_cache.cpp:29`: a load that missed adds what it read after another thread has saved the entry; the older value stays until it is evicted |
| `MCStorage.cfg`, with `Stacks <- TwoOnInserter` and `PROPERTY SavedStays` | `MCStorageStack` | `SavedStays` | `memory_storage_batch_inserter.cpp:131`: what is saved between the copying of the unsaved maps and their clearing is never handed over |
| `MCStorage.cfg`, with `Stacks <- TwoTriesInInserter` and `PROPERTY FlushIsInvisible` | `MCStorageStack` | `FlushIsInvisible` | `memory_storage_batch_inserter.cpp:117`: a flush of one trie hands over the nodes of all as its own |
| `MCReplicasCopy.cfg` | `MCTrieReplicas` | `AnswersFromOneCopy` | `querier.cpp:29`: a query between a publication and the next refresh can join old and new nodes; its path does not verify with the root it was answered from |
| `MCReplicas.cfg`, with `Providers <- TrieLeavesCache` | `MCTrieReplicas` | `FreshAnswers` | `querier.cpp:60`: when the trie has left the cache and an epoch comes between the two halves of a refresh, the querier takes the newer epoch without its nodes and never asks for them |
| `MCDist.cfg`, with `INVARIANT EveryFoundHasElement` in place of its properties | `MCOZKSDistributed` | `EveryFoundHasElement` | `memory_storage_batch_inserter.cpp:131`: an element that is saved between the copying and the clearing of a flush is lost, while its key is published; `query` then throws "Store should contain the key we found in the trie" (`ozks_distributed.cpp:170`). `dist` checks that nothing else makes it throw |
| `MCDistSameKey.cfg` | `MCOZKSDistributed` | `FoundHasPayload` | `ozks_distributed.cpp:87`: two inserts of one key both find it absent; the trie can commit to one payload while the store element holds the other |
| `MCSimplePending.cfg` | `MCOZKSSimple` | `PendingIsInserted` | `ozks.cpp:101`: a repeated key throws after others of the batch were stored; every later flush finds those and throws again |
| `MCSimpleClear.cfg` | `MCOZKSSimple` | `ClearEmpties` | `ozks.cpp:238`: `clear` keeps the id, under which the map of tries still holds the trie |
| `MCSimpleCheck.cfg` | `MCOZKSSimple` | `CheckSeesUpdate` | `ozks.cpp:187`: `check_for_update` loads the nodes of newer epochs and not the trie |
| `MCParts.cfg`, with `Parts = {"labels"}` and `INVARIANTS PrefixIsTaken` | `MCParts` | `PrefixIsTaken` | `partial_label.cpp:52`: the constructor from a label and a bit count leaves `bit_count_` as it is and reverses the bytes of words that are in order already; nothing in the library calls it with a bit count |

Others were met while modelling, and have no configuration:

- `compressed_trie.cpp:113`: `future::get` rethrows the first exception and the
  locals of the call are destroyed while other tasks use them.
- `memory_storage_batch_inserter.cpp:157`: the epoch of a trie is asked of the
  layer below first, which may be older than the trie that waits to be flushed.
  `StorageStack!EpochBelow` has the code's order.
- `ct_node_stored.cpp:242`: a node loaded from bytes is clean whatever it was when it
  was saved, so a trie of stored nodes over a storage that keeps bytes does
  not hash again what is read back during an insert. `MemoryStorage` keeps node
  objects. In `persist` stored nodes come with objects or with a storage that is
  written through, linked ones with bytes.
- `ozks_distributed.cpp:103`: the batch form of `insert` divides by the smaller of
  the thread limit and the size of a member that nothing fills, which is zero.
  `dist` has the call; it ends the program.
- `ozks_distributed.cpp:307`: a loaded instance keeps the providers of a
  default-constructed one. Its epoch is that of another storage, and what it
  hands over goes to a list that no updater reads (line 309).
- `mapped_tries.cpp:44`, `:36`, `:54`: a trie is made when it is first asked for,
  over the storage that was set last, never loaded, and saved at once. An
  instance can write to another's storage; one that is loaded in a new process
  denies its keys; and when a second instance has been constructed, its next flush
  replaces the stored dictionary by an empty one. The `simple` run therefore has one
  storage, and claims `StoredAloneIsAppendOnly` of stops for one instance only.
- `vrf_cache.h:28`: the copy of a cache has as many places as the other has
  *elements*, so a copy of an unused instance never caches. `VRFCache!CopyOf` copies
  as the code does; `RecentIsCached` is what a cache that keeps its size would satisfy.
- `vrf.cpp:129`: `is_valid` is `noexcept` and catches `logic_error`; with P-256 an
  encoding that is no point throws `runtime_error`. `VRF!Terminates` is that case.
- `ecpoint.cpp:691`: with P-256 an unset public key is saved as zeros, which do not
  load.

## 7. Proofs

`CTNode_proofs` is about the operators of labels, nodes and tries.
`CommonPrefixCountFact` characterises the common prefix count (a `CHOOSE` in the
specification) for all labels of all lengths: it exists, the bits before it agree,
and one label ends there or the next bits differ. From it: the common prefix of
labels is a label, and that of two different full labels is not full. Three
predicates on a trie carry what follows: `Closed`, its nodes' children are its nodes;
`Compact`, each child is on its side below its parent, inner nodes but the root have two
children, and every label in the trie is below the child that leads to it; `Good`, a clean
inner node has the hash of its children, which are clean. `SplitLeafFact`,
`FillSlotFact` and `SplitEdgeFact` say that the three ways to attach a leaf keep a trie
closed, with at most one key more, and further lemmas that they keep it compact and
what they make dirty. `UpdateHashFact` says that hash computation changes no clean node,
`UpdateOne` what hashing one node does to its parents.

`LookupAnswers` is about the whole of `Lookup` and `VerifyLookupPath`: in a compact trie
whose nodes are all clean and good (`Hashed`), for any full label, lookup finds
the label exactly when the trie has it, the path shows it exactly then, and the path
verifies against the hash of the root. The path is shown to be a *climb*: each
entry is the sibling of what the entries below it join to (`IsClimb`), so that joining it
arrives at the root or at the root's only child (`ClimbVerifies`). The visits go down at
least one bit each, so that the bound on them in `Lookup` is never what ends a
search (`VisitsFact`).

`ThreadPool_proofs` proves, for any set of clients, any number of workers, tasks
and any limits, under the assumptions on the constants in `ThreadPool`:

- `InFlightIsCounted`: `TypeOK` and `InFlightCounts`;
- `Conservation`: `TasksAreConserved`;
- `DestructorAssertion`: `DestructorDrains`;
- `WaitReturnsFinished`: `WaitMeansFinished`.

All follow from one inductive invariant, `IInv`, the conjunction of four parts. `Types`
is the type invariant with the workers' numbers an interval. `InFlightCounts` is
inductive given the types. `InOrder` strengthens `TasksAreConserved`: the queue
holds the *consecutive* numbers `Started + 1 .. submitted` in order, so that
`Head` is a number nobody holds, and what has been taken is finished or in exactly
one hand. `Ending` links the destructor to the workers: once it is done there are
none and the queue is empty. The last worker leaves only with an empty queue while
`stop` holds, and `stop` lets no client in, which is why `Ending` also says
that all clients are idle. The proof has one lemma per action; those that leave
workers or clients alone share `WorkersAlone`, `ClientsAlone` and `HandsUnchanged`.

`CompressedTrie_proofs` proves, for labels of any length, any number of threads,
both node types, with and without storage, and any entries and batches:

- `TypeCorrect`: `TypeOK`, whatever callers insert;
- `LeavesStay`: `AppendOnly`, when callers insert new labels only (`FreshOnly`) and
  `MaxThreads < 16`, with the addition that no race ends the behaviour;
- `LeavesAreDictionary`: under the same conditions the leaves implement
  `AppendOnlyDictionary`.

`TypeOK` is not inductive: that a step leaves only labels behind needs that
children of nodes are nodes (`Closed`), that recursions stand at nodes, that a
recursion which is not done has an entry, and that the threads are numbered from
0 (so that `Merged` finds a last map). `TypeInv` adds these.

`FreshInv` is what `AppendOnly` needs beyond that: keys are clean leaves, a
recursion has at most one key, its last node, the entries of a batch have
different labels and each is dealt to the one thread its `GetInsertionIndex` names,
and of a thread's entries at most the one it works on is in the trie. So a new
leaf overwrites nothing (`TargetIsNew`), a node that changes on the way
down is no key (`InnerIsNotFull`), the new inner node is no key because two
different labels of which one is full do not share all bits
(`CommonPrefixIsNotFull`), and the bit that `save_to_storage` clears and restores
is never a leaf's. `TypeInv` and `FreshInv` are proved to be preserved with one lemma
for each kind of step. That the insertion threads also respect each
other's *inner* nodes is not part of it: the dirty-bit race of section 6 loses
marks, never leaves.

The same module proves `Apart`: `ThreadsAreApart`, for any batch, number of threads and
node type, repeated labels and failed calls included. Its second part says that no two of at
most eight threads race: `TopInv` says that the first two levels, which the limit has looked
at whole, stay complete, so that a thread which restructures a node stands below every node
to which an entry of another leads. From sixteen threads on this is false (section 6).
`ShapeInv` says that each child is on its side below its parent (`Shaped`), that the nodes
of a recursion are prefixes of its label, each a bit longer at least than the one before
(`Descends`), and that a thread has only entries of its own insertion index. Below the
shared levels two threads' nodes then differ in one of the first `bits` bits.

The rest of the module is about the tries that one thread inserts into: all tries of
stored nodes, and linked ones whose labels are inserted one by one
(`OneThread == IsStored \/ Batches = {}`). With more threads its hash theorem is false for
tries with storage (`trie_race`). For labels of any length and any entries it proves

- `AlwaysLoads`: `StorageLoads`, between any two saves, whatever callers insert; the exception
  is the moment between the save of a root with a free slot and that of its new leaf;

and for callers that insert new labels only:

- `HashesAreUpdated`: `HashesUpdated`, no stale hash when a call returns;
- `ProofsAlwaysVerify`: `ProofsVerify`, every lookup between calls is right and verifies;
- `FreshNeverThrows`: no call throws and no behaviour ends undefined, of which
  `ThrowsOnlyInSkewed` is the part a run checks;
- `StorageStaysCurrent`: `StorageIsCurrent`, storage is what memory is;
- `TrieIsOfLeaves`: `TrieOfDictionary`, the trie is a function of its leaves.

`AlwaysLoads` needs that nothing waits in `updated` (`Alone`) and that storage has
the same labels as memory but for those that wait to be saved, children before the
nodes above them (`LoadsInv`). For the others, `SerialInv` has four parts.
`TreeInv` is about the trie as it is meant while a recursion returns (`Live`: the caller
refers to the node that moved up, the bit that `save_to_storage` took off is back): it is
compact, the recursion goes down its children, and a clean node is good unless the
recursion has still to mark it. `InsertInv` says that every dirty node is a prefix of
a label of the batch, or a sibling of one. `HashingInv` says that every dirty node
is one that hashing still comes to (`Waits`): above a label that is left, or a
node, or the sibling of a node, that the recursion returns to. This is where the siblings
matter: a leaf that moved down or an edge that was split is dirty beside the path, and
`HashReturn` updates the sibling before the node. `SettledInv` follows when no label is
left: nothing is dirty but a batch's root, which `ComputeTop` does. `InsertedInv` says that
the entries a thread is done with are in the trie, so that the last lookup of `Finish`
finds them by `LookupAnswers`. `SavedInv` says that each node is in storage as
`save_to_storage` writes it, but for the one between its mark and its save and those that
still wait in `saves`. `LeavesInv`
says that each leaf was hashed from what it holds; with the theorem `LeavesMakeTheTrie` of
`CTNode_proofs` the rest of the trie follows.

`LeavesMakeTheTrie` says that a compact trie whose hashes are up to date is `TrieOf` its
leaves. Its nodes are the places where two labels part (`SameNodes`), its edges follow
from its nodes (`SameChildren`), and its hashes from the leaves upward: a longest node with
another hash would have children with other hashes. Before that, `TrieOf` is shown to be a
trie of this kind (`TrieOfIsCompact`, `TrieOfIsHashed`), its recursive function of hashes
to exist.

`TriePersistence_proofs` proves, for labels of any length, any number of inserts, stops
and loads, and any setups that fit `SetupsAssumption`:

- `InsertedAreKept`: `InsertedStay`, without further assumption;
- `TrieAfterStops`: `TrieIsOfDictionary`, under `MarksAreKept`: a setup with an inserter
  has storage that keeps objects, or all nodes in memory. A `CTNodeStored` that is read
  from bytes is clean whatever it was (`ct_node_stored.cpp:242`, where `Load` makes a new
  node), so that `update_hash` passes it by. The storages of the repository keep objects, and
  every setup of `persist` fits. `InsertedStay` does not need it: hashes may be stale
  there, labels are still found.

The invariant of `TrieAfterStops` says that some trie is what the insert has made so far
(`IsAt`): memory and storage hold it, storage with the saves that are still to come
(`Holds`), and it is at the stage of the program counter (`AtStage`). Before the label
is attached it is `TrieOf(dict)`. After that it is `Marked`: on the way to the label the
nodes that the recursion has not returned to are as before, those it has returned to are
marked, and after the hashing has returned to them they are the nodes of the trie of the
dictionary *with* the label; a node that hangs beside the way may be marked, such as the
one that moved down in a split. At the last return nothing is marked and the trie is
`TrieOf` of the new dictionary. What a stop throws away is irrelevant: `kept` is
`TrieOf(keptDict)`.

Without an inserter a stop leaves a half-written trie, which may be no trie of any
dictionary, may have leaves that nobody refers to, and a root whose child is missing
(`MCPersistOrder.cfg`, section 6). `StayInv` therefore says of storage only that each
node has its children on their sides, which are there unless it is the root (`Sound`),
and that every set that has the root and the children of its nodes has the label
(`Found`), which is to say that a path leads there. `Underway` says of the saves still
to come that they are in order, children before the node that refers to them unless it
is the root (`Ordered`), and that each is safe (`Safe`): the node is not in storage yet;
or it has only grown (`Grown`), its old child being the new one or now just below the
new one, which has been saved; or it was not reachable at all, outside a set that holds
the root and is closed under children (`Holding`), such as a leaf that an earlier,
interrupted insert left behind. The least obvious is the last: an insert of a label
whose leaf is already in storage, unreferenced, overwrites it. With these every save
keeps what was found before it (`SaveKeeps`). When the insert is done nothing is left to
save, and its own label is found, since the nodes above it are in storage as in memory
(`StayAt`).

`StorageStack_proofs` proves three things, for any entries, capacity and
number of saves, with and without an inserter:

- `OneCallerSeesCurrent`: `CacheIsCurrent`, where a cache has one thread above it, which
  writes one trie at a time (`OneCallerPerCache`);
- `FlushChangesNoAnswer`: `FlushIsInvisible`, where each inserter has one trie written
  at a time (`OneTriePerBatch`), with any number of threads, as long as their single accesses
  to its unlocked maps do not overlap;
- `LayersAreOneMap`: `ImplementsStorageMap`, where besides every inserter is under a cache,
  and a storage without layers has one thread (`Orderly`). An inserter without a cache may
  answer with an epoch older than was saved.

The inductive invariant `IInv` adds to `CacheIsCurrent` that a flush hands over what the
inserter held, all of the trie that is flushed (`Flushes`), and that what a
call has read and not yet put in the cache is what is below (`CallsAreCurrent`),
which is where a second thread would break it (`TwoOnCache` in section 6). The
refinement adds that the save which has yet to reach the cache is the last (`LastSave`);
each step is shown to be one of `StorageMap` or a stutter. There is
one lemma for each kind of step, and `AnswersInv` for the steps that only answer.

`TrieReplicas_proofs` proves, for any number of queriers and epochs and for labels of any length,
with a cache or without, which may lose any node at any time:

- `PublishedAlwaysFound`: `PublishedIsFound`;
- `AnswersAreFresh`: `FreshAnswers`;

both under `StaysCached`: a shared cache does not lose the trie itself. Without it
`FreshAnswers` is false (section 6). `BoundsAssumption` of `TrieReplicas` only says that its bounds
are natural numbers. What is published is `TrieOf` of the dictionary at some epoch
(`Past`), and a node read is `From` an epoch if it is the node of that label at that epoch or at
a later one. `IInv` says that for some `b` and `f` the batches after epoch `b` and up to `f` are handed
over and those after `f` are as published (`CacheInv`); no cached node is older than `f`, nor
is a querier's root older than the querier's epoch, which is between `b` and `f`
(`QueriersInv`). A refresh keeps `f` from falling behind what it is about to take
(`Loading`), and a query has read a path of nodes, each the child of the one before on the
side of the key, all `From` the querier's epoch (`Walking`). Such a path never leaves the way
to a key of that epoch: each node read is of a trie that has the key, and there the child
on the key's side is a prefix of the key. An answer with nothing
newer published is then the lookup of `TrieOf(dict)`, to which `LookupAnswers` applies: a lookup
takes the same steps in every trie that has the nodes it reads (`WalkStep`).

`OZKSDistributed_proofs` proves, for any number of clients, tries, keys and entries,
with failing ticks and stops:

- `ElementOfFound`: `FoundHasElement`;
- `PayloadOfFound`: `PayloadOfOneInsert`;
- `PlaceOfStored`: `StoredOnceIsInsertedOnce`.

All three take the flush step by step, with clients in between, and exempt the keys in
`missed`; that these are the only ones is what they say. `IInv` is the types; `Backed` (every pair on its way
or in a trie has its element, unsaved, taken by the flush or durable, and where keys are inserted
once it is that of the pair, `Right`; what is published has one that survives); `Alone`
(inserts of a key run one at a time, and one that has yet to store finds nothing); and
`InOnePlace` (a key is in exactly one of: a call, an update list, a tick, the trie), with
singletons in the place of cardinalities, for tries of which no insert met a flush. Clearing
is the step that could lose an element: a key that is in the map and not in the copy as it
is goes into `missed` (`Lost`).

`OZKSSimple_proofs` proves, for any number of instances, flush threads, keys and
pending insertions:

- `PayloadOfFound`: `FoundHasPayload`, whatever flushes fail and processes stop;
- `NothingHalfDone`: `NothingIsHalfDone`, for callers who insert no key twice and never
  clear, in a process that is not stopped;
- `StoredOnlyGrows`: `StoredAloneIsAppendOnly`, the refinement of `AppendOnlyDictionary` by
  what is stored of each trie, whatever flushes fail, and over stops of a process with one instance;
- `TrieThrowsOnlyCleared`: without clear no flush fails in the trie itself. A second
  insertion of a key fails before, in the task that finds its element.

`IInv` is the types, `Calling` (what the tasks of a flush have labelled has its element, if
none of them failed), `Owned` (an id belongs to one storage), `Backed`, and `OnlyOnce`: the
pending insertions are of different keys, none of which is in a trie or, but for those
labelled already, in the store; the tasks of a flush divide it among them; and an element
outside the trie is of an insertion that the flush has labelled. For the last two, `RecordInv`
says that what is kept of a trie is what memory has of it between flushes, that its epochs
are no later than the trie's (`EpochsPast`), and that what the tasks have
labelled is new to the trie (`LabelledAreNew`).
`NoneAssumption` of `OZKSSimple` says that `None` is no payload, instance or trie, and
`ScratchAssumption` that the provider of a default-constructed instance is none of the stores.

`GetLog2` is a recursive function, `VerifyLookupPath` too, and the record updates of
nodes, recursions and calls are whole records: the forms that the provers can reason
about. Recursive functions are defined by `CHOOSE`, so that each proof about one first shows
that such a function exists, value by value (`LogExists`, `PassesExist`, `VisitsExist`, `Joins`),
and then goes on from a least counterexample (`LeastNatural`): the library's
induction theorems cannot be instantiated.

Only model-checked:

- with several threads, `HashesUpdated`, `ProofsVerify`, `StorageLoads`, `StorageIsCurrent` and
  `ThrowsOnlyInSkewed`;
- `AppendOnly` and the answers for callers that repeat labels (`trie_failures`), where they
  depend on what a failed call leaves;
- `CommitmentIsDictionary` and `AnswersAreRight`, which open a hash with a recursive operator,
  and the refinement of `LabelPair`. `TrieIsOfLeaves` comes close to the first: what the
  commitment opens to is what the leaves hold;
- every property of `MCParts`, which compute with labels in words, the rounds of
  `Serialization` and small groups, most of them by recursion;
- all liveness: TLAPS has no fairness or ENABLED reasoning here.

## 8. Not modelled

- Of FourQ: the formulas of the two endomorphisms (`eccp2.c`, tau to delta), which
  use constants of the field 2^127 - 1 and have no small instance: `FourQScalar`
  takes them by the multiple they stand for. `hash_to_curve`, for the same reason. The
  assembler, arm64 and portable variants of the arithmetic of `fp_x64.h`, and the
  build without endomorphisms.
- The rounds of SHA-2 and BLAKE2: straight-line code without state. The models
  take hashes as random oracles or free terms. `VRF` takes the points of a curve as a
  cyclic group.
- The check of the randomness against a payload commitment; that
  `InsertResult::verify` throws where the other returns false; comparison of versions; random bytes
  and byte conversions; the bytes in which `MemoryStorage` keeps an element;
  `to_string`, copies and moves of nodes.
- What the code does after two insertion threads have restructured one node (`Race`), and
  accesses to one unlocked map of a storage that overlap.
- Spurious wake-ups of condition variables and calls on a pool that is being
  destroyed. A task that uses what a failed call has destroyed is undefined
  behaviour; the model lets such tasks finish first.
- Flatbuffers, OpenSSL, Poco's LRU cache and timers: external, modelled by how
  the code uses them.
- Stops in the middle of a batch of several threads, several calls of `insert` of one
  trie at a time (the code does not support them), and concurrent queries in one query provider.
- The performance tools of the examples.
