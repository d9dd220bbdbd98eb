--------------------------- MODULE CompressedTrie ---------------------------
(***************************************************************************)
(* CompressedTrie: the oZKS directory (oZKS/compressed_trie.cpp) with the  *)
(* node recursions it drives (oZKS/ct_node.cpp).                           *)
(*                                                                         *)
(* One call of insert, of one label or of a batch, runs at a time; a batch *)
(* is divided among threads that walk the same nodes.  Each recursion of   *)
(* CTNode::insert and CTNode::lookup is a stack of labels, one step per    *)
(* call or return, and a step on a node that threads share is as small as  *)
(* one access to the byte that holds the dirty bit.                        *)
(*                                                                         *)
(*   phase   where CompressedTrie::insert is:                              *)
(*           "idle"    no call is running                                  *)
(*           "insert"  the threads insert nodes                            *)
(*           "hash"    the threads compute the hashes below shared levels  *)
(*           "top"     the caller computes the levels all threads share    *)
(*           "save"    the caller writes to storage and looks up proofs    *)
(*           "undefined"  two threads have raced to restructure a node     *)
(***************************************************************************)
EXTENDS InsertionThreads, DictionaryTrie

CONSTANTS
  TrieType,     \* "Linked", "LinkedNoStorage" or "Stored"
  MaxThreads,   \* the most insertion threads the configuration allows
  Commits,      \* payload commitments
  Batches,      \* what callers insert at once: sequences of entries
  Singles,      \* the entries callers insert one by one
  FreshOnly,    \* TRUE: callers check that a label is new before inserting it
  MaxEpoch      \* bound: calls of insert in a behaviour

ASSUME TrieTypeAssumption == TrieType \in {"Linked", "LinkedNoStorage", "Stored"}
ASSUME MaxThreadsAssumption == MaxThreads \in Nat \ {0}
ASSUME FreshOnlyAssumption == FreshOnly \in BOOLEAN
ASSUME MaxEpochAssumption == MaxEpoch \in Nat

Entry == [label : FullLabel, commit : Commits]

ASSUME BatchesAssumption == Batches \subseteq Seq(Entry)
ASSUME SinglesAssumption == Singles \subseteq Entry

VARIABLES
  nodes,        \* the trie in memory: label -> node
  epoch,        \* epoch_
  stored,       \* the CTNodeStored objects in storage: label -> node
  storedEpoch,  \* the epoch of the CompressedTrie saved in storage
  phase,
  single,       \* the running call is the insert of one label
  batch,        \* the entries of the running call
  bits,         \* bit_count, log2 of the number of threads
  th,           \* thread -> its recursion
  updated,      \* thread -> its updated_nodes map: label -> node to save
  saves,        \* the nodes that the one inserting thread saves next, in order
  top,          \* phase "top": the level to compute next
  outcome       \* of the last call: "none", "ok" or "threw"

vars == <<nodes, epoch, stored, storedEpoch, phase, single, batch, bits, th,
          updated, saves, top, outcome>>

(* What the steps of the threads leave alone. *)
callVars == <<epoch, storedEpoch, phase, single, batch, bits, top, outcome>>

HasStorage == TrieType # "LinkedNoStorage"
IsStored == TrieType = "Stored"
NoNodes == [n \in {} |-> EmptyRoot]

(***************************************************************************)
(* A recursion: the positions in the batch of the entries left to process, *)
(* the labels of the nodes it is in, what it does next, and the local      *)
(* dirty_status of save_to_storage.                                        *)
(***************************************************************************)
Recursion(work) ==
  [work   |-> work,
   stack  |-> <<EmptyLabel>>,
   pc     |-> IF work = {} THEN "done" ELSE "call",
   status |-> FALSE]
NoThreads == [i \in {0} |-> Recursion({})]

Threads == DOMAIN th
LastThread == 2^bits - 1
Current(i) == th[i].stack[Len(th[i].stack)]
Caller(i) == th[i].stack[Len(th[i].stack) - 1]
Level(i) == Len(th[i].stack) - 1
Pop(stack) == SubSeq(stack, 1, Len(stack) - 1)

(* The entries of a thread are processed in the order of the batch. *)
Position(i) == CHOOSE k \in th[i].work : \A m \in th[i].work : k <= m
Target(i) == batch[Position(i)].label

(* Thread i is at pc, and has saved what it had to save before. *)
InPhase(i, ph, pc) == phase = ph /\ i \in Threads /\ th[i].pc = pc /\ saves = <<>>

(* Mutant: positions off by one. *)
WorkOfOffByOne(b, bitCount, i) ==
  {k + 1 : k \in {m \in DOMAIN b : GetInsertionIndex(bitCount, b[m].label) = i}}

(* reordering of label_commit_batch by get_insertion_index *)
WorkOf(b, bitCount, i) ==
  {k \in DOMAIN b : GetInsertionIndex(bitCount, b[k].label) = i}

(***************************************************************************)
(* save_to_storage on the nodes S of trie t by thread i.  CTNodeStored     *)
(* saves itself, dirty bit included; CTNodeLinked saves a clean copy, into *)
(* updated_nodes when the call is a batch.                                 *)
(***************************************************************************)
Copied(t, S, into) ==
  [n \in DOMAIN into \cup S |->
     IF n \in S THEN IF IsStored THEN t[n] ELSE SetDirtyBit(t[n], FALSE)
     ELSE into[n]]

Save(i, t, S) ==
  /\ UNCHANGED saves
  /\ IF ~HasStorage THEN UNCHANGED <<stored, updated>>
     ELSE IF single \/ IsStored
     THEN stored' = Copied(t, S, stored) /\ UNCHANGED updated
     ELSE updated' = [updated EXCEPT ![i] = Copied(t, S, @)] /\ UNCHANGED stored

(***************************************************************************)
(* Several save_to_storage in a row.  What goes to storage gets there node *)
(* by node, by SaveNext; a map that only this thread sees is filled in one *)
(* step.                                                                   *)
(***************************************************************************)
SaveInOrder(i, t, order) ==
  IF HasStorage /\ (single \/ IsStored)
  THEN saves' = order /\ UNCHANGED <<stored, updated>>
  ELSE Save(i, t, {order[k] : k \in DOMAIN order})

-----------------------------------------------------------------------------
Init ==
  /\ nodes = EmptyTrie
  /\ epoch = 0
  /\ stored = IF HasStorage THEN EmptyTrie ELSE NoNodes
  /\ storedEpoch = 0
  /\ phase = "idle"
  /\ single = FALSE
  /\ batch = <<>>
  /\ bits = 0
  /\ th = NoThreads
  /\ updated = [i \in {0} |-> NoNodes]
  /\ saves = <<>>
  /\ top = 0
  /\ outcome = "none"

IsFresh(b) ==
  /\ \A i \in DOMAIN b : b[i].label \notin DOMAIN nodes
  /\ \A i, j \in DOMAIN b : i # j => b[i].label # b[j].label

ThreadLimit == IF IsStored THEN 1 ELSE GetInsertionThreadLimit(nodes, MaxThreads)

(* Mutant: the epoch is not incremented. *)
BeginSameEpoch(b, isSingle, bitCount) ==
  /\ phase = "idle"
  /\ epoch < MaxEpoch
  /\ FreshOnly => IsFresh(b)
  /\ phase' = "insert"
  /\ single' = isSingle
  /\ batch' = b
  /\ bits' = bitCount
  /\ th' = [i \in 0..(2^bitCount - 1) |-> Recursion(WorkOf(b, bitCount, i))]
  /\ updated' = [i \in 0..(2^bitCount - 1) |-> NoNodes]
  /\ UNCHANGED <<nodes, epoch, stored, storedEpoch, saves, top, outcome>>

Begin(b, isSingle, bitCount) ==
  /\ phase = "idle"
  /\ epoch < MaxEpoch
  /\ FreshOnly => IsFresh(b)
  /\ epoch' = epoch + 1
  /\ phase' = "insert"
  /\ single' = isSingle
  /\ batch' = b
  /\ bits' = bitCount
  /\ th' = [i \in 0..(2^bitCount - 1) |-> Recursion(WorkOf(b, bitCount, i))]
  /\ updated' = [i \in 0..(2^bitCount - 1) |-> NoNodes]
  /\ UNCHANGED <<nodes, stored, storedEpoch, saves, top, outcome>>

BeginInsert == \E e \in Singles : Begin(<<e>>, TRUE, 0)
BeginInsertBatch ==
  \E bitCount \in {GetLog2(ThreadLimit)}, b \in Batches : Begin(b, FALSE, bitCount)

-----------------------------------------------------------------------------
(* CTNode::insert                                                          *)

Step(i, pc, stack, status) ==
  th' = [th EXCEPT ![i] =
           [work |-> th[i].work, stack |-> stack, pc |-> pc, status |-> status]]
Goto(i, pc, stack) == Step(i, pc, stack, th[i].status)

ThrowSameLabel(i) ==
  /\ InPhase(i, "insert", "call")
  /\ Current(i) = Target(i)
  /\ Goto(i, "failed", th[i].stack)
  /\ UNCHANGED <<nodes, stored, updated, saves, callVars>>

FollowRoute(i) ==
  /\ InPhase(i, "insert", "call")
  /\ Current(i) # Target(i)
  /\ ~SplitsLeaf(nodes, Current(i))
  /\ HasRoute(nodes, Current(i), Target(i))
  /\ LET child == ChildOn(nodes[Current(i)], NextBit(Current(i), Target(i)))
     IN  Goto(i, "call", Append(th[i].stack, child))
  /\ UNCHANGED <<nodes, stored, updated, saves, callVars>>

(* Mutant: the node is saved before the nodes below it. *)
AttachParentFirst(i, t, n, order) ==
  /\ nodes' = t
  /\ SaveInOrder(i, t, [k \in DOMAIN order |-> order[Len(order) + 1 - k]])
  /\ Goto(i, "return", Append(Pop(th[i].stack), n))
  /\ UNCHANGED callVars

(***************************************************************************)
(* The new nodes hang below n, which may have moved up to a shorter label; *)
(* "order" is the order in which the code saves what it touched.           *)
(***************************************************************************)
Attach(i, t, n, order) ==
  /\ nodes' = t
  /\ SaveInOrder(i, t, order)
  /\ Goto(i, "return", Append(Pop(th[i].stack), n))
  /\ UNCHANGED callVars

(* A split saves the two nodes below first, then the node above them. *)
ChildrenFirst(t, n) == <<t[n].left, t[n].right, n>>

(* An entry of another thread leads to the node of thread i as well. *)
IsShared(i) ==
  /\ Level(i) > 0
  /\ \E k \in DOMAIN batch :
       /\ GetInsertionIndex(bits, batch[k].label) # i
       /\ CommonPrefixCount(batch[k].label, Target(i)) > Len(Caller(i))

LeafOf(i) == NewLeaf(LeafHash(Target(i), batch[Position(i)].commit, epoch))

AttachAtLeaf(i) ==
  /\ InPhase(i, "insert", "call")
  /\ Current(i) # Target(i)
  /\ ~IsShared(i)
  /\ SplitsLeaf(nodes, Current(i))
  /\ LET t == SplitLeaf(nodes, Current(i), Target(i), LeafOf(i))
         n == CommonPrefix(Target(i), Current(i))
     IN  Attach(i, t, n, ChildrenFirst(t, n))

(* Here the code saves the node first, then the new leaf it refers to. *)
AttachInSlot(i) ==
  /\ InPhase(i, "insert", "call")
  /\ Current(i) # Target(i)
  /\ ~IsShared(i)
  /\ ~SplitsLeaf(nodes, Current(i))
  /\ HasFreeSlot(nodes, Current(i), Target(i))
  /\ Attach(i, FillSlot(nodes, Current(i), Target(i), LeafOf(i)), Current(i),
            <<Current(i), Target(i)>>)

AttachOnEdge(i) ==
  /\ InPhase(i, "insert", "call")
  /\ Current(i) # Target(i)
  /\ ~IsShared(i)
  /\ ~SplitsLeaf(nodes, Current(i))
  /\ ~HasFreeSlot(nodes, Current(i), Target(i))
  /\ ~HasRoute(nodes, Current(i), Target(i))
  /\ LET t == SplitEdge(nodes, Current(i), Target(i), LeafOf(i))
         n == CommonPrefix(Target(i), Current(i))
     IN  Attach(i, t, n, ChildrenFirst(t, n))

(* The next save_to_storage of the thread. *)
SaveNext ==
  /\ saves # <<>>
  /\ stored' = Copied(nodes, {Head(saves)}, stored)
  /\ saves' = Tail(saves)
  /\ UNCHANGED <<nodes, th, updated, callVars>>

(***************************************************************************)
(* The threads of a batch share no lock: no two of them may come to a node *)
(* that one of them restructures.  When they do, whether at the same time  *)
(* or because nothing but chance orders their tasks, the call is given up  *)
(* as undefined, and the model says nothing of what follows.               *)
(***************************************************************************)
Race(i) ==
  /\ InPhase(i, "insert", "call")
  /\ Current(i) # Target(i)
  /\ ~HasRoute(nodes, Current(i), Target(i))
  /\ IsShared(i)
  /\ phase' = "undefined"
  /\ UNCHANGED <<nodes, epoch, stored, storedEpoch, single, batch, bits, th,
                 updated, saves, top, outcome>>

(* Back in the caller: the child may have a new label, the node is dirty. *)
SetDirty(i) ==
  /\ InPhase(i, "insert", "return")
  /\ Len(th[i].stack) > 1
  /\ LET t == [nodes EXCEPT ![Caller(i)] =
                 SetChild(@, NextBit(Caller(i), Target(i)), Current(i))]
     IN  /\ nodes' = t
         /\ IF IsStored THEN Save(i, t, {Caller(i)}) ELSE UNCHANGED <<stored, updated, saves>>
  /\ Goto(i, IF HasStorage /\ ~IsStored THEN "status" ELSE "return", Pop(th[i].stack))
  /\ UNCHANGED callVars

(***************************************************************************)
(* CTNodeLinked::save_to_storage on the node just marked: it remembers the *)
(* dirty bit, clears it, copies the node and puts the bit back.            *)
(***************************************************************************)
ReadStatus(i) ==
  /\ InPhase(i, "insert", "status")
  /\ Step(i, "clear", th[i].stack, nodes[Current(i)].dirty)
  /\ UNCHANGED <<nodes, stored, updated, saves, callVars>>

ClearDirty(i) ==
  /\ InPhase(i, "insert", "clear")
  /\ nodes' = [nodes EXCEPT ![Current(i)] = SetDirtyBit(@, FALSE)]
  /\ Goto(i, "restore", th[i].stack)
  /\ UNCHANGED <<stored, updated, saves, callVars>>

SaveAndRestore(i) ==
  /\ InPhase(i, "insert", "restore")
  /\ Save(i, nodes, {Current(i)})
  /\ nodes' = [nodes EXCEPT ![Current(i)] = SetDirtyBit(@, th[i].status)]
  /\ Goto(i, "return", th[i].stack)
  /\ UNCHANGED callVars

(* The recursion is back at the root: the loops of the two lambdas go on. *)
NextEntry(i) ==
  /\ phase \in {"insert", "hash"} /\ InPhase(i, phase, "return")
  /\ Len(th[i].stack) = 1
  /\ th' = [th EXCEPT ![i] = Recursion(th[i].work \ {Position(i)})]
  /\ UNCHANGED <<nodes, stored, updated, saves, callVars>>

-----------------------------------------------------------------------------
(* CTNode::update_hashes: the recursive CTNode::lookup                     *)

RootLevels == IF single THEN 0 ELSE bits + 1

(* future::get after the insertion tasks *)
JoinInsertion ==
  /\ phase = "insert"
  /\ \A i \in Threads : th[i].pc = "done"
  /\ phase' = "hash"
  /\ th' = [i \in Threads |-> Recursion(WorkOf(batch, bits, i))]
  /\ UNCHANGED <<nodes, epoch, stored, storedEpoch, single, batch, bits, updated,
                 saves, top, outcome>>

HashFollow(i) ==
  /\ InPhase(i, "hash", "call")
  /\ Current(i) # Target(i)
  /\ ~IsLeaf(nodes[Current(i)])
  /\ HasRoute(nodes, Current(i), Target(i))
  /\ LET child == ChildOn(nodes[Current(i)], NextBit(Current(i), Target(i)))
     IN  Goto(i, "call", Append(th[i].stack, child))
  /\ UNCHANGED <<nodes, stored, updated, saves, callVars>>

(* Mutant: the sibling's new hash is not saved. *)
SaveCurrent(i, t) == Save(i, t, {Current(i)})

(* The nodes that update_hash changed are saved with their new hash. *)
SaveUpdated(i, t) == Save(i, t, {n \in DOMAIN t : t[n] # nodes[n]})

HashFound(i) ==
  /\ InPhase(i, "hash", "call")
  /\ Current(i) = Target(i)
  /\ LET S == IF Level(i) < RootLevels THEN {} ELSE {Current(i)}
         t == UpdateHash(nodes, S)
     IN  nodes' = t /\ SaveUpdated(i, t)
  /\ Goto(i, "return", th[i].stack)
  /\ UNCHANGED callVars

(* The sibling of the node returned from first, then the node itself.  The *)
(* two saves change hashes of nodes that are in storage: one step.         *)
HashReturn(i) ==
  /\ InPhase(i, "hash", "return")
  /\ Len(th[i].stack) > 1
  /\ LET n        == Caller(i)
         sibling  == ChildOn(nodes[n], 1 - NextBit(n, Target(i)))
         siblings == IF sibling = EmptyLabel \/ Level(i) < RootLevels THEN {} ELSE {sibling}
         self     == IF Level(i) - 1 < RootLevels THEN {} ELSE {n}
         t        == UpdateHash(UpdateHash(nodes, siblings), self)
     IN  nodes' = t /\ SaveUpdated(i, t)
  /\ Goto(i, "return", Pop(th[i].stack))
  /\ UNCHANGED callVars

-----------------------------------------------------------------------------
(* The caller's part of insert                                             *)

(* nodes_to_compute: the nodes at depth d under the root *)
TopNodes(t, d) ==
  LET level[k \in 0..d] ==
        IF k = 0 THEN {EmptyLabel}
        ELSE {t[n].left : n \in level[k - 1]} \cup {t[n].right : n \in level[k - 1]}
  IN  level[d]

(* Mutant: one level too many is gathered. *)
TopIsMissingBelow(t, d) ==
  \E k \in 0..d :
     /\ \A j \in 1..k : EmptyLabel \notin TopNodes(t, j)
     /\ \E n \in TopNodes(t, k) : EmptyLabel \in {t[n].left, t[n].right}

(* "This node should exist" *)
TopIsMissing(t, d) ==
  \E k \in 0..(d - 1) :
     /\ \A j \in 1..k : EmptyLabel \notin TopNodes(t, j)
     /\ \E n \in TopNodes(t, k) : EmptyLabel \in {t[n].left, t[n].right}

Return(result) ==
  /\ phase' = "idle"
  /\ outcome' = result
  /\ single' = FALSE
  /\ batch' = <<>>
  /\ bits' = 0
  /\ th' = NoThreads
  /\ updated' = [i \in {0} |-> NoNodes]
  /\ top' = 0

(* An exception of a task: the other tasks run to their end, then insert   *)
(* throws; updated_nodes is lost, nodes and epoch_ stay as they are.       *)
TaskThrew ==
  /\ phase \in {"insert", "hash"}
  /\ \A i \in Threads : th[i].pc \in {"done", "failed"}
  /\ \E i \in Threads : th[i].pc = "failed"
  /\ Return("threw")
  /\ UNCHANGED <<nodes, epoch, stored, storedEpoch, saves>>

JoinHashing ==
  /\ phase = "hash"
  /\ \A i \in Threads : th[i].pc = "done"
  /\ ~single => ~TopIsMissing(nodes, bits)
  /\ phase' = IF single THEN "save" ELSE "top"
  /\ top' = bits
  /\ UNCHANGED <<nodes, epoch, stored, storedEpoch, single, batch, bits, th,
                 updated, saves, outcome>>

TopThrew ==
  /\ phase = "hash"
  /\ \A i \in Threads : th[i].pc = "done"
  /\ ~single /\ TopIsMissing(nodes, bits)
  /\ Return("threw")
  /\ UNCHANGED <<nodes, epoch, stored, storedEpoch, saves>>

(* Mutant: the level is not decremented. *)
ComputeTopForever ==
  /\ phase = "top"
  /\ LET S == TopNodes(nodes, top)
         t == UpdateHash(nodes, S)
     IN  nodes' = t /\ SaveUpdated(LastThread, t)
  /\ IF top = 0 THEN phase' = "save" ELSE phase' = "top"
  /\ UNCHANGED <<epoch, storedEpoch, single, batch, bits, th, top, outcome>>

(* Mutant: the root first. *)
ComputeTopRootFirst ==
  /\ phase = "top"
  /\ LET S == TopNodes(nodes, bits - top)
         t == UpdateHash(nodes, S)
     IN  nodes' = t /\ SaveUpdated(LastThread, t)
  /\ IF top = 0 THEN phase' = "save" /\ top' = 0
                ELSE phase' = "top" /\ top' = top - 1
  /\ UNCHANGED <<epoch, storedEpoch, single, batch, bits, th, outcome>>

(* One level of shared nodes, deepest first. *)
ComputeTop ==
  /\ phase = "top"
  /\ LET S == TopNodes(nodes, top)
         t == UpdateHash(nodes, S)
     IN  nodes' = t /\ SaveUpdated(LastThread, t)
  /\ IF top = 0 THEN phase' = "save" /\ top' = 0
                ELSE phase' = "top" /\ top' = top - 1
  /\ UNCHANGED <<epoch, storedEpoch, single, batch, bits, th, outcome>>

(* The updated_nodes maps, saved one after the other. *)
Merged ==
  LET maps(n) == {i \in DOMAIN updated : n \in DOMAIN updated[i]}
  IN  [n \in DOMAIN stored \cup UNION {DOMAIN updated[i] : i \in DOMAIN updated} |->
         IF maps(n) = {} THEN stored[n]
         ELSE updated[CHOOSE i \in maps(n) : \A j \in maps(n) : j <= i][n]]

ProofsFound == \A i \in DOMAIN batch : Lookup(nodes, batch[i].label).status = "found"

(* The nodes are in storage before a proof can fail, the trie is not. *)
Finish ==
  /\ phase = "save"
  /\ stored' = IF HasStorage THEN Merged ELSE stored
  /\ storedEpoch' = IF HasStorage /\ ProofsFound THEN epoch ELSE storedEpoch
  /\ Return(IF ProofsFound THEN "ok" ELSE "threw")
  /\ UNCHANGED <<nodes, epoch, saves>>

-----------------------------------------------------------------------------
ThreadStep(i) ==
  \/ ThrowSameLabel(i) \/ FollowRoute(i)
  \/ AttachAtLeaf(i) \/ AttachInSlot(i) \/ AttachOnEdge(i)
  \/ SetDirty(i) \/ ReadStatus(i) \/ ClearDirty(i) \/ SaveAndRestore(i)
  \/ NextEntry(i)
  \/ HashFollow(i) \/ HashFound(i) \/ HashReturn(i)

CallerStep ==
  JoinInsertion \/ TaskThrew \/ JoinHashing \/ TopThrew \/ ComputeTop \/ Finish

Next ==
  \/ BeginInsert \/ BeginInsertBatch
  \/ CallerStep \/ SaveNext
  \/ \E i \in Threads : ThreadStep(i)
  \/ \E i \in Threads : Race(i)

Spec == Init /\ [][Next]_vars

(***************************************************************************)
(* The tasks run on the threads of a pool of their own and the caller      *)
(* waits for them: while a call runs, one of them takes a step.  Nothing   *)
(* is assumed about which one, nor that another call is ever made.         *)
(***************************************************************************)
CallStep ==
  CallerStep \/ SaveNext \/ \E i \in Threads : ThreadStep(i) \/ Race(i)

FairSpec == Spec /\ WF_vars(CallStep)

-----------------------------------------------------------------------------
(* Properties                                                              *)

Phase == {"idle", "insert", "hash", "top", "save", "undefined"}
Pc == {"call", "return", "status", "clear", "restore", "done", "failed"}

(* The children of a node of a trie are labels, its dirty mark a Boolean. *)
IsTrie(t) ==
  /\ DOMAIN t \subseteq Label
  /\ \A n \in DOMAIN t :
       /\ t[n] = Node(t[n].left, t[n].right, t[n].hash, t[n].dirty)
       /\ t[n].left \in Label /\ t[n].right \in Label /\ t[n].dirty \in BOOLEAN

IsRecursion(r) ==
  /\ r = [work |-> r.work, stack |-> r.stack, pc |-> r.pc, status |-> r.status]
  /\ r.work \subseteq DOMAIN batch
  /\ r.stack \in Seq(Label) /\ r.stack # <<>>
  /\ r.pc \in Pc /\ r.status \in BOOLEAN

StateOK ==
  /\ IsTrie(nodes) /\ EmptyLabel \in DOMAIN nodes
  /\ IsTrie(stored)
  /\ batch \in Seq(Entry)
  /\ epoch \in Nat /\ storedEpoch \in Nat /\ bits \in Nat /\ top \in Nat
  /\ phase \in Phase /\ single \in BOOLEAN /\ outcome \in {"none", "ok", "threw"}
  /\ \A i \in Threads : IsRecursion(th[i])
  /\ DOMAIN updated = Threads /\ \A i \in Threads : IsTrie(updated[i])

TypeOK == StateOK /\ saves \in Seq(Label)

(* No call is running. *)
Settled == phase = "idle"

(***************************************************************************)
(* get_insertion_thread_limit looks at 0 and 1, then at 10 and 11, then at *)
(* 100 and 101: it doubles the limit for two nodes of a level and does not *)
(* look at the others.  A trie is skewed when the limit is higher than its *)
(* complete levels provide for.                                            *)
(***************************************************************************)
IsSkewed ==
  \E n \in Label :
    2^Len(n) < ThreadLimit /\ ~(n \in DOMAIN nodes /\ IsComplete(nodes, n))

(* When insert returns, no node is dirty and every inner hash is the hash  *)
(* of the node's children: the commitment is the Merkle root of what is in *)
(* the trie.  This is what update_hashes, its root_levels and the          *)
(* recomputation of the shared levels have to achieve together.  A call    *)
(* that has too many threads, and throws, computes no hashes.              *)
HashesUpdated ==
  Settled /\ ~(outcome = "threw" /\ IsSkewed) =>
    \A n \in DOMAIN nodes :
      /\ ~nodes[n].dirty
      /\ ~IsLeaf(nodes[n]) => nodes[n].hash = ChildrenHash(nodes, n)

(* When insert returns, the nodes are a function of what the leaves hold:  *)
(* neither the order of the keys nor the threads leave a trace.  What other *)
(* modules say of a trie rests on it (CompressedTrie::insert).             *)
LeafTuples == {<<l, nodes[l].hash[3], nodes[l].hash[4]>> : l \in FullLabel \cap DOMAIN nodes}
TrieOfDictionary == Settled => nodes = TrieOf(LeafTuples)

(* A lookup between calls gives the right answer for every label, with a   *)
(* path that QueryResult::verify_lookup_path accepts against the current   *)
(* commitment, and that shows the label exactly when the label is there.   *)
ProofsVerify ==
  Settled =>
    \A l \in FullLabel :
      LET r == Lookup(nodes, l)
          shown == {k \in DOMAIN r.path : r.path[k].label = l}
      IN  /\ r.status = IF l \in DOMAIN nodes THEN "found" ELSE "missing"
          /\ shown = IF l \in DOMAIN nodes THEN {1} ELSE {}
          /\ VerifyLookupPath(r.path, nodes[EmptyLabel].hash)

(* Storage holds what memory holds when insert returns: a trie loaded from *)
(* storage has the same nodes, hashes and epoch.                           *)
StorageIsCurrent ==
  Settled /\ HasStorage => stored = nodes /\ storedEpoch = epoch

(* At every moment, in the middle of a call too, the nodes in storage form *)
(* a trie that load_from_storage can load: no stored node refers to a      *)
(* child that is not stored ("Could not load node").  The one exception is *)
(* the root with an empty slot (CTNode::insert): it is saved right before  *)
(* its new leaf.                                                           *)
StorageLoads ==
  HasStorage =>
    /\ EmptyLabel \in DOMAIN stored
    /\ \A n \in DOMAIN stored : \A c \in {stored[n].left, stored[n].right} :
         c \in DOMAIN stored \/ (n = EmptyLabel /\ saves = <<c>>)

(* Threads that insert or hash at the same time meet only on the levels    *)
(* that all share: below them, no node is in the recursions of two         *)
(* threads.  On the shared levels no thread changes a node that another    *)
(* one comes to as long as there are at most eight threads; with more, in  *)
(* a skewed trie, two threads can come to one leaf that both have to split *)
(* (utilities.cpp, get_insertion_thread_limit).                            *)
ThreadsAreApart ==
  /\ \A i, j \in Threads :
       i # j => \A k \in (bits + 1)..Len(th[i].stack) :
                  \A m \in (bits + 1)..Len(th[j].stack) :
                    th[i].stack[k] # th[j].stack[m]
  /\ phase = "undefined" => bits > 3

(* An insert of labels the trie does not have never throws. *)
FreshInsertSucceeds == outcome # "threw"

(* It does throw, or two threads race, only where the thread limit counts  *)
(* on nodes that the trie does not have (get_insertion_thread_limit).      *)
ThrowsOnlyInSkewed ==
  (Settled /\ outcome = "threw") \/ phase = "undefined" => IsSkewed

(* README: once a (label, value, epoch) tuple is added it cannot be        *)
(* modified or removed.  No step of any thread changes or drops a leaf.    *)
LeafStays ==
  \A l \in FullLabel \cap DOMAIN nodes : l \in DOMAIN nodes' /\ nodes'[l] = nodes[l]
AppendOnly == [][LeafStays]_vars

(* A call that has begun returns, whatever the interleaving of its tasks,  *)
(* unless two of them race.                                                *)
CallReturns == phase # "idle" ~> phase \in {"idle", "undefined"}
=============================================================================
