--------------------------- MODULE TriePersistence ---------------------------
(***************************************************************************)
(* A trie and the storage that outlives it: single inserts written node by *)
(* node, a process that stops at any step, and the two ways to load a trie *)
(* again (oZKS/compressed_trie.cpp, ct_node_stored.cpp, ct_node_linked.cpp)*)
(*                                                                         *)
(* LoadFromStorage makes a trie of CTNodeStored: only its root is in       *)
(* memory, every other node is loaded when it is read.                     *)
(* LoadFromStorageWithChildren makes one of CTNodeLinked: all nodes are in *)
(* memory, and storage gets clean copies.                                  *)
(*                                                                         *)
(* Threads are left to CompressedTrie: here one insert runs alone.         *)
(***************************************************************************)
EXTENDS DictionaryTrie

CONSTANTS
  Commit,       \* the payload commitment of all inserts
  Setups,       \* how the trie is kept: the kinds of its nodes ("Stored",
                \* "Linked"); whether storage keeps nodes as objects, not as
                \* bytes; whether a batch inserter holds what is saved until
                \* a flush; bound: how often the process stops
  MaxEpoch      \* bound: inserts

ASSUME SetupsAssumption ==
  \A s \in Setups :
    /\ s.kinds \subseteq {"Stored", "Linked"} /\ s.kinds # {}
    /\ s.objects \in BOOLEAN /\ s.inserter \in BOOLEAN /\ s.stops \in Nat
ASSUME BoundsAssumption == MaxEpoch \in Nat

VARIABLES
  setup,    \* one of Setups
  kind,     \* the kind of the trie in memory, or "none"
  memory,   \* its nodes in memory
  epoch,    \* epoch_
  stored,   \* the nodes in storage, as the process sees it
  record,   \* the epoch of the trie in storage
  kept, keptRecord, \* the same, below the batch inserter
  op,       \* the running insert
  dict,     \* the tuples inserted and not lost
  keptDict, \* those that were flushed
  stops

vars == <<setup, kind, memory, epoch, stored, record, kept, keptRecord, op, dict, keptDict, stops>>

KeepsObjects == setup.objects
HasInserter == setup.inserter
NodeKinds == setup.kinds

NoInsert == [pc |-> "idle", label |-> EmptyLabel, stack |-> <<>>, saves |-> <<>>,
             next |-> "idle"]

(* CTNodeStored::Load gives a node that is not dirty. *)
AsRead(node) == IF KeepsObjects THEN node ELSE SetDirtyBit(node, FALSE)

(* CTNodeLinked saves a clean copy of itself, CTNodeStored itself. *)
AsSaved(node) == IF kind = "Linked" THEN SetDirtyBit(node, FALSE) ELSE node

(* The nodes as left(), right() and root_ give them. *)
Trie ==
  IF kind = "Linked" THEN memory
  ELSE [n \in DOMAIN stored |-> IF n = EmptyLabel THEN memory[n] ELSE AsRead(stored[n])]

Root(t) == [n \in {EmptyLabel} |-> t[n]]

(* left() and right() give no node for a label that storage does not have. *)
Present(t, n) == IF n \in DOMAIN t THEN n ELSE EmptyLabel
View(t) ==
  [n \in DOMAIN t |-> Node(Present(t, t[n].left), Present(t, t[n].right),
                           t[n].hash, t[n].dirty)]

(* The nodes that can be reached from the root. *)
Reached(t) ==
  LET reach[k \in 0..MaxBitCount + 1] ==
        IF k = 0 THEN {EmptyLabel}
        ELSE LET above == reach[k - 1]
             IN  above \cup UNION {{t[n].left, t[n].right} : n \in above \cap DOMAIN t}
  IN  reach[MaxBitCount + 1]

-----------------------------------------------------------------------------
(* The updater and the local providers make a trie that storage does not   *)
(* have, and save it.                                                      *)
Init ==
  /\ setup \in Setups
  /\ kind \in NodeKinds
  /\ memory = EmptyTrie /\ epoch = 0
  /\ stored = EmptyTrie /\ record = 0
  /\ kept = EmptyTrie /\ keptRecord = 0
  /\ op = NoInsert
  /\ dict = {} /\ keptDict = {}
  /\ stops = 0

Idle == op.pc = "idle"
Current == op.stack[Len(op.stack)]
Caller == op.stack[Len(op.stack) - 1]
Above == SubSeq(op.stack, 1, Len(op.stack) - 1)

(* The trie becomes t, and the nodes of list are saved one after another,  *)
(* each in a step of its own, before the step next.                        *)
Change(t, list, stack, next) ==
  /\ memory' = IF kind = "Linked" THEN t ELSE Root(t)
  /\ op' = [op EXCEPT !.pc = "save", !.stack = stack, !.next = next,
                      !.saves = [k \in DOMAIN list |-> [label |-> list[k], node |-> t[list[k]]]]]
  /\ UNCHANGED <<setup, kind, epoch, stored, record, kept, keptRecord, dict, keptDict, stops>>

Goto(pc, stack) ==
  /\ op' = [op EXCEPT !.pc = pc, !.stack = stack]
  /\ UNCHANGED <<setup, kind, memory, epoch, stored, record, kept, keptRecord, dict, keptDict,
                 stops>>

(* Storage::save_ctnode of the next node. *)
SaveNode ==
  /\ op.pc = "save" /\ op.saves # <<>>
  /\ LET s == Head(op.saves)
     IN  stored' = [n \in DOMAIN stored \cup {s.label} |->
                      IF n = s.label THEN AsSaved(s.node) ELSE stored[n]]
  /\ op' = [op EXCEPT !.saves = Tail(@)]
  /\ UNCHANGED <<setup, kind, memory, epoch, record, kept, keptRecord, dict, keptDict, stops>>

SavesDone ==
  /\ op.pc = "save" /\ op.saves = <<>>
  /\ Goto(op.next, op.stack)

-----------------------------------------------------------------------------
(* CompressedTrie::insert of one label *)

BeginInsert(l) ==
  /\ Idle /\ kind # "none" /\ epoch < MaxEpoch
  /\ epoch' = epoch + 1
  /\ op' = [op EXCEPT !.pc = "insert", !.label = l, !.stack = <<EmptyLabel>>]
  /\ UNCHANGED <<setup, kind, memory, stored, record, kept, keptRecord, dict, keptDict, stops>>

(* Attempting to insert the same label. *)
ThrowSameLabel ==
  /\ op.pc = "insert" /\ Current = op.label
  /\ op' = NoInsert
  /\ UNCHANGED <<setup, kind, memory, epoch, stored, record, kept, keptRecord, dict, keptDict,
                 stops>>

Follows == HasRoute(View(Trie), Current, op.label) /\ ~SplitsLeaf(Trie, Current)
FindsFreeSlot == HasFreeSlot(View(Trie), Current, op.label) /\ ~SplitsLeaf(Trie, Current)

Follow ==
  /\ op.pc = "insert" /\ Current # op.label /\ Follows
  /\ Goto("insert", Append(op.stack, ChildOn(Trie[Current], NextBit(Current, op.label))))

Leaf == NewLeaf(LeafHash(op.label, Commit, epoch))

(* A free slot takes the leaf: the node is saved before the leaf is. *)
AttachInSlot ==
  /\ op.pc = "insert" /\ Current # op.label /\ FindsFreeSlot
  /\ Change(FillSlot(Trie, Current, op.label, Leaf), <<Current, op.label>>,
            op.stack, "return")

SplitAt(n) ==
  IF SplitsLeaf(Trie, n) THEN SplitLeaf(Trie, n, op.label, Leaf)
  ELSE SplitEdge(Trie, n, op.label, Leaf)

(* Mutant: the new inner node is not saved. *)
AttachForkUnsaved ==
  /\ op.pc = "insert" /\ Current # op.label /\ ~Follows /\ ~FindsFreeSlot
  /\ Change(SplitAt(Current), <<op.label, Current>>,
            Append(Above, CommonPrefix(op.label, Current)), "return")

(* A leaf or an edge is split: the two nodes under n are saved, left first, *)
(* then n itself.                                                          *)
AttachBySplit ==
  /\ op.pc = "insert" /\ Current # op.label /\ ~Follows /\ ~FindsFreeSlot
  /\ LET n     == CommonPrefix(op.label, Current)
         under == IF NextBit(Current, op.label) = 0 THEN <<op.label, Current>>
                  ELSE <<Current, op.label>>
     IN  Change(SplitAt(Current), Append(under, n), Append(Above, n), "return")

(* Back in the caller: the child's label may be new, the node is dirty. *)
ReturnFromInsert ==
  /\ op.pc = "return" /\ Len(op.stack) > 1
  /\ LET t == [Trie EXCEPT ![Caller] = SetChild(@, NextBit(Caller, op.label), Current)]
     IN  Change(t, <<Caller>>, Above, "return")

BeginHashes ==
  /\ op.pc = "return" /\ Len(op.stack) = 1
  /\ Goto("hash", op.stack)

FollowToHash ==
  /\ op.pc = "hash" /\ Current # op.label
  /\ HasRoute(View(Trie), Current, op.label)
  /\ Goto("hash", Append(op.stack, ChildOn(Trie[Current], NextBit(Current, op.label))))

(* update_hash on the node of list, if there is one; when it computed the  *)
(* hash, the node is saved.                                                *)
Rehashed(t, list) ==
  IF \A k \in DOMAIN list : WillUpdate(View(t), list[k]) THEN list ELSE <<>>
HashedIn(t, list) ==
  LET hashed == UpdateHash(View(t), {list[k] : k \in DOMAIN list})
  IN  [m \in DOMAIN t |-> Node(t[m].left, t[m].right, hashed[m].hash, hashed[m].dirty)]

HashFound ==
  /\ op.pc = "hash" /\ Current = op.label
  /\ Goto("hashed", op.stack)

(* First the sibling of the node returned from, then the node itself. *)
HashReturn ==
  /\ op.pc = "hashed" /\ Len(op.stack) > 1
  /\ LET sibling == ChildOn(View(Trie)[Caller], 1 - NextBit(Caller, op.label))
         first   == IF sibling = EmptyLabel THEN <<>> ELSE <<sibling>>
         t       == HashedIn(Trie, first)
     IN  Change(HashedIn(t, <<Caller>>), Rehashed(Trie, first) \o Rehashed(t, <<Caller>>),
                Above, "hashed")

(* The proof is looked up; save_to_storage saves the trie, its epoch. *)
Finish ==
  /\ op.pc = "hashed" /\ Len(op.stack) = 1
  /\ record' = epoch
  /\ op' = NoInsert
  /\ dict' = dict \cup {<<op.label, Commit, epoch>>}
  /\ UNCHANGED <<setup, kind, memory, epoch, stored, kept, keptRecord, keptDict, stops>>

-----------------------------------------------------------------------------
(* Storage::flush, which the callers of insert call after it. *)
Flush ==
  /\ HasInserter /\ Idle
  /\ kept' = stored /\ keptRecord' = record /\ keptDict' = dict
  /\ UNCHANGED <<setup, kind, memory, epoch, stored, record, op, dict, stops>>

(* The process stops: what is in memory, in the inserter too, is lost. *)
Stop ==
  /\ stops < setup.stops /\ kind # "none"
  /\ stops' = stops + 1
  /\ kind' = "none" /\ memory' = EmptyTrie /\ epoch' = 0
  /\ op' = NoInsert
  /\ IF HasInserter
     THEN stored' = kept /\ record' = keptRecord /\ dict' = keptDict
     ELSE UNCHANGED <<stored, record, dict>>
  /\ UNCHANGED <<setup, kept, keptRecord, keptDict>>

(* LoadFromStorage *)
LoadStored ==
  /\ kind = "none" /\ "Stored" \in NodeKinds
  /\ kind' = "Stored"
  /\ memory' = [n \in {EmptyLabel} |-> AsRead(stored[n])]
  /\ epoch' = record
  /\ UNCHANGED <<setup, stored, record, kept, keptRecord, op, dict, keptDict, stops>>

(* Mutant: nodes are left marked by set_left_node and set_right_node. *)
LoadLinkedDirty ==
  /\ kind = "none" /\ "Linked" \in NodeKinds
  /\ Reached(stored) \subseteq DOMAIN stored
  /\ kind' = "Linked"
  /\ memory' = [n \in Reached(stored) |-> SetDirtyBit(stored[n], ~IsLeaf(stored[n]))]
  /\ epoch' = record
  /\ UNCHANGED <<setup, stored, record, kept, keptRecord, op, dict, keptDict, stops>>

(* LoadFromStorageWithChildren; every node is clean when it is loaded. *)
LoadLinked ==
  /\ kind = "none" /\ "Linked" \in NodeKinds
  /\ Reached(stored) \subseteq DOMAIN stored
  /\ kind' = "Linked"
  /\ memory' = [n \in Reached(stored) |-> SetDirtyBit(stored[n], FALSE)]
  /\ epoch' = record
  /\ UNCHANGED <<setup, stored, record, kept, keptRecord, op, dict, keptDict, stops>>

-----------------------------------------------------------------------------
InsertStep ==
  \/ ThrowSameLabel \/ Follow \/ AttachInSlot \/ AttachBySplit \/ ReturnFromInsert
  \/ BeginHashes \/ FollowToHash \/ HashFound \/ HashReturn \/ Finish
  \/ SaveNode \/ SavesDone

Next ==
  \/ \E l \in FullLabel : BeginInsert(l)
  \/ InsertStep
  \/ Flush \/ Stop \/ LoadStored \/ LoadLinked

Spec == Init /\ [][Next]_vars

-----------------------------------------------------------------------------
(* Properties *)

TypeOK ==
  /\ setup \in Setups
  /\ kind \in NodeKinds \cup {"none"}
  /\ \A n \in DOMAIN stored :
       stored[n] = Node(stored[n].left, stored[n].right, stored[n].hash, stored[n].dirty)
         /\ {stored[n].left, stored[n].right} \subseteq Label
  /\ op.pc \in {"idle", "insert", "save", "return", "hash", "hashed"}
  /\ EmptyLabel \in DOMAIN memory \cap DOMAIN stored \cap DOMAIN kept
  /\ epoch <= MaxEpoch /\ record <= MaxEpoch /\ stops <= setup.stops

(* Between calls the trie is the one of the dictionary: after any number   *)
(* of stops and loads, of either kind, it is what it would be had the      *)
(* process never stopped, up to the last flush (without an inserter a stop *)
(* can fall between two saves).                                            *)
TrieIsOfDictionary ==
  HasInserter /\ Idle /\ kind # "none" => Trie = TrieOf(dict)

(* Whatever step the process stops at, storage can be loaded with all its *)
(* nodes: no node in it refers to one that is not there.                   *)
StorageLoads == Reached(stored) \subseteq DOMAIN stored

(* After a stop in the middle of an insert, and inserts that follow it, no *)
(* label of a completed insert is lost: it is found from the root.         *)
InsertedStay ==
  Idle /\ kind # "none" => LabelsOf(dict) \subseteq Reached(View(Trie))
=============================================================================
