----------------------- MODULE CompressedTrie_proofs -----------------------
(***************************************************************************)
(* Theorems about CompressedTrie: type correctness, whatever callers do,   *)
(* that threads meet on shared levels only, where eight of them never      *)
(* race; for callers that insert new labels only and up to eight threads,  *)
(* that no step of any thread changes or drops a leaf, and that the leaves *)
(* implement an append-only dictionary; and, for the tries that one thread *)
(* inserts into, that they can be loaded between any two saves but those   *)
(* of the root and its new leaf, that hashes, proofs and storage are right *)
(* when a call returns, and that the whole trie is a function of its       *)
(* leaves.                                                                 *)
(***************************************************************************)
EXTENDS CompressedTrie, CTNode_proofs

-----------------------------------------------------------------------------
(* Type correctness                                                        *)

LEMMA ClosedIsTrie ==
  ASSUME NEW t, Closed(t)
  PROVE  IsTrie(t)
BY DEF Closed, IsTrie, IsNodeOf

(* The inductive invariant: recursions stand at nodes of the trie, and one *)
(* that is not done has an entry to process.                               *)
TypeInv ==
  /\ StateOK
  /\ Closed(nodes)
  /\ \E k \in Int : Threads = 0..k
  /\ \A i \in Threads :
       /\ th[i].stack \in Seq(DOMAIN nodes)
       /\ th[i].pc = "done" \/ th[i].work # {}

LEMMA StackFact ==
  ASSUME TypeInv, NEW i \in Threads
  PROVE  /\ Len(th[i].stack) \in Nat \ {0}
         /\ Current(i) \in DOMAIN nodes
         /\ Pop(th[i].stack) \in Seq(DOMAIN nodes)
         /\ Len(Pop(th[i].stack)) = Len(th[i].stack) - 1
         /\ \A k \in 1..(Len(th[i].stack) - 1) : Pop(th[i].stack)[k] = th[i].stack[k]
         /\ Len(th[i].stack) > 1 => Caller(i) \in DOMAIN nodes /\ Pop(th[i].stack) # <<>>
<1> DEFINE s == th[i].stack
<1>1. s \in Seq(DOMAIN nodes) /\ s # <<>>
  BY DEF TypeInv, StateOK, IsRecursion
<1>2. Len(s) \in Nat \ {0}
  BY <1>1
<1>3. s[Len(s)] \in DOMAIN nodes
  BY <1>1, <1>2
<1>4. /\ SubSeq(s, 1, Len(s) - 1) \in Seq(DOMAIN nodes)
      /\ Len(SubSeq(s, 1, Len(s) - 1)) = Len(s) - 1
      /\ \A k \in 1..(Len(s) - 1) : SubSeq(s, 1, Len(s) - 1)[k] = s[k]
  BY <1>1, <1>2
<1>5. Len(s) > 1 => s[Len(s) - 1] \in DOMAIN nodes
  BY <1>1, <1>2
<1>6. Len(s) > 1 => SubSeq(s, 1, Len(s) - 1) # <<>>
  <2> DEFINE p == SubSeq(s, 1, Len(s) - 1)
  <2>1. Len(p) = Len(s) - 1
    BY <1>4
  <2>2. Len(<<>>) = 0
    OBVIOUS
  <2> HIDE DEF s, p
  <2>3. Len(s) > 1 => p # <<>>
    BY <1>2, <2>1, <2>2
  <2> QED BY <2>3 DEF p, s
<1> QED BY <1>2, <1>3, <1>4, <1>5, <1>6 DEF Current, Caller, Pop

LEMMA PositionFact ==
  ASSUME TypeInv, NEW i \in Threads, th[i].work # {}
  PROVE  /\ Position(i) \in th[i].work
         /\ Position(i) \in DOMAIN batch
         /\ Target(i) \in FullLabel
<1>1. th[i].work \subseteq DOMAIN batch /\ batch \in Seq(Entry)
  BY DEF TypeInv, StateOK, IsRecursion
<1>2. th[i].work \subseteq Nat
  BY <1>1
<1>3. \E k \in th[i].work : \A m \in th[i].work : k <= m
  BY <1>2, LeastNatural
<1>4. Position(i) \in th[i].work
  BY <1>3 DEF Position
<1>5. batch[Position(i)] \in Entry
  BY <1>1, <1>4
<1> QED BY <1>1, <1>4, <1>5 DEF Target, Entry

LEMMA CopiedFact ==
  ASSUME NEW t, IsTrie(t), NEW S, S \subseteq DOMAIN t, NEW into, IsTrie(into)
  PROVE  IsTrie(Copied(t, S, into))
<1> DEFINE u == Copied(t, S, into)
<1>1. DOMAIN u = DOMAIN into \cup S
  BY DEF Copied
<1>2. ASSUME NEW x \in DOMAIN u, x \in S
      PROVE  IsNodeOf(u[x], Label)
  <2>1. IsNodeOf(t[x], Label)
    BY <1>2 DEF IsTrie, IsNodeOf
  <2>2. IsNodeOf(SetDirtyBit(t[x], FALSE), Label)
    BY <2>1, RemarkedIsNode DEF SetDirtyBit
  <2>3. u[x] = t[x] \/ u[x] = SetDirtyBit(t[x], FALSE)
    BY <1>2 DEF Copied
  <2> HIDE DEF u
  <2> QED BY <2>1, <2>2, <2>3
<1>3. ASSUME NEW x \in DOMAIN u, x \notin S
      PROVE  IsNodeOf(u[x], Label)
  <2>1. u[x] = into[x] /\ x \in DOMAIN into
    BY <1>1, <1>3 DEF Copied
  <2> HIDE DEF u
  <2> QED BY <2>1 DEF IsTrie, IsNodeOf
<1>4. DOMAIN u \subseteq Label
  BY <1>1 DEF IsTrie
<1> HIDE DEF u
<1>5. IsTrie(u)
  BY <1>2, <1>3, <1>4 DEF IsTrie, IsNodeOf
<1> QED BY <1>5 DEF u

(* What is in storage, and what waits to be saved. *)
SavedOK ==
  /\ IsTrie(stored)
  /\ DOMAIN updated = Threads
  /\ \A i \in Threads : IsTrie(updated[i])

LEMMA SaveFact ==
  ASSUME SavedOK, NEW i, NEW t, IsTrie(t), NEW S, S \subseteq DOMAIN t, Save(i, t, S),
         Threads' = Threads
  PROVE  SavedOK'
<1>1. CASE UNCHANGED <<stored, updated>>
  BY <1>1 DEF SavedOK
<1>2. CASE stored' = Copied(t, S, stored) /\ UNCHANGED updated
  BY <1>2, CopiedFact DEF SavedOK
<1>3. CASE updated' = [updated EXCEPT ![i] = Copied(t, S, @)] /\ UNCHANGED stored
  <2>1. DOMAIN updated' = Threads
    BY <1>3 DEF SavedOK
  <2>2. ASSUME NEW j \in Threads PROVE IsTrie(updated'[j])
    <3>1. IsTrie(updated[j])
      BY DEF SavedOK
    <3>2. IsTrie(Copied(t, S, updated[j]))
      BY <3>1, CopiedFact
    <3> QED BY <1>3, <3>1, <3>2 DEF SavedOK
  <2> QED BY <1>3, <2>1, <2>2 DEF SavedOK
<1> QED BY <1>1, <1>2, <1>3 DEF Save

(* What every step of a thread has in common. *)
LEMMA RecursionStepType ==
  ASSUME TypeInv, NEW i \in Threads,
         NEW r, r = [work |-> r.work, stack |-> r.stack, pc |-> r.pc, status |-> r.status],
         r.work \subseteq th[i].work, r.stack \in Seq(DOMAIN nodes'), r.stack # <<>>,
         r.pc \in Pc, r.status \in BOOLEAN, r.pc = "done" \/ r.work # {},
         th' = [th EXCEPT ![i] = r],
         Closed(nodes'), DOMAIN nodes \subseteq DOMAIN nodes', SavedOK', UNCHANGED callVars
  PROVE  TypeInv'
<1>1. Threads' = Threads
  BY DEF Threads
<1>2. th'[i] = r
  BY DEF Threads
<1>3. \A j \in Threads : j # i => th'[j] = th[j]
  BY DEF Threads
<1>4. IsTrie(nodes') /\ EmptyLabel \in DOMAIN nodes' /\ DOMAIN nodes' \subseteq Label
  BY ClosedIsTrie DEF Closed
<1>5. ASSUME NEW j \in Threads
      PROVE  /\ th'[j].stack \in Seq(DOMAIN nodes')
             /\ th'[j].pc = "done" \/ th'[j].work # {}
             /\ IsRecursion(th[j])'
  <2>1. CASE j = i
    <3>1. r.stack \in Seq(Label)
      BY <1>4, SeqGrows
    <3>2. th[i].work \subseteq DOMAIN batch /\ batch' = batch
      BY DEF TypeInv, StateOK, IsRecursion, callVars
    <3> QED BY <1>2, <2>1, <3>1, <3>2 DEF IsRecursion
  <2>2. CASE j # i
    <3>1. th'[j] = th[j] /\ batch' = batch
      BY <1>3, <2>2 DEF callVars
    <3>2. th[j].stack \in Seq(DOMAIN nodes')
      BY SeqGrows DEF TypeInv
    <3>3. IsRecursion(th[j])' /\ (th[j].pc = "done" \/ th[j].work # {})
      BY <3>1 DEF TypeInv, StateOK, IsRecursion
    <3> QED BY <3>1, <3>2, <3>3
  <2> QED BY <2>1, <2>2
<1>6. StateOK'
  BY <1>1, <1>4, <1>5 DEF TypeInv, StateOK, SavedOK, callVars
<1>7. \E k \in Int : Threads' = 0..k
  BY <1>1 DEF TypeInv
<1> QED BY <1>1, <1>4, <1>5, <1>6, <1>7 DEF TypeInv

LEMMA StepType ==
  ASSUME TypeInv, NEW i \in Threads, th[i].work # {},
         NEW pc \in Pc, NEW stack \in Seq(DOMAIN nodes'), stack # <<>>,
         NEW status \in BOOLEAN,
         Step(i, pc, stack, status),
         Closed(nodes'), DOMAIN nodes \subseteq DOMAIN nodes', SavedOK', UNCHANGED callVars
  PROVE  TypeInv'
<1> DEFINE r == [work |-> th[i].work, stack |-> stack, pc |-> pc, status |-> status]
<1>1. /\ r = [work |-> r.work, stack |-> r.stack, pc |-> r.pc, status |-> r.status]
      /\ r.work = th[i].work /\ r.stack = stack /\ r.pc = pc /\ r.status = status
  OBVIOUS
<1>2. th' = [th EXCEPT ![i] = r]
  BY DEF Step
<1> HIDE DEF r
<1> QED BY <1>1, <1>2, RecursionStepType

LEMMA GotoType ==
  ASSUME TypeInv, NEW i \in Threads, th[i].work # {},
         NEW pc \in Pc, NEW stack \in Seq(DOMAIN nodes'), stack # <<>>,
         Goto(i, pc, stack),
         Closed(nodes'), DOMAIN nodes \subseteq DOMAIN nodes', SavedOK', UNCHANGED callVars
  PROVE  TypeInv'
<1>1. th[i].status \in BOOLEAN
  BY DEF TypeInv, StateOK, IsRecursion
<1> QED BY <1>1, StepType DEF Goto

LEMMA StepThreads ==
  ASSUME NEW i, NEW pc, NEW stack, NEW status, Step(i, pc, stack, status)
  PROVE  Threads' = Threads
BY DEF Step, Threads

LEMMA SavedFact ==
  ASSUME TypeInv
  PROVE  SavedOK
BY DEF TypeInv, StateOK, SavedOK

(* A thread that is about to do something stands at a node, with an entry. *)
LEMMA BusyFact ==
  ASSUME TypeInv, NEW i \in Threads, th[i].pc # "done"
  PROVE  /\ th[i].work # {}
         /\ Target(i) \in FullLabel
         /\ Current(i) \in DOMAIN nodes
         /\ th[i].stack \in Seq(DOMAIN nodes) /\ th[i].stack # <<>>
         /\ SavedOK /\ Closed(nodes)
BY PositionFact, StackFact, SavedFact DEF TypeInv, StateOK, IsRecursion

(* A step that leaves the trie and what is saved of it alone. *)
LEMMA QuietStepType ==
  ASSUME TypeInv, NEW i \in Threads, th[i].pc # "done",
         NEW pc \in Pc, NEW stack \in Seq(DOMAIN nodes), stack # <<>>,
         NEW status \in BOOLEAN, Step(i, pc, stack, status),
         UNCHANGED <<nodes, stored, updated, callVars>>
  PROVE  TypeInv'
<1>1. SavedOK'
  BY SavedFact, StepThreads DEF SavedOK
<1>2. Closed(nodes') /\ nodes' = nodes
  BY DEF TypeInv
<1> QED BY <1>1, <1>2, BusyFact, StepType

LEMMA QuietGotoType ==
  ASSUME TypeInv, NEW i \in Threads, th[i].pc # "done",
         NEW pc \in Pc, NEW stack \in Seq(DOMAIN nodes), stack # <<>>,
         Goto(i, pc, stack), UNCHANGED <<nodes, stored, updated, callVars>>
  PROVE  TypeInv'
<1>1. th[i].status \in BOOLEAN
  BY DEF TypeInv, StateOK, IsRecursion
<1> QED BY <1>1, QuietStepType DEF Goto

(* The child that a route leads to is a node. *)
LEMMA RouteFact ==
  ASSUME TypeInv, NEW i \in Threads, th[i].pc # "done", NEW bit
  PROVE  /\ ChildOn(nodes[Current(i)], bit) \in DOMAIN nodes
         /\ Append(th[i].stack, ChildOn(nodes[Current(i)], bit)) \in Seq(DOMAIN nodes)
         /\ Append(th[i].stack, ChildOn(nodes[Current(i)], bit)) # <<>>
<1>1. ChildOn(nodes[Current(i)], bit) \in DOMAIN nodes
  BY BusyFact DEF Closed, IsNodeOf, ChildOn
<1>2. th[i].stack \in Seq(DOMAIN nodes)
  BY BusyFact
<1> HIDE DEF ChildOn
<1>3. ASSUME NEW x \in DOMAIN nodes
      PROVE  Append(th[i].stack, x) \in Seq(DOMAIN nodes) /\ Append(th[i].stack, x) # <<>>
  <2>1. Append(th[i].stack, x) \in Seq(DOMAIN nodes) /\ Len(Append(th[i].stack, x)) = Len(th[i].stack) + 1
    BY <1>2
  <2>2. Len(th[i].stack) \in Nat /\ Len(<<>>) = 0
    BY <1>2
  <2> QED BY <2>1, <2>2
<1> QED BY <1>1, <1>3

LEMMA WalkType ==
  ASSUME TypeInv, NEW i \in Threads,
         ThrowSameLabel(i) \/ FollowRoute(i) \/ ReadStatus(i) \/ HashFollow(i)
  PROVE  TypeInv'
<1>1. th[i].pc # "done" /\ UNCHANGED <<nodes, stored, updated, callVars>>
  BY DEF ThrowSameLabel, FollowRoute, ReadStatus, HashFollow, InPhase
<1>2. CASE ThrowSameLabel(i)
  BY <1>1, <1>2, BusyFact, QuietGotoType DEF ThrowSameLabel, Pc
<1>3. CASE FollowRoute(i) \/ HashFollow(i)
  <2>1. PICK child : /\ child = ChildOn(nodes[Current(i)], NextBit(Current(i), Target(i)))
                     /\ Goto(i, "call", Append(th[i].stack, child))
    BY <1>3 DEF FollowRoute, HashFollow
  <2>2. Append(th[i].stack, child) \in Seq(DOMAIN nodes) /\ Append(th[i].stack, child) # <<>>
    BY <1>1, <2>1, RouteFact
  <2>3. "call" \in Pc
    BY DEF Pc
  <2> QED BY <1>1, <2>1, <2>2, <2>3, QuietGotoType
<1>4. CASE ReadStatus(i)
  <2>1. nodes[Current(i)].dirty \in BOOLEAN
    BY <1>1, BusyFact DEF Closed, IsNodeOf
  <2>2. Step(i, "clear", th[i].stack, nodes[Current(i)].dirty) /\ "clear" \in Pc
    BY <1>4 DEF ReadStatus, Pc
  <2> QED BY <1>1, <2>1, <2>2, BusyFact, QuietStepType
<1> QED BY <1>2, <1>3, <1>4

(* A step that changes the trie and saves some of its nodes. *)
LEMMA SavingStepType ==
  ASSUME TypeInv, NEW i \in Threads, th[i].pc # "done",
         NEW pc \in Pc, NEW stack \in Seq(DOMAIN nodes'), stack # <<>>,
         Goto(i, pc, stack),
         Closed(nodes'), DOMAIN nodes \subseteq DOMAIN nodes',
         NEW t, IsTrie(t), NEW S, S \subseteq DOMAIN t,
         Save(i, t, S) \/ UNCHANGED <<stored, updated>>,
         UNCHANGED callVars
  PROVE  TypeInv'
<1>1. Threads' = Threads
  BY StepThreads DEF Goto
<1>2. SavedOK
  BY SavedFact
<1>3. CASE Save(i, t, S)
  <2>1. SavedOK'
    BY <1>1, <1>2, <1>3, SaveFact
  <2> QED BY <2>1, BusyFact, GotoType
<1>4. CASE UNCHANGED <<stored, updated>>
  <2>1. SavedOK'
    BY <1>1, <1>2, <1>4 DEF SavedOK
  <2> QED BY <2>1, BusyFact, GotoType
<1> QED BY <1>3, <1>4

LEMMA AttachType ==
  ASSUME TypeInv, NEW i \in Threads, th[i].pc # "done",
         NEW t, Grows(nodes, t, Target(i)), Target(i) \in DOMAIN t, NEW n \in DOMAIN t,
         NEW order \in Seq(DOMAIN t), Attach(i, t, n, order)
  PROVE  TypeInv'
<1>1. nodes' = t /\ Closed(t) /\ IsTrie(t) /\ DOMAIN nodes \subseteq DOMAIN t
  BY ClosedIsTrie DEF Attach, Grows
<1>2. Pop(th[i].stack) \in Seq(DOMAIN t)
  BY <1>1, StackFact, SeqGrows
<1>3. Append(Pop(th[i].stack), n) \in Seq(DOMAIN t) /\ Append(Pop(th[i].stack), n) # <<>>
  BY <1>2, AppendFact
<1> DEFINE S == {order[k] : k \in DOMAIN order}
<1>4. S \subseteq DOMAIN t
  OBVIOUS
<1>5. "return" \in Pc
  BY DEF Pc
<1>6. Save(i, t, S) \/ UNCHANGED <<stored, updated>>
  BY DEF Attach, SaveInOrder
<1>7. Goto(i, "return", Append(Pop(th[i].stack), n)) /\ UNCHANGED callVars
  BY DEF Attach
<1> HIDE DEF S
<1> QED BY <1>1, <1>3, <1>4, <1>5, <1>6, <1>7, SavingStepType

(* What a split saves are nodes. *)
LEMMA ChildrenFirstFact ==
  ASSUME NEW t, Closed(t), NEW n \in DOMAIN t
  PROVE  ChildrenFirst(t, n) \in Seq(DOMAIN t)
BY DEF Closed, IsNodeOf, ChildrenFirst

(* The three ways to hang a new leaf into the trie. *)
LEMMA AttachWays ==
  ASSUME TypeInv, NEW i \in Threads, AttachAtLeaf(i) \/ AttachInSlot(i) \/ AttachOnEdge(i)
  PROVE  \E t, n, order :
           /\ Attach(i, t, n, order)
           /\ Grows(nodes, t, Target(i)) /\ Target(i) \in DOMAIN t /\ n \in DOMAIN t
           /\ DOMAIN t = DOMAIN nodes \cup {Target(i), n}
           /\ order \in Seq(DOMAIN t)
           /\ \/ n = Current(i) /\ t = FillSlot(nodes, Current(i), Target(i), LeafOf(i))
                 /\ order = <<Current(i), Target(i)>>
              \/ n = CommonPrefix(Target(i), Current(i)) /\ order = ChildrenFirst(t, n)
                 /\ \/ t = SplitLeaf(nodes, Current(i), Target(i), LeafOf(i))
                    \/ t = SplitEdge(nodes, Current(i), Target(i), LeafOf(i))
<1>1. th[i].pc # "done" /\ Current(i) # Target(i)
  BY DEF AttachAtLeaf, AttachInSlot, AttachOnEdge, InPhase
<1>2. Target(i) \in FullLabel /\ Current(i) \in DOMAIN nodes /\ Closed(nodes)
  BY <1>1, BusyFact
<1>3. PICK h : LeafOf(i) = NewLeaf(h)
  BY DEF LeafOf
<1> DEFINE n == CommonPrefix(Target(i), Current(i))
<1>4. CASE AttachAtLeaf(i)
  <2> DEFINE t == SplitLeaf(nodes, Current(i), Target(i), LeafOf(i))
  <2>1. Grows(nodes, t, Target(i)) /\ DOMAIN t = DOMAIN nodes \cup {Target(i), n}
    <3> HIDE DEF n
    <3>1. t = SplitLeaf(nodes, Current(i), Target(i), NewLeaf(h))
      BY <1>3
    <3> QED BY <1>1, <1>2, <3>1, SplitLeafFact DEF n
  <2>2. Attach(i, t, n, ChildrenFirst(t, n))
    BY <1>4 DEF AttachAtLeaf
  <2> HIDE DEF t, n
  <2>3. n \in DOMAIN t /\ Target(i) \in DOMAIN t /\ ChildrenFirst(t, n) \in Seq(DOMAIN t)
    BY <2>1, ChildrenFirstFact DEF Grows
  <2>4. t = SplitLeaf(nodes, Current(i), Target(i), LeafOf(i)) /\ n = CommonPrefix(Target(i), Current(i))
    BY DEF t, n
  <2> QED BY <2>1, <2>2, <2>3, <2>4
<1>5. CASE AttachInSlot(i)
  <2> DEFINE t == FillSlot(nodes, Current(i), Target(i), LeafOf(i))
  <2>1. Grows(nodes, t, Target(i)) /\ DOMAIN t = DOMAIN nodes \cup {Target(i)}
    BY <1>1, <1>2, <1>3, FillSlotFact
  <2>2. Attach(i, t, Current(i), <<Current(i), Target(i)>>)
    BY <1>5 DEF AttachInSlot
  <2> HIDE DEF t
  <2>3. /\ Current(i) \in DOMAIN t /\ Target(i) \in DOMAIN t
        /\ <<Current(i), Target(i)>> \in Seq(DOMAIN t)
        /\ DOMAIN t = DOMAIN nodes \cup {Target(i), Current(i)}
    BY <1>2, <2>1
  <2>4. t = FillSlot(nodes, Current(i), Target(i), LeafOf(i))
    BY DEF t
  <2> QED BY <2>1, <2>2, <2>3, <2>4
<1>6. CASE AttachOnEdge(i)
  <2> DEFINE t == SplitEdge(nodes, Current(i), Target(i), LeafOf(i))
  <2>1. Grows(nodes, t, Target(i)) /\ DOMAIN t = DOMAIN nodes \cup {Target(i), n}
    <3> HIDE DEF n
    <3>1. t = SplitEdge(nodes, Current(i), Target(i), NewLeaf(h))
      BY <1>3
    <3> QED BY <1>1, <1>2, <3>1, SplitEdgeFact DEF n
  <2>2. Attach(i, t, n, ChildrenFirst(t, n))
    BY <1>6 DEF AttachOnEdge
  <2> HIDE DEF t, n
  <2>3. n \in DOMAIN t /\ Target(i) \in DOMAIN t /\ ChildrenFirst(t, n) \in Seq(DOMAIN t)
    BY <2>1, ChildrenFirstFact DEF Grows
  <2>4. t = SplitEdge(nodes, Current(i), Target(i), LeafOf(i)) /\ n = CommonPrefix(Target(i), Current(i))
    BY DEF t, n
  <2> QED BY <2>1, <2>2, <2>3, <2>4
<1> QED BY <1>4, <1>5, <1>6

LEMMA InsertNodeType ==
  ASSUME TypeInv, NEW i \in Threads,
         AttachAtLeaf(i) \/ AttachInSlot(i) \/ AttachOnEdge(i)
  PROVE  TypeInv'
<1>1. th[i].pc # "done"
  BY DEF AttachAtLeaf, AttachInSlot, AttachOnEdge, InPhase
<1>2. PICK t, n, order :
        /\ Attach(i, t, n, order) /\ Grows(nodes, t, Target(i)) /\ Target(i) \in DOMAIN t
        /\ n \in DOMAIN t /\ order \in Seq(DOMAIN t)
  BY AttachWays
<1> QED BY <1>1, <1>2, AttachType

LEMMA MarkType ==
  ASSUME TypeInv, NEW i \in Threads,
         SetDirty(i) \/ ClearDirty(i) \/ SaveAndRestore(i)
  PROVE  TypeInv'
<1>1. th[i].pc # "done" /\ UNCHANGED callVars
  BY DEF SetDirty, ClearDirty, SaveAndRestore, InPhase
<1>2. /\ Closed(nodes) /\ Current(i) \in DOMAIN nodes /\ th[i].status \in BOOLEAN
      /\ th[i].stack \in Seq(DOMAIN nodes) /\ th[i].stack # <<>>
      /\ IsNodeOf(nodes[Current(i)], DOMAIN nodes)
  BY <1>1, BusyFact DEF TypeInv, StateOK, IsRecursion, Closed
<1>3. ASSUME NEW d \in BOOLEAN
      PROVE  IsNodeOf(SetDirtyBit(nodes[Current(i)], d), DOMAIN nodes)
  BY <1>2, RemarkedIsNode DEF SetDirtyBit
<1>4. {"return", "status", "restore"} \subseteq Pc
  BY DEF Pc
<1>5. CASE SetDirty(i)
  <2> DEFINE node == SetChild(nodes[Caller(i)], NextBit(Caller(i), Target(i)), Current(i))
             t == [nodes EXCEPT ![Caller(i)] = node]
  <2>1. /\ nodes' = t
        /\ Save(i, t, {Caller(i)}) \/ UNCHANGED <<stored, updated>>
        /\ \E pc \in {"status", "return"} : Goto(i, pc, Pop(th[i].stack))
        /\ Len(th[i].stack) > 1
    BY <1>5 DEF SetDirty
  <2>2. Caller(i) \in DOMAIN nodes /\ Pop(th[i].stack) \in Seq(DOMAIN nodes) /\ Pop(th[i].stack) # <<>>
    BY <2>1, StackFact
  <2>3. IsNodeOf(node, DOMAIN nodes)
    BY <1>2, <2>2, SetChildIsNode DEF Closed
  <2> HIDE DEF node
  <2>4. Closed(t) /\ DOMAIN t = DOMAIN nodes
    BY <1>2, <2>2, <2>3, ChangedNodeFact
  <2> HIDE DEF t
  <2>5. IsTrie(t) /\ {Caller(i)} \subseteq DOMAIN t
    BY <2>2, <2>4, ClosedIsTrie
  <2> QED BY <1>1, <1>4, <2>1, <2>2, <2>4, <2>5, SavingStepType
<1>6. CASE ClearDirty(i)
  <2>1. /\ nodes' = [nodes EXCEPT ![Current(i)] = SetDirtyBit(nodes[Current(i)], FALSE)]
        /\ UNCHANGED <<stored, updated>> /\ Goto(i, "restore", th[i].stack)
    BY <1>6 DEF ClearDirty
  <2>2. Closed(nodes') /\ DOMAIN nodes' = DOMAIN nodes
    BY <1>2, <1>3, <2>1, ChangedNodeFact
  <2>3. IsTrie(nodes') /\ {} \subseteq DOMAIN nodes'
    BY <2>2, ClosedIsTrie
  <2> QED BY <1>1, <1>2, <1>4, <2>1, <2>2, <2>3, SavingStepType
<1>7. CASE SaveAndRestore(i)
  <2>1. /\ nodes' = [nodes EXCEPT ![Current(i)] = SetDirtyBit(nodes[Current(i)], th[i].status)]
        /\ Save(i, nodes, {Current(i)}) /\ Goto(i, "return", th[i].stack)
    BY <1>7 DEF SaveAndRestore
  <2>2. Closed(nodes') /\ DOMAIN nodes' = DOMAIN nodes
    BY <1>2, <1>3, <2>1, ChangedNodeFact
  <2>3. IsTrie(nodes) /\ {Current(i)} \subseteq DOMAIN nodes
    BY <1>2, ClosedIsTrie
  <2> QED BY <1>1, <1>2, <1>4, <2>1, <2>2, <2>3, SavingStepType
<1> QED BY <1>5, <1>6, <1>7

LEMMA HashType ==
  ASSUME TypeInv, NEW i \in Threads, HashFound(i) \/ HashReturn(i)
  PROVE  TypeInv'
<1>1. th[i].pc # "done" /\ UNCHANGED callVars
  BY DEF HashFound, HashReturn, InPhase
<1>2. /\ Closed(nodes)
      /\ th[i].stack \in Seq(DOMAIN nodes) /\ th[i].stack # <<>>
  BY <1>1, BusyFact
<1>3. PICK stack, t :
        /\ stack \in Seq(DOMAIN nodes)
        /\ stack # <<>> /\ Goto(i, "return", stack)
        /\ Closed(t) /\ DOMAIN t = DOMAIN nodes
        /\ nodes' = t /\ SaveUpdated(i, t)
  <2>1. CASE HashFound(i)
    <3>1. PICK S : /\ nodes' = UpdateHash(nodes, S)
                   /\ SaveUpdated(i, UpdateHash(nodes, S))
                   /\ Goto(i, "return", th[i].stack)
      BY <2>1 DEF HashFound
    <3>2. Closed(UpdateHash(nodes, S)) /\ DOMAIN UpdateHash(nodes, S) = DOMAIN nodes
      BY <1>2, UpdateHashFact
    <3> QED BY <1>2, <3>1, <3>2
  <2>2. CASE HashReturn(i)
    <3>1. PICK S, self :
            /\ nodes' = UpdateHash(UpdateHash(nodes, S), self)
            /\ SaveUpdated(i, UpdateHash(UpdateHash(nodes, S), self))
            /\ Goto(i, "return", Pop(th[i].stack)) /\ Len(th[i].stack) > 1
      BY <2>2 DEF HashReturn
    <3>2. /\ Closed(UpdateHash(nodes, S)) /\ DOMAIN UpdateHash(nodes, S) = DOMAIN nodes
      BY <1>2, UpdateHashFact
    <3>3. /\ Closed(UpdateHash(UpdateHash(nodes, S), self))
          /\ DOMAIN UpdateHash(UpdateHash(nodes, S), self) = DOMAIN nodes
      BY <3>2, UpdateHashFact
    <3>4. Pop(th[i].stack) \in Seq(DOMAIN nodes) /\ Pop(th[i].stack) # <<>>
      BY <3>1, StackFact
    <3> QED BY <3>1, <3>3, <3>4
  <2> QED BY <2>1, <2>2
<1>4. IsTrie(t) /\ Save(i, t, {n \in DOMAIN t : t[n] # nodes[n]})
  BY <1>3, ClosedIsTrie DEF SaveUpdated
<1>5. "return" \in Pc /\ {n \in DOMAIN t : t[n] # nodes[n]} \subseteq DOMAIN t
  BY DEF Pc
<1> QED BY <1>1, <1>3, <1>4, <1>5, SavingStepType

LEMMA RecursionFact ==
  ASSUME NEW work
  PROVE  /\ Recursion(work).work = work
         /\ Recursion(work).stack = <<EmptyLabel>>
         /\ Recursion(work).pc = IF work = {} THEN "done" ELSE "call"
         /\ Recursion(work).pc = "done" \/ work # {}
         /\ Recursion(work).status = FALSE
         /\ Recursion(work).pc \in Pc /\ Recursion(work).status \in BOOLEAN
         /\ Recursion(work) = [work   |-> Recursion(work).work,
                               stack  |-> Recursion(work).stack,
                               pc     |-> Recursion(work).pc,
                               status |-> Recursion(work).status]
BY DEF Recursion, Pc

LEMMA RootStackFact ==
  ASSUME NEW S, EmptyLabel \in S
  PROVE  <<EmptyLabel>> \in Seq(S) /\ <<EmptyLabel>> # <<>> /\ Len(<<EmptyLabel>>) = 1
OBVIOUS

LEMMA NextEntryType ==
  ASSUME TypeInv, NEW i \in Threads, NextEntry(i)
  PROVE  TypeInv'
<1> DEFINE r == Recursion(th[i].work \ {Position(i)})
<1>1. /\ th' = [th EXCEPT ![i] = r]
      /\ UNCHANGED <<nodes, stored, updated, callVars>>
  BY DEF NextEntry
<1>2. /\ r = [work |-> r.work, stack |-> r.stack, pc |-> r.pc, status |-> r.status]
      /\ r.work = th[i].work \ {Position(i)} /\ r.stack = <<EmptyLabel>>
      /\ r.pc = "done" \/ r.work # {}
      /\ r.pc \in Pc /\ r.status \in BOOLEAN
  BY RecursionFact
<1> HIDE DEF r
<1>3. Closed(nodes') /\ EmptyLabel \in DOMAIN nodes' /\ nodes' = nodes
  BY <1>1 DEF TypeInv, Closed
<1>4. Threads' = Threads
  BY <1>1 DEF Threads
<1>5. SavedOK'
  BY <1>1, <1>4, SavedFact DEF SavedOK
<1>6. r.stack \in Seq(DOMAIN nodes') /\ r.stack # <<>>
  BY <1>2, <1>3, RootStackFact
<1>7. r.work \subseteq th[i].work
  BY <1>2
<1> QED BY <1>1, <1>2, <1>3, <1>5, <1>6, <1>7, RecursionStepType

(* Every thread at the root, with entries of its own. *)
LEMMA FreshThreadsType ==
  ASSUME NEW D, NEW W, th' = [i \in D |-> Recursion(W[i])],
         \A i \in D : W[i] \subseteq DOMAIN batch',
         Closed(nodes')
  PROVE  /\ Threads' = D
         /\ \A i \in D : /\ th'[i].stack \in Seq(DOMAIN nodes')
                         /\ th'[i].pc = "done" \/ th'[i].work # {}
                         /\ IsRecursion(th[i])'
<1>1. Threads' = D
  BY DEF Threads
<1>2. EmptyLabel \in DOMAIN nodes' /\ EmptyLabel \in Label
  BY FullIsLabel DEF Closed
<1>3. ASSUME NEW i \in D
      PROVE  /\ th'[i].stack \in Seq(DOMAIN nodes')
             /\ th'[i].pc = "done" \/ th'[i].work # {}
             /\ IsRecursion(th[i])'
  <2>1. th'[i] = Recursion(W[i])
    OBVIOUS
  <2>2. /\ th'[i] = [work   |-> th'[i].work,  stack  |-> th'[i].stack,
                     pc     |-> th'[i].pc,    status |-> th'[i].status]
        /\ th'[i].work = W[i] /\ th'[i].stack = <<EmptyLabel>>
        /\ th'[i].pc = "done" \/ th'[i].work # {}
        /\ th'[i].pc \in Pc /\ th'[i].status \in BOOLEAN
    BY <2>1, RecursionFact
  <2>3. <<EmptyLabel>> \in Seq(DOMAIN nodes') /\ <<EmptyLabel>> \in Seq(Label) /\ <<EmptyLabel>> # <<>>
    BY <1>2, RootStackFact
  <2> QED BY <2>2, <2>3 DEF IsRecursion
<1> QED BY <1>1, <1>3

LEMMA JoinInsertionType ==
  ASSUME TypeInv, JoinInsertion
  PROVE  TypeInv'
<1>1. /\ th' = [i \in Threads |-> Recursion(WorkOf(batch, bits, i))]
      /\ UNCHANGED <<nodes, epoch, stored, storedEpoch, single, batch, bits, updated, top, outcome>>
      /\ phase' = "hash"
  BY DEF JoinInsertion
<1>2. Closed(nodes') /\ nodes' = nodes
  BY <1>1 DEF TypeInv
<1> DEFINE W == [i \in Threads |-> WorkOf(batch, bits, i)]
<1>3. /\ th' = [i \in Threads |-> Recursion(W[i])]
      /\ \A i \in Threads : W[i] \subseteq DOMAIN batch'
  BY <1>1 DEF WorkOf
<1> HIDE DEF W
<1>4. /\ Threads' = Threads
      /\ \A i \in Threads : /\ th'[i].stack \in Seq(DOMAIN nodes')
                            /\ th'[i].pc = "done" \/ th'[i].work # {}
                            /\ IsRecursion(th[i])'
  BY <1>2, <1>3, FreshThreadsType
<1>5. StateOK'
  BY <1>1, <1>4 DEF TypeInv, StateOK, Phase
<1> QED BY <1>2, <1>4, <1>5 DEF TypeInv

LEMMA NoNodesIsTrie == IsTrie(NoNodes)
<1>1. DOMAIN NoNodes = {}
  BY DEF NoNodes
<1> QED BY <1>1 DEF IsTrie

-----------------------------------------------------------------------------
(* How many threads a batch gets                                           *)

(* How often numbers up to n can be halved. *)
IsLog2(f, n) == f = [k \in 0..n |-> IF k \div 2 = 0 THEN 0 ELSE 1 + f[k \div 2]]

LEMMA Half ==
  ASSUME NEW k \in Nat, k \div 2 # 0
  PROVE  k \div 2 \in 0..(k - 1) /\ k # 0
OBVIOUS

LEMMA LogIsNat ==
  ASSUME NEW n \in Nat, NEW f, IsLog2(f, n)
  PROVE  \A k \in 0..n : f[k] \in Nat
<1> DEFINE Bad == {k \in 0..n : f[k] \notin Nat}
<1>1. \A k \in 0..n : f[k] = IF k \div 2 = 0 THEN 0 ELSE 1 + f[k \div 2]
  BY DEF IsLog2
<1>2. Bad = {}
  <2> SUFFICES ASSUME Bad # {} PROVE FALSE
    OBVIOUS
  <2>1. PICK k \in 0..n : f[k] \notin Nat /\ \A m \in 0..n : m < k => f[m] \in Nat
    <3>1. Bad \subseteq Nat
      OBVIOUS
    <3>2. PICK k \in Bad : \A m \in Bad : k <= m
      BY <3>1, LeastNatural
    <3> QED
      BY <3>1, <3>2
  <2>2. f[k] = IF k \div 2 = 0 THEN 0 ELSE 1 + f[k \div 2]
    BY <1>1
  <2>3. k \div 2 # 0
    BY <2>1, <2>2
  <2>4. k \div 2 \in 0..n /\ k \div 2 < k
    BY <2>3, Half
  <2> HIDE DEF Bad
  <2>5. f[k \div 2] \in Nat
    BY <2>1, <2>4
  <2> QED
    BY <2>1, <2>2, <2>3, <2>5
<1> QED
  BY <1>2

LEMMA LogExists ==
  ASSUME NEW n \in Nat
  PROVE  \E f : IsLog2(f, n)
<1> DEFINE Bad == {m \in Nat : ~\E f : IsLog2(f, m)}
<1> SUFFICES ASSUME Bad # {} PROVE FALSE
  OBVIOUS
<1>1. PICK m \in Bad : \A j \in Bad : m <= j
  <2>1. Bad \subseteq Nat
    OBVIOUS
  <2> HIDE DEF Bad
  <2> QED
    BY <2>1, LeastNatural
<1>2. m # 0
  <2>1. IsLog2([k \in 0..0 |-> 0], 0)
    BY DEF IsLog2
  <2> QED
    BY <1>1, <2>1
<1>3. m - 1 \in Nat /\ m - 1 \notin Bad
  BY <1>1, <1>2
<1>4. PICK f : IsLog2(f, m - 1)
  BY <1>3
<1> DEFINE g == [k \in 0..m |->
                   IF k < m THEN f[k] ELSE IF m \div 2 = 0 THEN 0 ELSE 1 + f[m \div 2]]
<1>5. \A k \in 0..(m - 1) : f[k] = IF k \div 2 = 0 THEN 0 ELSE 1 + f[k \div 2]
  BY <1>4 DEF IsLog2
<1>6. \A k \in 0..m : g[k] = IF k \div 2 = 0 THEN 0 ELSE 1 + g[k \div 2]
  <2> SUFFICES ASSUME NEW k \in 0..m
               PROVE  g[k] = IF k \div 2 = 0 THEN 0 ELSE 1 + g[k \div 2]
    OBVIOUS
  <2>1. k \div 2 # 0 => k \div 2 \in 0..(m - 1) /\ g[k \div 2] = f[k \div 2]
    BY Half
  <2>2. CASE k < m
    BY <1>5, <2>1, <2>2
  <2>3. CASE k = m
    BY <2>1, <2>3
  <2> QED
    BY <2>2, <2>3
<1>7. IsLog2(g, m)
  BY <1>6 DEF IsLog2
<1> QED
  BY <1>1, <1>7

LEMMA GetLog2Fact ==
  ASSUME NEW n \in Nat
  PROVE  /\ GetLog2(n) \in Nat /\ (n = 1 => GetLog2(n) = 0)
         /\ GetLog2(n) >= 1 => n >= 2
         /\ GetLog2(n) >= 2 => n >= 4
         /\ GetLog2(n) >= 4 => n >= 16
<1>1. PICK f : IsLog2(f, n) /\ GetLog2(n) = f[n]
  <2> DEFINE f == CHOOSE g : g = [k \in 0..n |-> IF k \div 2 = 0 THEN 0 ELSE 1 + g[k \div 2]]
  <2>1. \E g : g = [k \in 0..n |-> IF k \div 2 = 0 THEN 0 ELSE 1 + g[k \div 2]]
    BY LogExists DEF IsLog2
  <2>2. IsLog2(f, n)
    BY <2>1, Zenon DEF IsLog2
  <2>3. GetLog2(n) = f[n]
    BY Zenon DEF GetLog2
  <2> QED
    BY <2>2, <2>3
<1>2. f[n] \in Nat
  BY <1>1, LogIsNat
<1>3. n = 1 => f[n] = 0
  <2>1. f[n] = IF n \div 2 = 0 THEN 0 ELSE 1 + f[n \div 2]
    BY <1>1 DEF IsLog2
  <2>2. 1 \div 2 = 0
    OBVIOUS
  <2> QED
    BY <2>1, <2>2
<1>4. ASSUME NEW k \in 0..n, f[k] # 0
      PROVE  k \div 2 \in 0..n /\ k \div 2 # 0 /\ 2 * (k \div 2) <= k /\ f[k] = 1 + f[k \div 2]
  <2>1. f[k] = IF k \div 2 = 0 THEN 0 ELSE 1 + f[k \div 2]
    BY <1>1 DEF IsLog2
  <2> QED
    BY <1>4, <2>1
<1>5. \A k \in 0..n : f[k] \in Nat
  BY <1>1, LogIsNat
<1>6. \A k \in 0..n : f[k] >= 1 => k >= 2
  BY <1>4, <1>5
<1>7. \A k \in 0..n : f[k] >= 2 => k >= 4
  <2> SUFFICES ASSUME NEW k \in 0..n, f[k] >= 2 PROVE k >= 4
    OBVIOUS
  <2>1. f[k] # 0
    BY <1>5
  <2>2. k \div 2 \in 0..n /\ 2 * (k \div 2) <= k /\ f[k] = 1 + f[k \div 2] /\ f[k \div 2] \in Nat
    BY <1>4, <1>5, <2>1
  <2>3. k \div 2 >= 2
    BY <1>6, <2>2
  <2> QED
    BY <2>2, <2>3
<1>8. \A k \in 0..n : f[k] >= 3 => k >= 8
  <2> SUFFICES ASSUME NEW k \in 0..n, f[k] >= 3 PROVE k >= 8
    OBVIOUS
  <2>1. f[k] # 0
    BY <1>5
  <2>2. k \div 2 \in 0..n /\ 2 * (k \div 2) <= k /\ f[k] = 1 + f[k \div 2] /\ f[k \div 2] \in Nat
    BY <1>4, <1>5, <2>1
  <2>3. k \div 2 >= 4
    BY <1>7, <2>2
  <2> QED
    BY <2>2, <2>3
<1>9. \A k \in 0..n : f[k] >= 4 => k >= 16
  <2> SUFFICES ASSUME NEW k \in 0..n, f[k] >= 4 PROVE k >= 16
    OBVIOUS
  <2>1. f[k] # 0
    BY <1>5
  <2>2. k \div 2 \in 0..n /\ 2 * (k \div 2) <= k /\ f[k] = 1 + f[k \div 2] /\ f[k \div 2] \in Nat
    BY <1>4, <1>5, <2>1
  <2>3. k \div 2 >= 8
    BY <1>8, <2>2
  <2> QED
    BY <2>2, <2>3
<1> QED
  BY <1>1, <1>2, <1>3, <1>6, <1>7, <1>9

(* The passes of the loop of get_insertion_thread_limit. *)
IsPasses(f, t, maxLimit, n) ==
  f = [k \in 0..n |->
         IF k = 0
         THEN [level |-> <<t[EmptyLabel].left, t[EmptyLabel].right>>, idx |-> 0,
               limit |-> 2, done |-> FALSE]
         ELSE LET s == f[k - 1]
              IN  IF s.done THEN s ELSE CheckPair(t, maxLimit, s)]

(* The limit, once it is more than 2, is allowed, and both children of the *)
(* root are complete.                                                      *)
Counted(t, maxLimit, limit) ==
  /\ limit <= maxLimit
  /\ IsComplete(t, t[EmptyLabel].left) /\ IsComplete(t, t[EmptyLabel].right)

IsPass(t, maxLimit, s) ==
  /\ {"level", "idx", "limit", "done"} \subseteq DOMAIN s
  /\ s.limit \in Nat
  /\ \/ s.limit = 2 /\ s.idx = 0 /\ s.level = <<t[EmptyLabel].left, t[EmptyLabel].right>>
     \/ s.limit >= 4 /\ Counted(t, maxLimit, s.limit)

LEMMA CheckPairIsPass ==
  ASSUME NEW t, NEW maxLimit \in Nat, NEW s, IsPass(t, maxLimit, s)
  PROVE  IsPass(t, maxLimit, CheckPair(t, maxLimit, s))
<1> DEFINE i == IF s.idx < Len(s.level) THEN s.idx ELSE 0
           a == s.level[i + 1]
           b == s.level[i + 2]
           Stops == ~IsComplete(t, a) \/ ~IsComplete(t, b) \/ 2 * s.limit > maxLimit
<1>1. CASE Stops
  <2> DEFINE r == [s EXCEPT !.done = TRUE]
  <2>1. CheckPair(t, maxLimit, s) = r
    BY <1>1, Zenon DEF CheckPair
  <2>2. DOMAIN r = DOMAIN s /\ \A x \in DOMAIN s : x # "done" => r[x] = s[x]
    OBVIOUS
  <2>3. "limit" # "done" /\ "idx" # "done" /\ "level" # "done"
    OBVIOUS
  <2> HIDE DEF r, Stops, a, b, i
  <2>4. r.limit = s.limit /\ r.idx = s.idx /\ r.level = s.level
    BY <2>2, <2>3 DEF IsPass
  <2>5. IsPass(t, maxLimit, r)
    BY <2>2, <2>4 DEF IsPass
  <2> QED
    BY <2>1, <2>5
<1>2. CASE ~Stops
  <2>1. PICK lv, ix, dn : CheckPair(t, maxLimit, s)
           = [level |-> lv, idx |-> ix, limit |-> 2 * s.limit, done |-> dn]
    BY <1>2, Zenon DEF CheckPair
  <2>2. 2 * s.limit <= maxLimit /\ s.limit \in Nat /\ s.limit >= 2
    BY <1>2 DEF IsPass
  <2>3. IsComplete(t, t[EmptyLabel].left) /\ IsComplete(t, t[EmptyLabel].right)
    <3>1. CASE s.limit >= 4 /\ Counted(t, maxLimit, s.limit)
      BY <3>1 DEF Counted
    <3>2. CASE s.idx = 0 /\ s.level = <<t[EmptyLabel].left, t[EmptyLabel].right>>
      <4>1. i = 0
        BY <3>2
      <4>2. a = t[EmptyLabel].left /\ b = t[EmptyLabel].right
        BY <3>2, <4>1
      <4> QED
        BY <1>2, <4>2
    <3> QED
      BY <3>1, <3>2 DEF IsPass
  <2>4. 2 * s.limit \in Nat /\ 2 * s.limit >= 4
    BY <2>2
  <2>5. Counted(t, maxLimit, 2 * s.limit)
    BY <2>2, <2>3 DEF Counted
  <2>6. IsPass(t, maxLimit, [level |-> lv, idx |-> ix, limit |-> 2 * s.limit, done |-> dn])
    BY <2>4, <2>5 DEF IsPass
  <2> QED
    BY <2>1, <2>6
<1> QED
  BY <1>1, <1>2

LEMMA PassIsPass ==
  ASSUME NEW n \in Nat, NEW t, NEW maxLimit \in Nat, NEW f, IsPasses(f, t, maxLimit, n)
  PROVE  \A k \in 0..n : IsPass(t, maxLimit, f[k])
<1>1. \A k \in 0..n : f[k] = IF k = 0
         THEN [level |-> <<t[EmptyLabel].left, t[EmptyLabel].right>>, idx |-> 0,
               limit |-> 2, done |-> FALSE]
         ELSE IF f[k - 1].done THEN f[k - 1] ELSE CheckPair(t, maxLimit, f[k - 1])
  BY DEF IsPasses
<1> DEFINE Bad == {k \in 0..n : ~IsPass(t, maxLimit, f[k])}
<1> SUFFICES ASSUME Bad # {} PROVE FALSE
  OBVIOUS
<1>2. PICK k \in 0..n : ~IsPass(t, maxLimit, f[k]) /\ \A m \in 0..n : m < k => IsPass(t, maxLimit, f[m])
  <2>1. Bad \subseteq Nat
    OBVIOUS
  <2>2. PICK k \in Bad : \A m \in Bad : k <= m
    BY <2>1, LeastNatural
  <2> QED
    BY <2>1, <2>2
<1>3. k # 0
  <2>1. IsPass(t, maxLimit, [level |-> <<t[EmptyLabel].left, t[EmptyLabel].right>>, idx |-> 0,
                limit |-> 2, done |-> FALSE])
    BY DEF IsPass
  <2> QED
    BY <1>1, <1>2, <2>1
<1>4. IsPass(t, maxLimit, f[k - 1])
  BY <1>2, <1>3
<1> QED
  BY <1>1, <1>2, <1>3, <1>4, CheckPairIsPass

LEMMA PassesExist ==
  ASSUME NEW n \in Nat, NEW t, NEW maxLimit
  PROVE  \E f : IsPasses(f, t, maxLimit, n)
<1> DEFINE Bad == {m \in Nat : ~\E f : IsPasses(f, t, maxLimit, m)}
           start == [level |-> <<t[EmptyLabel].left, t[EmptyLabel].right>>, idx |-> 0,
                     limit |-> 2, done |-> FALSE]
           next(s) == IF s.done THEN s ELSE CheckPair(t, maxLimit, s)
<1> SUFFICES ASSUME Bad # {} PROVE FALSE
  OBVIOUS
<1>1. PICK m \in Bad : \A j \in Bad : m <= j
  <2>1. Bad \subseteq Nat
    OBVIOUS
  <2> HIDE DEF Bad
  <2> QED
    BY <2>1, LeastNatural
<1>0. \A f : \A x \in Nat : 
        IsPasses(f, t, maxLimit, x) <=> f = [k \in 0..x |-> IF k = 0 THEN start ELSE next(f[k - 1])]
  BY Zenon DEF IsPasses
<1> HIDE DEF start, next
<1>2. m # 0
  <2> DEFINE g == [k \in 0..0 |-> start]
  <2>1. g = [k \in 0..0 |-> IF k = 0 THEN start ELSE next(g[k - 1])]
    OBVIOUS
  <2> QED
    BY <1>0, <1>1, <2>1
<1>3. m - 1 \in Nat /\ m - 1 \notin Bad
  BY <1>1, <1>2
<1>4. PICK f : f = [k \in 0..(m - 1) |-> IF k = 0 THEN start ELSE next(f[k - 1])]
  BY <1>0, <1>3
<1> DEFINE g == [k \in 0..m |-> IF k < m THEN f[k] ELSE next(f[m - 1])]
<1>5. \A k \in 0..(m - 1) : f[k] = IF k = 0 THEN start ELSE next(f[k - 1])
  BY <1>4
<1>6. \A k \in 0..m : g[k] = IF k = 0 THEN start ELSE next(g[k - 1])
  <2> SUFFICES ASSUME NEW k \in 0..m
               PROVE  g[k] = IF k = 0 THEN start ELSE next(g[k - 1])
    OBVIOUS
  <2>1. k # 0 => g[k - 1] = f[k - 1]
    OBVIOUS
  <2>2. CASE k < m
    BY <1>5, <2>1, <2>2
  <2>3. CASE k = m
    BY <1>2, <2>1, <2>3
  <2> QED
    BY <2>2, <2>3
<1>7. g = [k \in 0..m |-> IF k = 0 THEN start ELSE next(g[k - 1])]
  BY <1>6
<1> HIDE DEF g
<1> QED
  BY <1>0, <1>1, <1>7

LEMMA ThreadLimitFact ==
  ASSUME NEW t, NEW maxLimit \in Nat
  PROVE  /\ GetInsertionThreadLimit(t, maxLimit) \in Nat
         /\ GetInsertionThreadLimit(t, maxLimit) >= 2 => IsComplete(t, EmptyLabel)
         /\ GetInsertionThreadLimit(t, maxLimit) >= 4
              => Counted(t, maxLimit, GetInsertionThreadLimit(t, maxLimit))
<1> DEFINE f == CHOOSE g : g = [k \in 0..maxLimit |->
         IF k = 0
         THEN [level |-> <<t[EmptyLabel].left, t[EmptyLabel].right>>, idx |-> 0,
               limit |-> 2, done |-> FALSE]
         ELSE LET s == g[k - 1]
              IN  IF s.done THEN s ELSE CheckPair(t, maxLimit, s)]
<1>1. IsPasses(f, t, maxLimit, maxLimit)
  <2>1. \E g : IsPasses(g, t, maxLimit, maxLimit)
    BY PassesExist
  <2> QED
    BY <2>1, Zenon DEF IsPasses
<1>2. GetInsertionThreadLimit(t, maxLimit)
        = IF IsComplete(t, EmptyLabel) THEN f[maxLimit].limit ELSE 1
  BY Zenon DEF GetInsertionThreadLimit
<1> HIDE DEF f
<1>3. maxLimit \in 0..maxLimit
  OBVIOUS
<1>4. IsPass(t, maxLimit, f[maxLimit])
  BY <1>1, <1>3, PassIsPass
<1>5. /\ f[maxLimit].limit \in Nat
      /\ f[maxLimit].limit >= 4 => Counted(t, maxLimit, f[maxLimit].limit)
  BY <1>4 DEF IsPass
<1> QED
  BY <1>2, <1>5

(* log2 of the number of threads is a number, and 0 for CTNodeStored.      *)
LEMMA BitCountFact ==
  GetLog2(ThreadLimit) \in Nat /\ (IsStored => GetLog2(ThreadLimit) = 0)
<1>1. ThreadLimit \in Nat /\ (IsStored => ThreadLimit = 1)
  BY ThreadLimitFact, MaxThreadsAssumption DEF ThreadLimit
<1> QED
  BY <1>1, GetLog2Fact

-----------------------------------------------------------------------------
(* The calls of insert                                                     *)

LEMMA BeginType ==
  ASSUME TypeInv, NEW b \in Seq(Entry), NEW isSingle \in BOOLEAN, NEW bitCount \in Nat,
         Begin(b, isSingle, bitCount)
  PROVE  TypeInv'
<1> DEFINE D == 0..(2^bitCount - 1)
<1>1. /\ th' = [i \in D |-> Recursion(WorkOf(b, bitCount, i))]
      /\ updated' = [i \in D |-> NoNodes]
      /\ phase' = "insert" /\ single' = isSingle /\ batch' = b /\ bits' = bitCount
      /\ epoch' = epoch + 1
      /\ UNCHANGED <<nodes, stored, storedEpoch, top, outcome>>
  BY DEF Begin
<1>2. 2^bitCount - 1 \in Int
  OBVIOUS
<1>3. Closed(nodes') /\ nodes' = nodes
  BY <1>1 DEF TypeInv
<1> DEFINE W == [i \in D |-> WorkOf(b, bitCount, i)]
<1>4. /\ th' = [i \in D |-> Recursion(W[i])]
      /\ \A i \in D : W[i] \subseteq DOMAIN batch'
  BY <1>1 DEF WorkOf
<1>5. DOMAIN updated' = D /\ \A i \in D : updated'[i] = NoNodes
  BY <1>1
<1>6. \E k \in Int : D = 0..k
  BY <1>2
<1> HIDE DEF D, W
<1>7. /\ Threads' = D
      /\ \A i \in D : /\ th'[i].stack \in Seq(DOMAIN nodes')
                      /\ th'[i].pc = "done" \/ th'[i].work # {}
                      /\ IsRecursion(th[i])'
  BY <1>3, <1>4, FreshThreadsType
<1>8. SavedOK'
  BY <1>1, <1>5, <1>7, SavedFact, NoNodesIsTrie DEF SavedOK
<1>9. StateOK'
  BY <1>1, <1>7, <1>8 DEF TypeInv, StateOK, SavedOK, Phase
<1> QED BY <1>3, <1>6, <1>7, <1>9 DEF TypeInv

LEMMA ReturnType ==
  ASSUME TypeInv, NEW result \in {"ok", "threw"}, Return(result), nodes' = nodes,
         IsTrie(stored'), epoch' = epoch, storedEpoch' \in Nat
  PROVE  TypeInv'
<1>1. /\ phase' = "idle" /\ outcome' = result /\ single' = FALSE /\ batch' = <<>>
      /\ bits' = 0 /\ top' = 0
      /\ th' = [i \in {0} |-> Recursion({})] /\ updated' = [i \in {0} |-> NoNodes]
  BY DEF Return, NoThreads
<1>2. Closed(nodes')
  BY DEF TypeInv
<1>3. /\ Threads' = {0}
      /\ \A i \in {0} : /\ th'[i].stack \in Seq(DOMAIN nodes')
                        /\ th'[i].pc = "done" \/ th'[i].work # {}
                        /\ IsRecursion(th[i])'
  <2> DEFINE W == [i \in {0} |-> {}]
  <2>1. th' = [i \in {0} |-> Recursion(W[i])] /\ \A i \in {0} : W[i] \subseteq DOMAIN batch'
    BY <1>1
  <2> HIDE DEF W
  <2> QED BY <1>2, <2>1, FreshThreadsType
<1>4. DOMAIN updated' = {0} /\ \A i \in {0} : IsTrie(updated'[i])
  BY <1>1, NoNodesIsTrie
<1>5. batch' \in Seq(Entry)
  BY <1>1
<1>6. StateOK'
  BY <1>1, <1>3, <1>4, <1>5 DEF TypeInv, StateOK, Phase
<1>7. {0} = 0..0 /\ 0 \in Int
  OBVIOUS
<1> QED BY <1>2, <1>3, <1>6, <1>7 DEF TypeInv

(* A step of the caller that leaves the recursions alone. *)
LEMMA CallerStepType ==
  ASSUME TypeInv, UNCHANGED <<epoch, storedEpoch, single, batch, bits, th, outcome>>,
         phase' \in Phase, top' \in Nat,
         Closed(nodes'), DOMAIN nodes' = DOMAIN nodes, SavedOK'
  PROVE  TypeInv'
<1>1. Threads' = Threads
  BY DEF Threads
<1>2. /\ \A i \in Threads : /\ th'[i].stack \in Seq(DOMAIN nodes')
                            /\ th'[i].pc = "done" \/ th'[i].work # {}
                            /\ IsRecursion(th[i])'
  BY DEF TypeInv, StateOK, IsRecursion
<1>3. IsTrie(nodes') /\ EmptyLabel \in DOMAIN nodes'
  BY ClosedIsTrie DEF Closed
<1>4. StateOK'
  BY <1>1, <1>2, <1>3 DEF TypeInv, StateOK, SavedOK
<1> QED BY <1>1, <1>2, <1>4 DEF TypeInv

LEMMA JoinHashingType ==
  ASSUME TypeInv, JoinHashing
  PROVE  TypeInv'
<1>1. /\ UNCHANGED <<nodes, epoch, stored, storedEpoch, single, batch, bits, th, updated, outcome>>
      /\ phase' \in {"save", "top"} /\ top' = bits
  BY DEF JoinHashing
<1>2. phase' \in Phase /\ top' \in Nat /\ Closed(nodes') /\ nodes' = nodes
  BY <1>1 DEF Phase, TypeInv, StateOK
<1>3. SavedOK'
  BY <1>1, SavedFact DEF SavedOK, Threads
<1> QED BY <1>1, <1>2, <1>3, CallerStepType

LEMMA ComputeTopType ==
  ASSUME TypeInv, ComputeTop
  PROVE  TypeInv'
<1>1. PICK S : /\ nodes' = UpdateHash(nodes, S)
               /\ SaveUpdated(LastThread, UpdateHash(nodes, S))
  BY DEF ComputeTop
<1>2. /\ UNCHANGED <<epoch, storedEpoch, single, batch, bits, th, outcome>>
      /\ phase' \in Phase /\ top' \in {0, top - 1} /\ (top = 0 => top' = 0)
  BY DEF ComputeTop, Phase
<1>3. top' \in Nat
  BY <1>2 DEF TypeInv, StateOK
<1> DEFINE t == UpdateHash(nodes, S)
<1>4. Closed(t) /\ DOMAIN t = DOMAIN nodes
  BY UpdateHashFact DEF TypeInv
<1> HIDE DEF t
<1>5. IsTrie(t) /\ Save(LastThread, t, {n \in DOMAIN t : t[n] # nodes[n]})
  BY <1>1, <1>4, ClosedIsTrie DEF SaveUpdated, t
<1>6. Threads' = Threads /\ {n \in DOMAIN t : t[n] # nodes[n]} \subseteq DOMAIN t
  BY <1>2 DEF Threads
<1>7. SavedOK'
  BY <1>5, <1>6, SavedFact, SaveFact
<1> QED BY <1>1, <1>2, <1>3, <1>4, <1>7, CallerStepType DEF t

(* Of a nonempty set of threads one has the highest number. *)
LEMMA LastOfThreads ==
  ASSUME TypeInv, NEW T, T \subseteq Threads, T # {}
  PROVE  \E i \in T : \A j \in T : j <= i
<1>1. PICK k \in Int : Threads = 0..k
  BY DEF TypeInv
<1> DEFINE S == {k - i : i \in T}
<1>2. S \subseteq Nat /\ S # {}
  <2>1. \A i \in T : k - i \in Nat
    BY <1>1
  <2>2. S \subseteq Nat
    BY <2>1
  <2>3. PICK i : i \in T
    OBVIOUS
  <2>4. k - i \in S
    BY <2>3
  <2> QED BY <2>2, <2>4
<1>3. PICK d \in S : \A e \in S : d <= e
  <2> HIDE DEF S
  <2> QED BY <1>2, LeastNatural
<1>4. PICK i \in T : d = k - i
  BY <1>3
<1>5. \A j \in T : k - i <= k - j
  BY <1>3, <1>4
<1> QED BY <1>1, <1>4, <1>5

LEMMA MergedFact ==
  ASSUME TypeInv
  PROVE  IsTrie(Merged)
<1> DEFINE maps(n) == {i \in DOMAIN updated : n \in DOMAIN updated[i]}
           last(n) == CHOOSE i \in maps(n) : \A j \in maps(n) : j <= i
           D == DOMAIN stored \cup UNION {DOMAIN updated[i] : i \in DOMAIN updated}
<1>1. Merged = [n \in D |-> IF maps(n) = {} THEN stored[n] ELSE updated[last(n)][n]]
  BY Zenon DEF Merged
<1>2. SavedOK
  BY SavedFact
<1>3. DOMAIN Merged = D
  BY <1>1
<1>4. D \subseteq Label
  BY <1>2 DEF SavedOK, IsTrie
<1>5. ASSUME NEW n \in D
      PROVE  \E t : IsTrie(t) /\ n \in DOMAIN t /\ Merged[n] = t[n]
  <2>1. CASE maps(n) = {}
    <3>1. n \in DOMAIN stored
      BY <2>1
    <3>2. Merged[n] = stored[n]
      BY <1>1, <2>1
    <3> QED BY <3>1, <3>2, <1>2 DEF SavedOK
  <2>2. CASE maps(n) # {}
    <3>1. maps(n) \subseteq Threads
      BY <1>2 DEF SavedOK
    <3> HIDE DEF maps
    <3>2. \E i \in maps(n) : \A j \in maps(n) : j <= i
      BY <2>2, <3>1, LastOfThreads
    <3>3. last(n) \in maps(n)
      BY <3>2
    <3> HIDE DEF last
    <3>4. last(n) \in Threads /\ n \in DOMAIN updated[last(n)]
      BY <3>1, <3>3 DEF maps
    <3>5. Merged[n] = updated[last(n)][n]
      BY <1>1, <2>2
    <3> QED BY <3>4, <3>5, <1>2 DEF SavedOK
  <2> QED BY <2>1, <2>2
<1> HIDE DEF D
<1>6. ASSUME NEW n \in D
      PROVE  IsNodeOf(Merged[n], Label)
  <2>1. PICK t : IsTrie(t) /\ n \in DOMAIN t /\ Merged[n] = t[n]
    BY <1>5
  <2> QED BY <2>1 DEF IsTrie, IsNodeOf
<1> QED BY <1>3, <1>4, <1>6 DEF IsTrie, IsNodeOf

LEMMA FinishType ==
  ASSUME TypeInv, Finish
  PROVE  TypeInv'
<1>1. IsTrie(stored')
  BY MergedFact DEF Finish, TypeInv, StateOK
<1>2. storedEpoch' \in Nat
  BY DEF Finish, TypeInv, StateOK
<1>3. PICK result \in {"ok", "threw"} : Return(result)
  BY DEF Finish
<1>4. nodes' = nodes /\ epoch' = epoch
  BY DEF Finish
<1> QED BY <1>1, <1>2, <1>3, <1>4, ReturnType

LEMMA ThrewType ==
  ASSUME TypeInv, TaskThrew \/ TopThrew
  PROVE  TypeInv'
<1>1. Return("threw") /\ UNCHANGED <<nodes, epoch, stored, storedEpoch>>
  BY DEF TaskThrew, TopThrew
<1>2. IsTrie(stored') /\ storedEpoch' \in Nat
  BY <1>1 DEF TypeInv, StateOK
<1> QED BY <1>1, <1>2, ReturnType

LEMMA InitType ==
  ASSUME Init
  PROVE  TypeInv
<1>1. /\ nodes = EmptyTrie /\ epoch = 0 /\ storedEpoch = 0 /\ phase = "idle"
      /\ single = FALSE /\ batch = <<>> /\ bits = 0 /\ top = 0 /\ outcome = "none"
      /\ th = [i \in {0} |-> Recursion({})] /\ updated = [i \in {0} |-> NoNodes]
      /\ stored \in {EmptyTrie, NoNodes}
  BY DEF Init, NoThreads
<1>2. Closed(nodes)
  BY <1>1, EmptyTrieIsClosed
<1>3. IsTrie(nodes) /\ IsTrie(stored) /\ EmptyLabel \in DOMAIN nodes
  BY <1>1, <1>2, EmptyTrieIsClosed, ClosedIsTrie, NoNodesIsTrie DEF Closed
<1>4. Threads = {0} /\ th[0] = Recursion({}) /\ {0} = 0..0 /\ 0 \in Int
  BY <1>1 DEF Threads
<1> DEFINE r == Recursion({})
<1>5. /\ r = [work |-> r.work, stack |-> r.stack, pc |-> r.pc, status |-> r.status]
      /\ r.work = {} /\ r.stack = <<EmptyLabel>> /\ r.pc = "done"
      /\ r.pc \in Pc /\ r.status \in BOOLEAN
  BY RecursionFact
<1> HIDE DEF r
<1>6. /\ <<EmptyLabel>> \in Seq(DOMAIN nodes) /\ <<EmptyLabel>> \in Seq(Label)
      /\ <<EmptyLabel>> # <<>>
  BY <1>3, FullIsLabel, RootStackFact
<1>7. IsRecursion(r)
  BY <1>5, <1>6 DEF IsRecursion
<1>8. DOMAIN updated = Threads /\ \A i \in Threads : IsTrie(updated[i])
  BY <1>1, <1>4, NoNodesIsTrie
<1>9. batch \in Seq(Entry)
  BY <1>1
<1>10. StateOK
  BY <1>1, <1>3, <1>4, <1>7, <1>8, <1>9 DEF StateOK, Phase, r
<1> QED BY <1>2, <1>4, <1>5, <1>6, <1>10 DEF TypeInv, r

LEMMA BeginInsertType ==
  ASSUME TypeInv, BeginInsert \/ BeginInsertBatch
  PROVE  TypeInv'
<1>1. CASE BeginInsert
  <2>1. PICK e \in Singles : Begin(<<e>>, TRUE, 0)
    BY <1>1 DEF BeginInsert
  <2>2. <<e>> \in Seq(Entry) /\ 0 \in Nat /\ TRUE \in BOOLEAN
    BY SinglesAssumption
  <2> QED BY <2>1, <2>2, BeginType
<1>2. CASE BeginInsertBatch
  <2>1. PICK bitCount \in {GetLog2(ThreadLimit)}, b \in Batches : Begin(b, FALSE, bitCount)
    BY <1>2 DEF BeginInsertBatch
  <2>2. bitCount \in Nat /\ b \in Seq(Entry) /\ FALSE \in BOOLEAN
    BY BitCountFact, BatchesAssumption
  <2> QED BY <2>1, <2>2, BeginType
<1> QED BY <1>1, <1>2

(* What is left to save are nodes of the trie. *)
SavesInv == saves \in Seq(DOMAIN nodes)

LEMMA TailFact ==
  ASSUME NEW S, NEW s \in Seq(S), s # <<>>
  PROVE  /\ Head(s) \in S /\ Tail(s) \in Seq(S)
         /\ Head(s) = s[1] /\ Len(s) \in Nat \ {0} /\ Len(Tail(s)) = Len(s) - 1
         /\ \A k \in 1..(Len(s) - 1) : Tail(s)[k] = s[k + 1]
<1>1. Len(s) \in Nat \ {0}
  OBVIOUS
<1>2. \A k \in 1..Len(s) : s[k] \in S
  OBVIOUS
<1> QED BY <1>1, <1>2

LEMMA SaveNextType ==
  ASSUME TypeInv, SavesInv, SaveNext
  PROVE  TypeInv' /\ SavesInv'
<1>1. /\ saves # <<>> /\ saves' = Tail(saves)
      /\ stored' = Copied(nodes, {Head(saves)}, stored)
      /\ UNCHANGED <<nodes, th, updated, callVars>>
  BY DEF SaveNext
<1>2. {Head(saves)} \subseteq DOMAIN nodes /\ Tail(saves) \in Seq(DOMAIN nodes)
  BY <1>1, TailFact DEF SavesInv
<1>3. IsTrie(stored')
  BY <1>1, <1>2, CopiedFact DEF TypeInv, StateOK
<1> QED BY <1>1, <1>2, <1>3 DEF TypeInv, StateOK, SavesInv, Threads, IsRecursion, callVars

LEMMA RaceType ==
  ASSUME TypeInv, NEW i \in Threads, Race(i)
  PROVE  TypeInv'
BY DEF Race, TypeInv, StateOK, Threads, IsRecursion, Phase

LEMMA NextType ==
  ASSUME TypeInv, SavesInv, Next
  PROVE  TypeInv'
<1>1. CASE BeginInsert \/ BeginInsertBatch
  BY <1>1, BeginInsertType
<1>2. CASE CallerStep
  BY <1>2, JoinInsertionType, ThrewType, JoinHashingType, ComputeTopType, FinishType
     DEF CallerStep
<1>3. ASSUME NEW i \in Threads, ThreadStep(i)
      PROVE  TypeInv'
  BY <1>3, WalkType, InsertNodeType, MarkType, NextEntryType, HashType DEF ThreadStep
<1>4. CASE SaveNext
  BY <1>4, SaveNextType
<1> QED BY <1>1, <1>2, <1>3, <1>4, RaceType DEF Next

LEMMA AttachSaves ==
  ASSUME TypeInv, SavesInv, NEW i \in Threads,
         AttachAtLeaf(i) \/ AttachInSlot(i) \/ AttachOnEdge(i)
  PROVE  SavesInv'
<1>1. PICK t, n, order :
        Attach(i, t, n, order) /\ Grows(nodes, t, Target(i)) /\ order \in Seq(DOMAIN t)
  BY AttachWays
<1>2. nodes' = t /\ saves' \in {saves, order} /\ DOMAIN nodes \subseteq DOMAIN t
  BY <1>1 DEF Attach, SaveInOrder, Save, Grows
<1> QED BY <1>1, <1>2, SeqGrows DEF SavesInv

(* Only the attaching of nodes adds to what is left to save. *)
LEMMA SavesStay ==
  ASSUME \/ BeginInsert \/ BeginInsertBatch \/ CallerStep
         \/ \E i \in Threads :
              \/ ThrowSameLabel(i) \/ FollowRoute(i) \/ SetDirty(i) \/ ReadStatus(i)
              \/ ClearDirty(i) \/ SaveAndRestore(i) \/ NextEntry(i)
              \/ HashFollow(i) \/ HashFound(i) \/ HashReturn(i) \/ Race(i)
  PROVE  saves' = saves /\ DOMAIN nodes' = DOMAIN nodes
<1>1. CASE BeginInsert \/ BeginInsertBatch
  BY <1>1 DEF BeginInsert, BeginInsertBatch, Begin
<1>2. CASE CallerStep
  BY <1>2 DEF CallerStep, JoinInsertion, TaskThrew, JoinHashing, TopThrew, ComputeTop, Finish,
              SaveUpdated, Save, UpdateHash
<1>3. ASSUME NEW i \in Threads,
             \/ ThrowSameLabel(i) \/ FollowRoute(i) \/ ReadStatus(i) \/ ClearDirty(i)
             \/ NextEntry(i) \/ HashFollow(i) \/ Race(i)
      PROVE  saves' = saves /\ DOMAIN nodes' = DOMAIN nodes
  BY <1>3 DEF ThrowSameLabel, FollowRoute, ReadStatus, ClearDirty, NextEntry, HashFollow, Race
<1>4. ASSUME NEW i \in Threads, SetDirty(i) \/ SaveAndRestore(i)
      PROVE  saves' = saves /\ DOMAIN nodes' = DOMAIN nodes
  BY <1>4 DEF SetDirty, SaveAndRestore, Save
<1>5. ASSUME NEW i \in Threads, HashFound(i) \/ HashReturn(i)
      PROVE  saves' = saves /\ DOMAIN nodes' = DOMAIN nodes
  BY <1>5 DEF HashFound, HashReturn, SaveUpdated, Save, UpdateHash
<1> QED BY <1>1, <1>2, <1>3, <1>4, <1>5

LEMMA NextSaves ==
  ASSUME TypeInv, SavesInv, Next
  PROVE  SavesInv'
<1>1. CASE SaveNext
  BY <1>1, SaveNextType
<1>2. CASE BeginInsert \/ BeginInsertBatch \/ CallerStep
  BY <1>2, SavesStay DEF SavesInv
<1>3. ASSUME NEW i \in Threads, ThreadStep(i) \/ Race(i)
      PROVE  SavesInv'
  BY <1>3, AttachSaves, SavesStay DEF ThreadStep, SavesInv
<1> QED BY <1>1, <1>2, <1>3 DEF Next

LEMMA StutterType ==
  ASSUME TypeInv, UNCHANGED vars
  PROVE  TypeInv'
BY DEF vars, TypeInv, StateOK, Threads, IsRecursion

LEMMA TypeInvariance == Spec => [](TypeInv /\ SavesInv)
<1>1. Init => TypeInv /\ SavesInv
  BY InitType DEF Init, SavesInv
<1>2. TypeInv /\ SavesInv /\ [Next]_vars => (TypeInv /\ SavesInv)'
  BY NextType, NextSaves, StutterType DEF vars, SavesInv
<1> QED BY <1>1, <1>2, PTL DEF Spec

(* Every variable keeps its type, whatever callers insert: every child of  *)
(* a node in memory or storage is a label, every recursion has a stack of  *)
(* labels and positions of the batch, every thread has its updated_nodes.  *)
THEOREM TypeCorrect == Spec => []TypeOK
<1>1. TypeInv /\ SavesInv => TypeOK
  <2> SUFFICES ASSUME TypeInv, SavesInv PROVE TypeOK
    OBVIOUS
  <2>1. saves \in Seq(Label)
    BY SeqGrows DEF SavesInv, TypeInv, Closed
  <2> QED BY <2>1 DEF TypeInv, TypeOK
<1> QED BY <1>1, TypeInvariance, PTL

-----------------------------------------------------------------------------
(* Callers that insert new labels only: leaves stay                        *)

(* Where a recursion is once its entry is in the trie. *)
AfterAttach == {"return", "status", "clear", "restore"}

(* The recursion of a thread that inserts: only its last node can be a     *)
(* key, no node that it marks is one, and of its entries at most the one   *)
(* it works on is in the trie.                                             *)
WalkInv(i) ==
  /\ \A k \in 1..(Len(th[i].stack) - 1) : th[i].stack[k] \notin FullLabel
  /\ th[i].pc \in {"status", "clear", "restore"} => Current(i) \notin FullLabel
  /\ \A k \in th[i].work :
       /\ GetInsertionIndex(bits, batch[k].label) = i
       /\ batch[k].label \in DOMAIN nodes => k = Position(i) /\ th[i].pc \in AfterAttach

LabelsDiffer == \A k, m \in DOMAIN batch : k # m => batch[k].label # batch[m].label

FreshInv ==
  /\ KeysAreLeaves(nodes)
  /\ phase = "insert" => LabelsDiffer /\ \A i \in Threads : WalkInv(i)

(* What the steps of an inserting thread have in common. *)
LEMMA WalkStepFact ==
  ASSUME TypeInv, FreshInv, phase = "insert",
         NEW i \in Threads, th[i].pc # "done",
         NEW pc, NEW stack, NEW status, Step(i, pc, stack, status), UNCHANGED callVars,
         KeepsKeys(nodes, nodes'),
         FullLabel \cap DOMAIN nodes' \subseteq DOMAIN nodes \cup {Target(i)},
         \A k \in 1..(Len(stack) - 1) : stack[k] \notin FullLabel,
         pc \in {"status", "clear", "restore"} => stack[Len(stack)] \notin FullLabel,
         Target(i) \in DOMAIN nodes' => pc \in AfterAttach
  PROVE  FreshInv'
<1>1. /\ Threads' = Threads /\ phase' = phase /\ batch' = batch /\ bits' = bits
  BY StepThreads DEF callVars
<1>2. /\ th'[i].work = th[i].work /\ th'[i].stack = stack /\ th'[i].pc = pc
      /\ \A j \in Threads : j # i => th'[j] = th[j]
  BY DEF Step, Threads
<1>3. LabelsDiffer /\ \A j \in Threads : WalkInv(j)
  BY DEF FreshInv
<1>4. LabelsDiffer'
  BY <1>1, <1>3 DEF LabelsDiffer
<1>5. Position(i) \in th[i].work /\ Position(i) \in DOMAIN batch
  BY BusyFact, PositionFact
<1>6. ASSUME NEW j \in Threads, NEW k \in th[j].work
      PROVE  k \in DOMAIN batch /\ batch[k].label \in FullLabel
  <2>1. th[j].work \subseteq DOMAIN batch /\ batch \in Seq(Entry)
    BY DEF TypeInv, StateOK, IsRecursion
  <2>2. batch[k] \in Entry
    BY <1>6, <2>1
  <2> QED BY <1>6, <2>1, <2>2 DEF Entry
<1>7. ASSUME NEW j \in Threads, j # i
      PROVE  WalkInv(j)'
  <2>1. th'[j] = th[j]
    BY <1>2, <1>7
  <2>2. Current(j)' = Current(j) /\ Position(j)' = Position(j)
    BY <2>1 DEF Current, Position
  <2>3. ASSUME NEW k \in th[j].work, batch[k].label \in DOMAIN nodes'
        PROVE  batch[k].label \in DOMAIN nodes
    <3> SUFFICES ASSUME batch[k].label = Target(i) PROVE FALSE
      BY <1>6, <2>3
    <3>1. k = Position(i)
      BY <1>3, <1>5, <1>6 DEF LabelsDiffer, Target
    <3>2. /\ GetInsertionIndex(bits, batch[k].label) = j
          /\ GetInsertionIndex(bits, batch[Position(i)].label) = i
      BY <1>3, <1>5 DEF WalkInv
    <3> QED BY <1>7, <3>1, <3>2
  <2>4. WalkInv(j)
    BY <1>3
  <2> QED BY <1>1, <2>1, <2>2, <2>3, <2>4 DEF WalkInv
<1>8. WalkInv(i)'
  <2>1. Current(i)' = stack[Len(stack)]
    BY <1>2 DEF Current
  <2>2. Position(i)' = Position(i)
    BY <1>2 DEF Position
  <2>3. ASSUME NEW k \in th[i].work
        PROVE  /\ GetInsertionIndex(bits, batch[k].label) = i
               /\ batch[k].label \in DOMAIN nodes' => k = Position(i) /\ pc \in AfterAttach
    <3>1. /\ GetInsertionIndex(bits, batch[k].label) = i
          /\ batch[k].label \in DOMAIN nodes => k = Position(i)
      BY <1>3 DEF WalkInv
    <3>2. k \in DOMAIN batch /\ batch[k].label \in FullLabel
      BY <1>6
    <3>3. batch[k].label = Target(i) => k = Position(i)
      BY <1>3, <1>5, <3>2 DEF LabelsDiffer, Target
    <3>4. k = Position(i) => batch[k].label = Target(i)
      BY DEF Target
    <3> QED BY <3>1, <3>2, <3>3, <3>4
  <2> QED BY <1>1, <1>2, <2>1, <2>2, <2>3 DEF WalkInv
<1>9. \A j \in Threads' : WalkInv(j)'
  BY <1>1, <1>7, <1>8
<1> QED BY <1>4, <1>9 DEF FreshInv, KeepsKeys

(* An entry a thread is about to insert is not in the trie. *)
LEMMA TargetIsNew ==
  ASSUME TypeInv, FreshInv, phase = "insert", NEW i \in Threads, th[i].pc = "call"
  PROVE  Target(i) \notin DOMAIN nodes
<1>1. Position(i) \in th[i].work
  BY BusyFact, PositionFact
<1>2. WalkInv(i)
  BY DEF FreshInv
<1> QED BY <1>1, <1>2 DEF WalkInv, AfterAttach, Target

LEMMA SameKeys ==
  ASSUME FreshInv, nodes' = nodes
  PROVE  KeepsKeys(nodes, nodes')
BY DEF FreshInv, KeepsKeys, KeysAreLeaves

(* A node that is not split as a leaf is no key. *)
LEMMA InnerIsNotFull ==
  ASSUME NEW t, KeysAreLeaves(t), NEW n \in DOMAIN t, ~SplitsLeaf(t, n)
  PROVE  n \notin FullLabel
BY EmptyIsNotFull DEF KeysAreLeaves, SplitsLeaf

LEMMA AttachFresh ==
  ASSUME TypeInv, FreshInv, phase = "insert", NEW i \in Threads, th[i].pc = "call",
         NEW t, Grows(nodes, t, Target(i)), KeepsKeys(nodes, t), NEW n \in DOMAIN t,
         NEW order, Attach(i, t, n, order)
  PROVE  FreshInv' /\ KeepsKeys(nodes, nodes')
<1> DEFINE s == th[i].stack
           r == Append(Pop(s), n)
<1>1. /\ nodes' = t /\ Step(i, "return", r, th[i].status) /\ UNCHANGED callVars
  BY DEF Attach, Goto
<1>2. /\ Len(s) \in Nat \ {0} /\ Pop(s) \in Seq(DOMAIN t) /\ Len(Pop(s)) = Len(s) - 1
      /\ \A k \in 1..(Len(s) - 1) : Pop(s)[k] = s[k]
  BY StackFact, SeqGrows DEF Grows
<1>3. /\ Len(r) = Len(s)
      /\ \A k \in 1..(Len(s) - 1) : r[k] = Pop(s)[k]
  <2>1. /\ Len(r) = Len(Pop(s)) + 1
        /\ \A k \in 1..Len(Pop(s)) : r[k] = Pop(s)[k]
    BY <1>2, AppendFact
  <2> HIDE DEF r, s
  <2> QED BY <1>2, <2>1
<1>4. \A k \in 1..(Len(s) - 1) : s[k] \notin FullLabel
  BY DEF FreshInv, WalkInv
<1> HIDE DEF s, r
<1>5. \A k \in 1..(Len(r) - 1) : r[k] \notin FullLabel
  BY <1>2, <1>3, <1>4
<1>6. FullLabel \cap DOMAIN nodes' \subseteq DOMAIN nodes \cup {Target(i)}
  BY <1>1 DEF Grows
<1>7. "return" \in AfterAttach /\ "return" \notin {"status", "clear", "restore"}
  BY DEF AfterAttach
<1>8. th[i].pc # "done" /\ KeepsKeys(nodes, nodes')
  BY <1>1
<1> QED BY <1>1, <1>5, <1>6, <1>7, <1>8, WalkStepFact

LEMMA InsertNodeFresh ==
  ASSUME TypeInv, FreshInv, NEW i \in Threads,
         AttachAtLeaf(i) \/ AttachInSlot(i) \/ AttachOnEdge(i)
  PROVE  FreshInv' /\ KeepsKeys(nodes, nodes')
<1>1. phase = "insert" /\ th[i].pc = "call" /\ Current(i) # Target(i)
  BY DEF AttachAtLeaf, AttachInSlot, AttachOnEdge, InPhase
<1>2. /\ Target(i) \in FullLabel /\ Current(i) \in DOMAIN nodes /\ Closed(nodes)
      /\ KeysAreLeaves(nodes) /\ Target(i) \notin DOMAIN nodes
  BY <1>1, BusyFact, TargetIsNew DEF FreshInv
<1>3. PICK h : LeafOf(i) = NewLeaf(h)
  BY DEF LeafOf
<1>4. \E t, n, order : /\ Grows(nodes, t, Target(i)) /\ KeepsKeys(nodes, t)
                         /\ n \in DOMAIN t /\ Attach(i, t, n, order)
  <2>1. CASE AttachAtLeaf(i)
    <3> DEFINE t == SplitLeaf(nodes, Current(i), Target(i), NewLeaf(h))
               n == CommonPrefix(Target(i), Current(i))
    <3>1. Attach(i, t, n, ChildrenFirst(t, n))
      BY <2>1, <1>3 DEF AttachAtLeaf
    <3>2. /\ Grows(nodes, t, Target(i))
          /\ DOMAIN t = DOMAIN nodes \cup {Target(i), n}
          /\ KeysAreLeaves(nodes) /\ Target(i) \notin DOMAIN nodes
               => KeepsKeys(nodes, t)
      BY <1>1, <1>2, SplitLeafFact
    <3> HIDE DEF t
    <3>3. KeepsKeys(nodes, t) /\ n \in DOMAIN t
      BY <1>2, <3>2
    <3> QED BY <3>1, <3>2, <3>3
  <2>2. CASE AttachInSlot(i)
    <3> DEFINE t == FillSlot(nodes, Current(i), Target(i), NewLeaf(h))
    <3>1. Attach(i, t, Current(i), <<Current(i), Target(i)>>) /\ ~SplitsLeaf(nodes, Current(i))
      BY <2>2, <1>3 DEF AttachInSlot
    <3>2. Current(i) \notin FullLabel
      BY <1>2, <3>1, InnerIsNotFull
    <3>3. /\ Grows(nodes, t, Target(i))
          /\ DOMAIN t = DOMAIN nodes \cup {Target(i)}
          /\ KeysAreLeaves(nodes) /\ Target(i) \notin DOMAIN nodes /\ Current(i) \notin FullLabel
               => KeepsKeys(nodes, t)
      BY <1>1, <1>2, FillSlotFact
    <3> HIDE DEF t
    <3>4. KeepsKeys(nodes, t) /\ Current(i) \in DOMAIN t
      BY <1>2, <3>2, <3>3
    <3> QED BY <3>1, <3>3, <3>4
  <2>3. CASE AttachOnEdge(i)
    <3> DEFINE t == SplitEdge(nodes, Current(i), Target(i), NewLeaf(h))
               n == CommonPrefix(Target(i), Current(i))
    <3>1. Attach(i, t, n, ChildrenFirst(t, n)) /\ ~SplitsLeaf(nodes, Current(i))
      BY <2>3, <1>3 DEF AttachOnEdge
    <3>2. Current(i) \notin FullLabel
      BY <1>2, <3>1, InnerIsNotFull
    <3>3. /\ Grows(nodes, t, Target(i))
          /\ DOMAIN t = DOMAIN nodes \cup {Target(i), n}
          /\ KeysAreLeaves(nodes) /\ Target(i) \notin DOMAIN nodes /\ Current(i) \notin FullLabel
               => KeepsKeys(nodes, t)
      BY <1>1, <1>2, SplitEdgeFact
    <3> HIDE DEF t
    <3>4. KeepsKeys(nodes, t) /\ n \in DOMAIN t
      BY <1>2, <3>2, <3>3
    <3> QED BY <3>1, <3>3, <3>4
  <2> QED BY <2>1, <2>2, <2>3
<1> QED BY <1>1, <1>4, AttachFresh

LEMMA WalkFresh ==
  ASSUME TypeInv, FreshInv, NEW i \in Threads,
         ThrowSameLabel(i) \/ FollowRoute(i) \/ ReadStatus(i)
  PROVE  FreshInv' /\ KeepsKeys(nodes, nodes')
<1>1. /\ phase = "insert" /\ th[i].pc \in {"call", "status"} /\ th[i].pc # "done"
      /\ nodes' = nodes /\ UNCHANGED callVars
  BY DEF ThrowSameLabel, FollowRoute, ReadStatus, InPhase
<1>2. /\ KeepsKeys(nodes, nodes')
      /\ FullLabel \cap DOMAIN nodes' \subseteq DOMAIN nodes \cup {Target(i)}
  BY <1>1, SameKeys
<1>3. /\ Current(i) \in DOMAIN nodes /\ KeysAreLeaves(nodes) /\ WalkInv(i)
  BY <1>1, BusyFact DEF FreshInv
<1>4. CASE ThrowSameLabel(i)
  <2>1. Current(i) = Target(i) /\ th[i].pc = "call"
    BY <1>4 DEF ThrowSameLabel, InPhase
  <2> QED BY <1>1, <1>3, <2>1, TargetIsNew
<1>5. CASE FollowRoute(i)
  <2> DEFINE s == th[i].stack
             child == ChildOn(nodes[Current(i)], NextBit(Current(i), Target(i)))
             r == Append(s, child)
  <2>1. /\ th[i].pc = "call" /\ ~SplitsLeaf(nodes, Current(i))
        /\ Step(i, "call", r, th[i].status)
    BY <1>5 DEF FollowRoute, InPhase, Goto
  <2>2. Current(i) \notin FullLabel
    BY <1>3, <2>1, InnerIsNotFull
  <2>3. child \in DOMAIN nodes /\ s \in Seq(DOMAIN nodes)
    BY <1>1, RouteFact, BusyFact
  <2> HIDE DEF child
  <2>4. Len(r) = Len(s) + 1 /\ \A k \in 1..Len(s) : r[k] = s[k]
    BY <2>3, AppendFact
  <2>5. Len(s) \in Nat \ {0}
    BY StackFact
  <2>6. \A k \in 1..(Len(s) - 1) : s[k] \notin FullLabel
    BY <1>3 DEF WalkInv
  <2>7. s[Len(s)] \notin FullLabel
    BY <2>2 DEF Current
  <2> HIDE DEF s, r
  <2>8. \A k \in 1..(Len(r) - 1) : r[k] \notin FullLabel
    BY <2>4, <2>5, <2>6, <2>7
  <2>9. Target(i) \notin DOMAIN nodes'
    BY <1>1, <2>1, TargetIsNew
  <2> QED BY <1>1, <1>2, <2>1, <2>8, <2>9, WalkStepFact
<1>6. CASE ReadStatus(i)
  <2>1. th[i].pc = "status" /\ Step(i, "clear", th[i].stack, nodes[Current(i)].dirty)
    BY <1>6 DEF ReadStatus, InPhase
  <2>2. /\ \A k \in 1..(Len(th[i].stack) - 1) : th[i].stack[k] \notin FullLabel
        /\ th[i].stack[Len(th[i].stack)] \notin FullLabel
    BY <1>3, <2>1 DEF WalkInv, Current
  <2>3. "clear" \in AfterAttach
    BY DEF AfterAttach
  <2> QED BY <1>1, <1>2, <2>1, <2>2, <2>3, WalkStepFact
<1> QED BY <1>4, <1>5, <1>6

LEMMA MarkFresh ==
  ASSUME TypeInv, FreshInv, NEW i \in Threads,
         SetDirty(i) \/ ClearDirty(i) \/ SaveAndRestore(i)
  PROVE  FreshInv' /\ KeepsKeys(nodes, nodes')
<1>1. phase = "insert" /\ th[i].pc \in AfterAttach /\ th[i].pc # "done" /\ UNCHANGED callVars
  BY DEF SetDirty, ClearDirty, SaveAndRestore, InPhase, AfterAttach
<1>2. /\ Closed(nodes) /\ Current(i) \in DOMAIN nodes /\ KeysAreLeaves(nodes) /\ WalkInv(i)
      /\ th[i].status \in BOOLEAN
  BY <1>1, BusyFact DEF FreshInv, TypeInv, StateOK, IsRecursion
<1>3. \A k \in 1..(Len(th[i].stack) - 1) : th[i].stack[k] \notin FullLabel
  BY <1>2 DEF WalkInv
<1>4. ASSUME NEW n \in DOMAIN nodes, n \notin FullLabel, NEW node, IsNodeOf(node, DOMAIN nodes),
             nodes' = [nodes EXCEPT ![n] = node]
      PROVE  /\ KeepsKeys(nodes, nodes')
             /\ FullLabel \cap DOMAIN nodes' \subseteq DOMAIN nodes \cup {Target(i)}
  BY <1>2, <1>4, ChangedNodeFact
<1>5. CASE SetDirty(i)
  <2> DEFINE s == th[i].stack
             node == SetChild(nodes[Caller(i)], NextBit(Caller(i), Target(i)), Current(i))
  <2>1. PICK pc \in {"status", "return"} : Step(i, pc, Pop(s), th[i].status)
    BY <1>5 DEF SetDirty, Goto
  <2>2. /\ nodes' = [nodes EXCEPT ![Caller(i)] = node]
        /\ Len(s) > 1
    BY <1>5 DEF SetDirty
  <2>3. /\ Len(s) \in Nat \ {0} /\ Len(Pop(s)) = Len(s) - 1
        /\ \A k \in 1..(Len(s) - 1) : Pop(s)[k] = s[k]
        /\ Caller(i) \in DOMAIN nodes /\ Caller(i) = s[Len(s) - 1]
    BY <2>2, StackFact DEF Caller
  <2>4. IsNodeOf(node, DOMAIN nodes)
    BY <1>2, <2>3, SetChildIsNode DEF Closed
  <2> HIDE DEF node
  <2>5. \A k \in 1..Len(Pop(s)) : Pop(s)[k] \notin FullLabel
    <3> HIDE DEF s
    <3> QED BY <1>3, <2>3 DEF s
  <2>6. /\ \A k \in 1..(Len(Pop(s)) - 1) : Pop(s)[k] \notin FullLabel
        /\ Pop(s)[Len(Pop(s))] \notin FullLabel
    <3> HIDE DEF s
    <3> QED BY <2>2, <2>3, <2>5
  <2>7. Caller(i) \notin FullLabel
    BY <1>3, <2>2, <2>3
  <2>8. pc \in AfterAttach
    BY <2>1 DEF AfterAttach
  <2>9. /\ KeepsKeys(nodes, nodes')
        /\ FullLabel \cap DOMAIN nodes' \subseteq DOMAIN nodes \cup {Target(i)}
    BY <1>4, <2>2, <2>3, <2>4, <2>7
  <2> QED BY <1>1, <2>1, <2>6, <2>8, <2>9, WalkStepFact
<1>6. CASE ClearDirty(i) \/ SaveAndRestore(i)
  <2>1. PICK d \in BOOLEAN, pc \in {"restore", "return"} :
          /\ nodes' = [nodes EXCEPT ![Current(i)] = SetDirtyBit(nodes[Current(i)], d)]
          /\ Step(i, pc, th[i].stack, th[i].status)
    BY <1>2, <1>6 DEF ClearDirty, SaveAndRestore, Goto
  <2>2. Current(i) \notin FullLabel
    BY <1>2, <1>6 DEF ClearDirty, SaveAndRestore, InPhase, WalkInv
  <2>3. IsNodeOf(SetDirtyBit(nodes[Current(i)], d), DOMAIN nodes)
    BY <1>2, RemarkedIsNode DEF SetDirtyBit, Closed
  <2>4. /\ KeepsKeys(nodes, nodes')
        /\ FullLabel \cap DOMAIN nodes' \subseteq DOMAIN nodes \cup {Target(i)}
    BY <1>2, <1>4, <2>1, <2>2, <2>3
  <2>5. th[i].stack[Len(th[i].stack)] \notin FullLabel /\ pc \in AfterAttach
    BY <2>1, <2>2 DEF Current, AfterAttach
  <2> QED BY <1>1, <1>3, <2>1, <2>4, <2>5, WalkStepFact
<1> QED BY <1>5, <1>6

LEMMA NextEntryFresh ==
  ASSUME TypeInv, FreshInv, NEW i \in Threads, NextEntry(i)
  PROVE  FreshInv' /\ KeepsKeys(nodes, nodes')
<1> DEFINE r == Recursion(th[i].work \ {Position(i)})
<1>1. /\ th' = [th EXCEPT ![i] = r]
      /\ UNCHANGED <<nodes, stored, updated, callVars>>
  BY DEF NextEntry
<1>2. /\ r.work = th[i].work \ {Position(i)} /\ r.stack = <<EmptyLabel>>
      /\ r.pc \in {"done", "call"}
  BY RecursionFact
<1> HIDE DEF r
<1>3. /\ Threads' = Threads /\ phase' = phase /\ batch' = batch /\ bits' = bits /\ nodes' = nodes
      /\ th'[i] = r /\ \A j \in Threads : j # i => th'[j] = th[j]
  BY <1>1 DEF Threads, callVars
<1>4. KeepsKeys(nodes, nodes')
  BY <1>3, SameKeys
<1>5. ASSUME phase = "insert"
      PROVE  LabelsDiffer' /\ \A j \in Threads : WalkInv(j)'
  <2>1. LabelsDiffer /\ \A j \in Threads : WalkInv(j)
    BY <1>5 DEF FreshInv
  <2>2. LabelsDiffer'
    BY <1>3, <2>1 DEF LabelsDiffer
  <2>3. ASSUME NEW j \in Threads, j # i
        PROVE  WalkInv(j)'
    <3>1. th'[j] = th[j]
      BY <1>3, <2>3
    <3>2. Current(j)' = Current(j) /\ Position(j)' = Position(j)
      BY <3>1 DEF Current, Position
    <3> QED BY <1>3, <2>1, <3>1, <3>2 DEF WalkInv
  <2>4. WalkInv(i)'
    <3>1. Len(th'[i].stack) = 1
      BY <1>2, <1>3
    <3>2. \A k \in 1..(Len(th'[i].stack) - 1) : th'[i].stack[k] \notin FullLabel
      BY <3>1
    <3>3. th'[i].pc \notin {"status", "clear", "restore"}
      BY <1>2, <1>3
    <3>4. ASSUME NEW k \in th'[i].work
          PROVE  GetInsertionIndex(bits, batch[k].label) = i /\ batch[k].label \notin DOMAIN nodes
      <4>1. k \in th[i].work /\ k # Position(i)
        BY <1>2, <1>3
      <4> QED BY <2>1, <4>1 DEF WalkInv
    <3> QED BY <1>3, <3>2, <3>3, <3>4 DEF WalkInv
  <2> QED BY <2>2, <2>3, <2>4
<1> QED BY <1>3, <1>4, <1>5 DEF FreshInv, KeepsKeys

LEMMA HashFresh ==
  ASSUME TypeInv, FreshInv, NEW i \in Threads, HashFollow(i) \/ HashFound(i) \/ HashReturn(i)
  PROVE  FreshInv' /\ KeepsKeys(nodes, nodes')
<1>1. phase = "hash" /\ phase' = "hash"
  BY DEF HashFollow, HashFound, HashReturn, InPhase, callVars
<1>2. Closed(nodes) /\ KeysAreLeaves(nodes)
  BY DEF TypeInv, FreshInv
<1>3. KeepsKeys(nodes, nodes')
  <2>1. CASE HashFollow(i)
    BY <2>1, SameKeys DEF HashFollow
  <2>2. CASE HashFound(i)
    <3>1. PICK S : nodes' = UpdateHash(nodes, S)
      BY <2>2 DEF HashFound
    <3> QED BY <1>2, <3>1, UpdateHashFact
  <2>3. CASE HashReturn(i)
    <3>1. PICK S, self : nodes' = UpdateHash(UpdateHash(nodes, S), self)
      BY <2>3 DEF HashReturn
    <3>2. /\ Closed(UpdateHash(nodes, S)) /\ KeepsKeys(nodes, UpdateHash(nodes, S))
      BY <1>2, UpdateHashFact
    <3>3. KeepsKeys(UpdateHash(nodes, S), nodes')
      BY <3>1, <3>2, UpdateHashFact DEF KeepsKeys
    <3> QED BY <3>2, <3>3 DEF KeepsKeys
  <2> QED BY <2>1, <2>2, <2>3
<1> QED BY <1>1, <1>3 DEF FreshInv, KeepsKeys

LEMMA CallerFresh ==
  ASSUME TypeInv, FreshInv, CallerStep
  PROVE  FreshInv' /\ KeepsKeys(nodes, nodes')
<1>1. phase' # "insert"
  BY DEF CallerStep, JoinInsertion, TaskThrew, JoinHashing, TopThrew, ComputeTop, Finish, Return
<1>2. KeepsKeys(nodes, nodes')
  <2>1. CASE ComputeTop
    <3>1. PICK S : nodes' = UpdateHash(nodes, S)
      BY <2>1 DEF ComputeTop
    <3> QED BY <3>1, UpdateHashFact DEF TypeInv, FreshInv
  <2>2. CASE nodes' = nodes
    BY <2>2, SameKeys
  <2>3. ComputeTop \/ nodes' = nodes
    BY DEF CallerStep, JoinInsertion, TaskThrew, JoinHashing, TopThrew, Finish
  <2> QED BY <2>1, <2>2, <2>3
<1> QED BY <1>1, <1>2 DEF FreshInv, KeepsKeys

LEMMA BeginFresh ==
  ASSUME TypeInv, FreshInv, FreshOnly, NEW b, NEW isSingle, NEW bitCount,
         Begin(b, isSingle, bitCount)
  PROVE  FreshInv' /\ KeepsKeys(nodes, nodes')
<1> DEFINE D == 0..(2^bitCount - 1)
<1>1. /\ th' = [i \in D |-> Recursion(WorkOf(b, bitCount, i))]
      /\ batch' = b /\ bits' = bitCount /\ nodes' = nodes /\ IsFresh(b)
  BY DEF Begin
<1>2. KeepsKeys(nodes, nodes')
  BY <1>1, SameKeys
<1>3. LabelsDiffer'
  BY <1>1 DEF IsFresh, LabelsDiffer
<1> HIDE DEF D
<1>4. Threads' = D
  BY <1>1 DEF Threads
<1>5. ASSUME NEW i \in D PROVE WalkInv(i)'
  <2>1. /\ th'[i].work = WorkOf(b, bitCount, i) /\ th'[i].stack = <<EmptyLabel>>
        /\ th'[i].pc \in {"done", "call"}
    BY <1>1, RecursionFact
  <2>2. Len(th'[i].stack) = 1
    BY <2>1
  <2>3. \A k \in 1..(Len(th'[i].stack) - 1) : th'[i].stack[k] \notin FullLabel
    BY <2>2
  <2>4. \A k \in th'[i].work : /\ GetInsertionIndex(bitCount, b[k].label) = i
                               /\ b[k].label \notin DOMAIN nodes
    BY <1>1, <2>1 DEF WorkOf, IsFresh
  <2>5. th'[i].pc \notin {"status", "clear", "restore"}
    BY <2>1
  <2> QED BY <1>1, <2>3, <2>4, <2>5 DEF WalkInv
<1> QED BY <1>2, <1>3, <1>4, <1>5 DEF FreshInv, KeepsKeys

LEMMA StutterFresh ==
  ASSUME FreshInv, UNCHANGED <<nodes, th, phase, batch, bits>>
  PROVE  FreshInv'
BY DEF FreshInv, WalkInv, LabelsDiffer, Threads, Current, Position

LEMMA NextFresh ==
  ASSUME TypeInv, FreshInv, FreshOnly, Next
  PROVE  FreshInv' /\ KeepsKeys(nodes, nodes')
<1>1. CASE BeginInsert \/ BeginInsertBatch
  BY <1>1, BeginFresh DEF BeginInsert, BeginInsertBatch
<1>2. CASE CallerStep
  BY <1>2, CallerFresh
<1>3. ASSUME NEW i \in Threads, ThreadStep(i)
      PROVE  FreshInv' /\ KeepsKeys(nodes, nodes')
  BY <1>3, WalkFresh, InsertNodeFresh, MarkFresh, NextEntryFresh, HashFresh DEF ThreadStep
<1>4. CASE SaveNext
  <2>1. UNCHANGED <<nodes, th, phase, batch, bits>>
    BY <1>4 DEF SaveNext, callVars
  <2> QED BY <2>1, SameKeys, StutterFresh
<1>5. ASSUME NEW i \in Threads, Race(i)
      PROVE  FreshInv' /\ KeepsKeys(nodes, nodes')
  <2>1. nodes' = nodes /\ phase' # "insert"
    BY <1>5 DEF Race
  <2> QED BY <2>1, SameKeys DEF FreshInv
<1> QED BY <1>1, <1>2, <1>3, <1>4, <1>5 DEF Next

LEMMA FreshInvariance == FreshOnly => (Spec => []FreshInv)
<1> SUFFICES ASSUME FreshOnly PROVE Spec => []FreshInv
  OBVIOUS
<1>1. Init => FreshInv
  BY EmptyTrieIsClosed DEF Init, FreshInv
<1>2. TypeInv /\ FreshInv /\ [Next]_vars => FreshInv'
  BY NextFresh, StutterFresh DEF vars
<1> QED BY <1>1, <1>2, TypeInvariance, PTL DEF Spec

LEMMA LeavesAreKept == FreshOnly => (Spec => AppendOnly)
<1> SUFFICES ASSUME FreshOnly PROVE Spec => AppendOnly
  OBVIOUS
<1>1. TypeInv /\ FreshInv /\ [Next]_vars => [LeafStays]_vars
  BY NextFresh DEF KeepsKeys, LeafStays
<1> QED BY <1>1, TypeInvariance, FreshInvariance, PTL DEF Spec, AppendOnly

-----------------------------------------------------------------------------
(* The leaves are an append-only dictionary                                *)

(***************************************************************************)
(* What the leaves say, once the call that added them has returned: the    *)
(* label, commitment and epoch that were hashed into each of them.         *)
(***************************************************************************)
HeldLabels == {l \in FullLabel \cap DOMAIN nodes : phase = "idle" \/ nodes[l].hash[4] < epoch}
Held == {<<l, nodes[l].hash[3], nodes[l].hash[4]>> : l \in HeldLabels}
Leaves == INSTANCE AppendOnlyDictionary WITH dict <- Held

LeafEpochsPast ==
  /\ epoch \in Nat
  /\ \A l \in FullLabel \cap DOMAIN nodes :
       nodes[l].hash[4] \in Nat /\ nodes[l].hash[4] <= epoch

(* What a step of a call does to the leaves. *)
StepOfCall ==
  /\ phase # "idle" /\ epoch' = epoch
  /\ \A l \in FullLabel \cap DOMAIN nodes' :
       l \in DOMAIN nodes \/ nodes'[l].hash[4] = epoch
  /\ phase' = "idle" => nodes' = nodes

LEMMA SameLabelsStep ==
  ASSUME phase # "idle", epoch' = epoch, DOMAIN nodes' = DOMAIN nodes,
         phase' # "idle" \/ nodes' = nodes
  PROVE  StepOfCall
BY DEF StepOfCall

LEMMA AttachIsStepOfCall ==
  ASSUME TypeInv, NEW i \in Threads, AttachAtLeaf(i) \/ AttachInSlot(i) \/ AttachOnEdge(i)
  PROVE  StepOfCall
<1> DEFINE leaf == LeafOf(i)
<1>1. leaf.hash[4] = epoch
  BY DEF LeafOf, NewLeaf, Node, LeafHash
<1>2. /\ phase = "insert" /\ th[i].pc = "call" /\ UNCHANGED callVars
      /\ Current(i) \in DOMAIN nodes /\ Target(i) \in FullLabel
  <2>1. phase = "insert" /\ th[i].pc = "call" /\ UNCHANGED callVars
    BY DEF AttachAtLeaf, AttachInSlot, AttachOnEdge, InPhase, Attach
  <2> QED
    BY <2>1, BusyFact
<1>3. Current(i) \in Label /\ Target(i) \in Label
  BY <1>2, FullIsLabel DEF TypeInv, Closed
<1>4. CommonPrefix(Target(i), Current(i)) \notin FullLabel \/ Current(i) = Target(i)
  BY <1>2, <1>3, CommonPrefixIsNotFull
<1>5. Current(i) # Target(i)
  BY DEF AttachAtLeaf, AttachInSlot, AttachOnEdge
<1> HIDE DEF leaf
<1>6. \A l \in FullLabel \cap DOMAIN nodes' :
        l \in DOMAIN nodes \/ nodes'[l].hash[4] = epoch
  <2>1. CASE AttachAtLeaf(i)
    <3>1. nodes' = SplitLeaf(nodes, Current(i), Target(i), leaf)
      BY <2>1 DEF AttachAtLeaf, Attach, leaf
    <3> QED
      BY <1>1, <1>4, <1>5, <3>1 DEF SplitLeaf
  <2>2. CASE AttachInSlot(i)
    <3>1. nodes' = FillSlot(nodes, Current(i), Target(i), leaf)
      BY <2>2 DEF AttachInSlot, Attach, leaf
    <3> QED
      BY <1>1, <3>1 DEF FillSlot
  <2>3. CASE AttachOnEdge(i)
    <3>1. nodes' = SplitEdge(nodes, Current(i), Target(i), leaf)
      BY <2>3 DEF AttachOnEdge, Attach, leaf
    <3> QED
      BY <1>1, <1>4, <1>5, <3>1 DEF SplitEdge
  <2> QED
    BY <2>1, <2>2, <2>3
<1> QED
  BY <1>2, <1>6 DEF StepOfCall, callVars

LEMMA ThreadIsStepOfCall ==
  ASSUME TypeInv, NEW i \in Threads, ThreadStep(i)
  PROVE  StepOfCall
<1>1. CASE AttachAtLeaf(i) \/ AttachInSlot(i) \/ AttachOnEdge(i)
  BY <1>1, AttachIsStepOfCall
<1>2. CASE ThrowSameLabel(i) \/ FollowRoute(i) \/ ReadStatus(i) \/ NextEntry(i) \/ HashFollow(i)
  <2>1. phase # "idle" /\ UNCHANGED <<nodes, callVars>>
    BY <1>2 DEF ThrowSameLabel, FollowRoute, ReadStatus, NextEntry, HashFollow, InPhase
  <2> QED
    BY <2>1, SameLabelsStep DEF callVars
<1>3. CASE SetDirty(i) \/ ClearDirty(i) \/ SaveAndRestore(i)
  <2>1. phase # "idle" /\ UNCHANGED callVars
    BY <1>3 DEF SetDirty, ClearDirty, SaveAndRestore, InPhase
  <2>2. DOMAIN nodes' = DOMAIN nodes
    BY <1>3 DEF SetDirty, ClearDirty, SaveAndRestore
  <2> QED
    BY <2>1, <2>2, SameLabelsStep DEF callVars
<1>4. CASE HashFound(i) \/ HashReturn(i)
  <2>1. phase # "idle" /\ UNCHANGED callVars
    BY <1>4 DEF HashFound, HashReturn, InPhase
  <2>2. DOMAIN nodes' = DOMAIN nodes
    BY <1>4 DEF HashFound, HashReturn, UpdateHash
  <2> QED
    BY <2>1, <2>2, SameLabelsStep DEF callVars
<1> QED
  BY <1>1, <1>2, <1>3, <1>4 DEF ThreadStep

LEMMA CallerIsStepOfCall ==
  ASSUME CallerStep
  PROVE  StepOfCall
<1>1. CASE ComputeTop
  <2>1. phase # "idle" /\ epoch' = epoch /\ phase' # "idle"
    BY <1>1 DEF ComputeTop
  <2>2. DOMAIN nodes' = DOMAIN nodes
    BY <1>1 DEF ComputeTop, UpdateHash
  <2> QED
    BY <2>1, <2>2, SameLabelsStep
<1>2. CASE JoinInsertion \/ TaskThrew \/ JoinHashing \/ TopThrew \/ Finish
  <2>1. phase # "idle" /\ UNCHANGED <<nodes, epoch>>
    BY <1>2 DEF JoinInsertion, TaskThrew, JoinHashing, TopThrew, Finish
  <2> QED
    BY <2>1, SameLabelsStep
<1> QED
  BY <1>1, <1>2 DEF CallerStep

(* A call begins with the epoch after the last: no leaf has it yet. *)
LEMMA BeginHeld ==
  ASSUME TypeInv, LeafEpochsPast, BeginInsert \/ BeginInsertBatch
  PROVE  LeafEpochsPast' /\ Held' = Held
<1>1. /\ phase = "idle" /\ phase' = "insert" /\ epoch' = epoch + 1 /\ nodes' = nodes
  BY DEF BeginInsert, BeginInsertBatch, Begin
<1>2. \A l \in FullLabel \cap DOMAIN nodes : nodes[l].hash[4] < epoch + 1
  BY DEF LeafEpochsPast
<1>3. LeafEpochsPast'
  BY <1>1 DEF LeafEpochsPast
<1>4. HeldLabels' = HeldLabels
  BY <1>1, <1>2 DEF HeldLabels
<1> QED
  BY <1>1, <1>3, <1>4 DEF Held

(* What a call adds is held when the call returns, all of it at once. *)
LEMMA CallHeld ==
  ASSUME LeafEpochsPast, KeepsKeys(nodes, nodes'), StepOfCall
  PROVE  LeafEpochsPast' /\ [Leaves!Append]_Held
<1>1. LeafEpochsPast'
  BY DEF LeafEpochsPast, KeepsKeys, StepOfCall
<1>2. CASE phase' # "idle"
  <2>1. HeldLabels' = HeldLabels
    BY <1>2 DEF HeldLabels, LeafEpochsPast, KeepsKeys, StepOfCall
  <2>2. \A l \in HeldLabels : nodes'[l] = nodes[l]
    BY DEF HeldLabels, KeepsKeys
  <2> QED
    BY <1>1, <2>1, <2>2 DEF Held
<1>3. CASE phase' = "idle"
  <2>1. nodes' = nodes /\ epoch' = epoch /\ phase # "idle"
    BY <1>3 DEF StepOfCall
  <2>2. /\ HeldLabels \subseteq HeldLabels'
        /\ \A l \in HeldLabels : nodes[l].hash[4] < epoch
        /\ \A l \in HeldLabels' \ HeldLabels : nodes[l].hash[4] = epoch
    BY <1>3, <2>1 DEF HeldLabels, LeafEpochsPast
  <2>3. Held' = {<<l, nodes[l].hash[3], nodes[l].hash[4]>> : l \in HeldLabels'}
    BY <2>1 DEF Held
  <2>4. \A s \in Held' \ Held :
          \E l \in HeldLabels' \ HeldLabels : s = <<l, nodes[l].hash[3], nodes[l].hash[4]>>
    BY <2>3 DEF Held
  <2>5. \A s \in Held : \E l \in HeldLabels : s = <<l, nodes[l].hash[3], nodes[l].hash[4]>>
    BY DEF Held
  <2>6. Held \subseteq Held'
    BY <2>2, <2>3 DEF Held
  <2>7. \A s \in Held' \ Held : s[1] \in HeldLabels' \ HeldLabels
                                /\ s = <<s[1], nodes[s[1]].hash[3], nodes[s[1]].hash[4]>>
                                /\ s[3] = epoch
    BY <2>2, <2>4
  <2>8. \A s \in Held : s[1] \in HeldLabels /\ s[3] < epoch
    BY <2>2, <2>5
  <2>9. Leaves!Labels(Held' \ Held) \cap Leaves!Labels(Held) = {}
    BY <2>7, <2>8 DEF Leaves!Labels
  <2>10. \A s, t \in Held' \ Held : s[1] = t[1] => s = t
    BY <2>7
  <2>11. \A s \in Held' \ Held : \A t \in Held : s[3] > t[3]
    BY <2>7, <2>8 DEF LeafEpochsPast
  <2>12. \A s, t \in Held' \ Held : s[3] = t[3]
    BY <2>7
  <2> QED
    BY <1>1, <2>6, <2>9, <2>10, <2>11, <2>12 DEF Leaves!Append
<1> QED
  BY <1>2, <1>3

LEMMA NextHeld ==
  ASSUME TypeInv, FreshInv, FreshOnly, LeafEpochsPast, Next
  PROVE  LeafEpochsPast' /\ [Leaves!Append]_Held
<1>1. CASE BeginInsert \/ BeginInsertBatch
  BY <1>1, BeginHeld
<1>2. CASE CallerStep \/ \E i \in Threads : ThreadStep(i)
  <2>1. StepOfCall
    BY <1>2, CallerIsStepOfCall, ThreadIsStepOfCall
  <2>2. KeepsKeys(nodes, nodes')
    BY NextFresh
  <2> QED
    BY <2>1, <2>2, CallHeld
<1>3. CASE SaveNext
  BY <1>3 DEF SaveNext, callVars, LeafEpochsPast, HeldLabels, Held
<1>4. ASSUME NEW i \in Threads, Race(i)
      PROVE  LeafEpochsPast' /\ [Leaves!Append]_Held
  <2>1. phase # "idle" /\ phase' # "idle" /\ epoch' = epoch /\ nodes' = nodes
    BY <1>4 DEF Race, InPhase
  <2>2. StepOfCall /\ KeepsKeys(nodes, nodes')
    BY <2>1, SameLabelsStep, SameKeys
  <2> QED
    BY <2>2, CallHeld
<1> QED
  BY <1>1, <1>2, <1>3, <1>4 DEF Next

LEMMA LeavesRefine == FreshOnly => (Spec => Leaves!Spec)
<1> SUFFICES ASSUME FreshOnly PROVE Spec => Leaves!Spec
  OBVIOUS
<1>1. Init => LeafEpochsPast /\ Leaves!Init
  <2> SUFFICES ASSUME Init PROVE LeafEpochsPast /\ Leaves!Init
    OBVIOUS
  <2>1. FullLabel \cap DOMAIN nodes = {}
    BY EmptyIsNotFull DEF Init, EmptyTrie
  <2> QED
    BY <2>1 DEF Init, LeafEpochsPast, HeldLabels, Held, Leaves!Init
<1>2. TypeInv /\ FreshInv /\ LeafEpochsPast /\ [Next]_vars
        => LeafEpochsPast' /\ [Leaves!Append]_Held
  <2>1. CASE Next
    BY <2>1, NextHeld
  <2>2. CASE UNCHANGED vars
    BY <2>2 DEF vars, LeafEpochsPast, HeldLabels, Held
  <2> QED
    BY <2>1, <2>2
<1> QED
  BY <1>1, <1>2, TypeInvariance, FreshInvariance, PTL DEF Spec, Leaves!Spec

-----------------------------------------------------------------------------
(* The shape of the trie while any number of threads insert into it: every *)
(* child extends the label of its parent by the bit of its side, and every *)
(* recursion goes down the prefixes of the label it works on.  Threads     *)
(* whose labels differ in the first bits are therefore apart.              *)

(* A recursion for label l: from the root down, each node on the way to l. *)
Descends(s, l) ==
  /\ s[1] = EmptyLabel
  /\ \A k \in 1..Len(s) : Len(s[k]) >= k - 1
  /\ \A k \in 1..(Len(s) - 1) : Starts(s[k], l) /\ IsUnder(s[k + 1], s[k], l[Len(s[k]) + 1])

-----------------------------------------------------------------------------
(* Recursions *)

(* What the next node of a recursion has to be. *)
LEMMA DescendsFact ==
  ASSUME NEW s, NEW l, Descends(s, l)
  PROVE  /\ s[1] = EmptyLabel
         /\ \A k \in 1..Len(s) : Len(s[k]) >= k - 1
         /\ \A k \in 1..(Len(s) - 1) : /\ Starts(s[k], l)
                                      /\ IsUnder(s[k + 1], s[k], l[Len(s[k]) + 1])
BY DEF Descends

LEMMA DescendAppend ==
  ASSUME NEW s \in Seq(Label), NEW l, Descends(s, l), Len(s) \in Nat \ {0},
         NEW c \in Label, Starts(s[Len(s)], l), IsUnder(c, s[Len(s)], l[Len(s[Len(s)]) + 1])
  PROVE  Descends(Append(s, c), l)
<1> DEFINE r == Append(s, c)
<1>1. /\ Len(r) = Len(s) + 1 /\ r[Len(s) + 1] = c
      /\ \A k \in 1..Len(s) : r[k] = s[k]
  BY AppendFact
<1>2. PICK n \in Nat \ {0} : Len(s) = n
  OBVIOUS
<1>3. Len(c) \in Nat /\ Len(s[n]) \in Nat
  BY <1>2, LabelLen
<1>4. /\ s[1] = EmptyLabel
      /\ \A k \in 1..n : Len(s[k]) >= k - 1
      /\ \A k \in 1..(n - 1) : Starts(s[k], l) /\ IsUnder(s[k + 1], s[k], l[Len(s[k]) + 1])
  BY <1>2, DescendsFact
<1>5. Starts(s[n], l) /\ IsUnder(c, s[n], l[Len(s[n]) + 1]) /\ Len(s[n]) < Len(c)
  BY <1>2 DEF IsUnder
<1> HIDE DEF r
<1>6. /\ Len(r) = n + 1 /\ r[n + 1] = c
      /\ \A k \in 1..n : r[k] = s[k]
  BY <1>1, <1>2
<1>7. ASSUME NEW k \in 1..(n + 1)
      PROVE  Len(r[k]) >= k - 1
  <2>1. CASE k = n + 1
    <3>1. Len(s[n]) >= n - 1
      BY <1>4
    <3> QED
      BY <1>3, <1>5, <1>6, <2>1, <3>1
  <2>2. CASE k \in 1..n
    BY <1>4, <1>6, <2>2
  <2> QED
    BY <2>1, <2>2
<1>8. ASSUME NEW k \in 1..n
      PROVE  Starts(r[k], l) /\ IsUnder(r[k + 1], r[k], l[Len(r[k]) + 1])
  <2>1. CASE k = n
    BY <1>5, <1>6, <2>1
  <2>2. CASE k \in 1..(n - 1)
    <3>1. r[k] = s[k] /\ r[k + 1] = s[k + 1]
      BY <1>6, <2>2
    <3> QED
      BY <1>4, <2>2, <3>1
  <2> QED
    BY <2>1, <2>2
<1>9. r[1] = EmptyLabel
  BY <1>4, <1>6
<1>10. Len(r) - 1 = n
  BY <1>6
<1> QED
  BY <1>6, <1>7, <1>8, <1>9, <1>10 DEF Descends, r

LEMMA DescendPop ==
  ASSUME NEW s \in Seq(Label), NEW l, Descends(s, l), Len(s) > 1
  PROVE  /\ Descends(Pop(s), l) /\ Pop(s) \in Seq(Label)
         /\ Len(Pop(s)) = Len(s) - 1 /\ Len(Pop(s)) \in Nat \ {0}
         /\ Pop(s)[Len(Pop(s))] = s[Len(s) - 1] /\ Starts(s[Len(s) - 1], l)
         /\ IsUnder(s[Len(s)], s[Len(s) - 1], l[Len(s[Len(s) - 1]) + 1])
<1> DEFINE r == Pop(s)
<1>1. PICK n \in Nat \ {0} : Len(s) = n + 1
  <2>1. Len(s) \in Nat
    OBVIOUS
  <2> QED
    BY <2>1
<1>2. r \in Seq(Label) /\ Len(r) = n /\ \A k \in 1..n : r[k] = s[k]
  BY <1>1 DEF Pop
<1>3. /\ s[1] = EmptyLabel
      /\ \A k \in 1..(n + 1) : Len(s[k]) >= k - 1
      /\ \A k \in 1..n : Starts(s[k], l) /\ IsUnder(s[k + 1], s[k], l[Len(s[k]) + 1])
  <2>1. Len(s) - 1 = n
    BY <1>1
  <2> QED
    BY <1>1, <2>1, DescendsFact
<1> HIDE DEF r
<1>4. ASSUME NEW k \in 1..n
      PROVE  Len(r[k]) >= k - 1
  <2>1. r[k] = s[k] /\ k \in 1..(n + 1)
    BY <1>2
  <2> QED
    BY <1>3, <2>1
<1>5. ASSUME NEW k \in 1..(n - 1)
      PROVE  Starts(r[k], l) /\ IsUnder(r[k + 1], r[k], l[Len(r[k]) + 1])
  <2>1. r[k] = s[k] /\ r[k + 1] = s[k + 1] /\ k \in 1..n
    BY <1>2
  <2> QED
    BY <1>3, <2>1
<1>6. Descends(r, l)
  BY <1>2, <1>3, <1>4, <1>5 DEF Descends
<1>7. n \in 1..n /\ Len(s) - 1 = n /\ Len(s) = n + 1
  BY <1>1
<1> QED
  BY <1>2, <1>3, <1>6, <1>7 DEF r

(* A recursion that has moved up from a node to the fork above it. *)
LEMMA DescendFork ==
  ASSUME NEW s \in Seq(Label), NEW l \in FullLabel, Descends(s, l), Len(s) \in Nat \ {0},
         s[Len(s)] # l, ~Starts(s[Len(s)], l)
  PROVE  Descends(Append(Pop(s), CommonPrefix(l, s[Len(s)])), l)
<1>1. Len(s) > 1
  <2>1. s[1] = EmptyLabel
    BY DescendsFact
  <2>2. Len(EmptyLabel) = 0 /\ Len(l) \in Nat
    BY LabelLen, FullIsLabel DEF EmptyLabel
  <2>3. Starts(s[1], l)
    BY <2>1, <2>2 DEF Starts
  <2>4. s[Len(s)] # s[1]
    BY <2>3
  <2>5. \A n \in Nat \ {0} : Len(s) = n /\ n # 1 => n > 1
    OBVIOUS
  <2>6. Len(s) # 1
    BY <2>4
  <2> QED
    BY <2>5, <2>6
<1>2. PICK n \in Label, p \in Label :
        /\ n = s[Len(s)] /\ p = s[Len(s) - 1]
  BY <1>1
<1>3. /\ Descends(Pop(s), l) /\ Pop(s) \in Seq(Label) /\ Len(Pop(s)) \in Nat \ {0}
      /\ Pop(s)[Len(Pop(s))] = p /\ Starts(p, l) /\ IsUnder(n, p, l[Len(p) + 1])
  BY <1>1, <1>2, DescendPop
<1>4. /\ IsUnder(CommonPrefix(l, n), p, l[Len(p) + 1])
      /\ CommonPrefix(l, n) \in Label
  BY <1>2, <1>3, ForkIsUnder
<1> QED
  BY <1>2, <1>3, <1>4, DescendAppend

LEMMA DescendRoot ==
  ASSUME NEW l
  PROVE  Descends(<<EmptyLabel>>, l)
<1>1. /\ Len(<<EmptyLabel>>) = 1 /\ <<EmptyLabel>>[1] = EmptyLabel /\ Len(EmptyLabel) = 0
  BY DEF EmptyLabel
<1> HIDE DEF EmptyLabel
<1> QED
  BY <1>1 DEF Descends

(* A recursion that is at the empty label is at the root. *)
LEMMA AtRoot ==
  ASSUME NEW s \in Seq(Label), NEW l, Descends(s, l), Len(s) \in Nat \ {0},
         s[Len(s)] = EmptyLabel
  PROVE  Append(Pop(s), EmptyLabel) = <<EmptyLabel>>
<1>1. Len(s) = 1
  <2>1. PICK n \in Nat \ {0} : Len(s) = n
    OBVIOUS
  <2>2. Len(s[n]) >= n - 1
    <3>1. \A k \in 1..n : Len(s[k]) >= k - 1
      BY <2>1, DescendsFact
    <3>2. n \in 1..n
      BY <2>1
    <3> QED
      BY <3>1, <3>2
  <2>3. Len(s[n]) = 0
    BY <2>1 DEF EmptyLabel
  <2>4. 0 >= n - 1
    BY <2>2, <2>3
  <2> QED
    BY <2>1, <2>4
<1>2. Pop(s) = <<>>
  BY <1>1 DEF Pop
<1> QED
  BY <1>2

-----------------------------------------------------------------------------
(* The invariant *)

(* A thread works on the labels of its own index, and its recursion is on  *)
(* the way to the label it inserts or hashes.                              *)
PathInv(i) ==
  /\ \A k \in th[i].work : GetInsertionIndex(bits, batch[k].label) = i
  /\ th[i].pc # "done" => Descends(th[i].stack, Target(i))
  /\ th[i].pc = "done" => th[i].stack = <<EmptyLabel>>

ShapeInv ==
  /\ Shaped(nodes)
  /\ bits = 0 => Threads = {0}
  /\ \A i \in Threads : PathInv(i)

LEMMA PathFact ==
  ASSUME TypeInv, ShapeInv, NEW i \in Threads, th[i].pc # "done"
  PROVE  /\ th[i].stack \in Seq(Label) /\ Len(th[i].stack) \in Nat \ {0}
         /\ Descends(th[i].stack, Target(i))
         /\ Current(i) \in DOMAIN nodes /\ Current(i) \in Label
         /\ Current(i) = th[i].stack[Len(th[i].stack)]
         /\ Target(i) \in FullLabel /\ Target(i) \in Label
         /\ Closed(nodes) /\ Shaped(nodes)
BY BusyFact, StackFact, FullIsLabel
   DEF ShapeInv, PathInv, TypeInv, StateOK, IsRecursion, Closed, Current

(* A step of one thread: the others are where they were. *)
LEMMA PathStep ==
  ASSUME TypeInv, ShapeInv, NEW i \in Threads, th[i].pc # "done",
         NEW pc, pc # "done", NEW stack, NEW status, Step(i, pc, stack, status),
         UNCHANGED callVars, Shaped(nodes'), Descends(stack, Target(i))
  PROVE  ShapeInv'
<1>1. /\ Threads' = Threads /\ batch' = batch /\ bits' = bits
  BY StepThreads DEF callVars
<1>2. /\ th'[i].work = th[i].work /\ th'[i].stack = stack /\ th'[i].pc = pc
      /\ \A j \in Threads : j # i => th'[j] = th[j]
  BY DEF Step, Threads
<1>3. ASSUME NEW j \in Threads
      PROVE  PathInv(j)'
  <2>1. PathInv(j)
    BY DEF ShapeInv
  <2>2. th'[j].work = th[j].work
    BY <1>2
  <2>3. Target(j)' = Target(j)
    BY <1>1, <2>2 DEF Target, Position
  <2>4. CASE j = i
    BY <1>1, <1>2, <2>1, <2>3, <2>4 DEF PathInv
  <2>5. CASE j # i
    BY <1>1, <1>2, <2>1, <2>3, <2>5 DEF PathInv
  <2> QED
    BY <2>4, <2>5
<1> QED
  BY <1>1, <1>3 DEF ShapeInv

(* Threads that start at the root, with the entries of their index. *)
LEMMA FreshPaths ==
  ASSUME NEW D, th' = [i \in D |-> Recursion(WorkOf(batch', bits', i))],
         Shaped(nodes'), bits' = 0 => D = {0}
  PROVE  ShapeInv'
<1>1. Threads' = D
  BY DEF Threads
<1>2. ASSUME NEW i \in D
      PROVE  PathInv(i)'
  <2>1. /\ th'[i].work = WorkOf(batch', bits', i) /\ th'[i].stack = <<EmptyLabel>>
    BY RecursionFact
  <2>2. \A k \in th'[i].work : GetInsertionIndex(bits', batch'[k].label) = i
    BY <2>1 DEF WorkOf
  <2>3. Descends(<<EmptyLabel>>, Target(i)')
    BY DescendRoot
  <2> QED
    BY <2>1, <2>2, <2>3 DEF PathInv
<1> QED
  BY <1>1, <1>2 DEF ShapeInv

(* A step that moves no recursion. *)
LEMMA SamePaths ==
  ASSUME ShapeInv, UNCHANGED <<th, batch, bits>>, Shaped(nodes')
  PROVE  ShapeInv'
<1>1. ASSUME NEW i \in Threads
      PROVE  PathInv(i)'
  <2>1. Target(i)' = Target(i) /\ PathInv(i)
    BY DEF Target, Position, ShapeInv
  <2> QED
    BY <2>1 DEF PathInv
<1> QED
  BY <1>1 DEF ShapeInv, Threads

LEMMA WalkShape ==
  ASSUME TypeInv, ShapeInv, NEW i \in Threads,
         ThrowSameLabel(i) \/ ReadStatus(i) \/ FollowRoute(i) \/ HashFollow(i)
  PROVE  ShapeInv'
<1>1. /\ th[i].pc # "done" /\ UNCHANGED callVars /\ nodes' = nodes
  BY DEF ThrowSameLabel, ReadStatus, FollowRoute, HashFollow, InPhase
<1>2. /\ Descends(th[i].stack, Target(i)) /\ Shaped(nodes) /\ Shaped(nodes')
  BY <1>1, PathFact
<1>3. CASE ThrowSameLabel(i) \/ ReadStatus(i)
  <2>1. PICK pc, status : pc \in {"failed", "clear"} /\ Step(i, pc, th[i].stack, status)
    BY <1>3 DEF ThrowSameLabel, ReadStatus, Goto
  <2> QED
    BY <1>1, <1>2, <2>1, PathStep
<1>4. CASE FollowRoute(i) \/ HashFollow(i)
  <2> DEFINE child == ChildOn(nodes[Current(i)], NextBit(Current(i), Target(i)))
  <2>1. /\ Current(i) # Target(i) /\ HasRoute(nodes, Current(i), Target(i))
        /\ Step(i, "call", Append(th[i].stack, child), th[i].status)
    BY <1>4 DEF FollowRoute, HashFollow, Goto
  <2>2. /\ th[i].stack \in Seq(Label) /\ Len(th[i].stack) \in Nat \ {0}
        /\ Current(i) \in DOMAIN nodes /\ Target(i) \in FullLabel /\ Closed(nodes)
        /\ Current(i) = th[i].stack[Len(th[i].stack)]
    BY <1>1, PathFact
  <2>3. child \in Label
    BY <2>2, ChildIsNode
  <2>4. /\ Starts(Current(i), Target(i))
        /\ IsUnder(child, Current(i), Target(i)[Len(Current(i)) + 1])
    BY <1>2, <2>1, <2>2, RouteDescends
  <2> HIDE DEF child
  <2>5. Descends(Append(th[i].stack, child), Target(i))
    BY <1>2, <2>2, <2>3, <2>4, DescendAppend
  <2> QED
    BY <1>1, <1>2, <2>1, <2>5, PathStep
<1> QED
  BY <1>3, <1>4

LEMMA AttachShape ==
  ASSUME TypeInv, ShapeInv, NEW i \in Threads,
         AttachAtLeaf(i) \/ AttachInSlot(i) \/ AttachOnEdge(i)
  PROVE  ShapeInv'
<1>1. /\ th[i].pc # "done" /\ UNCHANGED callVars /\ Current(i) # Target(i)
  BY DEF AttachAtLeaf, AttachInSlot, AttachOnEdge, Attach, InPhase
<1>2. /\ th[i].stack \in Seq(Label) /\ Len(th[i].stack) \in Nat \ {0}
      /\ Descends(th[i].stack, Target(i))
      /\ Current(i) \in DOMAIN nodes /\ Target(i) \in FullLabel
      /\ Closed(nodes) /\ Shaped(nodes)
      /\ Current(i) = th[i].stack[Len(th[i].stack)]
  BY <1>1, PathFact
<1>3. PICK h : LeafOf(i) = NewLeaf(h)
  BY DEF LeafOf
<1>4. PICK n : /\ Step(i, "return", Append(Pop(th[i].stack), n), th[i].status)
               /\ Shaped(nodes') /\ Descends(Append(Pop(th[i].stack), n), Target(i))
  <2>1. CASE AttachInSlot(i)
    <3>1. /\ ~SplitsLeaf(nodes, Current(i)) /\ HasFreeSlot(nodes, Current(i), Target(i))
          /\ nodes' = FillSlot(nodes, Current(i), Target(i), NewLeaf(h))
          /\ Step(i, "return", Append(Pop(th[i].stack), Current(i)), th[i].status)
      BY <2>1, <1>3 DEF AttachInSlot, Attach, Goto
    <3>2. Shaped(nodes')
      BY <1>1, <1>2, <3>1, FilledIsShaped
    <3>3. Current(i) = EmptyLabel
      BY <1>1, <1>2, <3>1, SlotDescends
    <3>4. Descends(Append(Pop(th[i].stack), Current(i)), Target(i))
      BY <1>2, <3>3, AtRoot, DescendRoot
    <3> QED
      BY <3>1, <3>2, <3>4
  <2>2. CASE AttachAtLeaf(i) \/ AttachOnEdge(i)
    <3>1. /\ SplitsLeaf(nodes, Current(i))
             \/ (~HasFreeSlot(nodes, Current(i), Target(i)) /\ ~HasRoute(nodes, Current(i), Target(i)))
          /\ nodes' \in {SplitLeaf(nodes, Current(i), Target(i), NewLeaf(h)),
                         SplitEdge(nodes, Current(i), Target(i), NewLeaf(h))}
          /\ Step(i, "return",
                  Append(Pop(th[i].stack), CommonPrefix(Target(i), Current(i))), th[i].status)
      <4>1. CASE AttachAtLeaf(i)
        <5>1. nodes' = SplitLeaf(nodes, Current(i), Target(i), NewLeaf(h))
          BY <4>1, <1>3, Zenon DEF AttachAtLeaf, Attach
        <5>2. /\ SplitsLeaf(nodes, Current(i))
              /\ Step(i, "return", Append(Pop(th[i].stack), CommonPrefix(Target(i), Current(i))),
                      th[i].status)
          BY <4>1 DEF AttachAtLeaf, Attach, Goto
        <5>3. nodes' \in {SplitLeaf(nodes, Current(i), Target(i), NewLeaf(h)),
                         SplitEdge(nodes, Current(i), Target(i), NewLeaf(h))}
          BY <5>1
        <5> QED
          BY <5>2, <5>3
      <4>2. CASE AttachOnEdge(i)
        BY <4>2, <1>3 DEF AttachOnEdge, Attach, Goto
      <4> QED
        BY <2>2, <4>1, <4>2
    <3>2. ~Starts(Current(i), Target(i))
      BY <1>1, <1>2, <3>1, SplitLeaves
    <3>3. Shaped(nodes')
      BY <1>1, <1>2, <3>1, <3>2, SplitIsShaped
    <3>4. Descends(Append(Pop(th[i].stack), CommonPrefix(Target(i), Current(i))), Target(i))
      BY <1>1, <1>2, <3>2, DescendFork
    <3> QED
      BY <3>1, <3>3, <3>4
  <2> QED
    BY <2>1, <2>2
<1> QED
  BY <1>1, <1>4, PathStep

(* What a thread finds when it comes back to the caller. *)
LEMMA ReturnFact ==
  ASSUME TypeInv, ShapeInv, NEW i \in Threads, th[i].pc # "done", Len(th[i].stack) > 1
  PROVE  /\ Descends(Pop(th[i].stack), Target(i))
         /\ Caller(i) \in DOMAIN nodes /\ Caller(i) \in Label
         /\ NextBit(Caller(i), Target(i)) \in Bit
         /\ Starts(Caller(i), Target(i))
         /\ IsUnder(Current(i), Caller(i), NextBit(Caller(i), Target(i)))
         /\ Current(i) # EmptyLabel
<1> DEFINE s == th[i].stack
<1>1. /\ s \in Seq(Label) /\ Descends(s, Target(i))
      /\ Current(i) \in DOMAIN nodes /\ Current(i) = s[Len(s)] /\ Current(i) \in Label
      /\ Target(i) \in FullLabel /\ Target(i) \in Label /\ Closed(nodes)
  BY PathFact
<1>2. Caller(i) \in DOMAIN nodes /\ Caller(i) \in Label /\ Caller(i) = s[Len(s) - 1]
  BY <1>1, StackFact DEF Closed, Caller
<1>3. /\ Descends(Pop(s), Target(i)) /\ Starts(Caller(i), Target(i))
      /\ IsUnder(Current(i), Caller(i), Target(i)[Len(Caller(i)) + 1])
  BY <1>1, <1>2, DescendPop
<1>4. Caller(i) # Target(i)
  <2>1. Len(Caller(i)) < Len(Current(i))
    BY <1>3 DEF IsUnder
  <2>2. Len(Current(i)) \in 0..MaxBitCount /\ Len(Target(i)) = MaxBitCount
    BY <1>1, LabelLen
  <2> QED
    BY <2>1, <2>2, MaxBitCountAssumption
<1>5. /\ CommonPrefixCount(Target(i), Caller(i)) = Len(Caller(i))
      /\ NextBit(Caller(i), Target(i)) = Target(i)[Len(Caller(i)) + 1]
      /\ NextBit(Caller(i), Target(i)) \in Bit
  <2>1. /\ CommonPrefixCount(Target(i), Caller(i)) = Len(Caller(i))
        /\ NextBit(Caller(i), Target(i)) = Target(i)[CommonPrefixCount(Target(i), Caller(i)) + 1]
        /\ NextBit(Caller(i), Target(i)) \in Bit
    BY <1>1, <1>2, <1>3, <1>4, CommonIsStart
  <2> QED
    BY <2>1
<1>6. IsUnder(Current(i), Caller(i), NextBit(Caller(i), Target(i)))
  BY <1>3, <1>5
<1>7. Current(i) # EmptyLabel
  BY <1>2, <1>6, UnderIsNotEmpty
<1> QED
  BY <1>2, <1>3, <1>5, <1>6, <1>7

LEMMA MarkShape ==
  ASSUME TypeInv, ShapeInv, NEW i \in Threads,
         SetDirty(i) \/ ClearDirty(i) \/ SaveAndRestore(i)
  PROVE  ShapeInv'
<1>1. /\ th[i].pc # "done" /\ UNCHANGED callVars
  BY DEF SetDirty, ClearDirty, SaveAndRestore, InPhase
<1>2. /\ Descends(th[i].stack, Target(i)) /\ Shaped(nodes) /\ Current(i) \in DOMAIN nodes
      /\ th[i].stack \in Seq(Label) /\ Target(i) \in FullLabel /\ th[i].status \in BOOLEAN
  BY <1>1, PathFact DEF TypeInv, StateOK, IsRecursion
<1>3. CASE SetDirty(i)
  <2> DEFINE bit == NextBit(Caller(i), Target(i))
             node == SetChild(nodes[Caller(i)], bit, Current(i))
  <2>1. PICK pc \in {"status", "return"} : Step(i, pc, Pop(th[i].stack), th[i].status)
    BY <1>3 DEF SetDirty, Goto
  <2>2. /\ nodes' = [nodes EXCEPT ![Caller(i)] = node]
        /\ Len(th[i].stack) > 1
    BY <1>3 DEF SetDirty
  <2>3. /\ Descends(Pop(th[i].stack), Target(i))
        /\ Caller(i) \in DOMAIN nodes /\ bit \in Bit
        /\ IsUnder(Current(i), Caller(i), bit) /\ Current(i) # EmptyLabel
    BY <1>1, <2>2, ReturnFact
  <2>4. ShapedNode(Caller(i), node)
    BY <1>2, <2>3, SetChildIsShaped DEF Shaped
  <2> HIDE DEF node
  <2>5. Shaped(nodes')
    BY <1>2, <2>2, <2>3, <2>4, ReplacedIsShaped
  <2> QED
    BY <1>1, <2>1, <2>3, <2>5, PathStep
<1>4. CASE ClearDirty(i) \/ SaveAndRestore(i)
  <2>1. PICK d \in BOOLEAN, pc \in {"restore", "return"} :
          /\ nodes' = [nodes EXCEPT ![Current(i)] = SetDirtyBit(nodes[Current(i)], d)]
          /\ Step(i, pc, th[i].stack, th[i].status)
    <3>1. CASE ClearDirty(i)
      <4>1. /\ nodes' = [nodes EXCEPT ![Current(i)] = SetDirtyBit(nodes[Current(i)], FALSE)]
            /\ Step(i, "restore", th[i].stack, th[i].status)
            /\ "restore" \in {"restore", "return"}
        BY <3>1, <1>2 DEF ClearDirty, Goto
      <4> QED
        BY <4>1, <1>2
    <3>2. CASE SaveAndRestore(i)
      <4>1. /\ nodes' = [nodes EXCEPT ![Current(i)] = SetDirtyBit(nodes[Current(i)], th[i].status)]
            /\ Step(i, "return", th[i].stack, th[i].status)
            /\ "return" \in {"restore", "return"}
        BY <3>2, <1>2 DEF SaveAndRestore, Goto
      <4> QED
        BY <4>1, <1>2
    <3> QED
      BY <1>4, <3>1, <3>2
  <2>2. ShapedNode(Current(i), SetDirtyBit(nodes[Current(i)], d))
    BY <1>2, SameChildrenShaped DEF SetDirtyBit, Shaped
  <2>3. Shaped(nodes')
    BY <1>2, <2>1, <2>2, ReplacedIsShaped
  <2> QED
    BY <1>1, <1>2, <2>1, <2>3, PathStep
<1> QED
  BY <1>3, <1>4

LEMMA HashShape ==
  ASSUME TypeInv, ShapeInv, NEW i \in Threads, HashFound(i) \/ HashReturn(i)
  PROVE  ShapeInv'
<1>1. /\ th[i].pc # "done" /\ UNCHANGED callVars
  BY DEF HashFound, HashReturn, InPhase
<1>2. Descends(th[i].stack, Target(i)) /\ Shaped(nodes)
  BY <1>1, PathFact
<1>3. CASE HashFound(i)
  <2>1. PICK S : nodes' = UpdateHash(nodes, S)
    BY <1>3 DEF HashFound
  <2>2. Step(i, "return", th[i].stack, th[i].status)
    BY <1>3 DEF HashFound, Goto
  <2>3. Shaped(nodes')
    BY <1>2, <2>1, HashedIsShaped
  <2> QED
    BY <1>1, <1>2, <2>2, <2>3, PathStep
<1>4. CASE HashReturn(i)
  <2>1. PICK S, self : nodes' = UpdateHash(UpdateHash(nodes, S), self)
    BY <1>4 DEF HashReturn
  <2>2. Step(i, "return", Pop(th[i].stack), th[i].status) /\ Len(th[i].stack) > 1
    BY <1>4 DEF HashReturn, Goto
  <2>3. Shaped(nodes')
    BY <1>2, <2>1, HashedIsShaped
  <2>4. Descends(Pop(th[i].stack), Target(i))
    BY <1>1, <2>2, ReturnFact
  <2> QED
    BY <1>1, <2>2, <2>3, <2>4, PathStep
<1> QED
  BY <1>3, <1>4

LEMMA NextEntryShape ==
  ASSUME TypeInv, ShapeInv, NEW i \in Threads, NextEntry(i)
  PROVE  ShapeInv'
<1> DEFINE r == Recursion(th[i].work \ {Position(i)})
<1>1. th' = [th EXCEPT ![i] = r] /\ UNCHANGED <<nodes, callVars>>
  BY DEF NextEntry
<1>2. r.work = th[i].work \ {Position(i)} /\ r.stack = <<EmptyLabel>>
  BY RecursionFact
<1> HIDE DEF r
<1>3. /\ Threads' = Threads /\ batch' = batch /\ bits' = bits /\ nodes' = nodes
      /\ th'[i] = r /\ \A j \in Threads : j # i => th'[j] = th[j]
  BY <1>1 DEF Threads, callVars
<1>4. ASSUME NEW j \in Threads
      PROVE  PathInv(j)'
  <2>1. PathInv(j)
    BY DEF ShapeInv
  <2>2. CASE j = i
    <3>1. \A k \in th'[i].work : GetInsertionIndex(bits', batch'[k].label) = i
      BY <1>2, <1>3, <2>1, <2>2 DEF PathInv
    <3>2. th'[i].stack = <<EmptyLabel>> /\ Descends(<<EmptyLabel>>, Target(i)')
      BY <1>2, <1>3, DescendRoot
    <3> QED
      BY <2>2, <3>1, <3>2 DEF PathInv
  <2>3. CASE j # i
    <3>1. th'[j] = th[j] /\ Target(j)' = Target(j)
      BY <1>3, <2>3 DEF Target, Position
    <3> QED
      BY <1>3, <2>1, <3>1 DEF PathInv
  <2> QED
    BY <2>2, <2>3
<1> QED
  BY <1>3, <1>4 DEF ShapeInv

LEMMA CallerShape ==
  ASSUME TypeInv, ShapeInv, CallerStep
  PROVE  ShapeInv'
<1>1. Shaped(nodes)
  BY DEF ShapeInv
<1>2. CASE JoinInsertion
  <2>1. /\ nodes' = nodes /\ bits' = bits /\ batch' = batch
        /\ th' = [i \in Threads |-> Recursion(WorkOf(batch', bits', i))]
    BY <1>2 DEF JoinInsertion
  <2>2. bits' = 0 => Threads = {0}
    BY <2>1 DEF ShapeInv
  <2> QED
    BY <1>1, <2>1, <2>2, FreshPaths
<1>3. CASE JoinHashing
  BY <1>1, <1>3, SamePaths DEF JoinHashing
<1>4. CASE ComputeTop
  <2>1. UNCHANGED <<th, batch, bits>> /\ \E S : nodes' = UpdateHash(nodes, S)
    BY <1>4 DEF ComputeTop
  <2> QED
    BY <1>1, <2>1, HashedIsShaped, SamePaths
<1>5. CASE TaskThrew \/ TopThrew \/ Finish
  <2>1. /\ nodes' = nodes /\ bits' = 0 /\ batch' = <<>>
        /\ th' = [i \in {0} |-> Recursion({})]
    BY <1>5 DEF TaskThrew, TopThrew, Finish, Return, NoThreads
  <2>2. WorkOf(batch', bits', 0) = {}
    BY <2>1 DEF WorkOf
  <2>3. th' = [i \in {0} |-> Recursion(WorkOf(batch', bits', i))]
    BY <2>1, <2>2
  <2> QED
    BY <1>1, <2>1, <2>3, FreshPaths
<1> QED
  BY <1>2, <1>3, <1>4, <1>5 DEF CallerStep

LEMMA BeginShape ==
  ASSUME TypeInv, ShapeInv, BeginInsert \/ BeginInsertBatch
  PROVE  ShapeInv'
<1>1. PICK bitCount, D : /\ bits' = bitCount /\ nodes' = nodes
                         /\ D = 0..(2^bitCount - 1)
                         /\ th' = [i \in D |-> Recursion(WorkOf(batch', bits', i))]
  <2>1. CASE BeginInsert
    BY <2>1 DEF BeginInsert, Begin
  <2>2. CASE BeginInsertBatch
    BY <2>2 DEF BeginInsertBatch, Begin
  <2> QED
    BY <2>1, <2>2
<1>2. bits' = 0 => D = {0}
  BY <1>1
<1> QED
  BY <1>1, <1>2, FreshPaths DEF ShapeInv

LEMMA InitShape ==
  ASSUME Init
  PROVE  ShapeInv
<1>1. nodes = EmptyTrie /\ th = NoThreads
  BY DEF Init
<1>2. Shaped(nodes)
  BY <1>1 DEF Shaped, ShapedNode, EmptyTrie, EmptyRoot, NewLeaf, Node, ChildOn
<1>3. Threads = {0} /\ th[0].work = {} /\ th[0].stack = <<EmptyLabel>> /\ th[0].pc = "done"
  BY <1>1, RecursionFact DEF Threads, NoThreads
<1> QED
  BY <1>2, <1>3 DEF ShapeInv, PathInv

LEMMA NextShape ==
  ASSUME TypeInv, ShapeInv, Next
  PROVE  ShapeInv'
<1>1. ASSUME NEW i \in Threads, ThreadStep(i)
      PROVE  ShapeInv'
  BY <1>1, WalkShape, AttachShape, MarkShape, NextEntryShape, HashShape DEF ThreadStep
<1>2. ASSUME SaveNext \/ \E i \in Threads : Race(i)
      PROVE  ShapeInv'
  <2>1. UNCHANGED <<th, batch, bits, nodes>>
    BY <1>2 DEF SaveNext, Race, callVars
  <2> QED
    BY <2>1, SamePaths DEF ShapeInv
<1> QED
  BY <1>1, <1>2, CallerShape, BeginShape DEF Next

LEMMA ShapeInvariance == Spec => []ShapeInv
<1>1. Init => ShapeInv
  BY InitShape
<1>2. TypeInv /\ ShapeInv /\ [Next]_vars => ShapeInv'
  <2> SUFFICES ASSUME TypeInv, ShapeInv, UNCHANGED vars PROVE ShapeInv'
    BY NextShape
  <2> QED
    BY SamePaths DEF vars, ShapeInv
<1> QED
  BY <1>1, <1>2, TypeInvariance, PTL DEF Spec

-----------------------------------------------------------------------------
(* Below the levels that all share, the nodes of a recursion start with    *)
(* the bits of the thread's index.                                         *)
LEMMA PathStarts ==
  ASSUME NEW s \in Seq(Label), NEW l \in FullLabel, Descends(s, l), NEW k \in 1..Len(s)
  PROVE  /\ s[k] \in Label /\ Len(s[k]) >= k - 1 /\ Len(s[k]) <= MaxBitCount
         /\ \A m \in 1..(k - 1) : s[k][m] = l[m]
<1>1. /\ s[k] \in Label /\ Len(s[k]) \in 0..MaxBitCount /\ Len(s) \in Nat
      /\ Len(l) = MaxBitCount
  BY LabelLen, FullIsLabel
<1>2. Len(s[k]) >= k - 1
  BY DescendsFact
<1>3. ASSUME NEW m \in 1..(k - 1)
      PROVE  s[k][m] = l[m]
  <2>1. k - 1 \in 1..(Len(s) - 1) /\ (k - 1) + 1 = k
    BY <1>1
  <2>2. Starts(s[k - 1], l) /\ IsUnder(s[k], s[k - 1], l[Len(s[k - 1]) + 1])
    BY <2>1, DescendsFact
  <2>3. Len(s[k - 1]) >= k - 2 /\ Len(s[k - 1]) \in Nat
    <3>1. k - 1 \in 1..Len(s) /\ s[k - 1] \in Label
      BY <1>1, <2>1
    <3>2. Len(s[k - 1]) >= (k - 1) - 1
      BY <3>1, DescendsFact
    <3>3. Len(s[k - 1]) \in Nat
      BY <3>1, LabelLen
    <3> QED
      BY <3>2, <3>3
  <2>4. CASE m \in 1..Len(s[k - 1])
    BY <2>2, <2>4 DEF Starts, IsUnder
  <2>5. CASE m = Len(s[k - 1]) + 1
    BY <2>2, <2>5 DEF IsUnder
  <2> QED
    BY <2>3, <2>4, <2>5
<1> QED
  BY <1>1, <1>2, <1>3

(* Labels that share their first bits belong to the same thread. *)
LEMMA SameIndex ==
  ASSUME NEW a \in FullLabel, NEW b \in FullLabel, NEW n \in 0..MaxBitCount,
         \A m \in 1..n : a[m] = b[m]
  PROVE  GetInsertionIndex(n, a) = GetInsertionIndex(n, b)
<1>1. a \in Seq(Bit) /\ b \in Seq(Bit) /\ Len(a) = MaxBitCount /\ Len(b) = MaxBitCount
  BY FullIsLabel, LabelLen
<1>2. SubSeq(a, 1, n) = [m \in 1..n |-> a[m]] /\ SubSeq(b, 1, n) = [m \in 1..n |-> b[m]]
  BY <1>1, MaxBitCountAssumption
<1>3. SubSeq(a, 1, n) = SubSeq(b, 1, n)
  BY <1>2
<1> QED
  BY <1>3 DEF GetInsertionIndex

-----------------------------------------------------------------------------
(* The levels that at most eight threads share stay complete *)

(* What the thread limit found complete, of nodes that two threads can      *)
(* come to: with at most eight threads, all of them.                        *)
AtTop(n) == n \in Label /\ Len(n) < bits /\ Len(n) <= 1

(* The recursion has gone from n to the node one bit below. *)
StepsOneBit(s, n) == \A k \in 1..(Len(s) - 1) : s[k] = n => Len(s[k + 1]) = Len(n) + 1

TopInv ==
  /\ bits > 3 => MaxThreads >= 16
  /\ phase = "undefined" => bits > 3
  /\ phase = "insert" =>
       \A n : AtTop(n) => /\ n \in DOMAIN nodes /\ IsComplete(nodes, n)
                          /\ \A i \in Threads : StepsOneBit(th[i].stack, n)

(* One bit more: the label, and this bit. *)
LEMMA NextIsAdded ==
  ASSUME NEW n \in Label, NEW c \in Label, NEW bit, IsUnder(c, n, bit), Len(c) = Len(n) + 1
  PROVE  c = AddBit(n, bit)
<1>1. /\ n \in Seq(Bit) /\ c \in Seq(Bit) /\ Len(n) \in Nat
      /\ \A k \in 1..Len(n) : c[k] = n[k]
      /\ c[Len(n) + 1] = bit
  BY LabelLen DEF IsUnder, Starts
<1>2. bit \in Bit
  BY <1>1
<1> DEFINE p == AddBit(n, bit)
<1>3. /\ p \in Seq(Bit) /\ Len(p) = Len(n) + 1 /\ p[Len(n) + 1] = bit
      /\ \A k \in 1..Len(n) : p[k] = n[k]
  BY <1>1, <1>2, AppendFact DEF AddBit
<1> HIDE DEF p
<1>4. c = p
  BY <1>1, <1>3
<1> QED
  BY <1>4 DEF p

(* A thread that has come from such a node to another is on its way still. *)
LEMMA BelowTop ==
  ASSUME TypeInv, ShapeInv, TopInv, phase = "insert", NEW i \in Threads, th[i].pc # "done",
         Len(th[i].stack) > 1, AtTop(Caller(i))
  PROVE  /\ Current(i) = AddBit(Caller(i), NextBit(Caller(i), Target(i)))
         /\ Len(Current(i)) = Len(Caller(i)) + 1 /\ Starts(Current(i), Target(i))
<1> DEFINE s == th[i].stack
<1>1. /\ Caller(i) \in Label /\ NextBit(Caller(i), Target(i)) \in Bit
      /\ Starts(Caller(i), Target(i))
      /\ IsUnder(Current(i), Caller(i), NextBit(Caller(i), Target(i)))
  BY ReturnFact
<1>2. Current(i) \in Label /\ Target(i) \in Label /\ Target(i) \in FullLabel
  BY PathFact
<1>3. Len(s) \in Nat /\ Caller(i) = s[Len(s) - 1] /\ Current(i) = s[Len(s)]
  BY PathFact DEF Caller
<1>4. Len(Current(i)) = Len(Caller(i)) + 1
  <2>1. StepsOneBit(s, Caller(i))
    BY DEF TopInv
  <2> HIDE DEF s
  <2>2. Len(s) - 1 \in 1..(Len(s) - 1) /\ (Len(s) - 1) + 1 = Len(s)
    BY <1>3 DEF s
  <2>3. s[Len(s) - 1] = Caller(i) => Len(s[(Len(s) - 1) + 1]) = Len(Caller(i)) + 1
    BY <2>1, <2>2, Zenon DEF StepsOneBit
  <2> QED
    BY <1>3, <2>2, <2>3
<1>5. Current(i) = AddBit(Caller(i), NextBit(Caller(i), Target(i)))
  BY <1>1, <1>2, <1>4, NextIsAdded
<1>6. NextBit(Caller(i), Target(i)) = Target(i)[Len(Caller(i)) + 1]
  <2>1. Caller(i) # Target(i)
    <3>1. Len(Target(i)) = MaxBitCount /\ Len(Current(i)) \in 0..MaxBitCount /\ Len(Caller(i)) \in Nat
      BY <1>1, <1>2, LabelLen
    <3> QED
      BY <1>4, <3>1, MaxBitCountAssumption
  <2>2. CommonPrefixCount(Target(i), Caller(i)) = Len(Caller(i))
    BY <1>1, <1>2, <2>1, CommonIsStart
  <2> QED
    BY <2>2 DEF NextBit, BitAt
<1>7. Starts(Current(i), Target(i))
  <2>1. /\ Len(Caller(i)) \in Nat /\ Len(Target(i)) = MaxBitCount
        /\ Len(Current(i)) \in 0..MaxBitCount
    BY <1>1, <1>2, LabelLen
  <2>2. /\ \A k \in 1..Len(Caller(i)) : Target(i)[k] = Caller(i)[k]
        /\ \A k \in 1..Len(Caller(i)) : Current(i)[k] = Caller(i)[k]
        /\ Current(i)[Len(Caller(i)) + 1] = NextBit(Caller(i), Target(i))
    BY <1>1 DEF Starts, IsUnder
  <2>3. ASSUME NEW k \in 1..Len(Current(i))
        PROVE  Target(i)[k] = Current(i)[k]
    <3>1. CASE k = Len(Caller(i)) + 1
      BY <1>6, <2>2, <3>1
    <3>2. CASE k # Len(Caller(i)) + 1
      <4>1. k \in 1..Len(Caller(i))
        BY <1>4, <2>1, <3>2
      <4> QED
        BY <2>2, <4>1
    <3> QED
      BY <3>1, <3>2
  <2>4. Len(Current(i)) <= Len(Target(i))
    BY <2>1, MaxBitCountAssumption
  <2> QED
    BY <2>3, <2>4 DEF Starts
<1> QED
  BY <1>4, <1>5, <1>7

(* A step of one thread. *)
LEMMA TopStep ==
  ASSUME TopInv, phase = "insert", UNCHANGED callVars, NEW i \in Threads, Threads' = Threads,
         \A j \in Threads : j # i => th'[j] = th[j],
         \A n : AtTop(n) => /\ n \in DOMAIN nodes' /\ IsComplete(nodes', n)
                            /\ StepsOneBit(th'[i].stack, n)
  PROVE  TopInv'
<1>1. phase' = phase /\ bits' = bits
  BY DEF callVars
<1>2. \A n : AtTop(n)' <=> AtTop(n)
  BY <1>1 DEF AtTop
<1>3. ASSUME NEW n, AtTop(n), NEW j \in Threads
      PROVE  StepsOneBit(th'[j].stack, n)
  BY <1>3 DEF TopInv
<1> QED
  BY <1>1, <1>2, <1>3 DEF TopInv

(* What a step leaves of the stack. *)
LEMMA PoppedSteps ==
  ASSUME NEW s, NEW n, StepsOneBit(s, n), NEW r, Len(s) \in Nat \ {0}, Len(r) = Len(s) - 1,
         \A k \in 1..(Len(s) - 1) : r[k] = s[k]
  PROVE  StepsOneBit(r, n)
<1> SUFFICES ASSUME NEW k \in 1..(Len(r) - 1), r[k] = n
             PROVE  Len(r[k + 1]) = Len(n) + 1
  BY DEF StepsOneBit
<1>1. k \in 1..(Len(s) - 1) /\ k + 1 \in 1..(Len(s) - 1)
  OBVIOUS
<1>2. r[k] = s[k] /\ r[k + 1] = s[k + 1]
  BY <1>1
<1>3. \A x \in 1..(Len(s) - 1) : s[x] = n => Len(s[x + 1]) = Len(n) + 1
  BY DEF StepsOneBit
<1> QED
  BY <1>1, <1>2, <1>3

LEMMA AppendedSteps ==
  ASSUME NEW s \in Seq(Label), NEW n, StepsOneBit(s, n), NEW c \in Label, Len(s) # 0,
         s[Len(s)] = n => Len(c) = Len(n) + 1
  PROVE  StepsOneBit(Append(s, c), n)
<1> DEFINE r == Append(s, c)
<1>1. Len(s) \in Nat \ {0} /\ Len(r) = Len(s) + 1 /\ r[Len(s) + 1] = c
      /\ \A k \in 1..Len(s) : r[k] = s[k]
  BY AppendFact
<1> HIDE DEF r
<1>2. ASSUME NEW k \in 1..(Len(r) - 1), r[k] = n
      PROVE  Len(r[k + 1]) = Len(n) + 1
  <2>1. CASE k = Len(s)
    BY <1>1, <1>2, <2>1
  <2>2. CASE k # Len(s)
    <3>1. k \in 1..(Len(s) - 1) /\ r[k] = s[k] /\ r[k + 1] = s[k + 1]
      BY <1>1, <1>2, <2>2
    <3>2. \A x \in 1..(Len(s) - 1) : s[x] = n => Len(s[x + 1]) = Len(n) + 1
      BY DEF StepsOneBit
    <3> QED
      BY <1>2, <3>1, <3>2
  <2> QED
    BY <2>1, <2>2
<1>3. StepsOneBit(r, n)
  BY <1>2 DEF StepsOneBit
<1> QED
  BY <1>3 DEF r

(* Nothing is attached where the limit found all complete. *)
LEMMA AttachTop ==
  ASSUME TypeInv, ShapeInv, TopInv, NEW i \in Threads,
         AttachAtLeaf(i) \/ AttachInSlot(i) \/ AttachOnEdge(i)
  PROVE  TopInv'
<1> DEFINE s == th[i].stack
<1>1. /\ phase = "insert" /\ th[i].pc # "done" /\ UNCHANGED callVars /\ Current(i) # Target(i)
  BY DEF AttachAtLeaf, AttachInSlot, AttachOnEdge, Attach, InPhase
<1>2. /\ s \in Seq(Label) /\ Len(s) \in Nat \ {0} /\ Descends(s, Target(i))
      /\ Current(i) \in DOMAIN nodes /\ Current(i) \in Label /\ Current(i) = s[Len(s)]
      /\ Target(i) \in FullLabel /\ Target(i) \in Label
      /\ Closed(nodes) /\ Shaped(nodes)
  BY <1>1, PathFact
<1>3. PICK h : LeafOf(i) = NewLeaf(h)
  BY DEF LeafOf
<1>4. ASSUME NEW m, AtTop(m)
      PROVE  /\ m \in Label /\ m \in DOMAIN nodes /\ IsComplete(nodes, m) /\ StepsOneBit(s, m)
             /\ ChildOn(nodes[m], 0) # EmptyLabel /\ ChildOn(nodes[m], 1) # EmptyLabel
             /\ m \notin FullLabel /\ AtTop(EmptyLabel)
  <2>1. m \in Label /\ m \in DOMAIN nodes /\ IsComplete(nodes, m) /\ StepsOneBit(s, m)
    BY <1>1, <1>4 DEF TopInv, AtTop
  <2>2. \A bit \in Bit : AddBit(m, bit) # EmptyLabel
    <3> SUFFICES ASSUME NEW bit \in Bit PROVE AddBit(m, bit) # EmptyLabel
      OBVIOUS
    <3>1. m \in Seq(Bit)
      BY <2>1, LabelLen
    <3> QED
      BY <3>1, AppendFact DEF AddBit, EmptyLabel
  <2>3. ChildOn(nodes[m], 0) # EmptyLabel /\ ChildOn(nodes[m], 1) # EmptyLabel
    BY <2>1, <2>2 DEF IsComplete, ChildOn, Bit
  <2>4. m \notin FullLabel
    BY <1>2, <2>1, <2>3, KeyIsLeaf DEF IsLeaf, ChildOn
  <2>5. AtTop(EmptyLabel)
    <3>1. EmptyLabel \in Label /\ Len(EmptyLabel) = 0 /\ Len(m) \in Nat /\ bits \in Nat
      BY <2>1, LabelLen, FullIsLabel DEF EmptyLabel, TypeInv, StateOK
    <3> QED
      BY <1>4, <3>1 DEF AtTop
  <2> QED
    BY <2>1, <2>3, <2>4, <2>5
<1>5. PICK t, n, order :
        /\ Attach(i, t, n, order)
        /\ \/ n = Current(i) /\ t = FillSlot(nodes, Current(i), Target(i), NewLeaf(h))
              /\ ~SplitsLeaf(nodes, Current(i)) /\ HasFreeSlot(nodes, Current(i), Target(i))
           \/ /\ n = CommonPrefix(Target(i), Current(i))
              /\ t \in {SplitLeaf(nodes, Current(i), Target(i), NewLeaf(h)),
                        SplitEdge(nodes, Current(i), Target(i), NewLeaf(h))}
              /\ \/ SplitsLeaf(nodes, Current(i))
                 \/ /\ ~HasFreeSlot(nodes, Current(i), Target(i))
                    /\ ~HasRoute(nodes, Current(i), Target(i))
  <2> DEFINE f == CommonPrefix(Target(i), Current(i))
  <2>1. CASE AttachAtLeaf(i)
    <3> DEFINE t == SplitLeaf(nodes, Current(i), Target(i), NewLeaf(h))
    <3>1. Attach(i, t, f, ChildrenFirst(t, f)) /\ SplitsLeaf(nodes, Current(i))
      BY <2>1, <1>3 DEF AttachAtLeaf
    <3> HIDE DEF t, f
    <3>2. t \in {SplitLeaf(nodes, Current(i), Target(i), NewLeaf(h)),
                 SplitEdge(nodes, Current(i), Target(i), NewLeaf(h))}
      BY DEF t
    <3> QED
      BY <3>1, <3>2 DEF f
  <2>2. CASE AttachInSlot(i)
    BY <2>2, <1>3 DEF AttachInSlot
  <2>3. CASE AttachOnEdge(i)
    <3> DEFINE t == SplitEdge(nodes, Current(i), Target(i), NewLeaf(h))
    <3>1. /\ Attach(i, t, f, ChildrenFirst(t, f))
          /\ ~HasFreeSlot(nodes, Current(i), Target(i)) /\ ~HasRoute(nodes, Current(i), Target(i))
      BY <2>3, <1>3 DEF AttachOnEdge
    <3> HIDE DEF t, f
    <3>2. t \in {SplitLeaf(nodes, Current(i), Target(i), NewLeaf(h)),
                 SplitEdge(nodes, Current(i), Target(i), NewLeaf(h))}
      BY DEF t
    <3> QED
      BY <3>1, <3>2 DEF f
  <2> QED
    BY <2>1, <2>2, <2>3
<1>6. /\ nodes' = t /\ Step(i, "return", Append(Pop(s), n), th[i].status)
  BY <1>5 DEF Attach, Goto
<1>7. /\ Threads' = Threads /\ \A j \in Threads : j # i => th'[j] = th[j]
      /\ th'[i].stack = Append(Pop(s), n)
  BY <1>6, StepThreads DEF Step, Threads
<1> HIDE DEF s
<1>8. ASSUME NEW m, AtTop(m)
      PROVE  m \in DOMAIN nodes' /\ IsComplete(nodes', m) /\ StepsOneBit(Append(Pop(s), n), m)
  <2>1. ~HasFreeSlot(nodes, Current(i), Target(i)) \/ SplitsLeaf(nodes, Current(i))
    <3> SUFFICES ASSUME HasFreeSlot(nodes, Current(i), Target(i)), ~SplitsLeaf(nodes, Current(i))
                 PROVE  FALSE
      OBVIOUS
    <3>1. /\ Current(i) = EmptyLabel /\ NextBit(Current(i), Target(i)) \in Bit
      BY <1>1, <1>2, SlotDescends
    <3>2. ChildOn(nodes[EmptyLabel], 0) # EmptyLabel /\ ChildOn(nodes[EmptyLabel], 1) # EmptyLabel
      BY <1>4, <1>8
    <3> QED
      BY <3>1, <3>2 DEF HasFreeSlot, Bit
  <2>2. /\ n = CommonPrefix(Target(i), Current(i))
        /\ t \in {SplitLeaf(nodes, Current(i), Target(i), NewLeaf(h)),
                  SplitEdge(nodes, Current(i), Target(i), NewLeaf(h))}
        /\ \/ SplitsLeaf(nodes, Current(i))
           \/ /\ ~HasFreeSlot(nodes, Current(i), Target(i))
              /\ ~HasRoute(nodes, Current(i), Target(i))
    BY <1>5, <2>1
  <2>3. ~Starts(Current(i), Target(i))
    BY <1>1, <1>2, <2>2, SplitLeaves
  <2>4. Len(s) > 1
    <3>1. s[1] = EmptyLabel
      BY <1>2, DescendsFact
    <3>2. Starts(EmptyLabel, Target(i))
      BY <1>2, LabelLen DEF Starts, EmptyLabel
    <3>3. Len(s) # 1
      BY <1>2, <2>3, <3>1, <3>2
    <3>4. \A x \in Nat \ {0} : x # 1 => x > 1
      OBVIOUS
    <3> QED
      BY <1>2, <3>3, <3>4, Zenon
  <2>5. ~AtTop(Caller(i))
    BY <1>1, <2>3, <2>4, BelowTop DEF s
  <2>6. /\ Caller(i) \in Label /\ Starts(Caller(i), Target(i)) /\ Caller(i) = s[Len(s) - 1]
        /\ IsUnder(Current(i), Caller(i), NextBit(Caller(i), Target(i)))
    BY <1>1, <2>4, ReturnFact DEF s, Caller
  <2>7. n \in Label /\ Len(Caller(i)) <= Len(n) /\ Len(Caller(i)) \in Nat /\ Len(n) \in Nat
    <3>1. Starts(Caller(i), n) /\ n \in Label
      BY <1>2, <2>2, <2>6, CommonPrefixIsLongest DEF IsUnder
    <3> QED
      BY <2>6, <3>1, LabelLen DEF Starts
  <2>8. ~AtTop(n)
    <3>1. bits \in Nat
      BY DEF TypeInv, StateOK
    <3> QED
      BY <2>5, <2>6, <2>7, <3>1 DEF AtTop
  <2>9. /\ m \in DOMAIN t /\ t[m].left = nodes[m].left /\ t[m].right = nodes[m].right
    <3>1. m # n /\ m # Target(i) /\ m \in DOMAIN nodes
      BY <1>2, <1>4, <1>8, <2>8
    <3>2. CASE t = SplitLeaf(nodes, Current(i), Target(i), NewLeaf(h))
      BY <2>2, <3>1, <3>2 DEF SplitLeaf
    <3>3. CASE t = SplitEdge(nodes, Current(i), Target(i), NewLeaf(h))
      BY <2>2, <3>1, <3>3 DEF SplitEdge, Node
    <3> QED
      BY <2>2, <3>2, <3>3
  <2>10. IsComplete(nodes', m)
    BY <1>4, <1>6, <1>8, <2>9 DEF IsComplete
  <2>11. StepsOneBit(Append(Pop(s), n), m)
    <3> DEFINE r == Pop(s)
    <3>1. /\ r \in Seq(Label) /\ Len(r) = Len(s) - 1
          /\ \A k \in 1..(Len(s) - 1) : r[k] = s[k]
      <4>1. DOMAIN nodes \subseteq Label
        BY <1>2 DEF Closed
      <4> QED
        BY <4>1, StackFact, SeqGrows DEF s
    <3>2. r[Len(r)] = Caller(i) /\ Len(r) # 0
      <4> HIDE DEF r
      <4>1. Len(r) \in 1..(Len(s) - 1)
        BY <1>2, <2>4, <3>1
      <4> QED
        BY <2>6, <3>1, <4>1
    <3>3. r[Len(r)] # m
      BY <1>8, <2>5, <3>2
    <3> HIDE DEF r
    <3>4. StepsOneBit(r, m)
      BY <1>2, <1>4, <1>8, <3>1, PoppedSteps
    <3>5. StepsOneBit(Append(r, n), m)
      BY <2>7, <3>1, <3>2, <3>3, <3>4, AppendedSteps
    <3> QED
      BY <3>5 DEF r
  <2> QED
    BY <1>6, <2>9, <2>10, <2>11
<1> QED
  BY <1>1, <1>7, <1>8, TopStep

LEMMA WalkTop ==
  ASSUME TypeInv, ShapeInv, TopInv, NEW i \in Threads,
         ThrowSameLabel(i) \/ ReadStatus(i) \/ FollowRoute(i)
  PROVE  TopInv'
<1>1. /\ phase = "insert" /\ th[i].pc # "done" /\ UNCHANGED callVars /\ nodes' = nodes
  BY DEF ThrowSameLabel, ReadStatus, FollowRoute, InPhase
<1>2. PICK pc, stack, status :
        /\ Step(i, pc, stack, status)
        /\ \/ stack = th[i].stack
           \/ /\ stack = Append(th[i].stack, ChildOn(nodes[Current(i)], NextBit(Current(i), Target(i))))
              /\ HasRoute(nodes, Current(i), Target(i)) /\ Current(i) # Target(i)
  BY DEF ThrowSameLabel, ReadStatus, FollowRoute, Goto
<1>3. /\ Threads' = Threads /\ \A j \in Threads : j # i => th'[j] = th[j]
      /\ th'[i].stack = stack
  BY <1>2, StepThreads DEF Step, Threads
<1>4. ASSUME NEW n, AtTop(n)
      PROVE  n \in DOMAIN nodes' /\ IsComplete(nodes', n) /\ StepsOneBit(stack, n)
  <2>1. n \in DOMAIN nodes /\ n \in Label /\ IsComplete(nodes, n) /\ StepsOneBit(th[i].stack, n)
    BY <1>1, <1>4 DEF TopInv, AtTop
  <2>2. CASE stack # th[i].stack
    <3> DEFINE child == ChildOn(nodes[Current(i)], NextBit(Current(i), Target(i)))
    <3>1. /\ th[i].stack \in Seq(Label) /\ Len(th[i].stack) # 0
          /\ Current(i) = th[i].stack[Len(th[i].stack)] /\ Current(i) \in Label
          /\ Current(i) \in DOMAIN nodes /\ Closed(nodes) /\ Target(i) \in FullLabel
      BY <1>1, PathFact
    <3>2. child \in Label
      BY <3>1, ChildIsNode
    <3>3. Current(i) = n => Len(child) = Len(n) + 1
      <4> SUFFICES ASSUME Current(i) = n PROVE Len(child) = Len(n) + 1
        OBVIOUS
      <4>1. NextBit(n, Target(i)) \in Bit
        BY <1>2, <2>2, <3>1, CommonIsStart
      <4>2. child = AddBit(n, NextBit(n, Target(i)))
        BY <2>1, <4>1 DEF IsComplete, ChildOn, Bit
      <4>3. n \in Seq(Bit)
        BY <2>1, LabelLen
      <4> QED
        BY <4>1, <4>2, <4>3, AppendFact DEF AddBit
    <3> HIDE DEF child
    <3>4. StepsOneBit(Append(th[i].stack, child), n)
      BY <2>1, <3>1, <3>2, <3>3, AppendedSteps
    <3> QED
      BY <1>1, <1>2, <2>1, <2>2, <3>4 DEF child
  <2> QED
    BY <1>1, <2>1, <2>2
<1> QED
  BY <1>1, <1>3, <1>4, TopStep

LEMMA MarkTop ==
  ASSUME TypeInv, ShapeInv, TopInv, NEW i \in Threads,
         SetDirty(i) \/ ClearDirty(i) \/ SaveAndRestore(i)
  PROVE  TopInv'
<1>1. /\ phase = "insert" /\ th[i].pc # "done" /\ UNCHANGED callVars
  BY DEF SetDirty, ClearDirty, SaveAndRestore, InPhase
<1>2. Current(i) \in DOMAIN nodes /\ Len(th[i].stack) \in Nat \ {0}
  BY <1>1, PathFact
<1>3. CASE SetDirty(i)
  <2> DEFINE bit == NextBit(Caller(i), Target(i))
             s == th[i].stack
  <2>1. PICK pc : Step(i, pc, Pop(s), th[i].status)
    BY <1>3 DEF SetDirty, Goto
  <2>2. /\ nodes' = [nodes EXCEPT ![Caller(i)] = SetChild(nodes[Caller(i)], bit, Current(i))]
        /\ Len(s) > 1
    BY <1>3 DEF SetDirty
  <2>3. Caller(i) \in DOMAIN nodes /\ bit \in Bit
    BY <1>1, <2>2, ReturnFact
  <2>4. /\ Threads' = Threads /\ \A j \in Threads : j # i => th'[j] = th[j]
        /\ th'[i].stack = Pop(s)
    BY <2>1, StepThreads DEF Step, Threads
  <2>5. Len(Pop(s)) = Len(s) - 1 /\ \A k \in 1..(Len(s) - 1) : Pop(s)[k] = s[k]
    BY StackFact
  <2>6. ASSUME NEW n, AtTop(n)
        PROVE  n \in DOMAIN nodes' /\ IsComplete(nodes', n) /\ StepsOneBit(Pop(s), n)
    <3>1. n \in DOMAIN nodes /\ IsComplete(nodes, n) /\ StepsOneBit(s, n)
      BY <1>1, <2>6 DEF TopInv
    <3> HIDE DEF s
    <3>2. StepsOneBit(Pop(s), n)
      BY <1>2, <2>5, <3>1, PoppedSteps DEF s
    <3>3. CASE n # Caller(i)
      BY <2>2, <3>1, <3>2, <3>3 DEF IsComplete
    <3>4. CASE n = Caller(i)
      <4>1. Current(i) = AddBit(n, bit)
        BY <1>1, <2>2, <2>6, <3>4, BelowTop DEF s
      <4> HIDE DEF bit
      <4>2. nodes'[n] = SetChild(nodes[n], bit, AddBit(n, bit))
        BY <2>2, <3>1, <3>4, <4>1
      <4>3. IsComplete(nodes', n)
        BY <2>3, <3>1, <4>2 DEF IsComplete, SetChild, Node, Bit
      <4> QED
        BY <2>2, <3>1, <3>2, <4>3
    <3> QED
      BY <3>3, <3>4
  <2> QED
    BY <1>1, <2>4, <2>6, TopStep
<1>4. CASE ClearDirty(i) \/ SaveAndRestore(i)
  <2>1. PICK d, pc :
          /\ nodes' = [nodes EXCEPT ![Current(i)] = SetDirtyBit(nodes[Current(i)], d)]
          /\ Step(i, pc, th[i].stack, th[i].status)
    BY <1>4 DEF ClearDirty, SaveAndRestore, Goto
  <2>2. /\ Threads' = Threads /\ \A j \in Threads : j # i => th'[j] = th[j]
        /\ th'[i].stack = th[i].stack
    BY <2>1, StepThreads DEF Step, Threads
  <2>3. ASSUME NEW n, AtTop(n)
        PROVE  n \in DOMAIN nodes' /\ IsComplete(nodes', n) /\ StepsOneBit(th[i].stack, n)
    <3>1. n \in DOMAIN nodes /\ IsComplete(nodes, n) /\ StepsOneBit(th[i].stack, n)
      BY <1>1, <2>3 DEF TopInv
    <3> QED
      BY <1>2, <2>1, <3>1 DEF IsComplete, SetDirtyBit, Node
  <2> QED
    BY <1>1, <2>2, <2>3, TopStep
<1> QED
  BY <1>3, <1>4

LEMMA NextEntryTop ==
  ASSUME TopInv, NEW i \in Threads, NextEntry(i)
  PROVE  TopInv'
<1>1. th' = [th EXCEPT ![i] = Recursion(th[i].work \ {Position(i)})] /\ UNCHANGED <<nodes, callVars>>
  BY DEF NextEntry
<1>2. /\ Threads' = Threads /\ \A j \in Threads : j # i => th'[j] = th[j]
      /\ th'[i].stack = <<EmptyLabel>>
  BY <1>1, RecursionFact DEF Threads
<1>3. \A n : StepsOneBit(<<EmptyLabel>>, n)
  BY DEF StepsOneBit
<1>4. CASE phase = "insert"
  <2>1. ASSUME NEW n, AtTop(n)
        PROVE  /\ n \in DOMAIN nodes' /\ IsComplete(nodes', n)
               /\ StepsOneBit(th'[i].stack, n)
    BY <1>1, <1>2, <1>3, <1>4, <2>1 DEF TopInv
  <2> QED
    BY <1>1, <1>2, <1>4, <2>1, TopStep
<1>5. CASE phase # "insert"
  BY <1>1, <1>5 DEF TopInv, callVars
<1> QED
  BY <1>4, <1>5

(* What the thread limit has counted on. *)
LEMMA LimitFact ==
  /\ GetLog2(ThreadLimit) \in Nat
  /\ GetLog2(ThreadLimit) > 3 => MaxThreads >= 16
  /\ GetLog2(ThreadLimit) >= 1 => IsComplete(nodes, EmptyLabel)
  /\ GetLog2(ThreadLimit) >= 2 => /\ IsComplete(nodes, nodes[EmptyLabel].left)
                                  /\ IsComplete(nodes, nodes[EmptyLabel].right)
<1>1. /\ ThreadLimit \in Nat
      /\ ThreadLimit >= 2 => IsComplete(nodes, EmptyLabel)
      /\ ThreadLimit >= 4 => Counted(nodes, MaxThreads, ThreadLimit)
  BY ThreadLimitFact, MaxThreadsAssumption DEF ThreadLimit
<1>2. /\ GetLog2(ThreadLimit) \in Nat
      /\ GetLog2(ThreadLimit) >= 1 => ThreadLimit >= 2
      /\ GetLog2(ThreadLimit) >= 2 => ThreadLimit >= 4
      /\ GetLog2(ThreadLimit) >= 4 => ThreadLimit >= 16
  BY <1>1, GetLog2Fact
<1> DEFINE g == GetLog2(ThreadLimit)
           limit == ThreadLimit
<1> HIDE DEF g, limit
<1>3. g > 3 => MaxThreads >= 16
  <2> SUFFICES ASSUME g > 3 PROVE MaxThreads >= 16
    OBVIOUS
  <2>1. limit >= 16 /\ limit \in Nat
    BY <1>1, <1>2 DEF g, limit
  <2>2. limit <= MaxThreads
    BY <1>1, <2>1 DEF limit, Counted
  <2> QED
    BY <2>1, <2>2, MaxThreadsAssumption
<1> QED
  BY <1>1, <1>2, <1>3 DEF g, Counted

LEMMA BeginTop ==
  ASSUME TypeInv, TopInv, NEW b, NEW isSingle, NEW bitCount \in {0, GetLog2(ThreadLimit)},
         Begin(b, isSingle, bitCount)
  PROVE  TopInv'
<1> DEFINE D == 0..(2^bitCount - 1)
<1>1. /\ bits' = bitCount /\ nodes' = nodes /\ phase' = "insert"
      /\ th' = [i \in D |-> Recursion(WorkOf(b, bitCount, i))]
  BY DEF Begin
<1> HIDE DEF D
<1>2. Threads' = D /\ \A i \in D : th'[i].stack = <<EmptyLabel>>
  BY <1>1, RecursionFact DEF Threads
<1>3. /\ bitCount \in Nat
      /\ bitCount > 3 => MaxThreads >= 16
      /\ bitCount >= 1 => IsComplete(nodes, EmptyLabel)
      /\ bitCount >= 2 => /\ IsComplete(nodes, nodes[EmptyLabel].left)
                          /\ IsComplete(nodes, nodes[EmptyLabel].right)
  BY <1>1, LimitFact
<1>4. Closed(nodes) /\ EmptyLabel \in DOMAIN nodes
  BY DEF TypeInv, StateOK
<1>5. ASSUME NEW n \in Label, Len(n) < bitCount, Len(n) <= 1
      PROVE  n \in DOMAIN nodes /\ IsComplete(nodes, n)
  <2>1. n \in Seq(Bit) /\ Len(n) \in Nat /\ Len(EmptyLabel) = 0
    BY LabelLen DEF EmptyLabel
  <2>2. CASE Len(n) = 0
    <3>1. n = EmptyLabel
      BY <2>1, <2>2 DEF EmptyLabel
    <3> QED
      BY <1>3, <1>4, <1>5, <2>1, <3>1
  <2>3. CASE Len(n) = 1
    <3>1. IsUnder(n, EmptyLabel, n[1]) /\ n[1] \in Bit
      BY <2>1, <2>3, AllUnderRoot
    <3>2. n = AddBit(EmptyLabel, n[1])
      <4>1. EmptyLabel \in Label /\ Len(n) = Len(EmptyLabel) + 1
        BY <2>1, <2>3, FullIsLabel
      <4> QED
        BY <3>1, <4>1, NextIsAdded, Zenon
    <3>3. n = ChildOn(nodes[EmptyLabel], n[1])
      BY <1>3, <1>5, <2>1, <3>1, <3>2 DEF IsComplete, ChildOn, Bit
    <3>4. n \in DOMAIN nodes
      BY <1>4, <3>3, ChildIsNode
    <3>5. n \in {nodes[EmptyLabel].left, nodes[EmptyLabel].right}
      BY <3>3 DEF ChildOn
    <3> QED
      BY <1>3, <1>5, <2>1, <2>3, <3>4, <3>5
  <2>4. \A x \in Nat : x <= 1 => x = 0 \/ x = 1
    OBVIOUS
  <2> QED
    BY <1>5, <2>1, <2>2, <2>3, <2>4, Zenon
<1>6. \A n : StepsOneBit(<<EmptyLabel>>, n)
  BY DEF StepsOneBit
<1> QED
  BY <1>1, <1>2, <1>3, <1>5, <1>6 DEF TopInv, AtTop

(* Where two threads race, one of them has left the levels that the thread *)
(* limit looked at as a whole: there are more than eight threads.          *)
LEMMA RaceTop ==
  ASSUME TypeInv, ShapeInv, TopInv, NEW i \in Threads, Race(i)
  PROVE  bits > 3
<1> SUFFICES ASSUME ~(bits > 3) PROVE FALSE
  OBVIOUS
<1>1. /\ phase = "insert" /\ th[i].pc # "done" /\ Current(i) # Target(i)
      /\ ~HasRoute(nodes, Current(i), Target(i)) /\ IsShared(i)
  BY DEF Race, InPhase
<1>2. /\ Len(th[i].stack) \in Nat \ {0} /\ Len(th[i].stack) > 1 /\ bits \in Nat
  BY <1>1, PathFact DEF IsShared, Level, TypeInv, StateOK
<1>3. /\ Current(i) \in DOMAIN nodes /\ Target(i) \in FullLabel /\ Target(i) \in Label
      /\ Closed(nodes) /\ Shaped(nodes)
  BY <1>1, PathFact
<1>4. Caller(i) \in Label /\ Current(i) # EmptyLabel /\ Len(Caller(i)) \in Nat
  BY <1>1, <1>2, ReturnFact, LabelLen
<1>5. PICK k \in DOMAIN batch :
        /\ GetInsertionIndex(bits, batch[k].label) # i
        /\ CommonPrefixCount(batch[k].label, Target(i)) > Len(Caller(i))
  BY <1>1 DEF IsShared
<1>6. GetInsertionIndex(bits, Target(i)) = i
  BY <1>1, BusyFact, PositionFact DEF ShapeInv, PathInv, Target
<1> DEFINE l == batch[k].label
           c == CommonPrefixCount(l, Target(i))
<1>7. l \in FullLabel /\ l \in Label
  <2>1. batch[k] \in Entry
    BY DEF TypeInv, StateOK
  <2> QED
    BY <2>1, FullIsLabel DEF Entry
<1>8. c \in Nat /\ c <= MaxBitCount /\ \A m \in 1..c : l[m] = Target(i)[m]
  BY <1>3, <1>7, CommonPrefixCountFact, LabelLen
<1> HIDE DEF l, c
<1>9. c < bits
  <2> SUFFICES ASSUME bits <= c PROVE FALSE
    BY <1>2, <1>8
  <2>1. bits \in 0..MaxBitCount /\ \A m \in 1..bits : l[m] = Target(i)[m]
    BY <1>2, <1>8, MaxBitCountAssumption
  <2>2. GetInsertionIndex(bits, l) = GetInsertionIndex(bits, Target(i))
    BY <1>3, <1>7, <2>1, SameIndex
  <2> QED
    BY <1>5, <1>6, <2>2 DEF l
<1>10. Len(Caller(i)) < bits /\ Len(Caller(i)) <= 1
  BY <1>2, <1>4, <1>5, <1>8, <1>9 DEF c, l
<1>11. Starts(Current(i), Target(i))
  BY <1>1, <1>2, <1>4, <1>10, BelowTop DEF AtTop
<1>12. ~HasFreeSlot(nodes, Current(i), Target(i)) \/ SplitsLeaf(nodes, Current(i))
  BY <1>1, <1>3, <1>4, SlotDescends
<1> QED
  BY <1>1, <1>3, <1>11, <1>12, SplitLeaves

LEMMA NextTop ==
  ASSUME TypeInv, ShapeInv, TopInv, Next
  PROVE  TopInv'
<1>1. CASE BeginInsert \/ BeginInsertBatch
  BY <1>1, BeginTop DEF BeginInsert, BeginInsertBatch
<1>2. CASE CallerStep
  <2>1. phase' \notin {"insert", "undefined"} /\ bits' \in {0, bits}
    BY <1>2 DEF CallerStep, JoinInsertion, TaskThrew, JoinHashing, TopThrew, ComputeTop, Finish, Return
  <2> QED
    BY <2>1 DEF TopInv
<1>3. ASSUME NEW i \in Threads, ThreadStep(i)
      PROVE  TopInv'
  <2>1. CASE HashFollow(i) \/ HashFound(i) \/ HashReturn(i)
    <3>1. phase = "hash" /\ UNCHANGED callVars
      BY <2>1 DEF HashFollow, HashFound, HashReturn, InPhase
    <3> QED
      BY <3>1 DEF TopInv, callVars
  <2> QED
    BY <1>3, <2>1, AttachTop, WalkTop, MarkTop, NextEntryTop DEF ThreadStep
<1>4. CASE SaveNext
  BY <1>4 DEF SaveNext, callVars, TopInv, AtTop, Threads
<1>5. ASSUME NEW i \in Threads, Race(i)
      PROVE  TopInv'
  <2>1. phase' = "undefined" /\ bits' = bits
    BY <1>5 DEF Race
  <2> QED
    BY <1>5, <2>1, RaceTop DEF TopInv
<1> QED
  BY <1>1, <1>2, <1>3, <1>4, <1>5 DEF Next

LEMMA TopInvariance == Spec => []TopInv
<1>1. Init => TopInv
  BY DEF Init, TopInv
<1>2. TypeInv /\ ShapeInv /\ TopInv /\ [Next]_vars => TopInv'
  <2> SUFFICES ASSUME TopInv, UNCHANGED vars PROVE TopInv'
    BY NextTop
  <2> QED
    BY DEF vars, TopInv, AtTop, Threads
<1> QED
  BY <1>1, <1>2, TypeInvariance, ShapeInvariance, PTL DEF Spec

(* Threads that insert or hash at the same time meet on the levels that    *)
(* all share: below them, the recursions of two threads have no node in    *)
(* common, in any trie and whatever the batch.  On the shared levels, at   *)
(* most eight threads never come to a node that one of them restructures.  *)
THEOREM Apart == Spec => []ThreadsAreApart
<1>1. TypeInv /\ ShapeInv /\ TopInv => ThreadsAreApart
  <2> SUFFICES ASSUME TypeInv, ShapeInv, NEW i \in Threads, NEW j \in Threads, i # j,
                      NEW k \in (bits + 1)..Len(th[i].stack),
                      NEW m \in (bits + 1)..Len(th[j].stack),
                      th[i].stack[k] = th[j].stack[m]
               PROVE  FALSE
    BY DEF ThreadsAreApart, TopInv
  <2>1. bits \in Nat
    BY DEF TypeInv, StateOK
  <2>2. ASSUME NEW h \in Threads, Len(th[h].stack) >= bits + 1
        PROVE  th[h].pc # "done"
    <3> SUFFICES ASSUME th[h].pc = "done" PROVE FALSE
      OBVIOUS
    <3>1. Len(th[h].stack) = 1
      <4>1. th[h].stack = <<EmptyLabel>> /\ Len(<<EmptyLabel>>) = 1
        BY DEF ShapeInv, PathInv
      <4> QED
        BY <4>1
    <3>2. bits = 0
      BY <2>1, <2>2, <3>1
    <3> QED
      BY <3>2 DEF ShapeInv
  <2>3. th[i].pc # "done" /\ th[j].pc # "done"
    BY <2>1, <2>2
  <2>4. \A h \in {i, j} : /\ th[h].stack \in Seq(Label) /\ Descends(th[h].stack, Target(h))
                          /\ Target(h) \in FullLabel
                          /\ GetInsertionIndex(bits, Target(h)) = h
    BY <2>3, PathFact, BusyFact, PositionFact DEF ShapeInv, PathInv, Target
  <2>5. k \in 1..Len(th[i].stack) /\ m \in 1..Len(th[j].stack) /\ k - 1 >= bits /\ m - 1 >= bits
    BY <2>1
  <2>6. /\ \A b \in 1..(k - 1) : th[i].stack[k][b] = Target(i)[b]
        /\ \A b \in 1..(m - 1) : th[j].stack[m][b] = Target(j)[b]
        /\ k - 1 <= MaxBitCount
    <3>1. /\ th[i].stack \in Seq(Label) /\ Descends(th[i].stack, Target(i)) /\ Target(i) \in FullLabel
          /\ th[j].stack \in Seq(Label) /\ Descends(th[j].stack, Target(j)) /\ Target(j) \in FullLabel
      BY <2>4
    <3>2. \A b \in 1..(m - 1) : th[j].stack[m][b] = Target(j)[b]
      BY <2>5, <3>1, PathStarts
    <3>3. /\ \A b \in 1..(k - 1) : th[i].stack[k][b] = Target(i)[b]
          /\ Len(th[i].stack[k]) >= k - 1 /\ Len(th[i].stack[k]) <= MaxBitCount
          /\ th[i].stack[k] \in Label
      BY <2>5, <3>1, PathStarts
    <3>4. Len(th[i].stack[k]) \in Nat
      BY <3>3, LabelLen
    <3> QED
      BY <2>1, <2>5, <3>2, <3>3, <3>4, MaxBitCountAssumption, SMTT(20)
  <2>7. bits \in 0..MaxBitCount /\ \A b \in 1..bits : Target(i)[b] = Target(j)[b]
    <3>1. /\ bits <= MaxBitCount
          /\ \A b \in 1..bits : b \in 1..(k - 1) /\ b \in 1..(m - 1)
      BY <2>1, <2>5, <2>6, MaxBitCountAssumption
    <3> QED
      BY <2>1, <2>6, <3>1, MaxBitCountAssumption
  <2>8. GetInsertionIndex(bits, Target(i)) = GetInsertionIndex(bits, Target(j))
    BY <2>4, <2>7, SameIndex
  <2> QED
    BY <2>4, <2>8
<1> QED
  BY <1>1, TypeInvariance, ShapeInvariance, TopInvariance, PTL

(* With fewer than 16 threads no two threads ever race: that is what the   *)
(* next two theorems assume of the configuration.                          *)
LEMMA NeverRaces == MaxThreads < 16 => (Spec => [](phase # "undefined"))
<1> SUFFICES ASSUME MaxThreads < 16 PROVE Spec => [](phase # "undefined")
  OBVIOUS
<1>1. TopInv => phase # "undefined"
  BY MaxThreadsAssumption DEF TopInv
<1> QED
  BY <1>1, TopInvariance, PTL

(* Callers that insert new labels only can rely on the README's promise,   *)
(* in any interleaving of up to eight insertion threads: the race that     *)
(* would end the behaviour never happens, every step of every thread is in *)
(* it, and none of them changes or drops a leaf.                           *)
THEOREM LeavesStay ==
  FreshOnly /\ MaxThreads < 16 => (Spec => AppendOnly /\ [](phase # "undefined"))
BY LeavesAreKept, NeverRaces

(***************************************************************************)
(* The README's promise of the leaves, for any labels, batches and         *)
(* interleavings of up to eight insertion threads, when callers insert new *)
(* labels only: what a call adds is added at once when it returns, under   *)
(* one epoch that is later than any before, and never changes; and there   *)
(* is no race that would end the behaviour.                                *)
(***************************************************************************)
THEOREM LeavesAreDictionary ==
  FreshOnly /\ MaxThreads < 16 => (Spec => Leaves!Spec /\ [](phase # "undefined"))
BY LeavesRefine, NeverRaces

-----------------------------------------------------------------------------
(* Tries that one thread inserts into: every trie of stored nodes, and     *)
(* every trie whose labels are inserted one by one.                        *)

(* Which tries have one insertion thread in every call. *)
OneThread == IsStored \/ Batches = {}

-----------------------------------------------------------------------------
(* One thread                                                              *)

(* Nothing waits in updated_nodes: what is saved is in storage. *)
Alone ==
  /\ Threads = {0} /\ bits = 0
  /\ updated = [i \in {0} |-> NoNodes]
  /\ IsStored \/ phase = "idle" \/ single
  /\ th[0].pc = "done" => th[0].work = {}
  /\ saves # <<>> => phase = "insert" /\ th[0].pc = "return" /\ HasStorage

LEMMA SaveAlone ==
  ASSUME Alone, phase # "idle", NEW t, NEW S, Save(0, t, S)
  PROVE  updated' = updated /\ (HasStorage => stored' = Copied(t, S, stored))
         /\ (~HasStorage => stored' = stored) /\ saves' = saves
BY DEF Alone, Save

(* What is attached is saved node by node. *)
LEMMA AttachAlone ==
  ASSUME Alone, phase # "idle", NEW t, NEW n, NEW order, Attach(0, t, n, order)
  PROVE  /\ UNCHANGED <<stored, updated>>
         /\ HasStorage => saves' = order
         /\ ~HasStorage => saves' = saves
BY DEF Alone, Attach, SaveInOrder, Save

(* What the steps of the thread have in common. *)
LEMMA StepAlone ==
  ASSUME Alone, NEW r, th' = [th EXCEPT ![0] = r], r.pc = "done" => r.work = {},
         UNCHANGED <<updated, callVars>>,
         saves' = <<>> \/ (phase = "insert" /\ r.pc = "return" /\ HasStorage)
  PROVE  Alone'
<1>1. Threads' = {0} /\ th'[0] = r
  BY DEF Alone, Threads
<1> QED
  BY <1>1 DEF Alone, callVars, HasStorage

LEMMA GotoAlone ==
  ASSUME Alone, NEW pc, pc # "done", NEW stack, NEW status, Step(0, pc, stack, status),
         UNCHANGED <<updated, callVars>>,
         saves' = <<>> \/ (phase = "insert" /\ pc = "return" /\ HasStorage)
  PROVE  Alone'
<1> DEFINE r == [work |-> th[0].work, stack |-> stack, pc |-> pc, status |-> status]
<1>1. th' = [th EXCEPT ![0] = r] /\ r.pc = pc
  BY DEF Step
<1> HIDE DEF r
<1> QED
  BY <1>1, StepAlone

LEMMA ThreadAlone ==
  ASSUME Alone, ThreadStep(0)
  PROVE  Alone'
<1>1. CASE ThrowSameLabel(0) \/ FollowRoute(0) \/ ReadStatus(0) \/ ClearDirty(0) \/ HashFollow(0)
  <2>1. PICK pc, stack, status : pc # "done" /\ Step(0, pc, stack, status)
    BY <1>1 DEF ThrowSameLabel, FollowRoute, ReadStatus, ClearDirty, HashFollow, Goto
  <2>2. UNCHANGED <<updated, callVars>> /\ saves' = <<>>
    BY <1>1 DEF ThrowSameLabel, FollowRoute, ReadStatus, ClearDirty, HashFollow, InPhase
  <2> QED
    BY <2>1, <2>2, GotoAlone
<1>2. CASE AttachAtLeaf(0) \/ AttachInSlot(0) \/ AttachOnEdge(0)
  <2>1. PICK t, n, order : Attach(0, t, n, order)
    BY <1>2 DEF AttachAtLeaf, AttachInSlot, AttachOnEdge
  <2>2. phase = "insert" /\ saves = <<>>
    BY <1>2 DEF AttachAtLeaf, AttachInSlot, AttachOnEdge, InPhase
  <2>3. UNCHANGED <<updated, callVars>> /\ (~HasStorage => saves' = <<>>)
    BY <2>1, <2>2, AttachAlone DEF Attach
  <2>4. PICK stack, status : Step(0, "return", stack, status)
    BY <2>1 DEF Attach, Goto
  <2> QED
    BY <2>2, <2>3, <2>4, GotoAlone
<1>3. CASE SetDirty(0) \/ SaveAndRestore(0) \/ HashFound(0) \/ HashReturn(0)
  <2>1. phase # "idle"
    BY <1>3 DEF SetDirty, SaveAndRestore, HashFound, HashReturn, InPhase
  <2>2. \/ UNCHANGED <<stored, updated>>
        \/ \E t, S : Save(0, t, S)
    BY <1>3 DEF SetDirty, SaveAndRestore, HashFound, HashReturn, SaveUpdated
  <2>3. UNCHANGED <<updated, callVars>> /\ saves' = <<>>
    <3>1. saves' = saves /\ saves = <<>>
      BY <1>3, SavesStay DEF SetDirty, SaveAndRestore, HashFound, HashReturn, InPhase
    <3> QED
      BY <1>3, <2>1, <2>2, <3>1, SaveAlone DEF SetDirty, SaveAndRestore, HashFound, HashReturn
  <2>4. PICK pc, stack, status : pc # "done" /\ Step(0, pc, stack, status)
    BY <1>3 DEF SetDirty, SaveAndRestore, HashFound, HashReturn, Goto
  <2> QED
    BY <2>3, <2>4, GotoAlone
<1>4. CASE NextEntry(0)
  <2>1. /\ th' = [th EXCEPT ![0] = Recursion(th[0].work \ {Position(0)})]
        /\ UNCHANGED <<updated, callVars>> /\ saves' = <<>>
    BY <1>4 DEF NextEntry, InPhase
  <2>2. Recursion(th[0].work \ {Position(0)}).pc = "done"
          => Recursion(th[0].work \ {Position(0)}).work = {}
    BY RecursionFact
  <2> QED
    BY <2>1, <2>2, StepAlone
<1> QED
  BY <1>1, <1>2, <1>3, <1>4 DEF ThreadStep

(* The one thread gets all entries. *)
LEMMA AllWork ==
  ASSUME NEW b \in Seq(Entry)
  PROVE  WorkOf(b, 0, 0) = DOMAIN b
<1>1. ASSUME NEW k \in DOMAIN b
      PROVE  GetInsertionIndex(0, b[k].label) = 0
  <2> DEFINE l == SubSeq(b[k].label, 1, 0)
             v == CHOOSE g : g = [j \in 0..Len(l) |-> IF j = 0 THEN 0 ELSE 2 * g[j - 1] + l[j]]
  <2>1. Len(l) = 0
    <3>0. b[k] \in Entry
      OBVIOUS
    <3>1. b[k].label \in FullLabel
      BY <3>0 DEF Entry
    <3>2. b[k].label \in Seq(Bit)
      BY <3>1, FullIsLabel, LabelLen
    <3> QED
      BY <3>2
  <2>2. \E g : g = [j \in 0..Len(l) |-> IF j = 0 THEN 0 ELSE 2 * g[j - 1] + l[j]]
    <3> DEFINE g == [j \in 0..0 |-> 0]
    <3>1. g = [j \in 0..Len(l) |-> IF j = 0 THEN 0 ELSE 2 * g[j - 1] + l[j]]
      BY <2>1
    <3> QED
      BY <3>1
  <2>3. v = [j \in 0..Len(l) |-> IF j = 0 THEN 0 ELSE 2 * v[j - 1] + l[j]]
    BY <2>2
  <2>4. GetInsertionIndex(0, b[k].label) = v[Len(l)]
    BY Zenon DEF GetInsertionIndex, BinaryValue
  <2>5. 0 \in 0..Len(l) /\ v[0] = 0
    <3>1. 0 \in 0..Len(l)
      BY <2>1
    <3> HIDE DEF v
    <3> QED
      BY <2>3, <3>1
  <2> QED
    BY <2>1, <2>4, <2>5
<1> QED
  BY <1>1 DEF WorkOf

LEMMA BeginAlone ==
  ASSUME OneThread, TypeInv, Alone, BeginInsert \/ BeginInsertBatch
  PROVE  Alone' /\ th'[0] = Recursion(DOMAIN batch') /\ batch' \in Seq(Entry)
<1>1. PICK b, isSingle, bitCount :
        /\ Begin(b, isSingle, bitCount) /\ b \in Seq(Entry)
        /\ bitCount = 0 /\ (IsStored \/ isSingle)
  <2>1. CASE BeginInsert
    <3>1. PICK e \in Singles : Begin(<<e>>, TRUE, 0)
      BY <2>1 DEF BeginInsert
    <3>2. <<e>> \in Seq(Entry)
      BY SinglesAssumption
    <3> QED
      BY <3>1, <3>2
  <2>2. CASE BeginInsertBatch
    <3>1. PICK bitCount \in {GetLog2(ThreadLimit)}, b \in Batches : Begin(b, FALSE, bitCount)
      BY <2>2 DEF BeginInsertBatch
    <3>2. IsStored /\ b \in Seq(Entry)
      BY <3>1, BatchesAssumption DEF OneThread
    <3>3. bitCount = 0
      BY <3>1, <3>2, BitCountFact
    <3> QED
      BY <3>1, <3>2, <3>3
  <2> QED
    BY <2>1, <2>2
<1>2. /\ bits' = 0 /\ batch' = b /\ single' = isSingle
      /\ th' = [i \in 0..(2^0 - 1) |-> Recursion(WorkOf(b, 0, i))]
      /\ updated' = [i \in 0..(2^0 - 1) |-> NoNodes]
  BY <1>1 DEF Begin
<1>3. 0..(2^0 - 1) = {0}
  OBVIOUS
<1>4. th'[0] = Recursion(WorkOf(b, 0, 0)) /\ Threads' = {0} /\ updated' = [i \in {0} |-> NoNodes]
  BY <1>2, <1>3 DEF Threads
<1>5. (th'[0].pc = "done" => th'[0].work = {}) /\ saves' = <<>>
  BY <1>1, <1>4, RecursionFact DEF Begin, Alone
<1>6. WorkOf(b, 0, 0) = DOMAIN b
  BY <1>1, AllWork
<1> QED
  BY <1>1, <1>2, <1>4, <1>5, <1>6 DEF Alone

LEMMA CallerAlone ==
  ASSUME TypeInv, Alone, CallerStep
  PROVE  Alone'
<1>1. CASE JoinInsertion
  <2>1. /\ th' = [i \in Threads |-> Recursion(WorkOf(batch, bits, i))]
        /\ UNCHANGED <<single, bits, updated, saves>> /\ phase # "idle"
        /\ \A i \in Threads : th[i].pc = "done"
    BY <1>1 DEF JoinInsertion
  <2>2. Threads' = {0} /\ th'[0] = Recursion(WorkOf(batch, bits, 0))
    BY <2>1 DEF Alone, Threads
  <2>3. th'[0].pc = "done" => th'[0].work = {}
    BY <2>2, RecursionFact
  <2>4. saves' = <<>>
    BY <2>1 DEF Alone
  <2> QED
    BY <2>1, <2>2, <2>3, <2>4 DEF Alone
<1>2. CASE JoinHashing
  BY <1>2 DEF JoinHashing, Alone, Threads
<1>3. CASE ComputeTop
  <2>1. UNCHANGED <<th, bits, single>> /\ phase # "idle"
    BY <1>3 DEF ComputeTop
  <2>2. LastThread = 0
    BY DEF Alone, LastThread
  <2>3. PICK t, S : Save(LastThread, t, S)
    BY <1>3 DEF ComputeTop, SaveUpdated
  <2>4. updated' = updated /\ saves' = saves
    BY <2>1, <2>2, <2>3, SaveAlone
  <2>5. saves = <<>>
    BY <1>3 DEF ComputeTop, Alone
  <2> QED
    BY <2>1, <2>4, <2>5 DEF Alone, Threads
<1>4. CASE TaskThrew \/ TopThrew \/ Finish
  <2>1. /\ bits' = 0 /\ th' = [i \in {0} |-> Recursion({})] /\ phase' = "idle"
        /\ updated' = [i \in {0} |-> NoNodes] /\ saves' = saves
    BY <1>4 DEF TaskThrew, TopThrew, Finish, Return, NoThreads
  <2>2. Threads' = {0} /\ th'[0].work = {}
    BY <2>1, RecursionFact DEF Threads
  <2>3. saves = <<>>
    BY <1>4 DEF TaskThrew, TopThrew, Finish, Alone
  <2> QED
    BY <2>1, <2>2, <2>3 DEF Alone
<1> QED
  BY <1>1, <1>2, <1>3, <1>4 DEF CallerStep

LEMMA InitAlone ==
  ASSUME Init
  PROVE  Alone
<1>1. /\ bits = 0 /\ th = [i \in {0} |-> Recursion({})] /\ phase = "idle"
      /\ updated = [i \in {0} |-> NoNodes] /\ saves = <<>>
  BY DEF Init, NoThreads
<1> QED
  BY <1>1, RecursionFact DEF Alone, Threads

(* There is no other thread to race with. *)
LEMMA NoRace ==
  ASSUME TypeInv, Alone, NEW i \in Threads
  PROVE  ~Race(i)
<1> SUFFICES ASSUME Race(i) PROVE FALSE
  OBVIOUS
<1>1. PICK k \in DOMAIN batch : GetInsertionIndex(bits, batch[k].label) # i
  BY DEF Race, IsShared
<1>2. bits = 0 /\ i = 0 /\ batch \in Seq(Entry)
  BY DEF Alone, TypeInv, StateOK
<1>3. k \in WorkOf(batch, 0, 0)
  BY <1>2, AllWork
<1> QED
  BY <1>1, <1>2, <1>3 DEF WorkOf

LEMMA SaveNextAlone ==
  ASSUME Alone, SaveNext
  PROVE  Alone'
BY DEF SaveNext, callVars, Alone, Threads, HasStorage

LEMMA NextAlone ==
  ASSUME OneThread, TypeInv, Alone, Next
  PROVE  Alone'
<1>1. ASSUME NEW i \in Threads, ThreadStep(i)
      PROVE  Alone'
  BY <1>1, ThreadAlone DEF Alone
<1> QED
  BY <1>1, BeginAlone, CallerAlone, SaveNextAlone, NoRace DEF Next

-----------------------------------------------------------------------------
(* What is in storage can be loaded                                        *)

(* Storage has the nodes of the trie, up to those about to be saved, and   *)
(* the children of what is saved are there: of a fork they are saved       *)
(* before it, of the root right after it.                                  *)
StoredIn(S) == \A n \in DOMAIN stored : IsNodeOf(stored[n], S)
RootMayWait(x) ==
  \A n \in DOMAIN stored :
    \/ IsNodeOf(stored[n], DOMAIN stored)
    \/ n = EmptyLabel /\ IsNodeOf(stored[n], DOMAIN stored \cup {x})

NothingToSave == saves = <<>> /\ StoredIn(DOMAIN stored) /\ DOMAIN nodes = DOMAIN stored

OneToSave ==
  \E x : /\ saves = <<x>> /\ DOMAIN nodes = DOMAIN stored \cup {x}
         /\ RootMayWait(x) /\ IsNodeOf(nodes[x], DOMAIN stored)

TwoToSave ==
  \E x, y :
     /\ saves = <<x, y>> /\ DOMAIN nodes = DOMAIN stored \cup {x, y}
     /\ StoredIn(DOMAIN stored)
     /\ \/ /\ x = EmptyLabel /\ IsNodeOf(nodes[x], DOMAIN stored \cup {y})
           /\ IsNodeOf(nodes[y], DOMAIN stored)
        \/ /\ IsNodeOf(nodes[x], DOMAIN stored)
           /\ IsNodeOf(nodes[y], DOMAIN stored \cup {x})

ThreeToSave ==
  \E x, y, z :
     /\ saves = <<x, y, z>> /\ DOMAIN nodes = DOMAIN stored \cup {x, y, z}
     /\ StoredIn(DOMAIN stored)
     /\ IsNodeOf(nodes[x], DOMAIN stored)
     /\ IsNodeOf(nodes[y], DOMAIN stored \cup {x})
     /\ IsNodeOf(nodes[z], DOMAIN stored \cup {x, y})

LoadsInv ==
  HasStorage => /\ DOMAIN stored \subseteq Label /\ EmptyLabel \in DOMAIN stored
                /\ NothingToSave \/ OneToSave \/ TwoToSave \/ ThreeToSave

LEMMA LoadsAtRest ==
  ASSUME saves = <<>>
  PROVE  LoadsInv <=> (HasStorage => Closed(stored) /\ DOMAIN stored = DOMAIN nodes)
<1>1. \A x, y, z : saves # <<x>> /\ saves # <<x, y>> /\ saves # <<x, y, z>>
  OBVIOUS
<1>2. ~OneToSave /\ ~TwoToSave /\ ~ThreeToSave
  BY <1>1 DEF OneToSave, TwoToSave, ThreeToSave
<1> QED
  BY <1>2 DEF LoadsInv, NothingToSave, StoredIn, Closed

LEMMA RestLoads ==
  ASSUME saves' = <<>>, HasStorage => Closed(stored') /\ DOMAIN stored' = DOMAIN nodes'
  PROVE  LoadsInv'
BY DEF LoadsInv, NothingToSave, StoredIn, Closed, HasStorage

LEMMA CopiedIsClosed ==
  ASSUME NEW t, Closed(t), NEW S, NEW into, Closed(into), DOMAIN t = DOMAIN into \cup S
  PROVE  Closed(Copied(t, S, into)) /\ DOMAIN Copied(t, S, into) = DOMAIN t
<1> DEFINE u == Copied(t, S, into)
<1>1. /\ DOMAIN u = DOMAIN t
      /\ \A x \in DOMAIN t : IF x \in S THEN u[x] \in {t[x], SetDirtyBit(t[x], FALSE)}
                                        ELSE u[x] = into[x]
  BY DEF Copied
<1>2. ASSUME NEW x \in DOMAIN t
      PROVE  IsNodeOf(u[x], DOMAIN t)
  <2>1. IsNodeOf(t[x], DOMAIN t)
    BY DEF Closed
  <2>2. IsNodeOf(SetDirtyBit(t[x], FALSE), DOMAIN t)
    BY <2>1, RemarkedIsNode DEF SetDirtyBit
  <2>3. x \notin S => x \in DOMAIN into /\ IsNodeOf(into[x], DOMAIN t)
    BY NodeGrows DEF Closed
  <2> HIDE DEF u
  <2> QED
    BY <1>1, <2>1, <2>2, <2>3
<1> HIDE DEF u
<1>3. Closed(u)
  BY <1>1, <1>2 DEF Closed
<1> QED
  BY <1>1, <1>3 DEF u

LEMMA SaveLoads ==
  ASSUME Alone, LoadsInv, phase # "idle", NEW t, Closed(t), NEW S, Save(0, t, S),
         DOMAIN t = DOMAIN nodes \cup S, DOMAIN nodes' = DOMAIN t, saves = <<>>
  PROVE  LoadsInv'
<1>0. saves' = <<>>
  BY SaveAlone
<1>1. HasStorage => stored' = Copied(t, S, stored) /\ Closed(stored) /\ DOMAIN stored = DOMAIN nodes
  BY SaveAlone, LoadsAtRest
<1>2. HasStorage => Closed(Copied(t, S, stored)) /\ DOMAIN Copied(t, S, stored) = DOMAIN t
  BY <1>1, CopiedIsClosed
<1>3. HasStorage => Closed(stored') /\ DOMAIN stored' = DOMAIN nodes'
  BY <1>1, <1>2
<1> QED
  BY <1>0, <1>3, RestLoads


LEMMA HashLoads ==
  ASSUME TypeInv, Alone, LoadsInv, phase # "idle",
         NEW t, t = nodes' , Closed(t), DOMAIN t = DOMAIN nodes, SaveUpdated(0, t), saves = <<>>
  PROVE  LoadsInv'
<1> DEFINE S == {n \in DOMAIN t : t[n] # nodes[n]}
<1>1. Save(0, t, S) /\ DOMAIN t = DOMAIN nodes \cup S
  BY DEF SaveUpdated
<1> HIDE DEF S
<1> QED
  BY <1>1, SaveLoads

(* The steps of a thread and of the caller find nothing left to save. *)
LEMMA AlonesThread == Alone => 0 \in Threads
BY DEF Alone

LEMMA ThreadIsAtRest ==
  ASSUME NEW i, ThreadStep(i)
  PROVE  saves = <<>>
BY DEF ThreadStep, ThrowSameLabel, FollowRoute, AttachAtLeaf, AttachInSlot, AttachOnEdge,
       SetDirty, ReadStatus, ClearDirty, SaveAndRestore, NextEntry, HashFollow, HashFound,
       HashReturn, InPhase

LEMMA CallerIsAtRest ==
  ASSUME Alone, CallerStep
  PROVE  saves = <<>>
BY DEF Alone, CallerStep, JoinInsertion, TaskThrew, JoinHashing, TopThrew, ComputeTop, Finish

(* The children of what is attached are there, or are saved before it: the *)
(* fork's are its two sides, the root's may be the new leaf.               *)
LEMMA AttachLoads ==
  ASSUME TypeInv, ShapeInv, Alone, LoadsInv,
         AttachAtLeaf(0) \/ AttachInSlot(0) \/ AttachOnEdge(0)
  PROVE  LoadsInv'
<1> SUFFICES ASSUME HasStorage PROVE LoadsInv'
  BY DEF LoadsInv, HasStorage
<1>0. 0 \in Threads /\ phase # "idle" /\ th[0].pc # "done" /\ Current(0) # Target(0)
      /\ saves = <<>>
  BY DEF AttachAtLeaf, AttachInSlot, AttachOnEdge, InPhase
<1>1. /\ Closed(nodes) /\ Current(0) \in DOMAIN nodes /\ Target(0) \in FullLabel
      /\ Shaped(nodes) /\ Target(0) \in Label
  BY <1>0, PathFact
<1>2. Closed(stored) /\ DOMAIN stored = DOMAIN nodes /\ StoredIn(DOMAIN stored)
  BY <1>0, LoadsAtRest DEF Closed, StoredIn
<1>3. PICK h : LeafOf(0) = NewLeaf(h)
  BY DEF LeafOf
<1> DEFINE l == Target(0)
           c == Current(0)
           f == CommonPrefix(l, c)
<1>4. IsNodeOf(NewLeaf(h), DOMAIN stored)
  BY <1>2, LeafIsNode DEF Closed
<1>5. CASE AttachInSlot(0)
  <2>1. /\ Attach(0, FillSlot(nodes, c, l, NewLeaf(h)), c, <<c, l>>)
        /\ ~SplitsLeaf(nodes, c) /\ HasFreeSlot(nodes, c, l)
    BY <1>3, <1>5 DEF AttachInSlot
  <2>2. c = EmptyLabel
    BY <1>0, <1>1, <2>1, SlotDescends
  <2>3. /\ nodes' = FillSlot(nodes, c, l, NewLeaf(h)) /\ saves' = <<c, l>> /\ stored' = stored
    BY <1>0, <2>1, AttachAlone DEF Attach
  <2>4. /\ DOMAIN nodes' = DOMAIN nodes \cup {l} /\ nodes'[l] = NewLeaf(h)
        /\ nodes'[c] = SetChild(nodes[c], NextBit(c, l), l)
    BY <1>0, <1>1, <2>3 DEF FillSlot
  <2>5. IsNodeOf(nodes'[c], DOMAIN stored \cup {l})
    <3>1. IsNodeOf(nodes[c], DOMAIN stored \cup {l})
      BY <1>1, <1>2, NodeGrows DEF Closed
    <3> QED
      BY <2>4, <3>1, SetChildIsNode
  <2> HIDE DEF l, c
  <2>6. DOMAIN nodes' = DOMAIN stored \cup {c, l}
    BY <1>1, <1>2, <2>4 DEF c
  <2>7. TwoToSave'
    BY <1>2, <1>4, <2>2, <2>3, <2>4, <2>5, <2>6 DEF TwoToSave, StoredIn
  <2> QED
    BY <1>2, <2>3, <2>7 DEF LoadsInv, Closed
<1>6. CASE AttachAtLeaf(0) \/ AttachOnEdge(0)
  <2>1. PICK t \in {SplitLeaf(nodes, c, l, NewLeaf(h)), SplitEdge(nodes, c, l, NewLeaf(h))} :
          Attach(0, t, f, ChildrenFirst(t, f))
    BY <1>3, <1>6 DEF AttachAtLeaf, AttachOnEdge
  <2>2. f # l
    <3>1. f \notin FullLabel
      BY <1>0, <1>1, CommonPrefixIsNotFull DEF Closed
    <3> QED
      BY <1>1, <3>1
  <2>3. /\ nodes' = t /\ saves' = <<t[f].left, t[f].right, f>> /\ stored' = stored
    BY <1>0, <2>1, AttachAlone DEF Attach, ChildrenFirst
  <2>4. /\ DOMAIN t = DOMAIN nodes \cup {l, f} /\ t[l] = NewLeaf(h)
        /\ t[f] = Fork(nodes, c, l)
    <3> HIDE DEF f
    <3>1. CASE t = SplitLeaf(nodes, c, l, NewLeaf(h))
      BY <1>0, <2>2, <3>1 DEF SplitLeaf, f
    <3>2. CASE t = SplitEdge(nodes, c, l, NewLeaf(h))
      BY <1>0, <2>2, <3>2 DEF SplitEdge, f
    <3> QED
      BY <2>1, <3>1, <3>2
  <2>5. \/ t[f].left = l /\ t[f].right = c
        \/ t[f].left = c /\ t[f].right = l
    BY <2>4 DEF Fork, Node
  <2>6. c # f => IsNodeOf(t[c], DOMAIN stored)
    <3> SUFFICES ASSUME c # f PROVE IsNodeOf(t[c], DOMAIN stored)
      OBVIOUS
    <3>1. IsNodeOf(nodes[c], DOMAIN stored)
      BY <1>1, <1>2 DEF Closed
    <3>2. IsNodeOf(Node(nodes[c].left, nodes[c].right, ZeroHash, TRUE), DOMAIN stored)
      BY <3>1, RemarkedIsNode
    <3>3. t[c] \in {nodes[c], Node(nodes[c].left, nodes[c].right, ZeroHash, TRUE)}
      <4>1. c \in DOMAIN nodes /\ c # l
        BY <1>0, <1>1
      <4> HIDE DEF c, f, l
      <4>2. CASE t = SplitLeaf(nodes, c, l, NewLeaf(h))
        BY <3>2, <4>1, <4>2 DEF SplitLeaf, f
      <4>3. CASE t = SplitEdge(nodes, c, l, NewLeaf(h))
        BY <4>1, <4>3 DEF SplitEdge, f
      <4> QED
        BY <2>1, <4>2, <4>3
    <3> QED
      BY <3>1, <3>2, <3>3
  <2>7. c # f
    <3>1. /\ SplitsLeaf(nodes, c) \/ (~HasFreeSlot(nodes, c, l) /\ ~HasRoute(nodes, c, l))
      BY <1>6 DEF AttachAtLeaf, AttachOnEdge
    <3>2. ~Starts(c, l)
      BY <1>0, <1>1, <3>1, SplitLeaves
    <3>3. Starts(f, l)
      BY <1>1, CommonPrefixIsLongest DEF Closed
    <3> QED
      BY <3>2, <3>3
  <2> HIDE DEF l, c, f
  <2>8. IsNodeOf(t[t[f].left], DOMAIN stored) /\ IsNodeOf(t[t[f].right], DOMAIN stored)
    BY <1>4, <2>4, <2>5, <2>6, <2>7
  <2>9. IsNodeOf(t[t[f].right], DOMAIN stored \cup {t[f].left})
    BY <2>8, NodeGrows
  <2>10. IsNodeOf(t[f], DOMAIN stored \cup {t[f].left, t[f].right})
    BY <2>4, <2>5, ForkIsNode
  <2>11. DOMAIN t = DOMAIN stored \cup {t[f].left, t[f].right, f}
    BY <1>1, <1>2, <2>4, <2>5 DEF c
  <2>12. ThreeToSave'
    BY <1>2, <2>3, <2>8, <2>9, <2>10, <2>11 DEF ThreeToSave, StoredIn
  <2> QED
    BY <1>2, <2>3, <2>12 DEF LoadsInv, Closed
<1> QED
  BY <1>5, <1>6

(* The next node goes to storage. *)
LEMMA SaveOne ==
  ASSUME NEW x, stored' = Copied(nodes, {x}, stored), NEW S, IsNodeOf(nodes[x], S)
  PROVE  /\ DOMAIN stored' = DOMAIN stored \cup {x}
         /\ IsNodeOf(stored'[x], S)
         /\ \A n \in DOMAIN stored : n # x => stored'[n] = stored[n]
<1>1. IsNodeOf(SetDirtyBit(nodes[x], FALSE), S)
  BY RemarkedIsNode DEF SetDirtyBit
<1> QED
  BY <1>1 DEF Copied

LEMMA SaveNextLoads ==
  ASSUME Alone, TypeInv, LoadsInv, SaveNext
  PROVE  LoadsInv'
<1>1. /\ saves # <<>> /\ HasStorage /\ stored' = Copied(nodes, {Head(saves)}, stored)
      /\ saves' = Tail(saves) /\ nodes' = nodes /\ DOMAIN nodes \subseteq Label
  BY DEF SaveNext, Alone, TypeInv, Closed
<1>2. DOMAIN stored \subseteq Label /\ EmptyLabel \in DOMAIN stored
  BY <1>1 DEF LoadsInv
<1>3. CASE OneToSave
  <2>1. PICK x : /\ saves = <<x>> /\ DOMAIN nodes = DOMAIN stored \cup {x}
                 /\ RootMayWait(x) /\ IsNodeOf(nodes[x], DOMAIN stored)
    BY <1>3 DEF OneToSave
  <2>2. Head(saves) = x /\ saves' = <<>>
    BY <1>1, <2>1
  <2>3. /\ DOMAIN stored' = DOMAIN stored \cup {x}
        /\ IsNodeOf(stored'[x], DOMAIN stored)
        /\ \A n \in DOMAIN stored : n # x => stored'[n] = stored[n]
    BY <1>1, <2>1, <2>2, SaveOne
  <2>4. \A n \in DOMAIN stored' : IsNodeOf(stored'[n], DOMAIN stored')
    BY <2>1, <2>3, NodeGrows DEF RootMayWait
  <2>5. HasStorage => Closed(stored') /\ DOMAIN stored' = DOMAIN nodes'
    BY <1>1, <1>2, <2>1, <2>3, <2>4 DEF Closed
  <2> QED
    BY <2>2, <2>5, RestLoads
<1>4. CASE TwoToSave
  <2>1. PICK x, y :
     /\ saves = <<x, y>> /\ DOMAIN nodes = DOMAIN stored \cup {x, y}
     /\ StoredIn(DOMAIN stored)
     /\ \/ /\ x = EmptyLabel /\ IsNodeOf(nodes[x], DOMAIN stored \cup {y})
           /\ IsNodeOf(nodes[y], DOMAIN stored)
        \/ /\ IsNodeOf(nodes[x], DOMAIN stored)
           /\ IsNodeOf(nodes[y], DOMAIN stored \cup {x})
    BY <1>4 DEF TwoToSave
  <2>2. Head(saves) = x /\ saves' = <<y>>
    BY <1>1, <2>1
  <2>3. CASE x = EmptyLabel /\ IsNodeOf(nodes[x], DOMAIN stored \cup {y})
             /\ IsNodeOf(nodes[y], DOMAIN stored)
    <3>1. /\ DOMAIN stored' = DOMAIN stored \cup {x}
          /\ IsNodeOf(stored'[x], DOMAIN stored \cup {y})
          /\ \A n \in DOMAIN stored : n # x => stored'[n] = stored[n]
      BY <1>1, <2>2, <2>3, SaveOne
    <3>2. DOMAIN stored' = DOMAIN stored
      BY <1>2, <2>3, <3>1
    <3>3. RootMayWait(y)'
      BY <2>1, <2>3, <3>1, <3>2 DEF RootMayWait, StoredIn
    <3>4. OneToSave'
      BY <1>1, <1>2, <2>1, <2>2, <2>3, <3>2, <3>3 DEF OneToSave
    <3> QED
      BY <1>2, <3>2, <3>4 DEF LoadsInv
  <2>4. CASE IsNodeOf(nodes[x], DOMAIN stored) /\ IsNodeOf(nodes[y], DOMAIN stored \cup {x})
    <3>1. /\ DOMAIN stored' = DOMAIN stored \cup {x}
          /\ IsNodeOf(stored'[x], DOMAIN stored)
          /\ \A n \in DOMAIN stored : n # x => stored'[n] = stored[n]
      BY <1>1, <2>2, <2>4, SaveOne
    <3>2. RootMayWait(y)'
      BY <2>1, <3>1, NodeGrows DEF RootMayWait, StoredIn
    <3>3. OneToSave'
      BY <1>1, <2>1, <2>2, <2>4, <3>1, <3>2 DEF OneToSave
    <3> QED
      BY <1>1, <1>2, <2>1, <3>1, <3>3 DEF LoadsInv
  <2> QED
    BY <2>1, <2>3, <2>4
<1>5. CASE ThreeToSave
  <2>1. PICK x, y, z :
     /\ saves = <<x, y, z>> /\ DOMAIN nodes = DOMAIN stored \cup {x, y, z}
     /\ StoredIn(DOMAIN stored)
     /\ IsNodeOf(nodes[x], DOMAIN stored)
     /\ IsNodeOf(nodes[y], DOMAIN stored \cup {x})
     /\ IsNodeOf(nodes[z], DOMAIN stored \cup {x, y})
    BY <1>5 DEF ThreeToSave
  <2>2. Head(saves) = x /\ saves' = <<y, z>>
    BY <1>1, <2>1
  <2>3. /\ DOMAIN stored' = DOMAIN stored \cup {x}
        /\ IsNodeOf(stored'[x], DOMAIN stored)
        /\ \A n \in DOMAIN stored : n # x => stored'[n] = stored[n]
    BY <1>1, <2>1, <2>2, SaveOne
  <2>4. StoredIn(DOMAIN stored)'
    BY <2>1, <2>3, NodeGrows DEF StoredIn
  <2>5. DOMAIN stored \cup {x, y} = DOMAIN stored' \cup {y}
    BY <2>3
  <2>6. TwoToSave'
    BY <1>1, <2>1, <2>2, <2>3, <2>4, <2>5 DEF TwoToSave
  <2> QED
    BY <1>1, <1>2, <2>1, <2>3, <2>6 DEF LoadsInv
<1> QED
  BY <1>1, <1>3, <1>4, <1>5 DEF LoadsInv, NothingToSave

LEMMA ThreadLoads ==
  ASSUME TypeInv, ShapeInv, Alone, LoadsInv, ThreadStep(0), TypeInv'
  PROVE  LoadsInv'
<1>0. saves = <<>> /\ (HasStorage => Closed(stored) /\ DOMAIN stored = DOMAIN nodes)
  BY ThreadIsAtRest, LoadsAtRest
<1>1. CASE \/ ThrowSameLabel(0) \/ FollowRoute(0) \/ ReadStatus(0) \/ ClearDirty(0)
           \/ HashFollow(0) \/ NextEntry(0)
  <2>1. stored' = stored /\ DOMAIN nodes' = DOMAIN nodes /\ saves' = <<>>
    BY <1>0, <1>1 DEF ThrowSameLabel, FollowRoute, ReadStatus, ClearDirty, HashFollow, NextEntry
  <2> QED
    BY <1>0, <2>1, RestLoads
<1>2. CASE AttachAtLeaf(0) \/ AttachInSlot(0) \/ AttachOnEdge(0)
  BY <1>2, AttachLoads
<1>3. CASE SetDirty(0) \/ SaveAndRestore(0)
  <2>1. 0 \in Threads /\ phase # "idle" /\ Closed(nodes) /\ Closed(nodes')
    BY <1>3 DEF SetDirty, SaveAndRestore, InPhase, TypeInv
  <2>2. DOMAIN nodes' = DOMAIN nodes
    BY <1>3 DEF SetDirty, SaveAndRestore
  <2>3. Current(0) \in DOMAIN nodes /\ (Len(th[0].stack) > 1 => Caller(0) \in DOMAIN nodes)
    BY <2>1, StackFact
  <2>4. CASE UNCHANGED stored
    <3>1. saves' = <<>>
      BY <1>0, <1>3, AlonesThread, SavesStay
    <3> QED
      BY <1>0, <2>2, <2>4, <3>1, RestLoads
  <2>5. CASE SetDirty(0) /\ ~UNCHANGED stored
    <3>1. Save(0, nodes', {Caller(0)}) /\ Caller(0) \in DOMAIN nodes
      BY <2>3, <2>5 DEF SetDirty
    <3> QED
      BY <1>0, <2>1, <2>2, <3>1, SaveLoads
  <2>6. CASE SaveAndRestore(0)
    <3>1. Save(0, nodes, {Current(0)})
      BY <2>6 DEF SaveAndRestore
    <3> QED
      BY <1>0, <2>1, <2>2, <2>3, <3>1, SaveLoads
  <2> QED
    BY <1>3, <2>4, <2>5, <2>6
<1>4. CASE HashFound(0) \/ HashReturn(0)
  <2>1. phase # "idle" /\ Closed(nodes')
    BY <1>4 DEF HashFound, HashReturn, InPhase, TypeInv
  <2>2. SaveUpdated(0, nodes') /\ DOMAIN nodes' = DOMAIN nodes
    BY <1>4 DEF HashFound, HashReturn, UpdateHash
  <2> QED
    BY <1>0, <2>1, <2>2, HashLoads
<1> QED
  BY <1>1, <1>2, <1>3, <1>4 DEF ThreadStep

(* With nothing in updated_nodes, Merged is what is in storage. *)
LEMMA MergedAlone ==
  ASSUME Alone
  PROVE  /\ DOMAIN Merged = DOMAIN stored
         /\ Merged = [n \in DOMAIN stored |-> stored[n]]
<1>1. DOMAIN updated = {0} /\ DOMAIN updated[0] = {}
  BY DEF Alone, NoNodes
<1>2. UNION {DOMAIN updated[i] : i \in DOMAIN updated} = {}
  BY <1>1
<1>3. \A n : {i \in DOMAIN updated : n \in DOMAIN updated[i]} = {}
  BY <1>1
<1> QED
  BY <1>2, <1>3 DEF Merged

LEMMA CallerLoads ==
  ASSUME TypeInv, Alone, LoadsInv, CallerStep, TypeInv'
  PROVE  LoadsInv'
<1>0. saves = <<>> /\ saves' = <<>> /\ (HasStorage => Closed(stored) /\ DOMAIN stored = DOMAIN nodes)
  BY CallerIsAtRest, SavesStay, LoadsAtRest
<1>1. CASE JoinInsertion \/ JoinHashing \/ TaskThrew \/ TopThrew
  <2>1. UNCHANGED <<nodes, stored>>
    BY <1>1 DEF JoinInsertion, JoinHashing, TaskThrew, TopThrew
  <2> QED
    BY <1>0, <2>1, RestLoads
<1>2. CASE ComputeTop
  <2>1. phase # "idle" /\ Closed(nodes') /\ LastThread = 0
    BY <1>2 DEF ComputeTop, TypeInv, Alone, LastThread
  <2>2. SaveUpdated(0, nodes') /\ DOMAIN nodes' = DOMAIN nodes
    BY <1>2, <2>1 DEF ComputeTop, UpdateHash
  <2> QED
    BY <1>0, <2>1, <2>2, HashLoads
<1>3. CASE Finish
  <2>1. nodes' = nodes /\ stored' = IF HasStorage THEN Merged ELSE stored
    BY <1>3 DEF Finish
  <2>2. HasStorage => Closed(stored') /\ DOMAIN stored' = DOMAIN nodes'
    BY <1>0, <2>1, MergedAlone DEF Closed
  <2> QED
    BY <1>0, <2>2, RestLoads
<1> QED
  BY <1>1, <1>2, <1>3 DEF CallerStep

LEMMA InitLoads ==
  ASSUME Init
  PROVE  LoadsInv
BY EmptyTrieIsClosed, LoadsAtRest DEF Init

LEMMA SameLoads ==
  ASSUME LoadsInv, UNCHANGED <<nodes, stored, saves>>
  PROVE  LoadsInv'
BY DEF LoadsInv, NothingToSave, OneToSave, TwoToSave, ThreeToSave, StoredIn, RootMayWait, HasStorage

LEMMA NextLoads ==
  ASSUME TypeInv, ShapeInv, Alone, LoadsInv, Next, TypeInv'
  PROVE  LoadsInv'
<1>1. CASE BeginInsert \/ BeginInsertBatch
  <2>1. UNCHANGED <<nodes, stored, saves>>
    BY <1>1 DEF BeginInsert, BeginInsertBatch, Begin
  <2> QED
    BY <2>1, SameLoads
<1>2. ASSUME NEW i \in Threads, ThreadStep(i)
      PROVE  LoadsInv'
  BY <1>2, ThreadLoads DEF Alone
<1> QED
  BY <1>1, <1>2, CallerLoads, SaveNextLoads, NoRace DEF Next

LEMMA LoadsInvariance == OneThread => (Spec => [](Alone /\ LoadsInv))
<1> SUFFICES ASSUME OneThread PROVE Spec => [](Alone /\ LoadsInv)
  OBVIOUS
<1>1. Init => Alone /\ LoadsInv
  BY InitAlone, InitLoads
<1>2. TypeInv /\ TypeInv' /\ ShapeInv /\ Alone /\ LoadsInv /\ [Next]_vars
        => (Alone /\ LoadsInv)'
  <2> SUFFICES ASSUME TypeInv, TypeInv', ShapeInv, Alone, LoadsInv, [Next]_vars
               PROVE  (Alone /\ LoadsInv)'
    OBVIOUS
  <2>1. CASE Next
    BY <2>1, NextAlone, NextLoads
  <2>2. CASE UNCHANGED vars
    BY <2>2, SameLoads DEF vars, Alone, HasStorage, Threads
  <2> QED
    BY <2>1, <2>2
<1> QED
  BY <1>1, <1>2, TypeInvariance, ShapeInvariance, PTL DEF Spec

(* A trie that one thread inserts into can be loaded from storage in the   *)
(* middle of a call too, node after node saved one by one, whatever        *)
(* callers insert, labels they have already inserted included:             *)
(* load_from_storage finds every child it asks for, except a new leaf of   *)
(* the root, which is saved right after it.                                *)
THEOREM AlwaysLoads == OneThread => (Spec => []StorageLoads)
<1>1. LoadsInv => StorageLoads
  <2> SUFFICES ASSUME LoadsInv, HasStorage PROVE StorageLoads
    BY DEF StorageLoads
  <2>1. EmptyLabel \in DOMAIN stored
    BY DEF LoadsInv
  <2>2. CASE NothingToSave \/ TwoToSave \/ ThreeToSave
    <3>1. StoredIn(DOMAIN stored)
      BY <2>2 DEF NothingToSave, TwoToSave, ThreeToSave
    <3> QED
      BY <2>1, <3>1 DEF StoredIn, IsNodeOf, StorageLoads
  <2>3. CASE OneToSave
    <3>1. PICK x : saves = <<x>> /\ RootMayWait(x)
      BY <2>3 DEF OneToSave
    <3> QED
      BY <2>1, <3>1 DEF RootMayWait, IsNodeOf, StorageLoads
  <2> QED
    BY <2>2, <2>3 DEF LoadsInv
<1> QED
  BY <1>1, LoadsInvariance, PTL

-----------------------------------------------------------------------------
(* The trie as it is meant while a recursion returns                       *)

(* The nodes of a recursion are at different depths, above its label. *)
LEMMA Deeper ==
  ASSUME NEW s \in Seq(Label), NEW l, Descends(s, l),
         NEW j \in 1..Len(s), NEW k \in 1..Len(s), j < k
  PROVE  Len(s[j]) < Len(s[k]) /\ s[j] # s[k] /\ Starts(s[j], l)
<1>0. PICK n \in Nat : Len(s) = n
  OBVIOUS
<1>1. \A i \in 1..n : Len(s[i]) \in Nat
  BY <1>0, LabelLen
<1>2. \A i \in 1..(n - 1) : Starts(s[i], l) /\ Len(s[i]) < Len(s[i + 1])
  BY <1>0, DescendsFact DEF IsUnder
<1> DEFINE B == {i \in 1..n : j < i /\ ~(Len(s[j]) < Len(s[i]))}
<1>3. B = {}
  <2> SUFFICES ASSUME B # {} PROVE FALSE
    OBVIOUS
  <2>0. \A S : S \subseteq Nat /\ S # {} => \E i \in S : \A m \in S : i <= m
    BY LeastNatural
  <2>1. PICK i \in B : \A m \in B : i <= m
    <3>1. B \subseteq Nat
      OBVIOUS
    <3> HIDE DEF B
    <3> QED
      BY <2>0, <3>1
  <2>2. i - 1 \in 1..(n - 1) /\ j <= i - 1 /\ (i - 1) + 1 = i
    BY <1>0, <2>1
  <2>3. Len(s[i - 1]) < Len(s[i])
    BY <1>2, <2>2
  <2>4. i - 1 \notin B
    BY <2>1, <2>2
  <2>5. i - 1 = j \/ Len(s[j]) < Len(s[i - 1])
    BY <2>2, <2>4
  <2>6. Len(s[j]) \in Nat /\ Len(s[i - 1]) \in Nat /\ Len(s[i]) \in Nat
    BY <1>0, <1>1, <2>2
  <2> QED
    BY <2>1, <2>3, <2>5, <2>6
<1>4. Len(s[j]) < Len(s[k])
  BY <1>0, <1>3
<1>5. j \in 1..(n - 1)
  BY <1>0
<1> QED
  BY <1>0, <1>1, <1>2, <1>4, <1>5

(* Each node of a recursion is a child of the one before. *)
OnRoute(t, s, l) ==
  \A k \in 1..(Len(s) - 1) : s[k + 1] = ChildOn(t[s[k]], l[Len(s[k]) + 1])
Passed(s) == {s[k] : k \in 1..(Len(s) - 1)}

(* While a recursion returns with a new node, the caller does not refer to *)
(* it yet, and save_to_storage has the mark of the node it copies.         *)
Marking == phase = "insert" /\ th[0].pc \in AfterAttach
Live ==
  IF Marking
  THEN [x \in DOMAIN nodes |->
          IF Len(th[0].stack) > 1 /\ x = Caller(0)
          THEN SetChild(nodes[x], NextBit(x, Target(0)), Current(0))
          ELSE IF th[0].pc = "restore" /\ x = Current(0) THEN SetDirtyBit(nodes[x], TRUE)
          ELSE nodes[x]]
  ELSE nodes
Unmarked == IF Marking THEN Passed(th[0].stack) ELSE {}

(* The trie is whole, the recursion goes down its children, and a clean    *)
(* node that the recursion has not still to mark has the hash of its       *)
(* children.                                                               *)
TreeInv ==
  /\ nodes = [x \in DOMAIN nodes |-> nodes[x]]
  /\ Compact(Live)
  /\ th[0].pc # "done" => OnRoute(Live, th[0].stack, Target(0))
  /\ \A n \in DOMAIN Live \ Unmarked : Good(Live, n)

(* Every dirty node is one that hashing will come to. *)
InsertInv ==
  phase = "insert" =>
    /\ th[0].pc # "failed"
    /\ th[0].pc \in {"clear", "restore"} => th[0].status = TRUE
    /\ th[0].pc \in {"status", "clear"} => nodes[Current(0)].dirty = TRUE
    /\ \A d \in DOMAIN Live :
         Live[d].dirty => \E k \in DOMAIN batch : Covers(Live, d, batch[k].label)

(* A node that the recursion returns to, or the sibling of one. *)
OnWay(t, s, d, l) ==
  \E j \in 1..(Len(s) - 1) :
    d = s[j] \/ (d # EmptyLabel /\ d = ChildOn(t[s[j]], 1 - l[Len(s[j]) + 1]))

Waits(d) ==
  \/ \E k \in th[0].work :
       (th[0].pc = "return" => k # Position(0)) /\ Covers(nodes, d, batch[k].label)
  \/ th[0].pc = "return" /\ OnWay(nodes, th[0].stack, d, Target(0))

(* Hashing comes to every dirty node; a batch leaves the root to the end.  *)
HashingInv ==
  phase = "hash" =>
    /\ th[0].pc \in {"call", "return", "done"}
    /\ th[0].pc = "call" =>
         \A p \in DOMAIN nodes :
           Starts(p, Target(0)) =>
             \/ \E k \in 1..Len(th[0].stack) : p = th[0].stack[k]
             \/ IsUnder(p, Current(0), Target(0)[Len(Current(0)) + 1])
    /\ \A d \in DOMAIN nodes : nodes[d].dirty /\ (d # EmptyLabel \/ single) => Waits(d)

SettledInv ==
  /\ phase \notin {"insert", "hash"} => th[0].pc = "done"
  /\ phase \in {"idle", "save"} => \A d \in DOMAIN nodes : ~nodes[d].dirty
  /\ phase = "top" => /\ top = 0 /\ ~single
                      /\ \A d \in DOMAIN nodes : nodes[d].dirty => d = EmptyLabel

SerialInv == TreeInv /\ InsertInv /\ HashingInv /\ SettledInv

(* Where the recursion is. *)
LEMMA Place ==
  ASSUME TypeInv, ShapeInv, Alone, th[0].pc # "done"
  PROVE  /\ 0 \in Threads
         /\ th[0].stack \in Seq(Label) /\ Len(th[0].stack) \in Nat \ {0}
         /\ Descends(th[0].stack, Target(0)) /\ th[0].stack[1] = EmptyLabel
         /\ Target(0) \in FullLabel /\ Target(0) \in Label
         /\ Position(0) \in th[0].work /\ Position(0) \in DOMAIN batch
         /\ batch[Position(0)].label = Target(0)
         /\ Current(0) = th[0].stack[Len(th[0].stack)]
         /\ Current(0) \in DOMAIN nodes /\ Current(0) \in Label
         /\ Len(th[0].stack) > 1 =>
              /\ Caller(0) = th[0].stack[Len(th[0].stack) - 1]
              /\ Caller(0) \in DOMAIN nodes /\ Caller(0) \in Label
              /\ NextBit(Caller(0), Target(0)) = Target(0)[Len(Caller(0)) + 1]
              /\ NextBit(Caller(0), Target(0)) \in Bit
              /\ Starts(Caller(0), Target(0))
              /\ IsUnder(Current(0), Caller(0), NextBit(Caller(0), Target(0)))
              /\ Current(0) # EmptyLabel /\ Current(0) # Caller(0)
<1>1. 0 \in Threads
  BY DEF Alone
<1>2. /\ th[0].stack \in Seq(Label) /\ Len(th[0].stack) \in Nat \ {0}
      /\ Descends(th[0].stack, Target(0)) /\ th[0].stack[1] = EmptyLabel
      /\ Target(0) \in FullLabel /\ Target(0) \in Label
      /\ Current(0) = th[0].stack[Len(th[0].stack)]
      /\ Current(0) \in DOMAIN nodes /\ Current(0) \in Label
  BY <1>1, PathFact, DescendsFact
<1>3. /\ Position(0) \in th[0].work /\ Position(0) \in DOMAIN batch
      /\ batch[Position(0)].label = Target(0)
  BY <1>1, BusyFact, PositionFact DEF Target
<1>4. ASSUME Len(th[0].stack) > 1
      PROVE  /\ Caller(0) = th[0].stack[Len(th[0].stack) - 1]
             /\ Caller(0) \in DOMAIN nodes /\ Caller(0) \in Label
             /\ NextBit(Caller(0), Target(0)) = Target(0)[Len(Caller(0)) + 1]
             /\ NextBit(Caller(0), Target(0)) \in Bit
             /\ Starts(Caller(0), Target(0))
             /\ IsUnder(Current(0), Caller(0), NextBit(Caller(0), Target(0)))
             /\ Current(0) # EmptyLabel /\ Current(0) # Caller(0)
  <2>1. Caller(0) = th[0].stack[Len(th[0].stack) - 1]
    BY DEF Caller
  <2>2. /\ Caller(0) \in DOMAIN nodes /\ Caller(0) \in Label
        /\ NextBit(Caller(0), Target(0)) \in Bit
        /\ Starts(Caller(0), Target(0))
        /\ IsUnder(Current(0), Caller(0), NextBit(Caller(0), Target(0)))
        /\ Current(0) # EmptyLabel
    BY <1>1, <1>4, ReturnFact
  <2>3. IsUnder(Current(0), Caller(0), Target(0)[Len(Caller(0)) + 1])
    BY <1>2, <1>4, <2>1, DescendPop
  <2>4. NextBit(Caller(0), Target(0)) = Target(0)[Len(Caller(0)) + 1]
    BY <2>2, <2>3, OneSide
  <2>5. Current(0) # Caller(0)
    BY <1>2, <2>2, UnderIsBelow
  <2> QED
    BY <2>1, <2>2, <2>4, <2>5
<1> QED
  BY <1>1, <1>2, <1>3, <1>4

(* What a step of the recursion changes. *)
LEMMA StepPlace ==
  ASSUME Alone, NEW pc, NEW stack, NEW status, Step(0, pc, stack, status), UNCHANGED callVars
  PROVE  /\ th'[0].pc = pc /\ th'[0].stack = stack /\ th'[0].status = status
         /\ th'[0].work = th[0].work
         /\ Position(0)' = Position(0) /\ Target(0)' = Target(0)
         /\ Current(0)' = stack[Len(stack)] /\ Caller(0)' = stack[Len(stack) - 1]
         /\ phase' = phase /\ batch' = batch /\ single' = single /\ bits' = bits /\ top' = top
<1>1. 0 \in DOMAIN th
  BY DEF Alone, Threads
<1>2. /\ th'[0].pc = pc /\ th'[0].stack = stack /\ th'[0].status = status
      /\ th'[0].work = th[0].work
  BY <1>1 DEF Step
<1>3. phase' = phase /\ batch' = batch /\ single' = single /\ bits' = bits /\ top' = top
  BY DEF callVars
<1>4. Position(0)' = Position(0) /\ Target(0)' = Target(0)
  BY <1>2, <1>3 DEF Target, Position
<1>5. Current(0)' = stack[Len(stack)] /\ Caller(0)' = stack[Len(stack) - 1]
  BY <1>2 DEF Current, Caller
<1> QED
  BY <1>2, <1>3, <1>4, <1>5

(* A step of insert that the meaning of the trie does not notice. *)
LEMMA SameLive ==
  ASSUME Alone, SerialInv, Marking, phase = "insert",
         NEW pc \in AfterAttach, NEW status, Step(0, pc, th[0].stack, status), UNCHANGED callVars,
         nodes' = [x \in DOMAIN nodes' |-> nodes'[x]], Live' = Live,
         pc \in {"clear", "restore"} => status = TRUE,
         pc \in {"status", "clear"} => nodes'[Current(0)].dirty = TRUE
  PROVE  SerialInv'
<1>1. /\ th'[0].pc = pc /\ th'[0].stack = th[0].stack /\ th'[0].status = status
      /\ Target(0)' = Target(0) /\ phase' = phase /\ batch' = batch
      /\ Current(0)' = Current(0)
  BY StepPlace DEF Current
<1>2. Unmarked' = Unmarked /\ Marking'
  BY <1>1 DEF Unmarked, Marking
<1>3. th[0].pc # "done" /\ pc # "done" /\ pc # "failed"
  BY DEF Marking, AfterAttach
<1>4. TreeInv'
  BY <1>1, <1>2, <1>3 DEF SerialInv, TreeInv
<1>5. InsertInv'
  BY <1>1, <1>3 DEF SerialInv, InsertInv
<1>6. HashingInv' /\ SettledInv'
  BY <1>1 DEF HashingInv, SettledInv
<1> QED
  BY <1>4, <1>5, <1>6 DEF SerialInv

LEMMA StatusSerial ==
  ASSUME TypeInv, ShapeInv, Alone, SerialInv, ReadStatus(0) \/ ClearDirty(0) \/ SaveAndRestore(0)
  PROVE  SerialInv'
<1>1. /\ phase = "insert" /\ Marking /\ th[0].pc # "done"
      /\ th[0].pc \in {"status", "clear", "restore"}
  BY DEF ReadStatus, ClearDirty, SaveAndRestore, InPhase, Marking, AfterAttach
<1>2. UNCHANGED callVars
  BY DEF ReadStatus, ClearDirty, SaveAndRestore
<1>3. Current(0) \in DOMAIN nodes /\ (Len(th[0].stack) > 1 => Current(0) # Caller(0))
  BY <1>1, Place
<1>4. /\ nodes = [x \in DOMAIN nodes |-> nodes[x]]
      /\ th[0].pc \in {"clear", "restore"} => th[0].status = TRUE
      /\ th[0].pc \in {"status", "clear"} => nodes[Current(0)].dirty = TRUE
  BY <1>1 DEF SerialInv, TreeInv, InsertInv
<1>5. nodes[Current(0)] = Node(nodes[Current(0)].left, nodes[Current(0)].right,
                               nodes[Current(0)].hash, nodes[Current(0)].dirty)
  BY <1>3 DEF TypeInv, Closed, IsNodeOf
<1>6. /\ SetDirtyBit(SetDirtyBit(nodes[Current(0)], FALSE), TRUE) = SetDirtyBit(nodes[Current(0)], TRUE)
      /\ nodes[Current(0)].dirty = TRUE => SetDirtyBit(nodes[Current(0)], TRUE) = nodes[Current(0)]
      /\ SetDirtyBit(nodes[Current(0)], TRUE).dirty = TRUE
  BY <1>5 DEF SetDirtyBit, Node
<1>7. CASE ReadStatus(0)
  <2>1. /\ Step(0, "clear", th[0].stack, nodes[Current(0)].dirty) /\ nodes' = nodes
        /\ th[0].pc = "status"
    BY <1>7 DEF ReadStatus, InPhase
  <2>2. /\ th'[0].pc = "clear" /\ th'[0].stack = th[0].stack /\ Target(0)' = Target(0)
        /\ Current(0)' = Current(0) /\ Caller(0)' = Caller(0) /\ phase' = phase
    BY <1>2, <2>1, StepPlace DEF Current, Caller
  <2>3. Live' = Live
    BY <1>1, <2>1, <2>2 DEF Live, Marking, AfterAttach
  <2> QED
    BY <1>1, <1>2, <1>4, <2>1, <2>3, SameLive DEF AfterAttach
<1>8. CASE ClearDirty(0)
  <2>1. /\ Step(0, "restore", th[0].stack, th[0].status) /\ th[0].pc = "clear"
        /\ nodes' = [nodes EXCEPT ![Current(0)] = SetDirtyBit(@, FALSE)]
    BY <1>8 DEF ClearDirty, InPhase, Goto
  <2>2. /\ th'[0].pc = "restore" /\ th'[0].stack = th[0].stack /\ Target(0)' = Target(0)
        /\ Current(0)' = Current(0) /\ Caller(0)' = Caller(0) /\ phase' = phase
    BY <1>2, <2>1, StepPlace DEF Current, Caller
  <2>3. /\ DOMAIN nodes' = DOMAIN nodes
        /\ \A x \in DOMAIN nodes : x # Current(0) => nodes'[x] = nodes[x]
        /\ SetDirtyBit(nodes'[Current(0)], TRUE) = nodes[Current(0)]
    BY <1>3, <1>4, <1>6, <2>1
  <2>4. nodes' = [x \in DOMAIN nodes' |-> nodes'[x]]
    BY <2>1
  <2> DEFINE before(x) == IF Len(th[0].stack) > 1 /\ x = Caller(0)
                          THEN SetChild(nodes[x], NextBit(x, Target(0)), Current(0))
                          ELSE nodes[x]
             after(x) == IF Len(th[0].stack) > 1 /\ x = Caller(0)
                         THEN SetChild(nodes'[x], NextBit(x, Target(0)), Current(0))
                         ELSE IF x = Current(0) THEN SetDirtyBit(nodes'[x], TRUE)
                         ELSE nodes'[x]
  <2>5. \A x \in DOMAIN nodes : before(x) = after(x)
    BY <1>3, <2>3
  <2>6. Live = [x \in DOMAIN nodes |-> before(x)]
    BY <1>1, <2>1 DEF Live
  <2>7. Live' = [x \in DOMAIN nodes |-> after(x)]
    BY <1>1, <2>2, <2>3 DEF Live, Marking, AfterAttach
  <2>8. Live' = Live
    <3> HIDE DEF before, after
    <3> QED
      BY <2>5, <2>6, <2>7
  <2> QED
    BY <1>1, <1>2, <1>4, <2>1, <2>4, <2>8, SameLive DEF AfterAttach
<1>9. CASE SaveAndRestore(0)
  <2>1. /\ Step(0, "return", th[0].stack, th[0].status) /\ th[0].pc = "restore"
        /\ nodes' = [nodes EXCEPT ![Current(0)] = SetDirtyBit(@, th[0].status)]
    BY <1>9 DEF SaveAndRestore, InPhase, Goto
  <2>2. /\ th'[0].pc = "return" /\ th'[0].stack = th[0].stack /\ Target(0)' = Target(0)
        /\ Current(0)' = Current(0) /\ Caller(0)' = Caller(0) /\ phase' = phase
    BY <1>2, <2>1, StepPlace DEF Current, Caller
  <2>3. /\ DOMAIN nodes' = DOMAIN nodes
        /\ \A x \in DOMAIN nodes : x # Current(0) => nodes'[x] = nodes[x]
        /\ nodes'[Current(0)] = SetDirtyBit(nodes[Current(0)], TRUE)
    BY <1>3, <1>4, <2>1
  <2>4. nodes' = [x \in DOMAIN nodes' |-> nodes'[x]]
    BY <2>1
  <2> DEFINE before(x) == IF Len(th[0].stack) > 1 /\ x = Caller(0)
                          THEN SetChild(nodes[x], NextBit(x, Target(0)), Current(0))
                          ELSE IF x = Current(0) THEN SetDirtyBit(nodes[x], TRUE)
                          ELSE nodes[x]
             after(x) == IF Len(th[0].stack) > 1 /\ x = Caller(0)
                         THEN SetChild(nodes'[x], NextBit(x, Target(0)), Current(0))
                         ELSE nodes'[x]
  <2>5. \A x \in DOMAIN nodes : before(x) = after(x)
    BY <1>3, <2>3
  <2>6. Live = [x \in DOMAIN nodes |-> before(x)]
    BY <1>1, <2>1 DEF Live
  <2>7. Live' = [x \in DOMAIN nodes |-> after(x)]
    BY <1>1, <2>2, <2>3 DEF Live, Marking, AfterAttach
  <2>8. Live' = Live
    <3> HIDE DEF before, after
    <3> QED
      BY <2>5, <2>6, <2>7
  <2> QED
    BY <1>1, <1>2, <1>4, <2>1, <2>4, <2>8, SameLive DEF AfterAttach
<1> QED
  BY <1>7, <1>8, <1>9

(* A recursion that goes on to a child. *)
LEMMA RouteAppend ==
  ASSUME NEW t, NEW s \in Seq(Label), Len(s) \in Nat \ {0}, NEW l, OnRoute(t, s, l),
         NEW c \in Label, c = ChildOn(t[s[Len(s)]], l[Len(s[Len(s)]) + 1])
  PROVE  OnRoute(t, Append(s, c), l)
<1>1. /\ Append(s, c) \in Seq(Label) /\ Len(Append(s, c)) = Len(s) + 1
      /\ Append(s, c)[Len(s) + 1] = c /\ \A k \in 1..Len(s) : Append(s, c)[k] = s[k]
  BY AppendFact
<1>2. ASSUME NEW k \in 1..Len(s)
      PROVE  Append(s, c)[k + 1] = ChildOn(t[Append(s, c)[k]], l[Len(Append(s, c)[k]) + 1])
  <2>1. CASE k = Len(s)
    BY <1>1, <2>1
  <2>2. CASE k \in 1..(Len(s) - 1)
    <3>1. k + 1 \in 1..Len(s)
      BY <2>2
    <3>2. Append(s, c)[k] = s[k] /\ Append(s, c)[k + 1] = s[k + 1]
      BY <1>1, <3>1
    <3> QED
      BY <2>2, <3>2 DEF OnRoute
  <2> QED
    BY <2>1, <2>2
<1>3. Len(Append(s, c)) - 1 = Len(s)
  BY <1>1
<1> QED
  BY <1>2, <1>3 DEF OnRoute

(* The nodes above the last one of a recursion. *)
LEMMA WayBit ==
  ASSUME NEW s \in Seq(Label), NEW l \in FullLabel, Descends(s, l), NEW j \in 1..(Len(s) - 1)
  PROVE  /\ s[j] \in Label /\ Starts(s[j], l) /\ s[j] # l
         /\ NextBit(s[j], l) = l[Len(s[j]) + 1] /\ NextBit(s[j], l) \in Bit
         /\ IsUnder(s[j + 1], s[j], NextBit(s[j], l))
<1>1. s[j] \in Label /\ s[j + 1] \in Label /\ l \in Label
  BY FullIsLabel
<1>2. Starts(s[j], l) /\ IsUnder(s[j + 1], s[j], l[Len(s[j]) + 1])
  BY DescendsFact
<1>3. s[j] # l
  BY <1>1, <1>2, NothingUnderKey
<1> QED
  <2>1. CommonPrefixCount(l, s[j]) = Len(s[j])
    BY <1>1, <1>2, <1>3, CommonIsStart
  <2> QED
    BY <1>1, <1>2, <1>3, <2>1, CommonIsStart

(* The recursion goes down, or a node that it leaves is marked. *)
LEMMA FollowSerial ==
  ASSUME TypeInv, ShapeInv, Alone, SerialInv, FollowRoute(0)
  PROVE  SerialInv'
<1> DEFINE s == th[0].stack
           n == Current(0)
           l == Target(0)
           c == ChildOn(nodes[n], NextBit(n, l))
<1>1. /\ phase = "insert" /\ th[0].pc = "call" /\ n # l /\ HasRoute(nodes, n, l)
      /\ Step(0, "call", Append(s, c), th[0].status) /\ nodes' = nodes /\ UNCHANGED callVars
  BY DEF FollowRoute, InPhase, Goto
<1>2. /\ th'[0].pc = "call" /\ th'[0].stack = Append(s, c) /\ Target(0)' = l
      /\ phase' = phase /\ batch' = batch
  BY <1>1, StepPlace
<1>3. Live = nodes /\ Live' = nodes /\ Unmarked = {} /\ Unmarked' = {}
  BY <1>1, <1>2 DEF Live, Unmarked, Marking, AfterAttach
<1>4. /\ s \in Seq(Label) /\ Len(s) \in Nat \ {0} /\ n = s[Len(s)] /\ n \in DOMAIN nodes
      /\ l \in FullLabel /\ Closed(nodes) /\ Shaped(nodes)
  BY <1>1, Place DEF TypeInv, ShapeInv
<1>5. c = ChildOn(nodes[n], l[Len(n) + 1])
  BY <1>1, <1>4, RouteDescends
<1>6. c \in Label
  BY <1>4, ChildIsNode
<1> HIDE DEF c
<1>7. OnRoute(nodes, Append(s, c), l)
  <2>1. OnRoute(nodes, s, l)
    BY <1>1, <1>3 DEF SerialInv, TreeInv
  <2> QED
    BY <1>4, <1>5, <1>6, <2>1, RouteAppend
<1>8. TreeInv'
  BY <1>1, <1>2, <1>3, <1>7 DEF SerialInv, TreeInv
<1>9. InsertInv'
  BY <1>1, <1>2, <1>3 DEF SerialInv, InsertInv
<1>10. HashingInv' /\ SettledInv'
  BY <1>1, <1>2 DEF HashingInv, SettledInv
<1> QED
  BY <1>8, <1>9, <1>10 DEF SerialInv

LEMMA NoThrow ==
  ASSUME TypeInv, FreshInv, Alone
  PROVE  ~ThrowSameLabel(0)
<1> SUFFICES ASSUME ThrowSameLabel(0) PROVE FALSE
  OBVIOUS
<1>1. 0 \in Threads /\ phase = "insert" /\ th[0].pc = "call" /\ Current(0) = Target(0)
  BY DEF ThrowSameLabel, InPhase
<1>2. Current(0) \in DOMAIN nodes
  BY <1>1, BusyFact
<1> QED
  BY <1>1, <1>2, TargetIsNew

LEMMA MarkSerial ==
  ASSUME TypeInv, ShapeInv, Alone, SerialInv, SetDirty(0)
  PROVE  SerialInv'
<1> DEFINE s == th[0].stack
           l == Target(0)
           p == Caller(0)
           t == [nodes EXCEPT ![p] = SetChild(@, NextBit(p, l), Current(0))]
<1>1. PICK pc \in {"status", "return"} :
        /\ phase = "insert" /\ th[0].pc = "return" /\ Len(s) > 1 /\ nodes' = t
        /\ Step(0, pc, Pop(s), th[0].status) /\ UNCHANGED callVars
  BY DEF SetDirty, InPhase, Goto
<1>2. /\ th'[0].pc = pc /\ th'[0].stack = Pop(s) /\ Target(0)' = l
      /\ phase' = phase /\ batch' = batch
      /\ Current(0)' = Pop(s)[Len(Pop(s))] /\ Caller(0)' = Pop(s)[Len(Pop(s)) - 1]
  BY <1>1, StepPlace
<1>3. /\ s \in Seq(Label) /\ Descends(s, l) /\ s[1] = EmptyLabel /\ p = s[Len(s) - 1]
      /\ p \in DOMAIN nodes /\ l \in FullLabel /\ l \in Label
      /\ Position(0) \in DOMAIN batch /\ batch[Position(0)].label = l
      /\ Starts(p, l)
  BY <1>1, Place
<1>0. \A j \in 1..(Len(s) - 1) :
        /\ s[j] \in Label /\ Starts(s[j], l) /\ s[j] # l
        /\ NextBit(s[j], l) = l[Len(s[j]) + 1] /\ NextBit(s[j], l) \in Bit
  <2> TAKE j \in 1..(Len(s) - 1)
  <2> QED
    BY <1>3, WayBit
<1>4. PICK m \in Nat \ {0} : Len(s) = m + 1
  <2>1. PICK j \in Nat : Len(s) = j
    BY <1>3
  <2>2. j - 1 \in Nat \ {0} /\ j = (j - 1) + 1
    BY <1>1, <2>1
  <2> QED
    BY <2>1, <2>2
<1>5. Len(Pop(s)) = m /\ \A k \in 1..m : Pop(s)[k] = s[k]
  BY <1>3, <1>4 DEF Pop
<1>6. /\ p = s[m] /\ Current(0)' = p /\ p \in Label
      /\ m > 1 => Caller(0)' = s[m - 1]
  BY <1>2, <1>3, <1>4, <1>5
<1>7. Live = t /\ Unmarked = Passed(s) /\ Marking
  <2>1. Marking
    BY <1>1 DEF Marking, AfterAttach
  <2>2. Live = [x \in DOMAIN nodes |->
                  IF x = p THEN SetChild(nodes[x], NextBit(x, l), Current(0)) ELSE nodes[x]]
    BY <1>1, <2>1 DEF Live
  <2>3. t = [x \in DOMAIN nodes |->
               IF x = p THEN SetChild(nodes[x], NextBit(x, l), Current(0)) ELSE nodes[x]]
    BY <1>3
  <2> QED
    BY <2>1, <2>2, <2>3 DEF Unmarked
<1>8. /\ Compact(Live) /\ OnRoute(Live, s, l)
      /\ \A x \in DOMAIN Live \ Passed(s) : Good(Live, x)
      /\ \A d \in DOMAIN Live :
           Live[d].dirty => \E k \in DOMAIN batch : Covers(Live, d, batch[k].label)
  BY <1>1, <1>7 DEF SerialInv, TreeInv, InsertInv
<1>9. DOMAIN Live = DOMAIN nodes /\ Live[p].dirty = TRUE
  BY <1>3, <1>7 DEF SetChild, Node
<1>10. Marking' /\ Unmarked' = Passed(Pop(s))
  BY <1>1, <1>2 DEF Marking, AfterAttach, Unmarked
<1>11. /\ \A x \in Passed(Pop(s)) : \E k \in 1..(m - 1) : x = s[k]
       /\ \A k \in 1..(m - 1) : s[k] \in Passed(Pop(s))
       /\ \A x \in Passed(s) : x = p \/ x \in Passed(Pop(s))
  <2>1. Len(s) - 1 = m /\ Len(Pop(s)) - 1 = m - 1
    BY <1>4, <1>5
  <2>2. \A k \in 1..(m - 1) : Pop(s)[k] = s[k]
    BY <1>5
  <2>3. \A k \in 1..m : k = m \/ k \in 1..(m - 1)
    OBVIOUS
  <2> QED
    BY <1>6, <2>1, <2>2, <2>3 DEF Passed
<1>12. nodes' = [x \in DOMAIN nodes' |-> nodes'[x]]
  BY <1>1
<1> HIDE DEF t
<1>13. /\ DOMAIN Live' = DOMAIN Live /\ Compact(Live') /\ Live'[p].dirty = TRUE
       /\ \A x \in DOMAIN Live, b \in Bit : ChildOn(Live'[x], b) = ChildOn(Live[x], b)
       /\ \A x \in DOMAIN Live \ Passed(Pop(s)) : Good(Live', x)
       /\ \A d, k : Covers(Live, d, k) => Covers(Live', d, k)
       /\ \A d \in DOMAIN Live : Live'[d].dirty => Live[d].dirty \/ Starts(d, l)
  <2>0. Live' = [x \in DOMAIN nodes' |->
                  IF Len(Pop(s)) > 1 /\ x = Caller(0)'
                  THEN SetChild(nodes'[x], NextBit(x, l), p) ELSE nodes'[x]]
    BY <1>1, <1>2, <1>6, <1>10 DEF Live
  <2>1. CASE m = 1
    <3>1. Live' = [x \in DOMAIN nodes' |-> nodes'[x]]
      BY <1>5, <2>0, <2>1
    <3>2. Live' = Live
      BY <1>1, <1>7, <1>12, <3>1
    <3>3. ASSUME NEW x \in DOMAIN Live \ Passed(Pop(s))
          PROVE  Good(Live', x)
      <4>1. CASE x = p
        BY <1>9, <3>2, <4>1 DEF Good
      <4>2. CASE x # p
        BY <1>8, <1>11, <3>2, <4>2
      <4> QED
        BY <4>1, <4>2
    <3> QED
      BY <1>8, <1>9, <3>2, <3>3
  <2>2. CASE m > 1
    <3> DEFINE q == s[m - 1]
    <3>1. m - 1 \in 1..(Len(s) - 1) /\ (m - 1) + 1 = m /\ m \in 1..Len(s) /\ m - 1 \in 1..Len(s)
      BY <1>4, <2>2
    <3>2. /\ Starts(q, l) /\ NextBit(q, l) = l[Len(q) + 1] /\ NextBit(q, l) \in Bit /\ q # p
          /\ q \in Label
      <4>1. q # s[m]
        BY <1>3, <3>1, Deeper
      <4> QED
        BY <1>0, <1>6, <3>1, <4>1
    <3>3. p = ChildOn(Live[q], NextBit(q, l))
      BY <1>6, <1>8, <3>1, <3>2 DEF OnRoute
    <3>4. q \in DOMAIN Live
      <4>1. th[0].stack \in Seq(DOMAIN nodes)
        BY <1>1, Place, BusyFact
      <4> QED
        BY <1>9, <3>1, <4>1
    <3>5. SetChild(Live[q], NextBit(q, l), p) = Node(Live[q].left, Live[q].right, Live[q].hash, TRUE)
      BY <3>2, <3>3 DEF SetChild, ChildOn, Bit
    <3>6. /\ DOMAIN Live' = DOMAIN Live /\ \A x \in DOMAIN Live : x # q => Live'[x] = Live[x]
          /\ Live'[q] = SetChild(Live[q], NextBit(q, l), p)
      <4>1. nodes' = Live /\ Caller(0)' = q /\ Len(Pop(s)) > 1
        BY <1>1, <1>5, <1>6, <1>7, <2>2
      <4> HIDE DEF q
      <4> QED
        BY <2>0, <3>4, <4>1
    <3>66. Live'[q] = Node(Live[q].left, Live[q].right, Live[q].hash, TRUE)
      BY <3>5, <3>6
    <3> HIDE DEF q
    <3>7. /\ Compact(Live') /\ Live'[q].dirty
          /\ \A x \in DOMAIN Live, b \in Bit : ChildOn(Live'[x], b) = ChildOn(Live[x], b)
          /\ \A x \in DOMAIN Live :
               Good(Live, x) /\ (\A b \in Bit : ChildOn(Live[x], b) = q => q = EmptyLabel)
                 => Good(Live', x)
          /\ \A d, k : Covers(Live, d, k) => Covers(Live', d, k)
      BY <1>8, <3>4, <3>6, <3>66, MarkOne, Zenon
    <3>8. ASSUME NEW x \in DOMAIN Live \ Passed(Pop(s))
          PROVE  Good(Live', x)
      <4>1. CASE x = p
        <5>1. Live'[p].dirty = TRUE
          BY <1>3, <1>9, <3>2, <3>6
        <5> QED
          BY <4>1, <5>1 DEF Good
      <4>2. CASE x # p
        <5>1. Good(Live, x)
          BY <1>8, <1>11, <4>2
        <5>2. ASSUME NEW b \in Bit, ChildOn(Live[x], b) = q, q # EmptyLabel
              PROVE  FALSE
          <6>1. m - 1 # 1
            BY <1>3, <5>2 DEF q
          <6>2. m - 2 \in 1..(Len(s) - 1) /\ (m - 2) + 1 = m - 1 /\ m - 2 \in 1..(m - 1)
            BY <3>1, <6>1
          <6> DEFINE r == s[m - 2]
          <6>3. NextBit(r, l) = l[Len(r) + 1] /\ NextBit(r, l) \in Bit
            BY <1>3, <6>2, WayBit
          <6>4. q = ChildOn(Live[r], NextBit(r, l))
            BY <1>8, <6>2, <6>3 DEF OnRoute, q
          <6>5. r \in DOMAIN Live
            <7>1. th[0].stack \in Seq(DOMAIN nodes)
              BY <1>1, Place, BusyFact
            <7> QED
              BY <1>9, <6>2, <7>1
          <6>6. r \in Passed(Pop(s))
            BY <1>11, <6>2
          <6> HIDE DEF r
          <6>7. x = r
            BY <1>8, <5>2, <6>3, <6>4, <6>5, OneParent
          <6> QED
            BY <6>6, <6>7
        <5> QED
          BY <3>7, <5>1, <5>2
      <4> QED
        BY <4>1, <4>2
    <3>9. Live'[p].dirty = TRUE
      BY <1>3, <1>9, <3>2, <3>6
    <3>10. \A d \in DOMAIN Live : Live'[d].dirty => Live[d].dirty \/ Starts(d, l)
      BY <3>2, <3>6
    <3> QED
      BY <3>6, <3>7, <3>8, <3>9, <3>10
  <2>3. m = 1 \/ m > 1
    OBVIOUS
  <2> QED
    BY <2>1, <2>2, <2>3
<1>14. OnRoute(Live', Pop(s), l)
  <2>1. ASSUME NEW k \in 1..(m - 1)
        PROVE  Pop(s)[k + 1] = ChildOn(Live'[Pop(s)[k]], l[Len(Pop(s)[k]) + 1])
    <3>1. k \in 1..(Len(s) - 1) /\ Pop(s)[k] = s[k] /\ Pop(s)[k + 1] = s[k + 1] /\ k \in 1..Len(s)
      BY <1>4, <1>5
    <3>2. s[k] \in DOMAIN Live
      <4>1. th[0].stack \in Seq(DOMAIN nodes)
        BY <1>1, Place, BusyFact
      <4> QED
        BY <1>9, <3>1, <4>1
    <3>3. l[Len(s[k]) + 1] \in Bit
      BY <1>0, <3>1
    <3> QED
      BY <1>8, <1>13, <3>1, <3>2, <3>3 DEF OnRoute
  <2> QED
    BY <1>5, <2>1 DEF OnRoute
<1>15. TreeInv'
  BY <1>2, <1>10, <1>12, <1>13, <1>14 DEF TreeInv
<1>16. ASSUME NEW d \in DOMAIN Live', Live'[d].dirty
       PROVE  \E k \in DOMAIN batch' : Covers(Live', d, batch'[k].label)
  <2>1. CASE Live[d].dirty
    BY <1>2, <1>8, <1>13, <1>16, <2>1
  <2>2. CASE Starts(d, l)
    <3>1. Covers(Live', d, l)
      BY <1>16, <2>2 DEF Covers
    <3> QED
      BY <1>2, <1>3, <3>1
  <2> QED
    BY <1>13, <1>16, <2>1, <2>2
<1>17. InsertInv'
  <2>1. nodes'[Current(0)'].dirty = TRUE
    BY <1>1, <1>6, <1>7, <1>9
  <2> QED
    BY <1>2, <1>16, <2>1 DEF InsertInv
<1>18. HashingInv' /\ SettledInv'
  BY <1>1, <1>2 DEF HashingInv, SettledInv
<1> QED
  BY <1>15, <1>17, <1>18 DEF SerialInv

(* A new leaf in a free slot: the recursion is at the root. *)
LEMMA FillSerial ==
  ASSUME TypeInv, ShapeInv, FreshInv, Alone, SerialInv, AttachInSlot(0)
  PROVE  SerialInv'
<1> DEFINE s == th[0].stack
           n == Current(0)
           l == Target(0)
<1>1. PICK h :
        /\ phase = "insert" /\ th[0].pc = "call" /\ n # l /\ ~SplitsLeaf(nodes, n)
        /\ HasFreeSlot(nodes, n, l) /\ UNCHANGED callVars
        /\ nodes' = FillSlot(nodes, n, l, NewLeaf(h))
        /\ Step(0, "return", Append(Pop(s), n), th[0].status)
  BY DEF AttachInSlot, Attach, InPhase, Goto, LeafOf
<1>2. /\ 0 \in Threads /\ s \in Seq(Label) /\ Len(s) \in Nat \ {0} /\ Descends(s, l) /\ n = s[Len(s)]
      /\ n \in DOMAIN nodes /\ n \in Label /\ l \in FullLabel /\ l \in Label
      /\ Position(0) \in DOMAIN batch /\ batch[Position(0)].label = l
      /\ Closed(nodes) /\ Shaped(nodes)
  BY <1>1, Place DEF TypeInv, ShapeInv
<1>3. l \notin DOMAIN nodes
  BY <1>1, <1>2, TargetIsNew
<1>4. PICK b \in Bit :
        /\ n = EmptyLabel /\ b = NextBit(n, l) /\ IsUnder(l, n, b) /\ Starts(n, l)
        /\ ChildOn(nodes[EmptyLabel], b) = EmptyLabel
  BY <1>1, <1>2, SlotDescends DEF HasFreeSlot
<1>5. Append(Pop(s), n) = <<EmptyLabel>> /\ Len(<<EmptyLabel>>) = 1
  BY <1>2, <1>4, AtRoot
<1>6. /\ th'[0].pc = "return" /\ th'[0].stack = <<EmptyLabel>> /\ Target(0)' = l
      /\ phase' = phase /\ batch' = batch
  BY <1>1, <1>5, StepPlace
<1>7. Live = nodes /\ Unmarked = {}
  BY <1>1 DEF Live, Unmarked, Marking, AfterAttach
<1>8. /\ nodes' = [x \in DOMAIN nodes' |-> nodes'[x]]
      /\ DOMAIN nodes' = DOMAIN nodes \cup {l}
      /\ nodes'[l] = NewLeaf(h)
      /\ nodes'[EmptyLabel] = SetChild(nodes[EmptyLabel], b, l)
      /\ \A x \in DOMAIN nodes \ {EmptyLabel} : nodes'[x] = nodes[x]
  BY <1>1, <1>2, <1>3, <1>4 DEF FillSlot
<1>9. Live' = nodes' /\ Unmarked' = {}
  <2>1. Marking' /\ Passed(th'[0].stack) = {} /\ ~(Len(th'[0].stack) > 1)
    BY <1>1, <1>5, <1>6 DEF Marking, AfterAttach, Passed
  <2>2. Live' = [x \in DOMAIN nodes' |-> nodes'[x]]
    BY <1>6, <2>1 DEF Live
  <2> QED
    BY <1>8, <2>1, <2>2 DEF Unmarked
<1>10. /\ Compact(nodes) /\ \A x \in DOMAIN nodes : Good(nodes, x)
       /\ \A d \in DOMAIN nodes :
            nodes[d].dirty => \E k \in DOMAIN batch : Covers(nodes, d, batch[k].label)
  BY <1>1, <1>7 DEF SerialInv, TreeInv, InsertInv
<1>11. /\ Compact(nodes')
       /\ \A x \in DOMAIN nodes' : Good(nodes', x)
       /\ \A x \in DOMAIN nodes' :
            nodes'[x].dirty => x = EmptyLabel \/ (x \in DOMAIN nodes /\ nodes[x].dirty)
  <2>1. IsFill(nodes, nodes', b, l, h)
    BY <1>2, <1>3, <1>4, <1>8 DEF IsFill
  <2> QED
    BY <1>10, <2>1, FillGood
<1>12. TreeInv'
  BY <1>5, <1>6, <1>8, <1>9, <1>11 DEF TreeInv, OnRoute
<1>13. ASSUME NEW d \in DOMAIN nodes', nodes'[d].dirty
       PROVE  \E k \in DOMAIN batch : Covers(nodes', d, batch[k].label)
  <2>1. CASE d = EmptyLabel
    BY <1>2, <1>4, <1>13, <2>1 DEF Covers
  <2>2. CASE d \in DOMAIN nodes /\ nodes[d].dirty
    <3>1. PICK k \in DOMAIN batch : Covers(nodes, d, batch[k].label)
      BY <1>10, <2>2
    <3>2. PICK p \in DOMAIN nodes :
            /\ Starts(p, batch[k].label)
            /\ d = p \/ \E x \in Bit : d = ChildOn(nodes[p], x) /\ d # EmptyLabel
      BY <3>1 DEF Covers
    <3>3. CASE d = p
      BY <1>8, <3>2, <3>3 DEF Covers
    <3>4. CASE \E x \in Bit : d = ChildOn(nodes[p], x) /\ d # EmptyLabel
      <4>1. PICK x \in Bit : d = ChildOn(nodes[p], x) /\ d # EmptyLabel
        BY <3>4
      <4>2. ChildOn(nodes'[p], x) = ChildOn(nodes[p], x)
        <5>1. CASE p = EmptyLabel
          BY <1>4, <1>8, <4>1, <5>1 DEF SetChild, Node, ChildOn, Bit
        <5>2. CASE p # EmptyLabel
          BY <1>8, <5>2
        <5> QED
          BY <5>1, <5>2
      <4> QED
        BY <1>8, <3>2, <4>1, <4>2 DEF Covers
    <3> QED
      BY <3>2, <3>3, <3>4
  <2> QED
    BY <1>11, <1>13, <2>1, <2>2
<1>14. InsertInv' /\ HashingInv' /\ SettledInv'
  BY <1>1, <1>6, <1>9, <1>13 DEF InsertInv, HashingInv, SettledInv
<1> QED
  BY <1>12, <1>14 DEF SerialInv

(* A new leaf and a new inner node above n. *)
LEMMA SplitSerial ==
  ASSUME TypeInv, ShapeInv, FreshInv, Alone, SerialInv, AttachAtLeaf(0) \/ AttachOnEdge(0)
  PROVE  SerialInv'
<1> DEFINE s == th[0].stack
           n == Current(0)
           l == Target(0)
           p == Caller(0)
           f == CommonPrefix(l, n)
<1>1. PICK h :
        /\ phase = "insert" /\ th[0].pc = "call" /\ n # l /\ UNCHANGED callVars
        /\ SplitsLeaf(nodes, n) \/ (~HasFreeSlot(nodes, n, l) /\ ~HasRoute(nodes, n, l))
        /\ nodes' = SplitLeaf(nodes, n, l, NewLeaf(h)) \/ nodes' = SplitEdge(nodes, n, l, NewLeaf(h))
        /\ Step(0, "return", Append(Pop(s), f), th[0].status)
  <2>1. CASE AttachAtLeaf(0)
    BY <2>1, Zenon DEF AttachAtLeaf, Attach, InPhase, Goto, LeafOf
  <2>2. CASE AttachOnEdge(0)
    BY <2>2, Zenon DEF AttachOnEdge, Attach, InPhase, Goto, LeafOf
  <2> QED
    BY <2>1, <2>2
<1>2. /\ 0 \in Threads /\ s \in Seq(Label) /\ Len(s) \in Nat \ {0} /\ Descends(s, l) /\ n = s[Len(s)]
      /\ s[1] = EmptyLabel
      /\ n \in DOMAIN nodes /\ n \in Label /\ l \in FullLabel /\ l \in Label
      /\ Position(0) \in DOMAIN batch /\ batch[Position(0)].label = l
      /\ Closed(nodes) /\ Shaped(nodes)
  BY <1>1, Place DEF TypeInv, ShapeInv
<1>3. l \notin DOMAIN nodes /\ ~Starts(n, l)
  BY <1>1, <1>2, TargetIsNew, SplitLeaves
<1>4. Len(s) > 1
  <2>1. Starts(EmptyLabel, l)
    BY <1>2, AllUnderRoot, EmptyIsNotFull
  <2>2. Len(s) # 1
    BY <1>2, <1>3, <2>1
  <2>3. \A j \in Nat \ {0} : j # 1 => j > 1
    OBVIOUS
  <2> QED
    BY <1>2, <2>2, <2>3
<1>5. PICK m \in Nat \ {0} : Len(s) = m + 1
  <2>1. PICK j \in Nat : Len(s) = j
    BY <1>2
  <2>2. j - 1 \in Nat \ {0} /\ j = (j - 1) + 1
    BY <1>4, <2>1
  <2> QED
    BY <2>1, <2>2
<1>6. PICK b \in Bit :
        /\ p = s[m] /\ p \in DOMAIN nodes /\ p \in Label /\ Starts(p, l) /\ n # p
        /\ b = NextBit(p, l) /\ b = l[Len(p) + 1] /\ IsUnder(n, p, b) /\ n # EmptyLabel
  BY <1>1, <1>4, <1>5, Place
<1>7. Live = nodes /\ Unmarked = {}
  BY <1>1 DEF Live, Unmarked, Marking, AfterAttach
<1>8. /\ Compact(nodes) /\ \A x \in DOMAIN nodes : Good(nodes, x)
      /\ OnRoute(nodes, s, l)
      /\ \A d \in DOMAIN nodes :
           nodes[d].dirty => \E k \in DOMAIN batch : Covers(nodes, d, batch[k].label)
  BY <1>1, <1>7 DEF SerialInv, TreeInv, InsertInv
<1>9. n = ChildOn(nodes[p], b)
  <2>1. m \in 1..(Len(s) - 1)
    BY <1>5
  <2> QED
    BY <1>2, <1>5, <1>6, <1>8, <2>1 DEF OnRoute
<1>10. /\ f \in Label /\ f # l /\ f # n /\ IsUnder(f, p, b) /\ p # l /\ Starts(f, l)
       /\ \E x \in Bit : x # NextBit(n, l) /\ IsUnder(n, f, x)
       /\ NextBit(n, l) \in Bit /\ p # f
  <2>1. /\ f \in Label /\ Starts(f, l) /\ f \notin FullLabel /\ f # n
        /\ \E x \in Bit : x # NextBit(n, l) /\ IsUnder(n, f, x)
    BY <1>1, <1>2, <1>3, ForkIsAbove
  <2>2. IsUnder(f, p, b)
    BY <1>1, <1>2, <1>6, ForkIsUnder
  <2> QED
    BY <1>1, <1>2, <1>3, <1>6, <2>1, <2>2, CommonIsStart, UnderIsBelow
<1>11. IsUnder(l, p, b)
  BY <1>2, <1>6, <1>10, StartsIsUnder
(* The stack, with the fork in the place of n. *)
<1>12. /\ Len(Append(Pop(s), f)) = m + 1 /\ Append(Pop(s), f)[m + 1] = f
       /\ \A k \in 1..m : Append(Pop(s), f)[k] = s[k]
  <2>1. Pop(s) \in Seq(Label) /\ Len(Pop(s)) = m /\ \A k \in 1..m : Pop(s)[k] = s[k]
    BY <1>2, <1>5 DEF Pop
  <2> QED
    BY <1>10, <2>1, AppendFact
<1>13. /\ th'[0].pc = "return" /\ th'[0].stack = Append(Pop(s), f) /\ Target(0)' = l
       /\ phase' = phase /\ batch' = batch /\ Current(0)' = f /\ Caller(0)' = p
  <2>1. (m + 1) - 1 = m /\ m \in 1..m
    OBVIOUS
  <2> DEFINE r == Append(Pop(s), f)
  <2>2. Step(0, "return", r, th[0].status) /\ UNCHANGED callVars
    BY <1>1
  <2>3. Len(r) = m + 1 /\ r[m + 1] = f /\ r[m] = p
    BY <1>6, <1>12, <2>1
  <2> HIDE DEF r
  <2>4. /\ th'[0].pc = "return" /\ th'[0].stack = r /\ Target(0)' = l
        /\ phase' = phase /\ batch' = batch
        /\ Current(0)' = r[Len(r)] /\ Caller(0)' = r[Len(r) - 1]
    BY <2>2, StepPlace
  <2>5. Current(0)' = f /\ Caller(0)' = p
    BY <2>1, <2>3, <2>4
  <2> QED
    BY <2>4, <2>5 DEF r
<1> HIDE DEF f
<1>14. /\ nodes' = [x \in DOMAIN nodes' |-> nodes'[x]]
       /\ DOMAIN nodes' = DOMAIN nodes \cup {l, f}
       /\ nodes'[l] = NewLeaf(h) /\ nodes'[f] = Fork(nodes, n, l)
       /\ nodes'[n] \in {nodes[n], Node(nodes[n].left, nodes[n].right, ZeroHash, TRUE)}
       /\ f \notin DOMAIN nodes => \A x \in DOMAIN nodes : x # n => nodes'[x] = nodes[x]
       /\ nodes'[p] = nodes[p]
  BY <1>1, <1>2, <1>3, <1>6, <1>10 DEF SplitLeaf, SplitEdge, f
<1>15. /\ Marking' /\ Unmarked' = Passed(Append(Pop(s), f))
       /\ DOMAIN Live' = DOMAIN nodes' /\ Live'[p] = SetChild(nodes'[p], b, f)
       /\ \A x \in DOMAIN nodes' : x # p => Live'[x] = nodes'[x]
  <2>1. Marking' /\ Len(th'[0].stack) > 1 /\ Unmarked' = Passed(Append(Pop(s), f))
    BY <1>1, <1>12, <1>13 DEF Marking, AfterAttach, Unmarked
  <2>2. Live' = [x \in DOMAIN nodes' |->
                   IF x = p THEN SetChild(nodes'[x], NextBit(x, l), f) ELSE nodes'[x]]
    BY <1>13, <2>1 DEF Live
  <2> QED
    BY <1>6, <1>14, <2>1, <2>2
<1>16. f \notin DOMAIN nodes
  <2> SUFFICES ASSUME f \in DOMAIN nodes PROVE FALSE
    OBVIOUS
  <2>1. Starts(n, f)
    BY <1>6, <1>8, <1>9, <1>10, CompactFact
  <2> QED
    BY <1>2, <1>10, <2>1, UnderIsBelow
<1>17. /\ DOMAIN Live' = DOMAIN nodes \cup {l, f}
       /\ Live'[l] = NewLeaf(h) /\ Live'[f] = Fork(nodes, n, l) /\ Live'[p] = SetChild(nodes[p], b, f)
       /\ Live'[n] \in {nodes[n], Node(nodes[n].left, nodes[n].right, ZeroHash, TRUE)}
       /\ \A x \in DOMAIN nodes \ {p, n} : Live'[x] = nodes[x]
  BY <1>2, <1>6, <1>10, <1>14, <1>15, <1>16
<1>18. /\ Compact(Live') /\ n \in DOMAIN nodes
       /\ \A x \in DOMAIN Live' :
            \/ x = p \/ Good(Live', x)
            \/ \E y \in Bit : ChildOn(nodes[x], y) = p /\ x \in DOMAIN nodes /\ p # EmptyLabel
       /\ \A x \in DOMAIN nodes, y \in Bit :
            ChildOn(Live'[x], y) = IF x = p /\ y = b THEN f ELSE ChildOn(nodes[x], y)
       /\ \A y \in Bit : ChildOn(Live'[f], y) = IF y = NextBit(n, l) THEN l ELSE n
       /\ \A x \in DOMAIN Live' :
            Live'[x].dirty => x \in {f, n, p} \/ (x \in DOMAIN nodes /\ nodes[x].dirty)
  <2>1. f = CommonPrefix(l, n)
    BY DEF f
  <2>2. IsSplit(nodes, Live', p, b, n, l, f, h)
    BY <1>2, <1>3, <1>6, <1>9, <1>11, <1>17, <2>1 DEF IsSplit
  <2> HIDE DEF l, n, p
  <2> QED
    BY <1>8, <2>2, SplitGood
<1>19. ASSUME NEW k \in 1..m
       PROVE  /\ s[k] \in DOMAIN nodes /\ NextBit(s[k], l) = l[Len(s[k]) + 1]
              /\ NextBit(s[k], l) \in Bit /\ s[k + 1] = ChildOn(nodes[s[k]], NextBit(s[k], l))
              /\ k < m => s[k] # p
  <2>1. k \in 1..(Len(s) - 1) /\ k \in 1..Len(s) /\ m \in 1..Len(s)
    BY <1>5
  <2>2. NextBit(s[k], l) = l[Len(s[k]) + 1] /\ NextBit(s[k], l) \in Bit
    BY <1>2, <2>1, WayBit
  <2>3. s[k] \in DOMAIN nodes
    <3>1. s \in Seq(DOMAIN nodes)
      BY <1>1, <1>2, BusyFact
    <3> QED
      BY <2>1, <3>1
  <2>4. k < m => s[k] # p
    BY <1>2, <1>6, <2>1, Deeper
  <2> QED
    BY <1>8, <2>1, <2>2, <2>3, <2>4 DEF OnRoute
<1>20. OnRoute(Live', Append(Pop(s), f), l)
  <2>1. ASSUME NEW k \in 1..m
        PROVE  Append(Pop(s), f)[k + 1] =
                 ChildOn(Live'[Append(Pop(s), f)[k]], l[Len(Append(Pop(s), f)[k]) + 1])
    <3>1. Append(Pop(s), f)[k] = s[k]
      BY <1>12
    <3>2. CASE k = m
      <4>1. ChildOn(Live'[p], b) = f
        BY <1>6, <1>18
      <4> QED
        BY <1>6, <1>12, <3>1, <3>2, <4>1
    <3>3. CASE k < m
      <4>1. k + 1 \in 1..m
        BY <3>3
      <4>2. Append(Pop(s), f)[k + 1] = s[k + 1]
        BY <1>12, <4>1
      <4>3. ChildOn(Live'[s[k]], NextBit(s[k], l)) = ChildOn(nodes[s[k]], NextBit(s[k], l))
        BY <1>18, <1>19, <3>3
      <4> QED
        BY <1>19, <3>1, <4>2, <4>3
    <3>4. k = m \/ k < m
      OBVIOUS
    <3> QED
      BY <3>2, <3>3, <3>4
  <2>2. Len(Append(Pop(s), f)) - 1 = m
    BY <1>12
  <2> QED
    BY <2>1, <2>2 DEF OnRoute
<1>21. \A k \in 1..m : s[k] \in Passed(Append(Pop(s), f))
  <2>1. Len(Append(Pop(s), f)) - 1 = m
    BY <1>12
  <2> QED
    BY <1>12, <2>1 DEF Passed
<1>22. ASSUME NEW x \in DOMAIN Live' \ Passed(Append(Pop(s), f))
       PROVE  Good(Live', x)
  <2>1. x # p
    BY <1>6, <1>21
  <2>2. ASSUME NEW y \in Bit, ChildOn(nodes[x], y) = p, x \in DOMAIN nodes, p # EmptyLabel
        PROVE  FALSE
    <3>1. m # 1
      BY <1>2, <1>6, <2>2
    <3>2. m - 1 \in 1..m /\ (m - 1) + 1 = m
      BY <3>1
    <3>3. p = ChildOn(nodes[s[m - 1]], NextBit(s[m - 1], l))
      BY <1>6, <1>19, <3>2
    <3>4. x = s[m - 1]
      BY <1>8, <1>19, <2>2, <3>2, <3>3, OneParent
    <3> QED
      BY <1>21, <3>2, <3>4
  <2> QED
    BY <1>18, <2>1, <2>2
<1>23. TreeInv'
  BY <1>13, <1>14, <1>15, <1>18, <1>20, <1>22 DEF TreeInv
<1>24. ASSUME NEW d \in DOMAIN Live', Live'[d].dirty
       PROVE  \E k \in DOMAIN batch : Covers(Live', d, batch[k].label)
  <2>1. CASE d \in {f, n, p}
    <3>1. \E y \in Bit : n = ChildOn(Live'[f], y)
      BY <1>10, <1>18
    <3>2. f \in DOMAIN Live' /\ p \in DOMAIN Live'
      BY <1>6, <1>17
    <3>3. Covers(Live', d, l)
      BY <1>6, <1>10, <2>1, <3>1, <3>2 DEF Covers
    <3> QED
      BY <1>2, <3>3
  <2>2. CASE d \notin {f, n, p} /\ d \in DOMAIN nodes /\ nodes[d].dirty
    <3>1. PICK k \in DOMAIN batch : Covers(nodes, d, batch[k].label)
      BY <1>8, <2>2
    <3>2. PICK q \in DOMAIN nodes :
            /\ Starts(q, batch[k].label)
            /\ d = q \/ \E y \in Bit : d = ChildOn(nodes[q], y) /\ d # EmptyLabel
      BY <3>1 DEF Covers
    <3>3. CASE d = q
      BY <1>17, <3>2, <3>3 DEF Covers
    <3>4. CASE \E y \in Bit : d = ChildOn(nodes[q], y) /\ d # EmptyLabel
      <4>1. PICK y \in Bit : d = ChildOn(nodes[q], y) /\ d # EmptyLabel
        BY <3>4
      <4>2. d = ChildOn(Live'[q], y)
        BY <1>9, <1>18, <2>2, <4>1
      <4> QED
        BY <1>17, <3>2, <4>1, <4>2 DEF Covers
    <3> QED
      BY <3>2, <3>3, <3>4
  <2> QED
    BY <1>18, <1>24, <2>1, <2>2
<1>25. InsertInv' /\ HashingInv' /\ SettledInv'
  BY <1>1, <1>13, <1>24 DEF InsertInv, HashingInv, SettledInv
<1> QED
  BY <1>23, <1>25 DEF SerialInv


-----------------------------------------------------------------------------
(* The recursion starts again                                              *)

(* From the root, all that is above a key is below.                        *)
LEMMA RootWhole ==
  ASSUME NEW p \in Label, NEW l, Starts(p, l)
  PROVE  p = EmptyLabel \/ IsUnder(p, EmptyLabel, l[Len(EmptyLabel) + 1])
<1>1. CASE p # EmptyLabel
  <2>1. IsUnder(p, EmptyLabel, p[1]) /\ Len(EmptyLabel) + 1 = 1 /\ Len(p) \in Nat
    BY <1>1, AllUnderRoot, LabelLen DEF EmptyLabel
  <2>2. 1 \in 1..Len(p)
    BY <2>1 DEF IsUnder, EmptyLabel
  <2> QED
    BY <2>1, <2>2 DEF Starts
<1> QED
  BY <1>1

(* What a new recursion is, in either phase. *)
LEMMA RestartFact ==
  ASSUME NEW W, th'[0] = Recursion(W)
  PROVE  /\ th'[0].work = W /\ th'[0].stack = <<EmptyLabel>> /\ Len(th'[0].stack) = 1
         /\ th'[0].pc \in {"call", "done"} /\ (th'[0].pc = "done" <=> W = {})
         /\ Current(0)' = EmptyLabel /\ ~Marking' /\ Live' = nodes' /\ Unmarked' = {}
         /\ OnRoute(nodes', th'[0].stack, Target(0)')
<1>1. /\ th'[0].work = W /\ th'[0].stack = <<EmptyLabel>>
      /\ th'[0].pc \in {"call", "done"} /\ (th'[0].pc = "done" <=> W = {})
  BY DEF Recursion
<1>2. Len(<<EmptyLabel>>) = 1 /\ <<EmptyLabel>>[1] = EmptyLabel
  OBVIOUS
<1>3. Current(0)' = EmptyLabel
  BY <1>1, <1>2 DEF Current
<1>4. ~Marking'
  BY <1>1 DEF Marking, AfterAttach
<1>5. OnRoute(nodes', th'[0].stack, Target(0)')
  BY <1>1, <1>2 DEF OnRoute
<1> QED
  BY <1>1, <1>2, <1>3, <1>4, <1>5 DEF Live, Unmarked

LEMMA JoinSerial ==
  ASSUME TypeInv, Alone, SerialInv, JoinInsertion
  PROVE  SerialInv'
<1>1. /\ phase = "insert" /\ th[0].pc = "done" /\ phase' = "hash"
      /\ th' = [i \in Threads |-> Recursion(WorkOf(batch, bits, i))]
      /\ nodes' = nodes /\ batch' = batch /\ single' = single
  BY DEF JoinInsertion, Alone
<1>2. WorkOf(batch, 0, 0) = DOMAIN batch
  BY AllWork DEF TypeInv, StateOK
<1>3. th'[0] = Recursion(DOMAIN batch)
  BY <1>1, <1>2 DEF Alone
<1>4. /\ th'[0].work = DOMAIN batch /\ th'[0].stack = <<EmptyLabel>> /\ Len(th'[0].stack) = 1
      /\ th'[0].pc \in {"call", "done"}
      /\ Current(0)' = EmptyLabel /\ ~Marking' /\ Live' = nodes' /\ Unmarked' = {}
      /\ OnRoute(nodes', th'[0].stack, Target(0)')
  BY <1>3, RestartFact
<1>5. Live = nodes /\ Unmarked = {}
  BY <1>1 DEF Live, Unmarked, Marking, AfterAttach
<1>6. TreeInv'
  BY <1>1, <1>4, <1>5 DEF SerialInv, TreeInv
<1>7. HashingInv'
  <2>1. \A d \in DOMAIN nodes' : nodes'[d].dirty => Waits(d)'
    BY <1>1, <1>4, <1>5 DEF SerialInv, InsertInv, Waits
  <2>2. \A p \in DOMAIN nodes' :
          Starts(p, Target(0)') =>
            \/ \E k \in 1..Len(th'[0].stack) : p = th'[0].stack[k]
            \/ IsUnder(p, Current(0)', Target(0)'[Len(Current(0)') + 1])
    <3>1. DOMAIN nodes' \subseteq Label
      BY <1>1 DEF TypeInv, Closed
    <3>2. <<EmptyLabel>>[1] = EmptyLabel /\ 1 \in 1..1
      OBVIOUS
    <3> QED
      BY <1>4, <3>1, <3>2, RootWhole
  <2> QED
    BY <1>4, <2>1, <2>2 DEF HashingInv
<1>8. InsertInv' /\ SettledInv'
  BY <1>1 DEF InsertInv, SettledInv
<1> QED
  BY <1>6, <1>7, <1>8 DEF SerialInv

LEMMA NextEntrySerial ==
  ASSUME TypeInv, ShapeInv, Alone, SerialInv, NextEntry(0)
  PROVE  SerialInv'
<1> DEFINE W == th[0].work \ {Position(0)}
<1>1. /\ phase \in {"insert", "hash"} /\ th[0].pc = "return" /\ Len(th[0].stack) = 1
      /\ th' = [th EXCEPT ![0] = Recursion(W)] /\ nodes' = nodes
      /\ phase' = phase /\ batch' = batch /\ single' = single
  BY DEF NextEntry, InPhase, callVars
<1>2. th'[0] = Recursion(W)
  BY <1>1 DEF Alone, Threads
<1> HIDE DEF W
<1>3. /\ th'[0].work = W /\ th'[0].stack = <<EmptyLabel>> /\ Len(th'[0].stack) = 1
      /\ th'[0].pc \in {"call", "done"}
      /\ Current(0)' = EmptyLabel /\ ~Marking' /\ Live' = nodes' /\ Unmarked' = {}
      /\ OnRoute(nodes', th'[0].stack, Target(0)')
  BY <1>2, RestartFact
<1>4. Live = nodes /\ Unmarked = {}
  <2>1. Passed(th[0].stack) = {}
    BY <1>1 DEF Passed
  <2>2. Live = IF Marking THEN [x \in DOMAIN nodes |-> nodes[x]] ELSE nodes
    BY <1>1 DEF Live
  <2> QED
    BY <2>1, <2>2 DEF Unmarked, SerialInv, TreeInv
<1>5. TreeInv'
  BY <1>1, <1>3, <1>4 DEF SerialInv, TreeInv
<1>6. InsertInv'
  BY <1>1, <1>3, <1>4 DEF SerialInv, InsertInv
<1>7. HashingInv'
  <2> SUFFICES ASSUME phase = "hash" PROVE HashingInv'
    BY <1>1 DEF HashingInv
  <2>1. ASSUME NEW d \in DOMAIN nodes', nodes'[d].dirty, d # EmptyLabel \/ single
        PROVE  Waits(d)'
    <3>1. Waits(d)
      BY <1>1, <2>1 DEF SerialInv, HashingInv
    <3>2. ~OnWay(nodes, th[0].stack, d, Target(0))
      BY <1>1 DEF OnWay
    <3>3. \E k \in W : Covers(nodes, d, batch[k].label)
      BY <1>1, <3>1, <3>2 DEF Waits, W
    <3> QED
      BY <1>1, <1>3, <3>3 DEF Waits
  <2>2. \A p \in DOMAIN nodes' :
          Starts(p, Target(0)') =>
            \/ \E k \in 1..Len(th'[0].stack) : p = th'[0].stack[k]
            \/ IsUnder(p, Current(0)', Target(0)'[Len(Current(0)') + 1])
    <3>1. DOMAIN nodes' \subseteq Label
      BY <1>1 DEF TypeInv, Closed
    <3>2. <<EmptyLabel>>[1] = EmptyLabel /\ 1 \in 1..1
      OBVIOUS
    <3> QED
      BY <1>3, <3>1, <3>2, RootWhole
  <2> QED
    BY <1>1, <1>3, <2>1, <2>2 DEF HashingInv
<1>8. SettledInv'
  BY <1>1 DEF SettledInv
<1> QED
  BY <1>5, <1>6, <1>7, <1>8 DEF SerialInv

-----------------------------------------------------------------------------
(* Hashing                                                                 *)

LEMMA HashFollowSerial ==
  ASSUME TypeInv, ShapeInv, Alone, SerialInv, HashFollow(0)
  PROVE  SerialInv'
<1> DEFINE s == th[0].stack
           n == Current(0)
           l == Target(0)
           c == ChildOn(nodes[n], NextBit(n, l))
<1>1. /\ phase = "hash" /\ th[0].pc = "call" /\ n # l /\ HasRoute(nodes, n, l)
      /\ Step(0, "call", Append(s, c), th[0].status) /\ nodes' = nodes /\ UNCHANGED callVars
  BY DEF HashFollow, InPhase, Goto
<1>2. /\ th'[0].pc = "call" /\ th'[0].stack = Append(s, c) /\ Target(0)' = l
      /\ phase' = phase /\ batch' = batch /\ single' = single /\ th'[0].work = th[0].work
      /\ Current(0)' = Append(s, c)[Len(Append(s, c))]
  BY <1>1, StepPlace
<1>3. Live = nodes /\ Live' = nodes /\ Unmarked = {} /\ Unmarked' = {}
  BY <1>1, <1>2 DEF Live, Unmarked, Marking, AfterAttach
<1>4. /\ s \in Seq(Label) /\ Len(s) \in Nat \ {0} /\ n = s[Len(s)] /\ n \in DOMAIN nodes
      /\ l \in FullLabel /\ Closed(nodes) /\ Shaped(nodes) /\ l \in Label /\ n \in Label
  BY <1>1, Place DEF TypeInv, ShapeInv
<1>5. /\ c = ChildOn(nodes[n], l[Len(n) + 1]) /\ Starts(n, l) /\ l[Len(n) + 1] \in Bit
      /\ IsUnder(c, n, l[Len(n) + 1])
  BY <1>1, <1>4, RouteDescends, StartsIsUnder
<1>6. c \in Label /\ c \in DOMAIN nodes
  BY <1>4, ChildIsNode
<1> HIDE DEF c
<1>7. /\ Compact(nodes) /\ OnRoute(nodes, s, l) /\ \A x \in DOMAIN nodes : Good(nodes, x)
      /\ nodes = [x \in DOMAIN nodes |-> nodes[x]]
  BY <1>1, <1>3 DEF SerialInv, TreeInv
<1>8. OnRoute(nodes, Append(s, c), l)
  BY <1>4, <1>5, <1>6, <1>7, RouteAppend
<1>9. /\ Len(Append(s, c)) = Len(s) + 1 /\ Append(s, c)[Len(s) + 1] = c
      /\ \A k \in 1..Len(s) : Append(s, c)[k] = s[k]
  BY <1>4, <1>6, AppendFact
<1>10. TreeInv'
  BY <1>1, <1>2, <1>3, <1>7, <1>8 DEF TreeInv
<1>11. ASSUME NEW p \in DOMAIN nodes, Starts(p, l)
       PROVE  \/ \E k \in 1..(Len(s) + 1) : p = Append(s, c)[k]
              \/ IsUnder(p, c, l[Len(c) + 1])
  <2>1. CASE \E k \in 1..Len(s) : p = s[k]
    BY <1>4, <1>9, <2>1
  <2>2. CASE IsUnder(p, n, l[Len(n) + 1])
    <3>1. p \in Label /\ Starts(c, p)
      BY <1>4, <1>5, <1>7, <2>2, CompactFact
    <3>2. CASE p = c
      <4>1. Len(s) + 1 \in 1..(Len(s) + 1)
        BY <1>4
      <4> QED
        BY <1>9, <3>2, <4>1
    <3>3. CASE p # c
      <4>1. IsUnder(p, c, p[Len(c) + 1])
        BY <1>6, <3>1, <3>3, StartsIsUnder
      <4>2. Len(c) + 1 \in 1..Len(p)
        BY <1>6, <3>1, <4>1, LabelLen DEF IsUnder
      <4> QED
        BY <1>11, <4>1, <4>2 DEF Starts
    <3> QED
      BY <3>2, <3>3
  <2> QED
    BY <1>1, <1>11, <2>1, <2>2 DEF SerialInv, HashingInv
<1>12. HashingInv'
  <2>1. \A d \in DOMAIN nodes : Waits(d) => Waits(d)'
    BY <1>1, <1>2 DEF Waits
  <2>2. Current(0)' = c
    BY <1>2, <1>9
  <2> QED
    BY <1>1, <1>2, <1>9, <1>11, <2>1, <2>2 DEF SerialInv, HashingInv
<1>13. InsertInv' /\ SettledInv'
  BY <1>1, <1>2 DEF InsertInv, SettledInv
<1> QED
  BY <1>10, <1>12, <1>13 DEF SerialInv

(* At the key itself, which has its hash: what waits for it is on the way. *)
LEMMA HashFoundSerial ==
  ASSUME TypeInv, ShapeInv, FreshInv, Alone, SerialInv, HashFound(0)
  PROVE  SerialInv'
<1> DEFINE s == th[0].stack
           l == Target(0)
<1>1. PICK S :
        /\ phase = "hash" /\ th[0].pc = "call" /\ Current(0) = l /\ S \subseteq {l}
        /\ nodes' = UpdateHash(nodes, S)
        /\ Step(0, "return", s, th[0].status) /\ UNCHANGED callVars
  BY DEF HashFound, InPhase, Goto
<1>2. /\ th'[0].pc = "return" /\ th'[0].stack = s /\ Target(0)' = l /\ Position(0)' = Position(0)
      /\ phase' = phase /\ batch' = batch /\ single' = single /\ th'[0].work = th[0].work
  BY <1>1, StepPlace
<1>3. /\ s \in Seq(Label) /\ Len(s) \in Nat \ {0} /\ l = s[Len(s)] /\ l \in DOMAIN nodes
      /\ l \in FullLabel /\ Closed(nodes) /\ Shaped(nodes) /\ l \in Label /\ Descends(s, l)
      /\ batch[Position(0)].label = l
  BY <1>1, Place DEF TypeInv, ShapeInv
<1>4. IsLeaf(nodes[l]) /\ ~nodes[l].dirty
  BY <1>3 DEF FreshInv, KeysAreLeaves
<1>5. /\ Compact(nodes) /\ OnRoute(nodes, s, l) /\ \A x \in DOMAIN nodes : Good(nodes, x)
      /\ nodes = [x \in DOMAIN nodes |-> nodes[x]]
  <2>1. Live = nodes /\ Unmarked = {}
    BY <1>1 DEF Live, Unmarked, Marking
  <2> QED
    BY <1>1, <2>1 DEF SerialInv, TreeInv
<1>6. nodes' = nodes
  <2>1. ~WillUpdate(nodes, l)
    BY <1>4 DEF WillUpdate
  <2>2. \A x \in DOMAIN nodes : ~(x \in S /\ WillUpdate(nodes, x))
    BY <1>1, <2>1
  <2>3. UpdateHash(nodes, S) = [x \in DOMAIN nodes |-> nodes[x]]
    BY <2>2 DEF UpdateHash
  <2> QED
    BY <1>1, <1>5, <2>3
<1>7. TreeInv'
  <2>1. Live' = nodes' /\ Unmarked' = {}
    BY <1>1, <1>2 DEF Live, Unmarked, Marking
  <2> QED
    BY <1>2, <1>5, <1>6, <2>1 DEF TreeInv
<1>8. ASSUME NEW d \in DOMAIN nodes, nodes[d].dirty, Covers(nodes, d, l)
      PROVE  OnWay(nodes, s, d, l)
  <2>1. PICK p \in DOMAIN nodes :
          Starts(p, l) /\ (d = p \/ \E b \in Bit : d = ChildOn(nodes[p], b) /\ d # EmptyLabel)
    BY <1>8 DEF Covers
  <2>2. ~IsUnder(p, l, l[Len(l) + 1])
    BY <1>3, <2>1, NothingUnderKey DEF Closed
  <2>3. PICK j \in 1..Len(s) : p = s[j]
    BY <1>1, <2>1, <2>2 DEF SerialInv, HashingInv
  <2>4. j # Len(s)
    <3> SUFFICES ASSUME j = Len(s) PROVE FALSE
      OBVIOUS
    <3>1. p = l
      BY <1>3, <2>3
    <3>2. \A b \in Bit : ChildOn(nodes[l], b) = EmptyLabel
      BY <1>4 DEF IsLeaf, ChildOn
    <3> QED
      BY <1>4, <1>8, <2>1, <3>1, <3>2
  <2>5. j \in 1..(Len(s) - 1)
    BY <1>3, <2>4
  <2>6. NextBit(s[j], l) = l[Len(s[j]) + 1] /\ NextBit(s[j], l) \in Bit
    BY <1>3, <2>5, WayBit
  <2>7. CASE d = p
    BY <2>3, <2>5, <2>7 DEF OnWay
  <2>8. ASSUME NEW b \in Bit, d = ChildOn(nodes[p], b), d # EmptyLabel
        PROVE  OnWay(nodes, s, d, l)
    <3>1. CASE b # NextBit(s[j], l)
      <4>1. b = 1 - l[Len(s[j]) + 1]
        BY <2>6, <3>1 DEF Bit
      <4> QED
        BY <2>3, <2>5, <2>8, <4>1 DEF OnWay
    <3>2. CASE b = NextBit(s[j], l)
      <4>1. d = s[j + 1]
        BY <1>5, <2>3, <2>5, <2>6, <2>8, <3>2 DEF OnRoute
      <4>2. j + 1 # Len(s)
        BY <1>3, <1>4, <1>8, <4>1
      <4>3. j + 1 \in 1..(Len(s) - 1)
        BY <1>3, <2>5, <4>2
      <4> QED
        BY <4>1, <4>3 DEF OnWay
    <3> QED
      BY <3>1, <3>2
  <2> QED
    BY <2>1, <2>7, <2>8
<1>9. ASSUME NEW d \in DOMAIN nodes, nodes[d].dirty, Waits(d)
      PROVE  Waits(d)'
  <2>1. PICK k \in th[0].work : Covers(nodes, d, batch[k].label)
    BY <1>1, <1>9 DEF Waits
  <2>2. CASE k = Position(0)
    <3>1. OnWay(nodes, s, d, l)
      BY <1>3, <1>8, <1>9, <2>1, <2>2
    <3> QED
      BY <1>2, <1>6, <3>1 DEF Waits
  <2>3. CASE k # Position(0)
    BY <1>2, <1>6, <2>1, <2>3 DEF Waits
  <2> QED
    BY <2>2, <2>3
<1>10. HashingInv'
  BY <1>1, <1>2, <1>6, <1>9 DEF SerialInv, HashingInv
<1>11. InsertInv' /\ SettledInv'
  BY <1>1, <1>2 DEF InsertInv, SettledInv
<1> QED
  BY <1>7, <1>10, <1>11 DEF SerialInv

(* Back in the caller: its other child, and then the node itself, have a   *)
(* new hash, or wait for another key below them.                           *)
LEMMA HashReturnSerial ==
  ASSUME TypeInv, ShapeInv, Alone, SerialInv, HashReturn(0)
  PROVE  SerialInv'
<1> DEFINE s == th[0].stack
           l == Target(0)
           p == Caller(0)
           c == Current(0)
           side == NextBit(p, l)
           sib == ChildOn(nodes[p], 1 - side)
<1>1. PICK siblings, self :
        /\ phase = "hash" /\ th[0].pc = "return" /\ Len(s) > 1
        /\ siblings = IF sib = EmptyLabel \/ Level(0) < RootLevels THEN {} ELSE {sib}
        /\ self = IF Level(0) - 1 < RootLevels THEN {} ELSE {p}
        /\ nodes' = UpdateHash(UpdateHash(nodes, siblings), self)
        /\ Step(0, "return", Pop(s), th[0].status) /\ UNCHANGED callVars
  BY DEF HashReturn, InPhase, Goto
<1>2. /\ th'[0].pc = "return" /\ th'[0].stack = Pop(s) /\ Target(0)' = l /\ Position(0)' = Position(0)
      /\ phase' = phase /\ batch' = batch /\ single' = single /\ th'[0].work = th[0].work
  BY <1>1, StepPlace
<1>3. /\ s \in Seq(Label) /\ Descends(s, l) /\ s[1] = EmptyLabel
      /\ l \in FullLabel /\ l \in Label /\ batch[Position(0)].label = l
      /\ p = s[Len(s) - 1] /\ p \in DOMAIN nodes /\ p \in Label
      /\ c = s[Len(s)] /\ c \in DOMAIN nodes /\ c \in Label /\ c # EmptyLabel
      /\ side = l[Len(p) + 1] /\ side \in Bit /\ Starts(p, l) /\ IsUnder(c, p, side)
      /\ \A k \in th[0].work : batch[k].label \in FullLabel
  <2>1. \A k \in th[0].work : batch[k].label \in FullLabel
    <3>1. th[0].work \subseteq DOMAIN batch /\ batch \in Seq(Entry)
      BY DEF Alone, TypeInv, StateOK, IsRecursion
    <3>2. \A k \in DOMAIN batch : batch[k] \in Entry
      BY <3>1
    <3> QED
      BY <3>1, <3>2 DEF Entry
  <2> QED
    BY <1>1, <2>1, Place
<1>4. PICK m \in Nat \ {0} : Len(s) = m + 1
  <2>1. PICK j \in Nat : Len(s) = j
    BY <1>3
  <2>2. j - 1 \in Nat \ {0} /\ j = (j - 1) + 1
    BY <1>1, <2>1
  <2> QED
    BY <2>1, <2>2
<1>5. /\ Len(Pop(s)) = m /\ \A k \in 1..m : Pop(s)[k] = s[k]
      /\ p = s[m] /\ c = s[m + 1]
  <2>1. Len(Pop(s)) = m /\ \A k \in 1..m : Pop(s)[k] = s[k]
    BY <1>3, <1>4 DEF Pop
  <2>2. Len(s) = m + 1 /\ Len(s) - 1 = m
    BY <1>4
  <2> QED
    BY <1>3, <2>1, <2>2
<1>6. /\ Compact(nodes) /\ OnRoute(nodes, s, l) /\ \A x \in DOMAIN nodes : Good(nodes, x)
  <2>1. Live = nodes /\ Unmarked = {}
    BY <1>1 DEF Live, Unmarked, Marking
  <2> QED
    BY <1>1, <2>1 DEF SerialInv, TreeInv
<1>7. /\ sib # EmptyLabel => siblings = {sib}
      /\ siblings \subseteq {sib} /\ self \subseteq {p}
      /\ p # EmptyLabel \/ single => self = {p}
  <2>1. RootLevels = (IF single THEN 0 ELSE 1) /\ Level(0) = m
    BY <1>4 DEF RootLevels, Level, Alone
  <2>2. ~(Level(0) < RootLevels)
    BY <2>1
  <2>3. p # EmptyLabel => m # 1
    BY <1>3, <1>5
  <2>4. p # EmptyLabel \/ single => ~(Level(0) - 1 < RootLevels)
    BY <2>1, <2>3
  <2> QED
    BY <1>1, <2>2, <2>4
<1>8. /\ sib \in DOMAIN nodes /\ 1 - side \in Bit /\ 1 - side # side
      /\ c = ChildOn(nodes[p], side)
      /\ \A b \in Bit : b = side \/ b = 1 - side
  <2>1. 1 - side \in Bit /\ 1 - side # side /\ \A b \in Bit : b = side \/ b = 1 - side
    BY <1>3 DEF Bit
  <2>2. sib \in DOMAIN nodes
    BY <1>3, <1>6, <2>1, CompactFact
  <2>3. m \in 1..(Len(s) - 1)
    BY <1>4
  <2>4. c = ChildOn(nodes[p], side)
    BY <1>3, <1>5, <1>6, <2>3 DEF OnRoute
  <2> QED
    BY <2>1, <2>2, <2>4
<1> DEFINE t == UpdateHash(nodes, siblings)
           u == UpdateHash(t, self)
<1>9. /\ Compact(t) /\ DOMAIN t = DOMAIN nodes
      /\ \A x \in DOMAIN nodes : Good(t, x)
      /\ \A x \in DOMAIN nodes : /\ t[x].left = nodes[x].left /\ t[x].right = nodes[x].right
                                 /\ t[x].dirty => nodes[x].dirty
      /\ sib \in siblings /\ t[sib].dirty =>
           \E b \in Bit : ChildOn(nodes[sib], b) # EmptyLabel /\ nodes[ChildOn(nodes[sib], b)].dirty
  <2> HIDE DEF sib
  <2> QED
    BY <1>6, <1>7, <1>8, UpdateOne
<1> HIDE DEF t
<1>10. /\ Compact(u) /\ DOMAIN u = DOMAIN nodes
       /\ \A x \in DOMAIN nodes : Good(u, x)
       /\ \A x \in DOMAIN nodes : /\ u[x].left = t[x].left /\ u[x].right = t[x].right
                                  /\ u[x].dirty => t[x].dirty
       /\ p \in self /\ u[p].dirty =>
            \E b \in Bit : ChildOn(t[p], b) # EmptyLabel /\ t[ChildOn(t[p], b)].dirty
  <2>1. p \in DOMAIN t /\ self \subseteq {p}
    BY <1>3, <1>7, <1>9
  <2> HIDE DEF p
  <2>2. /\ Compact(u) /\ DOMAIN u = DOMAIN t
        /\ \A x \in DOMAIN u : Good(u, x)
        /\ \A x \in DOMAIN t : /\ u[x].left = t[x].left /\ u[x].right = t[x].right
                               /\ u[x].dirty => t[x].dirty
        /\ p \in self /\ u[p].dirty =>
             \E b \in Bit : ChildOn(t[p], b) # EmptyLabel /\ t[ChildOn(t[p], b)].dirty
    <3>1. Compact(t) /\ \A x \in DOMAIN t : Good(t, x)
      BY <1>9
    <3> QED
      BY <2>1, <3>1, UpdateOne
  <2> QED
    BY <1>9, <2>2
<1>11. nodes' = u /\ u = [x \in DOMAIN u |-> u[x]]
  BY <1>1 DEF t, UpdateHash
<1> HIDE DEF u
<1>12. \A x \in DOMAIN nodes, b \in Bit : /\ ChildOn(nodes'[x], b) = ChildOn(nodes[x], b)
                                          /\ ChildOn(t[x], b) = ChildOn(nodes[x], b)
  BY <1>9, <1>10, <1>11 DEF ChildOn
<1>13. ASSUME NEW k \in 1..(Len(s) - 1)
       PROVE  /\ s[k] \in DOMAIN nodes /\ s[k] \in Label /\ Starts(s[k], l) /\ s[k] # c
              /\ NextBit(s[k], l) = l[Len(s[k]) + 1] /\ NextBit(s[k], l) \in Bit
  <2>1. k \in 1..Len(s) /\ Len(s) \in 1..Len(s) /\ k < Len(s)
    BY <1>4
  <2>2. s[k] \in DOMAIN nodes
    <3>1. s \in Seq(DOMAIN nodes)
      BY <1>1, Place, BusyFact
    <3> QED
      BY <2>1, <3>1
  <2>3. s[k] # c
    BY <1>3, <2>1, Deeper
  <2> QED
    BY <1>3, <2>2, <2>3, WayBit
<1>14. TreeInv'
  <2>1. Live' = nodes' /\ Unmarked' = {}
    BY <1>1, <1>2 DEF Live, Unmarked, Marking
  <2>2. ASSUME NEW k \in 1..(m - 1)
        PROVE  Pop(s)[k + 1] = ChildOn(nodes'[Pop(s)[k]], l[Len(Pop(s)[k]) + 1])
    <3>1. k \in 1..(Len(s) - 1) /\ k \in 1..m /\ k + 1 \in 1..m
      BY <1>4
    <3>2. Pop(s)[k] = s[k] /\ Pop(s)[k + 1] = s[k + 1]
      BY <1>5, <3>1
    <3> QED
      BY <1>6, <1>12, <1>13, <3>1, <3>2 DEF OnRoute
  <2>3. OnRoute(nodes', Pop(s), l)
    BY <1>5, <2>2 DEF OnRoute
  <2> QED
    BY <1>2, <1>10, <1>11, <2>1, <2>3 DEF TreeInv
(* What waits for another entry goes on waiting for it. *)
<1> DEFINE Later(d) == \E k \in th[0].work : k # Position(0) /\ Covers(nodes, d, batch[k].label)
<1>15. \A d \in DOMAIN nodes : Later(d) => Waits(d)'
  <2>1. \A d, k : Covers(nodes, d, k) => Covers(nodes', d, k)
    BY <1>10, <1>11, <1>12, CoversSame
  <2> QED
    BY <1>2, <2>1 DEF Waits
<1>16. ASSUME NEW x \in DOMAIN nodes, NEW b \in Bit, ChildOn(nodes[x], b) # EmptyLabel,
              Later(ChildOn(nodes[x], b))
       PROVE  Later(x)
  BY <1>3, <1>6, <1>16, CoverUp
<1>17. sib # EmptyLabel => ~Starts(sib, l)
  <2> SUFFICES ASSUME sib # EmptyLabel, Starts(sib, l) PROVE FALSE
    OBVIOUS
  <2>1. IsUnder(sib, p, 1 - side) /\ sib \in Label
    BY <1>3, <1>6, <1>8, CompactFact
  <2>2. IsUnder(l, p, 1 - side)
    BY <1>3, <2>1, StartsUnder
  <2>3. IsUnder(l, p, side)
    BY <1>3, <2>2, StartsIsUnder, UnderIsBelow
  <2> QED
    BY <1>8, <2>2, <2>3, OneSide
<1>18. sib # EmptyLabel /\ t[sib].dirty => Later(sib)
  <2> SUFFICES ASSUME sib # EmptyLabel, t[sib].dirty PROVE Later(sib)
    OBVIOUS
  <2>1. PICK b \in Bit : ChildOn(nodes[sib], b) # EmptyLabel /\ nodes[ChildOn(nodes[sib], b)].dirty
    BY <1>7, <1>9
  <2> DEFINE x == ChildOn(nodes[sib], b)
  <2>2. x \in DOMAIN nodes /\ x \in Label /\ sib \in Label /\ Starts(sib, x)
    BY <1>6, <1>8, <2>1, CompactFact, UnderIsBelow
  <2>3. ~OnWay(nodes, s, x, l)
    <3> SUFFICES ASSUME NEW j \in 1..(Len(s) - 1),
                        x = s[j] \/ x = ChildOn(nodes[s[j]], 1 - l[Len(s[j]) + 1])
                 PROVE  FALSE
      BY DEF OnWay
    <3>1. CASE x = s[j]
      BY <1>3, <1>13, <1>17, <2>2, <3>1, StartsTrans
    <3>2. CASE x = ChildOn(nodes[s[j]], 1 - l[Len(s[j]) + 1])
      <4>1. 1 - l[Len(s[j]) + 1] \in Bit
        BY <1>13 DEF Bit
      <4>2. s[j] = sib
        BY <1>6, <1>8, <1>13, <2>1, <3>2, <4>1, OneParent
      <4> QED
        BY <1>13, <1>17, <4>2
    <3> QED
      BY <3>1, <3>2
  <2>4. Waits(x)
    BY <1>1, <2>1, <2>2 DEF SerialInv, HashingInv
  <2>5. Later(x)
    BY <1>1, <2>3, <2>4 DEF Waits
  <2> QED
    BY <1>8, <1>16, <2>1, <2>5
<1>19. nodes[c].dirty => Later(c)
  <2> SUFFICES ASSUME nodes[c].dirty PROVE Later(c)
    OBVIOUS
  <2>1. ~OnWay(nodes, s, c, l)
    <3> SUFFICES ASSUME NEW j \in 1..(Len(s) - 1), c = ChildOn(nodes[s[j]], 1 - l[Len(s[j]) + 1])
                 PROVE  FALSE
      BY <1>13 DEF OnWay
    <3>1. 1 - l[Len(s[j]) + 1] \in Bit /\ 1 - l[Len(s[j]) + 1] # l[Len(s[j]) + 1]
      BY <1>13 DEF Bit
    <3>2. s[j] = p /\ 1 - l[Len(s[j]) + 1] = side
      BY <1>3, <1>6, <1>8, <1>13, <3>1, OneParent
    <3> QED
      BY <1>3, <3>1, <3>2
  <2>2. Waits(c)
    BY <1>1, <1>3 DEF SerialInv, HashingInv
  <2> QED
    BY <1>1, <2>1, <2>2 DEF Waits
<1>20. p \in self /\ u[p].dirty => Later(p)
  <2> SUFFICES ASSUME p \in self, u[p].dirty PROVE Later(p)
    OBVIOUS
  <2>1. PICK b \in Bit : ChildOn(t[p], b) # EmptyLabel /\ t[ChildOn(t[p], b)].dirty
    BY <1>10
  <2>2. ChildOn(t[p], b) = ChildOn(nodes[p], b)
    BY <1>3, <1>12
  <2>3. CASE b = side
    <3>1. nodes[c].dirty
      BY <1>3, <1>8, <1>9, <2>1, <2>2, <2>3
    <3> QED
      BY <1>3, <1>8, <1>16, <1>19, <3>1
  <2>4. CASE b = 1 - side
    <3>1. sib # EmptyLabel /\ Later(sib)
      BY <1>18, <2>1, <2>2, <2>4
    <3> QED
      BY <1>3, <1>8, <1>16, <3>1
  <2> QED
    BY <1>8, <2>3, <2>4
<1>21. ASSUME NEW d \in DOMAIN nodes, nodes'[d].dirty, d # EmptyLabel \/ single
       PROVE  Waits(d)'
  <2>1. nodes[d].dirty /\ t[d].dirty
    BY <1>9, <1>10, <1>11, <1>21
  <2>2. Waits(d)
    BY <1>1, <1>21, <2>1 DEF SerialInv, HashingInv
  <2>3. CASE Later(d)
    BY <1>15, <2>3
  <2>4. ASSUME NEW j \in 1..(Len(s) - 1),
               d = s[j] \/ (d # EmptyLabel /\ d = ChildOn(nodes[s[j]], 1 - l[Len(s[j]) + 1]))
        PROVE  Waits(d)'
    <3>1. CASE j # m
      <4>1. j \in 1..(Len(Pop(s)) - 1) /\ Pop(s)[j] = s[j]
        BY <1>4, <1>5, <3>1
      <4>2. 1 - l[Len(s[j]) + 1] \in Bit
        <5>1. l[Len(s[j]) + 1] \in Bit
          BY <1>13
        <5> QED
          BY <5>1 DEF Bit
      <4>3. OnWay(nodes', Pop(s), d, l)
        BY <1>12, <1>13, <2>4, <4>1, <4>2 DEF OnWay
      <4> QED
        BY <1>2, <4>3 DEF Waits
    <3>2. CASE j = m /\ d = s[j]
      BY <1>5, <1>7, <1>11, <1>15, <1>20, <1>21, <3>2
    <3>3. CASE j = m /\ d # EmptyLabel /\ d = ChildOn(nodes[s[j]], 1 - l[Len(s[j]) + 1])
      <4>1. d = sib
        BY <1>3, <1>5, <3>3
      <4> QED
        BY <1>15, <1>18, <2>1, <3>3, <4>1
    <3> QED
      BY <2>4, <3>1, <3>2, <3>3
  <2>5. Later(d) \/ OnWay(nodes, s, d, l)
    BY <1>1, <2>2 DEF Waits
  <2> QED
    BY <2>3, <2>4, <2>5 DEF OnWay
<1>22. HashingInv'
  BY <1>1, <1>2, <1>10, <1>11, <1>21 DEF HashingInv
<1>23. InsertInv' /\ SettledInv'
  BY <1>1, <1>2 DEF InsertInv, SettledInv
<1> QED
  BY <1>14, <1>22, <1>23 DEF SerialInv


-----------------------------------------------------------------------------
(* The caller, and the beginning and the end of a call                     *)

LEMMA AtRest ==
  ASSUME SerialInv, th[0].pc = "done"
  PROVE  /\ nodes = [x \in DOMAIN nodes |-> nodes[x]]
         /\ Compact(nodes) /\ \A n \in DOMAIN nodes : Good(nodes, n)
<1>1. Live = nodes /\ Unmarked = {}
  BY DEF Live, Unmarked, Marking, AfterAttach
<1> QED
  BY <1>1 DEF SerialInv, TreeInv

(* A step to a moment at which no recursion is under way. *)
LEMMA RestSerial ==
  ASSUME th'[0].pc = "done", phase' \notin {"insert", "hash"}, SettledInv',
         nodes' = [x \in DOMAIN nodes' |-> nodes'[x]],
         Compact(nodes'), \A n \in DOMAIN nodes' : Good(nodes', n)
  PROVE  SerialInv'
<1>1. Live' = nodes' /\ Unmarked' = {}
  BY DEF Live, Unmarked, Marking, AfterAttach
<1>2. TreeInv'
  BY <1>1 DEF TreeInv
<1>3. InsertInv' /\ HashingInv'
  BY DEF InsertInv, HashingInv
<1> QED
  BY <1>2, <1>3 DEF SerialInv

LEMMA BeginSerial ==
  ASSUME OneThread, TypeInv, Alone, SerialInv, BeginInsert \/ BeginInsertBatch
  PROVE  SerialInv'
<1>1. phase = "idle" /\ phase' = "insert" /\ nodes' = nodes
  BY DEF BeginInsert, BeginInsertBatch, Begin
<1>2. th[0].pc = "done" /\ \A d \in DOMAIN nodes : ~nodes[d].dirty
  BY <1>1 DEF SerialInv, SettledInv
<1>3. th'[0] = Recursion(DOMAIN batch')
  BY BeginAlone
<1>4. /\ th'[0].pc \in {"call", "done"} /\ Live' = nodes' /\ Unmarked' = {}
      /\ OnRoute(nodes', th'[0].stack, Target(0)')
  BY <1>3, RestartFact
<1>5. TreeInv'
  BY <1>1, <1>2, <1>4, AtRest DEF TreeInv
<1>6. InsertInv'
  BY <1>1, <1>2, <1>4 DEF InsertInv
<1>7. HashingInv' /\ SettledInv'
  BY <1>1 DEF HashingInv, SettledInv
<1> QED
  BY <1>5, <1>6, <1>7 DEF SerialInv

(* All entries hashed: nothing but the root of a batch is still dirty. *)
LEMMA JoinHashingSerial ==
  ASSUME TypeInv, Alone, SerialInv, JoinHashing
  PROVE  SerialInv'
<1>1. /\ phase = "hash" /\ th[0].pc = "done" /\ th[0].work = {}
      /\ phase' = (IF single THEN "save" ELSE "top") /\ top' = 0
      /\ nodes' = nodes /\ th' = th /\ single' = single /\ single \in {TRUE, FALSE}
  BY DEF JoinHashing, Alone, TypeInv, StateOK
<1>2. \A d \in DOMAIN nodes : ~Waits(d)
  BY <1>1 DEF Waits
<1>3. \A d \in DOMAIN nodes : nodes[d].dirty => d = EmptyLabel /\ ~single
  BY <1>1, <1>2 DEF SerialInv, HashingInv
<1>4. SettledInv'
  BY <1>1, <1>3 DEF SettledInv
<1> QED
  BY <1>1, <1>4, AtRest, RestSerial

LEMMA TopIsRoot == \A t : TopNodes(t, 0) = {EmptyLabel}
<1> SUFFICES ASSUME NEW t PROVE TopNodes(t, 0) = {EmptyLabel}
  OBVIOUS
<1> DEFINE F(g) == [k \in 0..0 |->
                      IF k = 0 THEN {EmptyLabel}
                      ELSE {t[n].left : n \in g[k - 1]} \cup {t[n].right : n \in g[k - 1]}]
           v == CHOOSE g : g = F(g)
<1>1. \E g : g = F(g)
  <2> DEFINE g == [k \in 0..0 |-> {EmptyLabel}]
  <2>1. g = F(g)
    OBVIOUS
  <2> QED
    BY <2>1
<1>2. v = F(v)
  BY <1>1
<1>3. TopNodes(t, 0) = v[0]
  BY Zenon DEF TopNodes
<1> HIDE DEF v
<1>4. v[0] = {EmptyLabel}
  BY <1>2
<1> QED
  BY <1>3, <1>4

(* The root of a batch is hashed last, and nothing is dirty then. *)
LEMMA ComputeTopSerial ==
  ASSUME Alone, SerialInv, ComputeTop
  PROVE  SerialInv'
<1>1. /\ phase = "top" /\ top = 0 /\ th[0].pc = "done"
      /\ \A d \in DOMAIN nodes : nodes[d].dirty => d = EmptyLabel
  BY DEF ComputeTop, SerialInv, SettledInv
<1>2. /\ nodes' = UpdateHash(nodes, TopNodes(nodes, 0)) /\ phase' = "save" /\ th' = th
  BY <1>1 DEF ComputeTop
<1>3. Compact(nodes) /\ \A n \in DOMAIN nodes : Good(nodes, n)
  BY <1>1, AtRest
<1>4. EmptyLabel \in DOMAIN nodes
  BY <1>3, CompactFact
<1> DEFINE u == UpdateHash(nodes, {EmptyLabel})
<1>5. /\ Compact(u) /\ DOMAIN u = DOMAIN nodes /\ \A n \in DOMAIN u : Good(u, n)
      /\ \A n \in DOMAIN nodes : u[n].dirty => nodes[n].dirty
      /\ u[EmptyLabel].dirty =>
           \E b \in Bit : /\ ChildOn(nodes[EmptyLabel], b) # EmptyLabel
                          /\ nodes[ChildOn(nodes[EmptyLabel], b)].dirty
  BY <1>3, <1>4, UpdateOne
<1>6. nodes' = u /\ u = [x \in DOMAIN u |-> u[x]]
  BY <1>2, TopIsRoot DEF UpdateHash
<1> HIDE DEF u
<1>7. ASSUME NEW d \in DOMAIN nodes
      PROVE  ~u[d].dirty
  <2>1. \A b \in Bit : ChildOn(nodes[EmptyLabel], b) \in DOMAIN nodes
    BY <1>3, <1>4, CompactFact
  <2> QED
    BY <1>1, <1>5, <2>1
<1>8. SettledInv'
  BY <1>1, <1>2, <1>5, <1>6, <1>7 DEF SettledInv
<1> QED
  BY <1>1, <1>2, <1>5, <1>6, <1>8, RestSerial

LEMMA NoneThrows ==
  ASSUME Alone, SerialInv
  PROVE  ~TaskThrew /\ ~TopThrew
<1>1. ~TaskThrew
  <2> SUFFICES ASSUME TaskThrew PROVE FALSE
    OBVIOUS
  <2>1. phase \in {"insert", "hash"} /\ th[0].pc = "failed"
    BY DEF TaskThrew, Alone
  <2> QED
    BY <2>1 DEF SerialInv, InsertInv, HashingInv
<1>2. ~TopThrew
  BY DEF TopThrew, TopIsMissing, Alone
<1> QED
  BY <1>1, <1>2

(* The last step of a call leaves what it should. *)
LEMMA CallerSerial ==
  ASSUME TypeInv, Alone, SerialInv, CallerStep
  PROVE  SerialInv'
<1>1. CASE Finish
  <2>1. phase = "save" /\ phase' = "idle" /\ nodes' = nodes /\ th' = [i \in {0} |-> Recursion({})]
    BY <1>1 DEF Finish, Return, NoThreads
  <2>2. th[0].pc = "done" /\ \A d \in DOMAIN nodes : ~nodes[d].dirty
    BY <2>1 DEF SerialInv, SettledInv
  <2>3. th'[0].pc = "done"
    BY <2>1, RecursionFact
  <2>4. SettledInv'
    BY <2>1, <2>2, <2>3 DEF SettledInv
  <2> QED
    BY <2>1, <2>2, <2>3, <2>4, AtRest, RestSerial
<1> QED
  BY <1>1, NoneThrows, JoinSerial, JoinHashingSerial, ComputeTopSerial DEF CallerStep

LEMMA InitSerial ==
  ASSUME Init
  PROVE  SerialInv
<1>1. nodes = EmptyTrie /\ phase = "idle" /\ th[0].pc = "done"
  BY RecursionFact DEF Init, NoThreads
<1>2. EmptyTrie = [n \in {EmptyLabel} |-> EmptyRoot] /\ DOMAIN EmptyTrie = {EmptyLabel}
  BY DEF EmptyTrie
<1>3. EmptyTrie[EmptyLabel].left = EmptyLabel /\ EmptyTrie[EmptyLabel].right = EmptyLabel
      /\ EmptyTrie[EmptyLabel].dirty = FALSE
  BY <1>2 DEF EmptyRoot, NewLeaf, Node
<1>4. \A n \in DOMAIN EmptyTrie : Good(EmptyTrie, n)
  BY <1>2, <1>3 DEF Good, IsLeaf
<1>5. Compact(EmptyTrie)
  <2>1. Shaped(EmptyTrie)
    BY <1>2, <1>3 DEF Shaped, ShapedNode, ChildOn
  <2>2. Reach(EmptyTrie)
    <3>1. \A b \in Bit : ~IsUnder(EmptyLabel, EmptyLabel, b)
      BY UnderIsBelow, FullIsLabel
    <3> QED
      BY <1>2, <3>1 DEF Reach
  <2> QED
    BY <2>1, <2>2, EmptyTrieIsClosed DEF Compact
<1>6. Live = nodes /\ Unmarked = {}
  BY <1>1 DEF Live, Unmarked, Marking
<1>7. TreeInv /\ SettledInv
  BY <1>1, <1>2, <1>3, <1>4, <1>5, <1>6 DEF TreeInv, SettledInv
<1> QED
  BY <1>1, <1>7 DEF SerialInv, InsertInv, HashingInv

(* What the invariant speaks of. *)
LEMMA SameSerial ==
  ASSUME SerialInv, UNCHANGED <<nodes, phase, single, batch, th, top>>
  PROVE  SerialInv'
<1>1. Target(0)' = Target(0) /\ Current(0)' = Current(0) /\ Caller(0)' = Caller(0)
  BY DEF Target, Position, Current, Caller
<1>2. Live' = Live /\ Unmarked' = Unmarked
  BY <1>1 DEF Live, Unmarked, Marking
<1>3. \A d : Waits(d)' <=> Waits(d)
  BY <1>1 DEF Waits, Position
<1>4. TreeInv' /\ InsertInv'
  BY <1>1, <1>2 DEF SerialInv, TreeInv, InsertInv
<1>5. HashingInv' /\ SettledInv'
  BY <1>1, <1>3 DEF SerialInv, HashingInv, SettledInv
<1> QED
  BY <1>4, <1>5 DEF SerialInv

LEMMA NextSerial ==
  ASSUME OneThread, TypeInv, ShapeInv, FreshInv, Alone, SerialInv, Next
  PROVE  SerialInv'
<1>1. ASSUME NEW i \in Threads, ThreadStep(i)
      PROVE  SerialInv'
  <2>1. i = 0
    BY DEF Alone
  <2> QED
    BY <1>1, <2>1, NoThrow, FollowSerial, FillSerial, SplitSerial, MarkSerial, StatusSerial,
       NextEntrySerial, HashFollowSerial, HashFoundSerial, HashReturnSerial DEF ThreadStep
<1>2. ASSUME SaveNext
      PROVE  SerialInv'
  BY <1>2, SameSerial DEF SaveNext, callVars
<1> QED
  BY <1>1, <1>2, BeginSerial, CallerSerial, NoRace DEF Next

LEMMA SerialInvariance == OneThread /\ FreshOnly => (Spec => []SerialInv)
<1> SUFFICES ASSUME OneThread, FreshOnly PROVE Spec => []SerialInv
  OBVIOUS
<1>1. Init => SerialInv
  BY InitSerial
<1>2. TypeInv /\ ShapeInv /\ FreshInv /\ Alone /\ SerialInv /\ [Next]_vars => SerialInv'
  BY NextSerial, SameSerial DEF vars
<1>3. Spec => []FreshInv /\ [](Alone /\ LoadsInv)
  BY FreshInvariance, LoadsInvariance
<1> QED
  BY <1>1, <1>2, <1>3, TypeInvariance, ShapeInvariance, PTL DEF Spec

(* When a call of one thread returns, whatever new labels it inserted and  *)
(* whatever the trie held, every hash that insert made out of date has     *)
(* been computed again: no node is dirty, and every inner node's hash is   *)
(* the hash of its children.  One recursion over the inserted labels, each *)
(* step of which updates a sibling and a node, is enough.                  *)
THEOREM HashesAreUpdated == OneThread /\ FreshOnly => (Spec => []HashesUpdated)
<1> SUFFICES ASSUME OneThread, FreshOnly PROVE Spec => []HashesUpdated
  OBVIOUS
<1>1. SerialInv => HashesUpdated
  <2> SUFFICES ASSUME SerialInv, phase = "idle" PROVE HashesUpdated
    BY DEF HashesUpdated, Settled
  <2>1. th[0].pc = "done" /\ \A d \in DOMAIN nodes : ~nodes[d].dirty
    BY DEF SerialInv, SettledInv
  <2> QED
    BY <2>1, AtRest DEF HashesUpdated, Good
<1> QED
  BY <1>1, SerialInvariance, PTL

(* Between calls the trie is fit to be read. *)
LEMMA SettledIsHashed ==
  ASSUME SerialInv, phase \in {"idle", "save"}
  PROVE  Hashed(nodes)
<1>1. th[0].pc = "done" /\ \A d \in DOMAIN nodes : ~nodes[d].dirty
  BY DEF SerialInv, SettledInv
<1> QED
  BY <1>1, AtRest DEF Hashed

(* In the same tries every lookup between calls answers rightly, and the   *)
(* path it returns verifies against the current commitment, with the label *)
(* in it exactly when the trie holds the label.                            *)
THEOREM ProofsAlwaysVerify == OneThread /\ FreshOnly => (Spec => []ProofsVerify)
<1> SUFFICES ASSUME OneThread, FreshOnly PROVE Spec => []ProofsVerify
  OBVIOUS
<1>1. SerialInv => ProofsVerify
  <2> SUFFICES ASSUME SerialInv, phase = "idle" PROVE ProofsVerify
    BY DEF ProofsVerify, Settled
  <2>1. Hashed(nodes)
    BY SettledIsHashed
  <2>2. ASSUME NEW l \in FullLabel
        PROVE  Answers(nodes, l, Lookup(nodes, l).status, Lookup(nodes, l).path)
    BY <2>1, LookupAnswers
  <2> QED
    BY <2>2 DEF ProofsVerify, Answers
<1> QED
  BY <1>1, SerialInvariance, PTL

-----------------------------------------------------------------------------
(* Every call inserts what it was given                                   *)

(* No call has thrown, and the entries that the one thread has done are in *)
(* the trie, the one it returns with included.                             *)
InsertedInv ==
  /\ outcome # "threw" /\ phase # "undefined"
  /\ phase = "insert" =>
       /\ \A k \in DOMAIN batch : k \in th[0].work \/ batch[k].label \in DOMAIN nodes
       /\ th[0].pc \in AfterAttach => Target(0) \in DOMAIN nodes
  /\ phase \in {"hash", "top", "save"} => \A k \in DOMAIN batch : batch[k].label \in DOMAIN nodes

LEMMA BatchLabels ==
  ASSUME TypeInv, NEW k \in DOMAIN batch
  PROVE  batch[k].label \in FullLabel
<1>1. batch \in Seq(Entry)
  BY DEF TypeInv, StateOK
<1>2. batch[k] \in Entry
  BY <1>1
<1> QED
  BY <1>2 DEF Entry

(* A step inside a recursion: keys stay, and a new one is there before the *)
(* recursion returns.                                                      *)
LEMMA StepInserted ==
  ASSUME TypeInv, Alone, InsertedInv,
         NEW pc, NEW stack, NEW status, Step(0, pc, stack, status), UNCHANGED callVars,
         KeepsKeys(nodes, nodes'),
         th[0].pc # "done",
         phase = "insert" /\ pc \in AfterAttach =>
           th[0].pc \in AfterAttach \/ Target(0) \in DOMAIN nodes'
  PROVE  InsertedInv'
<1>1. /\ th'[0].pc = pc /\ th'[0].work = th[0].work /\ Target(0)' = Target(0)
      /\ phase' = phase /\ batch' = batch
  BY StepPlace
<1>2. outcome' = outcome
  BY DEF callVars
<1>3. \A k \in DOMAIN batch : batch[k].label \in DOMAIN nodes => batch[k].label \in DOMAIN nodes'
  BY BatchLabels DEF KeepsKeys
<1>4. Target(0) \in DOMAIN nodes => Target(0) \in DOMAIN nodes'
  BY BusyFact DEF KeepsKeys, Alone
<1> QED
  BY <1>1, <1>2, <1>3, <1>4 DEF InsertedInv

LEMMA ThreadInserted ==
  ASSUME TypeInv, FreshInv, Alone, InsertedInv, ThreadStep(0), KeepsKeys(nodes, nodes')
  PROVE  InsertedInv'
<1>1. CASE \/ ThrowSameLabel(0) \/ FollowRoute(0) \/ HashFollow(0)
  <2>1. /\ th[0].pc = "call"
        /\ \E pc \in {"failed", "call"} : \E stack, status : Step(0, pc, stack, status)
        /\ UNCHANGED callVars
    <3>1. CASE ThrowSameLabel(0)
      BY <3>1 DEF ThrowSameLabel, InPhase, Goto
    <3>2. CASE FollowRoute(0)
      BY <3>2 DEF FollowRoute, InPhase, Goto
    <3>3. CASE HashFollow(0)
      BY <3>3 DEF HashFollow, InPhase, Goto
    <3> QED
      BY <1>1, <3>1, <3>2, <3>3
  <2>2. PICK pc \in {"failed", "call"} : \E stack, status : Step(0, pc, stack, status)
    BY <2>1
  <2>3. pc \notin AfterAttach
    BY <2>2 DEF AfterAttach
  <2> QED
    BY <2>1, <2>2, <2>3, StepInserted
<1>2. CASE AttachAtLeaf(0) \/ AttachInSlot(0) \/ AttachOnEdge(0)
  <2>1. PICK n, t, order : Attach(0, t, n, order) /\ Target(0) \in DOMAIN t
    <3>1. CASE AttachAtLeaf(0)
      BY <3>1 DEF AttachAtLeaf, SplitLeaf
    <3>2. CASE AttachInSlot(0)
      BY <3>2 DEF AttachInSlot, FillSlot
    <3>3. CASE AttachOnEdge(0)
      BY <3>3 DEF AttachOnEdge, SplitEdge
    <3> QED
      BY <1>2, <3>1, <3>2, <3>3
  <2>2. th[0].pc = "call"
    BY <1>2 DEF AttachAtLeaf, AttachInSlot, AttachOnEdge, InPhase
  <2>3. /\ Step(0, "return", Append(Pop(th[0].stack), n), th[0].status)
        /\ nodes' = t /\ UNCHANGED callVars
    BY <2>1 DEF Attach, Goto
  <2> QED
    BY <2>1, <2>2, <2>3, StepInserted
<1>3. CASE SetDirty(0) \/ ReadStatus(0) \/ ClearDirty(0) \/ SaveAndRestore(0)
  <2>1. th[0].pc \in AfterAttach /\ UNCHANGED callVars
    BY <1>3 DEF SetDirty, ReadStatus, ClearDirty, SaveAndRestore, InPhase, AfterAttach
  <2>2. PICK pc, stack, status : Step(0, pc, stack, status)
    BY <1>3 DEF SetDirty, ReadStatus, ClearDirty, SaveAndRestore, Goto
  <2>3. th[0].pc # "done"
    BY <2>1 DEF AfterAttach
  <2> QED
    BY <2>1, <2>2, <2>3, StepInserted
<1>4. CASE NextEntry(0)
  <2>1. /\ th' = [th EXCEPT ![0] = Recursion(th[0].work \ {Position(0)})]
        /\ th[0].pc = "return" /\ nodes' = nodes /\ UNCHANGED callVars
        /\ phase \in {"insert", "hash"}
    BY <1>4 DEF NextEntry, InPhase
  <2>2. th'[0] = Recursion(th[0].work \ {Position(0)})
    BY <2>1 DEF Alone, Threads
  <2>3. th'[0].work = th[0].work \ {Position(0)} /\ th'[0].pc \notin AfterAttach
    BY <2>2, RecursionFact DEF AfterAttach
  <2>4. phase' = phase /\ batch' = batch /\ outcome' = outcome
    BY <2>1 DEF callVars
  <2>5. phase = "insert" => batch[Position(0)].label \in DOMAIN nodes
    BY <2>1 DEF InsertedInv, AfterAttach, Target
  <2> QED
    BY <2>1, <2>3, <2>4, <2>5 DEF InsertedInv
<1>5. CASE HashFound(0) \/ HashReturn(0)
  <2>1. phase = "hash" /\ th[0].pc # "done" /\ UNCHANGED callVars
    BY <1>5 DEF HashFound, HashReturn, InPhase
  <2>2. PICK pc, stack, status : Step(0, pc, stack, status)
    BY <1>5 DEF HashFound, HashReturn, Goto
  <2> QED
    BY <2>1, <2>2, StepInserted
<1> QED
  BY <1>1, <1>2, <1>3, <1>4, <1>5 DEF ThreadStep

(* The proofs that insert looks up at the end are there. *)
LEMMA ProofsAreFound ==
  ASSUME TypeInv, SerialInv, InsertedInv, phase = "save"
  PROVE  ProofsFound
<1> SUFFICES ASSUME NEW k \in DOMAIN batch
             PROVE  Lookup(nodes, batch[k].label).status = "found"
  BY DEF ProofsFound
<1>1. batch[k].label \in FullLabel /\ batch[k].label \in DOMAIN nodes
  BY BatchLabels DEF InsertedInv
<1>2. Hashed(nodes)
  BY SettledIsHashed
<1>3. Answers(nodes, batch[k].label, Lookup(nodes, batch[k].label).status,
              Lookup(nodes, batch[k].label).path)
  BY <1>1, <1>2, LookupAnswers
<1> QED
  BY <1>1, <1>3 DEF Answers

LEMMA CallerInserted ==
  ASSUME TypeInv, Alone, SerialInv, InsertedInv, CallerStep
  PROVE  InsertedInv'
<1>1. CASE JoinInsertion
  <2>1. /\ phase = "insert" /\ phase' = "hash" /\ th[0].pc = "done"
        /\ UNCHANGED <<nodes, batch, outcome>>
    BY <1>1 DEF JoinInsertion, Alone
  <2>2. th[0].work = {}
    BY <2>1 DEF Alone
  <2> QED
    BY <2>1, <2>2 DEF InsertedInv
<1>2. CASE JoinHashing \/ ComputeTop
  <2>1. /\ phase \in {"hash", "top"} /\ phase' \in {"top", "save"}
        /\ DOMAIN nodes' = DOMAIN nodes /\ UNCHANGED <<batch, outcome>>
    BY <1>2 DEF JoinHashing, ComputeTop, UpdateHash
  <2> QED
    BY <2>1 DEF InsertedInv
<1>3. CASE Finish
  <2>1. ProofsFound
    BY <1>3, ProofsAreFound DEF Finish
  <2>2. phase' = "idle" /\ outcome' = "ok"
    BY <1>3, <2>1 DEF Finish, Return
  <2> QED
    BY <2>2 DEF InsertedInv
<1> QED
  BY <1>1, <1>2, <1>3, NoneThrows DEF CallerStep

LEMMA SameInserted ==
  ASSUME InsertedInv, UNCHANGED <<nodes, phase, batch, th, outcome>>
  PROVE  InsertedInv'
BY DEF InsertedInv, Target, Position

LEMMA NextInserted ==
  ASSUME OneThread, FreshOnly, TypeInv, FreshInv, Alone, SerialInv, InsertedInv, Next
  PROVE  InsertedInv'
<1>1. CASE BeginInsert \/ BeginInsertBatch
  <2>1. th'[0] = Recursion(DOMAIN batch')
    BY <1>1, BeginAlone
  <2>2. th'[0].work = DOMAIN batch' /\ th'[0].pc \notin AfterAttach
    BY <2>1, RecursionFact DEF AfterAttach
  <2>3. phase' = "insert" /\ outcome' = outcome
    BY <1>1 DEF BeginInsert, BeginInsertBatch, Begin
  <2> QED
    BY <2>2, <2>3 DEF InsertedInv
<1>2. ASSUME NEW i \in Threads, ThreadStep(i)
      PROVE  InsertedInv'
  <2>1. ThreadStep(0)
    BY <1>2 DEF Alone
  <2>2. KeepsKeys(nodes, nodes')
    BY NextFresh
  <2> QED
    BY <2>1, <2>2, ThreadInserted
<1>3. ASSUME SaveNext
      PROVE  InsertedInv'
  BY <1>3, SameInserted DEF SaveNext, callVars
<1> QED
  BY <1>1, <1>2, <1>3, CallerInserted, NoRace DEF Next

LEMMA InsertedInvariance == OneThread /\ FreshOnly => (Spec => []InsertedInv)
<1> SUFFICES ASSUME OneThread, FreshOnly PROVE Spec => []InsertedInv
  OBVIOUS
<1>1. Init => InsertedInv
  BY DEF Init, InsertedInv
<1>2. TypeInv /\ FreshInv /\ Alone /\ SerialInv /\ InsertedInv /\ [Next]_vars => InsertedInv'
  <2> SUFFICES ASSUME TypeInv, FreshInv, Alone, SerialInv, InsertedInv, [Next]_vars
               PROVE  InsertedInv'
    OBVIOUS
  <2>1. CASE UNCHANGED vars
    BY <2>1, SameInserted DEF vars
  <2> QED
    BY <2>1, NextInserted
<1>3. Spec => []FreshInv /\ [](Alone /\ LoadsInv) /\ []SerialInv
  BY FreshInvariance, LoadsInvariance, SerialInvariance
<1> QED
  BY <1>1, <1>2, <1>3, TypeInvariance, PTL DEF Spec

(* One thread never fails on labels that are new: no insert of one label   *)
(* and no batch throws, and nothing is undefined.  The recursion never     *)
(* meets its own label, every top node exists, and the proofs that insert  *)
(* returns are all found.                                                  *)
THEOREM FreshNeverThrows == OneThread /\ FreshOnly => (Spec => [](FreshInsertSucceeds /\ ThrowsOnlyInSkewed))
<1> SUFFICES ASSUME OneThread, FreshOnly PROVE Spec => [](FreshInsertSucceeds /\ ThrowsOnlyInSkewed)
  OBVIOUS
<1>1. InsertedInv => FreshInsertSucceeds /\ ThrowsOnlyInSkewed
  BY DEF InsertedInv, FreshInsertSucceeds, ThrowsOnlyInSkewed
<1> QED
  BY <1>1, InsertedInvariance, PTL

-----------------------------------------------------------------------------
(* Storage holds what memory holds                                         *)

(* What save_to_storage writes of a node. *)
AsSaved(node) == IF IsStored THEN node ELSE SetDirtyBit(node, FALSE)

(* A linked node is saved three steps after it was marked. *)
BeingSaved == th[0].pc \in {"status", "clear", "restore"}

(* What the thread saves next, node by node. *)
Waiting == {saves[k] : k \in DOMAIN saves}

SavedInv ==
  /\ phase = "idle" /\ HasStorage => storedEpoch = epoch
  /\ BeingSaved => ~IsStored
  /\ HasStorage =>
       /\ stored = [x \in DOMAIN stored |-> stored[x]]
       /\ \A x \in DOMAIN nodes \ Waiting :
            (BeingSaved /\ x = Current(0)) \/ stored[x] = AsSaved(nodes[x])

LEMMA NoneWait ==
  ASSUME saves = <<>>
  PROVE  Waiting = {}
BY DEF Waiting

LEMMA StoredOrWaiting ==
  ASSUME LoadsInv, HasStorage
  PROVE  DOMAIN nodes = DOMAIN stored \cup Waiting
<1>1. CASE NothingToSave
  BY <1>1, NoneWait DEF NothingToSave
<1>2. CASE OneToSave
  <2>1. PICK x : saves = <<x>> /\ DOMAIN nodes = DOMAIN stored \cup {x}
    BY <1>2 DEF OneToSave
  <2>2. Waiting = {x}
    BY <2>1 DEF Waiting
  <2> QED
    BY <2>1, <2>2
<1>3. CASE TwoToSave
  <2>1. PICK x, y : saves = <<x, y>> /\ DOMAIN nodes = DOMAIN stored \cup {x, y}
    BY <1>3 DEF TwoToSave
  <2>2. Waiting = {x, y}
    BY <2>1 DEF Waiting
  <2> QED
    BY <2>1, <2>2
<1>4. CASE ThreeToSave
  <2>1. PICK x, y, z : saves = <<x, y, z>> /\ DOMAIN nodes = DOMAIN stored \cup {x, y, z}
    BY <1>4 DEF ThreeToSave
  <2>2. Waiting = {x, y, z}
    BY <2>1 DEF Waiting
  <2> QED
    BY <2>1, <2>2
<1> QED
  BY <1>1, <1>2, <1>3, <1>4 DEF LoadsInv

(* A step that saves S: a node that it changes is in S, or is the one that *)
(* the thread has marked and goes on to save.                              *)
LEMMA SaveSaved ==
  ASSUME Alone, LoadsInv, SavedInv, phase # "idle", phase' # "idle", saves = <<>>,
         NEW t, NEW S, Save(0, t, S), BeingSaved' => ~IsStored,
         \A x \in DOMAIN nodes' :
           \/ x \in S /\ AsSaved(t[x]) = AsSaved(nodes'[x])
           \/ x \in DOMAIN nodes \ S /\ nodes'[x] = nodes[x] /\ ~(BeingSaved /\ x = Current(0))
           \/ (BeingSaved /\ x = Current(0))'
  PROVE  SavedInv'
<1>1. ASSUME HasStorage
      PROVE  /\ stored' = [x \in DOMAIN stored' |-> stored'[x]]
             /\ \A x \in S : stored'[x] = AsSaved(t[x])
             /\ \A x \in DOMAIN nodes \ S : stored'[x] = stored[x]
  <2>1. stored' = Copied(t, S, stored) /\ DOMAIN stored = DOMAIN nodes
    BY <1>1, SaveAlone, LoadsAtRest
  <2> QED
    BY <2>1 DEF Copied, AsSaved
<1>2. ASSUME HasStorage, NEW x \in DOMAIN nodes'
      PROVE  (BeingSaved /\ x = Current(0))' \/ stored'[x] = AsSaved(nodes'[x])
  <2>1. CASE x \in S /\ AsSaved(t[x]) = AsSaved(nodes'[x])
    BY <1>1, <1>2, <2>1
  <2>2. CASE x \in DOMAIN nodes \ S /\ nodes'[x] = nodes[x] /\ ~(BeingSaved /\ x = Current(0))
    <3>1. stored[x] = AsSaved(nodes[x])
      BY <1>2, <2>2, NoneWait DEF SavedInv
    <3> QED
      BY <1>1, <1>2, <2>2, <3>1
  <2> QED
    BY <2>1, <2>2
<1> QED
  BY <1>1, <1>2 DEF SavedInv, HasStorage, AsSaved, IsStored

(* A step that saves nothing changes no node but the one on its way there. *)
LEMMA QuietSaved ==
  ASSUME SavedInv, stored' = stored, phase' # "idle", saves = <<>>,
         BeingSaved' => ~IsStored,
         HasStorage =>
           \A x \in DOMAIN nodes' :
             \/ x \in DOMAIN nodes /\ nodes'[x] = nodes[x] /\ ~(BeingSaved /\ x = Current(0))
             \/ (BeingSaved /\ x = Current(0))'
  PROVE  SavedInv'
BY NoneWait DEF SavedInv, HasStorage, AsSaved, IsStored

LEMMA HashSaved ==
  ASSUME Alone, LoadsInv, SavedInv, saves = <<>>, phase # "idle", phase' # "idle", ~BeingSaved, ~BeingSaved',
         SaveUpdated(0, nodes'), DOMAIN nodes' = DOMAIN nodes
  PROVE  SavedInv'
<1> DEFINE S == {n \in DOMAIN nodes' : nodes'[n] # nodes[n]}
<1>1. Save(0, nodes', S)
  BY DEF SaveUpdated
<1>2. \A x \in DOMAIN nodes' : x \in S \/ (x \in DOMAIN nodes \ S /\ nodes'[x] = nodes[x])
  OBVIOUS
<1> HIDE DEF S
<1> QED
  BY <1>1, <1>2, SaveSaved

(* What is attached waits, node by node, to be saved. *)
LEMMA AttachSaved ==
  ASSUME TypeInv, Alone, LoadsInv, SavedInv,
         AttachAtLeaf(0) \/ AttachInSlot(0) \/ AttachOnEdge(0)
  PROVE  SavedInv'
<1>1. /\ phase # "idle" /\ th[0].pc = "call" /\ 0 \in Threads /\ saves = <<>>
      /\ Current(0) # Target(0)
  BY DEF AttachAtLeaf, AttachInSlot, AttachOnEdge, InPhase
<1> DEFINE l == Target(0)
           c == Current(0)
           f == CommonPrefix(l, c)
<1>2. PICK t, n, order :
        /\ Attach(0, t, n, order)
        /\ \A x \in DOMAIN t :
             (\E k \in DOMAIN order : x = order[k]) \/ (x \in DOMAIN nodes /\ t[x] = nodes[x])
  <2>1. CASE AttachInSlot(0)
    <3> DEFINE u == FillSlot(nodes, c, l, LeafOf(0))
    <3>1. Attach(0, u, c, <<c, l>>)
      BY <2>1 DEF AttachInSlot
    <3>2. \A x \in DOMAIN u : x = l \/ x = c \/ (x \in DOMAIN nodes /\ u[x] = nodes[x])
      BY DEF FillSlot
    <3>3. DOMAIN <<c, l>> = {1, 2} /\ <<c, l>>[1] = c /\ <<c, l>>[2] = l
      OBVIOUS
    <3> HIDE DEF u, c, l
    <3> QED
      BY <3>1, <3>2, <3>3
  <2>2. CASE AttachAtLeaf(0) \/ AttachOnEdge(0)
    <3>1. PICK u \in {SplitLeaf(nodes, c, l, LeafOf(0)), SplitEdge(nodes, c, l, LeafOf(0))} :
            Attach(0, u, f, ChildrenFirst(u, f))
      BY <2>2 DEF AttachAtLeaf, AttachOnEdge
    <3>2. f # l
      <4>1. /\ Closed(nodes) /\ c \in DOMAIN nodes /\ l \in FullLabel /\ l \in Label
        BY <1>1, BusyFact, FullIsLabel
      <4>2. f \notin FullLabel
        BY <1>1, <4>1, CommonPrefixIsNotFull DEF Closed
      <4> QED
        BY <4>1, <4>2
    <3> HIDE DEF f
    <3>3. /\ u[f] = Fork(nodes, c, l)
          /\ \A x \in DOMAIN u :
               x \in {l, c, f} \/ (x \in DOMAIN nodes /\ u[x] = nodes[x])
      <4>1. CASE u = SplitLeaf(nodes, c, l, LeafOf(0))
        BY <3>2, <4>1 DEF SplitLeaf, f
      <4>2. CASE u = SplitEdge(nodes, c, l, LeafOf(0))
        BY <3>2, <4>2 DEF SplitEdge, f
      <4> QED
        BY <3>1, <4>1, <4>2
    <3>4. {u[f].left, u[f].right} = {l, c}
      BY <3>3 DEF Fork, Node
    <3> DEFINE order == ChildrenFirst(u, f)
    <3>5. /\ DOMAIN order = {1, 2, 3}
          /\ order[1] = u[f].left /\ order[2] = u[f].right /\ order[3] = f
      BY DEF ChildrenFirst
    <3>6. \A x \in {l, c, f} : \E k \in DOMAIN order : x = order[k]
      <4> HIDE DEF order, l, c
      <4> QED
        BY <3>4, <3>5
    <3> HIDE DEF order, l, c
    <3> QED
      BY <3>1, <3>3, <3>6 DEF order
  <2> QED
    BY <2>1, <2>2
<1>3. /\ nodes' = t /\ UNCHANGED callVars
      /\ Step(0, "return", Append(Pop(th[0].stack), n), th[0].status)
      /\ stored' = stored /\ (HasStorage => saves' = order)
  BY <1>1, <1>2, AttachAlone DEF Attach, Goto
<1>4. th'[0].pc = "return" /\ phase' = phase
  BY <1>3, StepPlace
<1>5. ~BeingSaved /\ ~BeingSaved'
  BY <1>1, <1>4 DEF BeingSaved
<1>6. ASSUME HasStorage, NEW x \in DOMAIN nodes' \ Waiting'
      PROVE  stored'[x] = AsSaved(nodes'[x])
  <2>1. \A k \in DOMAIN order : x # order[k]
    BY <1>3, <1>6 DEF Waiting
  <2>2. x \in DOMAIN nodes /\ t[x] = nodes[x]
    BY <1>2, <1>3, <1>6, <2>1
  <2> QED
    BY <1>1, <1>3, <1>5, <1>6, <2>2, NoneWait DEF SavedInv
<1> QED
  BY <1>1, <1>3, <1>4, <1>5, <1>6 DEF SavedInv, HasStorage, AsSaved, IsStored

(* One of the nodes that wait is saved. *)
LEMMA SaveNextSaved ==
  ASSUME Alone, LoadsInv, SavedInv, SaveNext
  PROVE  SavedInv'
<1>1. /\ saves # <<>> /\ HasStorage /\ stored' = Copied(nodes, {Head(saves)}, stored)
      /\ saves' = Tail(saves) /\ UNCHANGED <<nodes, th, callVars>>
      /\ phase = "insert" /\ th[0].pc = "return"
  BY DEF SaveNext, Alone
<1>2. /\ ~BeingSaved /\ ~BeingSaved' /\ phase' = phase
  BY <1>1 DEF BeingSaved, callVars
<1>3. \A x \in Waiting : x = Head(saves) \/ x \in Waiting'
  <2>1. \E n \in 1..3 : DOMAIN saves = 1..n /\ saves \in Seq(Waiting)
    <3>1. CASE OneToSave
      <4>1. PICK x : saves = <<x>>
        BY <3>1 DEF OneToSave
      <4> QED
        BY <4>1 DEF Waiting
    <3>2. CASE TwoToSave
      <4>1. PICK x, y : saves = <<x, y>>
        BY <3>2 DEF TwoToSave
      <4> QED
        BY <4>1 DEF Waiting
    <3>3. CASE ThreeToSave
      <4>1. PICK x, y, z : saves = <<x, y, z>>
        BY <3>3 DEF ThreeToSave
      <4> QED
        BY <4>1 DEF Waiting
    <3> QED
      BY <1>1, <3>1, <3>2, <3>3 DEF LoadsInv, NothingToSave
  <2>2. PICK n \in 1..3 : DOMAIN saves = 1..n /\ saves \in Seq(Waiting)
    BY <2>1
  <2>3. Len(saves) = n
    BY <2>2
  <2>4. ASSUME NEW k \in 1..n
        PROVE  saves[k] = Head(saves) \/ saves[k] \in Waiting'
    <3>1. CASE k = 1
      BY <2>2, <2>3, <3>1
    <3>2. CASE k # 1
      <4>1. k - 1 \in 1..Len(Tail(saves)) /\ Tail(saves)[k - 1] = saves[k]
        BY <1>1, <2>2, <2>3, <3>2
      <4>2. DOMAIN Tail(saves) = 1..Len(Tail(saves))
        BY <1>1, <2>2
      <4> QED
        BY <1>1, <4>1, <4>2 DEF Waiting
    <3> QED
      BY <3>1, <3>2
  <2> QED
    BY <2>2, <2>4 DEF Waiting
<1>4. /\ stored' = [x \in DOMAIN stored' |-> stored'[x]]
      /\ stored'[Head(saves)] = AsSaved(nodes[Head(saves)])
      /\ \A x \in DOMAIN stored : x # Head(saves) => stored'[x] = stored[x]
  BY <1>1 DEF Copied, AsSaved
<1>5. ASSUME NEW x \in DOMAIN nodes' \ Waiting'
      PROVE  stored'[x] = AsSaved(nodes'[x])
  <2>1. CASE x = Head(saves)
    BY <1>1, <1>4, <2>1
  <2>2. CASE x # Head(saves)
    <3>1. x \in DOMAIN nodes \ Waiting
      BY <1>1, <1>3, <1>5, <2>2
    <3>2. x \in DOMAIN stored
      BY <1>1, <3>1, StoredOrWaiting
    <3>3. stored[x] = AsSaved(nodes[x])
      BY <1>1, <1>2, <3>1 DEF SavedInv
    <3> QED
      BY <1>1, <1>4, <2>2, <3>2, <3>3
  <2> QED
    BY <2>1, <2>2
<1> QED
  BY <1>1, <1>2, <1>4, <1>5 DEF SavedInv, HasStorage, AsSaved, IsStored

LEMMA MarkSaved ==
  ASSUME TypeInv, Alone, LoadsInv, SavedInv, saves = <<>>, SetDirty(0)
  PROVE  SavedInv'
<1>1. PICK pc : /\ pc = (IF HasStorage /\ ~IsStored THEN "status" ELSE "return")
                /\ Step(0, pc, Pop(th[0].stack), th[0].status) /\ UNCHANGED callVars
                /\ phase # "idle" /\ th[0].pc = "return" /\ Len(th[0].stack) > 1
  BY DEF SetDirty, InPhase, Goto
<1>2. /\ th'[0].pc = pc /\ phase' = phase
      /\ Current(0)' = Pop(th[0].stack)[Len(Pop(th[0].stack))]
  BY <1>1, StepPlace
<1>3. Current(0)' = Caller(0)
  <2>1. PICK n \in Nat : Len(th[0].stack) = n
    BY StackFact DEF Alone
  <2>2. th[0].stack \in Seq(DOMAIN nodes)
    BY DEF TypeInv, Alone
  <2>3. Len(Pop(th[0].stack)) = n - 1 /\ Pop(th[0].stack)[n - 1] = th[0].stack[n - 1]
    BY <1>1, <2>1, <2>2 DEF Pop
  <2> QED
    BY <1>2, <2>1, <2>3 DEF Caller
<1>4. ~BeingSaved
  BY <1>1 DEF BeingSaved
<1>5. \A x \in DOMAIN nodes' : x # Caller(0) => x \in DOMAIN nodes /\ nodes'[x] = nodes[x]
  BY DEF SetDirty
<1>6. CASE IsStored
  <2>1. Save(0, nodes', {Caller(0)}) /\ ~BeingSaved'
    BY <1>1, <1>2, <1>6 DEF SetDirty, BeingSaved
  <2> QED
    BY <1>1, <1>2, <1>4, <1>5, <2>1, SaveSaved
<1>7. CASE ~IsStored
  <2>1. stored' = stored
    BY <1>7 DEF SetDirty
  <2>2. HasStorage => BeingSaved'
    BY <1>1, <1>2, <1>7 DEF BeingSaved
  <2> QED
    BY <1>1, <1>2, <1>3, <1>4, <1>5, <1>7, <2>1, <2>2, QuietSaved
<1> QED
  BY <1>6, <1>7

LEMMA StatusSaved ==
  ASSUME Alone, LoadsInv, SavedInv, saves = <<>>, ReadStatus(0) \/ ClearDirty(0) \/ SaveAndRestore(0)
  PROVE  SavedInv'
<1>1. /\ phase # "idle" /\ BeingSaved /\ ~IsStored /\ UNCHANGED callVars
  BY DEF ReadStatus, ClearDirty, SaveAndRestore, InPhase, BeingSaved, SavedInv
<1>2. PICK pc, status : /\ Step(0, pc, th[0].stack, status)
                        /\ SaveAndRestore(0) \/ pc \in {"clear", "restore"}
                        /\ SaveAndRestore(0) => pc = "return"
  <2>1. CASE ReadStatus(0)
    BY <2>1 DEF ReadStatus, SaveAndRestore, InPhase
  <2>2. CASE ClearDirty(0)
    BY <2>2 DEF ClearDirty, SaveAndRestore, InPhase, Goto
  <2>3. CASE SaveAndRestore(0)
    BY <2>3 DEF SaveAndRestore, Goto
  <2> QED
    BY <2>1, <2>2, <2>3
<1>3. th'[0].pc = pc /\ phase' = phase /\ Current(0)' = Current(0)
  BY <1>1, <1>2, StepPlace DEF Current
<1>4. CASE ReadStatus(0) \/ ClearDirty(0)
  <2>1. /\ stored' = stored
        /\ \A x \in DOMAIN nodes' :
             x # Current(0) => x \in DOMAIN nodes /\ nodes'[x] = nodes[x]
    BY <1>4 DEF ReadStatus, ClearDirty
  <2>2. BeingSaved'
    BY <1>2, <1>3, <1>4 DEF BeingSaved, ReadStatus, ClearDirty, SaveAndRestore, InPhase
  <2> QED
    BY <1>1, <1>3, <2>1, <2>2, QuietSaved
<1>5. CASE SaveAndRestore(0)
  <2>1. /\ Save(0, nodes, {Current(0)})
        /\ nodes' = [nodes EXCEPT ![Current(0)] = SetDirtyBit(@, th[0].status)]
    BY <1>5 DEF SaveAndRestore
  <2>2. ~BeingSaved'
    BY <1>2, <1>3, <1>5 DEF BeingSaved
  <2>3. \A node, b : AsSaved(SetDirtyBit(node, b)) = AsSaved(node)
    BY <1>1 DEF AsSaved, SetDirtyBit, Node
  <2>4. \A x \in DOMAIN nodes' : AsSaved(nodes'[x]) = AsSaved(nodes[x])
    BY <2>1, <2>3
  <2>5. \A x \in DOMAIN nodes' :
          x # Current(0) => x \in DOMAIN nodes \ {Current(0)} /\ nodes'[x] = nodes[x]
    BY <2>1
  <2> QED
    BY <1>1, <1>3, <2>1, <2>2, <2>4, <2>5, SaveSaved
<1> QED
  BY <1>4, <1>5

LEMMA ThreadSaved ==
  ASSUME TypeInv, Alone, LoadsInv, SavedInv, ThreadStep(0)
  PROVE  SavedInv'
<1>0. saves = <<>>
  BY ThreadIsAtRest
<1>1. CASE ThrowSameLabel(0) \/ FollowRoute(0) \/ HashFollow(0) \/ NextEntry(0)
  <2>1. /\ phase # "idle" /\ UNCHANGED <<nodes, stored, callVars>>
        /\ th[0].pc \in {"call", "return"}
    BY <1>1 DEF ThrowSameLabel, FollowRoute, HashFollow, NextEntry, InPhase
  <2>2. th'[0].pc \in {"failed", "call", "done"}
    <3>1. CASE NextEntry(0)
      <4>1. th'[0] = Recursion(th[0].work \ {Position(0)})
        BY <3>1 DEF NextEntry, Alone, Threads
      <4>2. Recursion(th[0].work \ {Position(0)}).pc \in {"done", "call"}
        BY DEF Recursion
      <4> QED
        BY <4>1, <4>2, Zenon
    <3>2. CASE ThrowSameLabel(0) \/ FollowRoute(0) \/ HashFollow(0)
      <4>1. PICK pc \in {"failed", "call"} : \E stack, status : Step(0, pc, stack, status)
        BY <3>2 DEF ThrowSameLabel, FollowRoute, HashFollow, Goto
      <4> QED
        BY <2>1, <4>1, StepPlace
    <3> QED
      BY <1>1, <3>1, <3>2
  <2>3. ~BeingSaved /\ ~BeingSaved' /\ phase' = phase
    BY <2>1, <2>2 DEF BeingSaved, callVars
  <2> QED
    BY <1>0, <2>1, <2>3, QuietSaved
<1>2. CASE HashFound(0) \/ HashReturn(0)
  <2>1. /\ phase # "idle" /\ th[0].pc \in {"call", "return"} /\ UNCHANGED callVars
        /\ \E stack : Step(0, "return", stack, th[0].status)
    BY <1>2 DEF HashFound, HashReturn, InPhase, Goto
  <2>2. th'[0].pc = "return" /\ phase' = phase
    BY <2>1, StepPlace
  <2>3. SaveUpdated(0, nodes') /\ DOMAIN nodes' = DOMAIN nodes
    BY <1>2 DEF HashFound, HashReturn, UpdateHash
  <2> QED
    BY <1>0, <2>1, <2>2, <2>3, HashSaved DEF BeingSaved
<1> QED
  BY <1>0, <1>1, <1>2, AttachSaved, MarkSaved, StatusSaved DEF ThreadStep

LEMMA CallerSaved ==
  ASSUME TypeInv, Alone, LoadsInv, SerialInv, InsertedInv, SavedInv, CallerStep
  PROVE  SavedInv'
<1>0. saves = <<>> /\ saves' = <<>>
  BY CallerIsAtRest, SavesStay
<1>1. CASE JoinInsertion \/ JoinHashing
  <2>1. /\ th[0].pc = "done" /\ phase' # "idle" /\ UNCHANGED <<nodes, stored>>
    BY <1>1 DEF JoinInsertion, JoinHashing, Alone
  <2>2. th'[0].pc \in {"done", "call"}
    <3>1. CASE JoinInsertion
      <4>1. th'[0] = Recursion(WorkOf(batch, bits, 0))
        BY <3>1 DEF JoinInsertion, Alone
      <4>2. Recursion(WorkOf(batch, bits, 0)).pc \in {"done", "call"}
        BY DEF Recursion
      <4> QED
        BY <4>1, <4>2, Zenon
    <3> QED
      BY <1>1, <2>1, <3>1 DEF JoinHashing
  <2>3. ~BeingSaved /\ ~BeingSaved'
    BY <2>1, <2>2 DEF BeingSaved
  <2> QED
    BY <1>0, <2>1, <2>3, QuietSaved
<1>2. CASE ComputeTop
  <2>1. phase = "top" /\ phase' # "idle" /\ th' = th /\ LastThread = 0
    BY <1>2 DEF ComputeTop, Alone, LastThread
  <2>2. SaveUpdated(0, nodes') /\ DOMAIN nodes' = DOMAIN nodes
    BY <1>2, <2>1 DEF ComputeTop, UpdateHash
  <2>3. th[0].pc = "done"
    BY <2>1 DEF SerialInv, SettledInv
  <2> QED
    BY <1>0, <2>1, <2>2, <2>3, HashSaved DEF BeingSaved
<1>3. CASE Finish
  <2>1. phase = "save" /\ ProofsFound
    BY <1>3, ProofsAreFound DEF Finish
  <2>2. /\ HasStorage => stored' = Merged /\ storedEpoch' = epoch
        /\ epoch' = epoch /\ nodes' = nodes /\ th' = [i \in {0} |-> Recursion({})]
    BY <1>3, <2>1 DEF Finish, Return, NoThreads
  <2>3. th[0].pc = "done" /\ th'[0].pc = "done"
    BY <2>1, <2>2, RecursionFact DEF SerialInv, SettledInv
  <2>4. ~BeingSaved /\ ~BeingSaved'
    BY <2>3 DEF BeingSaved
  <2>5. HasStorage => stored' = stored
    BY <2>2, MergedAlone DEF SavedInv
  <2> QED
    BY <1>0, NoneWait, <2>2, <2>4, <2>5 DEF SavedInv, HasStorage, AsSaved, IsStored
<1> QED
  BY <1>1, <1>2, <1>3, NoneThrows DEF CallerStep

LEMMA InitSaved ==
  ASSUME Init
  PROVE  SavedInv
<1>1. th[0].pc = "done" /\ nodes = EmptyTrie /\ epoch = 0 /\ storedEpoch = 0
  BY RecursionFact DEF Init, NoThreads
<1>2. HasStorage => stored = EmptyTrie
  BY DEF Init
<1>3. /\ EmptyTrie = [x \in DOMAIN EmptyTrie |-> EmptyTrie[x]]
      /\ \A x \in DOMAIN EmptyTrie : AsSaved(EmptyTrie[x]) = EmptyTrie[x]
  BY DEF EmptyTrie, AsSaved, EmptyRoot, NewLeaf, SetDirtyBit, Node
<1>4. saves = <<>>
  BY DEF Init
<1> QED
  BY <1>1, <1>2, <1>3, <1>4, NoneWait DEF SavedInv, BeingSaved

LEMMA NextSaved ==
  ASSUME OneThread, TypeInv, Alone, LoadsInv, SerialInv, InsertedInv, SavedInv, Next
  PROVE  SavedInv'
<1>1. CASE BeginInsert \/ BeginInsertBatch
  <2>1. phase = "idle" /\ phase' = "insert" /\ UNCHANGED <<nodes, stored>>
    BY <1>1 DEF BeginInsert, BeginInsertBatch, Begin
  <2>2. th[0].pc = "done" /\ th'[0] = Recursion(DOMAIN batch')
    BY <1>1, <2>1, BeginAlone DEF SerialInv, SettledInv
  <2>4. saves = <<>>
    BY <2>1 DEF Alone
  <2>3. ~BeingSaved /\ ~BeingSaved'
    BY <2>2, RecursionFact DEF BeingSaved
  <2> QED
    BY <2>1, <2>3, <2>4, QuietSaved
<1>2. ASSUME NEW i \in Threads, ThreadStep(i)
      PROVE  SavedInv'
  BY <1>2, ThreadSaved DEF Alone
<1> QED
  BY <1>1, <1>2, CallerSaved, SaveNextSaved, NoRace DEF Next

LEMMA SavedInvariance == OneThread /\ FreshOnly => (Spec => []SavedInv)
<1> SUFFICES ASSUME OneThread, FreshOnly PROVE Spec => []SavedInv
  OBVIOUS
<1>1. Init => SavedInv
  BY InitSaved
<1>2. TypeInv /\ Alone /\ LoadsInv /\ SerialInv /\ InsertedInv /\ SavedInv /\ [Next]_vars
        => SavedInv'
  <2> SUFFICES ASSUME TypeInv, Alone, LoadsInv, SerialInv, InsertedInv, SavedInv, [Next]_vars
               PROVE  SavedInv'
    OBVIOUS
  <2>1. CASE UNCHANGED vars
    BY <2>1 DEF vars, SavedInv, BeingSaved, Current, HasStorage, AsSaved, IsStored, Waiting
  <2> QED
    BY <2>1, NextSaved
<1>3. Spec => [](Alone /\ LoadsInv) /\ []SerialInv /\ []InsertedInv
  BY LoadsInvariance, SerialInvariance, InsertedInvariance
<1> QED
  BY <1>1, <1>2, <1>3, TypeInvariance, PTL DEF Spec

(* When a call of one thread returns, storage holds what memory holds, the *)
(* epoch included: a linked node was saved without its mark each time it   *)
(* changed, and hashing saved it again with its hash, sibling or not.      *)
THEOREM StorageStaysCurrent == OneThread /\ FreshOnly => (Spec => []StorageIsCurrent)
<1> SUFFICES ASSUME OneThread, FreshOnly PROVE Spec => []StorageIsCurrent
  OBVIOUS
<1>1. TypeInv /\ Alone /\ LoadsInv /\ SerialInv /\ SavedInv => StorageIsCurrent
  <2> SUFFICES ASSUME TypeInv, Alone, LoadsInv, SerialInv, SavedInv, phase = "idle", HasStorage
               PROVE  stored = nodes /\ storedEpoch = epoch
    BY DEF StorageIsCurrent, Settled
  <2>1. th[0].pc = "done" /\ \A d \in DOMAIN nodes : ~nodes[d].dirty
    BY DEF SerialInv, SettledInv
  <2>2. ~BeingSaved /\ nodes = [x \in DOMAIN nodes |-> nodes[x]]
    BY <2>1, AtRest DEF BeingSaved
  <2>4. saves = <<>>
    BY DEF Alone
  <2>3. ASSUME NEW x \in DOMAIN nodes
        PROVE  stored[x] = nodes[x]
    <3>1. stored[x] = AsSaved(nodes[x])
      BY <2>2, <2>4, NoneWait DEF SavedInv
    <3>2. IsNodeOf(nodes[x], DOMAIN nodes)
      BY DEF TypeInv, Closed
    <3>3. nodes[x] = Node(nodes[x].left, nodes[x].right, nodes[x].hash, FALSE)
      BY <2>1, <3>2 DEF IsNodeOf
    <3> QED
      BY <3>1, <3>3 DEF AsSaved, SetDirtyBit
  <2> QED
    BY <2>2, <2>3, <2>4, LoadsAtRest DEF SavedInv
<1> QED
  BY <1>1, TypeInvariance, LoadsInvariance, SerialInvariance, SavedInvariance, PTL

-----------------------------------------------------------------------------
(* The trie is that of its leaves                                          *)

(* Every leaf was hashed from what it holds, and a trie without leaves is  *)
(* as it was made.                                                         *)
LeavesInv ==
  /\ \A l \in FullLabel \cap DOMAIN nodes :
       nodes[l].hash = LeafHash(l, nodes[l].hash[3], nodes[l].hash[4])
  /\ FullLabel \cap DOMAIN nodes = {} => nodes = EmptyTrie

LEMMA SameLeaves ==
  ASSUME LeavesInv, KeepsKeys(nodes, nodes'), DOMAIN nodes' = DOMAIN nodes,
         nodes' = nodes \/ FullLabel \cap DOMAIN nodes # {}
  PROVE  LeavesInv'
BY DEF LeavesInv, KeepsKeys

LEMMA NewLeaves ==
  ASSUME LeavesInv, KeepsKeys(nodes, nodes'), NEW l \in FullLabel, l \in DOMAIN nodes',
         NEW commit, nodes'[l].hash = LeafHash(l, commit, epoch),
         FullLabel \cap DOMAIN nodes' \subseteq DOMAIN nodes \cup {l}
  PROVE  LeavesInv'
<1>1. nodes'[l].hash = LeafHash(l, nodes'[l].hash[3], nodes'[l].hash[4])
  BY DEF LeafHash
<1>2. ASSUME NEW m \in FullLabel \cap DOMAIN nodes', m # l
      PROVE  nodes'[m].hash = LeafHash(m, nodes'[m].hash[3], nodes'[m].hash[4])
  <2>1. m \in DOMAIN nodes /\ nodes'[m] = nodes[m]
    BY <1>2 DEF KeepsKeys
  <2> QED
    BY <2>1 DEF LeavesInv
<1> QED
  BY <1>1, <1>2 DEF LeavesInv

LEMMA AttachLeaves ==
  ASSUME TypeInv, LeavesInv, KeepsKeys(nodes, nodes'),
         AttachAtLeaf(0) \/ AttachInSlot(0) \/ AttachOnEdge(0), 0 \in Threads
  PROVE  LeavesInv'
<1> DEFINE leaf == LeafOf(0)
           n == Current(0)
           l == Target(0)
           commit == batch[Position(0)].commit
<1>1. leaf.hash = LeafHash(l, commit, epoch)
  BY DEF LeafOf, NewLeaf, Node
<1>2. th[0].pc = "call" /\ n # l
  BY DEF AttachAtLeaf, AttachInSlot, AttachOnEdge, InPhase
<1>3. n \in DOMAIN nodes /\ l \in FullLabel
  BY <1>2, BusyFact
<1>4. n \in Label /\ l \in Label
  BY <1>3, FullIsLabel DEF TypeInv, Closed
<1>5. CommonPrefix(l, n) \notin FullLabel
  BY <1>2, <1>3, <1>4, CommonPrefixIsNotFull
<1>6. \/ nodes' = SplitLeaf(nodes, n, l, leaf)
      \/ nodes' = FillSlot(nodes, n, l, leaf)
      \/ nodes' = SplitEdge(nodes, n, l, leaf)
  BY DEF AttachAtLeaf, AttachInSlot, AttachOnEdge, Attach
<1> HIDE DEF leaf, n, l
<1>7. /\ l \in DOMAIN nodes' /\ nodes'[l] = leaf
      /\ FullLabel \cap DOMAIN nodes' \subseteq DOMAIN nodes \cup {l}
  BY <1>5, <1>6 DEF SplitLeaf, FillSlot, SplitEdge
<1> HIDE DEF commit
<1> QED
  BY <1>1, <1>3, <1>7, NewLeaves

LEMMA ThreadLeaves ==
  ASSUME TypeInv, Alone, InsertedInv, LeavesInv, ThreadStep(0), KeepsKeys(nodes, nodes')
  PROVE  LeavesInv'
<1>1. 0 \in Threads
  BY DEF Alone
<1>2. CASE AttachAtLeaf(0) \/ AttachInSlot(0) \/ AttachOnEdge(0)
  BY <1>1, <1>2, AttachLeaves
<1>3. CASE ThrowSameLabel(0) \/ FollowRoute(0) \/ ReadStatus(0) \/ NextEntry(0) \/ HashFollow(0)
  <2>1. nodes' = nodes
    BY <1>3 DEF ThrowSameLabel, FollowRoute, ReadStatus, NextEntry, HashFollow
  <2> QED
    BY <2>1, SameLeaves
<1>4. CASE SetDirty(0) \/ ClearDirty(0) \/ SaveAndRestore(0)
  <2>1. /\ phase = "insert" /\ th[0].pc \in AfterAttach /\ th[0].pc # "done"
        /\ DOMAIN nodes' = DOMAIN nodes
    BY <1>4 DEF SetDirty, ClearDirty, SaveAndRestore, InPhase, AfterAttach
  <2>2. Target(0) \in FullLabel \cap DOMAIN nodes
    BY <1>1, <2>1, BusyFact DEF InsertedInv
  <2> QED
    BY <2>1, <2>2, SameLeaves
<1>5. CASE HashFound(0) \/ HashReturn(0)
  <2>1. phase = "hash" /\ th[0].pc # "done" /\ DOMAIN nodes' = DOMAIN nodes
    BY <1>5 DEF HashFound, HashReturn, InPhase, UpdateHash
  <2>2. th[0].work # {} /\ Position(0) \in th[0].work
    BY <1>1, <2>1, PositionFact DEF TypeInv, StateOK, IsRecursion
  <2>3. Target(0) \in FullLabel /\ th[0].work \subseteq DOMAIN batch
    BY <1>1, <2>1, BusyFact DEF TypeInv, StateOK, IsRecursion
  <2>4. Target(0) \in DOMAIN nodes
    BY <2>1, <2>2, <2>3 DEF InsertedInv, Target
  <2> QED
    BY <2>1, <2>3, <2>4, SameLeaves
<1> QED
  BY <1>2, <1>3, <1>4, <1>5 DEF ThreadStep

LEMMA NextLeaves ==
  ASSUME FreshOnly, TypeInv, FreshInv, Alone, InsertedInv, LeavesInv, Next
  PROVE  LeavesInv'
<1>1. KeepsKeys(nodes, nodes')
  BY NextFresh
<1>2. CASE BeginInsert \/ BeginInsertBatch
  <2>1. nodes' = nodes
    BY <1>2 DEF BeginInsert, BeginInsertBatch, Begin
  <2> QED
    BY <1>1, <2>1, SameLeaves
<1>3. CASE JoinInsertion \/ TaskThrew \/ JoinHashing \/ TopThrew \/ Finish
  <2>1. nodes' = nodes
    BY <1>3 DEF JoinInsertion, TaskThrew, JoinHashing, TopThrew, Finish
  <2> QED
    BY <1>1, <2>1, SameLeaves
<1>4. CASE ComputeTop
  <2>1. PICK S : nodes' = UpdateHash(nodes, S)
    BY <1>4 DEF ComputeTop
  <2>2. DOMAIN nodes' = DOMAIN nodes
    BY <2>1 DEF UpdateHash
  <2>3. nodes = EmptyTrie => nodes' = nodes
    <3>1. ASSUME nodes = EmptyTrie
          PROVE  nodes' = nodes
      <4>1. \A x \in DOMAIN nodes : ~nodes[x].dirty
        BY <3>1 DEF EmptyTrie, EmptyRoot, NewLeaf, Node
      <4>2. nodes' = [x \in DOMAIN nodes |-> nodes[x]]
        BY <2>1, <4>1 DEF UpdateHash, WillUpdate
      <4> QED
        BY <3>1, <4>2 DEF EmptyTrie
    <3> QED
      BY <3>1
  <2> QED
    BY <1>1, <2>2, <2>3, SameLeaves DEF LeavesInv
<1>5. ASSUME NEW i \in Threads, ThreadStep(i)
      PROVE  LeavesInv'
  <2>1. ThreadStep(0)
    BY <1>5 DEF Alone
  <2> QED
    BY <1>1, <2>1, ThreadLeaves
<1>6. CASE SaveNext
  <2>1. nodes' = nodes
    BY <1>6 DEF SaveNext
  <2> QED
    BY <1>1, <2>1, SameLeaves
<1> QED
  BY <1>2, <1>3, <1>4, <1>5, <1>6, NoRace DEF Next, CallerStep

LEMMA LeavesInvariance == OneThread /\ FreshOnly => (Spec => []LeavesInv)
<1> SUFFICES ASSUME OneThread, FreshOnly PROVE Spec => []LeavesInv
  OBVIOUS
<1>1. Init => LeavesInv
  BY EmptyIsNotFull DEF Init, LeavesInv, EmptyTrie
<1>2. TypeInv /\ FreshInv /\ Alone /\ InsertedInv /\ LeavesInv /\ [Next]_vars => LeavesInv'
  <2> SUFFICES ASSUME TypeInv, FreshInv, Alone, InsertedInv, LeavesInv, [Next]_vars
               PROVE  LeavesInv'
    OBVIOUS
  <2>1. CASE UNCHANGED vars
    BY <2>1 DEF vars, LeavesInv
  <2> QED
    BY <2>1, NextLeaves
<1>3. Spec => []FreshInv /\ [](Alone /\ LoadsInv) /\ []InsertedInv
  BY FreshInvariance, LoadsInvariance, InsertedInvariance
<1> QED
  BY <1>1, <1>2, <1>3, TypeInvariance, PTL DEF Spec

(* Between calls the whole trie, hashes and edges included, is a function  *)
(* of the tuples in its leaves: the order in which insert received them,   *)
(* how they were divided among calls and how often a leaf was split or an  *)
(* edge forked leave no trace, in memory or in the commitment.             *)
THEOREM TrieIsOfLeaves == OneThread /\ FreshOnly => (Spec => []TrieOfDictionary)
<1> SUFFICES ASSUME OneThread, FreshOnly PROVE Spec => []TrieOfDictionary
  OBVIOUS
<1>1. SerialInv /\ LeavesInv => TrieOfDictionary
  <2> SUFFICES ASSUME SerialInv, LeavesInv, phase = "idle" PROVE nodes = TrieOf(LeafTuples)
    BY DEF TrieOfDictionary, Settled
  <2>1. Hashed(nodes) /\ nodes = [x \in DOMAIN nodes |-> nodes[x]]
    <3>1. th[0].pc = "done"
      BY DEF SerialInv, SettledInv
    <3> QED
      BY <3>1, SettledIsHashed, AtRest
  <2>2. LabelsOf(LeafTuples) = FullLabel \cap DOMAIN nodes
    <3>1. ASSUME NEW s \in LeafTuples
          PROVE  s[1] \in FullLabel \cap DOMAIN nodes
      BY DEF LeafTuples
    <3>2. ASSUME NEW l \in FullLabel \cap DOMAIN nodes
          PROVE  \E s \in LeafTuples : s[1] = l
      <4>1. PICK s : s = <<l, nodes[l].hash[3], nodes[l].hash[4]>>
        OBVIOUS
      <4>2. s \in LeafTuples
        BY <4>1, Zenon DEF LeafTuples
      <4> QED
        BY <4>1, <4>2
    <3> QED
      BY <3>1, <3>2 DEF LabelsOf
  <2>3. ASSUME NEW l \in FullLabel \cap DOMAIN nodes
        PROVE  EntryOf(LeafTuples, l) = <<l, nodes[l].hash[3], nodes[l].hash[4]>>
    BY DEF EntryOf, LeafTuples
  <2>4. LeafTuples = {} => nodes[EmptyLabel].hash = ZeroHash
    BY <2>2 DEF LabelsOf, LeavesInv, EmptyTrie, EmptyRoot, NewLeaf, Node
  <2>5. HasLeaves(nodes, LeafTuples)
    BY <2>2, <2>3, <2>4 DEF HasLeaves, LeavesInv
  <2> QED
    BY <2>1, <2>5, LeavesMakeTheTrie
<1> QED
  BY <1>1, SerialInvariance, LeavesInvariance, PTL
=============================================================================
