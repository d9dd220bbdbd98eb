---------------------------- MODULE CTNode_proofs ----------------------------
(***************************************************************************)
(* Lemmas about labels, nodes and tries, for every label width: what the   *)
(* node operations of insert and update_hash make of a trie, what lookup   *)
(* answers in it, and that a trie is a function of its dictionary.         *)
(***************************************************************************)
EXTENDS DictionaryTrie, WellFoundedInduction, SequenceTheorems, TLAPS

-----------------------------------------------------------------------------
(* Labels *)

(* A nonempty set of natural numbers has a least element. *)
LEMMA LeastNatural ==
  ASSUME NEW S, S \subseteq Nat, S # {}
  PROVE  \E n \in S : \A m \in S : n <= m
<1>1. PICK R : IsWellFoundedOn(R, Nat) /\ \A m, n \in Nat : <<m, n>> \in R <=> m < n
  <2>1. \A m, n \in Nat : <<m, n>> \in OpToRel(<, Nat) <=> m < n
    BY Zenon DEF OpToRel
  <2> QED
    BY NatLessThanWellFounded, <2>1, Zenon
<1>2. IsWellFoundedOn(R, Nat)
  BY <1>1
<1>3. \E n \in S : \A m \in S : ~(<<m, n>> \in R)
  BY <1>2, WFMin
<1>4. PICK n \in S : \A m \in S : ~(<<m, n>> \in R)
  BY <1>3
<1>5. \A m \in S : ~(m < n)
  BY <1>1, <1>4
<1> QED
  BY <1>4, <1>5

(* A label is a sequence of at most MaxBitCount bits; a key has them all. *)
LEMMA LabelLen ==
  ASSUME NEW a \in Label
  PROVE  /\ a \in Seq(Bit)
         /\ Len(a) \in 0..MaxBitCount
         /\ a \in [1..Len(a) -> Bit]
         /\ a \in FullLabel <=> Len(a) = MaxBitCount
<1>1. PICK n \in 0..MaxBitCount : a \in [1..n -> Bit]
  BY DEF Label
<1>2. Len(a) = n /\ a \in Seq(Bit)
  BY <1>1, MaxBitCountAssumption
<1> QED
  BY <1>1, <1>2, MaxBitCountAssumption DEF FullLabel

LEMMA FullIsLabel == FullLabel \subseteq Label /\ EmptyLabel \in Label
BY MaxBitCountAssumption DEF FullLabel, Label, EmptyLabel

LEMMA EmptyIsNotFull == EmptyLabel \notin FullLabel
BY FullIsLabel, LabelLen, MaxBitCountAssumption DEF EmptyLabel

(* CommonPrefixCount is defined for all labels, by the first place where   *)
(* one of the two labels ends or they differ.                              *)
THEOREM CommonPrefixCountFact ==
  ASSUME NEW a \in Label, NEW b \in Label
  PROVE  /\ CommonPrefixCount(a, b) \in 0..Len(a)
         /\ CommonPrefixCount(a, b) <= Len(b)
         /\ \A i \in 1..CommonPrefixCount(a, b) : a[i] = b[i]
         /\ CommonPrefixCount(a, b) < Len(a) /\ CommonPrefixCount(a, b) < Len(b)
              => a[CommonPrefixCount(a, b) + 1] # b[CommonPrefixCount(a, b) + 1]
<1> DEFINE Ends == {n \in Nat : n = Len(a) \/ n = Len(b) \/ a[n + 1] # b[n + 1]}
<1>1. Len(a) \in Nat /\ Len(b) \in Nat
  BY LabelLen
<1>2. PICK n \in Ends : \A m \in Ends : n <= m
  <2>1. Ends \subseteq Nat /\ Len(a) \in Ends
    BY <1>1
  <2> HIDE DEF Ends
  <2> QED BY <2>1, LeastNatural
<1>3. n \in 0..Len(a) /\ n <= Len(b)
  BY <1>1, <1>2
<1>4. \A i \in 1..n : a[i] = b[i]
  <2> SUFFICES ASSUME NEW i \in 1..n PROVE a[i] = b[i]
    OBVIOUS
  <2>1. i - 1 \in Nat /\ i - 1 < n /\ (i - 1) + 1 = i
    BY <1>3, <1>1
  <2>2. i - 1 \notin Ends
    BY <2>1, <1>2
  <2> QED BY <2>1, <2>2
<1>5. n < Len(a) /\ n < Len(b) => a[n + 1] # b[n + 1]
  BY <1>1, <1>2
<1>6. \E m \in 0..Len(a) :
        /\ m <= Len(b)
        /\ \A i \in 1..m : a[i] = b[i]
        /\ m < Len(a) /\ m < Len(b) => a[m + 1] # b[m + 1]
  BY <1>3, <1>4, <1>5
<1> QED
  BY <1>6 DEF CommonPrefixCount

LEMMA CommonPrefixIsLabel ==
  ASSUME NEW a \in Label, NEW b \in Label
  PROVE  /\ CommonPrefix(a, b) \in Label
         /\ Len(CommonPrefix(a, b)) = CommonPrefixCount(a, b)
<1> DEFINE n == CommonPrefixCount(a, b)
<1>1. a \in Seq(Bit) /\ Len(a) \in 0..MaxBitCount /\ n \in 0..Len(a)
  BY LabelLen, CommonPrefixCountFact
<1> HIDE DEF n
<1>2. CommonPrefix(a, b) = SubSeq(a, 1, n)
  BY DEF CommonPrefix, n
<1>3. /\ SubSeq(a, 1, n) \in Seq(Bit)
      /\ Len(SubSeq(a, 1, n)) = n
  BY <1>1
<1>4. n \in 0..MaxBitCount
  BY <1>1, MaxBitCountAssumption
<1>5. SubSeq(a, 1, n) \in [1..n -> Bit]
  BY <1>3, LenProperties
<1> QED
  BY <1>2, <1>3, <1>4, <1>5 DEF Label, n

(* Two different labels, one of them a key: what they share is no key. *)
LEMMA CommonPrefixIsNotFull ==
  ASSUME NEW a \in FullLabel, NEW b \in Label, a # b
  PROVE  CommonPrefix(a, b) \notin FullLabel
<1>1. a \in Label /\ Len(a) = MaxBitCount /\ a \in [1..Len(a) -> Bit]
  BY FullIsLabel, LabelLen
<1>2. b \in [1..Len(b) -> Bit]
  BY LabelLen
<1>3. Len(b) \in 0..MaxBitCount
  BY LabelLen
<1> SUFFICES ASSUME CommonPrefixCount(a, b) = MaxBitCount PROVE FALSE
  BY <1>1, CommonPrefixIsLabel, LabelLen
<1>4. /\ CommonPrefixCount(a, b) <= Len(b)
      /\ \A i \in 1..CommonPrefixCount(a, b) : a[i] = b[i]
  BY <1>1, CommonPrefixCountFact
<1>5. MaxBitCount <= Len(b) /\ \A i \in 1..MaxBitCount : a[i] = b[i]
  BY <1>4, Zenon
<1>6. Len(b) = MaxBitCount
  BY <1>3, <1>5, MaxBitCountAssumption
<1> QED
  BY <1>1, <1>2, <1>5, <1>6

LEMMA SeqGrows ==
  ASSUME NEW S, NEW U, S \subseteq U, NEW s \in Seq(S)
  PROVE  s \in Seq(U)
OBVIOUS

LEMMA AppendFact ==
  ASSUME NEW S, NEW s \in Seq(S), NEW x \in S
  PROVE  /\ Append(s, x) \in Seq(S) /\ Append(s, x) # <<>>
         /\ Len(Append(s, x)) = Len(s) + 1
         /\ Append(s, x)[Len(s) + 1] = x
         /\ \A k \in 1..Len(s) : Append(s, x)[k] = s[k]
<1>1. Append(s, x) \in Seq(S) /\ Len(Append(s, x)) = Len(s) + 1
  OBVIOUS
<1>2. Len(s) \in Nat /\ Len(<<>>) = 0
  OBVIOUS
<1>3. /\ Append(s, x)[Len(s) + 1] = x
      /\ \A k \in 1..Len(s) : Append(s, x)[k] = s[k]
  OBVIOUS
<1>4. Append(s, x) # <<>>
  BY <1>1, <1>2
<1> QED BY <1>1, <1>3, <1>4

-----------------------------------------------------------------------------
(* Tries whose children are nodes *)

(* A node whose children are labels of S. *)
IsNodeOf(node, S) ==
  /\ node = Node(node.left, node.right, node.hash, node.dirty)
  /\ node.left \in S /\ node.right \in S /\ node.dirty \in BOOLEAN

(* A trie with a root, whose nodes' children are its nodes. *)
Closed(t) ==
  /\ DOMAIN t \subseteq Label
  /\ EmptyLabel \in DOMAIN t
  /\ \A n \in DOMAIN t : IsNodeOf(t[n], DOMAIN t)

(* Keys are at clean leaves. *)
KeysAreLeaves(t) ==
  \A l \in FullLabel \cap DOMAIN t : IsLeaf(t[l]) /\ ~t[l].dirty

(* u has the nodes of t and at most one key more. *)
Grows(t, u, label) ==
  /\ Closed(u)
  /\ DOMAIN t \subseteq DOMAIN u
  /\ FullLabel \cap DOMAIN u \subseteq DOMAIN t \cup {label}

(* The keys of t are in u as they are in t. *)
KeepsKeys(t, u) ==
  /\ KeysAreLeaves(u)
  /\ \A l \in FullLabel \cap DOMAIN t : l \in DOMAIN u /\ u[l] = t[l]

-----------------------------------------------------------------------------
(* Nodes                                                                   *)

LEMMA NodeFields ==
  ASSUME NEW a, NEW b, NEW h, NEW d
  PROVE  /\ Node(a, b, h, d).left = a /\ Node(a, b, h, d).right = b
         /\ Node(a, b, h, d).hash = h /\ Node(a, b, h, d).dirty = d
BY DEF Node

LEMMA NodeIsNode ==
  ASSUME NEW S, NEW a \in S, NEW b \in S, NEW h, NEW d \in BOOLEAN
  PROVE  IsNodeOf(Node(a, b, h, d), S)
BY NodeFields DEF IsNodeOf

LEMMA LeafIsNode ==
  ASSUME NEW S, EmptyLabel \in S, NEW h
  PROVE  /\ IsNodeOf(NewLeaf(h), S)
         /\ IsLeaf(NewLeaf(h)) /\ ~NewLeaf(h).dirty
<1>1. NewLeaf(h) = Node(EmptyLabel, EmptyLabel, h, FALSE)
  BY DEF NewLeaf
<1>2. IsNodeOf(Node(EmptyLabel, EmptyLabel, h, FALSE), S)
  BY NodeIsNode
<1>3. IsLeaf(NewLeaf(h)) /\ ~NewLeaf(h).dirty
  BY DEF IsLeaf, NewLeaf, Node
<1> QED BY <1>1, <1>2, <1>3

LEMMA NodeGrows ==
  ASSUME NEW S, NEW U, S \subseteq U, NEW node, IsNodeOf(node, S)
  PROVE  IsNodeOf(node, U)
BY DEF IsNodeOf

(* A node of the trie that only gets another hash or mark. *)
LEMMA RemarkedIsNode ==
  ASSUME NEW S, NEW node, IsNodeOf(node, S), NEW h, NEW d \in BOOLEAN
  PROVE  IsNodeOf(Node(node.left, node.right, h, d), S)
<1>1. node.left \in S /\ node.right \in S
  BY DEF IsNodeOf
<1> QED BY <1>1, NodeIsNode

LEMMA SetChildIsNode ==
  ASSUME NEW S, NEW node, IsNodeOf(node, S), NEW bit, NEW l \in S
  PROVE  IsNodeOf(SetChild(node, bit, l), S)
<1>0. node.left \in S /\ node.right \in S
  BY DEF IsNodeOf
<1>1. CASE bit = 0
  <2>1. SetChild(node, bit, l) = Node(l, node.right, node.hash, TRUE)
    BY <1>1 DEF SetChild
  <2>2. IsNodeOf(Node(l, node.right, node.hash, TRUE), S)
    BY <1>0, NodeIsNode
  <2> QED BY <2>1, <2>2
<1>2. CASE bit # 0
  <2>1. SetChild(node, bit, l) = Node(node.left, l, node.hash, TRUE)
    BY <1>2 DEF SetChild
  <2>2. IsNodeOf(Node(node.left, l, node.hash, TRUE), S)
    BY <1>0, NodeIsNode
  <2> QED BY <2>1, <2>2
<1> QED BY <1>1, <1>2

LEMMA ForkIsNode ==
  ASSUME NEW t, NEW n, NEW l, NEW S, n \in S, l \in S
  PROVE  IsNodeOf(Fork(t, n, l), S)
BY NodeIsNode DEF Fork

-----------------------------------------------------------------------------
(* Tries                                                                   *)

LEMMA EmptyTrieIsClosed == Closed(EmptyTrie) /\ KeysAreLeaves(EmptyTrie)
<1>1. DOMAIN EmptyTrie = {EmptyLabel} /\ EmptyTrie[EmptyLabel] = NewLeaf(ZeroHash)
  BY DEF EmptyTrie, EmptyRoot
<1>2. IsNodeOf(NewLeaf(ZeroHash), {EmptyLabel})
  BY LeafIsNode
<1> QED
  BY <1>1, <1>2, FullIsLabel, EmptyIsNotFull DEF Closed, KeysAreLeaves

(* Hash computation changes hashes and marks, and no clean node. *)
LEMMA UpdateHashFact ==
  ASSUME NEW t, Closed(t), NEW S
  PROVE  /\ Closed(UpdateHash(t, S)) /\ DOMAIN UpdateHash(t, S) = DOMAIN t
         /\ KeysAreLeaves(t) => KeepsKeys(t, UpdateHash(t, S))
<1> DEFINE u == UpdateHash(t, S)
<1>1. DOMAIN u = DOMAIN t
  BY DEF UpdateHash
<1>2. ASSUME NEW x \in DOMAIN t
      PROVE  u[x] = t[x] \/ (t[x].dirty /\ u[x] = Node(t[x].left, t[x].right, ChildrenHash(t, x), FALSE))
  BY DEF UpdateHash, WillUpdate
<1>3. ASSUME NEW x \in DOMAIN t
      PROVE  IsNodeOf(u[x], DOMAIN t)
  <2>1. IsNodeOf(t[x], DOMAIN t)
    BY DEF Closed
  <2>2. IsNodeOf(Node(t[x].left, t[x].right, ChildrenHash(t, x), FALSE), DOMAIN t)
    BY <2>1, RemarkedIsNode
  <2> HIDE DEF u
  <2> QED BY <1>2, <2>1, <2>2
<1> HIDE DEF u
<1>4. Closed(u)
  BY <1>1, <1>3 DEF Closed
<1>5. ASSUME KeysAreLeaves(t), NEW l \in FullLabel \cap DOMAIN t
      PROVE  u[l] = t[l]
  BY <1>2, <1>5 DEF KeysAreLeaves
<1>6. KeysAreLeaves(t) => KeepsKeys(t, u)
  BY <1>1, <1>5 DEF KeysAreLeaves, KeepsKeys
<1> QED BY <1>1, <1>4, <1>6 DEF u

(* A node without a left or right child link gets a child or a mark: n is  *)
(* no key, so no key changes.                                              *)
LEMMA ChangedNodeFact ==
  ASSUME NEW t, Closed(t), NEW n \in DOMAIN t, NEW node, IsNodeOf(node, DOMAIN t),
         NEW u, u = [t EXCEPT ![n] = node]
  PROVE  /\ Closed(u) /\ DOMAIN u = DOMAIN t
         /\ KeysAreLeaves(t) /\ n \notin FullLabel => KeepsKeys(t, u)
<1>1. DOMAIN u = DOMAIN t /\ u[n] = node /\ \A x \in DOMAIN t : x # n => u[x] = t[x]
  OBVIOUS
<1>2. \A x \in DOMAIN t : IsNodeOf(t[x], DOMAIN t)
  BY DEF Closed
<1>3. \A x \in DOMAIN t : IsNodeOf(u[x], DOMAIN t)
  BY <1>1, <1>2
<1>4. Closed(u)
  BY <1>1, <1>3 DEF Closed
<1>5. KeysAreLeaves(t) /\ n \notin FullLabel => KeepsKeys(t, u)
  BY <1>1 DEF KeysAreLeaves, KeepsKeys
<1> QED BY <1>1, <1>4, <1>5

(* The three ways to attach a new leaf, from what they have in common: the *)
(* leaf is at its label, a new inner node may be at f, and n may change.   *)
LEMMA AttachFact ==
  ASSUME NEW t, Closed(t), NEW n \in DOMAIN t, NEW label \in FullLabel, label # n,
         NEW h, NEW f \in Label, NEW u,
         DOMAIN u = DOMAIN t \cup {label, f},
         u[label] = NewLeaf(h),
         IsNodeOf(u[f], DOMAIN u),
         IsNodeOf(u[n], DOMAIN u),
         \A x \in DOMAIN t \ {label, f, n} : u[x] = t[x]
  PROVE  /\ Grows(t, u, label) \/ f \in FullLabel
         /\ (/\ KeysAreLeaves(t) /\ label \notin DOMAIN t /\ f \notin FullLabel
             /\ n \notin FullLabel \/ u[n] = t[n])
            => KeepsKeys(t, u)
<1>1. EmptyLabel \in DOMAIN t /\ DOMAIN t \subseteq Label
  BY DEF Closed
<1>2. IsNodeOf(NewLeaf(h), DOMAIN u) /\ IsLeaf(NewLeaf(h)) /\ ~NewLeaf(h).dirty
  BY <1>1, LeafIsNode
<1>3. \A x \in DOMAIN t : IsNodeOf(t[x], DOMAIN u)
  BY NodeGrows DEF Closed
<1>4. \A x \in DOMAIN u : IsNodeOf(u[x], DOMAIN u)
  BY <1>2, <1>3
<1>5. Closed(u)
  BY <1>1, <1>4, FullIsLabel DEF Closed
<1>6. Grows(t, u, label) \/ f \in FullLabel
  BY <1>5 DEF Grows
<1>7. ASSUME KeysAreLeaves(t), label \notin DOMAIN t, f \notin FullLabel,
             n \notin FullLabel \/ u[n] = t[n]
      PROVE  KeepsKeys(t, u)
  <2>1. \A l \in FullLabel \cap DOMAIN t : l \in DOMAIN u /\ u[l] = t[l]
    BY <1>7
  <2>2. \A l \in FullLabel \cap DOMAIN u : IsLeaf(u[l]) /\ ~u[l].dirty
    BY <1>7, <1>2, <2>1 DEF KeysAreLeaves
  <2> QED BY <2>1, <2>2 DEF KeepsKeys, KeysAreLeaves
<1> QED BY <1>6, <1>7

LEMMA SplitLeafFact ==
  ASSUME NEW t, Closed(t), NEW n \in DOMAIN t, NEW label \in FullLabel, label # n, NEW h
  PROVE  /\ Grows(t, SplitLeaf(t, n, label, NewLeaf(h)), label)
         /\ DOMAIN SplitLeaf(t, n, label, NewLeaf(h)) = DOMAIN t \cup {label, CommonPrefix(label, n)}
         /\ KeysAreLeaves(t) /\ label \notin DOMAIN t
              => KeepsKeys(t, SplitLeaf(t, n, label, NewLeaf(h)))
<1> DEFINE u == SplitLeaf(t, n, label, NewLeaf(h))
           f == CommonPrefix(label, n)
<1>1. label \in Label /\ n \in Label
  BY FullIsLabel DEF Closed
<1>2. f \in Label /\ f \notin FullLabel
  BY <1>1, CommonPrefixIsLabel, CommonPrefixIsNotFull
<1>3. /\ DOMAIN u = DOMAIN t \cup {label, f}
      /\ u[label] = NewLeaf(h)
      /\ u[f] = Fork(t, n, label)
      /\ \A x \in DOMAIN t \ {label, f} : u[x] = t[x]
  BY <1>2 DEF SplitLeaf
<1> HIDE DEF u, f
<1>4. IsNodeOf(u[f], DOMAIN u)
  BY <1>3, ForkIsNode
<1>5. IsNodeOf(u[n], DOMAIN u)
  BY <1>3, <1>4, NodeGrows DEF Closed
<1>6. n = f \/ u[n] = t[n]
  BY <1>3
<1> QED BY <1>2, <1>3, <1>4, <1>5, <1>6, AttachFact DEF u, f

LEMMA FillSlotFact ==
  ASSUME NEW t, Closed(t), NEW n \in DOMAIN t, NEW label \in FullLabel, label # n, NEW h
  PROVE  /\ Grows(t, FillSlot(t, n, label, NewLeaf(h)), label)
         /\ DOMAIN FillSlot(t, n, label, NewLeaf(h)) = DOMAIN t \cup {label}
         /\ KeysAreLeaves(t) /\ label \notin DOMAIN t /\ n \notin FullLabel
              => KeepsKeys(t, FillSlot(t, n, label, NewLeaf(h)))
<1> DEFINE u == FillSlot(t, n, label, NewLeaf(h))
           e == EmptyLabel
<1>1. e \in Label /\ e \notin FullLabel /\ e \in DOMAIN t
  BY FullIsLabel, EmptyIsNotFull DEF Closed
<1>2. /\ DOMAIN u = DOMAIN t \cup {label}
      /\ u[label] = NewLeaf(h)
      /\ u[n] = SetChild(t[n], NextBit(n, label), label)
      /\ \A x \in DOMAIN t \ {label, n} : u[x] = t[x]
  BY DEF FillSlot
<1> HIDE DEF u
<1>3. \A x \in DOMAIN t : IsNodeOf(t[x], DOMAIN u)
  BY <1>2, NodeGrows DEF Closed
<1>4. IsNodeOf(u[n], DOMAIN u)
  BY <1>2, <1>3, SetChildIsNode
<1>5. IsNodeOf(u[e], DOMAIN u)
  BY <1>1, <1>2, <1>3, <1>4
<1>6. DOMAIN u = DOMAIN t \cup {label, e}
  BY <1>1, <1>2
<1> HIDE DEF e
<1>7. /\ Grows(t, u, label) \/ e \in FullLabel
      /\ (/\ KeysAreLeaves(t) /\ label \notin DOMAIN t /\ e \notin FullLabel
          /\ n \notin FullLabel \/ u[n] = t[n])
         => KeepsKeys(t, u)
  BY <1>1, <1>2, <1>4, <1>5, <1>6, AttachFact
<1> QED BY <1>1, <1>2, <1>7 DEF u

LEMMA SplitEdgeFact ==
  ASSUME NEW t, Closed(t), NEW n \in DOMAIN t, NEW label \in FullLabel, label # n, NEW h
  PROVE  /\ Grows(t, SplitEdge(t, n, label, NewLeaf(h)), label)
         /\ DOMAIN SplitEdge(t, n, label, NewLeaf(h)) = DOMAIN t \cup {label, CommonPrefix(label, n)}
         /\ KeysAreLeaves(t) /\ label \notin DOMAIN t /\ n \notin FullLabel
              => KeepsKeys(t, SplitEdge(t, n, label, NewLeaf(h)))
<1> DEFINE u == SplitEdge(t, n, label, NewLeaf(h))
           f == CommonPrefix(label, n)
<1>1. label \in Label /\ n \in Label
  BY FullIsLabel DEF Closed
<1>2. f \in Label /\ f \notin FullLabel
  BY <1>1, CommonPrefixIsLabel, CommonPrefixIsNotFull
<1>3. /\ DOMAIN u = DOMAIN t \cup {label, f}
      /\ u[label] = NewLeaf(h)
      /\ u[f] = Fork(t, n, label)
      /\ n = f \/ u[n] = Node(t[n].left, t[n].right, ZeroHash, TRUE)
      /\ \A x \in DOMAIN t \ {label, f, n} : u[x] = t[x]
  BY <1>2 DEF SplitEdge
<1> HIDE DEF u, f
<1>4. IsNodeOf(u[f], DOMAIN u)
  BY <1>3, ForkIsNode
<1>5. IsNodeOf(t[n], DOMAIN u)
  BY <1>3, NodeGrows DEF Closed
<1>6. IsNodeOf(u[n], DOMAIN u)
  BY <1>3, <1>4, <1>5, RemarkedIsNode
<1> QED BY <1>2, <1>3, <1>4, <1>6, AttachFact DEF u, f

-----------------------------------------------------------------------------
(* Tries that have the shape of their labels *)

(* Label l starts with label n. *)
Starts(n, l) == Len(n) <= Len(l) /\ \A k \in 1..Len(n) : l[k] = n[k]

(* Label c extends n, with this bit next. *)
IsUnder(c, n, bit) == Starts(n, c) /\ Len(n) < Len(c) /\ c[Len(n) + 1] = bit

(* Children extend their parent, on their side; only the root may lack one.*)
ShapedNode(n, node) ==
  /\ \A bit \in Bit : ChildOn(node, bit) # EmptyLabel => IsUnder(ChildOn(node, bit), n, bit)
  /\ n \notin FullLabel \cup {EmptyLabel} => \A bit \in Bit : ChildOn(node, bit) # EmptyLabel

Shaped(t) == \A n \in DOMAIN t : ShapedNode(n, t[n])

LEMMA CommonIsStart ==
  ASSUME NEW l \in FullLabel, NEW n \in Label, n # l
  PROVE  /\ CommonPrefixCount(l, n) \in 0..Len(n)
         /\ CommonPrefixCount(l, n) < MaxBitCount
         /\ NextBit(n, l) = l[CommonPrefixCount(l, n) + 1] /\ NextBit(n, l) \in Bit
         /\ CommonPrefixCount(l, n) = Len(n) <=> Starts(n, l)
         /\ CommonPrefixCount(l, n) < Len(n) => n[CommonPrefixCount(l, n) + 1] # NextBit(n, l)
         /\ \A k \in 1..CommonPrefixCount(l, n) : l[k] = n[k]
<1> DEFINE c == CommonPrefixCount(l, n)
<1>1. l \in Label /\ Len(l) = MaxBitCount /\ l \in [1..MaxBitCount -> Bit]
  BY FullIsLabel, LabelLen DEF FullLabel
<1>2. Len(n) \in 0..MaxBitCount /\ n \in [1..Len(n) -> Bit]
  BY LabelLen
<1>3. /\ c \in 0..MaxBitCount /\ c <= Len(n) /\ \A i \in 1..c : l[i] = n[i]
      /\ c < Len(l) /\ c < Len(n) => l[c + 1] # n[c + 1]
  BY <1>1, CommonPrefixCountFact
<1>4. NextBit(n, l) = l[c + 1]
  BY DEF NextBit, BitAt
<1> HIDE DEF c
<1>5. c < MaxBitCount
  <2> SUFFICES ASSUME c = MaxBitCount PROVE FALSE
    BY <1>3, MaxBitCountAssumption
  <2>1. MaxBitCount <= Len(n) /\ Len(n) \in 0..MaxBitCount
    BY <1>2, <1>3
  <2>2. Len(n) = MaxBitCount
    BY <2>1, MaxBitCountAssumption
  <2> QED
    BY <1>1, <1>2, <1>3, <2>2
<1>6. c \in 0..Len(n) /\ l[c + 1] \in Bit
  BY <1>1, <1>2, <1>3, <1>5, MaxBitCountAssumption
<1>7. c < Len(n) => ~Starts(n, l)
  <2> SUFFICES ASSUME c < Len(n) PROVE l[c + 1] # n[c + 1] /\ c + 1 \in 1..Len(n)
    BY DEF Starts
  <2> QED
    BY <1>1, <1>2, <1>3, <1>5, MaxBitCountAssumption
<1>8. c = Len(n) => Starts(n, l)
  BY <1>1, <1>2, <1>3 DEF Starts
<1>9. c < Len(n) \/ c = Len(n)
  BY <1>2, <1>6
<1> QED
  BY <1>1, <1>3, <1>4, <1>5, <1>6, <1>7, <1>8, <1>9 DEF c

(* The common prefix of a key and a node that is not on its way. *)
LEMMA ForkIsAbove ==
  ASSUME NEW l \in FullLabel, NEW n \in Label, n # l, ~Starts(n, l)
  PROVE  /\ CommonPrefix(l, n) \in Label /\ Starts(CommonPrefix(l, n), l)
         /\ IsUnder(l, CommonPrefix(l, n), NextBit(n, l))
         /\ \E bit \in Bit : bit # NextBit(n, l) /\ IsUnder(n, CommonPrefix(l, n), bit)
         /\ CommonPrefix(l, n) \notin FullLabel /\ CommonPrefix(l, n) # n
<1> DEFINE c == CommonPrefixCount(l, n)
           f == CommonPrefix(l, n)
<1>1. /\ c \in 0..Len(n) /\ c < MaxBitCount /\ c # Len(n)
      /\ NextBit(n, l) = l[c + 1] /\ NextBit(n, l) \in Bit
      /\ c < Len(n) => n[c + 1] # NextBit(n, l)
      /\ \A k \in 1..c : l[k] = n[k]
  BY CommonIsStart
<1>2. l \in Label /\ Len(l) = MaxBitCount /\ l \in Seq(Bit) /\ n \in Seq(Bit)
  BY FullIsLabel, LabelLen
<1>3. f \in Label /\ Len(f) = c /\ f \notin FullLabel
  BY <1>2, CommonPrefixIsLabel, CommonPrefixIsNotFull
<1>4. f = SubSeq(l, 1, c)
  BY DEF CommonPrefix
<1> HIDE DEF c, f
<1>5. \A k \in 1..c : f[k] = l[k]
  BY <1>1, <1>2, <1>4, MaxBitCountAssumption
<1>6. Starts(f, l) /\ IsUnder(l, f, NextBit(n, l))
  BY <1>1, <1>2, <1>3, <1>5, MaxBitCountAssumption DEF Starts, IsUnder
<1>7. Len(n) \in Nat /\ c < Len(n)
  BY <1>1, <1>2
<1>8. n[c + 1] \in Bit /\ n[c + 1] # NextBit(n, l)
  BY <1>1, <1>2, <1>7
<1>9. IsUnder(n, f, n[c + 1])
  BY <1>1, <1>3, <1>5, <1>7 DEF Starts, IsUnder
<1>10. f # n
  BY <1>3, <1>7
<1> QED
  BY <1>3, <1>6, <1>8, <1>9, <1>10 DEF f, c

-----------------------------------------------------------------------------
(* Routes in a trie that has its shape *)

LEMMA ChildIsNode ==
  ASSUME NEW t, Closed(t), NEW n \in DOMAIN t, NEW bit
  PROVE  ChildOn(t[n], bit) \in DOMAIN t /\ ChildOn(t[n], bit) \in Label /\ n \in Label
BY DEF Closed, IsNodeOf, ChildOn

(* A key has no children: there are no longer labels. *)
LEMMA KeyIsLeaf ==
  ASSUME NEW t, Closed(t), Shaped(t), NEW n \in DOMAIN t, n \in FullLabel
  PROVE  IsLeaf(t[n])
<1>1. ASSUME NEW bit \in Bit PROVE ChildOn(t[n], bit) = EmptyLabel
  <2>1. ChildOn(t[n], bit) # EmptyLabel => Len(n) < Len(ChildOn(t[n], bit))
    BY DEF Shaped, ShapedNode, IsUnder
  <2>2. Len(n) = MaxBitCount /\ Len(ChildOn(t[n], bit)) \in 0..MaxBitCount
    BY ChildIsNode, LabelLen
  <2> QED
    BY <2>1, <2>2, MaxBitCountAssumption
<1> QED
  BY <1>1 DEF ChildOn, IsLeaf, Bit

(* A leaf is a key or the root. *)
LEMMA LeafIsKey ==
  ASSUME NEW t, Shaped(t), NEW n \in DOMAIN t, SplitsLeaf(t, n)
  PROVE  n \in FullLabel
<1>1. ChildOn(t[n], 0) = EmptyLabel /\ n # EmptyLabel
  BY DEF SplitsLeaf, IsLeaf, ChildOn
<1> QED
  BY <1>1 DEF Shaped, ShapedNode, Bit

(* A route leads to a child on the way to the key. *)
LEMMA RouteDescends ==
  ASSUME NEW t, Closed(t), Shaped(t), NEW n \in DOMAIN t, NEW l \in FullLabel, n # l,
         HasRoute(t, n, l)
  PROVE  /\ Starts(n, l) /\ NextBit(n, l) = l[Len(n) + 1]
         /\ IsUnder(ChildOn(t[n], NextBit(n, l)), n, l[Len(n) + 1])
<1> DEFINE c == CommonPrefixCount(l, n)
           child == ChildOn(t[n], NextBit(n, l))
<1>1. n \in Label /\ Len(n) \in Nat
  BY ChildIsNode, LabelLen
<1>2. /\ c \in 0..Len(n) /\ NextBit(n, l) = l[c + 1] /\ NextBit(n, l) \in Bit
      /\ c = Len(n) => Starts(n, l)
      /\ c < Len(n) => n[c + 1] # NextBit(n, l)
  BY <1>1, CommonIsStart
<1>3. child # EmptyLabel /\ child[c + 1] = NextBit(n, l)
  BY DEF HasRoute, BitAt
<1>4. IsUnder(child, n, NextBit(n, l))
  BY <1>2, <1>3 DEF Shaped, ShapedNode
<1> HIDE DEF c, child
<1>5. ~(c < Len(n))
  <2> SUFFICES ASSUME c < Len(n) PROVE child[c + 1] = n[c + 1]
    BY <1>2, <1>3
  <2>1. c + 1 \in 1..Len(n)
    BY <1>1, <1>2
  <2> QED
    BY <1>4, <2>1 DEF IsUnder, Starts
<1>6. c = Len(n)
  BY <1>1, <1>2, <1>5
<1> QED
  BY <1>2, <1>4, <1>6 DEF child

(* A free slot is on the way to the key. *)
LEMMA SlotDescends ==
  ASSUME NEW t, Closed(t), Shaped(t), NEW n \in DOMAIN t, NEW l \in FullLabel, n # l,
         ~SplitsLeaf(t, n), HasFreeSlot(t, n, l)
  PROVE  /\ n = EmptyLabel /\ Starts(n, l) /\ NextBit(n, l) \in Bit
         /\ NextBit(n, l) = l[Len(n) + 1] /\ IsUnder(l, n, NextBit(n, l))
<1>1. n \in Label
  BY ChildIsNode
<1>2. /\ CommonPrefixCount(l, n) \in 0..Len(n)
      /\ NextBit(n, l) = l[CommonPrefixCount(l, n) + 1] /\ NextBit(n, l) \in Bit
  BY <1>1, CommonIsStart
<1>3. n = EmptyLabel
  <2>1. n \notin FullLabel \/ n = EmptyLabel
    BY KeyIsLeaf DEF SplitsLeaf
  <2> QED
    BY <1>2, <2>1 DEF Shaped, ShapedNode, HasFreeSlot
<1>4. Len(n) = 0 /\ Len(l) = MaxBitCount /\ l \in Label
  BY <1>3, LabelLen, FullIsLabel DEF EmptyLabel
<1>5. CommonPrefixCount(l, n) = 0
  BY <1>2, <1>4
<1> QED
  BY <1>2, <1>3, <1>4, <1>5, MaxBitCountAssumption DEF Starts, IsUnder

(* Where neither a route nor a slot is, the key leaves the edge above. *)
LEMMA SplitLeaves ==
  ASSUME NEW t, Closed(t), Shaped(t), NEW n \in DOMAIN t, NEW l \in FullLabel, n # l,
         SplitsLeaf(t, n) \/ (~HasFreeSlot(t, n, l) /\ ~HasRoute(t, n, l))
  PROVE  ~Starts(n, l)
<1>1. n \in Label /\ Len(n) \in 0..MaxBitCount
  BY ChildIsNode, LabelLen
<1>2. /\ CommonPrefixCount(l, n) < MaxBitCount
      /\ CommonPrefixCount(l, n) = Len(n) <=> Starts(n, l)
      /\ NextBit(n, l) \in Bit
  BY <1>1, CommonIsStart
<1>3. CASE SplitsLeaf(t, n)
  <2>1. Len(n) = MaxBitCount
    BY <1>1, <1>3, LeafIsKey, LabelLen
  <2> QED
    BY <1>2, <2>1, MaxBitCountAssumption
<1>4. CASE ~HasFreeSlot(t, n, l) /\ ~HasRoute(t, n, l)
  <2> SUFFICES ASSUME Starts(n, l) PROVE FALSE
    OBVIOUS
  <2>1. /\ ChildOn(t[n], NextBit(n, l)) # EmptyLabel
        /\ IsUnder(ChildOn(t[n], NextBit(n, l)), n, NextBit(n, l))
    BY <1>2, <1>4 DEF HasFreeSlot, Shaped, ShapedNode
  <2> QED
    BY <1>2, <1>4, <2>1 DEF HasRoute, BitAt, IsUnder
<1> QED
  BY <1>3, <1>4

LEMMA ForkIsShaped ==
  ASSUME NEW t, NEW l \in FullLabel, NEW n \in Label, n # l, ~Starts(n, l)
  PROVE  ShapedNode(CommonPrefix(l, n), Fork(t, n, l))
<1> DEFINE f == CommonPrefix(l, n)
           b == NextBit(n, l)
<1>1. PICK bit \in Bit : /\ bit # b /\ IsUnder(n, f, bit)
                         /\ IsUnder(l, f, b) /\ b \in Bit
  BY ForkIsAbove, CommonIsStart
<1>2. /\ b = 0 => ChildOn(Fork(t, n, l), 0) = l /\ ChildOn(Fork(t, n, l), 1) = n
      /\ b # 0 => ChildOn(Fork(t, n, l), 0) = n /\ ChildOn(Fork(t, n, l), 1) = l
  BY DEF Fork, ChildOn, Node
<1>3. n # EmptyLabel /\ l # EmptyLabel
  <2>1. ~(Len(EmptyLabel) > 0) /\ ~(Len(EmptyLabel) > Len(f)) 
    BY ForkIsAbove, LabelLen DEF EmptyLabel
  <2> QED
    BY <1>1, <2>1 DEF IsUnder
<1> HIDE DEF f, b
<1>4. \A x \in Bit : ChildOn(Fork(t, n, l), x) = IF x = b THEN l ELSE n
  BY <1>1, <1>2 DEF Bit
<1>5. \A x \in Bit : x # b => x = bit
  BY <1>1 DEF Bit
<1>6. \A x \in Bit : /\ ChildOn(Fork(t, n, l), x) # EmptyLabel
                     /\ IsUnder(ChildOn(Fork(t, n, l), x), f, x)
  BY <1>1, <1>3, <1>4, <1>5
<1> QED
  BY <1>6 DEF ShapedNode, f

LEMMA NewLeafIsShaped ==
  ASSUME NEW l \in FullLabel, NEW h
  PROVE  ShapedNode(l, NewLeaf(h))
BY DEF ShapedNode, NewLeaf, ChildOn, Node

(* A node whose children stay keeps its shape. *)
LEMMA SameChildrenShaped ==
  ASSUME NEW n, NEW node, ShapedNode(n, node), NEW h, NEW d
  PROVE  ShapedNode(n, Node(node.left, node.right, h, d))
BY DEF ShapedNode, ChildOn, Node

LEMMA SetChildIsShaped ==
  ASSUME NEW n, NEW node, ShapedNode(n, node), NEW bit \in Bit, NEW l,
         IsUnder(l, n, bit), l # EmptyLabel
  PROVE  ShapedNode(n, SetChild(node, bit, l))
<1>1. \A x \in Bit : ChildOn(SetChild(node, bit, l), x) = IF x = bit THEN l ELSE ChildOn(node, x)
  BY DEF ChildOn, SetChild, Bit, Node
<1> QED
  BY <1>1 DEF ShapedNode

(* What lies under a label is not the empty one. *)
LEMMA UnderIsNotEmpty ==
  ASSUME NEW n \in Label, NEW c, NEW bit, IsUnder(c, n, bit)
  PROVE  c # EmptyLabel
<1>1. Len(EmptyLabel) = 0 /\ Len(n) \in Nat
  BY LabelLen DEF EmptyLabel
<1> QED
  BY <1>1 DEF IsUnder

(* The trie that an insertion leaves. *)
LEMMA SplitIsShaped ==
  ASSUME NEW t, Closed(t), Shaped(t), NEW n \in DOMAIN t, NEW l \in FullLabel, n # l, NEW h,
         ~Starts(n, l),
         NEW u \in {SplitLeaf(t, n, l, NewLeaf(h)), SplitEdge(t, n, l, NewLeaf(h))}
  PROVE  Shaped(u)
<1> DEFINE f == CommonPrefix(l, n)
<1>1. ShapedNode(f, Fork(t, n, l)) /\ ShapedNode(l, NewLeaf(h))
  BY ChildIsNode, ForkIsShaped, NewLeafIsShaped
<1>2. ASSUME NEW x \in DOMAIN t
      PROVE  ShapedNode(x, t[x]) /\ ShapedNode(x, Node(t[x].left, t[x].right, ZeroHash, TRUE))
  BY SameChildrenShaped DEF Shaped
<1>3. /\ DOMAIN u = DOMAIN t \cup {l, f}
      /\ \A x \in DOMAIN u :
           \/ x = l /\ u[x] = NewLeaf(h)
           \/ x = f /\ u[x] = Fork(t, n, l)
           \/ x \in DOMAIN t /\ u[x] = t[x]
           \/ x \in DOMAIN t /\ u[x] = Node(t[x].left, t[x].right, ZeroHash, TRUE)
  <2>1. CASE u = SplitLeaf(t, n, l, NewLeaf(h))
    BY <2>1 DEF SplitLeaf
  <2>2. CASE u = SplitEdge(t, n, l, NewLeaf(h))
    BY <2>2 DEF SplitEdge
  <2> QED
    BY <2>1, <2>2
<1> HIDE DEF f
<1> QED
  BY <1>1, <1>2, <1>3, Zenon DEF Shaped

LEMMA FilledIsShaped ==
  ASSUME NEW t, Closed(t), Shaped(t), NEW n \in DOMAIN t, NEW l \in FullLabel, n # l, NEW h,
         ~SplitsLeaf(t, n), HasFreeSlot(t, n, l)
  PROVE  Shaped(FillSlot(t, n, l, NewLeaf(h)))
<1> DEFINE u == FillSlot(t, n, l, NewLeaf(h))
<1>1. ShapedNode(l, NewLeaf(h))
  BY NewLeafIsShaped
<1>2. ShapedNode(n, SetChild(t[n], NextBit(n, l), l))
  <2>1. NextBit(n, l) \in Bit /\ IsUnder(l, n, NextBit(n, l))
    BY SlotDescends
  <2>2. l # EmptyLabel
    BY EmptyIsNotFull
  <2> QED
    BY <2>1, <2>2, SetChildIsShaped DEF Shaped
<1>3. /\ DOMAIN u = DOMAIN t \cup {l}
      /\ \A x \in DOMAIN u :
           \/ x = l /\ u[x] = NewLeaf(h)
           \/ x = n /\ u[x] = SetChild(t[n], NextBit(n, l), l)
           \/ x \in DOMAIN t /\ u[x] = t[x]
  BY DEF FillSlot
<1> HIDE DEF u
<1>4. Shaped(u)
  BY <1>1, <1>2, <1>3, Zenon DEF Shaped
<1> QED
  BY <1>4 DEF u

LEMMA HashedIsShaped ==
  ASSUME NEW t, Shaped(t), NEW S
  PROVE  Shaped(UpdateHash(t, S))
<1> DEFINE u == UpdateHash(t, S)
<1>1. /\ DOMAIN u = DOMAIN t
      /\ \A x \in DOMAIN u :
           u[x] = t[x] \/ u[x] = Node(t[x].left, t[x].right, ChildrenHash(t, x), FALSE)
  BY DEF UpdateHash
<1> HIDE DEF u
<1>2. Shaped(u)
  BY <1>1, SameChildrenShaped DEF Shaped
<1> QED
  BY <1>2 DEF u

(* A node whose place in the trie stays. *)
LEMMA ReplacedIsShaped ==
  ASSUME NEW t, Shaped(t), NEW n \in DOMAIN t, NEW node, ShapedNode(n, node)
  PROVE  Shaped([t EXCEPT ![n] = node])
<1> DEFINE u == [t EXCEPT ![n] = node]
<1>1. DOMAIN u = DOMAIN t /\ u[n] = node /\ \A x \in DOMAIN t : x # n => u[x] = t[x]
  OBVIOUS
<1> HIDE DEF u
<1>2. Shaped(u)
  BY <1>1 DEF Shaped
<1> QED
  BY <1>2 DEF u

(* The prefix that a key shares with a node below p lies below p too. *)
LEMMA ForkIsUnder ==
  ASSUME NEW l \in FullLabel, NEW n \in Label, NEW p \in Label, n # l,
         Starts(p, l), IsUnder(n, p, l[Len(p) + 1])
  PROVE  /\ IsUnder(CommonPrefix(l, n), p, l[Len(p) + 1])
         /\ CommonPrefix(l, n) \in Label
<1> DEFINE c == CommonPrefixCount(l, n)
           f == CommonPrefix(l, n)
<1>1. /\ c \in 0..Len(n) /\ c < MaxBitCount
      /\ NextBit(n, l) = l[c + 1]
      /\ c < Len(n) => n[c + 1] # NextBit(n, l)
  BY CommonIsStart
<1>2. l \in Label /\ Len(l) = MaxBitCount /\ l \in Seq(Bit) /\ Len(n) \in Nat /\ Len(p) \in Nat
  BY FullIsLabel, LabelLen
<1>3. f \in Label /\ Len(f) = c
  BY <1>2, CommonPrefixIsLabel
<1>4. f = SubSeq(l, 1, c)
  BY DEF CommonPrefix
<1> HIDE DEF c, f
<1>5. \A k \in 1..c : f[k] = l[k]
  BY <1>1, <1>2, <1>4, MaxBitCountAssumption
<1>6. c > Len(p)
  <2> SUFFICES ASSUME c <= Len(p) PROVE FALSE
    BY <1>1, <1>2
  <2>1. c < Len(n)
    BY <1>1, <1>2 DEF IsUnder
  <2>2. CASE c = Len(p)
    BY <1>1, <2>1, <2>2 DEF IsUnder
  <2>3. CASE c < Len(p)
    <3>1. c + 1 \in 1..Len(p)
      BY <1>1, <1>2, <2>3
    <3>2. l[c + 1] = p[c + 1] /\ n[c + 1] = p[c + 1]
      BY <3>1 DEF Starts, IsUnder
    <3> QED
      BY <1>1, <2>1, <3>2
  <2> QED
    BY <1>1, <1>2, <2>2, <2>3
<1>7. IsUnder(f, p, l[Len(p) + 1])
  <2>1. \A k \in 1..Len(p) : f[k] = p[k]
    BY <1>1, <1>2, <1>5, <1>6 DEF Starts
  <2>2. f[Len(p) + 1] = l[Len(p) + 1]
    BY <1>1, <1>2, <1>5, <1>6
  <2> QED
    BY <1>2, <1>3, <1>6, <2>1, <2>2 DEF IsUnder, Starts
<1> QED
  BY <1>3, <1>7 DEF f

-----------------------------------------------------------------------------
(* Prefixes *)

LEMMA StartsTrans ==
  ASSUME NEW a \in Label, NEW b \in Label, NEW c \in Label, Starts(a, b), Starts(b, c)
  PROVE  Starts(a, c)
<1>1. Len(a) \in Nat /\ Len(b) \in Nat /\ Len(c) \in Nat
  BY LabelLen
<1> QED
  BY <1>1 DEF Starts

LEMMA StartsUnder ==
  ASSUME NEW a \in Label, NEW b \in Label, NEW c \in Label, NEW bit,
         IsUnder(b, a, bit), Starts(b, c)
  PROVE  IsUnder(c, a, bit)
<1>1. Len(a) \in Nat /\ Len(b) \in Nat /\ Len(c) \in Nat
  BY LabelLen
<1>2. Starts(a, c)
  BY StartsTrans DEF IsUnder
<1>3. Len(a) < Len(c) /\ Len(a) + 1 \in 1..Len(b)
  BY <1>1 DEF IsUnder, Starts
<1> QED
  BY <1>2, <1>3 DEF IsUnder, Starts

(* Two prefixes of one label are the same, or one is below the other. *)
LEMMA StartsSame ==
  ASSUME NEW a \in Label, NEW b \in Label, Starts(a, b), Len(a) = Len(b)
  PROVE  a = b
<1>1. a \in [1..Len(a) -> Bit] /\ b \in [1..Len(b) -> Bit]
  BY LabelLen
<1> QED
  BY <1>1 DEF Starts

LEMMA StartsOrder ==
  ASSUME NEW a \in Label, NEW b \in Label, NEW l \in Label, Starts(a, l), Starts(b, l),
         Len(a) < Len(b)
  PROVE  IsUnder(b, a, l[Len(a) + 1])
<1>1. Len(a) \in Nat /\ Len(b) \in Nat /\ Len(l) \in Nat
  BY LabelLen
<1>2. Starts(a, b)
  BY <1>1 DEF Starts
<1>3. Len(a) + 1 \in 1..Len(b)
  BY <1>1
<1> QED
  BY <1>2, <1>3 DEF IsUnder, Starts

LEMMA StartsEither ==
  ASSUME NEW a \in Label, NEW b \in Label, NEW l \in Label, Starts(a, l), Starts(b, l)
  PROVE  a = b \/ IsUnder(b, a, l[Len(a) + 1]) \/ IsUnder(a, b, l[Len(b) + 1])
<1>1. Len(a) \in Nat /\ Len(b) \in Nat /\ Len(l) \in Nat
  BY LabelLen
<1>2. CASE Len(a) = Len(b)
  <2>1. Starts(a, b)
    BY <1>1, <1>2 DEF Starts
  <2> QED
    BY <1>2, <2>1, StartsSame
<1>3. CASE Len(a) < Len(b)
  BY <1>3, StartsOrder
<1>4. CASE Len(b) < Len(a)
  BY <1>4, StartsOrder
<1> QED
  BY <1>1, <1>2, <1>3, <1>4

(* A proper extension lies on one side. *)
LEMMA StartsIsUnder ==
  ASSUME NEW a \in Label, NEW b \in Label, Starts(a, b), a # b
  PROVE  IsUnder(b, a, b[Len(a) + 1]) /\ b[Len(a) + 1] \in Bit
<1>1. Len(a) \in Nat /\ Len(b) \in Nat /\ b \in [1..Len(b) -> Bit]
  BY LabelLen
<1>2. Len(a) < Len(b)
  BY <1>1, StartsSame DEF Starts
<1>3. Len(a) + 1 \in 1..Len(b)
  BY <1>1, <1>2
<1> QED
  BY <1>1, <1>2, <1>3 DEF IsUnder

(* What lies below a label is longer, and not the label itself or above it.*)
LEMMA UnderIsBelow ==
  ASSUME NEW a \in Label, NEW b \in Label, NEW bit, IsUnder(b, a, bit)
  PROVE  ~Starts(b, a) /\ a # b /\ Starts(a, b) /\ b # EmptyLabel
<1>1. Len(a) \in Nat /\ Len(b) \in Nat
  BY LabelLen
<1> QED
  BY <1>1, UnderIsNotEmpty DEF IsUnder, Starts

LEMMA UnderTrans ==
  ASSUME NEW a \in Label, NEW b \in Label, NEW c \in Label, NEW bit, NEW side,
         IsUnder(b, a, bit), IsUnder(c, b, side)
  PROVE  IsUnder(c, a, bit)
BY StartsUnder DEF IsUnder

LEMMA OneSide ==
  ASSUME NEW a, NEW b, NEW x, NEW y, IsUnder(b, a, x), IsUnder(b, a, y)
  PROVE  x = y
BY DEF IsUnder

LEMMA NothingUnderKey ==
  ASSUME NEW l \in FullLabel, NEW x \in Label, NEW bit
  PROVE  ~IsUnder(x, l, bit)
<1>1. Len(l) = MaxBitCount /\ Len(x) \in 0..MaxBitCount
  BY LabelLen, FullIsLabel
<1> QED
  BY <1>1, MaxBitCountAssumption DEF IsUnder

LEMMA AllUnderRoot ==
  ASSUME NEW x \in Label, x # EmptyLabel
  PROVE  Starts(EmptyLabel, x) /\ IsUnder(x, EmptyLabel, x[1]) /\ x[1] \in Bit
<1>1. EmptyLabel \in Label /\ Len(EmptyLabel) = 0
  BY FullIsLabel DEF EmptyLabel
<1>2. Starts(EmptyLabel, x)
  BY <1>1, LabelLen DEF Starts
<1>3. Len(EmptyLabel) + 1 = 1
  BY <1>1
<1> QED
  BY <1>1, <1>2, <1>3, StartsIsUnder, Zenon

-----------------------------------------------------------------------------
(* Tries in which every node is below the child on its side *)

Reach(t) ==
  \A n, x \in DOMAIN t, bit \in Bit :
    IsUnder(x, n, bit) => ChildOn(t[n], bit) # EmptyLabel /\ Starts(ChildOn(t[n], bit), x)

Compact(t) == Closed(t) /\ Shaped(t) /\ Reach(t)

LEMMA CompactFact ==
  ASSUME NEW t, Compact(t)
  PROVE  /\ Closed(t) /\ Shaped(t) /\ DOMAIN t \subseteq Label /\ EmptyLabel \in DOMAIN t
         /\ \A n \in DOMAIN t, bit \in Bit :
              /\ ChildOn(t[n], bit) \in DOMAIN t /\ ChildOn(t[n], bit) \in Label
              /\ ChildOn(t[n], bit) # EmptyLabel => IsUnder(ChildOn(t[n], bit), n, bit)
         /\ \A n, x \in DOMAIN t, bit \in Bit :
              IsUnder(x, n, bit) => /\ ChildOn(t[n], bit) # EmptyLabel
                                    /\ Starts(ChildOn(t[n], bit), x)
BY ChildIsNode DEF Compact, Closed, Shaped, ShapedNode, Reach

(* A node has one parent, and is on one side of it. *)
LEMMA OneParent ==
  ASSUME NEW t, Compact(t), NEW p \in DOMAIN t, NEW q \in DOMAIN t,
         NEW x \in Bit, NEW y \in Bit,
         ChildOn(t[p], x) = ChildOn(t[q], y), ChildOn(t[p], x) # EmptyLabel
  PROVE  p = q /\ x = y
<1> DEFINE c == ChildOn(t[p], x)
<1>1. /\ p \in Label /\ q \in Label /\ c \in Label /\ c \in DOMAIN t
      /\ IsUnder(c, p, x) /\ IsUnder(c, q, y)
  BY CompactFact
<1>2. Starts(p, c) /\ Starts(q, c)
  BY <1>1, UnderIsBelow
<1>3. ~IsUnder(q, p, c[Len(p) + 1])
  <2> SUFFICES ASSUME IsUnder(q, p, c[Len(p) + 1]) PROVE FALSE
    OBVIOUS
  <2>1. IsUnder(q, p, x)
    BY <1>1 DEF IsUnder
  <2>2. Starts(c, q)
    BY <2>1, CompactFact
  <2> QED
    BY <1>1, <2>2, UnderIsBelow
<1>4. ~IsUnder(p, q, c[Len(q) + 1])
  <2> SUFFICES ASSUME IsUnder(p, q, c[Len(q) + 1]) PROVE FALSE
    OBVIOUS
  <2>1. IsUnder(p, q, y)
    BY <1>1 DEF IsUnder
  <2>2. Starts(c, p)
    BY <2>1, CompactFact
  <2> QED
    BY <1>1, <2>2, UnderIsBelow
<1>5. p = q
  BY <1>1, <1>2, <1>3, <1>4, StartsEither
<1> QED
  BY <1>1, <1>5, OneSide

-----------------------------------------------------------------------------
(* What an insertion leaves of that *)

(* A new leaf l and a new node f between n and its parent p. *)
LEMMA SplitReach ==
  ASSUME NEW t, Compact(t), NEW p \in DOMAIN t, NEW b \in Bit, NEW n, n = ChildOn(t[p], b),
         n # EmptyLabel, NEW l \in FullLabel, l \notin DOMAIN t, IsUnder(l, p, b), ~Starts(n, l),
         NEW f, f = CommonPrefix(l, n), NEW u, DOMAIN u = DOMAIN t \cup {l, f},
         \A x \in Bit : ChildOn(u[f], x) = IF x = NextBit(n, l) THEN l ELSE n,
         \A x \in Bit : ChildOn(u[p], x) = IF x = b THEN f ELSE ChildOn(t[p], x),
         \A m \in DOMAIN t \ {p} : \A x \in Bit : ChildOn(u[m], x) = ChildOn(t[m], x)
  PROVE  Reach(u) /\ f \notin DOMAIN t
<1>1. /\ DOMAIN t \subseteq Label /\ p \in Label /\ n \in DOMAIN t /\ n \in Label
      /\ IsUnder(n, p, b) /\ l \in Label /\ n # l /\ l # EmptyLabel
  BY CompactFact, FullIsLabel, EmptyIsNotFull
<1>2. /\ f \in Label /\ Starts(f, l) /\ IsUnder(l, f, NextBit(n, l)) /\ NextBit(n, l) \in Bit
      /\ f \notin FullLabel
  BY <1>1, ForkIsAbove, CommonIsStart
<1>3. PICK side \in Bit : side # NextBit(n, l) /\ IsUnder(n, f, side)
  BY <1>1, ForkIsAbove
<1>4. IsUnder(f, p, b)
  <2>1. b = l[Len(p) + 1] /\ Starts(p, l)
    BY DEF IsUnder
  <2> QED
    BY <1>1, <2>1, ForkIsUnder
<1>5. \A m \in DOMAIN t : IsUnder(m, p, b) => Starts(n, m)
  BY CompactFact
<1>6. f \notin DOMAIN t
  <2>1. ~Starts(n, f)
    BY <1>1, <1>2, <1>3, UnderIsBelow
  <2> QED
    BY <1>4, <1>5, <2>1
<1>7. f # EmptyLabel /\ p # f
  BY <1>1, <1>2, <1>4, UnderIsBelow
(* A node above l or f is above p or p itself. *)
<1>8. ASSUME NEW m \in DOMAIN t, NEW x \in {l, f}, NEW bit \in Bit, IsUnder(x, m, bit), m # p
      PROVE  IsUnder(p, m, bit)
  <2>1. x \in Label /\ m \in Label /\ IsUnder(x, p, b) /\ Starts(x, l)
    <3>1. Starts(l, l)
      BY <1>1, LabelLen DEF Starts
    <3> QED
      BY <1>1, <1>2, <1>4, <3>1
  <2>2. Starts(m, x) /\ Starts(p, x)
    BY <1>8, <2>1, UnderIsBelow, <1>1
  <2>3. CASE IsUnder(m, p, x[Len(p) + 1])
    <3>1. IsUnder(m, p, b)
      BY <2>1, <2>3 DEF IsUnder
    <3>2. Starts(n, m)
      BY <1>5, <3>1
    <3>3. Starts(n, l)
      BY <1>1, <2>1, <2>2, <3>2, StartsTrans
    <3> QED
      BY <3>3
  <2>4. CASE IsUnder(p, m, x[Len(m) + 1])
    BY <1>8, <2>4 DEF IsUnder
  <2> QED
    BY <1>1, <1>8, <2>1, <2>2, <2>3, <2>4, StartsEither
<1>9. ASSUME NEW m \in DOMAIN u, NEW x \in DOMAIN u, NEW bit \in Bit, IsUnder(x, m, bit)
      PROVE  ChildOn(u[m], bit) # EmptyLabel /\ Starts(ChildOn(u[m], bit), x)
  <2>0. x \in Label /\ m \in Label /\ Starts(x, x)
    <3>1. x \in Label /\ m \in Label
      BY <1>1, <1>2
    <3> QED
      BY <3>1, LabelLen DEF Starts
  <2>1. CASE m = l
    BY <1>9, <2>0, <2>1, NothingUnderKey
  <2>2. CASE m = f
    <3>1. CASE x = l
      <4>1. bit = NextBit(n, l)
        BY <1>2, <1>9, <2>2, <3>1, OneSide
      <4> QED
        BY <1>1, <2>0, <2>2, <3>1, <4>1
    <3>2. CASE x # l
      <4>1. x \in DOMAIN t
        BY <1>2, <1>9, <2>0, <2>2, <3>2, UnderIsBelow
      <4>2. IsUnder(x, p, b)
        BY <1>2, <1>4, <1>9, <1>1, <2>2, <2>0, UnderTrans
      <4>3. Starts(n, x)
        BY <1>5, <4>1, <4>2
      <4>4. IsUnder(x, f, side)
        BY <1>1, <1>2, <1>3, <2>0, <4>3, StartsUnder
      <4>5. bit = side
        BY <1>9, <2>2, <4>4, OneSide
      <4> QED
        BY <1>1, <1>3, <2>2, <4>3, <4>5
    <3> QED
      BY <3>1, <3>2
  <2>3. CASE m = p
    <3>1. CASE bit = b
      <4>1. CASE x \in {l, f}
        BY <1>2, <1>7, <2>0, <2>3, <3>1, <4>1
      <4>2. CASE x \in DOMAIN t
        <5>1. Starts(n, x)
          BY <1>5, <1>9, <2>3, <3>1, <4>2
        <5>2. Starts(f, x)
          BY <1>1, <1>2, <1>3, <2>0, <5>1, StartsTrans, UnderIsBelow
        <5> QED
          BY <1>7, <2>3, <3>1, <5>2
      <4> QED
        BY <4>1, <4>2
    <3>2. CASE bit # b
      <4>1. x \notin {l, f}
        BY <1>4, <1>9, <2>3, <3>2, OneSide
      <4>2. x \in DOMAIN t
        BY <4>1
      <4> QED
        BY <1>9, <2>3, <3>2, <4>2, CompactFact
    <3> QED
      BY <3>1, <3>2
  <2>4. CASE m \in DOMAIN t \ {p}
    <3>1. ChildOn(u[m], bit) = ChildOn(t[m], bit)
      BY <2>4
    <3>2. CASE x \in DOMAIN t
      BY <1>9, <2>4, <3>1, <3>2, CompactFact
    <3>3. CASE x \in {l, f}
      <4>1. IsUnder(p, m, bit)
        BY <1>8, <1>9, <2>4, <3>3
      <4>2. /\ ChildOn(t[m], bit) # EmptyLabel /\ Starts(ChildOn(t[m], bit), p)
            /\ ChildOn(t[m], bit) \in Label
        BY <2>4, <4>1, CompactFact
      <4>3. Starts(p, x)
        BY <1>4, <3>3 DEF IsUnder
      <4> QED
        BY <1>1, <2>0, <3>1, <4>2, <4>3, StartsTrans
    <3> QED
      BY <3>2, <3>3
  <2> QED
    BY <2>1, <2>2, <2>3, <2>4
<1> QED
  BY <1>6, <1>9 DEF Reach

(* A new leaf in a free slot of the root. *)
LEMMA FillReach ==
  ASSUME NEW t, Compact(t), NEW b \in Bit, ChildOn(t[EmptyLabel], b) = EmptyLabel,
         NEW l \in FullLabel, l \notin DOMAIN t, IsUnder(l, EmptyLabel, b),
         NEW u, DOMAIN u = DOMAIN t \cup {l},
         \A x \in Bit : ChildOn(u[EmptyLabel], x) = IF x = b THEN l ELSE ChildOn(t[EmptyLabel], x),
         \A m \in DOMAIN t \ {EmptyLabel} : \A x \in Bit : ChildOn(u[m], x) = ChildOn(t[m], x)
  PROVE  Reach(u)
<1>1. /\ DOMAIN t \subseteq Label /\ EmptyLabel \in DOMAIN t /\ l \in Label /\ l # EmptyLabel
      /\ EmptyLabel \in Label
  BY CompactFact, FullIsLabel, EmptyIsNotFull
<1>2. \A m \in DOMAIN t : ~IsUnder(m, EmptyLabel, b)
  BY <1>1, CompactFact
<1>3. ASSUME NEW m \in DOMAIN u, NEW x \in DOMAIN u, NEW bit \in Bit, IsUnder(x, m, bit)
      PROVE  ChildOn(u[m], bit) # EmptyLabel /\ Starts(ChildOn(u[m], bit), x)
  <2>0. x \in Label /\ m \in Label /\ Starts(x, x)
    <3>1. x \in Label /\ m \in Label
      BY <1>1
    <3> QED
      BY <3>1, LabelLen DEF Starts
  <2>1. CASE m = l
    BY <1>3, <2>0, <2>1, NothingUnderKey
  <2>2. CASE m = EmptyLabel /\ x = l
    <3>1. bit = b
      BY <1>3, <2>2, OneSide
    <3> QED
      BY <1>1, <2>0, <2>2, <3>1
  <2>3. CASE m = EmptyLabel /\ x \in DOMAIN t
    <3>1. bit # b
      BY <1>2, <1>3, <2>3
    <3> QED
      BY <1>1, <1>3, <2>3, <3>1, CompactFact
  <2>4. CASE m \in DOMAIN t \ {EmptyLabel} /\ x \in DOMAIN t
    BY <1>3, <2>4, CompactFact
  <2>5. CASE m \in DOMAIN t \ {EmptyLabel} /\ x = l
    <3>1. Starts(m, l)
      BY <1>3, <2>5 DEF IsUnder
    <3>2. IsUnder(m, EmptyLabel, m[1]) /\ m[1] \in Bit
      BY <2>0, <2>5, AllUnderRoot
    <3>3. IsUnder(l, EmptyLabel, m[1])
      BY <1>1, <2>0, <3>1, <3>2, StartsUnder
    <3>4. m[1] = b
      BY <3>3, OneSide
    <3> QED
      BY <1>2, <2>5, <3>2, <3>4
  <2> QED
    BY <2>1, <2>2, <2>3, <2>4, <2>5
<1> QED
  BY <1>3 DEF Reach

(* Other marks and hashes do not matter. *)
LEMMA SameReach ==
  ASSUME NEW t, Reach(t), NEW u, DOMAIN u = DOMAIN t,
         \A m \in DOMAIN t : u[m].left = t[m].left /\ u[m].right = t[m].right
  PROVE  Reach(u)
BY DEF Reach, ChildOn

-----------------------------------------------------------------------------
(* Hashes that are those of the children *)

(* A clean inner node has the hash of its children, which are clean too. *)
Good(t, n) ==
  ~IsLeaf(t[n]) /\ ~t[n].dirty =>
    /\ t[n].hash = ChildrenHash(t, n)
    /\ IsClean(t, t[n].left) /\ IsClean(t, t[n].right)

LEMMA GoodKept ==
  ASSUME NEW t, NEW u, NEW n, Good(t, n), u[n] = t[n],
         \A b \in Bit : LET c == ChildOn(t[n], b)
                        IN  c # EmptyLabel => u[c].hash = t[c].hash /\ u[c].dirty = t[c].dirty
  PROVE  Good(u, n)
<1>1. /\ t[n].left # EmptyLabel => /\ u[t[n].left].hash = t[t[n].left].hash
                                   /\ u[t[n].left].dirty = t[t[n].left].dirty
      /\ t[n].right # EmptyLabel => /\ u[t[n].right].hash = t[t[n].right].hash
                                    /\ u[t[n].right].dirty = t[t[n].right].dirty
  <2>1. 0 \in Bit /\ 1 \in Bit /\ ChildOn(t[n], 0) = t[n].left /\ ChildOn(t[n], 1) = t[n].right
    BY DEF Bit, ChildOn
  <2> QED
    BY <2>1
<1>2. /\ LabelHash(u, t[n].left) = LabelHash(t, t[n].left)
      /\ LabelHash(u, t[n].right) = LabelHash(t, t[n].right)
  BY <1>1 DEF LabelHash
<1>3. ChildrenHash(u, n) = ChildrenHash(t, n)
  BY <1>2 DEF ChildrenHash
<1>4. /\ IsClean(u, t[n].left) <=> IsClean(t, t[n].left)
      /\ IsClean(u, t[n].right) <=> IsClean(t, t[n].right)
  BY <1>1 DEF IsClean
<1> QED
  BY <1>3, <1>4 DEF Good

(* update_hash on one node, or on none. *)
LEMMA UpdateOne ==
  ASSUME NEW t, Compact(t), \A n \in DOMAIN t : Good(t, n),
         NEW x \in DOMAIN t, NEW S, S \subseteq {x}
  PROVE  LET u == UpdateHash(t, S)
         IN  /\ Compact(u) /\ DOMAIN u = DOMAIN t
             /\ \A n \in DOMAIN u : Good(u, n)
             /\ \A n \in DOMAIN t : /\ u[n].left = t[n].left /\ u[n].right = t[n].right
                                    /\ n # x => u[n] = t[n]
                                    /\ u[n].dirty => t[n].dirty
             /\ x \in S /\ u[x].dirty =>
                  \E b \in Bit : ChildOn(t[x], b) # EmptyLabel /\ t[ChildOn(t[x], b)].dirty
<1> DEFINE u == UpdateHash(t, S)
<1>1. /\ DOMAIN u = DOMAIN t
      /\ \A n \in DOMAIN t :
           \/ u[n] = t[n] /\ ~(n \in S /\ WillUpdate(t, n))
           \/ n = x /\ x \in S /\ WillUpdate(t, x)
              /\ u[n] = Node(t[x].left, t[x].right, ChildrenHash(t, x), FALSE)
  BY DEF UpdateHash
<1>0. LET new == Node(t[x].left, t[x].right, ChildrenHash(t, x), FALSE)
      IN  /\ new.left = t[x].left /\ new.right = t[x].right
          /\ new.hash = ChildrenHash(t, x) /\ new.dirty = FALSE
  BY DEF Node
<1>2. Closed(t) /\ Shaped(t) /\ Reach(t)
  BY DEF Compact
<1>3. Closed(u) /\ Shaped(u)
  BY <1>2, UpdateHashFact, HashedIsShaped
<1> HIDE DEF u
<1>4. \A n \in DOMAIN t : /\ u[n].left = t[n].left /\ u[n].right = t[n].right
                          /\ n # x => u[n] = t[n]
                          /\ u[n].dirty => t[n].dirty
  BY <1>0, <1>1
<1>5. Compact(u)
  BY <1>1, <1>2, <1>3, <1>4, SameReach DEF Compact
<1>6. ASSUME x \in S, u[x].dirty
      PROVE  \E b \in Bit : ChildOn(t[x], b) # EmptyLabel /\ t[ChildOn(t[x], b)].dirty
  <2>1. u[x] = t[x] /\ ~WillUpdate(t, x)
    BY <1>0, <1>1, <1>6
  <2>2. ~IsClean(t, t[x].left) \/ ~IsClean(t, t[x].right)
    BY <1>6, <2>1 DEF WillUpdate
  <2> QED
    BY <2>2 DEF IsClean, ChildOn, Bit
<1>7. ASSUME NEW n \in DOMAIN t
      PROVE  Good(u, n)
  <2>0. \A b \in Bit : /\ ChildOn(t[n], b) \in DOMAIN t
                       /\ ChildOn(t[n], b) # EmptyLabel => ChildOn(t[n], b) # n
    <3>1. n \in Label
      BY CompactFact
    <3> QED
      BY <3>1, CompactFact, UnderIsBelow
  <2>1. CASE ~(x \in S /\ WillUpdate(t, x))
    <3>1. \A m \in DOMAIN t : u[m] = t[m]
      BY <1>1, <2>1
    <3> QED
      BY <2>0, <3>1, GoodKept
  <2>2. CASE x \in S /\ WillUpdate(t, x) /\ n = x
    <3>1. u[x] = Node(t[x].left, t[x].right, ChildrenHash(t, x), FALSE)
      BY <1>1, <2>2
    <3>2. t[x].dirty /\ IsClean(t, t[x].left) /\ IsClean(t, t[x].right)
      BY <2>2 DEF WillUpdate
    <3>3. /\ t[x].left # EmptyLabel => t[x].left \in DOMAIN t /\ t[x].left # x
          /\ t[x].right # EmptyLabel => t[x].right \in DOMAIN t /\ t[x].right # x
      <4>1. 0 \in Bit /\ 1 \in Bit /\ ChildOn(t[x], 0) = t[x].left /\ ChildOn(t[x], 1) = t[x].right
        BY DEF Bit, ChildOn
      <4> QED
        BY <2>0, <2>2, <4>1
    <3>4. /\ t[x].left # EmptyLabel => u[t[x].left] = t[t[x].left]
          /\ t[x].right # EmptyLabel => u[t[x].right] = t[t[x].right]
      BY <1>4, <3>3
    <3>5. /\ LabelHash(u, t[x].left) = LabelHash(t, t[x].left)
          /\ LabelHash(u, t[x].right) = LabelHash(t, t[x].right)
      BY <3>4 DEF LabelHash
    <3>6. IsClean(u, t[x].left) /\ IsClean(u, t[x].right)
      BY <3>2, <3>4 DEF IsClean
    <3>7. u[x].left = t[x].left /\ u[x].right = t[x].right /\ u[x].hash = ChildrenHash(t, x)
      BY <1>0, <3>1
    <3>8. ChildrenHash(u, x) = ChildrenHash(t, x)
      BY <3>5, <3>7 DEF ChildrenHash
    <3> QED
      BY <2>2, <3>6, <3>7, <3>8 DEF Good
  <2>3. CASE x \in S /\ WillUpdate(t, x) /\ n # x
    <3>1. u[n] = t[n] /\ t[x].dirty
      BY <1>1, <2>3 DEF WillUpdate
    <3>2. CASE \A b \in Bit : ChildOn(t[n], b) # EmptyLabel => ChildOn(t[n], b) # x
      <4>1. \A b \in Bit : ChildOn(t[n], b) # EmptyLabel => u[ChildOn(t[n], b)] = t[ChildOn(t[n], b)]
        BY <1>4, <2>0, <3>2
      <4> QED
        BY <3>1, <4>1, GoodKept
    <3>3. CASE \E b \in Bit : ChildOn(t[n], b) # EmptyLabel /\ ChildOn(t[n], b) = x
      <4>1. ~IsClean(t, t[n].left) \/ ~IsClean(t, t[n].right)
        BY <3>1, <3>3 DEF IsClean, ChildOn
      <4>2. IsLeaf(t[n]) \/ t[n].dirty
        BY <4>1 DEF Good
      <4> QED
        BY <3>1, <4>2 DEF Good
    <3> QED
      BY <3>2, <3>3
  <2> QED
    BY <2>1, <2>2, <2>3
<1> QED
  BY <1>1, <1>4, <1>5, <1>6, <1>7 DEF u

-----------------------------------------------------------------------------
(* What an insertion leaves of the hashes, once the parent p is marked.    *)

(* A new leaf l and a new node f over l and n, which was p's child: u is   *)
(* the trie t with both, and with p marked.                                *)
IsSplit(t, u, p, b, n, l, f, h) ==
  /\ p \in DOMAIN t /\ b \in Bit /\ n = ChildOn(t[p], b) /\ n # EmptyLabel
  /\ l \in FullLabel /\ l \notin DOMAIN t /\ IsUnder(l, p, b) /\ ~Starts(n, l)
  /\ f = CommonPrefix(l, n) /\ DOMAIN u = DOMAIN t \cup {l, f}
  /\ u[l] = NewLeaf(h) /\ u[f] = Fork(t, n, l) /\ u[p] = SetChild(t[p], b, f)
  /\ u[n] \in {t[n], Node(t[n].left, t[n].right, ZeroHash, TRUE)}
  /\ \A m \in DOMAIN t \ {p, n} : u[m] = t[m]

LEMMA SplitGood ==
  ASSUME NEW t, Compact(t), \A m \in DOMAIN t : Good(t, m),
         NEW u, NEW p, NEW b, NEW n, NEW l, NEW f, NEW h, IsSplit(t, u, p, b, n, l, f, h)
  PROVE  /\ Compact(u) /\ f \notin DOMAIN t /\ n \in DOMAIN t
         /\ \A m \in DOMAIN u : m = p \/ Good(u, m) \/ (\E b2 \in Bit : ChildOn(t[m], b2) = p /\ m \in DOMAIN t /\ p # EmptyLabel)
         /\ \A m \in DOMAIN t, x \in Bit :
              ChildOn(u[m], x) = IF m = p /\ x = b THEN f ELSE ChildOn(t[m], x)
         /\ \A x \in Bit : ChildOn(u[f], x) = IF x = NextBit(n, l) THEN l ELSE n
         /\ \A m \in DOMAIN u : u[m].dirty => m \in {f, n, p} \/ (m \in DOMAIN t /\ t[m].dirty)
<1> USE DEF IsSplit
<1>1. /\ DOMAIN t \subseteq Label /\ p \in Label /\ n \in DOMAIN t /\ n \in Label
      /\ IsUnder(n, p, b) /\ l \in Label /\ n # l /\ l # EmptyLabel /\ n # p
      /\ Closed(t) /\ Shaped(t) /\ Starts(p, l)
  BY CompactFact, FullIsLabel, EmptyIsNotFull, UnderIsBelow
<1>2. /\ f \in Label /\ Starts(f, l) /\ IsUnder(l, f, NextBit(n, l)) /\ NextBit(n, l) \in Bit
      /\ f \notin FullLabel
  BY <1>1, ForkIsAbove, CommonIsStart
<1>3. IsUnder(f, p, b) /\ f # EmptyLabel /\ f # p
  <2>1. b = l[Len(p) + 1]
    BY DEF IsUnder
  <2>2. IsUnder(f, p, b)
    BY <1>1, <2>1, ForkIsUnder
  <2> QED
    BY <1>1, <1>2, <2>2, UnderIsBelow
<1>4. /\ \A x \in Bit : ChildOn(u[f], x) = IF x = NextBit(n, l) THEN l ELSE n
      /\ u[f].dirty
  BY <1>2 DEF Fork, Node, ChildOn, Bit
<1>5. /\ \A x \in Bit : ChildOn(u[p], x) = IF x = b THEN f ELSE ChildOn(t[p], x)
      /\ u[p].dirty /\ u[p].hash = t[p].hash
  BY DEF SetChild, Node, ChildOn, Bit
<1>6. /\ u[n].left = t[n].left /\ u[n].right = t[n].right
      /\ u[n] = t[n] \/ u[n].dirty
  BY DEF Node
<1>7. ASSUME NEW m \in DOMAIN t \ {p}
      PROVE  u[m].left = t[m].left /\ u[m].right = t[m].right
  BY <1>6
<1>8. \A m \in DOMAIN t, x \in Bit :
        ChildOn(u[m], x) = IF m = p /\ x = b THEN f ELSE ChildOn(t[m], x)
  BY <1>5, <1>7 DEF ChildOn
<1>9. Reach(u) /\ f \notin DOMAIN t
  <2>1. \A m \in DOMAIN t \ {p} : \A x \in Bit : ChildOn(u[m], x) = ChildOn(t[m], x)
    BY <1>8
  <2> QED
    BY <1>4, <1>5, <2>1, SplitReach
<1>10. Closed(u)
  <2>1. DOMAIN u \subseteq Label /\ EmptyLabel \in DOMAIN u /\ DOMAIN t \subseteq DOMAIN u
    BY <1>1, <1>2 DEF Closed
  <2>2. \A m \in DOMAIN t : IsNodeOf(t[m], DOMAIN u)
    BY <1>1, <2>1, NodeGrows DEF Closed
  <2>3. IsNodeOf(u[l], DOMAIN u)
    BY <2>1, LeafIsNode
  <2>4. IsNodeOf(u[f], DOMAIN u)
    BY <1>1, ForkIsNode
  <2>5. IsNodeOf(u[p], DOMAIN u)
    BY <2>2, SetChildIsNode
  <2>6. IsNodeOf(u[n], DOMAIN u)
    <3>1. IsNodeOf(t[n], DOMAIN u)
      BY <1>1, <2>2
    <3>2. IsNodeOf(Node(t[n].left, t[n].right, ZeroHash, TRUE), DOMAIN u)
      BY <3>1, RemarkedIsNode
    <3> QED
      BY <3>1, <3>2
  <2>7. \A m \in DOMAIN u : IsNodeOf(u[m], DOMAIN u)
    BY <2>2, <2>3, <2>4, <2>5, <2>6
  <2> QED
    BY <2>1, <2>7 DEF Closed
<1>11. Shaped(u)
  <2>1. ShapedNode(l, u[l])
    BY NewLeafIsShaped
  <2>2. ShapedNode(f, u[f])
    BY <1>1, ForkIsShaped
  <2>3. ShapedNode(p, u[p])
    BY <1>1, <1>3, SetChildIsShaped DEF Shaped
  <2>4. ShapedNode(n, u[n])
    <3>1. ShapedNode(n, t[n])
      BY <1>1 DEF Shaped
    <3>2. ShapedNode(n, Node(t[n].left, t[n].right, ZeroHash, TRUE))
      BY <3>1, SameChildrenShaped
    <3> QED
      BY <3>1, <3>2
  <2> QED
    BY <1>1, <2>1, <2>2, <2>3, <2>4 DEF Shaped
<1>12. ASSUME NEW m \in DOMAIN u, m # p,
              \A b2 \in Bit : ~(ChildOn(t[m], b2) = p /\ m \in DOMAIN t /\ p # EmptyLabel)
       PROVE  Good(u, m)
  <2>1. CASE m = l
    BY <2>1, LeafIsNode DEF Good, EmptyLabel
  <2>2. CASE m = f \/ u[m].dirty
    BY <1>4, <2>2 DEF Good
  <2>3. CASE m \in DOMAIN t /\ ~u[m].dirty
    <3>1. u[m] = t[m]
      BY <1>6, <1>12, <2>3
    <3>2. ASSUME NEW x \in Bit, ChildOn(t[m], x) # EmptyLabel
          PROVE  u[ChildOn(t[m], x)] = t[ChildOn(t[m], x)]
      <4>1. ChildOn(t[m], x) # p /\ ChildOn(t[m], x) \in DOMAIN t
        BY <1>12, <2>3, <3>2, CompactFact
      <4>2. ChildOn(t[m], x) # n
        BY <1>12, <2>3, <3>2, OneParent
      <4> QED
        BY <4>1, <4>2
    <3> QED
      BY <2>3, <3>1, <3>2, GoodKept
  <2> QED
    BY <2>1, <2>2, <2>3
<1>13. ASSUME NEW m \in DOMAIN u, u[m].dirty
       PROVE  m \in {f, n, p} \/ (m \in DOMAIN t /\ t[m].dirty)
  <2>1. m # l
    BY <1>13 DEF NewLeaf, Node
  <2> QED
    BY <1>13, <2>1
<1>14. Compact(u)
  BY <1>9, <1>10, <1>11 DEF Compact
<1> QED
  BY <1>1, <1>4, <1>8, <1>9, <1>12, <1>13, <1>14

(* A new leaf in a free slot of the root. *)
IsFill(t, u, b, l, h) ==
  /\ b \in Bit /\ ChildOn(t[EmptyLabel], b) = EmptyLabel
  /\ l \in FullLabel /\ l \notin DOMAIN t /\ IsUnder(l, EmptyLabel, b)
  /\ DOMAIN u = DOMAIN t \cup {l}
  /\ u[l] = NewLeaf(h) /\ u[EmptyLabel] = SetChild(t[EmptyLabel], b, l)
  /\ \A m \in DOMAIN t \ {EmptyLabel} : u[m] = t[m]

LEMMA FillGood ==
  ASSUME NEW t, Compact(t), \A m \in DOMAIN t : Good(t, m),
         NEW u, NEW b, NEW l, NEW h, IsFill(t, u, b, l, h)
  PROVE  /\ Compact(u)
         /\ \A m \in DOMAIN u : Good(u, m)
         /\ \A m \in DOMAIN u : u[m].dirty => m = EmptyLabel \/ (m \in DOMAIN t /\ t[m].dirty)
<1> USE DEF IsFill
<1>1. /\ DOMAIN t \subseteq Label /\ EmptyLabel \in DOMAIN t /\ l \in Label /\ l # EmptyLabel
      /\ EmptyLabel \in Label /\ Closed(t) /\ Shaped(t)
  BY CompactFact, FullIsLabel, EmptyIsNotFull
<1>2. /\ \A x \in Bit : ChildOn(u[EmptyLabel], x) = IF x = b THEN l ELSE ChildOn(t[EmptyLabel], x)
      /\ u[EmptyLabel].dirty
  BY DEF SetChild, Node, ChildOn, Bit
<1>3. Reach(u)
  <2>1. \A m \in DOMAIN t \ {EmptyLabel} : \A x \in Bit : ChildOn(u[m], x) = ChildOn(t[m], x)
    OBVIOUS
  <2> QED
    BY <1>2, <2>1, FillReach
<1>4. Closed(u)
  <2>1. DOMAIN u \subseteq Label /\ EmptyLabel \in DOMAIN u /\ DOMAIN t \subseteq DOMAIN u
    BY <1>1
  <2>2. \A m \in DOMAIN t : IsNodeOf(t[m], DOMAIN u)
    BY <1>1, <2>1, NodeGrows DEF Closed
  <2>3. IsNodeOf(u[l], DOMAIN u)
    BY <2>1, LeafIsNode
  <2>4. IsNodeOf(u[EmptyLabel], DOMAIN u)
    BY <1>1, <2>2, SetChildIsNode
  <2>5. \A m \in DOMAIN u : IsNodeOf(u[m], DOMAIN u)
    BY <2>2, <2>3, <2>4
  <2> QED
    BY <2>1, <2>5 DEF Closed
<1>5. Shaped(u)
  <2>1. ShapedNode(l, u[l])
    BY NewLeafIsShaped
  <2>2. ShapedNode(EmptyLabel, u[EmptyLabel])
    BY <1>1, SetChildIsShaped DEF Shaped
  <2> QED
    BY <1>1, <2>1, <2>2 DEF Shaped
<1>6. ASSUME NEW m \in DOMAIN u
      PROVE  Good(u, m)
  <2>1. CASE m = l
    BY <2>1, LeafIsNode DEF Good, EmptyLabel
  <2>2. CASE m = EmptyLabel
    BY <1>2, <2>2 DEF Good
  <2>3. CASE m \in DOMAIN t \ {EmptyLabel}
    <3>1. \A x \in Bit : ChildOn(t[m], x) \in DOMAIN t
      BY <2>3, CompactFact
    <3>2. \A x \in Bit : ChildOn(t[m], x) # EmptyLabel => u[ChildOn(t[m], x)] = t[ChildOn(t[m], x)]
      BY <3>1
    <3> QED
      BY <2>3, <3>2, GoodKept
  <2> QED
    BY <2>1, <2>2, <2>3
<1>7. ASSUME NEW m \in DOMAIN u, u[m].dirty
      PROVE  m = EmptyLabel \/ (m \in DOMAIN t /\ t[m].dirty)
  <2>1. m # l
    BY <1>7 DEF NewLeaf, Node
  <2> QED
    BY <1>7, <2>1
<1> QED
  BY <1>3, <1>4, <1>5, <1>6, <1>7 DEF Compact

-----------------------------------------------------------------------------
(* Dirty nodes and the keys whose recursions reach them *)

(* Node d is above key l, or is a child of a node above it. *)
Covers(t, d, l) ==
  \E p \in DOMAIN t :
    Starts(p, l) /\ (d = p \/ \E b \in Bit : d = ChildOn(t[p], b) /\ d # EmptyLabel)

LEMMA CoversSame ==
  ASSUME NEW t, NEW u, DOMAIN t \subseteq DOMAIN u, NEW d, NEW l, Covers(t, d, l),
         \A p \in DOMAIN t, b \in Bit : ChildOn(u[p], b) = ChildOn(t[p], b)
  PROVE  Covers(u, d, l)
BY DEF Covers

(* What a child needs, its parent needs. *)
LEMMA CoverUp ==
  ASSUME NEW t, Compact(t), NEW n \in DOMAIN t, NEW b \in Bit, ChildOn(t[n], b) # EmptyLabel,
         NEW l \in FullLabel, Covers(t, ChildOn(t[n], b), l)
  PROVE  Starts(n, l) /\ Covers(t, n, l)
<1> DEFINE c == ChildOn(t[n], b)
<1>1. c \in Label /\ n \in Label /\ l \in Label /\ Starts(n, c)
  BY CompactFact, UnderIsBelow, FullIsLabel
<1>2. PICK p \in DOMAIN t :
        Starts(p, l) /\ (c = p \/ \E x \in Bit : c = ChildOn(t[p], x) /\ c # EmptyLabel)
  BY DEF Covers
<1>3. Starts(n, l)
  <2>1. CASE c = p
    BY <1>1, <1>2, <2>1, StartsTrans
  <2>2. CASE \E x \in Bit : c = ChildOn(t[p], x)
    BY <1>2, <2>2, OneParent
  <2> QED
    BY <1>2, <2>1, <2>2
<1> QED
  BY <1>3 DEF Covers


-----------------------------------------------------------------------------
(* A node gets its mark.                                                   *)

LEMMA MarkOne ==
  ASSUME NEW t, Compact(t), NEW q \in DOMAIN t, NEW u, DOMAIN u = DOMAIN t,
         \A x \in DOMAIN t : x # q => u[x] = t[x],
         u[q] = Node(t[q].left, t[q].right, t[q].hash, TRUE)
  PROVE  /\ Compact(u) /\ u[q].dirty
         /\ \A x \in DOMAIN t, b \in Bit : ChildOn(u[x], b) = ChildOn(t[x], b)
         /\ \A x \in DOMAIN t :
              Good(t, x) /\ (\A b \in Bit : ChildOn(t[x], b) = q => q = EmptyLabel) => Good(u, x)
         /\ \A d, l : Covers(t, d, l) => Covers(u, d, l)
<1>1. u[q].left = t[q].left /\ u[q].right = t[q].right /\ u[q].hash = t[q].hash /\ u[q].dirty
  BY DEF Node
<1>2. \A x \in DOMAIN t : u[x].left = t[x].left /\ u[x].right = t[x].right
  BY <1>1
<1>3. \A x \in DOMAIN t, b \in Bit : ChildOn(u[x], b) = ChildOn(t[x], b)
  BY <1>2 DEF ChildOn
<1>4. Closed(u)
  <2>1. \A x \in DOMAIN t : IsNodeOf(t[x], DOMAIN t)
    BY DEF Compact, Closed
  <2>2. IsNodeOf(u[q], DOMAIN t)
    BY <2>1, RemarkedIsNode
  <2>3. \A x \in DOMAIN t : IsNodeOf(u[x], DOMAIN t)
    BY <2>1, <2>2
  <2> QED
    BY <2>3 DEF Compact, Closed
<1>5. Shaped(u)
  <2>1. \A x \in DOMAIN t : ShapedNode(x, t[x])
    BY DEF Compact, Shaped
  <2>2. ShapedNode(q, u[q])
    BY <2>1, SameChildrenShaped
  <2> QED
    BY <2>1, <2>2 DEF Shaped
<1>6. Reach(u)
  BY <1>2, SameReach DEF Compact
<1>7. ASSUME NEW x \in DOMAIN t, Good(t, x), \A b \in Bit : ChildOn(t[x], b) = q => q = EmptyLabel
      PROVE  Good(u, x)
  <2>1. CASE x = q
    BY <1>1, <2>1 DEF Good
  <2>2. CASE x # q
    <3>1. \A b \in Bit : ChildOn(t[x], b) # EmptyLabel => u[ChildOn(t[x], b)] = t[ChildOn(t[x], b)]
      BY <1>7, CompactFact
    <3> QED
      BY <1>7, <2>2, <3>1, GoodKept
  <2> QED
    BY <2>1, <2>2
<1>8. ASSUME NEW d, NEW l, Covers(t, d, l)
      PROVE  Covers(u, d, l)
  BY <1>3, <1>8, CoversSame
<1> QED
  BY <1>1, <1>3, <1>4, <1>5, <1>6, <1>7, <1>8 DEF Compact


-----------------------------------------------------------------------------
(* Lookup, and the verification of its paths *)

(* A trie between calls: every hash is that of the children, none is dirty.*)
Hashed(t) == Compact(t) /\ \A n \in DOMAIN t : Good(t, n) /\ ~t[n].dirty

(* The common prefix of the two children of a node is the node. *)
LEMMA CommonOfSiblings ==
  ASSUME NEW n \in Label, NEW a \in Label, NEW b \in Label, NEW x \in Bit, NEW y \in Bit,
         x # y, IsUnder(a, n, x), IsUnder(b, n, y)
  PROVE  CommonPrefix(a, b) = n
<1> DEFINE c == CommonPrefixCount(a, b)
<1>1. /\ Len(n) \in Nat /\ Len(a) \in Nat /\ Len(b) \in Nat
      /\ a \in Seq(Bit) /\ n \in [1..Len(n) -> Bit]
  BY LabelLen
<1>2. /\ c \in 0..Len(a) /\ c <= Len(b) /\ \A k \in 1..c : a[k] = b[k]
      /\ c < Len(a) /\ c < Len(b) => a[c + 1] # b[c + 1]
  BY CommonPrefixCountFact
<1>3. /\ Len(n) < Len(a) /\ Len(n) < Len(b)
      /\ a[Len(n) + 1] = x /\ b[Len(n) + 1] = y
      /\ \A k \in 1..Len(n) : a[k] = n[k] /\ b[k] = n[k]
  BY DEF IsUnder, Starts
<1>4. CommonPrefix(a, b) = SubSeq(a, 1, c)
  BY DEF CommonPrefix
<1> HIDE DEF c
<1>5. c = Len(n)
  <2>1. ~(Len(n) < c)
    <3> SUFFICES ASSUME Len(n) < c PROVE FALSE
      OBVIOUS
    <3>1. Len(n) + 1 \in 1..c
      BY <1>1, <1>2
    <3> QED
      BY <1>2, <1>3, <3>1
  <2>2. ~(c < Len(n))
    <3> SUFFICES ASSUME c < Len(n) PROVE FALSE
      OBVIOUS
    <3>1. c + 1 \in 1..Len(n) /\ c < Len(a) /\ c < Len(b)
      BY <1>1, <1>2, <1>3
    <3> QED
      BY <1>2, <1>3, <3>1
  <2>3. c \in Nat
    BY <1>1, <1>2
  <2>4. \A i, j \in Nat : ~(i < j) /\ ~(j < i) => i = j
    OBVIOUS
  <2> QED
    BY <1>1, <2>1, <2>2, <2>3, <2>4, Zenon
<1>6. CommonPrefix(a, b) \in Label /\ Len(CommonPrefix(a, b)) = Len(n)
  BY <1>5, CommonPrefixIsLabel DEF c
<1>7. \A k \in 1..c : CommonPrefix(a, b)[k] = a[k]
  BY <1>1, <1>2, <1>4
<1>8. Starts(n, CommonPrefix(a, b))
  BY <1>1, <1>3, <1>5, <1>6, <1>7 DEF Starts
<1> QED
  BY <1>6, <1>8, StartsSame

(* What verification makes of the entries of two siblings, in any order,   *)
(* is the entry of their parent.                                           *)
LEMMA JoinIsParent ==
  ASSUME NEW t, Hashed(t), NEW n \in DOMAIN t, NEW x \in Bit, NEW y \in Bit, x # y,
         ChildOn(t[n], x) # EmptyLabel, ChildOn(t[n], y) # EmptyLabel
  PROVE  Join(PathEntry(t, ChildOn(t[n], x)), PathEntry(t, ChildOn(t[n], y))) = PathEntry(t, n)
<1> DEFINE a == ChildOn(t[n], x)
           b == ChildOn(t[n], y)
<1>1. /\ n \in Label /\ a \in Label /\ b \in Label
      /\ IsUnder(a, n, x) /\ IsUnder(b, n, y)
  BY CompactFact DEF Hashed
<1>2. CommonPrefix(b, a) = n
  BY <1>1, CommonOfSiblings
<1>3. t[n].hash = ChildrenHash(t, n)
  BY DEF Hashed, Good, IsLeaf, ChildOn
<1>4. a[Len(n) + 1] = x
  BY <1>1 DEF IsUnder
<1>5. /\ PathEntry(t, a).label = a /\ PathEntry(t, a).hash = t[a].hash
      /\ PathEntry(t, b).label = b /\ PathEntry(t, b).hash = t[b].hash
      /\ PathEntry(t, n) = [label |-> n, hash |-> t[n].hash]
  BY DEF PathEntry
<1>6. ChildrenHash(t, n) = IF x = 0 THEN NodeHash(a, t[a].hash, b, t[b].hash)
                           ELSE NodeHash(b, t[b].hash, a, t[a].hash)
  <2>1. x = 0 => t[n].left = a /\ t[n].right = b
    BY DEF ChildOn, Bit
  <2>2. x # 0 => t[n].left = b /\ t[n].right = a
    BY DEF ChildOn, Bit
  <2> QED
    BY <2>1, <2>2 DEF ChildrenHash, LabelHash
<1> HIDE DEF a, b
<1>7. Join(PathEntry(t, a), PathEntry(t, b)) = PathEntry(t, n)
  BY <1>2, <1>3, <1>4, <1>5, <1>6 DEF Join, BitAt
<1> QED
  BY <1>7 DEF a, b

(* An only child of the root, with nothing on its other side. *)
LEMMA OnlyChildIsRoot ==
  ASSUME NEW t, Hashed(t), NEW x \in Bit, NEW y \in Bit, x # y,
         ChildOn(t[EmptyLabel], x) # EmptyLabel, ChildOn(t[EmptyLabel], y) = EmptyLabel
  PROVE  JoinEmpty(PathEntry(t, ChildOn(t[EmptyLabel], x))) = t[EmptyLabel].hash
<1> DEFINE a == ChildOn(t[EmptyLabel], x)
<1>1. EmptyLabel \in DOMAIN t /\ IsUnder(a, EmptyLabel, x)
  BY CompactFact DEF Hashed
<1>2. t[EmptyLabel].hash = ChildrenHash(t, EmptyLabel)
  BY <1>1 DEF Hashed, Good, IsLeaf, ChildOn
<1>3. a[0 + 1] = x
  BY <1>1 DEF IsUnder, EmptyLabel
<1>4. PathEntry(t, a).label = a /\ PathEntry(t, a).hash = t[a].hash
  BY DEF PathEntry
<1>5. ChildrenHash(t, EmptyLabel) = IF x = 0 THEN NodeHash(a, t[a].hash, EmptyLabel, ZeroHash)
                                    ELSE NodeHash(EmptyLabel, ZeroHash, a, t[a].hash)
  <2>1. x = 0 => t[EmptyLabel].left = a /\ t[EmptyLabel].right = EmptyLabel
    BY DEF ChildOn, Bit
  <2>2. x # 0 => t[EmptyLabel].left = EmptyLabel /\ t[EmptyLabel].right = a
    BY DEF ChildOn, Bit
  <2> QED
    BY <2>1, <2>2 DEF ChildrenHash, LabelHash
<1> HIDE DEF a
<1>6. JoinEmpty(PathEntry(t, a)) = t[EmptyLabel].hash
  BY <1>2, <1>3, <1>4, <1>5 DEF JoinEmpty, BitAt
<1> QED
  BY <1>6 DEF a

(* e is what verification computes along a path. *)
Joins(e, path) ==
  e = [k \in 1..Len(path) |-> IF k = 1 THEN path[1] ELSE Join(e[k - 1], path[k])]

LEMMA JoinsOne ==
  ASSUME NEW path, Len(path) \in Nat, NEW e, Joins(e, path), NEW f, Joins(f, path)
  PROVE  e = f
<1> DEFINE D == 1..Len(path)
           Bad == {k \in D : e[k] # f[k]}
<1>1. /\ \A k \in D : e[k] = IF k = 1 THEN path[1] ELSE Join(e[k - 1], path[k])
      /\ \A k \in D : f[k] = IF k = 1 THEN path[1] ELSE Join(f[k - 1], path[k])
  BY DEF Joins
<1>2. Bad = {}
  <2> SUFFICES ASSUME Bad # {} PROVE FALSE
    OBVIOUS
  <2>1. PICK k \in D : e[k] # f[k] /\ \A m \in D : m < k => e[m] = f[m]
    <3>1. Bad \subseteq Nat
      OBVIOUS
    <3>2. PICK k \in Bad : \A m \in Bad : k <= m
      BY <3>1, LeastNatural
    <3> QED
      BY <3>1, <3>2
  <2>2. k # 1 => k - 1 \in D /\ k - 1 < k
    OBVIOUS
  <2> HIDE DEF D, Bad
  <2>3. k # 1 => e[k - 1] = f[k - 1]
    BY <2>1, <2>2
  <2> QED
    BY <1>1, <2>1, <2>3
<1>3. \A k \in D : e[k] = f[k]
  BY <1>2
<1>4. e = [k \in D |-> e[k]] /\ f = [k \in D |-> f[k]]
  BY DEF Joins
<1> HIDE DEF D
<1> QED
  BY <1>3, <1>4

LEMMA VerifiesBy ==
  ASSUME NEW path, Len(path) \in Nat, NEW e, Joins(e, path), NEW commitment,
         \/ e[Len(path)].hash = commitment
         \/ e[Len(path)].label # EmptyLabel /\ JoinEmpty(e[Len(path)]) = commitment
  PROVE  VerifyLookupPath(path, commitment)
<1> DEFINE joined == CHOOSE g : g = [k \in 1..Len(path) |->
                       IF k = 1 THEN path[1] ELSE Join(g[k - 1], path[k])]
<1>1. \E g : g = [k \in 1..Len(path) |-> IF k = 1 THEN path[1] ELSE Join(g[k - 1], path[k])]
  BY DEF Joins
<1>2. Joins(joined, path)
  BY <1>1, Zenon DEF Joins
<1>3. VerifyLookupPath(path, commitment)
        <=> \/ joined[Len(path)].hash = commitment
            \/ joined[Len(path)].label # EmptyLabel /\ JoinEmpty(joined[Len(path)]) = commitment
  BY Zenon DEF VerifyLookupPath
<1> HIDE DEF joined
<1>4. joined = e
  BY <1>2, JoinsOne
<1> QED
  BY <1>3, <1>4

Entries(t) == {PathEntry(t, n) : n \in DOMAIN t}

LEMMA PrependFact ==
  ASSUME NEW S, NEW s \in Seq(S), NEW x \in S
  PROVE  /\ <<x>> \o s \in Seq(S) /\ Len(<<x>> \o s) = Len(s) + 1
         /\ (<<x>> \o s)[1] = x
         /\ \A k \in 1..Len(s) : (<<x>> \o s)[k + 1] = s[k]
OBVIOUS

LEMMA SecondFact ==
  ASSUME NEW S, NEW s \in Seq(S), s # <<>>, NEW x \in S, NEW r, r = <<Head(s), x>> \o Tail(s)
  PROVE  /\ r \in Seq(S) /\ Len(r) = Len(s) + 1
         /\ r[1] = s[1] /\ r[2] = x
         /\ \A k \in 2..Len(s) : r[k + 1] = s[k]
<1>1. /\ Head(s) = s[1] /\ s[1] \in S /\ Tail(s) \in Seq(S) /\ Len(Tail(s)) = Len(s) - 1
      /\ \A k \in 1..(Len(s) - 1) : Tail(s)[k] = s[k + 1]
  OBVIOUS
<1> DEFINE h == Head(s)
           u == Tail(s)
<1>2. r = <<h, x>> \o u
  OBVIOUS
<1>3. Len(s) \in Nat \ {0}
  OBVIOUS
<1> HIDE DEF h, u
<1>4. h \in S /\ u \in Seq(S)
  BY <1>1 DEF h, u
<1>5. /\ r \in Seq(S) /\ Len(r) = Len(u) + 2 /\ r[1] = h /\ r[2] = x
      /\ \A k \in 1..Len(u) : r[k + 2] = u[k]
  BY <1>2, <1>4
<1>6. ASSUME NEW k \in 2..Len(s)
      PROVE  r[k + 1] = s[k]
  <2>1. k - 1 \in 1..Len(u) /\ (k - 1) + 2 = k + 1 /\ (k - 1) + 1 = k
    BY <1>1, <1>3 DEF u
  <2>2. r[(k - 1) + 2] = u[k - 1]
    BY <1>5, <2>1
  <2>3. u[k - 1] = s[(k - 1) + 1]
    BY <1>1, <2>1 DEF u
  <2> QED
    BY <2>1, <2>2, <2>3
<1> QED
  BY <1>1, <1>3, <1>5, <1>6 DEF h, u

(* The nodes a, from one up to the root or to its only child, and the      *)
(* entries of the siblings on the way.                                     *)
IsClimb(t, a, path) ==
  /\ a \in Seq(DOMAIN t) /\ path \in Seq(Entries(t)) /\ Len(a) = Len(path) + 1
  /\ \A k \in 1..Len(path) : \E x, y \in Bit :
       /\ x # y /\ ChildOn(t[a[k + 1]], x) = a[k] /\ a[k] # EmptyLabel
       /\ ChildOn(t[a[k + 1]], y) # EmptyLabel
       /\ path[k] = PathEntry(t, ChildOn(t[a[k + 1]], y))
  /\ \/ a[Len(a)] = EmptyLabel
     \/ \E x, y \in Bit :
          /\ x # y /\ ChildOn(t[EmptyLabel], x) = a[Len(a)] /\ a[Len(a)] # EmptyLabel
          /\ ChildOn(t[EmptyLabel], y) = EmptyLabel

LEMMA ClimbJoins ==
  ASSUME NEW t, Hashed(t), NEW a, NEW path, IsClimb(t, a, path), NEW k \in 1..Len(path)
  PROVE  /\ Join(PathEntry(t, a[k]), path[k]) = PathEntry(t, a[k + 1])
         /\ Join(path[k], PathEntry(t, a[k])) = PathEntry(t, a[k + 1])
<1>1. PICK x \in Bit, y \in Bit :
        /\ x # y /\ ChildOn(t[a[k + 1]], x) = a[k] /\ a[k] # EmptyLabel
        /\ ChildOn(t[a[k + 1]], y) # EmptyLabel
        /\ path[k] = PathEntry(t, ChildOn(t[a[k + 1]], y))
  BY DEF IsClimb
<1>2. a[k + 1] \in DOMAIN t
  <2>1. a \in Seq(DOMAIN t) /\ k + 1 \in 1..Len(a)
    BY DEF IsClimb
  <2> QED
    BY <2>1
<1> QED
  BY <1>1, <1>2, JoinIsParent

LEMMA ClimbEnds ==
  ASSUME NEW t, Hashed(t), NEW a, NEW path, IsClimb(t, a, path),
         NEW last, last = PathEntry(t, a[Len(a)])
  PROVE  \/ last.hash = t[EmptyLabel].hash
         \/ last.label # EmptyLabel /\ JoinEmpty(last) = t[EmptyLabel].hash
<1>1. last.label = a[Len(a)] /\ last.hash = t[a[Len(a)]].hash
  BY DEF PathEntry
<1>2. CASE a[Len(a)] = EmptyLabel
  BY <1>1, <1>2
<1>3. CASE a[Len(a)] # EmptyLabel
  <2>1. PICK x \in Bit, y \in Bit :
          /\ x # y /\ ChildOn(t[EmptyLabel], x) = a[Len(a)]
          /\ ChildOn(t[EmptyLabel], y) = EmptyLabel
    BY <1>3 DEF IsClimb
  <2> QED
    BY <1>1, <1>3, <2>1, OnlyChildIsRoot
<1> QED
  BY <1>2, <1>3

(* A climb verifies, whichever of its first two entries comes first. *)
LEMMA ClimbVerifies ==
  ASSUME NEW t, Hashed(t), NEW a, NEW path, IsClimb(t, a, path),
         NEW q,
         \/ q = <<PathEntry(t, a[1])>> \o path
         \/ path # <<>> /\ q = <<Head(path), PathEntry(t, a[1])>> \o Tail(path)
  PROVE  VerifyLookupPath(q, t[EmptyLabel].hash)
<1>1. PICK n \in Nat : Len(path) = n
  BY DEF IsClimb
<1>2. /\ a \in Seq(DOMAIN t) /\ path \in Seq(Entries(t)) /\ Len(a) = n + 1
      /\ a[1] \in DOMAIN t /\ PathEntry(t, a[1]) \in Entries(t)
  <2>1. a \in Seq(DOMAIN t) /\ path \in Seq(Entries(t)) /\ Len(a) = n + 1
    BY <1>1 DEF IsClimb
  <2>2. a[1] \in DOMAIN t
    BY <2>1
  <2> QED
    BY <2>1, <2>2 DEF Entries
<1>3. /\ Len(q) = n + 1 /\ \A k \in 2..n : q[k + 1] = path[k]
      /\ \/ q[1] = PathEntry(t, a[1]) /\ (n # 0 => q[2] = path[1])
         \/ n # 0 /\ q[1] = path[1] /\ q[2] = PathEntry(t, a[1])
  <2>1. CASE q = <<PathEntry(t, a[1])>> \o path
    <3>1. /\ Len(q) = n + 1 /\ q[1] = PathEntry(t, a[1])
          /\ \A k \in 1..n : q[k + 1] = path[k]
      BY <1>1, <1>2, <2>1, PrependFact
    <3> QED
      BY <3>1
  <2>2. CASE path # <<>> /\ q = <<Head(path), PathEntry(t, a[1])>> \o Tail(path)
    <3>1. n # 0
      BY <1>1, <1>2, <2>2
    <3>2. /\ Len(q) = n + 1 /\ q[1] = path[1] /\ q[2] = PathEntry(t, a[1])
          /\ \A k \in 2..n : q[k + 1] = path[k]
      BY <1>1, <1>2, <2>2, SecondFact
    <3> QED
      BY <3>1, <3>2
  <2> QED
    BY <2>1, <2>2
<1> DEFINE e == [k \in 1..(n + 1) |-> IF k = 1 THEN q[1] ELSE PathEntry(t, a[k])]
<1>4. ASSUME NEW k \in 1..n
      PROVE  Join(e[k], q[k + 1]) = PathEntry(t, a[k + 1])
  <2>1. /\ Join(PathEntry(t, a[k]), path[k]) = PathEntry(t, a[k + 1])
        /\ Join(path[k], PathEntry(t, a[k])) = PathEntry(t, a[k + 1])
    BY <1>1, ClimbJoins
  <2>2. CASE k = 1
    <3>1. e[k] = q[1]
      BY <2>2
    <3> HIDE DEF e
    <3> QED
      BY <1>3, <2>1, <2>2, <3>1
  <2>3. CASE k # 1
    <3>1. e[k] = PathEntry(t, a[k]) /\ q[k + 1] = path[k]
      BY <1>3, <2>3
    <3> HIDE DEF e
    <3> QED
      BY <2>1, <3>1
  <2> QED
    BY <2>2, <2>3
<1>5. \A k \in 1..(n + 1) : e[k] = IF k = 1 THEN q[1] ELSE Join(e[k - 1], q[k])
  <2> SUFFICES ASSUME NEW k \in 1..(n + 1), k # 1
               PROVE  e[k] = Join(e[k - 1], q[k])
    OBVIOUS
  <2>1. e[k] = PathEntry(t, a[k])
    OBVIOUS
  <2>2. k - 1 \in 1..n /\ (k - 1) + 1 = k
    OBVIOUS
  <2> HIDE DEF e
  <2> QED
    BY <1>4, <2>1, <2>2
<1>6. e[n + 1] = PathEntry(t, a[n + 1])
  <2>1. CASE n # 0
    BY <2>1
  <2>2. CASE n = 0
    <3>1. e[1] = q[1]
      BY <2>2
    <3> HIDE DEF e
    <3> QED
      BY <1>3, <2>2, <3>1
  <2> QED
    BY <2>1, <2>2
<1>7. e = [k \in 1..(n + 1) |-> e[k]]
  OBVIOUS
<1> HIDE DEF e
<1>8. Joins(e, q)
  BY <1>3, <1>5, <1>7 DEF Joins
<1>9. \/ e[n + 1].hash = t[EmptyLabel].hash
      \/ e[n + 1].label # EmptyLabel /\ JoinEmpty(e[n + 1]) = t[EmptyLabel].hash
  BY <1>2, <1>6, ClimbEnds
<1>10. Len(q) \in Nat /\ e[Len(q)] = e[n + 1]
  BY <1>3
<1> QED
  BY <1>8, <1>9, <1>10, VerifiesBy

LEMMA ClimbDown ==
  ASSUME NEW t, Compact(t), NEW a, NEW path, IsClimb(t, a, path), NEW x \in Bit, NEW y \in Bit,
         x # y, ChildOn(t[a[1]], x) # EmptyLabel, ChildOn(t[a[1]], y) # EmptyLabel
  PROVE  IsClimb(t, <<ChildOn(t[a[1]], x)>> \o a,
                 <<PathEntry(t, ChildOn(t[a[1]], y))>> \o path)
<1> DEFINE c == ChildOn(t[a[1]], x)
           d == PathEntry(t, ChildOn(t[a[1]], y))
           b == <<c>> \o a
           q == <<d>> \o path
<1>1. PICK n \in Nat : Len(path) = n
  BY DEF IsClimb
<1>2. a \in Seq(DOMAIN t) /\ path \in Seq(Entries(t)) /\ Len(a) = n + 1 /\ a[1] \in DOMAIN t
  <2>1. a \in Seq(DOMAIN t) /\ path \in Seq(Entries(t)) /\ Len(a) = n + 1
    BY <1>1 DEF IsClimb
  <2> QED
    BY <2>1
<1>3. c \in DOMAIN t /\ d \in Entries(t)
  BY <1>2, CompactFact DEF Entries
<1> HIDE DEF c, d
<1>4. /\ b \in Seq(DOMAIN t) /\ Len(b) = n + 2 /\ b[1] = c
      /\ \A k \in 1..(n + 1) : b[k + 1] = a[k]
  BY <1>2, <1>3, PrependFact
<1>5. /\ q \in Seq(Entries(t)) /\ Len(q) = n + 1 /\ q[1] = d
      /\ \A k \in 1..n : q[k + 1] = path[k]
  BY <1>1, <1>2, <1>3, PrependFact
<1> HIDE DEF b, q
<1>6. ASSUME NEW k \in 1..(n + 1)
      PROVE  \E u, v \in Bit :
               /\ u # v /\ ChildOn(t[b[k + 1]], u) = b[k] /\ b[k] # EmptyLabel
               /\ ChildOn(t[b[k + 1]], v) # EmptyLabel
               /\ q[k] = PathEntry(t, ChildOn(t[b[k + 1]], v))
  <2>1. CASE k = 1
    <3>1. b[k + 1] = a[1] /\ b[k] = c /\ q[k] = d
      BY <1>4, <1>5, <2>1
    <3> QED
      BY <3>1 DEF c, d
  <2>2. CASE k # 1
    <3>1. k - 1 \in 1..n /\ k \in 1..(n + 1) /\ (k - 1) + 1 = k /\ k - 1 \in 1..(n + 1)
      BY <2>2
    <3>2. b[k + 1] = a[k] /\ b[k] = a[k - 1] /\ q[k] = path[k - 1]
      BY <1>4, <1>5, <3>1
    <3>3. \E u, v \in Bit :
            /\ u # v /\ ChildOn(t[a[(k - 1) + 1]], u) = a[k - 1] /\ a[k - 1] # EmptyLabel
            /\ ChildOn(t[a[(k - 1) + 1]], v) # EmptyLabel
            /\ path[k - 1] = PathEntry(t, ChildOn(t[a[(k - 1) + 1]], v))
      BY <1>1, <3>1 DEF IsClimb
    <3> QED
      BY <3>1, <3>2, <3>3
  <2> QED
    BY <2>1, <2>2
<1>7. b[Len(b)] = a[Len(a)]
  <2>1. n + 1 \in 1..(n + 1) /\ (n + 1) + 1 = n + 2
    OBVIOUS
  <2> QED
    BY <1>2, <1>4, <2>1
<1>8. \/ b[Len(b)] = EmptyLabel
      \/ \E u, v \in Bit :
           /\ u # v /\ ChildOn(t[EmptyLabel], u) = b[Len(b)] /\ b[Len(b)] # EmptyLabel
           /\ ChildOn(t[EmptyLabel], v) = EmptyLabel
  BY <1>7 DEF IsClimb
<1>9. IsClimb(t, b, q)
  BY <1>4, <1>5, <1>6, <1>8 DEF IsClimb
<1> QED
  BY <1>9 DEF b, q, c, d

LEMMA ClimbOfOne ==
  ASSUME NEW t, Compact(t), NEW n \in DOMAIN t,
         \/ n = EmptyLabel
         \/ \E x, y \in Bit : /\ x # y /\ ChildOn(t[EmptyLabel], x) = n /\ n # EmptyLabel
                              /\ ChildOn(t[EmptyLabel], y) = EmptyLabel
  PROVE  IsClimb(t, <<n>>, <<>>)
<1>1. /\ <<n>> \in Seq(DOMAIN t) /\ <<>> \in Seq(Entries(t)) /\ Len(<<n>>) = Len(<<>>) + 1
      /\ 1..Len(<<>>) = {} /\ <<n>>[Len(<<n>>)] = n
  OBVIOUS
<1> QED
  BY <1>1 DEF IsClimb

(* The root is at the end of its climb. *)
LEMMA ClimbAtRoot ==
  ASSUME NEW t, NEW a, NEW path, IsClimb(t, a, path), a[1] = EmptyLabel
  PROVE  path = <<>>
<1>1. path \in Seq(Entries(t)) /\ (1 \in 1..Len(path) => a[1] # EmptyLabel)
  BY DEF IsClimb
<1> QED
  BY <1>1

(* The right answer, which verifies, and shows the label iff it is there.  *)
Answers(t, l, status, path) ==
  /\ status = IF l \in DOMAIN t THEN "found" ELSE "missing"
  /\ {k \in DOMAIN path : path[k].label = l} = IF l \in DOMAIN t THEN {1} ELSE {}
  /\ VerifyLookupPath(path, t[EmptyLabel].hash)

(* What a visit has found after k steps. *)
Visited(t, l, s, k) ==
  /\ s = [cur |-> s.cur, siblingIsLeft |-> s.siblingIsLeft, path |-> s.path,
          status |-> s.status]
  /\ s.status # "walk" => Answers(t, l, s.status, s.path)
  /\ s.status = "walk" =>
       /\ s.cur \in DOMAIN t /\ k <= Len(s.cur)
       /\ l \in DOMAIN t => Starts(s.cur, l)
       /\ \E a : IsClimb(t, a, s.path) /\ a[1] = s.cur
       /\ \A j \in DOMAIN s.path : s.path[j].label # l

(* Of a label that is not in the trie no entry is shown. *)
LEMMA NotShown ==
  ASSUME NEW t, NEW l, l \notin DOMAIN t, NEW path \in Seq(Entries(t)),
         VerifyLookupPath(path, t[EmptyLabel].hash)
  PROVE  Answers(t, l, "missing", path)
<1>1. \A k \in DOMAIN path : path[k] \in Entries(t)
  OBVIOUS
<1>2. \A k \in DOMAIN path : path[k].label # l
  BY <1>1 DEF Entries, PathEntry
<1> QED
  BY <1>2 DEF Answers

(* The way down to a label that is in the trie. *)
LEMMA LabelIsBelow ==
  ASSUME NEW t, Compact(t), NEW n \in DOMAIN t, NEW l \in FullLabel, l \in DOMAIN t, n # l,
         Starts(n, l)
  PROVE  /\ IsUnder(l, n, NextBit(n, l)) /\ NextBit(n, l) \in Bit
         /\ ChildOn(t[n], NextBit(n, l)) # EmptyLabel /\ Starts(ChildOn(t[n], NextBit(n, l)), l)
<1>1. n \in Label /\ l \in Label
  BY CompactFact, FullIsLabel
<1>2. NextBit(n, l) = l[Len(n) + 1] /\ NextBit(n, l) \in Bit
  BY <1>1, CommonIsStart
<1>3. IsUnder(l, n, NextBit(n, l))
  BY <1>1, <1>2, StartsIsUnder
<1> QED
  BY <1>2, <1>3, CompactFact

(* The visit ends at a node: at the label, or at a leaf. *)
LEMMA VisitEnds ==
  ASSUME NEW t, Hashed(t), NEW l \in FullLabel, NEW s, NEW k \in Nat, Visited(t, l, s, k),
         s.status = "walk", s.cur = l \/ IsLeaf(t[s.cur])
  PROVE  Visited(t, l, Visit(t, l, s), k + 1)
<1> DEFINE cur == s.cur
           here == PathEntry(t, cur)
<1>1. /\ cur \in DOMAIN t /\ ~Refuses(t, cur) /\ (l \in DOMAIN t => Starts(cur, l))
      /\ \A j \in DOMAIN s.path : s.path[j].label # l
  BY DEF Visited, Hashed, Refuses
<1>2. PICK a : IsClimb(t, a, s.path) /\ a[1] = cur
  BY DEF Visited
<1>3. s.path \in Seq(Entries(t)) /\ here \in Entries(t) /\ here.label = cur
  BY <1>1, <1>2 DEF IsClimb, Entries, PathEntry
<1>4. s = [cur |-> s.cur, siblingIsLeft |-> s.siblingIsLeft, path |-> s.path,
           status |-> s.status]
  BY DEF Visited
<1>5. CASE cur = l
  <2> DEFINE q == <<here>> \o s.path
  <2>1. Visit(t, l, s) = [s EXCEPT !.status = "found", !.path = q]
    BY <1>1, <1>5 DEF Visit
  <2>2. VerifyLookupPath(q, t[EmptyLabel].hash)
    BY <1>2, ClimbVerifies
  <2>3. /\ Len(q) = Len(s.path) + 1 /\ q \in Seq(Entries(t)) /\ q[1] = here
        /\ \A j \in 1..Len(s.path) : q[j + 1] = s.path[j]
    BY <1>3, PrependFact
  <2> HIDE DEF q
  <2>4. PICK n \in Nat : Len(s.path) = n
    BY <1>3
  <2>5. {j \in DOMAIN q : q[j].label = l} = {1}
    <3>1. DOMAIN q = 1..(n + 1) /\ DOMAIN s.path = 1..n
      BY <1>3, <2>3, <2>4
    <3>2. ASSUME NEW j \in 1..(n + 1), j # 1
          PROVE  q[j].label # l
      <4>1. j - 1 \in 1..n /\ (j - 1) + 1 = j
        BY <3>2
      <4> QED
        BY <1>1, <2>3, <2>4, <3>1, <4>1
    <3> HIDE DEF here
    <3> QED
      BY <1>3, <1>5, <2>3, <3>1, <3>2
  <2>6. Answers(t, l, "found", q)
    BY <1>1, <1>5, <2>2, <2>5 DEF Answers
  <2> QED
    BY <1>4, <2>1, <2>6 DEF Visited
<1>6. CASE cur # l
  <2> DEFINE q == WithLeaf(s.path, here, s.siblingIsLeft)
  <2>1. Visit(t, l, s) = [s EXCEPT !.status = "missing", !.path = q]
    BY <1>1, <1>6 DEF Visit
  <2>2. l \notin DOMAIN t
    <3> SUFFICES ASSUME l \in DOMAIN t PROVE FALSE
      OBVIOUS
    <3>1. NextBit(cur, l) \in Bit /\ ChildOn(t[cur], NextBit(cur, l)) # EmptyLabel
      BY <1>1, <1>6, LabelIsBelow DEF Hashed
    <3> QED
      BY <1>6, <3>1 DEF IsLeaf, ChildOn
  <2>3. \/ q = <<here>> \o s.path
        \/ s.path # <<>> /\ q = <<Head(s.path), here>> \o Tail(s.path)
    BY DEF WithLeaf
  <2>4. VerifyLookupPath(q, t[EmptyLabel].hash)
    BY <1>2, <2>3, ClimbVerifies
  <2>5. q \in Seq(Entries(t))
    <3>1. CASE q = <<here>> \o s.path
      BY <1>3, <3>1, PrependFact
    <3>2. CASE s.path # <<>> /\ q = <<Head(s.path), here>> \o Tail(s.path)
      BY <1>3, <3>2, SecondFact
    <3> QED
      BY <2>3, <3>1, <3>2
  <2> HIDE DEF q
  <2>6. Answers(t, l, "missing", q)
    BY <2>2, <2>4, <2>5, NotShown
  <2> QED
    BY <1>4, <2>1, <2>6 DEF Visited
<1> QED
  BY <1>5, <1>6

(* The visit goes on to a child, or to where one should be. *)
LEMMA VisitGoesOn ==
  ASSUME NEW t, Hashed(t), NEW l \in FullLabel, NEW s, NEW k \in Nat, Visited(t, l, s, k),
         s.status = "walk", s.cur # l, ~IsLeaf(t[s.cur])
  PROVE  Visited(t, l, Visit(t, l, s), k + 1)
<1> DEFINE cur == s.cur
           x == NextBit(cur, l)
           y == 1 - x
           c == ChildOn(t[cur], x)
           d == ChildOn(t[cur], y)
           q == IF d = EmptyLabel THEN s.path ELSE <<PathEntry(t, d)>> \o s.path
           r == [cur |-> c, siblingIsLeft |-> x = 1, path |-> q,
                 status |-> IF c = EmptyLabel THEN "missing" ELSE "walk"]
<1>1. /\ Compact(t) /\ cur \in DOMAIN t /\ cur \in Label /\ k <= Len(cur) /\ Len(cur) \in Nat
      /\ l \in DOMAIN t => Starts(cur, l)
      /\ \A j \in DOMAIN s.path : s.path[j].label # l
  BY CompactFact, LabelLen DEF Visited, Hashed
<1>2. x \in Bit /\ y \in Bit /\ x # y /\ \A b \in Bit : b = x \/ b = y
  <2>1. x \in Bit
    BY <1>1, CommonIsStart
  <2> QED
    BY <2>1 DEF Bit
<1>3. /\ c \in DOMAIN t /\ d \in DOMAIN t /\ c \in Label /\ d \in Label
      /\ c # EmptyLabel => IsUnder(c, cur, x)
      /\ d # EmptyLabel => IsUnder(d, cur, y)
  BY <1>1, <1>2, CompactFact
<1>4. Visit(t, l, s) = r
  <2>1. ~Refuses(t, cur) /\ (d # EmptyLabel => ~Refuses(t, d))
    BY <1>1, <1>3 DEF Hashed, Refuses
  <2> QED
    BY <2>1 DEF Visit
<1>5. PICK a : IsClimb(t, a, s.path) /\ a[1] = cur
  BY DEF Visited
<1>6. s.path \in Seq(Entries(t))
  BY <1>5 DEF IsClimb
<1>7. (c # EmptyLabel \/ d # EmptyLabel) /\ (c = EmptyLabel \/ d = EmptyLabel => cur = EmptyLabel)
  <2>1. \E b \in Bit : ChildOn(t[cur], b) # EmptyLabel
    BY DEF IsLeaf, ChildOn, Bit
  <2>2. cur \notin FullLabel
    BY <1>1, KeyIsLeaf DEF Compact
  <2>3. cur # EmptyLabel => \A b \in Bit : ChildOn(t[cur], b) # EmptyLabel
    BY <1>1, <2>2 DEF Compact, Shaped, ShapedNode
  <2> HIDE DEF x, y
  <2> QED
    BY <1>2, <2>1, <2>3
<1>8. l \in DOMAIN t => c # EmptyLabel /\ Starts(c, l) /\ IsUnder(l, cur, x)
  BY <1>1, LabelIsBelow
<1>9. d # EmptyLabel => d # l
  BY <1>2, <1>3, <1>8, OneSide
<1> HIDE DEF x, y
<1>10. cur = EmptyLabel => s.path = <<>>
  BY <1>5, ClimbAtRoot
<1>11. CASE c = EmptyLabel
  <2>1. cur = EmptyLabel /\ s.path = <<>> /\ d # EmptyLabel /\ l \notin DOMAIN t
    BY <1>7, <1>8, <1>10, <1>11
  <2>2. IsClimb(t, <<d>>, <<>>)
    BY <1>1, <1>2, <1>3, <1>11, <2>1, ClimbOfOne
  <2>3. q = <<PathEntry(t, d)>> \o <<>> /\ <<d>>[1] = d
    BY <2>1
  <2>4. VerifyLookupPath(q, t[EmptyLabel].hash)
    <3> HIDE DEF d, q
    <3> QED
      BY <2>2, <2>3, ClimbVerifies
  <2>5. q \in Seq(Entries(t))
    <3>1. PathEntry(t, d) \in Entries(t) /\ <<>> \in Seq(Entries(t))
      BY <1>3 DEF Entries
    <3> HIDE DEF d, q
    <3> QED
      BY <2>3, <3>1, PrependFact
  <2>6. Answers(t, l, "missing", q)
    <3> HIDE DEF d, q
    <3> QED
      BY <2>1, <2>4, <2>5, NotShown
  <2> HIDE DEF c, d, q
  <2> QED
    BY <1>4, <1>11, <2>6 DEF Visited
<1>12. CASE c # EmptyLabel
  <2>1. k + 1 <= Len(c)
    <3>1. Len(cur) < Len(c) /\ Len(c) \in Nat
      BY <1>3, <1>12, LabelLen DEF IsUnder
    <3> HIDE DEF c
    <3> QED
      BY <1>1, <3>1
  <2>2. \E b : IsClimb(t, b, q) /\ b[1] = c
    <3>1. CASE d # EmptyLabel
      <4> DEFINE b == <<c>> \o a
      <4>1. IsClimb(t, b, <<PathEntry(t, d)>> \o s.path)
        BY <1>1, <1>2, <1>5, <1>12, <3>1, ClimbDown
      <4>2. a \in Seq(DOMAIN t)
        BY <1>5 DEF IsClimb
      <4>3. b[1] = c
        <5> HIDE DEF c
        <5> QED
          BY <1>3, <4>2, PrependFact
      <4> HIDE DEF b
      <4> QED
        BY <3>1, <4>1, <4>3
    <3>2. CASE d = EmptyLabel
      <4>1. cur = EmptyLabel /\ s.path = <<>>
        BY <1>7, <1>10, <3>2
      <4>2. IsClimb(t, <<c>>, <<>>)
        BY <1>1, <1>2, <1>3, <1>12, <3>2, <4>1, ClimbOfOne
      <4>3. <<c>>[1] = c /\ q = <<>>
        BY <3>2, <4>1
      <4> QED
        BY <4>2, <4>3
    <3> QED
      BY <3>1, <3>2
  <2>3. \A j \in DOMAIN q : q[j].label # l
    <3>1. CASE d = EmptyLabel
      BY <1>1, <3>1
    <3>2. CASE d # EmptyLabel
      <4>1. PathEntry(t, d) \in Entries(t) /\ PathEntry(t, d).label = d
        BY <1>3 DEF Entries, PathEntry
      <4>2. q = <<PathEntry(t, d)>> \o s.path
        BY <3>2
      <4> HIDE DEF d, q
      <4>3. /\ Len(q) = Len(s.path) + 1 /\ q \in Seq(Entries(t)) /\ q[1] = PathEntry(t, d)
            /\ \A j \in 1..Len(s.path) : q[j + 1] = s.path[j]
        BY <1>6, <4>1, <4>2, PrependFact
      <4>4. PICK n \in Nat : Len(s.path) = n
        BY <1>6
      <4>5. ASSUME NEW j \in 1..(n + 1)
            PROVE  q[j].label # l
        <5>1. CASE j = 1
          BY <1>9, <3>2, <4>1, <4>3, <5>1
        <5>2. CASE j # 1
          <6>1. j - 1 \in 1..n /\ (j - 1) + 1 = j
            BY <5>2
          <6>2. q[(j - 1) + 1] = s.path[j - 1] /\ j - 1 \in DOMAIN s.path
            BY <1>6, <4>3, <4>4, <6>1
          <6> QED
            BY <1>1, <6>1, <6>2
        <5> QED
          BY <5>1, <5>2
      <4>6. DOMAIN q = 1..(n + 1)
        BY <4>3, <4>4
      <4> QED
        BY <4>5, <4>6
    <3> QED
      BY <3>1, <3>2
  <2> HIDE DEF c, d, q
  <2> QED
    BY <1>3, <1>4, <1>8, <1>12, <2>1, <2>2, <2>3 DEF Visited
<1> QED
  BY <1>11, <1>12

LEMMA VisitStep ==
  ASSUME NEW t, Hashed(t), NEW l \in FullLabel, NEW s, NEW k \in Nat, Visited(t, l, s, k)
  PROVE  Visited(t, l, Visit(t, l, s), k + 1)
<1>1. CASE s.status # "walk"
  <2>1. Visit(t, l, s) = s
    BY <1>1 DEF Visit
  <2> QED
    BY <1>1, <2>1 DEF Visited
<1> QED
  BY <1>1, VisitEnds, VisitGoesOn

(* The states of a lookup, one after the other. *)
Visits(v, t, l, n) ==
  v = [k \in 0..n |->
         IF k = 0 THEN [cur |-> EmptyLabel, siblingIsLeft |-> FALSE,
                        path |-> <<>>, status |-> "walk"]
         ELSE CHOOSE s \in {Visit(t, l, r) : r \in {v[k - 1]}} : TRUE]

LEMMA VisitsStart ==
  ASSUME NEW t, Hashed(t), NEW l \in FullLabel
  PROVE  Visited(t, l, [cur |-> EmptyLabel, siblingIsLeft |-> FALSE,
                        path |-> <<>>, status |-> "walk"], 0)
<1>1. EmptyLabel \in DOMAIN t /\ Len(EmptyLabel) = 0 /\ Starts(EmptyLabel, l)
  <2>1. l \in Label /\ l # EmptyLabel
    BY FullIsLabel, EmptyIsNotFull
  <2> QED
    BY <2>1, CompactFact, AllUnderRoot DEF Hashed, EmptyLabel
<1>2. IsClimb(t, <<EmptyLabel>>, <<>>) /\ <<EmptyLabel>>[1] = EmptyLabel
  BY <1>1, ClimbOfOne DEF Hashed
<1> QED
  BY <1>1, <1>2 DEF Visited

LEMMA VisitsFact ==
  ASSUME NEW t, Hashed(t), NEW l \in FullLabel, NEW n \in Nat, NEW v, Visits(v, t, l, n)
  PROVE  \A k \in 0..n : Visited(t, l, v[k], k)
<1> DEFINE start == [cur |-> EmptyLabel, siblingIsLeft |-> FALSE,
                     path |-> <<>>, status |-> "walk"]
           Bad == {k \in 0..n : ~Visited(t, l, v[k], k)}
<1>1. /\ \A k \in 0..n : k = 0 => v[k] = start
      /\ \A k \in 0..n : k # 0 => v[k] = CHOOSE s \in {Visit(t, l, r) : r \in {v[k - 1]}} : TRUE
  BY DEF Visits
<1>2. \A k \in 0..n : k # 0 => v[k] = Visit(t, l, v[k - 1])
  BY <1>1
<1> SUFFICES ASSUME Bad # {} PROVE FALSE
  OBVIOUS
<1>3. PICK k \in 0..n : ~Visited(t, l, v[k], k) /\ \A m \in 0..n : m < k => Visited(t, l, v[m], m)
  <2>1. Bad \subseteq Nat
    OBVIOUS
  <2>2. PICK k \in Bad : \A m \in Bad : k <= m
    BY <2>1, LeastNatural
  <2> QED
    BY <2>1, <2>2
<1>4. k # 0
  BY <1>1, <1>3, VisitsStart
<1>5. k - 1 \in 0..n /\ k - 1 \in Nat /\ k - 1 < k /\ (k - 1) + 1 = k
  BY <1>4
<1>6. Visited(t, l, v[k - 1], k - 1)
  BY <1>3, <1>5
<1> HIDE DEF Bad, start
<1> QED
  BY <1>2, <1>3, <1>4, <1>5, <1>6, VisitStep

LEMMA VisitsExist ==
  ASSUME NEW t, NEW l, NEW n \in Nat
  PROVE  \E v : Visits(v, t, l, n)
<1> DEFINE Bad == {m \in Nat : ~\E f : Visits(f, t, l, m)}
           start == [cur |-> EmptyLabel, siblingIsLeft |-> FALSE,
                     path |-> <<>>, status |-> "walk"]
           next(s) == CHOOSE x \in {Visit(t, l, r) : r \in {s}} : TRUE
<1> SUFFICES ASSUME Bad # {} PROVE FALSE
  OBVIOUS
<1>1. PICK m \in Bad : \A j \in Bad : m <= j
  <2>1. Bad \subseteq Nat
    OBVIOUS
  <2> HIDE DEF Bad
  <2> QED
    BY <2>1, LeastNatural
<1>2. \A f : \A x \in Nat :
        Visits(f, t, l, x) <=> f = [k \in 0..x |-> IF k = 0 THEN start ELSE next(f[k - 1])]
  BY Zenon DEF Visits
<1> HIDE DEF start, next
<1>3. m # 0
  <2> DEFINE g == [k \in 0..0 |-> start]
  <2>1. g = [k \in 0..0 |-> IF k = 0 THEN start ELSE next(g[k - 1])]
    OBVIOUS
  <2> QED
    BY <1>1, <1>2, <2>1
<1>4. m - 1 \in Nat /\ m - 1 \notin Bad
  BY <1>1, <1>3
<1>5. PICK f : f = [k \in 0..(m - 1) |-> IF k = 0 THEN start ELSE next(f[k - 1])]
  BY <1>2, <1>4
<1> DEFINE g == [k \in 0..m |-> IF k < m THEN f[k] ELSE next(f[m - 1])]
<1>6. \A k \in 0..(m - 1) : f[k] = IF k = 0 THEN start ELSE next(f[k - 1])
  BY <1>5
<1>7. \A k \in 0..m : g[k] = IF k = 0 THEN start ELSE next(g[k - 1])
  <2> SUFFICES ASSUME NEW k \in 0..m
               PROVE  g[k] = IF k = 0 THEN start ELSE next(g[k - 1])
    OBVIOUS
  <2>1. k # 0 => g[k - 1] = f[k - 1]
    OBVIOUS
  <2>2. CASE k < m
    BY <1>6, <2>1, <2>2
  <2>3. CASE k = m
    BY <1>3, <2>1, <2>3
  <2> QED
    BY <2>2, <2>3
<1>8. g = [k \in 0..m |-> IF k = 0 THEN start ELSE next(g[k - 1])]
  BY <1>7
<1> HIDE DEF g
<1> QED
  BY <1>1, <1>2, <1>8

(* lookup ends in every trie that is hashed, and answers right: it finds a *)
(* label iff the trie has it, and its path verifies against the hash of    *)
(* the root, from a leaf or a lone child of the root just as from the      *)
(* label itself.                                                           *)
THEOREM LookupAnswers ==
  ASSUME NEW t, Hashed(t), NEW l \in FullLabel
  PROVE  Answers(t, l, Lookup(t, l).status, Lookup(t, l).path)
<1> DEFINE n == MaxBitCount + 2
           v == CHOOSE g : g = [k \in 0..n |->
                  IF k = 0 THEN [cur |-> EmptyLabel, siblingIsLeft |-> FALSE,
                                 path |-> <<>>, status |-> "walk"]
                  ELSE CHOOSE s \in {Visit(t, l, r) : r \in {g[k - 1]}} : TRUE]
<1>1. n \in Nat /\ n \in 0..n
  BY MaxBitCountAssumption
<1>2. Visits(v, t, l, n)
  <2>1. \E g : Visits(g, t, l, n)
    BY <1>1, VisitsExist
  <2> QED
    BY <2>1, Zenon DEF Visits
<1>3. Lookup(t, l) = v[n]
  BY Zenon DEF Lookup
<1> HIDE DEF v
<1>4. Visited(t, l, v[n], n)
  BY <1>1, <1>2, VisitsFact
<1>5. v[n].status # "walk"
  <2> SUFFICES ASSUME v[n].status = "walk" PROVE FALSE
    OBVIOUS
  <2>1. v[n].cur \in Label /\ n <= Len(v[n].cur)
    BY <1>4, CompactFact DEF Visited, Hashed
  <2>2. Len(v[n].cur) \in 0..MaxBitCount
    BY <2>1, LabelLen
  <2> QED
    BY <2>1, <2>2, MaxBitCountAssumption
<1> QED
  BY <1>3, <1>4, <1>5 DEF Visited

-----------------------------------------------------------------------------
(* The trie of a dictionary                                                *)

(* The common prefix of two labels is the longest of their prefixes.       *)
LEMMA CommonPrefixIsLongest ==
  ASSUME NEW a \in Label, NEW b \in Label
  PROVE  /\ CommonPrefix(a, b) \in Label
         /\ Starts(CommonPrefix(a, b), a) /\ Starts(CommonPrefix(a, b), b)
         /\ \A p \in Label : Starts(p, a) /\ Starts(p, b) => Starts(p, CommonPrefix(a, b))
<1> DEFINE c == CommonPrefixCount(a, b)
           q == CommonPrefix(a, b)
<1>1. /\ Len(a) \in Nat /\ Len(b) \in Nat /\ a \in Seq(Bit)
      /\ c \in 0..Len(a) /\ c <= Len(b)
      /\ \A i \in 1..c : a[i] = b[i]
      /\ c < Len(a) /\ c < Len(b) => a[c + 1] # b[c + 1]
  BY LabelLen, CommonPrefixCountFact
<1>2. q \in Label /\ Len(q) = c
  BY CommonPrefixIsLabel
<1>3. q = SubSeq(a, 1, c)
  BY DEF CommonPrefix
<1> HIDE DEF c, q
<1>4. \A i \in 1..c : q[i] = a[i]
  BY <1>1, <1>3
<1>5. Starts(q, a) /\ Starts(q, b)
  BY <1>1, <1>2, <1>4 DEF Starts
<1>6. ASSUME NEW p \in Label, Starts(p, a), Starts(p, b)
      PROVE  Starts(p, q)
  <2>1. Len(p) \in Nat
    BY LabelLen
  <2>2. Len(p) <= c
    <3> SUFFICES ASSUME c < Len(p) PROVE FALSE
      BY <1>1, <2>1
    <3>1. c + 1 \in 1..Len(p) /\ c < Len(a) /\ c < Len(b)
      BY <1>1, <1>6, <2>1 DEF Starts
    <3> QED
      BY <1>1, <1>6, <3>1 DEF Starts
  <2> QED
    BY <1>1, <1>2, <1>4, <1>6, <2>1, <2>2 DEF Starts
<1> QED
  BY <1>2, <1>5, <1>6 DEF q

LEMMA CommonPrefixOfSame ==
  ASSUME NEW a \in Label
  PROVE  CommonPrefix(a, a) = a
<1>1. /\ CommonPrefix(a, a) \in Label /\ Starts(CommonPrefix(a, a), a)
      /\ Starts(a, a) => Starts(a, CommonPrefix(a, a))
  BY CommonPrefixIsLongest
<1>2. Starts(a, a)
  BY LabelLen DEF Starts
<1>3. Len(CommonPrefix(a, a)) = Len(a)
  BY <1>1, <1>2, LabelLen DEF Starts
<1> QED
  BY <1>1, <1>3, StartsSame

(* A label starts with another and a bit iff it is below it on that side.  *)
LEMMA AddBitFact ==
  ASSUME NEW n \in Label, NEW bit \in Bit, NEW l \in Label
  PROVE  HasPrefix(l, AddBit(n, bit)) <=> IsUnder(l, n, bit)
<1> DEFINE p == AddBit(n, bit)
<1>1. /\ n \in Seq(Bit) /\ l \in Seq(Bit) /\ Len(n) \in Nat /\ Len(l) \in Nat
  BY LabelLen
<1>2. /\ p \in Seq(Bit) /\ Len(p) = Len(n) + 1 /\ p[Len(n) + 1] = bit
      /\ \A k \in 1..Len(n) : p[k] = n[k]
  BY <1>1, AppendFact DEF AddBit
<1> HIDE DEF p
<1>3. ASSUME HasPrefix(l, p)
      PROVE  IsUnder(l, n, bit)
  <2>1. Len(p) <= Len(l) /\ SubSeq(l, 1, Len(p)) = p
    BY <1>3 DEF HasPrefix
  <2>2. \A k \in 1..Len(p) : SubSeq(l, 1, Len(p))[k] = l[k]
    BY <1>1, <1>2, <2>1
  <2>3. \A k \in 1..Len(p) : p[k] = l[k]
    BY <2>1, <2>2
  <2> QED
    BY <1>1, <1>2, <2>1, <2>3 DEF IsUnder, Starts
<1>4. ASSUME IsUnder(l, n, bit)
      PROVE  HasPrefix(l, p)
  <2>1. Len(p) <= Len(l) /\ \A k \in 1..Len(p) : l[k] = p[k]
    BY <1>1, <1>2, <1>4 DEF IsUnder, Starts
  <2> DEFINE s == SubSeq(l, 1, Len(p))
  <2>2. s \in Seq(Bit) /\ Len(s) = Len(p) /\ \A k \in 1..Len(p) : s[k] = l[k]
    BY <1>1, <1>2, <2>1
  <2>3. s = p
    <3> HIDE DEF s
    <3> QED
      BY <1>2, <2>1, <2>2
  <2> QED
    BY <2>1, <2>3 DEF HasPrefix
<1> QED
  BY <1>3, <1>4 DEF p

(* What two labels on the same side share is on that side too.             *)
LEMMA CommonIsUnder ==
  ASSUME NEW n \in Label, NEW bit \in Bit, NEW k \in Label, NEW l \in Label,
         IsUnder(k, n, bit), IsUnder(l, n, bit)
  PROVE  IsUnder(CommonPrefix(k, l), n, bit)
<1> DEFINE p == AddBit(n, bit)
           q == CommonPrefix(k, l)
<1>1. /\ n \in Seq(Bit) /\ Len(n) \in Nat /\ Len(k) \in 0..MaxBitCount /\ Len(l) \in Nat
  BY LabelLen
<1>2. /\ p \in Seq(Bit) /\ Len(p) = Len(n) + 1 /\ p[Len(n) + 1] = bit
      /\ \A i \in 1..Len(n) : p[i] = n[i]
  BY <1>1, AppendFact DEF AddBit
<1> HIDE DEF p
<1>3. p \in Label
  <2>1. p \in [1..Len(p) -> Bit]
    BY <1>2, LenProperties
  <2>2. Len(p) \in 0..MaxBitCount
    BY <1>1, <1>2, MaxBitCountAssumption DEF IsUnder
  <2> QED
    BY <2>1, <2>2 DEF Label
<1>4. Starts(p, k) /\ Starts(p, l)
  BY <1>1, <1>2 DEF IsUnder, Starts
<1>5. q \in Label /\ Starts(p, q)
  BY <1>3, <1>4, CommonPrefixIsLongest
<1>6. Len(q) \in Nat
  BY <1>5, LabelLen
<1> HIDE DEF q
<1>7. Starts(n, q) /\ Len(n) < Len(q) /\ q[Len(n) + 1] = bit
  BY <1>1, <1>2, <1>5, <1>6 DEF Starts
<1> QED
  BY <1>7 DEF IsUnder, q

(* The nodes: the keys, what two of them share, and the root.              *)
LEMMA NodeLabelsFact ==
  ASSUME NEW d, LabelsOf(d) \subseteq FullLabel
  PROVE  /\ NodeLabels(d) \subseteq Label /\ EmptyLabel \in NodeLabels(d)
         /\ FullLabel \cap NodeLabels(d) = LabelsOf(d)
         /\ \A n \in NodeLabels(d) \ {EmptyLabel} :
              \E a, b \in LabelsOf(d) : n = CommonPrefix(a, b)
<1>1. LabelsOf(d) \subseteq Label
  BY FullIsLabel
<1>2. \A a, b \in LabelsOf(d) : CommonPrefix(a, b) \in Label
  BY <1>1, CommonPrefixIsLabel
<1>3. NodeLabels(d) \subseteq Label /\ EmptyLabel \in NodeLabels(d)
  BY <1>2, FullIsLabel DEF NodeLabels
<1>4. \A a \in LabelsOf(d) : a = CommonPrefix(a, a)
  BY <1>1, CommonPrefixOfSame
<1>5. LabelsOf(d) \subseteq NodeLabels(d)
  BY <1>4 DEF NodeLabels
<1>6. ASSUME NEW a \in LabelsOf(d), NEW b \in LabelsOf(d), CommonPrefix(a, b) \in FullLabel
      PROVE  CommonPrefix(a, b) \in LabelsOf(d)
  BY <1>1, <1>4, <1>6, CommonPrefixIsNotFull
<1>7. FullLabel \cap NodeLabels(d) = LabelsOf(d)
  BY <1>5, <1>6, EmptyIsNotFull DEF NodeLabels
<1> QED
  BY <1>3, <1>7 DEF NodeLabels

LEMMA NodeLabelsGrow ==
  ASSUME NEW d, NEW e, d \subseteq e
  PROVE  NodeLabels(d) \subseteq NodeLabels(e) /\ LabelsOf(d) \subseteq LabelsOf(e)
BY DEF NodeLabels, LabelsOf

(* What is found under a side of a node: nothing, or a node that all nodes *)
(* and keys on that side start with.                                       *)
LEMMA FirstUnderFact ==
  ASSUME NEW d, LabelsOf(d) \subseteq FullLabel, NEW n \in Label, NEW bit \in Bit
  PROVE  \A c \in {FirstUnder(d, AddBit(n, bit))} :
           \/ c = EmptyLabel /\ \A x \in NodeLabels(d) : ~IsUnder(x, n, bit)
           \/ /\ c # EmptyLabel /\ c \in NodeLabels(d) /\ IsUnder(c, n, bit)
              /\ \A x \in NodeLabels(d) : IsUnder(x, n, bit) => Starts(c, x)
<1> DEFINE under == {x \in NodeLabels(d) \ {EmptyLabel} : HasPrefix(x, AddBit(n, bit))}
           c == CHOOSE x \in under : \A y \in under : Len(x) <= Len(y)
<1>1. /\ NodeLabels(d) \subseteq Label
      /\ \A x \in NodeLabels(d) \ {EmptyLabel} :
           \E a, b \in LabelsOf(d) : x = CommonPrefix(a, b)
      /\ LabelsOf(d) \subseteq NodeLabels(d)
  BY NodeLabelsFact
<1>2. \A x \in NodeLabels(d) : x \in under <=> IsUnder(x, n, bit)
  <2>1. \A x \in NodeLabels(d) : HasPrefix(x, AddBit(n, bit)) <=> IsUnder(x, n, bit)
    BY <1>1, AddBitFact
  <2>2. ~IsUnder(EmptyLabel, n, bit)
    BY UnderIsNotEmpty
  <2> QED
    BY <2>1, <2>2
<1>3. FirstUnder(d, AddBit(n, bit)) = IF under = {} THEN EmptyLabel ELSE c
  BY Zenon DEF FirstUnder
<1>4. CASE under = {}
  BY <1>2, <1>3, <1>4
<1>5. CASE under # {}
  <2>1. \E x \in under : \A y \in under : Len(x) <= Len(y)
    <3> DEFINE lens == {Len(x) : x \in under}
    <3>1. lens \subseteq Nat /\ lens # {}
      <4>1. under \subseteq Label
        BY <1>1
      <4> HIDE DEF under
      <4> QED
        BY <1>5, <4>1, LabelLen
    <3>2. PICK m \in lens : \A k \in lens : m <= k
      <4> HIDE DEF lens
      <4> QED BY <3>1, LeastNatural
    <3> HIDE DEF under
    <3>3. PICK x \in under : Len(x) = m
      OBVIOUS
    <3>4. \A y \in under : Len(y) \in lens
      OBVIOUS
    <3> QED
      BY <3>2, <3>3, <3>4
  <2>2. c \in under /\ \A y \in under : Len(c) <= Len(y)
    <3> HIDE DEF under
    <3> QED BY <2>1, Zenon
  <2>3. c \in NodeLabels(d) /\ c # EmptyLabel /\ IsUnder(c, n, bit) /\ c \in Label
    BY <1>1, <1>2, <2>2
  <2> HIDE DEF c
  <2>4. PICK k \in LabelsOf(d) : Starts(c, k)
    BY <1>1, <2>3, CommonPrefixIsLongest
  <2>5. k \in Label /\ IsUnder(k, n, bit)
    BY <1>1, <2>3, <2>4, StartsUnder
  <2>6. ASSUME NEW l \in LabelsOf(d), IsUnder(l, n, bit)
        PROVE  Starts(c, l)
    <3> DEFINE q == CommonPrefix(k, l)
    <3>1. /\ l \in Label /\ q \in Label /\ Starts(q, k) /\ Starts(q, l)
          /\ \A p \in Label : Starts(p, k) /\ Starts(p, l) => Starts(p, q)
      BY <1>1, <2>5, CommonPrefixIsLongest
    <3>2. q \in NodeLabels(d)
      BY DEF NodeLabels
    <3>3. IsUnder(q, n, bit)
      BY <2>5, <2>6, <3>1, CommonIsUnder
    <3>4. Len(c) <= Len(q)
      BY <1>2, <2>2, <3>2, <3>3
    <3> HIDE DEF q
    <3>5. Starts(c, q)
      BY <2>3, <2>4, <2>5, <3>1, <3>4, LabelLen DEF Starts
    <3> QED
      BY <2>3, <3>1, <3>5, StartsTrans
  <2>7. ASSUME NEW x \in NodeLabels(d), IsUnder(x, n, bit)
        PROVE  Starts(c, x)
    <3>1. x \in Label /\ x # EmptyLabel
      BY <1>1, <2>7, UnderIsNotEmpty
    <3>2. PICK a \in LabelsOf(d), b \in LabelsOf(d) : x = CommonPrefix(a, b)
      BY <1>1, <3>1
    <3>3. /\ a \in Label /\ b \in Label /\ Starts(x, a) /\ Starts(x, b)
          /\ \A p \in Label : Starts(p, a) /\ Starts(p, b) => Starts(p, x)
      BY <1>1, <3>2, CommonPrefixIsLongest
    <3>4. IsUnder(a, n, bit) /\ IsUnder(b, n, bit)
      BY <2>7, <3>1, <3>3, StartsUnder
    <3> QED
      BY <2>3, <2>6, <3>3, <3>4
  <2> QED
    BY <1>3, <1>5, <2>3, <2>7 DEF c
<1> QED
  BY <1>4, <1>5

-----------------------------------------------------------------------------
(* Its nodes *)

LEMMA TrieOfFact ==
  ASSUME NEW d
  PROVE  /\ DOMAIN TrieOf(d) = NodeLabels(d)
         /\ \A n \in NodeLabels(d) :
              /\ TrieOf(d)[n] = Node(LeftOf(d, n), RightOf(d, n), TrieOf(d)[n].hash, FALSE)
              /\ ~TrieOf(d)[n].dirty
              /\ \A bit \in Bit : ChildOn(TrieOf(d)[n], bit) = FirstUnder(d, AddBit(n, bit))
<1> DEFINE rhs(hash, n) ==
             IF n \in LabelsOf(d)
             THEN LeafHash(n, EntryOf(d, n)[2], EntryOf(d, n)[3])
             ELSE IF d = {} THEN ZeroHash
             ELSE LET child(m) == IF m = EmptyLabel THEN ZeroHash ELSE hash[m]
                  IN  NodeHash(LeftOf(d, n), child(LeftOf(d, n)),
                               RightOf(d, n), child(RightOf(d, n)))
           h == CHOOSE hash : hash = [n \in NodeLabels(d) |-> rhs(hash, n)]
<1>1. TrieOf(d) = [n \in NodeLabels(d) |-> Node(LeftOf(d, n), RightOf(d, n), h[n], FALSE)]
  BY Zenon DEF TrieOf
<1> HIDE DEF h
<1>2. /\ DOMAIN TrieOf(d) = NodeLabels(d)
      /\ \A n \in NodeLabels(d) :
           TrieOf(d)[n] = Node(LeftOf(d, n), RightOf(d, n), h[n], FALSE)
  BY <1>1
<1>3. ASSUME NEW n \in NodeLabels(d), NEW bit \in Bit
      PROVE  ChildOn(TrieOf(d)[n], bit) = FirstUnder(d, AddBit(n, bit))
  <2> DEFINE node == TrieOf(d)[n]
  <2>1. node = Node(LeftOf(d, n), RightOf(d, n), h[n], FALSE)
    BY <1>2
  <2> HIDE DEF node
  <2>2. node.left = LeftOf(d, n) /\ node.right = RightOf(d, n)
    BY <2>1 DEF Node
  <2> QED
    BY <2>2 DEF node, ChildOn, LeftOf, RightOf, Bit
<1>4. ASSUME NEW n \in NodeLabels(d)
      PROVE  TrieOf(d)[n].hash = h[n] /\ TrieOf(d)[n].dirty = FALSE
  <2> DEFINE node == TrieOf(d)[n]
  <2>1. node = Node(LeftOf(d, n), RightOf(d, n), h[n], FALSE)
    BY <1>2
  <2> HIDE DEF node
  <2>2. node.hash = h[n] /\ node.dirty = FALSE
    BY <2>1 DEF Node
  <2> QED
    BY <2>2 DEF node
<1> QED
  BY <1>2, <1>3, <1>4

(* The child on a side of a node is there for every node on that side.     *)
LEMMA ChildOfTrieOf ==
  ASSUME NEW d, LabelsOf(d) \subseteq FullLabel, NEW n \in NodeLabels(d), NEW bit \in Bit
  PROVE  \A c \in {ChildOn(TrieOf(d)[n], bit)} :
           \/ c = EmptyLabel /\ \A x \in NodeLabels(d) : ~IsUnder(x, n, bit)
           \/ /\ c # EmptyLabel /\ c \in NodeLabels(d) /\ IsUnder(c, n, bit)
              /\ \A x \in NodeLabels(d) : IsUnder(x, n, bit) => Starts(c, x)
<1>1. n \in Label
  BY NodeLabelsFact
<1>2. ChildOn(TrieOf(d)[n], bit) = FirstUnder(d, AddBit(n, bit))
  BY TrieOfFact
<1> QED
  BY <1>1, <1>2, FirstUnderFact

LEMMA TrieOfIsCompact ==
  ASSUME NEW d, LabelsOf(d) \subseteq FullLabel
  PROVE  Compact(TrieOf(d))
<1> DEFINE t == TrieOf(d)
<1>1. /\ NodeLabels(d) \subseteq Label /\ EmptyLabel \in NodeLabels(d)
      /\ FullLabel \cap NodeLabels(d) = LabelsOf(d)
      /\ \A n \in NodeLabels(d) \ {EmptyLabel} :
           \E a, b \in LabelsOf(d) : n = CommonPrefix(a, b)
  BY NodeLabelsFact
<1>2. DOMAIN t = NodeLabels(d)
  BY TrieOfFact
<1>3. ASSUME NEW n \in DOMAIN t
      PROVE  IsNodeOf(t[n], DOMAIN t)
  <2>1. /\ t[n] = Node(LeftOf(d, n), RightOf(d, n), t[n].hash, FALSE)
        /\ ChildOn(t[n], 0) \in DOMAIN t /\ ChildOn(t[n], 1) \in DOMAIN t
    BY <1>1, <1>2, <1>3, TrieOfFact, ChildOfTrieOf DEF Bit
  <2> HIDE DEF t
  <2>2. t[n].left \in DOMAIN t /\ t[n].right \in DOMAIN t
    BY <2>1 DEF ChildOn
  <2>3. t[n].left = LeftOf(d, n) /\ t[n].right = RightOf(d, n)
    BY <2>1 DEF Node
  <2> QED
    BY <2>1, <2>2, <2>3, NodeIsNode
<1>4. Closed(t)
  BY <1>1, <1>2, <1>3 DEF Closed
<1>5. Reach(t)
  BY <1>2, ChildOfTrieOf DEF Reach
<1>6. ASSUME NEW n \in DOMAIN t
      PROVE  ShapedNode(n, t[n])
  <2>1. \A bit \in Bit : ChildOn(t[n], bit) # EmptyLabel => IsUnder(ChildOn(t[n], bit), n, bit)
    BY <1>2, <1>6, ChildOfTrieOf
  <2>2. ASSUME n \notin FullLabel \cup {EmptyLabel}, NEW bit \in Bit
        PROVE  ChildOn(t[n], bit) # EmptyLabel
    <3>1. PICK a \in LabelsOf(d), b \in LabelsOf(d) : n = CommonPrefix(a, b)
      BY <1>1, <1>2, <1>6, <2>2
    <3>2. a \in Label /\ b \in Label /\ n \in Label /\ a \in NodeLabels(d) /\ b \in NodeLabels(d)
      BY <1>1, <1>2, <1>6, FullIsLabel
    <3>3. Starts(n, a) /\ Starts(n, b) /\ n # a /\ n # b
      BY <1>1, <2>2, <3>1, <3>2, CommonPrefixIsLongest
    <3>4. /\ IsUnder(a, n, a[Len(n) + 1]) /\ a[Len(n) + 1] \in Bit
          /\ IsUnder(b, n, b[Len(n) + 1]) /\ b[Len(n) + 1] \in Bit
      BY <3>2, <3>3, StartsIsUnder
    <3>5. a[Len(n) + 1] # b[Len(n) + 1]
      <4>1. Len(n) = CommonPrefixCount(a, b)
        BY <3>1, <3>2, CommonPrefixIsLabel
      <4> QED
        BY <3>2, <3>4, <4>1, CommonPrefixCountFact DEF IsUnder
    <3>6. \E x \in NodeLabels(d) : IsUnder(x, n, bit)
      <4>1. bit = a[Len(n) + 1] \/ bit = b[Len(n) + 1]
        BY <2>2, <3>4, <3>5 DEF Bit
      <4> QED
        BY <3>2, <3>4, <4>1
    <3> QED
      BY <1>2, <1>6, <2>2, <3>6, ChildOfTrieOf
  <2> QED
    BY <2>1, <2>2 DEF ShapedNode
<1> QED
  BY <1>4, <1>5, <1>6 DEF Compact, Shaped

-----------------------------------------------------------------------------
(* Its hashes *)

(* The hash of a node, from those of its children. *)
HashOf(d, hash, n) ==
  IF n \in LabelsOf(d)
  THEN LeafHash(n, EntryOf(d, n)[2], EntryOf(d, n)[3])
  ELSE IF d = {} THEN ZeroHash
  ELSE NodeHash(LeftOf(d, n), IF LeftOf(d, n) = EmptyLabel THEN ZeroHash ELSE hash[LeftOf(d, n)],
                RightOf(d, n), IF RightOf(d, n) = EmptyLabel THEN ZeroHash ELSE hash[RightOf(d, n)])

LEMMA ChildIsLonger ==
  ASSUME NEW d, LabelsOf(d) \subseteq FullLabel, NEW n \in NodeLabels(d),
         NEW c \in {LeftOf(d, n), RightOf(d, n)}, c # EmptyLabel
  PROVE  c \in NodeLabels(d) /\ Len(n) < Len(c)
<1>1. n \in Label
  BY NodeLabelsFact
<1>2. PICK bit \in Bit : c = FirstUnder(d, AddBit(n, bit))
  BY DEF LeftOf, RightOf, Bit
<1> QED
  BY <1>1, <1>2, FirstUnderFact DEF IsUnder

(* It depends on the hashes of longer labels only. *)
LEMMA HashOfLonger ==
  ASSUME NEW d, LabelsOf(d) \subseteq FullLabel, NEW n \in NodeLabels(d), NEW f, NEW g,
         \A x \in NodeLabels(d) : Len(n) < Len(x) => f[x] = g[x]
  PROVE  HashOf(d, f, n) = HashOf(d, g, n)
<1>1. \A c \in {LeftOf(d, n), RightOf(d, n)} : c = EmptyLabel \/ f[c] = g[c]
  BY ChildIsLonger
<1> QED
  BY <1>1 DEF HashOf

(* So there are such hashes: from the longest labels up. *)
LEMMA HashesExist ==
  ASSUME NEW d, LabelsOf(d) \subseteq FullLabel
  PROVE  \E f : f = [n \in NodeLabels(d) |-> HashOf(d, f, n)]
<1> DEFINE N == NodeLabels(d)
           Upto(f, k) == \A n \in N : Len(n) > MaxBitCount - k => f[n] = HashOf(d, f, n)
           Bad == {k \in Nat : ~\E f : f = [n \in N |-> f[n]] /\ Upto(f, k)}
<1>1. \A n \in N : n \in Label /\ Len(n) \in 0..MaxBitCount
  BY NodeLabelsFact, LabelLen
<1>2. Bad = {}
  <2> SUFFICES ASSUME Bad # {} PROVE FALSE
    OBVIOUS
  <2>1. PICK k \in Bad : \A j \in Bad : k <= j
    <3>1. Bad \subseteq Nat
      OBVIOUS
    <3> HIDE DEF Bad
    <3> QED
      BY <3>1, LeastNatural
  <2>2. k # 0
    <3> DEFINE f == [n \in N |-> ZeroHash]
    <3>1. f = [n \in N |-> f[n]] /\ Upto(f, 0)
      BY <1>1, MaxBitCountAssumption
    <3> HIDE DEF f, Upto
    <3> QED
      BY <3>1
  <2>3. k - 1 \in Nat /\ k - 1 \notin Bad
    BY <2>1, <2>2
  <2>4. PICK f : f = [n \in N |-> f[n]] /\ Upto(f, k - 1)
    BY <2>3
  <2> DEFINE g == [n \in N |-> IF Len(n) = MaxBitCount - (k - 1) THEN HashOf(d, f, n) ELSE f[n]]
  <2>5. ASSUME NEW n \in N, Len(n) > MaxBitCount - k
        PROVE  g[n] = HashOf(d, g, n)
    <3>1. Len(n) \in Nat /\ Len(n) >= MaxBitCount - (k - 1)
      BY <1>1, <2>3, <2>5, MaxBitCountAssumption
    <3>2. \A x \in N : Len(n) < Len(x) => f[x] = g[x]
      BY <1>1, <2>3, <3>1, MaxBitCountAssumption
    <3>3. g[n] = HashOf(d, f, n)
      BY <2>4, <3>1, MaxBitCountAssumption
    <3> HIDE DEF g
    <3> QED
      BY <3>2, <3>3, HashOfLonger
  <2>6. g = [n \in N |-> g[n]]
    OBVIOUS
  <2> HIDE DEF g
  <2>7. Upto(g, k)
    BY <2>5
  <2> QED
    BY <2>1, <2>6, <2>7
<1>3. PICK f : f = [n \in N |-> f[n]] /\ Upto(f, MaxBitCount + 1)
  BY <1>2, MaxBitCountAssumption
<1>4. \A n \in N : f[n] = HashOf(d, f, n)
  BY <1>1, <1>3, MaxBitCountAssumption
<1> HIDE DEF N, Upto
<1>5. f = [n \in N |-> HashOf(d, f, n)]
  BY <1>3, <1>4, Zenon
<1> QED
  BY <1>5 DEF N

LEMMA TrieOfHash ==
  ASSUME NEW d, LabelsOf(d) \subseteq FullLabel
  PROVE  \A n \in NodeLabels(d) :
           TrieOf(d)[n].hash = HashOf(d, [x \in NodeLabels(d) |-> TrieOf(d)[x].hash], n)
<1> DEFINE rhs(hash, n) ==
             IF n \in LabelsOf(d)
             THEN LeafHash(n, EntryOf(d, n)[2], EntryOf(d, n)[3])
             ELSE IF d = {} THEN ZeroHash
             ELSE LET child(m) == IF m = EmptyLabel THEN ZeroHash ELSE hash[m]
                  IN  NodeHash(LeftOf(d, n), child(LeftOf(d, n)),
                               RightOf(d, n), child(RightOf(d, n)))
           h == CHOOSE hash : hash = [n \in NodeLabels(d) |-> rhs(hash, n)]
<1>1. TrieOf(d) = [n \in NodeLabels(d) |-> Node(LeftOf(d, n), RightOf(d, n), h[n], FALSE)]
  BY Zenon DEF TrieOf
<1>2. \A f, n : rhs(f, n) = HashOf(d, f, n)
  BY Zenon DEF HashOf
<1>3. PICK f : f = [n \in NodeLabels(d) |-> HashOf(d, f, n)]
  BY HashesExist
<1>4. f = [n \in NodeLabels(d) |-> rhs(f, n)]
  BY <1>2, <1>3
<1> HIDE DEF rhs
<1>5. h = [n \in NodeLabels(d) |-> rhs(h, n)]
  BY <1>4, Zenon
<1> HIDE DEF h
<1>6. ASSUME NEW n \in NodeLabels(d)
      PROVE  TrieOf(d)[n].hash = h[n]
  <2> DEFINE node == TrieOf(d)[n]
  <2>1. node = Node(LeftOf(d, n), RightOf(d, n), h[n], FALSE)
    BY <1>1
  <2> HIDE DEF node
  <2>2. node.hash = h[n]
    BY <2>1 DEF Node
  <2> QED
    BY <2>2 DEF node
<1>7. [x \in NodeLabels(d) |-> TrieOf(d)[x].hash] = h
  BY <1>5, <1>6
<1>8. \A n \in NodeLabels(d) : h[n] = rhs(h, n)
  BY <1>5
<1> QED
  BY <1>2, <1>6, <1>7, <1>8

(* The hash of a leaf, and of a node above leaves. *)
LEMMA TrieOfGives ==
  ASSUME NEW d, LabelsOf(d) \subseteq FullLabel, NEW n \in NodeLabels(d)
  PROVE  /\ n \in LabelsOf(d) =>
              TrieOf(d)[n].hash = LeafHash(n, EntryOf(d, n)[2], EntryOf(d, n)[3])
         /\ n \notin LabelsOf(d) /\ d # {} => TrieOf(d)[n].hash = ChildrenHash(TrieOf(d), n)
         /\ n \notin LabelsOf(d) /\ d = {} => TrieOf(d)[n].hash = ZeroHash
<1> DEFINE t == TrieOf(d)
           hash == [x \in NodeLabels(d) |-> t[x].hash]
<1>1. t[n].hash = HashOf(d, hash, n)
  BY TrieOfHash
<1>2. t[n].left = LeftOf(d, n) /\ t[n].right = RightOf(d, n)
  <2>1. \A bit \in Bit : ChildOn(t[n], bit) = FirstUnder(d, AddBit(n, bit))
    BY TrieOfFact
  <2> HIDE DEF t
  <2> QED
    BY <2>1 DEF ChildOn, Bit, LeftOf, RightOf
<1>3. \A c \in {LeftOf(d, n), RightOf(d, n)} :
        LabelHash(t, c) = IF c = EmptyLabel THEN ZeroHash ELSE hash[c]
  <2>1. \A c \in {LeftOf(d, n), RightOf(d, n)} : c # EmptyLabel => c \in NodeLabels(d)
    BY ChildIsLonger
  <2> HIDE DEF t
  <2> QED
    BY <2>1 DEF LabelHash
<1> HIDE DEF t, hash
<1> QED
  BY <1>1, <1>2, <1>3 DEF HashOf, ChildrenHash, t

(* Any dictionary's trie is one that lookups answer right from.            *)
LEMMA TrieOfIsHashed ==
  ASSUME NEW d, LabelsOf(d) \subseteq FullLabel
  PROVE  Hashed(TrieOf(d))
<1> DEFINE t == TrieOf(d)
<1>1. /\ Compact(t) /\ DOMAIN t = NodeLabels(d)
      /\ EmptyLabel \notin FullLabel
      /\ FullLabel \cap NodeLabels(d) = LabelsOf(d) /\ NodeLabels(d) \subseteq Label
  BY TrieOfIsCompact, TrieOfFact, NodeLabelsFact, EmptyIsNotFull
<1>2. ASSUME NEW n \in NodeLabels(d)
      PROVE  ~t[n].dirty /\ IsClean(t, n)
  BY TrieOfFact DEF IsClean
<1>3. ASSUME NEW n \in NodeLabels(d), ~IsLeaf(t[n])
      PROVE  t[n].hash = ChildrenHash(t, n)
  <2>1. n \notin LabelsOf(d)
    <3>1. n \in FullLabel /\ Shaped(t) /\ Closed(t) => IsLeaf(t[n])
      BY <1>1, <1>3, KeyIsLeaf
    <3> QED
      BY <1>1, <1>3, <3>1 DEF Compact
  <2>2. d # {}
    <3> SUFFICES ASSUME d = {} PROVE FALSE
      OBVIOUS
    <3>1. NodeLabels(d) = {EmptyLabel}
      BY DEF NodeLabels, LabelsOf
    <3>2. \A bit \in Bit : ChildOn(t[n], bit) = EmptyLabel
      BY <1>1, <1>3, <3>1, CompactFact
    <3> QED
      BY <1>3, <3>2 DEF IsLeaf, ChildOn, Bit
  <2> QED
    BY <2>1, <2>2, TrieOfGives
<1>4. ASSUME NEW n \in NodeLabels(d)
      PROVE  IsClean(t, t[n].left) /\ IsClean(t, t[n].right)
  <2>1. \A bit \in Bit : ChildOn(t[n], bit) \in NodeLabels(d)
    BY <1>1, CompactFact
  <2>2. t[n].left \in NodeLabels(d) /\ t[n].right \in NodeLabels(d)
    <3> HIDE DEF t
    <3> QED
      BY <2>1 DEF ChildOn, Bit
  <2> QED
    BY <1>2, <2>2
<1> HIDE DEF t
<1> QED
  BY <1>1, <1>2, <1>3, <1>4 DEF Hashed, Good, t

-----------------------------------------------------------------------------
(* There is no other trie with these leaves *)

(* A nonempty set of labels has a longest one. *)
LEMMA LongestLabel ==
  ASSUME NEW S, S \subseteq Label, S # {}
  PROVE  \E x \in S : \A y \in S : Len(y) <= Len(x)
<1> DEFINE gaps == {MaxBitCount - Len(x) : x \in S}
<1>1. \A x \in S : Len(x) \in 0..MaxBitCount
  BY LabelLen
<1>2. gaps \subseteq Nat /\ gaps # {}
  BY <1>1, MaxBitCountAssumption
<1>3. PICK g \in gaps : \A k \in gaps : g <= k
  <2> HIDE DEF gaps
  <2> QED
    BY <1>2, LeastNatural
<1>4. PICK x \in S : g = MaxBitCount - Len(x)
  OBVIOUS
<1>5. \A y \in S : MaxBitCount - Len(y) \in gaps
  OBVIOUS
<1>6. \A y \in S : g <= MaxBitCount - Len(y)
  BY <1>3, <1>5
<1> QED
  BY <1>1, <1>4, <1>6, MaxBitCountAssumption

(* Below every node but a root alone there is a key. *)
LEMMA KeyIsBelow ==
  ASSUME NEW t, Compact(t), NEW n \in DOMAIN t, n # EmptyLabel
  PROVE  \E l \in FullLabel \cap DOMAIN t : Starts(n, l)
<1> DEFINE below == {x \in DOMAIN t : Starts(n, x)}
<1>1. /\ DOMAIN t \subseteq Label /\ \A x \in Label : Len(x) \in 0..MaxBitCount
      /\ n \in Label
  BY CompactFact, LabelLen
<1>2. n \in below
  BY <1>1 DEF Starts
<1>3. \A x \in below : x \in DOMAIN t /\ x \in Label /\ Starts(n, x)
  BY <1>1
<1>4. PICK x \in below : \A y \in below : Len(y) <= Len(x)
  <2> HIDE DEF below
  <2>1. below \subseteq Label /\ below # {}
    BY <1>2, <1>3
  <2> QED
    BY <2>1, LongestLabel
<1>5. x \in FullLabel
  <2> SUFFICES ASSUME x \notin FullLabel PROVE FALSE
    OBVIOUS
  <2> DEFINE c == ChildOn(t[x], 0)
  <2>1. x # EmptyLabel
    <3>1. Len(EmptyLabel) = 0 /\ Len(n) # 0
      <4>1. EmptyLabel \in Label /\ Len(EmptyLabel) = 0
        BY FullIsLabel DEF EmptyLabel
      <4>2. Starts(EmptyLabel, n)
        BY <4>1 DEF Starts
      <4> QED
        BY <1>1, <4>1, <4>2, StartsSame
    <3> QED
      BY <1>1, <1>3, <3>1 DEF Starts
  <2>2. c # EmptyLabel /\ c \in DOMAIN t /\ c \in Label /\ IsUnder(c, x, 0)
    BY <1>3, <2>1, CompactFact DEF Shaped, ShapedNode, Bit
  <2> HIDE DEF c
  <2>3. Starts(n, c)
    BY <1>1, <1>3, <2>2, StartsTrans DEF IsUnder
  <2>4. Len(c) <= Len(x)
    BY <1>4, <2>2, <2>3
  <2> QED
    BY <1>1, <1>3, <2>2, <2>4 DEF IsUnder
<1> QED
  BY <1>3, <1>5

(* What two nodes share is a node. *)
LEMMA CommonIsNode ==
  ASSUME NEW t, Compact(t), NEW a \in DOMAIN t, NEW b \in DOMAIN t
  PROVE  CommonPrefix(a, b) \in DOMAIN t
<1> DEFINE q == CommonPrefix(a, b)
           above == {x \in DOMAIN t : Starts(x, q)}
<1>1. /\ DOMAIN t \subseteq Label /\ \A x \in Label : Len(x) \in 0..MaxBitCount
      /\ a \in Label /\ b \in Label
  BY CompactFact, LabelLen
<1>2. /\ q \in Label /\ Starts(q, a) /\ Starts(q, b)
      /\ \A p \in Label : Starts(p, a) /\ Starts(p, b) => Starts(p, q)
  BY <1>1, CommonPrefixIsLongest
<1> HIDE DEF q
<1>3. EmptyLabel \in above
  <2>1. EmptyLabel \in DOMAIN t /\ Len(EmptyLabel) = 0
    BY CompactFact DEF EmptyLabel
  <2> QED
    BY <1>1, <1>2, <2>1 DEF Starts
<1>4. \A x \in above : x \in DOMAIN t /\ x \in Label /\ Starts(x, q)
  BY <1>1
<1>5. PICK x \in above : \A y \in above : Len(y) <= Len(x)
  <2> HIDE DEF above
  <2>1. above \subseteq Label /\ above # {}
    BY <1>3, <1>4
  <2> QED
    BY <2>1, LongestLabel
<1>6. x = q
  <2> SUFFICES ASSUME x # q PROVE FALSE
    OBVIOUS
  <2> DEFINE bit == q[Len(x) + 1]
             c == ChildOn(t[x], bit)
  <2>1. IsUnder(q, x, bit) /\ bit \in Bit
    BY <1>2, <1>4, StartsIsUnder
  <2> HIDE DEF bit
  <2>2. IsUnder(a, x, bit) /\ IsUnder(b, x, bit)
    BY <1>1, <1>2, <1>4, <2>1, StartsUnder
  <2>3. c # EmptyLabel /\ c \in DOMAIN t /\ c \in Label /\ IsUnder(c, x, bit) /\ Starts(c, a) /\ Starts(c, b)
    BY <1>4, <2>1, <2>2, CompactFact
  <2> HIDE DEF c
  <2>4. c \in above
    BY <1>2, <2>3
  <2> QED
    BY <1>1, <1>4, <1>5, <2>3, <2>4 DEF IsUnder
<1> QED
  BY <1>4, <1>6 DEF q

(* The leaves of t are those of the dictionary d. *)
HasLeaves(t, d) ==
  /\ LabelsOf(d) = FullLabel \cap DOMAIN t
  /\ \A l \in LabelsOf(d) : t[l].hash = LeafHash(l, EntryOf(d, l)[2], EntryOf(d, l)[3])
  /\ d = {} => t[EmptyLabel].hash = ZeroHash

LEMMA SameNodes ==
  ASSUME NEW t, Compact(t), NEW d, HasLeaves(t, d)
  PROVE  DOMAIN t = NodeLabels(d)
<1>1. DOMAIN t \subseteq Label /\ EmptyLabel \in DOMAIN t /\ LabelsOf(d) \subseteq DOMAIN t
  BY CompactFact DEF HasLeaves
<1>2. NodeLabels(d) \subseteq DOMAIN t
  BY <1>1, CommonIsNode DEF NodeLabels
<1>3. ASSUME NEW n \in DOMAIN t, n # EmptyLabel
      PROVE  n \in NodeLabels(d)
  <2>1. CASE n \in FullLabel
    <3>1. n \in LabelsOf(d) /\ n = CommonPrefix(n, n)
      BY <1>1, <2>1, CommonPrefixOfSame DEF HasLeaves
    <3> QED
      BY <3>1 DEF NodeLabels
  <2>2. CASE n \notin FullLabel
    <3> DEFINE x == ChildOn(t[n], 0)
               y == ChildOn(t[n], 1)
    <3>1. /\ x # EmptyLabel /\ x \in DOMAIN t /\ x \in Label /\ IsUnder(x, n, 0)
          /\ y # EmptyLabel /\ y \in DOMAIN t /\ y \in Label /\ IsUnder(y, n, 1)
      BY <1>3, <2>2, CompactFact DEF Shaped, ShapedNode, Bit
    <3> HIDE DEF x, y
    <3>2. PICK a \in FullLabel \cap DOMAIN t : Starts(x, a)
      BY <3>1, KeyIsBelow
    <3>3. PICK b \in FullLabel \cap DOMAIN t : Starts(y, b)
      BY <3>1, KeyIsBelow
    <3>4. IsUnder(a, n, 0) /\ IsUnder(b, n, 1)
      BY <1>1, <3>1, <3>2, <3>3, StartsUnder
    <3>5. CommonPrefix(a, b) = n
      BY <1>1, <3>4, CommonOfSiblings DEF Bit
    <3> QED
      BY <3>5 DEF NodeLabels, HasLeaves
  <2> QED
    BY <2>1, <2>2
<1> QED
  BY <1>2, <1>3 DEF NodeLabels

LEMMA SameChildren ==
  ASSUME NEW t, Compact(t), NEW u, Compact(u), DOMAIN u = DOMAIN t,
         NEW n \in DOMAIN t, NEW bit \in Bit
  PROVE  ChildOn(u[n], bit) = ChildOn(t[n], bit)
<1> DEFINE a == ChildOn(t[n], bit)
           b == ChildOn(u[n], bit)
<1>1. /\ a \in DOMAIN t /\ a \in Label /\ b \in DOMAIN t /\ b \in Label
      /\ a # EmptyLabel => IsUnder(a, n, bit)
      /\ b # EmptyLabel => IsUnder(b, n, bit)
      /\ \A x \in DOMAIN t : IsUnder(x, n, bit) =>
           a # EmptyLabel /\ Starts(a, x) /\ b # EmptyLabel /\ Starts(b, x)
  BY CompactFact
<1> HIDE DEF a, b
<1>2. a # EmptyLabel <=> b # EmptyLabel
  BY <1>1
<1>3. CASE a # EmptyLabel
  <2>1. Starts(a, b) /\ Starts(b, a)
    BY <1>1, <1>2, <1>3
  <2>2. Len(a) = Len(b)
    BY <1>1, <2>1, LabelLen DEF Starts
  <2> QED
    BY <1>1, <2>1, <2>2, StartsSame DEF a, b
<1> QED
  BY <1>2, <1>3 DEF a, b

(* A trie whose hashes are up to date is a function of its leaves: neither *)
(* the order in which they came nor the nodes that there were before leave *)
(* a trace.                                                                *)
THEOREM LeavesMakeTheTrie ==
  ASSUME NEW t, Hashed(t), NEW d, HasLeaves(t, d), t = [n \in DOMAIN t |-> t[n]]
  PROVE  t = TrieOf(d)
<1> DEFINE u == TrieOf(d)
           wrong == {n \in DOMAIN t : t[n].hash # u[n].hash}
<1>1. /\ LabelsOf(d) \subseteq FullLabel /\ Compact(t) /\ Closed(t)
      /\ DOMAIN t \subseteq Label /\ \A x \in Label : Len(x) \in 0..MaxBitCount
  BY CompactFact, LabelLen DEF HasLeaves, Hashed
<1>2. DOMAIN t = NodeLabels(d)
  BY <1>1, SameNodes
<1>3. Compact(u) /\ DOMAIN u = DOMAIN t /\ u = [n \in DOMAIN t |-> u[n]]
  <2>1. u = [n \in NodeLabels(d) |-> u[n]]
    BY DEF TrieOf
  <2> HIDE DEF u
  <2> QED
    BY <1>1, <1>2, <2>1, TrieOfIsCompact, TrieOfFact DEF u
<1>4. \A n \in DOMAIN t : ~t[n].dirty /\ ~u[n].dirty
  BY <1>2, TrieOfFact DEF Hashed
<1>5. \A n \in DOMAIN t : IsNodeOf(t[n], DOMAIN t) /\ IsNodeOf(u[n], DOMAIN t)
  BY <1>1, <1>3 DEF Compact, Closed
<1>6. \A n \in DOMAIN t : u[n].left = t[n].left /\ u[n].right = t[n].right
  <2>1. \A n \in DOMAIN t, bit \in Bit : ChildOn(u[n], bit) = ChildOn(t[n], bit)
    BY <1>1, <1>3, SameChildren
  <2> HIDE DEF u
  <2> QED
    BY <2>1 DEF ChildOn, Bit
<1>7. ASSUME NEW n \in DOMAIN t, \A x \in DOMAIN t : Len(n) < Len(x) => t[x].hash = u[x].hash
      PROVE  t[n].hash = u[n].hash
  <2>1. CASE n \in LabelsOf(d)
    BY <1>1, <1>2, <2>1, TrieOfGives DEF HasLeaves
  <2>2. CASE n \notin LabelsOf(d) /\ d = {}
    <3>1. n = EmptyLabel
      BY <1>2, <2>2 DEF NodeLabels, LabelsOf
    <3> QED
      BY <1>1, <1>2, <2>2, <3>1, TrieOfGives DEF HasLeaves
  <2>3. CASE n \notin LabelsOf(d) /\ d # {}
    <3>1. \E bit \in Bit : ChildOn(t[n], bit) # EmptyLabel
      <4>1. CASE n # EmptyLabel
        BY <1>1, <1>7, <2>3, <4>1 DEF HasLeaves, Compact, Shaped, ShapedNode, Bit
      <4>2. CASE n = EmptyLabel
        <5>1. PICK l \in LabelsOf(d) : TRUE
          BY <2>3 DEF LabelsOf
        <5>2. l \in DOMAIN t /\ l \in Label /\ l # EmptyLabel
          BY <1>1, EmptyIsNotFull DEF HasLeaves
        <5>3. IsUnder(l, n, l[1]) /\ l[1] \in Bit
          BY <4>2, <5>2, AllUnderRoot
        <5> QED
          BY <1>1, <5>2, <5>3, CompactFact
      <4> QED
        BY <4>1, <4>2
    <3>2. ~IsLeaf(t[n])
      BY <3>1 DEF IsLeaf, ChildOn, Bit
    <3>3. t[n].hash = ChildrenHash(t, n)
      BY <1>4, <3>2 DEF Hashed, Good
    <3>4. u[n].hash = ChildrenHash(u, n)
      BY <1>1, <1>2, <2>3, TrieOfGives
    <3>5. \A c \in {t[n].left, t[n].right} : c # EmptyLabel => c \in DOMAIN t /\ Len(n) < Len(c)
      <4>1. \A bit \in Bit : ChildOn(t[n], bit) # EmptyLabel =>
              ChildOn(t[n], bit) \in DOMAIN t /\ Len(n) < Len(ChildOn(t[n], bit))
        BY <1>1, CompactFact DEF IsUnder
      <4> QED
        BY <4>1 DEF ChildOn, Bit
    <3>6. \A c \in {t[n].left, t[n].right} : LabelHash(t, c) = LabelHash(u, c)
      BY <1>7, <3>5 DEF LabelHash
    <3> HIDE DEF u
    <3> QED
      BY <1>6, <3>3, <3>4, <3>6 DEF ChildrenHash
  <2> QED
    BY <2>1, <2>2, <2>3
<1> HIDE DEF u
<1>8. wrong = {}
  <2> SUFFICES ASSUME wrong # {} PROVE FALSE
    OBVIOUS
  <2>1. \A n \in wrong : n \in DOMAIN t /\ n \in Label /\ t[n].hash # u[n].hash
    BY <1>1
  <2>2. \A n \in DOMAIN t : n \notin wrong => t[n].hash = u[n].hash
    OBVIOUS
  <2> HIDE DEF wrong
  <2>3. wrong \subseteq Label
    BY <2>1
  <2>4. PICK n \in wrong : \A x \in wrong : Len(x) <= Len(n)
    BY <2>3, LongestLabel
  <2>5. \A x \in DOMAIN t : Len(n) < Len(x) => t[x].hash = u[x].hash
    BY <1>1, <2>1, <2>2, <2>4
  <2> QED
    BY <1>7, <2>1, <2>5
<1>9. ASSUME NEW n \in DOMAIN t
      PROVE  t[n] = u[n]
  <2>1. t[n].hash = u[n].hash
    BY <1>8
  <2>2. t[n].dirty = u[n].dirty
    BY <1>4, <1>5 DEF IsNodeOf
  <2>3. /\ t[n] = Node(t[n].left, t[n].right, t[n].hash, t[n].dirty)
        /\ u[n] = Node(u[n].left, u[n].right, u[n].hash, u[n].dirty)
    BY <1>5 DEF IsNodeOf
  <2>4. u[n].left = t[n].left /\ u[n].right = t[n].right
    BY <1>6
  <2> QED
    BY <2>1, <2>2, <2>3, <2>4
<1> QED
  BY <1>3, <1>9, Zenon DEF u
==============================================================================
