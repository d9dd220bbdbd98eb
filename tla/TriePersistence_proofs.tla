----------------------- MODULE TriePersistence_proofs -----------------------
(***************************************************************************)
(* Theorems about a trie and the storage that outlives it: between calls   *)
(* the trie is the one of the dictionary, after any stops and loads, and   *)
(* no label of a completed insert is ever lost.                            *)
(***************************************************************************)
EXTENDS TriePersistence, CTNode_proofs

-----------------------------------------------------------------------------
(* The trie of a dictionary with one more label                            *)

IsDictionary(d) ==
  /\ d \subseteq FullLabel \X {Commit} \X Nat
  /\ \A x, y \in d : x[1] = y[1] => x = y

With(d, l, e) == d \cup {<<l, Commit, e>>}

LEMMA DictionaryFact ==
  ASSUME NEW d, IsDictionary(d)
  PROVE  /\ LabelsOf(d) \subseteq FullLabel
         /\ \A x \in d : EntryOf(d, x[1]) = x
<1>1. LabelsOf(d) \subseteq FullLabel
  BY DEF IsDictionary, LabelsOf
<1>2. ASSUME NEW x \in d
      PROVE  EntryOf(d, x[1]) = x
  <2>1. EntryOf(d, x[1]) \in d /\ EntryOf(d, x[1])[1] = x[1]
    BY Zenon DEF EntryOf
  <2> QED
    BY <2>1 DEF IsDictionary
<1> QED
  BY <1>1, <1>2

LEMMA WithFact ==
  ASSUME NEW d, IsDictionary(d), NEW l \in FullLabel, l \notin LabelsOf(d), NEW e \in Nat,
         NEW d1, d1 = With(d, l, e)
  PROVE  /\ IsDictionary(d1) /\ LabelsOf(d1) = LabelsOf(d) \cup {l}
         /\ EntryOf(d1, l) = <<l, Commit, e>>
         /\ \A k \in LabelsOf(d) : EntryOf(d1, k) = EntryOf(d, k)
<1> DEFINE new == <<l, Commit, e>>
<1>1. /\ d1 = d \cup {new} /\ new \in FullLabel \X {Commit} \X Nat /\ new[1] = l
  BY DEF With
<1> HIDE DEF new
<1>2. \A x \in d : x[1] \in LabelsOf(d) /\ x[1] # l
  BY DEF LabelsOf
<1>3. IsDictionary(d1)
  BY <1>1, <1>2 DEF IsDictionary
<1>4. LabelsOf(d1) = LabelsOf(d) \cup {l}
  BY <1>1 DEF LabelsOf
<1>5. EntryOf(d1, l) = new
  BY <1>1, <1>3, DictionaryFact
<1>6. ASSUME NEW k \in LabelsOf(d)
      PROVE  EntryOf(d1, k) = EntryOf(d, k)
  <2>1. PICK x \in d : x[1] = k
    BY DEF LabelsOf
  <2> QED
    BY <1>1, <1>3, <2>1, DictionaryFact
<1> QED
  BY <1>3, <1>4, <1>5, <1>6 DEF new

(* The trie t1 is the trie t with the key l: no node but those above l is  *)
(* new or another one.                                                     *)
OneMore(t, t1, l) ==
  /\ Hashed(t) /\ Hashed(t1) /\ DOMAIN t \subseteq DOMAIN t1
  /\ t = [n \in DOMAIN t |-> t[n]] /\ t1 = [n \in DOMAIN t1 |-> t1[n]]
  /\ l \in FullLabel /\ l \in DOMAIN t1 /\ l \notin DOMAIN t
  /\ \A n \in DOMAIN t1 \ DOMAIN t : Starts(n, l)
  /\ \A n \in DOMAIN t : ~Starts(n, l) => t1[n] = t[n]
  /\ \A n \in DOMAIN t, bit \in Bit :
       ~IsUnder(l, n, bit) => ChildOn(t1[n], bit) = ChildOn(t[n], bit)
  /\ \A n \in DOMAIN t1 \ FullLabel : t1[n].hash = ChildrenHash(t1, n)
  /\ IsLeaf(t1[l])

LEMMA TrieWith ==
  ASSUME NEW d, IsDictionary(d), NEW l \in FullLabel, l \notin LabelsOf(d), NEW e \in Nat,
         NEW t, t = TrieOf(d), NEW t1, t1 = TrieOf(With(d, l, e))
  PROVE  OneMore(t, t1, l) /\ t1[l] = NewLeaf(LeafHash(l, Commit, e))
<1> DEFINE d1 == With(d, l, e)
<1>1. /\ IsDictionary(d1) /\ LabelsOf(d1) = LabelsOf(d) \cup {l} /\ d \subseteq d1 /\ d1 # {}
      /\ EntryOf(d1, l) = <<l, Commit, e>>
      /\ \A k \in LabelsOf(d) : EntryOf(d1, k) = EntryOf(d, k)
  BY WithFact DEF With
<1>2. t1 = TrieOf(d1)
  OBVIOUS
<1> HIDE DEF d1
<1>3. LabelsOf(d) \subseteq FullLabel /\ LabelsOf(d1) \subseteq FullLabel
  BY <1>1, DictionaryFact
<1>4. /\ Hashed(t) /\ Hashed(t1) /\ DOMAIN t = NodeLabels(d) /\ DOMAIN t1 = NodeLabels(d1)
      /\ NodeLabels(d) \subseteq NodeLabels(d1)
      /\ NodeLabels(d1) \subseteq Label /\ FullLabel \subseteq Label
      /\ FullLabel \cap NodeLabels(d1) = LabelsOf(d1)
      /\ FullLabel \cap NodeLabels(d) = LabelsOf(d)
  <2>1. Hashed(t) /\ Hashed(t1) /\ DOMAIN t = NodeLabels(d) /\ DOMAIN t1 = NodeLabels(d1)
    BY <1>2, <1>3, TrieOfIsHashed, TrieOfFact
  <2>2. NodeLabels(d) \subseteq NodeLabels(d1)
    BY <1>1, NodeLabelsGrow
  <2>3. /\ NodeLabels(d1) \subseteq Label
        /\ FullLabel \cap NodeLabels(d1) = LabelsOf(d1)
        /\ FullLabel \cap NodeLabels(d) = LabelsOf(d)
    BY <1>3, NodeLabelsFact
  <2> QED
    BY <2>1, <2>2, <2>3, FullIsLabel
<1>5. t = [n \in DOMAIN t |-> t[n]] /\ t1 = [n \in DOMAIN t1 |-> t1[n]]
  BY <1>2 DEF TrieOf
<1>6. ASSUME NEW n \in NodeLabels(d1) \ NodeLabels(d)
      PROVE  Starts(n, l)
  <2>1. PICK a, b \in LabelsOf(d1) : n = CommonPrefix(a, b)
    BY <1>6 DEF NodeLabels
  <2>2. a = l \/ b = l
    BY <1>1, <1>6, <2>1 DEF NodeLabels
  <2> QED
    BY <1>3, <1>4, <2>1, <2>2, CommonPrefixIsLongest
<1>7. ASSUME NEW n \in NodeLabels(d), NEW bit \in Bit, ~IsUnder(l, n, bit)
      PROVE  FirstUnder(d1, AddBit(n, bit)) = FirstUnder(d, AddBit(n, bit))
  <2>1. n \in Label
    BY <1>4
  <2>2. ASSUME NEW x \in NodeLabels(d1), HasPrefix(x, AddBit(n, bit))
        PROVE  x \in NodeLabels(d)
    <3>1. IsUnder(x, n, bit)
      BY <1>4, <2>1, <2>2, AddBitFact
    <3> QED
      BY <1>4, <1>6, <1>7, <2>1, <3>1, StartsUnder
  <2>3. {x \in NodeLabels(d1) \ {EmptyLabel} : HasPrefix(x, AddBit(n, bit))}
          = {x \in NodeLabels(d) \ {EmptyLabel} : HasPrefix(x, AddBit(n, bit))}
    BY <1>4, <2>2
  <2> DEFINE first(S) == IF S = {} THEN EmptyLabel
                         ELSE CHOOSE x \in S : \A m \in S : Len(x) <= Len(m)
             under(S) == {x \in S \ {EmptyLabel} : HasPrefix(x, AddBit(n, bit))}
  <2>4. /\ FirstUnder(d, AddBit(n, bit)) = first(under(NodeLabels(d)))
        /\ FirstUnder(d1, AddBit(n, bit)) = first(under(NodeLabels(d1)))
    BY Zenon DEF FirstUnder
  <2>5. under(NodeLabels(d1)) = under(NodeLabels(d))
    BY <2>3
  <2> HIDE DEF first, under
  <2> QED
    BY <2>4, <2>5
<1>8. ASSUME NEW n \in DOMAIN t, NEW bit \in Bit, ~IsUnder(l, n, bit)
      PROVE  ChildOn(t1[n], bit) = ChildOn(t[n], bit)
  <2>1. n \in NodeLabels(d) /\ n \in NodeLabels(d1)
    BY <1>4
  <2>2. ChildOn(t[n], bit) = FirstUnder(d, AddBit(n, bit))
    BY <2>1, TrieOfFact
  <2>3. ChildOn(t1[n], bit) = FirstUnder(d1, AddBit(n, bit))
    BY <1>2, <2>1, TrieOfFact
  <2> QED
    BY <1>7, <1>8, <2>1, <2>2, <2>3
<1>9. ASSUME NEW n \in DOMAIN t1 \ FullLabel
      PROVE  t1[n].hash = ChildrenHash(t1, n)
  BY <1>1, <1>2, <1>3, <1>4, TrieOfGives
<1>10. l \in DOMAIN t1 /\ l \notin DOMAIN t /\ IsLeaf(t1[l])
  <2>1. l \in DOMAIN t1 /\ l \notin DOMAIN t
    BY <1>1, <1>4
  <2> QED
    BY <1>4, <2>1, KeyIsLeaf DEF Hashed, Compact
<1>11. t1[l] = NewLeaf(LeafHash(l, Commit, e))
  <2>1. /\ t1[l].hash = LeafHash(l, EntryOf(d1, l)[2], EntryOf(d1, l)[3])
    BY <1>1, <1>2, <1>3, <1>4, <1>10, TrieOfGives
  <2>2. t1[l].hash = LeafHash(l, Commit, e)
    BY <1>1, <2>1
  <2>3. t1[l] = Node(t1[l].left, t1[l].right, t1[l].hash, FALSE)
    <3> DEFINE node == t1[l]
    <3>1. node = Node(LeftOf(d1, l), RightOf(d1, l), node.hash, FALSE)
      BY <1>2, <1>4, <1>10, TrieOfFact
    <3> HIDE DEF node
    <3>2. node.left = LeftOf(d1, l) /\ node.right = RightOf(d1, l)
      BY <3>1 DEF Node
    <3> QED
      BY <3>1, <3>2 DEF node
  <2> QED
    BY <1>10, <2>2, <2>3 DEF IsLeaf, NewLeaf
<1>12. ASSUME NEW n \in DOMAIN t, ~Starts(n, l)
       PROVE  t1[n] = t[n]
  <2> DEFINE wrong == {m \in DOMAIN t : ~Starts(m, l) /\ t1[m].hash # t[m].hash}
  <2>1. ASSUME NEW m \in DOMAIN t, ~Starts(m, l)
        PROVE  /\ t1[m].left = t[m].left /\ t1[m].right = t[m].right
               /\ \A c \in {t[m].left, t[m].right} :
                    c # EmptyLabel => c \in DOMAIN t /\ Len(m) < Len(c) /\ ~Starts(c, l)
    <3>1. \A bit \in Bit : ~IsUnder(l, m, bit)
      BY <2>1 DEF IsUnder
    <3>2. \A bit \in Bit : ChildOn(t1[m], bit) = ChildOn(t[m], bit)
      BY <1>8, <2>1, <3>1
    <3>3. ASSUME NEW bit \in Bit, ChildOn(t[m], bit) # EmptyLabel
          PROVE  /\ ChildOn(t[m], bit) \in DOMAIN t /\ Len(m) < Len(ChildOn(t[m], bit))
                 /\ ~Starts(ChildOn(t[m], bit), l)
      <4>1. ChildOn(t[m], bit) \in DOMAIN t /\ IsUnder(ChildOn(t[m], bit), m, bit)
        BY <1>4, <3>3, CompactFact DEF Hashed
      <4> QED
        BY <1>4, <3>1, <4>1, StartsUnder DEF IsUnder
    <3> QED
      BY <3>2, <3>3 DEF ChildOn, Bit
  <2>2. ASSUME NEW m \in DOMAIN t, ~Starts(m, l),
               \A x \in DOMAIN t : ~Starts(x, l) /\ Len(m) < Len(x) => t1[x].hash = t[x].hash
        PROVE  t1[m].hash = t[m].hash
    <3>1. CASE m \in FullLabel
      <4>1. m \in LabelsOf(d) /\ m \in LabelsOf(d1) /\ EntryOf(d1, m) = EntryOf(d, m)
        BY <1>1, <1>4, <3>1
      <4> QED
        BY <1>2, <1>3, <1>4, <4>1, TrieOfGives
    <3>2. CASE m \notin FullLabel
      <4>1. d # {}
        <5> SUFFICES ASSUME d = {} PROVE FALSE
          OBVIOUS
        <5>1. m = EmptyLabel
          BY <1>4 DEF NodeLabels, LabelsOf
        <5> QED
          BY <2>2, <5>1 DEF Starts, EmptyLabel
      <4>2. t[m].hash = ChildrenHash(t, m)
        BY <1>3, <1>4, <3>2, <4>1, TrieOfGives
      <4>3. t1[m].hash = ChildrenHash(t1, m)
        BY <1>4, <1>9, <3>2
      <4>4. \A c \in {t[m].left, t[m].right} : LabelHash(t1, c) = LabelHash(t, c)
        BY <2>1, <2>2 DEF LabelHash
      <4> QED
        BY <2>1, <2>2, <4>2, <4>3, <4>4 DEF ChildrenHash
    <3> QED
      BY <3>1, <3>2
  <2>3. wrong = {}
    <3> SUFFICES ASSUME wrong # {} PROVE FALSE
      OBVIOUS
    <3>1. \A m \in wrong : m \in DOMAIN t /\ m \in Label /\ ~Starts(m, l) /\ t1[m].hash # t[m].hash
      BY <1>4
    <3>2. \A m \in DOMAIN t : ~Starts(m, l) /\ m \notin wrong => t1[m].hash = t[m].hash
      OBVIOUS
    <3> HIDE DEF wrong
    <3>3. wrong \subseteq Label
      BY <3>1
    <3>4. PICK m \in wrong : \A x \in wrong : Len(x) <= Len(m)
      BY <3>3, LongestLabel
    <3>5. \A x \in Label : Len(x) \in Nat
      BY LabelLen
    <3>6. \A x \in DOMAIN t : ~Starts(x, l) /\ Len(m) < Len(x) => t1[x].hash = t[x].hash
      BY <1>4, <3>1, <3>2, <3>4, <3>5
    <3> QED
      BY <2>2, <3>1, <3>6
  <2>4. t1[n].hash = t[n].hash
    BY <1>12, <2>3
  <2>5. /\ t[n] = Node(LeftOf(d, n), RightOf(d, n), t[n].hash, FALSE)
        /\ t1[n] = Node(LeftOf(d1, n), RightOf(d1, n), t1[n].hash, FALSE)
    BY <1>2, <1>4, TrieOfFact
  <2>6. LeftOf(d1, n) = LeftOf(d, n) /\ RightOf(d1, n) = RightOf(d, n)
    <3>1. \A bit \in Bit : ~IsUnder(l, n, bit)
      BY <1>12 DEF IsUnder
    <3> QED
      BY <1>4, <1>7, <3>1 DEF LeftOf, RightOf, Bit
  <2> QED
    BY <2>4, <2>5, <2>6
<1> QED
  BY <1>4, <1>5, <1>6, <1>8, <1>9, <1>10, <1>11, <1>12 DEF OneMore

-----------------------------------------------------------------------------
(* Where the new nodes are *)

LEMMA Lengths ==
  /\ MaxBitCount \in Nat /\ FullLabel \subseteq Label /\ Len(EmptyLabel) = 0
  /\ \A x \in Label : Len(x) \in 0..MaxBitCount /\ Starts(x, x) /\ Starts(EmptyLabel, x)
  /\ \A x \in Label : x \in FullLabel <=> Len(x) = MaxBitCount
<1>1. \A x \in Label : Len(x) \in 0..MaxBitCount /\ (x \in FullLabel <=> Len(x) = MaxBitCount)
  BY LabelLen
<1>2. Len(EmptyLabel) = 0
  BY DEF EmptyLabel
<1>3. \A x \in Label : Starts(x, x) /\ Starts(EmptyLabel, x)
  BY <1>1, <1>2 DEF Starts
<1> QED
  BY <1>1, <1>2, <1>3, FullIsLabel, MaxBitCountAssumption

LEMMA OneMoreFact ==
  ASSUME NEW t, NEW t1, NEW l, OneMore(t, t1, l)
  PROVE  /\ Compact(t) /\ Compact(t1) /\ DOMAIN t \subseteq DOMAIN t1 /\ DOMAIN t1 \subseteq Label
         /\ l \in FullLabel /\ l \in Label /\ l \in DOMAIN t1 /\ l \notin DOMAIN t
         /\ EmptyLabel \in DOMAIN t /\ EmptyLabel \in DOMAIN t1
<1>1. /\ Compact(t) /\ Compact(t1) /\ DOMAIN t \subseteq DOMAIN t1 /\ l \in FullLabel
      /\ l \in DOMAIN t1 /\ l \notin DOMAIN t
  BY DEF OneMore, Hashed
<1>2. /\ DOMAIN t1 \subseteq Label /\ EmptyLabel \in DOMAIN t
  BY <1>1, CompactFact
<1> QED
  BY <1>1, <1>2

(* A new inner node has a node of the old trie on its other side. *)
LEMMA NewNode ==
  ASSUME NEW t, NEW t1, NEW l, OneMore(t, t1, l), NEW x \in DOMAIN t1, x \notin DOMAIN t, x # l
  PROVE  \E y \in DOMAIN t, bit \in Bit : IsUnder(y, x, bit) /\ bit # l[Len(x) + 1]
<1>1. Starts(x, l) /\ x # EmptyLabel /\ x \in Label /\ x \notin FullLabel
  <2>1. Starts(x, l) /\ x # EmptyLabel /\ x \in Label
    BY OneMoreFact, Lengths DEF OneMore
  <2>2. x \in FullLabel => Len(x) = Len(l)
    BY OneMoreFact, Lengths
  <2> QED
    BY <2>1, <2>2, OneMoreFact, Lengths, StartsSame
<1>2. PICK bit \in Bit : bit # l[Len(x) + 1]
  BY DEF Bit
<1> DEFINE y == ChildOn(t1[x], bit)
<1>3. y # EmptyLabel /\ y \in DOMAIN t1 /\ IsUnder(y, x, bit)
  <2>1. ShapedNode(x, t1[x])
    BY OneMoreFact, Lengths DEF Compact, Shaped
  <2>2. y # EmptyLabel
    BY <1>1, <2>1 DEF ShapedNode
  <2> QED
    BY <2>2, OneMoreFact, Lengths, CompactFact
<1> HIDE DEF y
<1>4. ~Starts(y, l)
  <2> SUFFICES ASSUME Starts(y, l) PROVE FALSE
    OBVIOUS
  <2>1. IsUnder(l, x, bit)
    BY <1>1, <1>3, OneMoreFact, Lengths, StartsUnder
  <2> QED
    BY <1>2, <2>1 DEF IsUnder
<1>5. y \in DOMAIN t
  BY <1>3, <1>4 DEF OneMore
<1> QED
  BY <1>2, <1>3, <1>5

(* A child of the old trie that the key goes through is a child of the new.*)
LEMMA RouteStays ==
  ASSUME NEW t, NEW t1, NEW l, OneMore(t, t1, l), NEW n \in DOMAIN t, Starts(n, l),
         NEW b \in Bit, NEW c, c = ChildOn(t[n], b), c # EmptyLabel, Starts(c, l)
  PROVE  ChildOn(t1[n], b) = c
<1>1. c \in DOMAIN t /\ c \in Label /\ IsUnder(c, n, b) /\ n \in Label
  BY OneMoreFact, Lengths, CompactFact
<1> DEFINE e == ChildOn(t1[n], b)
<1>2. e # EmptyLabel /\ e \in DOMAIN t1 /\ e \in Label /\ IsUnder(e, n, b) /\ Starts(e, c)
  BY <1>1, OneMoreFact, Lengths, CompactFact
<1> HIDE DEF e
<1>3. CASE e \in DOMAIN t
  <2>1. Starts(c, e)
    BY <1>1, <1>2, <1>3, OneMoreFact, Lengths, CompactFact
  <2>2. Len(c) = Len(e)
    BY <1>1, <1>2, <2>1, LabelLen DEF Starts
  <2> QED
    BY <1>1, <1>2, <2>2, StartsSame DEF e
<1>4. CASE e \notin DOMAIN t
  <2>1. e # l
    <3> SUFFICES ASSUME e = l PROVE FALSE
      OBVIOUS
    <3>1. Len(c) = Len(l)
      BY <1>1, <1>2, LabelLen DEF Starts
    <3> QED
      BY <1>1, <3>1, OneMoreFact, Lengths, StartsSame DEF OneMore
  <2>2. PICK y \in DOMAIN t, bit \in Bit : IsUnder(y, e, bit) /\ bit # l[Len(e) + 1]
    BY <1>2, <1>4, <2>1, NewNode
  <2>3. y \in Label /\ IsUnder(y, n, b)
    BY <1>1, <1>2, <2>2, OneMoreFact, Lengths, UnderTrans
  <2>4. Starts(c, y)
    BY <1>1, <2>3, OneMoreFact, Lengths, CompactFact
  <2>5. IsUnder(c, e, c[Len(e) + 1])
    BY <1>1, <1>2, <1>4, StartsIsUnder
  <2>6. IsUnder(y, e, c[Len(e) + 1]) /\ IsUnder(l, e, c[Len(e) + 1])
    BY <1>1, <1>2, <2>3, <2>4, <2>5, OneMoreFact, Lengths, StartsUnder
  <2> QED
    BY <2>2, <2>6 DEF IsUnder
<1> QED
  BY <1>3, <1>4

(* The key hangs in a free slot of the root. *)
LEMMA FillGives ==
  ASSUME NEW t, NEW t1, NEW l, OneMore(t, t1, l), NEW b \in Bit,
         ChildOn(t[EmptyLabel], b) = EmptyLabel, IsUnder(l, EmptyLabel, b)
  PROVE  /\ DOMAIN t1 \subseteq DOMAIN t \cup {l}
         /\ ChildOn(t1[EmptyLabel], b) = l
         /\ \A n \in DOMAIN t : Starts(n, l) => n = EmptyLabel
<1>1. \A x \in DOMAIN t : ~IsUnder(x, EmptyLabel, b)
  BY OneMoreFact, Lengths, CompactFact
<1>2. ASSUME NEW x \in Label, x # EmptyLabel, Starts(x, l)
      PROVE  IsUnder(x, EmptyLabel, b)
  <2>1. IsUnder(x, EmptyLabel, x[1]) /\ IsUnder(l, EmptyLabel, x[1])
    BY <1>2, OneMoreFact, Lengths, AllUnderRoot, StartsUnder
  <2> QED
    BY <2>1, OneSide
<1>3. ASSUME NEW x \in DOMAIN t1, x \notin DOMAIN t
      PROVE  x = l
  <2> SUFFICES ASSUME x # l PROVE FALSE
    OBVIOUS
  <2>1. PICK y \in DOMAIN t, bit \in Bit : IsUnder(y, x, bit) /\ bit # l[Len(x) + 1]
    BY <1>3, NewNode
  <2>2. IsUnder(x, EmptyLabel, b)
    BY <1>2, <1>3, OneMoreFact, Lengths DEF OneMore
  <2>3. IsUnder(y, EmptyLabel, b)
    BY <2>1, <2>2, OneMoreFact, Lengths, UnderTrans
  <2> QED
    BY <1>1, <2>3
<1>4. DOMAIN t1 = DOMAIN t \cup {l}
  BY <1>3 DEF OneMore
<1>5. ChildOn(t1[EmptyLabel], b) = l
  <2> DEFINE c == ChildOn(t1[EmptyLabel], b)
  <2>1. c # EmptyLabel /\ c \in DOMAIN t1 /\ IsUnder(c, EmptyLabel, b)
    BY OneMoreFact, Lengths, CompactFact
  <2> QED
    BY <1>1, <1>4, <2>1
<1> QED
  BY <1>1, <1>2, <1>4, <1>5, OneMoreFact, Lengths

(* Or a fork takes the place of the child n of p, above n and the key. *)
LEMMA SplitGives ==
  ASSUME NEW t, NEW t1, NEW l, OneMore(t, t1, l), NEW p \in DOMAIN t, NEW b \in Bit,
         NEW n, n = ChildOn(t[p], b), n # EmptyLabel, IsUnder(l, p, b), ~Starts(n, l),
         NEW f, f = CommonPrefix(l, n)
  PROVE  /\ DOMAIN t1 \subseteq DOMAIN t \cup {l, f} /\ f \in DOMAIN t1
         /\ f \notin DOMAIN t /\ f \in Label
         /\ n \in DOMAIN t /\ Starts(f, l)
         /\ ChildOn(t1[p], b) = f
         /\ \A x \in Bit : ChildOn(t1[f], x) = IF x = NextBit(n, l) THEN l ELSE n
         /\ \A m \in DOMAIN t : Starts(m, l) => Len(m) < Len(f)
<1>1. /\ n \in DOMAIN t /\ n \in Label /\ IsUnder(n, p, b) /\ p \in Label
      /\ \A x \in DOMAIN t : IsUnder(x, p, b) => Starts(n, x)
  BY OneMoreFact, Lengths, CompactFact
<1>2. l # n /\ l \in Label /\ l \in FullLabel
  BY <1>1, OneMoreFact, Lengths DEF OneMore
<1>3. PICK side \in Bit :
        /\ f \in Label /\ Starts(f, l) /\ IsUnder(l, f, NextBit(n, l)) /\ NextBit(n, l) \in Bit
        /\ side # NextBit(n, l) /\ IsUnder(n, f, side) /\ f \notin FullLabel
  <2>1. NextBit(n, l) \in Bit
    BY <1>1, <1>2, CommonIsStart
  <2> QED
    BY <1>1, <1>2, <2>1, ForkIsAbove
<1>4. f = CommonPrefix(n, l) /\ IsUnder(f, p, b)
  <2>1. IsUnder(f, p, b)
    BY <1>1, <1>2, CommonIsUnder
  <2> QED
    BY <1>1, <1>2, <1>3, <2>1, CommonOfSiblings
<1>5. f \in DOMAIN t1
  <2>1. n \in DOMAIN t1 /\ l \in DOMAIN t1 /\ Compact(t1)
    BY <1>1, OneMoreFact, Lengths
  <2> QED
    BY <1>4, <2>1, CommonIsNode
<1>6. f \notin DOMAIN t
  <2>1. ~Starts(n, f)
    BY <1>1, <1>3, UnderIsBelow
  <2> QED
    BY <1>1, <1>4, <2>1
<1>7. ASSUME NEW m \in DOMAIN t, Starts(m, l)
      PROVE  Len(m) < Len(f)
  <2>1. ~IsUnder(m, p, b)
    BY <1>1, <1>2, <1>7, OneMoreFact, Lengths, StartsTrans
  <2>2. ~IsUnder(m, f, l[Len(f) + 1])
    <3>1. m \in Label
      BY OneMoreFact, Lengths
    <3> QED
      BY <1>1, <1>3, <1>4, <2>1, <3>1, UnderTrans
  <2> QED
    BY <1>2, <1>3, <1>6, <1>7, <2>2, OneMoreFact, Lengths, StartsEither DEF IsUnder
<1>8. ASSUME NEW x \in DOMAIN t1, x \notin DOMAIN t, x # l
      PROVE  x = f
  <2>1. Starts(x, l) /\ x \in Label
    BY <1>8, OneMoreFact, Lengths DEF OneMore
  <2>2. PICK y \in DOMAIN t, bit \in Bit : IsUnder(y, x, bit) /\ bit # l[Len(x) + 1]
    BY <1>8, NewNode
  <2>3. IsUnder(l, x, l[Len(x) + 1])
    BY <1>2, <1>8, <2>1, StartsIsUnder
  <2>4. ~IsUnder(p, x, l[Len(x) + 1])
    <3> SUFFICES ASSUME IsUnder(p, x, l[Len(x) + 1]) PROVE FALSE
      OBVIOUS
    <3>1. CommonPrefix(p, y) = x
      <4>1. l[Len(x) + 1] \in Bit
        BY <1>2, <1>8, <2>1, StartsIsUnder
      <4> QED
        BY <1>1, <2>1, <2>2, <4>1, OneMoreFact, Lengths, CommonOfSiblings
    <3> QED
      BY <1>8, <3>1, OneMoreFact, Lengths, CommonIsNode
  <2>5. IsUnder(x, p, b)
    <3>1. Starts(p, l)
      BY DEF IsUnder
    <3>2. IsUnder(x, p, l[Len(p) + 1])
      BY <1>1, <1>2, <1>8, <2>1, <2>4, <3>1, StartsEither
    <3> QED
      BY <3>2 DEF IsUnder
  <2>6. Starts(n, y) /\ y \in Label
    BY <1>1, <2>1, <2>2, <2>5, OneMoreFact, Lengths, UnderTrans
  <2>7. IsUnder(n, x, y[Len(x) + 1])
    <3>1. ~IsUnder(x, n, y[Len(n) + 1])
      <4> SUFFICES ASSUME IsUnder(x, n, y[Len(n) + 1]) PROVE FALSE
        OBVIOUS
      <4>1. IsUnder(l, n, y[Len(n) + 1])
        BY <1>1, <1>2, <2>1, StartsUnder
      <4> QED
        BY <4>1 DEF IsUnder
    <3>2. Starts(x, y) /\ x # n
      BY <1>1, <1>8, <2>2 DEF IsUnder
    <3> QED
      BY <1>1, <2>1, <2>6, <3>1, <3>2, StartsEither
  <2>8. y[Len(x) + 1] = bit
    BY <2>2 DEF IsUnder
  <2> QED
    <3>1. CommonPrefix(l, n) = x
      <4>1. l[Len(x) + 1] \in Bit
        BY <1>2, <1>8, <2>1, StartsIsUnder
      <4> QED
        BY <1>1, <1>2, <2>1, <2>2, <2>3, <2>7, <2>8, <4>1, CommonOfSiblings
    <3> QED
      BY <3>1
<1>9. DOMAIN t1 = DOMAIN t \cup {l, f}
  BY <1>5, <1>8 DEF OneMore
<1>10. ASSUME NEW x \in DOMAIN t1, Starts(x, l), IsUnder(x, p, b)
       PROVE  x \in {l, f}
  BY <1>1, <1>2, <1>9, <1>10, OneMoreFact, Lengths, StartsTrans
<1>11. ChildOn(t1[p], b) = f
  <2> DEFINE c == ChildOn(t1[p], b)
  <2>1. c # EmptyLabel /\ c \in DOMAIN t1 /\ c \in Label /\ IsUnder(c, p, b) /\ Starts(c, f)
    BY <1>4, <1>5, OneMoreFact, Lengths, CompactFact
  <2> HIDE DEF c
  <2>2. Starts(c, l) /\ ~Starts(l, f)
    <3>1. ~Starts(l, f)
      BY <1>2, <1>3, UnderIsBelow
    <3> QED
      BY <1>2, <1>3, <2>1, <3>1, StartsTrans
  <2>3. c = f
    BY <1>10, <2>1, <2>2
  <2> QED
    BY <2>3 DEF c
<1>12. ChildOn(t1[f], NextBit(n, l)) = l
  <2> DEFINE c == ChildOn(t1[f], NextBit(n, l))
  <2>1. c \in DOMAIN t1 /\ c \in Label /\ IsUnder(c, f, NextBit(n, l)) /\ Starts(c, l)
    <3>1. l \in DOMAIN t1 /\ Compact(t1)
      BY OneMoreFact, Lengths
    <3> QED
      BY <1>3, <1>5, <3>1, CompactFact
  <2> HIDE DEF c
  <2>2. IsUnder(c, p, b) /\ c # f
    <3>1. c # f
      BY <2>1 DEF IsUnder
    <3> QED
      BY <1>1, <1>3, <1>4, <2>1, <3>1, UnderTrans
  <2> QED
    BY <1>10, <2>1, <2>2 DEF c
<1>13. ChildOn(t1[f], side) = n
  <2> DEFINE c == ChildOn(t1[f], side)
  <2>1. c \in DOMAIN t1 /\ c \in Label /\ IsUnder(c, f, side) /\ Starts(c, n)
    <3>1. n \in DOMAIN t1 /\ Compact(t1)
      BY <1>1, OneMoreFact, Lengths
    <3> QED
      BY <1>3, <1>5, <3>1, CompactFact
  <2> HIDE DEF c
  <2>2. c \notin {l, f}
    BY <1>3, <2>1 DEF IsUnder
  <2>3. IsUnder(c, p, b)
    BY <1>1, <1>3, <1>4, <2>1, UnderTrans
  <2>4. Starts(n, c)
    BY <1>1, <1>9, <2>1, <2>2, <2>3
  <2>5. Len(c) = Len(n)
    BY <1>1, <2>1, <2>4, LabelLen DEF Starts
  <2> QED
    BY <1>1, <2>1, <2>5, StartsSame DEF c
<1>14. \A x \in Bit : ChildOn(t1[f], x) = IF x = NextBit(n, l) THEN l ELSE n
  <2>1. \A x \in Bit : x # NextBit(n, l) => x = side
    BY <1>3 DEF Bit
  <2> QED
    BY <1>12, <1>13, <2>1
<1> QED
  BY <1>1, <1>3, <1>5, <1>6, <1>7, <1>9, <1>11, <1>14

-----------------------------------------------------------------------------
(* A trie in the middle of an insert                                       *)

(* The node has the children it will have, and waits for its hash. *)
IsMarked(node, final) == node = Node(final.left, final.right, node.hash, TRUE)

Beside(t1, l, n, hi) ==
  \E p \in DOMAIN t1, bit \in Bit : Starts(p, l) /\ Len(p) < hi /\ n = ChildOn(t1[p], bit)

(* The insert of l turns t0 into t1.  The nodes above l are as they were   *)
(* (shorter than lo), marked, or, from hi on, done; a node that hangs from *)
(* them may be marked too.                                                 *)
Marked(t, t0, t1, l, lo, hi) ==
  /\ t = [n \in DOMAIN t1 |-> t[n]]
  /\ \A n \in DOMAIN t1 :
       /\ Starts(n, l) /\ Len(n) < lo => n \in DOMAIN t0 /\ t[n] = t0[n]
       /\ Starts(n, l) /\ lo <= Len(n) /\ Len(n) < hi => IsMarked(t[n], t1[n])
       /\ Starts(n, l) /\ hi <= Len(n) => t[n] = t1[n]
       /\ ~Starts(n, l) =>
            \/ t[n] = t1[n]
            \/ IsMarked(t[n], t1[n]) /\ ~IsLeaf(t1[n]) /\ Beside(t1, l, n, hi)

LEMMA ChildrenMark ==
  ASSUME NEW node, NEW h, node = Node(node.left, node.right, h, TRUE), NEW final,
         \A x \in Bit : ChildOn(node, x) = ChildOn(final, x)
  PROVE  IsMarked(node, final)
<1>1. node.left = final.left /\ node.right = final.right
  BY DEF ChildOn, Bit
<1>2. node.hash = h
  BY DEF Node
<1> QED
  BY <1>1, <1>2 DEF IsMarked

LEMMA SetChildFact ==
  ASSUME NEW node, NEW b \in Bit, NEW c
  PROVE  SetChild(node, b, c) = Node(SetChild(node, b, c).left, SetChild(node, b, c).right,
                                     node.hash, TRUE)
BY DEF SetChild, Bit, Node

LEMMA SetChildGives ==
  ASSUME NEW node, NEW b \in Bit, NEW c, NEW x \in Bit
  PROVE  ChildOn(SetChild(node, b, c), x) = IF x = b THEN c ELSE ChildOn(node, x)
BY DEF SetChild, ChildOn, Bit, Node

(* The insert step that attaches the leaf of l at n made u of t. *)
FilledAt(u, t, n, l, leaf) == HasFreeSlot(t, n, l) /\ u = FillSlot(t, n, l, leaf)
SplitAtNode(u, t, n, l, leaf) ==
  u = IF SplitsLeaf(t, n) THEN SplitLeaf(t, n, l, leaf) ELSE SplitEdge(t, n, l, leaf)

(* The way to l leaves the trie t between p and its child n. *)
ForksAt(t, l, p, b, n) ==
  /\ p \in DOMAIN t /\ b \in Bit /\ n = ChildOn(t[p], b) /\ n # EmptyLabel
  /\ IsUnder(l, p, b) /\ ~Starts(n, l)

LEMMA FillMarks ==
  ASSUME NEW t, NEW t1, NEW l, OneMore(t, t1, l),
         NEW u, FilledAt(u, t, EmptyLabel, l, t1[l])
  PROVE  Marked(u, t, t1, l, 0, MaxBitCount) /\ DOMAIN u = DOMAIN t \cup {l}
<1> DEFINE b == NextBit(EmptyLabel, l)
<1>0. EmptyLabel # l /\ EmptyLabel \in Label /\ EmptyLabel \in DOMAIN t /\ l \notin DOMAIN t
  BY OneMoreFact, Lengths DEF OneMore
<1>1. b \in Bit /\ IsUnder(l, EmptyLabel, b)
  <2>1. /\ b = l[CommonPrefixCount(l, EmptyLabel) + 1] /\ b \in Bit
        /\ CommonPrefixCount(l, EmptyLabel) = Len(EmptyLabel)
    BY <1>0, OneMoreFact, Lengths, CommonIsStart
  <2> HIDE DEF b
  <2> QED
    BY <1>0, <2>1, OneMoreFact, Lengths, StartsIsUnder
<1>2. ChildOn(t[EmptyLabel], b) = EmptyLabel
  BY DEF HasFreeSlot, FilledAt
<1>3. /\ u = [x \in DOMAIN t \cup {l} |->
               IF x = l THEN t1[l]
               ELSE IF x = EmptyLabel THEN SetChild(t[EmptyLabel], b, l) ELSE t[x]]
  BY DEF FillSlot, FilledAt
<1> HIDE DEF b
<1>4. /\ DOMAIN t1 = DOMAIN t \cup {l} /\ ChildOn(t1[EmptyLabel], b) = l
      /\ \A n \in DOMAIN t : Starts(n, l) => n = EmptyLabel
  <2>1. /\ DOMAIN t1 \subseteq DOMAIN t \cup {l} /\ ChildOn(t1[EmptyLabel], b) = l
        /\ \A n \in DOMAIN t : Starts(n, l) => n = EmptyLabel
    BY <1>1, <1>2, FillGives
  <2> QED
    BY <2>1, OneMoreFact
<1>5. IsMarked(u[EmptyLabel], t1[EmptyLabel])
  <2> DEFINE node == SetChild(t[EmptyLabel], b, l)
  <2>1. \A x \in Bit : ChildOn(node, x) = ChildOn(t1[EmptyLabel], x)
    <3>1. \A x \in Bit : x # b => ChildOn(t1[EmptyLabel], x) = ChildOn(t[EmptyLabel], x)
      BY <1>0, <1>1, OneSide DEF OneMore
    <3> QED
      <4>1. \A x \in Bit : ChildOn(node, x) = IF x = b THEN l ELSE ChildOn(t[EmptyLabel], x)
        BY <1>1, SetChildGives
      <4> HIDE DEF node
      <4> QED
        BY <1>4, <3>1, <4>1
  <2>2. node = Node(node.left, node.right, t[EmptyLabel].hash, TRUE)
    BY <1>1, SetChildFact
  <2>3. u[EmptyLabel] = node
    BY <1>0, <1>3
  <2> HIDE DEF node
  <2> QED
    BY <2>1, <2>2, <2>3, ChildrenMark
<1>6. ASSUME NEW n \in DOMAIN t1
      PROVE  /\ Starts(n, l) /\ Len(n) < MaxBitCount => n = EmptyLabel
             /\ Starts(n, l) /\ MaxBitCount <= Len(n) => u[n] = t1[n]
             /\ ~Starts(n, l) => u[n] = t1[n]
  <2>1. CASE n = l
    BY <1>3, <2>1, OneMoreFact, Lengths, UnderIsBelow DEF Starts
  <2>2. CASE n # l /\ Starts(n, l)
    BY <1>4, <2>2, OneMoreFact, Lengths DEF OneMore
  <2>3. CASE ~Starts(n, l)
    <3>1. n # l /\ n \in DOMAIN t
      <4>1. Starts(l, l)
        BY OneMoreFact, Lengths DEF Starts
      <4> QED
        BY <1>4, <2>3, <4>1
    <3>2. n # EmptyLabel
      BY <2>3, OneMoreFact, Lengths
    <3> QED
      BY <1>3, <2>3, <3>1, <3>2 DEF OneMore
  <2> QED
    BY <2>1, <2>2, <2>3
<1>7. \A n \in DOMAIN t1 : Len(n) \in Nat
  BY OneMoreFact, Lengths
<1>8. u = [n \in DOMAIN t1 |-> u[n]]
  BY <1>3, <1>4
<1>9. DOMAIN u = DOMAIN t \cup {l}
  BY <1>3
<1> QED
  BY <1>5, <1>6, <1>7, <1>8, <1>9 DEF Marked

SplitDone(u, t, t1, l, n, f) ==
  /\ Marked(u, t, t1, l, Len(f), MaxBitCount) /\ DOMAIN u = DOMAIN t \cup {l, f}
  /\ \A m \in DOMAIN t \ {n} : u[m] = t[m]

LEMMA SplitMarks ==
  ASSUME NEW t, NEW t1, NEW l, OneMore(t, t1, l),
         NEW p, NEW b, NEW n, ForksAt(t, l, p, b, n), NEW f, f = CommonPrefix(l, n),
         NEW u, SplitAtNode(u, t, n, l, t1[l])
  PROVE  SplitDone(u, t, t1, l, n, f)
<1>1. /\ DOMAIN t1 = DOMAIN t \cup {l, f} /\ f \notin DOMAIN t /\ f \in Label
      /\ n \in DOMAIN t /\ Starts(f, l)
      /\ \A x \in Bit : ChildOn(t1[f], x) = IF x = NextBit(n, l) THEN l ELSE n
      /\ \A m \in DOMAIN t : Starts(m, l) => Len(m) < Len(f)
  <2>1. /\ DOMAIN t1 \subseteq DOMAIN t \cup {l, f} /\ f \in DOMAIN t1
        /\ f \notin DOMAIN t /\ f \in Label /\ n \in DOMAIN t /\ Starts(f, l)
        /\ \A x \in Bit : ChildOn(t1[f], x) = IF x = NextBit(n, l) THEN l ELSE n
        /\ \A m \in DOMAIN t : Starts(m, l) => Len(m) < Len(f)
    BY SplitGives DEF ForksAt
  <2>2. DOMAIN t1 = DOMAIN t \cup {l, f}
    <3>1. l \in DOMAIN t1 /\ DOMAIN t \subseteq DOMAIN t1
      BY OneMoreFact
    <3> QED
      BY <2>1, <3>1
  <2> QED
    BY <2>1, <2>2
<1>0. ~Starts(n, l) /\ n # EmptyLabel
  BY DEF ForksAt
<1>2. l \in Label /\ l \notin DOMAIN t /\ l # n /\ n \in Label /\ f # l
  <2>1. l \in Label /\ l \notin DOMAIN t /\ n \in Label /\ l \in FullLabel
    BY <1>1, OneMoreFact, Lengths DEF OneMore
  <2> QED
    BY <1>0, <1>1, <2>1, ForkIsAbove
<1>3. /\ u[l] = t1[l] /\ u[f] = Fork(t, n, l)
      /\ \A m \in DOMAIN t \ {n} : u[m] = t[m]
      /\ u[n] = IF SplitsLeaf(t, n) THEN t[n] ELSE Node(t[n].left, t[n].right, ZeroHash, TRUE)
      /\ u = [m \in DOMAIN t1 |-> u[m]]
  BY <1>1, <1>2 DEF SplitLeaf, SplitEdge, SplitAtNode
<1>4. IsMarked(u[f], t1[f])
  <2> DEFINE node == Fork(t, n, l)
  <2>1. NextBit(n, l) \in Bit
    BY <1>2, OneMoreFact, Lengths, CommonIsStart
  <2>2. node = Node(node.left, node.right, t[n].hash, TRUE)
    BY DEF Fork, Node
  <2>3. \A x \in Bit : ChildOn(node, x) = ChildOn(t1[f], x)
    <3>1. \A x \in Bit : ChildOn(node, x) = IF x = NextBit(n, l) THEN l ELSE n
      BY <2>1 DEF Fork, ChildOn, Bit, Node
    <3> QED
      BY <1>1, <3>1
  <2> HIDE DEF node
  <2>4. IsMarked(node, t1[f])
    BY <2>2, <2>3, ChildrenMark, Zenon
  <2> QED
    BY <1>3, <2>4 DEF node
<1>5. \/ u[n] = t1[n]
      \/ IsMarked(u[n], t1[n]) /\ ~IsLeaf(t1[n]) /\ Beside(t1, l, n, MaxBitCount)
  <2>1. t1[n] = t[n]
    BY <1>0, <1>1 DEF OneMore
  <2>2. CASE SplitsLeaf(t, n)
    BY <1>3, <2>1, <2>2
  <2>3. CASE ~SplitsLeaf(t, n)
    <3>1. ~IsLeaf(t1[n])
      BY <1>0, <2>1, <2>3 DEF SplitsLeaf
    <3>2. IsMarked(u[n], t1[n])
      <4>1. u[n] = Node(t[n].left, t[n].right, ZeroHash, TRUE)
        BY <1>3, <2>3
      <4>2. u[n].hash = ZeroHash
        BY <4>1 DEF Node
      <4> QED
        BY <2>1, <4>1, <4>2 DEF IsMarked
    <3>3. Beside(t1, l, n, MaxBitCount)
      <4>1. NextBit(n, l) \in Bit
        BY <1>2, OneMoreFact, Lengths, CommonIsStart
      <4>2. PICK x \in Bit : x # NextBit(n, l)
        BY DEF Bit
      <4>3. n = ChildOn(t1[f], x) /\ f \in DOMAIN t1
        BY <1>1, <4>2
      <4>4. Len(f) < MaxBitCount
        BY <1>1, <1>2, OneMoreFact, Lengths, StartsIsUnder DEF IsUnder
      <4> QED
        BY <1>1, <4>3, <4>4 DEF Beside
    <3> QED
      BY <3>1, <3>2, <3>3
  <2> QED
    BY <2>2, <2>3
<1>6. Starts(l, l) /\ Len(f) \in 0..MaxBitCount /\ ~(MaxBitCount <= Len(f))
      /\ \A m \in DOMAIN t1 : Len(m) \in Nat
  <2>1. Starts(l, l)
    BY OneMoreFact, Lengths DEF Starts
  <2>2. Len(f) < MaxBitCount
    BY <1>1, <1>2, OneMoreFact, Lengths, StartsIsUnder DEF IsUnder
  <2> QED
    BY <1>1, <2>1, <2>2, OneMoreFact, Lengths
<1>7. ASSUME NEW m \in DOMAIN t1
      PROVE  /\ Starts(m, l) /\ Len(m) < Len(f) => m \in DOMAIN t /\ u[m] = t[m]
             /\ Starts(m, l) /\ Len(f) <= Len(m) /\ Len(m) < MaxBitCount => IsMarked(u[m], t1[m])
             /\ Starts(m, l) /\ MaxBitCount <= Len(m) => u[m] = t1[m]
             /\ ~Starts(m, l) =>
                  \/ u[m] = t1[m]
                  \/ IsMarked(u[m], t1[m]) /\ ~IsLeaf(t1[m]) /\ Beside(t1, l, m, MaxBitCount)
  <2>1. CASE m = l
    BY <1>3, <1>6, <2>1, OneMoreFact, Lengths
  <2>2. CASE m = f
    BY <1>1, <1>4, <1>6, <2>2
  <2>3. CASE m = n
    BY <1>0, <1>5, <2>3
  <2>4. CASE m \in DOMAIN t \ {n}
    <3>1. CASE Starts(m, l)
      <4>1. u[m] = t[m] /\ Len(m) < Len(f) /\ Len(f) < MaxBitCount /\ Len(m) \in Nat /\ Len(f) \in Nat
        BY <1>1, <1>3, <1>6, <2>4, <3>1, Lengths
      <4> QED
        BY <2>4, <3>1, <4>1, Lengths
    <3>2. CASE ~Starts(m, l)
      BY <1>3, <2>4, <3>2 DEF OneMore
    <3> QED
      BY <3>1, <3>2
  <2> QED
    BY <1>1, <2>1, <2>2, <2>3, <2>4
<1> QED
  BY <1>1, <1>3, <1>7 DEF Marked, SplitDone

(* On the way back the children of the node above are set, and its mark.   *)
LEMMA ReturnMarks ==
  ASSUME NEW t, NEW t0, NEW t1, NEW l, OneMore(t0, t1, l), NEW c, NEW p \in DOMAIN t1,
         Marked(t, t0, t1, l, Len(c), MaxBitCount), Starts(p, l), p # l, Starts(c, l),
         NEW b \in Bit, b = l[Len(p) + 1], c = ChildOn(t1[p], b), c # EmptyLabel,
         NEW u, u = [t EXCEPT ![p] = SetChild(@, b, c)]
  PROVE  /\ Marked(u, t0, t1, l, Len(p), MaxBitCount) /\ DOMAIN u = DOMAIN t
         /\ \A m \in DOMAIN t \ {p} : u[m] = t[m]
<1>1. /\ c \in DOMAIN t1 /\ c \in Label /\ IsUnder(c, p, b) /\ p \in Label
      /\ \A x \in DOMAIN t1 : IsUnder(x, p, b) => Starts(c, x)
  BY OneMoreFact, CompactFact
<1>2. Len(p) < Len(c) /\ Len(p) \in Nat /\ Len(c) \in Nat /\ Len(p) < MaxBitCount
  <2>1. Len(p) < Len(c) /\ Len(p) \in 0..MaxBitCount /\ Len(c) \in 0..MaxBitCount
    BY <1>1, Lengths DEF IsUnder
  <2> QED
    BY <2>1, Lengths
<1>3. p \in DOMAIN t0 /\ t[p] = t0[p] /\ t = [n \in DOMAIN t1 |-> t[n]]
  BY <1>2 DEF Marked
<1>4. /\ u[p] = SetChild(t0[p], b, c) /\ DOMAIN u = DOMAIN t
      /\ \A m \in DOMAIN t \ {p} : u[m] = t[m]
      /\ u = [n \in DOMAIN t1 |-> u[n]]
  BY <1>3
<1>5. IsMarked(u[p], t1[p])
  <2> DEFINE node == SetChild(t0[p], b, c)
  <2>1. \A x \in Bit : ChildOn(node, x) = ChildOn(t1[p], x)
    <3>1. \A x \in Bit : x # b => ChildOn(t1[p], x) = ChildOn(t0[p], x)
      BY <1>3 DEF OneMore, IsUnder
    <3>2. \A x \in Bit : ChildOn(node, x) = IF x = b THEN c ELSE ChildOn(t0[p], x)
      BY SetChildGives
    <3> HIDE DEF node
    <3> QED
      BY <3>1, <3>2
  <2>2. node = Node(node.left, node.right, t0[p].hash, TRUE)
    BY SetChildFact
  <2> HIDE DEF node
  <2>3. IsMarked(node, t1[p])
    BY <2>1, <2>2, ChildrenMark
  <2> QED
    BY <1>4, <2>3 DEF node
<1>6. ASSUME NEW n \in DOMAIN t1, n # p, Starts(n, l), Len(p) <= Len(n)
      PROVE  Len(c) <= Len(n)
  <2>1. n \in Label /\ Len(n) \in Nat
    BY OneMoreFact, Lengths
  <2>2. IsUnder(n, p, b)
    <3>1. n = p \/ IsUnder(n, p, l[Len(p) + 1]) \/ IsUnder(p, n, l[Len(n) + 1])
      BY <1>1, <1>6, <2>1, OneMoreFact, StartsEither
    <3>2. ~IsUnder(p, n, l[Len(n) + 1])
      BY <1>2, <1>6, <2>1 DEF IsUnder
    <3> QED
      BY <1>6, <3>1, <3>2
  <2> QED
    BY <1>1, <2>2 DEF Starts
<1>7. \A n \in DOMAIN t1 : Len(n) \in Nat
  BY OneMoreFact, Lengths
<1>8. ASSUME NEW n \in DOMAIN t1
      PROVE  /\ Starts(n, l) /\ Len(n) < Len(p) => n \in DOMAIN t0 /\ u[n] = t0[n]
             /\ Starts(n, l) /\ Len(p) <= Len(n) /\ Len(n) < MaxBitCount => IsMarked(u[n], t1[n])
             /\ Starts(n, l) /\ MaxBitCount <= Len(n) => u[n] = t1[n]
             /\ ~Starts(n, l) =>
                  \/ u[n] = t1[n]
                  \/ IsMarked(u[n], t1[n]) /\ ~IsLeaf(t1[n]) /\ Beside(t1, l, n, MaxBitCount)
  <2>1. CASE n = p
    BY <1>2, <1>5, <2>1, Lengths
  <2>2. CASE n # p
    <3>1. u[n] = t[n]
      BY <1>3, <1>4, <2>2
    <3>2. Starts(n, l) /\ Len(n) < Len(p) => Len(n) < Len(c)
      BY <1>2, <1>7
    <3> QED
      BY <1>6, <2>2, <3>1, <3>2 DEF Marked
  <2> QED
    BY <2>1, <2>2
<1> QED
  BY <1>4, <1>8 DEF Marked

-----------------------------------------------------------------------------
(* The hashes *)

LEMMA ViewOfClosed ==
  ASSUME NEW t, t = [n \in DOMAIN t |-> t[n]],
         \A n \in DOMAIN t : IsNodeOf(t[n], DOMAIN t)
  PROVE  View(t) = t
<1>1. \A n \in DOMAIN t : Node(Present(t, t[n].left), Present(t, t[n].right),
                               t[n].hash, t[n].dirty) = t[n]
  BY DEF IsNodeOf, Present
<1> QED
  BY <1>1, Zenon DEF View

LEMMA FinalIsNode ==
  ASSUME NEW t0, NEW t1, NEW l, OneMore(t0, t1, l), NEW n \in DOMAIN t1
  PROVE  IsNodeOf(t1[n], DOMAIN t1) /\ ~t1[n].dirty
BY DEF OneMore, Hashed, Compact, Closed

LEMMA MarkedIsNode ==
  ASSUME NEW S, NEW node, NEW final, IsMarked(node, final), IsNodeOf(final, S)
  PROVE  /\ IsNodeOf(node, S) /\ node.dirty = TRUE
         /\ node.left = final.left /\ node.right = final.right
<1>1. PICK h : node = Node(final.left, final.right, h, TRUE)
  BY DEF IsMarked
<1>2. node.left = final.left /\ node.right = final.right /\ node.dirty = TRUE /\ node.hash = h
  BY <1>1 DEF Node
<1> QED
  BY <1>1, <1>2 DEF IsNodeOf

LEMMA MarkedView ==
  ASSUME NEW t, NEW t0, NEW t1, NEW l, OneMore(t0, t1, l), NEW hi \in Nat,
         Marked(t, t0, t1, l, 0, hi)
  PROVE  /\ View(t) = t /\ DOMAIN t = DOMAIN t1 /\ t = [n \in DOMAIN t1 |-> t[n]]
         /\ \A n \in DOMAIN t1 : /\ IsNodeOf(t[n], DOMAIN t1)
                                 /\ t[n].left = t1[n].left /\ t[n].right = t1[n].right
<1>1. t = [n \in DOMAIN t1 |-> t[n]] /\ DOMAIN t = DOMAIN t1
  BY DEF Marked
<1>2. ASSUME NEW n \in DOMAIN t1
      PROVE  /\ IsNodeOf(t[n], DOMAIN t1)
             /\ t[n].left = t1[n].left /\ t[n].right = t1[n].right
  <2>1. t[n] = t1[n] \/ IsMarked(t[n], t1[n])
    <3>1. Len(n) \in Nat
      BY OneMoreFact, Lengths
    <3>2. CASE Starts(n, l) /\ Len(n) < hi
      BY <3>1, <3>2 DEF Marked
    <3>3. CASE ~(Len(n) < hi) \/ ~Starts(n, l)
      BY <3>1, <3>3 DEF Marked
    <3> QED
      BY <3>2, <3>3
  <2>2. IsNodeOf(t1[n], DOMAIN t1)
    BY FinalIsNode
  <2>3. ASSUME IsMarked(t[n], t1[n])
        PROVE  /\ IsNodeOf(t[n], DOMAIN t1)
               /\ t[n].left = t1[n].left /\ t[n].right = t1[n].right
    BY <2>2, <2>3, MarkedIsNode
  <2> QED
    BY <2>1, <2>2, <2>3
<1>3. View(t) = t
  BY <1>1, <1>2, ViewOfClosed
<1> QED
  BY <1>1, <1>2, <1>3

Hashes(u, t, list) == u = HashedIn(t, list)

LEMMA HashedInNothing ==
  ASSUME NEW t, t = [n \in DOMAIN t |-> t[n]],
         \A n \in DOMAIN t : t[n] = Node(t[n].left, t[n].right, t[n].hash, t[n].dirty),
         View(t) = t
  PROVE  HashedIn(t, <<>>) = t /\ Rehashed(t, <<>>) = <<>>
<1>1. {<<>>[k] : k \in DOMAIN <<>>} = {}
  OBVIOUS
<1>2. \A m \in DOMAIN t : UpdateHash(t, {})[m] = t[m]
  BY DEF UpdateHash
<1>3. HashedIn(t, <<>>) = [m \in DOMAIN t |-> Node(t[m].left, t[m].right,
                             UpdateHash(t, {})[m].hash, UpdateHash(t, {})[m].dirty)]
  BY <1>1 DEF HashedIn
<1>4. \A m \in DOMAIN t : Node(t[m].left, t[m].right, UpdateHash(t, {})[m].hash,
                               UpdateHash(t, {})[m].dirty) = t[m]
  BY <1>2
<1>5. HashedIn(t, <<>>) = t
  BY <1>3, <1>4
<1> QED
  BY <1>5 DEF Rehashed

HashedAt(t, u, x) ==
  /\ DOMAIN u = DOMAIN t /\ u = [n \in DOMAIN u |-> u[n]]
  /\ \A m \in DOMAIN t : m # x => u[m] = t[m]
  /\ u[x] = IF WillUpdate(t, x)
            THEN Node(t[x].left, t[x].right, ChildrenHash(t, x), FALSE) ELSE t[x]
  /\ Rehashed(t, <<x>>) = IF WillUpdate(t, x) THEN <<x>> ELSE <<>>

LEMMA HashedInOne ==
  ASSUME NEW t, t = [n \in DOMAIN t |-> t[n]],
         \A n \in DOMAIN t : t[n] = Node(t[n].left, t[n].right, t[n].hash, t[n].dirty),
         View(t) = t, NEW x \in DOMAIN t, NEW u, Hashes(u, t, <<x>>)
  PROVE  HashedAt(t, u, x)
<1> DEFINE v == UpdateHash(t, {x})
<1>1. {<<x>>[k] : k \in DOMAIN <<x>>} = {x}
  OBVIOUS
<1>2. u = [m \in DOMAIN t |-> Node(t[m].left, t[m].right, v[m].hash, v[m].dirty)]
  BY <1>1 DEF HashedIn, Hashes
<1>3. \A m \in DOMAIN t : m # x => v[m] = t[m]
  BY DEF UpdateHash
<1>4. v[x] = IF WillUpdate(t, x)
             THEN Node(t[x].left, t[x].right, ChildrenHash(t, x), FALSE) ELSE t[x]
  BY DEF UpdateHash
<1> HIDE DEF v
<1>5. \A m \in DOMAIN t : m # x => u[m] = t[m]
  BY <1>2, <1>3
<1>6. u[x] = v[x]
  <2>1. CASE WillUpdate(t, x)
    <3>1. v[x].hash = ChildrenHash(t, x) /\ v[x].dirty = FALSE
      BY <1>4, <2>1 DEF Node
    <3> QED
      BY <1>2, <1>4, <2>1, <3>1
  <2>2. CASE ~WillUpdate(t, x)
    BY <1>2, <1>4, <2>2
  <2> QED
    BY <2>1, <2>2
<1>7. Rehashed(t, <<x>>) = IF WillUpdate(t, x) THEN <<x>> ELSE <<>>
  <2>1. DOMAIN <<x>> = {1} /\ <<x>>[1] = x
    OBVIOUS
  <2> QED
    BY <2>1 DEF Rehashed
<1>8. DOMAIN u = DOMAIN t /\ u = [n \in DOMAIN u |-> u[n]]
  BY <1>2
<1> QED
  BY <1>4, <1>5, <1>6, <1>7, <1>8 DEF HashedAt

(* A marked node whose children are done is done next. *)
LEMMA HashOfMarked ==
  ASSUME NEW t0, NEW t1, NEW l, OneMore(t0, t1, l), NEW x \in DOMAIN t1, ~IsLeaf(t1[x]),
         NEW t, IsMarked(t[x], t1[x]),
         \A c \in {t1[x].left, t1[x].right} : c # EmptyLabel => t[c] = t1[c]
  PROVE  /\ WillUpdate(t, x)
         /\ Node(t[x].left, t[x].right, ChildrenHash(t, x), FALSE) = t1[x]
<1>1. /\ t1[x].left \in DOMAIN t1 /\ t1[x].right \in DOMAIN t1
      /\ \A c \in DOMAIN t1 : ~t1[c].dirty
      /\ t1[x] = Node(t1[x].left, t1[x].right, t1[x].hash, FALSE)
  <2>1. IsNodeOf(t1[x], DOMAIN t1) /\ \A c \in DOMAIN t1 : ~t1[c].dirty
    BY FinalIsNode
  <2>2. t1[x].dirty = FALSE
    BY <2>1 DEF IsNodeOf
  <2> QED
    BY <2>1, <2>2 DEF IsNodeOf
<1>2. t[x].left = t1[x].left /\ t[x].right = t1[x].right /\ t[x].dirty = TRUE
  <2>1. IsNodeOf(t1[x], DOMAIN t1)
    BY FinalIsNode
  <2> QED
    BY <2>1, MarkedIsNode
<1>3. WillUpdate(t, x)
  BY <1>1, <1>2 DEF WillUpdate, IsClean
<1>4. ChildrenHash(t, x) = ChildrenHash(t1, x)
  BY <1>2 DEF ChildrenHash, LabelHash
<1>5. t1[x].hash = ChildrenHash(t1, x)
  <2>1. x \notin FullLabel
    BY OneMoreFact, KeyIsLeaf DEF Compact
  <2> QED
    BY <2>1 DEF OneMore
<1> QED
  BY <1>1, <1>2, <1>3, <1>4, <1>5

HashMarked(t, t0, t1, l, p, s, first, v, u) ==
  /\ Marked(u, t0, t1, l, 0, Len(p)) /\ DOMAIN u = DOMAIN t
  /\ \A m \in DOMAIN t :
       \/ u[m] = t[m]
       \/ m = s /\ s # EmptyLabel /\ Rehashed(t, first) = <<s>>
       \/ m = p /\ Rehashed(v, <<p>>) = <<p>>
  /\ Rehashed(t, first) \in {<<>>, <<s>>} /\ Rehashed(v, <<p>>) \in {<<>>, <<p>>}
  /\ s \in DOMAIN t /\ p \in DOMAIN t

(* The steps of update_hashes on the sibling and the node it returns to.   *)
LEMMA HashMarks ==
  ASSUME NEW t, NEW t0, NEW t1, NEW l, OneMore(t0, t1, l), NEW c, NEW p \in DOMAIN t1,
         Marked(t, t0, t1, l, 0, Len(c)), Starts(p, l), p # l, Starts(c, l),
         NEW b \in Bit, b = l[Len(p) + 1], c = ChildOn(t1[p], b), c # EmptyLabel,
         NEW o \in Bit, o # b, NEW s, s = ChildOn(t1[p], o),
         NEW first, first = IF s = EmptyLabel THEN <<>> ELSE <<s>>,
         NEW v, Hashes(v, t, first), NEW u, Hashes(u, v, <<p>>)
  PROVE  HashMarked(t, t0, t1, l, p, s, first, v, u)
<1>1. /\ c \in DOMAIN t1 /\ c \in Label /\ IsUnder(c, p, b) /\ p \in Label
      /\ \A x \in DOMAIN t1 : IsUnder(x, p, b) => Starts(c, x)
      /\ s \in DOMAIN t1 /\ s \in Label
      /\ s # EmptyLabel => IsUnder(s, p, o)
  BY OneMoreFact, CompactFact
<1>2. Len(p) < Len(c) /\ Len(p) \in Nat /\ Len(c) \in Nat
  BY <1>1, Lengths DEF IsUnder
<1>3. /\ View(t) = t /\ DOMAIN t = DOMAIN t1 /\ t = [n \in DOMAIN t |-> t[n]]
      /\ \A n \in DOMAIN t : IsNodeOf(t[n], DOMAIN t1)
      /\ \A n \in DOMAIN t1 : t[n].left = t1[n].left /\ t[n].right = t1[n].right
  <2>1. Len(c) \in Nat /\ Marked(t, t0, t1, l, 0, Len(c))
    BY <1>2
  <2> QED
    <3>1. /\ View(t) = t /\ DOMAIN t = DOMAIN t1 /\ t = [n \in DOMAIN t1 |-> t[n]]
          /\ \A n \in DOMAIN t1 : /\ IsNodeOf(t[n], DOMAIN t1)
                                  /\ t[n].left = t1[n].left /\ t[n].right = t1[n].right
      BY <2>1, MarkedView, Zenon
    <3> QED
      BY <3>1
<1>4. s # EmptyLabel => ~Starts(s, l) /\ s # p
  <2> SUFFICES ASSUME s # EmptyLabel PROVE ~Starts(s, l) /\ s # p
    OBVIOUS
  <2>1. Starts(s, l) => IsUnder(l, p, o)
    BY <1>1, OneMoreFact, StartsUnder
  <2> QED
    BY <1>1, <2>1, UnderIsBelow DEF IsUnder
<1>5. ASSUME NEW q \in DOMAIN t1, Starts(q, l), Len(q) < Len(c), Len(p) <= Len(q)
      PROVE  q = p
  <2>1. q \in Label /\ Len(q) \in Nat
    BY OneMoreFact, Lengths
  <2>2. q = p \/ IsUnder(q, p, l[Len(p) + 1]) \/ IsUnder(p, q, l[Len(q) + 1])
    BY <1>1, <1>5, <2>1, OneMoreFact, StartsEither
  <2>3. ~IsUnder(p, q, l[Len(q) + 1])
    BY <1>2, <1>5, <2>1 DEF IsUnder
  <2>4. ~IsUnder(q, p, b)
    <3>1. Starts(c, q) => Len(c) <= Len(q)
      BY DEF Starts
    <3> QED
      BY <1>1, <1>2, <1>5, <2>1, <3>1
  <2> QED
    BY <2>2, <2>3, <2>4
(* The sibling *)
<1>6. ASSUME s # EmptyLabel, t[s] # t1[s]
      PROVE  WillUpdate(t, s) /\ Node(t[s].left, t[s].right, ChildrenHash(t, s), FALSE) = t1[s]
  <2>1. IsMarked(t[s], t1[s]) /\ ~IsLeaf(t1[s])
    BY <1>1, <1>4, <1>6 DEF Marked
  <2>2. ASSUME NEW x \in Bit, NEW d, d = ChildOn(t1[s], x), d # EmptyLabel
        PROVE  t[d] = t1[d]
    <3>1. d \in DOMAIN t1 /\ d \in Label /\ IsUnder(d, s, x)
      BY <1>1, <2>2, OneMoreFact, CompactFact
    <3>2. ~Starts(d, l)
      <4>1. Starts(d, l) => Starts(s, l)
        BY <1>1, <3>1, OneMoreFact, StartsTrans DEF IsUnder
      <4> QED
        BY <1>4, <1>6, <4>1
    <3>3. ~Beside(t1, l, d, Len(c))
      <4> SUFFICES ASSUME NEW q \in DOMAIN t1, NEW y \in Bit, Starts(q, l), d = ChildOn(t1[q], y)
                   PROVE  FALSE
        BY DEF Beside
      <4>1. q = s
        <5>1. /\ Compact(t1) /\ s \in DOMAIN t1
              /\ ChildOn(t1[s], x) = ChildOn(t1[q], y) /\ ChildOn(t1[s], x) # EmptyLabel
          BY <1>1, <2>2, OneMoreFact
        <5> QED
          BY <5>1, OneParent
      <4> QED
        BY <1>4, <1>6, <4>1
    <3> QED
      BY <3>1, <3>2, <3>3 DEF Marked
  <2>3. \A d \in {t1[s].left, t1[s].right} : d # EmptyLabel => t[d] = t1[d]
    BY <2>2 DEF ChildOn, Bit
  <2> QED
    BY <1>1, <2>1, <2>3, HashOfMarked
<1>7. ASSUME s # EmptyLabel, t[s] = t1[s]
      PROVE  ~WillUpdate(t, s)
  BY <1>1, <1>7, FinalIsNode DEF WillUpdate
<1>8. /\ DOMAIN v = DOMAIN t1 /\ v = [n \in DOMAIN v |-> v[n]]
      /\ \A m \in DOMAIN t1 : m # s \/ s = EmptyLabel => v[m] = t[m]
      /\ s # EmptyLabel => v[s] = t1[s]
      /\ \/ Rehashed(t, first) = <<>> /\ (s # EmptyLabel => t[s] = t1[s])
         \/ Rehashed(t, first) = <<s>> /\ s # EmptyLabel
  <2>1. CASE s = EmptyLabel
    <3>1. first = <<>>
      BY <2>1
    <3>2. HashedIn(t, <<>>) = t /\ Rehashed(t, <<>>) = <<>>
      BY <1>3, HashedInNothing DEF IsNodeOf
    <3> QED
      BY <1>3, <2>1, <3>1, <3>2 DEF Hashes
  <2>2. CASE s # EmptyLabel
    <3>1. first = <<s>>
      BY <2>2
    <3>2. /\ DOMAIN v = DOMAIN t /\ v = [n \in DOMAIN v |-> v[n]]
          /\ \A m \in DOMAIN t : m # s => v[m] = t[m]
          /\ v[s] = IF WillUpdate(t, s)
                    THEN Node(t[s].left, t[s].right, ChildrenHash(t, s), FALSE) ELSE t[s]
          /\ Rehashed(t, <<s>>) = IF WillUpdate(t, s) THEN <<s>> ELSE <<>>
      <4>1. /\ t = [n \in DOMAIN t |-> t[n]] /\ View(t) = t /\ s \in DOMAIN t
            /\ \A n \in DOMAIN t : t[n] = Node(t[n].left, t[n].right, t[n].hash, t[n].dirty)
            /\ Hashes(v, t, <<s>>)
        BY <1>1, <1>3, <3>1 DEF IsNodeOf
      <4>2. HashedAt(t, v, s)
        BY <4>1, HashedInOne
      <4> QED
        BY <4>2 DEF HashedAt
    <3> QED
      BY <1>3, <1>6, <1>7, <2>2, <3>1, <3>2
  <2> QED
    BY <2>1, <2>2
(* Its parent *)
<1>9. /\ \A n \in DOMAIN v : IsNodeOf(v[n], DOMAIN t1)
      /\ View(v) = v
  <2>1. \A n \in DOMAIN v : IsNodeOf(v[n], DOMAIN t1)
    BY <1>3, <1>8, FinalIsNode
  <2> QED
    BY <1>8, <2>1, ViewOfClosed
<1>10. WillUpdate(v, p) /\ Node(v[p].left, v[p].right, ChildrenHash(v, p), FALSE) = t1[p]
  <2>1. v[p] = t[p]
    BY <1>4, <1>8
  <2>2. IsMarked(v[p], t1[p])
    BY <1>2, <2>1 DEF Marked
  <2>3. ASSUME NEW x \in Bit, NEW d, d = ChildOn(t1[p], x), d # EmptyLabel
        PROVE  v[d] = t1[d]
    <3>1. CASE x = b
      <4>1. d = c /\ c # s
        BY <1>4, <2>3, <3>1
      <4>2. t[c] = t1[c]
        BY <1>1, <1>2 DEF Marked
      <4> QED
        BY <1>1, <1>8, <4>1, <4>2
    <3>2. CASE x # b
      <4>1. d = s
        BY <2>3, <3>2 DEF Bit
      <4> QED
        BY <1>8, <2>3, <4>1
    <3> QED
      BY <3>1, <3>2
  <2>4. \A d \in {t1[p].left, t1[p].right} : d # EmptyLabel => v[d] = t1[d]
    BY <2>3 DEF ChildOn, Bit
  <2>5. ~IsLeaf(t1[p])
    BY DEF IsLeaf, ChildOn
  <2> QED
    BY <2>2, <2>4, <2>5, HashOfMarked
<1>11. /\ DOMAIN u = DOMAIN t1 /\ u = [n \in DOMAIN u |-> u[n]]
       /\ \A m \in DOMAIN t1 : m # p => u[m] = v[m]
       /\ u[p] = t1[p] /\ Rehashed(v, <<p>>) = <<p>>
  <2>1. /\ DOMAIN u = DOMAIN v /\ u = [n \in DOMAIN u |-> u[n]]
        /\ \A m \in DOMAIN v : m # p => u[m] = v[m]
        /\ u[p] = IF WillUpdate(v, p)
                  THEN Node(v[p].left, v[p].right, ChildrenHash(v, p), FALSE) ELSE v[p]
        /\ Rehashed(v, <<p>>) = IF WillUpdate(v, p) THEN <<p>> ELSE <<>>
    <3>1. /\ v = [n \in DOMAIN v |-> v[n]] /\ View(v) = v /\ p \in DOMAIN v
          /\ \A n \in DOMAIN v : v[n] = Node(v[n].left, v[n].right, v[n].hash, v[n].dirty)
      BY <1>8, <1>9 DEF IsNodeOf
    <3>2. HashedAt(v, u, p)
      BY <3>1, HashedInOne, Zenon
    <3> QED
      BY <3>2 DEF HashedAt
  <2> QED
    BY <1>8, <1>10, <2>1
<1>12. ASSUME NEW n \in DOMAIN t1
       PROVE  /\ Starts(n, l) /\ Len(n) < 0 => n \in DOMAIN t0 /\ u[n] = t0[n]
              /\ Starts(n, l) /\ 0 <= Len(n) /\ Len(n) < Len(p) => IsMarked(u[n], t1[n])
              /\ Starts(n, l) /\ Len(p) <= Len(n) => u[n] = t1[n]
              /\ ~Starts(n, l) =>
                   \/ u[n] = t1[n]
                   \/ IsMarked(u[n], t1[n]) /\ ~IsLeaf(t1[n]) /\ Beside(t1, l, n, Len(p))
  <2>1. Len(n) \in Nat
    BY OneMoreFact, Lengths
  <2>2. CASE n = p
    BY <1>2, <1>11, <2>2
  <2>3. CASE n = s /\ s # EmptyLabel
    BY <1>4, <1>8, <1>11, <2>3
  <2>4. CASE n # p /\ (n # s \/ s = EmptyLabel)
    <3>1. u[n] = t[n]
      BY <1>8, <1>11, <2>4
    <3>2. CASE Starts(n, l)
      <4>1. CASE Len(n) < Len(c)
        BY <1>2, <1>5, <2>1, <2>4, <3>1, <3>2, <4>1 DEF Marked
      <4>2. CASE ~(Len(n) < Len(c))
        BY <1>2, <2>1, <3>1, <3>2, <4>2 DEF Marked
      <4> QED
        BY <4>1, <4>2
    <3>3. CASE ~Starts(n, l) /\ u[n] # t1[n]
      <4>1. IsMarked(t[n], t1[n]) /\ ~IsLeaf(t1[n]) /\ Beside(t1, l, n, Len(c))
        BY <3>1, <3>3 DEF Marked
      <4>2. PICK q \in DOMAIN t1, x \in Bit : Starts(q, l) /\ Len(q) < Len(c) /\ n = ChildOn(t1[q], x)
        BY <4>1 DEF Beside
      <4>3. n # EmptyLabel
        BY <3>3, OneMoreFact, Lengths
      <4>4. q # p
        <5> SUFFICES ASSUME q = p PROVE FALSE
          OBVIOUS
        <5>1. x = b => n = c
          BY <4>2
        <5>2. x # b => n = s
          BY <4>2 DEF Bit
        <5> QED
          BY <2>4, <3>3, <4>3, <5>1, <5>2
      <4>5. Len(q) < Len(p)
        <5>1. Len(q) \in Nat
          BY OneMoreFact, Lengths
        <5> QED
          BY <1>2, <1>5, <4>2, <4>4, <5>1
      <4> QED
        BY <3>1, <3>3, <4>1, <4>2, <4>5 DEF Beside
    <3> QED
      BY <3>2, <3>3
  <2> QED
    BY <2>2, <2>3, <2>4
<1>13. Marked(u, t0, t1, l, 0, Len(p))
  BY <1>11, <1>12 DEF Marked
<1> QED
  BY <1>1, <1>3, <1>8, <1>11, <1>13 DEF HashMarked

-----------------------------------------------------------------------------
(* The stack of a running insert                                           *)

Top(s) == s[Len(s)]

(* From the root, each label leads to the next on the way to l. *)
IsRoute(s, t, l) ==
  /\ s \in Seq(DOMAIN t) /\ s # <<>> /\ s[1] = EmptyLabel
  /\ \A k \in 1..Len(s) - 1 :
       /\ Starts(s[k], l) /\ s[k] # l
       /\ s[k + 1] = ChildOn(t[s[k]], l[Len(s[k]) + 1]) /\ s[k + 1] # EmptyLabel

LEMMA RouteTop ==
  ASSUME NEW t, NEW l, NEW s, IsRoute(s, t, l)
  PROVE  /\ Len(s) \in Nat /\ Len(s) >= 1 /\ Top(s) \in DOMAIN t
         /\ Len(s) = 1 => Top(s) = EmptyLabel
         /\ Len(s) > 1 => Top(s) # EmptyLabel
<1>1. s \in Seq(DOMAIN t) /\ s # <<>> /\ s[1] = EmptyLabel
  BY DEF IsRoute
<1>2. Len(s) \in Nat /\ Len(s) >= 1 /\ \A k \in 1..Len(s) : s[k] \in DOMAIN t
  BY <1>1
<1>3. ASSUME Len(s) > 1 PROVE Top(s) # EmptyLabel
  <2>1. Len(s) - 1 \in 1..Len(s) - 1 /\ (Len(s) - 1) + 1 = Len(s)
    BY <1>2, <1>3
  <2> QED
    BY <2>1 DEF IsRoute, Top
<1> QED
  BY <1>1, <1>2, <1>3 DEF Top

LEMMA RouteIsLonger ==
  ASSUME NEW t, NEW l, NEW s, IsRoute(s, t, l), Top(s) # EmptyLabel \/ Len(s) # 1
  PROVE  Len(s) > 1
<1>1. PICK k : k = Len(s)
  OBVIOUS
<1>2. k \in Nat /\ k >= 1 /\ k # 1
  BY <1>1, RouteTop
<1>3. k > 1
  BY <1>2
<1> QED
  BY <1>1, <1>3

LEMMA RouteStarts ==
  ASSUME NEW t, EmptyLabel \in DOMAIN t, NEW l
  PROVE  IsRoute(<<EmptyLabel>>, t, l)
BY DEF IsRoute

LEMMA RouteDown ==
  ASSUME NEW t, NEW l, NEW s, IsRoute(s, t, l), Starts(Top(s), l), Top(s) # l,
         NEW c \in DOMAIN t, c = ChildOn(t[Top(s)], l[Len(Top(s)) + 1]), c # EmptyLabel
  PROVE  IsRoute(Append(s, c), t, l) /\ Top(Append(s, c)) = c
<1> DEFINE r == Append(s, c)
<1>1. /\ s \in Seq(DOMAIN t) /\ s # <<>> /\ s[1] = EmptyLabel
      /\ \A k \in 1..Len(s) - 1 :
           /\ Starts(s[k], l) /\ s[k] # l
           /\ s[k + 1] = ChildOn(t[s[k]], l[Len(s[k]) + 1]) /\ s[k + 1] # EmptyLabel
  BY DEF IsRoute
<1>2. /\ r \in Seq(DOMAIN t) /\ r # <<>> /\ Len(r) = Len(s) + 1
      /\ r[Len(s) + 1] = c /\ \A k \in 1..Len(s) : r[k] = s[k]
  BY <1>1, AppendFact
<1> HIDE DEF r
<1>3. Len(s) \in Nat /\ Len(s) >= 1
  BY <1>1
<1>4. ASSUME NEW k \in 1..Len(r) - 1
      PROVE  /\ Starts(r[k], l) /\ r[k] # l
             /\ r[k + 1] = ChildOn(t[r[k]], l[Len(r[k]) + 1]) /\ r[k + 1] # EmptyLabel
  <2>1. CASE k = Len(s)
    <3>1. r[k] = Top(s) /\ r[k + 1] = c
      BY <1>2, <1>3, <2>1 DEF Top
    <3> QED
      BY <3>1
  <2>2. CASE k # Len(s)
    <3>1. k \in 1..Len(s) - 1 /\ k + 1 \in 1..Len(s) /\ k \in 1..Len(s)
      BY <1>2, <1>3, <2>2
    <3>2. r[k] = s[k] /\ r[k + 1] = s[k + 1]
      BY <1>2, <3>1
    <3> QED
      BY <1>1, <3>1, <3>2
  <2> QED
    BY <2>1, <2>2
<1>5. r[1] = EmptyLabel /\ Top(r) = c
  BY <1>1, <1>2, <1>3 DEF Top
<1> QED
  BY <1>2, <1>4, <1>5 DEF IsRoute, r

Climbs(t, l, s, a, p) ==
  /\ IsRoute(a, t, l) /\ Top(a) = p
  /\ p \in DOMAIN t /\ Starts(p, l) /\ p # l
  /\ Top(s) = ChildOn(t[p], l[Len(p) + 1]) /\ Top(s) # EmptyLabel

LEMMA RouteClimbs ==
  ASSUME NEW t, NEW l, NEW s, IsRoute(s, t, l), Len(s) > 1
  PROVE  Climbs(t, l, s, SubSeq(s, 1, Len(s) - 1), s[Len(s) - 1])
<1>0. PICK a, p : a = SubSeq(s, 1, Len(s) - 1) /\ p = s[Len(s) - 1]
  OBVIOUS
<1>1. /\ s \in Seq(DOMAIN t) /\ s # <<>> /\ s[1] = EmptyLabel
      /\ \A k \in 1..Len(s) - 1 :
           /\ Starts(s[k], l) /\ s[k] # l
           /\ s[k + 1] = ChildOn(t[s[k]], l[Len(s[k]) + 1]) /\ s[k + 1] # EmptyLabel
  BY DEF IsRoute
<1>2. Len(s) \in Nat /\ Len(s) - 1 \in 1..Len(s) - 1 /\ Len(s) - 1 \in Nat
  BY <1>1
<1>3. /\ a \in Seq(DOMAIN t) /\ Len(a) = Len(s) - 1 /\ a # <<>>
      /\ \A k \in 1..Len(s) - 1 : a[k] = s[k]
  <2>1. a \in Seq(DOMAIN t) /\ Len(a) = Len(s) - 1
    BY <1>0, <1>1, <1>2
  <2>2. ASSUME NEW k \in 1..Len(s) - 1 PROVE a[k] = s[k]
    BY <1>0, <1>1, <1>2
  <2>3. a # <<>>
    <3>1. Len(a) # 0
      BY <1>2, <2>1
    <3> QED
      BY <3>1
  <2> QED
    BY <2>1, <2>2, <2>3
<1>4. ASSUME NEW k \in 1..Len(a) - 1
      PROVE  /\ Starts(a[k], l) /\ a[k] # l
             /\ a[k + 1] = ChildOn(t[a[k]], l[Len(a[k]) + 1]) /\ a[k + 1] # EmptyLabel
  <2>1. k \in 1..Len(s) - 1 /\ k + 1 \in 1..Len(s) - 1
    BY <1>2, <1>3
  <2>2. a[k] = s[k] /\ a[k + 1] = s[k + 1]
    BY <1>3, <2>1
  <2> QED
    BY <1>1, <2>1, <2>2
<1>5. IsRoute(a, t, l) /\ Top(a) = p
  <2>1. a[1] = EmptyLabel /\ Top(a) = p
    BY <1>0, <1>1, <1>2, <1>3 DEF Top
  <2> QED
    BY <1>3, <1>4, <2>1 DEF IsRoute
<1>6. /\ Starts(p, l) /\ p # l /\ Top(s) = ChildOn(t[p], l[Len(p) + 1]) /\ Top(s) # EmptyLabel
      /\ p \in DOMAIN t
  <2>1. (Len(s) - 1) + 1 = Len(s)
    BY <1>2
  <2> QED
    BY <1>0, <1>1, <1>2, <2>1 DEF Top
<1> QED
  BY <1>0, <1>5, <1>6 DEF Climbs

(* A route whose labels all lie on the way to l stays one. *)
LEMMA RouteOfMore ==
  ASSUME NEW t, NEW t1, NEW l, OneMore(t, t1, l), NEW s, IsRoute(s, t, l), Starts(Top(s), l)
  PROVE  IsRoute(s, t1, l)
<1>1. /\ s \in Seq(DOMAIN t) /\ s # <<>> /\ s[1] = EmptyLabel
      /\ \A k \in 1..Len(s) - 1 :
           /\ Starts(s[k], l) /\ s[k] # l
           /\ s[k + 1] = ChildOn(t[s[k]], l[Len(s[k]) + 1]) /\ s[k + 1] # EmptyLabel
  BY DEF IsRoute
<1>2. s \in Seq(DOMAIN t1) /\ Len(s) \in Nat
  BY <1>1, OneMoreFact, SeqGrows
<1>3. ASSUME NEW k \in 1..Len(s) - 1
      PROVE  s[k + 1] = ChildOn(t1[s[k]], l[Len(s[k]) + 1])
  <2>1. k \in 1..Len(s) /\ k + 1 \in 1..Len(s)
    BY <1>2
  <2>2. Starts(s[k + 1], l)
    BY <1>1, <1>2, <2>1 DEF Top
  <2>3. s[k] \in DOMAIN t /\ s[k] \in Label
    BY <1>1, <2>1, OneMoreFact
  <2>4. l[Len(s[k]) + 1] \in Bit
    BY <1>1, <2>3, OneMoreFact, StartsIsUnder
  <2> QED
    BY <1>1, <2>2, <2>3, <2>4, RouteStays
<1> QED
  BY <1>1, <1>2, <1>3 DEF IsRoute

(* Where a running insert is, with the trie t, the dictionary d before it, *)
(* its label, epoch and stack.                                             *)
AtStage(pc, t, d, l, e, s) ==
  \/ pc = "idle" /\ t = TrieOf(d)
  \/ pc = "insert" /\ t = TrieOf(d) /\ l \in FullLabel /\ IsRoute(s, t, l)
  \/ /\ pc \in {"return", "hash", "hashed"} /\ l \in FullLabel /\ l \notin LabelsOf(d)
     /\ \E t1 : /\ t1 = TrieOf(With(d, l, e)) /\ IsRoute(s, t1, l) /\ Starts(Top(s), l)
                /\ Marked(t, TrieOf(d), t1, l,
                          IF pc = "return" THEN Len(Top(s)) ELSE 0,
                          IF pc = "hashed" THEN Len(Top(s)) ELSE MaxBitCount)

LEMMA TrieOfDictionary ==
  ASSUME NEW d, IsDictionary(d), NEW t, t = TrieOf(d)
  PROVE  /\ Hashed(t) /\ Compact(t) /\ t = [n \in DOMAIN t |-> t[n]]
         /\ EmptyLabel \in DOMAIN t /\ DOMAIN t \subseteq Label
         /\ DOMAIN t \cap FullLabel = LabelsOf(d)
         /\ \A n \in DOMAIN t : IsNodeOf(t[n], DOMAIN t) /\ ~t[n].dirty
         /\ View(t) = t
<1>1. LabelsOf(d) \subseteq FullLabel
  BY DictionaryFact
<1>2. Hashed(t) /\ Compact(t)
  BY <1>1, TrieOfIsHashed DEF Hashed
<1>3. t = [n \in DOMAIN t |-> t[n]]
  BY DEF TrieOf
<1>4. \A n \in DOMAIN t : IsNodeOf(t[n], DOMAIN t) /\ ~t[n].dirty
  BY <1>2 DEF Hashed, Compact, Closed
<1>5. DOMAIN t \cap FullLabel = LabelsOf(d)
  <2>1. DOMAIN t = NodeLabels(d) /\ FullLabel \cap NodeLabels(d) = LabelsOf(d)
    BY <1>1, TrieOfFact, NodeLabelsFact
  <2> QED
    BY <2>1
<1>6. View(t) = t
  BY <1>3, <1>4, ViewOfClosed
<1>7. EmptyLabel \in DOMAIN t /\ DOMAIN t \subseteq Label
  BY <1>2, CompactFact
<1> QED
  BY <1>2, <1>3, <1>4, <1>5, <1>6, <1>7

Followed(s, t, l) == Append(s, ChildOn(t[Top(s)], NextBit(Top(s), l)))

LEMMA FollowsRoute ==
  ASSUME NEW t, Compact(t), NEW l \in FullLabel, NEW s, IsRoute(s, t, l),
         Top(s) # l, HasRoute(t, Top(s), l)
  PROVE  /\ IsRoute(Followed(s, t, l), t, l)
         /\ Top(Followed(s, t, l)) = ChildOn(t[Top(s)], NextBit(Top(s), l))
<1>0. PICK n : n = Top(s)
  OBVIOUS
<1>1. n \in DOMAIN t /\ n \in Label /\ Closed(t) /\ Shaped(t)
  BY <1>0, RouteTop, CompactFact
<1>2. /\ Starts(n, l) /\ NextBit(n, l) = l[Len(n) + 1]
      /\ IsUnder(ChildOn(t[n], NextBit(n, l)), n, l[Len(n) + 1])
  BY <1>0, <1>1, RouteDescends
<1>3. NextBit(n, l) \in Bit
  BY <1>0, <1>1, CommonIsStart
<1> DEFINE c == ChildOn(t[n], NextBit(n, l))
<1>4. c \in DOMAIN t /\ c \in Label
  BY <1>1, <1>3, CompactFact
<1>5. c # EmptyLabel
  <2> HIDE DEF c
  <2>1. IsUnder(c, n, l[Len(n) + 1])
    BY <1>2 DEF c
  <2> QED
    BY <1>1, <1>4, <2>1, UnderIsNotEmpty
<1>6. c = ChildOn(t[n], l[Len(n) + 1])
  BY <1>2
<1> HIDE DEF c
<1>7. IsRoute(Append(s, c), t, l) /\ Top(Append(s, c)) = c
  BY <1>0, <1>2, <1>4, <1>5, <1>6, RouteDown
<1> QED
  BY <1>0, <1>7 DEF c, Followed

(* The walk for a label that the trie has goes on until it is found. *)
LEMMA KnownFollows ==
  ASSUME NEW t, Compact(t), NEW l \in FullLabel, l \in DOMAIN t, NEW s, IsRoute(s, t, l),
         NEW n, n = Top(s), n # l
  PROVE  HasRoute(t, n, l) /\ ~SplitsLeaf(t, n)
<1>1. n \in DOMAIN t /\ n \in Label /\ l \in Label
  BY RouteTop, CompactFact, FullIsLabel
<1>2. Starts(n, l)
  <2>1. CASE Len(s) = 1
    BY <1>1, <2>1, RouteTop, Lengths
  <2>2. CASE Len(s) # 1
    <3>1. Len(s) > 1
      BY <2>2, RouteIsLonger
    <3>2. PICK p \in DOMAIN t : Starts(p, l) /\ p # l /\ n = ChildOn(t[p], l[Len(p) + 1])
      BY <3>1, RouteClimbs DEF Climbs
    <3>3. p \in Label
      BY CompactFact
    <3>4. IsUnder(l, p, l[Len(p) + 1]) /\ l[Len(p) + 1] \in Bit
      BY <1>1, <3>2, <3>3, StartsIsUnder
    <3> QED
      BY <3>2, <3>4, CompactFact
  <2> QED
    BY <2>1, <2>2
<1>3. /\ IsUnder(l, n, NextBit(n, l)) /\ NextBit(n, l) \in Bit
      /\ ChildOn(t[n], NextBit(n, l)) # EmptyLabel
  BY <1>1, <1>2, LabelIsBelow
<1>4. IsUnder(ChildOn(t[n], NextBit(n, l)), n, NextBit(n, l))
  BY <1>1, <1>3, CompactFact
<1>5. CommonPrefixCount(l, n) = Len(n)
  BY <1>1, <1>2, CommonIsStart
<1>6. BitAt(ChildOn(t[n], NextBit(n, l)), CommonPrefixCount(l, n)) = NextBit(n, l)
  BY <1>4, <1>5 DEF BitAt, IsUnder
<1>7. ~IsLeaf(t[n])
  BY <1>3 DEF IsLeaf, ChildOn
<1> QED
  BY <1>3, <1>6, <1>7 DEF HasRoute, SplitsLeaf

IsTrieOf(t, d) == t = TrieOf(d)
Backs(r, s, f) == r = Append(SubSeq(s, 1, Len(s) - 1), f)

Filled(u, d, l, e, t, n, s) ==
  /\ AtStage("return", u, d, l, e, s)
  /\ DOMAIN u = DOMAIN t \cup {l} /\ n \in DOMAIN t
  /\ \A m \in DOMAIN t \ {n} : m # l /\ u[m] = t[m]

LEMMA FillStep ==
  ASSUME NEW d, IsDictionary(d), NEW l \in FullLabel, l \notin LabelsOf(d), NEW e \in Nat,
         NEW t, IsTrieOf(t, d), NEW s, IsRoute(s, t, l), NEW n, n = Top(s), n # l,
         ~SplitsLeaf(t, n),
         NEW u, FilledAt(u, t, n, l, NewLeaf(LeafHash(l, Commit, e)))
  PROVE  Filled(u, d, l, e, t, n, s)
<1>1. PICK t1 : t1 = TrieOf(With(d, l, e))
  OBVIOUS
<1>2. OneMore(t, t1, l) /\ t1[l] = NewLeaf(LeafHash(l, Commit, e))
  BY <1>1, TrieWith DEF IsTrieOf
<1>3. n \in DOMAIN t /\ Closed(t) /\ Shaped(t) /\ l \notin DOMAIN t
  BY <1>2, RouteTop, OneMoreFact, CompactFact
<1>4. n = EmptyLabel /\ Starts(n, l)
  BY <1>3, SlotDescends DEF FilledAt
<1>5. Marked(u, t, t1, l, 0, MaxBitCount) /\ DOMAIN u = DOMAIN t \cup {l}
  <2>1. FilledAt(u, t, EmptyLabel, l, t1[l])
    BY <1>2, <1>4
  <2> QED
    BY <1>2, <2>1, FillMarks
<1>6. IsRoute(s, t1, l)
  BY <1>2, <1>4, RouteOfMore
<1>7. \A m \in DOMAIN t \ {n} : m # l /\ u[m] = t[m]
  BY <1>3 DEF FillSlot, FilledAt
<1>8. AtStage("return", u, d, l, e, s)
  <2>1. Len(Top(s)) = 0 /\ Starts(Top(s), l)
    BY <1>4, Lengths
  <2>2. Marked(u, TrieOf(d), t1, l, Len(Top(s)), MaxBitCount)
    BY <1>5, <2>1 DEF IsTrieOf
  <2> QED
    BY <1>1, <1>6, <2>1, <2>2 DEF AtStage, IsTrieOf
<1> QED
  BY <1>3, <1>5, <1>7, <1>8 DEF Filled

Forked(u, d, l, e, t, n, f, r) ==
  /\ AtStage("return", u, d, l, e, r)
  /\ DOMAIN u = DOMAIN t \cup {l, f} /\ n \in DOMAIN t
  /\ \A m \in DOMAIN t \ {n} : u[m] = t[m]

LEMMA SplitStep ==
  ASSUME NEW d, IsDictionary(d), NEW l \in FullLabel, l \notin LabelsOf(d), NEW e \in Nat,
         NEW t, IsTrieOf(t, d), NEW s, IsRoute(s, t, l), NEW n, n = Top(s), n # l,
         SplitsLeaf(t, n) \/ (~HasFreeSlot(t, n, l) /\ ~HasRoute(t, n, l)),
         NEW u, SplitAtNode(u, t, n, l, NewLeaf(LeafHash(l, Commit, e))),
         NEW f, f = CommonPrefix(l, n),
         NEW r, Backs(r, s, f)
  PROVE  Forked(u, d, l, e, t, n, f, r)
<1>1. PICK t1 : t1 = TrieOf(With(d, l, e))
  OBVIOUS
<1>2. OneMore(t, t1, l) /\ t1[l] = NewLeaf(LeafHash(l, Commit, e))
  BY <1>1, TrieWith DEF IsTrieOf
<1>3. /\ n \in DOMAIN t /\ n \in Label /\ Closed(t) /\ Shaped(t) /\ l \notin DOMAIN t
      /\ l \in Label
  BY <1>2, RouteTop, OneMoreFact, CompactFact
<1>4. ~Starts(n, l)
  BY <1>3, SplitLeaves
<1>5. Len(s) > 1
  <2>1. Starts(EmptyLabel, l)
    BY <1>3, Lengths
  <2> QED
    BY <1>4, <2>1, RouteIsLonger
<1>6. PICK a, p : Climbs(t, l, s, a, p) /\ a = SubSeq(s, 1, Len(s) - 1)
  BY <1>5, RouteClimbs
<1>7. /\ IsRoute(a, t, l) /\ Top(a) = p
      /\ p \in DOMAIN t /\ Starts(p, l) /\ p # l
      /\ n = ChildOn(t[p], l[Len(p) + 1]) /\ n # EmptyLabel
  BY <1>6 DEF Climbs
<1>8. PICK b \in Bit : b = l[Len(p) + 1] /\ IsUnder(l, p, b)
  <2>1. p \in Label
    BY <1>2, <1>7, OneMoreFact
  <2> QED
    BY <1>3, <1>7, <2>1, StartsIsUnder
<1>9. ForksAt(t, l, p, b, n)
  BY <1>4, <1>7, <1>8 DEF ForksAt
<1>10. /\ Marked(u, t, t1, l, Len(f), MaxBitCount)
       /\ DOMAIN u = DOMAIN t \cup {l, f}
       /\ \A m \in DOMAIN t \ {n} : u[m] = t[m]
  <2>1. SplitAtNode(u, t, n, l, t1[l])
    BY <1>2
  <2>2. SplitDone(u, t, t1, l, n, f)
    BY <1>2, <1>9, <2>1, SplitMarks
  <2> QED
    BY <2>2 DEF SplitDone
<1>11. f \in DOMAIN t1 /\ f \notin DOMAIN t /\ Starts(f, l) /\ ChildOn(t1[p], b) = f
  BY <1>2, <1>9, SplitGives DEF ForksAt
<1>12. IsRoute(a, t1, l)
  BY <1>2, <1>7, RouteOfMore
<1>13. IsRoute(r, t1, l) /\ Top(r) = f
  <2>1. f = ChildOn(t1[Top(a)], l[Len(Top(a)) + 1]) /\ f # EmptyLabel
    <3>1. EmptyLabel \in DOMAIN t
      BY <1>2, OneMoreFact
    <3> QED
      BY <1>7, <1>8, <1>11, <3>1
  <2> QED
    BY <1>6, <1>7, <1>11, <1>12, <2>1, RouteDown DEF Backs
<1>14. AtStage("return", u, d, l, e, r)
  BY <1>1, <1>10, <1>11, <1>13 DEF AtStage, IsTrieOf
<1> QED
  BY <1>3, <1>10, <1>14 DEF Forked

(* The nodes of list are those in which the trie u differs from t.         *)
Changes(t, u, list) ==
  /\ list \in Seq(DOMAIN u) /\ DOMAIN t \subseteq DOMAIN u /\ u = [n \in DOMAIN u |-> u[n]]
  /\ \A n \in DOMAIN u :
       (\E k \in DOMAIN list : list[k] = n) \/ (n \in DOMAIN t /\ u[n] = t[n])

Returned(u, t, p, l, c) == u = [t EXCEPT ![p] = SetChild(@, NextBit(p, l), c)]

LEMMA RouteBit ==
  ASSUME NEW l \in FullLabel, NEW p \in Label, Starts(p, l), p # l
  PROVE  NextBit(p, l) = l[Len(p) + 1] /\ NextBit(p, l) \in Bit
<1>1. CommonPrefixCount(l, p) = Len(p) /\ NextBit(p, l) = l[CommonPrefixCount(l, p) + 1]
      /\ NextBit(p, l) \in Bit
  BY CommonIsStart
<1> QED
  BY <1>1

ReturnDone(d, l, e, s, t, u) ==
  /\ AtStage("return", u, d, l, e, SubSeq(s, 1, Len(s) - 1))
  /\ Changes(t, u, <<s[Len(s) - 1]>>)

LEMMA ReturnStep ==
  ASSUME NEW d, IsDictionary(d), NEW l, NEW e \in Nat, NEW s, NEW t,
         AtStage("return", t, d, l, e, s), Len(s) > 1,
         NEW u, Returned(u, t, s[Len(s) - 1], l, Top(s))
  PROVE  ReturnDone(d, l, e, s, t, u)
<1>1. PICK t1 : /\ t1 = TrieOf(With(d, l, e)) /\ IsRoute(s, t1, l) /\ Starts(Top(s), l)
                /\ Marked(t, TrieOf(d), t1, l, Len(Top(s)), MaxBitCount)
                /\ l \in FullLabel /\ l \notin LabelsOf(d)
  BY DEF AtStage
<1>2. PICK t0 : t0 = TrieOf(d)
  OBVIOUS
<1>3. OneMore(t0, t1, l)
  BY <1>1, <1>2, TrieWith
<1>4. PICK a, p : Climbs(t1, l, s, a, p) /\ a = SubSeq(s, 1, Len(s) - 1) /\ p = s[Len(s) - 1]
  BY <1>1, RouteClimbs
<1>5. PICK c : c = Top(s)
  OBVIOUS
<1>6. /\ IsRoute(a, t1, l) /\ Top(a) = p
      /\ p \in DOMAIN t1 /\ Starts(p, l) /\ p # l
      /\ c = ChildOn(t1[p], l[Len(p) + 1]) /\ c # EmptyLabel
  BY <1>4, <1>5 DEF Climbs
<1>7. PICK b : b = l[Len(p) + 1] /\ b = NextBit(p, l) /\ b \in Bit
  BY <1>1, <1>3, <1>6, OneMoreFact, RouteBit
<1>8. Marked(t, t0, t1, l, Len(c), MaxBitCount) /\ Starts(c, l) /\ c = ChildOn(t1[p], b)
  BY <1>1, <1>2, <1>5, <1>6, <1>7
<1>9. u = [t EXCEPT ![p] = SetChild(@, b, c)]
  BY <1>4, <1>5, <1>7 DEF Returned
<1>10. /\ Marked(u, t0, t1, l, Len(p), MaxBitCount) /\ DOMAIN u = DOMAIN t
       /\ \A m \in DOMAIN t \ {p} : u[m] = t[m]
  BY <1>3, <1>6, <1>7, <1>8, <1>9, ReturnMarks
<1>11. AtStage("return", u, d, l, e, a)
  BY <1>1, <1>2, <1>6, <1>10 DEF AtStage
<1>12. Changes(t, u, <<p>>)
  <2>1. DOMAIN t = DOMAIN t1 /\ u = [n \in DOMAIN u |-> u[n]]
    BY <1>8, <1>10 DEF Marked
  <2>2. DOMAIN <<p>> = {1} /\ <<p>>[1] = p /\ <<p>> \in Seq(DOMAIN u)
    BY <1>6, <1>10, <2>1
  <2> QED
    BY <1>10, <2>1, <2>2 DEF Changes
<1> QED
  BY <1>4, <1>11, <1>12 DEF ReturnDone

(* The way to the new leaf, to compute the hashes above it. *)
LEMMA HashStage ==
  ASSUME NEW d, IsDictionary(d), NEW l, NEW e \in Nat, NEW s, NEW t, NEW pc \in {"hash", "hashed"},
         AtStage(pc, t, d, l, e, s)
  PROVE  \E t0, t1 : /\ t0 = TrieOf(d) /\ t1 = TrieOf(With(d, l, e)) /\ OneMore(t0, t1, l)
                     /\ IsRoute(s, t1, l) /\ Starts(Top(s), l)
                     /\ l \in FullLabel /\ l \notin LabelsOf(d)
                     /\ Marked(t, t0, t1, l, 0, IF pc = "hash" THEN MaxBitCount ELSE Len(Top(s)))
                     /\ View(t) = t /\ DOMAIN t = DOMAIN t1
                     /\ \A n \in DOMAIN t1 : /\ t[n].left = t1[n].left
                                             /\ t[n].right = t1[n].right
<1>1. PICK t1 : /\ t1 = TrieOf(With(d, l, e)) /\ IsRoute(s, t1, l) /\ Starts(Top(s), l)
                /\ Marked(t, TrieOf(d), t1, l, 0, IF pc = "hash" THEN MaxBitCount ELSE Len(Top(s)))
                /\ l \in FullLabel /\ l \notin LabelsOf(d)
  BY DEF AtStage
<1>2. PICK t0 : t0 = TrieOf(d)
  OBVIOUS
<1>3. OneMore(t0, t1, l)
  BY <1>1, <1>2, TrieWith
<1>4. PICK hi \in Nat : hi = IF pc = "hash" THEN MaxBitCount ELSE Len(Top(s))
  BY <1>1, <1>3, RouteTop, OneMoreFact, Lengths
<1>5. Marked(t, t0, t1, l, 0, hi)
  BY <1>1, <1>2, <1>4
<1>6. /\ View(t) = t /\ DOMAIN t = DOMAIN t1
      /\ \A n \in DOMAIN t1 : t[n].left = t1[n].left /\ t[n].right = t1[n].right
  BY <1>3, <1>5, MarkedView
<1> QED
  BY <1>1, <1>2, <1>3, <1>4, <1>5, <1>6

LEMMA FollowHashStep ==
  ASSUME NEW d, IsDictionary(d), NEW l, NEW e \in Nat, NEW s, NEW t,
         AtStage("hash", t, d, l, e, s), Top(s) # l, HasRoute(t, Top(s), l)
  PROVE  AtStage("hash", t, d, l, e, Followed(s, t, l))
<1>1. PICK t0, t1 : /\ t0 = TrieOf(d) /\ t1 = TrieOf(With(d, l, e)) /\ OneMore(t0, t1, l)
                    /\ IsRoute(s, t1, l) /\ Starts(Top(s), l)
                    /\ l \in FullLabel /\ l \notin LabelsOf(d)
                    /\ Marked(t, t0, t1, l, 0, MaxBitCount)
                    /\ View(t) = t /\ DOMAIN t = DOMAIN t1
                    /\ \A n \in DOMAIN t1 : t[n].left = t1[n].left /\ t[n].right = t1[n].right
  BY HashStage
<1>2. PICK n : n = Top(s)
  OBVIOUS
<1>3. n \in DOMAIN t1 /\ Compact(t1) /\ l \in DOMAIN t1
  BY <1>1, <1>2, RouteTop, OneMoreFact
<1>4. PICK c : c = ChildOn(t1[n], NextBit(n, l)) /\ c = ChildOn(t[n], NextBit(n, l))
  BY <1>1, <1>3 DEF ChildOn
<1>5. HasRoute(t1, n, l)
  BY <1>2, <1>4 DEF HasRoute
<1>6. IsRoute(Append(s, c), t1, l) /\ Top(Append(s, c)) = c
  <2>1. /\ IsRoute(s, t1, l) /\ l \in FullLabel /\ Compact(t1) /\ HasRoute(t1, Top(s), l)
    BY <1>1, <1>2, <1>3, <1>5
  <2>2. /\ IsRoute(Followed(s, t1, l), t1, l)
        /\ Top(Followed(s, t1, l)) = ChildOn(t1[Top(s)], NextBit(Top(s), l))
    BY <2>1, FollowsRoute
  <2>3. Followed(s, t1, l) = Append(s, c)
    BY <1>2, <1>4 DEF Followed
  <2> QED
    BY <1>2, <1>4, <2>2, <2>3
<1>7. Starts(c, l)
  BY <1>1, <1>2, <1>3, <1>4, LabelIsBelow
<1> QED
  BY <1>1, <1>2, <1>4, <1>6, <1>7 DEF AtStage, Followed

LEMMA FoundStep ==
  ASSUME NEW d, IsDictionary(d), NEW l, NEW e \in Nat, NEW s, NEW t,
         AtStage("hash", t, d, l, e, s), Top(s) = l
  PROVE  AtStage("hashed", t, d, l, e, s)
<1>1. PICK t1 : /\ t1 = TrieOf(With(d, l, e)) /\ IsRoute(s, t1, l) /\ Starts(Top(s), l)
                /\ Marked(t, TrieOf(d), t1, l, 0, MaxBitCount)
                /\ l \in FullLabel /\ l \notin LabelsOf(d)
  BY DEF AtStage
<1>2. Len(Top(s)) = MaxBitCount
  BY <1>1, Lengths
<1> QED
  BY <1>1, <1>2 DEF AtStage

(* update_hash on the node p and its sibling, of the trie t. *)
Siblings(t, p, l) ==
  LET s == ChildOn(View(t)[p], 1 - NextBit(p, l)) IN IF s = EmptyLabel THEN <<>> ELSE <<s>>
HashDone(d, l, e, s, t, first, v, u) ==
  /\ AtStage("hashed", u, d, l, e, SubSeq(s, 1, Len(s) - 1))
  /\ Changes(t, u, Rehashed(t, first) \o Rehashed(v, <<s[Len(s) - 1]>>))

LEMMA HashReturnStep ==
  ASSUME NEW d, IsDictionary(d), NEW l, NEW e \in Nat, NEW s, NEW t,
         AtStage("hashed", t, d, l, e, s), Len(s) > 1,
         NEW first, first = Siblings(t, s[Len(s) - 1], l),
         NEW v, Hashes(v, t, first), NEW u, Hashes(u, v, <<s[Len(s) - 1]>>)
  PROVE  HashDone(d, l, e, s, t, first, v, u)
<1>1. PICK t0, t1 : /\ t0 = TrieOf(d) /\ t1 = TrieOf(With(d, l, e)) /\ OneMore(t0, t1, l)
                    /\ IsRoute(s, t1, l) /\ Starts(Top(s), l)
                    /\ l \in FullLabel /\ l \notin LabelsOf(d)
                    /\ Marked(t, t0, t1, l, 0, Len(Top(s)))
                    /\ View(t) = t /\ DOMAIN t = DOMAIN t1
                    /\ \A n \in DOMAIN t1 : t[n].left = t1[n].left /\ t[n].right = t1[n].right
  BY HashStage
<1>4. PICK a, p : Climbs(t1, l, s, a, p) /\ a = SubSeq(s, 1, Len(s) - 1) /\ p = s[Len(s) - 1]
  BY <1>1, RouteClimbs
<1>5. PICK c : c = Top(s)
  OBVIOUS
<1>6. /\ IsRoute(a, t1, l) /\ Top(a) = p
      /\ p \in DOMAIN t1 /\ Starts(p, l) /\ p # l
      /\ c = ChildOn(t1[p], l[Len(p) + 1]) /\ c # EmptyLabel
  BY <1>4, <1>5 DEF Climbs
<1>7. PICK b \in Bit : b = l[Len(p) + 1] /\ b = NextBit(p, l)
  BY <1>1, <1>6, OneMoreFact, RouteBit
<1>8. PICK o \in Bit : o = 1 - b /\ o # b
  BY DEF Bit
<1>9. PICK x : x = ChildOn(t1[p], o)
  OBVIOUS
<1>10. first = IF x = EmptyLabel THEN <<>> ELSE <<x>>
  <2>1. ChildOn(View(t)[p], 1 - NextBit(p, l)) = x
    <3>1. ChildOn(t[p], o) = x
      BY <1>1, <1>6, <1>9 DEF ChildOn
    <3> QED
      BY <1>1, <1>7, <1>8, <3>1
  <2> QED
    BY <1>4, <2>1 DEF Siblings
<1>11. Hashes(u, v, <<p>>) /\ Marked(t, t0, t1, l, 0, Len(c)) /\ Starts(c, l)
       /\ c = ChildOn(t1[p], b)
  BY <1>1, <1>4, <1>5, <1>6, <1>7
<1>12. /\ Marked(u, t0, t1, l, 0, Len(p)) /\ DOMAIN u = DOMAIN t
       /\ \A m \in DOMAIN t :
            \/ u[m] = t[m]
            \/ m = x /\ x # EmptyLabel /\ Rehashed(t, first) = <<x>>
            \/ m = p /\ Rehashed(v, <<p>>) = <<p>>
       /\ Rehashed(t, first) \in {<<>>, <<x>>} /\ Rehashed(v, <<p>>) \in {<<>>, <<p>>}
       /\ x \in DOMAIN t /\ p \in DOMAIN t
  <2>1. HashMarked(t, t0, t1, l, p, x, first, v, u)
    BY <1>1, <1>6, <1>7, <1>8, <1>9, <1>10, <1>11, HashMarks
  <2> QED
    BY <2>1 DEF HashMarked
<1>13. AtStage("hashed", u, d, l, e, a)
  BY <1>1, <1>6, <1>12 DEF AtStage
<1>14. PICK r1, r2 : r1 = Rehashed(t, first) /\ r2 = Rehashed(v, <<p>>)
  OBVIOUS
<1>15. /\ r1 \in {<<>>, <<x>>} /\ r2 \in {<<>>, <<p>>} /\ x \in DOMAIN u /\ p \in DOMAIN u
       /\ \A m \in DOMAIN t : u[m] = t[m] \/ (m = x /\ r1 = <<x>>) \/ (m = p /\ r2 = <<p>>)
       /\ u = [n \in DOMAIN u |-> u[n]] /\ DOMAIN u = DOMAIN t
  BY <1>12, <1>14 DEF Marked
<1>16. Changes(t, u, r1 \o r2)
  <2>1. r1 \o r2 \in Seq(DOMAIN u)
    <3>1. <<>> \in Seq(DOMAIN u) /\ \A y \in DOMAIN u : <<y>> \in Seq(DOMAIN u)
      OBVIOUS
    <3>2. r1 \in Seq(DOMAIN u)
      BY <1>15, <3>1, Zenon
    <3>3. r2 \in Seq(DOMAIN u)
      BY <1>15, <3>1, Zenon
    <3> QED
      BY <3>2, <3>3
  <2>2. ASSUME r1 = <<x>> PROVE \E k \in DOMAIN (r1 \o r2) : (r1 \o r2)[k] = x
    <3>1. 1 \in DOMAIN (r1 \o r2) /\ (r1 \o r2)[1] = x
      BY <1>15, <2>2
    <3> QED
      BY <3>1
  <2>3. ASSUME r2 = <<p>> PROVE \E k \in DOMAIN (r1 \o r2) : (r1 \o r2)[k] = p
    <3>1. CASE r1 = <<>>
      <4>1. 1 \in DOMAIN (r1 \o r2) /\ (r1 \o r2)[1] = p
        BY <2>3, <3>1
      <4> QED
        BY <4>1
    <3>2. CASE r1 = <<x>>
      <4>1. 2 \in DOMAIN (r1 \o r2) /\ (r1 \o r2)[2] = p
        BY <2>3, <3>2
      <4> QED
        BY <4>1
    <3> QED
      BY <1>15, <3>1, <3>2
  <2> QED
    BY <1>15, <2>1, <2>2, <2>3 DEF Changes
<1> QED
  BY <1>4, <1>13, <1>14, <1>16 DEF HashDone

(* At the root the trie is the one of the dictionary with the new label. *)
LEMMA FinishStep ==
  ASSUME NEW d, IsDictionary(d), NEW l, NEW e \in Nat, NEW s, NEW t,
         AtStage("hashed", t, d, l, e, s), Len(s) = 1
  PROVE  /\ t = TrieOf(With(d, l, e)) /\ l \in FullLabel /\ l \notin LabelsOf(d)
         /\ IsDictionary(With(d, l, e))
<1>1. PICK t0, t1 : /\ t0 = TrieOf(d) /\ t1 = TrieOf(With(d, l, e)) /\ OneMore(t0, t1, l)
                    /\ IsRoute(s, t1, l) /\ l \in FullLabel /\ l \notin LabelsOf(d)
                    /\ Marked(t, t0, t1, l, 0, Len(Top(s)))
  BY HashStage
<1>2. Len(Top(s)) = 0
  BY <1>1, RouteTop, Lengths
<1>3. \A n \in DOMAIN t1 : Len(n) \in Nat /\ n \in Label
  BY <1>1, OneMoreFact, Lengths
<1>4. ASSUME NEW n \in DOMAIN t1 PROVE t[n] = t1[n]
  <2>1. CASE Starts(n, l)
    BY <1>1, <1>2, <1>3, <2>1 DEF Marked
  <2>2. CASE ~Starts(n, l)
    <3>1. ~Beside(t1, l, n, 0)
      BY <1>3 DEF Beside
    <3> QED
      BY <1>1, <1>2, <2>2, <3>1 DEF Marked
  <2> QED
    BY <2>1, <2>2
<1>5. t = t1
  <2>1. t = [n \in DOMAIN t1 |-> t[n]] /\ t1 = [n \in DOMAIN t1 |-> t1[n]]
    BY <1>1 DEF Marked, OneMore
  <2> QED
    BY <1>4, <2>1
<1> QED
  BY <1>1, <1>5, WithFact

-----------------------------------------------------------------------------
(* What memory and storage hold of a trie                                  *)

Saved(k, node) == IF k = "Linked" THEN SetDirtyBit(node, FALSE) ELSE node
Pending(saves, n) == \E j \in DOMAIN saves : saves[j].label = n
Saves(list, u) == [j \in DOMAIN list |-> [label |-> list[j], node |-> u[list[j]]]]

(* With the saves that are still to come, storage has the nodes of t; of   *)
(* Stored tries memory has only the root.                                  *)
Holds(t, k, m, st, saves) ==
  /\ t = [n \in DOMAIN t |-> t[n]] /\ EmptyLabel \in DOMAIN t
  /\ m = IF k = "Linked" THEN t ELSE Root(t)
  /\ st = [n \in DOMAIN st |-> st[n]] /\ DOMAIN st \subseteq DOMAIN t
  /\ saves \in Seq({[label |-> n, node |-> t[n]] : n \in DOMAIN t})
  /\ \A n \in DOMAIN t : Pending(saves, n) \/ (n \in DOMAIN st /\ st[n] = Saved(k, t[n]))

LEMMA NothingPending ==
  ASSUME NEW n
  PROVE  ~Pending(<<>>, n)
BY DEF Pending

LEMMA ChangeHolds ==
  ASSUME NEW t, NEW k, NEW m, NEW st, Holds(t, k, m, st, <<>>), NEW u, NEW list,
         Changes(t, u, list)
  PROVE  Holds(u, k, IF k = "Linked" THEN u ELSE Root(u), st, Saves(list, u))
<1> DEFINE nodes == {[label |-> n, node |-> u[n]] : n \in DOMAIN u}
           saves == Saves(list, u)
<1>1. /\ list \in Seq(DOMAIN u) /\ DOMAIN t \subseteq DOMAIN u /\ u = [n \in DOMAIN u |-> u[n]]
      /\ \A n \in DOMAIN u :
           (\E j \in DOMAIN list : list[j] = n) \/ (n \in DOMAIN t /\ u[n] = t[n])
  BY DEF Changes
<1>2. /\ DOMAIN saves = DOMAIN list
      /\ \A j \in DOMAIN list : saves[j] = [label |-> list[j], node |-> u[list[j]]]
  BY DEF Saves
<1>3. saves \in Seq(nodes)
  <2>1. PICK N \in Nat : DOMAIN list = 1..N /\ \A j \in 1..N : list[j] \in DOMAIN u
    BY <1>1
  <2>2. saves = [j \in 1..N |-> [label |-> list[j], node |-> u[list[j]]]]
    BY <2>1 DEF Saves
  <2>3. \A j \in 1..N : [label |-> list[j], node |-> u[list[j]]] \in nodes
    BY <2>1, Zenon
  <2> HIDE DEF nodes, saves
  <2> QED
    BY <2>2, <2>3
<1>4. ASSUME NEW n \in DOMAIN u
      PROVE  Pending(saves, n) \/ (n \in DOMAIN st /\ st[n] = Saved(k, u[n]))
  <2>1. CASE \E j \in DOMAIN list : list[j] = n
    <3>1. PICK j \in DOMAIN list : list[j] = n
      BY <2>1
    <3>2. saves[j].label = n /\ j \in DOMAIN saves
      BY <1>2, <3>1
    <3> QED
      BY <3>2 DEF Pending
  <2>2. CASE n \in DOMAIN t /\ u[n] = t[n]
    BY <2>2, NothingPending DEF Holds
  <2> QED
    BY <1>1, <2>1, <2>2
<1>5. /\ EmptyLabel \in DOMAIN u /\ st = [n \in DOMAIN st |-> st[n]] /\ DOMAIN st \subseteq DOMAIN u
  BY <1>1 DEF Holds
<1> HIDE DEF saves
<1> QED
  BY <1>1, <1>3, <1>4, <1>5 DEF Holds, saves

(* A save makes true of storage what was pending. *)
LEMMA SaveHolds ==
  ASSUME NEW t, NEW k, NEW m, NEW st, NEW saves, Holds(t, k, m, st, saves), saves # <<>>,
         NEW s, s = Head(saves),
         NEW st1, st1 = [n \in DOMAIN st \cup {s.label} |->
                           IF n = s.label THEN Saved(k, s.node) ELSE st[n]]
  PROVE  Holds(t, k, m, st1, Tail(saves))
<1> DEFINE nodes == {[label |-> n, node |-> t[n]] : n \in DOMAIN t}
<1>1. saves \in Seq(nodes)
  BY DEF Holds
<1>2. \A x \in nodes : x.label \in DOMAIN t /\ x.node = t[x.label]
  OBVIOUS
<1> HIDE DEF nodes
<1>3. /\ Tail(saves) \in Seq(nodes) /\ s \in nodes /\ s = saves[1]
      /\ \A j \in DOMAIN saves : j # 1 =>
           j - 1 \in DOMAIN Tail(saves) /\ Tail(saves)[j - 1] = saves[j]
  <2>1. Tail(saves) \in Seq(nodes) /\ Len(Tail(saves)) = Len(saves) - 1
        /\ DOMAIN saves = 1..Len(saves) /\ Len(saves) \in Nat \ {0}
        /\ DOMAIN Tail(saves) = 1..Len(Tail(saves)) /\ s = saves[1]
    BY <1>1
  <2>2. s \in nodes
    BY <1>1, <2>1
  <2>3. ASSUME NEW j \in DOMAIN saves, j # 1
        PROVE  j - 1 \in DOMAIN Tail(saves) /\ Tail(saves)[j - 1] = saves[j]
    BY <1>1, <2>1, <2>3
  <2> QED
    BY <2>1, <2>2, <2>3
<1>4. s.label \in DOMAIN t /\ s.node = t[s.label]
  BY <1>2, <1>3
<1>5. /\ DOMAIN st1 = DOMAIN st \cup {s.label} /\ st1 = [n \in DOMAIN st1 |-> st1[n]]
      /\ st1[s.label] = Saved(k, t[s.label])
      /\ \A n \in DOMAIN st : n # s.label => st1[n] = st[n]
  BY <1>4
<1>6. ASSUME NEW n \in DOMAIN t
      PROVE  Pending(Tail(saves), n) \/ (n \in DOMAIN st1 /\ st1[n] = Saved(k, t[n]))
  <2>1. CASE n = s.label
    BY <1>5, <2>1
  <2>2. CASE n # s.label /\ Pending(saves, n)
    <3>1. PICK j \in DOMAIN saves : saves[j].label = n
      BY <2>2 DEF Pending
    <3>2. j # 1
      BY <1>3, <2>2, <3>1
    <3> QED
      BY <1>3, <3>1, <3>2 DEF Pending
  <2>3. CASE n # s.label /\ ~Pending(saves, n)
    BY <1>5, <2>3 DEF Holds
  <2> QED
    BY <2>1, <2>2, <2>3
<1>7. DOMAIN st1 \subseteq DOMAIN t
  BY <1>4, <1>5 DEF Holds
<1> QED
  BY <1>3, <1>5, <1>6, <1>7 DEF Holds, nodes

(* When nothing is pending, the nodes that are read are those of t. *)
LEMMA HeldTrie ==
  ASSUME NEW t, NEW k, NEW m, NEW st, Holds(t, k, m, st, <<>>)
  PROVE  /\ k = "Linked" => m = t
         /\ k # "Linked" => [n \in DOMAIN st |-> IF n = EmptyLabel THEN m[n] ELSE st[n]] = t
         /\ (\A n \in DOMAIN t : IsNodeOf(t[n], DOMAIN t) /\ ~t[n].dirty) => st = t
<1>1. /\ t = [n \in DOMAIN t |-> t[n]] /\ EmptyLabel \in DOMAIN t
      /\ m = IF k = "Linked" THEN t ELSE Root(t)
      /\ st = [n \in DOMAIN st |-> st[n]] /\ DOMAIN st = DOMAIN t
      /\ \A n \in DOMAIN t : st[n] = Saved(k, t[n])
  BY NothingPending DEF Holds
<1>2. ASSUME k # "Linked"
      PROVE  [n \in DOMAIN st |-> IF n = EmptyLabel THEN m[n] ELSE st[n]] = t
  <2>1. m[EmptyLabel] = t[EmptyLabel]
    BY <1>1, <1>2 DEF Root
  <2>2. \A n \in DOMAIN t : st[n] = t[n]
    BY <1>1, <1>2 DEF Saved
  <2> QED
    BY <1>1, <2>1, <2>2
<1>3. ASSUME \A n \in DOMAIN t : IsNodeOf(t[n], DOMAIN t) /\ ~t[n].dirty
      PROVE  st = t
  <2>1. ASSUME NEW n \in DOMAIN t PROVE st[n] = t[n]
    <3>1. t[n] = Node(t[n].left, t[n].right, t[n].hash, t[n].dirty) /\ t[n].dirty = FALSE
      BY <1>3 DEF IsNodeOf
    <3>2. SetDirtyBit(t[n], FALSE) = t[n]
      BY <3>1 DEF SetDirtyBit
    <3> QED
      BY <1>1, <3>2 DEF Saved
  <2> QED
    BY <1>1, <2>1
<1> QED
  BY <1>1, <1>2, <1>3

-----------------------------------------------------------------------------
(* What can be reached from the root                                       *)

Below(t, S) == S \cup UNION {{t[n].left, t[n].right} : n \in S \cap DOMAIN t}
Level(t, f, k) == IF k = 0 THEN {EmptyLabel} ELSE Below(t, f[k - 1])

LEMMA LevelsExist ==
  ASSUME NEW t, NEW N \in Nat
  PROVE  \E f : f = [k \in 0..N |-> Level(t, f, k)]
<1> DEFINE Bad == {m \in Nat : ~\E f : f = [k \in 0..m |-> Level(t, f, k)]}
<1> SUFFICES ASSUME Bad # {} PROVE FALSE
  OBVIOUS
<1>1. PICK m \in Bad : \A j \in Bad : m <= j
  <2>1. Bad \subseteq Nat
    OBVIOUS
  <2> HIDE DEF Bad
  <2> QED
    BY <2>1, LeastNatural
<1>2. \A f, k : Level(t, f, k) = IF k = 0 THEN {EmptyLabel} ELSE Below(t, f[k - 1])
  BY Zenon DEF Level
<1>3. m # 0
  <2> DEFINE g == [k \in 0..0 |-> {EmptyLabel}]
  <2>1. g = [k \in 0..0 |-> Level(t, g, k)]
    BY <1>2
  <2> QED
    BY <1>1, <2>1
<1>4. m - 1 \in Nat /\ m - 1 \notin Bad
  BY <1>1, <1>3
<1>5. PICK f : f = [k \in 0..(m - 1) |-> Level(t, f, k)]
  BY <1>4
<1> DEFINE g == [k \in 0..m |-> IF k < m THEN f[k] ELSE Below(t, f[m - 1])]
<1>6. \A k \in 0..(m - 1) : f[k] = Level(t, f, k)
  BY <1>5
<1>7. \A k \in 0..m : g[k] = Level(t, g, k)
  <2> SUFFICES ASSUME NEW k \in 0..m
               PROVE  g[k] = Level(t, g, k)
    OBVIOUS
  <2>1. k # 0 => g[k - 1] = f[k - 1]
    OBVIOUS
  <2>2. CASE k < m
    <3>1. g[k] = f[k] /\ f[k] = Level(t, f, k)
      BY <1>6, <2>2
    <3>2. Level(t, f, k) = Level(t, g, k)
      <4> HIDE DEF g
      <4> QED
        BY <1>2, <2>1
    <3> QED
      BY <3>1, <3>2
  <2>3. CASE k = m
    BY <1>2, <1>3, <2>1, <2>3
  <2> QED
    BY <2>2, <2>3
<1>8. g = [k \in 0..m |-> Level(t, g, k)]
  BY <1>7
<1> QED
  BY <1>1, <1>8

LEMMA ReachedLevels ==
  ASSUME NEW t
  PROVE  \E f : /\ Reached(t) = f[MaxBitCount + 1] /\ f[0] = {EmptyLabel}
                /\ \A k \in 1..MaxBitCount + 1 : f[k] = Below(t, f[k - 1])
<1> DEFINE rhs(f, k) == IF k = 0 THEN {EmptyLabel}
                        ELSE f[k - 1] \cup UNION {{t[n].left, t[n].right} : n \in f[k - 1] \cap DOMAIN t}
           h == CHOOSE f : f = [k \in 0..MaxBitCount + 1 |-> rhs(f, k)]
<1>1. Reached(t) = h[MaxBitCount + 1]
  BY Zenon DEF Reached
<1>2. \A f, k : rhs(f, k) = Level(t, f, k)
  BY Zenon DEF Level, Below
<1>3. MaxBitCount + 1 \in Nat
  BY MaxBitCountAssumption
<1>4. PICK f : f = [k \in 0..MaxBitCount + 1 |-> Level(t, f, k)]
  BY <1>3, LevelsExist
<1> HIDE DEF rhs
<1>5. f = [k \in 0..MaxBitCount + 1 |-> rhs(f, k)]
  BY <1>2, <1>4, Zenon
<1>6. h = [k \in 0..MaxBitCount + 1 |-> rhs(h, k)]
  BY <1>5, Zenon
<1>7. h = [k \in 0..MaxBitCount + 1 |-> Level(t, h, k)]
  BY <1>2, <1>6, Zenon
<1> HIDE DEF h
<1>8. \A k \in 0..MaxBitCount + 1 : h[k] = Level(t, h, k)
  BY <1>7
<1>9. /\ h[0] = {EmptyLabel}
      /\ \A k \in 1..MaxBitCount + 1 : h[k] = Below(t, h[k - 1])
  <2>1. \A k \in 1..MaxBitCount + 1 : k \in 0..MaxBitCount + 1 /\ k # 0
    BY MaxBitCountAssumption
  <2>2. 0 \in 0..MaxBitCount + 1
    BY MaxBitCountAssumption
  <2> QED
    BY <1>8, <2>1, <2>2 DEF Level
<1> QED
  BY <1>1, <1>9

(* All nodes of a compact trie are reached. *)
LEMMA CompactIsReached ==
  ASSUME NEW t, Compact(t)
  PROVE  DOMAIN t \subseteq Reached(t)
<1>1. PICK f : /\ Reached(t) = f[MaxBitCount + 1] /\ f[0] = {EmptyLabel}
               /\ \A k \in 1..MaxBitCount + 1 : f[k] = Below(t, f[k - 1])
  BY ReachedLevels
<1> SUFFICES ASSUME NEW x \in DOMAIN t PROVE x \in f[MaxBitCount + 1]
  BY <1>1
<1> DEFINE Near(k) == \E y \in f[k] \cap DOMAIN t : Starts(y, x) /\ (y = x \/ Len(y) >= k)
           Bad == {k \in 0..MaxBitCount + 1 : ~Near(k)}
<1>2. x \in Label /\ EmptyLabel \in DOMAIN t /\ DOMAIN t \subseteq Label
  BY CompactFact
<1>3. Near(0)
  BY <1>1, <1>2, Lengths
<1>4. ASSUME NEW k \in 1..MaxBitCount + 1, Near(k - 1)
      PROVE  Near(k)
  <2>1. PICK y \in f[k - 1] \cap DOMAIN t : Starts(y, x) /\ (y = x \/ Len(y) >= k - 1)
    BY <1>4
  <2>2. y \in f[k]
    BY <1>1, <2>1 DEF Below
  <2>3. CASE y = x
    BY <2>1, <2>2, <2>3
  <2>4. CASE y # x
    <3>1. y \in Label /\ IsUnder(x, y, x[Len(y) + 1]) /\ x[Len(y) + 1] \in Bit
      BY <1>2, <2>1, <2>4, StartsIsUnder
    <3>2. PICK c : c = ChildOn(t[y], x[Len(y) + 1])
      OBVIOUS
    <3>3. c \in DOMAIN t /\ c \in Label /\ Starts(c, x) /\ IsUnder(c, y, x[Len(y) + 1])
      BY <2>1, <3>1, <3>2, CompactFact
    <3>4. c \in {t[y].left, t[y].right}
      BY <3>2 DEF ChildOn
    <3>5. c \in f[k]
      BY <1>1, <2>1, <3>4 DEF Below
    <3>6. Len(c) >= k
      <4>1. Len(c) \in Nat /\ Len(y) \in Nat /\ Len(y) < Len(c) /\ Len(y) >= k - 1
        BY <2>1, <2>4, <3>1, <3>3, LabelLen DEF IsUnder
      <4> QED
        BY <4>1, MaxBitCountAssumption
    <3> QED
      BY <3>3, <3>5, <3>6
  <2> QED
    BY <2>3, <2>4
<1>5. Bad = {}
  <2> SUFFICES ASSUME Bad # {} PROVE FALSE
    OBVIOUS
  <2>1. PICK k \in Bad : \A j \in Bad : k <= j
    <3>1. Bad \subseteq Nat
      OBVIOUS
    <3> HIDE DEF Bad
    <3> QED
      BY <3>1, LeastNatural
  <2>2. k \in 0..MaxBitCount + 1 /\ ~Near(k) /\ k # 0
    BY <1>3, <2>1
  <2>3. k - 1 \in 0..MaxBitCount + 1 /\ k - 1 \notin Bad /\ k \in 1..MaxBitCount + 1
    BY <2>1, <2>2, MaxBitCountAssumption
  <2>4. Near(k - 1)
    BY <2>3
  <2> HIDE DEF Near, Bad
  <2> QED
    BY <1>4, <2>2, <2>3, <2>4
<1>6. Near(MaxBitCount + 1)
  <2>1. MaxBitCount + 1 \in 0..MaxBitCount + 1
    BY MaxBitCountAssumption
  <2> HIDE DEF Near
  <2> QED
    BY <1>5, <2>1
<1>7. PICK y \in f[MaxBitCount + 1] \cap DOMAIN t : y = x \/ Len(y) >= MaxBitCount + 1
  BY <1>6
<1>8. Len(y) \in 0..MaxBitCount
  BY <1>2, <1>7, LabelLen
<1> QED
  BY <1>7, <1>8, MaxBitCountAssumption

-----------------------------------------------------------------------------
(* Between calls the trie is the one of the dictionary                     *)

LEMMA EmptyTrieIs == EmptyTrie = TrieOf({})
<1>1. LabelsOf({}) = {} /\ NodeLabels({}) = {EmptyLabel}
  BY DEF LabelsOf, NodeLabels
<1>2. \A p : FirstUnder({}, p) = EmptyLabel
  BY <1>1 DEF FirstUnder
<1>3. TrieOf({})[EmptyLabel].hash = ZeroHash
  BY <1>1, TrieOfGives
<1>4. /\ DOMAIN TrieOf({}) = NodeLabels({})
      /\ TrieOf({})[EmptyLabel] = Node(LeftOf({}, EmptyLabel), RightOf({}, EmptyLabel),
                                       TrieOf({})[EmptyLabel].hash, FALSE)
  BY <1>1, TrieOfFact
<1>5. TrieOf({})[EmptyLabel] = EmptyRoot
  <2>1. LeftOf({}, EmptyLabel) = EmptyLabel /\ RightOf({}, EmptyLabel) = EmptyLabel
    BY <1>2 DEF LeftOf, RightOf
  <2>2. EmptyLabel \in NodeLabels({})
    BY <1>1
  <2>3. TrieOf({})[EmptyLabel] = Node(EmptyLabel, EmptyLabel, ZeroHash, FALSE)
    BY <1>3, <1>4, <2>1, <2>2
  <2> QED
    BY <2>3 DEF EmptyRoot, NewLeaf
<1>6. TrieOf({}) = [n \in DOMAIN TrieOf({}) |-> TrieOf({})[n]]
  BY DEF TrieOf
<1> QED
  BY <1>1, <1>4, <1>5, <1>6 DEF EmptyTrie

LEMMA EmptyIsDictionary == IsDictionary({})
BY DEF IsDictionary

(* Where bytes are kept, a node of CTNodeStored loses its mark when it is  *)
(* read again (ct_node_stored.cpp, Load), and its hash is not updated.     *)
(* Setups with an inserter either keep objects, as MemoryStorage does, or  *)
(* have all nodes in memory.                                               *)
MarksAreKept ==
  \A s \in Setups : s.inserter => s.objects \/ s.kinds = {"Linked"}

Stage == IF op.pc = "save" THEN op.next ELSE op.pc

(* The trie t that the insert has made so far: memory and storage hold it, *)
(* the latter with what op still has to save.                              *)
IsAt(t) ==
  /\ Holds(t, kind, memory, stored, op.saves)
  /\ AtStage(Stage, t, dict, op.label, epoch, op.stack)

OpShape ==
  /\ op = [pc |-> op.pc, label |-> op.label, stack |-> op.stack, saves |-> op.saves,
           next |-> op.next]
  /\ op.pc # "save" => op.saves = <<>>
  /\ op.pc = "save" => op.next \in {"return", "hashed"}

Inside ==
  /\ IsDictionary(dict) /\ IsDictionary(keptDict) /\ kept = TrieOf(keptDict)
  /\ epoch \in Nat /\ record \in Nat /\ keptRecord \in Nat
  /\ kind \in NodeKinds \cup {"none"} /\ OpShape
  /\ kind = "none" => stored = TrieOf(dict) /\ op = NoInsert
  /\ kind # "none" => \E t : IsAt(t)

IInv == setup \in Setups /\ (HasInserter => Inside)

(* The invariant holds at first. *)
LEMMA InitInside == Init => IInv
<1> SUFFICES ASSUME Init PROVE IInv
  OBVIOUS
<1>1. /\ setup \in Setups /\ kind \in NodeKinds /\ memory = EmptyTrie /\ stored = EmptyTrie
      /\ kept = EmptyTrie /\ epoch = 0 /\ record = 0 /\ keptRecord = 0
      /\ op = NoInsert /\ dict = {} /\ keptDict = {}
  BY DEF Init
<1>2. kind # "none"
  BY <1>1, SetupsAssumption DEF NodeKinds
<1>3. OpShape /\ op.pc = "idle" /\ op.saves = <<>>
  BY <1>1 DEF OpShape, NoInsert
<1>4. PICK t : t = EmptyTrie
  OBVIOUS
<1>5. /\ t = [n \in DOMAIN t |-> t[n]] /\ DOMAIN t = {EmptyLabel} /\ Root(t) = t
      /\ t[EmptyLabel] = EmptyRoot
  BY <1>4 DEF EmptyTrie, Root
<1>6. Saved(kind, EmptyRoot) = EmptyRoot
  BY DEF Saved, EmptyRoot, NewLeaf, SetDirtyBit, Node
<1>7. Holds(t, kind, memory, stored, op.saves)
  BY <1>1, <1>3, <1>4, <1>5, <1>6 DEF Holds
<1>8. AtStage(Stage, t, dict, op.label, epoch, op.stack)
  BY <1>1, <1>3, <1>4, EmptyTrieIs DEF AtStage, Stage
<1> QED
  BY <1>1, <1>2, <1>3, <1>7, <1>8, EmptyTrieIs, EmptyIsDictionary DEF IInv, Inside, IsAt

(* Between the saves, the trie that the code reads is this one. *)
LEMMA TrieIsAt ==
  ASSUME MarksAreKept, setup \in Setups, HasInserter, Inside, kind # "none", op.pc # "save"
  PROVE  \E t : /\ Trie = t /\ Holds(t, kind, memory, stored, <<>>)
                /\ AtStage(op.pc, t, dict, op.label, epoch, op.stack)
<1>1. PICK t : /\ Holds(t, kind, memory, stored, <<>>)
               /\ AtStage(op.pc, t, dict, op.label, epoch, op.stack)
  BY DEF Inside, IsAt, OpShape, Stage
<1>2. kind # "Linked" => KeepsObjects
  <2>1. kind \in NodeKinds
    BY DEF Inside
  <2> QED
    BY <2>1 DEF MarksAreKept, HasInserter, KeepsObjects, NodeKinds
<1>3. /\ kind = "Linked" => memory = t
      /\ kind # "Linked" => [n \in DOMAIN stored |-> IF n = EmptyLabel THEN memory[n]
                                                     ELSE stored[n]] = t
  BY <1>1, HeldTrie
<1>4. Trie = t
  BY <1>2, <1>3 DEF Trie, AsRead
<1> QED
  BY <1>1, <1>4

LEMMA InsideGives ==
  ASSUME MarksAreKept
  PROVE  IInv => TrieIsOfDictionary
<1> SUFFICES ASSUME IInv, HasInserter, Idle, kind # "none" PROVE Trie = TrieOf(dict)
  BY DEF TrieIsOfDictionary
<1>1. PICK t : Trie = t /\ AtStage("idle", t, dict, op.label, epoch, op.stack)
  BY TrieIsAt DEF IInv, Idle
<1> QED
  BY <1>1 DEF AtStage

(* The steps that change nothing but where the insert is. *)
LEMMA GotoInside ==
  ASSUME setup \in Setups, HasInserter, Inside, kind # "none", op.saves = <<>>,
         NEW t, Holds(t, kind, memory, stored, <<>>),
         NEW pc, pc # "save", NEW stack, AtStage(pc, t, dict, op.label, epoch, stack),
         Goto(pc, stack)
  PROVE  IInv'
<1>1. /\ op' = [op EXCEPT !.pc = pc, !.stack = stack]
      /\ UNCHANGED <<setup, kind, memory, epoch, stored, record, kept, keptRecord, dict, keptDict>>
  BY DEF Goto
<1>2. /\ op'.pc = pc /\ op'.label = op.label /\ op'.stack = stack /\ op'.saves = <<>>
      /\ OpShape'
  BY <1>1 DEF OpShape, Inside
<1>3. IsAt(t)'
  BY <1>1, <1>2 DEF IsAt, Stage
<1>4. Inside'
  BY <1>1, <1>2, <1>3 DEF Inside, NodeKinds
<1> QED
  BY <1>1, <1>4 DEF IInv, HasInserter

(* The steps that make the trie u of t and begin to save the nodes of list. *)
LEMMA ChangeInside ==
  ASSUME setup \in Setups, HasInserter, Inside, kind # "none",
         NEW t, Holds(t, kind, memory, stored, <<>>),
         NEW u, NEW list, Changes(t, u, list), NEW stack, NEW next \in {"return", "hashed"},
         AtStage(next, u, dict, op.label, epoch, stack), Change(u, list, stack, next)
  PROVE  IInv'
<1>1. /\ memory' = IF kind = "Linked" THEN u ELSE Root(u)
      /\ op' = [op EXCEPT !.pc = "save", !.stack = stack, !.next = next,
                          !.saves = Saves(list, u)]
      /\ UNCHANGED <<setup, kind, epoch, stored, record, kept, keptRecord, dict, keptDict>>
  BY DEF Change, Saves
<1>2. /\ op'.pc = "save" /\ op'.label = op.label /\ op'.stack = stack /\ op'.next = next
      /\ op'.saves = Saves(list, u) /\ OpShape'
  <2>1. PICK saves : saves = Saves(list, u)
    OBVIOUS
  <2>2. op' = [op EXCEPT !.pc = "save", !.stack = stack, !.next = next, !.saves = saves]
    BY <1>1, <2>1
  <2>3. /\ op'.pc = "save" /\ op'.label = op.label /\ op'.stack = stack /\ op'.next = next
        /\ op'.saves = saves /\ OpShape'
    BY <2>2 DEF OpShape, Inside
  <2> QED
    BY <2>1, <2>3
<1>3. Holds(u, kind, memory', stored, op'.saves)
  BY <1>1, <1>2, ChangeHolds
<1>4. IsAt(u)'
  BY <1>1, <1>2, <1>3 DEF IsAt, Stage
<1>5. Inside'
  BY <1>1, <1>2, <1>4 DEF Inside, NodeKinds
<1> QED
  BY <1>1, <1>5 DEF IInv, HasInserter

LEMMA SaveNodeInside ==
  ASSUME setup \in Setups, HasInserter, Inside, kind # "none", SaveNode
  PROVE  IInv'
<1>1. PICK t : IsAt(t)
  BY DEF Inside
<1>2. PICK s : s = Head(op.saves)
  OBVIOUS
<1>3. /\ op.pc = "save" /\ op.saves # <<>> /\ op' = [op EXCEPT !.saves = Tail(op.saves)]
      /\ stored' = [n \in DOMAIN stored \cup {s.label} |->
                      IF n = s.label THEN Saved(kind, s.node) ELSE stored[n]]
      /\ UNCHANGED <<setup, kind, memory, epoch, record, kept, keptRecord, dict, keptDict>>
  BY <1>2 DEF SaveNode, AsSaved, Saved
<1>4. PICK saves : saves = Tail(op.saves)
  OBVIOUS
<1>5. op' = [op EXCEPT !.saves = saves]
  BY <1>3, <1>4
<1>6. /\ op'.pc = "save" /\ op'.label = op.label /\ op'.stack = op.stack /\ op'.next = op.next
      /\ op'.saves = saves /\ OpShape'
  BY <1>3, <1>5 DEF OpShape, Inside
<1>7. Holds(t, kind, memory, stored', saves)
  BY <1>1, <1>2, <1>3, <1>4, SaveHolds DEF IsAt
<1>8. IsAt(t)'
  BY <1>1, <1>3, <1>6, <1>7 DEF IsAt, Stage
<1>9. Inside'
  BY <1>3, <1>6, <1>8 DEF Inside, NodeKinds
<1> QED
  BY <1>3, <1>9 DEF IInv, HasInserter

LEMMA SavesDoneInside ==
  ASSUME setup \in Setups, HasInserter, Inside, kind # "none", SavesDone
  PROVE  IInv'
<1>1. PICK t : IsAt(t)
  BY DEF Inside
<1>2. PICK pc, stack : pc = op.next /\ stack = op.stack
  OBVIOUS
<1>3. op.pc = "save" /\ op.saves = <<>> /\ Goto(pc, stack)
  BY <1>2 DEF SavesDone
<1>4. pc # "save"
  BY <1>2, <1>3 DEF Inside, OpShape
<1>5. Holds(t, kind, memory, stored, <<>>) /\ AtStage(pc, t, dict, op.label, epoch, stack)
  BY <1>1, <1>2, <1>3 DEF IsAt, Stage
<1> QED
  BY <1>3, <1>4, <1>5, GotoInside

LEMMA TopIsCurrent == Top(op.stack) = Current
BY DEF Top, Current

LEMMA FollowInside ==
  ASSUME MarksAreKept, setup \in Setups, HasInserter, Inside, kind # "none", Follow
  PROVE  IInv'
<1>1. op.pc = "insert" /\ Current # op.label /\ Follows
      /\ Goto("insert", Append(op.stack, ChildOn(Trie[Current], NextBit(Current, op.label))))
  BY DEF Follow
<1>2. PICK t : /\ Trie = t /\ Holds(t, kind, memory, stored, <<>>)
               /\ AtStage("insert", t, dict, op.label, epoch, op.stack)
  BY <1>1, TrieIsAt
<1>3. PICK l, s, d, e : l = op.label /\ s = op.stack /\ d = dict /\ e = epoch
  OBVIOUS
<1>4. IsDictionary(d) /\ t = TrieOf(d) /\ l \in FullLabel /\ IsRoute(s, t, l)
  BY <1>2, <1>3 DEF AtStage, Inside
<1>5. Compact(t) /\ View(t) = t
  BY <1>4, TrieOfDictionary
<1>6. HasRoute(t, Top(s), l) /\ Top(s) # l /\ Current = Top(s)
  BY <1>1, <1>2, <1>3, <1>5, TopIsCurrent DEF Follows
<1>7. IsRoute(Followed(s, t, l), t, l)
  BY <1>4, <1>5, <1>6, FollowsRoute
<1>8. PICK r : r = Followed(s, t, l)
  OBVIOUS
<1>9. AtStage("insert", t, dict, op.label, epoch, r) /\ Goto("insert", r)
  <2>1. AtStage("insert", t, d, l, e, r)
    BY <1>4, <1>7, <1>8 DEF AtStage
  <2>2. r = Append(op.stack, ChildOn(Trie[Current], NextBit(Current, op.label)))
    BY <1>2, <1>3, <1>6, <1>8 DEF Followed
  <2> QED
    BY <1>1, <1>3, <2>1, <2>2
<1>10. op.saves = <<>>
  BY <1>1 DEF Inside, OpShape
<1> QED
  BY <1>2, <1>9, <1>10, GotoInside

(* A label that the dictionary has is not attached. *)
LEMMA NewIsNotKnown ==
  ASSUME MarksAreKept, setup \in Setups, HasInserter, Inside, kind # "none",
         op.pc = "insert", Current # op.label, ~Follows
  PROVE  \E t : /\ Trie = t /\ Holds(t, kind, memory, stored, <<>>)
                /\ t = TrieOf(dict) /\ IsRoute(op.stack, t, op.label)
                /\ op.label \in FullLabel /\ op.label \notin LabelsOf(dict)
                /\ View(t) = t /\ (SplitsLeaf(t, Current) \/ ~HasRoute(t, Current, op.label))
<1>1. PICK t : /\ Trie = t /\ Holds(t, kind, memory, stored, <<>>)
               /\ AtStage("insert", t, dict, op.label, epoch, op.stack)
  BY TrieIsAt
<1>2. PICK l, s, d, n : l = op.label /\ s = op.stack /\ d = dict /\ n = Current
  OBVIOUS
<1>3. IsDictionary(d) /\ t = TrieOf(d) /\ l \in FullLabel /\ IsRoute(s, t, l) /\ n = Top(s)
  BY <1>1, <1>2, TopIsCurrent DEF AtStage, Inside
<1>4. Compact(t) /\ View(t) = t /\ DOMAIN t \cap FullLabel = LabelsOf(d)
  BY <1>3, TrieOfDictionary
<1>5. SplitsLeaf(t, n) \/ ~HasRoute(t, n, l)
  BY <1>1, <1>2, <1>4 DEF Follows
<1>6. l \notin LabelsOf(d)
  BY <1>2, <1>3, <1>4, <1>5, KnownFollows
<1> QED
  BY <1>1, <1>2, <1>3, <1>4, <1>5, <1>6

LEMMA LeafIs == Leaf = NewLeaf(LeafHash(op.label, Commit, epoch))
BY DEF Leaf

LEMMA AttachInSlotInside ==
  ASSUME MarksAreKept, setup \in Setups, HasInserter, Inside, kind # "none", AttachInSlot
  PROVE  IInv'
<1>1. /\ op.pc = "insert" /\ Current # op.label /\ FindsFreeSlot
      /\ Change(FillSlot(Trie, Current, op.label, Leaf), <<Current, op.label>>,
                op.stack, "return")
  BY DEF AttachInSlot
<1>2. ~Follows
  BY <1>1 DEF FindsFreeSlot, Follows, HasFreeSlot, HasRoute
<1>3. PICK t : /\ Trie = t /\ Holds(t, kind, memory, stored, <<>>)
               /\ t = TrieOf(dict) /\ IsRoute(op.stack, t, op.label)
               /\ op.label \in FullLabel /\ op.label \notin LabelsOf(dict) /\ View(t) = t
  BY <1>1, <1>2, NewIsNotKnown
<1>4. PICK l, s, d, e, n : l = op.label /\ s = op.stack /\ d = dict /\ e = epoch /\ n = Current
  OBVIOUS
<1>5. PICK u, list : /\ u = FillSlot(t, n, l, NewLeaf(LeafHash(l, Commit, e)))
                     /\ list = <<n, l>>
  OBVIOUS
<1>6. /\ IsDictionary(d) /\ l \in FullLabel /\ l \notin LabelsOf(d) /\ e \in Nat
      /\ IsTrieOf(t, d) /\ IsRoute(s, t, l) /\ n = Top(s) /\ n # l
      /\ ~SplitsLeaf(t, n) /\ FilledAt(u, t, n, l, NewLeaf(LeafHash(l, Commit, e)))
  BY <1>1, <1>3, <1>4, <1>5, TopIsCurrent DEF Inside, IsTrieOf, FindsFreeSlot, FilledAt
<1>7. /\ AtStage("return", u, d, l, e, s)
      /\ DOMAIN u = DOMAIN t \cup {l} /\ n \in DOMAIN t
      /\ \A m \in DOMAIN t \ {n} : m # l /\ u[m] = t[m]
  <2>1. Filled(u, d, l, e, t, n, s)
    BY <1>6, FillStep
  <2> QED
    BY <2>1 DEF Filled
<1>8. Changes(t, u, list)
  <2>1. u = [m \in DOMAIN u |-> u[m]]
    BY <1>5 DEF FillSlot
  <2>2. DOMAIN list = {1, 2} /\ list[1] = n /\ list[2] = l /\ list \in Seq(DOMAIN u)
    BY <1>5, <1>7
  <2> QED
    BY <1>7, <2>1, <2>2 DEF Changes
<1>9. AtStage("return", u, dict, op.label, epoch, s) /\ Change(u, list, s, "return")
  <2>1. /\ u = FillSlot(Trie, Current, op.label, Leaf) /\ list = <<Current, op.label>>
        /\ s = op.stack
    BY <1>3, <1>4, <1>5, LeafIs
  <2> QED
    BY <1>1, <1>4, <1>7, <2>1
<1> QED
  BY <1>3, <1>8, <1>9, ChangeInside

LEMMA AppendToTwo ==
  ASSUME NEW x, NEW y, NEW z
  PROVE  Append(<<x, y>>, z) = <<x, y, z>>
<1>1. PICK S : S = {x, y, z}
  OBVIOUS
<1>2. PICK q : q = <<x, y>>
  OBVIOUS
<1>3. q \in Seq(S) /\ Len(q) = 2 /\ q[1] = x /\ q[2] = y /\ z \in S
  BY <1>1, <1>2
<1>4. PICK a : a = Append(q, z)
  OBVIOUS
<1>5. a \in Seq(S) /\ Len(a) = 3 /\ a[1] = x /\ a[2] = y /\ a[3] = z
  <2>1. /\ a \in Seq(S) /\ Len(a) = Len(q) + 1 /\ a[Len(q) + 1] = z
        /\ \A k \in 1..Len(q) : a[k] = q[k]
    BY <1>3, <1>4, AppendFact
  <2> QED
    BY <1>3, <2>1
<1>6. a = <<a[1], a[2], a[3]>>
  BY <1>5
<1> QED
  BY <1>2, <1>4, <1>5, <1>6

LEMMA AttachBySplitInside ==
  ASSUME MarksAreKept, setup \in Setups, HasInserter, Inside, kind # "none", AttachBySplit
  PROVE  IInv'
<1>1. PICK list : /\ list = Append(IF NextBit(Current, op.label) = 0 THEN <<op.label, Current>>
                                   ELSE <<Current, op.label>>,
                                   CommonPrefix(op.label, Current))
                  /\ op.pc = "insert" /\ Current # op.label /\ ~Follows /\ ~FindsFreeSlot
                  /\ Change(SplitAt(Current), list,
                            Append(Above, CommonPrefix(op.label, Current)), "return")
  BY DEF AttachBySplit
<1>2. PICK t : /\ Trie = t /\ Holds(t, kind, memory, stored, <<>>)
               /\ t = TrieOf(dict) /\ IsRoute(op.stack, t, op.label)
               /\ op.label \in FullLabel /\ op.label \notin LabelsOf(dict) /\ View(t) = t
               /\ (SplitsLeaf(t, Current) \/ ~HasRoute(t, Current, op.label))
  BY <1>1, NewIsNotKnown
<1>3. PICK l, s, d, e, n : l = op.label /\ s = op.stack /\ d = dict /\ e = epoch /\ n = Current
  OBVIOUS
<1>4. PICK f, r : f = CommonPrefix(l, n) /\ r = Append(SubSeq(s, 1, Len(s) - 1), f)
  OBVIOUS
<1>5. PICK u : u = IF SplitsLeaf(t, n) THEN SplitLeaf(t, n, l, NewLeaf(LeafHash(l, Commit, e)))
                   ELSE SplitEdge(t, n, l, NewLeaf(LeafHash(l, Commit, e)))
  OBVIOUS
<1>6. /\ IsDictionary(d) /\ l \in FullLabel /\ l \notin LabelsOf(d) /\ e \in Nat
      /\ IsTrieOf(t, d) /\ IsRoute(s, t, l) /\ n = Top(s) /\ n # l /\ Backs(r, s, f)
      /\ SplitsLeaf(t, n) \/ (~HasFreeSlot(t, n, l) /\ ~HasRoute(t, n, l))
      /\ SplitAtNode(u, t, n, l, NewLeaf(LeafHash(l, Commit, e)))
  BY <1>1, <1>2, <1>3, <1>4, <1>5, TopIsCurrent
     DEF Inside, IsTrieOf, FindsFreeSlot, SplitAtNode, Backs
<1>7. /\ AtStage("return", u, d, l, e, r)
      /\ DOMAIN u = DOMAIN t \cup {l, f} /\ n \in DOMAIN t
      /\ \A m \in DOMAIN t \ {n} : u[m] = t[m]
  <2>1. Forked(u, d, l, e, t, n, f, r)
    BY <1>4, <1>6, SplitStep
  <2> QED
    BY <2>1 DEF Forked
<1>8. Changes(t, u, list)
  <2>1. u = [m \in DOMAIN u |-> u[m]]
    BY <1>5 DEF SplitLeaf, SplitEdge
  <2>2. list \in {<<l, n, f>>, <<n, l, f>>}
    <3>1. list = <<l, n, f>> \/ list = <<n, l, f>>
      <4>1. Append(<<l, n>>, f) = <<l, n, f>> /\ Append(<<n, l>>, f) = <<n, l, f>>
        BY AppendToTwo
      <4> QED
        BY <1>1, <1>3, <1>4, <4>1, Zenon
    <3> QED
      BY <3>1
  <2>3. /\ list \in Seq(DOMAIN u)
        /\ \A m \in {l, n, f} : \E k \in DOMAIN list : list[k] = m
    <3>1. /\ DOMAIN list = {1, 2, 3} /\ list[3] = f
          /\ (list[1] = l /\ list[2] = n) \/ (list[1] = n /\ list[2] = l)
      BY <2>2
    <3>2. list \in Seq(DOMAIN u)
      <4>1. l \in DOMAIN u /\ n \in DOMAIN u /\ f \in DOMAIN u
        BY <1>7
      <4>2. <<l, n, f>> \in Seq(DOMAIN u) /\ <<n, l, f>> \in Seq(DOMAIN u)
        BY <4>1
      <4> QED
        BY <2>2, <4>2
    <3> QED
      BY <3>1, <3>2
  <2> QED
    BY <1>7, <2>1, <2>3 DEF Changes
<1>9. AtStage("return", u, dict, op.label, epoch, r) /\ Change(u, list, r, "return")
  <2>1. u = SplitAt(Current) /\ r = Append(Above, CommonPrefix(op.label, Current))
    BY <1>2, <1>3, <1>4, <1>5, LeafIs DEF SplitAt, Above
  <2> QED
    BY <1>1, <1>3, <1>7, <2>1
<1> QED
  BY <1>2, <1>8, <1>9, ChangeInside

LEMMA ThrowInside ==
  ASSUME MarksAreKept, setup \in Setups, HasInserter, Inside, kind # "none", ThrowSameLabel
  PROVE  IInv'
<1>1. /\ op.pc = "insert" /\ op' = NoInsert
      /\ UNCHANGED <<setup, kind, memory, epoch, stored, record, kept, keptRecord, dict, keptDict>>
  BY DEF ThrowSameLabel
<1>2. PICK t : /\ Trie = t /\ Holds(t, kind, memory, stored, <<>>)
               /\ AtStage("insert", t, dict, op.label, epoch, op.stack)
  BY <1>1, TrieIsAt
<1>3. t = TrieOf(dict)
  BY <1>2 DEF AtStage
<1>4. op'.pc = "idle" /\ op'.saves = <<>> /\ OpShape'
  BY <1>1 DEF NoInsert, OpShape
<1>5. IsAt(t)'
  BY <1>1, <1>2, <1>3, <1>4 DEF IsAt, Stage, AtStage
<1>6. Inside'
  BY <1>1, <1>4, <1>5 DEF Inside, NodeKinds
<1> QED
  BY <1>1, <1>6 DEF IInv, HasInserter

LEMMA ReturnInside ==
  ASSUME MarksAreKept, setup \in Setups, HasInserter, Inside, kind # "none", ReturnFromInsert
  PROVE  IInv'
<1>1. PICK t : /\ Trie = t /\ Holds(t, kind, memory, stored, <<>>)
               /\ AtStage("return", t, dict, op.label, epoch, op.stack)
  BY TrieIsAt DEF ReturnFromInsert
<1>2. PICK l, s, d, e, p : l = op.label /\ s = op.stack /\ d = dict /\ e = epoch /\ p = Caller
  OBVIOUS
<1>3. PICK u : u = [t EXCEPT ![p] = SetChild(@, NextBit(p, l), Top(s))]
  OBVIOUS
<1>4. PICK list, a : list = <<p>> /\ a = SubSeq(s, 1, Len(s) - 1)
  OBVIOUS
<1>5. Len(s) > 1 /\ p = s[Len(s) - 1] /\ Change(u, list, a, "return")
  <2>1. u = [Trie EXCEPT ![Caller] = SetChild(@, NextBit(Caller, op.label), Current)]
    BY <1>1, <1>2, <1>3, TopIsCurrent
  <2>2. list = <<Caller>> /\ a = Above /\ p = s[Len(s) - 1]
    BY <1>2, <1>4 DEF Above, Caller
  <2> QED
    BY <1>2, <2>1, <2>2 DEF ReturnFromInsert
<1>6. ReturnDone(d, l, e, s, t, u)
  <2>1. IsDictionary(d) /\ e \in Nat /\ AtStage("return", t, d, l, e, s)
    BY <1>1, <1>2 DEF Inside
  <2>2. Returned(u, t, s[Len(s) - 1], l, Top(s))
    BY <1>3, <1>5 DEF Returned
  <2> QED
    BY <1>5, <2>1, <2>2, ReturnStep
<1>7. AtStage("return", u, dict, op.label, epoch, a) /\ Changes(t, u, list)
  BY <1>2, <1>4, <1>5, <1>6 DEF ReturnDone
<1> QED
  BY <1>1, <1>5, <1>7, ChangeInside

LEMMA BeginHashesInside ==
  ASSUME MarksAreKept, setup \in Setups, HasInserter, Inside, kind # "none", BeginHashes
  PROVE  IInv'
<1>1. PICK t : /\ Trie = t /\ Holds(t, kind, memory, stored, <<>>)
               /\ AtStage("return", t, dict, op.label, epoch, op.stack)
  BY TrieIsAt DEF BeginHashes
<1>2. PICK l, s, d, e : l = op.label /\ s = op.stack /\ d = dict /\ e = epoch
  OBVIOUS
<1>3. AtStage("return", t, d, l, e, s) /\ Len(s) = 1
  BY <1>1, <1>2 DEF BeginHashes
<1>4. PICK t1 : /\ t1 = TrieOf(With(d, l, e)) /\ IsRoute(s, t1, l) /\ Starts(Top(s), l)
                /\ Marked(t, TrieOf(d), t1, l, Len(Top(s)), MaxBitCount)
                /\ l \in FullLabel /\ l \notin LabelsOf(d)
  BY <1>3 DEF AtStage
<1>5. Len(Top(s)) = 0
  BY <1>3, <1>4, RouteTop, Lengths
<1>6. AtStage("hash", t, d, l, e, s)
  BY <1>4, <1>5 DEF AtStage
<1>7. Goto("hash", s) /\ op.saves = <<>> /\ AtStage("hash", t, dict, op.label, epoch, s)
  BY <1>2, <1>6 DEF BeginHashes, Inside, OpShape
<1> QED
  BY <1>1, <1>7, GotoInside

LEMMA FollowToHashInside ==
  ASSUME MarksAreKept, setup \in Setups, HasInserter, Inside, kind # "none", FollowToHash
  PROVE  IInv'
<1>1. PICK t : /\ Trie = t /\ Holds(t, kind, memory, stored, <<>>)
               /\ AtStage("hash", t, dict, op.label, epoch, op.stack)
  BY TrieIsAt DEF FollowToHash
<1>2. PICK l, s, d, e : l = op.label /\ s = op.stack /\ d = dict /\ e = epoch
  OBVIOUS
<1>3. IsDictionary(d) /\ e \in Nat /\ AtStage("hash", t, d, l, e, s) /\ Current = Top(s)
  BY <1>1, <1>2, TopIsCurrent DEF Inside
<1>4. View(t) = t
  BY <1>3, HashStage
<1>5. Top(s) # l /\ HasRoute(t, Top(s), l)
  BY <1>1, <1>2, <1>3, <1>4 DEF FollowToHash
<1>6. PICK r : r = Followed(s, t, l)
  OBVIOUS
<1>7. AtStage("hash", t, d, l, e, r)
  BY <1>3, <1>5, <1>6, FollowHashStep
<1>8. Goto("hash", r) /\ op.saves = <<>>
  <2>1. r = Append(op.stack, ChildOn(Trie[Current], NextBit(Current, op.label)))
    BY <1>1, <1>2, <1>3, <1>6 DEF Followed
  <2> QED
    BY <2>1 DEF FollowToHash, Inside, OpShape
<1>9. AtStage("hash", t, dict, op.label, epoch, r)
  BY <1>2, <1>7
<1> QED
  BY <1>1, <1>8, <1>9, GotoInside

LEMMA HashFoundInside ==
  ASSUME MarksAreKept, setup \in Setups, HasInserter, Inside, kind # "none", HashFound
  PROVE  IInv'
<1>1. PICK t : /\ Trie = t /\ Holds(t, kind, memory, stored, <<>>)
               /\ AtStage("hash", t, dict, op.label, epoch, op.stack)
  BY TrieIsAt DEF HashFound
<1>2. PICK l, s, d, e : l = op.label /\ s = op.stack /\ d = dict /\ e = epoch
  OBVIOUS
<1>3. IsDictionary(d) /\ e \in Nat /\ AtStage("hash", t, d, l, e, s) /\ Top(s) = l
  BY <1>1, <1>2, TopIsCurrent DEF Inside, HashFound
<1>4. AtStage("hashed", t, d, l, e, s)
  BY <1>3, FoundStep
<1>5. /\ Goto("hashed", s) /\ op.saves = <<>>
      /\ AtStage("hashed", t, dict, op.label, epoch, s)
  BY <1>2, <1>4 DEF HashFound, Inside, OpShape
<1> QED
  BY <1>1, <1>5, GotoInside

LEMMA HashReturnInside ==
  ASSUME MarksAreKept, setup \in Setups, HasInserter, Inside, kind # "none", HashReturn
  PROVE  IInv'
<1>1. PICK t : /\ Trie = t /\ Holds(t, kind, memory, stored, <<>>)
               /\ AtStage("hashed", t, dict, op.label, epoch, op.stack)
  BY TrieIsAt DEF HashReturn
<1>2. PICK l, s, d, e, p : l = op.label /\ s = op.stack /\ d = dict /\ e = epoch /\ p = Caller
  OBVIOUS
<1>3. PICK first : first = Siblings(t, p, l)
  OBVIOUS
<1>4. PICK v : v = HashedIn(t, first)
  OBVIOUS
<1>5. PICK u : u = HashedIn(v, <<p>>)
  OBVIOUS
<1>6. PICK list, a : list = Rehashed(t, first) \o Rehashed(v, <<p>>)
                     /\ a = SubSeq(s, 1, Len(s) - 1)
  OBVIOUS
<1>7. Len(s) > 1 /\ p = s[Len(s) - 1] /\ Change(u, list, a, "hashed")
  <2>1. first = LET sibling == ChildOn(View(Trie)[Caller], 1 - NextBit(Caller, op.label))
                IN  IF sibling = EmptyLabel THEN <<>> ELSE <<sibling>>
    BY <1>1, <1>2, <1>3 DEF Siblings
  <2>2. a = Above /\ p = s[Len(s) - 1]
    BY <1>2, <1>6 DEF Above, Caller
  <2>3. v = HashedIn(Trie, first) /\ u = HashedIn(v, <<Caller>>)
        /\ list = Rehashed(Trie, first) \o Rehashed(v, <<Caller>>)
    BY <1>1, <1>2, <1>4, <1>5, <1>6
  <2> QED
    BY <1>2, <2>1, <2>2, <2>3, Zenon DEF HashReturn
<1>8. HashDone(d, l, e, s, t, first, v, u)
  <2>1. IsDictionary(d) /\ e \in Nat /\ AtStage("hashed", t, d, l, e, s)
    BY <1>1, <1>2 DEF Inside
  <2>2. Hashes(v, t, first) /\ Hashes(u, v, <<s[Len(s) - 1]>>)
        /\ first = Siblings(t, s[Len(s) - 1], l)
    BY <1>3, <1>4, <1>5, <1>7 DEF Hashes
  <2> QED
    BY <1>7, <2>1, <2>2, HashReturnStep
<1>9. AtStage("hashed", u, dict, op.label, epoch, a) /\ Changes(t, u, list)
  BY <1>2, <1>6, <1>7, <1>8 DEF HashDone
<1> QED
  BY <1>1, <1>7, <1>9, ChangeInside

LEMMA FinishInside ==
  ASSUME MarksAreKept, setup \in Setups, HasInserter, Inside, kind # "none", Finish
  PROVE  IInv'
<1>1. PICK t : /\ Trie = t /\ Holds(t, kind, memory, stored, <<>>)
               /\ AtStage("hashed", t, dict, op.label, epoch, op.stack)
  BY TrieIsAt DEF Finish
<1>2. PICK l, s, d, e : l = op.label /\ s = op.stack /\ d = dict /\ e = epoch
  OBVIOUS
<1>3. IsDictionary(d) /\ e \in Nat /\ AtStage("hashed", t, d, l, e, s) /\ Len(s) = 1
  BY <1>1, <1>2 DEF Inside, Finish
<1>4. PICK d1 : d1 = With(d, l, e)
  OBVIOUS
<1>5. t = TrieOf(d1) /\ IsDictionary(d1)
  BY <1>3, <1>4, FinishStep
<1>6. /\ record' = epoch /\ op' = NoInsert /\ dict' = d1
      /\ UNCHANGED <<setup, kind, memory, epoch, stored, kept, keptRecord, keptDict>>
  BY <1>2, <1>4 DEF Finish, With
<1>7. op'.pc = "idle" /\ op'.saves = <<>> /\ OpShape'
  BY <1>6 DEF NoInsert, OpShape
<1>8. IsAt(t)'
  BY <1>1, <1>5, <1>6, <1>7 DEF IsAt, Stage, AtStage
<1>9. Inside'
  BY <1>5, <1>6, <1>7, <1>8 DEF Inside, NodeKinds
<1> QED
  BY <1>6, <1>9 DEF IInv, HasInserter

LEMMA BeginInside ==
  ASSUME MarksAreKept, setup \in Setups, HasInserter, Inside, kind # "none",
         NEW l \in FullLabel, BeginInsert(l)
  PROVE  IInv'
<1>1. /\ op.pc = "idle" /\ epoch' = epoch + 1
      /\ op' = [op EXCEPT !.pc = "insert", !.label = l, !.stack = <<EmptyLabel>>]
      /\ UNCHANGED <<setup, kind, memory, stored, record, kept, keptRecord, dict, keptDict>>
  BY DEF BeginInsert, Idle
<1>2. PICK t : /\ Trie = t /\ Holds(t, kind, memory, stored, <<>>)
               /\ AtStage("idle", t, dict, op.label, epoch, op.stack)
  BY <1>1, TrieIsAt
<1>3. t = TrieOf(dict) /\ EmptyLabel \in DOMAIN t
  BY <1>2 DEF AtStage, Holds
<1>4. /\ op'.pc = "insert" /\ op'.label = l /\ op'.stack = <<EmptyLabel>> /\ op'.saves = <<>>
      /\ OpShape'
  BY <1>1 DEF OpShape, Inside
<1>5. IsRoute(<<EmptyLabel>>, t, l)
  BY <1>3, RouteStarts
<1>6. IsAt(t)'
  BY <1>1, <1>2, <1>3, <1>4, <1>5 DEF IsAt, Stage, AtStage
<1>7. epoch' \in Nat
  BY <1>1 DEF Inside
<1>8. Inside'
  BY <1>1, <1>4, <1>6, <1>7 DEF Inside, NodeKinds
<1> QED
  BY <1>1, <1>8 DEF IInv, HasInserter

(* Between calls storage has the trie of the dictionary. *)
LEMMA StoredIsTrie ==
  ASSUME setup \in Setups, HasInserter, Inside, Idle
  PROVE  stored = TrieOf(dict)
<1>1. CASE kind = "none"
  BY <1>1 DEF Inside
<1>2. CASE kind # "none"
  <2>1. PICK t : IsAt(t)
    BY <1>2 DEF Inside
  <2>2. Holds(t, kind, memory, stored, <<>>) /\ t = TrieOf(dict)
    BY <2>1 DEF IsAt, Idle, Stage, AtStage, Inside, OpShape
  <2>3. \A n \in DOMAIN t : IsNodeOf(t[n], DOMAIN t) /\ ~t[n].dirty
    BY <2>2, TrieOfDictionary DEF Inside
  <2>4. stored = t
    BY <2>2, <2>3, HeldTrie
  <2> QED
    BY <2>2, <2>4
<1> QED
  BY <1>1, <1>2

LEMMA FlushInside ==
  ASSUME setup \in Setups, HasInserter, Inside, Flush
  PROVE  IInv'
<1>1. /\ kept' = stored /\ keptRecord' = record /\ keptDict' = dict /\ Idle
      /\ UNCHANGED <<setup, kind, memory, epoch, stored, record, op, dict>>
  BY DEF Flush
<1>2. kept' = TrieOf(keptDict')
  <2>1. stored = TrieOf(dict)
    BY <1>1, StoredIsTrie
  <2> QED
    BY <1>1, <2>1
<1>3. \A t : IsAt(t) => IsAt(t)'
  BY <1>1 DEF IsAt, Stage
<1>4. OpShape'
  BY <1>1 DEF OpShape, Inside
<1>5. Inside'
  BY <1>1, <1>2, <1>3, <1>4 DEF Inside, NodeKinds
<1> QED
  BY <1>1, <1>5 DEF IInv, HasInserter

LEMMA StopInside ==
  ASSUME setup \in Setups, HasInserter, Inside, Stop
  PROVE  IInv'
<1>1. /\ kind' = "none" /\ epoch' = 0 /\ op' = NoInsert
      /\ stored' = kept /\ record' = keptRecord /\ dict' = keptDict
      /\ UNCHANGED <<setup, kept, keptRecord, keptDict>>
  BY DEF Stop
<1>2. OpShape'
  BY <1>1 DEF NoInsert, OpShape
<1>3. stored' = TrieOf(dict')
  BY <1>1 DEF Inside
<1>4. Inside'
  BY <1>1, <1>2, <1>3 DEF Inside, NodeKinds
<1> QED
  BY <1>1, <1>4 DEF IInv, HasInserter

(* A trie that is loaded is the one that storage has, when that is clean. *)
LEMMA LoadedHolds ==
  ASSUME NEW d, IsDictionary(d), NEW t, t = TrieOf(d), NEW k
  PROVE  Holds(t, k, IF k = "Linked" THEN t ELSE Root(t), t, <<>>)
<1>1. /\ t = [n \in DOMAIN t |-> t[n]] /\ EmptyLabel \in DOMAIN t
      /\ \A n \in DOMAIN t : IsNodeOf(t[n], DOMAIN t) /\ ~t[n].dirty
  BY TrieOfDictionary
<1>2. ASSUME NEW n \in DOMAIN t PROVE t[n] = Saved(k, t[n])
  <2>1. t[n] = Node(t[n].left, t[n].right, t[n].hash, t[n].dirty) /\ t[n].dirty = FALSE
    BY <1>1 DEF IsNodeOf
  <2> QED
    BY <2>1 DEF SetDirtyBit, Saved
<1> QED
  BY <1>1, <1>2 DEF Holds

LEMMA LoadInside ==
  ASSUME setup \in Setups, HasInserter, Inside, kind = "none",
         kind' \in NodeKinds, epoch' = record,
         memory' = IF kind' = "Linked" THEN stored ELSE Root(stored),
         UNCHANGED <<setup, stored, record, kept, keptRecord, op, dict, keptDict>>
  PROVE  IInv'
<1>1. PICK t : t = stored /\ t = TrieOf(dict) /\ IsDictionary(dict)
  BY DEF Inside
<1>2. op.pc = "idle" /\ op.saves = <<>>
  BY DEF Inside, NoInsert
<1>3. \A k : Holds(t, k, IF k = "Linked" THEN t ELSE Root(t), t, <<>>)
  BY <1>1, LoadedHolds
<1>4. Holds(t, kind', memory', t, <<>>)
  BY <1>1, <1>3
<1>5. IsAt(t)'
  BY <1>1, <1>2, <1>4 DEF IsAt, Stage, AtStage
<1>6. OpShape' /\ kind' # "none"
  BY SetupsAssumption DEF OpShape, Inside, NodeKinds
<1>7. Inside'
  BY <1>5, <1>6 DEF Inside, NodeKinds
<1> QED
  BY <1>7 DEF IInv, HasInserter

LEMMA LoadStoredInside ==
  ASSUME MarksAreKept, setup \in Setups, HasInserter, Inside, LoadStored
  PROVE  IInv'
<1>1. /\ kind = "none" /\ "Stored" \in NodeKinds /\ kind' = "Stored" /\ epoch' = record
      /\ memory' = [n \in {EmptyLabel} |-> AsRead(stored[n])]
      /\ UNCHANGED <<setup, stored, record, kept, keptRecord, op, dict, keptDict>>
  BY DEF LoadStored
<1>2. KeepsObjects
  BY <1>1 DEF MarksAreKept, HasInserter, KeepsObjects, NodeKinds
<1>3. memory' = Root(stored)
  BY <1>1, <1>2 DEF AsRead, Root
<1> QED
  BY <1>1, <1>3, LoadInside

LEMMA LoadLinkedInside ==
  ASSUME setup \in Setups, HasInserter, Inside, LoadLinked
  PROVE  IInv'
<1>1. /\ kind = "none" /\ "Linked" \in NodeKinds /\ kind' = "Linked" /\ epoch' = record
      /\ Reached(stored) \subseteq DOMAIN stored
      /\ memory' = [n \in Reached(stored) |-> SetDirtyBit(stored[n], FALSE)]
      /\ UNCHANGED <<setup, stored, record, kept, keptRecord, op, dict, keptDict>>
  BY DEF LoadLinked
<1>2. PICK t : t = stored /\ t = TrieOf(dict) /\ IsDictionary(dict)
  BY <1>1 DEF Inside
<1>3. /\ Compact(t) /\ t = [n \in DOMAIN t |-> t[n]]
      /\ \A n \in DOMAIN t : IsNodeOf(t[n], DOMAIN t) /\ ~t[n].dirty
  BY <1>2, TrieOfDictionary
<1>4. Reached(t) = DOMAIN t
  BY <1>1, <1>2, <1>3, CompactIsReached
<1>5. ASSUME NEW n \in DOMAIN t PROVE SetDirtyBit(t[n], FALSE) = t[n]
  <2>1. t[n] = Node(t[n].left, t[n].right, t[n].hash, t[n].dirty) /\ t[n].dirty = FALSE
    BY <1>3 DEF IsNodeOf
  <2> QED
    BY <2>1 DEF SetDirtyBit
<1>6. [n \in Reached(t) |-> SetDirtyBit(t[n], FALSE)] = t
  BY <1>3, <1>4, <1>5
<1>7. memory' = stored
  BY <1>1, <1>2, <1>6
<1> QED
  BY <1>1, <1>7, LoadInside

(* Every step keeps the invariant. *)
LEMMA NextInside ==
  ASSUME MarksAreKept, IInv, [Next]_vars
  PROVE  IInv'
<1>1. setup \in Setups
  BY DEF IInv
<1>2. setup' = setup
  BY DEF Next, InsertStep, vars, BeginInsert, ThrowSameLabel, Follow, AttachInSlot, AttachBySplit,
         ReturnFromInsert, BeginHashes, FollowToHash, HashFound, HashReturn, Finish, SaveNode,
         SavesDone, Flush, Stop, LoadStored, LoadLinked, Goto, Change
<1>3. CASE ~HasInserter
  BY <1>1, <1>2, <1>3 DEF IInv, HasInserter
<1>4. CASE HasInserter
  <2>1. Inside
    BY <1>4 DEF IInv
  <2>2. CASE UNCHANGED vars
    <3>1. \A t : IsAt(t) => IsAt(t)'
      BY <2>2 DEF IsAt, Stage, vars
    <3>2. Inside'
      BY <2>1, <2>2, <3>1 DEF Inside, NodeKinds, OpShape, vars
    <3> QED
      BY <1>1, <1>2, <3>2 DEF IInv
  <2>3. ASSUME NEW l \in FullLabel, BeginInsert(l) PROVE IInv'
    BY <1>1, <1>4, <2>1, <2>3, BeginInside DEF BeginInsert
  <2>4. CASE InsertStep
    <3>1. kind # "none"
      <4>1. op.pc # "idle"
        BY <2>4 DEF InsertStep, ThrowSameLabel, Follow, AttachInSlot, AttachBySplit,
           ReturnFromInsert, BeginHashes, FollowToHash, HashFound, HashReturn, Finish, SaveNode,
           SavesDone
      <4> QED
        BY <2>1, <4>1 DEF Inside, NoInsert
    <3> QED
      BY <1>1, <1>4, <2>1, <2>4, <3>1, ThrowInside, FollowInside, AttachInSlotInside,
         AttachBySplitInside, ReturnInside, BeginHashesInside, FollowToHashInside,
         HashFoundInside, HashReturnInside, FinishInside, SaveNodeInside, SavesDoneInside
         DEF InsertStep
  <2>5. CASE Flush
    BY <1>1, <1>4, <2>1, <2>5, FlushInside
  <2>6. CASE Stop
    BY <1>1, <1>4, <2>1, <2>6, StopInside
  <2>7. CASE LoadStored
    BY <1>1, <1>4, <2>1, <2>7, LoadStoredInside
  <2>8. CASE LoadLinked
    BY <1>1, <1>4, <2>1, <2>8, LoadLinkedInside
  <2> QED
    BY <2>2, <2>3, <2>4, <2>5, <2>6, <2>7, <2>8 DEF Next
<1> QED
  BY <1>3, <1>4

(* Whatever steps the process stops at, and however it loads the trie again, *)
(* the trie between calls is the one that the dictionary of the completed    *)
(* and not lost inserts would have been built to: insert, the saves of its   *)
(* nodes, flush and both loads of compressed_trie.cpp, for every setup that  *)
(* has a batch inserter and whose nodes keep their marks in storage or stay  *)
(* in memory, as in the storages of this repository.                         *)
THEOREM TrieAfterStops ==
  ASSUME MarksAreKept
  PROVE  Spec => []TrieIsOfDictionary
<1>1. Init => IInv
  BY InitInside
<1>2. IInv /\ [Next]_vars => IInv'
  BY NextInside
<1>3. IInv => TrieIsOfDictionary
  BY InsideGives
<1> QED
  BY <1>1, <1>2, <1>3, PTL DEF Spec

-----------------------------------------------------------------------------
(* What can be found in storage that an insert has left half written. All  *)
(* that follows holds for every setup, with or without a batch inserter.   *)

Kids(node) == {node.left, node.right}
Same(a, b) == a.left = b.left /\ a.right = b.right
Alike(t, u) == DOMAIN t = DOMAIN u /\ \A n \in DOMAIN t : Same(t[n], u[n])

(* Each node has the children of its kind, and they are there, but for     *)
(* those of the root.                                                      *)
Sound(t) ==
  /\ DOMAIN t \subseteq Label /\ EmptyLabel \in DOMAIN t /\ Shaped(t)
  /\ \A n \in DOMAIN t : /\ Kids(t[n]) \subseteq Label
                         /\ n # EmptyLabel => Kids(t[n]) \subseteq DOMAIN t

(* A set with the root and the children that are there of its nodes, and   *)
(* what every such set has: what is found from the root, and from a.       *)
Walk(X, t) ==
  EmptyLabel \in X /\ \A n \in X \cap DOMAIN t : Kids(t[n]) \cap DOMAIN t \subseteq X
Found(t, x) == \A X : Walk(X, t) => x \in X
FoundFrom(t, a, x) == \A X : Walk(X, t) /\ a \in X => x \in X

LEMMA AlikeSound ==
  ASSUME NEW t, NEW u, Alike(t, u), Sound(t)
  PROVE  Sound(u)
<1>1. \A n \in DOMAIN t : \A bit : ChildOn(t[n], bit) = ChildOn(u[n], bit)
  BY DEF Alike, Same, ChildOn
<1>2. Shaped(u)
  BY <1>1 DEF Shaped, ShapedNode, Sound, Alike
<1> QED
  BY <1>2 DEF Sound, Alike, Same, Kids

LEMMA AlikeWalk ==
  ASSUME NEW t, NEW u, Alike(t, u), NEW X
  PROVE  Walk(X, t) <=> Walk(X, u)
BY DEF Alike, Same, Walk, Kids

LEMMA AlikeFound ==
  ASSUME NEW t, NEW u, Alike(t, u), NEW a, NEW x
  PROVE  (Found(t, x) <=> Found(u, x)) /\ (FoundFrom(t, a, x) <=> FoundFrom(u, a, x))
BY AlikeWalk DEF Found, FoundFrom

LEMMA KidIsChild ==
  ASSUME NEW t, Sound(t), NEW n \in DOMAIN t, NEW c \in Kids(t[n])
  PROVE  \E bit \in Bit : c = ChildOn(t[n], bit) /\ (c # EmptyLabel => IsUnder(c, n, bit))
<1>1. PICK bit \in Bit : c = ChildOn(t[n], bit)
  BY DEF Kids, ChildOn, Bit
<1>2. c # EmptyLabel => IsUnder(c, n, bit)
  BY <1>1 DEF Sound, Shaped, ShapedNode
<1> QED
  BY <1>1, <1>2

LEMMA ChildIsKid ==
  ASSUME NEW node, NEW bit
  PROVE  ChildOn(node, bit) \in Kids(node)
BY DEF Kids, ChildOn

(* The reached nodes of a trie without cycles have all their children. *)
LEMMA ReachedIsClosed ==
  ASSUME NEW t, DOMAIN t \subseteq Label,
         \A n \in DOMAIN t : \A c \in Kids(t[n]) : c = EmptyLabel \/ (c \in Label /\ Len(n) < Len(c))
  PROVE  /\ EmptyLabel \in Reached(t) /\ Reached(t) \subseteq Label
         /\ \A n \in Reached(t) \cap DOMAIN t : Kids(t[n]) \subseteq Reached(t)
<1>1. PICK f : /\ Reached(t) = f[MaxBitCount + 1] /\ f[0] = {EmptyLabel}
               /\ \A k \in 1..MaxBitCount + 1 : f[k] = Below(t, f[k - 1])
  BY ReachedLevels
<1>2. \A S : Below(t, S) = S \cup UNION {Kids(t[n]) : n \in S \cap DOMAIN t}
  BY Zenon DEF Below, Kids
<1> DEFINE Deep(k) == /\ EmptyLabel \in f[k] /\ f[k] \subseteq Label
                      /\ \A y \in f[k] \cap DOMAIN t : Len(y) >= k \/ Kids(t[y]) \subseteq f[k]
           Bad == {k \in 0..MaxBitCount + 1 : ~Deep(k)}
<1>3. Deep(0)
  <2>1. EmptyLabel \in Label /\ Len(EmptyLabel) >= 0
    BY Lengths, FullIsLabel
  <2> QED
    BY <1>1, <2>1
<1>4. ASSUME NEW k \in 1..MaxBitCount + 1, Deep(k - 1)
      PROVE  Deep(k)
  <2>1. f[k] = f[k - 1] \cup UNION {Kids(t[n]) : n \in f[k - 1] \cap DOMAIN t}
    BY <1>1, <1>2
  <2>2. EmptyLabel \in f[k] /\ f[k - 1] \subseteq f[k]
    BY <1>4, <2>1
  <2>3. f[k] \subseteq Label
    BY <1>4, <2>1, Lengths
  <2>4. ASSUME NEW y \in f[k], y \in DOMAIN t
        PROVE  Len(y) >= k \/ Kids(t[y]) \subseteq f[k]
    <3>1. CASE y \in f[k - 1]
      BY <2>1, <2>4, <3>1
    <3>2. CASE y \notin f[k - 1]
      <4>1. PICK n \in f[k - 1] \cap DOMAIN t : y \in Kids(t[n])
        BY <2>1, <3>2
      <4>2. y # EmptyLabel /\ Len(n) < Len(y)
        BY <1>4, <3>2, <4>1
      <4>3. ~(Kids(t[n]) \subseteq f[k - 1])
        BY <3>2, <4>1
      <4>4. Len(n) >= k - 1
        BY <1>4, <4>1, <4>3
      <4>5. Len(n) \in Nat /\ Len(y) \in Nat
        BY <2>3, <4>1, LabelLen
      <4> QED
        BY <4>2, <4>4, <4>5, MaxBitCountAssumption
    <3> QED
      BY <3>1, <3>2
  <2> QED
    BY <2>2, <2>3, <2>4
<1>5. Bad = {}
  <2> SUFFICES ASSUME Bad # {} PROVE FALSE
    OBVIOUS
  <2>1. PICK k \in Bad : \A j \in Bad : k <= j
    <3>1. Bad \subseteq Nat
      OBVIOUS
    <3> HIDE DEF Bad
    <3> QED
      BY <3>1, LeastNatural
  <2>2. k \in 0..MaxBitCount + 1 /\ ~Deep(k) /\ k # 0
    BY <1>3, <2>1
  <2>3. k - 1 \in 0..MaxBitCount + 1 /\ k - 1 \notin Bad /\ k \in 1..MaxBitCount + 1
    BY <2>1, <2>2, MaxBitCountAssumption
  <2>4. Deep(k - 1)
    BY <2>3
  <2> HIDE DEF Deep, Bad
  <2> QED
    BY <1>4, <2>2, <2>3, <2>4
<1>6. Deep(MaxBitCount + 1)
  <2>1. MaxBitCount + 1 \in 0..MaxBitCount + 1
    BY MaxBitCountAssumption
  <2> HIDE DEF Deep
  <2> QED
    BY <1>5, <2>1
<1>7. \A y \in Label : ~(Len(y) >= MaxBitCount + 1)
  <2> SUFFICES ASSUME NEW y \in Label PROVE ~(Len(y) >= MaxBitCount + 1)
    OBVIOUS
  <2>1. Len(y) \in 0..MaxBitCount
    BY LabelLen
  <2> QED
    BY <2>1, MaxBitCountAssumption
<1> QED
  BY <1>1, <1>6, <1>7

-----------------------------------------------------------------------------
(* What memory and storage have of the trie t, when saves are to come      *)

Fits(t, k, m, st, saves) ==
  /\ IF k = "Linked" THEN m = t
     ELSE Same(m[EmptyLabel], t[EmptyLabel]) /\ DOMAIN st \subseteq DOMAIN t
  /\ saves \in Seq({[label |-> n, node |-> t[n]] : n \in DOMAIN t})
  /\ \A n \in DOMAIN t : Pending(saves, n) \/ (n \in DOMAIN st /\ Same(st[n], t[n]))
  /\ \A n \in DOMAIN t : Kids(t[n]) \cap DOMAIN st \subseteq DOMAIN t

(* A node is saved after its children.                                     *)
Ordered(st, t, saves) ==
  \A j \in DOMAIN saves :
    saves[j].label # EmptyLabel =>
      \A c \in Kids(t[saves[j].label]) :
        c \in DOMAIN st \/ \E i \in DOMAIN saves : i < j /\ saves[i].label = c

(* What was found below x is found there when x is saved.                  *)
Grown(st, t, saves, x) ==
  \A c \in Kids(st[x]) :
    \/ c = EmptyLabel \/ c \in Kids(t[x]) \/ c \notin DOMAIN st \cup DOMAIN t
    \/ \E g \in Kids(t[x]) \cap DOMAIN t : ~Pending(saves, g) /\ c \in Kids(t[g])

(* All that is found is in H, and stays in H.                              *)
Holding(H, st, t, saves) ==
  /\ EmptyLabel \in H
  /\ \A n \in H \cap DOMAIN st : Kids(st[n]) \subseteq H
  /\ \A n \in H : Pending(saves, n) => Kids(t[n]) \subseteq H

Safe(st, t, saves, x) ==
  \/ x \notin DOMAIN st
  \/ Grown(st, t, saves, x)
  \/ \E H : Holding(H, st, t, saves) /\ x \notin H
AllSafe(st, t, saves) == \A x : Pending(saves, x) => Safe(st, t, saves, x)

OneSave(st, st1, t, x) ==
  /\ x \in DOMAIN t /\ DOMAIN st1 = DOMAIN st \cup {x} /\ Same(st1[x], t[x])
  /\ \A n \in DOMAIN st \ {x} : st1[n] = st[n]

LEMMA SoundSave ==
  ASSUME NEW t, Sound(t), NEW st, Sound(st), NEW st1, NEW x, OneSave(st, st1, t, x),
         x # EmptyLabel => Kids(t[x]) \subseteq DOMAIN st
  PROVE  Sound(st1)
<1>1. /\ x \in DOMAIN t /\ DOMAIN st1 = DOMAIN st \cup {x} /\ Same(st1[x], t[x])
      /\ \A n \in DOMAIN st \ {x} : st1[n] = st[n]
  BY DEF OneSave
<1>2. \A bit : ChildOn(st1[x], bit) = ChildOn(t[x], bit)
  BY <1>1 DEF Same, ChildOn
<1>3. Kids(st1[x]) = Kids(t[x])
  BY <1>1 DEF Same, Kids
<1>4. ASSUME NEW n \in DOMAIN st1 PROVE ShapedNode(n, st1[n])
  <2>1. CASE n = x
    BY <1>1, <1>2, <2>1 DEF Sound, Shaped, ShapedNode
  <2>2. CASE n # x
    BY <1>1, <2>2 DEF Sound, Shaped
  <2> QED
    BY <2>1, <2>2
<1>5. ASSUME NEW n \in DOMAIN st1
      PROVE  Kids(st1[n]) \subseteq Label /\ (n # EmptyLabel => Kids(st1[n]) \subseteq DOMAIN st1)
  <2>1. CASE n = x
    BY <1>1, <1>3, <2>1 DEF Sound
  <2>2. CASE n # x
    BY <1>1, <2>2 DEF Sound
  <2> QED
    BY <2>1, <2>2
<1> QED
  BY <1>1, <1>4, <1>5 DEF Sound, Shaped

LEMMA FoundSave ==
  ASSUME NEW t, NEW st, NEW st1, NEW x, OneSave(st, st1, t, x), NEW saves,
         Pending(saves, x), Safe(st, t, saves, x),
         \A n \in DOMAIN t : Pending(saves, n) \/ (n \in DOMAIN st /\ Same(st[n], t[n])),
         NEW z, Found(st, z)
  PROVE  Found(st1, z)
<1> SUFFICES ASSUME NEW X, Walk(X, st1) PROVE z \in X
  BY DEF Found
<1>1. /\ x \in DOMAIN t /\ DOMAIN st1 = DOMAIN st \cup {x} /\ Same(st1[x], t[x])
      /\ \A n \in DOMAIN st \ {x} : st1[n] = st[n]
  BY DEF OneSave
<1>2. EmptyLabel \in X /\ \A n \in X \cap DOMAIN st1 : Kids(st1[n]) \cap DOMAIN st1 \subseteq X
  BY DEF Walk
<1>3. ASSUME NEW n \in X \cap DOMAIN st, n # x PROVE Kids(st[n]) \cap DOMAIN st \subseteq X
  BY <1>1, <1>2, <1>3
<1>4. CASE x \notin DOMAIN st
  <2>1. Walk(X, st)
    BY <1>2, <1>3, <1>4 DEF Walk
  <2> QED
    BY <2>1 DEF Found
<1>5. CASE Grown(st, t, saves, x)
  <2>1. ASSUME x \in X \cap DOMAIN st, NEW c \in Kids(st[x]) \cap DOMAIN st PROVE c \in X
    <3>1. Kids(t[x]) \cap DOMAIN st1 \subseteq X
      BY <1>1, <1>2, <2>1 DEF Same, Kids
    <3>2. CASE c = EmptyLabel \/ c \in Kids(t[x])
      BY <1>1, <1>2, <2>1, <3>1, <3>2
    <3>3. CASE \E g \in Kids(t[x]) \cap DOMAIN t : ~Pending(saves, g) /\ c \in Kids(t[g])
      <4>1. PICK g \in Kids(t[x]) \cap DOMAIN t : ~Pending(saves, g) /\ c \in Kids(t[g])
        BY <3>3
      <4>2. g \in DOMAIN st /\ Same(st[g], t[g]) /\ g # x
        BY <4>1
      <4>3. g \in X /\ c \in Kids(st[g])
        BY <1>1, <3>1, <4>1, <4>2 DEF Same, Kids
      <4> QED
        BY <1>3, <2>1, <4>2, <4>3
    <3> QED
      BY <1>5, <2>1, <3>2, <3>3 DEF Grown
  <2>2. Walk(X, st)
    BY <1>2, <1>3, <2>1 DEF Walk
  <2> QED
    BY <2>2 DEF Found
<1>6. CASE \E H : Holding(H, st, t, saves) /\ x \notin H
  <2>1. PICK H : Holding(H, st, t, saves) /\ x \notin H
    BY <1>6
  <2>2. PICK Y : Y = X \cap H
    OBVIOUS
  <2>3. Walk(Y, st)
    BY <1>2, <1>3, <2>1, <2>2 DEF Walk, Holding
  <2>4. z \in Y
    BY <2>3 DEF Found
  <2> QED
    BY <2>2, <2>4
<1> QED
  BY <1>4, <1>5, <1>6 DEF Safe

LEMMA SafeSave ==
  ASSUME NEW t, NEW st, NEW st1, NEW x, OneSave(st, st1, t, x), NEW saves, NEW rest,
         Pending(saves, x), \A n : Pending(rest, n) => Pending(saves, n),
         NEW y, Safe(st, t, saves, y)
  PROVE  Safe(st1, t, rest, y)
<1>1. /\ x \in DOMAIN t /\ DOMAIN st1 = DOMAIN st \cup {x} /\ Same(st1[x], t[x])
      /\ \A n \in DOMAIN st \ {x} : st1[n] = st[n]
  BY DEF OneSave
<1>2. Kids(st1[x]) = Kids(t[x])
  BY <1>1 DEF Same, Kids
<1>3. CASE y = x
  BY <1>2, <1>3 DEF Safe, Grown
<1>4. CASE y # x /\ y \notin DOMAIN st
  BY <1>1, <1>4 DEF Safe
<1>5. CASE y # x /\ y \in DOMAIN st /\ Grown(st, t, saves, y)
  <2>1. st1[y] = st[y]
    BY <1>1, <1>5
  <2>2. Grown(st1, t, rest, y)
    BY <1>1, <1>5, <2>1 DEF Grown
  <2> QED
    BY <2>2 DEF Safe
<1>6. CASE y # x /\ \E H : Holding(H, st, t, saves) /\ y \notin H
  <2>1. PICK H : Holding(H, st, t, saves) /\ y \notin H
    BY <1>6
  <2>2. Holding(H, st1, t, rest)
    <3>1. ASSUME NEW n \in H \cap DOMAIN st1 PROVE Kids(st1[n]) \subseteq H
      <4>1. CASE n = x
        BY <1>2, <2>1, <3>1, <4>1 DEF Holding
      <4>2. CASE n # x
        BY <1>1, <2>1, <3>1, <4>2 DEF Holding
      <4> QED
        BY <4>1, <4>2
    <3> QED
      BY <2>1, <3>1 DEF Holding
  <2> QED
    BY <2>1, <2>2 DEF Safe
<1> QED
  BY <1>3, <1>4, <1>5, <1>6 DEF Safe

LEMMA TailFact ==
  ASSUME NEW S, NEW q \in Seq(S), q # <<>>
  PROVE  /\ Tail(q) \in Seq(S) /\ Head(q) \in S /\ Head(q) = q[1] /\ 1 \in DOMAIN q
         /\ \A j \in DOMAIN Tail(q) : j + 1 \in DOMAIN q /\ Tail(q)[j] = q[j + 1]
         /\ \A j \in DOMAIN q : j = 1 \/ (j - 1 \in DOMAIN Tail(q) /\ Tail(q)[j - 1] = q[j])
         /\ DOMAIN q \subseteq Nat \ {0}
<1>1. /\ Tail(q) \in Seq(S) /\ Len(Tail(q)) = Len(q) - 1
      /\ DOMAIN q = 1..Len(q) /\ Len(q) \in Nat \ {0}
      /\ DOMAIN Tail(q) = 1..Len(Tail(q)) /\ Head(q) = q[1]
  OBVIOUS
<1>2. 1 \in DOMAIN q /\ Head(q) \in S /\ DOMAIN q \subseteq Nat \ {0}
  BY <1>1
<1>3. ASSUME NEW j \in DOMAIN Tail(q) PROVE j + 1 \in DOMAIN q /\ Tail(q)[j] = q[j + 1]
  BY <1>1
<1>4. ASSUME NEW j \in DOMAIN q
      PROVE  j = 1 \/ (j - 1 \in DOMAIN Tail(q) /\ Tail(q)[j - 1] = q[j])
  BY <1>1
<1> QED
  BY <1>1, <1>2, <1>3, <1>4

(* What is to come, and what it does to storage. *)
Underway(t, k, m, st, saves) ==
  /\ Sound(t) /\ Sound(st) /\ Fits(t, k, m, st, saves)
  /\ Ordered(st, t, saves) /\ AllSafe(st, t, saves)

KeptOn(t, k, m, st, st1, saves) ==
  Underway(t, k, m, st1, saves) /\ \A z : Found(st, z) => Found(st1, z)

LEMMA SaveKeeps ==
  ASSUME NEW t, NEW k, NEW m, NEW st, NEW saves, Underway(t, k, m, st, saves), saves # <<>>,
         NEW s, s = Head(saves),
         NEW st1, st1 = [n \in DOMAIN st \cup {s.label} |->
                           IF n = s.label THEN Saved(k, s.node) ELSE st[n]]
  PROVE  KeptOn(t, k, m, st, st1, Tail(saves))
<1>1. PICK nodes : nodes = {[label |-> n, node |-> t[n]] : n \in DOMAIN t}
  OBVIOUS
<1>2. saves \in Seq(nodes)
  BY <1>1 DEF Underway, Fits
<1>3. \A e \in nodes : e.label \in DOMAIN t /\ e.node = t[e.label]
  BY <1>1
<1>4. PICK rest : rest = Tail(saves)
  OBVIOUS
<1>5. /\ rest \in Seq(nodes) /\ s \in nodes /\ s = saves[1] /\ 1 \in DOMAIN saves
      /\ \A j \in DOMAIN rest : j + 1 \in DOMAIN saves /\ rest[j] = saves[j + 1]
      /\ \A j \in DOMAIN saves : j = 1 \/ (j - 1 \in DOMAIN rest /\ rest[j - 1] = saves[j])
      /\ DOMAIN saves \subseteq Nat \ {0}
  BY <1>2, <1>4, TailFact
<1>6. PICK x : x = s.label
  OBVIOUS
<1>7. x \in DOMAIN t /\ s.node = t[x]
  BY <1>3, <1>5, <1>6
<1>8. OneSave(st, st1, t, x)
  <2>1. Same(Saved(k, t[x]), t[x])
    BY DEF Same, Saved, SetDirtyBit, Node
  <2> QED
    BY <1>6, <1>7, <2>1 DEF OneSave
<1>9. /\ Pending(saves, x)
      /\ \A n : Pending(rest, n) => Pending(saves, n)
      /\ \A n : Pending(saves, n) => n = x \/ Pending(rest, n)
  BY <1>5, <1>6 DEF Pending
<1>10. x # EmptyLabel => Kids(t[x]) \subseteq DOMAIN st
  <2>1. \A i \in DOMAIN saves : ~(i < 1)
    BY <1>5
  <2> QED
    BY <1>5, <1>6, <2>1 DEF Underway, Ordered
<1>11. Sound(st1)
  BY <1>8, <1>10, SoundSave DEF Underway
<1>12. \A z : Found(st, z) => Found(st1, z)
  <2>1. Safe(st, t, saves, x)
    BY <1>9 DEF Underway, AllSafe
  <2>2. \A n \in DOMAIN t : Pending(saves, n) \/ (n \in DOMAIN st /\ Same(st[n], t[n]))
    BY DEF Underway, Fits
  <2> QED
    BY <1>8, <1>9, <2>1, <2>2, FoundSave
<1>13. AllSafe(st1, t, rest)
  <2> SUFFICES ASSUME NEW y, Pending(rest, y) PROVE Safe(st1, t, rest, y)
    BY DEF AllSafe
  <2>1. Safe(st, t, saves, y)
    BY <1>9 DEF Underway, AllSafe
  <2> QED
    BY <1>8, <1>9, <2>1, SafeSave
<1>14. Ordered(st1, t, rest)
  <2> SUFFICES ASSUME NEW j \in DOMAIN rest, rest[j].label # EmptyLabel,
                      NEW c \in Kids(t[rest[j].label]), c \notin DOMAIN st1
               PROVE  \E i \in DOMAIN rest : i < j /\ rest[i].label = c
    BY DEF Ordered
  <2>1. j + 1 \in DOMAIN saves /\ rest[j] = saves[j + 1] /\ DOMAIN st1 = DOMAIN st \cup {x}
    BY <1>5, <1>8 DEF OneSave
  <2>2. PICK i \in DOMAIN saves : i < j + 1 /\ saves[i].label = c
    BY <2>1 DEF Underway, Ordered
  <2>3. i # 1
    BY <1>5, <1>6, <2>1, <2>2
  <2>4. i - 1 \in DOMAIN rest /\ rest[i - 1] = saves[i]
    BY <1>5, <2>3
  <2>5. i - 1 < j
    <3>1. i \in Nat /\ j + 1 \in Nat /\ j \in DOMAIN rest /\ rest \in Seq(nodes)
      BY <1>5, <2>1
    <3>2. j \in Nat
      BY <3>1
    <3> QED
      BY <2>2, <3>1, <3>2
  <2> QED
    BY <2>2, <2>4, <2>5
<1>15. Fits(t, k, m, st1, rest)
  <2>1. /\ DOMAIN st1 = DOMAIN st \cup {x} /\ Same(st1[x], t[x])
        /\ \A n \in DOMAIN st \ {x} : st1[n] = st[n]
    BY <1>8 DEF OneSave
  <2>2. \A n \in DOMAIN t : Pending(rest, n) \/ (n \in DOMAIN st1 /\ Same(st1[n], t[n]))
    BY <1>9, <2>1 DEF Underway, Fits
  <2>3. \A n \in DOMAIN t : Kids(t[n]) \cap DOMAIN st1 \subseteq DOMAIN t
    BY <1>7, <2>1 DEF Underway, Fits
  <2>4. k # "Linked" => DOMAIN st1 \subseteq DOMAIN t
    BY <1>7, <2>1 DEF Underway, Fits
  <2> QED
    BY <1>1, <1>5, <2>2, <2>3, <2>4 DEF Underway, Fits
<1> QED
  BY <1>4, <1>11, <1>12, <1>13, <1>14, <1>15 DEF Underway, KeptOn

-----------------------------------------------------------------------------
(* The stack of an insert into such a trie                                 *)

Path(s, t, l) ==
  IsRoute(s, t, l) /\ \A j, k \in 1..Len(s) : j < k => Len(s[j]) < Len(s[k])

(* The node n is to hang below p, the last of a: what hangs there is n or  *)
(* one of its children.                                                    *)
Hangs(a, p, n, t, l) ==
  /\ Path(a, t, l) /\ Top(a) = p /\ p \in DOMAIN t /\ Starts(p, l) /\ p # l
  /\ IsUnder(n, p, l[Len(p) + 1])
  /\ ChildOn(t[p], l[Len(p) + 1]) \in {n} \cup Kids(t[n])

Back(s, t, l) ==
  /\ s \in Seq(DOMAIN t) /\ s # <<>> /\ FoundFrom(t, Top(s), l)
  /\ Len(s) = 1 => Top(s) = EmptyLabel
  /\ Len(s) > 1 => Hangs(SubSeq(s, 1, Len(s) - 1), s[Len(s) - 1], Top(s), t, l)

StayAt(pc, t, l, s) ==
  \/ pc = "idle"
  \/ pc = "insert" /\ l \in FullLabel /\ Path(s, t, l)
  \/ pc = "return" /\ l \in FullLabel /\ Back(s, t, l)
  \/ /\ pc \in {"hash", "hashed"} /\ l \in FullLabel /\ s \in Seq(DOMAIN t) /\ s # <<>>
     /\ Found(t, l)

LEMMA PathUp ==
  ASSUME NEW t, Sound(t), NEW l \in FullLabel, NEW s, Path(s, t, l), Len(s) > 1
  PROVE  Hangs(SubSeq(s, 1, Len(s) - 1), s[Len(s) - 1], Top(s), t, l)
<1>1. PICK a, p : Climbs(t, l, s, a, p) /\ a = SubSeq(s, 1, Len(s) - 1) /\ p = s[Len(s) - 1]
  BY RouteClimbs DEF Path
<1>2. PICK n : n = Top(s)
  OBVIOUS
<1>3. /\ IsRoute(a, t, l) /\ Top(a) = p /\ p \in DOMAIN t /\ Starts(p, l) /\ p # l
      /\ n = ChildOn(t[p], l[Len(p) + 1]) /\ n # EmptyLabel
  BY <1>1, <1>2 DEF Climbs
<1>4. s \in Seq(DOMAIN t)
  BY DEF Path, IsRoute
<1>5. Len(a) = Len(s) - 1 /\ Len(s) \in Nat /\ \A k \in 1..Len(a) : a[k] = s[k] /\ k \in 1..Len(s)
  BY <1>1, <1>4
<1>6. Path(a, t, l)
  <2> SUFFICES ASSUME NEW j \in 1..Len(a), NEW k \in 1..Len(a), j < k
               PROVE  Len(a[j]) < Len(a[k])
    BY <1>3 DEF Path
  <2>1. a[j] = s[j] /\ a[k] = s[k] /\ j \in 1..Len(s) /\ k \in 1..Len(s)
    BY <1>5
  <2> QED
    BY <2>1 DEF Path
<1>7. IsUnder(n, p, l[Len(p) + 1])
  <2>1. p \in Label /\ l \in Label
    BY <1>3, Lengths DEF Sound
  <2>2. l[Len(p) + 1] \in Bit
    BY <1>3, <2>1, StartsIsUnder
  <2> QED
    BY <1>3, <2>2 DEF Sound, Shaped, ShapedNode
<1> QED
  BY <1>1, <1>2, <1>3, <1>6, <1>7 DEF Hangs

LEMMA PathDown ==
  ASSUME NEW t, Sound(t), NEW l \in FullLabel, NEW s, Path(s, t, l), Starts(Top(s), l),
         Top(s) # l, NEW c \in DOMAIN t, c = ChildOn(t[Top(s)], l[Len(Top(s)) + 1]),
         c # EmptyLabel
  PROVE  Path(Append(s, c), t, l)
<1>1. PICK r : r = Append(s, c)
  OBVIOUS
<1>2. PICK n : n = Top(s)
  OBVIOUS
<1>3. IsRoute(r, t, l) /\ IsRoute(s, t, l)
  BY <1>1, RouteDown DEF Path
<1>4. s \in Seq(DOMAIN t) /\ n \in DOMAIN t /\ n \in Label /\ l \in Label /\ c \in Label
  BY <1>2, <1>3, RouteTop, Lengths DEF IsRoute, Sound
<1>5. PICK N \in Nat : N = Len(s) /\ N >= 1 /\ n = s[N]
  BY <1>2, <1>3, RouteTop DEF Top
<1>6. /\ Len(r) = N + 1 /\ r[N + 1] = c /\ \A k \in 1..N : r[k] = s[k]
  BY <1>1, <1>4, <1>5, AppendFact
<1>7. Len(n) < Len(c) /\ Len(n) \in Nat /\ Len(c) \in Nat
  <2>1. l[Len(n) + 1] \in Bit
    BY <1>2, <1>4, StartsIsUnder
  <2>2. IsUnder(c, n, l[Len(n) + 1])
    BY <1>2, <1>4, <2>1 DEF Sound, Shaped, ShapedNode
  <2> QED
    BY <1>4, <2>2, LabelLen DEF IsUnder
<1>8. \A k \in 1..N : s[k] \in DOMAIN t /\ Len(s[k]) \in Nat
  <2> SUFFICES ASSUME NEW k \in 1..N PROVE s[k] \in DOMAIN t /\ Len(s[k]) \in Nat
    OBVIOUS
  <2>1. s[k] \in DOMAIN t
    BY <1>4, <1>5
  <2> QED
    BY <2>1, LabelLen DEF Sound
<1>9. ASSUME NEW j \in 1..Len(r), NEW k \in 1..Len(r), j < k
      PROVE  Len(r[j]) < Len(r[k])
  <2>1. j \in 1..N /\ r[j] = s[j]
    BY <1>5, <1>6, <1>9
  <2>2. CASE k \in 1..N
    BY <1>5, <1>6, <1>9, <2>1, <2>2 DEF Path
  <2>3. CASE k = N + 1
    <3>1. Len(s[j]) <= Len(n)
      <4>1. j = N \/ j < N
        BY <1>5, <2>1
      <4>2. N \in 1..N
        BY <1>5
      <4> QED
        BY <1>5, <1>7, <1>8, <2>1, <4>1, <4>2 DEF Path
    <3> QED
      BY <1>6, <1>7, <1>8, <2>1, <2>3, <3>1
  <2> QED
    BY <1>5, <1>6, <2>2, <2>3
<1> QED
  BY <1>1, <1>3, <1>9 DEF Path

(* A path stays one as long as the nodes above its end do. *)
LEMMA PathOfMore ==
  ASSUME NEW t, NEW u, NEW l, NEW s, Path(s, t, l), DOMAIN t \subseteq DOMAIN u,
         \A n \in DOMAIN t : Len(n) < Len(Top(s)) => Same(u[n], t[n])
  PROVE  Path(s, u, l)
<1>1. /\ s \in Seq(DOMAIN t) /\ s # <<>> /\ s[1] = EmptyLabel
      /\ \A k \in 1..Len(s) - 1 :
           /\ Starts(s[k], l) /\ s[k] # l
           /\ s[k + 1] = ChildOn(t[s[k]], l[Len(s[k]) + 1]) /\ s[k + 1] # EmptyLabel
      /\ \A j, k \in 1..Len(s) : j < k => Len(s[j]) < Len(s[k])
  BY DEF Path, IsRoute
<1>2. PICK N \in Nat : N = Len(s) /\ N >= 1
  BY <1>1
<1>3. s \in Seq(DOMAIN u)
  BY <1>1
<1>4. ASSUME NEW k \in 1..N - 1
      PROVE  ChildOn(u[s[k]], l[Len(s[k]) + 1]) = ChildOn(t[s[k]], l[Len(s[k]) + 1])
  <2>1. k \in 1..N /\ N \in 1..N /\ k < N
    BY <1>2
  <2>2. s[k] \in DOMAIN t /\ Len(s[k]) < Len(Top(s))
    BY <1>1, <1>2, <2>1 DEF Top
  <2> QED
    BY <2>2 DEF Same, ChildOn
<1> QED
  BY <1>1, <1>2, <1>3, <1>4 DEF Path, IsRoute

LEMMA StayAlike ==
  ASSUME NEW t, NEW u, Alike(t, u), NEW pc, NEW l, NEW s, StayAt(pc, t, l, s)
  PROVE  StayAt(pc, u, l, s)
<1>1. DOMAIN t = DOMAIN u /\ \A n \in DOMAIN t : Same(u[n], t[n])
  BY DEF Alike, Same
<1>2. \A a : Path(a, t, l) => Path(a, u, l)
  BY <1>1, PathOfMore
<1>3. \A a, p, n : Hangs(a, p, n, t, l) /\ n \in DOMAIN t => Hangs(a, p, n, u, l)
  BY <1>1, <1>2 DEF Hangs, Same, Kids, ChildOn
<1>4. \A a, x : (Found(t, x) <=> Found(u, x)) /\ (FoundFrom(t, a, x) <=> FoundFrom(u, a, x))
  BY AlikeFound
<1>5. ASSUME Back(s, t, l) PROVE Back(s, u, l)
  <2>1. s \in Seq(DOMAIN t) /\ s # <<>>
    BY <1>5 DEF Back
  <2>2. Top(s) \in DOMAIN t
    BY <2>1 DEF Top
  <2>3. s \in Seq(DOMAIN u)
    BY <1>1, <2>1
  <2> QED
    BY <1>3, <1>4, <1>5, <2>1, <2>2, <2>3 DEF Back
<1>6. s \in Seq(DOMAIN t) => s \in Seq(DOMAIN u)
  BY <1>1
<1> QED
  BY <1>2, <1>4, <1>5, <1>6 DEF StayAt

(* A trie as the code sees it: a child that is not there is none. *)
Bare(t) == [n \in DOMAIN t |-> Node(Present(t, t[n].left), Present(t, t[n].right), ZeroHash, FALSE)]

LEMMA BareFact ==
  ASSUME NEW t, Sound(t), NEW v, v = Bare(t)
  PROVE  /\ Closed(v) /\ Shaped(v) /\ DOMAIN v = DOMAIN t
         /\ \A n \in DOMAIN t, bit \in Bit : ChildOn(v[n], bit) = Present(t, ChildOn(t[n], bit))
         /\ \A n \in DOMAIN t : \A l : /\ HasRoute(View(t), n, l) <=> HasRoute(v, n, l)
                                       /\ HasFreeSlot(View(t), n, l) <=> HasFreeSlot(v, n, l)
                                       /\ SplitsLeaf(t, n) <=> SplitsLeaf(v, n)
<1>1. /\ DOMAIN v = DOMAIN t /\ DOMAIN View(t) = DOMAIN t
      /\ \A n \in DOMAIN t :
           /\ v[n] = Node(Present(t, t[n].left), Present(t, t[n].right), ZeroHash, FALSE)
           /\ v[n].left = Present(t, t[n].left) /\ v[n].right = Present(t, t[n].right)
           /\ v[n].dirty = FALSE /\ v[n].hash = ZeroHash
           /\ View(t)[n].left = v[n].left /\ View(t)[n].right = v[n].right
  BY DEF Bare, View, Node
<1>2. \A c : Present(t, c) \in DOMAIN t /\ (c \in DOMAIN t => Present(t, c) = c)
             /\ (Present(t, c) # EmptyLabel => Present(t, c) = c)
  BY DEF Present, Sound
<1>3. Closed(v)
  <2>1. ASSUME NEW n \in DOMAIN t PROVE IsNodeOf(v[n], DOMAIN v)
    <3>1. v[n] = Node(v[n].left, v[n].right, v[n].hash, v[n].dirty)
      BY <1>1
    <3>2. v[n].left \in DOMAIN v /\ v[n].right \in DOMAIN v
      <4>1. v[n].left = Present(t, t[n].left) /\ v[n].right = Present(t, t[n].right)
        BY <1>1
      <4>2. DOMAIN v = DOMAIN t /\ \A c : Present(t, c) \in DOMAIN t
        BY <1>1, <1>2
      <4> QED
        BY <4>1, <4>2, Zenon
    <3>3. v[n].dirty = FALSE
      BY <1>1
    <3> QED
      BY <3>1, <3>2, <3>3, Zenon DEF IsNodeOf
  <2> QED
    BY <1>1, <2>1 DEF Closed, Sound
<1>4. \A n \in DOMAIN t : \A bit : ChildOn(v[n], bit) = Present(t, ChildOn(t[n], bit))
                                  /\ ChildOn(View(t)[n], bit) = ChildOn(v[n], bit)
  BY <1>1 DEF ChildOn
<1>5. Shaped(v)
  <2> SUFFICES ASSUME NEW n \in DOMAIN t PROVE ShapedNode(n, v[n])
    BY <1>1 DEF Shaped
  <2>1. ShapedNode(n, t[n]) /\ (n # EmptyLabel => Kids(t[n]) \subseteq DOMAIN t)
    BY DEF Sound, Shaped
  <2>2. \A bit : ChildOn(t[n], bit) \in Kids(t[n])
    BY ChildIsKid
  <2> QED
    BY <1>2, <1>4, <2>1, <2>2 DEF ShapedNode
<1>6. ASSUME NEW n \in DOMAIN t PROVE SplitsLeaf(t, n) <=> SplitsLeaf(v, n)
  <2>1. n # EmptyLabel => v[n].left = t[n].left /\ v[n].right = t[n].right
    BY <1>1, <1>2 DEF Sound, Kids
  <2> QED
    BY <2>1 DEF SplitsLeaf, IsLeaf
<1>7. ASSUME NEW n \in DOMAIN t, NEW l
      PROVE  /\ HasRoute(View(t), n, l) <=> HasRoute(v, n, l)
             /\ HasFreeSlot(View(t), n, l) <=> HasFreeSlot(v, n, l)
  BY <1>4 DEF HasRoute, HasFreeSlot
<1> QED
  BY <1>1, <1>3, <1>4, <1>5, <1>6, <1>7

(* What a change of the trie leaves to be saved. *)
Remade(t, u, list) ==
  /\ DOMAIN t \subseteq DOMAIN u /\ list \in Seq(DOMAIN u) /\ EmptyLabel \in DOMAIN t
  /\ \A n \in DOMAIN u :
       (\E j \in DOMAIN list : list[j] = n) \/ (n \in DOMAIN t /\ Same(u[n], t[n]))

LEMMA RemadeFits ==
  ASSUME NEW t, NEW k, NEW m, NEW st, Fits(t, k, m, st, <<>>), NEW u, NEW list,
         Remade(t, u, list), \A n \in DOMAIN u : Kids(u[n]) \cap DOMAIN st \subseteq DOMAIN u,
         NEW saves, saves = Saves(list, u)
  PROVE  /\ Fits(u, k, IF k = "Linked" THEN u ELSE Root(u), st, saves)
         /\ \A n : Pending(saves, n) <=> \E j \in DOMAIN list : list[j] = n
         /\ DOMAIN saves = DOMAIN list /\ \A j \in DOMAIN list : saves[j].label = list[j]
         /\ \A n \in DOMAIN t : n \in DOMAIN st /\ Same(st[n], t[n])
<1>1. /\ DOMAIN t \subseteq DOMAIN u /\ list \in Seq(DOMAIN u) /\ EmptyLabel \in DOMAIN t
      /\ \A n \in DOMAIN u :
           (\E j \in DOMAIN list : list[j] = n) \/ (n \in DOMAIN t /\ Same(u[n], t[n]))
  BY DEF Remade
<1>2. /\ DOMAIN saves = DOMAIN list
      /\ \A j \in DOMAIN list : saves[j] = [label |-> list[j], node |-> u[list[j]]]
                                /\ saves[j].label = list[j]
  BY DEF Saves
<1>3. PICK nodes : nodes = {[label |-> n, node |-> u[n]] : n \in DOMAIN u}
  OBVIOUS
<1>4. saves \in Seq(nodes)
  <2>1. PICK N \in Nat : DOMAIN list = 1..N /\ \A j \in 1..N : list[j] \in DOMAIN u
    BY <1>1
  <2>2. saves = [j \in 1..N |-> [label |-> list[j], node |-> u[list[j]]]]
    BY <2>1 DEF Saves
  <2>3. \A j \in 1..N : [label |-> list[j], node |-> u[list[j]]] \in nodes
    BY <1>3, <2>1, Zenon
  <2> QED
    BY <2>2, <2>3
<1>5. \A n : Pending(saves, n) <=> \E j \in DOMAIN list : list[j] = n
  BY <1>2 DEF Pending
<1>6. \A n \in DOMAIN t : n \in DOMAIN st /\ Same(st[n], t[n])
  BY NothingPending DEF Fits
<1>7. ASSUME NEW n \in DOMAIN u
      PROVE  Pending(saves, n) \/ (n \in DOMAIN st /\ Same(st[n], u[n]))
  BY <1>1, <1>5, <1>6 DEF Same
<1>8. k # "Linked" => /\ Same(Root(u)[EmptyLabel], u[EmptyLabel])
                      /\ DOMAIN st \subseteq DOMAIN u
  BY <1>1 DEF Fits, Root, Same
<1> QED
  BY <1>2, <1>3, <1>4, <1>5, <1>6, <1>7, <1>8 DEF Fits

(* The nodes of a change are saved after those below them, and hide nothing. *)
Begins(t, u, k, st, list) ==
  Underway(u, k, IF k = "Linked" THEN u ELSE Root(u), st, Saves(list, u))

LEMMA KeyHidesNothing ==
  ASSUME NEW st, Sound(st), NEW l \in FullLabel, NEW u, NEW saves
  PROVE  Safe(st, u, saves, l)
<1> SUFFICES ASSUME l \in DOMAIN st PROVE Grown(st, u, saves, l)
  BY DEF Safe
<1>1. ASSUME NEW c \in Kids(st[l]) PROVE c = EmptyLabel
  <2>1. c \in Label
    BY DEF Sound
  <2> QED
    BY <2>1, KidIsChild, NothingUnderKey
<1> QED
  BY <1>1 DEF Grown

LEMMA SlotBegins ==
  ASSUME NEW t, Sound(t), NEW k, NEW m, NEW st, Sound(st), Fits(t, k, m, st, <<>>),
         NEW l \in FullLabel, NEW s, Path(s, t, l), NEW n, n = Top(s), n # l,
         ~SplitsLeaf(t, n), HasFreeSlot(View(t), n, l),
         NEW h, NEW u, u = FillSlot(t, n, l, NewLeaf(h)), NEW list, list = <<n, l>>
  PROVE  Begins(t, u, k, st, list) /\ Back(s, u, l)
<1>1. IsRoute(s, t, l) /\ n \in DOMAIN t /\ l \in Label
  BY RouteTop, Lengths DEF Path
<1>2. PICK b : b = NextBit(n, l)
  OBVIOUS
<1>3. n = EmptyLabel /\ b \in Bit /\ IsUnder(l, n, b) /\ Present(t, ChildOn(t[n], b)) = EmptyLabel
  <2>1. PICK v : v = Bare(t)
    OBVIOUS
  <2>2. /\ Closed(v) /\ Shaped(v) /\ DOMAIN v = DOMAIN t
        /\ HasFreeSlot(v, n, l) /\ ~SplitsLeaf(v, n)
        /\ \A bit \in Bit : ChildOn(v[n], bit) = Present(t, ChildOn(t[n], bit))
    BY <1>1, <2>1, BareFact
  <2>3. n = EmptyLabel /\ b \in Bit /\ IsUnder(l, n, b)
    BY <1>1, <1>2, <2>2, SlotDescends
  <2> QED
    BY <1>2, <2>2, <2>3 DEF HasFreeSlot
<1>4. l # EmptyLabel
  BY EmptyIsNotFull
<1>5. /\ DOMAIN u = DOMAIN t \cup {l} /\ u[l] = NewLeaf(h) /\ u[n] = SetChild(t[n], b, l)
      /\ \A x \in DOMAIN t : x # l /\ x # n => u[x] = t[x]
  BY <1>1, <1>2 DEF FillSlot
<1>6. Kids(u[l]) = {EmptyLabel}
  BY <1>5 DEF Kids, NewLeaf, Node
<1>7. \A bit \in Bit : ChildOn(u[n], bit) = IF bit = b THEN l ELSE ChildOn(t[n], bit)
  BY <1>3, <1>5 DEF ChildOn, SetChild, Node, Bit
<1>8. Kids(u[n]) \subseteq {l} \cup Kids(t[n])
  BY <1>5 DEF Kids, SetChild, Node
<1>9. Sound(u)
  <2>1. ASSUME NEW x \in DOMAIN u PROVE ShapedNode(x, u[x])
    <3>1. CASE x = l
      BY <1>5, <3>1, NewLeafIsShaped
    <3>2. CASE x = n
      <4>1. ShapedNode(n, t[n])
        BY <1>1 DEF Sound, Shaped
      <4> QED
        BY <1>3, <1>4, <1>5, <3>2, <4>1, SetChildIsShaped
    <3>3. CASE x # l /\ x # n
      BY <1>5, <3>3 DEF Sound, Shaped
    <3> QED
      BY <3>1, <3>2, <3>3
  <2>2. ASSUME NEW x \in DOMAIN u
        PROVE  Kids(u[x]) \subseteq Label /\ (x # EmptyLabel => Kids(u[x]) \subseteq DOMAIN u)
    <3>1. CASE x = l
      BY <1>5, <1>6, <3>1, FullIsLabel DEF Sound
    <3>2. CASE x = n
      BY <1>1, <1>3, <1>8, <3>2 DEF Sound
    <3>3. CASE x # l /\ x # n
      BY <1>5, <3>3 DEF Sound
    <3> QED
      BY <3>1, <3>2, <3>3
  <2> QED
    BY <1>1, <1>5, <2>1, <2>2 DEF Sound, Shaped
<1>10. DOMAIN list = {1, 2} /\ list[1] = n /\ list[2] = l /\ list \in Seq(DOMAIN u)
  BY <1>1, <1>5
<1>11. Remade(t, u, list)
  BY <1>1, <1>3, <1>5, <1>10 DEF Remade, Same
<1>12. ASSUME NEW x \in DOMAIN u PROVE Kids(u[x]) \cap DOMAIN st \subseteq DOMAIN u
  <2>1. CASE x = n
    BY <1>1, <1>5, <1>8, <2>1 DEF Fits
  <2>2. CASE x # n
    BY <1>3, <1>9, <2>2 DEF Sound
  <2> QED
    BY <2>1, <2>2
<1>13. PICK saves : saves = Saves(list, u)
  OBVIOUS
<1>14. /\ Fits(u, k, IF k = "Linked" THEN u ELSE Root(u), st, saves)
       /\ \A x : Pending(saves, x) => x = n \/ x = l
       /\ DOMAIN saves = {1, 2} /\ saves[1].label = n /\ saves[2].label = l
       /\ \A x \in DOMAIN t : x \in DOMAIN st /\ Same(st[x], t[x])
  <2>1. /\ Fits(u, k, IF k = "Linked" THEN u ELSE Root(u), st, saves)
        /\ \A x : Pending(saves, x) <=> \E j \in DOMAIN list : list[j] = x
        /\ DOMAIN saves = DOMAIN list /\ \A j \in DOMAIN list : saves[j].label = list[j]
        /\ \A x \in DOMAIN t : x \in DOMAIN st /\ Same(st[x], t[x])
    BY <1>11, <1>12, <1>13, RemadeFits
  <2> QED
    BY <1>10, <2>1
<1>15. Safe(st, u, saves, n)
  <2>1. Kids(st[n]) = Kids(t[n])
    BY <1>1, <1>14 DEF Same, Kids
  <2>2. ASSUME NEW c \in Kids(t[n])
        PROVE  c = EmptyLabel \/ c \in Kids(u[n]) \/ c \notin DOMAIN st \cup DOMAIN u
    <3>1. PICK bit \in Bit : c = ChildOn(t[n], bit)
      BY <1>1, KidIsChild
    <3>2. CASE bit # b
      BY <1>7, <3>1, <3>2, ChildIsKid
    <3>3. CASE bit = b
      <4>1. c = EmptyLabel \/ c \notin DOMAIN t
        BY <1>3, <3>1, <3>3 DEF Present
      <4>2. c \in DOMAIN st => c \in DOMAIN t
        BY <1>1 DEF Fits
      <4>3. l \in Kids(u[n])
        BY <1>3, <1>7, ChildIsKid
      <4> QED
        BY <1>5, <4>1, <4>2, <4>3
    <3> QED
      BY <3>2, <3>3
  <2> QED
    BY <2>1, <2>2 DEF Safe, Grown
<1>16. AllSafe(st, u, saves)
  BY <1>14, <1>15, KeyHidesNothing DEF AllSafe
<1>17. Ordered(st, u, saves)
  BY <1>1, <1>3, <1>6, <1>14 DEF Ordered
<1>18. Back(s, u, l)
  <2>1. Len(s) = 1
    <3>1. Len(s) \in Nat /\ Len(s) >= 1 /\ (Len(s) > 1 => Top(s) # EmptyLabel)
      BY <1>1, RouteTop
    <3>2. PICK N : N = Len(s)
      OBVIOUS
    <3>3. N \in Nat /\ N >= 1 /\ ~(N > 1)
      BY <1>3, <3>1, <3>2
    <3>4. N = 1
      BY <3>3
    <3> QED
      BY <3>2, <3>4
  <2>2. FoundFrom(u, n, l)
    <3>1. l \in Kids(u[n]) /\ l \in DOMAIN u /\ n \in DOMAIN u
      BY <1>1, <1>3, <1>5, <1>7, ChildIsKid
    <3> QED
      BY <3>1 DEF FoundFrom, Walk
  <2>3. s \in Seq(DOMAIN u) /\ s # <<>>
    BY <1>1, <1>5 DEF IsRoute
  <2> QED
    BY <1>3, <2>1, <2>2, <2>3 DEF Back
<1> QED
  BY <1>9, <1>13, <1>14, <1>16, <1>17, <1>18 DEF Begins, Underway

(* The new inner node f is under p and over n: a node of storage at f hides *)
(* nothing, since all that is found is above it, beside it or from n on.    *)
Around(t, u, st, saves, l, n, f) ==
  /\ \A x \in DOMAIN t : x \in DOMAIN st /\ Same(st[x], t[x])
  /\ Kids(u[n]) = Kids(t[n]) /\ Kids(u[l]) = {EmptyLabel}
  /\ \A x : Pending(saves, x) => x \in {l, n, f}

LEMMA HoldsAbove ==
  ASSUME NEW t, Sound(t), NEW st, Sound(st),
         NEW l \in FullLabel, NEW s, Path(s, t, l), Len(s) > 1, NEW n, n = Top(s),
         NEW p, p = s[Len(s) - 1], NEW f \in Label, Starts(f, l), Len(p) < Len(f),
         NEW side, IsUnder(n, f, side),
         NEW u, NEW saves, Around(t, u, st, saves, l, n, f)
  PROVE  Safe(st, u, saves, f)
<1>0. /\ \A x \in DOMAIN t : x \in DOMAIN st /\ Same(st[x], t[x])
      /\ Kids(u[n]) = Kids(t[n]) /\ Kids(u[l]) = {EmptyLabel}
      /\ \A x : Pending(saves, x) => x \in {l, n, f}
  BY DEF Around
<1>1. /\ s \in Seq(DOMAIN t) /\ s # <<>> /\ s[1] = EmptyLabel
      /\ \A k \in 1..Len(s) - 1 :
           /\ Starts(s[k], l) /\ s[k] # l
           /\ s[k + 1] = ChildOn(t[s[k]], l[Len(s[k]) + 1]) /\ s[k + 1] # EmptyLabel
      /\ \A j, k \in 1..Len(s) : j < k => Len(s[j]) < Len(s[k])
  BY DEF Path, IsRoute
<1>2. PICK N \in Nat : N = Len(s) /\ N > 1
  BY <1>1
<1>3. PICK S : S = {s[k] : k \in 1..N - 1}
  OBVIOUS
<1>4. PICK B : B = {y \in Label : ~Starts(y, f) /\ ~Starts(f, y)}
  OBVIOUS
<1>5. PICK D : D = {y \in Label : Starts(n, y)}
  OBVIOUS
<1>6. PICK H : H = S \cup B \cup D
  OBVIOUS
<1>7. n = s[N] /\ p = s[N - 1] /\ n \in DOMAIN t /\ p \in DOMAIN t /\ l \in Label
  BY <1>1, <1>2, Lengths DEF Top
<1>8. DOMAIN t \subseteq Label /\ DOMAIN st \subseteq Label /\ n \in Label /\ p \in Label
      /\ EmptyLabel \in Label
  BY <1>7, FullIsLabel DEF Sound
<1>9. n \in D
  BY <1>5, <1>8, Lengths
<1>10. \A k \in 1..N - 1 : s[k] \in DOMAIN t /\ Len(s[k]) \in Nat /\ s[k] \in Label
  <2> SUFFICES ASSUME NEW k \in 1..N - 1
               PROVE  s[k] \in DOMAIN t /\ Len(s[k]) \in Nat /\ s[k] \in Label
    OBVIOUS
  <2>1. s[k] \in DOMAIN t
    BY <1>1, <1>2
  <2> QED
    BY <1>8, <2>1, LabelLen
<1>11. ASSUME NEW k \in 1..N - 1 PROVE IsUnder(f, s[k], l[Len(s[k]) + 1]) /\ Len(s[k]) < Len(f)
  <2>1. Len(s[k]) < Len(f)
    <3>1. k = N - 1 \/ k < N - 1
      BY <1>2
    <3>2. k < N - 1 => Len(s[k]) < Len(p)
      <4>1. k \in 1..N /\ N - 1 \in 1..N
        BY <1>2
      <4> QED
        BY <1>1, <1>2, <1>7, <4>1
    <3>3. Len(p) \in Nat /\ Len(f) \in Nat
      BY <1>8, LabelLen
    <3> QED
      BY <1>7, <1>10, <3>1, <3>2, <3>3
  <2> QED
    BY <1>1, <1>2, <1>7, <1>10, <2>1, StartsOrder
<1>12. \A x \in DOMAIN st : \A c \in Kids(st[x]) :
         c \in Label /\ (c = EmptyLabel \/ \E bit \in Bit : c = ChildOn(st[x], bit) /\ IsUnder(c, x, bit))
  BY KidIsChild DEF Sound
<1>13. \A x \in DOMAIN t : Kids(st[x]) = Kids(t[x]) /\ \A bit : ChildOn(st[x], bit) = ChildOn(t[x], bit)
  BY <1>0 DEF Same, Kids, ChildOn
<1>14. EmptyLabel \in H
  <2>1. 1 \in 1..N - 1
    BY <1>2
  <2> QED
    BY <1>1, <1>3, <1>6, <2>1
<1>15. f \notin H
  <2>1. f \notin S
    <3>1. \A k \in 1..N - 1 : Len(s[k]) < Len(f)
      BY <1>11
    <3>2. Len(f) \in Nat
      BY LabelLen
    <3> QED
      BY <1>3, <3>1, <3>2
  <2>2. f \notin B
    BY <1>4, Lengths
  <2>3. f \notin D
    BY <1>5, <1>8, UnderIsBelow
  <2> QED
    BY <1>6, <2>1, <2>2, <2>3
<1>16. ASSUME NEW x \in S, x \in DOMAIN st, NEW c \in Kids(st[x]) PROVE c \in H
  <2>1. PICK k \in 1..N - 1 : x = s[k]
    BY <1>3, <1>16
  <2>2. PICK b : b = l[Len(x) + 1]
    OBVIOUS
  <2>3. IsUnder(f, x, b) /\ x \in DOMAIN t /\ x \in Label
    BY <1>10, <1>11, <2>1, <2>2
  <2>4. c \in Label /\ (c = EmptyLabel \/ \E bit \in Bit : c = ChildOn(st[x], bit) /\ IsUnder(c, x, bit))
    BY <1>12, <1>16
  <2>5. CASE c = EmptyLabel
    BY <1>14, <2>5
  <2>6. CASE \E bit \in Bit : c = ChildOn(st[x], bit) /\ IsUnder(c, x, bit)
    <3>1. PICK bit \in Bit : c = ChildOn(st[x], bit) /\ IsUnder(c, x, bit)
      BY <2>6
    <3>2. CASE bit = b
      <4>1. c = s[k + 1]
        BY <1>1, <1>2, <1>13, <2>1, <2>2, <2>3, <3>1, <3>2
      <4>2. k = N - 1 \/ k + 1 \in 1..N - 1
        BY <1>2
      <4>3. k = N - 1 => k + 1 = N
        BY <1>2
      <4> QED
        BY <1>3, <1>6, <1>7, <1>9, <4>1, <4>2, <4>3
    <3>3. CASE bit # b
      <4>1. ~Starts(c, f)
        BY <2>3, <2>4, <3>1, <3>3, StartsUnder, OneSide
      <4>2. ~Starts(f, c)
        BY <2>3, <2>4, <3>1, <3>3, StartsUnder, OneSide
      <4> QED
        BY <1>4, <1>6, <2>4, <4>1, <4>2
    <3> QED
      BY <3>2, <3>3
  <2> QED
    BY <2>4, <2>5, <2>6
<1>17. ASSUME NEW x \in B, x \in DOMAIN st, NEW c \in Kids(st[x]) PROVE c \in H
  <2>1. x \in Label /\ ~Starts(x, f) /\ ~Starts(f, x)
    BY <1>4, <1>17
  <2>2. c \in Label /\ (c = EmptyLabel \/ \E bit \in Bit : c = ChildOn(st[x], bit) /\ IsUnder(c, x, bit))
    BY <1>12, <1>17
  <2>3. CASE c = EmptyLabel
    BY <1>14, <2>3
  <2>4. CASE \E bit \in Bit : c = ChildOn(st[x], bit) /\ IsUnder(c, x, bit)
    <3>1. Starts(x, c)
      BY <2>4 DEF IsUnder
    <3>2. ~Starts(c, f)
      BY <2>1, <2>2, <3>1, StartsTrans
    <3>3. ~Starts(f, c)
      <4> SUFFICES ASSUME Starts(f, c) PROVE FALSE
        OBVIOUS
      <4>1. x = f \/ IsUnder(f, x, c[Len(x) + 1]) \/ IsUnder(x, f, c[Len(f) + 1])
        BY <2>1, <2>2, <3>1, StartsEither
      <4>2. x # f
        BY <2>1, Lengths
      <4> QED
        BY <2>1, <4>1, <4>2 DEF IsUnder
    <3> QED
      BY <1>4, <1>6, <2>2, <3>2, <3>3
  <2> QED
    BY <2>2, <2>3, <2>4
<1>18. ASSUME NEW x \in D, x \in DOMAIN st, NEW c \in Kids(st[x]) PROVE c \in H
  <2>1. x \in Label /\ Starts(n, x)
    BY <1>5, <1>18
  <2>2. c \in Label /\ (c = EmptyLabel \/ \E bit \in Bit : c = ChildOn(st[x], bit) /\ IsUnder(c, x, bit))
    BY <1>12, <1>18
  <2>3. CASE c = EmptyLabel
    BY <1>14, <2>3
  <2>4. CASE \E bit \in Bit : c = ChildOn(st[x], bit) /\ IsUnder(c, x, bit)
    <3>1. Starts(x, c)
      BY <2>4 DEF IsUnder
    <3>2. Starts(n, c)
      BY <1>8, <2>1, <2>2, <3>1, StartsTrans
    <3> QED
      BY <1>5, <1>6, <2>2, <3>2
  <2> QED
    BY <2>2, <2>3, <2>4
<1>19. \A x \in H \cap DOMAIN st : Kids(st[x]) \subseteq H
  BY <1>6, <1>16, <1>17, <1>18
<1>20. ASSUME NEW x \in H, Pending(saves, x) PROVE Kids(u[x]) \subseteq H
  <2>1. x = l \/ x = n
    BY <1>0, <1>15, <1>20
  <2>2. n \in DOMAIN st /\ Kids(u[n]) = Kids(st[n])
    BY <1>0, <1>7, <1>13
  <2> QED
    BY <1>0, <1>6, <1>9, <1>14, <1>19, <2>1, <2>2
<1>21. Holding(H, st, u, saves)
  BY <1>14, <1>19, <1>20 DEF Holding
<1> QED
  BY <1>15, <1>21 DEF Safe

(* A split changes l, the new inner node f, and nobody's other children. *)
Forking(t, u, l, n, f) ==
  /\ DOMAIN u = DOMAIN t \cup {l, f} /\ Kids(u[l]) = {EmptyLabel} /\ Kids(u[f]) = {l, n}
  /\ ShapedNode(l, u[l]) /\ ShapedNode(f, u[f])
  /\ \A x \in DOMAIN t \ {l, f} : Same(u[x], t[x])

LEMMA SplitForks ==
  ASSUME NEW t, NEW l \in FullLabel, NEW n \in DOMAIN t, n \in Label, n # l, ~Starts(n, l),
         NEW f, f = CommonPrefix(l, n), NEW h, NEW u, SplitAtNode(u, t, n, l, NewLeaf(h))
  PROVE  Forking(t, u, l, n, f)
<1>1. f \notin FullLabel
  BY ForkIsAbove
<1>2. /\ DOMAIN u = DOMAIN t \cup {l, f}
      /\ u[l] = NewLeaf(h) /\ u[f] = Fork(t, n, l)
      /\ \A x \in DOMAIN t \ {l, f} :
           u[x] = t[x] \/ u[x] = Node(t[x].left, t[x].right, ZeroHash, TRUE)
  <2>1. CASE SplitsLeaf(t, n)
    BY <1>1, <2>1 DEF SplitAtNode, SplitLeaf
  <2>2. CASE ~SplitsLeaf(t, n)
    BY <1>1, <2>2 DEF SplitAtNode, SplitEdge
  <2> QED
    BY <2>1, <2>2
<1>3. Kids(u[l]) = {EmptyLabel}
  BY <1>2 DEF Kids, NewLeaf, Node
<1>4. Kids(u[f]) = {l, n}
  BY <1>2 DEF Kids, Fork, Node
<1>5. ShapedNode(l, u[l]) /\ ShapedNode(f, u[f])
  BY <1>2, NewLeafIsShaped, ForkIsShaped
<1>6. \A x \in DOMAIN t \ {l, f} : Same(u[x], t[x])
  BY <1>2 DEF Same, Node
<1> QED
  BY <1>2, <1>3, <1>4, <1>5, <1>6 DEF Forking

LEMMA ForkSound ==
  ASSUME NEW t, Sound(t), NEW l \in FullLabel, NEW n \in DOMAIN t, NEW f \in Label,
         f # EmptyLabel, NEW u, Forking(t, u, l, n, f)
  PROVE  Sound(u)
<1>1. /\ DOMAIN u = DOMAIN t \cup {l, f} /\ Kids(u[l]) = {EmptyLabel} /\ Kids(u[f]) = {l, n}
      /\ ShapedNode(l, u[l]) /\ ShapedNode(f, u[f])
      /\ \A x \in DOMAIN t \ {l, f} : Same(u[x], t[x])
  BY DEF Forking
<1>2. ASSUME NEW x \in DOMAIN u PROVE ShapedNode(x, u[x])
  <2>1. CASE x \in {l, f}
    BY <1>1, <2>1
  <2>2. CASE x \notin {l, f}
    <3>1. x \in DOMAIN t /\ Same(u[x], t[x])
      BY <1>1, <2>2
    <3>2. \A bit : ChildOn(u[x], bit) = ChildOn(t[x], bit)
      BY <3>1 DEF Same, ChildOn
    <3>3. ShapedNode(x, t[x])
      BY <3>1 DEF Sound, Shaped
    <3> QED
      BY <3>2, <3>3 DEF ShapedNode
  <2> QED
    BY <2>1, <2>2
<1>3. l \in Label /\ EmptyLabel \in DOMAIN t /\ DOMAIN t \subseteq Label
  BY Lengths DEF Sound
<1>4. ASSUME NEW x \in DOMAIN u
      PROVE  Kids(u[x]) \subseteq Label /\ (x # EmptyLabel => Kids(u[x]) \subseteq DOMAIN u)
  <2>1. CASE x \in {l, f}
    BY <1>1, <1>3, <2>1
  <2>2. CASE x \notin {l, f}
    <3>1. x \in DOMAIN t /\ Same(u[x], t[x])
      BY <1>1, <2>2
    <3>2. Kids(u[x]) = Kids(t[x])
      BY <3>1 DEF Same, Kids
    <3> QED
      BY <1>1, <3>1, <3>2 DEF Sound
  <2> QED
    BY <2>1, <2>2
<1> QED
  BY <1>1, <1>2, <1>3, <1>4 DEF Sound, Shaped

(* What hangs below the last node of a, after the split. *)
LEMMA ForkHangs ==
  ASSUME NEW t, Sound(t), NEW l \in FullLabel, NEW s, Path(s, t, l), Len(s) > 1,
         NEW n, n = Top(s), NEW p, p = s[Len(s) - 1], NEW f \in Label,
         IsUnder(f, p, l[Len(p) + 1]), NEW u, Forking(t, u, l, n, f),
         NEW r, Backs(r, s, f)
  PROVE  Back(r, u, l)
<1>1. PICK a : Climbs(t, l, s, a, p) /\ a = SubSeq(s, 1, Len(s) - 1)
  BY RouteClimbs DEF Path
<1>2. Hangs(a, p, n, t, l)
  BY <1>1, PathUp
<1>3. /\ Path(a, t, l) /\ Top(a) = p /\ p \in DOMAIN t /\ Starts(p, l) /\ p # l
      /\ n = ChildOn(t[p], l[Len(p) + 1]) /\ n # EmptyLabel
  BY <1>1, <1>2 DEF Climbs, Hangs
<1>4. /\ DOMAIN u = DOMAIN t \cup {l, f} /\ Kids(u[f]) = {l, n}
      /\ \A x \in DOMAIN t \ {l, f} : Same(u[x], t[x])
  BY DEF Forking
<1>5. Len(p) < Len(f) /\ Len(p) < Len(l)
  <2>1. IsUnder(l, p, l[Len(p) + 1])
    BY <1>3, StartsIsUnder, Lengths DEF Sound
  <2> QED
    BY <2>1 DEF IsUnder
<1>6. Len(p) \in Nat /\ Len(f) \in Nat /\ Len(l) \in Nat
  BY <1>3, LabelLen, Lengths DEF Sound
<1>7. p # f /\ p # l
  BY <1>5, <1>6
<1>8. Path(a, u, l)
  <2>1. \A x \in DOMAIN t : Len(x) < Len(p) => x # f /\ x # l
    BY <1>5, <1>6
  <2> QED
    BY <1>3, <1>4, <2>1, PathOfMore
<1>9. ChildOn(u[p], l[Len(p) + 1]) = n
  BY <1>3, <1>4, <1>7 DEF Same, ChildOn
<1>10. Hangs(a, p, f, u, l)
  BY <1>3, <1>4, <1>8, <1>9 DEF Hangs
<1>11. FoundFrom(u, f, l)
  BY <1>4 DEF FoundFrom, Walk
<1>12. a \in Seq(DOMAIN u) /\ f \in DOMAIN u /\ a # <<>>
  BY <1>4, <1>8 DEF Path, IsRoute
<1>13. /\ r \in Seq(DOMAIN u) /\ r # <<>> /\ Len(r) = Len(a) + 1
       /\ r[Len(a) + 1] = f /\ \A k \in 1..Len(a) : r[k] = a[k]
  BY <1>1, <1>12, AppendFact DEF Backs
<1>14. PICK A \in Nat : A = Len(a) /\ A >= 1
  BY <1>12
<1>15. Len(r) = A + 1 /\ Len(r) > 1 /\ Len(r) # 1 /\ Len(r) - 1 = A
  BY <1>13, <1>14
<1>16. SubSeq(r, 1, A) = a
  BY <1>12, <1>13, <1>14
<1>17. r[A] = p
  BY <1>3, <1>13, <1>14 DEF Top
<1>18. Top(r) = f
  BY <1>13, <1>14 DEF Top
<1> QED
  BY <1>10, <1>11, <1>13, <1>15, <1>16, <1>17, <1>18 DEF Back

LEMMA SplitBegins ==
  ASSUME NEW t, Sound(t), NEW k, NEW m, NEW st, Sound(st), Fits(t, k, m, st, <<>>),
         NEW l \in FullLabel, NEW s, Path(s, t, l), NEW n, n = Top(s), n # l,
         SplitsLeaf(t, n) \/ (~HasFreeSlot(View(t), n, l) /\ ~HasRoute(View(t), n, l)),
         NEW f, f = CommonPrefix(l, n), NEW h, NEW u, SplitAtNode(u, t, n, l, NewLeaf(h)),
         NEW list, list \in {<<l, n, f>>, <<n, l, f>>}, NEW r, Backs(r, s, f)
  PROVE  Begins(t, u, k, st, list) /\ Back(r, u, l)
<1>1. IsRoute(s, t, l) /\ n \in DOMAIN t /\ l \in Label /\ n \in Label
  BY RouteTop, Lengths DEF Path, Sound
<1>2. ~Starts(n, l)
  <2>1. PICK v : v = Bare(t)
    OBVIOUS
  <2>2. /\ Closed(v) /\ Shaped(v) /\ n \in DOMAIN v
        /\ SplitsLeaf(v, n) \/ (~HasFreeSlot(v, n, l) /\ ~HasRoute(v, n, l))
    BY <1>1, <2>1, BareFact
  <2> QED
    BY <2>2, SplitLeaves
<1>3. Len(s) > 1
  <2>1. Starts(EmptyLabel, l)
    BY <1>1, Lengths
  <2> QED
    BY <1>1, <1>2, <2>1, RouteIsLonger
<1>4. PICK p : p = s[Len(s) - 1]
  OBVIOUS
<1>5. p \in DOMAIN t /\ p \in Label /\ Starts(p, l) /\ p # l /\ IsUnder(n, p, l[Len(p) + 1])
  BY <1>1, <1>3, <1>4, PathUp DEF Hangs, Sound
<1>6. /\ f \in Label /\ Starts(f, l) /\ f \notin FullLabel /\ f # n /\ f # l
      /\ IsUnder(f, p, l[Len(p) + 1]) /\ f # EmptyLabel
  <2>1. f \in Label /\ Starts(f, l) /\ f \notin FullLabel /\ f # n
    BY <1>1, <1>2, ForkIsAbove
  <2>2. IsUnder(f, p, l[Len(p) + 1])
    BY <1>1, <1>5, ForkIsUnder
  <2> QED
    BY <1>5, <2>1, <2>2, UnderIsBelow
<1>7. PICK side : IsUnder(n, f, side)
  BY <1>1, <1>2, ForkIsAbove
<1>8. n # EmptyLabel
  BY <1>6, <1>7, <1>1, UnderIsBelow
<1>9. Forking(t, u, l, n, f)
  BY <1>1, <1>2, SplitForks
<1>10. /\ DOMAIN u = DOMAIN t \cup {l, f} /\ Kids(u[l]) = {EmptyLabel} /\ Kids(u[f]) = {l, n}
       /\ \A x \in DOMAIN t \ {l, f} : Same(u[x], t[x])
  BY <1>9 DEF Forking
<1>11. Kids(u[n]) = Kids(t[n])
  BY <1>1, <1>6, <1>10 DEF Same, Kids
<1>12. Sound(u)
  BY <1>1, <1>6, <1>9, ForkSound
<1>13. /\ DOMAIN list = {1, 2, 3} /\ list[3] = f /\ {list[1], list[2]} = {l, n}
       /\ list \in Seq(DOMAIN u)
  <2>1. l \in DOMAIN u /\ n \in DOMAIN u /\ f \in DOMAIN u
    BY <1>1, <1>10
  <2>2. \A x \in DOMAIN u, y \in DOMAIN u, z \in DOMAIN u : <<x, y, z>> \in Seq(DOMAIN u)
    OBVIOUS
  <2>3. <<l, n, f>> \in Seq(DOMAIN u) /\ <<n, l, f>> \in Seq(DOMAIN u)
    BY <2>1, <2>2, Zenon
  <2>4. /\ DOMAIN list = {1, 2, 3} /\ list[3] = f
        /\ (list[1] = l /\ list[2] = n) \/ (list[1] = n /\ list[2] = l)
    OBVIOUS
  <2> QED
    BY <2>3, <2>4
<1>14. Remade(t, u, list)
  <2>1. ASSUME NEW x \in DOMAIN u
        PROVE  (\E j \in DOMAIN list : list[j] = x) \/ (x \in DOMAIN t /\ Same(u[x], t[x]))
    BY <1>10, <1>13
  <2> QED
    BY <1>10, <1>13, <2>1 DEF Remade, Sound
<1>15. ASSUME NEW x \in DOMAIN u PROVE Kids(u[x]) \cap DOMAIN st \subseteq DOMAIN u
  <2>1. CASE x # EmptyLabel
    BY <1>12, <2>1 DEF Sound
  <2>2. CASE x = EmptyLabel
    <3>1. x \in DOMAIN t \ {l, f}
      BY <1>6, <2>2, EmptyIsNotFull DEF Sound
    <3>2. Kids(u[x]) = Kids(t[x])
      BY <1>10, <3>1 DEF Same, Kids
    <3> QED
      BY <1>10, <3>1, <3>2 DEF Fits
  <2> QED
    BY <2>1, <2>2
<1>16. PICK saves : saves = Saves(list, u)
  OBVIOUS
<1>17. /\ Fits(u, k, IF k = "Linked" THEN u ELSE Root(u), st, saves)
       /\ \A x : Pending(saves, x) <=> \E j \in DOMAIN list : list[j] = x
       /\ DOMAIN saves = DOMAIN list /\ \A j \in DOMAIN list : saves[j].label = list[j]
       /\ \A x \in DOMAIN t : x \in DOMAIN st /\ Same(st[x], t[x])
  BY <1>14, <1>15, <1>16, RemadeFits
<1>18. \A x : Pending(saves, x) => x \in {l, n, f}
  BY <1>13, <1>17
<1>19. Safe(st, u, saves, n)
  <2>1. Kids(st[n]) = Kids(u[n])
    BY <1>1, <1>11, <1>17 DEF Same, Kids
  <2> QED
    BY <2>1 DEF Safe, Grown
<1>20. Safe(st, u, saves, f)
  <2>1. Len(p) < Len(f)
    BY <1>6 DEF IsUnder
  <2>2. Around(t, u, st, saves, l, n, f)
    BY <1>10, <1>11, <1>17, <1>18 DEF Around
  <2>3. f \in Label /\ Starts(f, l)
    BY <1>6
  <2> QED
    BY <1>3, <1>4, <1>7, <2>1, <2>2, <2>3, HoldsAbove
<1>21. AllSafe(st, u, saves)
  BY <1>18, <1>19, <1>20, KeyHidesNothing DEF AllSafe
<1>22. Ordered(st, u, saves)
  <2>1. Kids(u[l]) \subseteq DOMAIN st
    BY <1>10 DEF Sound
  <2>2. Kids(u[n]) \subseteq DOMAIN st
    BY <1>1, <1>8, <1>11, <1>17 DEF Sound
  <2>3. ASSUME NEW j \in DOMAIN saves, NEW c \in Kids(u[saves[j].label])
        PROVE  c \in DOMAIN st \/ \E i \in DOMAIN saves : i < j /\ saves[i].label = c
    <3>1. j \in {1, 2, 3} /\ saves[j].label = list[j] /\ DOMAIN saves = {1, 2, 3}
      BY <1>13, <1>17
    <3>2. CASE j # 3
      <4>1. saves[j].label \in {l, n}
        BY <1>13, <3>1, <3>2
      <4> QED
        BY <2>1, <2>2, <2>3, <4>1
    <3>3. CASE j = 3
      <4>1. c \in {list[1], list[2]}
        BY <1>10, <1>13, <2>3, <3>1, <3>3
      <4>2. saves[1].label = list[1] /\ saves[2].label = list[2]
        BY <1>13, <1>17
      <4> QED
        BY <3>1, <3>3, <4>1, <4>2
    <3> QED
      BY <3>2, <3>3
  <2> QED
    BY <2>3 DEF Ordered
<1>23. Back(r, u, l)
  BY <1>1, <1>3, <1>4, <1>6, <1>9, ForkHangs
<1>24. Begins(t, u, k, st, list)
  BY <1>12, <1>16, <1>17, <1>21, <1>22 DEF Begins, Underway
<1> QED
  BY <1>23, <1>24

(* The caller of the attached node takes it as its child. *)
LEMMA ReturnBegins ==
  ASSUME NEW t, Sound(t), NEW k, NEW m, NEW st, Sound(st), Fits(t, k, m, st, <<>>),
         NEW l \in FullLabel, NEW s, Back(s, t, l), Len(s) > 1, NEW p, p = s[Len(s) - 1],
         NEW u, Returned(u, t, p, l, Top(s)), NEW list, list = <<p>>,
         NEW a, a = SubSeq(s, 1, Len(s) - 1)
  PROVE  Begins(t, u, k, st, list) /\ Back(a, u, l)
<1>1. PICK n : n = Top(s)
  OBVIOUS
<1>2. Hangs(a, p, n, t, l) /\ s \in Seq(DOMAIN t) /\ s # <<>> /\ FoundFrom(t, n, l)
  BY <1>1 DEF Back
<1>3. PICK b : b = l[Len(p) + 1]
  OBVIOUS
<1>4. /\ Path(a, t, l) /\ Top(a) = p /\ p \in DOMAIN t /\ Starts(p, l) /\ p # l
      /\ IsUnder(n, p, b) /\ ChildOn(t[p], b) \in {n} \cup Kids(t[n])
  BY <1>2, <1>3 DEF Hangs
<1>5. n \in DOMAIN t /\ n \in Label /\ p \in Label /\ EmptyLabel \in DOMAIN t
  BY <1>1, <1>2, <1>4 DEF Top, Sound
<1>6. b = NextBit(p, l) /\ b \in Bit
  BY <1>3, <1>4, <1>5, RouteBit
<1>7. n # EmptyLabel /\ n # p
  BY <1>4, <1>5, UnderIsBelow
<1>8. DOMAIN u = DOMAIN t /\ u[p] = SetChild(t[p], b, n) /\ \A x \in DOMAIN t \ {p} : u[x] = t[x]
  BY <1>1, <1>4, <1>6 DEF Returned
<1>9. \A bit \in Bit : ChildOn(u[p], bit) = IF bit = b THEN n ELSE ChildOn(t[p], bit)
  BY <1>6, <1>8, SetChildGives
<1>10. Kids(u[p]) \subseteq {n} \cup Kids(t[p]) /\ n \in Kids(u[p])
  <2>1. n \in Kids(u[p])
    BY <1>6, <1>9, ChildIsKid
  <2> QED
    BY <1>8, <2>1 DEF Kids, SetChild, Node
<1>11. ASSUME NEW c \in Kids(t[p]) PROVE c \in Kids(u[p]) \/ c \in Kids(t[n])
  <2>1. PICK bit \in Bit : c = ChildOn(t[p], bit)
    BY <1>4, KidIsChild
  <2>2. CASE bit = b
    BY <1>4, <1>10, <2>1, <2>2
  <2>3. CASE bit # b
    BY <1>9, <2>1, <2>3, ChildIsKid
  <2> QED
    BY <2>2, <2>3
<1>12. Sound(u)
  <2>1. ShapedNode(p, u[p])
    <3>1. ShapedNode(p, t[p])
      BY <1>4 DEF Sound, Shaped
    <3> QED
      BY <1>4, <1>6, <1>7, <1>8, <3>1, SetChildIsShaped
  <2>2. Shaped(u)
    BY <1>8, <2>1 DEF Sound, Shaped
  <2>3. ASSUME NEW x \in DOMAIN u
        PROVE  Kids(u[x]) \subseteq Label /\ (x # EmptyLabel => Kids(u[x]) \subseteq DOMAIN u)
    <3>1. CASE x = p
      BY <1>4, <1>5, <1>8, <1>10, <3>1 DEF Sound
    <3>2. CASE x # p
      BY <1>8, <3>2 DEF Sound
    <3> QED
      BY <3>1, <3>2
  <2> QED
    BY <1>8, <2>2, <2>3 DEF Sound
<1>13. DOMAIN list = {1} /\ list[1] = p /\ list \in Seq(DOMAIN u)
  BY <1>4, <1>8
<1>14. Remade(t, u, list)
  BY <1>5, <1>8, <1>13 DEF Remade, Same
<1>15. ASSUME NEW x \in DOMAIN u PROVE Kids(u[x]) \cap DOMAIN st \subseteq DOMAIN u
  <2>1. CASE x = p
    BY <1>4, <1>5, <1>8, <1>10, <2>1 DEF Fits
  <2>2. CASE x # p
    BY <1>8, <2>2 DEF Fits
  <2> QED
    BY <2>1, <2>2
<1>16. PICK saves : saves = Saves(list, u)
  OBVIOUS
<1>17. /\ Fits(u, k, IF k = "Linked" THEN u ELSE Root(u), st, saves)
       /\ \A x : Pending(saves, x) <=> \E j \in DOMAIN list : list[j] = x
       /\ DOMAIN saves = DOMAIN list /\ \A j \in DOMAIN list : saves[j].label = list[j]
       /\ \A x \in DOMAIN t : x \in DOMAIN st /\ Same(st[x], t[x])
  BY <1>14, <1>15, <1>16, RemadeFits
<1>18. \A x : Pending(saves, x) => x = p
  BY <1>13, <1>17
<1>19. Safe(st, u, saves, p)
  <2>1. Kids(st[p]) = Kids(t[p])
    BY <1>4, <1>17 DEF Same, Kids
  <2>2. n \in Kids(u[p]) \cap DOMAIN u /\ ~Pending(saves, n) /\ Kids(u[n]) = Kids(t[n])
    BY <1>5, <1>7, <1>8, <1>10, <1>18
  <2> QED
    BY <1>11, <2>1, <2>2 DEF Safe, Grown
<1>20. AllSafe(st, u, saves)
  BY <1>18, <1>19 DEF AllSafe
<1>21. Ordered(st, u, saves)
  <2>1. p # EmptyLabel => Kids(u[p]) \subseteq DOMAIN st
    BY <1>4, <1>5, <1>10, <1>17 DEF Sound
  <2>2. \A j \in DOMAIN saves : saves[j].label = p
    BY <1>13, <1>17
  <2> QED
    BY <2>1, <2>2 DEF Ordered
<1>22. FoundFrom(u, p, l)
  <2> SUFFICES ASSUME NEW X, Walk(X, u), p \in X PROVE l \in X
    BY DEF FoundFrom
  <2>1. EmptyLabel \in X /\ \A x \in X \cap DOMAIN t : Kids(u[x]) \cap DOMAIN t \subseteq X
    BY <1>8 DEF Walk
  <2>2. n \in X
    BY <1>4, <1>5, <1>10, <2>1
  <2>3. Kids(t[n]) \cap DOMAIN t \subseteq X
    BY <1>5, <1>7, <1>8, <2>1, <2>2
  <2>4. Kids(t[p]) \cap DOMAIN t \subseteq X
    BY <1>4, <1>11, <2>1, <2>3
  <2>5. Walk(X, t)
    BY <1>8, <2>1, <2>4 DEF Walk
  <2> QED
    BY <1>2, <2>2, <2>5 DEF FoundFrom
<1>23. Path(a, u, l)
  <2>1. \A x \in DOMAIN t : Len(x) < Len(Top(a)) => x # p
    <3>1. Len(p) \in Nat
      BY <1>5, LabelLen
    <3> QED
      BY <1>4, <3>1
  <2> QED
    BY <1>4, <1>8, <2>1, PathOfMore DEF Same
<1>24. Back(a, u, l)
  <2>1. a \in Seq(DOMAIN u) /\ a # <<>>
    BY <1>23 DEF Path, IsRoute
  <2>2. Len(a) = 1 => Top(a) = EmptyLabel
    BY <1>23, RouteTop DEF Path
  <2>3. Len(a) > 1 => Hangs(SubSeq(a, 1, Len(a) - 1), a[Len(a) - 1], Top(a), u, l)
    BY <1>12, <1>23, PathUp
  <2> QED
    BY <1>4, <1>22, <2>1, <2>2, <2>3 DEF Back
<1>25. Begins(t, u, k, st, list)
  BY <1>12, <1>16, <1>17, <1>20, <1>21 DEF Begins, Underway
<1> QED
  BY <1>24, <1>25

(* A change of hashes leaves all children as they are. *)
LEMMA HashBegins ==
  ASSUME NEW t, Sound(t), NEW k, NEW m, NEW st, Sound(st), Fits(t, k, m, st, <<>>),
         NEW u, Alike(t, u), NEW list \in Seq(DOMAIN t)
  PROVE  Begins(t, u, k, st, list)
<1>1. DOMAIN u = DOMAIN t /\ \A x \in DOMAIN t : Same(u[x], t[x]) /\ Kids(u[x]) = Kids(t[x])
  BY DEF Alike, Same, Kids
<1>2. Sound(u)
  BY AlikeSound
<1>3. Remade(t, u, list)
  BY <1>1 DEF Remade, Sound
<1>4. \A x \in DOMAIN u : Kids(u[x]) \cap DOMAIN st \subseteq DOMAIN u
  BY <1>1 DEF Fits
<1>5. PICK saves : saves = Saves(list, u)
  OBVIOUS
<1>6. /\ Fits(u, k, IF k = "Linked" THEN u ELSE Root(u), st, saves)
      /\ \A x : Pending(saves, x) <=> \E j \in DOMAIN list : list[j] = x
      /\ DOMAIN saves = DOMAIN list /\ \A j \in DOMAIN list : saves[j].label = list[j]
      /\ \A x \in DOMAIN t : x \in DOMAIN st /\ Same(st[x], t[x])
  BY <1>3, <1>4, <1>5, RemadeFits
<1>7. \A j \in DOMAIN list : list[j] \in DOMAIN t
  OBVIOUS
<1>8. ASSUME NEW x, Pending(saves, x) PROVE Safe(st, u, saves, x)
  <2>1. x \in DOMAIN t
    BY <1>6, <1>7, <1>8
  <2>2. Kids(st[x]) = Kids(u[x])
    BY <1>1, <1>6, <2>1 DEF Same, Kids
  <2> QED
    BY <2>2 DEF Safe, Grown
<1>9. Ordered(st, u, saves)
  <2> SUFFICES ASSUME NEW j \in DOMAIN saves, saves[j].label # EmptyLabel,
                      NEW c \in Kids(u[saves[j].label])
               PROVE  c \in DOMAIN st
    BY DEF Ordered
  <2>1. saves[j].label \in DOMAIN t
    BY <1>6, <1>7
  <2> QED
    BY <1>1, <1>6, <2>1 DEF Sound
<1> QED
  BY <1>2, <1>5, <1>6, <1>8, <1>9 DEF Begins, Underway, AllSafe

LEMMA NothingUnderway ==
  ASSUME NEW t, Sound(t), NEW k, NEW m, NEW st, Sound(st), Fits(t, k, m, st, <<>>)
  PROVE  Underway(t, k, m, st, <<>>)
BY DEF Underway, Ordered, AllSafe, Pending

LEMMA FollowsPath ==
  ASSUME NEW t, Sound(t), NEW l \in FullLabel, NEW s, Path(s, t, l), Top(s) # l,
         HasRoute(View(t), Top(s), l)
  PROVE  Path(Followed(s, t, l), t, l)
<1>1. PICK n, b : n = Top(s) /\ b = NextBit(n, l)
  OBVIOUS
<1>2. n \in DOMAIN t
  BY <1>1, RouteTop DEF Path
<1>3. PICK v : v = Bare(t)
  OBVIOUS
<1>4. /\ Closed(v) /\ Shaped(v) /\ DOMAIN v = DOMAIN t
      /\ \A bit \in Bit : ChildOn(v[n], bit) = Present(t, ChildOn(t[n], bit))
      /\ HasRoute(v, n, l)
  BY <1>1, <1>2, <1>3, BareFact
<1>5. Starts(n, l) /\ b = l[Len(n) + 1]
  BY <1>1, <1>2, <1>4, RouteDescends
<1>6. b \in Bit
  <2>1. n \in Label /\ l \in Label
    BY <1>2, Lengths DEF Sound
  <2> QED
    BY <1>1, <1>5, <2>1, StartsIsUnder
<1>7. ChildOn(v[n], b) # EmptyLabel
  BY <1>1, <1>4 DEF HasRoute
<1>8. PICK c : c = ChildOn(t[n], b)
  OBVIOUS
<1>9. c \in DOMAIN t /\ c # EmptyLabel
  BY <1>4, <1>6, <1>7, <1>8 DEF Present
<1> QED
  BY <1>1, <1>5, <1>8, <1>9, PathDown DEF Followed

LEMMA FollowsIn ==
  ASSUME NEW t, Sound(t), NEW l, NEW s \in Seq(DOMAIN t), s # <<>>, HasRoute(View(t), Top(s), l)
  PROVE  Followed(s, t, l) \in Seq(DOMAIN t) /\ Followed(s, t, l) # <<>>
<1>1. PICK n, b : n = Top(s) /\ b = NextBit(n, l)
  OBVIOUS
<1>2. n \in DOMAIN t
  BY <1>1 DEF Top
<1>3. ChildOn(View(t)[n], b) # EmptyLabel
  BY <1>1 DEF HasRoute
<1>4. ChildOn(View(t)[n], b) = Present(t, ChildOn(t[n], b))
  BY <1>2 DEF View, ChildOn, Node
<1>5. ChildOn(t[n], b) \in DOMAIN t
  BY <1>3, <1>4 DEF Present
<1> QED
  BY <1>1, <1>5, AppendFact DEF Followed

LEMMA FoundIsStored ==
  ASSUME NEW t, Sound(t), NEW k, NEW m, NEW st, Fits(t, k, m, st, <<>>), NEW x
  PROVE  Found(t, x) <=> Found(st, x)
<1>1. /\ \A n \in DOMAIN t : n \in DOMAIN st /\ Kids(st[n]) = Kids(t[n])
      /\ \A n \in DOMAIN t : Kids(t[n]) \cap DOMAIN st \subseteq DOMAIN t
  BY NothingPending DEF Fits, Same, Kids
<1>2. ASSUME Found(t, x), NEW X, Walk(X, st) PROVE x \in X
  <2>1. Walk(X, t)
    BY <1>1, <1>2 DEF Walk
  <2> QED
    BY <1>2, <2>1 DEF Found
<1>3. ASSUME Found(st, x), NEW X, Walk(X, t) PROVE x \in X
  <2>1. PICK Y : Y = X \cap DOMAIN t
    OBVIOUS
  <2>2. Walk(Y, st)
    BY <1>1, <1>3, <2>1 DEF Walk, Sound
  <2> QED
    BY <1>3, <2>1, <2>2 DEF Found
<1> QED
  BY <1>2, <1>3 DEF Found

LEMMA FoundIsReached ==
  ASSUME NEW t, Sound(t), NEW x, Found(t, x)
  PROVE  x \in Reached(View(t))
<1>1. PICK v : v = View(t)
  OBVIOUS
<1>2. DOMAIN v = DOMAIN t /\ \A n \in DOMAIN t : Kids(v[n]) = {Present(t, c) : c \in Kids(t[n])}
  <2>1. DOMAIN v = DOMAIN t /\ \A n \in DOMAIN t : /\ v[n].left = Present(t, t[n].left)
                                                   /\ v[n].right = Present(t, t[n].right)
    BY <1>1 DEF View, Node
  <2> QED
    BY <2>1 DEF Kids
<1>3. ASSUME NEW n \in DOMAIN v, NEW c \in Kids(v[n])
      PROVE  c = EmptyLabel \/ (c \in Label /\ Len(n) < Len(c))
  <2>1. PICK d \in Kids(t[n]) : c = Present(t, d)
    BY <1>2, <1>3
  <2>2. CASE c # EmptyLabel
    <3>1. c = d /\ d \in DOMAIN t
      BY <2>1, <2>2 DEF Present
    <3>2. \E bit \in Bit : IsUnder(c, n, bit)
      BY <1>2, <2>1, <2>2, <3>1, KidIsChild
    <3> QED
      BY <3>1, <3>2 DEF IsUnder, Sound
  <2> QED
    BY <2>2
<1>4. DOMAIN v \subseteq Label
  BY <1>2 DEF Sound
<1>5. /\ EmptyLabel \in Reached(v)
      /\ \A n \in Reached(v) \cap DOMAIN v : Kids(v[n]) \subseteq Reached(v)
  BY <1>3, <1>4, ReachedIsClosed
<1>6. PICK X : X = Reached(v)
  OBVIOUS
<1>7. ASSUME NEW n \in X \cap DOMAIN t, NEW c \in Kids(t[n]) \cap DOMAIN t PROVE c \in X
  <2>1. c = Present(t, c)
    BY <1>7 DEF Present
  <2>2. c \in Kids(v[n])
    BY <1>2, <1>7, <2>1
  <2> QED
    BY <1>2, <1>5, <1>6, <1>7, <2>2
<1>8. Walk(X, t)
  BY <1>5, <1>6, <1>7 DEF Walk
<1> QED
  BY <1>1, <1>6, <1>8 DEF Found

(* What is in memory after a load. *)
LEMMA LoadedStored ==
  ASSUME NEW st, Sound(st), NEW m, Same(m[EmptyLabel], st[EmptyLabel])
  PROVE  Fits(st, "Stored", m, st, <<>>)
BY DEF Fits, Same, Sound

LEMMA LoadedLinked ==
  ASSUME NEW st, Sound(st), Reached(st) \subseteq DOMAIN st,
         NEW t, t = [n \in Reached(st) |-> SetDirtyBit(st[n], FALSE)]
  PROVE  Sound(t) /\ Fits(t, "Linked", t, st, <<>>)
<1>1. ASSUME NEW n \in DOMAIN st, NEW c \in Kids(st[n])
      PROVE  c = EmptyLabel \/ (c \in Label /\ Len(n) < Len(c))
  <2>1. c # EmptyLabel => \E bit \in Bit : IsUnder(c, n, bit)
    BY KidIsChild
  <2> QED
    BY <2>1 DEF IsUnder, Sound
<1>2. DOMAIN st \subseteq Label
  BY DEF Sound
<1>3. EmptyLabel \in Reached(st)
      /\ \A n \in Reached(st) \cap DOMAIN st : Kids(st[n]) \subseteq Reached(st)
  BY <1>1, <1>2, ReachedIsClosed
<1>4. PICK R : R = Reached(st)
  OBVIOUS
<1>5. /\ EmptyLabel \in R /\ R \subseteq DOMAIN st /\ DOMAIN t = R
      /\ \A n \in R : Same(st[n], t[n]) /\ Kids(t[n]) = Kids(st[n]) /\ Kids(t[n]) \subseteq R
  <2>1. \A n \in R : Same(st[n], t[n])
    BY <1>4 DEF SetDirtyBit, Node, Same
  <2>2. \A n \in R : Kids(t[n]) = Kids(st[n])
    BY <2>1 DEF Same, Kids
  <2>3. EmptyLabel \in R /\ R \subseteq DOMAIN st /\ DOMAIN t = R
    BY <1>3, <1>4
  <2>4. \A n \in R : Kids(st[n]) \subseteq R
    BY <1>3, <1>4, <2>3
  <2> QED
    BY <2>1, <2>2, <2>3, <2>4
<1>6. ASSUME NEW n \in R PROVE ShapedNode(n, t[n])
  <2>1. \A bit : ChildOn(t[n], bit) = ChildOn(st[n], bit)
    BY <1>5 DEF Same, ChildOn
  <2>2. ShapedNode(n, st[n])
    BY <1>5 DEF Sound, Shaped
  <2> QED
    BY <2>1, <2>2 DEF ShapedNode
<1>7. Sound(t)
  BY <1>2, <1>5, <1>6 DEF Sound, Shaped
<1>8. Fits(t, "Linked", t, st, <<>>)
  <2>1. \A S : <<>> \in Seq(S)
    OBVIOUS
  <2>2. \A n \in DOMAIN t : n \in DOMAIN st /\ Same(st[n], t[n])
    BY <1>5
  <2>3. \A n \in DOMAIN t : Kids(t[n]) \cap DOMAIN st \subseteq DOMAIN t
    BY <1>5
  <2> QED
    BY <2>1, <2>2, <2>3, Zenon DEF Fits
<1> QED
  BY <1>7, <1>8

-----------------------------------------------------------------------------
(* The invariant: what was inserted is found in storage, whatever is to be *)
(* saved, and the running insert is at one of its stages                   *)

Keeps(st, d) == Sound(st) /\ \A x \in LabelsOf(d) : Found(st, x)

StaysAt(t) ==
  /\ Underway(t, kind, memory, stored, op.saves)
  /\ StayAt(Stage, t, op.label, op.stack)

StayInv ==
  /\ setup \in Setups /\ kind \in NodeKinds \cup {"none"} /\ OpShape
  /\ Keeps(stored, dict) /\ Keeps(kept, keptDict)
  /\ kind = "none" => op = NoInsert
  /\ kind # "none" => \E t : StaysAt(t)

LEMMA EmptyTrieIsSound == Sound(EmptyTrie)
<1>1. PICK t : t = EmptyTrie
  OBVIOUS
<1>2. DOMAIN t = {EmptyLabel} /\ t[EmptyLabel].left = EmptyLabel /\ t[EmptyLabel].right = EmptyLabel
  BY <1>1 DEF EmptyTrie, EmptyRoot, NewLeaf, Node
<1>3. EmptyLabel \in Label /\ Kids(t[EmptyLabel]) = {EmptyLabel}
  BY <1>2, FullIsLabel DEF Kids
<1>4. ShapedNode(EmptyLabel, t[EmptyLabel])
  BY <1>2 DEF ShapedNode, ChildOn
<1> QED
  BY <1>1, <1>2, <1>3, <1>4 DEF Sound, Shaped

LEMMA InitStays == Init => StayInv
<1> SUFFICES ASSUME Init PROVE StayInv
  OBVIOUS
<1>1. /\ setup \in Setups /\ kind \in NodeKinds /\ memory = EmptyTrie /\ stored = EmptyTrie
      /\ kept = EmptyTrie /\ op = NoInsert /\ dict = {} /\ keptDict = {}
  BY DEF Init
<1>2. kind # "none"
  BY <1>1, SetupsAssumption DEF NodeKinds
<1>3. OpShape /\ op.pc = "idle" /\ op.saves = <<>>
  BY <1>1 DEF OpShape, NoInsert
<1>4. PICK t : t = EmptyTrie
  OBVIOUS
<1>5. Sound(t)
  BY <1>4, EmptyTrieIsSound
<1>6. LabelsOf({}) = {}
  BY DEF LabelsOf
<1>7. Keeps(stored, dict) /\ Keeps(kept, keptDict)
  BY <1>1, <1>4, <1>5, <1>6 DEF Keeps
<1>8. Fits(t, kind, t, t, <<>>)
  <2>1. /\ \A S : <<>> \in Seq(S)
        /\ \A n \in DOMAIN t : n \in DOMAIN t /\ Same(t[n], t[n])
        /\ Same(t[EmptyLabel], t[EmptyLabel])
        /\ \A n \in DOMAIN t : Kids(t[n]) \cap DOMAIN t \subseteq DOMAIN t
    BY DEF Same
  <2> QED
    BY <2>1, Zenon DEF Fits
<1>9. StaysAt(t)
  <2>1. Underway(t, kind, memory, stored, op.saves)
    BY <1>1, <1>3, <1>4, <1>5, <1>8, NothingUnderway
  <2>2. StayAt(Stage, t, op.label, op.stack)
    BY <1>3 DEF StayAt, Stage
  <2> QED
    BY <2>1, <2>2 DEF StaysAt
<1> QED
  BY <1>1, <1>2, <1>3, <1>7, <1>9 DEF StayInv

(* The trie that the code reads between the saves. *)
LEMMA TrieStays ==
  ASSUME StayInv, kind # "none", op.pc # "save"
  PROVE  \E t : /\ Trie = t /\ Sound(t) /\ Fits(t, kind, memory, stored, <<>>)
                /\ StayAt(op.pc, t, op.label, op.stack)
<1>1. PICK u : StaysAt(u)
  BY DEF StayInv
<1>2. op.saves = <<>> /\ Stage = op.pc
  BY DEF StayInv, OpShape, Stage
<1>3. Sound(u) /\ Fits(u, kind, memory, stored, <<>>) /\ StayAt(op.pc, u, op.label, op.stack)
  BY <1>1, <1>2 DEF StaysAt, Underway
<1>4. CASE kind = "Linked"
  <2>1. Trie = u
    BY <1>3, <1>4 DEF Trie, Fits
  <2> QED
    BY <1>3, <2>1
<1>5. CASE kind # "Linked"
  <2>1. PICK t : t = Trie
    OBVIOUS
  <2>2. /\ Same(memory[EmptyLabel], u[EmptyLabel]) /\ DOMAIN stored = DOMAIN u
        /\ \A n \in DOMAIN u : Same(stored[n], u[n])
    BY <1>3, <1>5, NothingPending DEF Fits
  <2>3. DOMAIN t = DOMAIN u /\ \A n \in DOMAIN u : Same(u[n], t[n])
    <3>1. \A node : Same(AsRead(node), node)
      BY DEF Same, AsRead, SetDirtyBit, Node
    <3>2. t = [n \in DOMAIN stored |-> IF n = EmptyLabel THEN memory[n] ELSE AsRead(stored[n])]
      BY <1>5, <2>1 DEF Trie
    <3> QED
      BY <2>2, <3>1, <3>2 DEF Same
  <2>4. Alike(u, t)
    BY <2>3 DEF Alike
  <2>5. Sound(t) /\ StayAt(op.pc, t, op.label, op.stack)
    BY <1>3, <2>4, AlikeSound, StayAlike
  <2>6. Fits(t, kind, memory, stored, <<>>)
    <3>1. \A S : <<>> \in Seq(S)
      OBVIOUS
    <3>2. \A n \in DOMAIN t : n \in DOMAIN stored /\ Same(stored[n], t[n])
      BY <2>2, <2>3 DEF Same
    <3>3. Same(memory[EmptyLabel], t[EmptyLabel]) /\ DOMAIN stored \subseteq DOMAIN t
      BY <1>3, <2>2, <2>3 DEF Same, Sound
    <3>4. \A n \in DOMAIN t : Kids(t[n]) \cap DOMAIN stored \subseteq DOMAIN t
      BY <2>2, <2>3
    <3> QED
      BY <1>5, <3>1, <3>2, <3>3, <3>4, Zenon DEF Fits
  <2> QED
    BY <2>1, <2>5, <2>6
<1> QED
  BY <1>4, <1>5

LEMMA StayGives == StayInv => InsertedStay
<1> SUFFICES ASSUME StayInv, Idle, kind # "none", NEW x \in LabelsOf(dict)
             PROVE  x \in Reached(View(Trie))
  BY DEF InsertedStay
<1>1. PICK t : Trie = t /\ Sound(t) /\ Fits(t, kind, memory, stored, <<>>)
  BY TrieStays DEF Idle
<1>2. Found(stored, x)
  BY DEF StayInv, Keeps
<1>3. x \in Reached(View(t))
  BY <1>1, <1>2, FoundIsStored, FoundIsReached
<1> QED
  BY <1>1, <1>3

(* The steps that change nothing but where the insert is. *)
LEMMA GotoStays ==
  ASSUME StayInv, kind # "none", op.saves = <<>>,
         NEW t, Sound(t), Fits(t, kind, memory, stored, <<>>),
         NEW pc, pc # "save", NEW stack, StayAt(pc, t, op.label, stack), Goto(pc, stack)
  PROVE  StayInv'
<1>1. /\ op' = [op EXCEPT !.pc = pc, !.stack = stack]
      /\ UNCHANGED <<setup, kind, memory, stored, kept, dict, keptDict>>
  BY DEF Goto
<1>2. /\ op'.pc = pc /\ op'.label = op.label /\ op'.stack = stack /\ op'.saves = <<>>
      /\ OpShape'
  BY <1>1 DEF OpShape, StayInv
<1>3. Underway(t, kind, memory, stored, <<>>)
  BY NothingUnderway DEF StayInv, Keeps
<1>4. StaysAt(t)'
  BY <1>1, <1>2, <1>3 DEF StaysAt, Stage
<1> QED
  BY <1>1, <1>2, <1>4 DEF StayInv, NodeKinds

(* The steps that make the trie u and begin to save the nodes of list. *)
LEMMA ChangeStays ==
  ASSUME StayInv, kind # "none", NEW t, NEW u, NEW list, Begins(t, u, kind, stored, list),
         NEW stack, NEW next \in {"return", "hashed"},
         StayAt(next, u, op.label, stack), Change(u, list, stack, next)
  PROVE  StayInv'
<1>1. /\ memory' = IF kind = "Linked" THEN u ELSE Root(u)
      /\ op' = [op EXCEPT !.pc = "save", !.stack = stack, !.next = next,
                          !.saves = Saves(list, u)]
      /\ UNCHANGED <<setup, kind, stored, kept, dict, keptDict>>
  BY DEF Change, Saves
<1>2. PICK saves : saves = Saves(list, u)
  OBVIOUS
<1>3. op' = [op EXCEPT !.pc = "save", !.stack = stack, !.next = next, !.saves = saves]
  BY <1>1, <1>2
<1>4. /\ op'.pc = "save" /\ op'.label = op.label /\ op'.stack = stack /\ op'.next = next
      /\ op'.saves = saves /\ OpShape'
  BY <1>3 DEF OpShape, StayInv
<1>5. Underway(u, kind, memory', stored, saves)
  BY <1>1, <1>2 DEF Begins
<1>6. StaysAt(u)'
  BY <1>1, <1>4, <1>5 DEF StaysAt, Stage
<1> QED
  BY <1>1, <1>4, <1>6 DEF StayInv, NodeKinds

(* The steps that end the insert. *)
LEMMA EndStays ==
  ASSUME StayInv, kind # "none", op.pc # "save", op' = NoInsert,
         UNCHANGED <<setup, kind, memory, stored, kept, keptDict>>,
         \A x \in LabelsOf(dict') : Found(stored, x)
  PROVE  StayInv'
<1>1. PICK t : Sound(t) /\ Fits(t, kind, memory, stored, <<>>)
  BY TrieStays
<1>2. op'.pc = "idle" /\ op'.saves = <<>> /\ OpShape'
  BY DEF NoInsert, OpShape
<1>3. Underway(t, kind, memory, stored, <<>>)
  BY <1>1, NothingUnderway DEF StayInv, Keeps
<1>4. StaysAt(t)'
  BY <1>2, <1>3 DEF StaysAt, StayAt, Stage
<1> QED
  BY <1>2, <1>4 DEF StayInv, NodeKinds, Keeps

LEMMA SaveNodeStays ==
  ASSUME StayInv, kind # "none", SaveNode
  PROVE  StayInv'
<1>1. PICK t : StaysAt(t)
  BY DEF StayInv
<1>2. PICK s, saves : s = Head(op.saves) /\ saves = Tail(op.saves)
  OBVIOUS
<1>3. /\ op.pc = "save" /\ op.saves # <<>> /\ op' = [op EXCEPT !.saves = saves]
      /\ stored' = [n \in DOMAIN stored \cup {s.label} |->
                      IF n = s.label THEN Saved(kind, s.node) ELSE stored[n]]
      /\ UNCHANGED <<setup, kind, memory, kept, dict, keptDict>>
  BY <1>2 DEF SaveNode, AsSaved, Saved
<1>4. /\ op'.pc = "save" /\ op'.label = op.label /\ op'.stack = op.stack /\ op'.next = op.next
      /\ op'.saves = saves /\ OpShape'
  BY <1>3 DEF OpShape, StayInv
<1>5. Underway(t, kind, memory, stored', saves) /\ \A z : Found(stored, z) => Found(stored', z)
  <2>1. Underway(t, kind, memory, stored, op.saves) /\ op.saves # <<>>
    BY <1>1, <1>3 DEF StaysAt
  <2>2. KeptOn(t, kind, memory, stored, stored', saves)
    BY <1>2, <1>3, <2>1, SaveKeeps
  <2> QED
    BY <2>2 DEF KeptOn
<1>6. StaysAt(t)'
  BY <1>1, <1>3, <1>4, <1>5 DEF StaysAt, Stage
<1>7. Keeps(stored', dict)
  BY <1>5 DEF Underway, Keeps, StayInv
<1> QED
  BY <1>3, <1>4, <1>6, <1>7 DEF StayInv, NodeKinds

LEMMA SavesDoneStays ==
  ASSUME StayInv, kind # "none", SavesDone
  PROVE  StayInv'
<1>1. PICK t : StaysAt(t)
  BY DEF StayInv
<1>2. PICK pc, stack : pc = op.next /\ stack = op.stack
  OBVIOUS
<1>3. op.pc = "save" /\ op.saves = <<>> /\ Goto(pc, stack)
  BY <1>2 DEF SavesDone
<1>4. pc # "save"
  BY <1>2, <1>3 DEF StayInv, OpShape
<1>5. Sound(t) /\ Fits(t, kind, memory, stored, <<>>) /\ StayAt(pc, t, op.label, stack)
  BY <1>1, <1>2, <1>3 DEF StaysAt, Stage, Underway
<1> QED
  BY <1>3, <1>4, <1>5, GotoStays

LEMMA ThrowStays ==
  ASSUME StayInv, kind # "none", ThrowSameLabel
  PROVE  StayInv'
BY EndStays DEF ThrowSameLabel, StayInv, Keeps

LEMMA FollowStays ==
  ASSUME StayInv, kind # "none", Follow
  PROVE  StayInv'
<1>1. op.pc = "insert" /\ Current # op.label /\ Follows
      /\ Goto("insert", Append(op.stack, ChildOn(Trie[Current], NextBit(Current, op.label))))
  BY DEF Follow
<1>2. PICK t : /\ Trie = t /\ Sound(t) /\ Fits(t, kind, memory, stored, <<>>)
               /\ StayAt("insert", t, op.label, op.stack)
  BY <1>1, TrieStays
<1>3. PICK l, s, r : l = op.label /\ s = op.stack /\ r = Followed(s, t, l)
  OBVIOUS
<1>4. l \in FullLabel /\ Path(s, t, l) /\ Top(s) # l /\ HasRoute(View(t), Top(s), l)
  BY <1>1, <1>2, <1>3, TopIsCurrent DEF StayAt, Follows
<1>5. StayAt("insert", t, op.label, r)
  BY <1>2, <1>3, <1>4, FollowsPath DEF StayAt
<1>6. r = Append(op.stack, ChildOn(Trie[Current], NextBit(Current, op.label)))
  BY <1>2, <1>3, TopIsCurrent DEF Followed
<1>7. Goto("insert", r) /\ op.saves = <<>>
  BY <1>1, <1>6 DEF StayInv, OpShape
<1> QED
  BY <1>2, <1>5, <1>7, GotoStays

LEMMA AttachInSlotStays ==
  ASSUME StayInv, kind # "none", AttachInSlot
  PROVE  StayInv'
<1>1. /\ op.pc = "insert" /\ Current # op.label /\ FindsFreeSlot
      /\ Change(FillSlot(Trie, Current, op.label, Leaf), <<Current, op.label>>,
                op.stack, "return")
  BY DEF AttachInSlot
<1>2. PICK t : /\ Trie = t /\ Sound(t) /\ Fits(t, kind, memory, stored, <<>>)
               /\ StayAt("insert", t, op.label, op.stack)
  BY <1>1, TrieStays
<1>3. PICK l, s, n, h : l = op.label /\ s = op.stack /\ n = Current
                        /\ h = LeafHash(op.label, Commit, epoch)
  OBVIOUS
<1>4. PICK u, list : u = FillSlot(t, n, l, NewLeaf(h)) /\ list = <<n, l>>
  OBVIOUS
<1>5. /\ l \in FullLabel /\ Path(s, t, l) /\ n = Top(s) /\ n # l
      /\ ~SplitsLeaf(t, n) /\ HasFreeSlot(View(t), n, l) /\ Sound(stored)
  BY <1>1, <1>2, <1>3, TopIsCurrent DEF StayAt, FindsFreeSlot, StayInv, Keeps
<1>6. Begins(t, u, kind, stored, list) /\ Back(s, u, l)
  BY <1>2, <1>4, <1>5, SlotBegins
<1>7. StayAt("return", u, op.label, s) /\ Change(u, list, s, "return")
  <2>1. /\ u = FillSlot(Trie, Current, op.label, Leaf) /\ list = <<Current, op.label>>
        /\ s = op.stack
    BY <1>2, <1>3, <1>4, LeafIs
  <2> QED
    BY <1>1, <1>3, <1>5, <1>6, <2>1 DEF StayAt
<1> QED
  BY <1>6, <1>7, ChangeStays

LEMMA AttachBySplitStays ==
  ASSUME StayInv, kind # "none", AttachBySplit
  PROVE  StayInv'
<1>1. PICK list : /\ list = Append(IF NextBit(Current, op.label) = 0 THEN <<op.label, Current>>
                                   ELSE <<Current, op.label>>,
                                   CommonPrefix(op.label, Current))
                  /\ op.pc = "insert" /\ Current # op.label /\ ~Follows /\ ~FindsFreeSlot
                  /\ Change(SplitAt(Current), list,
                            Append(Above, CommonPrefix(op.label, Current)), "return")
  BY DEF AttachBySplit
<1>2. PICK t : /\ Trie = t /\ Sound(t) /\ Fits(t, kind, memory, stored, <<>>)
               /\ StayAt("insert", t, op.label, op.stack)
  BY <1>1, TrieStays
<1>3. PICK l, s, n, h : l = op.label /\ s = op.stack /\ n = Current
                        /\ h = LeafHash(op.label, Commit, epoch)
  OBVIOUS
<1>4. PICK f, r : f = CommonPrefix(l, n) /\ r = Append(SubSeq(s, 1, Len(s) - 1), f)
  OBVIOUS
<1>5. PICK u : u = IF SplitsLeaf(t, n) THEN SplitLeaf(t, n, l, NewLeaf(h))
                   ELSE SplitEdge(t, n, l, NewLeaf(h))
  OBVIOUS
<1>6. /\ l \in FullLabel /\ Path(s, t, l) /\ n = Top(s) /\ n # l /\ Backs(r, s, f)
      /\ SplitsLeaf(t, n) \/ (~HasFreeSlot(View(t), n, l) /\ ~HasRoute(View(t), n, l))
      /\ SplitAtNode(u, t, n, l, NewLeaf(h)) /\ Sound(stored)
  BY <1>1, <1>2, <1>3, <1>4, <1>5, TopIsCurrent
     DEF StayAt, Follows, FindsFreeSlot, SplitAtNode, Backs, StayInv, Keeps
<1>7. list \in {<<l, n, f>>, <<n, l, f>>}
  <2>1. list = <<l, n, f>> \/ list = <<n, l, f>>
    <3>1. Append(<<l, n>>, f) = <<l, n, f>> /\ Append(<<n, l>>, f) = <<n, l, f>>
      BY AppendToTwo
    <3> QED
      BY <1>1, <1>3, <1>4, <3>1, Zenon
  <2> QED
    BY <2>1
<1>8. Begins(t, u, kind, stored, list) /\ Back(r, u, l)
  BY <1>2, <1>4, <1>6, <1>7, SplitBegins
<1>9. StayAt("return", u, op.label, r) /\ Change(u, list, r, "return")
  <2>1. u = SplitAt(Current) /\ r = Append(Above, CommonPrefix(op.label, Current))
    BY <1>2, <1>3, <1>4, <1>5, LeafIs DEF SplitAt, Above
  <2> QED
    BY <1>1, <1>3, <1>6, <1>8, <2>1 DEF StayAt
<1> QED
  BY <1>8, <1>9, ChangeStays

LEMMA ReturnStays ==
  ASSUME StayInv, kind # "none", ReturnFromInsert
  PROVE  StayInv'
<1>1. PICK t : /\ Trie = t /\ Sound(t) /\ Fits(t, kind, memory, stored, <<>>)
               /\ StayAt("return", t, op.label, op.stack)
  BY TrieStays DEF ReturnFromInsert
<1>2. PICK l, s, p : l = op.label /\ s = op.stack /\ p = Caller
  OBVIOUS
<1>3. PICK u : u = [t EXCEPT ![p] = SetChild(@, NextBit(p, l), Top(s))]
  OBVIOUS
<1>4. PICK list, a : list = <<p>> /\ a = SubSeq(s, 1, Len(s) - 1)
  OBVIOUS
<1>5. Len(s) > 1 /\ p = s[Len(s) - 1] /\ Change(u, list, a, "return")
  <2>1. u = [Trie EXCEPT ![Caller] = SetChild(@, NextBit(Caller, op.label), Current)]
    BY <1>1, <1>2, <1>3, TopIsCurrent
  <2>2. list = <<Caller>> /\ a = Above /\ p = s[Len(s) - 1]
    BY <1>2, <1>4 DEF Above, Caller
  <2> QED
    BY <1>2, <2>1, <2>2 DEF ReturnFromInsert
<1>6. l \in FullLabel /\ Back(s, t, l) /\ Sound(stored) /\ Returned(u, t, p, l, Top(s))
  BY <1>1, <1>2, <1>3 DEF StayAt, StayInv, Keeps, Returned
<1>7. Begins(t, u, kind, stored, list) /\ Back(a, u, l)
  BY <1>1, <1>4, <1>5, <1>6, ReturnBegins
<1>8. StayAt("return", u, op.label, a)
  BY <1>2, <1>6, <1>7 DEF StayAt
<1> QED
  BY <1>5, <1>7, <1>8, ChangeStays

LEMMA BeginHashesStays ==
  ASSUME StayInv, kind # "none", BeginHashes
  PROVE  StayInv'
<1>1. PICK t : /\ Trie = t /\ Sound(t) /\ Fits(t, kind, memory, stored, <<>>)
               /\ StayAt("return", t, op.label, op.stack)
  BY TrieStays DEF BeginHashes
<1>2. PICK l, s : l = op.label /\ s = op.stack
  OBVIOUS
<1>3. l \in FullLabel /\ Back(s, t, l) /\ Len(s) = 1
  BY <1>1, <1>2 DEF StayAt, BeginHashes
<1>4. Found(t, l) /\ s \in Seq(DOMAIN t) /\ s # <<>>
  BY <1>3 DEF Back, FoundFrom, Found, Walk
<1>5. Goto("hash", s) /\ op.saves = <<>> /\ StayAt("hash", t, op.label, s)
  BY <1>2, <1>3, <1>4 DEF BeginHashes, StayInv, OpShape, StayAt
<1> QED
  BY <1>1, <1>5, GotoStays

LEMMA FollowToHashStays ==
  ASSUME StayInv, kind # "none", FollowToHash
  PROVE  StayInv'
<1>1. PICK t : /\ Trie = t /\ Sound(t) /\ Fits(t, kind, memory, stored, <<>>)
               /\ StayAt("hash", t, op.label, op.stack)
  BY TrieStays DEF FollowToHash
<1>2. PICK l, s, r : l = op.label /\ s = op.stack /\ r = Followed(s, t, l)
  OBVIOUS
<1>3. l \in FullLabel /\ s \in Seq(DOMAIN t) /\ s # <<>> /\ Found(t, l)
  BY <1>1, <1>2 DEF StayAt
<1>4. HasRoute(View(t), Top(s), l)
  BY <1>1, <1>2, TopIsCurrent DEF FollowToHash
<1>5. StayAt("hash", t, op.label, r)
  BY <1>1, <1>2, <1>3, <1>4, FollowsIn DEF StayAt
<1>6. r = Append(op.stack, ChildOn(Trie[Current], NextBit(Current, op.label)))
  BY <1>1, <1>2, TopIsCurrent DEF Followed
<1>7. Goto("hash", r) /\ op.saves = <<>>
  BY <1>6 DEF FollowToHash, StayInv, OpShape
<1> QED
  BY <1>1, <1>5, <1>7, GotoStays

LEMMA HashFoundStays ==
  ASSUME StayInv, kind # "none", HashFound
  PROVE  StayInv'
<1>1. PICK t : /\ Trie = t /\ Sound(t) /\ Fits(t, kind, memory, stored, <<>>)
               /\ StayAt("hash", t, op.label, op.stack)
  BY TrieStays DEF HashFound
<1>2. PICK s : s = op.stack
  OBVIOUS
<1>3. StayAt("hashed", t, op.label, s)
  BY <1>1, <1>2 DEF StayAt
<1>4. Goto("hashed", s) /\ op.saves = <<>>
  BY <1>2 DEF HashFound, StayInv, OpShape
<1> QED
  BY <1>1, <1>3, <1>4, GotoStays

LEMMA HashedAlike ==
  ASSUME NEW t, NEW list, NEW u, u = HashedIn(t, list)
  PROVE  Alike(t, u)
BY DEF HashedIn, Alike, Same, Node

LEMMA AlikeTwice ==
  ASSUME NEW t, NEW u, NEW v, Alike(t, u), Alike(u, v)
  PROVE  Alike(t, v)
BY DEF Alike, Same

LEMMA FewIn ==
  ASSUME NEW S
  PROVE  <<>> \in Seq(S) /\ \A x \in S : <<x>> \in Seq(S)
OBVIOUS

LEMMA RehashedIn ==
  ASSUME NEW S, NEW t, NEW list \in Seq(S)
  PROVE  Rehashed(t, list) \in Seq(S)
<1>1. Rehashed(t, list) = list \/ Rehashed(t, list) = <<>>
  BY Zenon DEF Rehashed
<1> QED
  BY <1>1, FewIn

LEMMA HashReturnStays ==
  ASSUME StayInv, kind # "none", HashReturn
  PROVE  StayInv'
<1>1. PICK t : /\ Trie = t /\ Sound(t) /\ Fits(t, kind, memory, stored, <<>>)
               /\ StayAt("hashed", t, op.label, op.stack)
  BY TrieStays DEF HashReturn
<1>2. PICK l, s, p : l = op.label /\ s = op.stack /\ p = Caller
  OBVIOUS
<1>3. PICK first : first = Siblings(t, p, l)
  OBVIOUS
<1>4. PICK v : v = HashedIn(t, first)
  OBVIOUS
<1>5. PICK u : u = HashedIn(v, <<p>>)
  OBVIOUS
<1>6. PICK list, a : list = Rehashed(t, first) \o Rehashed(v, <<p>>)
                     /\ a = SubSeq(s, 1, Len(s) - 1)
  OBVIOUS
<1>7. Len(s) > 1 /\ p = s[Len(s) - 1] /\ Change(u, list, a, "hashed")
  <2>1. first = LET sibling == ChildOn(View(Trie)[Caller], 1 - NextBit(Caller, op.label))
                IN  IF sibling = EmptyLabel THEN <<>> ELSE <<sibling>>
    BY <1>1, <1>2, <1>3 DEF Siblings
  <2>2. a = Above /\ p = s[Len(s) - 1]
    BY <1>2, <1>6 DEF Above, Caller
  <2>3. v = HashedIn(Trie, first) /\ u = HashedIn(v, <<Caller>>)
        /\ list = Rehashed(Trie, first) \o Rehashed(v, <<Caller>>)
    BY <1>1, <1>2, <1>4, <1>5, <1>6
  <2> QED
    BY <1>2, <2>1, <2>2, <2>3, Zenon DEF HashReturn
<1>8. l \in FullLabel /\ s \in Seq(DOMAIN t) /\ s # <<>> /\ Found(t, l) /\ Sound(stored)
  BY <1>1, <1>2 DEF StayAt, StayInv, Keeps
<1>9. p \in DOMAIN t
  BY <1>7, <1>8
<1>10. first \in Seq(DOMAIN t)
  <2>1. PICK q : q = ChildOn(View(t)[p], 1 - NextBit(p, l))
    OBVIOUS
  <2>2. \E c : q = Present(t, c)
    BY <1>9, <2>1 DEF View, ChildOn, Node
  <2>3. q # EmptyLabel => q \in DOMAIN t
    BY <2>2 DEF Present
  <2>4. first = IF q = EmptyLabel THEN <<>> ELSE <<q>>
    BY <1>3, <2>1 DEF Siblings
  <2> QED
    BY <2>3, <2>4, FewIn, Zenon
<1>11. list \in Seq(DOMAIN t)
  <2>1. <<p>> \in Seq(DOMAIN t)
    BY <1>9
  <2>2. Rehashed(t, first) \in Seq(DOMAIN t)
    BY <1>10, RehashedIn
  <2>3. Rehashed(v, <<p>>) \in Seq(DOMAIN t)
    BY <2>1, RehashedIn
  <2> QED
    BY <1>6, <2>2, <2>3
<1>12. Alike(t, u)
  BY <1>4, <1>5, HashedAlike, AlikeTwice
<1>13. Begins(t, u, kind, stored, list)
  BY <1>1, <1>8, <1>11, <1>12, HashBegins
<1>14. StayAt("hashed", u, op.label, a)
  <2>1. a \in Seq(DOMAIN t) /\ a # <<>>
    BY <1>6, <1>7, <1>8
  <2>2. StayAt("hashed", t, l, a)
    BY <1>8, <2>1 DEF StayAt
  <2> QED
    BY <1>2, <1>12, <2>2, StayAlike
<1> QED
  BY <1>7, <1>13, <1>14, ChangeStays

LEMMA FinishStays ==
  ASSUME StayInv, kind # "none", Finish
  PROVE  StayInv'
<1>1. PICK t : /\ Trie = t /\ Sound(t) /\ Fits(t, kind, memory, stored, <<>>)
               /\ StayAt("hashed", t, op.label, op.stack)
  BY TrieStays DEF Finish
<1>2. PICK l, e : l = op.label /\ e = epoch
  OBVIOUS
<1>3. op.pc = "hashed" /\ op' = NoInsert /\ dict' = dict \cup {<<l, Commit, e>>}
      /\ UNCHANGED <<setup, kind, memory, stored, kept, keptDict>>
  BY <1>2 DEF Finish
<1>4. Found(stored, l)
  BY <1>1, <1>2, FoundIsStored DEF StayAt
<1>5. \A x \in LabelsOf(dict') : x \in LabelsOf(dict) \/ x = l
  BY <1>3 DEF LabelsOf
<1>6. \A x \in LabelsOf(dict') : Found(stored, x)
  BY <1>4, <1>5 DEF StayInv, Keeps
<1> QED
  BY <1>3, <1>6, EndStays

LEMMA BeginStays ==
  ASSUME StayInv, kind # "none", NEW l \in FullLabel, BeginInsert(l)
  PROVE  StayInv'
<1>1. /\ op.pc = "idle"
      /\ op' = [op EXCEPT !.pc = "insert", !.label = l, !.stack = <<EmptyLabel>>]
      /\ UNCHANGED <<setup, kind, memory, stored, kept, dict, keptDict>>
  BY DEF BeginInsert, Idle
<1>2. PICK t : Sound(t) /\ Fits(t, kind, memory, stored, <<>>)
  BY <1>1, TrieStays
<1>3. /\ op'.pc = "insert" /\ op'.label = l /\ op'.stack = <<EmptyLabel>> /\ op'.saves = <<>>
      /\ OpShape'
  BY <1>1 DEF OpShape, StayInv
<1>4. PICK s : s = <<EmptyLabel>>
  OBVIOUS
<1>5. Path(s, t, l)
  <2>1. IsRoute(s, t, l)
    BY <1>2, <1>4, RouteStarts DEF Sound
  <2>2. Len(s) = 1
    BY <1>4
  <2> QED
    BY <2>1, <2>2 DEF Path
<1>6. Underway(t, kind, memory, stored, <<>>)
  BY <1>2, NothingUnderway DEF StayInv, Keeps
<1>7. StayAt("insert", t, l, s)
  BY <1>5 DEF StayAt
<1>8. StaysAt(t)'
  BY <1>1, <1>3, <1>4, <1>6, <1>7 DEF StaysAt, Stage
<1> QED
  BY <1>1, <1>3, <1>8 DEF StayInv, NodeKinds

LEMMA FlushStays ==
  ASSUME StayInv, Flush
  PROVE  StayInv'
<1>1. /\ kept' = stored /\ keptDict' = dict
      /\ UNCHANGED <<setup, kind, memory, stored, op, dict>>
  BY DEF Flush
<1>2. \A t : StaysAt(t) => StaysAt(t)'
  BY <1>1 DEF StaysAt, Stage
<1>3. OpShape'
  BY <1>1 DEF OpShape, StayInv
<1> QED
  BY <1>1, <1>2, <1>3 DEF StayInv, NodeKinds

LEMMA StopStays ==
  ASSUME StayInv, Stop
  PROVE  StayInv'
<1>1. /\ kind' = "none" /\ op' = NoInsert /\ UNCHANGED <<setup, kept, keptDict>>
      /\ (stored' = kept /\ dict' = keptDict) \/ (stored' = stored /\ dict' = dict)
  BY DEF Stop
<1>2. OpShape'
  BY <1>1 DEF NoInsert, OpShape
<1>3. Keeps(stored', dict') /\ Keeps(kept', keptDict')
  BY <1>1 DEF StayInv
<1> QED
  BY <1>1, <1>2, <1>3 DEF StayInv, NodeKinds

LEMMA LoadStays ==
  ASSUME StayInv, kind = "none", kind' \in NodeKinds,
         NEW t, Sound(t), Fits(t, kind', memory', stored, <<>>),
         UNCHANGED <<setup, stored, kept, op, dict, keptDict>>
  PROVE  StayInv'
<1>1. op.pc = "idle" /\ op.saves = <<>>
  BY DEF StayInv, NoInsert
<1>2. Underway(t, kind', memory', stored, <<>>)
  BY NothingUnderway DEF StayInv, Keeps
<1>3. StayAt("idle", t, op.label, op.stack)
  BY DEF StayAt
<1>4. StaysAt(t)'
  BY <1>1, <1>2, <1>3 DEF StaysAt, Stage
<1>5. OpShape' /\ kind' # "none"
  BY SetupsAssumption DEF OpShape, StayInv, NodeKinds
<1> QED
  BY <1>4, <1>5 DEF StayInv, NodeKinds

LEMMA LoadStoredStays ==
  ASSUME StayInv, LoadStored
  PROVE  StayInv'
<1>1. /\ kind = "none" /\ "Stored" \in NodeKinds /\ kind' = "Stored"
      /\ memory' = [n \in {EmptyLabel} |-> AsRead(stored[n])]
      /\ UNCHANGED <<setup, stored, kept, op, dict, keptDict>>
  BY DEF LoadStored
<1>2. PICK st : st = stored /\ Sound(st)
  BY DEF StayInv, Keeps
<1>3. Same(memory'[EmptyLabel], st[EmptyLabel])
  BY <1>1, <1>2 DEF Same, AsRead, SetDirtyBit, Node
<1>4. Fits(st, kind', memory', stored, <<>>)
  BY <1>1, <1>2, <1>3, LoadedStored
<1> QED
  BY <1>1, <1>2, <1>4, LoadStays

LEMMA LoadLinkedStays ==
  ASSUME StayInv, LoadLinked
  PROVE  StayInv'
<1>1. /\ kind = "none" /\ "Linked" \in NodeKinds /\ kind' = "Linked"
      /\ Reached(stored) \subseteq DOMAIN stored
      /\ memory' = [n \in Reached(stored) |-> SetDirtyBit(stored[n], FALSE)]
      /\ UNCHANGED <<setup, stored, kept, op, dict, keptDict>>
  BY DEF LoadLinked
<1>2. PICK t : t = [n \in Reached(stored) |-> SetDirtyBit(stored[n], FALSE)]
  OBVIOUS
<1>3. Sound(t) /\ Fits(t, "Linked", t, stored, <<>>)
  BY <1>1, <1>2, LoadedLinked DEF StayInv, Keeps
<1> QED
  BY <1>1, <1>2, <1>3, LoadStays

(* Every step keeps the invariant. *)
LEMMA NextStays ==
  ASSUME StayInv, [Next]_vars
  PROVE  StayInv'
<1>1. CASE UNCHANGED vars
  <2>1. \A t : StaysAt(t) => StaysAt(t)'
    BY <1>1 DEF StaysAt, Stage, vars
  <2> QED
    BY <1>1, <2>1 DEF StayInv, NodeKinds, OpShape, vars
<1>2. ASSUME NEW l \in FullLabel, BeginInsert(l) PROVE StayInv'
  BY <1>2, BeginStays DEF BeginInsert
<1>3. CASE InsertStep
  <2>1. kind # "none"
    <3>1. op.pc # "idle"
      BY <1>3 DEF InsertStep, ThrowSameLabel, Follow, AttachInSlot, AttachBySplit,
         ReturnFromInsert, BeginHashes, FollowToHash, HashFound, HashReturn, Finish, SaveNode,
         SavesDone
    <3> QED
      BY <3>1 DEF StayInv, NoInsert
  <2> QED
    BY <1>3, <2>1, ThrowStays, FollowStays, AttachInSlotStays, AttachBySplitStays, ReturnStays,
       BeginHashesStays, FollowToHashStays, HashFoundStays, HashReturnStays, FinishStays,
       SaveNodeStays, SavesDoneStays
       DEF InsertStep
<1>4. CASE Flush
  BY <1>4, FlushStays
<1>5. CASE Stop
  BY <1>5, StopStays
<1>6. CASE LoadStored
  BY <1>6, LoadStoredStays
<1>7. CASE LoadLinked
  BY <1>7, LoadLinkedStays
<1> QED
  BY <1>1, <1>2, <1>3, <1>4, <1>5, <1>6, <1>7 DEF Next

(* No label of a completed insert is ever lost: wherever the process stops  *)
(* in the middle of a later insert, with or without a batch inserter, with  *)
(* storage that keeps objects or bytes, and whichever way the trie is then  *)
(* loaded, the label is found from the root (the order of the saves in      *)
(* ct_node.cpp's insert and update_hash, and both loads of                  *)
(* compressed_trie.cpp).                                                    *)
THEOREM InsertedAreKept == Spec => []InsertedStay
<1>1. Init => StayInv
  BY InitStays
<1>2. StayInv /\ [Next]_vars => StayInv'
  BY NextStays
<1>3. StayInv => InsertedStay
  BY StayGives
<1> QED
  BY <1>1, <1>2, <1>3, PTL DEF Spec
=============================================================================
