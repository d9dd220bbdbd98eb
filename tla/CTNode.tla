------------------------------- MODULE CTNode -------------------------------
(***************************************************************************)
(* The nodes of the Patricia trie and what one node operation does         *)
(* (oZKS/ct_node.h, ct_node.cpp, ct_node_linked.cpp, ct_node_stored.cpp).  *)
(*                                                                         *)
(* A trie is a function from the labels of its nodes to the nodes.         *)
(* CTNodeStored refers to its children by label, as here; CTNodeLinked by  *)
(* pointer, and its children's labels are what it writes to storage.       *)
(*                                                                         *)
(* Hashes are terms: two hashes are equal iff they were computed from the  *)
(* same bytes.  The dirty mark, which the code keeps in the lowest bit of  *)
(* hash_[0], is a field of its own; hash() masks that bit, so "hash" below *)
(* is what hash() returns.                                                 *)
(***************************************************************************)
EXTENDS PartialLabel

ZeroHash == <<>>
LeafHash(label, commit, epoch) == <<"leaf", label, commit, epoch>>
NodeHash(leftLabel, leftHash, rightLabel, rightHash) ==
  <<"node", LabelData(leftLabel), leftHash, LabelData(rightLabel), rightHash>>

Node(left, right, hash, dirty) ==
  [left |-> left, right |-> right, hash |-> hash, dirty |-> dirty]
SetDirtyBit(node, dirty) == Node(node.left, node.right, node.hash, dirty)

NewLeaf(hash) == Node(EmptyLabel, EmptyLabel, hash, FALSE)
EmptyRoot == NewLeaf(ZeroHash)
EmptyTrie == [n \in {EmptyLabel} |-> EmptyRoot]

IsLeaf(node) == node.left = EmptyLabel /\ node.right = EmptyLabel
ChildOn(node, bit) == IF bit = 0 THEN node.left ELSE node.right

(* set_left_node, set_right_node: every one of them marks the node dirty. *)
SetChild(node, bit, label) ==
  IF bit = 0 THEN Node(label, node.right, node.hash, TRUE)
             ELSE Node(node.left, label, node.hash, TRUE)

-----------------------------------------------------------------------------
(* CTNode::insert, one call on the node labelled n.                        *)

(* The bit of the label being inserted that decides the side at node n. *)
NextBit(n, label) == BitAt(label, CommonPrefixCount(label, n))

(* Mutant: any child on that side is followed, whatever its label. *)
HasRouteToAnyChild(t, n, label) == ChildOn(t[n], NextBit(n, label)) # EmptyLabel

(* There is a route to follow: a child on that side that starts with it. *)
HasRoute(t, n, label) ==
  LET child == ChildOn(t[n], NextBit(n, label))
  IN  /\ child # EmptyLabel
      /\ BitAt(child, CommonPrefixCount(label, n)) = NextBit(n, label)

SplitsLeaf(t, n) == IsLeaf(t[n]) /\ n # EmptyLabel
HasFreeSlot(t, n, label) == ChildOn(t[n], NextBit(n, label)) = EmptyLabel

(* The node left at the common prefix of n and label; it keeps old hash_. *)
Fork(t, n, label) ==
  IF NextBit(n, label) = 0 THEN Node(label, n, t[n].hash, TRUE)
                           ELSE Node(n, label, t[n].hash, TRUE)

(* A leaf becomes the parent of its copy and of the new leaf. *)
SplitLeaf(t, n, label, leaf) ==
  [x \in DOMAIN t \cup {label, CommonPrefix(label, n)} |->
     IF x = label THEN leaf
     ELSE IF x = CommonPrefix(label, n) THEN Fork(t, n, label)
     ELSE t[x]]

(* An empty slot takes the new leaf. *)
FillSlot(t, n, label, leaf) ==
  [x \in DOMAIN t \cup {label} |->
     IF x = label THEN leaf
     ELSE IF x = n THEN SetChild(t[n], NextBit(n, label), label)
     ELSE t[x]]

(* A new inner node takes over n's label and children, n moves up. *)
SplitEdge(t, n, label, leaf) ==
  [x \in DOMAIN t \cup {label, CommonPrefix(label, n)} |->
     IF x = label THEN leaf
     ELSE IF x = CommonPrefix(label, n) THEN Fork(t, n, label)
     ELSE IF x = n THEN Node(t[n].left, t[n].right, ZeroHash, TRUE)
     ELSE t[x]]

-----------------------------------------------------------------------------
(* CTNode::update_hash on one node, called on the node's tree.             *)

LabelHash(t, n) == IF n = EmptyLabel THEN ZeroHash ELSE t[n].hash
IsClean(t, n) == n = EmptyLabel \/ ~t[n].dirty

(* The hash that the children of n give it now. *)
ChildrenHash(t, n) ==
  NodeHash(t[n].left, LabelHash(t, t[n].left), t[n].right, LabelHash(t, t[n].right))

(* Mutant: the node's own mark is ignored. *)
WillUpdateClean(t, n) == IsClean(t, t[n].left) /\ IsClean(t, t[n].right)

(* update_hash returns true: the node is dirty and no child of it is. *)
WillUpdate(t, n) ==
  t[n].dirty /\ IsClean(t, t[n].left) /\ IsClean(t, t[n].right)

UpdateHash(t, S) ==
  [x \in DOMAIN t |->
     IF x \in S /\ WillUpdate(t, x)
     THEN Node(t[x].left, t[x].right, ChildrenHash(t, x), FALSE)
     ELSE t[x]]
=============================================================================
