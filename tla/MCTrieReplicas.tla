--------------------------- MODULE MCTrieReplicas ---------------------------
(***************************************************************************)
(* Instances of TrieReplicas for TLC.  The node 0 under the root gets a    *)
(* new child when 001 follows 000 and 011: three bits are the least with   *)
(* which a node below the root changes.  111 is only looked up.            *)
(***************************************************************************)
EXTENDS TrieReplicas, TLC

ThreeKeys == {<<0, 0, 0>>, <<0, 0, 1>>, <<0, 1, 1>>}
OneKeyMore == {<<0, 0, 1>>, <<0, 1, 0>>}

Provider(count, cached, leaves, epochs) ==
  [queriers |-> count, cache |-> cached, trieMayLeave |-> leaves, epochs |-> epochs]

(* Two queriers refresh one after the other; one sees the trie grow twice; *)
(* two read from the storage at the bottom.                                *)
TrieStaysCached ==
  {Provider(2, TRUE, FALSE, 2), Provider(1, TRUE, FALSE, 3), Provider(2, FALSE, FALSE, 3)}

OneCachedQuerier == {Provider(1, TRUE, FALSE, 2)}
TrieLeavesCache == {Provider(1, TRUE, TRUE, 3)}
=============================================================================
