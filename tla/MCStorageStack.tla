--------------------------- MODULE MCStorageStack ---------------------------
(***************************************************************************)
(* Instances of StorageStack for TLC.                                      *)
(***************************************************************************)
EXTENDS StorageStack, TLC

CONSTANTS t1, t2

(* Two nodes of a trie that compete for one place in a cache, a store      *)
(* element and the trie itself, and a node of another trie with the same   *)
(* label.                                                                  *)
Node(trie, name) == [trie |-> trie, kind |-> "node", name |-> name]
Element(trie) == [trie |-> trie, kind |-> "element", name |-> "a"]
TwoTries == {Node(1, "a"), Node(2, "a"), Element(1), Element(2)}
TwoNodes == {Node(1, "a"), Node(1, "b"), [trie |-> 1, kind |-> "trie", name |-> "a"]}
AllEntries == TwoTries \cup TwoNodes

Stack(cache, inserter, callers, orderly) ==
  [cache |-> cache, inserter |-> inserter, callers |-> callers, oneTrieAtATime |-> orderly]

(* One thread, which flushes one trie before it writes another, over a     *)
(* cache, with an inserter or without; one that does as it likes, over the *)
(* bare storage.                                                           *)
OrderlyStacks ==
  {Stack(TRUE, i, {t1}, TRUE) : i \in BOOLEAN}
  \cup {Stack(FALSE, FALSE, {t1}, FALSE)}

(* Stacks and callers that the repository does not rule out. *)
TwoOnCache == {Stack(TRUE, FALSE, {t1, t2}, TRUE)}
TwoOnInserter == {Stack(FALSE, TRUE, {t1, t2}, TRUE)}
TwoTriesInInserter == {Stack(FALSE, TRUE, {t1}, FALSE)}
=============================================================================
