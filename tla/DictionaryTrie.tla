--------------------------- MODULE DictionaryTrie ---------------------------
(***************************************************************************)
(* The trie of a dictionary: what CompressedTrie holds between two calls   *)
(* of insert (oZKS/compressed_trie.cpp), as a function of the dictionary   *)
(* alone.  Modules about what happens around the trie build on it;         *)
(* CompressedTrie states that the insertion threads arrive there.          *)
(*                                                                         *)
(* A dictionary is a set of tuples <<label, commitment, epoch>>.           *)
(***************************************************************************)
EXTENDS LookupProof

LabelsOf(d) == {t[1] : t \in d}
EntryOf(d, l) == CHOOSE t \in d : t[1] = l

HasPrefix(l, p) == Len(p) <= Len(l) /\ SubSeq(l, 1, Len(p)) = p

NodeLabels(d) ==
  {EmptyLabel} \cup {CommonPrefix(a, b) : a, b \in LabelsOf(d)}

(* The uppermost node under a prefix, or the empty label. *)
FirstUnder(d, prefix) ==
  LET under == {n \in NodeLabels(d) \ {EmptyLabel} : HasPrefix(n, prefix)}
  IN  IF under = {} THEN EmptyLabel
      ELSE CHOOSE n \in under : \A m \in under : Len(n) <= Len(m)

LeftOf(d, n) == FirstUnder(d, AddBit(n, 0))
RightOf(d, n) == FirstUnder(d, AddBit(n, 1))

TrieOf(d) ==
  LET hash[n \in NodeLabels(d)] ==
        IF n \in LabelsOf(d)
        THEN LeafHash(n, EntryOf(d, n)[2], EntryOf(d, n)[3])
        ELSE IF d = {} THEN ZeroHash
        ELSE LET child(m) == IF m = EmptyLabel THEN ZeroHash ELSE hash[m]
             IN  NodeHash(LeftOf(d, n), child(LeftOf(d, n)),
                          RightOf(d, n), child(RightOf(d, n)))
  IN  [n \in NodeLabels(d) |-> Node(LeftOf(d, n), RightOf(d, n), hash[n], FALSE)]

(***************************************************************************)
(* The nodes that an insert which turns one trie into the other saves: all *)
(* that it changed, and those above which it put a new node.               *)
(***************************************************************************)
SavedBy(old, new) ==
  {n \in DOMAIN new :
     \/ n \notin DOMAIN old
     \/ new[n] # old[n]
     \/ \E p \in DOMAIN new \ DOMAIN old : n \in {new[p].left, new[p].right}}
=============================================================================
