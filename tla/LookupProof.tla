----------------------------- MODULE LookupProof -----------------------------
(***************************************************************************)
(* Reading the trie: the static CTNode::lookup (oZKS/ct_node.cpp) and the  *)
(* verification of the paths it returns (oZKS/query_result.cpp and         *)
(* insert_result.cpp).                                                     *)
(***************************************************************************)
EXTENDS CTNode

PathEntry(t, n) == [label |-> n, hash |-> t[n].hash]

(* Mutant: every node is read, dirty or not. *)
ReadsAll(t, n) == FALSE

(* "Cannot perform lookup with a dirty node". *)
Refuses(t, n) == t[n].dirty

(* The leaf at which a search for another label ended: it goes before its  *)
(* sibling when that is the left one, and after it otherwise.              *)
WithLeaf(path, leaf, siblingIsLeft) ==
  IF siblingIsLeft \/ path = <<>> THEN <<leaf>> \o path
  ELSE <<Head(path), leaf>> \o Tail(path)

(***************************************************************************)
(* One iteration of the loop.  The code appends to lookup_path and         *)
(* reverses it at the end; here the path is built in its final order, so   *)
(* that "insert at n - 1" puts the leaf second.                            *)
(***************************************************************************)
Visit(t, label, s) ==
  LET node    == t[s.cur]
      bit     == NextBit(s.cur, label)
      child   == ChildOn(node, bit)
      sibling == ChildOn(node, 1 - bit)
      here    == PathEntry(t, s.cur)
  IN  IF s.status # "walk" THEN s
      ELSE IF Refuses(t, s.cur) THEN [s EXCEPT !.status = "threw"]
      ELSE IF s.cur = label
      THEN [s EXCEPT !.status = "found", !.path = <<here>> \o s.path]
      ELSE IF IsLeaf(node)
      THEN [s EXCEPT !.status = "missing",
                     !.path = WithLeaf(s.path, here, s.siblingIsLeft)]
      ELSE IF sibling # EmptyLabel /\ Refuses(t, sibling) THEN [s EXCEPT !.status = "threw"]
      ELSE [cur           |-> child,
            siblingIsLeft |-> bit = 1,
            path   |-> IF sibling = EmptyLabel THEN s.path
                       ELSE <<PathEntry(t, sibling)>> \o s.path,
            status |-> IF child = EmptyLabel THEN "missing" ELSE "walk"]

(* The result of lookup: "found", "missing", or "threw" on a dirty node.   *)
(* Every step goes one level down; the singleton only names the last step. *)
Lookup(t, label) ==
  LET visit[k \in 0..(MaxBitCount + 2)] ==
        IF k = 0 THEN [cur |-> EmptyLabel, siblingIsLeft |-> FALSE,
                       path |-> <<>>, status |-> "walk"]
        ELSE CHOOSE s \in {Visit(t, label, r) : r \in {visit[k - 1]}} : TRUE
  IN  visit[MaxBitCount + 2]

(* Mutant: the entry is always the left child. *)
JoinLeft(below, sibling) ==
  [label |-> CommonPrefix(sibling.label, below.label),
   hash  |-> NodeHash(below.label, below.hash, sibling.label, sibling.hash)]

(* The parent that verification computes from an entry and its sibling. *)
Join(below, sibling) ==
  LET common == CommonPrefix(sibling.label, below.label)
  IN  [label |-> common,
       hash  |-> IF BitAt(below.label, Len(common)) = 0
                 THEN NodeHash(below.label, below.hash, sibling.label, sibling.hash)
                 ELSE NodeHash(sibling.label, sibling.hash, below.label, below.hash)]

(* The parent of an only child: the other side is an empty label and hash. *)
JoinEmpty(below) ==
  IF BitAt(below.label, 0) = 0
  THEN NodeHash(below.label, below.hash, EmptyLabel, ZeroHash)
  ELSE NodeHash(EmptyLabel, ZeroHash, below.label, below.hash)

(* QueryResult::verify_lookup_path, and InsertResult::verify, which throws *)
(* where this is FALSE because the label at the end is empty.              *)
VerifyLookupPath(path, commitment) ==
  LET joined[k \in 1..Len(path)] ==
        IF k = 1 THEN path[1] ELSE Join(joined[k - 1], path[k])
      last == joined[Len(path)]
  IN  \/ last.hash = commitment
      \/ last.label # EmptyLabel /\ JoinEmpty(last) = commitment
=============================================================================
