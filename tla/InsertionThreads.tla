-------------------------- MODULE InsertionThreads --------------------------
(***************************************************************************)
(* How a batch is divided among insertion threads (oZKS/utilities.cpp):    *)
(* get_insertion_thread_limit, get_log2 and get_insertion_index.           *)
(***************************************************************************)
EXTENDS CTNode

(* check_node: both children exist and their labels are one bit longer. *)
IsComplete(t, n) ==
  t[n].left = AddBit(n, 0) /\ t[n].right = AddBit(n, 1)

(***************************************************************************)
(* One pass of the for loop inside while (true): a pair of nodes of        *)
(* "level" is checked, the limit doubles, and "level" is swapped with the  *)
(* children of that pair before the index moves on.                        *)
(***************************************************************************)
CheckPair(t, maxLimit, s) ==
  LET i == IF s.idx < Len(s.level) THEN s.idx ELSE 0
      a == s.level[i + 1]
      b == s.level[i + 2]
  IN  IF ~IsComplete(t, a) \/ ~IsComplete(t, b) \/ 2 * s.limit > maxLimit
      THEN [s EXCEPT !.done = TRUE]
      ELSE [level |-> <<t[a].left, t[a].right, t[b].left, t[b].right>>,
            idx   |-> i + 2,
            limit |-> 2 * s.limit,
            done  |-> 2 * s.limit = maxLimit]

GetInsertionThreadLimit(t, maxLimit) ==
  LET root == t[EmptyLabel]
      pass[k \in 0..maxLimit] ==
        IF k = 0
        THEN [level |-> <<root.left, root.right>>, idx |-> 0, limit |-> 2, done |-> FALSE]
        ELSE LET s == pass[k - 1]
             IN  IF s.done THEN s ELSE CheckPair(t, maxLimit, s)
  IN  IF IsComplete(t, EmptyLabel) THEN pass[maxLimit].limit ELSE 1

(* How often n can be halved: while (n >>= 1) r++. *)
GetLog2(n) ==
  LET log2[k \in 0..n] == IF k \div 2 = 0 THEN 0 ELSE 1 + log2[k \div 2]
  IN  log2[n]

(* Mutant: the last bits instead of the first. *)
InsertionIndexOfLowBits(bitCount, label) ==
  LET value[k \in 0..bitCount] ==
        IF k = 0 THEN 0 ELSE 2 * value[k - 1] + BitAt(label, Len(label) - k)
  IN  value[bitCount]

(* result <<= 1; result |= bit, for each of the bits. *)
BinaryValue(label) ==
  LET value[k \in 0..Len(label)] == IF k = 0 THEN 0 ELSE 2 * value[k - 1] + label[k]
  IN  value[Len(label)]

(* The first bitCount bits of the label, read as a binary number. *)
GetInsertionIndex(bitCount, label) == BinaryValue(SubSeq(label, 1, bitCount))
=============================================================================
