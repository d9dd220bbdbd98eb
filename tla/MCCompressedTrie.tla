-------------------------- MODULE MCCompressedTrie --------------------------
(***************************************************************************)
(* Instances of CompressedTrie for TLC, and its refinement of              *)
(* AppendOnlyDictionary.                                                   *)
(***************************************************************************)
EXTENDS CompressedTrie, TLC

KeyEntry(l) == [label |-> l, commit |-> "c"]
Entries(L) == {KeyEntry(l) : l \in L}

(* Sequences of at most k different entries of the labels L. *)
Distinct(L, k) ==
  UNION {{s \in [1..n -> Entries(L)] : \A i, j \in 1..n : i # j => s[i] # s[j]}
         : n \in 0..k}

AllSingles == Entries(FullLabel)
NoSingles == {}
BatchesOfTwo == Distinct(FullLabel, 2)

(* With repetitions: callers that do not look whether a label is new. *)
AnyTwo == UNION {[1..n -> Entries(FullLabel)] : n \in 1..2}

InOrder(L) == [i \in 1..Len(L) |-> KeyEntry(L[i])]
Rest(b) == FullLabel \ {b[i].label : i \in DOMAIN b}

(* 3 bits: four keys that make the root's children "0" and "1", so that    *)
(* the next batch is inserted by two threads.                              *)
Quad == InOrder(<<<<0,0,0>>, <<0,1,1>>, <<1,0,1>>, <<1,1,0>>>>)
QuadThenThree == {Quad} \cup Distinct(Rest(Quad), 3)

(* 5 bits: one key under each prefix of three bits; then four threads. *)
Eight == InOrder(<<<<0,0,0,0,0>>, <<0,0,1,1,0>>, <<0,1,0,1,1>>, <<0,1,1,0,0>>,
                   <<1,0,0,0,1>>, <<1,0,1,1,0>>, <<1,1,0,1,0>>, <<1,1,1,0,1>>>>)
Later == {<<0,0,0,0,1>>, <<0,0,0,1,0>>, <<0,1,0,0,0>>, <<0,1,0,1,0>>,
          <<1,0,0,0,0>>, <<1,0,1,0,1>>, <<1,1,0,0,0>>, <<1,1,1,1,0>>}

(* Of three keys two share a thread's subtree: its second entry finds the  *)
(* nodes that its first one left.                                          *)
LowLater == {l \in Later : l[1] = 0}
EightThenThree ==
  {Eight} \cup Distinct(Later, 2) \cup {b \in Distinct(LowLater, 3) : Len(b) = 3}

(* 5 bits: full under "10", two nodes or leaves below 00, 01, 110 and 111. *)
Skewed == InOrder(<<<<1,0,0,0,0>>, <<1,0,0,0,1>>, <<1,0,0,1,0>>, <<1,0,0,1,1>>,
                    <<1,0,1,0,0>>, <<1,0,1,0,1>>, <<1,0,1,1,0>>, <<1,0,1,1,1>>,
                    <<1,1,0,0,0>>, <<1,1,0,1,0>>, <<1,1,1,0,0>>, <<1,1,1,1,0>>,
                    <<0,0,0,0,0>>, <<0,0,1,0,0>>, <<0,1,0,0,0>>, <<0,1,1,0,0>>>>)

(* 00001 and 00010 both split the leaf 00000, each in a thread of its own. *)
SkewedThenTwo ==
  {Skewed, InOrder(<<<<0,0,0,0,1>>, <<0,0,0,1,0>>>>)}
    \cup {InOrder(<<l>>) : l \in {<<0,0,0,1,1>>, <<1,1,1,1,1>>}}

EightOrSkewed == EightThenThree \cup SkewedThenTwo

(* No two threads come to a node that one of them restructures: false in   *)
(* a skewed trie from 16 threads on.                                       *)
NoRace == phase # "undefined"

(* What a hash commits to: the leaves that were hashed into it. *)
RECURSIVE Opened(_)
Opened(h) ==
  IF h = ZeroHash THEN {}
  ELSE IF h[1] = "leaf" THEN {<<h[2], h[3], h[4]>>}
  ELSE Opened(h[3]) \cup Opened(h[5])

(* The dictionary that the commitment stands for. *)
Dictionary == INSTANCE AppendOnlyDictionary
                WITH dict <- Opened(nodes[EmptyLabel].hash)
CommitmentIsDictionary == Dictionary!Spec

(* Between calls, after failed calls too, a lookup that answers is right   *)
(* about the dictionary the commitment stands for, and its path verifies.  *)
AnswersAreRight ==
  phase = "idle" =>
    \A l \in FullLabel :
      LET r == Lookup(nodes, l)
      IN  r.status # "threw" =>
            /\ r.status = "found" <=> l \in {t[1] : t \in Opened(nodes[EmptyLabel].hash)}
            /\ VerifyLookupPath(r.path, nodes[EmptyLabel].hash)
=============================================================================
