---------------------------- MODULE PartialLabel ----------------------------
(***************************************************************************)
(* Labels of the trie (oZKS/partial_label.h, partial_label.cpp).           *)
(*                                                                         *)
(* A PartialLabel is a string of at most MaxBitCount bits, high-order bit  *)
(* first.  Keys are full labels (the VRF output, MaxBitCount bits), inner  *)
(* nodes carry the prefix their leaves share, and the empty label is both  *)
(* the label of the root and the code's "no child".                        *)
(*                                                                         *)
(* The code keeps the bits in four 64-bit words and counts bits from 0;    *)
(* here a label is the sequence of its bits, so bit i of the code is       *)
(* element i + 1.                                                          *)
(***************************************************************************)
EXTENDS Naturals, Sequences

CONSTANT MaxBitCount   \* 256 in the code: ByteCount * 8

ASSUME MaxBitCountAssumption == MaxBitCount \in Nat \ {0}

Bit == {0, 1}
Label == UNION {[1..n -> Bit] : n \in 0..MaxBitCount}
FullLabel == [1..MaxBitCount -> Bit]

EmptyLabel == <<>>

(* operator[]: the code throws when the index is not below bit_count. *)
BitAt(label, i) == label[i + 1]

AddBit(label, bit) == Append(label, bit)

(***************************************************************************)
(* The number of high-order bits two labels share.  n agreeing bits, and   *)
(* either one label ends there or the next bits differ.                    *)
(***************************************************************************)
CommonPrefixCount(a, b) ==
  CHOOSE n \in 0..Len(a) :
    /\ n <= Len(b)
    /\ \A i \in 1..n : a[i] = b[i]
    /\ n < Len(a) /\ n < Len(b) => a[n + 1] # b[n + 1]

CommonPrefix(a, b) == SubSeq(a, 1, CommonPrefixCount(a, b))

(***************************************************************************)
(* What utils::compute_leaf_hash and compute_node_hash read of a label:    *)
(* its words, which hold zeros beyond bit_count, and not bit_count itself. *)
(***************************************************************************)
LabelData(label) ==
  [i \in 1..MaxBitCount |-> IF i <= Len(label) THEN label[i] ELSE 0]
=============================================================================
