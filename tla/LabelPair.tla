------------------------------ MODULE LabelPair ------------------------------
(***************************************************************************)
(* What the operations of PartialLabel promise, of two labels as strings   *)
(* of bits: a is constructed, extended, cut to the prefix that it shares   *)
(* with b, and cleared; b is constructed or copied from a.                 *)
(***************************************************************************)
EXTENDS PartialLabel

VARIABLES a, b

Init == a = EmptyLabel /\ b = EmptyLabel

Construct == a = EmptyLabel /\ a' \in Label /\ UNCHANGED b
ConstructOther == b = EmptyLabel /\ b' \in Label /\ UNCHANGED a
Extend == /\ Len(a) < MaxBitCount
          /\ \E bit \in Bit : a' = AddBit(a, bit)
          /\ UNCHANGED b
Cut == a' = CommonPrefix(a, b) /\ UNCHANGED b
Clear == a' = EmptyLabel /\ UNCHANGED b
SaveAndLoad == b' = a /\ UNCHANGED a

Next == Construct \/ ConstructOther \/ Extend \/ Cut \/ Clear \/ SaveAndLoad

Spec == Init /\ [][Next]_<<a, b>>
=============================================================================
