------------------------ MODULE AppendOnlyDictionary ------------------------
(***************************************************************************)
(* What oZKS promises (README.md, "Data Structure"): a dictionary of       *)
(* (label, value, epoch) tuples to which new labels are added, and from    *)
(* which no tuple is removed or modified.  What one insert adds appears at *)
(* once, under one epoch later than every epoch before it.                 *)
(***************************************************************************)
EXTENDS Naturals

VARIABLE dict   \* a set of tuples <<label, value, epoch>>

Labels(S) == {t[1] : t \in S}

Init == dict = {}

Append ==
  LET added == dict' \ dict IN
  /\ dict \subseteq dict'
  /\ Labels(added) \cap Labels(dict) = {}
  /\ \A s, t \in added : s[1] = t[1] => s = t
  /\ \A s, t \in added : s[3] = t[3]
  /\ \A s \in added : \A t \in dict : s[3] > t[3]

Spec == Init /\ [][Append]_dict
=============================================================================
