----------------------------- MODULE StorageMap -----------------------------
(***************************************************************************)
(* What a Storage promises its user (oZKS/storage/storage.h): one map from *)
(* entries (nodes, tries, store elements) to what was saved last.  Every   *)
(* save takes effect, in the order of their numbers; a load answers with   *)
(* the last save of its entry; deleting an OZKS instance forgets the       *)
(* entries of its trie and no others.                                      *)
(***************************************************************************)
EXTENDS Naturals

CONSTANTS Entries, Absent

VARIABLES
  map,          \* entry -> the value saved last, or Absent
  saves,        \* the number of saves; a save stores its number
  answer        \* the last load: its entry and what it answered

vars == <<map, saves, answer>>

Init ==
  /\ map = [e \in Entries |-> Absent]
  /\ saves = 0
  /\ answer \in [entry : Entries, value : {Absent}]

Save(e) ==
  /\ saves' = saves + 1
  /\ map' = [map EXCEPT ![e] = saves + 1]
  /\ UNCHANGED answer

Load(e) ==
  /\ answer' = [entry |-> e, value |-> map[e]]
  /\ UNCHANGED <<map, saves>>

DeleteOZKS(trie) ==
  /\ map' = [e \in Entries |-> IF e.trie = trie THEN Absent ELSE map[e]]
  /\ UNCHANGED <<saves, answer>>

Next == \E e \in Entries : Save(e) \/ Load(e) \/ DeleteOZKS(e.trie)

Spec == Init /\ [][Next]_vars
=============================================================================
