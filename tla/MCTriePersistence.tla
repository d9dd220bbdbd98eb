------------------------- MODULE MCTriePersistence -------------------------
(***************************************************************************)
(* Instances of TriePersistence for TLC.                                   *)
(***************************************************************************)
EXTENDS TriePersistence

Setup(kinds, objects, inserter, times) ==
  [kinds |-> kinds, objects |-> objects, inserter |-> inserter, stops |-> times]

(* Linked tries whose storage keeps bytes; both kinds where it keeps       *)
(* objects; both kinds and every save written through.                     *)
AllSetups ==
  {Setup({"Linked"}, FALSE, TRUE, 2), Setup({"Stored", "Linked"}, TRUE, TRUE, 1),
   Setup({"Stored", "Linked"}, FALSE, FALSE, 1)}

StoredThrough == {Setup({"Stored"}, FALSE, FALSE, 1)}
=============================================================================
