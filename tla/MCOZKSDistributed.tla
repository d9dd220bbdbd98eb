------------------------- MODULE MCOZKSDistributed --------------------------
(***************************************************************************)
(* Instances of OZKSDistributed for TLC.                                   *)
(***************************************************************************)
EXTENDS OZKSDistributed

CONSTANTS c1, c2, k1, k2, p1, p2, t1, t2

Use(clients, inserts, once, batches, stops) ==
  [clients |-> clients, inserts |-> inserts, oneInsertPerKey |-> once,
   batches |-> batches, restarts |-> stops]

(* Two clients and two tries, each key inserted once at a time; a client   *)
(* whose process stops; two clients that do as they like with one trie,    *)
(* batches and a stop of the process included.                             *)
AllUses ==
  {Use({c1, c2}, {<<t1, k1, p1>>, <<t1, k2, p1>>, <<t2, k1, p2>>},
       TRUE, FALSE, 0),
   Use({c1}, {t1} \X Keys \X Payloads, TRUE, FALSE, 1),
   Use({c1, c2}, {t1} \X Keys \X {p1}, FALSE, TRUE, 1)}

RepeatedInserts == {Use({c1, c2}, {t1} \X {k1} \X Payloads, FALSE, FALSE, 0)}

(* Whatever a querier finds has a store element, with no exception: false, *)
(* as "Store should contain the key we found in the trie" can be thrown    *)
(* when an insert meets a flush.                                           *)
EveryFoundHasElement ==
  \A t \in Tries : \A k \in KeysOf(seen[t]) : Elements(t)[k] # None
=============================================================================
