---------------------------- MODULE MCOZKSSimple ----------------------------
(***************************************************************************)
(* Instances of OZKSSimple for TLC.                                        *)
(***************************************************************************)
EXTENDS OZKSSimple

CONSTANTS x1, x2, s1, s2, k1, k2, k3, p1, p2

Use(instances, keys, payloads, once, asksFirst, clear, waiting, stops) ==
  [instances |-> instances, keys |-> keys, payloads |-> payloads, once |-> once,
   asksFirst |-> asksFirst, clear |-> clear, pending |-> waiting, restarts |-> stops]

(* Two instances of one storage; one whose caller repeats keys and whose   *)
(* process stops; one that is cleared; two whose process stops.            *)
Flushing == Use({x1, x2}, {k1, k2, k3}, {p1, p2}, TRUE, TRUE, FALSE, 3, 0)
Repeating == Use({x1}, {k1, k2}, {p1, p2}, FALSE, TRUE, FALSE, 2, 1)
Clearing == Use({x1}, {k1, k2, k3}, {p1}, FALSE, TRUE, TRUE, 3, 0)
Stopping == Use({x1, x2}, {k1, k2}, {p1}, TRUE, TRUE, FALSE, 2, 1)
AllUses == {Flushing, Repeating, Clearing, Stopping}

RepeatingOnly == {Use({x1}, {k1, k2}, {p1}, FALSE, TRUE, FALSE, 2, 0)}
ClearingOnly == {Use({x1}, {k1, k2}, {p1}, TRUE, TRUE, TRUE, 2, 0)}
NotAsked == {Use({x1, x2}, {k1}, {p1}, TRUE, FALSE, FALSE, 1, 1)}
=============================================================================
