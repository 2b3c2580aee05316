----------------------------- MODULE MCScheduler -----------------------------
(* Instances of Scheduler for TLC: a room that is at first of zone z1. *)
EXTENDS Scheduler, TLC

CONSTANTS z1, z2, r1

Symmetry == Permutations(Engines) \cup Permutations(Tickers)
OneMishap == used["faults"] + used["crashes"] <= 1

AllInOne == [r \in Rooms |-> z1]
=============================================================================
