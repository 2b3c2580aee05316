--------------------------- MODULE MCCycleEngine ---------------------------
(* Instances of CycleEngine for TLC. *)
EXTENDS CycleEngine, TLC

CONSTANTS a, b, c

(* One vent per room: the vent carries the name of its room, and the rooms *)
(* are interchangeable.                                                    *)
OneVentEach == [v \in Vents |-> v]
Symmetry    == Permutations(Rooms)

(* A fault or a crash; the second of both only where no cycle runs. *)
OneMishap == faults + crashes <= 1 \/ pc = "boot" \/ state = "IDLE"

(* A room with one vent and a room with two *)
OneAndTwo == [v \in Vents |-> IF v = 1 THEN a ELSE b]
=============================================================================
