-------------------------- MODULE MCVentController --------------------------
(* Instances of VentController for TLC. *)
EXTENDS VentController

CONSTANTS z1, z2

(* One zone *)
OneZone  == [e \in Entities |-> z1]
(* A zone with one vent and a zone with the others *)
TwoZones == [e \in Entities |-> IF e = 1 THEN z1 ELSE z2]

AllToggle == [e \in Entities |-> "toggle"]
AllCovers == [e \in Entities |-> "open_close"]
(* One vent of each kind that is judged differently *)
Mixed == [e \in Entities |-> IF e = 1 THEN "toggle" ELSE IF e = 2 THEN "set_position" ELSE "open_close"]
=============================================================================
