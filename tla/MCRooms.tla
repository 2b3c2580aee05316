------------------------------- MODULE MCRooms -------------------------------
(* An instance of Rooms for TLC. *)
EXTENDS Rooms

Block(d, from, to) == [days |-> d, start |-> from, end |-> to]

(* Every morning, one night, twenty-four hours across the week's end. *)
Calendar == {Block(0..(Days - 1), 0, 2), Block({0}, 2, 1), Block({Days - 1}, 1, 1)}

(* Touches only, an edit with a touch, or edits only. *)
Histories == {[edits |-> 0, touches |-> 4], [edits |-> 1, touches |-> 1],
              [edits |-> 2, touches |-> 0]}
=============================================================================
