----------------------------- MODULE MCEnvelope -----------------------------
(* Instances of Envelope for TLC: bounds 1 and 3 within 0..4. *)
EXTENDS Envelope

Degrees == 0..4
=============================================================================
