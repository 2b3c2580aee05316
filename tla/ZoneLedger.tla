----------------------------- MODULE ZoneLedger -----------------------------
(***************************************************************************)
(* What the cycle_logs table promises to its readers (the Logs page, the   *)
(* live metrics, a restart): at any time a zone has at most one cycle that *)
(* is not over, a cycle is over once, and its id never comes back.         *)
(* Scheduler shows that the engines and the scheduler keep this promise    *)
(* together.                                                               *)
(***************************************************************************)
CONSTANTS
    Zones,   \* the thermostats
    Cycles,  \* the ids of cycle logs
    None     \* not a cycle

VARIABLES
    current,  \* the zone's cycle that is not over
    past      \* the cycles that are over

ledger == <<current, past>>

LedgerTypeOK ==
    /\ current \in [Zones -> Cycles \cup {None}]
    /\ past \in SUBSET Cycles

InitLedger ==
    /\ current \in [Zones -> Cycles \cup {None}]
    /\ past = {}
    /\ \A y, z \in Zones : y # z /\ current[y] # None => current[y] # current[z]

OpenCycle(z, c) ==
    /\ current[z] = None
    /\ c \notin past /\ \A y \in Zones : current[y] # c
    /\ current' = [current EXCEPT ![z] = c]
    /\ UNCHANGED past

(* One zone's cycle ends, or those of several zones at once. *)
CloseCycles(Z) ==
    /\ Z # {} /\ \A z \in Z : current[z] # None
    /\ current' = [z \in Zones |-> IF z \in Z THEN None ELSE current[z]]
    /\ past' = past \cup {current[z] : z \in Z}

NextLedger ==
    \/ \E z \in Zones, c \in Cycles : OpenCycle(z, c)
    \/ \E Z \in SUBSET Zones : CloseCycles(Z)

LedgerSpec == InitLedger /\ [][NextLedger]_ledger

-----------------------------------------------------------------------------
(* A cycle is not over and over at once, nor in two zones: no log of a     *)
(* cycle that has ended is ever open again.                                *)
NeverReopened ==
    /\ \A z \in Zones : current[z] \notin past
    /\ \A y, z \in Zones : y # z /\ current[y] # None => current[y] # current[z]
=============================================================================
