-------------------------- MODULE ZoneLedger_proofs --------------------------
(***************************************************************************)
(* What every keeper of a ledger of cycles inherits from ZoneLedger.       *)
(***************************************************************************)
EXTENDS ZoneLedger, TLAPS

(* "No cycle" never counts as one that is over. *)
LedgerInv ==
    /\ LedgerTypeOK
    /\ None \notin past
    /\ NeverReopened

(* A cycle is opened under a fresh id, in a zone that has none.            *)
LEMMA OpeningKeepsLedger ==
    ASSUME LedgerInv, NEW z \in Zones, NEW c \in Cycles, OpenCycle(z, c)
    PROVE  LedgerInv'
<1>1. LedgerTypeOK'
  BY DEF LedgerInv, LedgerTypeOK, OpenCycle
<1>2. None \notin past'
  BY DEF LedgerInv, OpenCycle
<1>3. NeverReopened'
  <2>1. \A y \in Zones : current'[y] = IF y = z THEN c ELSE current[y]
    BY DEF LedgerInv, LedgerTypeOK, OpenCycle
  <2> QED BY <2>1 DEF LedgerInv, NeverReopened, OpenCycle
<1> QED BY <1>1, <1>2, <1>3 DEF LedgerInv

(* The cycles that end were each in one zone only, so that those that go   *)
(* on are not over.                                                        *)
LEMMA ClosingKeepsLedger ==
    ASSUME LedgerInv, NEW Z \in SUBSET Zones, CloseCycles(Z)
    PROVE  LedgerInv'
<1>1. \A z \in Zones : current'[z] = IF z \in Z THEN None ELSE current[z]
  BY DEF CloseCycles
<1>2. past' = past \cup {current[z] : z \in Z}
  BY DEF CloseCycles
<1>3. LedgerTypeOK'
  <2>1. current' \in [Zones -> Cycles \cup {None}]
    BY DEF LedgerInv, LedgerTypeOK, CloseCycles
  <2>2. \A z \in Z : current[z] \in Cycles
    BY DEF LedgerInv, LedgerTypeOK, CloseCycles
  <2> QED BY <1>2, <2>1, <2>2 DEF LedgerInv, LedgerTypeOK
<1>4. None \notin past'
  BY <1>2 DEF LedgerInv, CloseCycles
<1>5. NeverReopened'
  <2>1. ASSUME NEW z \in Zones  PROVE current'[z] \notin past'
    <3>1. CASE z \in Z
      BY <3>1, <1>1, <1>4
    <3>2. CASE z \notin Z
      <4>1. current'[z] = current[z] /\ current[z] \notin past
        BY <3>2, <1>1 DEF LedgerInv, NeverReopened
      <4>2. ASSUME NEW y \in Z  PROVE current[z] # current[y]
        BY <3>2 DEF LedgerInv, NeverReopened, CloseCycles
      <4> QED BY <4>1, <4>2, <1>2
    <3> QED BY <3>1, <3>2
  <2>2. ASSUME NEW y \in Zones, NEW z \in Zones, y # z, current'[y] # None
        PROVE  current'[y] # current'[z]
    BY <2>2, <1>1 DEF LedgerInv, NeverReopened
  <2> QED BY <2>1, <2>2 DEF NeverReopened
<1> QED BY <1>3, <1>4, <1>5 DEF LedgerInv

(* In any ledger a cycle that is over is never open again, nor open in two *)
(* zones: with KeepsLedger, this holds of the cycle_logs of the scheduler  *)
(* and its engines.                                                        *)
THEOREM LedgerNeverReopens == LedgerSpec => []NeverReopened
<1>1. InitLedger => LedgerInv
  BY DEF InitLedger, LedgerInv, LedgerTypeOK, NeverReopened
<1>2. LedgerInv /\ [NextLedger]_ledger => LedgerInv'
  <2> SUFFICES ASSUME LedgerInv, [NextLedger]_ledger
               PROVE  LedgerInv'
    OBVIOUS
  <2>1. ASSUME NEW z \in Zones, NEW c \in Cycles, OpenCycle(z, c)
        PROVE  LedgerInv'
    BY <2>1, OpeningKeepsLedger
  <2>2. ASSUME NEW Z \in SUBSET Zones, CloseCycles(Z)
        PROVE  LedgerInv'
    BY <2>2, ClosingKeepsLedger
  <2>3. CASE UNCHANGED ledger
    BY <2>3 DEF ledger, LedgerInv, LedgerTypeOK, NeverReopened
  <2> QED BY <2>1, <2>2, <2>3 DEF NextLedger
<1>3. LedgerInv => NeverReopened
  BY DEF LedgerInv
<1> QED BY <1>1, <1>2, <1>3, PTL DEF LedgerSpec
=============================================================================
