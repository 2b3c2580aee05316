------------------------ MODULE VentController_proofs ------------------------
(* Proofs about VentController. *)
EXTENDS VentController, HAClient_proofs

(* A zone that has vents to do has been told what to do with them. *)
JobInv ==
    /\ job \in [Callers -> Jobs]
    /\ \A c \in Callers : job[c].todo # {} => job[c].verb # "none"

(* Every step keeps the jobs of the zones in order. *)
LEMMA JobStep == JobInv /\ [VentNext]_ventVars => JobInv'
<1> SUFFICES ASSUME JobInv, [VentNext]_ventVars PROVE JobInv'
  OBVIOUS
<1>1. CASE UNCHANGED job
  BY <1>1 DEF JobInv
<1>2. ASSUME NEW c \in Callers, NEW verb \in {"open", "close"}, NEW S \in SUBSET Entities,
             Begin(c, verb, S)
      PROVE  JobInv'
  BY <1>2 DEF Begin, JobInv, Jobs
<1>3. ASSUME NEW c \in Callers, NEW e \in Entities, Command(c, e) PROVE JobInv'
  BY <1>3 DEF Command, JobInv, Jobs
<1>4. ASSUME NEW c \in Callers, Finished(c) PROVE JobInv'
  BY <1>4 DEF Finished, JobInv, Jobs, NoJob
<1> QED
  BY <1>1, <1>2, <1>3, <1>4
  DEF VentNext, ventVars, Around, Operate, OpenRoomVents, CloseRoomVents

(* What goes on around the zones is a step of the client. *)
LEMMA AroundRefines == Around => [Next]_vars
<1> SUFFICES ASSUME Around PROVE [Next]_vars
  OBVIOUS
<1>1. CASE Quiet
  <2>1. CASE Fetch
    BY <2>1 DEF Next, Internal, Connect
  <2>2. CASE \E m \in sent : Apply(m) \/ (m.id \in done /\ Answer(m))
    BY <2>2 DEF Next, Internal, Service
  <2>3. CASE \E e \in Entities : ReportState(e) \/ GoUnavailable(e)
    BY <2>3 DEF Next, Internal, Service
  <2>4. CASE \E c \in Callers : Written(c)
    BY <2>4 DEF Next, Internal, Finish
  <2>5. CASE Dial \/ Handshake \/ Subscribe \/ ReadEvent \/ ReadReply
    BY <2>5 DEF Next, Internal, Connect
  <2> QED
    BY <1>1, <2>1, <2>2, <2>3, <2>4, <2>5 DEF Around, Calm
<1>2. CASE ~Quiet
  BY <1>2 DEF Around, Next
<1> QED
  BY <1>1, <1>2

(* What a zone does is a service call, or nothing to the client. *)
LEMMA OperateRefines == ASSUME JobInv, NEW c \in Callers, Operate(c) PROVE [Next]_vars
<1>1. ASSUME NEW S \in SUBSET Entities, OpenRoomVents(c, S) \/ CloseRoomVents(c, S)
      PROVE UNCHANGED vars
  BY <1>1 DEF OpenRoomVents, CloseRoomVents, Begin
<1>2. CASE Finished(c)
  BY <1>2 DEF Finished
<1>3. ASSUME NEW e \in Entities, Command(c, e) PROVE [Next]_vars
  <2>1. job[c].verb \in {"open", "close"}
    BY <1>3 DEF Command, JobInv, Jobs
  <2>2. Verb(e, job[c].verb) \in Verbs
    BY <2>1 DEF Verb, Verbs
  <2> QED
    BY <1>3, <2>2 DEF Command, Next
<1> QED
  BY <1>1, <1>2, <1>3 DEF Operate

(* The vent controller asks nothing of the client that another caller      *)
(* could not: what holds of the client holds under it.                     *)
THEOREM VentsUseClient == VentSpec => Spec
<1>1. VentInit => Init /\ JobInv
  BY DEF VentInit, JobInv, Jobs, NoJob
<1>2. JobInv /\ [VentNext]_ventVars => [Next]_vars
  BY AroundRefines, OperateRefines DEF VentNext, ventVars
<1> QED
  BY <1>1, <1>2, JobStep, PTL DEF VentSpec, Spec

(* What a call is meant to do is to open or to close. *)
IntentInv == intent \in [Ids -> {"none", "open", "close"}]

(* Every reachable state of the zones' work, and of the client under it,   *)
(* is typed, for any number of zones and vents.                            *)
THEOREM VentTypeCorrect == VentSpec => []VentTypeOK
<1>1. VentInit => JobInv /\ IntentInv
  BY DEF VentInit, JobInv, Jobs, NoJob, IntentInv
<1>2. TypeOK /\ TypeOK' /\ JobInv /\ IntentInv /\ [VentNext]_ventVars
        => IntentInv'
  <2> SUFFICES ASSUME TypeOK, TypeOK', JobInv, IntentInv, [VentNext]_ventVars
               PROVE  IntentInv'
    OBVIOUS
  <2>1. CASE UNCHANGED intent
    BY <2>1 DEF IntentInv
  <2>2. ASSUME NEW c \in Callers, NEW e \in Entities, Command(c, e) PROVE IntentInv'
    BY <2>2 DEF Command, JobInv, Jobs, IntentInv, TypeOK
  <2> QED
    BY <2>1, <2>2
    DEF VentNext, ventVars, Around, Operate, OpenRoomVents, CloseRoomVents, Begin, Finished
<1>3. TypeOK /\ JobInv /\ IntentInv => VentTypeOK
  BY DEF VentTypeOK, JobInv, IntentInv
<1>4. Spec => []TypeOK
  BY ClientTypeCorrect
<1> QED
  BY <1>1, <1>2, <1>3, <1>4, JobStep, VentsUseClient, PTL DEF VentSpec

=============================================================================
