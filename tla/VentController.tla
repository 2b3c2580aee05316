--------------------------- MODULE VentController ---------------------------
(***************************************************************************)
(* The commands to the vents (smart_vent/backend/engine/vent_controller.py)*)
(* over the client of Home Assistant.  A zone opens or closes a set of     *)
(* vents one call after the other; what needs a command, and whether the   *)
(* airflow floor lets a set be closed, is judged from the client's cache.  *)
(* The callers of HAClient are the zones: the lock of its engine lets a    *)
(* zone do one thing at a time.                                            *)
(***************************************************************************)
EXTENDS HAClient, FiniteSets

CONSTANTS
    Method,    \* control_method of each vent
    Zone,      \* the zone each vent belongs to
    Required,  \* required_open_vents(tc, len(all_zone_vents)) of a zone
    Quiet      \* no call fails or is given up, and only the engine moves vents

Methods == {"open_close", "set_position", "set_tilt_position", "toggle"}

ASSUME VentAssumption ==
    /\ Method \in [Entities -> Methods]
    /\ Zone \in [Entities -> Callers]
    /\ Required \in Nat
    /\ Quiet \in BOOLEAN

VARIABLES
    job,     \* the room operation each zone is carrying out
    intent   \* history: what each call was meant to do

ventVars == <<vars, job, intent>>

NoJob == [verb |-> "none", todo |-> {}]
Jobs  == [verb : {"none", "open", "close"}, todo : SUBSET Entities]

VentTypeOK ==
    /\ TypeOK
    /\ job \in [Callers -> Jobs]
    /\ intent \in [Ids -> {"none", "open", "close"}]

-----------------------------------------------------------------------------
(* What the cache says *)

Known(e)  == cache[e] \in Positions
IsOpen(e) == cache[e] \in {"part", "open"}

(* A vent driven by position has to stand at its full opening. *)
IsFullyOpen(e) ==
    IF Method[e] \in {"set_position", "set_tilt_position"} THEN cache[e] = "open" ELSE IsOpen(e)

(* open_room_vents gives no command to a vent HA does not know; a close is *)
(* sent in doubt, save to a toggle, which it might open.                   *)
SkipOpen(e)  == cache[e] = "absent" \/ IsFullyOpen(e)

(* Mutant of SkipClose: toggles are closed in doubt as well. *)
SkipCloseInDoubt(e) == Known(e) /\ ~IsOpen(e)

SkipClose(e) ==
    IF Method[e] = "toggle" THEN ~IsOpen(e) ELSE Known(e) /\ ~IsOpen(e)

Skip(verb, e) == IF verb = "open" THEN SkipOpen(e) ELSE SkipClose(e)

ZoneVents(c) == {e \in Entities : Zone[e] = c}
CountedOpen(c) == {e \in ZoneVents(c) : IsOpen(e)}

(* Mutant of FloorAllows: the vents about to close still count as open. *)
FloorAllowsAll(c, S) == Cardinality(CountedOpen(c)) >= Required

FloorAllows(c, S) == Cardinality(CountedOpen(c)) - Cardinality(S \cap CountedOpen(c)) >= Required

(* _invoke_open, _invoke_close *)
Verb(e, verb) == IF Method[e] = "toggle" THEN "toggle" ELSE verb

-----------------------------------------------------------------------------
(* The bound on the calls leaves room for every vent that is still to do. *)
RoomFor(S) == msgId + Cardinality(S \cup UNION {job[c].todo : c \in Callers}) <= MaxCalls

Begin(c, verb, S) ==
    /\ job[c] = NoJob /\ call[c] = NoCall
    /\ S # {} /\ S \subseteq ZoneVents(c) /\ RoomFor(S)
    /\ job' = [job EXCEPT ![c] = [verb |-> verb, todo |-> S]]
    /\ UNCHANGED <<vars, intent>>

OpenRoomVents(c, S) == Begin(c, "open", S)

CloseRoomVents(c, S) == FloorAllows(c, S) /\ Begin(c, "close", S)

(* Mutant of Command: the loop waits for the connection to come back. *)
CommandWhenUp(c, e) ==
    /\ call[c] = NoCall /\ e \in job[c].todo
    /\ job' = [job EXCEPT ![c].todo = @ \ {e}]
    /\ IF Skip(job[c].verb, e)
         THEN UNCHANGED <<vars, intent>>
         ELSE /\ Call(c, e, Verb(e, job[c].verb))
              /\ intent' = [intent EXCEPT ![msgId'] = job[c].verb]

(* One vent of the loop.  A call refused at once or failing later is       *)
(* contained: the loop goes on with the next vent.                         *)
Command(c, e) ==
    /\ call[c] = NoCall /\ e \in job[c].todo
    /\ job' = [job EXCEPT ![c].todo = @ \ {e}]
    /\ IF Skip(job[c].verb, e) \/ conn # "up"
         THEN UNCHANGED <<vars, intent>>
         ELSE /\ Call(c, e, Verb(e, job[c].verb))
              /\ intent' = [intent EXCEPT ![msgId'] = job[c].verb]

Finished(c) ==
    /\ job[c] # NoJob /\ job[c].todo = {} /\ call[c] = NoCall
    /\ job' = [job EXCEPT ![c] = NoJob]
    /\ UNCHANGED <<vars, intent>>

-----------------------------------------------------------------------------
VentInit == Init /\ job = [c \in Callers |-> NoJob] /\ intent = [i \in Ids |-> "none"]

(* What goes on around the zones; in a quiet house, without a fault        *)
Calm ==
    \/ Dial \/ Handshake \/ Subscribe \/ ReadEvent \/ ReadReply
    \/ Fetch /\ cache' = seen
    \/ \E c \in Callers : Written(c)
    \/ \E m \in sent : Apply(m) \/ (m.id \in done /\ Answer(m))
    \/ \E e \in Entities : ReportState(e) \/ GoUnavailable(e)

Around ==
    /\ IF Quiet THEN Calm ELSE Internal
    /\ UNCHANGED <<job, intent>>

Operate(c) ==
    \/ \E S \in SUBSET Entities : OpenRoomVents(c, S) \/ CloseRoomVents(c, S)
    \/ \E e \in Entities : Command(c, e)
    \/ Finished(c)

VentNext == Around \/ \E c \in Callers : Operate(c)

VentSpec == VentInit /\ [][VentNext]_ventVars

Proceed(c) == Finished(c) \/ \E e \in Entities : Command(c, e)

(* The timeouts of the client fire and the loops go on; the peer, be it    *)
(* Home Assistant or the network, owes nothing.                            *)
VentFairSpec ==
    /\ VentSpec
    /\ WF_ventVars(Fetch /\ UNCHANGED <<job, intent>>)
    /\ WF_ventVars(ConnectFails /\ UNCHANGED <<job, intent>>)
    /\ \A c \in Callers :
         /\ WF_ventVars(Proceed(c))
         /\ WF_ventVars(SendFails(c) /\ UNCHANGED <<job, intent>>)
         /\ WF_ventVars(CallTimesOut(c) /\ UNCHANGED <<job, intent>>)

-----------------------------------------------------------------------------
(* Properties *)

Passing(c) == {e \in ZoneVents(c) : pos[e] # "closed"}

(* Home Assistant carries out a call that was meant to close its vent. *)
Closes(m) == m.id \in done' \ done /\ intent[m.id] = "close"

(* docs/safety.md:92: "The airflow floor keeps a fraction of the home's    *)
(* total registers open at all times".  No close that close_room_vents     *)
(* lets through takes its zone below the floor.                            *)
FloorKept ==
    [][\A m \in sent : Closes(m) =>
          \/ Passing(Zone[m.ent])' = Passing(Zone[m.ent])
          \/ Cardinality(Passing(Zone[m.ent])') >= Required]_ventVars

(* vent_controller.py:277: "a closed `toggle` vent must never be toggled   *)
(* open": no close ever opens the vent it is for.                          *)
CloseNeverOpens ==
    [][\A m \in sent : Closes(m) /\ pos[m.ent] = "closed" => pos'[m.ent] = "closed"]_ventVars

(* _log_vent_error: "Misconfigured control_method on a single vent must    *)
(* not stall the zone": a zone gets to the end of its vents whatever       *)
(* becomes of the calls, and no peer can hang an attempt to connect.       *)
JobsEnd ==
    /\ \A c \in Callers : (job[c] # NoJob) ~> (job[c] = NoJob)
    /\ (conn \in Dialling) ~> (conn \notin Dialling)
=============================================================================
