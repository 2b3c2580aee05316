----------------------------- MODULE CycleEngine -----------------------------
(***************************************************************************)
(* The conditioning cycle of one thermostat zone                           *)
(* (smart_vent/backend/engine/cycle_engine.py).                            *)
(*                                                                         *)
(* Every handler of the engine runs under one asyncio lock, so at most one *)
(* is in progress; pc says where it has got to.  A handler is split at the *)
(* points where an exception, a crash of the add-on or a change of the     *)
(* house can fall between two of its effects.  Temperatures are abstracted *)
(* to what the engine tells apart (Readings) and are read afresh at every  *)
(* step that reads them; clocks are abstracted to the thresholds that are  *)
(* compared with them (age, the choice of over-long closed vents, the      *)
(* reconciliation interval).  Vacation mode is not in this module.         *)
(***************************************************************************)
EXTENDS Naturals, FiniteSets

CONSTANTS
    Rooms,       \* the rooms of the zone
    Vents,       \* the smart vents of the zone
    RoomOf,      \* the room each vent belongs to
    Required,    \* required_open_vents(tc, len(all_zone_vents))
    OverflowOn,  \* tc.overflow_during_min_runtime
    Reconciles,  \* tc.reconciliation_interval_min > 0; it is 0 by default
    MaxFaults,   \* bound: failed calls, failed writes, vents moved by hand
    MaxCrashes   \* bound: crashes of the add-on

ASSUME ZoneAssumption ==
    /\ IsFiniteSet(Rooms)
    /\ IsFiniteSet(Vents)
    /\ RoomOf \in [Vents -> Rooms]
    /\ Required \in Nat
    /\ OverflowOn \in BOOLEAN /\ Reconciles \in BOOLEAN
    /\ MaxFaults \in Nat
    /\ MaxCrashes \in Nat

VARIABLES
    (* CycleEngine's fields *)
    state,     \* _state
    hasLog,    \* _cycle_log is not None
    hold,      \* _cycle_log.in_min_runtime_hold
    active,    \* the keys of _active_rooms (and of _room_vents)
    rcs,       \* _room_cycle_states: absent, or whether vent_closed_at is set
    overflow,  \* _overflow_room_ids
    (* the handler in progress *)
    pc,        \* the next step of the handler that holds the lock
    after,     \* where the handler goes once a shared tail is done
    fresh,     \* is_fresh_start
    added,     \* the rooms joining in this update
    changed,   \* the rooms whose trigger changed in this update
    leaving,   \* the rooms removed by this update and not yet handled
    todo,      \* what the loop in progress has still to visit
    deferred,  \* rooms of this pass whose close the airflow floor deferred
    unserved,  \* rooms of this pass that block termination
    blind,     \* rooms of this pass skipped for want of a reading
    (* rows of the database *)
    dbOpen,    \* the zone has a cycle log without ended_at
    dbHold,    \* its in_min_runtime_hold
    dbRooms,   \* the rooms named in its rooms_json
    dbRcs,     \* its room_cycle_states rows
    (* the house and the run *)
    vent,      \* each vent's state as Home Assistant reports it
    age,       \* the cycle's run time against min runtime and timeout
    faults, crashes

engine == <<state, hasLog, hold, active, rcs, overflow>>
locals == <<after, fresh, added, changed, leaving, todo, deferred, unserved, blind>>
db     == <<dbOpen, dbHold, dbRooms, dbRcs>>
vars   == <<engine, pc, locals, db, vent, age, faults, crashes>>

-----------------------------------------------------------------------------
(* Types *)

Readings == {"none",  \* no usable sensor
             "at",    \* at or beyond the target
             "in",    \* short of the target by no more than a deadband
             "past"}  \* drifted past the deadband

PCs == {"rest", "boot", "update", "release", "reassert", "sweep", "monitor",
        "holdcheck", "holding", "check", "terminate", "termFinish", "opening",
        "abort", "abortOpen", "timeout", "reconcile", "reconciling"}

Records == {"none", "open", "closed"}
Rows    == Records \cup {"overflow", "overflowEnded"}
Ages    == {"young", "ripe", "expired"}

EngineType ==
    /\ state \in {"IDLE", "RUNNING", "TERMINATING"}
    /\ hasLog \in BOOLEAN /\ hold \in BOOLEAN
    /\ active \in SUBSET Rooms /\ overflow \in SUBSET Rooms
    /\ rcs \in [Rooms -> Records]

HandlerType ==
    /\ pc \in PCs
    /\ after \in {"rest", "reconcile", "reassert", "check"}
    /\ fresh \in BOOLEAN
    /\ added \in SUBSET Rooms /\ changed \in SUBSET Rooms /\ leaving \in SUBSET Rooms
    /\ todo \in SUBSET (Rooms \cup Vents)
    /\ deferred \in SUBSET Rooms /\ unserved \in SUBSET Rooms /\ blind \in SUBSET Rooms

RowsType ==
    /\ dbOpen \in BOOLEAN /\ dbHold \in BOOLEAN
    /\ dbRooms \in SUBSET Rooms
    /\ dbRcs \in [Rooms -> Rows]

HouseType ==
    /\ vent \in [Vents -> {"open", "closed"}]
    /\ age \in Ages
    /\ faults \in 0..MaxFaults
    /\ crashes \in 0..MaxCrashes

TypeOK == EngineType /\ HandlerType /\ RowsType /\ HouseType

-----------------------------------------------------------------------------
(* Vents and faults *)

VentsOf(S)  == {v \in Vents : RoomOf[v] \in S}
OpenVents   == {v \in Vents : vent[v] = "open"}
NoRecords   == [r \in Rooms |-> "none"]

(* Mutant of FloorAllows: the vents about to close still count as open. *)
FloorIgnoresClosing(S) == Cardinality(OpenVents) >= Required

(* The airflow floor: may the vents S be closed? *)
FloorAllows(S) ==
    Cardinality(OpenVents) - Cardinality(S \cap OpenVents) >= Required

(* A step in which something goes wrong spends one of the faults. *)
Spend(wrong) ==
    /\ wrong => faults < MaxFaults
    /\ faults' = IF wrong THEN faults + 1 ELSE faults

(* Cover commands go out vent by vent with errors contained: those missed  *)
(* leave their vent as it was.  `wrong' is another fault of the same step. *)
Send(S, to, wrong) ==
    \E missed \in SUBSET {v \in S : vent[v] # to} :
        /\ Spend(wrong \/ missed # {})
        /\ vent' = [v \in Vents |-> IF v \in S \ missed THEN to ELSE vent[v]]

NoCommand == UNCHANGED vent /\ Spend(FALSE)

(* force_close_vents behind the caller's own floor check *)
CloseIfAllowed(S) == IF FloorAllows(S) THEN Send(S, "closed", FALSE) ELSE NoCommand

-----------------------------------------------------------------------------
(* Control *)

Rest ==
    /\ pc' = "rest"
    /\ after' = "rest" /\ fresh' = FALSE
    /\ added' = {} /\ changed' = {} /\ leaving' = {} /\ todo' = {}
    /\ deferred' = {} /\ unserved' = {} /\ blind' = {}

Goto(where, set) ==
    /\ pc' = where /\ todo' = set
    /\ UNCHANGED <<after, fresh, added, changed, leaving, deferred, unserved, blind>>

Cold ==
    /\ state' = "IDLE" /\ hasLog' = FALSE /\ hold' = FALSE
    /\ active' = {} /\ rcs' = NoRecords /\ overflow' = {}

(* The record of room r and its row; a write that raises leaves the row. *)
Record(r, value, ok) ==
    /\ rcs' = [rcs EXCEPT ![r] = value]
    /\ dbRcs' = IF ok THEN [dbRcs EXCEPT ![r] = value] ELSE dbRcs

OverflowRows(S) ==
    [r \in Rooms |-> IF r \in S /\ dbRcs[r] = "overflow" THEN "overflowEnded" ELSE dbRcs[r]]

(* The overflow rows of S are closed; a row whose room cannot be read gets *)
(* no end temperature, by which a restart takes it to be open.             *)
EndOverflow(S) == \E unread \in SUBSET S : dbRcs' = OverflowRows(S \ unread)

-----------------------------------------------------------------------------
Init ==
    /\ state = "IDLE" /\ hasLog = FALSE /\ hold = FALSE
    /\ active = {} /\ rcs = NoRecords /\ overflow = {}
    /\ pc = "rest" /\ after = "rest" /\ fresh = FALSE
    /\ added = {} /\ changed = {} /\ leaving = {} /\ todo = {}
    /\ deferred = {} /\ unserved = {} /\ blind = {}
    /\ dbOpen = FALSE /\ dbHold = FALSE /\ dbRooms = {} /\ dbRcs = NoRecords
    /\ vent = [v \in Vents |-> "open"]
    /\ age = "young"
    /\ faults = 0 /\ crashes = 0

-----------------------------------------------------------------------------
(* _do_tick: what the gates at its head let through.  A tick that returns  *)
(* at a gate without touching the cycle is a stuttering step.              *)

(* Thermostat gone too long, system disabled, force_abort: the handler     *)
(* ends with the abort.  No active or no compatible room: it reconciles.   *)
TickAborts ==
    /\ pc = "rest" /\ state # "IDLE"
    /\ after' \in {"rest", "reconcile"}
    /\ pc' = "abort"
    /\ UNCHANGED <<fresh, added, changed, leaving, todo, deferred, unserved, blind>>
    /\ UNCHANGED <<engine, db, vent, age, faults, crashes>>

(* No demand, lockouts, satisfied at the relaxed targets *)
TickStaysIdle ==
    /\ pc = "rest" /\ state = "IDLE"
    /\ Goto("reconcile", {})
    /\ UNCHANGED <<engine, db, vent, age, faults, crashes>>

TickMonitors ==
    /\ pc = "rest" /\ state # "IDLE" /\ active # {}
    /\ Goto("monitor", {})
    /\ UNCHANGED <<engine, db, vent, age, faults, crashes>>

(* _start_or_update_cycle on an idle engine *)
Start(want) ==
    /\ pc = "rest" /\ state = "IDLE"
    /\ state' = "RUNNING" /\ hasLog' = TRUE /\ hold' = FALSE
    /\ active' = want /\ rcs' = NoRecords
    /\ dbOpen' = TRUE /\ dbHold' = FALSE /\ dbRooms' = want /\ dbRcs' = NoRecords
    /\ age' = "young"
    /\ pc' = "update" /\ fresh' = TRUE /\ added' = want /\ todo' = want
    /\ UNCHANGED <<overflow, after, changed, leaving, deferred, unserved, blind>>
    /\ UNCHANGED <<vent, faults, crashes>>

(* Mutant of StartFails: the engine runs before its log is written. *)
StartFailsRunning(want) ==
    /\ pc = "rest" /\ state = "IDLE"
    /\ active' = want /\ state' = "RUNNING"
    /\ Spend(TRUE)
    /\ UNCHANGED <<hasLog, hold, rcs, overflow, pc, locals>>
    /\ UNCHANGED <<db, vent, age, crashes>>

(* ... whose writes raise before the cycle runs: the rooms are committed,  *)
(* the old logs perhaps closed, the new log perhaps built.                 *)
StartFails(want) ==
    /\ pc = "rest" /\ state = "IDLE"
    /\ active' = want
    /\ \/ UNCHANGED <<hasLog, dbOpen>>
       \/ hasLog' \in {hasLog, TRUE} /\ dbOpen' = FALSE
    /\ Spend(TRUE)
    /\ UNCHANGED <<state, hold, rcs, overflow, pc, locals>>
    /\ UNCHANGED <<dbHold, dbRooms, dbRcs, vent, age, crashes>>

(* _start_or_update_cycle on a cycle in progress *)
Update(want, moved) ==
    /\ pc = "rest" /\ state # "IDLE"
    /\ want # active \/ (state = "RUNNING" /\ moved # {})
    /\ active' = want
    /\ pc' = "update" /\ fresh' = FALSE
    /\ added' = want \ active /\ todo' = want \ active
    /\ leaving' = active \ want
    /\ changed' = moved
    /\ UNCHANGED <<state, hasLog, hold, rcs, overflow>>
    /\ UNCHANGED <<after, deferred, unserved, blind, db, vent, age, faults, crashes>>

(* Mutant of Join: the room remains an overflow room. *)
JoinKeepsOverflow(r) ==
    /\ pc = "update" /\ r \in todo
    /\ Goto("update", todo \ {r})
    /\ \/ Send(VentsOf({r}), "open", FALSE) /\ Record(r, "open", TRUE)
       \/ Spend(TRUE) /\ UNCHANGED <<vent, rcs, dbRcs>>
    /\ UNCHANGED overflow
    /\ UNCHANGED <<state, hasLog, hold, active, dbOpen, dbHold, dbRooms, age, crashes>>

(* _join_room_to_cycle: as a unit, or not at all *)
Join(r) ==
    /\ pc = "update" /\ r \in todo
    /\ Goto("update", todo \ {r})
    /\ \/ /\ Send(VentsOf({r}), "open", FALSE)
          /\ Record(r, "open", TRUE)
          /\ overflow' = IF fresh THEN overflow ELSE overflow \ {r}
       \/ /\ Spend(TRUE)
          /\ UNCHANGED <<vent, rcs, dbRcs, overflow>>
    /\ UNCHANGED <<state, hasLog, hold, active, dbOpen, dbHold, dbRooms, age, crashes>>

(* A removed room: its vents close where the floor allows, its record goes *)
(* and its row stays.                                                      *)
Leave(r) ==
    /\ pc = "update" /\ todo = {} /\ ~fresh /\ r \in leaving
    /\ leaving' = leaving \ {r}
    /\ CloseIfAllowed(VentsOf({r}))
    /\ rcs' = [rcs EXCEPT ![r] = "none"]
    /\ UNCHANGED <<state, hasLog, hold, active, overflow, db, age, crashes>>
    /\ UNCHANGED <<pc, after, fresh, added, changed, todo, deferred, unserved, blind>>

(* Mutants of ReleaseHold: the row is forgotten; the flag waits for the row. *)
ReleaseHoldUnsaved == hold' = FALSE /\ UNCHANGED dbHold /\ Spend(FALSE)

ReleaseHoldIfSaved ==
    \E ok \in BOOLEAN : hold' = (hold /\ ~ok) /\ dbHold' = (dbHold /\ ~ok) /\ Spend(~ok)

(* The flag of the minimum-runtime hold is cleared; the row, if written *)
ReleaseHold ==
    /\ hold' = FALSE
    /\ \E ok \in BOOLEAN : dbHold' = (dbHold /\ ~ok) /\ Spend(~ok)

(* Demand that joined or changed during a hold ends it. *)
Retarget(unsatisfied) ==
    /\ pc = "update" /\ todo = {} /\ (fresh \/ leaving = {})
    /\ unsatisfied => ~fresh /\ hold /\ added \cup changed # {}
    /\ IF unsatisfied
         THEN ReleaseHold /\ pc' = "release" /\ after' = "reassert"
         ELSE UNCHANGED <<hold, dbHold, faults, after>> /\ pc' = "reassert"
    /\ UNCHANGED <<state, hasLog, active, rcs, overflow, dbOpen, dbRooms, dbRcs>>
    /\ UNCHANGED <<fresh, added, changed, leaving, todo, deferred, unserved, blind>>
    /\ UNCHANGED <<vent, age, crashes>>

(* _close_overflow_rooms of a released hold; no floor check *)
CloseOverflow ==
    /\ pc = "release"
    /\ Send(VentsOf(overflow), "closed", FALSE)
    /\ EndOverflow(overflow)
    /\ overflow' = {}
    /\ Goto(after, IF after = "check" THEN active ELSE {})
    /\ UNCHANGED <<state, hasLog, hold, active, rcs, dbOpen, dbHold, dbRooms, age, crashes>>

(* The snapshot of the log is rewritten and open rooms are reopened. *)
Reassert ==
    /\ pc = "reassert"
    /\ dbRooms' = dbRooms \cup active
    /\ Send(VentsOf({r \in active \ added : rcs[r] = "open"}), "open", FALSE)
    /\ IF fresh THEN Goto("sweep", (Rooms \ active) \ overflow) ELSE Goto("monitor", {})
    /\ UNCHANGED <<engine, dbOpen, dbHold, dbRcs, age, crashes>>

(* _close_idle_room_vents, of a fresh start or of a restore *)
Sweep(r) ==
    /\ pc = "sweep" /\ r \in todo
    /\ CloseIfAllowed(VentsOf({r}))
    /\ Goto("sweep", todo \ {r})
    /\ UNCHANGED <<engine, db, age, crashes>>

SweepEnds ==
    /\ pc = "sweep" /\ todo = {}
    /\ IF fresh THEN Goto("monitor", {}) ELSE Rest
    /\ UNCHANGED <<engine, db, vent, age, faults, crashes>>

-----------------------------------------------------------------------------
(* _monitor_rooms *)

(* check_max_closed_duration reopens what has been closed too long; at     *)
(* most one row is lost, that of the write that raises.                    *)
Watchdog(over, lost) ==
    /\ pc = "monitor"
    /\ Send(VentsOf(over \cap active), "open", lost # {})
    /\ rcs' = [r \in Rooms |-> IF r \in over THEN "open" ELSE rcs[r]]
    /\ dbRcs' = [r \in Rooms |-> IF r \in over \ lost THEN "open" ELSE dbRcs[r]]
    /\ IF lost # {} THEN Rest
       ELSE /\ pc' = "holdcheck"
            /\ added' = {} /\ changed' = {} /\ fresh' = FALSE
            /\ UNCHANGED <<after, leaving, todo, deferred, unserved, blind>>
    /\ UNCHANGED <<state, hasLog, hold, active, overflow, dbOpen, dbHold, dbRooms, age, crashes>>

Satisfied(seen) ==  \* _all_active_rooms_satisfied
    \A r \in active : rcs[r] = "closed" \/ (rcs[r] = "open" /\ seen[r] \in {"none", "at"})

Drifted(seen) ==  \* _rooms_drifted_past_deadband
    \E r \in active : rcs[r] # "none" /\ seen[r] = "past"

(* The minimum-runtime gate: a cycle satisfied too young is held, a held   *)
(* cycle is released, ended or kept, any other goes on to its rooms.       *)
HoldCheck(seen) ==
    LET young == age = "young" /\ active # {} IN
    /\ pc = "holdcheck"
    /\ \/ /\ young /\ Satisfied(seen)
          /\ hold' = TRUE
          /\ \E ok \in BOOLEAN :
               /\ Spend(~ok) /\ (hold => ok)
               /\ dbHold' = (dbHold \/ (ok /\ ~hold))
          /\ Goto("holding", {r \in active : rcs[r] = "closed"})
       \/ /\ ~(young /\ Satisfied(seen)) /\ hold /\ Drifted(seen)
          /\ ReleaseHold
          /\ pc' = "release" /\ after' = "check"
          /\ UNCHANGED <<fresh, added, changed, leaving, todo, deferred, unserved, blind>>
       \/ /\ ~(young /\ Satisfied(seen)) /\ hold /\ ~Drifted(seen)
          /\ IF age = "young" THEN Goto("holding", {}) ELSE Goto("terminate", {})
          /\ UNCHANGED <<hold, dbHold, faults>>
       \/ /\ ~(young /\ Satisfied(seen)) /\ ~hold
          /\ Goto("check", active)
          /\ UNCHANGED <<hold, dbHold, faults>>
    /\ UNCHANGED <<state, hasLog, active, rcs, overflow, dbOpen, dbRooms, dbRcs>>
    /\ UNCHANGED <<vent, age, crashes>>

(* _enter_min_runtime_hold reopens the rooms already served. *)
ReopenForHold(r) ==
    /\ pc = "holding" /\ r \in todo
    /\ \E ok \in BOOLEAN :
         /\ Send(VentsOf({r}), "open", ~ok)
         /\ Record(r, "open", ok)
         /\ IF ok THEN Goto("holding", todo \ {r}) ELSE Rest
    /\ UNCHANGED <<state, hasLog, hold, active, overflow, dbOpen, dbHold, dbRooms, age, crashes>>

(* _apply_overflow_during_hold: the candidates are any idle rooms; rooms   *)
(* that are candidates no more are closed without a floor check.           *)
ApplyOverflow(desired) ==
    LET opening == VentsOf(desired) \ OpenVents
        dropped == overflow \ desired
        closing == VentsOf(dropped) \cap OpenVents
        opened  == {r \in desired : VentsOf({r}) # {} /\ (r \in overflow => VentsOf({r}) \cap opening # {})}
    IN  /\ pc = "holding" /\ todo = {}
        /\ desired # {} => OverflowOn
        /\ IF OverflowOn /\ \E r \in active : rcs[r] # "none"
             THEN /\ \E missed \in SUBSET (opening \cup closing), unread \in SUBSET dropped,
                        lost \in SUBSET opened :
                       /\ Spend(missed \cup lost # {})
                       /\ vent' = [v \in Vents |->
                                     IF v \in opening \ missed THEN "open"
                                     ELSE IF v \in closing \ missed THEN "closed"
                                     ELSE vent[v]]
                       /\ dbRcs' = [r \in Rooms |->
                                      IF r \in opened \ lost THEN "overflow"
                                      ELSE OverflowRows(dropped \ unread)[r]]
                  /\ overflow' = desired
             ELSE NoCommand /\ UNCHANGED <<overflow, dbRcs>>
        /\ Goto("timeout", {})
        /\ UNCHANGED <<state, hasLog, hold, active, rcs, dbOpen, dbHold, dbRooms, age, crashes>>

(* The per-room loop visits r; a room just repaired is visited at once. *)
Visiting(r) ==
    /\ pc = "check" /\ r \in todo
    /\ added \cap todo # {} => r \in added

Visited(r, d, u, b) ==
    /\ todo' = todo \ {r}
    /\ deferred' = deferred \cup d /\ unserved' = unserved \cup u /\ blind' = blind \cup b
    /\ UNCHANGED <<pc, after, fresh, added, changed, leaving>>

VisitFrame == UNCHANGED <<state, hasLog, hold, active, overflow, dbOpen, dbHold, dbRooms, age, crashes>>

(* _repair_missing_room_state *)
Repair(r) ==
    /\ Visiting(r) /\ rcs[r] = "none"
    /\ \/ /\ Send(VentsOf({r}), "open", FALSE)
          /\ Record(r, "open", TRUE)
          /\ added' = {r}
          /\ UNCHANGED <<pc, after, fresh, changed, leaving, todo, deferred, unserved, blind>>
       \/ /\ Spend(TRUE)
          /\ Visited(r, {}, {r}, {})
          /\ UNCHANGED <<vent, rcs, dbRcs>>
    /\ VisitFrame

(* No reading: the room is passed over and does not block termination. *)
Overlook(r) ==
    /\ Visiting(r) /\ rcs[r] # "none"
    /\ Visited(r, {}, {}, {r})
    /\ UNCHANGED <<rcs, dbRcs>> /\ NoCommand /\ VisitFrame

(* Served, and still within the band *)
StayServed(r) ==
    /\ Visiting(r) /\ rcs[r] = "closed"
    /\ Visited(r, {}, {}, {})
    /\ UNCHANGED <<rcs, dbRcs>> /\ NoCommand /\ VisitFrame

(* Mutant of ReopenDrifted: the reopened room does not hold the cycle up. *)
ReopenDriftedFreely(r) ==
    /\ Visiting(r) /\ rcs[r] = "closed"
    /\ \E ok \in BOOLEAN :
         /\ Send(VentsOf({r}), "open", ~ok)
         /\ Record(r, "open", ok)
         /\ IF ok THEN Visited(r, {}, {}, {}) ELSE Rest
    /\ VisitFrame

ReopenDrifted(r) ==
    /\ Visiting(r) /\ rcs[r] = "closed"
    /\ \E ok \in BOOLEAN :
         /\ Send(VentsOf({r}), "open", ~ok)
         /\ Record(r, "open", ok)
         /\ IF ok THEN Visited(r, {}, {r}, {}) ELSE Rest
    /\ VisitFrame

IsLast(r) == {q \in Rooms : rcs[q] = "open"} = {r}

(* At target: the last room closes even below the floor, any other only    *)
(* where the floor allows.                                                 *)
CloseServed(r) ==
    /\ Visiting(r) /\ rcs[r] = "open"
    /\ FloorAllows(VentsOf({r})) \/ IsLast(r)
    /\ \E ok \in BOOLEAN :
         /\ Send(VentsOf({r}), "closed", ~ok)
         /\ Record(r, "closed", ok)
         /\ IF ok THEN Visited(r, {}, {}, {}) ELSE Rest
    /\ VisitFrame

Defer(r) ==
    /\ Visiting(r) /\ rcs[r] = "open"
    /\ ~FloorAllows(VentsOf({r})) /\ ~IsLast(r)
    /\ Visited(r, {r}, {}, {})
    /\ UNCHANGED <<rcs, dbRcs>> /\ NoCommand /\ VisitFrame

StillNeeds(r) ==
    /\ Visiting(r) /\ rcs[r] = "open"
    /\ Visited(r, {}, {r}, {})
    /\ UNCHANGED <<rcs, dbRcs>> /\ NoCommand /\ VisitFrame

(* What the reading of a room makes of its visit *)
CheckRoom(r, seen) ==
    \/ Repair(r)
    \/ seen = "none" /\ Overlook(r)
    \/ seen \in {"at", "in"} /\ StayServed(r)
    \/ seen = "past" /\ ReopenDrifted(r)
    \/ seen = "at" /\ (CloseServed(r) \/ Defer(r))
    \/ seen \in {"in", "past"} /\ StillNeeds(r)

(* all_at_target or (any_floor_deferred and blocked_only_by_floor) *)
Decide ==
    /\ pc = "check" /\ todo = {}
    /\ IF active # {} /\ unserved = {} THEN Goto("terminate", {}) ELSE Goto("timeout", {})
    /\ UNCHANGED <<engine, db, vent, age, faults, crashes>>

-----------------------------------------------------------------------------
(* The end of a cycle *)

Terminate(ok) ==
    /\ pc = "terminate"
    /\ state' = "TERMINATING"
    /\ Spend(~ok)
    /\ IF ok THEN EndOverflow(Rooms) /\ Goto("termFinish", {})
             ELSE UNCHANGED dbRcs /\ Rest
    /\ UNCHANGED <<hasLog, hold, active, rcs, overflow, dbOpen, dbHold, dbRooms>>
    /\ UNCHANGED <<vent, age, crashes>>

(* A close of the log that fails is contained. *)
CloseLog == \E ok \in BOOLEAN : dbOpen' = (dbOpen /\ ~ok) /\ Spend(~ok)

TermFinish ==
    /\ pc = "termFinish"
    /\ CloseLog /\ Cold
    /\ age' = "young"
    /\ Goto("opening", {})
    /\ UNCHANGED <<dbHold, dbRooms, dbRcs, vent, crashes>>

OpenZone ==
    /\ pc = "opening"
    /\ Send(Vents, "open", FALSE)
    /\ Goto("reconcile", {})
    /\ UNCHANGED <<engine, db, age, crashes>>

Abort ==
    /\ pc = "abort"
    /\ CloseLog
    /\ EndOverflow(Rooms)
    /\ Goto("abortOpen", {})
    /\ UNCHANGED <<engine, dbHold, dbRooms, vent, age, crashes>>

AbortOpen ==
    /\ pc = "abortOpen"
    /\ Send(Vents, "open", FALSE)
    /\ Cold
    /\ age' = "young"
    /\ IF after = "rest" THEN Rest ELSE Goto("reconcile", {})
    /\ UNCHANGED <<db, crashes>>

(* Mutant of Timeout: only a held cycle is timed out. *)
TimeoutOfHeld ==
    /\ pc = "timeout"
    /\ IF hasLog /\ hold /\ age = "expired"
         THEN Goto("terminate", {}) ELSE Goto("reconcile", {})
    /\ UNCHANGED <<engine, db, vent, age, faults, crashes>>

(* The cycle timeout looks at a running cycle only. *)
Timeout ==
    /\ pc = "timeout"
    /\ IF hasLog /\ state = "RUNNING" /\ age = "expired"
         THEN Goto("terminate", {}) ELSE Goto("reconcile", {})
    /\ UNCHANGED <<engine, db, vent, age, faults, crashes>>

-----------------------------------------------------------------------------
(* _reconcile_state, when its interval is set and has passed *)

Reconcile ==
    /\ pc = "reconcile" /\ Reconciles
    /\ Goto("reconciling", Vents)
    /\ UNCHANGED <<engine, db, vent, age, faults, crashes>>

SkipReconcile ==
    /\ pc = "reconcile" /\ Rest
    /\ UNCHANGED <<engine, db, vent, age, faults, crashes>>

(* Mutants of ShouldBe: an idle zone, a served room, are left as they are. *)
ShouldBeWhenIdle(v) ==
    CASE state # "RUNNING"         -> vent[v]
      [] state = "RUNNING" /\ RoomOf[v] \in active ->
            IF rcs[RoomOf[v]] = "none" THEN vent[v] ELSE rcs[RoomOf[v]]
      [] OTHER -> IF RoomOf[v] \in overflow THEN vent[v] ELSE "closed"

ShouldBeWhenServed(v) ==
    CASE state # "RUNNING"         -> "open"
      [] state = "RUNNING" /\ RoomOf[v] \in active ->
            IF rcs[RoomOf[v]] = "closed" THEN "closed" ELSE vent[v]
      [] OTHER -> IF RoomOf[v] \in overflow THEN vent[v] ELSE "closed"

(* _get_should_be_state *)
ShouldBe(v) ==
    CASE state # "RUNNING"         -> "open"
      [] state = "RUNNING" /\ RoomOf[v] \in active ->
            IF rcs[RoomOf[v]] = "none" THEN vent[v] ELSE rcs[RoomOf[v]]
      [] OTHER -> IF RoomOf[v] \in overflow THEN vent[v] ELSE "closed"

(* The rooms of the cycle come first; a close is subject to the floor. *)
ReconcileVent(v) ==
    /\ pc = "reconciling" /\ v \in todo
    /\ state = "RUNNING" /\ RoomOf[v] \notin active => VentsOf(active) \cap todo = {}
    /\ IF ShouldBe(v) = "open" THEN Send({v}, "open", FALSE)
       ELSE CloseIfAllowed({v})
    /\ Goto("reconciling", todo \ {v})
    /\ UNCHANGED <<engine, db, age, crashes>>

ReconcileEnds ==
    /\ pc = "reconciling" /\ todo = {} /\ Rest
    /\ UNCHANGED <<engine, db, vent, age, faults, crashes>>

-----------------------------------------------------------------------------
(* Exceptions, crashes, the house *)

Uncontained == {"update", "release", "reassert", "sweep", "monitor", "holdcheck",
                "holding", "check", "abort", "timeout", "reconcile", "reconciling"}

(* An exception that no handler contains ends the tick where it is; the    *)
(* scheduler tries the tick again.  Joins contain theirs.                  *)
Raise ==
    /\ pc \in Uncontained
    /\ pc = "update" => todo = {}
    /\ pc = "sweep" => fresh
    /\ Spend(TRUE) /\ Rest
    /\ UNCHANGED <<engine, db, vent, age, crashes>>

Crash ==
    /\ crashes < MaxCrashes
    /\ crashes' = crashes + 1
    /\ Cold
    /\ pc' = "boot"
    /\ after' = "rest" /\ fresh' = FALSE
    /\ added' = {} /\ changed' = {} /\ leaving' = {} /\ todo' = {}
    /\ deferred' = {} /\ unserved' = {} /\ blind' = {}
    /\ UNCHANGED <<db, vent, age, faults>>

BootCold ==
    /\ pc = "boot" /\ ~dbOpen
    /\ Rest
    /\ UNCHANGED <<engine, db, vent, age, faults, crashes>>

(* The ambient contradicts the cycle: it is closed, the vents opened. *)
BootDiscards ==
    /\ pc = "boot" /\ dbOpen /\ dbRooms # {}
    /\ dbOpen' = FALSE
    /\ Send(Vents, "open", FALSE)
    /\ age' = "young"
    /\ Rest
    /\ UNCHANGED <<engine, dbHold, dbRooms, dbRcs, crashes>>

(* Mutant of BootResumes: overflow rows are taken for records. *)
BootTakesEveryRow ==
    /\ pc = "boot" /\ dbOpen
    /\ state' = "RUNNING" /\ hasLog' = TRUE /\ hold' = dbHold
    /\ active' = dbRooms
    /\ rcs' = dbRcs
    /\ overflow' = {r \in Rooms : dbRcs[r] = "overflow"}
    /\ Goto("sweep", Rooms \ (active' \cup overflow'))
    /\ UNCHANGED <<db, vent, age, faults, crashes>>

BootResumes ==
    /\ pc = "boot" /\ dbOpen
    /\ state' = "RUNNING" /\ hasLog' = TRUE /\ hold' = dbHold
    /\ active' = dbRooms
    /\ rcs' = [r \in Rooms |-> IF dbRcs[r] \in Records THEN dbRcs[r] ELSE "none"]
    /\ overflow' = {r \in Rooms : dbRcs[r] = "overflow"}
    /\ Goto("sweep", Rooms \ (active' \cup overflow'))
    /\ UNCHANGED <<db, vent, age, faults, crashes>>

(* A restore that raises leaves a cold engine and closed logs. *)
BootFails ==
    /\ pc = "boot" \/ (pc = "sweep" /\ ~fresh)
    /\ Spend(TRUE) /\ Cold /\ Rest
    /\ dbOpen' = FALSE
    /\ age' = "young"
    /\ UNCHANGED <<dbHold, dbRooms, dbRcs, vent, crashes>>

(* A vent moved by hand or by another automation *)
MoveVent(v) ==
    /\ Spend(TRUE)
    /\ vent' = [vent EXCEPT ![v] = IF @ = "open" THEN "closed" ELSE "open"]
    /\ UNCHANGED <<engine, pc, locals, db, age, crashes>>

(* The minimum runtime passes, then the timeout. *)
GrowOld ==
    /\ state # "IDLE" /\ age # "expired"
    /\ age' = IF age = "young" THEN "ripe" ELSE "expired"
    /\ UNCHANGED <<engine, pc, locals, db, vent, faults, crashes>>

-----------------------------------------------------------------------------
Tick ==
    \/ TickAborts \/ TickStaysIdle \/ TickMonitors
    \/ \E want \in (SUBSET Rooms) \ {{}} :
         \/ Start(want) \/ StartFails(want)
         \/ \E moved \in SUBSET (want \cap active) : Update(want, moved)

Step ==
    \/ \E r \in Rooms : Join(r) \/ Leave(r) \/ Sweep(r) \/ ReopenForHold(r)
    \/ \E unsatisfied \in BOOLEAN : Retarget(unsatisfied)
    \/ CloseOverflow \/ Reassert \/ SweepEnds
    \/ \E over \in SUBSET {r \in Rooms : rcs[r] = "closed"} :
         \E lost \in {{}} \cup {{r} : r \in over} : Watchdog(over, lost)
    \/ \E seen \in [active -> Readings] : HoldCheck(seen)
    \/ \E desired \in SUBSET (Rooms \ active) : ApplyOverflow(desired)
    \/ \E r \in Rooms, seen \in Readings : CheckRoom(r, seen)
    \/ Decide
    \/ \E ok \in BOOLEAN : Terminate(ok)
    \/ TermFinish \/ OpenZone \/ Abort \/ AbortOpen \/ Timeout
    \/ Reconcile \/ SkipReconcile \/ ReconcileEnds
    \/ \E v \in Vents : ReconcileVent(v)
    \/ BootCold \/ BootDiscards \/ BootResumes \/ BootFails \/ Raise

House == GrowOld \/ \E v \in Vents : MoveVent(v)

Next == Tick \/ Step \/ Crash \/ House

Spec == Init /\ [][Next]_vars

(* The scheduler ticks for ever, a handler runs on and, where an interval  *)
(* is set, of the ticks that might reconcile some do: by default none is,  *)
(* and Reconcile is never enabled.  A cycle need not ever grow old.        *)
FairSpec ==
    /\ Spec
    /\ WF_vars(Tick) /\ WF_vars(Step) /\ SF_vars(Reconcile)

-----------------------------------------------------------------------------
(* Properties *)

(* A step of the engine, as against one of the house: it moves the handler. *)
EngineStep == <<pc, locals>>' # <<pc, locals>>

(* _start_or_update_cycle asserts that an engine that is not idle holds a  *)
(* cycle log; a hold is a flag of that log, and the close loop of          *)
(* _monitor_rooms is only ever reached out of a hold.                      *)
CycleHasLog ==
    /\ state # "IDLE" => hasLog
    /\ hold => state # "IDLE"
    /\ pc = "check" => ~hold

(* A pass over the rooms that ends the cycle has accounted for every one:  *)
(* its vent is closed, or the floor alone keeps it open, or it could not   *)
(* be read (all_at_target and blocked_only_by_floor tell the truth).       *)
CompletionIsEarned ==
    pc = "check" /\ todo = {} /\ unserved = {} =>
        \A r \in active : rcs[r] = "closed" \/ r \in deferred \cup blind

(* Their inductive strengthening: the steps that need a cycle are taken    *)
(* in one, a hold is over before its overflow rooms are closed, and every  *)
(* room a pass has left behind is accounted for.                           *)
NeedsCycle == PCs \ {"rest", "boot", "opening", "reconcile", "reconciling"}

CycleInv ==
    /\ CycleHasLog
    /\ pc \in NeedsCycle => state # "IDLE"
    /\ pc = "release" => ~hold

PassInv ==
    pc = "check" =>
        \A r \in active \ todo : rcs[r] = "closed" \/ r \in deferred \cup unserved \cup blind

(* docs/safety.md:28: "The hold gate never closes a satisfied room's vent  *)
(* while the hold is active".  While a hold lasts that neither a restart   *)
(* nor a second failure has interrupted, no step of the engine closes a    *)
(* vent of a served room that is still open, nor marks it closed.          *)
UnbrokenHoldKeepsServedOpen ==
    [][(hold /\ hold' /\ EngineStep /\ crashes' = 0 /\ faults' <= 1) =>
         \A r \in active : rcs[r] = "open" =>
            /\ rcs'[r] # "closed"
            /\ \A v \in VentsOf({r}) : vent[v] = "open" => vent'[v] = "open"]_vars

(* No step of the engine closes vents down through the airflow floor,      *)
(* except the last-vent bypass and the closing of overflow rooms.          *)
FloorGuardsCloses ==
    [][EngineStep =>
         \/ Cardinality(OpenVents') >= Required
         \/ OpenVents \subseteq OpenVents'
         \/ pc = "check" /\ \E r \in Rooms : IsLast(r)
         \/ pc = "release" \/ pc = "holding"]_vars

(* Every vent agrees with the record of its room whenever no handler is    *)
(* at work: a room of the running cycle has a record, its vents are open   *)
(* while it is being served and closed after.  So it is until a fault or a *)
(* crash comes between.                                                    *)
VentsMatchRecords ==
    pc = "rest" /\ state = "RUNNING" /\ faults = 0 /\ crashes = 0 =>
        /\ overflow \cap active = {}
        /\ \A r \in active : rcs[r] # "none" /\ \A v \in VentsOf({r}) : vent[v] = rcs[r]

(* What a restart would read back is what the engine knows, until a fault  *)
(* or a crash comes between.                                               *)
RowsMirrorEngine ==
    pc = "rest" /\ faults = 0 /\ crashes = 0 =>
        /\ dbOpen <=> state # "IDLE"
        /\ state # "IDLE" =>
             /\ dbHold = hold
             /\ active \subseteq dbRooms
             /\ \A r \in active : rcs[r] # "none" => dbRcs[r] = rcs[r]
             /\ \A r \in overflow : VentsOf({r}) # {} => dbRcs[r] = "overflow"

(* In a zone that reconciles, a closed vent is reopened while the zone is  *)
(* idle, or a cycle takes it.  With reconciliation_interval_min = 0, the   *)
(* default, nothing but the next cycle looks at a vent that missed its     *)
(* opening or was moved by hand.                                           *)
IdleZoneReopens ==
    \A v \in Vents :
        (Reconciles /\ state = "IDLE" /\ vent[v] = "closed")
          ~> (vent[v] = "open" \/ state # "IDLE")

(* In a zone that reconciles, a vent of a room that is being served does   *)
(* not stay shut.  With the default interval of 0 it may, for as long as   *)
(* the demand that the cycle serves does not change.                       *)
ServedRoomGetsAir ==
    \A v \in Vents :
        (Reconciles /\ state = "RUNNING" /\ RoomOf[v] \in active
           /\ rcs[RoomOf[v]] = "open" /\ vent[v] = "closed")
          ~> (vent[v] = "open" \/ state # "RUNNING" \/ rcs[RoomOf[v]] # "open"
               \/ RoomOf[v] \notin active)

(* A cycle that runs past its timeout is stopped, whatever its rooms read  *)
(* and whichever vent or write failed.                                     *)
TimeoutStopsRunning == (state = "RUNNING" /\ age = "expired") ~> (state # "RUNNING")

-----------------------------------------------------------------------------
(* What the documentation says and the code does not keep: TLC refutes     *)
(* each of these on the instances of MCCycleEngine, the first with one     *)
(* crash, the second with neither crash nor fault, the third (of FairSpec) *)
(* with one fault.                                                         *)

(* docs/safety.md:28 of every hold: after a restart a room may be restored *)
(* as active and as overflow at once, and the hold closes its vent.        *)
HoldKeepsServedOpen ==
    [][(hold /\ hold' /\ EngineStep) =>
         \A r \in active : rcs[r] = "open" =>
            /\ rcs'[r] # "closed"
            /\ \A v \in VentsOf({r}) : vent[v] = "open" => vent'[v] = "open"]_vars

(* docs/safety.md:92: "The airflow floor keeps a fraction of the home's    *)
(* total registers open at all times so the system can never dead-head     *)
(* itself."  Overflow rooms are closed without asking the floor, and the   *)
(* last-vent bypass may be followed by a room that keeps the cycle running.*)
RunningZoneKeepsFloor ==
    pc = "rest" /\ state = "RUNNING" => Cardinality(OpenVents) >= Required

(* docs/cycle-engine.md:30: "A cycle running longer than cycle timeout     *)
(* hours is aborted, vents are restored".  An exception in the termination *)
(* leaves TERMINATING, which no timeout looks at.                          *)
TimeoutEndsCycle == (state # "IDLE" /\ age = "expired") ~> (state = "IDLE")
=============================================================================
