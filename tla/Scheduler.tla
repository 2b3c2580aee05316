------------------------------ MODULE Scheduler ------------------------------
(***************************************************************************)
(* The scheduler, its engines and the database they share                  *)
(* (smart_vent/backend/scheduler.py; the writes of                         *)
(* engine/cycle_engine.py to cycle_logs).                                  *)
(*                                                                         *)
(* Coroutines interleave at their awaits: the ticks of the zones, a mode   *)
(* toggle, the synchronisation of the engines with the rooms, the restore  *)
(* of a backup and the API's changes of rooms.  A cycle is abstracted to   *)
(* its log, to whether its engine runs it and to whether the thermostat    *)
(* has been driven for it; CycleEngine has the rest of its life.           *)
(***************************************************************************)
EXTENDS Naturals, FiniteSets

CONSTANTS
    Zones, Rooms,
    Engines,     \* engine objects
    Tickers,     \* coroutines in _tick_engine
    None,
    InitHome,    \* the zone of each room at the start
    DevModes,    \* the values the developer mode is set to
    MaxLogs, MaxToggles, MaxMoves, MaxRestores, MaxFaults, MaxCrashes

(* Ids of cycle logs, taken in order *)
Logs == 1..MaxLogs

ASSUME SchedulerAssumption ==
    /\ IsFiniteSet(Zones) /\ IsFiniteSet(Rooms)
    /\ None \notin Zones \cup Engines \cup Tickers \cup Logs
    /\ DevModes \subseteq BOOLEAN
    /\ InitHome \in [Rooms -> Zones \cup {None}]
    /\ {MaxLogs, MaxToggles, MaxMoves, MaxRestores, MaxFaults, MaxCrashes} \subseteq Nat

VARIABLES
    system,  \* _system_enabled
    dev,     \* _dev_mode
    pub,     \* _engines: the published engine of each zone
    eng,     \* each engine's zone, whether it runs a cycle, its log, its file
    lock,    \* who holds the engine's lock across awaits
    task,    \* each ticker: where it is, its engine, its rooms, its connection
    toggle,  \* _reset_and_reevaluate in progress
    sync,    \* _sync_engines in progress (one at a time, by its lock)
    reload,  \* reload_db in progress
    link,    \* the database file _db_conn is connected to
    closed,  \* _db_conn has been closed and not yet reopened
    (* the database and the house *)
    file,    \* the database file in place
    row,     \* its cycle_logs: zone, rooms of room_cycle_states, unused / open / over
    home,    \* its rooms: the thermostat of each
    driven,  \* the thermostat stands at the setpoint of a cycle
    used     \* toggles, moves, restores, faults and crashes spent

flags   == <<system, dev>>
fleet   == <<pub, eng, lock>>
control == <<toggle, sync, reload>>
conn    == <<link, closed>>
store   == <<file, row, home>>
vars    == <<flags, fleet, task, control, conn, store, driven, used>>

-----------------------------------------------------------------------------
(* Types *)

Files == 0..MaxRestores
Kinds == {"toggles", "moves", "restores", "faults", "crashes"}
Cap   == [k \in Kinds |->
            CASE k = "toggles"  -> MaxToggles  [] k = "moves"  -> MaxMoves
              [] k = "restores" -> MaxRestores [] k = "faults" -> MaxFaults
              [] k = "crashes"  -> MaxCrashes]

EngineRecords == [zone : Zones \cup {None}, running : BOOLEAN, log : Logs \cup {None}, file : Files]
LogRecords    == [zone : Zones \cup {None}, rooms : SUBSET Rooms, st : {"unused", "open", "over"}]
TaskRecords   == [pc : {"idle", "wait", "own", "cross", "insert", "join"},
                  engine : Engines \cup {None}, want : SUBSET Rooms, file : Files]

TypeOK ==
    /\ system \in BOOLEAN /\ dev \in BOOLEAN
    /\ pub \in [Zones -> Engines \cup {None}]
    /\ eng \in [Engines -> EngineRecords]
    /\ lock \in [Engines -> Tickers \cup {None}]
    /\ task \in [Tickers -> TaskRecords]
    /\ \A e \in Engines, t \in Tickers :
           lock[e] = t <=> task[t].engine = e /\ task[t].pc \in {"own", "cross", "insert", "join"}
    /\ toggle \in [pc : {"idle", "abort", "net"}, seen : SUBSET Zones, fleet : SUBSET Zones, old : SUBSET Logs]
    /\ sync \in [pc : {"idle", "create", "publish", "remove", "close", "pop"},
                 zones : SUBSET Zones, zone : Zones \cup {None}, engine : Engines \cup {None}]
    /\ reload \in [pc : {"idle", "abort", "open"}, todo : SUBSET (Zones \X Engines)]
    /\ link \in Files /\ closed \in BOOLEAN /\ file \in Files
    /\ row \in [Logs -> LogRecords]
    /\ home \in [Rooms -> Zones \cup {None}]
    /\ driven \in [Zones -> BOOLEAN]
    /\ used \in [Kinds -> Nat] /\ \A k \in Kinds : used[k] <= Cap[k]

-----------------------------------------------------------------------------
(* Helpers *)

Published   == {z \in Zones : pub[z] # None}
OpenLogs(z) == {l \in Logs : row[l].zone = z /\ row[l].st = "open"}
Unused      == {l \in Logs : row[l].st = "unused"}
FreshLog    == CHOOSE l \in Unused : \A m \in Unused : l <= m
RoomsOf(z)  == {r \in Rooms : home[r] = z}
Enabled     == system \/ dev
Free(e)     == lock[e] = None

ColdEngine(z) == [zone |-> z, running |-> FALSE, log |-> None, file |-> file]
NoTask        == [pc |-> "idle", engine |-> None, want |-> {}, file |-> 0]
NoToggle      == [pc |-> "idle", seen |-> {}, fleet |-> {}, old |-> {}]
NoSync        == [pc |-> "idle", zones |-> {}, zone |-> None, engine |-> None]
NoReload      == [pc |-> "idle", todo |-> {}]

Spend(k)      == used[k] < Cap[k] /\ used' = [used EXCEPT ![k] = @ + 1]
Mishap(wrong) == IF wrong THEN Spend("faults") ELSE UNCHANGED used

(* What a statement on the connection to file f does to the file in place. *)
Over(S)        == [l \in Logs |-> IF l \in S THEN [row[l] EXCEPT !.st = "over"] ELSE row[l]]
CloseLogs(S, f) == row' = IF f = file THEN Over(S) ELSE row

(* Mutants of EndCycle: the log is left open; the setpoint is left. *)
EndUnlogged(e, f, logged, parked) ==
    LET z == eng[e].zone IN
    /\ UNCHANGED row
    /\ driven' = [driven EXCEPT ![z] = @ /\ (dev \/ ~parked)]
    /\ eng' = [eng EXCEPT ![e].running = FALSE, ![e].log = None]
    /\ Mishap(~(logged /\ parked))

EndUnparked(e, f, logged, parked) ==
    /\ CloseLogs(IF logged THEN {eng[e].log} \cap Logs ELSE {}, f)
    /\ eng' = [eng EXCEPT ![e].running = FALSE, ![e].log = None]
    /\ Mishap(~(logged /\ parked))
    /\ UNCHANGED driven

(* _abort_cycle, and the end of _terminate_cycle: the log is closed, the   *)
(* setpoint parked, the engine idle.  Failed writes and calls are          *)
(* contained.  In dev mode no call reaches Home Assistant.                 *)
EndCycle(e, f, logged, parked) ==
    LET z == eng[e].zone IN
    /\ CloseLogs(IF logged THEN {eng[e].log} \cap Logs ELSE {}, f)
    /\ driven' = [driven EXCEPT ![z] = @ /\ (dev \/ ~parked)]
    /\ eng' = [eng EXCEPT ![e].running = FALSE, ![e].log = None]
    /\ Mishap(~(logged /\ parked))

NothingToEnd == UNCHANGED <<row, driven, eng, used>>

(* Mutant of ForceAbort: only what the flag disables is aborted, as the    *)
(* guard of _do_tick does.                                                 *)
AbortIfDisabled(e, f) ==
    IF eng[e].running /\ ~Enabled
    THEN \E logged, parked \in BOOLEAN : EndCycle(e, f, logged, parked)
    ELSE NothingToEnd

(* force_abort: waits for the engine's lock; an exception before its end   *)
(* is swallowed by the caller.                                             *)
ForceAbort(e, f) ==
    \/ eng[e].running /\ \E logged, parked \in BOOLEAN : EndCycle(e, f, logged, parked)
    \/ eng[e].running /\ UNCHANGED <<row, driven, eng>> /\ Mishap(TRUE)
    \/ ~eng[e].running /\ NothingToEnd

-----------------------------------------------------------------------------
(* The rows a process that died earlier may have left open *)
Init ==
    /\ system \in BOOLEAN /\ dev = FALSE
    /\ pub = [z \in Zones |-> None]
    /\ eng = [e \in Engines |-> [zone |-> None, running |-> FALSE, log |-> None, file |-> 0]]
    /\ lock = [e \in Engines |-> None]
    /\ task = [t \in Tickers |-> NoTask]
    /\ toggle = NoToggle /\ sync = NoSync /\ reload = NoReload
    /\ link = 0 /\ closed = FALSE /\ file = 0
    /\ row = [l \in Logs |-> [zone |-> None, rooms |-> {}, st |-> "unused"]]
    /\ home = InitHome
    /\ driven = [z \in Zones |-> FALSE]
    /\ used = [k \in Kinds |-> 0]

-----------------------------------------------------------------------------
(* _tick_engine and what CycleEngine.tick does to the shared state *)

(* The main tick, a climate or presence event, a kick of the API *)
TickBegin(t, z) ==
    /\ task[t].pc = "idle" /\ pub[z] # None
    /\ task' = [task EXCEPT ![t] = [NoTask EXCEPT !.pc = "wait", !.engine = pub[z], !.file = link]]
    /\ UNCHANGED <<flags, fleet, control, conn, store, driven, used>>

Connected(t) == ~closed /\ task[t].file = link

Continue(t, where, want) ==
    task' = [task EXCEPT ![t].pc = where, ![t].want = want]
Finish(t) == task' = [task EXCEPT ![t] = NoTask]

(* Mutant of TickRunning: a cycle goes on while the system is disabled. *)
TickDisabled(t) ==
    LET e == task[t].engine IN
    /\ task[t].pc = "wait" /\ Free(e) /\ Connected(t) /\ eng[e].running
    /\ \/ Enabled /\ \E logged, parked \in BOOLEAN : EndCycle(e, task[t].file, logged, parked)
       \/ /\ driven' = [driven EXCEPT ![eng[e].zone] = @ \/ ~dev]
          /\ UNCHANGED <<row, eng, used>>
    /\ Finish(t)
    /\ UNCHANGED <<flags, pub, lock, control, conn, file, home>>

(* The lock is free and the cycle goes on, or ends: at target, timed out,  *)
(* disabled, without rooms.                                                *)
TickRunning(t) ==
    LET e == task[t].engine IN
    /\ task[t].pc = "wait" /\ Free(e) /\ Connected(t) /\ eng[e].running
    /\ \/ \E logged, parked \in BOOLEAN : EndCycle(e, task[t].file, logged, parked)
       \/ /\ Enabled
          /\ \E want \in (SUBSET RoomsOf(eng[e].zone)) \ {{}} :
               row' = IF task[t].file = file /\ row[eng[e].log].st # "unused"
                      THEN [row EXCEPT ![eng[e].log].rooms = @ \cup want] ELSE row
          /\ driven' = [driven EXCEPT ![eng[e].zone] = @ \/ ~dev]
          /\ UNCHANGED <<eng, used>>
    /\ Finish(t)
    /\ UNCHANGED <<flags, pub, lock, control, conn, file, home>>

(* An idle engine with demand starts a cycle, which takes several writes;  *)
(* without demand, or disabled, the tick changes nothing.                  *)
TickIdle(t) ==
    LET e == task[t].engine IN
    /\ task[t].pc = "wait" /\ Free(e) /\ Connected(t) /\ ~eng[e].running
    /\ \/ Finish(t) /\ UNCHANGED lock
       \/ /\ Enabled /\ Unused # {}
          /\ \E want \in (SUBSET RoomsOf(eng[e].zone)) \ {{}} : Continue(t, "own", want)
          /\ lock' = [lock EXCEPT ![e] = t]
    /\ UNCHANGED <<flags, pub, eng, control, conn, store, driven, used>>

(* Mutant of CloseOwn: the cycle starts beside what an earlier one left. *)
SkipOwn(t) ==
    /\ task[t].pc = "own" /\ Connected(t)
    /\ Continue(t, "cross", task[t].want)
    /\ UNCHANGED <<flags, fleet, control, conn, store, driven, used>>

(* close_open_cycle_logs *)
CloseOwn(t) ==
    LET z == eng[task[t].engine].zone IN
    /\ task[t].pc = "own" /\ Connected(t)
    /\ CloseLogs(OpenLogs(z), task[t].file)
    /\ Continue(t, "cross", task[t].want)
    /\ UNCHANGED <<flags, fleet, control, conn, file, home, driven, used>>

(* close_open_cycles_for_rooms, excluding the own zone *)
CloseCross(t) ==
    LET z == eng[task[t].engine].zone IN
    /\ task[t].pc = "cross" /\ Connected(t)
    /\ CloseLogs({l \in Logs : row[l].st = "open" /\ row[l].zone # z
                                 /\ row[l].rooms \cap task[t].want # {}}, task[t].file)
    /\ Continue(t, "insert", task[t].want)
    /\ UNCHANGED <<flags, fleet, control, conn, file, home, driven, used>>

(* insert_cycle_log, and the engine runs *)
InsertLog(t) ==
    LET e == task[t].engine IN
    /\ task[t].pc = "insert" /\ Connected(t) /\ Unused # {}
    /\ row' = IF task[t].file = file
              THEN [row EXCEPT ![FreshLog] = [zone |-> eng[e].zone, rooms |-> {}, st |-> "open"]]
              ELSE [row EXCEPT ![FreshLog].st = "over"]
    /\ eng' = [eng EXCEPT ![e].running = TRUE, ![e].log = FreshLog, ![e].file = task[t].file]
    /\ Continue(t, "join", task[t].want)
    /\ UNCHANGED <<flags, pub, lock, control, conn, file, home, driven, used>>

(* Mutant of JoinRooms: the lock is never released. *)
JoinAsleep(t) ==
    LET e == task[t].engine IN
    /\ task[t].pc = "join" /\ Connected(t)
    /\ row' = [row EXCEPT ![eng[e].log].rooms = @ \cup task[t].want]
    /\ driven' = [driven EXCEPT ![eng[e].zone] = ~dev]
    /\ Finish(t)
    /\ UNCHANGED <<flags, pub, lock, eng, control, conn, file, home, used>>

(* The rooms join, vents and setpoint are commanded, the lock is released. *)
JoinRooms(t) ==
    LET e == task[t].engine IN
    /\ task[t].pc = "join" /\ Connected(t)
    /\ row' = IF task[t].file = file
              THEN [row EXCEPT ![eng[e].log].rooms = @ \cup task[t].want] ELSE row
    /\ driven' = [driven EXCEPT ![eng[e].zone] = @ \/ ~dev]
    /\ lock' = [lock EXCEPT ![e] = None]
    /\ Finish(t)
    /\ UNCHANGED <<flags, pub, eng, control, conn, file, home, used>>

(* An exception unwinds the tick, which tries again on the connection of   *)
(* the moment or gives up.  A tick on a closed connection always raises.   *)
TickRaises(t) ==
    LET e == task[t].engine IN
    /\ task[t].pc # "idle"
    /\ Mishap(Connected(t))
    /\ task' \in {[task EXCEPT ![t] = NoTask],
                  [task EXCEPT ![t] = [NoTask EXCEPT !.pc = "wait", !.engine = e, !.file = link]]}
    /\ task' # task
    /\ lock' = IF lock[e] = t THEN [lock EXCEPT ![e] = None] ELSE lock
    /\ UNCHANGED <<flags, pub, eng, control, conn, store, driven>>

-----------------------------------------------------------------------------
(* set_system_enabled, set_dev_mode: the flag, then _reset_and_reevaluate.  *)
(* The loops iterate over the dictionary of engines: a change of its size   *)
(* between two turns raises out of the toggle.                              *)
Toggle(sys, develop) ==
    /\ toggle.pc = "idle"
    /\ Spend("toggles")
    /\ system' = sys /\ dev' = develop
    /\ toggle' = IF Published = {} THEN NoToggle
                 ELSE [pc |-> "abort", seen |-> {}, fleet |-> Published,
                       old |-> {l \in Logs : row[l].st = "open"}]
    /\ UNCHANGED <<fleet, task, sync, reload, conn, store, driven>>

Unmoved == Cardinality(Published) = Cardinality(toggle.fleet)
Turn(z, where) ==
    /\ toggle.pc = where /\ Unmoved /\ z \in Published \ toggle.seen
    /\ toggle' = [toggle EXCEPT !.seen = @ \cup {z}]

ToggleAborts(z) ==
    /\ Turn(z, "abort") /\ Free(pub[z])
    /\ ForceAbort(pub[z], link)
    /\ UNCHANGED <<flags, pub, lock, task, sync, reload, conn, file, home>>

(* The safety net, which takes no lock *)
ToggleCloses(z) ==
    /\ Turn(z, "net")
    /\ \/ CloseLogs(OpenLogs(z), link) /\ UNCHANGED used
       \/ UNCHANGED row /\ Spend("faults")
    /\ UNCHANGED <<flags, fleet, task, sync, reload, conn, file, home, driven>>

ToggleAdvances ==
    /\ toggle.pc # "idle" /\ Unmoved /\ Published \subseteq toggle.seen
    /\ toggle' = IF toggle.pc = "abort" THEN [toggle EXCEPT !.pc = "net", !.seen = {}] ELSE NoToggle
    /\ UNCHANGED <<flags, fleet, task, sync, reload, conn, store, driven, used>>

ToggleBreaks ==
    /\ toggle.pc # "idle" /\ ~Unmoved
    /\ toggle' = NoToggle
    /\ UNCHANGED <<flags, fleet, task, sync, reload, conn, store, driven, used>>

-----------------------------------------------------------------------------
(* _sync_engines: of the main tick, of the API and of reload_db *)

SyncBegins ==
    /\ sync.pc = "idle" /\ ~closed
    /\ sync' = [NoSync EXCEPT !.pc = "create", !.zones = {home[r] : r \in Rooms} \ {None}]
    /\ UNCHANGED <<flags, fleet, task, toggle, reload, conn, store, driven, used>>

Idle(e) == ~eng[e].running /\ lock[e] = None /\ (\A z \in Zones : pub[z] # e)
             /\ \A t \in Tickers : task[t].engine # e

(* restore_from_db: the newest open log is resumed, older ones are closed. *)
Resume(z, e) ==
    LET open == OpenLogs(z)
        last == CHOOSE l \in open : \A m \in open : m <= l
    IN  IF open = {} THEN eng' = [eng EXCEPT ![e] = ColdEngine(z)] /\ UNCHANGED row
        ELSE /\ eng' = [eng EXCEPT ![e] = [zone |-> z, running |-> TRUE, log |-> last, file |-> link]]
             /\ row' = Over(open \ {last})

(* A cycle whose mode the room temperature of the thermostat contradicts   *)
(* is closed and parked instead, a failure to park contained.  A restore   *)
(* that raises leaves the same cold engine and closed logs, parking none.  *)
Discard(z, e, parked) ==
    /\ parked => OpenLogs(z) # {}
    /\ eng' = [eng EXCEPT ![e] = ColdEngine(z)]
    /\ row' = Over(OpenLogs(z))
    /\ driven' = [driven EXCEPT ![z] = @ /\ (dev \/ ~parked)]
    /\ Mishap(~parked)

Build(z, e) ==
    /\ sync.pc = "create" /\ z \in sync.zones \ Published /\ Idle(e) /\ ~closed
    /\ \/ Resume(z, e) /\ UNCHANGED <<driven, used>>
       \/ \E parked \in BOOLEAN : Discard(z, e, parked)
    /\ sync' = [sync EXCEPT !.pc = "publish", !.zone = z, !.engine = e]
    /\ UNCHANGED <<flags, pub, lock, task, toggle, reload, conn, file, home>>

Publish ==
    /\ sync.pc = "publish"
    /\ pub' = [pub EXCEPT ![sync.zone] = sync.engine]
    /\ sync' = [sync EXCEPT !.pc = "create", !.zone = None, !.engine = None]
    /\ UNCHANGED <<flags, eng, lock, task, toggle, reload, conn, store, driven, used>>

(* Mutant of RemoveAborts: the engine is dropped without an abort. *)
RemoveUnaborted(z) ==
    /\ sync.pc \in {"create", "remove"} /\ sync.zones \subseteq Published
    /\ z \in Published \ sync.zones
    /\ sync' = [sync EXCEPT !.pc = "close", !.zone = z]
    /\ UNCHANGED <<flags, fleet, task, toggle, reload, conn, store, driven, used>>

(* A zone that has lost its last room: abort, close its logs, drop it. *)
RemoveAborts(z) ==
    /\ sync.pc \in {"create", "remove"} /\ sync.zones \subseteq Published
    /\ z \in Published \ sync.zones /\ Free(pub[z])
    /\ ForceAbort(pub[z], link)
    /\ sync' = [sync EXCEPT !.pc = "close", !.zone = z]
    /\ UNCHANGED <<flags, pub, lock, task, toggle, reload, conn, file, home>>

RemoveCloses ==
    /\ sync.pc = "close"
    /\ \/ CloseLogs(OpenLogs(sync.zone), link) /\ UNCHANGED used
       \/ UNCHANGED row /\ Spend("faults")
    /\ sync' = [sync EXCEPT !.pc = "pop"]
    /\ UNCHANGED <<flags, fleet, task, toggle, reload, conn, file, home, driven>>

RemovePops ==
    /\ sync.pc = "pop"
    /\ pub' = [pub EXCEPT ![sync.zone] = None]
    /\ sync' = [sync EXCEPT !.pc = "remove", !.zone = None]
    /\ UNCHANGED <<flags, eng, lock, task, toggle, reload, conn, store, driven, used>>

SyncEnds ==
    /\ sync.pc \in {"create", "remove"}
    /\ sync.zones \subseteq Published /\ Published \subseteq sync.zones
    /\ sync' = NoSync
    /\ UNCHANGED <<flags, fleet, task, toggle, reload, conn, store, driven, used>>

(* Its connection is closed under it, or the engine it removes is gone. *)
SyncRaises ==
    /\ sync.pc # "idle"
    /\ closed \/ (sync.pc = "remove" /\ ~(sync.zones \subseteq Published))
    /\ sync' = NoSync
    /\ UNCHANGED <<flags, fleet, task, toggle, reload, conn, store, driven, used>>

-----------------------------------------------------------------------------
(* /api/restore: the file is swapped for a backup, which knows the cycles  *)
(* of its time; then reload_db.                                            *)
SwapFile ==
    /\ reload.pc = "idle" /\ ~closed /\ Published # {}
    /\ Spend("restores")
    /\ file' = file + 1
    /\ \E kept \in {{}} \cup {{l} : l \in Logs \ Unused} :
         row' = [l \in Logs |-> [row[l] EXCEPT !.st =
                   IF l \in Unused THEN @ ELSE IF l \in kept THEN "open" ELSE "over"]]
    /\ reload' = [pc |-> "abort", todo |-> {<<z, pub[z]>> : z \in Published}]
    /\ UNCHANGED <<flags, fleet, task, toggle, sync, conn, home, driven>>

(* Mutant of ReloadClears: the engines survive the restore. *)
ReloadKeeps ==
    /\ closed' = TRUE
    /\ reload' = [NoReload EXCEPT !.pc = "open"]
    /\ UNCHANGED pub

ReloadClears ==
    /\ pub' = [z \in Zones |-> None]
    /\ closed' = TRUE
    /\ reload' = [NoReload EXCEPT !.pc = "open"]

(* The engines are aborted in turn; with the last of them the dictionary   *)
(* is cleared and the connection closed, and no coroutine comes between.   *)
ReloadAborts(z, e) ==
    /\ reload.pc = "abort" /\ <<z, e>> \in reload.todo /\ Free(e)
    /\ ForceAbort(e, link)
    /\ IF reload.todo = {<<z, e>>} THEN ReloadClears
       ELSE reload' = [reload EXCEPT !.todo = @ \ {<<z, e>>}] /\ UNCHANGED <<pub, closed>>
    /\ UNCHANGED <<flags, lock, task, toggle, sync, link, file, home>>

ReloadOpens ==
    /\ reload.pc = "open"
    /\ link' = file /\ closed' = FALSE
    /\ system' \in BOOLEAN /\ dev' \in DevModes
    /\ reload' = NoReload
    /\ UNCHANGED <<fleet, task, toggle, sync, store, driven, used>>

-----------------------------------------------------------------------------
(* The API gives a room to another thermostat, or deletes it. *)
MoveRoom(r, z) ==
    /\ home[r] # z /\ Spend("moves")
    /\ home' = [home EXCEPT ![r] = z]
    /\ row' = IF z = None THEN [l \in Logs |-> [row[l] EXCEPT !.rooms = @ \ {r}]] ELSE row
    /\ UNCHANGED <<flags, fleet, task, control, conn, file, driven>>

(* The process dies and comes back; its flags and rows are persisted. *)
Crash ==
    /\ Spend("crashes")
    /\ pub' = [z \in Zones |-> None]
    /\ eng' = [e \in Engines |-> [zone |-> None, running |-> FALSE, log |-> None, file |-> 0]]
    /\ lock' = [e \in Engines |-> None]
    /\ task' = [t \in Tickers |-> NoTask]
    /\ toggle' = NoToggle /\ sync' = NoSync /\ reload' = NoReload
    /\ link' = file /\ closed' = FALSE
    /\ UNCHANGED <<flags, store, driven>>

-----------------------------------------------------------------------------
TaskStep(t) ==
    \/ TickRunning(t) \/ TickIdle(t) \/ CloseOwn(t) \/ CloseCross(t)
    \/ InsertLog(t) \/ JoinRooms(t) \/ TickRaises(t)

ToggleStep == ToggleAdvances \/ ToggleBreaks \/ \E z \in Zones : ToggleAborts(z) \/ ToggleCloses(z)

SyncStep ==
    \/ Publish \/ RemoveCloses \/ RemovePops \/ SyncEnds \/ SyncRaises
    \/ \E z \in Zones : RemoveAborts(z) \/ \E e \in Engines : Build(z, e)

ReloadStep == ReloadOpens \/ \E z \in Zones, e \in Engines : ReloadAborts(z, e)

Outside ==
    \/ \E sys \in BOOLEAN, develop \in DevModes : Toggle(sys, develop)
    \/ SwapFile \/ Crash
    \/ \E r \in Rooms, z \in Zones \cup {None} : MoveRoom(r, z)

Next ==
    \/ \E t \in Tickers : TaskStep(t) \/ \E z \in Zones : TickBegin(t, z)
    \/ ToggleStep \/ SyncBegins \/ SyncStep \/ ReloadStep \/ Outside

Spec == Init /\ [][Next]_vars

(* The main tick comes every 60 s and each coroutine runs on; the engines'  *)
(* locks are served in the order of the requests, hence strong fairness    *)
(* for those who wait for one.                                             *)
Fairness ==
    /\ \A t \in Tickers : WF_vars(TaskStep(t))
    /\ \A z \in Zones : SF_vars(\E t \in Tickers : TickBegin(t, z))
    /\ SF_vars(SyncBegins) /\ SF_vars(SyncStep)
    /\ SF_vars(ToggleStep) /\ SF_vars(ReloadStep)
FairSpec == Spec /\ Fairness

-----------------------------------------------------------------------------
(* Properties *)

(* The table is a ledger: at any moment at most one cycle of a zone is not *)
(* over, and a cycle that is over stays so.                                *)
Ledger == INSTANCE ZoneLedger WITH
    Cycles  <- Logs,
    current <- [z \in Zones |-> IF OpenLogs(z) = {} THEN None ELSE CHOOSE l \in OpenLogs(z) : TRUE],
    past    <- {l \in Logs : row[l].st = "over"}
KeepsLedger == Ledger!LedgerSpec

Settled     == toggle = NoToggle /\ sync = NoSync /\ reload = NoReload /\ ~closed
                 /\ \A e \in Engines : Free(e)

(* Without failures every open log is that of the cycle its zone's engine  *)
(* runs: nothing is shown as active for ever, and a restart resumes what   *)
(* was really going on.  A zone that lost its rooms before a crash is the  *)
(* exception: no engine is ever built for it.                              *)
NoOrphanLog ==
    Settled /\ used["faults"] = 0 =>
        \A z \in Zones : OpenLogs(z) # {} =>
            IF pub[z] = None THEN used["crashes"] > 0
            ELSE eng[pub[z]].running /\ OpenLogs(z) = {eng[pub[z]].log}

(* docs/system-modes.md:21: flipping a mode "force-aborts any in-flight    *)
(* cycle first (vents restored, setpoint parked)".  Without failures, a    *)
(* thermostat stands at the setpoint of a cycle only while an engine runs  *)
(* one.                                                                    *)
DrivenIsSupervised ==
    Settled /\ used["faults"] + used["crashes"] = 0 =>
        \A z \in Zones : driven[z] => pub[z] # None /\ eng[pub[z]].running

(* A toggle that comes to its end over the zones it began with has left no *)
(* cycle of before it: no log, even if one step failed, and no engine that *)
(* still runs one, if none did.                                            *)
Finished == toggle.pc = "net" /\ toggle.seen = Published /\ toggle.fleet = Published
CleanSlate ==
    Finished => \A z \in Published :
        /\ used["faults"] <= 1 => OpenLogs(z) \cap toggle.old = {}
        /\ used["faults"] = 0 => ~(eng[pub[z]].running /\ eng[pub[z]].log \in toggle.old)

(* An engine that is taken out while ticks are in flight does not come to  *)
(* life again: without failures and restores, every engine that runs a     *)
(* cycle is one the scheduler still ticks, aborts and shows                *)
(* (scheduler.py:717, the thermostat's last room was removed: "otherwise   *)
(* the HA thermostat keeps the engine's overshoot setpoint").              *)
RemovedStaysDown ==
    Settled /\ used["faults"] = 0 /\ used["restores"] = 0 =>
        \A e \in Engines : eng[e].running => \E z \in Zones : pub[z] = e

(* Whatever toggles, restores, restarts and moves of rooms come between, a *)
(* zone that has rooms gets an engine, one that has none loses it, and an  *)
(* open log of a zone that has rooms is adopted by an engine or closed     *)
(* (scheduler.py:230: "open cycles INSIDE the backup were never adopted"). *)
EnginesFollowStore ==
    \A z \in Zones :
        /\ RoomsOf(z) # {} ~> (pub[z] # None \/ RoomsOf(z) = {})
        /\ RoomsOf(z) = {} ~> (pub[z] = None \/ RoomsOf(z) # {})
        /\ \A l \in Logs :
             (l \in OpenLogs(z) /\ RoomsOf(z) # {})
                 ~> (l \notin OpenLogs(z) \/ RoomsOf(z) = {}
                       \/ \E e \in Engines : eng[e].running /\ eng[e].log = l)

(* With the system off, the tick ends the cycle of every zone: nothing     *)
(* keeps one alive, a restart or a restored backup with its own flag and   *)
(* open cycle included.                                                    *)
DisabledStops ==
    \A z \in Zones : ~Enabled ~> (Enabled \/ pub[z] = None \/ ~eng[pub[z]].running)

-----------------------------------------------------------------------------
(* What a comment says and the code does not keep: TLC refutes this one    *)
(* with one zone, one ticker and one restore, and no run checks it.        *)

(* scheduler.py:226: "Engines are torn down BEFORE the swap and rebuilt    *)
(* from scratch after it (#430)".  Then, once the zones have their engines *)
(* again, one that runs a cycle is one the scheduler ticks, and its log is *)
(* in the database in place.  But a tick in flight keeps its engine, fails *)
(* on the closed connection, and tries again on the restored database.     *)
Rebuilt == \A z \in Zones : RoomsOf(z) # {} => pub[z] # None
TornDownStaysDown ==
    Settled /\ Rebuilt /\ used["faults"] = 0 => \A e \in Engines : eng[e].running =>
                 (\E z \in Zones : pub[z] = e) /\ eng[e].file = file
=============================================================================
