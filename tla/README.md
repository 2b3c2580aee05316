# A verification project for Plenum (smart thermostat with vents)

Plenum is a Home Assistant add-on. It conditions rooms rather than houses: each
thermostat is a *zone* of rooms with motorised register vents, a zone runs a
*cycle* when some of its rooms call for heat or cold, the vents of the rooms
that are served are open and the others are closed, and the cycle ends when
every room has reached its target. The modules here are TLA+ models of that
program, with the TLC configurations that check them and the theorems about
them that TLAPS proves. All paths below are relative to `smart_vent/backend/`
unless they start with `docs/`.

    tlc -config engine_fault.cfg MCCycleEngine     # one of the runs
    tlapm CycleEngine_proofs.tla                   # one of the proof modules

## 1. Inventory

### The parts, their state and how they meet

| Part | Source | State it keeps | Talks to | Module |
|---|---|---|---|---|
| Scheduler | `scheduler.py` | the engine of each thermostat, system / dev / vacation flags, the database connection | ticks every engine every 60 s (concurrently, one task each), builds and removes engines, aborts them on mode changes and restores | `Scheduler`, `ZoneLedger` |
| Cycle engine | `engine/cycle_engine.py` | `_state`, `_cycle_log`, `_active_rooms`, `_room_vents`, `_room_cycle_states`, overflow rooms, lockout stamps, the last valid ambient; a lock per engine | room manager, vent controller, client, database | `CycleEngine`, `Envelope` |
| Vent controller | `engine/vent_controller.py` | none; judges by the client's cache | client | `VentController` |
| Home Assistant client | `ha_client.py` | connection, message ids, `_pending`, state cache, listeners | Home Assistant over one WebSocket and REST | `HAClient` |
| Room manager | `engine/room_manager.py` | none of its own: schedules, holds, holdovers and suppressions are rows | database, client's cache | `Rooms` |
| Schedule rules, time zones | `schedule_rules.py`, `tz.py` | none | API, room manager | `Rooms` |
| MQTT bridge | `mqtt/` | what it published, what the broker had, the wake | broker, HTTP API | `MqttBridge` |
| HTTP API, WebSocket | `api/` | none | database, scheduler | the routes that race: `Rooms`, `MqttBridge`, `Scheduler` |
| Database, models | `db.py`, `models.py` | SQLite: configuration, `cycle_logs`, `room_cycle_states`, history | everyone | variables of the others |
| Eco mode | `eco.py` | hysteresis per room | engine | — |
| MCP server | `mcp_*.py`, `mcp_tools/` | none | HTTP API | — |
| Authentication | `auth.py`, `oidc.py`, `session.py`, `scopes.py` | sessions, login attempts | API | — |
| Support, frontend | `units.py`, `event_logger.py`, `demo_seed.py`, `main.py`, `frontend/` | none that matters here | | — |

A tick goes down: scheduler → `CycleEngine.tick` (takes the engine's lock) →
expiries, `get_active_rooms` → start / update / monitor / terminate → vent
controller → client → Home Assistant. State comes back up only through the
client's cache, which a `state_changed` subscription feeds, and through the
database, which the engine reads back after a restart (`restore_from_db`).
The API, the MQTT bridge (through the API) and the presence events write the
rows that a tick reads, without the engine's lock.

### What is hard, and what makes each part correct

* **Cycle engine.** A handler is a long series of awaits; each is a point where
  a service call or a write can fail, where an exception can unwind the tick
  and where the add-on can be killed. Everything but the lock has to survive
  that: the in-memory maps, three tables and the vents must agree again later.
  Correct means: a cycle ends only when every room is accounted for; it does
  end, at the latest by its timeout; served rooms get air; the airflow floor
  holds; the hold does not shut the rooms it holds; a restart resumes what was
  going on.
* **Its envelope.** Nobody is at home: the vacation hold, safety cycles, the
  ambient backstop and the reconciliation all command the thermostat, on
  readings that may jump or vanish. Correct means: whoever stops the
  compressor, it rests; recovery goes past the bound that triggered it.
* **Vent controller.** It decides on cached readings. Correct means: no close
  goes below the floor, a relative command (`toggle`) does not do the opposite
  of what was meant, one bad vent does not stop the others.
* **Client.** Many coroutines share one socket that comes and goes. Correct
  means: an answer reaches the caller it is for, no caller waits for ever, the
  cache is a replay of what Home Assistant said, no peer can hang the
  connection loop.
* **Scheduler.** Ticks, mode toggles, engine synchronisation and a database
  restore interleave; some touch a zone's rows without the engine's lock.
  Correct means: one open log per zone and it is the engine's; a toggle leaves
  nothing running; the engines follow the rooms.
* **Rooms.** Schedules, holds and presence are rows with expiries that the
  routes, a sweep, events, a refresh and every engine's tick write. Correct
  means: blocks never compete, nothing ends early, nothing lives for ever, and
  a person who stays is served.
* **MQTT bridge.** A mirror over a broker that forgets, replays and echoes.
  Correct means: no edit is lost, no entity of a living room is deleted, no old
  command is run, and the topics converge.

`PROJECT.json` lists the hazards at their lines, with the properties that would
catch each, or the reason why none does.

## 2. Modules

| Module | What | Instances | Proofs |
|---|---|---|---|
| `CycleEngine` | one zone's engine, its rows, its vents | `MCCycleEngine` | `CycleEngine_proofs` |
| `Envelope` | the temperature envelope of a zone nobody asks anything of | `MCEnvelope` | `Envelope_proofs` |
| `HAClient` | the client, the socket and Home Assistant's side of it | under `VentController` | `HAClient_proofs` |
| `VentController` | the loops over vents, EXTENDS `HAClient` | `MCVentController` | `VentController_proofs` |
| `ZoneLedger` | abstract: what the table of cycles promises | through `Scheduler` | `ZoneLedger_proofs` |
| `Scheduler` | several engines over one database; implements `ZoneLedger` | `MCScheduler` | `Scheduler_proofs` |
| `Rooms` | schedule blocks, holds, presence and who writes them | `MCRooms` | `Rooms_proofs` |
| `MqttBridge` | the bridge, the broker and the API behind it | `MCMqttBridge` | `MqttBridge_proofs` |

A definition whose comment starts with "Mutant of" is the definition after it
as a plausible bug would leave it. `PROJECT.json` pairs each property with the
mutant that breaks it, so that no property holds whatever the code does.

### CycleEngine

The engine's lock allows one handler at a time, so a state has one program
counter, `pc`, and the handler's locals. `pc = "rest"` means that nobody holds
the lock. Each action is the code between two points where something can come
between: an exception, a crash, or a change of the house.

| `pc` | Code | Actions |
|---|---|---|
| `rest` | `_do_tick` up to its branch | `TickAborts`, `TickStaysIdle`, `TickMonitors`, `Start`, `StartFails`, `Update` |
| `update`, `reassert`, `sweep` | `_start_or_update_cycle`, `_join_room_to_cycle`, `_close_idle_room_vents` | `Join`, `Leave`, `Retarget`, `Reassert`, `Sweep`, `SweepEnds` |
| `release` | `_release_min_runtime_hold`, `_close_overflow_rooms` | `ReleaseHold` inside its callers, `CloseOverflow` |
| `monitor` | `check_max_closed_duration` | `Watchdog` |
| `holdcheck`, `holding` | the hold's branch of `_monitor_rooms`, `_enter_min_runtime_hold`, `_apply_overflow_during_hold` | `HoldCheck`, `ReopenForHold`, `ApplyOverflow` |
| `check` | the loop of `_monitor_rooms` | `CheckRoom` (`Repair`, `Overlook`, `StayServed`, `ReopenDrifted`, `CloseServed`, `Defer`), `Decide` |
| `terminate`, `termFinish`, `opening` | `_terminate_cycle` | `Terminate`, `TermFinish`, `OpenZone` |
| `abort`, `abortOpen` | `_abort_cycle` | `Abort`, `AbortOpen` |
| `timeout` | the end of `_do_tick` | `Timeout` |
| `reconcile`, `reconciling` | `_maybe_reconcile`, `_reconcile_state` | `Reconcile`, `SkipReconcile`, `ReconcileVent`, `ReconcileEnds` |
| `boot` | `restore_from_db` and the scheduler's net around it | `BootCold`, `BootDiscards`, `BootResumes`, `BootFails` |
| any | an exception to `Scheduler._tick_engine`; the process dies | `Raise`, `Crash` |
| any | the house | `MoveVent`, `GrowOld` |

State: `state`, `hasLog`, `hold`, `active`, `overflow` are the engine's fields;
`rcs[r]` abstracts `_room_cycle_states` to absent, open (`vent_closed_at` is
None) or closed; `dbOpen`, `dbHold`, `dbRooms`, `dbRcs` are the rows that a
restart reads back, `overflow` / `overflowEnded` standing for rows of role
overflow without and with `temp_at_end`; `vent` is the cover as Home Assistant
reports it.

Abstractions, and why they are safe for the properties: a temperature is what
the engine makes of it (`Readings`) and every step that reads one chooses
afresh; the clock is `age` (under the minimum runtime, over it, over the
timeout); which rooms are active or overflow candidates and which vents the
watchdog finds closed too long are chosen freely; whether the zone reconciles
(`reconciliation_interval_min`, 0 and so off by default, `models.py:236`) is the
constant `Reconciles`; covers follow at once or not
at all (that they follow *later* is the subject of `VentController`); setpoints
and the mode of the thermostat are the subject of `Envelope`.

### Envelope

The other half of `_do_tick`, for a zone with one room and no demand. An action
is a whole tick (`TickHolds`, `TickReverts`, `TickRests`, `TickBreached`,
`TickServes`, `TickUnavailable`), since what matters is which commands reach the
thermostat, `th`, in which order and which of them fails (`Set`, `Tries`); its
end may be the cycle's timeout (`TimesOut`).
Between ticks a minute passes and somebody may touch the thermostat, a setting
or the vacation switch, or restart the add-on.

`Hold` is `_apply_vacation_hold`: `HoldRange`, `HoldBlind` (no valid reading:
off), `HoldHeat` and `HoldCool` (beyond a bound, toward one deadband inside),
`HoldParked` (in the band: parked in the direction of the last cycle).
`Backstop` is `_enforce_safety_setpoint`, `Breach` with `sustain` is
`_add_safety_rooms`, `Vote` / `Inferred` / `Opposed` the inference of the mode
for that room (its source is "safety", so neither the ambient suppression nor the
hard cap that goes with it applies: a latched room at the bound votes "off", and an
idle zone only parks, `Reset`), `Accepts` the plausibility check of the ambient reading,
`LockedOut` the off-time lockout over its two stamps, of which `endAge` is in the
database and `holdAge` is not. Temperatures are whole degrees, with `Wild` for an
implausible reading; clocks are minutes, capped where they stop to matter. The
arithmetic of a setpoint keeps its clamps, the overshoot (0 included, for which the
hold moves its park one degree off the reading, `Cleared`) and leaves out units,
offsets and a deadband of the room's own. A `Restart` resumes the cycle, or discards
and parks one that the thermostat's reading contradicts (`Contradicted`). `still` (history) is how long ago the engine stopped the compressor
and with what; it leaves out range mode, whose compressor is the equipment's, and
the stops of a cooling that somebody began by hand.

### HAClient and VentController

`conn` is how far `_connect` has got: down, handshake, fetching, subscribing, up
(`_connected` is set). `pending` and `msgId` are the client's fields; `call[c]`
is the caller's stack: writing a message, or waiting for its future.
Home Assistant is external: `pos` is where covers stand, `seen` what it
believes, `sent` the calls it has received, `wire` its messages in order.

* A call goes `Call` (id and future), `Written` or `SendFails` (a failed or slow
  write may still have gone out), then `ReadReply`, `CallTimesOut` or `Drop`.
  After a timeout the entry in `_pending` stays until the late answer pops it.
* `Drop` is the `finally` of `_connect`: it fails every future. Home Assistant
  may still carry out what it has received but can no longer answer.
* `Fetch` fails without consequence but a stale cache. `ConnectFails` is an
  error or timeout of the handshake or of the subscription.
* `missed` (history) has the covers that changed where no event could tell the
  client: between fetch and subscription, or before a fetch that failed.

In `VentController` a caller is a zone, since the engine's lock lets it do one
thing at a time. `job[c]` is the room operation in progress and `intent` (history)
what each call was meant to do. `OpenRoomVents` and `CloseRoomVents` judge the
set by the cache and start the loop; `Command` is one turn of it (skip rule,
call, contained refusal), in any order of the vents. A positioned vent can stand
part open: `IsOpen` and `IsFullyOpen` differ there as in the code.
`close_all_zone_vents` and `force_close_vents` run the same loop without the
floor; since `FloorKept` is about the floor's user they are not started here.
`Prompt`: Home Assistant reports a move before it answers the call that caused
it. `Quiet`: no call fails or is given up and only the engine moves vents.

### Scheduler and ZoneLedger

Each coroutine has its place: `task[t]` a tick from `_tick_engine` through the
writes of a starting cycle (`CloseOwn`, `CloseCross`, `InsertLog`, `JoinRooms`),
`toggle` the two loops of `_reset_and_reevaluate`, `sync` `_sync_engines`,
`reload` the restore of a backup. An engine is built by `Build`: the newest open log
is resumed (`Resume`), or closed and the thermostat parked when its reading
contradicts the cycle, or closed after a restore that failed (`Discard`). `lock` is the engine's lock, held across
awaits; `ToggleCloses` and `MoveRoom` do not take it. A dictionary that changes its
size under a toggle's loop raises (`ToggleBreaks`). A task keeps the engine and
the connection it began with, so that a torn-down engine or a closed file can
still be at work. A cycle is its log, its engine and whether the thermostat is
`driven`.

`ZoneLedger` is what the readers of `cycle_logs` rely on: a zone has at most one
cycle that is not over, opened under a fresh id and over once. `KeepsLedger` is
the refinement: the open log of a zone is `current`, those that are over are
`past`. `LedgerNeverReopens` proves of every such ledger that no ended cycle is
open again.

### Rooms

One room. Time is a week of slots by the local wall clock, one slot per period of the
60 s jobs; the conversion from UTC (`tz.py`) is left out, and with it the hours that
daylight saving skips or repeats. `Clock`
moves when both jobs have run in the slot (`due`). Everything the code reads and
then writes is split there: a route checks (`CreateSchedule`, `UpdateSchedule`,
`CopySchedule`) and saves (`EditSaves`); the sweep reads rows (`SweepReads`) and
writes each back whole (`SweepSaves`, `SweepFails`); a presence event checks the
suppression and waits for the engine's lock (`EventChecks`, `EventSaves`); the
refresh reads the sensor, checks, re-arms or saves; a clear deletes, then
suppresses; each engine's tick drops what it read as expired (`DropHoldover`
unconditionally, `DeleteHold` conditionally). `ActiveAt` is the matching by times
of day, `Intervals` / `Overlap` the arithmetic the routes check with, `UntilEnd`,
`NextStart` and `SinceEnd` the walks through dates behind the room's card.

### MqttBridge

A session (`Connect`, `EndSession`, `Drop`) with its two tasks. The refresher:
`Refresh` consumes the wake, `ReadLists` and `ReadDetails` read the world in two
steps (each read may fail; a room deleted in between is a failed read),
`PublishConfigs` and `PublishStates` publish what changed, `Retire` blanks what is
gone, `Sweep` and `Republish` reconcile with what the broker replayed, once per
session. The reader: `ReadReplay`, `TakeOrder` (decode, resolve in a snapshot),
`Dispatch` (the REST handler), `Answer`. The broker's side: retained payloads
(`kept`, an empty one is forgotten), replay on subscription, live messages, a
Last Will that may come late (`ghost`), a restart without its data. `retained` is
what the session believes. Two controls of a room stand for the registry's (one
inherited from the thermostat, one set only by an override) and one switch for
the system's; they keep what the properties tell apart: nullable, inherited,
announced by an event or not. Commands set or clear; the switch does not look at
the verb and takes a clear for its payload, as `_build_special` does.

## 3. Runs

| Run | Properties | Shows |
|---|---|---|
| `engine_fault` | `TypeOK`, `CycleHasLog`, `VentsMatchRecords`, `RowsMirrorEngine`, `CompletionIsEarned`, `UnbrokenHoldKeepsServedOpen`, `FloorGuardsCloses` | one fault or one crash anywhere: until it falls, vents, records and rows agree whenever the lock is free; after it, the others still hold |
| `live_vents` | `IdleZoneReopens`, `ServedRoomGetsAir`, `TimeoutStopsRunning` | in a zone that reconciles, a lost command or a vent moved by hand is put right; in any zone, a cycle past its timeout is stopped |
| `vents_live` | `VentTypeOK`, `SuccessWasApplied`, `WaitersAreTracked`, `CacheIsReplay`, `JobsEnd` | calls and cache over a connection that drops anywhere; no zone and no attempt to connect waits for ever, whatever the peer does |
| `vents_quiet` | `FloorKept`, `CloseNeverOpens` | the judgement by cache is right in a quiet, prompt house |
| `scheduler` | `TypeOK`, `RemovedStaysDown`, `NoOrphanLog`, `DrivenIsSupervised`, `CleanSlate`, `KeepsLedger` | two zones, two ticks in flight, a toggle, a moving room, one fault or crash; the refinement of `ZoneLedger` |
| `scheduler_live` | `EnginesFollowStore`, `DisabledStops` | engines come to follow rooms, restored backups and restarts; a disabled system comes to rest |
| `envelope` | `TypeOK`, `OffTimeKeptUnbroken`, `CycleRecovers` | the compressor rests its off-time whichever part of the engine stopped it; the room of a safety cycle is latched until it has its target or the cycle its timeout |
| `mqtt` | `TypeOK`, `QuietIsMirrored`, `EntitiesAreKept`, `StaleCommandsSetNothing`, `MirrorConverges` | the mirror under edits, commands, failed reads, lost connections and a broker that forgets |
| `rooms` | `TypeOK`, `OneBlockAtATime`, `StatusTellsTheClock`, `NothingEndsEarly`, `OccupiedStaysServed`, `ClearIsForTheVisit`, `ExpiredIsParked` | blocks, holds and presence under all their writers |

Three runs show where the code does something else than its documentation or its
comments say; each checks the sentence it quotes:

| Run | Property | The code |
|---|---|---|
| `vacation_recovery` | `HoldRecovers` | the hold parks as soon as the reading is back at the bound, a deadband before the target it commanded |
| `dev_toggle` | `DrivenIsSupervised` | the developer mode intercepts the commands of the abort that is to park the setpoint |
| `mqtt_partial` | `FailedReadKeepsState` | a failed read of the thermostats blanks every inherited control |

### Other departures seen while modelling

TLC refutes these too, on the instances named; they are kept as definitions at the
end of `CycleEngine` and `Scheduler`, or noted here, and no run checks them.

* `RunningZoneKeepsFloor` (`docs/safety.md:92`): overflow rooms are closed
  without asking the floor (`engine/cycle_engine.py:5720`), and the last-vent
  bypass (1989) may be followed, in the same pass, by a room that keeps the cycle
  running. `MCCycleEngine`, without any fault.
* `HoldKeepsServedOpen` (`docs/safety.md:28`): after a restart a room can be
  restored both as active and as overflow (4044); the next hold shuts it.
  Two failures in a row do it too, without any restart: after the first a room can
  be active and in overflow at once, still without a record.
  `UnbrokenHoldKeepsServedOpen`, with at most one failure and no restart, is what
  remains true, and is what is proved.
* `TimeoutEndsCycle` (`docs/cycle-engine.md:30`): an exception in the termination
  leaves TERMINATING, which no timeout looks at. `TimeoutStopsRunning` remains.
* With `Prompt = FALSE`, `FloorKept` and `CloseNeverOpens` fail: the floor counts
  vents that are closing as open, and a second close of a toggle opens it.
* `TornDownStaysDown` (`scheduler.py:226`, "Engines are torn down BEFORE the swap and
  rebuilt from scratch after it"): a tick in flight while a backup is restored keeps
  its engine, fails on the closed connection and tries again on the new one
  (`scheduler.py:968`, `TickRaises`); the torn-down engine starts a cycle on the restored
  database, beside the one that was rebuilt, and nobody supervises it. It takes
  one zone, one tick and one restore, without any failure; the definition is at the
  end of `Scheduler`. `RemovedStaysDown` is what remains true, and is what is proved.
* `Scheduler`, with more moves of rooms than the run has: a tick in flight on an
  engine that was removed can still start a cycle after its zone lost and regained
  its rooms. A running engine can lose its row to the safety net of a toggle or to
  the start of a zone that took over a room; it runs on to its own end, and the
  ledger allows it. And a toggle whose dictionary
  loses one zone and gains another in the middle of its loop does not raise and
  may pass a zone over. If two steps fail, one in an engine and one in the safety
  net, a toggle leaves an open row: `CleanSlate` speaks of one failure at most.
* `Envelope`: after a restart the rest that the hold began is forgotten (hence
  the exception in `OffTimeKeptUnbroken`), and the idle reconciliation that
  corrects a cooling begun by hand stops the compressor without starting the clock.
  In a vacation the minimum runtime (`engine/cycle_engine.py:711`) drops the latch
  of the room at its target and keeps the cycle running; if the room drifts back
  before that time is over, the cycle ends short of the target. It takes a minimum
  runtime of three minutes to see it, so `MinRun` is 3, and `CycleRecovers` is about
  the latch. With `overshoot_delta = 0` every part but the hold parks exactly at the
  reading, where the thermostat may start by itself: `OffTimeKeptUnbroken` takes an
  overshoot. With bounds closer together than the deadband the vote is silent beyond
  a bound: `CycleRecovers` takes bounds at least that far apart.
* Without reconciliation, which is the default, a vent that missed its opening or
  was moved by hand stays as it is until the next cycle, or the next change of what
  the cycle serves: `IdleZoneReopens` and `ServedRoomGetsAir` are about zones that
  reconcile.
* `MqttBridge`: blanking a retained command comes back as a live message and a
  nullable control is cleared by it; a late Last Will overwrites "online"; a sweep
  that runs before the replay was read leaves topics (`tardy`); writes of
  schedules announce nothing and wait for the timer.
* `Rooms`: a clear that races a refresh or event leaves a live holdover until it
  runs out; another zone's `expire_holdovers` may delete a holdover just renewed
  (the next refresh mends it); the sweep's whole-row write undoes an edit and
  revives a deleted block, disabled; two requests at once can both pass the
  overlap check (the model has one at a time); a block that runs all week is
  never parked.

### Bounds, and why they are enough

* **Engine.** Three one-vent rooms (`OneVentEach`) are the least with a served
  room, a room that is done and one outside the cycle; they are interchangeable,
  so the run without liveness uses symmetry. `OneAndTwo` adds a room with several
  vents, whose vents can disagree. `Required = 2` puts the floor where both a
  deferred close and the bypass happen. One fault or one crash (`OneMishap`): the
  properties are about the recovery from a mishap. The theorems have no such bound.
* **Vents.** Two calls are enough for an answer to be taken for another's; three
  calls on three vents, one of each method, for the floor. Drops, reconnections
  and timeouts are unbounded. `CacheIsReplay` is about each cover by itself.
* **Scheduler.** Two engines and two tickers are what the steps that race need:
  a tick against a tick of the other zone, against a toggle and against a
  synchronisation. Two logs (`MaxLogs`), so that an earlier and a later one exist; one toggle,
  one move, one mishap. Restores are in `scheduler_live`, with one zone.
* **Envelope.** `Degrees` reaches one degree beyond both bounds; deadband and
  overshoot of one degree make trigger, target and park differ; the off-time is
  two minutes and the minimum runtime and the timeout three, so that a cycle may be held, end or time out. One
  mishap (`MaxMishaps`) of five kinds; the theorems have no such bound.
  `vacation_recovery` has no mishap, but a thermostat that may be found in `heat_cool`.
* **MQTT.** One room at the start and a second that may come or that an earlier
  run left on the broker, two names, four commands, at most two events of the
  environment of which one goes wrong (`FewEvents`).
* **Rooms.** Three days of three slots: yesterday, today and tomorrow differ, and
  so do morning, middle and evening. Three shapes: every day, overnight, whole
  day across the week's end; two blocks. A holdover of two slots outlives one
  period. `Budgets` gives each history edits, touches or one of each.

Runs whose actions are used up come to a stop and do not check for deadlock.

### Fairness

* `CycleEngine!FairSpec`: weak fairness of `Tick` (APScheduler fires every 60 s
  for ever), of `Step` (every await of a handler returns: `JobsEnd` of the vent
  controller), and strong fairness of `Reconcile`, whose guard is that the zone
  reconciles: when ticks come by it for ever, the interval is over at some of them.
  With an interval of 0 it is never enabled, and the fairness asks nothing. A cycle need not grow old.
* `VentController!VentFairSpec`: weak fairness of the client's own timeouts (write
  5 s, answer 10 s, handshake, subscription, fetch) and of the loop over vents.
  Nothing is asked of Home Assistant or of the network.
* `Scheduler!FairSpec`: every coroutine runs on; the main tick comes for ever; an
  `asyncio.Lock` is first come first served, hence strong fairness for those who
  wait for an engine's lock.
* `MqttBridge!FairSpec`: the event loop runs each of the session, the refresher
  (its timer is a wake that always comes) and the reader; a broker notices a dead
  peer in the end. No fairness for edits, commands, drops.
* `Rooms!FairSpec`: the two jobs run, requests end, the engine's lock is served in
  order (`RefreshSaves`), time passes. Users and sensors owe nothing.

## 4. Proofs

The theorems hold for every number of rooms, vents, callers, messages, blocks,
faults and crashes; they assume only what the named assumptions of the modules
state (`ZoneAssumption`, `ClientAssumption`, `VentAssumption`,
`RoomsAssumption`, `BridgeAssumption`, `StartAssumption`, `SchedulerAssumption`,
`EnvelopeAssumption`): finite sets, bounds that are numbers, `None` apart, and for
the envelope a range of plausible temperatures with both bounds in it. Only the
scheduler's and two of the envelope's have further conditions, given below.

* `TypeCorrect` (`TypeOK` of `CycleEngine`). Inductive as it stands. One step
  per action, over lemmas for the helpers that actions share.
* `LogIsHeld` (`CycleHasLog`). Needs `CycleInv`: the steps of a handler that
  needs a cycle are only reached in one, and the hold is over before its overflow
  rooms are closed.
* `PassIsSound` (`CompletionIsEarned`). The property speaks of the end of a
  pass; `PassInv` says it of every room the pass has left behind.
* `FloorIsGuarded` (`FloorGuardsCloses`). Opening only adds open vents; a close
  that `FloorAllows` leaves at least `Required` of them by the cardinality of
  the difference (`AllowedCloseKeepsFloor`); a step per action shows that no
  other close exists than the two exceptions named in the property.
* `VentsAgree`, `RowsAgree` (`VentsMatchRecords`, `RowsMirrorEngine`). Both are about
  the moments when the lock is free; `CalmInv` says what holds inside the handlers
  until the first fault or crash: which rooms may be in which set at each `pc`
  (`CalmControl`), what of it the rows already say (`CalmRows`) and which vents
  already stand as recorded (`CalmVents`). That no fault has happened before a step
  follows from none having happened after it (`Tally`).
* `HoldKeepsAir` (`UnbrokenHoldKeepsServedOpen`). `WholeHold` weakens `CalmControl` by
  what one fault can do: a room may be active and in overflow, but then it has no
  record, and the hold closes only by overflow. Before the fault `CalmInv` applies.
* `ClientTypeCorrect`, `SuccessIsReal` (`SuccessWasApplied`, over `AnswersInv`: the
  answers on the wire that say yes are of calls carried out), `NobodyIsForgotten`
  (`WaitersAreTracked`, over `IdsInv`: an id in use is not above the counter).
* `CacheIsCurrent` (`CacheIsReplay`). `CHOOSE` of the last event on the wire is
  replaced by `UpToDate`: the cache is right and the wire silent about a cover, or
  its last news is right. `ReplayInv` adds that nothing is on the wire before the
  subscription; reading shortens the wire by one (`ReadShifts`).
* `VentsUseClient` (`VentSpec => Spec`). Every step of the vent controller is a
  step of the client or none, hence the client's theorems hold under it.
  `VentTypeCorrect` builds on it.
* `LedgerNeverReopens` (`ZoneLedger`). Inductive with `None \notin past`.
* `RoomsTypeCorrect` (`TypeOK` of `Rooms`). `LessTyped` for the expiries.
* `BlocksNeverCompete` (`OneBlockAtATime`). The property speaks of times of day,
  the code keeps intervals apart: `ActiveIsCovered` shows that a block active at a
  moment covers it with one of its intervals (three cases: within a day, before
  and after midnight, where `NextOfPrevious` goes round the week), so two active
  at once overlap. The invariant `RoomsInv` has the blocks in the database apart
  *and* the request in progress fitting what is enabled (`EditFits`), which the
  sweep in between cannot spoil because it only switches blocks off.
* `EndsAreMeant` (`NothingEndsEarly`). Needs `SweepAtHand`: the sweep ends in the
  slot in which it read, so that what it holds is not running.
* `CardIsRight` (`StatusTellsTheClock`). The card walks through dates and times of
  day, the clock counts slots of a week: `ClockOf`, `InstantOf` and `RoundTheWeek` are
  the arithmetic between them, over quotient and remainder (`Division`); `MatchRuns`
  says that a block matches at every moment between its start and its end.
  `EndIsTold`, `StartIsTold` and `LastEndIsTold` are the three walks, each with a first
  or last moment, which exists by `LeastNumber` (every set of naturals that is not
  empty has a least element, from the cardinality of what is below it): the form
  that induction takes here.
* `BridgeTypeCorrect` (`TypeOK` of `MqttBridge`). Needs that the locals of a
  synchronisation and of the reader are typed at every await; `SetToSeq` of the
  blankings is typed because they are finitely many (`InARow`, `BlankingsFinite`).
* `RoomsKeepTheirEntities` (`EntitiesAreKept`). An entity is deleted by the three
  steps that retire, sweep or republish. `KeptInv` carries from the read of the
  rooms to those steps: an identifier with a config was a room's
  (`ConfigsHaveRooms`); a synchronisation that read the rooms knows every room
  that exists and that it could have seen (`SyncKnows`); configs are published
  before anything is retired, and nothing is after a failed read (`SyncOrder`).
* `OldCommandsSetNothing` (`StaleCommandsSetNothing`). `NothingToSet`: while nobody
  has published, all that is on its way to the reader has an empty payload.
* `NoEditIsLost` (`QuietIsMirrored`). `KeptAgrees`: what a session knows it has
  published is on the broker, but for a config that is being moved. `NewsIsTaken`:
  unless it is woken, a synchronisation past its reads works on the database of
  now, and what it has published so far says so. Every edit either wakes the
  refresher or changes nothing that is wanted; the two together are `MirrorInv`.
* `EnvelopeTypeCorrect` (`TypeOK` of `Envelope`). Every command keeps the thermostat
  typed (`Aborting`, `Backstopping`, `Tidying`, `Resetting`, `Reasserting`, `Obeying`);
  the targets are between the bounds (`Degrees`), the clamp keeps a cycle there.
* `OffTimeKept` (`OffTimeKeptUnbroken`). `Counted`: every stop not yet rested from is
  on one of the two clocks, or is what a heating cycle stopped that has not ended
  yet; and a cooling cycle runs only when the compressor may. It needs that an order of the
  hold which stops the compressor is stamped (`StopIsStamped`: the one order that is
  not keeps cooling), and that parking starts nothing (`Gentle`), for which
  the theorem takes `Overshoot > 0`. So the two stamps are enough (`LockoutCounts`).
* `LatchHolds` (`CycleRecovers`). `Latched`: a running cycle is of the direction in
  which its room is latched, and outside the vacation only a restart drops the
  latch. The theorem takes `Deadband <= MaxSp - MinSp`. `VoteFollowsBreach` and `NoBreachIsTarget` are the arithmetic of the bounds.
* `SchedulerTypeCorrect` (`TypeOK` of `Scheduler`, which includes that a lock and
  its holder agree, so that two ticks never hold one engine). The least unused
  log exists by well-foundedness (`LeastExists`, `LastExists`).
* `LedgerKept` (`KeepsLedger`): the scheduler implements `ZoneLedger`. `CoreInv` says who
  is in charge: a published engine is its zone's (`Seats`), the zone of an engine
  that was taken out but is still being ticked has no room (`Emptied`), so that tick
  starts nothing, and only published engines are locked (`Locked`). `LogsSound` adds
  that between the two closes of a start and its insert the zone has no open row, so
  an insert makes it one. Then every step either closes rows of one set (`Closes`),
  or inserts into a zone without any (`InsertEffect`), or leaves the ledger alone.
* `NothingOrphaned`, `NoGhostEngine` (`NoOrphanLog`, `RemovedStaysDown`). `Accounts`:
  every open row is that of the cycle which the zone's engine runs, the published
  one or the one that is being built, and an engine that runs is one of these.
* `DrivenIsWatched` (`DrivenIsSupervised`). `WatchInv` adds the setpoint to `Accounts`:
  what ends a cycle parks the thermostat when nothing fails.
* `ToggleCleans` (`CleanSlate`). `Slate`: a zone the loop is done with, or that lost its
  engine meanwhile, has no open row of before the toggle, and none of those opens again
  (`OldStaysOver`: new rows have fresh ids). `Swept`: an engine is taken out only when
  its zone has no open row. One failure is made good by the safety net.

The five results about the scheduler take two conditions, both on what comes from
outside, and each excludes a departure listed above: no restore (`MaxRestores = 0`),
and `NoRevival`, by which a zone that lost its rooms gets one again only after its
former engine is gone and no tick of it is in flight. What a restore does to an engine
that is torn down under a tick is therefore outside of `NoGhostEngine`, which is about
removal: it is the departure `TornDownStaysDown`. Any zone may lose its rooms at any time, and
as often as it likes. `DrivenIsWatched` also has the developer mode off
(`DevModes \subseteq {FALSE}`): `dev_toggle` shows what happens with it. Zones, rooms,
engines, tickers, toggles, faults and crashes are unbounded.

Only model-checked: the liveness properties, which need fairness; `FloorKept` and
`CloseNeverOpens`, which hold in a quiet and prompt house only, where the order of
every message counts; and the scheduler with restores (`scheduler_live`), where
what the five results say is not true of every history.

## 5. Not modelled

* Eco mode: a pure offset per room with hysteresis; `CycleEngine` chooses
  readings against targets freely, which covers any offset.
* The vacation's vent policy, the vote of several rooms on heating or cooling,
  the tiers of overflow candidates, pre-cool windows, the cooling lockout by
  outside temperature: they choose among behaviours that `CycleEngine` and
  `Envelope` already allow.
* `required_open_vents`: its rounding is of floats, which TLC has not; `Required`
  is a constant.
* Metrics, history queries, migrations, the daily purge, demo data: I/O without
  control state. The HTTP handlers that only read, or write one row nobody races.
* The MCP server (stateless wrappers), authentication (does not touch the HVAC),
  the frontend, wiring, tests and packaging.
