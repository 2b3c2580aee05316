------------------------------- MODULE Rooms -------------------------------
(***************************************************************************)
(* What a room asks for (smart_vent/backend/engine/room_manager.py,        *)
(* schedule_rules.py, scheduler.py 864-1044, the schedule, override and    *)
(* presence routes): its schedule blocks, its temporary hold and its       *)
(* presence, and the coroutines that write them.                           *)
(*                                                                         *)
(* Time is a week of Days days of Slots slots by the local wall clock; a   *)
(* slot is one period of the 60 s jobs, which are taken to keep up: the    *)
(* clock moves when both have run and no block is being saved.  The        *)
(* conversion from UTC is left out, and with it the hours that daylight    *)
(* saving skips or repeats.  An instant of expiry is kept as the slots     *)
(* left until then.                                                        *)
(***************************************************************************)
EXTENDS Integers, FiniteSetsExt

CONSTANTS
    Days, Slots,
    Shapes,     \* the days and times a block is given
    Blocks,     \* ids of the room's schedule blocks, 1 to their number
    MaxExpiry,  \* the latest "Auto-disable at", in slots
    Holdover,   \* presence_holdover_hours, in slots: more than a period
    MaxHold,    \* the longest temporary hold, in slots
    Own, Other, \* the engines: the one of the room's zone, another zone's
    None,
    Budgets     \* the edits and the other touches and faults of a history

Times == 0..(Slots - 1)
Span  == Days * Slots
Week  == 0..(Span - 1)

ASSUME RoomsAssumption ==
    /\ {Days, Slots} \subseteq Nat \ {0}
    /\ Shapes \subseteq [days : SUBSET (0..(Days - 1)), start : Times, end : Times]
    /\ {MaxExpiry, MaxHold} \subseteq Nat
    /\ Budgets \subseteq [edits : Nat, touches : Nat]
    /\ Holdover \in Nat \ {0, 1}
    /\ IsFiniteSet(Blocks) /\ Blocks = 1..Cardinality(Blocks)
    /\ Own # Other /\ None \notin Int

VARIABLES
    now,         \* the local wall clock
    due,         \* the jobs that have not yet run in this slot
    block,       \* schedules: shape, enabled, slots to expires_at
    edit,        \* the block a request has checked and not yet saved
    sweep,       \* the rows the expiry sweep has read and means to disable
    on,          \* a presence sensor of the room reads "on"
    holdover,    \* presence_holdover_state: slots to expires_at
    suppressed,  \* presence_suppression
    hold,        \* room_overrides: slots to expires_at
    event,       \* _handle_presence_event in progress
    refresh,     \* _refresh_continuous_presence in progress
    clear,       \* clear_presence_holdover in progress
    tick,        \* where each engine is in the expiries of its tick
    spent        \* edits, and other touches and faults, spent

clock    == <<now, due>>
blocks   == <<block, edit, sweep>>
presence == <<on, holdover, suppressed, event, refresh, clear>>
vars     == <<clock, blocks, presence, hold, tick, spent>>

Engines == {Own, Other}
Expiry  == {None} \cup 0..MaxExpiry
Rows    == [shape : Shapes, enabled : BOOLEAN, exp : Expiry]
Edits   == [id : Blocks, row : Rows]

TypeOK ==
    /\ now \in Week /\ due \subseteq {"refresh", "sweep"}
    /\ block \in [Blocks -> Rows \cup {None}]
    /\ edit \in Edits \cup {None} /\ sweep \subseteq Edits
    /\ on \in BOOLEAN /\ suppressed \in BOOLEAN
    /\ holdover \in {None} \cup 0..Holdover
    /\ hold \in {None} \cup 0..MaxHold
    /\ event \in {"none", "fired", "save"}
    /\ refresh \in {"none", "on", "off", "rearm", "save"}
    /\ clear \in BOOLEAN
    /\ tick \in [Engines -> {"none", "drop", "select", "delete"}]
    /\ spent \in [edits : Nat, touches : Nat]

-----------------------------------------------------------------------------
(* The calendar *)

Day(t)  == (t \div Slots) % Days
Slot(t) == t % Slots

(* Ends on the next day: 21:00 to 07:00, and also 00:00 to 00:00. *)
Overnight(s) == s.end <= s.start

ActiveAt(s, t) ==
    \/ ~Overnight(s) /\ Day(t) \in s.days /\ s.start <= Slot(t) /\ Slot(t) < s.end
    \/ Overnight(s) /\ Day(t) \in s.days /\ s.start <= Slot(t)
    \/ Overnight(s) /\ (Day(t) - 1) % Days \in s.days /\ Slot(t) < s.end

(* Mutant of Intervals: an overnight block loses its morning. *)
IntervalsToMidnight(s) ==
    {<<d, s.start, IF Overnight(s) THEN Slots ELSE s.end>> : d \in s.days}

Intervals(s) ==
    UNION {IF Overnight(s) THEN {<<d, s.start, Slots>>, <<(d + 1) % Days, 0, s.end>>}
                           ELSE {<<d, s.start, s.end>>} : d \in s.days}

Overlap(s, u) ==
    \E i \in Intervals(s), j \in Intervals(u) : i[1] = j[1] /\ i[2] < j[3] /\ j[2] < i[3]

Enabled == {b \in Blocks : block[b] # None /\ block[b].enabled}

(* Only enabled blocks take their slots. *)
Conflicts(b, row) ==
    row.enabled /\ \E c \in Enabled \ {b} : Overlap(row.shape, block[c].shape)

(* An enabled block that the next sweep would switch off. *)
ExpiryInPast(row) == row.enabled /\ row.exp = 0

-----------------------------------------------------------------------------
(* What the room asks for, and what its card says of it *)

Live(left)  == left # None /\ left > 0
Matching(t) == {b \in Enabled : ActiveAt(block[b].shape, t)}

(* _resolve_room, of a room with a temperature for presence. *)
Source ==
    CASE Live(hold)                                -> "override"
      [] ~Live(hold) /\ Matching(now) # {}         -> "schedule"
      [] ~Live(hold) /\ Matching(now) = {} /\ Live(holdover) -> "presence"
      [] OTHER                                     -> "idle"

(* The earliest start wins; of equals, any. *)
Match == CHOOSE b \in Matching(now) :
           \A c \in Matching(now) : block[b].shape.start <= block[c].shape.start

UntilEnd(s) ==
    IF Overnight(s) /\ Slot(now) >= s.start THEN s.end + Slots - Slot(now)
                                           ELSE Max({0, s.end - Slot(now)})

(* Mutant of Ahead: the same weekday of the next week is not looked at. *)
AheadWithinWeek == 0..(Days - 1)

(* Today, and as far as the same weekday next week. *)
Ahead == 0..Days

Soonest(S) == IF S = {} THEN None ELSE Min(S)

NextStart(skip) ==
    Soonest({k \in 1..(Span + Slots) :
               \E b \in Enabled \ skip, d \in Ahead :
                  /\ Day(now + d * Slots) \in block[b].shape.days
                  /\ k = d * Slots + block[b].shape.start - Slot(now)})

SinceEnd ==
    Soonest({k \in 0..(Span + Slots) :
               \E b \in Enabled, d \in Ahead :
                  LET s == block[b].shape
                      ended == (Day(now) - d) % Days
                  IN  /\ (IF Overnight(s) THEN (ended - 1) % Days ELSE ended) \in s.days
                      /\ k = d * Slots + Slot(now) - s.end})

-----------------------------------------------------------------------------
(* Time, and the hands of the house *)

Init ==
    /\ now \in Week /\ due = {"refresh", "sweep"}
    /\ block = [b \in Blocks |-> None] /\ edit = None /\ sweep = {}
    /\ on = FALSE /\ holdover = None /\ suppressed = FALSE /\ hold = None
    /\ event = "none" /\ refresh = "none" /\ clear = FALSE
    /\ tick = [e \in Engines |-> "none"]
    /\ spent = [edits |-> 0, touches |-> 0]

Less(left) == IF left = None THEN None ELSE Max({0, left - 1})

Clock ==
    /\ due = {} /\ edit = None
    /\ now' = (now + 1) % Span /\ due' = {"refresh", "sweep"}
    /\ block' = [b \in Blocks |-> IF block[b] = None THEN None
                                  ELSE [block[b] EXCEPT !.exp = Less(@)]]
    /\ holdover' = Less(holdover) /\ hold' = Less(hold)
    /\ UNCHANGED <<edit, sweep, on, suppressed, event, refresh, clear, tick, spent>>

Spend(k) ==
    /\ spent' = [spent EXCEPT ![k] = @ + 1]
    /\ \E most \in Budgets : spent'.edits <= most.edits /\ spent'.touches <= most.touches

(* A sensor reports; after a lost connection the cache is read afresh and  *)
(* an "on" comes without its event.                                        *)
SensorReports(v) ==
    /\ Spend("touches") /\ event = "none"
    /\ on' = v
    /\ event' \in IF v THEN {"fired", "none"} ELSE {"none"}
    /\ UNCHANGED <<clock, blocks, holdover, suppressed, refresh, clear, hold, tick>>

SetOverride(n) ==
    /\ Spend("touches")
    /\ hold' = n
    /\ UNCHANGED <<clock, blocks, presence, tick>>

ClearOverride ==
    /\ Spend("touches") /\ hold # None
    /\ hold' = None
    /\ UNCHANGED <<clock, blocks, presence, tick>>

(* Clear presence: the holdover goes, then the suppression comes. *)
ClearDeletes ==
    /\ Spend("touches") /\ ~clear
    /\ holdover' = None /\ clear' = TRUE
    /\ UNCHANGED <<clock, blocks, on, suppressed, event, refresh, hold, tick>>

ClearSuppresses ==
    /\ clear
    /\ suppressed' = TRUE /\ clear' = FALSE
    /\ UNCHANGED <<clock, blocks, on, holdover, event, refresh, hold, tick, spent>>

-----------------------------------------------------------------------------
(* The schedule routes: the blocks are read and the new one checked, then  *)
(* it is saved                                                             *)

Save(b, row) ==
    /\ edit' = [id |-> b, row |-> row]
    /\ UNCHANGED <<clock, block, sweep, presence, hold, tick>>

(* A new id: the least that no row has, in the database or in the sweep. *)
Fresh(b) ==
    LET taken(c) == block[c] # None \/ \E x \in sweep : x.id = c
    IN  ~taken(b) /\ \A c \in 1..(b - 1) : taken(c)

CreateSchedule(b, row) ==
    /\ Spend("edits") /\ edit = None /\ Fresh(b)
    /\ ~ExpiryInPast(row) /\ ~Conflicts(b, row)
    /\ Save(b, row)

(* A past expiry is refused only to a request that enables or sets it. *)
UpdateSchedule(b, row) ==
    /\ Spend("edits") /\ edit = None /\ block[b] # None /\ row # block[b]
    /\ ExpiryInPast(row) => block[b].enabled /\ row.exp = block[b].exp
    /\ ~Conflicts(b, row)
    /\ Save(b, row)

(* A copy from another room: parked if its slots are taken. *)
CopySchedule(b, s) ==
    /\ Spend("edits") /\ edit = None /\ Fresh(b)
    /\ LET copy == [shape |-> s, enabled |-> TRUE, exp |-> None]
       IN  Save(b, [copy EXCEPT !.enabled = ~Conflicts(b, copy)])

EditSaves ==
    /\ edit # None
    /\ block' = [block EXCEPT ![edit.id] = edit.row] /\ edit' = None
    /\ UNCHANGED <<clock, sweep, presence, hold, tick, spent>>

DeleteSchedule(b) ==
    /\ Spend("edits") /\ block[b] # None
    /\ block' = [block EXCEPT ![b] = None]
    /\ UNCHANGED <<clock, edit, sweep, presence, hold, tick>>

-----------------------------------------------------------------------------
(* _sweep_expired_schedules: one read, then a whole row per expired block *)

Done(job) == due' = due \ {job}

Expired == {b \in Enabled : block[b].exp = 0}

(* Mutant of ToPark: a block that runs today is left to finish the day. *)
ToParkAfterDay ==
    {b \in Expired : \A t \in Week : Day(t) = Day(now) => ~ActiveAt(block[b].shape, t)}

(* A running block is left to finish. *)
ToPark == {b \in Expired : ~ActiveAt(block[b].shape, now)}

SweepReads ==
    /\ "sweep" \in due /\ sweep = {}
    /\ sweep' = {[id |-> b, row |-> block[b]] : b \in ToPark}
    /\ IF sweep' = {} THEN Done("sweep") ELSE UNCHANGED due
    /\ UNCHANGED <<now, block, edit, presence, hold, tick, spent>>

SweptRow(x) ==
    /\ sweep' = sweep \ {x}
    /\ IF sweep' = {} THEN Done("sweep") ELSE UNCHANGED due
    /\ UNCHANGED <<now, edit, presence, hold, tick>>

SweepSaves(x) ==
    /\ block' = [block EXCEPT ![x.id] = [x.row EXCEPT !.enabled = FALSE]]
    /\ SweptRow(x) /\ UNCHANGED spent

SweepFails(x) == Spend("touches") /\ SweptRow(x) /\ UNCHANGED block

-----------------------------------------------------------------------------
(* Presence.  Its writes wait for the lock of the room's engine. *)

LockFree == tick[Own] = "none"

EventChecks ==
    /\ event = "fired"
    /\ event' = IF suppressed THEN "none" ELSE "save"
    /\ UNCHANGED <<clock, blocks, on, holdover, suppressed, refresh, clear, hold, tick, spent>>

EventSaves ==
    /\ event = "save" /\ LockFree
    /\ holdover' = Holdover /\ event' = "none"
    /\ UNCHANGED <<clock, blocks, on, suppressed, refresh, clear, hold, tick, spent>>

RefreshReads ==
    /\ "refresh" \in due /\ refresh = "none"
    /\ refresh' = IF on THEN "on" ELSE "off"
    /\ UNCHANGED <<clock, blocks, on, holdover, suppressed, event, clear, hold, tick, spent>>

(* Mutant of AfterCheck: an empty room is passed over before anything else. *)
AfterCheckOccupied ==
    CASE refresh = "off"               -> "none"
      [] refresh = "on" /\ suppressed  -> "none"
      [] refresh = "on" /\ ~suppressed -> "save"

(* Mutant of AfterCheck: a holdover is renewed only once it has run out. *)
AfterCheckLazily ==
    CASE suppressed /\ refresh = "on"   -> "none"
      [] suppressed /\ refresh = "off"  -> "rearm"
      [] ~suppressed /\ refresh = "on"  -> IF Live(holdover) THEN "none" ELSE "save"
      [] ~suppressed /\ refresh = "off" -> "none"

(* An occupied room that was cleared is left alone, an empty one re-armed. *)
AfterCheck ==
    CASE suppressed /\ refresh = "on"   -> "none"
      [] suppressed /\ refresh = "off"  -> "rearm"
      [] ~suppressed /\ refresh = "on"  -> "save"
      [] ~suppressed /\ refresh = "off" -> "none"

RefreshChecks ==
    /\ refresh \in {"on", "off"}
    /\ refresh' = AfterCheck
    /\ IF refresh' = "none" THEN Done("refresh") ELSE UNCHANGED due
    /\ UNCHANGED <<now, blocks, on, holdover, suppressed, event, clear, hold, tick, spent>>

RefreshRearms ==
    /\ refresh = "rearm"
    /\ suppressed' = FALSE /\ refresh' = "none" /\ Done("refresh")
    /\ UNCHANGED <<now, blocks, on, holdover, event, clear, hold, tick, spent>>

(* Mutant of RefreshSaves: a holdover is prolonged, not begun anew. *)
RefreshProlongs ==
    /\ refresh = "save" /\ LockFree
    /\ holdover' = (IF Live(holdover) THEN holdover ELSE 0) + Holdover
    /\ refresh' = "none" /\ Done("refresh")
    /\ UNCHANGED <<now, blocks, on, suppressed, event, clear, hold, tick, spent>>

RefreshSaves ==
    /\ refresh = "save" /\ LockFree
    /\ holdover' = Holdover /\ refresh' = "none" /\ Done("refresh")
    /\ UNCHANGED <<now, blocks, on, suppressed, event, clear, hold, tick, spent>>

-----------------------------------------------------------------------------
(* The expiries at the head of every engine's tick, of all rooms' rows *)

At(e, pc, next) == tick[e] = pc /\ tick' = [tick EXCEPT ![e] = next]

(* A tick that finds nothing expired changes nothing. *)
ReadHoldovers(e) ==
    /\ holdover = 0 /\ At(e, "none", "drop")
    /\ UNCHANGED <<clock, blocks, presence, hold, spent>>

(* expire_holdovers deletes the row whatever has become of it. *)
DropHoldover(e) ==
    /\ At(e, "drop", "select")
    /\ holdover' = None
    /\ UNCHANGED <<clock, blocks, on, suppressed, event, refresh, clear, hold, spent>>

SelectHolds(e) ==
    /\ \/ At(e, "select", IF hold = 0 THEN "delete" ELSE "none")
       \/ hold = 0 /\ At(e, "none", "delete")
    /\ UNCHANGED <<clock, blocks, presence, hold, spent>>

(* Mutant of DeleteHold: the hold is deleted whatever has become of it. *)
DeleteHoldAnyway(e) ==
    /\ At(e, "delete", "none")
    /\ hold' = None
    /\ UNCHANGED <<clock, blocks, presence, spent>>

(* clear_expired_overrides deletes the row if it is expired still. *)
DeleteHold(e) ==
    /\ At(e, "delete", "none")
    /\ hold' = IF hold = 0 THEN None ELSE hold
    /\ UNCHANGED <<clock, blocks, presence, spent>>

-----------------------------------------------------------------------------
Edit ==
    \/ \E b \in Blocks, row \in Rows : CreateSchedule(b, row) \/ UpdateSchedule(b, row)
    \/ \E b \in Blocks, s \in Shapes : CopySchedule(b, s)
    \/ \E b \in Blocks : DeleteSchedule(b)

Touch ==
    \/ \E v \in BOOLEAN : SensorReports(v)
    \/ \E n \in 1..MaxHold : SetOverride(n)
    \/ ClearOverride
    \/ ClearDeletes

Sweep   == SweepReads \/ \E x \in sweep : SweepSaves(x) \/ SweepFails(x)
Refresh == RefreshReads \/ RefreshChecks \/ RefreshRearms
Tick(e) == DropHoldover(e) \/ SelectHolds(e) \/ DeleteHold(e)

Next ==
    \/ Clock \/ Edit \/ EditSaves \/ Touch \/ ClearSuppresses
    \/ Sweep \/ EventChecks \/ EventSaves \/ Refresh \/ RefreshSaves
    \/ \E e \in Engines : ReadHoldovers(e) \/ Tick(e)

Spec == Init /\ [][Next]_vars

(* The jobs run, requests end, the lock of an engine is first come first   *)
(* served, and time passes.                                                *)
FairSpec ==
    /\ Spec
    /\ WF_vars(Clock) /\ WF_vars(EditSaves) /\ WF_vars(ClearSuppresses)
    /\ WF_vars(SweepReads) /\ WF_vars(\E x \in sweep : SweepSaves(x))
    /\ WF_vars(Refresh) /\ SF_vars(RefreshSaves)
    /\ \A e \in Engines : WF_vars(Tick(e))

-----------------------------------------------------------------------------
(* Properties *)

(* No two enabled blocks of the room are ever active at once (#359: "only  *)
(* enabled blocks reserve their slot"), judged by _schedule_active and not *)
(* by the interval arithmetic the routes check with; for one request at a  *)
(* time, with the sweep's stale rows in between.                           *)
OneBlockAtATime ==
    \A b, c \in Enabled : b # c =>
       \A t \in Week : ~(ActiveAt(block[b].shape, t) /\ ActiveAt(block[c].shape, t))

From(s, t)  == Day(t) \in s.days /\ Slot(t) = s.start
Ended(s, t) == Slot(t) = s.end /\ ActiveAt(s, (t - 1) % Span)

(* The times on the room's card and the gap the pre-cool window is judged  *)
(* by, three walks through dates, are those of the matching itself: the    *)
(* running block is active until its end and not at it, no block begins    *)
(* before the next start, which comes, and none has ended since the last.  *)
StatusTellsTheClock ==
    /\ Matching(now) # {} =>
         LET s == block[Match].shape
             n == UntilEnd(s)
         IN  /\ n > 0 /\ \A k \in 0..(n - 1) : ActiveAt(s, now + k)
             /\ s.start # s.end => ~ActiveAt(s, now + n)
    /\ NextStart({}) =
         Soonest({k \in 1..Span : \E b \in Enabled : From(block[b].shape, now + k)})
    /\ SinceEnd =
         Soonest({k \in 0..(Span - 1) : \E b \in Enabled : Ended(block[b].shape, (now - k) % Span)})

(* Nothing ends early: a live hold is ended only by its user, although     *)
(* every engine deletes expired ones, and a running block is switched off  *)
(* by the sweep only on what it had read before an edit.                   *)
NothingEndsEarly ==
    [][/\ Live(hold) /\ hold' = None => ClearOverride
       /\ \A b \in Matching(now) :
            now' = now /\ b \notin Enabled' /\ sweep' # sweep
               => \E x \in sweep \ sweep' : x.id = b /\ x.row # block[b]]_vars

(* #287: a sensor that stays on keeps its room in demand without a gap,    *)
(* also when the edge was lost or another zone's expiry deleted the        *)
(* holdover just renewed.                                                  *)
OccupiedStaysServed == <>[](on /\ ~suppressed) => <>[](Source # "idle")

(* #439, docs/presence.md: a clear is for the visit.  The holdover that a  *)
(* write caught by the clear leaves behind runs out and is not renewed,    *)
(* and an empty room is armed again.                                       *)
ClearIsForTheVisit ==
    /\ suppressed ~> (~suppressed \/ ~Live(holdover))
    /\ (suppressed /\ ~on) ~> (~suppressed \/ on)

(* #359: an expired block is disabled once it is not running, which a      *)
(* block that runs all week never is.                                      *)
ExpiredIsParked ==
    \A b \in Blocks :
       (b \in Expired /\ \E t \in Week : ~ActiveAt(block[b].shape, t)) ~> b \notin Expired
=============================================================================
