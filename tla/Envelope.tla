------------------------------ MODULE Envelope ------------------------------
(***************************************************************************)
(* The temperature envelope of a zone that nobody asks anything of: the    *)
(* vacation hold, the safety cycles of a room out of bounds, the ambient   *)
(* backstop, the check of the ambient reading and the off-time lockout of  *)
(* the compressor (smart_vent/backend/engine/cycle_engine.py).             *)
(*                                                                         *)
(* Temperatures are whole degrees.  A cycle is abstracted to its direction *)
(* and its age: CycleEngine has its rooms and vents, and the lost start    *)
(* command.  The cooling lockout by outside temperature is off.            *)
(***************************************************************************)
EXTENDS Integers, FiniteSets

CONSTANTS
    Temps,                 \* the plausible readings
    Wild,                  \* an implausible reading
    None,                  \* no reading, no direction
    MinSp, MaxSp,          \* min_setpoint, max_setpoint
    Deadband, Overshoot,   \* of the zone; the room has none of its own
    Rate,                  \* degrees a minute an ambient reading may really drift
    MinOff, MinRun,        \* min_cycle_offtime_min, min_cycle_runtime_min
    Timeout,               \* cycle_timeout_hours, in minutes
    Found,                 \* the modes the thermostat may be found in
    MaxMishaps             \* lost commands, restarts, glitches, meddles and switches

ASSUME EnvelopeAssumption ==
    /\ Temps \subseteq Int /\ \E lo, hi \in Temps : Temps = lo..hi    \* _AMBIENT_PLAUSIBLE_MIN_F, _MAX_F
    /\ Wild \in Int \ Temps /\ None \notin Int \cup {"cooling", "heating", "cool", "heat"}
    /\ {MinSp, MaxSp} \subseteq Temps /\ MinSp < MaxSp
    /\ {Deadband, Overshoot} \subseteq Nat    \* routes.py accepts 0 for both
    /\ {Rate, Timeout} \subseteq Nat \ {0}
    /\ Found \subseteq {"off", "heat", "cool", "heat_cool"}
    /\ {MinOff, MinRun, MaxMishaps} \subseteq Nat

VARIABLES
    vacation,  \* _vacation_mode
    tc,        \* its vacation_hvac_mode, or "safety": single with vacation_safety_cycles
    avail,     \* the thermostat reports
    th,        \* its mode and setpoint
    probe,     \* its current_temperature
    room,      \* the reading of the room's sensor
    cycle,     \* the direction of the running cycle, or None
    begun,     \* its age in minutes
    sustain,   \* _safety_sustain of the room
    fallback,  \* _vacation_fallback_park_mode
    grace,     \* _heat_cool_revert_pending
    good,      \* _last_valid_ambient_f
    goodAge,   \* minutes since it was accepted
    sent,      \* _last_setpoint_sent, while a cycle runs
    endAge,    \* minutes since _last_cycle_ended_at
    holdAge,   \* minutes since _hold_compressor_off_at
    hist,      \* the direction of the last completed cycle in the database
    still,     \* the compressor: minutes since a tick stopped it, what did, restarts since
    used       \* how many mishaps so far, a restart among them or not

house  == <<avail, probe, room>>
engine == <<cycle, begun, sustain, fallback, grace, good, goodAge, sent, endAge, holdAge>>
vars   == <<vacation, tc, house, th, engine, hist, still, used>>

-----------------------------------------------------------------------------
(* Types *)

Least(a, b)    == IF a <= b THEN a ELSE b
Greatest(a, b) == IF a >= b THEN a ELSE b
Distance(a, b) == IF a >= b THEN a - b ELSE b - a

Directions == {"cooling", "heating"}
Strategies == {"single", "range", "safety"}
Readings   == Temps \cup {Wild, None}
Setpoints  == {None} \cup UNION {{t - Overshoot, t - 1, t, t + 1, t + Overshoot} : t \in Temps \cup {Wild}}
GoodSpan   == (Cardinality(Temps) + Rate - 2) \div Rate    \* any plausible reading is near then

MaxAge     == Greatest(MinRun, Timeout)                    \* nobody tells older cycles apart

Rested     == [age |-> MinOff, by |-> "cycle", restarted |-> FALSE]

TypeOK ==
    /\ vacation \in BOOLEAN /\ avail \in BOOLEAN /\ grace \in BOOLEAN
    /\ tc \in Strategies
    /\ th \in [mode : {"off", "heat", "cool", "heat_cool"}, sp : Setpoints]
    /\ probe \in Readings /\ room \in Temps \cup {None}
    /\ {cycle, sustain, hist} \subseteq Directions \cup {None}
    /\ fallback \in {"cool", "heat", None}
    /\ good \in Temps \cup {None} /\ sent \in MinSp..MaxSp \cup {None}
    /\ begun \in 0..MaxAge /\ goodAge \in 0..GoodSpan
    /\ endAge \in 0..MinOff /\ holdAge \in 0..MinOff
    /\ still \in [age : 0..MinOff, by : {"cycle", "hold"}, restarted : BOOLEAN]
    /\ used \in [mishaps : 0..MaxMishaps, crashed : BOOLEAN]

-----------------------------------------------------------------------------
(* The arithmetic of the bounds *)

(* Mutant of Clamp: the lower bound is forgotten. *)
ClampAbove(t)  == Least(t, MaxSp)

Clamp(t)       == Least(Greatest(t, MinSp), MaxSp)

HeatTarget == Least(MaxSp, MinSp + Deadband)
CoolTarget == Greatest(MinSp, MaxSp - Deadband)
Target(d)  == IF d = "cooling" THEN CoolTarget ELSE HeatTarget
HaMode(d)  == IF d = "cooling" THEN "cool" ELSE "heat"
ParkTol    == 1    \* _PARKED_SETPOINT_DRIFT_TOLERANCE_F, 1.5, in whole degrees

(* _parked_setpoint *)
Parked(t, ha) ==
    CASE ha = "cool" -> t + Overshoot [] ha = "heat" -> t - Overshoot [] OTHER -> t

(* _set_thermostat_setpoint for the one room *)
CycleSetpoint(d) ==
    LET wanted == IF d = "cooling" THEN CoolTarget - Overshoot ELSE HeatTarget + Overshoot
    IN  Clamp(IF probe = None THEN wanted
              ELSE IF d = "cooling" THEN Least(wanted, probe - Overshoot)
              ELSE Greatest(wanted, probe + Overshoot))

(* The equipment may run: a setpoint at the probe's reading counts *)
CoolingOn(t, p) ==
    /\ p # None
    /\ \/ t.mode = "cool" /\ t.sp # None /\ t.sp <= p
       \/ t.mode = "heat_cool" /\ p > MaxSp
HeatingOn(t, p) ==
    /\ p # None
    /\ \/ t.mode = "heat" /\ t.sp # None /\ t.sp >= p
       \/ t.mode = "heat_cool" /\ p < MinSp

-----------------------------------------------------------------------------
(* Reading the ambient temperature (_read_validated_ambient_f) *)

Accepts ==
    /\ probe \in Temps
    /\ good # None => Distance(probe, good) <= Rate * goodAge

Ambient == IF Accepts THEN probe ELSE None

Judged ==
    IF Accepts THEN good' = probe /\ goodAge' = 0 ELSE UNCHANGED <<good, goodAge>>
Unjudged == UNCHANGED <<good, goodAge>>

-----------------------------------------------------------------------------
(* Commands.  Each maps the thermostat t to the thermostat it leaves; ok   *)
(* tells whether Home Assistant carried it out.                            *)

Set(t, ok, ha, s) == IF ok THEN [mode |-> ha, sp |-> s] ELSE t

(* _abort_cycle and the end of _terminate_cycle, as far as the thermostat  *)
AbortParks(t, ok) ==
    IF cycle = None \/ probe = None THEN t
    ELSE Set(t, ok, HaMode(cycle), Parked(probe, HaMode(cycle)))

LockedOut(ended) == (ended /\ MinOff > 0) \/ endAge < MinOff \/ holdAge < MinOff

(* What a part of the hold does: the command, if it sends one, and the     *)
(* direction it parks in from now on                                       *)
Nothing          == [sends |-> FALSE, mode |-> None, sp |-> None, park |-> fallback]
Sends(ha, s)     == [Nothing EXCEPT !.sends = TRUE, !.mode = ha, !.sp = s]
Obey(t, h, ok)   == IF ~h.sends THEN t
                    ELSE Set(t, ok, h.mode, IF h.mode = "off" THEN t.sp ELSE h.sp)
Holding(v, ha, s, tol) == v.mode = ha /\ v.sp # None /\ Distance(v.sp, s) <= tol

HoldRange(v) == IF v.mode = "heat_cool" THEN Nothing ELSE Sends("heat_cool", None)

HoldBlind(v) == IF v.mode = "off" THEN Nothing ELSE Sends("off", v.sp)

HoldHeat(v) == IF Holding(v, "heat", HeatTarget, 0) THEN Nothing ELSE Sends("heat", HeatTarget)

(* Mutant of HoldCool: the lockout looks at the cycles only. *)
HoldCoolByCycles(v, ended) ==
    IF Holding(v, "cool", CoolTarget, 0) \/ (ended /\ MinOff > 0) \/ endAge < MinOff THEN Nothing
    ELSE Sends("cool", CoolTarget)

HoldCool(v, ended) ==
    IF Holding(v, "cool", CoolTarget, 0) \/ LockedOut(ended) THEN Nothing
    ELSE Sends("cool", CoolTarget)

(* In the band: parked in the direction of the last cycle or, without one, *)
(* of the nearer bound, once for the whole vacation                        *)
ParkMode(last) ==
    IF last # None THEN HaMode(last)
    ELSE IF fallback # None THEN fallback
    ELSE IF MaxSp - probe <= probe - MinSp THEN "cool" ELSE "heat"

Armed(v, ha) ==
    v.sp # None /\ \/ ha = "cool" /\ v.sp <= probe
                   \/ ha = "heat" /\ v.sp >= probe

(* A park that an overshoot of nothing leaves at the reading is moved off  *)
(* it by one degree.                                                       *)
Cleared(ha) ==
    LET p == Parked(probe, ha)
    IN  CASE ha = "cool" /\ p <= probe -> p + 1
          [] ha = "heat" /\ p >= probe -> p - 1
          [] OTHER -> p

HoldParked(v, last) ==
    LET ha   == ParkMode(last)
        keep == IF last = None THEN ha ELSE fallback
    IN  IF Holding(v, ha, Cleared(ha), ParkTol) /\ ~Armed(v, ha)
        THEN [Nothing EXCEPT !.park = keep]
        ELSE [Sends(ha, Cleared(ha)) EXCEPT !.park = keep]

(* _apply_vacation_hold with the thermostat as it was when the tick began; *)
(* ended: the tick has just aborted a cycle                                *)
Hold(v, ended, last) ==
    IF tc = "range" THEN HoldRange(v)
    ELSE IF Ambient = None THEN HoldBlind(v)
    ELSE IF probe < MinSp THEN HoldHeat(v)
    ELSE IF probe > MaxSp THEN HoldCool(v, ended)
    ELSE HoldParked(v, last)

(* _note_hold_stopped_compressor: the mode the command replaces; a command *)
(* that starts cooling is not noted                                        *)
HoldStamps(h, v, ok) ==
    /\ ok /\ h.sends /\ tc # "range" /\ v.mode \in {"cool", "heat_cool"}
    /\ ~(h.mode = "cool" /\ probe > MaxSp)

(* _enforce_safety_setpoint and _command_safety_bound *)
BackstopFires == Ambient # None /\ (Ambient > MaxSp \/ Ambient < MinSp)
Backstop(t, v, ended, ok) ==
    LET ha    == IF probe > MaxSp THEN "cool" ELSE "heat"
        bound == IF probe > MaxSp THEN MaxSp ELSE MinSp
    IN  IF ~BackstopFires \/ Holding(v, ha, bound, 0) \/ (ha = "cool" /\ LockedOut(ended))
        THEN t ELSE Set(t, ok, ha, bound)

(* The idle half of _reconcile_state: a mode that is not that of the last  *)
(* cycle is put back and parked.                                           *)
Hygiene(t, last, deferred, ok) ==
    IF deferred \/ last = None \/ t.mode = HaMode(last) \/ probe = None THEN t
    ELSE Set(t, ok, HaMode(last), Parked(probe, HaMode(last)))

(* The running half: the cycle's mode and setpoint are asserted again. *)
Reassert(t, ok) ==
    IF sent = None \/ (t.mode = HaMode(cycle) /\ t.sp \in {sent, None}) THEN t ELSE Set(t, ok, HaMode(cycle), sent)

(* _reset_setpoint_to_ambient *)
Reset(t, v, ok) ==
    IF probe = None \/ v.sp = Parked(probe, v.mode) THEN t
    ELSE Set(t, ok, t.mode, Parked(probe, v.mode))

-----------------------------------------------------------------------------
Init ==
    /\ vacation \in BOOLEAN
    /\ tc \in Strategies
    /\ avail = TRUE /\ probe = HeatTarget /\ room = HeatTarget
    /\ th \in [mode : Found, sp : {None}]
    /\ cycle = None /\ begun = 0 /\ sustain = None /\ fallback = None /\ grace = FALSE
    /\ good = None /\ goodAge = 0 /\ sent = None
    /\ endAge = MinOff /\ holdAge = MinOff
    /\ hist = None
    /\ still = Rested
    /\ used = [mishaps |-> 0, crashed |-> FALSE]

-----------------------------------------------------------------------------
(* Parts of a tick.  a, b and c tell whether its commands are carried out. *)

Tries(a, b, c) ==
    LET n == Cardinality({i \in 1..3 : ~<<a, b, c>>[i]})
    IN  /\ used.mishaps + n <= MaxMishaps
        /\ used' = [used EXCEPT !.mishaps = @ + n]

EndsCycle(ended) ==
    IF ended THEN cycle' = None /\ begun' = 0 /\ sent' = None /\ hist' = cycle /\ endAge' = 0
    ELSE UNCHANGED <<cycle, begun, sent, hist, endAge>>

LastDirection(ended) == IF ended THEN cycle ELSE hist

CompressorSeen(by) ==
    still' = IF CoolingOn(th, probe) /\ ~CoolingOn(th', probe)
             THEN [age |-> 0, by |-> by, restarted |-> FALSE] ELSE still

(* _apply_vacation_hold, after an abort if there was a cycle *)
ApplyHold(ended, a, b) ==
    LET h  == Hold(th, ended, LastDirection(ended))
        t1 == IF ended THEN AbortParks(th, a) ELSE th
    IN  /\ Tries(a \/ ~ended, b \/ ~h.sends, TRUE)
        /\ th' = Obey(t1, h, b)
        /\ holdAge' = IF HoldStamps(h, th, b) THEN 0 ELSE holdAge
        /\ fallback' = h.park
        /\ IF tc = "range" THEN Unjudged ELSE Judged
        /\ EndsCycle(ended)
        /\ IF ended THEN CompressorSeen("cycle")
           ELSE IF tc = "range" THEN UNCHANGED still ELSE CompressorSeen("hold")

(* Outside the vacation: the backstop, then the reconciliation if due *)
Guard(ended, a, b, c, due) ==
    LET last == LastDirection(ended)
        t1   == IF ended THEN AbortParks(th, a) ELSE th
        t2   == Backstop(t1, th, ended, b)
        t3   == IF due THEN Hygiene(t2, last, BackstopFires \/ grace, c) ELSE t2
    IN  /\ Tries(a \/ ~ended, b \/ ~BackstopFires, c \/ ~due)
        /\ th' = t3
        /\ grace' = (grace /\ ~due)
        /\ fallback' = None
        /\ Judged /\ EndsCycle(ended)
        /\ UNCHANGED holdAge
        /\ IF ended THEN CompressorSeen("cycle") ELSE UNCHANGED still

(* The idle tick that only reconciles, after the command that left t *)
OnlyReconciles(t, b, c, due) ==
    /\ Tries(TRUE, b, c \/ ~due)
    /\ th' = IF due THEN Hygiene(t, hist, vacation \/ grace, c) ELSE t
    /\ grace' = (grace /\ ~due)
    /\ UNCHANGED <<cycle, begun, sent, hist, good, goodAge, endAge, holdAge, still>>

-----------------------------------------------------------------------------
(* _terminate_cycle for the timeout, then the idle zone's reconciliation   *)
TimesOut(a, c, due) ==
    LET t == AbortParks(th, a)
    IN  /\ Tries(a, TRUE, c \/ ~due)
        /\ th' = IF due THEN Hygiene(t, cycle, vacation \/ grace, c) ELSE t
        /\ grace' = (grace /\ ~due)
        /\ EndsCycle(TRUE) /\ CompressorSeen("cycle")
        /\ UNCHANGED <<good, goodAge, holdAge>>

-----------------------------------------------------------------------------
(* What a tick finds *)

Safety == tc = "safety"    \* _vacation_safety_enabled
Serving == avail /\ (~vacation \/ Safety) /\ th.mode # "heat_cool"

(* Mutant of Breach: no hysteresis. *)
BreachBare ==
    IF room = None THEN None
    ELSE IF room > MaxSp THEN "cooling" ELSE IF room < MinSp THEN "heating" ELSE None

(* _add_safety_rooms: once out of bounds, the room is served until it      *)
(* reaches its target inside them.                                         *)
Breach ==
    IF room = None THEN None
    ELSE IF room > (IF sustain = "cooling" THEN CoolTarget ELSE MaxSp) THEN "cooling"
    ELSE IF room < (IF sustain = "heating" THEN HeatTarget ELSE MinSp) THEN "heating"
    ELSE None

(* _suppression_vote for the room and the target of the breach: the source *)
(* of such a room is "safety", so that neither the pre-cooling of rooms    *)
(* with presence nor the hard cap that goes with it applies.  A room still *)
(* latched at the bound, a deadband from its target, asks for nothing.     *)
Vote ==
    IF room > Target(Breach) + Deadband THEN "cooling"
    ELSE IF room < Target(Breach) - Deadband THEN "heating"
    ELSE None

(* _infer_mode_from_room_temps: the probe may contradict the room. *)
Inferred ==
    IF probe = None THEN Vote
    ELSE IF Vote = "heating" /\ probe > Target(Breach) + Deadband THEN "cooling"
    ELSE IF Vote = "cooling" /\ probe < Target(Breach) - Deadband THEN "heating"
    ELSE Vote

Opposed(d) == Vote # None /\ Vote # d    \* _filter_rooms_for_mode drops the room

FallbackOutside == fallback' = IF vacation THEN fallback ELSE None

-----------------------------------------------------------------------------
(* _do_tick *)

(* The thermostat is unavailable: nothing, or the cycle is aborted, its    *)
(* setpoint left where it is.                                              *)
TickUnavailable ==
    /\ ~avail /\ cycle # None
    /\ EndsCycle(TRUE)
    /\ UNCHANGED <<vacation, tc, house, th, sustain, fallback, grace, good, goodAge, holdAge, still, used>>

(* The hold alone *)
TickHolds ==
    /\ avail /\ vacation /\ ~Safety
    /\ \E a, b \in BOOLEAN : ApplyHold(cycle # None, a, b)
    /\ sustain' = None
    /\ UNCHANGED <<vacation, tc, house, grace>>

(* heat_cool has no place here; a lost command is tried again. *)
TickReverts ==
    /\ avail /\ (~vacation \/ Safety) /\ th.mode = "heat_cool"
    /\ \/ th' = [th EXCEPT !.mode = "off"] /\ grace' = TRUE /\ UNCHANGED used
       \/ UNCHANGED <<th, grace>> /\ Tries(FALSE, TRUE, TRUE)
    /\ FallbackOutside
    /\ UNCHANGED <<vacation, tc, house, cycle, begun, sustain, good, goodAge, sent, endAge, holdAge, hist, still>>

(* Nothing is out of bounds. *)
TickRests ==
    /\ Serving /\ Breach = None
    /\ sustain' = None
    /\ \/ /\ vacation /\ cycle # None /\ begun < MinRun
          /\ UNCHANGED <<th, cycle, begun, fallback, grace, good, goodAge, sent, endAge, holdAge, hist, still, used>>
       \/ /\ vacation /\ ~(cycle # None /\ begun < MinRun)
          /\ \E a, b \in BOOLEAN : ApplyHold(cycle # None, a, b)
          /\ UNCHANGED grace
       \/ ~vacation /\ \E a, b, c, due \in BOOLEAN : Guard(cycle # None, a, b, c, due)
    /\ UNCHANGED <<vacation, tc, house>>

(* A room is out of bounds, the zone is idle. *)
TickBreached ==
    /\ Serving /\ Breach # None /\ cycle = None
    /\ sustain' = Breach
    /\ \/ /\ Vote = None
          /\ \E b, c, due \in BOOLEAN : OnlyReconciles(Reset(th, th, b), b, c, due)
          /\ FallbackOutside
       \/ /\ Vote # None /\ Opposed(Inferred)
          /\ IF vacation THEN /\ \E b \in BOOLEAN : ApplyHold(FALSE, TRUE, b)
                              /\ \E due \in BOOLEAN : grace' = (grace /\ ~due)
             ELSE \E b, c, due \in BOOLEAN : Guard(FALSE, TRUE, b, c, due)
       \/ /\ Vote # None /\ ~Opposed(Inferred) /\ LockedOut(FALSE)
          /\ \E c, due \in BOOLEAN : OnlyReconciles(th, TRUE, c, due)
          /\ FallbackOutside
       \/ /\ Vote # None /\ ~Opposed(Inferred) /\ ~LockedOut(FALSE)
          /\ cycle' = Inferred /\ begun' = 0
          /\ th' = [mode |-> HaMode(Inferred), sp |-> CycleSetpoint(Inferred)]
          /\ sent' = CycleSetpoint(Inferred)
          /\ FallbackOutside
          /\ IF Inferred = "heating" THEN CompressorSeen("cycle") ELSE UNCHANGED still
          /\ UNCHANGED <<grace, good, goodAge, endAge, holdAge, hist, used>>
    /\ UNCHANGED <<vacation, tc, house>>

(* A room is out of bounds, a cycle runs: it is of the wrong direction, or *)
(* serves on, or has timed out.                                            *)
TickServes ==
    /\ Serving /\ Breach # None /\ cycle # None
    /\ sustain' = Breach
    /\ \/ /\ Opposed(cycle)
          /\ IF vacation THEN /\ \E a, b \in BOOLEAN : ApplyHold(TRUE, a, b)
                              /\ \E due \in BOOLEAN : grace' = (grace /\ ~due)
             ELSE \E a, b, c, due \in BOOLEAN : Guard(TRUE, a, b, c, due)
       \/ /\ ~Opposed(cycle) /\ begun < Timeout
          /\ \E c, due \in BOOLEAN : th' = (IF due THEN Reassert(th, c) ELSE th) /\ Tries(TRUE, TRUE, c \/ ~due)
          /\ FallbackOutside
          /\ UNCHANGED <<cycle, begun, grace, good, goodAge, sent, endAge, holdAge, hist, still>>
       \/ /\ ~Opposed(cycle) /\ begun >= Timeout
          /\ \E a, c, due \in BOOLEAN : TimesOut(a, c, due)
          /\ FallbackOutside
    /\ UNCHANGED <<vacation, tc, house>>

Tick == TickHolds \/ TickReverts \/ TickRests \/ TickBreached \/ TickServes

-----------------------------------------------------------------------------
(* The rest of the world *)

Spend(u) == used.mishaps < MaxMishaps /\ used' = [u EXCEPT !.mishaps = @ + 1]
Drift(t) == {t - 1, t, t + 1} \cap Temps
Older(n, cap) == Least(n + 1, cap)

(* A minute passes: temperatures drift; a reading may jump, be lost or     *)
(* come back, the thermostat disappear or return.                          *)
Minute ==
    /\ begun' = IF cycle = None THEN 0 ELSE Older(begun, MaxAge)
    /\ goodAge' = IF good = None THEN 0 ELSE Older(goodAge, GoodSpan)
    /\ endAge' = Older(endAge, MinOff) /\ holdAge' = Older(holdAge, MinOff)
    /\ still' = IF still.age + 1 < MinOff THEN [still EXCEPT !.age = @ + 1] ELSE Rested
    /\ \/ /\ probe' \in (IF probe \in Temps THEN Drift(probe) ELSE Temps)
          /\ room' \in (IF room \in Temps THEN Drift(room) ELSE Temps)
          /\ avail' = TRUE
          /\ UNCHANGED used
       \/ /\ \/ probe' \in Readings /\ UNCHANGED room /\ avail' = TRUE
             \/ room' = None /\ UNCHANGED probe /\ avail' = TRUE
             \/ avail' = FALSE /\ UNCHANGED <<probe, room>>
          /\ Spend(used)
    /\ UNCHANGED <<vacation, tc, th, cycle, sustain, fallback, grace, good, sent, hist>>

(* Somebody sets the thermostat on the wall. *)
Meddle ==
    /\ th' \in {[th EXCEPT !.mode = "off"], [th EXCEPT !.mode = "heat_cool"],
               [mode |-> "cool", sp |-> MinSp], [mode |-> "heat", sp |-> MaxSp]} \ {th}
    /\ Spend(used)
    /\ UNCHANGED <<vacation, tc, house, engine, hist, still>>

(* set_vacation_mode aborts the cycle; the ticks come after it. *)
SwitchVacation ==
    /\ vacation' = ~vacation
    /\ Spend(used)
    /\ IF cycle = None THEN UNCHANGED <<th, cycle, begun, sent, hist, endAge, still>>
       ELSE /\ \E ok \in BOOLEAN : th' = IF avail THEN AbortParks(th, ok) ELSE th
            /\ EndsCycle(TRUE) /\ CompressorSeen("cycle")
    /\ UNCHANGED <<tc, house, sustain, fallback, grace, good, goodAge, holdAge>>

(* The zone's settings are edited. *)
EditZone ==
    /\ tc' \in Strategies \ {tc}
    /\ Spend(used)
    /\ UNCHANGED <<vacation, house, th, engine, hist, still>>

(* restore_from_db: a cycle that the reading contradicts is not resumed.   *)
Contradicted ==
    /\ avail /\ probe # None
    /\ \/ cycle = "heating" /\ probe > HeatTarget
       \/ cycle = "cooling" /\ probe < CoolTarget

(* The process is restarted.  The cycle and its end are in the database;   *)
(* what the hold stopped is not.                                           *)
Restart ==
    /\ Spend([used EXCEPT !.crashed = TRUE])
    /\ sustain' = None /\ fallback' = None /\ grace' = FALSE
    /\ good' = None /\ goodAge' = 0 /\ sent' = None
    /\ holdAge' = MinOff
    /\ \/ ~Contradicted /\ UNCHANGED <<th, cycle, begun, endAge, hist>>
       \/ /\ Contradicted
          /\ \E ok \in BOOLEAN : th' = AbortParks(th, ok)
          /\ EndsCycle(TRUE)
    /\ still' = IF CoolingOn(th, probe) /\ ~CoolingOn(th', probe)
                THEN [age |-> 0, by |-> "cycle", restarted |-> FALSE]
                ELSE IF still = Rested THEN Rested ELSE [still EXCEPT !.restarted = TRUE]
    /\ UNCHANGED <<vacation, tc, house>>

World == Minute \/ Meddle \/ SwitchVacation \/ EditZone \/ Restart

Next == Tick \/ TickUnavailable \/ World

Spec == Init /\ [][Next]_vars

-----------------------------------------------------------------------------
(* Properties *)

Starts == ~CoolingOn(th, probe) /\ CoolingOn(th', probe)

(* docs/safety.md:37: "The clock starts whenever the compressor stops,     *)
(* whichever part of the engine stopped it": the end of a cycle, the start *)
(* of a heating one, or a command of the hold of a single setpoint.  No    *)
(* tick starts it before its rest is over, except after a restart: the     *)
(* clock of the hold is not in the database.  (Range mode leaves the       *)
(* compressor to the equipment, and nobody counts the cooling begun by     *)
(* hand that the engine corrects, be it with the first setpoint of a       *)
(* cooling cycle, which the lower bound keeps above the reading.  It takes *)
(* an overshoot: with overshoot_delta = 0, which routes.py accepts, every  *)
(* part but the hold parks exactly at the reading, where the thermostat    *)
(* may start by itself.)                                                   *)
OffTimeKeptUnbroken ==
    [][Starts /\ th'.mode = "cool" /\ Tick =>
          still.age >= MinOff \/ (still.restarted /\ still.by = "hold")]_vars

(* A safety cycle is not cut short at the bound.  A cycle starts with its  *)
(* room latched, and while there is a reading and the mode is on no tick   *)
(* before cycle_timeout_hours ends the cycle or drops the latch before the *)
(* room has its target, one deadband inside.  Unless a restart has dropped *)
(* it, a cycle outside the vacation has the latch all the time.  In a      *)
(* vacation the minimum runtime keeps a cycle running past its target      *)
(* without it: that cycle may end after the room has drifted back, but the *)
(* latch was kept to the target.  (It takes bounds at least a deadband     *)
(* apart: between closer ones the target of one direction is the bound of  *)
(* the other, the vote is silent beyond it, and a cycle held for its       *)
(* runtime goes on against the breach.)                                    *)
AtTarget(d) == IF d = "cooling" THEN room <= CoolTarget ELSE room >= HeatTarget

CycleRecovers ==
    [][/\ cycle' \notin {cycle, None} => sustain' = cycle'
       /\ /\ cycle # None /\ room # None /\ None \in {cycle', sustain'} /\ begun < Timeout
          /\ \/ sustain # None
             \/ cycle' = None /\ ~vacation /\ ~used.crashed
          /\ ~(vacation /\ ~Safety) /\ Tick
          => AtTarget(cycle)]_vars

(* docs/vacation-mode.md:15: the hold "triggers on the bound but recovers  *)
(* past it ... toward max_setpoint - deadband".  A tick of the hold stops  *)
(* the cooling it started only at that target.                             *)
HoldRecovers ==
    [][cycle = None /\ tc # "range" /\ Ambient # None
         /\ th = [mode |-> "cool", sp |-> CoolTarget]
         /\ CoolingOn(th, probe) /\ ~CoolingOn(th', probe)
          => ~TickHolds]_vars
=============================================================================
