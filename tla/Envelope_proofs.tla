--------------------------- MODULE Envelope_proofs ---------------------------
(***************************************************************************)
(* Proofs about Envelope: its types, that the compressor has its rest      *)
(* whatever stopped it, and that a room out of bounds is served until it   *)
(* has its target.                                                         *)
(***************************************************************************)
EXTENDS Envelope, FiniteSetTheorems, TLAPS

Modes       == {"off", "heat", "cool", "heat_cool"}
Thermostats == [mode : Modes, sp : Setpoints]
Parks       == {"cool", "heat", None}

-----------------------------------------------------------------------------
(* Degrees and bounds *)

(* What the assumption says of the bounds and the targets between them. *)
LEMMA Degrees ==
    /\ Temps \subseteq Int /\ MinSp..MaxSp \subseteq Temps
    /\ MinSp \in Int /\ MaxSp \in Int /\ MinSp < MaxSp
    /\ HeatTarget \in MinSp..MaxSp /\ CoolTarget \in MinSp..MaxSp
    /\ Overshoot \in Nat /\ Deadband \in Nat /\ Rate \in Nat \ {0}
    /\ MinOff \in Nat /\ MaxAge \in Nat /\ Wild \in Int /\ None \notin Int
    /\ None \notin Directions
<1>1. PICK lo \in Temps, hi \in Temps : Temps = lo..hi
  BY EnvelopeAssumption
<1>2. Temps \subseteq Int /\ MinSp \in Temps /\ MaxSp \in Temps /\ MinSp < MaxSp
  BY EnvelopeAssumption
<1>3. MinSp..MaxSp \subseteq Temps
  BY <1>1, <1>2
<1>4. /\ Overshoot \in Nat /\ Deadband \in Nat /\ Rate \in Nat \ {0}
      /\ MinOff \in Nat /\ MaxAge \in Nat /\ Wild \in Int /\ None \notin Int
  BY EnvelopeAssumption DEF MaxAge, Greatest
<1>5. HeatTarget \in MinSp..MaxSp /\ CoolTarget \in MinSp..MaxSp
  BY <1>2, <1>4 DEF HeatTarget, CoolTarget, Least, Greatest
<1>6. None \notin Directions
  BY EnvelopeAssumption DEF Directions
<1> QED
  BY <1>2, <1>3, <1>4, <1>5, <1>6

(* The minutes counted for the ambient reading are a number. *)
LEMMA SpanIsNumber == GoodSpan \in Nat
<1>1. PICK lo \in Temps, hi \in Temps : Temps = lo..hi
  BY EnvelopeAssumption
<1>2. Temps # {} /\ IsFiniteSet(Temps) /\ lo \in Int /\ hi \in Int
  BY <1>1, Degrees, FS_Interval
<1>3. Cardinality(Temps) \in Nat \ {0}
  BY <1>2, FS_CardinalityType, FS_EmptySet
<1>4. ASSUME NEW n \in Nat \ {0}, NEW r \in Nat \ {0} PROVE (n + r - 2) \div r \in Nat
  OBVIOUS
<1> QED
  BY <1>3, <1>4, Degrees DEF GoodSpan

(* A setpoint within the bounds, and one parked at a reading, moved off it
   or not *)
LEMMA Settings ==
    /\ MinSp..MaxSp \subseteq Setpoints /\ None \in Setpoints
    /\ \A t \in Temps \cup {Wild} : \A ha : Parked(t, ha) \in Setpoints
    /\ probe \in Temps \cup {Wild} => \A ha : Cleared(ha) \in Setpoints
<1>1. \A t \in Temps \cup {Wild} :
         {t - Overshoot, t - 1, t, t + 1, t + Overshoot} \subseteq Setpoints
  BY DEF Setpoints
<1>2. MinSp..MaxSp \subseteq Setpoints
  BY <1>1, Degrees
<1>3. \A t \in Temps \cup {Wild} : \A ha : Parked(t, ha) \in {t - Overshoot, t, t + Overshoot}
  BY DEF Parked
<1>4. None \in Setpoints
  BY DEF Setpoints
<1>5. \A t \in Temps \cup {Wild} : \A ha : Parked(t, ha) \in Setpoints
  BY <1>1, <1>3
<1>6. ASSUME probe \in Temps \cup {Wild}, NEW ha
      PROVE  Cleared(ha) \in {Parked(probe, ha), probe - 1, probe + 1}
  <2>1. probe \in Int /\ Overshoot \in Nat
    BY <1>6, Degrees
  <2>2. ha = "cool" /\ Parked(probe, ha) <= probe => Parked(probe, ha) + 1 = probe + 1
    BY <2>1 DEF Parked
  <2>3. ha = "heat" /\ Parked(probe, ha) >= probe => Parked(probe, ha) - 1 = probe - 1
    BY <2>1 DEF Parked
  <2> QED
    BY <2>2, <2>3 DEF Cleared
<1>7. probe \in Temps \cup {Wild} => \A ha : Cleared(ha) \in Setpoints
  BY <1>1, <1>5, <1>6
<1> QED
  BY <1>2, <1>4, <1>5, <1>7

LEMMA CycleSetpointInBounds ==
    ASSUME TypeOK, NEW d PROVE CycleSetpoint(d) \in MinSp..MaxSp
<1>1. ASSUME NEW t \in Int PROVE Clamp(t) \in MinSp..MaxSp
  BY <1>1, Degrees DEF Clamp, Least, Greatest
<1>2. probe = None \/ probe \in Int
  BY Degrees DEF TypeOK, Readings
<1>3. CoolTarget - Overshoot \in Int /\ HeatTarget + Overshoot \in Int
  BY Degrees
<1> QED
  BY <1>1, <1>2, <1>3, Degrees DEF CycleSetpoint, Least, Greatest

-----------------------------------------------------------------------------
(* What was spent *)

UsedOK(u) == u \in [mishaps : 0..MaxMishaps, crashed : BOOLEAN]

LEMMA TriesTyped ==
    ASSUME TypeOK, NEW a, NEW b, NEW c, Tries(a, b, c)
    PROVE  UsedOK(used') /\ used'.crashed = used.crashed
<1> DEFINE S == {i \in 1..3 : ~<<a, b, c>>[i]}
           n == Cardinality(S)
<1>1. n \in Nat
  <2>1. IsFiniteSet(1..3)
    <3>1. ASSUME NEW y \in Int PROVE IsFiniteSet(1..y)
      BY FS_Interval
    <3>2. 3 \in Int
      OBVIOUS
    <3> QED
      BY ONLY <3>1, <3>2, Zenon
  <2>2. IsFiniteSet(S)
    BY <2>1, FS_Subset
  <2> QED
    BY <2>2, FS_CardinalityType
<1>2. used.mishaps + n <= MaxMishaps /\ used' = [used EXCEPT !.mishaps = @ + n]
  BY DEF Tries
<1>3. UsedOK(used) /\ MaxMishaps \in Nat
  BY EnvelopeAssumption DEF TypeOK, UsedOK
<1> HIDE DEF n
<1> QED
  BY <1>1, <1>2, <1>3 DEF UsedOK

LEMMA SpendTyped ==
    ASSUME TypeOK, NEW u, UsedOK(u), u.mishaps = used.mishaps, Spend(u)
    PROVE  UsedOK(used') /\ used'.crashed = u.crashed
<1>1. u.mishaps < MaxMishaps /\ used' = [u EXCEPT !.mishaps = @ + 1] /\ MaxMishaps \in Nat
  BY EnvelopeAssumption DEF Spend
<1> QED
  BY <1>1 DEF UsedOK

-----------------------------------------------------------------------------
(* The commands: types, and that they start no cooling *)

(* The step from the thermostat t to u starts no cooling. *)
Gentle(t, u) == u = t \/ (u.mode = "cool" => ~CoolingOn(u, probe))

LEMMA GentleTwice ==
    ASSUME NEW t, NEW u, NEW w, Gentle(t, u), Gentle(u, w) PROVE Gentle(t, w)
  BY DEF Gentle

LEMMA SetTyped ==
    ASSUME NEW t \in Thermostats, NEW ok, NEW ha \in Modes, NEW s \in Setpoints
    PROVE  Set(t, ok, ha, s) \in Thermostats
  BY DEF Set, Thermostats

(* A thermostat parked an overshoot off the reading does not cool. *)
LEMMA ParkingIsGentle ==
    ASSUME TypeOK, NEW t, NEW ok, NEW ha, probe # None, Overshoot > 0
    PROVE  Gentle(t, Set(t, ok, ha, Parked(probe, ha)))
<1>1. probe \in Int
  BY Degrees DEF TypeOK, Readings
<1>2. ha = "cool" => Parked(probe, ha) = probe + Overshoot /\ ~(probe + Overshoot <= probe)
  BY <1>1, Degrees DEF Parked
<1> QED
  BY <1>2 DEF Gentle, Set, CoolingOn

LEMMA ModesOfDirections == \A d \in Directions : HaMode(d) \in Modes
  BY DEF Directions, HaMode, Modes

LEMMA ReadingParks ==
    ASSUME TypeOK, probe # None PROVE \A ha : Parked(probe, ha) \in Setpoints
  BY Settings DEF TypeOK, Readings

LEMMA Aborting ==
    ASSUME TypeOK, NEW t \in Thermostats, NEW ok
    PROVE  AbortParks(t, ok) \in Thermostats /\ (Overshoot > 0 => Gentle(t, AbortParks(t, ok)))
<1>1. CASE cycle = None \/ probe = None
  BY <1>1 DEF AbortParks, Gentle
<1>2. CASE ~(cycle = None \/ probe = None)
  <2>1. AbortParks(t, ok) = Set(t, ok, HaMode(cycle), Parked(probe, HaMode(cycle)))
    BY <1>2 DEF AbortParks
  <2>2. HaMode(cycle) \in Modes /\ Parked(probe, HaMode(cycle)) \in Setpoints
    BY <1>2, ModesOfDirections, ReadingParks DEF TypeOK
  <2> QED
    BY <1>2, <2>1, <2>2, SetTyped, ParkingIsGentle
<1> QED
  BY <1>1, <1>2

LEMMA Tidying ==
    ASSUME TypeOK, NEW t \in Thermostats, NEW last \in Directions \cup {None}, NEW late, NEW ok
    PROVE  Hygiene(t, last, late, ok) \in Thermostats /\ (Overshoot > 0 => Gentle(t, Hygiene(t, last, late, ok)))
<1>1. CASE late \/ last = None \/ t.mode = HaMode(last) \/ probe = None
  BY <1>1 DEF Hygiene, Gentle
<1>2. CASE ~(late \/ last = None \/ t.mode = HaMode(last) \/ probe = None)
  <2>1. Hygiene(t, last, late, ok) = Set(t, ok, HaMode(last), Parked(probe, HaMode(last)))
    BY <1>2 DEF Hygiene
  <2>2. HaMode(last) \in Modes /\ Parked(probe, HaMode(last)) \in Setpoints
    BY <1>2, ModesOfDirections, ReadingParks
  <2> QED
    BY <1>2, <2>1, <2>2, SetTyped, ParkingIsGentle
<1> QED
  BY <1>1, <1>2

LEMMA Resetting ==
    ASSUME TypeOK, NEW t \in Thermostats, NEW ok
    PROVE  Reset(t, t, ok) \in Thermostats /\ (Overshoot > 0 => Gentle(t, Reset(t, t, ok)))
<1>1. CASE probe = None \/ t.sp = Parked(probe, t.mode)
  BY <1>1 DEF Reset, Gentle
<1>2. CASE ~(probe = None \/ t.sp = Parked(probe, t.mode))
  <2>1. Reset(t, t, ok) = Set(t, ok, t.mode, Parked(probe, t.mode))
    BY <1>2 DEF Reset
  <2>2. t.mode \in Modes /\ Parked(probe, t.mode) \in Setpoints
    BY <1>2, ReadingParks DEF Thermostats
  <2> QED
    BY <1>2, <2>1, <2>2, SetTyped, ParkingIsGentle
<1> QED
  BY <1>1, <1>2

LEMMA Reasserting ==
    ASSUME TypeOK, cycle # None, NEW t \in Thermostats, NEW ok
    PROVE  /\ Reassert(t, ok) \in Thermostats
           /\ cycle = "heating" => Gentle(t, Reassert(t, ok))
<1>1. CASE Reassert(t, ok) = t
  BY <1>1 DEF Gentle
<1>2. CASE Reassert(t, ok) # t
  <2>1. sent # None /\ Reassert(t, ok) = Set(t, ok, HaMode(cycle), sent)
    BY <1>2 DEF Reassert
  <2>2. HaMode(cycle) \in Modes /\ sent \in Setpoints
    BY <2>1, ModesOfDirections, Settings DEF TypeOK
  <2>3. cycle = "heating" => HaMode(cycle) = "heat"
    BY DEF HaMode
  <2> QED
    BY <2>1, <2>2, <2>3, SetTyped DEF Gentle, Set, CoolingOn
<1> QED
  BY <1>1, <1>2

LEMMA Backstopping ==
    ASSUME TypeOK, NEW t \in Thermostats, NEW v, NEW ended, NEW ok
    PROVE  /\ Backstop(t, v, ended, ok) \in Thermostats
           /\ Gentle(t, Backstop(t, v, ended, ok)) \/ ~LockedOut(ended)
<1> DEFINE ha    == IF probe > MaxSp THEN "cool" ELSE "heat"
           bound == IF probe > MaxSp THEN MaxSp ELSE MinSp
<1>1. CASE ~BackstopFires \/ Holding(v, ha, bound, 0) \/ (ha = "cool" /\ LockedOut(ended))
  BY <1>1 DEF Backstop, Gentle
<1>2. CASE ~(~BackstopFires \/ Holding(v, ha, bound, 0) \/ (ha = "cool" /\ LockedOut(ended)))
  <2>1. Backstop(t, v, ended, ok) = Set(t, ok, ha, bound)
    BY <1>2 DEF Backstop
  <2>2. bound \in MinSp..MaxSp /\ ha \in Modes
    BY Degrees DEF Modes
  <2>3. bound \in Setpoints
    BY <2>2, Settings
  <2>4. ha # "cool" \/ ~LockedOut(ended)
    BY <1>2
  <2>5. ha # "cool" => Gentle(t, Set(t, ok, ha, bound))
    BY DEF Gentle, Set, CoolingOn
  <2>6. Set(t, ok, ha, bound) \in Thermostats
    BY <2>2, <2>3, SetTyped
  <2> HIDE DEF ha, bound
  <2> QED
    BY <2>1, <2>4, <2>5, <2>6
<1> QED
  BY <1>1, <1>2

(* What the hold may order.  A cooling order is either parked above a reading
   within the bounds or is the target, outside the lockout. *)
Orders == [sends : BOOLEAN, mode : Modes \cup {None}, sp : Setpoints, park : Parks]

Sound(h, ended) ==
    /\ h \in Orders
    /\ h.sends => h.mode \in Modes
    /\ h.sends /\ h.mode = "cool" =>
          /\ probe \in Int
          /\ \/ ~(probe > MaxSp) /\ h.sp \in Int /\ h.sp > probe
             \/ probe > MaxSp /\ h.sp = CoolTarget /\ ~LockedOut(ended)

LEMMA QuietOrder ==
    ASSUME TypeOK, NEW ended, NEW p \in Parks
    PROVE  Sound(Nothing, ended) /\ Sound([Nothing EXCEPT !.park = p], ended)
<1>1. Nothing \in Orders /\ [Nothing EXCEPT !.park = p] \in Orders
  BY Settings DEF Nothing, Orders, TypeOK, Parks
<1>2. ~Nothing.sends /\ ~[Nothing EXCEPT !.park = p].sends
  BY DEF Nothing
<1> QED
  BY <1>1, <1>2 DEF Sound

LEMMA SentOrder ==
    ASSUME TypeOK, NEW ha \in Modes, NEW s \in Setpoints, NEW p \in Parks
    PROVE  /\ Sends(ha, s) \in Orders /\ [Sends(ha, s) EXCEPT !.park = p] \in Orders
           /\ Sends(ha, s).mode = ha /\ Sends(ha, s).sp = s
           /\ [Sends(ha, s) EXCEPT !.park = p].mode = ha
           /\ [Sends(ha, s) EXCEPT !.park = p].sp = s
  BY DEF Nothing, Sends, Orders, TypeOK, Parks

LEMMA ParkingOrder ==
    ASSUME TypeOK, NEW v \in Thermostats, NEW last \in Directions \cup {None}, NEW ended,
           probe \in Temps, ~(probe > MaxSp)
    PROVE  Sound(HoldParked(v, last), ended)
<1> DEFINE ha   == ParkMode(last)
           keep == IF last = None THEN ha ELSE fallback
<1>1. ha \in {"cool", "heat"}
  BY Degrees DEF ParkMode, HaMode, TypeOK
<1>2. keep \in Parks /\ ha \in Modes
  BY <1>1 DEF TypeOK, Parks, Modes
<1>3. Cleared(ha) \in Setpoints /\ probe \in Int
  BY Settings, Degrees
<1>4. \/ HoldParked(v, last) = [Nothing EXCEPT !.park = keep]
      \/ HoldParked(v, last) = [Sends(ha, Cleared(ha)) EXCEPT !.park = keep]
  BY DEF HoldParked
<1> HIDE DEF ha, keep
<1>5. ha = "cool" => Cleared(ha) \in Int /\ Cleared(ha) > probe
  BY <1>3, Degrees DEF Cleared, Parked
<1>6. Sound([Nothing EXCEPT !.park = keep], ended)
  BY <1>2, QuietOrder
<1>7. Sound([Sends(ha, Cleared(ha)) EXCEPT !.park = keep], ended)
  BY <1>2, <1>3, <1>5, SentOrder DEF Sound
<1> QED
  BY <1>4, <1>6, <1>7

LEMMA HoldIsSound ==
    ASSUME TypeOK, NEW v \in Thermostats, NEW last \in Directions \cup {None}, NEW ended
    PROVE  Sound(Hold(v, ended, last), ended)
<1>1. Sound(Nothing, ended)
  BY QuietOrder, Zenon DEF Parks
<1>2. ASSUME NEW ha \in Modes \ {"cool"}, NEW s \in Setpoints
      PROVE  Sound(Sends(ha, s), ended)
  <2>1. None \in Parks
    BY DEF Parks
  <2>2. Sends(ha, s) \in Orders /\ Sends(ha, s).mode = ha
    BY <2>1, SentOrder
  <2> QED
    BY <2>2 DEF Sound
<1>3. CASE tc = "range"
  BY <1>1, <1>2, <1>3, Settings DEF Hold, HoldRange, Modes
<1>4. CASE tc # "range" /\ Ambient = None
  <2>1. v.sp \in Setpoints
    BY DEF Thermostats
  <2> QED
    BY <1>1, <1>2, <1>4, <2>1 DEF Hold, HoldBlind, Modes
<1>5. CASE tc # "range" /\ Ambient # None
  <2>1. probe \in Temps /\ probe \in Int
    BY <1>5, Degrees DEF Ambient, Accepts
  <2>2. CASE probe < MinSp
    <3>1. HeatTarget \in Setpoints
      BY Degrees, Settings
    <3> QED
      BY <1>1, <1>2, <1>5, <2>2, <3>1 DEF Hold, HoldHeat, Modes
  <2>3. CASE ~(probe < MinSp) /\ probe > MaxSp
    <3>1. Hold(v, ended, last) = HoldCool(v, ended)
      BY <1>5, <2>3 DEF Hold
    <3>2. HoldCool(v, ended) = Nothing \/ (HoldCool(v, ended) = Sends("cool", CoolTarget) /\ ~LockedOut(ended))
      BY DEF HoldCool
    <3>3. CoolTarget \in Setpoints /\ "cool" \in Modes /\ None \in Parks
      BY Degrees, Settings DEF Modes, Parks
    <3>4. /\ Sends("cool", CoolTarget) \in Orders /\ Sends("cool", CoolTarget).mode = "cool"
          /\ Sends("cool", CoolTarget).sp = CoolTarget
      BY <3>3, SentOrder
    <3>5. ~LockedOut(ended) => Sound(Sends("cool", CoolTarget), ended)
      BY <2>1, <2>3, <3>3, <3>4 DEF Sound
    <3> QED
      BY <1>1, <3>1, <3>2, <3>5
  <2>4. CASE ~(probe < MinSp) /\ ~(probe > MaxSp)
    <3>1. Hold(v, ended, last) = HoldParked(v, last)
      BY <1>5, <2>4 DEF Hold
    <3> QED
      BY <2>1, <2>4, <3>1, ParkingOrder
  <2> QED
    BY <2>2, <2>3, <2>4
<1> QED
  BY <1>3, <1>4, <1>5

(* Carried out, an order leaves a thermostat, and outside the lockout alone
   may it start cooling. *)
LEMMA Obeying ==
    ASSUME TypeOK, NEW t \in Thermostats, NEW h, NEW ended, NEW ok, Sound(h, ended)
    PROVE  /\ Obey(t, h, ok) \in Thermostats
           /\ Gentle(t, Obey(t, h, ok)) \/ ~LockedOut(ended)
<1>1. CASE ~h.sends
  BY <1>1 DEF Obey, Gentle
<1>2. CASE h.sends
  <2> DEFINE s == IF h.mode = "off" THEN t.sp ELSE h.sp
  <2>1. Obey(t, h, ok) = Set(t, ok, h.mode, s)
    BY <1>2 DEF Obey
  <2>2. h.mode \in Modes /\ s \in Setpoints
    BY <1>2 DEF Sound, Orders, Thermostats
  <2>3. CASE h.mode # "cool"
    <3>1. Gentle(t, Set(t, ok, h.mode, s))
      BY <2>3 DEF Gentle, Set
    <3> QED
      BY <2>1, <2>2, <3>1, SetTyped
  <2>4. CASE h.mode = "cool" /\ ~(probe > MaxSp)
    <3>1. s > probe /\ s \in Int /\ probe \in Int
      BY <1>2, <2>4 DEF Sound
    <3>2. Gentle(t, Set(t, ok, h.mode, s))
      BY <2>4, <3>1 DEF Gentle, Set, CoolingOn
    <3> QED
      BY <2>1, <2>2, <3>2, SetTyped
  <2>5. CASE h.mode = "cool" /\ probe > MaxSp
    <3>1. ~LockedOut(ended)
      BY <1>2, <2>5 DEF Sound
    <3> QED
      BY <2>1, <2>2, <3>1, SetTyped
  <2> QED
    BY <2>3, <2>4, <2>5
<1> QED
  BY <1>1, <1>2

(* An order that stops the compressor of a single setpoint is stamped. *)
LEMMA StopIsStamped ==
    ASSUME TypeOK, NEW h, NEW ended, NEW ok, Sound(h, ended), tc # "range",
           CoolingOn(th, probe), ~CoolingOn(Obey(th, h, ok), probe)
    PROVE  HoldStamps(h, th, ok)
<1>1. th.mode \in {"cool", "heat_cool"}
  BY DEF CoolingOn
<1>2. ok /\ h.sends
  BY DEF Obey, Set
<1>3. ASSUME h.mode = "cool", probe > MaxSp PROVE FALSE
  <2>1. Obey(th, h, ok) = [mode |-> "cool", sp |-> CoolTarget] /\ probe \in Int
    BY <1>2, <1>3 DEF Sound, Obey, Set
  <2>2. CoolTarget # None /\ CoolTarget <= probe /\ probe # None
    BY <1>3, <2>1, Degrees
  <2> QED
    BY <2>1, <2>2 DEF CoolingOn
<1> QED
  BY <1>1, <1>2, <1>3 DEF HoldStamps

-----------------------------------------------------------------------------
(* Types *)

HouseOK   == /\ vacation \in BOOLEAN /\ avail \in BOOLEAN /\ tc \in Strategies
             /\ probe \in Readings /\ room \in Temps \cup {None}
CycleOK   == /\ cycle \in Directions \cup {None} /\ hist \in Directions \cup {None}
             /\ begun \in 0..MaxAge /\ endAge \in 0..MinOff
             /\ sent \in MinSp..MaxSp \cup {None}
ClocksOK  == /\ good \in Temps \cup {None} /\ goodAge \in 0..GoodSpan
             /\ holdAge \in 0..MinOff
             /\ still \in [age : 0..MinOff, by : {"cycle", "hold"}, restarted : BOOLEAN]
MemoryOK  == /\ sustain \in Directions \cup {None} /\ fallback \in Parks /\ grace \in BOOLEAN
             /\ th \in Thermostats

LEMMA TypeParts ==
    /\ TypeOK <=> HouseOK /\ CycleOK /\ ClocksOK /\ MemoryOK /\ UsedOK(used)
    /\ (HouseOK /\ CycleOK /\ ClocksOK /\ MemoryOK)' /\ UsedOK(used') => TypeOK'
<1>1. TypeOK <=> HouseOK /\ CycleOK /\ ClocksOK /\ MemoryOK /\ UsedOK(used)
  BY DEF TypeOK, HouseOK, CycleOK, ClocksOK, MemoryOK, UsedOK, Parks, Thermostats, Modes
<1>2. (HouseOK /\ CycleOK /\ ClocksOK /\ MemoryOK)' /\ UsedOK(used') => TypeOK'
  BY DEF TypeOK, HouseOK, CycleOK, ClocksOK, MemoryOK, UsedOK, Parks, Thermostats, Modes
<1> QED
  BY <1>1, <1>2

LEMMA EndingTyped ==
    ASSUME TypeOK, NEW ended, ended => cycle # None, EndsCycle(ended)
    PROVE  CycleOK'
  BY Degrees DEF TypeOK, CycleOK, EndsCycle

LEMMA JudgingTyped ==
    ASSUME TypeOK, Judged \/ Unjudged
    PROVE  good' \in Temps \cup {None} /\ goodAge' \in 0..GoodSpan
  BY SpanIsNumber DEF TypeOK, Judged, Unjudged, Accepts

LEMMA SeeingTyped ==
    ASSUME TypeOK, NEW by \in {"cycle", "hold"}, CompressorSeen(by) \/ UNCHANGED still
    PROVE  still' \in [age : 0..MinOff, by : {"cycle", "hold"}, restarted : BOOLEAN]
<1>1. [age |-> 0, by |-> by, restarted |-> FALSE]
        \in [age : 0..MinOff, by : {"cycle", "hold"}, restarted : BOOLEAN]
  BY Degrees
<1> QED
  BY <1>1 DEF TypeOK, CompressorSeen

LEMMA LastTyped ==
    ASSUME TypeOK, NEW ended PROVE LastDirection(ended) \in Directions \cup {None}
  BY DEF TypeOK, LastDirection

LEMMA HoldingTyped ==
    ASSUME TypeOK, NEW ended, ended => cycle # None, NEW a, NEW b, ApplyHold(ended, a, b)
    PROVE  CycleOK' /\ ClocksOK' /\ fallback' \in Parks /\ th' \in Thermostats /\ UsedOK(used')
<1> DEFINE h  == Hold(th, ended, LastDirection(ended))
           t1 == IF ended THEN AbortParks(th, a) ELSE th
<1>1. th \in Thermostats
  BY TypeParts DEF MemoryOK
<1>2. Sound(h, ended)
  BY <1>1, LastTyped, HoldIsSound
<1>3. t1 \in Thermostats
  BY <1>1, Aborting
<1> HIDE DEF h, t1
<1>4. /\ Tries(a \/ ~ended, b \/ ~h.sends, TRUE)
      /\ th' = Obey(t1, h, b)
      /\ holdAge' = IF HoldStamps(h, th, b) THEN 0 ELSE holdAge
      /\ fallback' = h.park
      /\ Judged \/ Unjudged
      /\ EndsCycle(ended)
      /\ CompressorSeen("cycle") \/ CompressorSeen("hold") \/ UNCHANGED still
  BY DEF ApplyHold, h, t1
<1>5. th' \in Thermostats
  BY <1>2, <1>3, <1>4, Obeying
<1>6. fallback' \in Parks
  BY <1>2, <1>4 DEF Sound, Orders
<1>7. UsedOK(used')
  BY <1>4, TriesTyped
<1>8. holdAge' \in 0..MinOff
  BY <1>4, Degrees DEF TypeOK
<1>9. ClocksOK'
  BY <1>4, <1>8, JudgingTyped, SeeingTyped DEF ClocksOK
<1> QED
  BY <1>4, <1>5, <1>6, <1>7, <1>9, EndingTyped

LEMMA GuardingTyped ==
    ASSUME TypeOK, NEW ended, ended => cycle # None, NEW a, NEW b, NEW c, NEW due,
           Guard(ended, a, b, c, due)
    PROVE  CycleOK' /\ ClocksOK' /\ fallback' \in Parks /\ th' \in Thermostats /\ UsedOK(used')
           /\ grace' \in BOOLEAN
<1> DEFINE last == LastDirection(ended)
           t1   == IF ended THEN AbortParks(th, a) ELSE th
           t2   == Backstop(t1, th, ended, b)
           t3   == IF due THEN Hygiene(t2, last, BackstopFires \/ grace, c) ELSE t2
<1>1. th \in Thermostats /\ last \in Directions \cup {None}
  BY TypeParts, LastTyped DEF MemoryOK
<1>2. t1 \in Thermostats
  BY <1>1, Aborting
<1> HIDE DEF t1
<1>3. t2 \in Thermostats
  BY <1>2, Backstopping
<1> HIDE DEF t2, last
<1>4. t3 \in Thermostats
  BY <1>1, <1>3, Tidying
<1>5. /\ Tries(a \/ ~ended, b \/ ~BackstopFires, c \/ ~due)
      /\ th' = t3 /\ grace' = (grace /\ ~due) /\ fallback' = None
      /\ Judged /\ EndsCycle(ended) /\ holdAge' = holdAge
      /\ CompressorSeen("cycle") \/ UNCHANGED still
  BY DEF Guard, t1, t2, last
<1> HIDE DEF t3
<1>6. UsedOK(used')
  BY <1>5, TriesTyped
<1>7. ClocksOK'
  BY <1>5, JudgingTyped, SeeingTyped DEF ClocksOK, TypeOK
<1> QED
  BY <1>4, <1>5, <1>6, <1>7, EndingTyped DEF Parks

LEMMA ReconcilingTyped ==
    ASSUME TypeOK, NEW t \in Thermostats, NEW b, NEW c, NEW due, OnlyReconciles(t, b, c, due)
    PROVE  CycleOK' /\ ClocksOK' /\ th' \in Thermostats /\ UsedOK(used') /\ grace' \in BOOLEAN
<1>1. Tries(TRUE, b, c \/ ~due) /\ grace' = (grace /\ ~due)
  BY DEF OnlyReconciles
<1>2. UsedOK(used')
  BY <1>1, TriesTyped
<1>3. hist \in Directions \cup {None}
  BY DEF TypeOK
<1>4. th' \in Thermostats
  BY <1>3, Tidying DEF OnlyReconciles
<1>5. CycleOK' /\ ClocksOK'
  BY TypeParts DEF OnlyReconciles, CycleOK, ClocksOK
<1> QED
  BY <1>1, <1>2, <1>4, <1>5

LEMMA TimingOutTyped ==
    ASSUME TypeOK, cycle # None, NEW a, NEW c, NEW due, TimesOut(a, c, due)
    PROVE  CycleOK' /\ ClocksOK' /\ th' \in Thermostats /\ UsedOK(used') /\ grace' \in BOOLEAN
<1>1. /\ Tries(a, TRUE, c \/ ~due) /\ grace' = (grace /\ ~due)
      /\ EndsCycle(TRUE) /\ CompressorSeen("cycle")
      /\ UNCHANGED <<good, goodAge, holdAge>>
  BY DEF TimesOut
<1>2. UsedOK(used')
  BY <1>1, TriesTyped
<1>3. AbortParks(th, a) \in Thermostats /\ cycle \in Directions \cup {None}
  BY TypeParts, Aborting DEF MemoryOK, CycleOK
<1>4. th' \in Thermostats
  BY <1>3, Tidying DEF TimesOut
<1>5. CycleOK'
  BY <1>1, EndingTyped
<1>6. ClocksOK'
  BY <1>1, TypeParts, SeeingTyped DEF ClocksOK
<1> QED
  BY <1>1, <1>2, <1>4, <1>5, <1>6

LEMMA InitTyped == Init => TypeOK
<1> SUFFICES ASSUME Init PROVE TypeOK
  OBVIOUS
<1>1. HeatTarget \in Temps /\ None \in Setpoints
  BY Degrees, Settings
<1>2. HouseOK
  BY <1>1 DEF Init, HouseOK, Readings
<1>3. CycleOK
  BY Degrees DEF Init, CycleOK
<1>4. ClocksOK
  BY Degrees, SpanIsNumber DEF Init, ClocksOK, Rested
<1>5. MemoryOK
  BY <1>1, EnvelopeAssumption DEF Init, MemoryOK, Parks, Thermostats, Modes
<1>6. UsedOK(used)
  BY EnvelopeAssumption DEF Init, UsedOK
<1> QED
  BY <1>2, <1>3, <1>4, <1>5, <1>6, TypeParts

LEMMA BreachTyped ==
    /\ Breach \in Directions \cup {None} /\ Vote \in Directions \cup {None}
    /\ Inferred \in Directions \cup {None}
  BY DEF Breach, Vote, Inferred, Directions

LEMMA TickTyped == ASSUME TypeOK, Tick PROVE TypeOK'
<1>1. CASE TickHolds
  <2>1. UNCHANGED <<vacation, tc, house, grace>> /\ sustain' = None
    BY <1>1 DEF TickHolds
  <2>2. PICK a \in BOOLEAN, b \in BOOLEAN : ApplyHold(cycle # None, a, b)
    BY <1>1 DEF TickHolds
  <2>3. CycleOK' /\ ClocksOK' /\ fallback' \in Parks /\ th' \in Thermostats /\ UsedOK(used')
    BY <2>2, HoldingTyped
  <2>4. HouseOK' /\ MemoryOK'
    BY <2>1, <2>3, TypeParts DEF HouseOK, MemoryOK, house
  <2> QED
    BY <2>3, <2>4, TypeParts
<1>2. CASE TickReverts
  <2>1. /\ UNCHANGED <<vacation, tc, house, cycle, begun, sustain, good, goodAge, sent, endAge,
                       holdAge, hist, still>>
        /\ \/ th' = [th EXCEPT !.mode = "off"] /\ grace' = TRUE /\ UNCHANGED used
           \/ UNCHANGED <<th, grace>> /\ Tries(FALSE, TRUE, TRUE)
        /\ FallbackOutside
    BY <1>2 DEF TickReverts
  <2>2. UsedOK(used')
    BY <2>1, TriesTyped, TypeParts
  <2>3. HouseOK' /\ CycleOK' /\ ClocksOK'
    BY <2>1, TypeParts DEF HouseOK, CycleOK, ClocksOK, house
  <2>4. MemoryOK'
    BY <2>1, TypeParts DEF MemoryOK, FallbackOutside, Thermostats, Modes, Parks
  <2> QED
    BY <2>2, <2>3, <2>4, TypeParts
<1>3. CASE TickRests
  <2>1. UNCHANGED <<vacation, tc, house>> /\ sustain' = None
    BY <1>3 DEF TickRests
  <2>2. HouseOK'
    BY <2>1, TypeParts DEF HouseOK, house
  <2>3. CASE UNCHANGED <<th, cycle, begun, fallback, grace, good, goodAge, sent, endAge, holdAge,
                         hist, still, used>>
    <3>1. CycleOK' /\ ClocksOK' /\ MemoryOK' /\ UsedOK(used')
      BY <2>1, <2>3, TypeParts DEF CycleOK, ClocksOK, MemoryOK
    <3> QED
      BY <2>2, <3>1, TypeParts
  <2>4. CASE \E a, b \in BOOLEAN : ApplyHold(cycle # None, a, b) /\ UNCHANGED grace
    <3>1. CycleOK' /\ ClocksOK' /\ fallback' \in Parks /\ th' \in Thermostats /\ UsedOK(used')
      BY <2>4, HoldingTyped
    <3>2. MemoryOK'
      BY <2>1, <2>4, <3>1, TypeParts DEF MemoryOK
    <3> QED
      BY <2>2, <3>1, <3>2, TypeParts
  <2>5. CASE \E a, b, c, due \in BOOLEAN : Guard(cycle # None, a, b, c, due)
    <3>1. CycleOK' /\ ClocksOK' /\ fallback' \in Parks /\ th' \in Thermostats /\ UsedOK(used')
          /\ grace' \in BOOLEAN
      BY <2>5, GuardingTyped
    <3>2. MemoryOK'
      BY <2>1, <3>1 DEF MemoryOK
    <3> QED
      BY <2>2, <3>1, <3>2, TypeParts
  <2> QED
    BY <1>3, <2>3, <2>4, <2>5 DEF TickRests
<1>4. CASE TickBreached
  <2>1. UNCHANGED <<vacation, tc, house>> /\ sustain' = Breach /\ cycle = None
    BY <1>4 DEF TickBreached
  <2>2. HouseOK' /\ sustain' \in Directions \cup {None}
    BY <2>1, TypeParts, BreachTyped DEF HouseOK, house
  <2>3. FallbackOutside => fallback' \in Parks
    BY TypeParts DEF FallbackOutside, MemoryOK, Parks
  <2>4. CASE \E b, c, due \in BOOLEAN : \E t \in Thermostats :
               OnlyReconciles(t, b, c, due) /\ FallbackOutside
    <3>1. CycleOK' /\ ClocksOK' /\ th' \in Thermostats /\ UsedOK(used') /\ grace' \in BOOLEAN
      BY <2>4, ReconcilingTyped
    <3> QED
      BY <2>2, <2>3, <2>4, <3>1, TypeParts DEF MemoryOK
  <2>5. CASE \E b, due \in BOOLEAN : ApplyHold(FALSE, TRUE, b) /\ grace' = (grace /\ ~due)
    <3>1. CycleOK' /\ ClocksOK' /\ fallback' \in Parks /\ th' \in Thermostats /\ UsedOK(used')
      BY <2>5, HoldingTyped
    <3>2. grace' \in BOOLEAN
      BY <2>5
    <3> QED
      BY <2>2, <3>1, <3>2, TypeParts DEF MemoryOK
  <2>6. CASE \E b, c, due \in BOOLEAN : Guard(FALSE, TRUE, b, c, due)
    <3>1. CycleOK' /\ ClocksOK' /\ fallback' \in Parks /\ th' \in Thermostats /\ UsedOK(used')
          /\ grace' \in BOOLEAN
      BY <2>6, GuardingTyped
    <3> QED
      BY <2>2, <3>1, TypeParts DEF MemoryOK
  <2>7. CASE /\ cycle' = Inferred /\ begun' = 0
             /\ th' = [mode |-> HaMode(Inferred), sp |-> CycleSetpoint(Inferred)]
             /\ sent' = CycleSetpoint(Inferred)
             /\ FallbackOutside
             /\ CompressorSeen("cycle") \/ UNCHANGED still
             /\ UNCHANGED <<grace, good, goodAge, endAge, holdAge, hist, used>>
    <3>1. CycleSetpoint(Inferred) \in MinSp..MaxSp
      BY CycleSetpointInBounds
    <3>2. CycleSetpoint(Inferred) \in Setpoints
      BY <3>1, Settings
    <3>3. HaMode(Inferred) \in Modes
      BY DEF HaMode, Modes
    <3>4. th' \in Thermostats
      BY <2>7, <3>2, <3>3 DEF Thermostats
    <3>5. CycleOK'
      BY <2>7, <3>1, TypeParts, BreachTyped, Degrees DEF CycleOK
    <3>6. still' \in [age : 0..MinOff, by : {"cycle", "hold"}, restarted : BOOLEAN]
      BY <2>7, SeeingTyped
    <3>7. ClocksOK' /\ MemoryOK'
      BY <2>2, <2>3, <2>7, <3>4, <3>6, TypeParts DEF ClocksOK, MemoryOK
    <3> QED
      BY <2>2, <2>7, <3>5, <3>7, TypeParts
  <2>8. \A b \in BOOLEAN : Reset(th, th, b) \in Thermostats
    BY TypeParts, Resetting DEF MemoryOK
  <2>9. th \in Thermostats
    BY TypeParts DEF MemoryOK
  <2> QED
    BY <1>4, <2>4, <2>5, <2>6, <2>7, <2>8, <2>9 DEF TickBreached
<1>5. CASE TickServes
  <2>1. UNCHANGED <<vacation, tc, house>> /\ sustain' = Breach /\ cycle # None
    BY <1>5 DEF TickServes
  <2>2. HouseOK' /\ sustain' \in Directions \cup {None}
    BY <2>1, TypeParts, BreachTyped DEF HouseOK, house
  <2>3. CASE \E a, b, due \in BOOLEAN : ApplyHold(TRUE, a, b) /\ grace' = (grace /\ ~due)
    <3>1. CycleOK' /\ ClocksOK' /\ fallback' \in Parks /\ th' \in Thermostats /\ UsedOK(used')
      BY <2>1, <2>3, HoldingTyped
    <3>2. grace' \in BOOLEAN
      BY <2>3
    <3> QED
      BY <2>2, <3>1, <3>2, TypeParts DEF MemoryOK
  <2>4. CASE \E a, b, c, due \in BOOLEAN : Guard(TRUE, a, b, c, due)
    <3>1. CycleOK' /\ ClocksOK' /\ fallback' \in Parks /\ th' \in Thermostats /\ UsedOK(used')
          /\ grace' \in BOOLEAN
      BY <2>1, <2>4, GuardingTyped
    <3> QED
      BY <2>2, <3>1, TypeParts DEF MemoryOK
  <2>5. CASE /\ \E c, due \in BOOLEAN :
                  th' = (IF due THEN Reassert(th, c) ELSE th) /\ Tries(TRUE, TRUE, c \/ ~due)
             /\ FallbackOutside
             /\ UNCHANGED <<cycle, begun, grace, good, goodAge, sent, endAge, holdAge, hist, still>>
    <3>1. th' \in Thermostats
      BY <2>1, <2>5, TypeParts, Reasserting DEF MemoryOK
    <3>2. UsedOK(used')
      BY <2>5, TriesTyped
    <3>3. CycleOK' /\ ClocksOK'
      BY <2>5, TypeParts DEF CycleOK, ClocksOK
    <3>4. MemoryOK'
      BY <2>2, <2>5, <3>1, TypeParts DEF MemoryOK, FallbackOutside, Parks
    <3> QED
      BY <2>2, <3>2, <3>3, <3>4, TypeParts
  <2>6. CASE \E a, c, due \in BOOLEAN : TimesOut(a, c, due) /\ FallbackOutside
    <3>1. CycleOK' /\ ClocksOK' /\ th' \in Thermostats /\ UsedOK(used') /\ grace' \in BOOLEAN
      BY <2>1, <2>6, TimingOutTyped
    <3>2. fallback' \in Parks
      BY <2>6, TypeParts DEF FallbackOutside, MemoryOK, Parks
    <3> QED
      BY <2>2, <3>1, <3>2, TypeParts DEF MemoryOK
  <2> QED
    BY <1>5, <2>3, <2>4, <2>5, <2>6 DEF TickServes
<1> QED
  BY <1>1, <1>2, <1>3, <1>4, <1>5 DEF Tick

LEMMA WorldTyped == ASSUME TypeOK, TickUnavailable \/ World PROVE TypeOK'
<1>1. CASE TickUnavailable
  <2>1. CycleOK'
    BY <1>1, EndingTyped DEF TickUnavailable
  <2>2. HouseOK' /\ ClocksOK' /\ MemoryOK' /\ UsedOK(used')
    BY <1>1, TypeParts DEF TickUnavailable, HouseOK, ClocksOK, MemoryOK, house
  <2> QED
    BY <2>1, <2>2, TypeParts
<1>2. CASE Minute
  <2>1. /\ begun' = IF cycle = None THEN 0 ELSE Older(begun, MaxAge)
        /\ goodAge' = IF good = None THEN 0 ELSE Older(goodAge, GoodSpan)
        /\ endAge' = Older(endAge, MinOff) /\ holdAge' = Older(holdAge, MinOff)
        /\ still' = IF still.age + 1 < MinOff THEN [still EXCEPT !.age = @ + 1] ELSE Rested
        /\ UNCHANGED <<vacation, tc, th, cycle, sustain, fallback, grace, good, sent, hist>>
    BY <1>2 DEF Minute
  <2>2. ASSUME NEW cap \in Nat, NEW n \in 0..cap PROVE Older(n, cap) \in 0..cap
    BY DEF Older, Least
  <2>3. CycleOK'
    BY <2>1, <2>2, TypeParts, Degrees DEF CycleOK
  <2>4. still' \in [age : 0..MinOff, by : {"cycle", "hold"}, restarted : BOOLEAN]
    BY <2>1, TypeParts, Degrees DEF ClocksOK, Rested
  <2>5. ClocksOK'
    BY <2>1, <2>2, <2>4, TypeParts, Degrees, SpanIsNumber DEF ClocksOK
  <2>6. MemoryOK'
    BY <2>1, TypeParts DEF MemoryOK
  <2>7. CASE /\ probe' \in (IF probe \in Temps THEN Drift(probe) ELSE Temps)
             /\ room' \in (IF room \in Temps THEN Drift(room) ELSE Temps)
             /\ avail' = TRUE
             /\ UNCHANGED used
    <3>1. HouseOK'
      BY <2>1, <2>7, TypeParts DEF HouseOK, Drift, Readings
    <3> QED
      BY <2>3, <2>5, <2>6, <2>7, <3>1, TypeParts
  <2>8. CASE /\ \/ probe' \in Readings /\ UNCHANGED room /\ avail' = TRUE
                \/ room' = None /\ UNCHANGED probe /\ avail' = TRUE
                \/ avail' = FALSE /\ UNCHANGED <<probe, room>>
             /\ Spend(used)
    <3>1. HouseOK'
      BY <2>1, <2>8, TypeParts DEF HouseOK
    <3>2. UsedOK(used')
      BY <2>8, TypeParts, SpendTyped
    <3> QED
      BY <2>3, <2>5, <2>6, <3>1, <3>2, TypeParts
  <2> QED
    BY <1>2, <2>7, <2>8 DEF Minute
<1>3. CASE Meddle
  <2>1. th' \in Thermostats
    <3>1. MinSp \in Setpoints /\ MaxSp \in Setpoints
      BY Settings, Degrees
    <3> QED
      BY <1>3, <3>1, TypeParts DEF Meddle, MemoryOK, Thermostats, Modes
  <2>2. UsedOK(used')
    BY <1>3, TypeParts, SpendTyped DEF Meddle
  <2>3. HouseOK' /\ CycleOK' /\ ClocksOK' /\ MemoryOK'
    BY <1>3, <2>1, TypeParts DEF Meddle, HouseOK, CycleOK, ClocksOK, MemoryOK, house, engine
  <2> QED
    BY <2>2, <2>3, TypeParts
<1>4. CASE SwitchVacation
  <2>1. UsedOK(used')
    BY <1>4, TypeParts, SpendTyped DEF SwitchVacation
  <2>2. /\ vacation' = ~vacation
        /\ UNCHANGED <<tc, house, sustain, fallback, grace, good, goodAge, holdAge>>
    BY <1>4 DEF SwitchVacation
  <2>3. HouseOK'
    BY <2>2, TypeParts DEF HouseOK, house
  <2>4. CycleOK' /\ th' \in Thermostats
        /\ still' \in [age : 0..MinOff, by : {"cycle", "hold"}, restarted : BOOLEAN]
    <3>1. CASE cycle = None
      BY <1>4, <3>1, TypeParts DEF SwitchVacation, CycleOK, MemoryOK, ClocksOK
    <3>2. CASE cycle # None
      <4>1. /\ \E ok \in BOOLEAN : th' = IF avail THEN AbortParks(th, ok) ELSE th
            /\ EndsCycle(TRUE) /\ CompressorSeen("cycle")
        BY <1>4, <3>2 DEF SwitchVacation
      <4>2. CycleOK'
        BY <3>2, <4>1, EndingTyped
      <4>3. th' \in Thermostats
        BY <4>1, Aborting, TypeParts DEF MemoryOK
      <4> QED
        BY <4>1, <4>2, <4>3, SeeingTyped
    <3> QED
      BY <3>1, <3>2
  <2>5. ClocksOK' /\ MemoryOK'
    BY <2>2, <2>4, TypeParts DEF ClocksOK, MemoryOK
  <2> QED
    BY <2>1, <2>3, <2>4, <2>5, TypeParts
<1>5. CASE EditZone
  <2>1. UsedOK(used')
    BY <1>5, TypeParts, SpendTyped DEF EditZone
  <2>2. HouseOK' /\ CycleOK' /\ ClocksOK' /\ MemoryOK'
    BY <1>5, TypeParts DEF EditZone, HouseOK, CycleOK, ClocksOK, MemoryOK, house, engine
  <2> QED
    BY <2>1, <2>2, TypeParts
<1>6. CASE Restart
  <2>1. UsedOK([used EXCEPT !.crashed = TRUE]) /\ [used EXCEPT !.crashed = TRUE].mishaps = used.mishaps
    BY TypeParts DEF UsedOK
  <2>2. UsedOK(used')
    BY <1>6, <2>1, SpendTyped DEF Restart
  <2>3. Rested \in [age : 0..MinOff, by : {"cycle", "hold"}, restarted : BOOLEAN]
        /\ [age |-> 0, by |-> "cycle", restarted |-> FALSE]
             \in [age : 0..MinOff, by : {"cycle", "hold"}, restarted : BOOLEAN]
    BY Degrees DEF Rested
  <2>4. still' \in [age : 0..MinOff, by : {"cycle", "hold"}, restarted : BOOLEAN]
    BY <1>6, <2>3, TypeParts DEF Restart, ClocksOK
  <2>5. HouseOK'
    BY <1>6, TypeParts DEF Restart, HouseOK, house
  <2>6. CycleOK' /\ th' \in Thermostats
    <3>1. CASE UNCHANGED <<th, cycle, begun, endAge, hist>> /\ sent' = None
      BY <3>1, TypeParts DEF CycleOK, MemoryOK
    <3>2. CASE Contradicted /\ (\E ok \in BOOLEAN : th' = AbortParks(th, ok)) /\ EndsCycle(TRUE)
      <4>1. cycle # None
        BY <3>2, Degrees DEF Contradicted, Directions
      <4>2. CycleOK'
        BY <3>2, <4>1, EndingTyped
      <4> QED
        BY <3>2, <4>2, Aborting, TypeParts DEF MemoryOK
    <3> QED
      BY <1>6, <3>1, <3>2 DEF Restart
  <2>7. ClocksOK'
    BY <1>6, <2>4, TypeParts, Degrees, SpanIsNumber DEF Restart, ClocksOK
  <2>8. MemoryOK'
    BY <1>6, <2>6, TypeParts DEF Restart, MemoryOK, Parks
  <2> QED
    BY <2>2, <2>5, <2>6, <2>7, <2>8, TypeParts
<1> QED
  BY <1>1, <1>2, <1>3, <1>4, <1>5, <1>6 DEF World

LEMMA StutterTyped == ASSUME TypeOK, UNCHANGED vars PROVE TypeOK'
<1>1. HouseOK' /\ CycleOK' /\ ClocksOK' /\ MemoryOK' /\ UsedOK(used')
  BY TypeParts DEF HouseOK, CycleOK, ClocksOK, MemoryOK, vars, house, engine
<1> QED
  BY <1>1, TypeParts

(* A setpoint commanded within the bounds, counters within their range, the
   modes and records of the hold: every variable keeps its type for every
   range of temperatures and all bounds. *)
THEOREM EnvelopeTypeCorrect == Spec => []TypeOK
<1>1. TypeOK /\ [Next]_vars => TypeOK'
  BY TickTyped, WorldTyped, StutterTyped DEF Next
<1> QED
  BY InitTyped, <1>1, PTL DEF Spec

-----------------------------------------------------------------------------
(* The rest of the compressor *)

MayCool == still.age >= MinOff \/ (still.restarted /\ still.by = "hold")

(* Every stop not yet rested from is on one of the two clocks: the end of a
   cycle or, before a restart, the stamp of the hold.  What a heating cycle
   stopped gets its stamp when that cycle ends, and a cooling cycle runs only
   when the compressor may. *)
Counted ==
    /\ still.by = "cycle" /\ still.age < MinOff => endAge <= still.age \/ cycle = "heating"
    /\ still.by = "hold" /\ ~still.restarted => holdAge <= still.age
    /\ cycle = "cooling" => MayCool

NoEarlyStart == Starts /\ th'.mode = "cool" => MayCool

LEMMA GentleStartsNothing == ASSUME Gentle(th, th'), UNCHANGED house PROVE NoEarlyStart
<1>1. probe' = probe
  BY DEF house
<1> QED
  BY <1>1 DEF NoEarlyStart, Starts, Gentle

(* Outside the lockout every stop has been rested from. *)
LEMMA LockoutCounts ==
    ASSUME TypeOK, Counted, NEW ended \in BOOLEAN, ended <=> cycle # None, ~LockedOut(ended)
    PROVE  MayCool
<1>1. /\ MinOff \in Nat /\ endAge \in Nat /\ holdAge \in Nat /\ still.age \in Nat
      /\ still.by \in {"cycle", "hold"} /\ still.restarted \in BOOLEAN
  BY Degrees DEF TypeOK
<1>2. CASE ended
  <2>1. ~(MinOff > 0)
    BY <1>2 DEF LockedOut
  <2> QED
    BY <1>1, <2>1 DEF MayCool
<1>3. CASE ~ended
  <2>1. ~(endAge < MinOff) /\ ~(holdAge < MinOff)
    BY DEF LockedOut
  <2>2. cycle # "heating"
    BY <1>3, Degrees DEF Directions
  <2> QED
    BY <1>1, <2>1, <2>2 DEF MayCool, Counted
<1> QED
  BY <1>2, <1>3

LEMMA StartingCounts ==
    ASSUME TypeOK, Counted, UNCHANGED house, NEW ended \in BOOLEAN, ended <=> cycle # None,
           Gentle(th, th') \/ ~LockedOut(ended)
    PROVE  NoEarlyStart
  BY LockoutCounts, GentleStartsNothing DEF NoEarlyStart

(* The end of a cycle is stamped: nothing is left to count from before it. *)
LEMMA EndingCounts ==
    ASSUME TypeOK, Counted, NEW ended, ended, EndsCycle(ended),
           CompressorSeen("cycle") \/ UNCHANGED still,
           holdAge' = 0 \/ holdAge' = holdAge
    PROVE  Counted'
<1>1. cycle' = None /\ endAge' = 0 /\ None \notin {"cooling", "heating"}
  BY Degrees DEF EndsCycle, Directions
<1>2. still' = still \/ still' = [age |-> 0, by |-> "cycle", restarted |-> FALSE]
  BY DEF CompressorSeen
<1>3. still.age \in Nat /\ holdAge \in Nat /\ MinOff \in Nat
  BY Degrees DEF TypeOK
<1> QED
  BY <1>1, <1>2, <1>3 DEF Counted

LEMMA HoldingCounts ==
    ASSUME Overshoot > 0, TypeOK, Counted, UNCHANGED house,
           NEW ended \in BOOLEAN, ended <=> cycle # None, NEW a, NEW b, ApplyHold(ended, a, b)
    PROVE  Counted' /\ NoEarlyStart
<1> DEFINE h  == Hold(th, ended, LastDirection(ended))
           t1 == IF ended THEN AbortParks(th, a) ELSE th
<1>1. th \in Thermostats
  BY TypeParts DEF MemoryOK
<1>2. Sound(h, ended)
  BY <1>1, LastTyped, HoldIsSound
<1>3. t1 \in Thermostats /\ Gentle(th, t1)
  BY <1>1, Aborting DEF Gentle
<1>4. ~ended => t1 = th
  OBVIOUS
<1> HIDE DEF h, t1
<1>5. /\ th' = Obey(t1, h, b)
      /\ holdAge' = IF HoldStamps(h, th, b) THEN 0 ELSE holdAge
      /\ EndsCycle(ended)
      /\ ended => CompressorSeen("cycle")
      /\ ~ended /\ tc = "range" => UNCHANGED still
      /\ ~ended /\ tc # "range" => CompressorSeen("hold")
  BY DEF ApplyHold, h, t1
<1>6. Gentle(t1, th') \/ ~LockedOut(ended)
  BY <1>2, <1>3, <1>5, Obeying
<1>7. Gentle(th, th') \/ ~LockedOut(ended)
  BY <1>3, <1>6, GentleTwice
<1>8. NoEarlyStart
  BY <1>7, StartingCounts
<1>9. CASE ended
  BY <1>5, <1>8, <1>9, EndingCounts
<1>10. CASE ~ended
  <2>1. /\ cycle' = cycle /\ endAge' = endAge /\ holdAge' \in {0, holdAge}
        /\ still.age \in Nat /\ holdAge \in Nat /\ cycle # "cooling"
    BY <1>5, <1>10, Degrees DEF EndsCycle, TypeOK, Directions
  <2>2. CASE still' = still
    BY <1>8, <2>1, <2>2 DEF Counted, MayCool
  <2>3. CASE still' # still
    <3>1. tc # "range" /\ CompressorSeen("hold")
      BY <1>5, <1>10, <2>3
    <3>2. /\ CoolingOn(th, probe) /\ ~CoolingOn(th', probe)
          /\ still' = [age |-> 0, by |-> "hold", restarted |-> FALSE]
      <4>1. probe' = probe
        BY DEF house
      <4> QED
        BY <2>3, <3>1, <4>1 DEF CompressorSeen
    <3>3. HoldStamps(h, th, b)
      BY <1>2, <1>4, <1>5, <1>10, <3>1, <3>2, StopIsStamped
    <3>4. holdAge' = 0
      BY <1>5, <3>3
    <3> QED
      BY <1>8, <2>1, <3>2, <3>4 DEF Counted, MayCool
  <2> QED
    BY <2>2, <2>3
<1> QED
  BY <1>9, <1>10

LEMMA GuardingCounts ==
    ASSUME Overshoot > 0, TypeOK, Counted, UNCHANGED house,
           NEW ended \in BOOLEAN, ended <=> cycle # None,
           NEW a, NEW b, NEW c, NEW due, Guard(ended, a, b, c, due)
    PROVE  Counted' /\ NoEarlyStart
<1> DEFINE last == LastDirection(ended)
           t1   == IF ended THEN AbortParks(th, a) ELSE th
           t2   == Backstop(t1, th, ended, b)
           t3   == IF due THEN Hygiene(t2, last, BackstopFires \/ grace, c) ELSE t2
<1>1. th \in Thermostats /\ last \in Directions \cup {None}
  BY TypeParts, LastTyped DEF MemoryOK
<1>2. t1 \in Thermostats /\ Gentle(th, t1)
  BY <1>1, Aborting DEF Gentle
<1> HIDE DEF t1
<1>3. t2 \in Thermostats /\ (Gentle(t1, t2) \/ ~LockedOut(ended))
  BY <1>2, Backstopping
<1> HIDE DEF t2, last
<1>4. Gentle(t2, t3)
  BY <1>1, <1>3, Tidying DEF Gentle
<1>5. /\ th' = t3 /\ EndsCycle(ended) /\ holdAge' = holdAge
      /\ IF ended THEN CompressorSeen("cycle") ELSE UNCHANGED still
  BY DEF Guard, t1, t2, last
<1> HIDE DEF t3
<1>6. Gentle(th, th') \/ ~LockedOut(ended)
  BY <1>2, <1>3, <1>4, <1>5, GentleTwice
<1>7. NoEarlyStart
  BY <1>6, StartingCounts
<1>8. CASE ended
  BY <1>5, <1>7, <1>8, EndingCounts
<1>9. CASE ~ended
  <2>1. UNCHANGED <<cycle, endAge, holdAge, still>>
    BY <1>5, <1>9 DEF EndsCycle
  <2> QED
    BY <1>7, <2>1 DEF Counted, MayCool
<1> QED
  BY <1>8, <1>9

LEMMA ReconcilingCounts ==
    ASSUME Overshoot > 0, TypeOK, Counted, UNCHANGED house, NEW t \in Thermostats, Gentle(th, t),
           NEW b, NEW c, NEW due, OnlyReconciles(t, b, c, due)
    PROVE  Counted' /\ NoEarlyStart
<1>1. hist \in Directions \cup {None}
  BY DEF TypeOK
<1>2. Gentle(t, th')
  BY <1>1, Tidying DEF OnlyReconciles, Gentle
<1>3. NoEarlyStart
  BY <1>2, GentleTwice, GentleStartsNothing
<1>4. Counted'
  BY DEF OnlyReconciles, Counted, MayCool
<1> QED
  BY <1>3, <1>4

LEMMA TimingOutCounts ==
    ASSUME Overshoot > 0, TypeOK, Counted, UNCHANGED house, cycle # None,
           NEW a, NEW c, NEW due, TimesOut(a, c, due)
    PROVE  Counted' /\ NoEarlyStart
<1>1. /\ EndsCycle(TRUE) /\ CompressorSeen("cycle") /\ holdAge' = holdAge
  BY DEF TimesOut
<1>2. AbortParks(th, a) \in Thermostats /\ Gentle(th, AbortParks(th, a))
      /\ cycle \in Directions \cup {None}
  BY TypeParts, Aborting DEF MemoryOK, CycleOK
<1>3. Gentle(AbortParks(th, a), th')
  BY <1>2, Tidying DEF TimesOut, Gentle
<1>4. NoEarlyStart
  BY <1>2, <1>3, GentleTwice, GentleStartsNothing
<1>5. Counted'
  BY <1>1, EndingCounts
<1> QED
  BY <1>4, <1>5

LEMMA TickCounts == ASSUME Overshoot > 0, TypeOK, Counted, Tick PROVE Counted' /\ NoEarlyStart
<1>1. UNCHANGED house
  BY DEF Tick, TickHolds, TickReverts, TickRests, TickBreached, TickServes
<1>2. (cycle # None) \in BOOLEAN
  OBVIOUS
<1>3. CASE TickHolds
  BY <1>1, <1>3, HoldingCounts DEF TickHolds
<1>4. CASE TickReverts
  <2>1. UNCHANGED <<cycle, endAge, holdAge, still>> /\ (th' = th \/ th'.mode = "off")
    BY <1>4, TypeParts DEF TickReverts, MemoryOK, Thermostats
  <2>2. Gentle(th, th')
    BY <2>1 DEF Gentle
  <2> QED
    BY <1>1, <2>1, <2>2, GentleStartsNothing DEF Counted, MayCool
<1>5. CASE TickRests
  <2>1. CASE UNCHANGED <<th, cycle, begun, fallback, grace, good, goodAge, sent, endAge, holdAge,
                         hist, still, used>>
    <3>1. Gentle(th, th')
      BY <2>1 DEF Gentle
    <3> QED
      BY <1>1, <2>1, <3>1, GentleStartsNothing DEF Counted, MayCool
  <2>2. CASE \E a, b \in BOOLEAN : ApplyHold(cycle # None, a, b)
    BY <1>1, <2>2, HoldingCounts
  <2>3. CASE \E a, b, c, due \in BOOLEAN : Guard(cycle # None, a, b, c, due)
    BY <1>1, <2>3, GuardingCounts
  <2> QED
    BY <1>5, <2>1, <2>2, <2>3 DEF TickRests
<1>6. CASE TickBreached
  <2>1. cycle = None /\ th \in Thermostats
    BY <1>6, TypeParts DEF TickBreached, MemoryOK
  <2>2. \A b \in BOOLEAN : Reset(th, th, b) \in Thermostats /\ Gentle(th, Reset(th, th, b))
    BY <2>1, Resetting
  <2>3. Gentle(th, th)
    BY DEF Gentle
  <2>4. CASE \E b, c, due \in BOOLEAN : OnlyReconciles(Reset(th, th, b), b, c, due)
    BY <1>1, <2>2, <2>4, ReconcilingCounts
  <2>5. CASE \E c, due \in BOOLEAN : OnlyReconciles(th, TRUE, c, due)
    BY <1>1, <2>1, <2>3, <2>5, ReconcilingCounts
  <2>6. CASE \E b \in BOOLEAN : ApplyHold(FALSE, TRUE, b)
    BY <1>1, <2>1, <2>6, HoldingCounts
  <2>7. CASE \E b, c, due \in BOOLEAN : Guard(FALSE, TRUE, b, c, due)
    BY <1>1, <2>1, <2>7, GuardingCounts
  <2>8. CASE /\ ~LockedOut(FALSE) /\ cycle' = Inferred
             /\ IF Inferred = "heating" THEN CompressorSeen("cycle") ELSE UNCHANGED still
             /\ UNCHANGED <<endAge, holdAge>>
    <3>1. MayCool
      BY <2>1, <2>8, LockoutCounts
    <3>2. still' = still \/ (cycle' = "heating" /\ still' = [age |-> 0, by |-> "cycle", restarted |-> FALSE])
      BY <2>8 DEF CompressorSeen
    <3>3. cycle # "heating"
      BY <2>1, Degrees DEF Directions
    <3>4. Counted'
      BY <2>8, <3>1, <3>2, <3>3 DEF Counted, MayCool
    <3> QED
      BY <3>1, <3>4 DEF NoEarlyStart
  <2> QED
    BY <1>6, <2>4, <2>5, <2>6, <2>7, <2>8 DEF TickBreached
<1>7. CASE TickServes
  <2>1. cycle # None
    BY <1>7 DEF TickServes
  <2>2. CASE \E a, b \in BOOLEAN : ApplyHold(TRUE, a, b)
    BY <1>1, <2>1, <2>2, HoldingCounts
  <2>3. CASE \E a, b, c, due \in BOOLEAN : Guard(TRUE, a, b, c, due)
    BY <1>1, <2>1, <2>3, GuardingCounts
  <2>4. CASE /\ \E c, due \in BOOLEAN : th' = (IF due THEN Reassert(th, c) ELSE th)
             /\ UNCHANGED <<cycle, endAge, holdAge, still>>
    <3>1. cycle = "heating" => Gentle(th, th')
      BY <2>1, <2>4, TypeParts, Reasserting DEF MemoryOK, Gentle
    <3>2. cycle = "cooling" => MayCool
      BY DEF Counted
    <3>3. NoEarlyStart
      BY <1>1, <2>1, <3>1, <3>2, GentleStartsNothing DEF NoEarlyStart, TypeOK, Directions
    <3>4. Counted'
      BY <2>4 DEF Counted, MayCool
    <3> QED
      BY <3>3, <3>4
  <2>5. CASE \E a, c, due \in BOOLEAN : TimesOut(a, c, due)
    BY <1>1, <2>1, <2>5, TimingOutCounts
  <2> QED
    BY <1>7, <2>2, <2>3, <2>4, <2>5 DEF TickServes
<1> QED
  BY <1>3, <1>4, <1>5, <1>6, <1>7 DEF Tick

LEMMA WorldCounts == ASSUME TypeOK, Counted, TickUnavailable \/ World PROVE Counted'
<1>1. CASE TickUnavailable
  <2>1. cycle # None /\ EndsCycle(TRUE) /\ UNCHANGED still /\ holdAge' = holdAge
    BY <1>1 DEF TickUnavailable
  <2> QED
    BY <2>1, EndingCounts
<1>2. CASE Minute
  <2>1. /\ endAge' = Older(endAge, MinOff) /\ holdAge' = Older(holdAge, MinOff)
        /\ still' = IF still.age + 1 < MinOff THEN [still EXCEPT !.age = @ + 1] ELSE Rested
        /\ cycle' = cycle
    BY <1>2 DEF Minute
  <2>2. /\ endAge \in 0..MinOff /\ holdAge \in 0..MinOff /\ MinOff \in Nat
        /\ still \in [age : 0..MinOff, by : {"cycle", "hold"}, restarted : BOOLEAN]
    BY Degrees DEF TypeOK
  <2>3. CASE still.age + 1 < MinOff
    <3>1. /\ still'.age = still.age + 1 /\ still'.by = still.by
          /\ still'.restarted = still.restarted
      BY <2>1, <2>2, <2>3
    <3>2. (endAge <= still.age => endAge' <= still'.age)
          /\ (holdAge <= still.age => holdAge' <= still'.age)
      BY <2>1, <2>2, <3>1 DEF Older, Least
    <3> QED
      BY <2>1, <2>2, <2>3, <3>1, <3>2 DEF Counted, MayCool
  <2>4. CASE ~(still.age + 1 < MinOff)
    <3>1. still'.age = MinOff /\ still'.by = "cycle"
      BY <2>1, <2>4 DEF Rested
    <3> QED
      BY <2>2, <3>1 DEF Counted, MayCool
  <2> QED
    BY <2>3, <2>4
<1>3. CASE Meddle \/ EditZone
  BY <1>3 DEF Meddle, EditZone, engine, Counted, MayCool
<1>4. CASE SwitchVacation
  <2>1. holdAge' = holdAge
    BY <1>4 DEF SwitchVacation
  <2>2. CASE cycle = None
    <3>1. UNCHANGED <<cycle, endAge, still>>
      BY <1>4, <2>2 DEF SwitchVacation
    <3> QED
      BY <2>1, <3>1 DEF Counted, MayCool
  <2>3. CASE cycle # None
    <3>1. EndsCycle(TRUE) /\ CompressorSeen("cycle")
      BY <1>4, <2>3 DEF SwitchVacation
    <3> QED
      BY <2>1, <3>1, EndingCounts
  <2> QED
    BY <2>2, <2>3
<1>5. CASE Restart
  <2>1. /\ \/ still' = [age |-> 0, by |-> "cycle", restarted |-> FALSE] /\ th' # th
           \/ still' = IF still = Rested THEN Rested ELSE [still EXCEPT !.restarted = TRUE]
        /\ UNCHANGED house
    BY <1>5 DEF Restart
  <2>2. /\ MinOff \in Nat /\ None # "cooling"
        /\ still \in [age : 0..MinOff, by : {"cycle", "hold"}, restarted : BOOLEAN]
    BY Degrees DEF TypeOK, Directions
  <2>3. UNCHANGED <<th, cycle, endAge>> \/ (cycle' = None /\ endAge' = 0)
    BY <1>5 DEF Restart, EndsCycle
  <2>4. CASE still' = [age |-> 0, by |-> "cycle", restarted |-> FALSE] /\ th' # th
    BY <2>2, <2>3, <2>4 DEF Counted
  <2>5. CASE still = Rested /\ still' = Rested
    <3>1. still'.age = MinOff /\ still'.by = "cycle"
      BY <2>5 DEF Rested
    <3> QED
      BY <2>2, <3>1 DEF Counted, MayCool
  <2>6. CASE still' = [still EXCEPT !.restarted = TRUE]
    <3>1. still'.age = still.age /\ still'.by = still.by /\ still'.restarted
      BY <2>2, <2>6
    <3> QED
      BY <2>2, <2>3, <3>1 DEF Counted, MayCool
  <2> QED
    BY <2>1, <2>4, <2>5, <2>6
<1> QED
  BY <1>1, <1>2, <1>3, <1>4, <1>5 DEF World

(* No tick starts the compressor before its rest is over, whichever part of
   the engine stopped it, for every rest, deadband and range and every
   overshoot but zero: the lockout's two clocks count every stop there is.
   With an overshoot of zero the parks themselves may start it, and the
   statement is false. *)
THEOREM OffTimeKept == Overshoot > 0 => (Spec => OffTimeKeptUnbroken)
<1> SUFFICES ASSUME Overshoot > 0 PROVE Spec => OffTimeKeptUnbroken
  OBVIOUS
<1>1. Init => Counted
  <2> SUFFICES ASSUME Init PROVE Counted
    OBVIOUS
  <2>1. cycle = None /\ still = Rested /\ MinOff \in Nat /\ None \notin Directions
    BY Degrees DEF Init
  <2> QED
    BY <2>1 DEF Counted, MayCool, Rested, Directions
<1>2. TypeOK /\ Counted /\ [Next]_vars => Counted'
  <2>1. ASSUME Counted, UNCHANGED vars PROVE Counted'
    BY <2>1 DEF Counted, MayCool, vars, engine
  <2> QED
    BY <2>1, TickCounts, WorldCounts DEF Next
<1>3. TypeOK /\ Counted /\ [Next]_vars
        => [Starts /\ th'.mode = "cool" /\ Tick =>
              still.age >= MinOff \/ (still.restarted /\ still.by = "hold")]_vars
  BY TickCounts DEF NoEarlyStart, MayCool
<1> QED
  BY <1>1, <1>2, <1>3, EnvelopeTypeCorrect, PTL DEF Spec, OffTimeKeptUnbroken

-----------------------------------------------------------------------------
(* The latch of a room out of bounds *)

(* A running cycle is of the direction its room is latched in; outside the
   vacation only a restart drops the latch of a running cycle. *)
Latched ==
    cycle # None => /\ sustain \in {cycle, None}
                    /\ ~vacation /\ ~used.crashed => sustain = cycle

Recovering ==
    /\ cycle' \notin {cycle, None} => sustain' = cycle'
    /\ /\ cycle # None /\ room # None /\ None \in {cycle', sustain'} /\ begun < Timeout
       /\ \/ sustain # None
          \/ cycle' = None /\ ~vacation /\ ~used.crashed
       /\ ~(vacation /\ ~Safety)
       => AtTarget(cycle)

(* The vote never contradicts the breach and, between bounds a deadband apart,
   is silent only on a room that is latched already. *)
LEMMA VoteFollowsBreach ==
    ASSUME TypeOK, Breach # None
    PROVE  /\ Vote \in {Breach, None}
           /\ Vote = None /\ Deadband <= MaxSp - MinSp => sustain = Breach
<1>1. room \in Int /\ room # None
  BY Degrees DEF TypeOK, Breach
<1>2. /\ MinSp \in Int /\ MaxSp \in Int /\ CoolTarget \in MinSp..MaxSp
      /\ HeatTarget \in MinSp..MaxSp /\ Deadband \in Nat
      /\ Deadband <= MaxSp - MinSp =>
           CoolTarget = MaxSp - Deadband /\ HeatTarget = MinSp + Deadband
  BY Degrees DEF CoolTarget, HeatTarget, Least, Greatest
<1>3. CASE room > (IF sustain = "cooling" THEN CoolTarget ELSE MaxSp)
  <2>1. Breach = "cooling"
    BY <1>1, <1>3 DEF Breach
  <2>2. Target(Breach) = CoolTarget
    BY <2>1 DEF Target
  <2> QED
    BY <1>1, <1>2, <1>3, <2>1, <2>2 DEF Vote
<1>4. CASE ~(room > (IF sustain = "cooling" THEN CoolTarget ELSE MaxSp))
  <2>1. Breach = "heating" /\ room < (IF sustain = "heating" THEN HeatTarget ELSE MinSp)
    BY <1>1, <1>4 DEF Breach
  <2>2. Target(Breach) = HeatTarget
    BY <2>1 DEF Target
  <2> QED
    BY <1>1, <1>2, <2>1, <2>2 DEF Vote
<1> QED
  BY <1>3, <1>4

(* A latched room with a reading and no breach in its own direction has its
   target. *)
LEMMA NoBreachIsTarget ==
    ASSUME TypeOK, sustain # None, room # None, Breach # sustain PROVE AtTarget(sustain)
<1>1. room \in Int /\ MinSp \in Int /\ MaxSp \in Int
      /\ CoolTarget \in MinSp..MaxSp /\ HeatTarget \in MinSp..MaxSp
  BY Degrees DEF TypeOK
<1>2. sustain \in {"cooling", "heating"}
  BY DEF TypeOK, Directions
<1> QED
  BY <1>1, <1>2 DEF Breach, AtTarget

LEMMA EndedIsNone ==
    ASSUME NEW ended, ended <=> cycle # None, EndsCycle(ended) PROVE cycle' = None
  BY DEF EndsCycle

LEMMA TickRecovers ==
    ASSUME Deadband <= MaxSp - MinSp, TypeOK, Latched, Tick PROVE Latched' /\ Recovering
<1>1. CASE TickHolds
  <2>1. EndsCycle(cycle # None)
    BY <1>1 DEF TickHolds, ApplyHold
  <2>2. cycle' = None
    BY <2>1, EndedIsNone
  <2>3. vacation /\ ~Safety
    BY <1>1 DEF TickHolds
  <2> QED
    BY <2>2, <2>3 DEF Latched, Recovering
<1>2. CASE TickReverts
  <2>1. UNCHANGED <<vacation, cycle, sustain>>
    BY <1>2 DEF TickReverts
  <2>2. used'.crashed = used.crashed
    BY <1>2, TriesTyped DEF TickReverts
  <2> QED
    BY <2>1, <2>2 DEF Latched, Recovering
<1>3. CASE TickRests
  <2>1. sustain' = None /\ Breach = None /\ UNCHANGED vacation
    BY <1>3 DEF TickRests
  <2>2. (vacation /\ cycle' = cycle) \/ cycle' = None
    <3>1. ASSUME EndsCycle(cycle # None) PROVE cycle' = None
      BY <3>1, EndedIsNone
    <3> QED
      BY <1>3, <3>1 DEF TickRests, ApplyHold, Guard
  <2>3. Latched'
    BY <2>1, <2>2 DEF Latched
  <2>4. Recovering
    <3> SUFFICES ASSUME cycle # None, room # None,
                        \/ sustain # None
                        \/ cycle' = None /\ ~vacation /\ ~used.crashed
                 PROVE  AtTarget(cycle)
      BY <2>2 DEF Recovering
    <3>1. sustain = cycle
      BY DEF Latched
    <3> QED
      BY <2>1, <3>1, NoBreachIsTarget
  <2> QED
    BY <2>3, <2>4
<1>4. CASE TickBreached
  <2>1. cycle = None /\ sustain' = Breach /\ Breach # None
    BY <1>4 DEF TickBreached
  <2>2. cycle' \in {None, Breach}
    <3>1. CASE cycle' = Inferred /\ Vote # None /\ ~Opposed(Inferred)
      <4>1. Inferred = Vote
        BY <3>1 DEF Opposed
      <4> QED
        BY <2>1, <3>1, <4>1, VoteFollowsBreach
    <3>2. CASE cycle' = cycle \/ EndsCycle(FALSE)
      BY <2>1, <3>2 DEF EndsCycle
    <3> QED
      BY <1>4, <3>1, <3>2 DEF TickBreached, OnlyReconciles, ApplyHold, Guard
  <2> QED
    BY <2>1, <2>2 DEF Latched, Recovering
<1>5. CASE TickServes
  <2>1. cycle # None /\ sustain' = Breach /\ Breach # None /\ UNCHANGED vacation
    BY <1>5 DEF TickServes
  <2>2. CASE Opposed(cycle)
    <3>1. cycle' = None
      BY <1>5, <2>2 DEF TickServes, ApplyHold, Guard, EndsCycle
    <3>2. Breach # cycle
      BY <2>1, <2>2, VoteFollowsBreach DEF Opposed
    <3>3. sustain = cycle /\ room # None => AtTarget(cycle)
      BY <2>1, <3>2, NoBreachIsTarget
    <3> QED
      BY <2>1, <3>1, <3>3 DEF Latched, Recovering
  <2>3. CASE ~Opposed(cycle) /\ begun < Timeout
    <3>1. cycle' = cycle
      <4>1. begun \in Int /\ Timeout \in Int
        <5>1. MaxAge \in Nat /\ begun \in 0..MaxAge
          BY Degrees DEF TypeOK
        <5> QED
          BY <5>1, EnvelopeAssumption
      <4>2. ~(begun >= Timeout)
        BY <2>3, <4>1
      <4> QED
        BY <1>5, <2>3, <4>2 DEF TickServes
    <3>2. Breach = cycle
      BY <2>1, <2>3, VoteFollowsBreach DEF Opposed, Latched
    <3> QED
      BY <2>1, <3>1, <3>2 DEF Latched, Recovering
  <2>4. CASE ~Opposed(cycle) /\ ~(begun < Timeout)
    <3>1. cycle' = None
      BY <1>5, <2>4 DEF TickServes, TimesOut, EndsCycle
    <3> QED
      BY <2>1, <2>4, <3>1 DEF Latched, Recovering
  <2> QED
    BY <2>2, <2>3, <2>4
<1> QED
  BY <1>1, <1>2, <1>3, <1>4, <1>5 DEF Tick

LEMMA WorldLatched ==
    ASSUME TypeOK, Latched, TickUnavailable \/ World
    PROVE  Latched' /\ cycle' \in {cycle, None}
<1>1. CASE TickUnavailable
  BY <1>1 DEF TickUnavailable, EndsCycle, Latched
<1>2. CASE Minute \/ Meddle \/ EditZone
  <2>1. UNCHANGED <<vacation, cycle, sustain>>
    BY <1>2 DEF Minute, Meddle, EditZone, engine
  <2>2. used'.crashed = used.crashed
    BY <1>2, TypeParts, SpendTyped DEF Minute, Meddle, EditZone
  <2> QED
    BY <2>1, <2>2 DEF Latched
<1>3. CASE SwitchVacation
  <2>1. cycle' = None
    BY <1>3 DEF SwitchVacation, EndsCycle
  <2> QED
    BY <2>1 DEF Latched
<1>4. CASE Restart
  <2>1. sustain' = None /\ cycle' \in {cycle, None}
    BY <1>4 DEF Restart, EndsCycle
  <2>2. used'.crashed
    <3>1. UsedOK([used EXCEPT !.crashed = TRUE])
          /\ [used EXCEPT !.crashed = TRUE].mishaps = used.mishaps
          /\ [used EXCEPT !.crashed = TRUE].crashed
      BY TypeParts DEF UsedOK
    <3> QED
      BY <1>4, <3>1, SpendTyped DEF Restart
  <2> QED
    BY <2>1, <2>2 DEF Latched
<1> QED
  BY <1>1, <1>2, <1>3, <1>4 DEF World

(* A room out of bounds is served until it has its target, one deadband
   inside, or the cycle times out, whatever the probe reads and for every
   deadband that fits between the bounds.  A wider one makes the target of
   one direction the bound of the other, and the statement is false. *)
THEOREM LatchHolds == Deadband <= MaxSp - MinSp => (Spec => CycleRecovers)
<1> SUFFICES ASSUME Deadband <= MaxSp - MinSp PROVE Spec => CycleRecovers
  OBVIOUS
<1>1. Init => Latched
  BY DEF Init, Latched
<1>2. TypeOK /\ Latched /\ [Next]_vars => Latched'
  <2>1. ASSUME Latched, UNCHANGED vars PROVE Latched'
    BY <2>1 DEF Latched, vars, engine
  <2> QED
    BY <2>1, TickRecovers, WorldLatched DEF Next
<1>3. TypeOK /\ Latched /\ [Next]_vars
        => [/\ cycle' \notin {cycle, None} => sustain' = cycle'
            /\ /\ cycle # None /\ room # None /\ None \in {cycle', sustain'} /\ begun < Timeout
               /\ \/ sustain # None
                  \/ cycle' = None /\ ~vacation /\ ~used.crashed
               /\ ~(vacation /\ ~Safety) /\ Tick
               => AtTarget(cycle)]_vars
  <2> SUFFICES ASSUME TypeOK, Latched, Next
               PROVE  /\ cycle' \notin {cycle, None} => sustain' = cycle'
                      /\ Tick => Recovering
    BY DEF Recovering
  <2>1. CASE Tick
    BY <2>1, TickRecovers DEF Recovering
  <2>2. CASE ~Tick
    BY <2>2, WorldLatched DEF Next
  <2> QED
    BY <2>1, <2>2
<1> QED
  BY <1>1, <1>2, <1>3, EnvelopeTypeCorrect, PTL DEF Spec, CycleRecovers

=============================================================================
