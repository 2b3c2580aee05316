---------------------------- MODULE Rooms_proofs ----------------------------
(***************************************************************************)
(* Theorems about Rooms: typing, that enabled blocks never compete, that   *)
(* nothing is ended early, and that the times on the card are right.       *)
(***************************************************************************)
EXTENDS Rooms, FiniteSetTheorems, TLAPS

-----------------------------------------------------------------------------
(* The calendar *)

(* A day is one of the week's, a slot one of the day's.                    *)
LEMMA ClockRange ==
    ASSUME NEW t \in Week
    PROVE  Day(t) \in 0..(Days - 1) /\ Slot(t) \in Times
<1>1. Days \in Nat \ {0} /\ Slots \in Nat \ {0}
  BY RoomsAssumption
<1>2. Span \in Nat
  BY <1>1 DEF Span
<1>3. t \in Nat
  BY <1>2 DEF Week
<1>4. Slot(t) \in Times
  BY <1>1, <1>3 DEF Slot, Times
<1>5. t \div Slots \in Int
  BY <1>1, <1>3
<1>6. Day(t) \in 0..(Days - 1)
  BY <1>1, <1>5 DEF Day
<1> QED BY <1>4, <1>6

(* The day after the day before is the day itself.                         *)
LEMMA NextOfPrevious ==
    ASSUME NEW d \in 0..(Days - 1)
    PROVE  (((d - 1) % Days) + 1) % Days = d
<1>1. Days \in Nat \ {0}
  BY RoomsAssumption
<1>2. CASE d = 0
  <2>1. (d - 1) % Days = Days - 1
    BY <1>1, <1>2
  <2>2. Days % Days = 0
    BY <1>1
  <2> QED BY <1>1, <1>2, <2>1, <2>2
<1>3. CASE d # 0
  <2>1. (d - 1) % Days = d - 1
    BY <1>1, <1>3
  <2>2. d % Days = d
    BY <1>1, <1>3
  <2> QED BY <2>1, <2>2
<1> QED BY <1>2, <1>3

(* A block that is active covers the moment with one of its intervals.     *)
LEMMA ActiveIsCovered ==
    ASSUME NEW s \in Shapes, NEW t \in Week, ActiveAt(s, t)
    PROVE  \E i \in Intervals(s) :
               /\ i[1] = Day(t) /\ i[2] \in Int /\ i[3] \in Int
               /\ i[2] <= Slot(t) /\ Slot(t) < i[3]
<1>1. /\ Slots \in Nat \ {0} /\ Days \in Nat \ {0}
      /\ s.days \subseteq 0..(Days - 1) /\ s.start \in Times /\ s.end \in Times
  BY RoomsAssumption
<1>2. Day(t) \in 0..(Days - 1) /\ Slot(t) \in Times
  BY ClockRange
<1>3. CASE ~Overnight(s)
  <2>1. Day(t) \in s.days /\ s.start <= Slot(t) /\ Slot(t) < s.end
    BY <1>3 DEF ActiveAt
  <2>2. <<Day(t), s.start, s.end>> \in Intervals(s)
    BY <1>3, <2>1 DEF Intervals
  <2> QED BY <1>1, <2>1, <2>2 DEF Times
<1>4. CASE Overnight(s) /\ Day(t) \in s.days /\ s.start <= Slot(t)
  <2>1. <<Day(t), s.start, Slots>> \in Intervals(s)
    BY <1>4 DEF Intervals
  <2> QED BY <1>1, <1>2, <1>4, <2>1 DEF Times
<1>5. CASE Overnight(s) /\ (Day(t) - 1) % Days \in s.days /\ Slot(t) < s.end
  <2>1. <<(((Day(t) - 1) % Days) + 1) % Days, 0, s.end>> \in Intervals(s)
    BY <1>5 DEF Intervals
  <2>2. <<Day(t), 0, s.end>> \in Intervals(s)
    BY <1>2, <2>1, NextOfPrevious
  <2> QED BY <1>1, <1>2, <1>5, <2>2 DEF Times
<1> QED BY <1>3, <1>4, <1>5 DEF ActiveAt

(* What the routes refuse is enough: two blocks that are ever active       *)
(* together overlap as intervals.                                          *)
LEMMA ActiveTogetherOverlap ==
    ASSUME NEW s \in Shapes, NEW u \in Shapes, NEW t \in Week,
           ActiveAt(s, t), ActiveAt(u, t)
    PROVE  Overlap(s, u)
<1>1. PICK i \in Intervals(s) : /\ i[1] = Day(t) /\ i[2] \in Int /\ i[3] \in Int
                                /\ i[2] <= Slot(t) /\ Slot(t) < i[3]
  BY ActiveIsCovered
<1>2. PICK j \in Intervals(u) : /\ j[1] = Day(t) /\ j[2] \in Int /\ j[3] \in Int
                                /\ j[2] <= Slot(t) /\ Slot(t) < j[3]
  BY ActiveIsCovered
<1>3. Slot(t) \in Int
  BY ClockRange, RoomsAssumption DEF Times
<1>4. i[1] = j[1] /\ i[2] < j[3] /\ j[2] < i[3]
  BY <1>1, <1>2, <1>3
<1> QED BY <1>1, <1>2, <1>4 DEF Overlap

(* Overlap does not depend on which block is asked first.                  *)
LEMMA OverlapIsMutual ==
    ASSUME NEW s, NEW u, Overlap(s, u)
    PROVE  Overlap(u, s)
BY DEF Overlap

-----------------------------------------------------------------------------
(* Typing *)

(* A week has slots.                                                       *)
LEMMA WeekHasSlots == Span \in Nat \ {0}
<1>1. Days \in Nat /\ Slots \in Nat /\ Days >= 1 /\ Slots >= 1
  BY RoomsAssumption
<1>2. Days * Slots >= 1
  BY <1>1
<1> QED BY <1>1, <1>2 DEF Span

(* An expiry that comes nearer stays within its range.                     *)
LEMMA LessTyped ==
    ASSUME NEW n \in Nat, NEW left \in {None} \cup 0..n
    PROVE  Less(left) \in {None} \cup 0..n
<1>1. CASE left = None
  BY <1>1 DEF Less
<1>2. CASE left # None
  <2>1. left \in 0..n
    BY <1>2
  <2>2. \E x \in {0, left - 1} : \A y \in {0, left - 1} : x >= y
    BY <2>1
  <2>3. Max({0, left - 1}) \in {0, left - 1} /\ Max({0, left - 1}) >= 0
    BY <2>2 DEF Max
  <2>4. Max({0, left - 1}) \in 0..n
    BY <2>1, <2>3
  <2> QED BY <1>2, <2>4 DEF Less
<1> QED BY <1>1, <1>2

(* A budget that is drawn on stays a pair of numbers.                      *)
LEMMA SpendTyped ==
    ASSUME TypeOK, NEW k \in {"edits", "touches"}, Spend(k)
    PROVE  spent' \in [edits : Nat, touches : Nat]
BY DEF TypeOK, Spend

LEMMA TypeInit == Init => TypeOK
<1> SUFFICES ASSUME Init PROVE TypeOK
  OBVIOUS
<1>1. block \in [Blocks -> Rows \cup {None}] /\ edit \in Edits \cup {None} /\ sweep \subseteq Edits
  BY DEF Init
<1>2. tick \in [Engines -> {"none", "drop", "select", "delete"}]
  BY DEF Init
<1> QED BY <1>1, <1>2 DEF Init, TypeOK

LEMMA TypeNext ==
    ASSUME TypeOK, [Next]_vars
    PROVE  TypeOK'
<1> USE DEF TypeOK
<1>1. CASE Clock
  <2>1. now' \in Week
    BY <1>1, WeekHasSlots DEF Clock, Week
  <2>2. block' \in [Blocks -> Rows \cup {None}]
    <3>1. ASSUME NEW b \in Blocks, block[b] # None
          PROVE  [block[b] EXCEPT !.exp = Less(@)] \in Rows
      <4>1. block[b] \in Rows
        BY <3>1
      <4>2. Less(block[b].exp) \in Expiry
        BY <4>1, LessTyped, RoomsAssumption DEF Rows, Expiry
      <4> QED BY <4>1, <4>2 DEF Rows
    <3> QED BY <1>1, <3>1 DEF Clock
  <2>3. holdover' \in {None} \cup 0..Holdover /\ hold' \in {None} \cup 0..MaxHold
    BY <1>1, LessTyped, RoomsAssumption DEF Clock
  <2> QED BY <1>1, <2>1, <2>2, <2>3 DEF Clock
<1>2. ASSUME NEW b \in Blocks, NEW row \in Rows, CreateSchedule(b, row) \/ UpdateSchedule(b, row)
      PROVE  TypeOK'
  <2>1. edit' \in Edits
    BY <1>2 DEF CreateSchedule, UpdateSchedule, Save, Edits
  <2> QED BY <1>2, <2>1, SpendTyped
       DEF CreateSchedule, UpdateSchedule, Save, clock, presence
<1>3. ASSUME NEW b \in Blocks, NEW s \in Shapes, CopySchedule(b, s)
      PROVE  TypeOK'
  <2>1. edit' \in Edits
    BY <1>3 DEF CopySchedule, Save, Edits, Rows, Expiry, Conflicts
  <2> QED BY <1>3, <2>1, SpendTyped DEF CopySchedule, Save, clock, presence
<1>4. ASSUME NEW b \in Blocks, DeleteSchedule(b)
      PROVE  TypeOK'
  BY <1>4, SpendTyped DEF DeleteSchedule, clock, presence
<1>5. CASE EditSaves
  <2>1. edit \in Edits
    BY <1>5 DEF EditSaves
  <2>2. block' \in [Blocks -> Rows \cup {None}]
    BY <1>5, <2>1 DEF EditSaves, Edits
  <2> QED BY <1>5, <2>2 DEF EditSaves, clock, presence
<1>6. CASE Touch
  <2>1. ASSUME NEW v \in BOOLEAN, SensorReports(v)  PROVE TypeOK'
    BY <2>1, SpendTyped DEF SensorReports, clock, blocks
  <2>2. ASSUME NEW n \in 1..MaxHold, SetOverride(n)  PROVE TypeOK'
    BY <2>2, SpendTyped, RoomsAssumption DEF SetOverride, clock, blocks, presence
  <2>3. CASE ClearOverride
    BY <2>3, SpendTyped DEF ClearOverride, clock, blocks, presence
  <2>4. CASE ClearDeletes
    BY <2>4, SpendTyped DEF ClearDeletes, clock, blocks
  <2> QED BY <1>6, <2>1, <2>2, <2>3, <2>4 DEF Touch
<1>7. CASE ClearSuppresses
  BY <1>7 DEF ClearSuppresses, clock, blocks
<1>8. CASE SweepReads
  <2>1. sweep' \subseteq Edits
    BY <1>8 DEF SweepReads, ToPark, Expired, Enabled, Edits
  <2> QED BY <1>8, <2>1 DEF SweepReads, Done, presence
<1>9. ASSUME NEW x \in sweep, SweepSaves(x) \/ SweepFails(x)
      PROVE  TypeOK'
  <2>1. x.id \in Blocks /\ [x.row EXCEPT !.enabled = FALSE] \in Rows
    BY DEF Edits, Rows
  <2>2. block' \in [Blocks -> Rows \cup {None}]
    BY <1>9, <2>1 DEF SweepSaves, SweepFails
  <2> QED BY <1>9, <2>2, SpendTyped DEF SweepSaves, SweepFails, SweptRow, Done, presence
<1>10. CASE EventChecks \/ EventSaves
  <2>1. event' \in {"none", "fired", "save"}
    BY <1>10 DEF EventChecks, EventSaves
  <2>2. holdover' \in {None} \cup 0..Holdover
    BY <1>10, RoomsAssumption DEF EventChecks, EventSaves
  <2>3. UNCHANGED <<clock, blocks, on, suppressed, refresh, clear, hold, tick, spent>>
    BY <1>10 DEF EventChecks, EventSaves
  <2> QED BY <2>1, <2>2, <2>3 DEF clock, blocks
<1>11. CASE Refresh \/ RefreshSaves
  <2>1. refresh' \in {"none", "on", "off", "rearm", "save"}
    <3>1. CASE RefreshReads
      BY <3>1 DEF RefreshReads
    <3>2. CASE RefreshChecks
      <4>1. refresh \in {"on", "off"} /\ refresh' = AfterCheck
        BY <3>2 DEF RefreshChecks
      <4>2. CASE suppressed
        BY <4>1, <4>2 DEF AfterCheck
      <4>3. CASE ~suppressed
        BY <4>1, <4>3 DEF AfterCheck
      <4> QED BY <4>2, <4>3
    <3>3. CASE RefreshRearms \/ RefreshSaves
      BY <3>3 DEF RefreshRearms, RefreshSaves
    <3> QED BY <1>11, <3>1, <3>2, <3>3 DEF Refresh
  <2>2. holdover' \in {None} \cup 0..Holdover
    BY <1>11, RoomsAssumption DEF Refresh, RefreshReads, RefreshChecks, RefreshRearms, RefreshSaves
  <2>3. suppressed' \in BOOLEAN
    BY <1>11 DEF Refresh, RefreshReads, RefreshChecks, RefreshRearms, RefreshSaves
  <2>4. due' \subseteq {"refresh", "sweep"}
    BY <1>11 DEF Refresh, RefreshReads, RefreshChecks, RefreshRearms, RefreshSaves, clock, Done
  <2>5. UNCHANGED <<now, blocks, on, event, clear, hold, tick, spent>>
    BY <1>11 DEF Refresh, RefreshReads, RefreshChecks, RefreshRearms, RefreshSaves, clock
  <2> QED BY <2>1, <2>2, <2>3, <2>4, <2>5 DEF blocks
<1>12. ASSUME NEW e \in Engines, ReadHoldovers(e) \/ Tick(e)
       PROVE  TypeOK'
  BY <1>12 DEF ReadHoldovers, Tick, DropHoldover, SelectHolds, DeleteHold, At, clock, blocks, presence
<1>13. CASE UNCHANGED vars
  BY <1>13 DEF vars, clock, blocks, presence
<1> QED BY <1>1, <1>2, <1>3, <1>4, <1>5, <1>6, <1>7, <1>8, <1>9, <1>10, <1>11, <1>12, <1>13
     DEF Next, Edit, Sweep

(* Every reachable state is typed: expiries stay within their ranges and   *)
(* the rows the sweep holds are rows of blocks, whatever the week.         *)
THEOREM RoomsTypeCorrect == Spec => []TypeOK
BY TypeInit, TypeNext, PTL DEF Spec

-----------------------------------------------------------------------------
(* Blocks.  The database keeps enabled blocks apart, a request in progress *)
(* fits what is enabled, and what the sweep holds is not running: it ends  *)
(* within the slot in which it read.                                       *)

BlocksApart == \A b, c \in Enabled : b # c => ~Overlap(block[b].shape, block[c].shape)
EditFits    == edit # None => ~Conflicts(edit.id, edit.row)
SweepAtHand ==
    /\ sweep # {} => "sweep" \in due
    /\ \A x \in sweep : ~ActiveAt(x.row.shape, now)

RoomsInv == TypeOK /\ BlocksApart /\ EditFits /\ SweepAtHand

(* Blocks that are only switched off, or kept, stay apart and leave room   *)
(* for the request in progress.                                            *)
LEMMA FewerStayApart ==
    ASSUME BlocksApart, EditFits, edit' = edit,
           \A b \in Enabled' : b \in Enabled /\ block'[b].shape = block[b].shape
    PROVE  BlocksApart' /\ EditFits'
<1>1. BlocksApart'
  BY DEF BlocksApart
<1>2. EditFits'
  BY DEF EditFits, Conflicts
<1> QED BY <1>1, <1>2

(* A step that leaves clock, blocks and jobs alone keeps the invariant.    *)
LEMMA AsideStep ==
    ASSUME RoomsInv, TypeOK', UNCHANGED <<now, blocks>>, sweep # {} => "sweep" \in due'
    PROVE  RoomsInv'
<1>1. Enabled' = Enabled
  BY DEF Enabled, blocks
<1>2. BlocksApart' /\ EditFits'
  BY <1>1 DEF RoomsInv, BlocksApart, EditFits, Conflicts, blocks
<1>3. SweepAtHand'
  BY DEF RoomsInv, SweepAtHand, blocks
<1> QED BY <1>2, <1>3 DEF RoomsInv

(* A checked request is written down while clock and rows stay.            *)
LEMMA RequestStep ==
    ASSUME RoomsInv, TypeOK', NEW b \in Blocks, NEW row \in Rows,
           ~Conflicts(b, row), Save(b, row)
    PROVE  RoomsInv'
<1>1. Enabled' = Enabled
  BY DEF Enabled, Save
<1>2. BlocksApart' /\ EditFits'
  BY <1>1 DEF RoomsInv, BlocksApart, EditFits, Conflicts, Save
<1>3. SweepAtHand'
  BY DEF RoomsInv, SweepAtHand, Save, clock
<1> QED BY <1>2, <1>3 DEF RoomsInv

(* Saving a request that fits keeps the blocks apart.                      *)
LEMMA SavingStep ==
    ASSUME RoomsInv, TypeOK', EditSaves
    PROVE  RoomsInv'
<1>1. edit \in Edits /\ edit # None
  BY DEF RoomsInv, TypeOK, EditSaves
<1>2. \A b \in Blocks : block'[b] = IF b = edit.id THEN edit.row ELSE block[b]
  BY DEF RoomsInv, TypeOK, EditSaves
<1>3. ~Conflicts(edit.id, edit.row)
  BY <1>1 DEF RoomsInv, EditFits
<1>4. BlocksApart'
  <2> SUFFICES ASSUME NEW b \in Enabled', NEW c \in Enabled', b # c
               PROVE  ~Overlap(block'[b].shape, block'[c].shape)
    BY DEF BlocksApart
  <2>1. CASE b # edit.id /\ c # edit.id
    BY <1>2, <2>1 DEF RoomsInv, BlocksApart, Enabled
  <2>2. CASE b = edit.id
    <3>1. edit.row.enabled /\ c \in Enabled \ {edit.id} /\ block'[c] = block[c]
      BY <1>2, <2>2 DEF Enabled
    <3> QED BY <1>2, <1>3, <2>2, <3>1 DEF Conflicts, Enabled
  <2>3. CASE c = edit.id
    <3>1. edit.row.enabled /\ b \in Enabled \ {edit.id} /\ block'[b] = block[b]
      BY <1>2, <2>3 DEF Enabled
    <3>2. ~Overlap(edit.row.shape, block[b].shape)
      BY <1>3, <3>1 DEF Conflicts
    <3> QED BY <1>2, <2>3, <3>1, <3>2, OverlapIsMutual DEF Enabled
  <2> QED BY <2>1, <2>2, <2>3
<1>5. EditFits'
  BY DEF EditFits, EditSaves
<1>6. SweepAtHand'
  BY DEF RoomsInv, SweepAtHand, EditSaves, clock
<1> QED BY <1>4, <1>5, <1>6 DEF RoomsInv

LEMMA RoomsInvNext ==
    ASSUME RoomsInv, [Next]_vars
    PROVE  RoomsInv'
<1>0. TypeOK'
  BY TypeNext DEF RoomsInv
<1>1. CASE Clock
  <2>1. sweep = {} /\ sweep' = {} /\ edit' = edit
    BY <1>1 DEF Clock, RoomsInv, SweepAtHand
  <2>2. \A b \in Enabled' : b \in Enabled /\ block'[b].shape = block[b].shape
    <3> SUFFICES ASSUME NEW b \in Enabled'
                 PROVE  b \in Enabled /\ block'[b].shape = block[b].shape
      OBVIOUS
    <3>1. b \in Blocks /\ block'[b] # None /\ block'[b].enabled
      BY DEF Enabled
    <3>2. block[b] # None /\ block'[b] = [block[b] EXCEPT !.exp = Less(@)]
      BY <1>1, <3>1 DEF Clock
    <3>3. block[b] \in Rows
      BY <3>1, <3>2 DEF RoomsInv, TypeOK
    <3> QED BY <3>1, <3>2, <3>3 DEF Enabled, Rows
  <2>3. BlocksApart' /\ EditFits'
    BY <2>1, <2>2, FewerStayApart DEF RoomsInv
  <2> QED BY <1>0, <2>1, <2>3 DEF RoomsInv, SweepAtHand
<1>2. ASSUME NEW b \in Blocks, NEW row \in Rows, CreateSchedule(b, row) \/ UpdateSchedule(b, row)
      PROVE  RoomsInv'
  BY <1>0, <1>2, RequestStep DEF CreateSchedule, UpdateSchedule
<1>3. ASSUME NEW b \in Blocks, NEW s \in Shapes, CopySchedule(b, s)
      PROVE  RoomsInv'
  <2> DEFINE copy == [shape |-> s, enabled |-> TRUE, exp |-> None]
             row  == [copy EXCEPT !.enabled = ~Conflicts(b, copy)]
  <2>1. Save(b, row)
    BY <1>3 DEF CopySchedule
  <2>2. row = [shape |-> s, enabled |-> ~Conflicts(b, copy), exp |-> None]
    OBVIOUS
  <2>3. row \in Rows
    BY <2>2 DEF Rows, Expiry, Conflicts
  <2>4. ~Conflicts(b, row)
    <3>1. CASE Conflicts(b, copy)
      BY <2>2, <3>1 DEF Conflicts
    <3>2. CASE ~Conflicts(b, copy)
      BY <2>2, <3>2 DEF Conflicts
    <3> QED BY <3>1, <3>2
  <2> HIDE DEF row
  <2> QED BY <1>0, <2>1, <2>3, <2>4, RequestStep
<1>4. ASSUME NEW b \in Blocks, DeleteSchedule(b)
      PROVE  RoomsInv'
  <2>1. \A c \in Enabled' : c \in Enabled /\ block'[c].shape = block[c].shape
    BY <1>4 DEF DeleteSchedule, Enabled, RoomsInv, TypeOK
  <2>2. BlocksApart' /\ EditFits'
    BY <1>4, <2>1, FewerStayApart DEF RoomsInv, DeleteSchedule
  <2>3. SweepAtHand'
    BY <1>4 DEF RoomsInv, SweepAtHand, DeleteSchedule, clock
  <2> QED BY <1>0, <2>2, <2>3 DEF RoomsInv
<1>5. CASE EditSaves
  BY <1>0, <1>5, SavingStep
<1>6. CASE Touch \/ ClearSuppresses
  BY <1>0, <1>6, AsideStep
  DEF Touch, SensorReports, SetOverride, ClearOverride, ClearDeletes, ClearSuppresses,
      RoomsInv, SweepAtHand, clock
<1>7. CASE SweepReads
  <2>1. UNCHANGED <<now, block, edit>>
    BY <1>7 DEF SweepReads
  <2>2. BlocksApart' /\ EditFits'
    BY <2>1, FewerStayApart DEF RoomsInv, Enabled
  <2>3. sweep' # {} => "sweep" \in due'
    BY <1>7 DEF SweepReads
  <2>4. \A x \in sweep' : ~ActiveAt(x.row.shape, now)
    BY <1>7 DEF SweepReads, ToPark
  <2> QED BY <1>0, <2>1, <2>2, <2>3, <2>4 DEF RoomsInv, SweepAtHand
<1>8. ASSUME NEW x \in sweep, SweepSaves(x) \/ SweepFails(x)
      PROVE  RoomsInv'
  <2>1. UNCHANGED <<now, edit>> /\ sweep' \subseteq sweep
    BY <1>8 DEF SweepSaves, SweepFails, SweptRow
  <2>2. sweep' # {} => due' = due
    BY <1>8 DEF SweepSaves, SweepFails, SweptRow
  <2>3. \A b \in Enabled' : b \in Enabled /\ block'[b].shape = block[b].shape
    BY <1>8 DEF SweepSaves, SweepFails, Enabled, RoomsInv, TypeOK, Edits, Rows
  <2>4. BlocksApart' /\ EditFits'
    BY <2>1, <2>3, FewerStayApart DEF RoomsInv
  <2> QED BY <1>0, <2>1, <2>2, <2>4 DEF RoomsInv, SweepAtHand
<1>9. CASE EventChecks \/ EventSaves \/ Refresh \/ RefreshSaves
  BY <1>0, <1>9, AsideStep
  DEF EventChecks, EventSaves, Refresh, RefreshReads, RefreshChecks, RefreshRearms, RefreshSaves,
      Done, RoomsInv, SweepAtHand, clock
<1>10. ASSUME NEW e \in Engines, ReadHoldovers(e) \/ Tick(e)
       PROVE  RoomsInv'
  BY <1>0, <1>10, AsideStep
  DEF ReadHoldovers, Tick, DropHoldover, SelectHolds, DeleteHold, RoomsInv, SweepAtHand, clock, blocks, presence
<1>11. CASE UNCHANGED vars
  BY <1>0, <1>11, AsideStep DEF vars, RoomsInv, SweepAtHand, clock
<1> QED BY <1>1, <1>2, <1>3, <1>4, <1>5, <1>6, <1>7, <1>8, <1>9, <1>10, <1>11
     DEF Next, Edit, Sweep

LEMMA RoomsInvHolds == Spec => []RoomsInv
<1>1. Init => RoomsInv
  BY TypeInit DEF Init, RoomsInv, BlocksApart, EditFits, SweepAtHand, Enabled
<1>2. RoomsInv /\ [Next]_vars => RoomsInv'
  BY RoomsInvNext
<1> QED BY <1>1, <1>2, PTL DEF Spec

(* No two enabled blocks are ever active together, for every week, set of  *)
(* blocks and history of edits, copies, deletions and sweeps: what the     *)
(* routes check against the intervals is enough for the times of day the   *)
(* engine goes by.                                                         *)
THEOREM BlocksNeverCompete == Spec => []OneBlockAtATime
<1>1. RoomsInv => OneBlockAtATime
  <2> SUFFICES ASSUME RoomsInv, NEW b \in Enabled, NEW c \in Enabled, b # c, NEW t \in Week,
                      ActiveAt(block[b].shape, t), ActiveAt(block[c].shape, t)
               PROVE  FALSE
    BY DEF OneBlockAtATime
  <2>1. block[b].shape \in Shapes /\ block[c].shape \in Shapes
    BY DEF RoomsInv, TypeOK, Enabled, Rows
  <2>2. Overlap(block[b].shape, block[c].shape)
    BY <2>1, ActiveTogetherOverlap
  <2> QED BY <2>2 DEF RoomsInv, BlocksApart
<1> QED BY <1>1, RoomsInvHolds, PTL

(* A live hold ends only by its user, and a running block only by what the *)
(* sweep read before an edit, for every week and any number of engines'    *)
(* ticks, sweeps and edits in between.                                     *)
THEOREM EndsAreMeant == Spec => NothingEndsEarly
<1> DEFINE Meant ==
      /\ Live(hold) /\ hold' = None => ClearOverride
      /\ \A b \in Matching(now) :
           now' = now /\ b \notin Enabled' /\ sweep' # sweep
              => \E x \in sweep \ sweep' : x.id = b /\ x.row # block[b]
<1>1. RoomsInv /\ [Next]_vars => [Meant]_vars
  <2> SUFFICES ASSUME RoomsInv, Next
               PROVE  Meant
    OBVIOUS
  <2>1. ASSUME Live(hold), hold' = None  PROVE ClearOverride
    <3>1. hold # None /\ hold # 0 /\ hold \in 0..MaxHold
      BY <2>1, RoomsAssumption DEF Live, RoomsInv, TypeOK
    <3>2. ~Clock
      <4>1. Less(hold) = Max({0, hold - 1})
        BY <3>1 DEF Less
      <4>2. \E x \in {0, hold - 1} : \A y \in {0, hold - 1} : x >= y
        BY <3>1, RoomsAssumption
      <4>3. Max({0, hold - 1}) \in {0, hold - 1}
        BY <4>2 DEF Max
      <4> QED BY <2>1, <3>1, <4>1, <4>3, RoomsAssumption DEF Clock
    <3>3. \A n \in 1..MaxHold : ~SetOverride(n)
      BY <2>1, RoomsAssumption DEF SetOverride
    <3>4. \A e \in Engines : ~DeleteHold(e)
      BY <2>1, <3>1 DEF DeleteHold
    <3> QED BY <2>1, <3>1, <3>2, <3>3, <3>4
         DEF Next, Edit, CreateSchedule, UpdateSchedule, CopySchedule, Save, DeleteSchedule, EditSaves,
             Touch, SensorReports, ClearDeletes, ClearSuppresses, Sweep, SweepReads, SweepSaves, SweepFails,
             SweptRow, EventChecks, EventSaves, Refresh, RefreshReads, RefreshChecks, RefreshRearms,
             RefreshSaves, ReadHoldovers, Tick, DropHoldover, SelectHolds
  <2>2. ASSUME NEW b \in Matching(now), now' = now, b \notin Enabled', sweep' # sweep
        PROVE  \E x \in sweep \ sweep' : x.id = b /\ x.row # block[b]
    <3>1. b \in Enabled /\ ActiveAt(block[b].shape, now)
      BY DEF Matching
    <3>2. block' # block
      BY <2>2, <3>1 DEF Enabled
    <3>3. PICK x \in sweep : SweepSaves(x)
      BY <2>2, <3>2
         DEF Next, Edit, CreateSchedule, UpdateSchedule, CopySchedule, Save, DeleteSchedule, EditSaves,
             Touch, SensorReports, SetOverride, ClearOverride, ClearDeletes, ClearSuppresses, Clock,
             Sweep, SweepReads, SweepFails, SweptRow, EventChecks, EventSaves, Refresh, RefreshReads,
             RefreshChecks, RefreshRearms, RefreshSaves, ReadHoldovers, Tick, DropHoldover, SelectHolds,
             DeleteHold, blocks, presence
    <3>4. x.id = b
      BY <2>2, <3>1, <3>3 DEF SweepSaves, Enabled, RoomsInv, TypeOK
    <3>5. x.row # block[b]
      BY <3>1 DEF RoomsInv, SweepAtHand
    <3> QED BY <3>3, <3>4, <3>5 DEF SweepSaves, SweptRow
  <2> QED BY <2>1, <2>2
<1> QED BY <1>1, RoomsInvHolds, PTL DEF Spec, NothingEndsEarly

-----------------------------------------------------------------------------
(* Numbers *)

(* A set of numbers that is not empty has a least one: below it lie as     *)
(* many numbers as it says.                                                *)
LEMMA LeastNumber ==
    ASSUME NEW S \in SUBSET Nat, S # {}
    PROVE  \E m \in S : \A k \in S : m <= k
<1> DEFINE G == {k \in Nat : \A j \in 0..k : j \notin S}
           c == Cardinality(G)
<1>1. PICK s \in S : TRUE
  OBVIOUS
<1>2. \A k \in G : k <= s
  BY <1>1
<1>3. IsFiniteSet(G) /\ c \in Nat
  <2>1. G \in SUBSET Nat /\ s \in Nat
    BY <1>1
  <2>2. IsFiniteSet(G)
    BY <1>2, <2>1, FS_BoundedSetOfNaturals
  <2> QED BY <2>2, FS_CardinalityType
<1>4. ASSUME NEW k \in G  PROVE k < c
  <2>1. k \in Nat /\ 0..k \in SUBSET G
    BY <1>4
  <2>2. Cardinality(0..k) = k + 1
    BY <2>1, FS_Interval
  <2>3. Cardinality(0..k) <= c
    BY <1>3, <2>1, FS_Subset
  <2> QED BY <1>3, <2>1, <2>2, <2>3
<1>5. G = 0..(c - 1)
  <2>1. G \in SUBSET (0..(c - 1))
    BY <1>3, <1>4
  <2>2. IsFiniteSet(0..(c - 1)) /\ Cardinality(0..(c - 1)) = c
    <3>1. c - 1 \in Int
      BY <1>3
    <3>2. /\ IsFiniteSet(0..(c - 1))
          /\ Cardinality(0..(c - 1)) = IF 0 > c - 1 THEN 0 ELSE (c - 1) - 0 + 1
      BY <3>1, FS_Interval
    <3> HIDE DEF c
    <3> QED BY <1>3, <3>2
  <2> QED BY <2>1, <2>2, FS_Subset
<1> HIDE DEF c
<1>6. c \notin G
  BY <1>3, <1>5
<1>7. \A j \in 0..(c - 1) : j \notin S
  BY <1>3, <1>5
<1>8. c \in S
  <2>1. PICK j \in 0..c : j \in S
    BY <1>3, <1>6
  <2> QED BY <1>3, <1>7, <2>1
<1>9. \A k \in S : c <= k
  BY <1>3, <1>7
<1> QED BY <1>8, <1>9

(* What division leaves, and that it leaves it in one way only.            *)
LEMMA Division ==
    ASSUME NEW n \in Nat \ {0}, NEW x \in Int
    PROVE  x \div n \in Int /\ x % n \in 0..(n - 1) /\ x = (x \div n) * n + (x % n)
<1>1. x \div n \in Int /\ x % n \in 0..(n - 1)
  OBVIOUS
<1>2. x = (x \div n) * n + (x % n)
  OBVIOUS
<1> QED BY <1>1, <1>2

LEMMA FewerTimes ==
    ASSUME NEW n \in Nat \ {0}, NEW a \in Int, NEW b \in Int, a * n < b * n
    PROVE  a < b
OBVIOUS

LEMMA DivisionOnce ==
    ASSUME NEW n \in Nat \ {0}, NEW q \in Int, NEW r \in 0..(n - 1)
    PROVE  (q * n + r) \div n = q /\ (q * n + r) % n = r
<1> DEFINE x == q * n + r
<1>1. x \in Int
  OBVIOUS
<1>2. PICK a \in Int, b \in 0..(n - 1) : a = x \div n /\ b = x % n /\ x = a * n + b
  BY <1>1, Division
<1>3. a * n < (q + 1) * n /\ q * n < (a + 1) * n
  BY <1>2
<1>4. a < q + 1 /\ q < a + 1
  BY <1>3, FewerTimes
<1>5. a = q
  BY <1>4
<1>6. b = r
  BY <1>2, <1>5
<1> QED BY <1>2, <1>5, <1>6

(* Two sets have the same least number if the one holds the other and no   *)
(* number of its own below all of the other's.                             *)
LEMMA SoonestSame ==
    ASSUME NEW A \in SUBSET Nat, NEW B \in SUBSET A, \A k \in A : \E j \in B : j <= k
    PROVE  Soonest(A) = Soonest(B)
<1>1. CASE A = {}
  BY <1>1 DEF Soonest
<1>2. CASE A # {}
  <2>1. B # {} /\ B \in SUBSET Nat
    BY <1>2
  <2>2. PICK m \in B : \A k \in B : m <= k
    BY <2>1, LeastNumber
  <2>3. \A k \in A : m <= k
    BY <2>2
  <2>4. Min(B) \in B /\ \A k \in B : Min(B) <= k
    BY <2>2 DEF Min
  <2>5. Min(A) \in A /\ \A k \in A : Min(A) <= k
    BY <2>2, <2>3 DEF Min
  <2>6. PICK a \in Nat, b \in Nat : a = Min(A) /\ b = Min(B)
    BY <2>1, <2>4, <2>5
  <2>7. PICK j \in B : j <= a
    BY <2>5, <2>6
  <2>8. a <= b /\ b <= j /\ j \in Nat
    BY <2>1, <2>4, <2>5, <2>6, <2>7
  <2>9. a = b
    BY <2>6, <2>7, <2>8
  <2> QED BY <1>2, <2>1, <2>6, <2>9 DEF Soonest
<1> QED BY <1>1, <1>2

-----------------------------------------------------------------------------
(* The clock *)

(* The week is made of days, the days of slots.                            *)
LEMMA Measures == Slots \in Nat \ {0} /\ Days \in Nat \ {0} /\ Span = Days * Slots /\ Span \in Nat \ {0}
BY RoomsAssumption, WeekHasSlots DEF Span

(* The clock some days and slots into the week.                            *)
LEMMA ClockOf ==
    ASSUME NEW q \in Int, NEW r \in Times
    PROVE  Day(q * Slots + r) = q % Days /\ Slot(q * Slots + r) = r
BY DivisionOnce, Measures DEF Day, Slot, Times

(* An instant is a slot of a day counted from the start of the week,       *)
LEMMA InstantOf ==
    ASSUME NEW x \in Int
    PROVE  \E q \in Int : x = q * Slots + Slot(x) /\ Day(x) = q % Days /\ Slot(x) \in Times
<1>1. x \div Slots \in Int /\ x % Slots \in 0..(Slots - 1) /\ x = (x \div Slots) * Slots + (x % Slots)
  BY Division, Measures
<1> QED BY <1>1 DEF Slot, Day, Times

(* within the week one of its own days,                                    *)
LEMMA InstantOfWeek ==
    ASSUME NEW t \in Week
    PROVE  Day(t) \in 0..(Days - 1) /\ Slot(t) \in Times /\ t = Day(t) * Slots + Slot(t)
<1>1. t \in Int /\ 0 <= t /\ t < Days * Slots
  BY Measures DEF Week
<1>2. PICK q \in Int : t = q * Slots + Slot(t) /\ Day(t) = q % Days /\ Slot(t) \in Times
  BY <1>1, InstantOf
<1>3. Slot(t) \in 0..(Slots - 1)
  BY <1>2 DEF Times
<1>4. q * Slots < Days * Slots /\ (-1) * Slots < q * Slots
  BY <1>1, <1>2, <1>3, Measures
<1>5. q < Days /\ -1 < q
  BY <1>4, FewerTimes, Measures
<1>6. q \in 0..(Days - 1) /\ q % Days = q
  <2>1. q \in 0..(Days - 1) /\ 0 * Days + q = q
    BY <1>5, Measures
  <2>2. (0 * Days + q) % Days = q
    BY <2>1, DivisionOnce, Measures
  <2> QED BY <2>1, <2>2
<1> QED BY <1>2, <1>5, <1>6

(* and taken round the week shows the same day and slot.                   *)
LEMMA RoundTheWeek ==
    ASSUME NEW x \in Int
    PROVE  x % Span \in Week /\ Day(x % Span) = Day(x) /\ Slot(x % Span) = Slot(x)
<1>1. PICK q \in Int : x = q * Slots + Slot(x) /\ Day(x) = q % Days /\ Slot(x) \in Times
  BY InstantOf
<1> DEFINE p == q \div Days
           d == q % Days
           r == Slot(x)
           t == d * Slots + r
<1>2. p \in Int /\ d \in 0..(Days - 1) /\ q = p * Days + d
  BY Division, Measures
<1>3. r \in 0..(Slots - 1)
  BY <1>1 DEF Times
<1> HIDE DEF p, d, r
<1>4. t \in 0..(Span - 1)
  <2>1. t \in Int /\ t >= 0
    BY <1>2, <1>3, Measures
  <2>2. d * Slots <= (Days - 1) * Slots
    BY <1>2, Measures
  <2>3. (Days - 1) * Slots = Days * Slots - Slots
    BY Measures
  <2> QED BY <1>3, <2>1, <2>2, <2>3, <1>2, Measures
<1>5. x = p * Span + t
  <2>1. x = (p * Days + d) * Slots + r
    BY <1>1, <1>2 DEF r
  <2>2. (p * Days + d) * Slots = p * (Days * Slots) + d * Slots
    BY <1>2, Measures
  <2> QED BY <2>1, <2>2, <1>2, <1>3, Measures
<1> HIDE DEF t
<1>6. x % Span = t
  BY <1>2, <1>4, <1>5, DivisionOnce, Measures
<1>7. Day(t) = d % Days /\ Slot(t) = r
  BY <1>2, <1>3, ClockOf DEF t, Times
<1>8. d % Days = d
  BY <1>2, Measures
<1> QED BY <1>1, <1>4, <1>6, <1>7, <1>8 DEF Week, d, r

(* Some days on, and slots within the day                                  *)
LEMMA ClockAfter ==
    ASSUME TypeOK, NEW k \in Int, NEW e \in Int, NEW r \in Times, Slot(now) + k = e * Slots + r
    PROVE  Day(now + k) = (Day(now) + e) % Days /\ Slot(now + k) = r
<1>1. Day(now) \in 0..(Days - 1) /\ Slot(now) \in Times /\ now = Day(now) * Slots + Slot(now)
  BY InstantOfWeek DEF TypeOK
<1> DEFINE d == Day(now)  c == Slot(now)
<1>2. d \in Int /\ c \in Int /\ r \in Int /\ now = d * Slots + c /\ c + k = e * Slots + r
  BY <1>1, Measures DEF Times
<1> HIDE DEF d, c
<1>3. (d + e) * Slots = d * Slots + e * Slots
  BY <1>2, Measures
<1>4. now + k = (d + e) * Slots + r
  BY <1>2, <1>3, Measures
<1>5. d + e \in Int
  BY <1>2
<1> QED BY <1>4, <1>5, ClockOf DEF d

(* The moment before is the last slot of the day before, or of the same    *)
(* day the slot before.                                                    *)
LEMMA JustBefore ==
    ASSUME NEW t \in Week
    PROVE  LET u == (t - 1) % Span IN
           /\ u \in Week
           /\ Slot(t) # 0 => Day(u) = Day(t) /\ Slot(u) = Slot(t) - 1
           /\ Slot(t) = 0 => Day(u) = (Day(t) - 1) % Days /\ Slot(u) = Slots - 1
<1>1. Day(t) \in 0..(Days - 1) /\ Slot(t) \in 0..(Slots - 1) /\ t = Day(t) * Slots + Slot(t)
  BY InstantOfWeek DEF Times
<1> DEFINE d == Day(t)  c == Slot(t)
<1>2. d \in 0..(Days - 1) /\ c \in 0..(Slots - 1) /\ t = d * Slots + c
  BY <1>1
<1>3. t - 1 \in Int
  BY Measures DEF Week
<1>4. (t - 1) % Span \in Week /\ Day((t - 1) % Span) = Day(t - 1) /\ Slot((t - 1) % Span) = Slot(t - 1)
  BY <1>3, RoundTheWeek
<1> HIDE DEF d, c
<1>5. CASE c # 0
  <2>1. t - 1 = d * Slots + (c - 1) /\ c - 1 \in Times /\ d \in Int
    BY <1>2, <1>5, Measures DEF Times
  <2>2. Day(t - 1) = d % Days /\ Slot(t - 1) = c - 1
    BY <2>1, ClockOf
  <2>3. d % Days = d
    BY <1>2, Measures
  <2> QED BY <1>4, <1>5, <2>2, <2>3 DEF c, d
<1>6. CASE c = 0
  <2>1. (d - 1) * Slots = d * Slots - Slots
    BY <1>2, Measures
  <2>2. t - 1 = (d - 1) * Slots + (Slots - 1) /\ Slots - 1 \in Times /\ d - 1 \in Int
    BY <1>2, <1>6, <2>1, Measures DEF Times
  <2>3. Day(t - 1) = (d - 1) % Days /\ Slot(t - 1) = Slots - 1
    BY <2>2, ClockOf
  <2> QED BY <1>4, <1>6, <2>3 DEF c, d
<1> QED BY <1>5, <1>6

-----------------------------------------------------------------------------
(* The walks of the card *)

Shaped(s) == /\ s.days \subseteq 0..(Days - 1)
             /\ s.start \in 0..(Slots - 1) /\ s.end \in 0..(Slots - 1)

LEMMA EnabledShaped ==
    ASSUME TypeOK, NEW b \in Enabled
    PROVE  Shaped(block[b].shape)
<1>1. block[b].shape \in Shapes
  BY DEF TypeOK, Enabled, Rows
<1> QED BY <1>1, RoomsAssumption DEF Shaped, Times

(* The running block is found, and runs.                                   *)
LEMMA MatchRuns ==
    ASSUME TypeOK, Matching(now) # {}
    PROVE  Match \in Matching(now)
<1> DEFINE S == {block[b].shape.start : b \in Matching(now)}
<1>1. \A b \in Matching(now) : block[b].shape.start \in Nat
  BY EnabledShaped, Measures DEF Matching, Shaped
<1>2. S \in SUBSET Nat /\ S # {}
  BY <1>1
<1>3. PICK m \in S : \A k \in S : m <= k
  BY <1>2, LeastNumber
<1>4. \E b \in Matching(now) : \A c \in Matching(now) : block[b].shape.start <= block[c].shape.start
  BY <1>3
<1> QED BY <1>4 DEF Match

(* The running block is active until its end and not at it.                *)
LEMMA EndIsTold ==
    ASSUME TypeOK, NEW s, Shaped(s), ActiveAt(s, now)
    PROVE  LET n == UntilEnd(s) IN
           /\ n > 0 /\ \A k \in 0..(n - 1) : ActiveAt(s, now + k)
           /\ s.start # s.end => ~ActiveAt(s, now + n)
<1> DEFINE d == Day(now)  c == Slot(now)
<1>1. d \in 0..(Days - 1) /\ c \in 0..(Slots - 1) /\ Slots \in Nat \ {0} /\ Days \in Nat \ {0}
  BY InstantOfWeek, Measures DEF TypeOK, Times
<1>2. d % Days = d
  BY <1>1
<1>3. ASSUME NEW k \in Int, c + k \in 0..(Slots - 1)  PROVE Day(now + k) = d /\ Slot(now + k) = c + k
  <2>1. c + k = 0 * Slots + (c + k) /\ c + k \in Times
    BY <1>1, <1>3 DEF Times
  <2>2. Day(now + k) = (d + 0) % Days /\ Slot(now + k) = c + k
    BY <2>1, ClockAfter
  <2> QED BY <1>1, <1>2, <2>2
<1>4. ASSUME NEW k \in Int, c + k - Slots \in 0..(Slots - 1)
      PROVE  Day(now + k) = (d + 1) % Days /\ Slot(now + k) = c + k - Slots
  <2>1. c + k = 1 * Slots + (c + k - Slots) /\ c + k - Slots \in Times
    BY <1>1, <1>4 DEF Times
  <2> QED BY <2>1, ClockAfter
<1>5. /\ s.start \in 0..(Slots - 1) /\ s.end \in 0..(Slots - 1)
      /\ Overnight(s) <=> s.end <= s.start
  BY DEF Shaped, Overnight
<1>6. c < s.end => UntilEnd(s) = s.end - c \/ (Overnight(s) /\ c >= s.start)
  <2> SUFFICES ASSUME c < s.end, ~(Overnight(s) /\ c >= s.start)  PROVE UntilEnd(s) = s.end - c
    OBVIOUS
  <2>1. UntilEnd(s) = Max({0, s.end - c})
    BY DEF UntilEnd
  <2>2. Max({0, s.end - c}) = s.end - c
    BY <1>1, <1>5 DEF Max
  <2> QED BY <2>1, <2>2
<1> HIDE DEF d, c
<1>7. CASE ~Overnight(s)
  <2>1. d \in s.days /\ s.start <= c /\ c < s.end
    BY <1>7 DEF ActiveAt, d, c
  <2>2. UntilEnd(s) = s.end - c
    BY <1>6, <1>7, <2>1
  <2>3. ASSUME NEW k \in 0..(s.end - c - 1)  PROVE ActiveAt(s, now + k)
    <3>1. c + k \in 0..(Slots - 1) /\ k \in Int
      BY <1>1, <1>5, <2>1
    <3>2. Day(now + k) = d /\ Slot(now + k) = c + k
      BY <1>3, <3>1
    <3> QED BY <1>1, <1>5, <1>7, <2>1, <3>1, <3>2 DEF ActiveAt
  <2>4. ~ActiveAt(s, now + (s.end - c))
    <3>1. c + (s.end - c) \in 0..(Slots - 1) /\ s.end - c \in Int /\ c + (s.end - c) = s.end
      BY <1>1, <1>5
    <3>2. Slot(now + (s.end - c)) = s.end
      BY <1>3, <3>1
    <3> QED BY <1>5, <1>7, <3>2 DEF ActiveAt
  <2> QED BY <1>1, <1>5, <2>1, <2>2, <2>3, <2>4
<1>8. CASE Overnight(s) /\ c >= s.start
  <2>1. d \in s.days
    BY <1>1, <1>5, <1>8 DEF ActiveAt, d, c
  <2>2. UntilEnd(s) = s.end + Slots - c
    BY <1>8 DEF UntilEnd, c
  <2>3. (((d + 1) % Days) - 1) % Days = d
    <3>1. CASE d = Days - 1
      <4>1. (d + 1) % Days = 0
        BY <1>1, <3>1
      <4>2. (0 - 1) % Days = Days - 1
        BY <1>1
      <4> QED BY <3>1, <4>1, <4>2
    <3>2. CASE d # Days - 1
      <4>1. (d + 1) % Days = d + 1
        BY <1>1, <3>2
      <4> QED BY <1>1, <1>2, <4>1
    <3> QED BY <3>1, <3>2
  <2>4. ASSUME NEW k \in 0..(s.end + Slots - c - 1)  PROVE ActiveAt(s, now + k)
    <3>1. CASE c + k < Slots
      <4>1. c + k \in 0..(Slots - 1) /\ k \in Int
        BY <1>1, <3>1
      <4>2. Day(now + k) = d /\ Slot(now + k) = c + k
        BY <1>3, <4>1
      <4> QED BY <1>1, <1>5, <1>8, <2>1, <4>1, <4>2 DEF ActiveAt
    <3>2. CASE c + k >= Slots
      <4>1. c + k - Slots \in 0..(Slots - 1) /\ k \in Int /\ c + k - Slots < s.end
        BY <1>1, <1>5, <3>2
      <4>2. Day(now + k) = (d + 1) % Days /\ Slot(now + k) = c + k - Slots
        BY <1>4, <4>1
      <4> QED BY <1>8, <2>1, <2>3, <4>1, <4>2 DEF ActiveAt
    <3> QED BY <1>1, <3>1, <3>2
  <2>5. s.start # s.end => ~ActiveAt(s, now + (s.end + Slots - c))
    <3>1. /\ c + (s.end + Slots - c) - Slots \in 0..(Slots - 1) /\ s.end + Slots - c \in Int
          /\ c + (s.end + Slots - c) - Slots = s.end
      BY <1>1, <1>5
    <3>2. Slot(now + (s.end + Slots - c)) = s.end
      BY <1>4, <3>1
    <3> QED BY <1>5, <1>8, <3>2 DEF ActiveAt
  <2> QED BY <1>1, <1>5, <1>8, <2>2, <2>4, <2>5
<1>9. CASE Overnight(s) /\ c < s.start
  <2>1. (d - 1) % Days \in s.days /\ c < s.end
    BY <1>1, <1>5, <1>9 DEF ActiveAt, d, c
  <2>2. UntilEnd(s) = s.end - c
    BY <1>1, <1>5, <1>6, <1>9, <2>1
  <2>3. ASSUME NEW k \in 0..(s.end - c - 1)  PROVE ActiveAt(s, now + k)
    <3>1. c + k \in 0..(Slots - 1) /\ k \in Int /\ c + k < s.end
      BY <1>1, <1>5, <2>1
    <3>2. Day(now + k) = d /\ Slot(now + k) = c + k
      BY <1>3, <3>1
    <3> QED BY <1>9, <2>1, <3>1, <3>2 DEF ActiveAt
  <2>4. s.start # s.end => ~ActiveAt(s, now + (s.end - c))
    <3>1. c + (s.end - c) \in 0..(Slots - 1) /\ s.end - c \in Int /\ c + (s.end - c) = s.end
      BY <1>1, <1>5
    <3>2. Slot(now + (s.end - c)) = s.end
      BY <1>3, <3>1
    <3> QED BY <1>5, <1>9, <3>2 DEF ActiveAt
  <2> QED BY <1>1, <1>5, <2>1, <2>2, <2>3, <2>4
<1> QED BY <1>1, <1>5, <1>7, <1>8, <1>9

(* No block begins before the next start, which comes.                     *)
LEMMA StartIsTold ==
    ASSUME TypeOK
    PROVE  NextStart({}) = Soonest({k \in 1..Span : \E b \in Enabled : From(block[b].shape, now + k)})
<1> DEFINE D == Day(now)  c == Slot(now)
           A == {k \in 1..(Span + Slots) :
                    \E b \in Enabled, d \in Ahead :
                       /\ Day(now + d * Slots) \in block[b].shape.days
                       /\ k = d * Slots + block[b].shape.start - c}
           B == {k \in 1..Span : \E b \in Enabled : From(block[b].shape, now + k)}
<1>1. /\ D \in 0..(Days - 1) /\ c \in 0..(Slots - 1)
      /\ Slots \in Nat \ {0} /\ Days \in Nat \ {0} /\ Span = Days * Slots /\ Span \in Nat
  BY InstantOfWeek, Measures DEF TypeOK, Times
<1>2. ASSUME NEW e \in Int  PROVE Day(now + e * Slots) = (D + e) % Days
  <2>1. e * Slots \in Int /\ c + e * Slots = e * Slots + c /\ c \in Times
    BY <1>1 DEF Times
  <2> QED BY <2>1, ClockAfter
<1>3. ASSUME NEW e \in Int, NEW r \in 0..(Slots - 1)
      PROVE  Day(now + (e * Slots + r - c)) = (D + e) % Days /\ Slot(now + (e * Slots + r - c)) = r
  <2>1. /\ e * Slots + r - c \in Int /\ c + (e * Slots + r - c) = e * Slots + r /\ r \in Times
    BY <1>1 DEF Times
  <2> QED BY <2>1, ClockAfter
<1> HIDE DEF D, c
<1>4. B \subseteq A
  <2> SUFFICES ASSUME NEW k \in B  PROVE k \in A
    OBVIOUS
  <2>1. PICK b \in Enabled : From(block[b].shape, now + k)
    OBVIOUS
  <2> DEFINE r == block[b].shape.start
  <2>2. r \in 0..(Slots - 1) /\ Day(now + k) \in block[b].shape.days /\ Slot(now + k) = r
    BY <2>1, EnabledShaped DEF From, Shaped
  <2>3. k \in Int /\ c + k \in Int /\ k >= 1 /\ k <= Days * Slots
    BY <1>1
  <2> DEFINE e == (c + k) \div Slots  x == (c + k) % Slots
  <2>4. e \in Int /\ x \in 0..(Slots - 1) /\ c + k = e * Slots + x
    BY <1>1, <2>3, Division
  <2> HIDE DEF e, x, r
  <2>5. k = e * Slots + x - c
    BY <1>1, <2>3, <2>4
  <2>6. x = r /\ Day(now + k) = (D + e) % Days
    BY <1>3, <2>2, <2>4, <2>5
  <2>7. Day(now + e * Slots) = Day(now + k)
    BY <1>2, <2>4, <2>6
  <2>8. e \in 0..Days
    <3>1. (-1) * Slots < e * Slots
      BY <1>1, <2>3, <2>4
    <3>2. (Days + 1) * Slots = Days * Slots + Slots
      BY <1>1
    <3>3. e * Slots < (Days + 1) * Slots
      BY <1>1, <2>3, <2>4, <3>2
    <3>4. -1 < e /\ e < Days + 1
      BY <1>1, <2>4, <3>1, <3>3, FewerTimes
    <3> QED BY <1>1, <2>4, <3>4
  <2>9. k \in 1..(Span + Slots)
    BY <1>1, <2>3
  <2> QED BY <2>1, <2>2, <2>5, <2>6, <2>7, <2>8, <2>9 DEF Ahead, r
<1>5. ASSUME NEW k \in A  PROVE \E j \in B : j <= k
  <2>1. PICK b \in Enabled, d \in Ahead :
           /\ Day(now + d * Slots) \in block[b].shape.days
           /\ k = d * Slots + block[b].shape.start - c
    OBVIOUS
  <2> DEFINE r == block[b].shape.start
  <2>2. /\ r \in 0..(Slots - 1) /\ d \in 0..Days /\ k \in 1..(Span + Slots)
        /\ k = d * Slots + r - c /\ Day(now + d * Slots) \in block[b].shape.days
    BY <2>1, EnabledShaped DEF Shaped, Ahead
  <2>3. (D + d) % Days \in block[b].shape.days
    BY <1>2, <2>2
  <2> HIDE DEF r
  <2>4. ASSUME NEW e \in 0..Days, NEW j, j = e * Slots + r - c, j \in 1..Span, (D + e) % Days = (D + d) % Days
        PROVE  j \in B
    <3>1. Day(now + j) = (D + e) % Days /\ Slot(now + j) = r
      <4>1. e \in Int
        BY <1>1
      <4>2. Day(now + (e * Slots + r - c)) = (D + e) % Days /\ Slot(now + (e * Slots + r - c)) = r
        BY <1>3, <2>2, <4>1
      <4> QED BY <2>4, <4>2
    <3>2. From(block[b].shape, now + j)
      BY <2>3, <2>4, <3>1 DEF From, r
    <3> QED BY <2>4, <3>2
  <2>5. CASE k <= Span
    <3>1. k \in 1..Span
      BY <1>1, <2>2, <2>5
    <3>2. k \in B
      BY <2>2, <2>4, <3>1
    <3> QED BY <2>2, <3>2
  <2>6. CASE k > Span
    <3>1. d = Days
      <4>1. (Days - 1) * Slots = Days * Slots - Slots
        BY <1>1
      <4>2. (Days - 1) * Slots < d * Slots
        BY <1>1, <2>2, <2>6, <4>1
      <4>3. Days - 1 < d
        BY <1>1, <2>2, <4>2, FewerTimes
      <4> QED BY <1>1, <2>2, <4>3
    <3> DEFINE j == 0 * Slots + r - c
    <3>2. j \in 1..Span /\ j <= k
      <4>1. j = r - c /\ k = Span + (r - c)
        BY <1>1, <2>2, <3>1
      <4>2. Slots <= Span
        BY <1>1
      <4>3. r - c >= 1 /\ r - c <= Slots
        BY <1>1, <2>2, <2>6, <4>1
      <4> QED BY <1>1, <2>2, <4>1, <4>2, <4>3
    <3>3. (D + 0) % Days = (D + d) % Days
      <4>1. D + d = 1 * Days + D /\ D + 0 = 0 * Days + D
        BY <1>1, <3>1
      <4>2. (1 * Days + D) % Days = D /\ (0 * Days + D) % Days = D
        BY <1>1, DivisionOnce
      <4> QED BY <4>1, <4>2
    <3> HIDE DEF j
    <3>4. 0 \in 0..Days
      BY <1>1
    <3>5. j \in B
      BY <2>4, <3>2, <3>3, <3>4 DEF j
    <3> QED BY <3>2, <3>5
  <2> QED BY <1>1, <2>2, <2>5, <2>6
<1>6. A \subseteq Nat
  BY <1>1
<1>7. NextStart({}) = Soonest(A)
  BY DEF NextStart, c
<1> HIDE DEF A, B
<1>8. Soonest(A) = Soonest(B)
  BY <1>4, <1>5, <1>6, SoonestSame
<1> QED BY <1>7, <1>8 DEF B

(* The times at which a block ends: at its end on a day it runs, or the    *)
(* morning after.                                                          *)
LEMMA EndedWhen ==
    ASSUME NEW s, Shaped(s), NEW t \in Week
    PROVE  Ended(s, t) <=> /\ Slot(t) = s.end
                           /\ (IF Overnight(s) THEN (Day(t) - 1) % Days ELSE Day(t)) \in s.days
<1> DEFINE u == (t - 1) % Span
<1>1. /\ Slot(t) # 0 => Day(u) = Day(t) /\ Slot(u) = Slot(t) - 1
      /\ Slot(t) = 0 => Day(u) = (Day(t) - 1) % Days /\ Slot(u) = Slots - 1
  BY JustBefore
<1>2. Slot(t) \in 0..(Slots - 1) /\ Slots \in Nat \ {0}
  BY InstantOfWeek, Measures DEF Times
<1>3. Ended(s, t) <=> Slot(t) = s.end /\ ActiveAt(s, u)
  BY DEF Ended
<1>4. s.start \in 0..(Slots - 1) /\ s.end \in 0..(Slots - 1) /\ (Overnight(s) <=> s.end <= s.start)
  BY DEF Shaped, Overnight
<1> HIDE DEF u
<1>5. CASE Slot(t) = s.end /\ s.end # 0
  <2>1. Day(u) = Day(t) /\ Slot(u) = s.end - 1
    BY <1>1, <1>5
  <2>2. CASE Overnight(s)
    <3>1. ~(s.start <= Slot(u)) /\ Slot(u) < s.end
      BY <1>4, <2>1, <2>2
    <3> QED BY <1>3, <1>5, <2>1, <2>2, <3>1 DEF ActiveAt
  <2>3. CASE ~Overnight(s)
    <3>1. s.start <= Slot(u) /\ Slot(u) < s.end
      BY <1>4, <2>1, <2>3
    <3> QED BY <1>3, <1>5, <2>1, <2>3, <3>1 DEF ActiveAt
  <2> QED BY <2>2, <2>3
<1>6. CASE Slot(t) = s.end /\ s.end = 0
  <2>1. Overnight(s) /\ Day(u) = (Day(t) - 1) % Days /\ Slot(u) = Slots - 1
    BY <1>1, <1>4, <1>6
  <2>2. s.start <= Slot(u) /\ ~(Slot(u) < s.end)
    BY <1>2, <1>4, <1>6, <2>1
  <2> QED BY <1>3, <1>6, <2>1, <2>2 DEF ActiveAt
<1>7. CASE Slot(t) # s.end
  BY <1>3, <1>7
<1> QED BY <1>5, <1>6, <1>7

(* No block has ended since the last end.                                  *)
LEMMA LastEndIsTold ==
    ASSUME TypeOK
    PROVE  SinceEnd =
             Soonest({k \in 0..(Span - 1) : \E b \in Enabled : Ended(block[b].shape, (now - k) % Span)})
<1> DEFINE D == Day(now)  c == Slot(now)
           Ran(s, e) == (IF Overnight(s) THEN (e - 1) % Days ELSE e) \in s.days
           A == {k \in 0..(Span + Slots) :
                    \E b \in Enabled, d \in Ahead :
                       LET s == block[b].shape
                           ended == (D - d) % Days
                       IN  /\ (IF Overnight(s) THEN (ended - 1) % Days ELSE ended) \in s.days
                           /\ k = d * Slots + c - s.end}
           B == {k \in 0..(Span - 1) : \E b \in Enabled : Ended(block[b].shape, (now - k) % Span)}
<1>1. /\ D \in 0..(Days - 1) /\ c \in 0..(Slots - 1)
      /\ Slots \in Nat \ {0} /\ Days \in Nat \ {0} /\ Span = Days * Slots /\ Span \in Nat \ {0}
      /\ now \in Int
  BY InstantOfWeek, Measures DEF TypeOK, Times, Week
<1>2. ASSUME NEW e \in Int, NEW r \in 0..(Slots - 1)
      PROVE  Day(now + (r - e * Slots - c)) = (D - e) % Days /\ Slot(now + (r - e * Slots - c)) = r
  <2>1. /\ r - e * Slots - c \in Int /\ c + (r - e * Slots - c) = (-e) * Slots + r /\ r \in Times /\ -e \in Int
    BY <1>1 DEF Times
  <2>2. Day(now + (r - e * Slots - c)) = (D + (-e)) % Days /\ Slot(now + (r - e * Slots - c)) = r
    BY <2>1, ClockAfter
  <2>3. D + (-e) = D - e
    BY <1>1
  <2> QED BY <2>2, <2>3
<1> HIDE DEF D, c
<1>3. ASSUME NEW b \in Enabled, NEW k \in Int
      PROVE  Ended(block[b].shape, (now - k) % Span)
               <=> Slot(now - k) = block[b].shape.end /\ Ran(block[b].shape, Day(now - k))
  <2>1. /\ now - k \in Int /\ (now - k) % Span \in Week
        /\ Day((now - k) % Span) = Day(now - k) /\ Slot((now - k) % Span) = Slot(now - k)
    BY <1>1, RoundTheWeek
  <2>2. Shaped(block[b].shape)
    BY EnabledShaped
  <2> QED BY <2>1, <2>2, EndedWhen
<1>4. ASSUME NEW b \in Enabled, NEW d \in Ahead, NEW k
      PROVE  (LET s == block[b].shape
                  ended == (D - d) % Days
              IN  /\ (IF Overnight(s) THEN (ended - 1) % Days ELSE ended) \in s.days
                  /\ k = d * Slots + c - s.end)
               <=> Ran(block[b].shape, (D - d) % Days) /\ k = d * Slots + c - block[b].shape.end
  OBVIOUS
<1> HIDE DEF Ran
<1>5. B \subseteq A
  <2> SUFFICES ASSUME NEW k \in B  PROVE k \in A
    OBVIOUS
  <2>1. PICK b \in Enabled : Ended(block[b].shape, (now - k) % Span)
    OBVIOUS
  <2> DEFINE r == block[b].shape.end
  <2>2. k \in Int /\ now - k \in Int /\ c - k \in Int /\ k >= 0 /\ k <= Days * Slots - 1
    BY <1>1
  <2>3. r \in 0..(Slots - 1) /\ Slot(now - k) = r /\ Ran(block[b].shape, Day(now - k))
    BY <1>3, <2>1, <2>2, EnabledShaped DEF Shaped
  <2> DEFINE q == (c - k) \div Slots  x == (c - k) % Slots
  <2>4. q \in Int /\ x \in 0..(Slots - 1) /\ c - k = q * Slots + x
    BY <1>1, <2>2, Division
  <2> HIDE DEF q, x, r
  <2> DEFINE d == -q
  <2>5. d \in Int /\ d * Slots = -(q * Slots)
    BY <1>1, <2>4
  <2> HIDE DEF d
  <2>6. k = d * Slots + c - x /\ now - k = now + (x - d * Slots - c)
    BY <1>1, <2>2, <2>4, <2>5
  <2>7. x = r /\ Day(now - k) = (D - d) % Days
    BY <1>2, <2>3, <2>4, <2>5, <2>6
  <2>8. d \in 0..Days
    <3>1. (-1) * Slots < d * Slots
      BY <1>1, <2>2, <2>4, <2>5, <2>6
    <3>2. (Days + 1) * Slots = Days * Slots + Slots
      BY <1>1
    <3>3. d * Slots < (Days + 1) * Slots
      BY <1>1, <2>2, <2>4, <2>5, <2>6, <3>2
    <3>4. -1 < d /\ d < Days + 1
      BY <1>1, <2>5, <3>1, <3>3, FewerTimes
    <3> QED BY <1>1, <2>5, <3>4
  <2>9. k \in 0..(Span + Slots) /\ d \in Ahead
    BY <1>1, <2>2, <2>8 DEF Ahead
  <2>10. Ran(block[b].shape, (D - d) % Days) /\ k = d * Slots + c - block[b].shape.end
    BY <2>3, <2>6, <2>7 DEF r
  <2> QED BY <1>4, <2>9, <2>10
<1>6. ASSUME NEW k \in A  PROVE \E j \in B : j <= k
  <2>1. PICK b \in Enabled, d \in Ahead :
           Ran(block[b].shape, (D - d) % Days) /\ k = d * Slots + c - block[b].shape.end
    BY <1>4
  <2> DEFINE r == block[b].shape.end
  <2>2. /\ r \in 0..(Slots - 1) /\ d \in 0..Days /\ k \in 0..(Span + Slots)
        /\ k = d * Slots + c - r
    BY <2>1, EnabledShaped DEF Shaped, Ahead
  <2> HIDE DEF r
  <2>3. ASSUME NEW e \in 0..Days, NEW j, j = e * Slots + c - r, j \in 0..(Span - 1), (D - e) % Days = (D - d) % Days
        PROVE  j \in B
    <3>1. e \in Int /\ j \in Int /\ now - j = now + (r - e * Slots - c)
      BY <1>1, <2>2, <2>3
    <3>2. Day(now - j) = (D - e) % Days /\ Slot(now - j) = r
      BY <1>2, <2>2, <3>1
    <3>3. Ended(block[b].shape, (now - j) % Span)
      BY <1>3, <2>1, <2>3, <3>1, <3>2 DEF r
    <3> QED BY <2>3, <3>3
  <2>4. CASE k <= Span - 1
    <3>1. k \in 0..(Span - 1)
      BY <1>1, <2>2, <2>4
    <3>2. k \in B
      BY <2>2, <2>3, <3>1
    <3> QED BY <2>2, <3>2
  <2>5. CASE k >= Span
    <3>1. d = Days
      <4>1. (Days - 1) * Slots = Days * Slots - Slots
        BY <1>1
      <4>2. (Days - 1) * Slots < d * Slots
        BY <1>1, <2>2, <2>5, <4>1
      <4>3. Days - 1 < d
        BY <1>1, <2>2, <4>2, FewerTimes
      <4> QED BY <1>1, <2>2, <4>3
    <3> DEFINE j == 0 * Slots + c - r
    <3>2. j \in 0..(Span - 1) /\ j <= k
      <4>1. j = c - r /\ k = Span + (c - r)
        BY <1>1, <2>2, <3>1
      <4>2. Slots <= Span
        BY <1>1
      <4>3. c - r >= 0 /\ c - r <= Slots - 1
        BY <1>1, <2>2, <2>5, <4>1
      <4> QED BY <1>1, <2>2, <4>1, <4>2, <4>3
    <3>3. (D - 0) % Days = (D - d) % Days
      <4>1. /\ D - d = (-1) * Days + D /\ D - 0 = 0 * Days + D
            /\ -1 \in Int /\ 0 \in Int
        BY <1>1, <3>1
      <4>2. \A q \in Int : (q * Days + D) % Days = D
        BY <1>1, DivisionOnce
      <4> QED BY <4>1, <4>2
    <3> HIDE DEF j
    <3>4. 0 \in 0..Days
      BY <1>1
    <3>5. j \in B
      BY <2>3, <3>2, <3>3, <3>4 DEF j
    <3> QED BY <3>2, <3>5
  <2> QED BY <1>1, <2>2, <2>4, <2>5
<1>7. A \subseteq Nat
  BY <1>1
<1>8. SinceEnd = Soonest(A)
  BY DEF SinceEnd, D, c
<1> HIDE DEF A, B
<1>9. Soonest(A) = Soonest(B)
  BY <1>5, <1>6, <1>7, SoonestSame
<1> QED BY <1>8, <1>9 DEF B

(* The card tells the clock, for every week, every set of blocks, also     *)
(* overnight ones and round the week's end, at every moment: the three     *)
(* walks through dates agree with the matching the engine goes by.         *)
THEOREM CardIsRight == Spec => []StatusTellsTheClock
<1>1. TypeOK => StatusTellsTheClock
  <2> SUFFICES ASSUME TypeOK  PROVE StatusTellsTheClock
    OBVIOUS
  <2>1. ASSUME Matching(now) # {}
        PROVE  LET s == block[Match].shape
                   n == UntilEnd(s)
               IN  /\ n > 0 /\ \A k \in 0..(n - 1) : ActiveAt(s, now + k)
                   /\ s.start # s.end => ~ActiveAt(s, now + n)
    <3>1. Match \in Enabled /\ ActiveAt(block[Match].shape, now)
      BY <2>1, MatchRuns DEF Matching
    <3>2. Shaped(block[Match].shape)
      BY <3>1, EnabledShaped
    <3> QED BY <3>1, <3>2, EndIsTold
  <2> QED BY <2>1, StartIsTold, LastEndIsTold DEF StatusTellsTheClock
<1> QED BY <1>1, RoomsTypeCorrect, PTL

=============================================================================
