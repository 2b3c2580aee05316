------------------------- MODULE CycleEngine_proofs -------------------------
(* Proofs about CycleEngine, for every zone and every number of faults and *)
(* crashes.                                                                *)
EXTENDS CycleEngine, FiniteSetTheorems, TLAPS

-----------------------------------------------------------------------------
(* What the helpers of the actions preserve *)

(* A fault stays within its bound (MaxFaults), which no code knows.        *)
LEMMA SpendType ==
    ASSUME HouseType, NEW wrong \in BOOLEAN, Spend(wrong)
    PROVE  faults' \in 0..MaxFaults
  BY ZoneAssumption DEF HouseType, Spend

(* open_room_vents and force_close_vents leave every vent open or closed.  *)
LEMMA SendType ==
    ASSUME HouseType, NEW S, NEW to \in {"open", "closed"}, NEW wrong \in BOOLEAN,
           Send(S, to, wrong)
    PROVE  faults' \in 0..MaxFaults /\ vent' \in [Vents -> {"open", "closed"}]
<1>1. PICK missed \in SUBSET {v \in S : vent[v] # to} :
        /\ Spend(wrong \/ missed # {})
        /\ vent' = [v \in Vents |-> IF v \in S \ missed THEN to ELSE vent[v]]
  BY DEF Send
<1>2. faults' \in 0..MaxFaults
  BY <1>1, SpendType
<1>3. vent' \in [Vents -> {"open", "closed"}]
  BY <1>1 DEF HouseType
<1> QED
  BY <1>2, <1>3

(* A handler that ends leaves its locals empty.                            *)
LEMMA RestType == ASSUME Rest PROVE HandlerType'
  BY DEF Rest, HandlerType, PCs

(* The empty engine of __init__ is typed.                                  *)
LEMMA ColdType == ASSUME Cold PROVE EngineType'
  BY DEF Cold, EngineType, NoRecords, Records

(* An upsert_room_cycle_state leaves the records and the rows typed.       *)
LEMMA RecordType ==
    ASSUME EngineType, RowsType, NEW r \in Rooms, NEW value \in Records,
           NEW ok \in BOOLEAN, Record(r, value, ok)
    PROVE  rcs' \in [Rooms -> Records] /\ dbRcs' \in [Rooms -> Rows]
  BY DEF Record, EngineType, RowsType, Records, Rows

(* _release_min_runtime_hold leaves the hold flag and its row typed.       *)
LEMMA ReleaseType ==
    ASSUME HouseType, RowsType, ReleaseHold
    PROVE  hold' \in BOOLEAN /\ dbHold' \in BOOLEAN /\ faults' \in 0..MaxFaults
<1>1. PICK ok \in BOOLEAN : dbHold' = (dbHold /\ ~ok) /\ Spend(~ok)
  BY DEF ReleaseHold
<1>2. faults' \in 0..MaxFaults
  BY <1>1, SpendType
<1>3. dbHold' \in BOOLEAN
  BY <1>1
<1> QED
  BY <1>2, <1>3 DEF ReleaseHold

(* The close of the cycle log leaves its row typed.                        *)
LEMMA CloseLogType ==
    ASSUME HouseType, CloseLog
    PROVE  dbOpen' \in BOOLEAN /\ faults' \in 0..MaxFaults
<1>1. PICK ok \in BOOLEAN : dbOpen' = (dbOpen /\ ~ok) /\ Spend(~ok)
  BY DEF CloseLog
<1>2. faults' \in 0..MaxFaults
  BY <1>1, SpendType
<1> QED
  BY <1>1, <1>2

(* _record_overflow_open leaves the rows typed.                            *)
LEMMA RowsOverflow ==
    ASSUME RowsType, NEW S
    PROVE  OverflowRows(S) \in [Rooms -> Rows]
  BY DEF OverflowRows, RowsType, Rows, Records

(* _record_overflow_close leaves the rows typed.                           *)
LEMMA EndOverflowType ==
    ASSUME RowsType, NEW S, EndOverflow(S)
    PROVE  dbRcs' \in [Rooms -> Rows]
  BY RowsOverflow DEF EndOverflow

-----------------------------------------------------------------------------
(* Type correctness *)

(* Every handler step, fault and crash leaves the whole state typed.       *)
LEMMA Typing == TypeOK /\ [Next]_vars => TypeOK'
<1> SUFFICES ASSUME TypeOK, [Next]_vars PROVE TypeOK'
  OBVIOUS
<1> USE ZoneAssumption DEF TypeOK, Records, Rows, PCs, Ages, engine, locals, db
<1>1. CASE TickAborts
  BY <1>1 DEF TickAborts, EngineType, HandlerType, RowsType, HouseType
<1>2. CASE TickStaysIdle
  BY <1>2 DEF TickStaysIdle, Goto, EngineType, HandlerType, RowsType, HouseType
<1>3. CASE TickMonitors
  BY <1>3 DEF TickMonitors, Goto, EngineType, HandlerType, RowsType, HouseType
<1>4. CASE CloseOverflow
  BY <1>4, EndOverflowType, SendType, ZenonT(60) DEF CloseOverflow, Goto, EngineType, HandlerType, RowsType, HouseType
<1>5. CASE Reassert
  <2>1. HouseType'
    BY <1>5, SendType DEF Reassert, HouseType
  <2>2. HandlerType'
    BY <1>5 DEF Reassert, Goto, HandlerType
  <2> QED
    BY <1>5, <2>1, <2>2 DEF Reassert, EngineType, RowsType
<1>6. CASE SweepEnds
  BY <1>6, RestType DEF SweepEnds, Goto, EngineType, HandlerType, RowsType, HouseType
<1>7. CASE Decide
  BY <1>7 DEF Decide, Goto, EngineType, HandlerType, RowsType, HouseType
<1>8. CASE TermFinish
  BY <1>8, CloseLogType, ColdType DEF TermFinish, Goto, EngineType, HandlerType, RowsType, HouseType
<1>9. CASE OpenZone
  BY <1>9, SendType, ZenonT(60) DEF OpenZone, Goto, EngineType, HandlerType, RowsType, HouseType
<1>10. CASE Abort
  BY <1>10, CloseLogType, EndOverflowType DEF Abort, Goto, EngineType, HandlerType, RowsType, HouseType
<1>11. CASE AbortOpen
  BY <1>11, ColdType, RestType, SendType DEF AbortOpen, Goto, EngineType, HandlerType, RowsType, HouseType
<1>12. CASE Timeout
  BY <1>12 DEF Timeout, Goto, EngineType, HandlerType, RowsType, HouseType
<1>13. CASE Reconcile
  BY <1>13 DEF Reconcile, Goto, EngineType, HandlerType, RowsType, HouseType
<1>14. CASE SkipReconcile
  BY <1>14, RestType DEF SkipReconcile, EngineType, HandlerType, RowsType, HouseType
<1>15. CASE ReconcileEnds
  BY <1>15, RestType DEF ReconcileEnds, EngineType, HandlerType, RowsType, HouseType
<1>16. CASE BootCold
  BY <1>16, RestType DEF BootCold, EngineType, HandlerType, RowsType, HouseType
<1>17. CASE BootDiscards
  BY <1>17, RestType, SendType DEF BootDiscards, EngineType, HandlerType, RowsType, HouseType
<1>18. CASE BootResumes
  BY <1>18 DEF BootResumes, Goto, EngineType, HandlerType, RowsType, HouseType
<1>19. CASE BootFails
  BY <1>19, ColdType, RestType, SpendType DEF BootFails, EngineType, HandlerType, RowsType, HouseType
<1>20. CASE Raise
  BY <1>20, RestType, SpendType, ZenonT(60) DEF Raise, EngineType, HandlerType, RowsType, HouseType
<1>21. CASE Crash
  <2>1. EngineType'
    BY <1>21, ColdType DEF Crash, EngineType, HandlerType, RowsType
  <2>2. HandlerType'
    BY <1>21, ColdType DEF Crash, HandlerType, EngineType, RowsType
  <2>3. RowsType'
    BY <1>21, ColdType DEF Crash, RowsType, EngineType, HandlerType
  <2>4. HouseType'
    BY <1>21, ColdType DEF Crash, HouseType, EngineType, HandlerType, RowsType
  <2> QED
    BY <2>1, <2>2, <2>3, <2>4
<1>22. CASE GrowOld
  BY <1>22 DEF GrowOld, EngineType, HandlerType, RowsType, HouseType
<1>23. ASSUME NEW want \in (SUBSET Rooms) \ {{}}, Start(want) PROVE TypeOK'
  BY <1>23 DEF Start, NoRecords, EngineType, HandlerType, RowsType, HouseType
<1>24. ASSUME NEW want \in (SUBSET Rooms) \ {{}}, StartFails(want) PROVE TypeOK'
  BY <1>24, SpendType, ZenonT(60) DEF StartFails, EngineType, HandlerType, RowsType, HouseType
<1>25. ASSUME NEW want \in (SUBSET Rooms) \ {{}}, NEW moved \in SUBSET (want \cap active), Update(want, moved) PROVE TypeOK'
  BY <1>25, ZenonT(60) DEF Update, EngineType, HandlerType, RowsType, HouseType
<1>26. ASSUME NEW r \in Rooms, Join(r) PROVE TypeOK'
  <2>1. EngineType'
    BY <1>26, RecordType, SendType, SpendType DEF Join, Goto, EngineType, HandlerType, RowsType
  <2>2. HandlerType'
    BY <1>26, RecordType, SendType, SpendType DEF Join, Goto, HandlerType, EngineType, RowsType
  <2>3. RowsType'
    BY <1>26, RecordType, SendType, SpendType DEF Join, Goto, RowsType, EngineType, HandlerType
  <2>4. HouseType'
    BY <1>26, RecordType, SendType, SpendType DEF Join, Goto, HouseType, EngineType, HandlerType, RowsType
  <2> QED
    BY <2>1, <2>2, <2>3, <2>4
<1>27. ASSUME NEW r \in Rooms, Leave(r) PROVE TypeOK'
  BY <1>27, SendType, SpendType, ZenonT(60) DEF Leave, CloseIfAllowed, NoCommand, EngineType, HandlerType, RowsType, HouseType
<1>28. ASSUME NEW r \in Rooms, Sweep(r) PROVE TypeOK'
  BY <1>28, SendType, SpendType, ZenonT(60) DEF Sweep, CloseIfAllowed, Goto, NoCommand, EngineType, HandlerType, RowsType, HouseType
<1>29. ASSUME NEW r \in Rooms, ReopenForHold(r) PROVE TypeOK'
  <2>1. EngineType'
    BY <1>29, RecordType, RestType, SendType DEF ReopenForHold, Goto, EngineType, HandlerType, RowsType
  <2>2. HandlerType'
    BY <1>29, RecordType, RestType, SendType DEF ReopenForHold, Goto, HandlerType, EngineType, RowsType
  <2>3. RowsType'
    BY <1>29, RecordType, RestType, SendType DEF ReopenForHold, Goto, RowsType, EngineType, HandlerType
  <2>4. HouseType'
    BY <1>29, RecordType, RestType, SendType DEF ReopenForHold, Goto, HouseType, EngineType, HandlerType, RowsType
  <2> QED
    BY <2>1, <2>2, <2>3, <2>4
<1>30. ASSUME NEW u \in BOOLEAN, Retarget(u) PROVE TypeOK'
  BY <1>30, ReleaseType DEF Retarget, EngineType, HandlerType, RowsType, HouseType
<1>31. ASSUME NEW over \in SUBSET {r \in Rooms : rcs[r] = "closed"}, NEW lost \in {{}} \cup {{r} : r \in over}, Watchdog(over, lost) PROVE TypeOK'
  BY <1>31, RestType, SendType, ZenonT(60) DEF Watchdog, EngineType, HandlerType, RowsType, HouseType
<1>32. ASSUME NEW seen \in [active -> Readings], HoldCheck(seen) PROVE TypeOK'
  <2>1. EngineType'
    BY <1>32, ReleaseType, SpendType DEF HoldCheck, Goto, EngineType, HandlerType, RowsType
  <2>2. HandlerType'
    BY <1>32, ReleaseType, SpendType DEF HoldCheck, Goto, HandlerType, EngineType, RowsType
  <2>3. RowsType'
    BY <1>32, ReleaseType, SpendType DEF HoldCheck, Goto, RowsType, EngineType, HandlerType
  <2>4. HouseType'
    BY <1>32, ReleaseType, SpendType DEF HoldCheck, Goto, HouseType, EngineType, HandlerType, RowsType
  <2> QED
    BY <2>1, <2>2, <2>3, <2>4
<1>33. ASSUME NEW desired \in SUBSET (Rooms \ active), ApplyOverflow(desired) PROVE TypeOK'
  <2>1. EngineType'
    BY <1>33 DEF ApplyOverflow, Goto, NoCommand, EngineType
  <2>2. HandlerType'
    BY <1>33 DEF ApplyOverflow, Goto, HandlerType
  <2>3. RowsType'
    <3>1. CASE OverflowOn /\ \E r \in active : rcs[r] # "none"
      <4> DEFINE dropped == overflow \ desired
                 opening == VentsOf(desired) \ OpenVents
                 opened  == {r \in desired : /\ VentsOf({r}) # {}
                                             /\ r \in overflow => VentsOf({r}) \cap opening # {}}
      <4>1. PICK unread \in SUBSET dropped, lost \in SUBSET opened :
              dbRcs' = [r \in Rooms |-> IF r \in opened \ lost THEN "overflow"
                                        ELSE OverflowRows(dropped \ unread)[r]]
        BY <1>33, <3>1, ZenonT(60) DEF ApplyOverflow
      <4>2. OverflowRows(dropped \ unread) \in [Rooms -> Rows]
        BY RowsOverflow
      <4> HIDE DEF opened, dropped
      <4>3. dbRcs' \in [Rooms -> Rows]
        BY <4>1, <4>2 DEF RowsType
      <4> QED
        BY <1>33, <4>3 DEF ApplyOverflow, RowsType
    <3>2. CASE ~(OverflowOn /\ \E r \in active : rcs[r] # "none")
      BY <1>33, <3>2 DEF ApplyOverflow, RowsType
    <3> QED
      BY <3>1, <3>2
  <2>4. HouseType'
    BY <1>33, SpendType DEF ApplyOverflow, NoCommand, HouseType
  <2> QED
    BY <2>1, <2>2, <2>3, <2>4
<1>34. ASSUME NEW r \in Rooms, Repair(r) PROVE TypeOK'
  <2>1. EngineType'
    BY <1>34, RecordType, SendType, SpendType DEF Repair, VisitFrame, Visited, Visiting, EngineType, HandlerType, RowsType
  <2>2. HandlerType'
    BY <1>34, RecordType, SendType, SpendType DEF Repair, VisitFrame, Visited, Visiting, HandlerType, EngineType, RowsType
  <2>3. RowsType'
    BY <1>34, RecordType, SendType, SpendType DEF Repair, VisitFrame, Visited, Visiting, RowsType, EngineType, HandlerType
  <2>4. HouseType'
    BY <1>34, RecordType, SendType, SpendType DEF Repair, VisitFrame, Visited, Visiting, HouseType, EngineType, HandlerType, RowsType
  <2> QED
    BY <2>1, <2>2, <2>3, <2>4
<1>35. ASSUME NEW r \in Rooms, Overlook(r) PROVE TypeOK'
  BY <1>35, SpendType, ZenonT(60) DEF Overlook, NoCommand, VisitFrame, Visited, Visiting, EngineType, HandlerType, RowsType, HouseType
<1>36. ASSUME NEW r \in Rooms, StayServed(r) PROVE TypeOK'
  BY <1>36, SpendType, ZenonT(60) DEF StayServed, NoCommand, VisitFrame, Visited, Visiting, EngineType, HandlerType, RowsType, HouseType
<1>37. ASSUME NEW r \in Rooms, ReopenDrifted(r) PROVE TypeOK'
  <2>1. EngineType'
    BY <1>37, RecordType, RestType, SendType DEF ReopenDrifted, VisitFrame, Visited, Visiting, EngineType, HandlerType, RowsType
  <2>2. HandlerType'
    BY <1>37, RecordType, RestType, SendType DEF ReopenDrifted, VisitFrame, Visited, Visiting, HandlerType, EngineType, RowsType
  <2>3. RowsType'
    BY <1>37, RecordType, RestType, SendType DEF ReopenDrifted, VisitFrame, Visited, Visiting, RowsType, EngineType, HandlerType
  <2>4. HouseType'
    BY <1>37, RecordType, RestType, SendType DEF ReopenDrifted, VisitFrame, Visited, Visiting, HouseType, EngineType, HandlerType, RowsType
  <2> QED
    BY <2>1, <2>2, <2>3, <2>4
<1>38. ASSUME NEW r \in Rooms, CloseServed(r) PROVE TypeOK'
  <2>1. EngineType'
    BY <1>38, RecordType, RestType, SendType DEF CloseServed, VisitFrame, Visited, Visiting, EngineType, HandlerType, RowsType
  <2>2. HandlerType'
    BY <1>38, RecordType, RestType, SendType DEF CloseServed, VisitFrame, Visited, Visiting, HandlerType, EngineType, RowsType
  <2>3. RowsType'
    BY <1>38, RecordType, RestType, SendType DEF CloseServed, VisitFrame, Visited, Visiting, RowsType, EngineType, HandlerType
  <2>4. HouseType'
    BY <1>38, RecordType, RestType, SendType DEF CloseServed, VisitFrame, Visited, Visiting, HouseType, EngineType, HandlerType, RowsType
  <2> QED
    BY <2>1, <2>2, <2>3, <2>4
<1>39. ASSUME NEW r \in Rooms, Defer(r) PROVE TypeOK'
  BY <1>39, SpendType, ZenonT(60) DEF Defer, NoCommand, VisitFrame, Visited, Visiting, EngineType, HandlerType, RowsType, HouseType
<1>40. ASSUME NEW r \in Rooms, StillNeeds(r) PROVE TypeOK'
  BY <1>40, SpendType, ZenonT(60) DEF StillNeeds, NoCommand, VisitFrame, Visited, Visiting, EngineType, HandlerType, RowsType, HouseType
<1>41. ASSUME NEW ok \in BOOLEAN, Terminate(ok) PROVE TypeOK'
  <2>1. EngineType'
    BY <1>41, EndOverflowType, RestType, SpendType DEF Terminate, Goto, EngineType, HandlerType, RowsType
  <2>2. HandlerType'
    BY <1>41, EndOverflowType, RestType, SpendType DEF Terminate, Goto, HandlerType, EngineType, RowsType
  <2>3. RowsType'
    BY <1>41, EndOverflowType, RestType, SpendType DEF Terminate, Goto, RowsType, EngineType, HandlerType
  <2>4. HouseType'
    BY <1>41, EndOverflowType, RestType, SpendType DEF Terminate, Goto, HouseType, EngineType, HandlerType, RowsType
  <2> QED
    BY <2>1, <2>2, <2>3, <2>4
<1>42. ASSUME NEW v \in Vents, ReconcileVent(v) PROVE TypeOK'
  BY <1>42, SendType, SpendType, ZenonT(60) DEF ReconcileVent, CloseIfAllowed, Goto, NoCommand, EngineType, HandlerType, RowsType, HouseType
<1>43. ASSUME NEW v \in Vents, MoveVent(v) PROVE TypeOK'
  <2>1. EngineType'
    BY <1>43, SpendType DEF MoveVent, EngineType, HandlerType, RowsType
  <2>2. HandlerType'
    BY <1>43, SpendType DEF MoveVent, HandlerType, EngineType, RowsType
  <2>3. RowsType'
    BY <1>43, SpendType DEF MoveVent, RowsType, EngineType, HandlerType
  <2>4. HouseType'
    BY <1>43, SpendType DEF MoveVent, HouseType, EngineType, HandlerType, RowsType
  <2> QED
    BY <2>1, <2>2, <2>3, <2>4
<1>44. CASE UNCHANGED vars
  BY <1>44 DEF vars, EngineType, HandlerType, RowsType, HouseType
<1> QED
  BY <1>1, <1>2, <1>3, <1>4, <1>5, <1>6, <1>7, <1>8, <1>9, <1>10, <1>11, <1>12, <1>13, <1>14, <1>15, <1>16, <1>17, <1>18, <1>19, <1>20, <1>21, <1>22, <1>23, <1>24, <1>25, <1>26, <1>27, <1>28, <1>29, <1>30, <1>31, <1>32, <1>33, <1>34, <1>35, <1>36, <1>37, <1>38, <1>39, <1>40, <1>41, <1>42, <1>43, <1>44 DEF Next, Tick, Step, House, CheckRoom

(* Every reachable state of the engine, its rows and the house is typed.   *)
THEOREM TypeCorrect == Spec => []TypeOK
<1>1. Init => TypeOK
  <2> SUFFICES ASSUME Init PROVE TypeOK
    OBVIOUS
  <2>1. EngineType
    BY DEF Init, EngineType, Records, NoRecords
  <2>2. HandlerType
    BY DEF Init, HandlerType, PCs
  <2>3. RowsType
    BY DEF Init, RowsType, Rows, Records, NoRecords
  <2>4. HouseType
    BY ZoneAssumption DEF Init, HouseType, Ages
  <2> QED
    BY <2>1, <2>2, <2>3, <2>4 DEF TypeOK
<1> QED
  BY <1>1, Typing, PTL DEF Spec

-----------------------------------------------------------------------------
(* The engine's log and the hold *)

(* Every step keeps a running cycle with its log, and the close loop out   *)
(* of the hold.                                                            *)
LEMMA CycleStep == TypeOK /\ CycleInv /\ [Next]_vars => CycleInv'
<1> SUFFICES ASSUME TypeOK, CycleInv, [Next]_vars PROVE CycleInv'
  OBVIOUS
<1> USE DEF CycleInv, CycleHasLog, NeedsCycle, PCs, Uncontained, TypeOK, EngineType, HandlerType, engine, locals, db
<1>1. CASE TickAborts
  BY <1>1 DEF TickAborts
<1>2. CASE TickStaysIdle
  BY <1>2 DEF TickStaysIdle, Goto
<1>3. CASE TickMonitors
  BY <1>3 DEF TickMonitors, Goto
<1>4. CASE CloseOverflow
  BY <1>4 DEF CloseOverflow, Goto
<1>5. CASE Reassert
  BY <1>5 DEF Reassert, Goto
<1>6. CASE SweepEnds
  BY <1>6 DEF SweepEnds, Goto, Rest
<1>7. CASE Decide
  BY <1>7 DEF Decide, Goto
<1>8. CASE TermFinish
  BY <1>8 DEF TermFinish, CloseLog, Cold, Goto
<1>9. CASE OpenZone
  BY <1>9 DEF OpenZone, Goto
<1>10. CASE Abort
  BY <1>10 DEF Abort, CloseLog, Goto
<1>11. CASE AbortOpen
  BY <1>11 DEF AbortOpen, Cold, Goto, Rest
<1>12. CASE Timeout
  BY <1>12 DEF Timeout, Goto
<1>13. CASE Reconcile
  BY <1>13 DEF Reconcile, Goto
<1>14. CASE SkipReconcile
  BY <1>14 DEF SkipReconcile, Rest
<1>15. CASE ReconcileEnds
  BY <1>15 DEF ReconcileEnds, Rest
<1>16. CASE BootCold
  BY <1>16 DEF BootCold, Rest
<1>17. CASE BootDiscards
  BY <1>17 DEF BootDiscards, Rest
<1>18. CASE BootResumes
  BY <1>18 DEF BootResumes, Goto
<1>19. CASE BootFails
  BY <1>19 DEF BootFails, Cold, Rest
<1>20. CASE Raise
  BY <1>20 DEF Raise, Rest
<1>21. CASE Crash
  BY <1>21 DEF Crash, Cold
<1>22. CASE GrowOld
  BY <1>22 DEF GrowOld
<1>23. ASSUME NEW want \in (SUBSET Rooms) \ {{}}, Start(want) PROVE CycleInv'
  BY <1>23 DEF Start
<1>24. ASSUME NEW want \in (SUBSET Rooms) \ {{}}, StartFails(want) PROVE CycleInv'
  BY <1>24 DEF StartFails
<1>25. ASSUME NEW want \in (SUBSET Rooms) \ {{}}, NEW moved \in SUBSET (want \cap active), Update(want, moved) PROVE CycleInv'
  BY <1>25 DEF Update
<1>26. ASSUME NEW r \in Rooms, Join(r) PROVE CycleInv'
  BY <1>26 DEF Join, Goto, Record
<1>27. ASSUME NEW r \in Rooms, Leave(r) PROVE CycleInv'
  BY <1>27 DEF Leave
<1>28. ASSUME NEW r \in Rooms, Sweep(r) PROVE CycleInv'
  BY <1>28 DEF Sweep, Goto
<1>29. ASSUME NEW r \in Rooms, ReopenForHold(r) PROVE CycleInv'
  BY <1>29 DEF ReopenForHold, Goto, Record, Rest
<1>30. ASSUME NEW u \in BOOLEAN, Retarget(u) PROVE CycleInv'
  BY <1>30 DEF Retarget, ReleaseHold
<1>31. ASSUME NEW over \in SUBSET {r \in Rooms : rcs[r] = "closed"}, NEW lost \in {{}} \cup {{r} : r \in over}, Watchdog(over, lost) PROVE CycleInv'
  BY <1>31 DEF Watchdog, Rest
<1>32. ASSUME NEW seen \in [active -> Readings], HoldCheck(seen) PROVE CycleInv'
  BY <1>32 DEF HoldCheck, Goto, ReleaseHold
<1>33. ASSUME NEW desired \in SUBSET (Rooms \ active), ApplyOverflow(desired) PROVE CycleInv'
  BY <1>33 DEF ApplyOverflow, Goto
<1>34. ASSUME NEW r \in Rooms, Repair(r) PROVE CycleInv'
  BY <1>34 DEF Repair, Record, VisitFrame, Visited, Visiting
<1>35. ASSUME NEW r \in Rooms, Overlook(r) PROVE CycleInv'
  BY <1>35 DEF Overlook, VisitFrame, Visited, Visiting
<1>36. ASSUME NEW r \in Rooms, StayServed(r) PROVE CycleInv'
  BY <1>36 DEF StayServed, VisitFrame, Visited, Visiting
<1>37. ASSUME NEW r \in Rooms, ReopenDrifted(r) PROVE CycleInv'
  BY <1>37 DEF ReopenDrifted, Record, Rest, VisitFrame, Visited, Visiting
<1>38. ASSUME NEW r \in Rooms, CloseServed(r) PROVE CycleInv'
  BY <1>38 DEF CloseServed, Record, Rest, VisitFrame, Visited, Visiting
<1>39. ASSUME NEW r \in Rooms, Defer(r) PROVE CycleInv'
  BY <1>39 DEF Defer, VisitFrame, Visited, Visiting
<1>40. ASSUME NEW r \in Rooms, StillNeeds(r) PROVE CycleInv'
  BY <1>40 DEF StillNeeds, VisitFrame, Visited, Visiting
<1>41. ASSUME NEW ok \in BOOLEAN, Terminate(ok) PROVE CycleInv'
  BY <1>41 DEF Terminate, Goto, Rest
<1>42. ASSUME NEW v \in Vents, ReconcileVent(v) PROVE CycleInv'
  BY <1>42 DEF ReconcileVent, Goto
<1>43. ASSUME NEW v \in Vents, MoveVent(v) PROVE CycleInv'
  BY <1>43 DEF MoveVent
<1>44. CASE UNCHANGED vars
  BY <1>44 DEF vars
<1> QED
  BY <1>1, <1>2, <1>3, <1>4, <1>5, <1>6, <1>7, <1>8, <1>9, <1>10, <1>11, <1>12, <1>13, <1>14, <1>15, <1>16, <1>17, <1>18, <1>19, <1>20, <1>21, <1>22, <1>23, <1>24, <1>25, <1>26, <1>27, <1>28, <1>29, <1>30, <1>31, <1>32, <1>33, <1>34, <1>35, <1>36, <1>37, <1>38, <1>39, <1>40, <1>41, <1>42, <1>43, <1>44 DEF Next, Tick, Step, House, CheckRoom

(* Where the engine stands with its log and its hold, in every state.      *)
LEMMA CycleCorrect == Spec => []CycleInv
<1>1. Init => CycleInv
  BY DEF Init, CycleInv, CycleHasLog, NeedsCycle
<1> QED
  BY <1>1, CycleStep, TypeCorrect, PTL DEF Spec

(* The assertion on the log in _start_or_update_cycle never fails, only a  *)
(* cycle is ever held, and the close loop never runs in a hold.            *)
THEOREM LogIsHeld == Spec => []CycleHasLog
<1>1. CycleInv => CycleHasLog
  BY DEF CycleInv
<1> QED
  BY <1>1, CycleCorrect, PTL

-----------------------------------------------------------------------------
(* The pass over the rooms *)

(* In a pass of _monitor_rooms a room that is done with is closed, or      *)
(* noted.                                                                  *)
LEMMA PassStep == TypeOK /\ PassInv /\ [Next]_vars => PassInv'
<1> SUFFICES ASSUME TypeOK, PassInv, [Next]_vars PROVE PassInv'
  OBVIOUS
<1> USE DEF PassInv, TypeOK, EngineType, HandlerType, engine, locals, db
<1>1. CASE TickAborts
  BY <1>1 DEF TickAborts
<1>2. CASE TickStaysIdle
  BY <1>2 DEF TickStaysIdle, Goto
<1>3. CASE TickMonitors
  BY <1>3 DEF TickMonitors, Goto
<1>4. CASE CloseOverflow
  BY <1>4 DEF CloseOverflow, Goto
<1>5. CASE Reassert
  BY <1>5 DEF Reassert, Goto
<1>6. CASE SweepEnds
  BY <1>6 DEF SweepEnds, Goto, Rest
<1>7. CASE Decide
  BY <1>7 DEF Decide, Goto
<1>8. CASE TermFinish
  BY <1>8 DEF TermFinish, CloseLog, Cold, Goto, NoRecords
<1>9. CASE OpenZone
  BY <1>9 DEF OpenZone, Goto
<1>10. CASE Abort
  BY <1>10 DEF Abort, CloseLog, Goto
<1>11. CASE AbortOpen
  BY <1>11 DEF AbortOpen, Cold, Goto, Rest, NoRecords
<1>12. CASE Timeout
  BY <1>12 DEF Timeout, Goto
<1>13. CASE Reconcile
  BY <1>13 DEF Reconcile, Goto
<1>14. CASE SkipReconcile
  BY <1>14 DEF SkipReconcile, Rest
<1>15. CASE ReconcileEnds
  BY <1>15 DEF ReconcileEnds, Rest
<1>16. CASE BootCold
  BY <1>16 DEF BootCold, Rest
<1>17. CASE BootDiscards
  BY <1>17 DEF BootDiscards, Rest
<1>18. CASE BootResumes
  BY <1>18 DEF BootResumes, Goto
<1>19. CASE BootFails
  BY <1>19 DEF BootFails, Cold, Rest, NoRecords
<1>20. CASE Raise
  BY <1>20 DEF Raise, Rest
<1>21. CASE Crash
  BY <1>21 DEF Crash, Cold, NoRecords
<1>22. CASE GrowOld
  BY <1>22 DEF GrowOld
<1>23. ASSUME NEW want \in (SUBSET Rooms) \ {{}}, Start(want) PROVE PassInv'
  BY <1>23 DEF Start, NoRecords
<1>24. ASSUME NEW want \in (SUBSET Rooms) \ {{}}, StartFails(want) PROVE PassInv'
  BY <1>24 DEF StartFails
<1>25. ASSUME NEW want \in (SUBSET Rooms) \ {{}}, NEW moved \in SUBSET (want \cap active), Update(want, moved) PROVE PassInv'
  BY <1>25 DEF Update
<1>26. ASSUME NEW r \in Rooms, Join(r) PROVE PassInv'
  BY <1>26 DEF Join, Goto, Record
<1>27. ASSUME NEW r \in Rooms, Leave(r) PROVE PassInv'
  BY <1>27 DEF Leave
<1>28. ASSUME NEW r \in Rooms, Sweep(r) PROVE PassInv'
  BY <1>28 DEF Sweep, Goto
<1>29. ASSUME NEW r \in Rooms, ReopenForHold(r) PROVE PassInv'
  BY <1>29 DEF ReopenForHold, Goto, Record, Rest
<1>30. ASSUME NEW u \in BOOLEAN, Retarget(u) PROVE PassInv'
  BY <1>30 DEF Retarget, ReleaseHold
<1>31. ASSUME NEW over \in SUBSET {r \in Rooms : rcs[r] = "closed"}, NEW lost \in {{}} \cup {{r} : r \in over}, Watchdog(over, lost) PROVE PassInv'
  BY <1>31 DEF Watchdog, Rest
<1>32. ASSUME NEW seen \in [active -> Readings], HoldCheck(seen) PROVE PassInv'
  BY <1>32 DEF HoldCheck, Goto, ReleaseHold
<1>33. ASSUME NEW desired \in SUBSET (Rooms \ active), ApplyOverflow(desired) PROVE PassInv'
  BY <1>33 DEF ApplyOverflow, Goto
<1>34. ASSUME NEW r \in Rooms, Repair(r) PROVE PassInv'
  BY <1>34 DEF Repair, Record, VisitFrame, Visited, Visiting
<1>35. ASSUME NEW r \in Rooms, Overlook(r) PROVE PassInv'
  BY <1>35 DEF Overlook, VisitFrame, Visited, Visiting
<1>36. ASSUME NEW r \in Rooms, StayServed(r) PROVE PassInv'
  BY <1>36 DEF StayServed, VisitFrame, Visited, Visiting
<1>37. ASSUME NEW r \in Rooms, ReopenDrifted(r) PROVE PassInv'
  BY <1>37 DEF ReopenDrifted, Record, Rest, VisitFrame, Visited, Visiting
<1>38. ASSUME NEW r \in Rooms, CloseServed(r) PROVE PassInv'
  BY <1>38 DEF CloseServed, Record, Rest, VisitFrame, Visited, Visiting
<1>39. ASSUME NEW r \in Rooms, Defer(r) PROVE PassInv'
  BY <1>39 DEF Defer, VisitFrame, Visited, Visiting
<1>40. ASSUME NEW r \in Rooms, StillNeeds(r) PROVE PassInv'
  BY <1>40 DEF StillNeeds, VisitFrame, Visited, Visiting
<1>41. ASSUME NEW ok \in BOOLEAN, Terminate(ok) PROVE PassInv'
  BY <1>41 DEF Terminate, Goto, Rest
<1>42. ASSUME NEW v \in Vents, ReconcileVent(v) PROVE PassInv'
  BY <1>42 DEF ReconcileVent, Goto
<1>43. ASSUME NEW v \in Vents, MoveVent(v) PROVE PassInv'
  BY <1>43 DEF MoveVent
<1>44. CASE UNCHANGED vars
  BY <1>44 DEF vars
<1> QED
  BY <1>1, <1>2, <1>3, <1>4, <1>5, <1>6, <1>7, <1>8, <1>9, <1>10, <1>11, <1>12, <1>13, <1>14, <1>15, <1>16, <1>17, <1>18, <1>19, <1>20, <1>21, <1>22, <1>23, <1>24, <1>25, <1>26, <1>27, <1>28, <1>29, <1>30, <1>31, <1>32, <1>33, <1>34, <1>35, <1>36, <1>37, <1>38, <1>39, <1>40, <1>41, <1>42, <1>43, <1>44 DEF Next, Tick, Step, House, CheckRoom

(* A pass that ends the cycle has accounted for every room of it.          *)
THEOREM PassIsSound == Spec => []CompletionIsEarned
<1>1. Init => PassInv
  BY DEF Init, PassInv
<1>2. PassInv => CompletionIsEarned
  BY DEF PassInv, CompletionIsEarned
<1> QED
  BY <1>1, <1>2, PassStep, TypeCorrect, PTL DEF Spec

-----------------------------------------------------------------------------
(* The airflow floor *)

(* Opening vents closes none.                                              *)
LEMMA SendOpens ==
    ASSUME HouseType, NEW S, NEW wrong, Send(S, "open", wrong)
    PROVE  OpenVents \subseteq OpenVents'
  BY DEF Send, OpenVents, HouseType

(* Closing a set of vents closes no other vent.                            *)
LEMMA SendCloses ==
    ASSUME HouseType, NEW S, NEW wrong, Send(S, "closed", wrong)
    PROVE  OpenVents \ (S \cap OpenVents) \subseteq OpenVents'
  BY DEF Send, OpenVents, HouseType

(* A set of vents that the floor allows to close leaves enough open.       *)
LEMMA AllowedCloseKeepsFloor ==
    ASSUME NEW A, NEW B, NEW S, IsFiniteSet(A), IsFiniteSet(B),
           A \ (S \cap A) \subseteq B,
           Cardinality(A) - Cardinality(S \cap A) >= Required
    PROVE  Cardinality(B) >= Required
<1>1. /\ Cardinality(A \ (S \cap A)) = Cardinality(A) - Cardinality(A \cap (S \cap A))
      /\ IsFiniteSet(A \ (S \cap A))
  BY FS_Difference
<1>2. A \cap (S \cap A) = S \cap A
  OBVIOUS
<1>3. Cardinality(A \ (S \cap A)) <= Cardinality(B)
  BY <1>1, FS_Subset
<1>4. Cardinality(A \ (S \cap A)) \in Nat /\ Cardinality(B) \in Nat
  BY <1>1, FS_CardinalityType
<1>5. Cardinality(A) \in Nat /\ Cardinality(S \cap A) \in Nat
  BY FS_CardinalityType, FS_Intersection, FS_Subset
<1>6. Cardinality(A \ (S \cap A)) = Cardinality(A) - Cardinality(S \cap A)
  BY <1>1, <1>2
<1> QED
  BY <1>3, <1>4, <1>5, <1>6, ZoneAssumption

(* A zone has finitely many vents open.                                    *)
LEMMA VentsFinite == IsFiniteSet(OpenVents) /\ IsFiniteSet(OpenVents')
<1>1. OpenVents \subseteq Vents /\ OpenVents' \subseteq Vents
  BY DEF OpenVents
<1> QED
  BY <1>1, FS_Subset, ZoneAssumption

(* close_room_vents keeps the floor, or defers and closes nothing.         *)
LEMMA CloseIfAllowedKeepsFloor ==
    ASSUME HouseType, NEW S, CloseIfAllowed(S)
    PROVE  Cardinality(OpenVents') >= Required \/ OpenVents \subseteq OpenVents'
<1>1. CASE FloorAllows(S)
  <2>1. OpenVents \ (S \cap OpenVents) \subseteq OpenVents'
    BY <1>1, SendCloses DEF CloseIfAllowed
  <2> QED
    BY <1>1, <2>1, VentsFinite, AllowedCloseKeepsFloor DEF FloorAllows
<1>2. CASE ~FloorAllows(S)
  BY <1>2 DEF CloseIfAllowed, NoCommand, OpenVents
<1> QED
  BY <1>1, <1>2

(* The ways a step of the engine may take vents from the zone              *)
Guarded ==
    \/ Cardinality(OpenVents') >= Required
    \/ OpenVents \subseteq OpenVents'
    \/ pc = "check" /\ \E r \in Rooms : IsLast(r)
    \/ pc = "release" \/ pc = "holding"

(* Each step of the engine opens vents, keeps the floor, or is one of the  *)
(* exceptions.                                                             *)
LEMMA FloorStep == TypeOK /\ [Next]_vars => (EngineStep => Guarded)
<1> SUFFICES ASSUME TypeOK, [Next]_vars, EngineStep PROVE Guarded
  OBVIOUS
<1>0. HouseType
  BY DEF TypeOK
<1>1. CASE TickAborts
  BY <1>1, <1>0 DEF TickAborts, Guarded, OpenVents
<1>2. CASE TickStaysIdle
  BY <1>2, <1>0 DEF TickStaysIdle, Guarded, OpenVents
<1>3. CASE TickMonitors
  BY <1>3, <1>0 DEF TickMonitors, Guarded, OpenVents
<1>4. CASE CloseOverflow
  BY <1>4, <1>0 DEF CloseOverflow, Guarded
<1>5. CASE Reassert
  BY <1>5, <1>0, SendOpens DEF Reassert, Guarded, OpenVents
<1>6. CASE SweepEnds
  BY <1>6, <1>0 DEF SweepEnds, Guarded, OpenVents
<1>7. CASE Decide
  BY <1>7, <1>0 DEF Decide, Guarded, OpenVents
<1>8. CASE TermFinish
  BY <1>8, <1>0 DEF TermFinish, Guarded, OpenVents
<1>9. CASE OpenZone
  BY <1>9, <1>0, SendOpens DEF OpenZone, Guarded, OpenVents
<1>10. CASE Abort
  BY <1>10, <1>0 DEF Abort, Guarded, OpenVents
<1>11. CASE AbortOpen
  BY <1>11, <1>0, SendOpens DEF AbortOpen, Guarded, OpenVents
<1>12. CASE Timeout
  BY <1>12, <1>0 DEF Timeout, Guarded, OpenVents
<1>13. CASE Reconcile
  BY <1>13, <1>0 DEF Reconcile, Guarded, OpenVents
<1>14. CASE SkipReconcile
  BY <1>14, <1>0 DEF SkipReconcile, Guarded, OpenVents
<1>15. CASE ReconcileEnds
  BY <1>15, <1>0 DEF ReconcileEnds, Guarded, OpenVents
<1>16. CASE BootCold
  BY <1>16, <1>0 DEF BootCold, Guarded, OpenVents
<1>17. CASE BootDiscards
  BY <1>17, <1>0, SendOpens DEF BootDiscards, Guarded, OpenVents
<1>18. CASE BootResumes
  BY <1>18, <1>0 DEF BootResumes, Guarded, OpenVents
<1>19. CASE BootFails
  BY <1>19, <1>0 DEF BootFails, Guarded, OpenVents
<1>20. CASE Raise
  BY <1>20, <1>0 DEF Raise, Guarded, OpenVents
<1>21. CASE Crash
  BY <1>21, <1>0 DEF Crash, Guarded, OpenVents
<1>22. CASE GrowOld
  BY <1>22, <1>0 DEF GrowOld, Guarded, OpenVents
<1>23. ASSUME NEW want \in (SUBSET Rooms) \ {{}}, Start(want) PROVE Guarded
  BY <1>23, <1>0 DEF Start, Guarded, OpenVents
<1>24. ASSUME NEW want \in (SUBSET Rooms) \ {{}}, StartFails(want) PROVE Guarded
  BY <1>24, <1>0 DEF StartFails, Guarded, OpenVents
<1>25. ASSUME NEW want \in (SUBSET Rooms) \ {{}}, NEW moved \in SUBSET (want \cap active), Update(want, moved) PROVE Guarded
  BY <1>25, <1>0 DEF Update, Guarded, OpenVents
<1>26. ASSUME NEW r \in Rooms, Join(r) PROVE Guarded
  BY <1>26, <1>0, SendOpens DEF Join, Guarded, OpenVents
<1>27. ASSUME NEW r \in Rooms, Leave(r) PROVE Guarded
  BY <1>27, <1>0, CloseIfAllowedKeepsFloor DEF Leave, Guarded, OpenVents
<1>28. ASSUME NEW r \in Rooms, Sweep(r) PROVE Guarded
  BY <1>28, <1>0, CloseIfAllowedKeepsFloor DEF Sweep, Guarded, OpenVents
<1>29. ASSUME NEW r \in Rooms, ReopenForHold(r) PROVE Guarded
  BY <1>29, <1>0, SendOpens DEF ReopenForHold, Guarded, OpenVents
<1>30. ASSUME NEW u \in BOOLEAN, Retarget(u) PROVE Guarded
  BY <1>30, <1>0 DEF Retarget, Guarded, OpenVents
<1>31. ASSUME NEW over \in SUBSET {r \in Rooms : rcs[r] = "closed"}, NEW lost \in {{}} \cup {{r} : r \in over}, Watchdog(over, lost) PROVE Guarded
  BY <1>31, <1>0, SendOpens DEF Watchdog, Guarded, OpenVents
<1>32. ASSUME NEW seen \in [active -> Readings], HoldCheck(seen) PROVE Guarded
  BY <1>32, <1>0 DEF HoldCheck, Guarded, OpenVents
<1>33. ASSUME NEW desired \in SUBSET (Rooms \ active), ApplyOverflow(desired) PROVE Guarded
  BY <1>33, <1>0 DEF ApplyOverflow, Guarded
<1>34. ASSUME NEW r \in Rooms, Repair(r) PROVE Guarded
  BY <1>34, <1>0, SendOpens DEF Repair, Guarded, OpenVents
<1>35. ASSUME NEW r \in Rooms, Overlook(r) PROVE Guarded
  BY <1>35, <1>0 DEF Overlook, Guarded, OpenVents, NoCommand
<1>36. ASSUME NEW r \in Rooms, StayServed(r) PROVE Guarded
  BY <1>36, <1>0 DEF StayServed, Guarded, OpenVents, NoCommand
<1>37. ASSUME NEW r \in Rooms, ReopenDrifted(r) PROVE Guarded
  BY <1>37, <1>0, SendOpens DEF ReopenDrifted, Guarded
<1>38. ASSUME NEW r \in Rooms, CloseServed(r) PROVE Guarded
  <2>1. CASE FloorAllows(VentsOf({r}))
    <3>1. OpenVents \ (VentsOf({r}) \cap OpenVents) \subseteq OpenVents'
      BY <1>38, <1>0, SendCloses DEF CloseServed
    <3> QED
      BY <2>1, <3>1, VentsFinite, AllowedCloseKeepsFloor DEF FloorAllows, Guarded
  <2>2. CASE IsLast(r)
    BY <1>38, <2>2 DEF CloseServed, Visiting, Guarded
  <2> QED
    BY <1>38, <2>1, <2>2 DEF CloseServed
<1>39. ASSUME NEW r \in Rooms, Defer(r) PROVE Guarded
  BY <1>39, <1>0 DEF Defer, Guarded, OpenVents, NoCommand
<1>40. ASSUME NEW r \in Rooms, StillNeeds(r) PROVE Guarded
  BY <1>40, <1>0 DEF StillNeeds, Guarded, OpenVents, NoCommand
<1>41. ASSUME NEW ok \in BOOLEAN, Terminate(ok) PROVE Guarded
  BY <1>41, <1>0 DEF Terminate, Guarded, OpenVents
<1>42. ASSUME NEW v \in Vents, ReconcileVent(v) PROVE Guarded
  BY <1>42, <1>0, CloseIfAllowedKeepsFloor, SendOpens DEF ReconcileVent, Guarded, OpenVents
<1>43. ASSUME NEW v \in Vents, MoveVent(v) PROVE Guarded
  BY <1>43, <1>0 DEF MoveVent, Guarded, OpenVents, EngineStep
<1>44. CASE UNCHANGED vars
  BY <1>44 DEF vars, Guarded, OpenVents
<1> QED
  BY <1>1, <1>2, <1>3, <1>4, <1>5, <1>6, <1>7, <1>8, <1>9, <1>10, <1>11, <1>12, <1>13, <1>14, <1>15, <1>16, <1>17, <1>18, <1>19, <1>20, <1>21, <1>22, <1>23, <1>24, <1>25, <1>26, <1>27, <1>28, <1>29, <1>30, <1>31, <1>32, <1>33, <1>34, <1>35, <1>36, <1>37, <1>38, <1>39, <1>40, <1>41, <1>42, <1>43, <1>44 DEF Next, Tick, Step, House, CheckRoom

(* No step of the engine takes the zone below its airflow floor, except    *)
(* the last-vent bypass and the closing of overflow rooms.                 *)
THEOREM FloorIsGuarded == Spec => FloorGuardsCloses
<1>1. TypeOK /\ [Next]_vars =>
        [EngineStep =>
          \/ Cardinality(OpenVents') >= Required
          \/ OpenVents \subseteq OpenVents'
          \/ pc = "check" /\ \E r \in Rooms : IsLast(r)
          \/ pc = "release" \/ pc = "holding"]_vars
  BY FloorStep DEF Guarded
<1> QED
  BY <1>1, TypeCorrect, PTL DEF Spec, FloorGuardsCloses

-----------------------------------------------------------------------------
(* Until the first fault or crash                                          *)

Calm == faults = 0 /\ crashes = 0

(* Faults and crashes are counted, never forgotten.                        *)
LEMMA SpendCounts ==
    ASSUME HouseType, NEW wrong, Spend(wrong)
    PROVE  faults <= faults'
  BY ZoneAssumption DEF HouseType, Spend

(* A step that leaves the run without a fault had none to spend.           *)
LEMMA SpendCalm ==
    ASSUME HouseType, NEW wrong \in BOOLEAN, Spend(wrong), faults' = 0
    PROVE  ~wrong /\ faults = 0
  BY ZoneAssumption DEF HouseType, Spend

(* Without a fault, commands reach every vent they are meant for.          *)
LEMMA SendCalm ==
    ASSUME HouseType, NEW S, NEW to, NEW wrong \in BOOLEAN, Send(S, to, wrong), faults' = 0
    PROVE  /\ ~wrong
           /\ \A v \in Vents : vent'[v] = IF v \in S THEN to ELSE vent[v]
<1>1. PICK missed \in SUBSET {v \in S : vent[v] # to} :
        /\ Spend(wrong \/ missed # {})
        /\ vent' = [v \in Vents |-> IF v \in S \ missed THEN to ELSE vent[v]]
  BY DEF Send
<1>2. ~wrong /\ missed = {}
  BY <1>1, SpendCalm
<1> QED
  BY <1>1, <1>2

(* A close within the floor touches only the vents it is meant for.        *)
LEMMA CloseCalm ==
    ASSUME HouseType, NEW S, CloseIfAllowed(S), faults' = 0
    PROVE  \A v \in Vents : vent'[v] # vent[v] => v \in S /\ vent'[v] = "closed"
<1>1. CASE FloorAllows(S)
  <2>1. \A v \in Vents : vent'[v] = IF v \in S THEN "closed" ELSE vent[v]
    BY <1>1, SendCalm DEF CloseIfAllowed
  <2> QED
    BY <2>1 DEF HouseType
<1>2. CASE ~FloorAllows(S)
  BY <1>2 DEF CloseIfAllowed, NoCommand, HouseType
<1> QED
  BY <1>1, <1>2

(* Commands count their faults.                                            *)
LEMMA SendCounts ==
    ASSUME HouseType, NEW S, NEW to, NEW wrong, Send(S, to, wrong)
    PROVE  faults <= faults'
  BY SpendCounts DEF Send

(* So does a close that the floor may refuse.                              *)
LEMMA CloseCounts ==
    ASSUME HouseType, NEW S, CloseIfAllowed(S)
    PROVE  faults <= faults'
  BY SendCounts, SpendCounts DEF CloseIfAllowed, NoCommand

Tallied == faults <= faults' /\ crashes <= crashes'

(* No step forgets a fault or a crash.                                     *)
LEMMA Tally == TypeOK /\ [Next]_vars => Tallied
<1> SUFFICES ASSUME TypeOK, [Next]_vars PROVE Tallied
  OBVIOUS
<1> USE DEF TypeOK, HouseType, Tallied, engine, locals, db
<1>0. HouseType /\ faults \in Nat /\ crashes \in Nat /\ faults <= faults /\ crashes <= crashes
  BY ZoneAssumption
<1>1. CASE TickAborts
  BY <1>1, <1>0 DEF TickAborts
<1>2. CASE TickStaysIdle
  BY <1>2, <1>0 DEF TickStaysIdle
<1>3. CASE TickMonitors
  BY <1>3, <1>0 DEF TickMonitors
<1>4. CASE CloseOverflow
  BY <1>4, <1>0, SendCounts, SpendCounts DEF CloseOverflow
<1>5. CASE Reassert
  BY <1>5, <1>0, SendCounts, SpendCounts DEF Reassert
<1>6. CASE SweepEnds
  BY <1>6, <1>0 DEF SweepEnds
<1>7. CASE Decide
  BY <1>7, <1>0 DEF Decide
<1>8. CASE TermFinish
  BY <1>8, <1>0, SpendCounts DEF TermFinish, CloseLog
<1>9. CASE OpenZone
  BY <1>9, <1>0, SendCounts, SpendCounts DEF OpenZone
<1>10. CASE Abort
  BY <1>10, <1>0, SpendCounts DEF Abort, CloseLog
<1>11. CASE AbortOpen
  BY <1>11, <1>0, SendCounts, SpendCounts DEF AbortOpen
<1>12. CASE Timeout
  BY <1>12, <1>0 DEF Timeout
<1>13. CASE Reconcile
  BY <1>13, <1>0 DEF Reconcile
<1>14. CASE SkipReconcile
  BY <1>14, <1>0 DEF SkipReconcile
<1>15. CASE ReconcileEnds
  BY <1>15, <1>0 DEF ReconcileEnds
<1>16. CASE BootCold
  BY <1>16, <1>0 DEF BootCold
<1>17. CASE BootDiscards
  BY <1>17, <1>0, SendCounts, SpendCounts DEF BootDiscards
<1>18. CASE BootResumes
  BY <1>18, <1>0 DEF BootResumes
<1>19. CASE BootFails
  BY <1>19, <1>0, SpendCounts DEF BootFails
<1>20. CASE Raise
  BY <1>20, <1>0, SpendCounts DEF Raise
<1>21. CASE Crash
  BY <1>21, <1>0 DEF Crash
<1>22. CASE GrowOld
  BY <1>22, <1>0 DEF GrowOld
<1>23. ASSUME NEW want \in (SUBSET Rooms) \ {{}}, Start(want) PROVE Tallied
  BY <1>23, <1>0 DEF Start
<1>24. ASSUME NEW want \in (SUBSET Rooms) \ {{}}, StartFails(want) PROVE Tallied
  BY <1>24, <1>0, SpendCounts DEF StartFails
<1>25. ASSUME NEW want \in (SUBSET Rooms) \ {{}}, NEW moved \in SUBSET (want \cap active), Update(want, moved) PROVE Tallied
  BY <1>25, <1>0 DEF Update
<1>26. ASSUME NEW r \in Rooms, Join(r) PROVE Tallied
  BY <1>26, <1>0, SendCounts, SpendCounts DEF Join
<1>27. ASSUME NEW r \in Rooms, Leave(r) PROVE Tallied
  BY <1>27, <1>0, CloseCounts DEF Leave
<1>28. ASSUME NEW r \in Rooms, Sweep(r) PROVE Tallied
  BY <1>28, <1>0, CloseCounts DEF Sweep
<1>29. ASSUME NEW r \in Rooms, ReopenForHold(r) PROVE Tallied
  BY <1>29, <1>0, SendCounts, SpendCounts DEF ReopenForHold
<1>30. ASSUME NEW u \in BOOLEAN, Retarget(u) PROVE Tallied
  BY <1>30, <1>0, SpendCounts DEF Retarget, ReleaseHold
<1>31. ASSUME NEW over \in SUBSET {r \in Rooms : rcs[r] = "closed"}, NEW lost \in {{}} \cup {{r} : r \in over}, Watchdog(over, lost) PROVE Tallied
  BY <1>31, <1>0, SendCounts, SpendCounts DEF Watchdog
<1>32. ASSUME NEW seen \in [active -> Readings], HoldCheck(seen) PROVE Tallied
  BY <1>32, <1>0, SpendCounts DEF HoldCheck, ReleaseHold
<1>33. ASSUME NEW desired \in SUBSET (Rooms \ active), ApplyOverflow(desired) PROVE Tallied
  <2>1. (\E wrong : Spend(wrong)) /\ crashes' = crashes
    BY <1>33, ZenonT(60) DEF ApplyOverflow, NoCommand
  <2> QED
    BY <2>1, <1>0, SpendCounts
<1>34. ASSUME NEW r \in Rooms, Repair(r) PROVE Tallied
  BY <1>34, <1>0, SendCounts, SpendCounts DEF Repair, VisitFrame
<1>35. ASSUME NEW r \in Rooms, Overlook(r) PROVE Tallied
  BY <1>35, <1>0, SpendCounts DEF Overlook, VisitFrame, NoCommand
<1>36. ASSUME NEW r \in Rooms, StayServed(r) PROVE Tallied
  BY <1>36, <1>0, SpendCounts DEF StayServed, VisitFrame, NoCommand
<1>37. ASSUME NEW r \in Rooms, ReopenDrifted(r) PROVE Tallied
  BY <1>37, <1>0, SendCounts, SpendCounts DEF ReopenDrifted, VisitFrame
<1>38. ASSUME NEW r \in Rooms, CloseServed(r) PROVE Tallied
  BY <1>38, <1>0, SendCounts, SpendCounts DEF CloseServed, VisitFrame
<1>39. ASSUME NEW r \in Rooms, Defer(r) PROVE Tallied
  BY <1>39, <1>0, SpendCounts DEF Defer, VisitFrame, NoCommand
<1>40. ASSUME NEW r \in Rooms, StillNeeds(r) PROVE Tallied
  BY <1>40, <1>0, SpendCounts DEF StillNeeds, VisitFrame, NoCommand
<1>41. ASSUME NEW ok \in BOOLEAN, Terminate(ok) PROVE Tallied
  BY <1>41, <1>0, SpendCounts DEF Terminate
<1>42. ASSUME NEW v \in Vents, ReconcileVent(v) PROVE Tallied
  BY <1>42, <1>0, CloseCounts, SendCounts DEF ReconcileVent
<1>43. ASSUME NEW v \in Vents, MoveVent(v) PROVE Tallied
  BY <1>43, <1>0, SpendCounts DEF MoveVent
<1>44. CASE UNCHANGED vars
  BY <1>44, <1>0 DEF vars
<1> QED
  BY <1>1, <1>2, <1>3, <1>4, <1>5, <1>6, <1>7, <1>8, <1>9, <1>10, <1>11, <1>12, <1>13, <1>14, <1>15, <1>16, <1>17, <1>18, <1>19, <1>20, <1>21, <1>22, <1>23, <1>24, <1>25, <1>26, <1>27, <1>28, <1>29, <1>30, <1>31, <1>32, <1>33, <1>34, <1>35, <1>36, <1>37, <1>38, <1>39, <1>40, <1>41, <1>42, <1>43, <1>44 DEF Next, Tick, Step, House, CheckRoom

(* A pass that ends the cycle has accounted for every room of it.          *)
(* Where the engine stands until the first fault or crash: nothing half    *)
(* done survives the step that did it.                                     *)
CalmControl ==
    /\ pc # "boot" /\ (pc = "sweep" => fresh)
    /\ state = "TERMINATING" => pc = "termFinish"
    /\ state = "IDLE" => active = {} /\ overflow = {}
    /\ fresh => leaving = {} /\ overflow = {} /\ pc \in {"update", "reassert", "sweep", "monitor"}
    /\ leaving # {} => pc = "update"
    /\ leaving \cap active = {}
    /\ pc = "sweep" => todo \cap active = {}
    /\ pc \in {"update", "holding", "check"} => todo \subseteq active
    /\ pc = "update" => \A r \in todo : rcs[r] = "none"
    /\ pc # "update" => overflow \cap active = {}
    /\ pc = "update" => overflow \cap active \subseteq todo
    /\ pc = "opening" => state = "IDLE"
    /\ pc = "release" => after \in {"reassert", "check"}
    /\ \A r \in Rooms : rcs[r] # "none" => r \in active \cup leaving

(* A calm step of a calm run keeps it so.                                  *)
LEMMA CalmControlStep == TypeOK /\ CycleInv /\ CalmControl /\ Calm /\ Calm' /\ [Next]_vars => CalmControl'
<1> SUFFICES ASSUME TypeOK, CycleInv, CalmControl, Calm, Calm', [Next]_vars PROVE CalmControl'
  OBVIOUS
<1> USE DEF CalmControl, Calm, CycleInv, CycleHasLog, NeedsCycle, PCs, engine, locals, db
<1>0. HouseType /\ EngineType /\ HandlerType
  BY DEF TypeOK
<1> USE <1>0 DEF EngineType, HandlerType
<1>1. CASE TickAborts
  BY <1>1 DEF TickAborts
<1>2. CASE TickStaysIdle
  BY <1>2 DEF TickStaysIdle, Goto
<1>3. CASE TickMonitors
  BY <1>3 DEF TickMonitors, Goto
<1>4. CASE CloseOverflow
  BY <1>4, SendCalm, SpendCalm DEF CloseOverflow, Goto
<1>5. CASE Reassert
  BY <1>5, SendCalm, SpendCalm DEF Reassert, Goto
<1>6. CASE SweepEnds
  BY <1>6 DEF SweepEnds, Goto, Rest
<1>7. CASE Decide
  BY <1>7 DEF Decide, Goto
<1>8. CASE TermFinish
  BY <1>8, SpendCalm DEF TermFinish, CloseLog, Cold, Goto, NoRecords
<1>9. CASE OpenZone
  BY <1>9, SendCalm, SpendCalm DEF OpenZone, Goto
<1>10. CASE Abort
  BY <1>10, SpendCalm DEF Abort, CloseLog, Goto
<1>11. CASE AbortOpen
  BY <1>11, SendCalm, SpendCalm DEF AbortOpen, Cold, Goto, Rest, NoRecords
<1>12. CASE Timeout
  BY <1>12 DEF Timeout, Goto
<1>13. CASE Reconcile
  BY <1>13 DEF Reconcile, Goto
<1>14. CASE SkipReconcile
  BY <1>14 DEF SkipReconcile, Rest
<1>15. CASE ReconcileEnds
  BY <1>15 DEF ReconcileEnds, Rest
<1>16. CASE BootCold
  BY <1>16 DEF BootCold, Rest
<1>17. CASE BootDiscards
  BY <1>17, SendCalm, SpendCalm DEF BootDiscards, Rest
<1>18. CASE BootResumes
  BY <1>18 DEF BootResumes, Goto
<1>19. CASE BootFails
  BY <1>19, SpendCalm DEF BootFails, Cold, Rest, NoRecords
<1>20. CASE Raise
  BY <1>20, SpendCalm DEF Raise, Rest
<1>21. CASE Crash
  BY <1>21 DEF Crash, Cold, NoRecords
<1>22. CASE GrowOld
  BY <1>22 DEF GrowOld
<1>23. ASSUME NEW want \in (SUBSET Rooms) \ {{}}, Start(want) PROVE CalmControl'
  BY <1>23 DEF Start, NoRecords
<1>24. ASSUME NEW want \in (SUBSET Rooms) \ {{}}, StartFails(want) PROVE CalmControl'
  BY <1>24, SpendCalm DEF StartFails
<1>25. ASSUME NEW want \in (SUBSET Rooms) \ {{}}, NEW moved \in SUBSET (want \cap active), Update(want, moved) PROVE CalmControl'
  BY <1>25 DEF Update
<1>26. ASSUME NEW r \in Rooms, Join(r) PROVE CalmControl'
  <2>1. Record(r, "open", TRUE) /\ overflow' = IF fresh THEN overflow ELSE overflow \ {r}
    BY <1>26, SpendCalm DEF Join
  <2>2. pc = "update" /\ r \in todo /\ pc' = "update" /\ todo' = todo \ {r}
    BY <1>26 DEF Join, Goto
  <2>3. UNCHANGED <<state, hasLog, hold, active, after, fresh, leaving>>
    BY <1>26 DEF Join, Goto
  <2> QED
    BY <2>1, <2>2, <2>3 DEF Record
<1>27. ASSUME NEW r \in Rooms, Leave(r) PROVE CalmControl'
  BY <1>27 DEF Leave
<1>28. ASSUME NEW r \in Rooms, Sweep(r) PROVE CalmControl'
  BY <1>28 DEF Sweep, Goto
<1>29. ASSUME NEW r \in Rooms, ReopenForHold(r) PROVE CalmControl'
  BY <1>29, SendCalm, SpendCalm DEF ReopenForHold, Goto, Record, Rest
<1>30. ASSUME NEW u \in BOOLEAN, Retarget(u) PROVE CalmControl'
  BY <1>30, SpendCalm DEF Retarget, ReleaseHold
<1>31. ASSUME NEW over \in SUBSET {r \in Rooms : rcs[r] = "closed"}, NEW lost \in {{}} \cup {{r} : r \in over}, Watchdog(over, lost) PROVE CalmControl'
  BY <1>31, SendCalm, SpendCalm DEF Watchdog, Rest
<1>32. ASSUME NEW seen \in [active -> Readings], HoldCheck(seen) PROVE CalmControl'
  BY <1>32, SpendCalm DEF HoldCheck, Goto, ReleaseHold
<1>33. ASSUME NEW desired \in SUBSET (Rooms \ active), ApplyOverflow(desired) PROVE CalmControl'
  <2>1. pc = "holding" /\ pc' = "timeout" /\ todo' = {} /\ overflow' \cap active = {} /\ hold' = hold
    BY <1>33 DEF ApplyOverflow, Goto
  <2>2. UNCHANGED <<state, hasLog, active, rcs, after, fresh, leaving>>
    BY <1>33 DEF ApplyOverflow, Goto
  <2>3. state # "IDLE"
    BY <2>1
  <2> QED
    BY <2>1, <2>2, <2>3
<1>34. ASSUME NEW r \in Rooms, Repair(r) PROVE CalmControl'
  <2>1. Record(r, "open", TRUE) /\ added' = {r}
    BY <1>34, SendCalm, SpendCalm DEF Repair
  <2>2. UNCHANGED <<pc, after, fresh, changed, leaving, todo, deferred, unserved, blind>>
    BY <1>34, SendCalm, SpendCalm DEF Repair
  <2>3. pc = "check" /\ r \in todo /\ UNCHANGED <<state, hasLog, hold, active, overflow>>
    BY <1>34 DEF Repair, Visiting, VisitFrame
  <2> QED
    BY <2>1, <2>2, <2>3 DEF Record
<1>35. ASSUME NEW r \in Rooms, Overlook(r) PROVE CalmControl'
  BY <1>35, SendCalm, SpendCalm DEF Overlook, VisitFrame, Visited, Visiting
<1>36. ASSUME NEW r \in Rooms, StayServed(r) PROVE CalmControl'
  BY <1>36, SendCalm, SpendCalm DEF StayServed, VisitFrame, Visited, Visiting
<1>37. ASSUME NEW r \in Rooms, ReopenDrifted(r) PROVE CalmControl'
  BY <1>37, SendCalm, SpendCalm DEF ReopenDrifted, Record, Rest, VisitFrame, Visited, Visiting
<1>38. ASSUME NEW r \in Rooms, CloseServed(r) PROVE CalmControl'
  BY <1>38, SendCalm, SpendCalm DEF CloseServed, Record, Rest, VisitFrame, Visited, Visiting
<1>39. ASSUME NEW r \in Rooms, Defer(r) PROVE CalmControl'
  BY <1>39, SendCalm, SpendCalm DEF Defer, VisitFrame, Visited, Visiting
<1>40. ASSUME NEW r \in Rooms, StillNeeds(r) PROVE CalmControl'
  BY <1>40, SendCalm, SpendCalm DEF StillNeeds, VisitFrame, Visited, Visiting
<1>41. ASSUME NEW ok \in BOOLEAN, Terminate(ok) PROVE CalmControl'
  BY <1>41, SpendCalm DEF Terminate, Goto, Rest
<1>42. ASSUME NEW v \in Vents, ReconcileVent(v) PROVE CalmControl'
  BY <1>42 DEF ReconcileVent, Goto
<1>43. ASSUME NEW v \in Vents, MoveVent(v) PROVE CalmControl'
  BY <1>43, SpendCalm DEF MoveVent
<1>44. CASE UNCHANGED vars
  BY <1>44 DEF vars
<1> QED
  BY <1>1, <1>2, <1>3, <1>4, <1>5, <1>6, <1>7, <1>8, <1>9, <1>10, <1>11, <1>12, <1>13, <1>14, <1>15, <1>16, <1>17, <1>18, <1>19, <1>20, <1>21, <1>22, <1>23, <1>24, <1>25, <1>26, <1>27, <1>28, <1>29, <1>30, <1>31, <1>32, <1>33, <1>34, <1>35, <1>36, <1>37, <1>38, <1>39, <1>40, <1>41, <1>42, <1>43, <1>44 DEF Next, Tick, Step, House, CheckRoom

(* A pass that ends the cycle has accounted for every room of it.          *)
(* _apply_overflow_during_hold closes no vent but those of the rooms that  *)
(* were overflow rooms, and opens none but those of the new ones.          *)
LEMMA ApplyOverflowTouches ==
    ASSUME HouseType, NEW desired \in SUBSET (Rooms \ active), ApplyOverflow(desired), NEW v \in Vents
    PROVE  /\ vent'[v] # vent[v] => RoomOf[v] \in desired \cup overflow
           /\ vent[v] = "open" /\ vent'[v] # "open" => RoomOf[v] \in overflow
<1> DEFINE opening == VentsOf(desired) \ OpenVents
           dropped == overflow \ desired
           closing == VentsOf(dropped) \cap OpenVents
<1>1. CASE OverflowOn /\ \E r \in active : rcs[r] # "none"
  <2>1. PICK missed \in SUBSET (opening \cup closing) :
          vent' = [w \in Vents |-> IF w \in opening \ missed THEN "open"
                                   ELSE IF w \in closing \ missed THEN "closed" ELSE vent[w]]
    BY <1>1, ZenonT(60) DEF ApplyOverflow
  <2>2. /\ v \in opening => RoomOf[v] \in desired /\ vent[v] # "open"
        /\ v \in closing => RoomOf[v] \in overflow
    BY DEF VentsOf, OpenVents
  <2> HIDE DEF opening, closing
  <2> QED
    BY <2>1, <2>2
<1>2. CASE ~(OverflowOn /\ \E r \in active : rcs[r] # "none")
  BY <1>2 DEF ApplyOverflow, NoCommand
<1> QED
  BY <1>1, <1>2

(* Without a fault, it leaves a row for every overflow room that has vents *)
(* and no other row but those of former overflow rooms.                    *)
LEMMA ApplyOverflowRows ==
    ASSUME HouseType, RowsType, NEW desired \in SUBSET (Rooms \ active), ApplyOverflow(desired),
           OverflowOn /\ \E r \in active : rcs[r] # "none", faults' = 0
    PROVE  /\ overflow' = desired
           /\ \A r \in desired : VentsOf({r}) # {} =>
                dbRcs'[r] = "overflow" \/ (r \in overflow /\ dbRcs'[r] = dbRcs[r])
           /\ \A r \in Rooms \ desired : dbRcs[r] # "overflow" => dbRcs'[r] = dbRcs[r]
<1> DEFINE opening == VentsOf(desired) \ OpenVents
           dropped == overflow \ desired
           closing == VentsOf(dropped) \cap OpenVents
           opened  == {r \in desired : VentsOf({r}) # {} /\ (r \in overflow => VentsOf({r}) \cap opening # {})}
<1>1. PICK missed \in SUBSET (opening \cup closing), unread \in SUBSET dropped, lost \in SUBSET opened :
        /\ Spend(missed \cup lost # {})
        /\ vent' = [v \in Vents |->
                      IF v \in opening \ missed THEN "open"
                      ELSE IF v \in closing \ missed THEN "closed"
                      ELSE vent[v]]
        /\ dbRcs' = [r \in Rooms |-> IF r \in opened \ lost THEN "overflow"
                                     ELSE OverflowRows(dropped \ unread)[r]]
  BY ZenonT(60) DEF ApplyOverflow
<1>2. (missed \cup lost # {}) \in BOOLEAN
  OBVIOUS
<1>3. missed \cup lost = {}
  <2> HIDE DEF opening, closing, dropped, opened
  <2> QED
    BY <1>1, <1>2, SpendCalm
<1>4. overflow' = desired
  BY DEF ApplyOverflow
<1>5. \A r \in Rooms : r \notin dropped \/ dbRcs[r] # "overflow" =>
        OverflowRows(dropped \ unread)[r] = dbRcs[r]
  BY DEF OverflowRows
<1>6. \A r \in desired : VentsOf({r}) # {} => r \in opened \/ (r \in overflow /\ r \notin dropped)
  OBVIOUS
<1>7. \A r \in Rooms \ desired : r \notin opened
  OBVIOUS
<1> HIDE DEF opened, dropped
<1> QED
  BY <1>1, <1>3, <1>4, <1>5, <1>6, <1>7

(* The closing of overflow rows touches no other row.                      *)
LEMMA EndOverflowOnly ==
    ASSUME RowsType, NEW S, EndOverflow(S)
    PROVE  \A r \in Rooms : dbRcs[r] # "overflow" => dbRcs'[r] = dbRcs[r]
  BY DEF EndOverflow, OverflowRows, RowsType

(* What the database holds until the first fault or crash.  A terminating  *)
(* or aborting cycle ends its overflow rows before it forgets the rooms.   *)
CalmRows ==
    /\ dbOpen <=> (state # "IDLE" /\ pc # "abortOpen")
    /\ state # "IDLE" => dbHold = hold
    /\ \/ active \subseteq dbRooms
       \/ pc \in {"update", "reassert"} \/ (pc = "release" /\ after = "reassert")
    /\ \A r \in Rooms : rcs[r] # "none" => dbRcs[r] = rcs[r]
    /\ pc \notin {"termFinish", "abortOpen"} =>
         \A r \in overflow : VentsOf({r}) # {} => dbRcs[r] = "overflow"

(* A calm step leaves the rows true to the engine.                         *)
LEMMA CalmRowsStep == TypeOK /\ CycleInv /\ CalmControl /\ CalmRows /\ Calm /\ Calm' /\ [Next]_vars => CalmRows'
<1> SUFFICES ASSUME TypeOK, CycleInv, CalmControl, CalmRows, Calm, Calm', [Next]_vars PROVE CalmRows'
  OBVIOUS
<1> USE DEF CalmControl, CalmRows, Calm, CycleInv, CycleHasLog, NeedsCycle, PCs, engine, locals, db
<1>0. HouseType /\ EngineType /\ HandlerType /\ RowsType
  BY DEF TypeOK
<1> USE <1>0 DEF EngineType, HandlerType, RowsType
<1>1. CASE TickAborts
  BY <1>1 DEF TickAborts
<1>2. CASE TickStaysIdle
  BY <1>2 DEF TickStaysIdle, Goto
<1>3. CASE TickMonitors
  BY <1>3 DEF TickMonitors, Goto
<1>4. CASE CloseOverflow
  <2>1. overflow' = {} /\ pc = "release" /\ pc' \in {"reassert", "check"} /\ pc' = after
    BY <1>4 DEF CloseOverflow, Goto
  <2>2. UNCHANGED <<state, hold, active, rcs, dbOpen, dbHold, dbRooms, after>>
    BY <1>4 DEF CloseOverflow, Goto
  <2>3. \A r \in Rooms : dbRcs[r] # "overflow" => dbRcs'[r] = dbRcs[r]
    BY <1>4, EndOverflowOnly DEF CloseOverflow
  <2>4. \A r \in Rooms : rcs[r] # "none" => dbRcs[r] # "overflow"
    BY DEF Records
  <2> QED
    BY <2>1, <2>2, <2>3, <2>4
<1>5. CASE Reassert
  BY <1>5, SendCalm, SpendCalm DEF Reassert, Goto
<1>6. CASE SweepEnds
  BY <1>6 DEF SweepEnds, Goto, Rest
<1>7. CASE Decide
  BY <1>7 DEF Decide, Goto
<1>8. CASE TermFinish
  BY <1>8, SpendCalm DEF TermFinish, CloseLog, Cold, Goto, NoRecords
<1>9. CASE OpenZone
  BY <1>9, SendCalm, SpendCalm DEF OpenZone, Goto
<1>10. CASE Abort
  <2>1. pc = "abort" /\ pc' = "abortOpen" /\ UNCHANGED <<engine, dbHold, dbRooms>>
    BY <1>10 DEF Abort, Goto
  <2>2. dbOpen' = FALSE
    BY <1>10, SpendCalm DEF Abort, CloseLog
  <2>3. \A r \in Rooms : dbRcs[r] # "overflow" => dbRcs'[r] = dbRcs[r]
    BY <1>10, EndOverflowOnly DEF Abort
  <2>4. \A r \in Rooms : rcs[r] # "none" => dbRcs[r] # "overflow"
    BY DEF Records
  <2> QED
    BY <2>1, <2>2, <2>3, <2>4
<1>11. CASE AbortOpen
  BY <1>11, SendCalm, SpendCalm DEF AbortOpen, Cold, Goto, Rest, NoRecords
<1>12. CASE Timeout
  BY <1>12 DEF Timeout, Goto
<1>13. CASE Reconcile
  BY <1>13 DEF Reconcile, Goto
<1>14. CASE SkipReconcile
  BY <1>14 DEF SkipReconcile, Rest
<1>15. CASE ReconcileEnds
  BY <1>15 DEF ReconcileEnds, Rest
<1>16. CASE BootCold
  BY <1>16 DEF BootCold, Rest
<1>17. CASE BootDiscards
  BY <1>17, SendCalm, SpendCalm DEF BootDiscards, Rest
<1>18. CASE BootResumes
  BY <1>18 DEF BootResumes, Goto
<1>19. CASE BootFails
  BY <1>19, SpendCalm DEF BootFails, Cold, Rest, NoRecords
<1>20. CASE Raise
  BY <1>20, SpendCalm DEF Raise, Rest
<1>21. CASE Crash
  BY <1>21 DEF Crash, Cold, NoRecords
<1>22. CASE GrowOld
  BY <1>22 DEF GrowOld
<1>23. ASSUME NEW want \in (SUBSET Rooms) \ {{}}, Start(want) PROVE CalmRows'
  BY <1>23 DEF Start, NoRecords
<1>24. ASSUME NEW want \in (SUBSET Rooms) \ {{}}, StartFails(want) PROVE CalmRows'
  BY <1>24, SpendCalm DEF StartFails
<1>25. ASSUME NEW want \in (SUBSET Rooms) \ {{}}, NEW moved \in SUBSET (want \cap active), Update(want, moved) PROVE CalmRows'
  BY <1>25 DEF Update
<1>26. ASSUME NEW r \in Rooms, Join(r) PROVE CalmRows'
  <2>1. Record(r, "open", TRUE) /\ overflow' = IF fresh THEN overflow ELSE overflow \ {r}
    BY <1>26, SpendCalm DEF Join
  <2>2. pc = "update" /\ pc' = "update" /\ UNCHANGED <<state, hold, active, dbOpen, dbHold, dbRooms, after>>
    BY <1>26 DEF Join, Goto
  <2> QED
    BY <2>1, <2>2 DEF Record
<1>27. ASSUME NEW r \in Rooms, Leave(r) PROVE CalmRows'
  BY <1>27 DEF Leave
<1>28. ASSUME NEW r \in Rooms, Sweep(r) PROVE CalmRows'
  BY <1>28 DEF Sweep, Goto
<1>29. ASSUME NEW r \in Rooms, ReopenForHold(r) PROVE CalmRows'
  BY <1>29, SendCalm, SpendCalm DEF ReopenForHold, Goto, Record, Rest
<1>30. ASSUME NEW u \in BOOLEAN, Retarget(u) PROVE CalmRows'
  BY <1>30, SpendCalm DEF Retarget, ReleaseHold
<1>31. ASSUME NEW over \in SUBSET {r \in Rooms : rcs[r] = "closed"}, NEW lost \in {{}} \cup {{r} : r \in over}, Watchdog(over, lost) PROVE CalmRows'
  BY <1>31, SendCalm, SpendCalm DEF Watchdog, Rest
<1>32. ASSUME NEW seen \in [active -> Readings], HoldCheck(seen) PROVE CalmRows'
  BY <1>32, SpendCalm DEF HoldCheck, Goto, ReleaseHold
<1>33. ASSUME NEW desired \in SUBSET (Rooms \ active), ApplyOverflow(desired) PROVE CalmRows'
  <2>1. /\ pc = "holding" /\ pc' = "timeout"
        /\ UNCHANGED <<state, hold, active, rcs, after, dbOpen, dbHold, dbRooms>>
    BY <1>33 DEF ApplyOverflow, Goto
  <2>2. CASE OverflowOn /\ \E r \in active : rcs[r] # "none"
    <3>1. \A r \in Rooms : rcs[r] # "none" => r \in Rooms \ desired /\ dbRcs[r] # "overflow"
      BY <2>1 DEF Records
    <3> QED
      BY <1>33, <2>1, <2>2, <3>1, ApplyOverflowRows
  <2>3. CASE ~(OverflowOn /\ \E r \in active : rcs[r] # "none")
    <3>1. UNCHANGED <<overflow, dbRcs>>
      BY <1>33, <2>3 DEF ApplyOverflow
    <3> QED
      BY <2>1, <3>1
  <2> QED
    BY <2>2, <2>3
<1>34. ASSUME NEW r \in Rooms, Repair(r) PROVE CalmRows'
  <2>1. Record(r, "open", TRUE)
    BY <1>34, SpendCalm DEF Repair
  <2>2. /\ pc = "check" /\ pc' = "check" /\ r \in todo
        /\ UNCHANGED <<state, hold, active, overflow, dbOpen, dbHold, dbRooms, after>>
    BY <1>34, SpendCalm DEF Repair, Visiting, Visited, VisitFrame
  <2> QED
    BY <2>1, <2>2 DEF Record
<1>35. ASSUME NEW r \in Rooms, Overlook(r) PROVE CalmRows'
  BY <1>35, SpendCalm DEF Overlook, VisitFrame, Visited, Visiting
<1>36. ASSUME NEW r \in Rooms, StayServed(r) PROVE CalmRows'
  BY <1>36, SpendCalm DEF StayServed, VisitFrame, Visited, Visiting
<1>37. ASSUME NEW r \in Rooms, ReopenDrifted(r) PROVE CalmRows'
  BY <1>37, SendCalm, SpendCalm DEF ReopenDrifted, Record, Rest, VisitFrame, Visited, Visiting
<1>38. ASSUME NEW r \in Rooms, CloseServed(r) PROVE CalmRows'
  BY <1>38, SendCalm, SpendCalm DEF CloseServed, Record, Rest, VisitFrame, Visited, Visiting
<1>39. ASSUME NEW r \in Rooms, Defer(r) PROVE CalmRows'
  BY <1>39, SpendCalm DEF Defer, VisitFrame, Visited, Visiting
<1>40. ASSUME NEW r \in Rooms, StillNeeds(r) PROVE CalmRows'
  BY <1>40, SpendCalm DEF StillNeeds, VisitFrame, Visited, Visiting
<1>41. ASSUME NEW ok \in BOOLEAN, Terminate(ok) PROVE CalmRows'
  <2>1. ok
    BY <1>41, SpendCalm DEF Terminate
  <2>2. /\ pc = "terminate" /\ pc' = "termFinish" /\ state # "IDLE" /\ state' = "TERMINATING"
        /\ UNCHANGED <<hold, active, rcs, overflow, dbOpen, dbHold, dbRooms>>
    BY <1>41, <2>1 DEF Terminate, Goto
  <2>3. \A r \in Rooms : dbRcs[r] # "overflow" => dbRcs'[r] = dbRcs[r]
    BY <1>41, <2>1, EndOverflowOnly DEF Terminate
  <2>4. \A r \in Rooms : rcs[r] # "none" => dbRcs[r] # "overflow"
    BY DEF Records
  <2> QED
    BY <2>2, <2>3, <2>4
<1>42. ASSUME NEW v \in Vents, ReconcileVent(v) PROVE CalmRows'
  BY <1>42 DEF ReconcileVent, Goto
<1>43. ASSUME NEW v \in Vents, MoveVent(v) PROVE CalmRows'
  BY <1>43, SpendCalm DEF MoveVent
<1>44. CASE UNCHANGED vars
  BY <1>44 DEF vars
<1> QED
  BY <1>1, <1>2, <1>3, <1>4, <1>5, <1>6, <1>7, <1>8, <1>9, <1>10, <1>11, <1>12, <1>13, <1>14, <1>15, <1>16, <1>17, <1>18, <1>19, <1>20, <1>21, <1>22, <1>23, <1>24, <1>25, <1>26, <1>27, <1>28, <1>29, <1>30, <1>31, <1>32, <1>33, <1>34, <1>35, <1>36, <1>37, <1>38, <1>39, <1>40, <1>41, <1>42, <1>43, <1>44 DEF Next, Tick, Step, House, CheckRoom

(* A pass that ends the cycle has accounted for every room of it.          *)
(* Where the vents stand until the first fault or crash: a room without a  *)
(* record is about to join, any other has its vents as recorded.           *)
CalmVents ==
    /\ \A r \in active : rcs[r] = "none" => pc = "update" /\ r \in todo
    /\ \A v \in Vents : RoomOf[v] \in active /\ rcs[RoomOf[v]] # "none" => vent[v] = rcs[RoomOf[v]]

(* A calm step leaves the vents as recorded.                               *)
LEMMA CalmVentsStep == TypeOK /\ CycleInv /\ CalmControl /\ CalmVents /\ Calm /\ Calm' /\ [Next]_vars => CalmVents'
<1> SUFFICES ASSUME TypeOK, CycleInv, CalmControl, CalmVents, Calm, Calm', [Next]_vars PROVE CalmVents'
  OBVIOUS
<1> USE ZoneAssumption DEF CalmControl, CalmVents, Calm, CycleInv, CycleHasLog, NeedsCycle, PCs, engine, locals, db
<1>0. HouseType /\ EngineType /\ HandlerType
  BY DEF TypeOK
<1> USE <1>0 DEF EngineType, HandlerType
<1>1. CASE TickAborts
  BY <1>1 DEF TickAborts
<1>2. CASE TickStaysIdle
  BY <1>2 DEF TickStaysIdle, Goto
<1>3. CASE TickMonitors
  BY <1>3 DEF TickMonitors, Goto
<1>4. CASE CloseOverflow
  <2>1. \A v \in Vents : vent'[v] = IF v \in VentsOf(overflow) THEN "closed" ELSE vent[v]
    BY <1>4, SendCalm, ZenonT(60) DEF CloseOverflow
  <2>2. pc = "release" /\ UNCHANGED <<active, rcs>>
    BY <1>4, SendCalm, SpendCalm DEF CloseOverflow, Goto
  <2> QED
    BY <2>1, <2>2 DEF VentsOf
<1>5. CASE Reassert
  <2> DEFINE served == VentsOf({r \in active \ added : rcs[r] = "open"})
  <2>1. Send(served, "open", FALSE) /\ UNCHANGED <<active, rcs>> /\ pc = "reassert"
    BY <1>5 DEF Reassert
  <2>2. \A v \in served : rcs[RoomOf[v]] = "open"
    BY DEF VentsOf
  <2>3. \A v \in Vents : vent'[v] = IF v \in served THEN "open" ELSE vent[v]
    <3> HIDE DEF served
    <3> QED
      BY <2>1, SendCalm, ZenonT(60)
  <2> HIDE DEF served
  <2> QED
    BY <2>1, <2>2, <2>3
<1>6. CASE SweepEnds
  BY <1>6 DEF SweepEnds, Goto, Rest
<1>7. CASE Decide
  BY <1>7 DEF Decide, Goto
<1>8. CASE TermFinish
  BY <1>8, SpendCalm DEF TermFinish, CloseLog, Cold, Goto, NoRecords
<1>9. CASE OpenZone
  BY <1>9, SendCalm, SpendCalm DEF OpenZone, Goto, VentsOf
<1>10. CASE Abort
  BY <1>10, SpendCalm DEF Abort, CloseLog, Goto
<1>11. CASE AbortOpen
  BY <1>11, SendCalm, SpendCalm DEF AbortOpen, Cold, Goto, Rest, NoRecords, VentsOf
<1>12. CASE Timeout
  BY <1>12 DEF Timeout, Goto
<1>13. CASE Reconcile
  BY <1>13 DEF Reconcile, Goto
<1>14. CASE SkipReconcile
  BY <1>14 DEF SkipReconcile, Rest
<1>15. CASE ReconcileEnds
  BY <1>15 DEF ReconcileEnds, Rest
<1>16. CASE BootCold
  BY <1>16 DEF BootCold, Rest
<1>17. CASE BootDiscards
  BY <1>17, SendCalm, SpendCalm DEF BootDiscards, Rest, VentsOf
<1>18. CASE BootResumes
  BY <1>18 DEF BootResumes, Goto
<1>19. CASE BootFails
  BY <1>19, SpendCalm DEF BootFails, Cold, Rest, NoRecords
<1>20. CASE Raise
  BY <1>20, SpendCalm DEF Raise, Rest
<1>21. CASE Crash
  BY <1>21 DEF Crash, Cold, NoRecords
<1>22. CASE GrowOld
  BY <1>22 DEF GrowOld
<1>23. ASSUME NEW want \in (SUBSET Rooms) \ {{}}, Start(want) PROVE CalmVents'
  BY <1>23 DEF Start, NoRecords
<1>24. ASSUME NEW want \in (SUBSET Rooms) \ {{}}, StartFails(want) PROVE CalmVents'
  BY <1>24, SpendCalm DEF StartFails
<1>25. ASSUME NEW want \in (SUBSET Rooms) \ {{}}, NEW moved \in SUBSET (want \cap active), Update(want, moved) PROVE CalmVents'
  BY <1>25 DEF Update
<1>26. ASSUME NEW r \in Rooms, Join(r) PROVE CalmVents'
  <2>1. Send(VentsOf({r}), "open", FALSE) /\ Record(r, "open", TRUE)
    BY <1>26, SpendCalm DEF Join
  <2>2. \A v \in Vents : vent'[v] = IF v \in VentsOf({r}) THEN "open" ELSE vent[v]
    BY <2>1, SendCalm, ZenonT(60)
  <2>3. pc' = "update" /\ todo' = todo \ {r} /\ UNCHANGED active
    BY <1>26 DEF Join, Goto
  <2> QED
    BY <2>1, <2>2, <2>3 DEF VentsOf, Record
<1>27. ASSUME NEW r \in Rooms, Leave(r) PROVE CalmVents'
  BY <1>27, CloseCalm DEF Leave, VentsOf
<1>28. ASSUME NEW r \in Rooms, Sweep(r) PROVE CalmVents'
  BY <1>28, CloseCalm DEF Sweep, Goto, VentsOf
<1>29. ASSUME NEW r \in Rooms, ReopenForHold(r) PROVE CalmVents'
  <2>1. \A v \in Vents : vent'[v] = IF v \in VentsOf({r}) THEN "open" ELSE vent[v]
    <3>1. PICK wrong \in BOOLEAN : Send(VentsOf({r}), "open", wrong)
      BY <1>29 DEF ReopenForHold
    <3> QED
      BY <3>1, SendCalm
  <2>2. pc = "holding" /\ rcs' = [rcs EXCEPT ![r] = "open"] /\ UNCHANGED active
    BY <1>29, SendCalm, SpendCalm DEF ReopenForHold, Record
  <2> QED
    BY <2>1, <2>2 DEF VentsOf
<1>30. ASSUME NEW u \in BOOLEAN, Retarget(u) PROVE CalmVents'
  BY <1>30, SpendCalm DEF Retarget, ReleaseHold
<1>31. ASSUME NEW over \in SUBSET {r \in Rooms : rcs[r] = "closed"}, NEW lost \in {{}} \cup {{r} : r \in over}, Watchdog(over, lost) PROVE CalmVents'
  <2>1. \A v \in Vents : vent'[v] = IF v \in VentsOf(over \cap active) THEN "open" ELSE vent[v]
    <3>1. PICK wrong \in BOOLEAN : Send(VentsOf(over \cap active), "open", wrong)
      BY <1>31 DEF Watchdog
    <3> QED
      BY <3>1, SendCalm
  <2>2. pc = "monitor" /\ rcs' = [r \in Rooms |-> IF r \in over THEN "open" ELSE rcs[r]] /\ UNCHANGED active
    BY <1>31 DEF Watchdog
  <2> QED
    BY <2>1, <2>2 DEF VentsOf
<1>32. ASSUME NEW seen \in [active -> Readings], HoldCheck(seen) PROVE CalmVents'
  BY <1>32, SpendCalm DEF HoldCheck, Goto, ReleaseHold
<1>33. ASSUME NEW desired \in SUBSET (Rooms \ active), ApplyOverflow(desired) PROVE CalmVents'
  BY <1>33, ApplyOverflowTouches DEF ApplyOverflow, Goto
<1>34. ASSUME NEW r \in Rooms, Repair(r) PROVE CalmVents'
  BY <1>34, SendCalm, SpendCalm DEF Repair, Record, VisitFrame, Visited, Visiting, VentsOf
<1>35. ASSUME NEW r \in Rooms, Overlook(r) PROVE CalmVents'
  BY <1>35, SpendCalm DEF Overlook, VisitFrame, Visited, Visiting, NoCommand
<1>36. ASSUME NEW r \in Rooms, StayServed(r) PROVE CalmVents'
  BY <1>36, SpendCalm DEF StayServed, VisitFrame, Visited, Visiting, NoCommand
<1>37. ASSUME NEW r \in Rooms, ReopenDrifted(r) PROVE CalmVents'
  <2>1. \A v \in Vents : vent'[v] = IF v \in VentsOf({r}) THEN "open" ELSE vent[v]
    <3>1. PICK wrong \in BOOLEAN : Send(VentsOf({r}), "open", wrong)
      BY <1>37 DEF ReopenDrifted
    <3> QED
      BY <3>1, SendCalm
  <2>2. pc = "check" /\ rcs' = [rcs EXCEPT ![r] = "open"] /\ UNCHANGED active
    BY <1>37, SendCalm, SpendCalm DEF ReopenDrifted, Record, Visiting, VisitFrame
  <2> QED
    BY <2>1, <2>2 DEF VentsOf
<1>38. ASSUME NEW r \in Rooms, CloseServed(r) PROVE CalmVents'
  <2>1. \A v \in Vents : vent'[v] = IF v \in VentsOf({r}) THEN "closed" ELSE vent[v]
    <3>1. PICK wrong \in BOOLEAN : Send(VentsOf({r}), "closed", wrong)
      BY <1>38 DEF CloseServed
    <3> QED
      BY <3>1, SendCalm
  <2>2. pc = "check" /\ rcs' = [rcs EXCEPT ![r] = "closed"] /\ UNCHANGED active
    BY <1>38, SendCalm, SpendCalm DEF CloseServed, Record, Visiting, VisitFrame
  <2> QED
    BY <2>1, <2>2 DEF VentsOf
<1>39. ASSUME NEW r \in Rooms, Defer(r) PROVE CalmVents'
  BY <1>39, SpendCalm DEF Defer, VisitFrame, Visited, Visiting, NoCommand
<1>40. ASSUME NEW r \in Rooms, StillNeeds(r) PROVE CalmVents'
  BY <1>40, SpendCalm DEF StillNeeds, VisitFrame, Visited, Visiting, NoCommand
<1>41. ASSUME NEW ok \in BOOLEAN, Terminate(ok) PROVE CalmVents'
  BY <1>41, SpendCalm DEF Terminate, Goto, Rest
<1>42. ASSUME NEW v \in Vents, ReconcileVent(v) PROVE CalmVents'
  <2>1. pc = "reconciling" /\ UNCHANGED <<state, active, rcs>>
    BY <1>42 DEF ReconcileVent
  <2>2. \A w \in Vents \ {v} : vent'[w] = vent[w]
    <3>1. CASE ShouldBe(v) = "open"
      <4>1. Send({v}, "open", FALSE)
        BY <1>42, <3>1 DEF ReconcileVent
      <4> QED
        BY <4>1, SendCalm
    <3>2. CASE ShouldBe(v) # "open"
      BY <1>42, <3>2, CloseCalm DEF ReconcileVent
    <3> QED
      BY <3>1, <3>2
  <2>3. ASSUME RoomOf[v] \in active PROVE vent'[v] = rcs[RoomOf[v]]
    <3>1. state = "RUNNING" /\ rcs[RoomOf[v]] # "none" /\ vent[v] = rcs[RoomOf[v]]
      BY <2>1, <2>3
    <3>2. ShouldBe(v) = rcs[RoomOf[v]]
      BY <2>3, <3>1 DEF ShouldBe
    <3>3. CASE ShouldBe(v) = "open"
      <4>1. Send({v}, "open", FALSE)
        BY <1>42, <3>3 DEF ReconcileVent
      <4> QED
        BY <3>2, <3>3, <4>1, SendCalm, ZenonT(60)
    <3>4. CASE ShouldBe(v) # "open"
      <4>1. vent[v] = "closed"
        BY <3>1, <3>2, <3>4 DEF Records
      <4> QED
        BY <1>42, <3>1, <3>4, <4>1, CloseCalm DEF ReconcileVent
    <3> QED
      BY <3>3, <3>4
  <2> QED
    BY <2>1, <2>2, <2>3
<1>43. ASSUME NEW v \in Vents, MoveVent(v) PROVE CalmVents'
  BY <1>43, SpendCalm DEF MoveVent
<1>44. CASE UNCHANGED vars
  BY <1>44 DEF vars
<1> QED
  BY <1>1, <1>2, <1>3, <1>4, <1>5, <1>6, <1>7, <1>8, <1>9, <1>10, <1>11, <1>12, <1>13, <1>14, <1>15, <1>16, <1>17, <1>18, <1>19, <1>20, <1>21, <1>22, <1>23, <1>24, <1>25, <1>26, <1>27, <1>28, <1>29, <1>30, <1>31, <1>32, <1>33, <1>34, <1>35, <1>36, <1>37, <1>38, <1>39, <1>40, <1>41, <1>42, <1>43, <1>44 DEF Next, Tick, Step, House, CheckRoom

(* A pass that ends the cycle has accounted for every room of it.          *)
CalmInv == Calm => CalmControl /\ CalmRows /\ CalmVents

(* Initially nothing runs and nothing is recorded.                         *)
LEMMA CalmInit == Init => CalmInv
  BY DEF Init, CalmInv, CalmControl, CalmRows, CalmVents, NoRecords

(* A calm step of a calm run leaves the whole state accounted for.        *)
LEMMA CalmStep == TypeOK /\ CycleInv /\ CalmInv /\ [Next]_vars => CalmInv'
<1> SUFFICES ASSUME TypeOK, CycleInv, CalmInv, [Next]_vars, Calm' PROVE (CalmControl /\ CalmRows /\ CalmVents)'
  BY DEF CalmInv
<1>1. Calm
  BY Tally, ZoneAssumption DEF Tallied, Calm, TypeOK, HouseType
<1>2. CalmControl /\ CalmRows /\ CalmVents
  BY <1>1 DEF CalmInv
<1> QED
  BY <1>1, <1>2, CalmControlStep, CalmRowsStep, CalmVentsStep

(* Until the first fault or crash the whole state is accounted for.        *)
LEMMA CalmCorrect == Spec => []CalmInv
  BY CalmInit, CalmStep, TypeCorrect, CycleCorrect, PTL DEF Spec

(* Until a fault or a crash, a room of the running cycle has a record      *)
(* whenever no handler is at work, and its vents are as recorded.          *)
THEOREM VentsAgree == Spec => []VentsMatchRecords
<1>1. CalmInv => VentsMatchRecords
  BY DEF CalmInv, Calm, CalmControl, CalmVents, VentsMatchRecords, VentsOf
<1> QED
  BY <1>1, CalmCorrect, PTL

(* Until a fault or a crash, a restart would read back the engine's state. *)
THEOREM RowsAgree == Spec => []RowsMirrorEngine
<1>1. ASSUME TypeOK, CalmInv PROVE RowsMirrorEngine
  BY <1>1 DEF TypeOK, RowsType, CalmInv, Calm, CalmRows, RowsMirrorEngine
<1> QED
  BY <1>1, CalmCorrect, TypeCorrect, PTL

-----------------------------------------------------------------------------
(* An unbroken hold                                                        *)

(* With no restart and one fault at most, a room that is both served and   *)
(* overflow is one that is about to join, or one whose join has failed: it *)
(* has no record then, and the hold goes on or is being released.          *)
Whole == crashes = 0 /\ faults <= 1

WholeHold ==
    /\ pc # "boot" /\ (pc = "sweep" => fresh)
    /\ state = "IDLE" => overflow = {}
    /\ fresh => ~hold /\ overflow = {} /\ leaving = {} /\ pc \in {"update", "reassert", "sweep", "monitor"}
    /\ leaving \cap active = {} /\ (leaving # {} => pc = "update")
    /\ pc = "holding" => hold /\ \A r \in todo : rcs[r] # "none"
    /\ faults = 0 /\ ~hold /\ pc # "release" => overflow = {}
    /\ \A r \in overflow \cap active :
         \/ pc = "update" /\ r \in todo
         \/ rcs[r] = "none" /\ faults = 1 /\ (hold \/ pc = "release")

(* Nothing but a restart or a second fault undoes this.                   *)
LEMMA WholeHoldStep == TypeOK /\ CycleInv /\ CalmInv /\ WholeHold /\ Whole /\ Whole' /\ [Next]_vars => WholeHold'
<1> SUFFICES ASSUME TypeOK, CycleInv, CalmInv, WholeHold, Whole, Whole', [Next]_vars PROVE WholeHold'
  OBVIOUS
<1> USE DEF CycleInv, CycleHasLog, NeedsCycle, PCs, engine, locals, db
<1>0. HouseType /\ EngineType /\ HandlerType
  BY DEF TypeOK
<1>t. faults \in {0, 1} /\ faults' \in {0, 1} /\ crashes = 0 /\ crashes' = 0 /\ faults <= faults'
  BY <1>0, Tally, Typing, ZoneAssumption DEF Whole, HouseType, TypeOK, Tallied
<1>c. faults = 0 => CalmControl
  BY <1>t DEF CalmInv, Calm
<1> USE <1>0, <1>t DEF EngineType, HandlerType, WholeHold
<1>1. CASE TickAborts
  BY <1>1 DEF TickAborts
<1>2. CASE TickStaysIdle
  BY <1>2 DEF TickStaysIdle, Goto
<1>3. CASE TickMonitors
  BY <1>3 DEF TickMonitors, Goto
<1>4. CASE CloseOverflow
  BY <1>4, SendCounts, SpendCounts DEF CloseOverflow, Goto
<1>5. CASE Reassert
  BY <1>5, SendCounts, SpendCounts DEF Reassert, Goto
<1>6. CASE SweepEnds
  BY <1>6 DEF SweepEnds, Goto, Rest
<1>7. CASE Decide
  BY <1>7 DEF Decide, Goto
<1>8. CASE TermFinish
  BY <1>8, SpendCounts DEF TermFinish, CloseLog, Cold, Goto, NoRecords
<1>9. CASE OpenZone
  BY <1>9, SendCounts, SpendCounts DEF OpenZone, Goto
<1>10. CASE Abort
  BY <1>10, SpendCounts DEF Abort, CloseLog, Goto
<1>11. CASE AbortOpen
  BY <1>11, SendCounts, SpendCounts DEF AbortOpen, Cold, Goto, Rest, NoRecords
<1>12. CASE Timeout
  BY <1>12 DEF Timeout, Goto
<1>13. CASE Reconcile
  BY <1>13 DEF Reconcile, Goto
<1>14. CASE SkipReconcile
  BY <1>14 DEF SkipReconcile, Rest
<1>15. CASE ReconcileEnds
  BY <1>15 DEF ReconcileEnds, Rest
<1>16. CASE BootCold
  BY <1>16 DEF BootCold, Rest
<1>17. CASE BootDiscards
  BY <1>17, SendCounts, SpendCounts DEF BootDiscards, Rest
<1>18. CASE BootResumes
  BY <1>18 DEF BootResumes, Goto
<1>19. CASE BootFails
  BY <1>19, SpendCounts DEF BootFails, Cold, Rest, NoRecords
<1>20. CASE Raise
  BY <1>20 DEF Raise, Rest, Spend
<1>21. CASE Crash
  BY <1>21 DEF Crash, Cold, NoRecords
<1>22. CASE GrowOld
  BY <1>22 DEF GrowOld
<1>23. ASSUME NEW want \in (SUBSET Rooms) \ {{}}, Start(want) PROVE WholeHold'
  BY <1>23 DEF Start, NoRecords
<1>24. ASSUME NEW want \in (SUBSET Rooms) \ {{}}, StartFails(want) PROVE WholeHold'
  BY <1>24, SpendCounts DEF StartFails
<1>25. ASSUME NEW want \in (SUBSET Rooms) \ {{}}, NEW moved \in SUBSET (want \cap active), Update(want, moved) PROVE WholeHold'
  BY <1>25 DEF Update
<1>26. ASSUME NEW r \in Rooms, Join(r) PROVE WholeHold'
  <2>1. /\ pc = "update" /\ pc' = "update" /\ r \in todo /\ todo' = todo \ {r}
        /\ UNCHANGED <<state, hold, active, fresh, leaving>>
    BY <1>26 DEF Join, Goto
  <2>2. CASE Record(r, "open", TRUE) /\ overflow' = IF fresh THEN overflow ELSE overflow \ {r}
    BY <2>1, <2>2 DEF Record
  <2>3. CASE Spend(TRUE) /\ UNCHANGED <<rcs, overflow>>
    <3>1. faults = 0 /\ faults' = 1
      BY <2>3, <1>0 DEF Spend
    <3>2. rcs[r] = "none"
      BY <1>c, <2>1, <3>1 DEF CalmControl
    <3> QED
      BY <2>1, <2>3, <3>1, <3>2
  <2> QED
    BY <1>26, <2>2, <2>3 DEF Join
<1>27. ASSUME NEW r \in Rooms, Leave(r) PROVE WholeHold'
  BY <1>27, CloseCounts DEF Leave
<1>28. ASSUME NEW r \in Rooms, Sweep(r) PROVE WholeHold'
  BY <1>28, CloseCounts DEF Sweep, Goto
<1>29. ASSUME NEW r \in Rooms, ReopenForHold(r) PROVE WholeHold'
  BY <1>29, SendCounts, SpendCounts DEF ReopenForHold, Goto, Record, Rest
<1>30. ASSUME NEW u \in BOOLEAN, Retarget(u) PROVE WholeHold'
  <2>1. /\ pc = "update" /\ todo = {} /\ todo' = {} /\ leaving' = leaving /\ (fresh \/ leaving = {})
        /\ UNCHANGED <<state, active, rcs, overflow, fresh>>
    BY <1>30 DEF Retarget
  <2>2. \/ pc' = "release" /\ ~fresh
        \/ pc' = "reassert" /\ hold' = hold /\ faults' = faults
    BY <1>30 DEF Retarget
  <2>3. hold' => hold
    BY <1>30 DEF Retarget, ReleaseHold
  <2> QED
    BY <2>1, <2>2, <2>3
<1>31. ASSUME NEW over \in SUBSET {r \in Rooms : rcs[r] = "closed"}, NEW lost \in {{}} \cup {{r} : r \in over}, Watchdog(over, lost) PROVE WholeHold'
  BY <1>31, SendCounts, SpendCounts DEF Watchdog, Rest
<1>32. ASSUME NEW seen \in [active -> Readings], HoldCheck(seen) PROVE WholeHold'
  <2>1. /\ pc = "holdcheck" /\ state # "IDLE"
        /\ UNCHANGED <<state, active, rcs, overflow, fresh, leaving>>
    BY <1>32 DEF HoldCheck, Goto
  <2>2. \/ pc' = "holding" /\ hold' = TRUE /\ todo' = {r \in active : rcs[r] = "closed"}
        \/ pc' = "holding" /\ hold /\ hold' = hold /\ todo' = {}
        \/ pc' = "release" /\ hold
        \/ pc' = "terminate" /\ hold /\ hold' = hold
        \/ pc' = "check" /\ ~hold /\ hold' = hold
    BY <1>32 DEF HoldCheck, Goto
  <2> QED
    BY <2>1, <2>2
<1>33. ASSUME NEW desired \in SUBSET (Rooms \ active), ApplyOverflow(desired) PROVE WholeHold'
  <2>1. /\ pc = "holding" /\ pc' = "timeout" /\ todo' = {}
        /\ UNCHANGED <<state, hold, active, rcs, fresh, leaving>>
    BY <1>33 DEF ApplyOverflow, Goto
  <2>2. overflow' \cap active = {} \/ overflow' = overflow
    BY <1>33 DEF ApplyOverflow
  <2>3. state # "IDLE"
    BY <2>1
  <2> QED
    BY <2>1, <2>2, <2>3
<1>34. ASSUME NEW r \in Rooms, Repair(r) PROVE WholeHold'
  <2>1. pc = "check" /\ pc' = "check" /\ ~hold
    BY <1>34 DEF Repair, Visiting, Visited
  <2>2. UNCHANGED <<state, hold, active, overflow, fresh, leaving>>
    BY <1>34 DEF Repair, Visited, VisitFrame
  <2> QED
    BY <2>1, <2>2
<1>35. ASSUME NEW r \in Rooms, Overlook(r) PROVE WholeHold'
  BY <1>35, SpendCounts DEF Overlook, VisitFrame, Visited, Visiting, NoCommand
<1>36. ASSUME NEW r \in Rooms, StayServed(r) PROVE WholeHold'
  BY <1>36, SpendCounts DEF StayServed, VisitFrame, Visited, Visiting, NoCommand
<1>37. ASSUME NEW r \in Rooms, ReopenDrifted(r) PROVE WholeHold'
  BY <1>37, SendCounts, SpendCounts DEF ReopenDrifted, Record, Rest, VisitFrame, Visited, Visiting
<1>38. ASSUME NEW r \in Rooms, CloseServed(r) PROVE WholeHold'
  BY <1>38, SendCounts, SpendCounts DEF CloseServed, Record, Rest, VisitFrame, Visited, Visiting
<1>39. ASSUME NEW r \in Rooms, Defer(r) PROVE WholeHold'
  BY <1>39, SpendCounts DEF Defer, VisitFrame, Visited, Visiting, NoCommand
<1>40. ASSUME NEW r \in Rooms, StillNeeds(r) PROVE WholeHold'
  BY <1>40, SpendCounts DEF StillNeeds, VisitFrame, Visited, Visiting, NoCommand
<1>41. ASSUME NEW ok \in BOOLEAN, Terminate(ok) PROVE WholeHold'
  BY <1>41, SpendCounts DEF Terminate, Goto, Rest
<1>42. ASSUME NEW v \in Vents, ReconcileVent(v) PROVE WholeHold'
  BY <1>42, CloseCounts, SendCounts DEF ReconcileVent, Goto
<1>43. ASSUME NEW v \in Vents, MoveVent(v) PROVE WholeHold'
  BY <1>43, SpendCounts DEF MoveVent
<1>44. CASE UNCHANGED vars
  BY <1>44 DEF vars
<1> QED
  BY <1>1, <1>2, <1>3, <1>4, <1>5, <1>6, <1>7, <1>8, <1>9, <1>10, <1>11, <1>12, <1>13, <1>14, <1>15, <1>16, <1>17, <1>18, <1>19, <1>20, <1>21, <1>22, <1>23, <1>24, <1>25, <1>26, <1>27, <1>28, <1>29, <1>30, <1>31, <1>32, <1>33, <1>34, <1>35, <1>36, <1>37, <1>38, <1>39, <1>40, <1>41, <1>42, <1>43, <1>44 DEF Next, Tick, Step, House, CheckRoom

(* A pass that ends the cycle has accounted for every room of it.          *)

WholeInv == Whole => WholeHold

(* So it stays until a restart or a second fault.                          *)
LEMMA WholeStep == TypeOK /\ CycleInv /\ CalmInv /\ WholeInv /\ [Next]_vars => WholeInv'
<1> SUFFICES ASSUME TypeOK, CycleInv, CalmInv, WholeInv, [Next]_vars, Whole' PROVE WholeHold'
  BY DEF WholeInv
<1>1. Whole
  BY Tally, Typing, ZoneAssumption DEF Tallied, Whole, TypeOK, HouseType
<1>2. WholeHold
  BY <1>1 DEF WholeInv
<1> QED
  BY <1>1, <1>2, WholeHoldStep

(* In every state before a restart or a second fault.                      *)
LEMMA WholeCorrect == Spec => []WholeInv
<1>1. Init => WholeInv
  BY DEF Init, WholeInv, WholeHold
<1> QED
  BY <1>1, WholeStep, TypeCorrect, CycleCorrect, CalmCorrect, PTL DEF Spec

(* A close within the floor spares every vent it is not meant for.         *)
LEMMA CloseSpares ==
    ASSUME HouseType, NEW S, CloseIfAllowed(S)
    PROVE  OpenVents \ S \subseteq OpenVents'
<1>1. CASE FloorAllows(S)
  <2>1. Send(S, "closed", FALSE)
    BY <1>1 DEF CloseIfAllowed
  <2> QED
    BY <2>1, SendCloses
<1>2. CASE ~FloorAllows(S)
  BY <1>2 DEF CloseIfAllowed, NoCommand, OpenVents
<1> QED
  BY <1>1, <1>2

(* What a hold owes the rooms that are served                              *)
ServedStayOpen ==
    \A r \in active : rcs[r] = "open" =>
       /\ rcs'[r] # "closed"
       /\ \A v \in VentsOf({r}) : vent[v] = "open" => vent'[v] = "open"

(* In an unbroken hold no step of the engine takes air from a served room. *)
LEMMA HoldStep == TypeOK /\ CycleInv /\ WholeHold /\ hold /\ hold' /\ EngineStep /\ [Next]_vars => ServedStayOpen
<1> SUFFICES ASSUME TypeOK, CycleInv, WholeHold, hold, hold', EngineStep, [Next]_vars PROVE ServedStayOpen
  OBVIOUS
<1> USE ZoneAssumption DEF CycleInv, CycleHasLog, WholeHold, engine, locals, db
<1>0. HouseType /\ EngineType
  BY DEF TypeOK
<1> USE <1>0 DEF EngineType, HouseType
<1>1. CASE TickAborts
  BY <1>1 DEF TickAborts, ServedStayOpen
<1>2. CASE TickStaysIdle
  BY <1>2 DEF TickStaysIdle, Goto, ServedStayOpen
<1>3. CASE TickMonitors
  BY <1>3 DEF TickMonitors, Goto, ServedStayOpen
<1>4. CASE CloseOverflow
  BY <1>4 DEF CloseOverflow
<1>5. CASE Reassert
  <2>1. OpenVents \subseteq OpenVents'
    BY <1>5, SendOpens DEF Reassert
  <2>2. \A q \in Rooms : rcs[q] = "open" => rcs'[q] # "closed"
    BY <1>5 DEF Reassert
  <2> QED
    BY <2>1, <2>2 DEF ServedStayOpen, OpenVents, VentsOf
<1>6. CASE SweepEnds
  BY <1>6 DEF SweepEnds, Goto, Rest, ServedStayOpen
<1>7. CASE Decide
  BY <1>7 DEF Decide, Goto, ServedStayOpen
<1>8. CASE TermFinish
  BY <1>8 DEF TermFinish, CloseLog, Cold, Goto, NoRecords, ServedStayOpen
<1>9. CASE OpenZone
  <2>1. OpenVents \subseteq OpenVents'
    BY <1>9, SendOpens DEF OpenZone
  <2>2. \A q \in Rooms : rcs[q] = "open" => rcs'[q] # "closed"
    BY <1>9 DEF OpenZone
  <2> QED
    BY <2>1, <2>2 DEF ServedStayOpen, OpenVents, VentsOf
<1>10. CASE Abort
  BY <1>10 DEF Abort, CloseLog, Goto, ServedStayOpen
<1>11. CASE AbortOpen
  <2>1. OpenVents \subseteq OpenVents'
    BY <1>11, SendOpens DEF AbortOpen
  <2>2. \A q \in Rooms : rcs[q] = "open" => rcs'[q] # "closed"
    BY <1>11 DEF AbortOpen, Cold, NoRecords
  <2> QED
    BY <2>1, <2>2 DEF ServedStayOpen, OpenVents, VentsOf
<1>12. CASE Timeout
  BY <1>12 DEF Timeout, Goto, ServedStayOpen
<1>13. CASE Reconcile
  BY <1>13 DEF Reconcile, Goto, ServedStayOpen
<1>14. CASE SkipReconcile
  BY <1>14 DEF SkipReconcile, Rest, ServedStayOpen
<1>15. CASE ReconcileEnds
  BY <1>15 DEF ReconcileEnds, Rest, ServedStayOpen
<1>16. CASE BootCold
  BY <1>16 DEF BootCold
<1>17. CASE BootDiscards
  BY <1>17 DEF BootDiscards
<1>18. CASE BootResumes
  BY <1>18 DEF BootResumes
<1>19. CASE BootFails
  BY <1>19 DEF BootFails
<1>20. CASE Raise
  BY <1>20 DEF Raise, Rest, ServedStayOpen
<1>21. CASE Crash
  BY <1>21 DEF Crash, Cold
<1>22. CASE GrowOld
  BY <1>22 DEF GrowOld, ServedStayOpen
<1>23. ASSUME NEW want \in (SUBSET Rooms) \ {{}}, Start(want) PROVE ServedStayOpen
  BY <1>23 DEF Start, NoRecords, ServedStayOpen
<1>24. ASSUME NEW want \in (SUBSET Rooms) \ {{}}, StartFails(want) PROVE ServedStayOpen
  BY <1>24 DEF StartFails, ServedStayOpen
<1>25. ASSUME NEW want \in (SUBSET Rooms) \ {{}}, NEW moved \in SUBSET (want \cap active), Update(want, moved) PROVE ServedStayOpen
  BY <1>25 DEF Update, ServedStayOpen
<1>26. ASSUME NEW r \in Rooms, Join(r) PROVE ServedStayOpen
  <2>1. OpenVents \subseteq OpenVents'
    BY <1>26, SendOpens DEF Join, OpenVents
  <2>2. \A q \in Rooms : rcs[q] = "open" => rcs'[q] # "closed"
    BY <1>26, ZenonT(60) DEF Join, Record
  <2> QED
    BY <2>1, <2>2 DEF ServedStayOpen, OpenVents, VentsOf
<1>27. ASSUME NEW r \in Rooms, Leave(r) PROVE ServedStayOpen
  <2>1. OpenVents \ VentsOf({r}) \subseteq OpenVents'
    BY <1>27, CloseSpares DEF Leave
  <2>2. r \notin active /\ rcs' = [rcs EXCEPT ![r] = "none"]
    BY <1>27 DEF Leave
  <2> QED
    BY <2>1, <2>2 DEF ServedStayOpen, OpenVents, VentsOf
<1>28. ASSUME NEW r \in Rooms, Sweep(r) PROVE ServedStayOpen
  BY <1>28 DEF Sweep
<1>29. ASSUME NEW r \in Rooms, ReopenForHold(r) PROVE ServedStayOpen
  <2>1. OpenVents \subseteq OpenVents'
    BY <1>29, SendOpens DEF ReopenForHold
  <2>2. \A q \in Rooms : rcs[q] = "open" => rcs'[q] # "closed"
    BY <1>29 DEF ReopenForHold, Record
  <2> QED
    BY <2>1, <2>2 DEF ServedStayOpen, OpenVents, VentsOf
<1>30. ASSUME NEW u \in BOOLEAN, Retarget(u) PROVE ServedStayOpen
  BY <1>30 DEF Retarget, ReleaseHold, ServedStayOpen
<1>31. ASSUME NEW over \in SUBSET {r \in Rooms : rcs[r] = "closed"}, NEW lost \in {{}} \cup {{r} : r \in over}, Watchdog(over, lost) PROVE ServedStayOpen
  <2>1. OpenVents \subseteq OpenVents'
    BY <1>31, SendOpens DEF Watchdog
  <2>2. \A q \in Rooms : rcs[q] = "open" => rcs'[q] # "closed"
    BY <1>31 DEF Watchdog
  <2> QED
    BY <2>1, <2>2 DEF ServedStayOpen, OpenVents, VentsOf
<1>32. ASSUME NEW seen \in [active -> Readings], HoldCheck(seen) PROVE ServedStayOpen
  BY <1>32 DEF HoldCheck, Goto, ReleaseHold, ServedStayOpen
<1>33. ASSUME NEW desired \in SUBSET (Rooms \ active), ApplyOverflow(desired) PROVE ServedStayOpen
  <2>1. pc = "holding" /\ rcs' = rcs
    BY <1>33 DEF ApplyOverflow
  <2>2. \A q \in active : rcs[q] = "open" => q \notin overflow
    BY <2>1
  <2> QED
    BY <1>33, <2>1, <2>2, ApplyOverflowTouches DEF ServedStayOpen, VentsOf
<1>34. ASSUME NEW r \in Rooms, Repair(r) PROVE ServedStayOpen
  <2>1. OpenVents \subseteq OpenVents'
    BY <1>34, SendOpens DEF Repair, OpenVents
  <2>2. \A q \in Rooms : rcs[q] = "open" => rcs'[q] # "closed"
    BY <1>34 DEF Repair, Record
  <2> QED
    BY <2>1, <2>2 DEF ServedStayOpen, OpenVents, VentsOf
<1>35. ASSUME NEW r \in Rooms, Overlook(r) PROVE ServedStayOpen
  BY <1>35 DEF Overlook, VisitFrame, Visited, Visiting, ServedStayOpen, NoCommand
<1>36. ASSUME NEW r \in Rooms, StayServed(r) PROVE ServedStayOpen
  BY <1>36 DEF StayServed, VisitFrame, Visited, Visiting, ServedStayOpen, NoCommand
<1>37. ASSUME NEW r \in Rooms, ReopenDrifted(r) PROVE ServedStayOpen
  <2>1. OpenVents \subseteq OpenVents'
    BY <1>37, SendOpens DEF ReopenDrifted
  <2>2. \A q \in Rooms : rcs[q] = "open" => rcs'[q] # "closed"
    BY <1>37 DEF ReopenDrifted, Record
  <2> QED
    BY <2>1, <2>2 DEF ServedStayOpen, OpenVents, VentsOf
<1>38. ASSUME NEW r \in Rooms, CloseServed(r) PROVE ServedStayOpen
  BY <1>38 DEF CloseServed, Visiting
<1>39. ASSUME NEW r \in Rooms, Defer(r) PROVE ServedStayOpen
  BY <1>39 DEF Defer, VisitFrame, Visited, Visiting, ServedStayOpen, NoCommand
<1>40. ASSUME NEW r \in Rooms, StillNeeds(r) PROVE ServedStayOpen
  BY <1>40 DEF StillNeeds, VisitFrame, Visited, Visiting, ServedStayOpen, NoCommand
<1>41. ASSUME NEW ok \in BOOLEAN, Terminate(ok) PROVE ServedStayOpen
  BY <1>41 DEF Terminate, Goto, Rest, ServedStayOpen
<1>42. ASSUME NEW v \in Vents, ReconcileVent(v) PROVE ServedStayOpen
  <2>1. rcs' = rcs
    BY <1>42 DEF ReconcileVent
  <2>2. CASE ShouldBe(v) = "open"
    <3>1. Send({v}, "open", FALSE)
      BY <1>42, <2>2 DEF ReconcileVent
    <3>2. OpenVents \subseteq OpenVents'
      BY <3>1, SendOpens
    <3> QED
      BY <2>1, <3>2 DEF ServedStayOpen, OpenVents, VentsOf
  <2>3. CASE ShouldBe(v) # "open"
    <3>1. OpenVents \ {v} \subseteq OpenVents'
      BY <1>42, <2>3, CloseSpares DEF ReconcileVent
    <3>2. RoomOf[v] \notin active \/ rcs[RoomOf[v]] # "open"
      BY <2>3 DEF ShouldBe
    <3> QED
      BY <2>1, <3>1, <3>2 DEF ServedStayOpen, OpenVents, VentsOf
  <2> QED
    BY <2>2, <2>3
<1>43. ASSUME NEW v \in Vents, MoveVent(v) PROVE ServedStayOpen
  BY <1>43 DEF MoveVent, EngineStep
<1>44. CASE UNCHANGED vars
  BY <1>44 DEF vars, EngineStep
<1> QED
  BY <1>1, <1>2, <1>3, <1>4, <1>5, <1>6, <1>7, <1>8, <1>9, <1>10, <1>11, <1>12, <1>13, <1>14, <1>15, <1>16, <1>17, <1>18, <1>19, <1>20, <1>21, <1>22, <1>23, <1>24, <1>25, <1>26, <1>27, <1>28, <1>29, <1>30, <1>31, <1>32, <1>33, <1>34, <1>35, <1>36, <1>37, <1>38, <1>39, <1>40, <1>41, <1>42, <1>43, <1>44 DEF Next, Tick, Step, House, CheckRoom

(* docs/safety.md:28, of a hold that neither a restart nor a second fault  *)
(* has interrupted: no step of the engine closes a vent of a served room   *)
(* that is open, nor marks such a room closed.                             *)
THEOREM HoldKeepsAir == Spec => UnbrokenHoldKeepsServedOpen
<1>1. TypeOK /\ TypeOK' /\ CycleInv /\ WholeInv /\ [Next]_vars =>
        [(hold /\ hold' /\ EngineStep /\ crashes' = 0 /\ faults' <= 1) =>
          \A r \in active : rcs[r] = "open" =>
            /\ rcs'[r] # "closed"
            /\ \A v \in VentsOf({r}) : vent[v] = "open" => vent'[v] = "open"]_vars
  <2> SUFFICES ASSUME TypeOK, TypeOK', CycleInv, WholeInv, [Next]_vars,
                      hold, hold', EngineStep, crashes' = 0, faults' <= 1
               PROVE  ServedStayOpen
    BY DEF ServedStayOpen
  <2>1. Whole
    BY Tally, ZoneAssumption DEF Tallied, Whole, TypeOK, HouseType
  <2>2. WholeHold
    BY <2>1 DEF WholeInv
  <2> QED
    BY <2>2, HoldStep
<1> QED
  BY <1>1, TypeCorrect, CycleCorrect, WholeCorrect, PTL DEF Spec, UnbrokenHoldKeepsServedOpen
=============================================================================
