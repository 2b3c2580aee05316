-------------------------- MODULE Scheduler_proofs --------------------------
(***************************************************************************)
(* Proofs about Scheduler, each built on the one before:                   *)
(*   types    the lock of an engine is a part of them: whoever is in the   *)
(*            middle of a start holds it, and nobody else;                 *)
(*   seats    who is in charge of a zone, and that an engine taken out     *)
(*            never comes back;                                            *)
(*   logs     who may open or close a row of cycle_logs, hence the         *)
(*            refinement of ZoneLedger;                                    *)
(*   accounts the open rows of a zone are those its engine runs;           *)
(*   watch    a thermostat is driven by an engine that runs;               *)
(*   slate    what a toggle leaves behind.                                 *)
(***************************************************************************)
EXTENDS Scheduler, WellFoundedInduction, TLAPS

BudgetOK == used \in [Kinds -> Nat] /\ \A k \in Kinds : used[k] <= Cap[k]
RowsOK   == row \in [Logs -> LogRecords] /\ driven \in [Zones -> BOOLEAN] /\ eng \in [Engines -> EngineRecords]
LockHeld(e, t) == task[t].engine = e /\ task[t].pc \in {"own", "cross", "insert", "join"}

(* A ticker at work has an engine, and a restored file is one of those that
   may come. *)
TypeInv ==
    /\ TypeOK
    /\ \A t \in Tickers : task[t].pc # "idle" => task[t].engine \in Engines
    /\ file <= used["restores"]

-----------------------------------------------------------------------------
(* Logs *)

(* Of some numbers one is the least. *)
LEMMA LeastExists ==
    ASSUME NEW S, S # {}, S \subseteq Nat
    PROVE  \E l \in S : \A m \in S : l <= m
<1> DEFINE Below == {ss \in Nat \X Nat : ss[1] < ss[2]}
<1>1. IsWellFoundedOn(Below, Nat)
  BY NatLessThanWellFounded DEF OpToRel
<1>2. \E l \in S : \A m \in S : ~(<<m, l>> \in Below)
  <2> HIDE DEF Below
  <2> QED
    BY <1>1, WFMin
<1>3. PICK l \in S : \A m \in S : ~(<<m, l>> \in Below)
  BY <1>2
<1>4. ASSUME NEW m \in S PROVE l <= m
  <2>1. <<m, l>> \in Nat \X Nat /\ l \in Nat /\ m \in Nat
    OBVIOUS
  <2>2. ~(m < l)
    BY <1>3, <2>1
  <2> QED
    BY <2>1, <2>2
<1> QED
  BY <1>4

(* Of some logs one is the last. *)
LEMMA LastExists ==
    ASSUME NEW S, S # {}, S \subseteq Logs
    PROVE  \E l \in S : \A m \in S : m <= l
<1> DEFINE T == {MaxLogs - l : l \in S}
<1>1. MaxLogs \in Nat /\ \A l \in S : l \in Nat /\ l <= MaxLogs /\ MaxLogs - l \in Nat
  BY SchedulerAssumption DEF Logs
<1>2. T # {} /\ T \subseteq Nat
  BY <1>1
<1>3. \E x \in T : \A y \in T : x <= y
  <2> HIDE DEF T
  <2> QED
    BY <1>2, LeastExists
<1>4. PICK l \in S : \A m \in S : MaxLogs - l <= MaxLogs - m
  BY <1>3
<1> QED
  BY <1>1, <1>4

(* The log that a start takes is one that is left. *)
LEMMA FreshIsLog == Unused # {} => FreshLog \in Logs
<1>1. Unused \subseteq Logs /\ Unused \subseteq Nat
  BY DEF Unused, Logs
<1>2. Unused # {} => \E l \in Unused : \A m \in Unused : l <= m
  BY <1>1, LeastExists
<1> QED
  BY <1>1, <1>2 DEF FreshLog

-----------------------------------------------------------------------------
(* What the helpers leave *)

(* The types one by one *)
LEMMA TypeParts ==
    ASSUME TypeInv
    PROVE  /\ \A l \in Logs : row[l] \in [zone : Zones \cup {None}, rooms : SUBSET Rooms, st : {"unused", "open", "over"}]
           /\ \A e \in Engines : eng[e] \in [zone : Zones \cup {None}, running : BOOLEAN,
                                           log : Logs \cup {None}, file : Files]
           /\ \A t \in Tickers : task[t] \in TaskRecords
           /\ DOMAIN row = Logs /\ row = [l \in Logs |-> row[l]]
           /\ DOMAIN eng = Engines /\ eng = [e \in Engines |-> eng[e]]
           /\ pub \in [Zones -> Engines \cup {None}] /\ link \in Files
<1>1. row \in [Logs -> LogRecords] /\ eng \in [Engines -> EngineRecords]
  BY DEF TypeInv, TypeOK
<1>2. (\A t \in Tickers : task[t] \in TaskRecords) /\ pub \in [Zones -> Engines \cup {None}] /\ link \in Files
  BY DEF TypeInv, TypeOK
<1> QED
  BY <1>1, <1>2 DEF LogRecords, EngineRecords

(* A statement on a connection leaves the rows typed. *)
LEMMA CloseTyped ==
    ASSUME TypeInv, NEW S, NEW f, CloseLogs(S, f)
    PROVE  row' \in [Logs -> LogRecords]
<1>1. ASSUME NEW l \in Logs PROVE row[l] \in LogRecords /\ [row[l] EXCEPT !.st = "over"] \in LogRecords
  BY TypeParts DEF LogRecords
<1> QED
  BY <1>1 DEF CloseLogs, Over, TypeInv, TypeOK

(* The budgets are numbers within their caps. *)
LEMMA SpendTyped ==
    ASSUME TypeInv, NEW k \in Kinds, Spend(k)
    PROVE  BudgetOK' /\ used'["restores"] >= used["restores"]
<1>1. \A j \in Kinds : Cap[j] \in Nat
  BY SchedulerAssumption DEF Cap, Kinds
<1>2. used \in [Kinds -> Nat] /\ \A j \in Kinds : used[j] <= Cap[j]
  BY DEF TypeInv, TypeOK
<1>3. used' = [used EXCEPT ![k] = @ + 1] /\ used[k] < Cap[k]
  BY DEF Spend
<1>4. used' \in [Kinds -> Nat]
  BY <1>2, <1>3
<1>5. ASSUME NEW j \in Kinds PROVE used'[j] <= Cap[j] /\ used'[j] >= used[j]
  BY <1>1, <1>2, <1>3
<1> QED
  BY <1>4, <1>5 DEF BudgetOK, Kinds

(* Nor does a mishap, or none, spend more. *)
LEMMA MishapTyped ==
    ASSUME TypeInv, NEW b, Mishap(b)
    PROVE  BudgetOK' /\ used'["restores"] >= used["restores"]
<1>1. CASE UNCHANGED used
  BY <1>1 DEF TypeInv, TypeOK, BudgetOK, Kinds, Cap
<1>2. CASE Spend("faults")
  BY <1>2, SpendTyped DEF Kinds
<1> QED
  BY <1>1, <1>2 DEF Mishap

(* The end of a cycle *)
LEMMA EndTyped ==
    ASSUME TypeInv, NEW e, NEW f, NEW logged \in BOOLEAN, NEW parked \in BOOLEAN,
           EndCycle(e, f, logged, parked)
    PROVE  RowsOK' /\ BudgetOK' /\ used'["restores"] >= used["restores"]
<1>1. BudgetOK' /\ used'["restores"] >= used["restores"]
  BY MishapTyped DEF EndCycle
<1>2. row' \in [Logs -> LogRecords]
  BY CloseTyped DEF EndCycle
<1>3. driven' \in [Zones -> BOOLEAN]
  BY DEF EndCycle, TypeInv, TypeOK
<1>4. eng' \in [Engines -> EngineRecords]
  <2>1. ASSUME NEW x \in Engines
        PROVE  eng[x] \in EngineRecords /\ [eng[x] EXCEPT !.running = FALSE, !.log = None] \in EngineRecords
    BY TypeParts DEF EngineRecords
  <2>2. eng' = [x \in Engines |->
                  IF x = e THEN [eng[x] EXCEPT !.running = FALSE, !.log = None] ELSE eng[x]]
    <3>1. eng' = [eng EXCEPT ![e] = [eng[e] EXCEPT !.running = FALSE, !.log = None]]
      BY TypeParts DEF EndCycle
    <3> QED
      BY <3>1, TypeParts, Zenon
  <2> QED
    BY <2>1, <2>2, Zenon
<1> QED
  BY <1>1, <1>2, <1>3, <1>4 DEF RowsOK

(* What is left alone stays typed. *)
LEMMA StillTyped ==
    ASSUME TypeInv
    PROVE  /\ UNCHANGED used => BudgetOK' /\ used'["restores"] >= used["restores"]
           /\ UNCHANGED <<row, driven, eng>> => RowsOK'
BY DEF TypeInv, TypeOK, BudgetOK, RowsOK, Kinds, Cap

(* An abort that comes to its end, fails or finds nothing to abort *)
LEMMA AbortTyped ==
    ASSUME TypeInv, NEW e, NEW f, ForceAbort(e, f)
    PROVE  RowsOK' /\ BudgetOK' /\ used'["restores"] >= used["restores"]
BY EndTyped, StillTyped, MishapTyped DEF ForceAbort, NothingToEnd

(* What a step that leaves the tickers and the locks to themselves has to
   show *)
LEMMA TypeFrame ==
    ASSUME TypeInv, RowsOK', BudgetOK', used'["restores"] >= used["restores"],
           UNCHANGED <<task, lock>>,
           system' \in BOOLEAN /\ dev' \in BOOLEAN,
           pub' \in [Zones -> Engines \cup {None}],
           toggle' \in [pc : {"idle", "abort", "net"}, seen : SUBSET Zones, fleet : SUBSET Zones, old : SUBSET Logs],
           sync' \in [pc : {"idle", "create", "publish", "remove", "close", "pop"},
                 zones : SUBSET Zones, zone : Zones \cup {None}, engine : Engines \cup {None}],
           reload' \in [pc : {"idle", "abort", "open"}, todo : SUBSET (Zones \X Engines)],
           link' \in Files /\ closed' \in BOOLEAN,
           file' = file,
           home' \in [Rooms -> Zones \cup {None}]
    PROVE  TypeInv'
<1>1. file' \in Files /\ file' <= used'["restores"]
  BY SchedulerAssumption DEF TypeInv, TypeOK, Files, BudgetOK, Kinds
<1>2. TypeOK'
  BY <1>1 DEF TypeInv, TypeOK, RowsOK, BudgetOK, Files, Cap, Kinds, EngineRecords, TaskRecords, LogRecords
<1> QED
  BY <1>1, <1>2 DEF TypeInv

(* What a step of the tickers has to show *)
LEMMA TaskFrame ==
    ASSUME TypeInv, RowsOK', BudgetOK', used'["restores"] >= used["restores"],
           UNCHANGED <<flags, pub, control, conn, file, home>>,
           task' \in [Tickers -> TaskRecords],
           lock' \in [Engines -> Tickers \cup {None}],
           \A e \in Engines, t \in Tickers : lock'[e] = t <=> LockHeld(e, t)',
           \A t \in Tickers : task'[t].pc # "idle" => task'[t].engine \in Engines
    PROVE  TypeInv'
<1>1. file' \in Files /\ file' <= used'["restores"]
  BY SchedulerAssumption DEF TypeInv, TypeOK, Files, BudgetOK, Kinds
<1>2. TypeOK'
  BY <1>1 DEF TypeInv, TypeOK, RowsOK, BudgetOK, LockHeld, Files, Cap, Kinds, EngineRecords, TaskRecords,
     LogRecords, flags, control, conn
<1> QED
  BY <1>1, <1>2 DEF TypeInv

-----------------------------------------------------------------------------
(* Steps *)

(* A coroutine that goes on stays a coroutine. *)
LEMMA TaskMoves ==
    ASSUME NEW k \in TaskRecords, NEW want \in SUBSET Rooms
    PROVE  LET next == [k EXCEPT !.pc = "own", !.want = want] IN
           next \in TaskRecords /\ next.pc = "own" /\ next.engine = k.engine
BY DEF TaskRecords

(* The start has its types. *)
LEMMA TypeInit == Init => TypeInv
<1> SUFFICES ASSUME Init PROVE TypeInv
  OBVIOUS
<1>1. 0 \in Files /\ \A k \in Kinds : Cap[k] \in Nat
  BY SchedulerAssumption DEF Files, Kinds, Cap
<1>2. used \in [Kinds -> Nat] /\ \A k \in Kinds : used[k] <= Cap[k]
  BY <1>1 DEF Init
<1>3. eng \in [Engines -> EngineRecords] /\ row \in [Logs -> LogRecords] /\ task \in [Tickers -> TaskRecords]
  BY <1>1 DEF Init, EngineRecords, LogRecords, TaskRecords, NoTask
<1>4. \A t \in Tickers : task[t].pc = "idle"
  BY DEF Init, NoTask
<1>5. \A e \in Engines, t \in Tickers : lock[e] # t
  BY SchedulerAssumption DEF Init
<1>6. lock \in [Engines -> Tickers \cup {None}] /\ pub \in [Zones -> Engines \cup {None}]
      /\ home \in [Rooms -> Zones \cup {None}] /\ driven \in [Zones -> BOOLEAN]
  BY SchedulerAssumption DEF Init
<1>7. file <= used["restores"]
  BY DEF Init, Kinds
<1> QED
  BY <1>1, <1>2, <1>3, <1>4, <1>5, <1>6, <1>7 DEF Init, TypeInv, TypeOK, NoToggle, NoSync, NoReload

(* The ticks keep the types: whoever takes a lock found it free, and lets it go
   however the tick ends. *)
LEMMA TypeTask ==
    ASSUME TypeInv, NEW t \in Tickers, TaskStep(t) \/ \E z \in Zones : TickBegin(t, z)
    PROVE  TypeInv'
<1> USE DEF flags, fleet, control, conn, store
<1> DEFINE e == task[t].engine
<1>s. /\ UNCHANGED used => BudgetOK' /\ used'["restores"] >= used["restores"]
      /\ UNCHANGED <<row, driven, eng>> => RowsOK'
  BY StillTyped
<1>t. task \in [Tickers -> TaskRecords] /\ lock \in [Engines -> Tickers \cup {None}]
      /\ (\A x \in Engines, y \in Tickers : lock[x] = y <=> LockHeld(x, y))
      /\ \A y \in Tickers : task[y].pc # "idle" => task[y].engine \in Engines
  BY DEF TypeInv, TypeOK, LockHeld
<1>n. NoTask \in TaskRecords /\ NoTask.pc = "idle"
  BY SchedulerAssumption DEF NoTask, TaskRecords, Files
<1>0. ASSUME RowsOK', BudgetOK', used'["restores"] >= used["restores"],
             UNCHANGED <<flags, pub, control, conn, file, home>>,
             NEW k \in TaskRecords, task' = [task EXCEPT ![t] = k],
             k.pc # "idle" => k.engine \in Engines,
             lock' \in [Engines -> Tickers \cup {None}],
             \A x \in Engines : lock'[x] = t <=> k.engine = x /\ k.pc \in {"own", "cross", "insert", "join"},
             \A x \in Engines : lock'[x] = lock[x] \/ {lock[x], lock'[x]} = {t, None}
      PROVE  TypeInv'
  <2>1. task' \in [Tickers -> TaskRecords] /\ \A y \in Tickers : task'[y] = IF y = t THEN k ELSE task[y]
    BY <1>0, <1>t
  <2>2. ASSUME NEW x \in Engines, NEW y \in Tickers PROVE lock'[x] = y <=> LockHeld(x, y)'
    <3>1. CASE y = t
      BY <1>0, <2>1, <3>1 DEF LockHeld
    <3>2. CASE y # t
      <4>1. lock'[x] = y <=> lock[x] = y
        BY <1>0, <3>2, SchedulerAssumption
      <4>2. LockHeld(x, y)' <=> LockHeld(x, y)
        BY <2>1, <3>2 DEF LockHeld
      <4> QED
        BY <1>t, <4>1, <4>2
    <3> QED
      BY <3>1, <3>2
  <2>3. \A y \in Tickers : task'[y].pc # "idle" => task'[y].engine \in Engines
    BY <1>0, <1>t, <2>1
  <2> QED
    BY <1>0, <2>1, <2>2, <2>3, TaskFrame
<1>1. ASSUME NEW z \in Zones, TickBegin(t, z) PROVE TypeInv'
  <2> DEFINE k == [NoTask EXCEPT !.pc = "wait", !.engine = pub[z], !.file = link]
  <2>1. k \in TaskRecords /\ k.pc = "wait" /\ k.engine \in Engines
    BY <1>1, TypeParts, ZenonT(60) DEF TickBegin, NoTask, TaskRecords
  <2>2. task' = [task EXCEPT ![t] = k] /\ task[t].pc = "idle" /\ UNCHANGED lock
    BY <1>1, Zenon DEF TickBegin
  <2>3. \A x \in Engines : lock'[x] # t
    BY <1>t, <2>2 DEF LockHeld
  <2>4. RowsOK' /\ BudgetOK' /\ used'["restores"] >= used["restores"]
    BY <1>1, <1>s, Zenon DEF TickBegin
  <2>5. UNCHANGED <<flags, pub, control, conn, file, home>>
    BY <1>1, Zenon DEF TickBegin
  <2> HIDE DEF k
  <2> QED
    BY <1>0, <1>t, <2>1, <2>2, <2>3, <2>4, <2>5
<1>2. CASE TickRunning(t)
  <2>1. RowsOK' /\ BudgetOK' /\ used'["restores"] >= used["restores"]
    <3>1. ASSUME NEW logged \in BOOLEAN, NEW parked \in BOOLEAN, EndCycle(e, task[t].file, logged, parked)
          PROVE  RowsOK' /\ BudgetOK' /\ used'["restores"] >= used["restores"]
      BY <3>1, EndTyped, SMTT(60)
    <3>2. ASSUME NEW want \in SUBSET RoomsOf(eng[e].zone),
                 row' = IF task[t].file = file /\ row[eng[e].log].st # "unused"
                        THEN [row EXCEPT ![eng[e].log].rooms = @ \cup want] ELSE row,
                 driven' = [driven EXCEPT ![eng[e].zone] = @ \/ ~dev], UNCHANGED <<eng, used>>
          PROVE  RowsOK' /\ BudgetOK' /\ used'["restores"] >= used["restores"]
      <4>1. ASSUME NEW l \in Logs PROVE [row[l] EXCEPT !.rooms = @ \cup want] \in LogRecords
        <5>1. want \subseteq Rooms
          BY DEF RoomsOf
        <5>2. row[l] \in LogRecords
          BY DEF TypeInv, TypeOK
        <5> QED
          BY <5>1, <5>2 DEF LogRecords
      <4>2. row' \in [Logs -> LogRecords]
        BY <3>2, <4>1, ZenonT(60) DEF TypeInv, TypeOK
      <4>3. driven' \in [Zones -> BOOLEAN] /\ eng' \in [Engines -> EngineRecords]
        BY <3>2 DEF TypeInv, TypeOK
      <4> QED
        BY <1>s, <3>2, <4>2, <4>3, Zenon DEF RowsOK
    <3> QED
      BY <1>2, <3>1, <3>2, Zenon DEF TickRunning
  <2>2. task' = [task EXCEPT ![t] = NoTask] /\ task[t].pc = "wait" /\ UNCHANGED <<lock, flags, pub, control, conn, file, home>>
    BY <1>2, Zenon DEF TickRunning, Finish
  <2>3. \A x \in Engines : lock'[x] # t
    BY <1>t, <2>2 DEF LockHeld
  <2> QED
    BY <1>0, <1>n, <1>t, <2>1, <2>2, <2>3
<1>3. CASE TickIdle(t)
  <2>1. RowsOK' /\ BudgetOK' /\ used'["restores"] >= used["restores"]
        /\ UNCHANGED <<flags, pub, control, conn, file, home>> /\ task[t].pc = "wait" /\ lock[e] = None
    BY <1>3, <1>s DEF TickIdle, Free
  <2>2. CASE Finish(t) /\ UNCHANGED lock
    <3>1. \A x \in Engines : lock'[x] # t
      BY <1>t, <2>1, <2>2 DEF LockHeld
    <3> QED
      BY <1>0, <1>n, <1>t, <2>1, <2>2, <3>1 DEF Finish
  <2>3. ASSUME NEW want \in SUBSET RoomsOf(eng[e].zone), Continue(t, "own", want), lock' = [lock EXCEPT ![e] = t]
        PROVE  TypeInv'
    <3> DEFINE k == [task[t] EXCEPT !.pc = "own", !.want = want]
    <3>1. k \in TaskRecords /\ k.pc = "own" /\ k.engine = e /\ e \in Engines
      <4>1. want \in SUBSET Rooms
        BY DEF RoomsOf
      <4>2. task[t] \in TaskRecords /\ e \in Engines
        BY <1>t, <2>1
      <4> QED
        BY <4>1, <4>2, TaskMoves, Zenon
    <3>2. task' = [task EXCEPT ![t] = k]
      BY <2>3 DEF Continue
    <3>3. lock' \in [Engines -> Tickers \cup {None}] /\ \A x \in Engines : lock'[x] = IF x = e THEN t ELSE lock[x]
      BY <1>t, <2>3
    <3>4. \A x \in Engines : lock[x] # t
      BY <1>t, <2>1 DEF LockHeld
    <3> HIDE DEF k, e
    <3> QED
      BY <1>0, <2>1, <3>1, <3>2, <3>3, <3>4, ZenonT(60)
  <2> QED
    BY <1>3, <2>2, <2>3 DEF TickIdle
<1>4. ASSUME NEW where \in {"cross", "insert", "join"}, Continue(t, where, task[t].want), UNCHANGED lock,
             task[t].pc \in {"own", "cross", "insert"}, RowsOK', BudgetOK', used'["restores"] >= used["restores"],
             UNCHANGED <<flags, pub, control, conn, file, home>>
      PROVE  TypeInv'
  <2> DEFINE k == [task[t] EXCEPT !.pc = where]
  <2>1. k \in TaskRecords /\ k.pc = where /\ k.engine = e /\ e \in Engines
    BY <1>4, <1>t DEF TaskRecords
  <2>2. task' = [task EXCEPT ![t] = k]
    BY <1>4, <1>t DEF Continue, TaskRecords
  <2>3. \A x \in Engines : lock[x] = t <=> x = e
    BY <1>4, <1>t DEF LockHeld
  <2> HIDE DEF k, e
  <2> QED
    BY <1>0, <1>4, <1>t, <2>1, <2>2, <2>3
<1>5. CASE CloseOwn(t)
  <2>1. row' \in [Logs -> LogRecords]
    BY <1>5, CloseTyped DEF CloseOwn
  <2>2. RowsOK'
    BY <1>5, <2>1 DEF CloseOwn, RowsOK, TypeInv, TypeOK
  <2> QED
    BY <1>4, <1>5, <1>s, <2>2 DEF CloseOwn
<1>6. CASE CloseCross(t)
  <2>1. row' \in [Logs -> LogRecords]
    BY <1>6, CloseTyped DEF CloseCross
  <2>2. RowsOK'
    BY <1>6, <2>1 DEF CloseCross, RowsOK, TypeInv, TypeOK
  <2> QED
    BY <1>4, <1>6, <1>s, <2>2 DEF CloseCross
<1>7. CASE InsertLog(t)
  <2>1. FreshLog \in Logs /\ e \in Engines
    BY <1>7, <1>t, FreshIsLog DEF InsertLog
  <2>2. row' \in [Logs -> LogRecords]
    <3>1. [zone |-> eng[e].zone, rooms |-> {}, st |-> "open"] \in LogRecords
      BY <2>1 DEF LogRecords, EngineRecords, TypeInv, TypeOK
    <3>2. [row[FreshLog] EXCEPT !.st = "over"] \in LogRecords
      BY <2>1 DEF LogRecords, TypeInv, TypeOK
    <3> HIDE DEF e
    <3>3. row' \in {[row EXCEPT ![FreshLog] = [zone |-> eng[e].zone, rooms |-> {}, st |-> "open"]],
                    [row EXCEPT ![FreshLog].st = "over"]}
      BY <1>7 DEF InsertLog, e
    <3>4. row \in [Logs -> LogRecords]
      BY DEF TypeInv, TypeOK
    <3> QED
      BY <2>1, <3>1, <3>2, <3>3, <3>4
  <2>3. eng' \in [Engines -> EngineRecords]
    <3>1. [eng[e] EXCEPT !.running = TRUE, !.log = FreshLog, !.file = task[t].file] \in EngineRecords
      <4>1. task[t].file \in Files
        BY TypeParts DEF TaskRecords
      <4>2. eng[e] \in [zone : Zones \cup {None}, running : BOOLEAN, log : Logs \cup {None}, file : Files]
        BY <2>1, TypeParts
      <4> QED
        BY <2>1, <4>1, <4>2 DEF EngineRecords
    <3>2. eng' = [eng EXCEPT ![e] = [eng[e] EXCEPT !.running = TRUE, !.log = FreshLog, !.file = task[t].file]]
      BY <1>7, <2>1, TypeParts DEF InsertLog
    <3> HIDE DEF e
    <3> QED
      BY <3>1, <3>2 DEF TypeInv, TypeOK
  <2>4. RowsOK'
    BY <1>7, <2>2, <2>3 DEF InsertLog, RowsOK, TypeInv, TypeOK
  <2> QED
    BY <1>4, <1>7, <1>s, <2>4 DEF InsertLog
<1>8. ASSUME NEW k \in TaskRecords, task' = [task EXCEPT ![t] = k], k.pc \in {"idle", "wait"},
             k.pc # "idle" => k.engine \in Engines,
             lock' \in {lock, [lock EXCEPT ![e] = None]},
             LockHeld(e, t) => lock' = [lock EXCEPT ![e] = None], task[t].pc # "idle",
             lock' # lock => lock[e] = t,
             RowsOK', BudgetOK', used'["restores"] >= used["restores"],
             UNCHANGED <<flags, pub, control, conn, file, home>>
      PROVE  TypeInv'
  <2>1. e \in Engines /\ lock' \in [Engines -> Tickers \cup {None}]
    BY <1>8, <1>t
  <2>2. ASSUME NEW x \in Engines PROVE lock'[x] # t /\ (lock'[x] = lock[x] \/ (lock[x] = t /\ lock'[x] = None))
    BY <1>8, <1>t, <2>1, SchedulerAssumption DEF LockHeld
  <2> HIDE DEF e
  <2> QED
    BY <1>0, <1>8, <2>1, <2>2
<1>9. CASE JoinRooms(t)
  <2>1. task[t].pc = "join" /\ lock' = [lock EXCEPT ![e] = None] /\ task' = [task EXCEPT ![t] = NoTask]
    BY <1>9 DEF JoinRooms, Finish
  <2>2. lock[e] = t
    BY <1>t, <2>1 DEF LockHeld
  <2>3. row' \in [Logs -> LogRecords]
    <3>1. ASSUME NEW l \in Logs PROVE [row[l] EXCEPT !.rooms = @ \cup task[t].want] \in LogRecords
      BY <1>t, TypeParts, SMTT(60) DEF LogRecords, TaskRecords
    <3> QED
      BY <1>9, <3>1 DEF JoinRooms, TypeInv, TypeOK
  <2>4. RowsOK'
    BY <1>9, <2>3 DEF JoinRooms, RowsOK, TypeInv, TypeOK
  <2>5. BudgetOK' /\ used'["restores"] >= used["restores"] /\ UNCHANGED <<flags, pub, control, conn, file, home>>
    BY <1>9, <1>s DEF JoinRooms
  <2> QED
    BY <1>8, <1>n, <2>1, <2>2, <2>4, <2>5
<1>10. CASE TickRaises(t)
  <2> DEFINE w == [NoTask EXCEPT !.pc = "wait", !.engine = e, !.file = link]
  <2>1. task[t].pc # "idle" /\ e \in Engines
    BY <1>10, <1>t DEF TickRaises
  <2>2. w \in TaskRecords /\ w.pc = "wait" /\ w.engine \in Engines
    BY <2>1 DEF NoTask, TaskRecords, TypeInv, TypeOK
  <2>3. PICK k \in {NoTask, w} : task' = [task EXCEPT ![t] = k]
    BY <1>10 DEF TickRaises
  <2>4. lock' = IF lock[e] = t THEN [lock EXCEPT ![e] = None] ELSE lock
    BY <1>10 DEF TickRaises
  <2>5. BudgetOK' /\ used'["restores"] >= used["restores"]
    BY <1>10, MishapTyped DEF TickRaises
  <2>6. RowsOK' /\ UNCHANGED <<flags, pub, control, conn, file, home>>
    BY <1>10, <1>s DEF TickRaises
  <2>7. LockHeld(e, t) => lock[e] = t
    BY <1>t, <2>1
  <2> HIDE DEF w, e
  <2> QED
    BY <1>8, <1>n, <2>1, <2>2, <2>3, <2>4, <2>5, <2>6, <2>7 DEF e
<1> QED
  BY <1>1, <1>2, <1>3, <1>5, <1>6, <1>7, <1>9, <1>10 DEF TaskStep

(* The toggles keep them, *)
LEMMA TypeToggle == ASSUME TypeInv, ToggleStep PROVE TypeInv'
<1> USE DEF flags, fleet, control, conn, store
<1>s. /\ UNCHANGED used => BudgetOK' /\ used'["restores"] >= used["restores"]
      /\ UNCHANGED <<row, driven, eng>> => RowsOK'
  BY StillTyped
<1>t. toggle \in [pc : {"idle", "abort", "net"}, seen : SUBSET Zones, fleet : SUBSET Zones, old : SUBSET Logs]
  BY DEF TypeInv, TypeOK
<1>0. ASSUME RowsOK', BudgetOK', used'["restores"] >= used["restores"],
             toggle' \in [pc : {"idle", "abort", "net"}, seen : SUBSET Zones, fleet : SUBSET Zones, old : SUBSET Logs],
             UNCHANGED <<flags, pub, lock, task, sync, reload, conn, file, home>>
      PROVE  TypeInv'
  BY <1>0, TypeFrame DEF TypeInv, TypeOK
<1>1. ASSUME NEW z \in Zones, ToggleAborts(z) PROVE TypeInv'
  <2>1. toggle' = [toggle EXCEPT !.seen = @ \cup {z}]
    BY <1>1 DEF ToggleAborts, Turn
  <2>2. RowsOK' /\ BudgetOK' /\ used'["restores"] >= used["restores"]
    BY <1>1, AbortTyped DEF ToggleAborts
  <2> QED
    BY <1>0, <1>1, <1>t, <2>1, <2>2 DEF ToggleAborts
<1>2. ASSUME NEW z \in Zones, ToggleCloses(z) PROVE TypeInv'
  <2>1. toggle' = [toggle EXCEPT !.seen = @ \cup {z}]
    BY <1>2 DEF ToggleCloses, Turn
  <2>2. row' \in [Logs -> LogRecords]
    BY <1>2, CloseTyped DEF ToggleCloses, TypeInv, TypeOK
  <2>3. BudgetOK' /\ used'["restores"] >= used["restores"]
    BY <1>2, <1>s, SpendTyped DEF ToggleCloses, Kinds
  <2>4. RowsOK'
    BY <1>2, <2>2 DEF ToggleCloses, RowsOK, TypeInv, TypeOK
  <2> QED
    BY <1>0, <1>2, <1>t, <2>1, <2>3, <2>4 DEF ToggleCloses
<1>3. CASE ToggleAdvances \/ ToggleBreaks
  <2>1. UNCHANGED <<flags, fleet, task, sync, reload, conn, store, driven, used>>
    BY <1>3 DEF ToggleAdvances, ToggleBreaks
  <2>2. toggle' \in {[toggle EXCEPT !.pc = "net", !.seen = {}], NoToggle}
    BY <1>3 DEF ToggleAdvances, ToggleBreaks
  <2>3. toggle' \in [pc : {"idle", "abort", "net"}, seen : SUBSET Zones, fleet : SUBSET Zones, old : SUBSET Logs]
    <3> DEFINE Toggles == [pc : {"idle", "abort", "net"}, seen : SUBSET Zones, fleet : SUBSET Zones, old : SUBSET Logs]
    <3>1. [toggle EXCEPT !.pc = "net", !.seen = {}] \in Toggles
      BY <1>t
    <3>2. NoToggle \in Toggles
      BY DEF NoToggle
    <3> QED
      BY <2>2, <3>1, <3>2
  <2> QED
    BY <1>0, <1>s, <2>1, <2>3
<1> QED
  BY <1>1, <1>2, <1>3 DEF ToggleStep

(* the synchronisation with the rooms, *)
LEMMA TypeSync == ASSUME TypeInv, SyncStep \/ SyncBegins PROVE TypeInv'
<1> USE DEF flags, fleet, control, conn, store
<1> DEFINE Syncs == [pc : {"idle", "create", "publish", "remove", "close", "pop"},
                     zones : SUBSET Zones, zone : Zones \cup {None}, engine : Engines \cup {None}]
<1>s. /\ UNCHANGED used => BudgetOK' /\ used'["restores"] >= used["restores"]
      /\ UNCHANGED <<row, driven, eng>> => RowsOK'
  BY StillTyped
<1>t. sync \in Syncs /\ NoSync \in Syncs /\ pub \in [Zones -> Engines \cup {None}]
  BY DEF TypeInv, TypeOK, NoSync
<1>0. ASSUME RowsOK', BudgetOK', used'["restores"] >= used["restores"],
             sync' \in Syncs, pub' \in [Zones -> Engines \cup {None}],
             UNCHANGED <<flags, lock, task, toggle, reload, conn, file, home>>
      PROVE  TypeInv'
  BY <1>0, TypeFrame DEF TypeInv, TypeOK
<1>1. CASE SyncBegins
  <2>1. {home[r] : r \in Rooms} \ {None} \subseteq Zones
    BY DEF TypeInv, TypeOK
  <2>2. sync' \in Syncs
    BY <1>1, <2>1, Zenon DEF SyncBegins, NoSync
  <2> QED
    BY <1>0, <1>1, <1>s, <1>t, <2>2, Zenon DEF SyncBegins
<1>2. ASSUME NEW z \in Zones, NEW e \in Engines, Build(z, e) PROVE TypeInv'
  <2>1. sync' \in Syncs
    BY <1>2, <1>t DEF Build
  <2>2. ColdEngine(z) \in EngineRecords
    BY DEF ColdEngine, EngineRecords, TypeInv, TypeOK
  <2>3. \A S \in SUBSET Logs : Over(S) \in [Logs -> LogRecords]
    <3>1. \A l \in Logs : row[l] \in LogRecords /\ [row[l] EXCEPT !.st = "over"] \in LogRecords
      BY TypeParts DEF LogRecords
    <3> QED
      BY <3>1 DEF Over
  <2>4. OpenLogs(z) \in SUBSET Logs
    BY DEF OpenLogs
  <2>5. eng \in [Engines -> EngineRecords] /\ row \in [Logs -> LogRecords] /\ driven \in [Zones -> BOOLEAN]
    BY DEF TypeInv, TypeOK
  <2>6. ASSUME Resume(z, e) PROVE eng' \in [Engines -> EngineRecords] /\ row' \in [Logs -> LogRecords]
    <3>1. CASE OpenLogs(z) = {}
      BY <2>2, <2>5, <2>6, <3>1 DEF Resume
    <3>2. CASE OpenLogs(z) # {}
      <4> DEFINE last == CHOOSE l \in OpenLogs(z) : \A m \in OpenLogs(z) : m <= l
                 warm == [zone |-> z, running |-> TRUE, log |-> last, file |-> link]
      <4>1. last \in Logs
        BY <2>4, <3>2, LastExists
      <4> HIDE DEF last
      <4>2. warm \in EngineRecords
        BY <4>1, TypeParts DEF EngineRecords
      <4>3. eng' = [eng EXCEPT ![e] = warm] /\ row' = Over(OpenLogs(z) \ {last})
        BY <2>6, <3>2 DEF Resume, last
      <4> HIDE DEF warm
      <4> QED
        BY <2>3, <2>4, <2>5, <4>2, <4>3
    <3> QED
      BY <3>1, <3>2
  <2>7. ASSUME NEW parked \in BOOLEAN, Discard(z, e, parked)
        PROVE  /\ eng' \in [Engines -> EngineRecords] /\ row' \in [Logs -> LogRecords]
               /\ driven' \in [Zones -> BOOLEAN]
               /\ BudgetOK' /\ used'["restores"] >= used["restores"]
    <3>1. BudgetOK' /\ used'["restores"] >= used["restores"]
      BY <1>s, <2>7, SpendTyped DEF Discard, Mishap, Kinds
    <3> QED
      BY <2>2, <2>3, <2>4, <2>5, <2>7, <3>1 DEF Discard
  <2>8. BudgetOK' /\ used'["restores"] >= used["restores"]
    BY <1>2, <1>s, <2>7 DEF Build
  <2>9. RowsOK'
    BY <1>2, <2>5, <2>6, <2>7 DEF Build, RowsOK
  <2> QED
    BY <1>0, <1>2, <1>t, <2>1, <2>8, <2>9 DEF Build
<1>3. CASE Publish
  BY <1>0, <1>3, <1>s, <1>t DEF Publish
<1>4. ASSUME NEW z \in Zones, RemoveAborts(z) PROVE TypeInv'
  <2>1. RowsOK' /\ BudgetOK' /\ used'["restores"] >= used["restores"]
    BY <1>4, AbortTyped DEF RemoveAborts
  <2> QED
    BY <1>0, <1>4, <1>t, <2>1 DEF RemoveAborts
<1>5. CASE RemoveCloses
  <2>1. row' \in [Logs -> LogRecords]
    BY <1>5, CloseTyped DEF RemoveCloses, TypeInv, TypeOK
  <2>2. BudgetOK' /\ used'["restores"] >= used["restores"]
    BY <1>5, <1>s, SpendTyped DEF RemoveCloses, Kinds
  <2>3. RowsOK'
    BY <1>5, <2>1 DEF RemoveCloses, RowsOK, TypeInv, TypeOK
  <2> QED
    BY <1>0, <1>5, <1>t, <2>2, <2>3 DEF RemoveCloses
<1>6. CASE RemovePops
  BY <1>0, <1>6, <1>s, <1>t DEF RemovePops
<1>7. CASE SyncEnds \/ SyncRaises
  BY <1>0, <1>7, <1>s, <1>t DEF SyncEnds, SyncRaises
<1> QED
  BY <1>1, <1>2, <1>3, <1>4, <1>5, <1>6, <1>7 DEF SyncStep

(* the restore of a backup, *)
LEMMA TypeReload == ASSUME TypeInv, ReloadStep PROVE TypeInv'
<1> USE DEF flags, fleet, control, conn, store
<1> DEFINE Reloads == [pc : {"idle", "abort", "open"}, todo : SUBSET (Zones \X Engines)]
<1>s. /\ UNCHANGED used => BudgetOK' /\ used'["restores"] >= used["restores"]
      /\ UNCHANGED <<row, driven, eng>> => RowsOK'
  BY StillTyped
<1>t. reload \in Reloads /\ pub \in [Zones -> Engines \cup {None}] /\ link \in Files /\ file \in Files
      /\ closed \in BOOLEAN /\ system \in BOOLEAN /\ dev \in BOOLEAN
  BY DEF TypeInv, TypeOK
<1>0. ASSUME RowsOK', BudgetOK', used'["restores"] >= used["restores"],
             reload' \in Reloads, pub' \in [Zones -> Engines \cup {None}], link' \in Files /\ closed' \in BOOLEAN,
             system' \in BOOLEAN /\ dev' \in BOOLEAN,
             UNCHANGED <<lock, task, toggle, sync, file, home>>
      PROVE  TypeInv'
  BY <1>0, TypeFrame DEF TypeInv, TypeOK
<1>1. ASSUME NEW z \in Zones, NEW e \in Engines, ReloadAborts(z, e) PROVE TypeInv'
  <2>1. RowsOK' /\ BudgetOK' /\ used'["restores"] >= used["restores"]
    BY <1>1, AbortTyped DEF ReloadAborts
  <2>2. CASE ReloadClears
    BY <1>0, <1>1, <1>t, <2>1, <2>2 DEF ReloadAborts, ReloadClears, NoReload
  <2>3. CASE ~ReloadClears
    BY <1>0, <1>1, <1>t, <2>1, <2>3 DEF ReloadAborts
  <2> QED
    BY <2>2, <2>3
<1>3. CASE ReloadOpens
  BY <1>0, <1>3, <1>s, <1>t, SchedulerAssumption DEF ReloadOpens, NoReload
<1> QED
  BY <1>1, <1>3 DEF ReloadStep

(* and what comes from outside. *)
LEMMA TypeOutside == ASSUME TypeInv, Outside PROVE TypeInv'
<1> USE DEF flags, fleet, control, conn, store
<1>s. /\ UNCHANGED used => BudgetOK' /\ used'["restores"] >= used["restores"]
      /\ UNCHANGED <<row, driven, eng>> => RowsOK'
  BY StillTyped
<1>1. ASSUME NEW sys \in BOOLEAN, NEW develop \in DevModes, Toggle(sys, develop) PROVE TypeInv'
  <2>1. toggle' \in [pc : {"idle", "abort", "net"}, seen : SUBSET Zones, fleet : SUBSET Zones, old : SUBSET Logs]
    BY <1>1 DEF Toggle, NoToggle, Published
  <2>2. BudgetOK' /\ used'["restores"] >= used["restores"]
    BY <1>1, SpendTyped DEF Toggle, Kinds
  <2>3. system' \in BOOLEAN /\ dev' \in BOOLEAN
    BY <1>1, SchedulerAssumption DEF Toggle
  <2>4. RowsOK' /\ UNCHANGED <<task, lock, pub, sync, reload, link, closed, file, home>>
    BY <1>1, <1>s DEF Toggle
  <2> QED
    BY <2>1, <2>2, <2>3, <2>4, TypeFrame DEF TypeInv, TypeOK
<1>2. CASE SwapFile
  <2>1. BudgetOK' /\ used'["restores"] = used["restores"] + 1 /\ used["restores"] < MaxRestores
    <3>1. BudgetOK' /\ Spend("restores")
      BY <1>2, SpendTyped DEF SwapFile, Kinds
    <3>2. Cap["restores"] = MaxRestores /\ used \in [Kinds -> Nat] /\ "restores" \in Kinds
      BY DEF Cap, Kinds, TypeInv, TypeOK
    <3> QED
      BY <3>1, <3>2 DEF Spend
  <2>2. file' \in Files /\ file' <= used'["restores"]
    <3>1. file' = file + 1 /\ file \in Nat /\ file <= used["restores"]
      BY <1>2 DEF SwapFile, TypeInv, TypeOK, Files
    <3>2. MaxRestores \in Nat /\ used["restores"] \in Nat
      BY SchedulerAssumption DEF TypeInv, TypeOK, Kinds
    <3> QED
      BY <2>1, <3>1, <3>2 DEF Files
  <2>3. reload' \in [pc : {"idle", "abort", "open"}, todo : SUBSET (Zones \X Engines)]
    BY <1>2, TypeParts DEF SwapFile, Published
  <2>4. row' \in [Logs -> LogRecords]
    <3>1. ASSUME NEW l \in Logs, NEW st \in {"unused", "open", "over"}
          PROVE  [row[l] EXCEPT !.st = st] \in LogRecords /\ row[l].st \in {"unused", "open", "over"}
      BY TypeParts DEF LogRecords
    <3>2. PICK kept \in {{}} \cup {{l} : l \in Logs \ Unused} :
             row' = [l \in Logs |-> [row[l] EXCEPT !.st =
                       IF l \in Unused THEN @ ELSE IF l \in kept THEN "open" ELSE "over"]]
      BY <1>2 DEF SwapFile
    <3>3. ASSUME NEW l \in Logs
          PROVE  [row[l] EXCEPT !.st = IF l \in Unused THEN @ ELSE IF l \in kept THEN "open" ELSE "over"]
                    \in LogRecords
      BY <3>1
    <3> QED
      BY <3>2, <3>3
  <2>5. UNCHANGED <<flags, fleet, task, toggle, sync, conn, home, driven>>
    BY <1>2 DEF SwapFile
  <2>6. TypeOK'
    BY <2>1, <2>2, <2>3, <2>4, <2>5 DEF BudgetOK, TypeInv, TypeOK, Kinds, Cap, Files, LogRecords, EngineRecords, TaskRecords
  <2> QED
    BY <2>2, <2>5, <2>6 DEF TypeInv
<1>3. CASE Crash
  <2>1. BudgetOK' /\ used'["restores"] >= used["restores"]
    BY <1>3, SpendTyped DEF Crash, Kinds
  <2>2. 0 \in Files
    BY SchedulerAssumption DEF Files
  <2>3. /\ pub' \in [Zones -> Engines \cup {None}] /\ eng' \in [Engines -> EngineRecords]
        /\ lock' \in [Engines -> Tickers \cup {None}] /\ task' \in [Tickers -> TaskRecords]
        /\ \A t \in Tickers : task'[t].pc = "idle"
        /\ \A e \in Engines, t \in Tickers : lock'[e] # t
    BY <1>3, <2>2, SchedulerAssumption DEF Crash, EngineRecords, TaskRecords, NoTask
  <2>4. /\ toggle' = NoToggle /\ sync' = NoSync /\ reload' = NoReload /\ link' = file /\ closed' = FALSE
        /\ UNCHANGED <<flags, store, driven>>
    BY <1>3 DEF Crash
  <2>5. file' <= used'["restores"]
    <3>1. file \in Nat /\ used["restores"] \in Nat /\ used'["restores"] \in Nat /\ file <= used["restores"]
      BY <2>1 DEF TypeInv, TypeOK, Files, Kinds, BudgetOK
    <3> QED
      BY <2>1, <2>4, <3>1
  <2>6. TypeOK'
    <3>1. /\ toggle' \in [pc : {"idle", "abort", "net"}, seen : SUBSET Zones, fleet : SUBSET Zones, old : SUBSET Logs]
          /\ sync' \in [pc : {"idle", "create", "publish", "remove", "close", "pop"},
                        zones : SUBSET Zones, zone : Zones \cup {None}, engine : Engines \cup {None}]
          /\ reload' \in [pc : {"idle", "abort", "open"}, todo : SUBSET (Zones \X Engines)]
      BY <2>4 DEF NoToggle, NoSync, NoReload
    <3>2. /\ system' \in BOOLEAN /\ dev' \in BOOLEAN /\ link' \in Files /\ closed' \in BOOLEAN /\ file' \in Files
          /\ home' \in [Rooms -> Zones \cup {None}] /\ driven' \in [Zones -> BOOLEAN]
      BY <2>4 DEF TypeInv, TypeOK, Files
    <3>3. row' \in [Logs -> LogRecords]
      BY <2>4 DEF TypeInv, TypeOK, LogRecords
    <3>4. used' \in [Kinds -> Nat] /\ \A k \in Kinds : used'[k] <= Cap[k]
      BY <2>1 DEF BudgetOK, Kinds, Cap
    <3> QED
      BY <2>3, <3>1, <3>2, <3>3, <3>4
      DEF TypeOK, EngineRecords, TaskRecords, LogRecords, Files, Kinds, Cap
  <2> QED
    BY <2>3, <2>5, <2>6 DEF TypeInv
<1>4. ASSUME NEW r \in Rooms, NEW z \in Zones \cup {None}, MoveRoom(r, z) PROVE TypeInv'
  <2>1. row' \in [Logs -> LogRecords]
    <3>1. \A l \in Logs : row[l] \in LogRecords /\ [row[l] EXCEPT !.rooms = @ \ {r}] \in LogRecords
      BY TypeParts, ZenonT(60) DEF LogRecords
    <3> QED
      BY <1>4, <3>1 DEF MoveRoom, TypeInv, TypeOK
  <2>2. BudgetOK' /\ used'["restores"] >= used["restores"]
    BY <1>4, SpendTyped DEF MoveRoom, Kinds
  <2>3. RowsOK'
    BY <1>4, <2>1 DEF MoveRoom, RowsOK, TypeInv, TypeOK
  <2>4. home' \in [Rooms -> Zones \cup {None}]
    BY <1>4 DEF MoveRoom, TypeInv, TypeOK
  <2>5. UNCHANGED <<flags, fleet, task, control, conn, file>>
    BY <1>4 DEF MoveRoom
  <2> QED
    BY <2>2, <2>3, <2>4, <2>5, TypeFrame DEF TypeInv, TypeOK
<1> QED
  BY <1>1, <1>2, <1>3, <1>4 DEF Outside

(* So every step does. *)
LEMMA TypeNext == TypeInv /\ [Next]_vars => TypeInv'
<1> SUFFICES ASSUME TypeInv, [Next]_vars PROVE TypeInv'
  OBVIOUS
<1>1. CASE UNCHANGED vars
  <2>1. RowsOK' /\ BudgetOK' /\ used'["restores"] >= used["restores"]
    BY <1>1, StillTyped DEF vars, fleet, store
  <2> QED
    BY <1>1, <2>1, TypeFrame DEF vars, flags, fleet, control, conn, store, TypeInv, TypeOK
<1> QED
  BY <1>1, TypeTask, TypeToggle, TypeSync, TypeReload, TypeOutside DEF Next

(* Every state of the scheduler is typed; its locks exclude: whoever is in
   the middle of a start holds the lock of its engine, and is the only one
   who does, whatever toggles, synchronisations, restores and crashes come
   between. *)
THEOREM SchedulerTypeCorrect == Spec => []TypeOK
<1>1. TypeInv => TypeOK
  BY DEF TypeInv
<1> QED
  BY <1>1, TypeInit, TypeNext, PTL DEF Spec

-----------------------------------------------------------------------------
(* Without restores: the seats of the engines.  An engine taken out of the  *)
(* fleet may still be ticked, but its zone has no room, so it takes no      *)
(* lock and starts nothing: as long as no zone gets rooms back while such a *)
(* tick is in flight.                                                       *)

(* A zone without rooms gets one only when nothing of its former engine is
   left. *)
NoRevival ==
    \A z \in Zones : RoomsOf(z) = {} /\ (\E r \in Rooms : home'[r] = z) =>
        pub[z] = None /\ \A t \in Tickers : task[t].engine # None => eng[task[t].engine].zone # z

Works(t)  == task[t].pc # "idle"
Seated(e) == eng[e].zone \in Zones /\ pub[eng[e].zone] = e
Leaving   == sync.pc \in {"close", "pop"}

(* The one database file, whose connection stays open *)
Still == file = 0 /\ link = 0 /\ closed = FALSE /\ reload = NoReload

(* An engine published for a zone is one of that zone, also just before. *)
Seats ==
    /\ \A z \in Zones : pub[z] # None => eng[pub[z]].zone = z
    /\ sync.pc = "publish" =>
           /\ sync.zone \in sync.zones /\ sync.zone \in Zones /\ pub[sync.zone] = None
           /\ sync.engine \in Engines /\ eng[sync.engine].zone = sync.zone
           /\ \A t \in Tickers : task[t].engine # sync.engine
    /\ Leaving => sync.zone \in Published \ sync.zones
    /\ \A t \in Tickers : Works(t) => eng[task[t].engine].zone \in Zones

(* A zone whose engine goes, or went in the middle of a tick, is empty. *)
Emptied ==
    /\ sync.pc # "idle" => \A z \in Published \ sync.zones : RoomsOf(z) = {}
    /\ \A t \in Tickers : Works(t) /\ ~Seated(task[t].engine) => RoomsOf(eng[task[t].engine].zone) = {}

(* Only engines of the fleet are locked, none of them one that goes; before
   its log is in, a start finds its engine idle, and after that running. *)
Locked ==
    /\ \A e \in Engines : lock[e] # None => Seated(e)
    /\ Leaving => lock[pub[sync.zone]] = None
    /\ \A t \in Tickers : /\ task[t].pc \in {"own", "cross", "insert"} => ~eng[task[t].engine].running
                          /\ task[t].pc = "join" => eng[task[t].engine].running

CoreInv == TypeInv /\ Still /\ Seats /\ Emptied /\ Locked

(* With one file every statement reaches it. *)
LEMMA OneFile ==
    ASSUME MaxRestores = 0, TypeInv
    PROVE  /\ Files = {0} /\ file = 0 /\ link = 0
           /\ \A t \in Tickers : task[t].file = file
           /\ \A e \in Engines : eng[e].file = file
<1>1. Files = {0}
  BY DEF Files
<1>2. file \in Files /\ link \in Files
  BY DEF TypeInv, TypeOK
<1>3. (\A t \in Tickers : task[t].file \in Files) /\ \A e \in Engines : eng[e].file \in Files
  BY TypeParts DEF TaskRecords
<1> QED
  BY <1>1, <1>2, <1>3

(* Nothing is restored, so nothing is reloaded. *)
LEMMA StillNext ==
    ASSUME MaxRestores = 0, TypeInv, Still, [Next]_vars
    PROVE  Still' /\ ~SwapFile /\ ~ReloadStep
<1>1. ~SwapFile
  <2>1. used["restores"] \in Nat /\ Cap["restores"] = 0
    BY DEF TypeInv, TypeOK, Kinds, Cap
  <2> QED
    BY <2>1 DEF SwapFile, Spend
<1>2. ~ReloadStep
  BY DEF Still, NoReload, ReloadStep, ReloadOpens, ReloadAborts
<1>3. TypeInv'
  BY TypeNext
<1>4. file' = 0 /\ link' = 0
  BY <1>3, OneFile DEF TypeInv, TypeOK
<1>5. closed' = FALSE /\ reload' = NoReload
  <2>1. CASE UNCHANGED vars
    BY <2>1 DEF vars, control, conn, Still
  <2>2. ASSUME NEW t \in Tickers, TaskStep(t) \/ \E z \in Zones : TickBegin(t, z)
        PROVE  UNCHANGED <<closed, reload>>
    BY <2>2, Zenon DEF TaskStep, TickBegin, TickRunning, TickIdle, CloseOwn, CloseCross, InsertLog, JoinRooms,
       TickRaises, control, conn
  <2>3. ASSUME ToggleStep \/ SyncBegins \/ SyncStep PROVE UNCHANGED <<closed, reload>>
    <3>1. CASE ToggleStep
      BY <3>1, Zenon DEF ToggleStep, ToggleAdvances, ToggleBreaks, ToggleAborts, ToggleCloses, conn
    <3>2. CASE SyncBegins
      BY <3>2 DEF SyncBegins, conn
    <3>3. CASE SyncStep
      BY <3>3, Zenon DEF SyncStep, Publish, RemoveCloses, RemovePops, SyncEnds, SyncRaises, RemoveAborts, Build, conn
    <3> QED
      BY <2>3, <3>1, <3>2, <3>3
  <2>4. CASE Outside
    <3>1. ASSUME NEW sys \in BOOLEAN, NEW develop \in DevModes, Toggle(sys, develop)
          PROVE  UNCHANGED <<closed, reload>>
      BY <3>1 DEF Toggle, conn
    <3>2. ASSUME NEW r \in Rooms, NEW z \in Zones \cup {None}, MoveRoom(r, z)
          PROVE  UNCHANGED <<closed, reload>>
      BY <3>2 DEF MoveRoom, control, conn
    <3>3. CASE Crash
      BY <3>3 DEF Crash
    <3> QED
      BY <1>1, <2>4, <3>1, <3>2, <3>3 DEF Outside, Still
  <2> QED
    BY <1>2, <2>1, <2>2, <2>3, <2>4 DEF Next, Still
<1> QED
  BY <1>1, <1>2, <1>4, <1>5 DEF Still

(* Who holds which lock *)
LEMMA LockParts ==
    ASSUME CoreInv
    PROVE  /\ None \notin Zones /\ None \notin Engines /\ None \notin Tickers /\ None \notin Logs
           /\ \A e \in Engines, t \in Tickers : lock[e] = t <=> LockHeld(e, t)
           /\ \A t \in Tickers : Works(t) => task[t].engine \in Engines
           /\ lock \in [Engines -> Tickers \cup {None}]
           /\ pub \in [Zones -> Engines \cup {None}]
           /\ task \in [Tickers -> TaskRecords]
           /\ \A e \in Engines : eng[e].zone \in Zones \cup {None} /\ eng[e].running \in BOOLEAN
           /\ \A t \in Tickers : task[t].engine \in Engines \cup {None} /\ task[t].want \subseteq Rooms
BY SchedulerAssumption, TypeParts DEF CoreInv, TypeInv, TypeOK, LockHeld, Works, TaskRecords

(* What a step has to show that neither seats nor moves anyone *)
LEMMA CoreFrame ==
    ASSUME CoreInv, TypeInv', Still',
           UNCHANGED <<pub, home, sync>>,
           \A e \in Engines : eng'[e].zone = eng[e].zone,
           \A t \in Tickers : /\ task'[t].pc # "idle" => Works(t) /\ task'[t].engine = task[t].engine
                              /\ task'[t].engine \in {task[t].engine, None},
           \A e \in Engines : lock'[e] # None => lock[e] # None,
           \A t \in Tickers : /\ task'[t].pc \in {"own", "cross", "insert"} => ~eng'[task'[t].engine].running
                              /\ task'[t].pc = "join" => eng'[task'[t].engine].running
    PROVE  CoreInv'
<1>1. Seats'
  <2>1. \A z \in Zones : pub'[z] # None => eng'[pub'[z]].zone = z
    BY LockParts DEF CoreInv, Seats
  <2>2. sync'.pc = "publish" =>
           /\ sync'.zone \in sync'.zones /\ sync'.zone \in Zones /\ pub'[sync'.zone] = None
           /\ sync'.engine \in Engines /\ eng'[sync'.engine].zone = sync'.zone
           /\ \A t \in Tickers : task'[t].engine # sync'.engine
    BY LockParts DEF CoreInv, Seats
  <2>3. Leaving' => sync'.zone \in Published' \ sync'.zones
    BY DEF CoreInv, Seats, Leaving, Published
  <2>4. \A t \in Tickers : Works(t)' => eng'[task'[t].engine].zone \in Zones
    BY LockParts DEF CoreInv, Seats, Works
  <2> QED
    BY <2>1, <2>2, <2>3, <2>4 DEF Seats
<1>2. Emptied'
  <2>1. \A t \in Tickers : Works(t)' /\ ~Seated(task[t].engine)' => RoomsOf(eng[task[t].engine].zone)' = {}
    <3>1. ASSUME NEW t \in Tickers, Works(t)', ~Seated(task[t].engine)'
          PROVE  RoomsOf(eng[task[t].engine].zone)' = {}
      <4>1. Works(t) /\ task'[t].engine = task[t].engine /\ task[t].engine \in Engines
        BY <3>1, LockParts DEF Works
      <4>2. ~Seated(task[t].engine)
        BY <3>1, <4>1 DEF Seated
      <4>3. RoomsOf(eng[task[t].engine].zone) = {}
        BY <4>1, <4>2 DEF CoreInv, Emptied
      <4> QED
        BY <4>1, <4>3 DEF RoomsOf
    <3> QED
      BY <3>1
  <2>2. sync'.pc # "idle" => \A z \in Published' \ sync'.zones : RoomsOf(z)' = {}
    BY DEF CoreInv, Emptied, Published, RoomsOf
  <2> QED
    BY <2>1, <2>2 DEF Emptied
<1>3. Locked'
  <2>1. ASSUME NEW e \in Engines, lock'[e] # None PROVE Seated(e)'
    BY <2>1 DEF CoreInv, Locked, Seated
  <2>2. Leaving' => lock'[pub'[sync'.zone]] = None
    BY LockParts DEF CoreInv, Locked, Leaving, Seats, Published
  <2> QED
    BY <2>1, <2>2 DEF Locked
<1> QED
  BY <1>1, <1>2, <1>3 DEF CoreInv

(* The end of a cycle leaves the other engines alone, and its own in its
   seat. *)
LEMMA EndSeats ==
    ASSUME CoreInv, NEW e \in Engines, NEW f, NEW logged \in BOOLEAN, NEW parked \in BOOLEAN,
           EndCycle(e, f, logged, parked)
    PROVE  /\ \A x \in Engines : eng'[x].zone = eng[x].zone
           /\ \A x \in Engines : x # e => eng'[x] = eng[x]
           /\ ~eng'[e].running
<1>1. eng' = [eng EXCEPT ![e].running = FALSE, ![e].log = None]
  BY DEF EndCycle
<1>2. \A x \in Engines : eng[x] \in EngineRecords
  BY DEF CoreInv, TypeInv, TypeOK
<1>3. eng \in [Engines -> EngineRecords]
  BY DEF CoreInv, TypeInv, TypeOK
<1> QED
  BY <1>1, <1>2, <1>3 DEF EngineRecords

LEMMA AbortSeats ==
    ASSUME CoreInv, NEW e \in Engines, NEW f, ForceAbort(e, f)
    PROVE  /\ \A x \in Engines : eng'[x].zone = eng[x].zone
           /\ \A x \in Engines : x # e => eng'[x] = eng[x]
           /\ eng'[e] = eng[e] \/ ~eng'[e].running
BY EndSeats DEF ForceAbort, NothingToEnd

(* A tick, or the next step of one, keeps the seats: it locks an engine only
   for rooms of its zone, so a seated one. *)
LEMMA CoreTask ==
    ASSUME CoreInv, TypeInv', Still', NEW t \in Tickers, TaskStep(t) \/ \E z \in Zones : TickBegin(t, z)
    PROVE  CoreInv'
<1> USE DEF flags, fleet, control, conn, store
<1> DEFINE e == task[t].engine
<1>l. /\ None \notin Zones /\ None \notin Engines /\ None \notin Tickers
      /\ \A x \in Engines, y \in Tickers : lock[x] = y <=> LockHeld(x, y)
      /\ \A y \in Tickers : Works(y) => task[y].engine \in Engines
      /\ lock \in [Engines -> Tickers \cup {None}]
      /\ task \in [Tickers -> TaskRecords]
  BY LockParts
<1>s. \A y \in Tickers : /\ task[y].pc \in {"own", "cross", "insert"} => ~eng[task[y].engine].running
                         /\ task[y].pc = "join" => eng[task[y].engine].running
  BY DEF CoreInv, Locked
<1>n. NoTask.pc = "idle" /\ NoTask.engine = None
  BY DEF NoTask
<1>0. ASSUME NEW k, task' = [task EXCEPT ![t] = k]
      PROVE  \A y \in Tickers : task'[y] = IF y = t THEN k ELSE task[y]
  BY <1>0, <1>l
<1>1. ASSUME NEW z \in Zones, TickBegin(t, z) PROVE CoreInv'
  <2> DEFINE k == [NoTask EXCEPT !.pc = "wait", !.engine = pub[z], !.file = link]
  <2>1. k.pc = "wait" /\ k.engine = pub[z]
    BY DEF NoTask
  <2>2. task' = [task EXCEPT ![t] = k] /\ task[t].pc = "idle" /\ pub[z] # None
        /\ UNCHANGED <<fleet, control, home>>
    BY <1>1, Zenon DEF TickBegin
  <2>3. \A y \in Tickers : task'[y] = IF y = t THEN k ELSE task[y]
    BY <1>0, <2>2
  <2> HIDE DEF k
  <2>4. pub[z] \in Engines /\ Seated(pub[z]) /\ eng[pub[z]].zone = z
    BY <2>2, LockParts DEF CoreInv, Seats, Seated
  <2>5. Seats'
    <3>1. sync.pc = "publish" => pub[z] # sync.engine
      BY <2>2, <2>4 DEF CoreInv, Seats
    <3>2. \A y \in Tickers : sync.pc = "publish" => task'[y].engine # sync.engine
      BY <2>1, <2>3, <3>1 DEF CoreInv, Seats
    <3>3. \A y \in Tickers : Works(y)' => eng[task'[y].engine].zone \in Zones
      BY <2>1, <2>3, <2>4 DEF CoreInv, Seats, Works
    <3> QED
      BY <2>2, <3>2, <3>3 DEF CoreInv, Seats, Leaving, Published
  <2>6. Emptied'
    <3>1. ASSUME NEW y \in Tickers, Works(y)', ~Seated(task[y].engine)'
          PROVE  RoomsOf(eng[task[y].engine].zone)' = {}
      BY <2>1, <2>2, <2>3, <2>4, <3>1 DEF CoreInv, Emptied, Works, Seated, RoomsOf
    <3> QED
      BY <2>2, <3>1 DEF CoreInv, Emptied, Published, RoomsOf
  <2>7. Locked'
    BY <2>1, <2>2, <2>3 DEF CoreInv, Locked, Leaving, Seated
  <2> QED
    BY <2>5, <2>6, <2>7 DEF CoreInv
<1>2. CASE TickRunning(t)
  <2>1. /\ task' = [task EXCEPT ![t] = NoTask] /\ Works(t) /\ lock[e] = None
        /\ UNCHANGED <<pub, home, sync, lock>>
    BY <1>2, Zenon DEF TickRunning, Finish, Free, Works
  <2>2. e \in Engines
    BY <1>l, <2>1
  <2>3. /\ \A x \in Engines : eng'[x].zone = eng[x].zone
        /\ \A x \in Engines : x # e => eng'[x] = eng[x]
    <3>1. UNCHANGED eng \/ \E logged, parked \in BOOLEAN : EndCycle(e, task[t].file, logged, parked)
      BY <1>2, Zenon DEF TickRunning
    <3> HIDE DEF e
    <3> QED
      BY <2>2, <3>1, EndSeats
  <2>4. \A y \in Tickers : task'[y] = IF y = t THEN NoTask ELSE task[y]
    BY <1>0, <2>1
  <2>5. ASSUME NEW y \in Tickers, task'[y].pc \in {"own", "cross", "insert", "join"}
        PROVE  y # t /\ task[y].engine \in Engines /\ task[y].engine # e
    BY <1>l, <1>n, <2>1, <2>2, <2>4, <2>5 DEF LockHeld, Works
  <2> HIDE DEF e
  <2> QED
    BY <1>l, <1>n, <1>s, <2>1, <2>3, <2>4, <2>5, CoreFrame DEF Works
<1>3. CASE TickIdle(t)
  <2>1. UNCHANGED <<pub, eng, control, home>> /\ task[t].pc = "wait" /\ lock[e] = None /\ ~eng[e].running
    BY <1>3 DEF TickIdle, Free
  <2>2. CASE Finish(t) /\ UNCHANGED lock
    <3>1. \A y \in Tickers : task'[y] = IF y = t THEN NoTask ELSE task[y]
      BY <1>0, <2>2 DEF Finish
    <3> QED
      BY <1>n, <1>s, <2>1, <2>2, <3>1, CoreFrame DEF Works
  <2>3. ASSUME NEW want \in (SUBSET RoomsOf(eng[e].zone)) \ {{}}, Continue(t, "own", want),
               lock' = [lock EXCEPT ![e] = t]
        PROVE  CoreInv'
    <3>1. e \in Engines /\ Works(t) /\ RoomsOf(eng[e].zone) # {}
      BY <1>l, <2>1 DEF Works
    <3>2. Seated(e)
      BY <3>1 DEF CoreInv, Emptied
    <3>3. /\ \A y \in Tickers : y # t => task'[y] = task[y]
          /\ task'[t].pc = "own" /\ task'[t].engine = e
      <4>1. task[t] \in TaskRecords
        BY <1>l
      <4> QED
        BY <1>l, <2>3, <4>1 DEF Continue, TaskRecords
    <3>4. \A x \in Engines : lock'[x] = IF x = e THEN t ELSE lock[x]
      BY <1>l, <2>3
    <3>5. Seats'
      BY <2>1, <3>1, <3>3 DEF CoreInv, Seats, Leaving, Published, Works
    <3>6. Emptied'
      BY <2>1, <3>1, <3>3 DEF CoreInv, Emptied, Published, Works, Seated, RoomsOf
    <3>7. Locked'
      <4>1. Leaving => pub[sync.zone] # e /\ pub[sync.zone] \in Engines
        BY <3>1, LockParts DEF CoreInv, Emptied, Seats, Published, Leaving
      <4>2. \A x \in Engines : lock'[x] # None => Seated(x)
        BY <3>2, <3>4 DEF CoreInv, Locked
      <4>3. \A y \in Tickers : /\ task'[y].pc \in {"own", "cross", "insert"} => ~eng[task'[y].engine].running
                               /\ task'[y].pc = "join" => eng[task'[y].engine].running
        BY <1>s, <2>1, <3>3
      <4> HIDE DEF e
      <4> QED
        BY <2>1, <3>4, <4>1, <4>2, <4>3 DEF CoreInv, Locked, Leaving, Seated
    <3> QED
      BY <3>5, <3>6, <3>7 DEF CoreInv
  <2> QED
    BY <1>3, <2>2, <2>3 DEF TickIdle
<1>4. CASE CloseOwn(t) \/ CloseCross(t)
  <2>1. /\ UNCHANGED <<pub, eng, lock, sync, home>> /\ task[t].pc \in {"own", "cross"}
        /\ \E where \in {"cross", "insert"} : task' = [task EXCEPT ![t].pc = where, ![t].want = task[t].want]
    BY <1>4 DEF CloseOwn, CloseCross, Continue
  <2>2. /\ \A y \in Tickers : y # t => task'[y] = task[y]
        /\ task'[t].pc \in {"cross", "insert"} /\ task'[t].engine = e
    <3>1. task[t] \in TaskRecords
      BY <1>l
    <3> QED
      BY <1>l, <2>1, <3>1 DEF TaskRecords
  <2> QED
    BY <1>s, <2>1, <2>2, CoreFrame DEF Works
<1>5. CASE InsertLog(t)
  <2>1. /\ UNCHANGED <<pub, lock, sync, home>> /\ task[t].pc = "insert"
        /\ task' = [task EXCEPT ![t].pc = "join", ![t].want = task[t].want]
        /\ eng' = [eng EXCEPT ![e].running = TRUE, ![e].log = FreshLog, ![e].file = task[t].file]
    BY <1>5 DEF InsertLog, Continue
  <2>2. e \in Engines
    BY <1>l, <2>1 DEF Works
  <2>3. /\ \A y \in Tickers : y # t => task'[y] = task[y]
        /\ task'[t].pc = "join" /\ task'[t].engine = e
    <3>1. task[t] \in TaskRecords
      BY <1>l
    <3> QED
      BY <1>l, <2>1, <3>1 DEF TaskRecords
  <2>4. /\ \A x \in Engines : eng'[x].zone = eng[x].zone
        /\ \A x \in Engines : x # e => eng'[x] = eng[x]
        /\ eng'[e].running
    <3>1. eng \in [Engines -> EngineRecords] /\ \A x \in Engines : eng[x] \in EngineRecords
      BY DEF CoreInv, TypeInv, TypeOK
    <3> HIDE DEF e
    <3> QED
      BY <2>1, <2>2, <3>1 DEF EngineRecords
  <2>5. ASSUME NEW y \in Tickers, y # t, task[y].pc \in {"own", "cross", "insert", "join"}
        PROVE  task[y].engine \in Engines /\ task[y].engine # e
    BY <1>l, <2>1, <2>2, <2>5 DEF LockHeld, Works
  <2> HIDE DEF e
  <2>6. \A y \in Tickers : /\ task'[y].pc \in {"own", "cross", "insert"} => ~eng'[task'[y].engine].running
                           /\ task'[y].pc = "join" => eng'[task'[y].engine].running
    BY <1>s, <2>3, <2>4, <2>5
  <2>7. \A y \in Tickers : /\ task'[y].pc # "idle" => Works(y) /\ task'[y].engine = task[y].engine
                           /\ task'[y].engine \in {task[y].engine, None}
    BY <2>1, <2>3 DEF Works, e
  <2> QED
    BY <2>1, <2>4, <2>6, <2>7, CoreFrame
<1>6. CASE JoinRooms(t) \/ TickRaises(t)
  <2>1. UNCHANGED <<pub, eng, sync, home>> /\ task[t].pc # "idle"
        /\ lock' \in {lock, [lock EXCEPT ![e] = None]}
    BY <1>6 DEF JoinRooms, TickRaises
  <2>2. /\ \A y \in Tickers : y # t => task'[y] = task[y]
        /\ task'[t].pc \in {"idle", "wait"} /\ task'[t].engine \in {e, None}
        /\ task'[t].pc = "wait" => task'[t].engine = e
    <3>1. \/ task' = [task EXCEPT ![t] = NoTask]
          \/ task' = [task EXCEPT ![t] = [NoTask EXCEPT !.pc = "wait", !.engine = e, !.file = link]]
      BY <1>6 DEF JoinRooms, TickRaises, Finish
    <3>2. /\ [NoTask EXCEPT !.pc = "wait", !.engine = e, !.file = link].pc = "wait"
          /\ [NoTask EXCEPT !.pc = "wait", !.engine = e, !.file = link].engine = e
      BY DEF NoTask
    <3> QED
      BY <1>0, <1>n, <3>1, <3>2
  <2>3. \A x \in Engines : lock'[x] # None => lock[x] # None
    BY <1>l, <2>1
  <2>4. \A y \in Tickers : /\ task'[y].pc \in {"own", "cross", "insert"} => ~eng'[task'[y].engine].running
                           /\ task'[y].pc = "join" => eng'[task'[y].engine].running
    BY <1>s, <2>1, <2>2
  <2> QED
    BY <2>1, <2>2, <2>3, <2>4, CoreFrame DEF Works
<1> QED
  BY <1>1, <1>2, <1>3, <1>4, <1>5, <1>6 DEF TaskStep

(* Toggles seat nobody; they end cycles of engines that are free. *)
LEMMA CoreToggle ==
    ASSUME CoreInv, TypeInv', Still', ToggleStep
    PROVE  CoreInv'
<1> USE DEF flags, fleet, control, conn, store
<1>l. /\ \A x \in Engines, y \in Tickers : lock[x] = y <=> LockHeld(x, y)
      /\ \A y \in Tickers : Works(y) => task[y].engine \in Engines
      /\ pub \in [Zones -> Engines \cup {None}] /\ None \notin Tickers
  BY LockParts
<1>s. \A y \in Tickers : /\ task[y].pc \in {"own", "cross", "insert"} => ~eng[task[y].engine].running
                         /\ task[y].pc = "join" => eng[task[y].engine].running
  BY DEF CoreInv, Locked
<1>1. ASSUME NEW z \in Zones, ToggleAborts(z) PROVE CoreInv'
  <2>1. pub[z] \in Engines /\ lock[pub[z]] = None /\ ForceAbort(pub[z], link)
        /\ UNCHANGED <<pub, lock, task, sync, home>>
    BY <1>1, <1>l DEF ToggleAborts, Turn, Published, Free
  <2>2. /\ \A x \in Engines : eng'[x].zone = eng[x].zone
        /\ \A x \in Engines : x # pub[z] => eng'[x] = eng[x]
    BY <2>1, AbortSeats
  <2>3. ASSUME NEW y \in Tickers, task[y].pc \in {"own", "cross", "insert", "join"}
        PROVE  task[y].engine \in Engines /\ task[y].engine # pub[z]
    BY <1>l, <2>1, <2>3 DEF LockHeld, Works
  <2> QED
    BY <1>s, <2>1, <2>2, <2>3, CoreFrame DEF Works
<1>2. ASSUME NEW z \in Zones, ToggleCloses(z) PROVE CoreInv'
  <2>1. UNCHANGED <<fleet, task, sync, home>>
    BY <1>2 DEF ToggleCloses
  <2> QED
    BY <1>s, <2>1, CoreFrame DEF Works
<1>3. CASE ToggleAdvances \/ ToggleBreaks
  <2>1. UNCHANGED <<fleet, task, sync, home>>
    BY <1>3 DEF ToggleAdvances, ToggleBreaks
  <2> QED
    BY <1>s, <2>1, CoreFrame DEF Works
<1> QED
  BY <1>1, <1>2, <1>3 DEF ToggleStep

(* The synchronisation builds an engine that nobody has, for a zone that has
   none, and takes away one that nobody holds, of a zone without rooms. *)
LEMMA CoreSync ==
    ASSUME CoreInv, TypeInv', Still', SyncStep \/ SyncBegins
    PROVE  CoreInv'
<1> USE DEF flags, fleet, control, conn, store
<1>l. /\ None \notin Zones /\ None \notin Engines /\ None \notin Tickers
      /\ \A x \in Engines, y \in Tickers : lock[x] = y <=> LockHeld(x, y)
      /\ \A y \in Tickers : Works(y) => task[y].engine \in Engines
      /\ lock \in [Engines -> Tickers \cup {None}]
      /\ pub \in [Zones -> Engines \cup {None}]
      /\ \A y \in Tickers : task[y].engine \in Engines \cup {None}
  BY LockParts
<1>s. \A y \in Tickers : /\ task[y].pc \in {"own", "cross", "insert"} => ~eng[task[y].engine].running
                         /\ task[y].pc = "join" => eng[task[y].engine].running
  BY DEF CoreInv, Locked
<1>y. sync \in [pc : {"idle", "create", "publish", "remove", "close", "pop"},
                zones : SUBSET Zones, zone : Zones \cup {None}, engine : Engines \cup {None}]
  BY DEF CoreInv, TypeInv, TypeOK
<1>0. ASSUME UNCHANGED <<fleet, task, home>>,
             sync'.pc = "publish" => UNCHANGED sync,
             sync'.pc \in {"close", "pop"} => sync'.zone \in Published \ sync'.zones /\ lock[pub[sync'.zone]] = None,
             sync'.pc # "idle" => \A z \in Published \ sync'.zones : RoomsOf(z) = {}
      PROVE  CoreInv'
  <2>1. Seats'
    BY <1>0 DEF CoreInv, Seats, Leaving, Published, Works
  <2>2. Emptied'
    BY <1>0 DEF CoreInv, Emptied, Published, Works, Seated, RoomsOf
  <2>3. Locked'
    BY <1>0 DEF CoreInv, Locked, Leaving, Seated
  <2> QED
    BY <2>1, <2>2, <2>3 DEF CoreInv
<1>1. CASE SyncBegins
  <2>1. UNCHANGED <<fleet, task, home>> /\ sync'.pc = "create" /\ sync'.zones = {home[r] : r \in Rooms} \ {None}
    BY <1>1 DEF SyncBegins, NoSync
  <2>2. \A z \in Published \ sync'.zones : RoomsOf(z) = {}
    BY <1>l, <2>1 DEF Published, RoomsOf
  <2> QED
    BY <1>0, <2>1, <2>2
<1>2. ASSUME NEW z \in Zones, NEW e \in Engines, Build(z, e) PROVE CoreInv'
  <2>1. /\ UNCHANGED <<pub, lock, task, home>> /\ sync.pc = "create" /\ z \in sync.zones /\ pub[z] = None
        /\ (\A x \in Zones : pub[x] # e) /\ (\A t \in Tickers : task[t].engine # e)
        /\ sync' = [sync EXCEPT !.pc = "publish", !.zone = z, !.engine = e]
    BY <1>2 DEF Build, Idle, Published
  <2>2. sync'.pc = "publish" /\ sync'.zone = z /\ sync'.engine = e /\ sync'.zones = sync.zones
    BY <1>y, <2>1
  <2>3. (\A x \in Engines : x # e => eng'[x] = eng[x]) /\ eng'[e].zone = z
    <3>1. \E c : eng' = [eng EXCEPT ![e] = c] /\ c.zone = z
      <4>1. ColdEngine(z).zone = z
        BY DEF ColdEngine
      <4>2. ASSUME Resume(z, e) PROVE \E c : eng' = [eng EXCEPT ![e] = c] /\ c.zone = z
        <5> DEFINE last == CHOOSE l \in OpenLogs(z) : \A m \in OpenLogs(z) : m <= l
                   warm == [zone |-> z, running |-> TRUE, log |-> last, file |-> link]
        <5>1. warm.zone = z
          OBVIOUS
        <5>2. eng' = [eng EXCEPT ![e] = ColdEngine(z)] \/ eng' = [eng EXCEPT ![e] = warm]
          BY <4>2 DEF Resume
        <5> HIDE DEF warm
        <5> QED
          BY <4>1, <5>1, <5>2
      <4> QED
        BY <1>2, <4>1, <4>2 DEF Build, Discard
    <3>2. eng \in [Engines -> EngineRecords]
      BY DEF CoreInv, TypeInv, TypeOK
    <3> QED
      BY <3>1, <3>2
  <2>4. \A t \in Tickers : Works(t) => task[t].engine \in Engines /\ eng'[task[t].engine] = eng[task[t].engine]
    BY <1>l, <2>1, <2>3
  <2>5. \A x \in Zones : pub[x] # None => pub[x] \in Engines /\ eng'[pub[x]] = eng[pub[x]]
    BY <1>l, <2>1, <2>3
  <2>6. Seats'
    <3>1. \A t \in Tickers : Works(t)' => eng'[task'[t].engine].zone \in Zones
      BY <2>1, <2>4 DEF CoreInv, Seats, Works
    <3> QED
      BY <2>1, <2>2, <2>3, <2>5, <3>1 DEF CoreInv, Seats, Leaving
  <2>7. Emptied'
    <3>1. ASSUME NEW t \in Tickers, Works(t)', ~Seated(task[t].engine)'
          PROVE  RoomsOf(eng[task[t].engine].zone)' = {}
      BY <2>1, <2>4, <3>1 DEF CoreInv, Emptied, Works, Seated, RoomsOf
    <3>2. \A x \in Published' \ sync'.zones : RoomsOf(x)' = {}
      BY <2>1, <2>2 DEF CoreInv, Emptied, Published, RoomsOf
    <3> QED
      BY <3>1, <3>2 DEF Emptied
  <2>8. Locked'
    <3>1. \A x \in Engines : lock[x] # None => x # e
      BY <1>2 DEF Build, Idle
    <3>2. \A x \in Engines : lock'[x] # None => Seated(x)'
      BY <2>1, <2>3, <3>1 DEF CoreInv, Locked, Seated
    <3>3. \A t \in Tickers : /\ task'[t].pc \in {"own", "cross", "insert"} => ~eng'[task'[t].engine].running
                             /\ task'[t].pc = "join" => eng'[task'[t].engine].running
      BY <1>s, <2>1, <2>4 DEF Works
    <3> QED
      BY <2>2, <3>2, <3>3 DEF Locked, Leaving
  <2> QED
    BY <2>6, <2>7, <2>8 DEF CoreInv
<1>3. CASE Publish
  <2> DEFINE z == sync.zone
             e == sync.engine
  <2>1. /\ UNCHANGED <<eng, lock, task, home>> /\ sync.pc = "publish" /\ pub' = [pub EXCEPT ![z] = e]
        /\ sync'.pc = "create" /\ sync'.zones = sync.zones
    BY <1>3, <1>y DEF Publish
  <2>2. z \in sync.zones /\ z \in Zones /\ pub[z] = None /\ e \in Engines /\ eng[e].zone = z
        /\ \A t \in Tickers : task[t].engine # e
    BY <2>1 DEF CoreInv, Seats
  <2> HIDE DEF z, e
  <2>3. \A x \in Zones : pub'[x] = IF x = z THEN e ELSE pub[x]
    BY <1>l, <2>1
  <2>4. \A x \in Engines : x # e => (Seated(x)' <=> Seated(x) /\ eng[x].zone # z)
    BY <1>l, <2>1, <2>2, <2>3 DEF Seated
  <2>5. \A x \in Engines : Seated(x) => eng[x].zone # z
    BY <1>l, <2>2 DEF Seated
  <2>6. Seats'
    BY <2>1, <2>2, <2>3 DEF CoreInv, Seats, Leaving, Works
  <2>7. Emptied'
    <3>1. \A x \in Published' \ sync'.zones : RoomsOf(x)' = {}
      BY <2>1, <2>2, <2>3 DEF CoreInv, Emptied, Published, RoomsOf
    <3>2. ASSUME NEW t \in Tickers, Works(t)', ~Seated(task[t].engine)'
          PROVE  RoomsOf(eng[task[t].engine].zone)' = {}
      <4>1. Works(t) /\ task[t].engine \in Engines /\ task[t].engine # e /\ ~Seated(task[t].engine)
        BY <1>l, <2>1, <2>2, <2>4, <2>5, <3>2 DEF Works, Seated
      <4> QED
        BY <2>1, <4>1 DEF CoreInv, Emptied, RoomsOf
    <3> QED
      BY <3>1, <3>2 DEF Emptied
  <2>8. Locked'
    <3>1. \A x \in Engines : lock'[x] # None => Seated(x)'
      <4>1. ASSUME NEW x \in Engines, lock[x] # None PROVE Seated(x)'
        <5>1. Seated(x) /\ x # e
          BY <1>l, <2>2, <4>1 DEF CoreInv, Locked, Seated
        <5> QED
          BY <2>4, <2>5, <5>1
      <4> QED
        BY <2>1, <4>1
    <3> QED
      BY <1>s, <2>1, <3>1 DEF Locked, Leaving
  <2> QED
    BY <2>6, <2>7, <2>8 DEF CoreInv
<1>4. ASSUME NEW z \in Zones, RemoveAborts(z) PROVE CoreInv'
  <2>1. /\ UNCHANGED <<pub, lock, task, home>> /\ sync.pc \in {"create", "remove"}
        /\ sync'.pc = "close" /\ sync'.zone = z /\ sync'.zones = sync.zones
        /\ z \in Published \ sync.zones /\ lock[pub[z]] = None /\ ForceAbort(pub[z], link)
    BY <1>4, <1>y DEF RemoveAborts, Free
  <2>2. pub[z] \in Engines
    BY <1>l, <2>1 DEF Published
  <2>3. /\ \A x \in Engines : eng'[x].zone = eng[x].zone
        /\ \A x \in Engines : x # pub[z] => eng'[x] = eng[x]
    BY <2>1, <2>2, AbortSeats
  <2>4. ASSUME NEW y \in Tickers, task[y].pc \in {"own", "cross", "insert", "join"}
        PROVE  task[y].engine \in Engines /\ task[y].engine # pub[z]
    BY <1>l, <2>1, <2>2, <2>4 DEF LockHeld, Works
  <2>5. Seats'
    BY <1>l, <2>1, <2>3 DEF CoreInv, Seats, Leaving, Published, Works
  <2>6. Emptied'
    <3>1. ASSUME NEW t \in Tickers, Works(t)', ~Seated(task[t].engine)'
          PROVE  RoomsOf(eng[task[t].engine].zone)' = {}
      <4>1. Works(t) /\ task[t].engine \in Engines /\ ~Seated(task[t].engine)
        BY <1>l, <2>1, <2>3, <3>1 DEF Works, Seated
      <4> QED
        BY <2>1, <2>3, <4>1 DEF CoreInv, Emptied, RoomsOf
    <3>2. \A x \in Published' \ sync'.zones : RoomsOf(x)' = {}
      BY <2>1 DEF CoreInv, Emptied, Published, RoomsOf
    <3> QED
      BY <3>1, <3>2 DEF Emptied
  <2>7. Locked'
    <3>1. \A x \in Engines : lock'[x] # None => Seated(x)'
      BY <2>1, <2>3 DEF CoreInv, Locked, Seated
    <3>2. \A t \in Tickers : /\ task'[t].pc \in {"own", "cross", "insert"} => ~eng'[task'[t].engine].running
                             /\ task'[t].pc = "join" => eng'[task'[t].engine].running
      BY <1>s, <2>1, <2>3, <2>4
    <3> QED
      BY <2>1, <3>1, <3>2 DEF Locked
  <2> QED
    BY <2>5, <2>6, <2>7 DEF CoreInv
<1>5. CASE RemoveCloses
  <2>1. UNCHANGED <<fleet, task, home>> /\ sync.pc = "close"
        /\ sync'.pc = "pop" /\ sync'.zone = sync.zone /\ sync'.zones = sync.zones
    BY <1>5, <1>y DEF RemoveCloses
  <2>2. sync.zone \in Published \ sync.zones /\ lock[pub[sync.zone]] = None
    BY <2>1 DEF CoreInv, Seats, Locked, Leaving
  <2>3. \A z \in Published \ sync.zones : RoomsOf(z) = {}
    BY <2>1 DEF CoreInv, Emptied
  <2> QED
    BY <1>0, <2>1, <2>2, <2>3
<1>6. CASE RemovePops
  <2> DEFINE z == sync.zone
  <2>1. /\ UNCHANGED <<eng, lock, task, home>> /\ sync.pc = "pop" /\ pub' = [pub EXCEPT ![z] = None]
        /\ sync'.pc = "remove" /\ sync'.zones = sync.zones
    BY <1>6, <1>y DEF RemovePops
  <2>2. z \in Published \ sync.zones /\ lock[pub[z]] = None /\ z \in Zones
    BY <2>1 DEF CoreInv, Seats, Locked, Leaving, Published
  <2>3. RoomsOf(z) = {}
    BY <2>1, <2>2 DEF CoreInv, Emptied
  <2> HIDE DEF z
  <2>4. \A x \in Zones : pub'[x] = IF x = z THEN None ELSE pub[x]
    BY <1>l, <2>1
  <2>5. \A x \in Engines : Seated(x)' <=> Seated(x) /\ eng[x].zone # z
    BY <1>l, <2>1, <2>2, <2>4 DEF Seated
  <2>6. Seats'
    BY <2>1, <2>4 DEF CoreInv, Seats, Leaving, Works
  <2>7. Emptied'
    <3>1. \A x \in Published' \ sync'.zones : RoomsOf(x)' = {}
      BY <2>1, <2>4 DEF CoreInv, Emptied, Published, RoomsOf
    <3>2. ASSUME NEW t \in Tickers, Works(t)', ~Seated(task[t].engine)'
          PROVE  RoomsOf(eng[task[t].engine].zone)' = {}
      <4>1. Works(t) /\ task[t].engine \in Engines /\ UNCHANGED <<task, eng, home>>
        BY <1>l, <2>1, <3>2 DEF Works
      <4>2. ~Seated(task[t].engine) \/ eng[task[t].engine].zone = z
        BY <2>5, <3>2, <4>1
      <4> QED
        BY <2>3, <4>1, <4>2 DEF CoreInv, Emptied, RoomsOf
    <3> QED
      BY <3>1, <3>2 DEF Emptied
  <2>8. Locked'
    <3>1. ASSUME NEW x \in Engines, lock'[x] # None PROVE Seated(x)'
      <4>1. Seated(x) /\ x # pub[z]
        BY <2>1, <2>2, <3>1 DEF CoreInv, Locked
      <4> QED
        BY <2>5, <4>1 DEF Seated
    <3> QED
      BY <1>s, <2>1, <3>1 DEF Locked, Leaving
  <2> QED
    BY <2>6, <2>7, <2>8 DEF CoreInv
<1>7. CASE SyncEnds \/ SyncRaises
  <2>1. UNCHANGED <<fleet, task, home>> /\ sync'.pc = "idle"
    BY <1>7 DEF SyncEnds, SyncRaises, NoSync
  <2> QED
    BY <1>0, <2>1
<1> QED
  BY <1>1, <1>2, <1>3, <1>4, <1>5, <1>6, <1>7 DEF SyncStep

(* What comes from outside: a move of a room needs the care of NoRevival. *)
LEMMA CoreOutside ==
    ASSUME CoreInv, TypeInv', Still', Outside, ~SwapFile, NoRevival
    PROVE  CoreInv'
<1> USE DEF flags, fleet, control, conn, store
<1>l. /\ \A y \in Tickers : Works(y) => task[y].engine \in Engines
      /\ None \notin Engines
  BY LockParts
<1>s. \A y \in Tickers : /\ task[y].pc \in {"own", "cross", "insert"} => ~eng[task[y].engine].running
                         /\ task[y].pc = "join" => eng[task[y].engine].running
  BY DEF CoreInv, Locked
<1>1. ASSUME NEW sys \in BOOLEAN, NEW develop \in DevModes, Toggle(sys, develop) PROVE CoreInv'
  <2>1. UNCHANGED <<fleet, task, sync, home>>
    BY <1>1 DEF Toggle
  <2> QED
    BY <1>s, <2>1, CoreFrame DEF Works
<1>2. ASSUME NEW r \in Rooms, NEW z \in Zones \cup {None}, MoveRoom(r, z) PROVE CoreInv'
  <2>1. UNCHANGED <<fleet, task, sync>>
    BY <1>2 DEF MoveRoom
  <2>2. ASSUME NEW x \in Zones, RoomsOf(x) = {}, RoomsOf(x)' # {}
        PROVE  pub[x] = None /\ \A t \in Tickers : task[t].engine # None => eng[task[t].engine].zone # x
    BY <2>2 DEF NoRevival, RoomsOf
  <2>3. Seats'
    BY <2>1 DEF CoreInv, Seats, Leaving, Published, Works
  <2>4. Emptied'
    <3>1. sync'.pc # "idle" => \A x \in Published' \ sync'.zones : RoomsOf(x)' = {}
      BY <2>1, <2>2 DEF CoreInv, Emptied, Published
    <3>2. ASSUME NEW t \in Tickers, Works(t)', ~Seated(task[t].engine)'
          PROVE  RoomsOf(eng[task[t].engine].zone)' = {}
      <4> DEFINE x == eng[task[t].engine].zone
      <4>1. Works(t) /\ task[t].engine # None /\ x \in Zones /\ RoomsOf(x) = {}
        BY <1>l, <2>1, <3>2 DEF Works, Seated, CoreInv, Emptied, Seats
      <4>2. RoomsOf(x)' = {}
        BY <2>1, <2>2, <4>1
      <4> QED
        BY <4>2
    <3> QED
      BY <3>1, <3>2 DEF Emptied
  <2>5. Locked'
    BY <2>1 DEF CoreInv, Locked, Leaving, Seated
  <2> QED
    BY <2>3, <2>4, <2>5 DEF CoreInv
<1>3. CASE Crash
  <2>1. /\ (\A z \in Zones : pub'[z] = None) /\ (\A e \in Engines : lock'[e] = None)
        /\ (\A t \in Tickers : task'[t].pc = "idle") /\ sync'.pc = "idle"
    BY <1>3 DEF Crash, NoTask, NoSync
  <2> QED
    BY <2>1 DEF CoreInv, Seats, Emptied, Locked, Leaving, Works, Published
<1> QED
  BY <1>1, <1>2, <1>3 DEF Outside

LEMMA CoreInit == Init => CoreInv
<1> SUFFICES ASSUME Init PROVE CoreInv
  OBVIOUS
<1>1. /\ (\A z \in Zones : pub[z] = None) /\ (\A e \in Engines : lock[e] = None)
      /\ (\A t \in Tickers : task[t].pc = "idle") /\ sync.pc = "idle"
  BY DEF Init, NoTask, NoSync
<1>2. Still
  BY DEF Init, Still
<1> QED
  BY <1>1, <1>2, TypeInit DEF CoreInv, Seats, Emptied, Locked, Leaving, Works, Published

(* So every step keeps the seats, as long as no zone comes back to life. *)
LEMMA CoreNext ==
    ASSUME MaxRestores = 0, CoreInv, [Next]_vars, [NoRevival]_vars
    PROVE  CoreInv'
<1>1. TypeInv' /\ Still' /\ ~SwapFile /\ ~ReloadStep
  BY TypeNext, StillNext DEF CoreInv
<1>2. CASE UNCHANGED vars
  BY <1>1, <1>2, CoreFrame DEF vars, fleet, store, control, Works, CoreInv, Locked
<1>3. CASE Next /\ NoRevival
  BY <1>1, <1>3, CoreTask, CoreToggle, CoreSync, CoreOutside DEF Next
<1> QED
  BY <1>2, <1>3

-----------------------------------------------------------------------------
(* The logs.  A start that has closed the logs of its zone finds none when  *)
(* it comes to insert its own: nobody else can start in that zone.          *)

LogsSound ==
    /\ \A t \in Tickers : task[t].pc \in {"cross", "insert"} => OpenLogs(eng[task[t].engine].zone) = {}
    /\ \A z \in Zones : \A l, m \in OpenLogs(z) : l = m
    /\ \A l \in Logs : row[l].st = "open" => row[l].zone \in Zones
    /\ \A e \in Engines : eng[e].running => eng[e].log \in Logs \ Unused
LogInv == CoreInv /\ LogsSound

(* Some logs, none of them unused, are over, and nothing else is news. *)
Closes(S) ==
    /\ S \subseteq Logs \ Unused
    /\ \A l \in Logs : row'[l].zone = row[l].zone /\ row'[l].st = IF l \in S THEN "over" ELSE row[l].st

(* A statement that closes logs closes them. *)
LEMMA OverCloses ==
    ASSUME CoreInv, NEW S, S \subseteq Logs \ Unused, row' = Over(S)
    PROVE  Closes(S)
<1>1. \A l \in Logs : row[l] \in LogRecords
  BY DEF CoreInv, TypeInv, TypeOK
<1>2. ASSUME NEW l \in Logs
      PROVE  row'[l].zone = row[l].zone /\ row'[l].st = IF l \in S THEN "over" ELSE row[l].st
  <2>1. row'[l] = IF l \in S THEN [row[l] EXCEPT !.st = "over"] ELSE row[l]
    BY DEF Over
  <2> QED
    BY <1>1, <2>1 DEF LogRecords
<1> QED
  BY <1>2 DEF Closes

(* One about the rooms of a log, or none, closes nothing. *)
LEMMA RoomsCloseNothing ==
    ASSUME CoreInv
    PROVE  /\ UNCHANGED row => Closes({})
           /\ \A l, X : row' = [row EXCEPT ![l].rooms = X] => Closes({})
           /\ \A f : row' = [l \in Logs |-> [row[l] EXCEPT !.rooms = f[l]]] => Closes({})
<1>1. \A l \in Logs : row[l] \in LogRecords
  BY DEF CoreInv, TypeInv, TypeOK
<1>2. row \in [Logs -> LogRecords]
  BY DEF CoreInv, TypeInv, TypeOK
<1>3. ASSUME NEW l, NEW X, row' = [row EXCEPT ![l].rooms = X] PROVE Closes({})
  <2>1. ASSUME NEW m \in Logs PROVE row'[m].zone = row[m].zone /\ row'[m].st = row[m].st
    BY <1>1, <1>2, <1>3 DEF LogRecords
  <2> QED
    BY <2>1 DEF Closes
<1>4. ASSUME NEW f, row' = [l \in Logs |-> [row[l] EXCEPT !.rooms = f[l]]] PROVE Closes({})
  BY <1>1, <1>4 DEF LogRecords, Closes
<1> QED
  BY <1>3, <1>4 DEF Closes

(* The end of a cycle closes its log, if the write succeeds. *)
LEMMA EndCloses ==
    ASSUME MaxRestores = 0, LogInv, NEW e \in Engines, NEW f, f = file, eng[e].running,
           NEW logged \in BOOLEAN, NEW parked \in BOOLEAN, EndCycle(e, f, logged, parked)
    PROVE  /\ Closes(IF logged THEN {eng[e].log} ELSE {})
           /\ used'["faults"] = 0 => used["faults"] = 0 /\ logged /\ parked
<1>1. eng[e].log \in Logs \ Unused
  BY DEF LogInv, LogsSound
<1>2. row' = Over(IF logged THEN {eng[e].log} ELSE {})
  BY <1>1 DEF EndCycle, CloseLogs
<1>3. used'["faults"] = 0 => used["faults"] = 0 /\ logged /\ parked
  <2>1. Spend("faults") => used'["faults"] = used["faults"] + 1 /\ used["faults"] \in Nat
    BY DEF Spend, LogInv, CoreInv, TypeInv, TypeOK, Kinds
  <2> QED
    BY <2>1 DEF EndCycle, Mishap
<1> QED
  BY <1>1, <1>2, <1>3, OverCloses DEF LogInv

LEMMA AbortCloses ==
    ASSUME MaxRestores = 0, LogInv, NEW e \in Engines, NEW f, f = file, ForceAbort(e, f)
    PROVE  /\ Closes({}) \/ Closes({eng[e].log})
           /\ used'["faults"] = 0 =>
                  used["faults"] = 0 /\ IF eng[e].running THEN Closes({eng[e].log}) /\ ~eng'[e].running
                                        ELSE Closes({}) /\ UNCHANGED <<eng, driven>>
<1>1. ASSUME NEW logged \in BOOLEAN, NEW parked \in BOOLEAN, EndCycle(e, f, logged, parked), eng[e].running
      PROVE  /\ Closes({}) \/ Closes({eng[e].log})
             /\ used'["faults"] = 0 => used["faults"] = 0 /\ Closes({eng[e].log}) /\ ~eng'[e].running
  BY <1>1, EndCloses, EndSeats DEF LogInv
<1>2. CASE eng[e].running /\ UNCHANGED <<row, driven, eng>> /\ Mishap(TRUE)
  <2>1. used'["faults"] # 0
    BY <1>2 DEF Mishap, Spend, LogInv, CoreInv, TypeInv, TypeOK, Kinds
  <2> QED
    BY <1>2, <2>1, RoomsCloseNothing DEF LogInv
<1>3. CASE ~eng[e].running /\ NothingToEnd
  BY <1>3, RoomsCloseNothing DEF LogInv, NothingToEnd
<1> QED
  BY <1>1, <1>2, <1>3 DEF ForceAbort

(* Every step closes logs, or inserts the one of a cycle that starts. *)
LEMMA RowEffect ==
    ASSUME MaxRestores = 0, LogInv, [Next]_vars
    PROVE  (\E t \in Tickers : InsertLog(t)) \/ \E S : Closes(S)
<1> USE DEF flags, fleet, control, conn, store
<1>o. file = link /\ \A t \in Tickers : task[t].file = file
  BY OneFile DEF LogInv, CoreInv
<1>p. \A z : OpenLogs(z) \subseteq Logs \ Unused
  BY DEF OpenLogs, Unused
<1>n. UNCHANGED row => Closes({})
  BY RoomsCloseNothing DEF LogInv
<1>x. \A S : S \subseteq Logs \ Unused /\ row' = Over(S) => Closes(S)
  BY OverCloses DEF LogInv
<1>1. ASSUME NEW t \in Tickers, TaskStep(t) \/ \E z \in Zones : TickBegin(t, z), ~InsertLog(t)
      PROVE  \E S : Closes(S)
  <2> DEFINE e == task[t].engine
  <2>1. CASE TickRunning(t)
    <3>1. e \in Engines /\ eng[e].running
      BY <2>1, LockParts, Zenon DEF TickRunning, Works, LogInv
    <3>2. ASSUME NEW logged \in BOOLEAN, NEW parked \in BOOLEAN, EndCycle(e, task[t].file, logged, parked)
          PROVE  \E S : Closes(S)
      BY <1>o, <3>1, <3>2, EndCloses, Zenon
    <3>3. ASSUME NEW want, row' = IF task[t].file = file /\ row[eng[e].log].st # "unused"
                      THEN [row EXCEPT ![eng[e].log].rooms = @ \cup want] ELSE row
          PROVE  \E S : Closes(S)
      BY <1>n, <3>3, RoomsCloseNothing, Zenon DEF LogInv
    <3> QED
      BY <2>1, <3>2, <3>3, Zenon DEF TickRunning
  <2>2. CASE CloseOwn(t)
    BY <1>o, <1>p, <1>x, <2>2 DEF CloseOwn, CloseLogs
  <2>3. CASE CloseCross(t)
    <3> DEFINE S == {l \in Logs : row[l].st = "open" /\ row[l].zone # eng[e].zone
                                    /\ row[l].rooms \cap task[t].want # {}}
    <3>1. S \subseteq Logs \ Unused
      BY DEF Unused
    <3>2. row' = Over(S)
      BY <1>o, <2>3 DEF CloseCross, CloseLogs
    <3> QED
      BY <1>x, <3>1, <3>2
  <2>4. CASE JoinRooms(t)
    BY <1>n, <2>4, RoomsCloseNothing, Zenon DEF JoinRooms, LogInv
  <2>5. CASE TickIdle(t) \/ TickRaises(t) \/ \E z \in Zones : TickBegin(t, z)
    BY <1>n, <2>5, ZenonT(60) DEF TickIdle, TickRaises, TickBegin
  <2> QED
    BY <1>1, <2>1, <2>2, <2>3, <2>4, <2>5 DEF TaskStep
<1>2. ASSUME NEW z \in Zones, ToggleAborts(z) \/ RemoveAborts(z) PROVE \E S : Closes(S)
  <2>1. pub[z] \in Engines /\ ForceAbort(pub[z], link)
    BY <1>2, LockParts DEF ToggleAborts, RemoveAborts, Turn, Published, LogInv
  <2> QED
    BY <1>o, <2>1, AbortCloses
<1>3. CASE (\E z \in Zones : ToggleCloses(z)) \/ RemoveCloses
  BY <1>n, <1>o, <1>p, <1>x, <1>3 DEF ToggleCloses, RemoveCloses, CloseLogs
<1>4. ASSUME NEW z \in Zones, NEW e \in Engines, Build(z, e) PROVE \E S : Closes(S)
  <2>1. UNCHANGED row \/ \E S : S \subseteq OpenLogs(z) /\ row' = Over(S)
    BY <1>4 DEF Build, Resume, Discard
  <2> QED
    BY <1>n, <1>p, <1>x, <2>1
<1>5. ASSUME NEW r \in Rooms, NEW z \in Zones \cup {None}, MoveRoom(r, z) PROVE \E S : Closes(S)
  <2> DEFINE left == [l \in Logs |-> row[l].rooms \ {r}]
  <2>1. UNCHANGED row \/ row' = [l \in Logs |-> [row[l] EXCEPT !.rooms = left[l]]]
    BY <1>5 DEF MoveRoom
  <2> HIDE DEF left
  <2> QED
    BY <1>n, <2>1, RoomsCloseNothing DEF LogInv
<1>6. CASE UNCHANGED vars \/ SyncBegins \/ Publish \/ RemovePops \/ SyncEnds \/ SyncRaises
           \/ ToggleAdvances \/ ToggleBreaks \/ Crash
           \/ \E sys \in BOOLEAN, develop \in DevModes : Toggle(sys, develop)
  <2>1. UNCHANGED row
    BY <1>6 DEF vars, SyncBegins, Publish, RemovePops, SyncEnds, SyncRaises, ToggleAdvances, ToggleBreaks, Crash, Toggle
  <2> QED
    BY <1>n, <2>1
<1>7. ~SwapFile /\ ~ReloadStep
  BY StillNext DEF LogInv, CoreInv
<1> QED
  BY <1>1, <1>2, <1>3, <1>4, <1>5, <1>6, <1>7 DEF Next, ToggleStep, SyncStep, Outside

(* An engine runs after a step only what it ran before, what its start has
   inserted or what it was built to resume; and it stays in its zone. *)
LEMMA EngEffect ==
    ASSUME MaxRestores = 0, LogInv, [Next]_vars, NEW e \in Engines
    PROVE  /\ eng'[e].running => \/ eng'[e] = eng[e]
                                 \/ \E t \in Tickers : InsertLog(t) /\ e = task[t].engine
                                 \/ \E z \in Zones : Build(z, e) /\ eng'[e].log \in OpenLogs(z)
           /\ eng'[e].zone = eng[e].zone \/ Crash \/ \E z \in Zones : Build(z, e)
<1> USE DEF flags, fleet, control, conn, store
<1> DEFINE Kept == eng'[e].zone = eng[e].zone /\ (eng'[e].running => eng'[e] = eng[e])
<1>t. eng \in [Engines -> EngineRecords]
  BY DEF LogInv, CoreInv, TypeInv, TypeOK
<1>e. UNCHANGED eng => Kept
  OBVIOUS
<1>1. ASSUME NEW x \in Engines, NEW f, NEW logged \in BOOLEAN, NEW parked \in BOOLEAN, EndCycle(x, f, logged, parked)
      PROVE  Kept
  BY <1>1, EndSeats DEF LogInv
<1>2. ASSUME NEW x \in Engines, NEW f, ForceAbort(x, f) PROVE Kept
  BY <1>2, AbortSeats DEF LogInv
<1>3. ASSUME NEW t \in Tickers, TaskStep(t) \/ \E z \in Zones : TickBegin(t, z), ~InsertLog(t) PROVE Kept
  <2>1. CASE TickRunning(t)
    <3>1. task[t].engine \in Engines
      BY <2>1, LockParts, Zenon DEF TickRunning, Works, LogInv
    <3>2. UNCHANGED eng \/ \E logged, parked \in BOOLEAN : EndCycle(task[t].engine, task[t].file, logged, parked)
      BY <2>1, Zenon DEF TickRunning
    <3> QED
      BY <1>1, <1>e, <3>1, <3>2
  <2>2. CASE ~TickRunning(t)
    <3>1. UNCHANGED eng
      BY <1>3, <2>2, ZenonT(60) DEF TaskStep, TickIdle, CloseOwn, CloseCross, JoinRooms, TickRaises, TickBegin
    <3> QED
      BY <1>e, <3>1
  <2> QED
    BY <2>1, <2>2
<1>4. ASSUME NEW t \in Tickers, InsertLog(t) PROVE Kept \/ (e = task[t].engine /\ eng'[e].zone = eng[e].zone)
  <2>1. eng' = [eng EXCEPT ![task[t].engine].running = TRUE, ![task[t].engine].log = FreshLog,
                           ![task[t].engine].file = task[t].file]
    BY <1>4 DEF InsertLog
  <2>2. eng[e] \in EngineRecords
    BY <1>t
  <2> QED
    BY <1>t, <2>1, <2>2 DEF EngineRecords
<1>5. ASSUME NEW z \in Zones, ToggleAborts(z) \/ RemoveAborts(z) PROVE Kept
  <2>1. pub[z] \in Engines /\ ForceAbort(pub[z], link)
    BY <1>5, LockParts DEF ToggleAborts, RemoveAborts, Turn, Published, LogInv
  <2> QED
    BY <1>2, <2>1
<1>6. ASSUME NEW z \in Zones, NEW x \in Engines, Build(z, x)
      PROVE  Kept \/ (x = e /\ (eng'[e].running => eng'[e].log \in OpenLogs(z)))
  <2> DEFINE last == CHOOSE l \in OpenLogs(z) : \A m \in OpenLogs(z) : m <= l
             warm == [zone |-> z, running |-> TRUE, log |-> last, file |-> link]
  <2>1. OpenLogs(z) # {} => last \in OpenLogs(z)
    <3>1. OpenLogs(z) \subseteq Logs
      BY DEF OpenLogs
    <3>2. OpenLogs(z) # {} => \E l \in OpenLogs(z) : \A m \in OpenLogs(z) : m <= l
      BY <3>1, LastExists
    <3> QED
      BY <3>2
  <2>2. eng' = [eng EXCEPT ![x] = ColdEngine(z)] \/ (OpenLogs(z) # {} /\ eng' = [eng EXCEPT ![x] = warm])
    BY <1>6 DEF Build, Resume, Discard
  <2>3. ~ColdEngine(z).running /\ warm.log = last
    BY DEF ColdEngine
  <2> HIDE DEF warm, last
  <2>4. x # e => eng'[e] = eng[e]
    BY <1>t, <2>2
  <2>5. x = e => eng'[e] = ColdEngine(z) \/ (OpenLogs(z) # {} /\ eng'[e] = warm)
    BY <1>t, <2>2
  <2> QED
    BY <2>1, <2>3, <2>4, <2>5
<1>7. ASSUME UNCHANGED vars \/ SyncBegins \/ Publish \/ RemovePops \/ RemoveCloses \/ SyncEnds \/ SyncRaises
           \/ ToggleAdvances \/ ToggleBreaks \/ (\E z \in Zones : ToggleCloses(z))
           \/ (\E sys \in BOOLEAN, develop \in DevModes : Toggle(sys, develop))
           \/ (\E r \in Rooms, z \in Zones \cup {None} : MoveRoom(r, z))
      PROVE  Kept
  <2>1. UNCHANGED eng
    <3>1. ASSUME NEW r \in Rooms, NEW z \in Zones \cup {None}, MoveRoom(r, z) PROVE UNCHANGED eng
      BY <3>1 DEF MoveRoom
    <3> QED
      BY <1>7, <3>1 DEF vars, SyncBegins, Publish, RemovePops, RemoveCloses, SyncEnds, SyncRaises, ToggleAdvances,
         ToggleBreaks, ToggleCloses, Toggle
  <2> QED
    BY <1>e, <2>1
<1>8. CASE Crash
  <2>1. ~eng'[e].running
    BY <1>8 DEF Crash
  <2> QED
    BY <1>8, <2>1
<1>9. ~SwapFile /\ ~ReloadStep
  BY StillNext DEF LogInv, CoreInv
<1> HIDE DEF Kept
<1>10. \/ Kept \/ Crash
       \/ (\E t \in Tickers : InsertLog(t) /\ e = task[t].engine) /\ eng'[e].zone = eng[e].zone
       \/ \E z \in Zones : Build(z, e) /\ (eng'[e].running => eng'[e].log \in OpenLogs(z))
  <2>1. CASE UNCHANGED vars
    BY <1>7, <2>1
  <2>2. ASSUME NEW t \in Tickers, TaskStep(t) \/ \E z \in Zones : TickBegin(t, z)
        PROVE  Kept \/ ((\E x \in Tickers : InsertLog(x) /\ e = task[x].engine) /\ eng'[e].zone = eng[e].zone)
    BY <1>3, <1>4, <2>2
  <2>3. CASE ToggleStep \/ SyncBegins
    BY <1>5, <1>7, <2>3 DEF ToggleStep
  <2>4. CASE SyncStep
    BY <1>5, <1>6, <1>7, <2>4 DEF SyncStep
  <2>5. CASE Outside
    BY <1>7, <1>9, <2>5 DEF Outside
  <2> QED
    BY <1>9, <2>1, <2>2, <2>3, <2>4, <2>5 DEF Next
<1>11. Crash => ~eng'[e].running
  BY DEF Crash
<1> QED
  BY <1>10, <1>11 DEF Kept

(* Who is between the closing of the logs and the insertion of the new one
   was there already, or has just closed the logs of the zone. *)
LEMMA TaskEffect ==
    ASSUME MaxRestores = 0, LogInv, [Next]_vars, NEW t \in Tickers, task'[t].pc \in {"cross", "insert"}
    PROVE  /\ task'[t].engine = task[t].engine /\ Works(t)
           /\ CloseOwn(t) \/ (task[t].pc \in {"cross", "insert"} /\ ~InsertLog(t))
<1> USE DEF flags, fleet, control, conn, store
<1>t. task \in [Tickers -> TaskRecords]
  BY LockParts DEF LogInv
<1>n. NoTask.pc = "idle"
  BY DEF NoTask
<1>1. ASSUME NEW x \in Tickers, TaskStep(x) \/ \E z \in Zones : TickBegin(x, z)
      PROVE  \/ x = t /\ CloseOwn(t)
             \/ x = t /\ CloseCross(t)
             \/ x # t /\ UNCHANGED task[t]
  <2>1. CASE TickBegin(x, CHOOSE z \in Zones : TickBegin(x, z)) \/ TickRunning(x) \/ JoinRooms(x) \/ TickRaises(x)
             \/ (TickIdle(x) /\ Finish(x))
    <3>1. [NoTask EXCEPT !.pc = "wait", !.engine = task[x].engine, !.file = link].pc = "wait"
          /\ \A z : [NoTask EXCEPT !.pc = "wait", !.engine = pub[z], !.file = link].pc = "wait"
      BY DEF NoTask
    <3>2. \E k : task' = [task EXCEPT ![x] = k] /\ k.pc \in {"idle", "wait"}
      BY <1>n, <2>1, <3>1, ZenonT(60) DEF TickBegin, TickRunning, JoinRooms, TickRaises, Finish
    <3> QED
      BY <1>t, <3>2
  <2>2. ASSUME NEW where, NEW want, Continue(x, where, want), where # "cross", where # "insert"
        PROVE  x # t /\ UNCHANGED task[t]
    <3>1. task[x] \in TaskRecords
      BY <1>t
    <3>2. x = t => task'[t].pc = where
      BY <1>t, <2>2, <3>1 DEF Continue, TaskRecords
    <3> QED
      BY <1>t, <2>2, <3>2 DEF Continue
  <2>3. CASE TickIdle(x) /\ ~Finish(x)
    BY <2>2, <2>3 DEF TickIdle
  <2>4. CASE InsertLog(x)
    BY <2>2, <2>4 DEF InsertLog
  <2>5. CASE CloseOwn(x) \/ CloseCross(x)
    BY <1>t, <2>5 DEF CloseOwn, CloseCross, Continue
  <2>6. (\E z \in Zones : TickBegin(x, z)) => TickBegin(x, CHOOSE z \in Zones : TickBegin(x, z))
    OBVIOUS
  <2> QED
    BY <1>1, <2>1, <2>3, <2>4, <2>5, <2>6 DEF TaskStep
<1>2. CASE CloseOwn(t) \/ CloseCross(t)
  <2>1. /\ task[t].pc \in {"own", "cross"} /\ (CloseCross(t) => task[t].pc = "cross")
        /\ \E where : task' = [task EXCEPT ![t].pc = where, ![t].want = task[t].want]
    BY <1>2 DEF CloseOwn, CloseCross, Continue
  <2>2. task'[t].engine = task[t].engine
    <3>1. task[t] \in TaskRecords
      BY <1>t
    <3> QED
      BY <1>t, <2>1, <3>1 DEF TaskRecords
  <2> QED
    BY <1>2, <2>1, <2>2 DEF Works, InsertLog
<1>3. CASE UNCHANGED task[t]
  <2>1. ~InsertLog(t)
    <3>1. task[t] \in TaskRecords
      BY <1>t
    <3>2. InsertLog(t) => task'[t].pc = "join"
      BY <1>t, <3>1 DEF InsertLog, Continue, TaskRecords
    <3> QED
      BY <3>2
  <2> QED
    BY <1>3, <2>1 DEF Works
<1>4. CASE UNCHANGED vars \/ SyncBegins \/ SyncStep \/ ToggleStep
  <2>1. UNCHANGED task
    BY <1>4, Zenon DEF vars, SyncBegins, SyncStep, Publish, RemoveCloses, RemovePops, SyncEnds, SyncRaises,
       RemoveAborts, Build, ToggleStep, ToggleAborts, ToggleCloses, ToggleAdvances, ToggleBreaks
  <2> QED
    BY <1>3, <2>1
<1>5. CASE Outside
  <2>1. ASSUME NEW r \in Rooms, NEW z \in Zones \cup {None}, MoveRoom(r, z) PROVE UNCHANGED task
    BY <2>1 DEF MoveRoom
  <2>2. ASSUME NEW sys \in BOOLEAN, NEW develop \in DevModes, Toggle(sys, develop) PROVE UNCHANGED task
    BY <2>2 DEF Toggle
  <2>3. ~Crash
    BY <1>n DEF Crash
  <2>4. UNCHANGED task
    BY <1>5, <2>1, <2>2, <2>3, StillNext DEF Outside, LogInv, CoreInv
  <2> QED
    BY <1>3, <2>4
<1> QED
  BY <1>1, <1>2, <1>3, <1>4, <1>5, StillNext DEF Next, LogInv, CoreInv

(* The log that a start takes was not used. *)
LEMMA FreshIsUnused == Unused # {} => FreshLog \in Unused
<1>1. Unused \subseteq Nat
  BY DEF Unused, Logs
<1>2. Unused # {} => \E l \in Unused : \A m \in Unused : l <= m
  BY <1>1, LeastExists
<1> QED
  BY <1>2 DEF FreshLog

(* What a start inserts *)
LEMMA InsertEffect ==
    ASSUME MaxRestores = 0, LogInv, NEW t \in Tickers, InsertLog(t)
    PROVE  LET e == task[t].engine
               z == eng[e].zone
           IN  /\ e \in Engines /\ z \in Zones /\ pub[z] = e /\ OpenLogs(z) = {} /\ FreshLog \in Unused
               /\ lock[e] = t /\ ~eng[e].running /\ task[t].pc = "insert"
               /\ \A l \in Logs : IF l = FreshLog THEN row'[l].zone = z /\ row'[l].st = "open"
                                  ELSE row'[l] = row[l]
               /\ eng'[e].running /\ eng'[e].log = FreshLog /\ eng'[e].zone = z
               /\ \A x \in Engines : x # e => eng'[x] = eng[x]
<1> DEFINE e == task[t].engine
           z == eng[e].zone
<1>1. task[t].pc = "insert" /\ e \in Engines /\ OpenLogs(z) = {} /\ ~eng[e].running
  BY LockParts DEF InsertLog, LogInv, LogsSound, CoreInv, Locked, Works
<1>2. lock[e] = t /\ t # None
  BY <1>1, LockParts DEF LogInv, LockHeld
<1>3. z \in Zones /\ pub[z] = e
  BY <1>1, <1>2 DEF LogInv, CoreInv, Locked, Seated
<1>4. FreshLog \in Unused /\ FreshLog \in Logs
  BY FreshIsUnused, FreshIsLog DEF InsertLog
<1>5. \A l \in Logs : IF l = FreshLog THEN row'[l].zone = z /\ row'[l].st = "open" ELSE row'[l] = row[l]
  <2>1. row' = [row EXCEPT ![FreshLog] = [zone |-> z, rooms |-> {}, st |-> "open"]]
    BY OneFile DEF InsertLog, LogInv, CoreInv
  <2>2. row \in [Logs -> LogRecords]
    BY DEF LogInv, CoreInv, TypeInv, TypeOK
  <2> QED
    BY <1>4, <2>1, <2>2
<1>6. /\ eng'[e].running /\ eng'[e].log = FreshLog /\ eng'[e].zone = z
      /\ \A x \in Engines : x # e => eng'[x] = eng[x]
  <2>1. eng' = [eng EXCEPT ![e].running = TRUE, ![e].log = FreshLog, ![e].file = task[t].file]
    BY DEF InsertLog
  <2>2. eng \in [Engines -> EngineRecords] /\ eng[e] \in EngineRecords
    BY <1>1 DEF LogInv, CoreInv, TypeInv, TypeOK
  <2> HIDE DEF e
  <2> QED
    BY <1>1, <2>1, <2>2 DEF EngineRecords, z
<1> QED
  BY <1>1, <1>2, <1>3, <1>4, <1>5, <1>6

(* So the logs stay sound. *)
LEMMA LogsNext ==
    ASSUME MaxRestores = 0, LogInv, [Next]_vars, [NoRevival]_vars
    PROVE  LogInv'
<1>c. CoreInv'
  BY CoreNext DEF LogInv
<1>l. /\ \A x \in Engines, y \in Tickers : lock[x] = y <=> LockHeld(x, y)
      /\ \A y \in Tickers : Works(y) => task[y].engine \in Engines
  BY LockParts DEF LogInv
<1>z. ASSUME NEW t \in Tickers, task'[t].pc \in {"cross", "insert"}
      PROVE  /\ task[t].engine \in Engines /\ task'[t].engine = task[t].engine
             /\ eng'[task[t].engine].zone = eng[task[t].engine].zone
  <2>1. Works(t) /\ task'[t].engine = task[t].engine
    BY <1>z, TaskEffect
  <2>2. ~Crash
    <3>1. NoTask.pc = "idle"
      BY DEF NoTask
    <3> QED
      BY <1>z, <3>1 DEF Crash
  <2>3. \A z \in Zones : ~Build(z, task[t].engine)
    BY DEF Build, Idle
  <2> QED
    BY <1>l, <2>1, <2>2, <2>3, EngEffect
<1>1. ASSUME NEW S, Closes(S) PROVE LogsSound'
  <2>1. \A z : OpenLogs(z)' = OpenLogs(z) \ S
    BY <1>1 DEF Closes, OpenLogs
  <2>2. Unused' = Unused
    BY <1>1 DEF Closes, Unused
  <2>3. ASSUME NEW t \in Tickers, task'[t].pc \in {"cross", "insert"}
        PROVE  OpenLogs(eng[task[t].engine].zone)' = {}
    <3>0. PICK z : z = eng[task[t].engine].zone
      OBVIOUS
    <3>1. eng'[task'[t].engine].zone = z
      BY <1>z, <2>3, <3>0
    <3>2. CASE CloseOwn(t)
      <4>1. row' = Over(OpenLogs(z))
        BY <3>0, <3>2, OneFile DEF CloseOwn, CloseLogs, LogInv, CoreInv
      <4>2. Closes(OpenLogs(z))
        BY <4>1, OverCloses DEF OpenLogs, Unused, LogInv
      <4>3. OpenLogs(z)' = {}
        BY <4>2 DEF Closes, OpenLogs
      <4> QED
        BY <3>1, <4>3 DEF OpenLogs
    <3>3. CASE task[t].pc \in {"cross", "insert"}
      <4>1. OpenLogs(z) = {}
        BY <3>0, <3>3 DEF LogInv, LogsSound
      <4>2. OpenLogs(z)' = {}
        BY <2>1, <4>1
      <4> QED
        BY <3>1, <4>2 DEF OpenLogs
    <3> QED
      BY <2>3, <3>2, <3>3, TaskEffect
  <2>4. \A z \in Zones : \A l, m \in OpenLogs(z)' : l = m
    BY <2>1 DEF LogInv, LogsSound
  <2>5. \A l \in Logs : row'[l].st = "open" => row'[l].zone \in Zones
    BY <1>1 DEF Closes, LogInv, LogsSound
  <2>6. ASSUME NEW e \in Engines, eng'[e].running PROVE eng'[e].log \in Logs \ Unused
    <3>1. CASE eng'[e] = eng[e]
      BY <2>6, <3>1 DEF LogInv, LogsSound
    <3>2. ~\E t \in Tickers : InsertLog(t)
      <4>1. ASSUME NEW t \in Tickers, InsertLog(t) PROVE FALSE
        <5>1. FreshLog \in Unused /\ FreshLog \in Logs /\ row'[FreshLog].st = "open"
          BY <4>1, InsertEffect DEF Unused
        <5> QED
          BY <1>1, <5>1 DEF Closes, Unused
      <4> QED
        BY <4>1
    <3>3. ASSUME NEW z \in Zones, eng'[e].log \in OpenLogs(z) PROVE eng'[e].log \in Logs \ Unused
      BY <3>3 DEF OpenLogs, Unused
    <3> QED
      BY <2>6, <3>1, <3>2, <3>3, EngEffect
  <2> QED
    BY <2>2, <2>3, <2>4, <2>5, <2>6 DEF LogsSound
<1>2. ASSUME NEW t \in Tickers, InsertLog(t) PROVE LogsSound'
  <2>e. PICK e : e = task[t].engine
    OBVIOUS
  <2>z. PICK z : z = eng[e].zone
    OBVIOUS
  <2>1. /\ e \in Engines /\ z \in Zones /\ pub[z] = e /\ OpenLogs(z) = {} /\ FreshLog \in Unused /\ lock[e] = t
        /\ \A l \in Logs : IF l = FreshLog THEN row'[l].zone = z /\ row'[l].st = "open" ELSE row'[l] = row[l]
        /\ eng'[e].running /\ eng'[e].log = FreshLog /\ eng'[e].zone = z
        /\ \A x \in Engines : x # e => eng'[x] = eng[x]
    BY <1>2, <2>e, <2>z, InsertEffect
  <2>2. FreshLog \in Logs /\ row[FreshLog].st = "unused"
    BY <2>1 DEF Unused
  <2>3. OpenLogs(z)' = {FreshLog} /\ \A x \in Zones : x # z => OpenLogs(x)' = OpenLogs(x)
    BY <2>1, <2>2 DEF OpenLogs
  <2>4. ASSUME NEW y \in Tickers, task'[y].pc \in {"cross", "insert"}
        PROVE  OpenLogs(eng[task[y].engine].zone)' = {}
    <3>a. PICK a : a = task[y].engine
      OBVIOUS
    <3>c. PICK c : c = eng[a].zone
      OBVIOUS
    <3>1. ~CloseOwn(y)
      <4>1. CloseOwn(y) => row' = Over(OpenLogs(c))
        BY <3>a, <3>c, OneFile DEF CloseOwn, CloseLogs, LogInv, CoreInv
      <4>2. row' # Over(OpenLogs(c))
        BY <2>1, <2>2 DEF Over, OpenLogs
      <4> QED
        BY <4>1, <4>2
    <3>2. a \in Engines /\ task[y].pc \in {"cross", "insert"} /\ ~InsertLog(y) /\ y # t
          /\ eng'[task'[y].engine].zone = c
      BY <1>2, <1>z, <2>4, <3>1, <3>a, <3>c, TaskEffect
    <3>3. lock[a] = y /\ OpenLogs(c) = {}
      BY <1>l, <3>2, <3>a, <3>c DEF LockHeld, LogInv, LogsSound
    <3>4. Seated(a)
      BY <3>2, <3>3, LockParts DEF LogInv, CoreInv, Locked
    <3>5. c # z /\ c \in Zones
      BY <2>1, <2>e, <2>z, <3>2, <3>3, <3>4, <3>c DEF Seated
    <3>6. OpenLogs(c)' = {}
      BY <2>3, <3>3, <3>5
    <3> QED
      BY <3>2, <3>6 DEF OpenLogs
  <2>5. \A x \in Zones : \A l, m \in OpenLogs(x)' : l = m
    BY <2>3 DEF LogInv, LogsSound
  <2>6. \A l \in Logs : row'[l].st = "open" => row'[l].zone \in Zones
    BY <2>1 DEF LogInv, LogsSound
  <2>7. \A x \in Engines : eng'[x].running => eng'[x].log \in Logs \ Unused'
    <3>1. Logs \ Unused' = (Logs \ Unused) \cup {FreshLog}
      BY <2>1, <2>2 DEF Unused
    <3> QED
      BY <2>1, <3>1 DEF LogInv, LogsSound
  <2> QED
    BY <2>4, <2>5, <2>6, <2>7 DEF LogsSound
<1> QED
  BY <1>c, <1>1, <1>2, RowEffect DEF LogInv

-----------------------------------------------------------------------------
(* The ledger *)

Current == [z \in Zones |-> IF OpenLogs(z) = {} THEN None ELSE CHOOSE l \in OpenLogs(z) : TRUE]
Past    == {l \in Logs : row[l].st = "over"}

(* A zone's entry is its open log, if it has one. *)
LEMMA CurrentIs ==
    ASSUME LogInv, NEW z \in Zones
    PROVE  /\ \A l \in Logs : Current[z] = l <=> l \in OpenLogs(z)
           /\ Current[z] = None <=> OpenLogs(z) = {}
           /\ Current[z] \in Logs \cup {None}
<1>1. OpenLogs(z) \subseteq Logs /\ None \notin Logs
  BY LockParts DEF OpenLogs, LogInv
<1>2. OpenLogs(z) # {} => Current[z] \in OpenLogs(z)
  BY DEF Current
<1>3. OpenLogs(z) = {} => Current[z] = None
  BY DEF Current
<1>4. \A l, m \in OpenLogs(z) : l = m
  BY DEF LogInv, LogsSound
<1> QED
  BY <1>1, <1>2, <1>3, <1>4

(* The same of the state after a step *)
LEMMA CurrentWillBe ==
    ASSUME LogInv', NEW z \in Zones
    PROVE  /\ \A l \in Logs : Current'[z] = l <=> l \in OpenLogs(z)'
           /\ Current'[z] = None <=> OpenLogs(z)' = {}
           /\ Current'[z] \in Logs \cup {None}
<1>1. OpenLogs(z)' \subseteq Logs /\ None \notin Logs
  BY SchedulerAssumption DEF OpenLogs
<1>2. OpenLogs(z)' # {} => Current'[z] \in OpenLogs(z)'
  BY DEF Current
<1>3. OpenLogs(z)' = {} => Current'[z] = None
  BY DEF Current
<1>4. \A l, m \in OpenLogs(z)' : l = m
  BY DEF LogInv, LogsSound
<1> QED
  BY <1>1, <1>2, <1>3, <1>4

(* Without news of its open logs a zone's entry stays. *)
LEMMA CurrentStays ==
    ASSUME LogInv, LogInv', NEW z \in Zones, OpenLogs(z)' = OpenLogs(z)
    PROVE  Current'[z] = Current[z]
<1>1. PICK c : c = Current[z]
  OBVIOUS
<1>2. CASE c = None
  BY <1>1, <1>2, CurrentIs, CurrentWillBe
<1>3. CASE c \in Logs
  BY <1>1, <1>3, CurrentIs, CurrentWillBe
<1> QED
  BY <1>1, <1>2, <1>3, CurrentIs

(* The logs that go over are the open ones of some zones, or none. *)
LEMMA ClosesCycles ==
    ASSUME LogInv, LogInv', NEW S, Closes(S)
    PROVE  (\E Z \in SUBSET Zones : Ledger!CloseCycles(Z)) \/ UNCHANGED <<Current, Past>>
<1>0. PICK Z : Z = {z \in Zones : OpenLogs(z) \cap S # {}}
  OBVIOUS
<1>1. \A z \in Zones : OpenLogs(z)' = OpenLogs(z) \ S
  BY DEF Closes, OpenLogs
<1>2. \A z \in Zones : IF z \in Z THEN OpenLogs(z)' = {} ELSE OpenLogs(z)' = OpenLogs(z)
  BY <1>0, <1>1 DEF LogInv, LogsSound
<1>3. Current' = [z \in Zones |-> IF z \in Z THEN None ELSE Current[z]]
  <2>1. \A z \in Zones : IF z \in Z THEN Current'[z] = None ELSE Current'[z] = Current[z]
    <3>1. ASSUME NEW z \in Zones, z \in Z PROVE Current'[z] = None
      BY <1>2, <3>1, CurrentWillBe
    <3>2. ASSUME NEW z \in Zones, z \notin Z PROVE Current'[z] = Current[z]
      BY <1>2, <3>2, CurrentStays
    <3> QED
      BY <3>1, <3>2
  <2> QED
    BY <2>1 DEF Current
<1>4. Z \subseteq Zones /\ \A z \in Z : Current[z] # None
  BY <1>0, CurrentIs
<1>5. Past' = Past \cup {Current[z] : z \in Z}
  <2>1. ASSUME NEW l \in Logs, row'[l].st = "over", row[l].st # "over"
        PROVE  \E z \in Z : Current[z] = l
    <3>1. l \in S /\ row[l].st = "open"
      <4>1. row[l].st \in {"unused", "open", "over"}
        BY DEF LogInv, CoreInv, TypeInv, TypeOK, LogRecords
      <4> QED
        BY <2>1, <4>1 DEF Closes, Unused
    <3>2. row[l].zone \in Zones
      BY <3>1 DEF LogInv, LogsSound
    <3>3. l \in OpenLogs(row[l].zone)
      BY <3>1 DEF OpenLogs
    <3>4. row[l].zone \in Z
      BY <1>0, <3>1, <3>2, <3>3
    <3> QED
      BY <3>2, <3>3, <3>4, CurrentIs
  <2>2. ASSUME NEW z \in Z PROVE Current[z] \in Past'
    <3>1. PICK l \in OpenLogs(z) : l \in S
      BY <1>0
    <3>2. Current[z] = l /\ l \in Logs
      BY <1>4, CurrentIs DEF OpenLogs
    <3> QED
      BY <3>1, <3>2 DEF Past, Closes
  <2>3. Past \subseteq Past'
    BY DEF Past, Closes
  <2>4. Past' \subseteq Past \cup {Current[z] : z \in Z}
    BY <2>1 DEF Past
  <2> QED
    BY <2>2, <2>3, <2>4
<1>6. CASE Z = {}
  <2>1. Past' = Past
    BY <1>5, <1>6
  <2>2. Current' = Current
    BY <1>3, <1>6 DEF Current
  <2> QED
    BY <2>1, <2>2
<1>7. CASE Z # {}
  <2>1. Ledger!CloseCycles(Z)
    BY <1>3, <1>4, <1>5, <1>7 DEF Ledger!CloseCycles, Current, Past
  <2> QED
    BY <1>4, <2>1
<1> QED
  BY <1>6, <1>7

(* The log that a start inserts is a new cycle of a zone that has none. *)
LEMMA InsertOpens ==
    ASSUME MaxRestores = 0, LogInv, LogInv', NEW t \in Tickers, InsertLog(t)
    PROVE  \E z \in Zones, c \in Logs : Ledger!OpenCycle(z, c)
<1>z. PICK z : z = eng[task[t].engine].zone
  OBVIOUS
<1>1. /\ z \in Zones /\ OpenLogs(z) = {} /\ FreshLog \in Unused
      /\ \A l \in Logs : IF l = FreshLog THEN row'[l].zone = z /\ row'[l].st = "open" ELSE row'[l] = row[l]
  BY <1>z, InsertEffect
<1>c. PICK c : c = FreshLog
  OBVIOUS
<1>2. c \in Logs /\ row[c].st = "unused"
  BY <1>1, <1>c DEF Unused
<1>3. OpenLogs(z)' = {c} /\ \A x \in Zones : x # z => OpenLogs(x)' = OpenLogs(x)
  BY <1>1, <1>2, <1>c DEF OpenLogs
<1>4. Past' = Past /\ c \notin Past
  BY <1>1, <1>2, <1>c DEF Past
<1>5. Current' = [Current EXCEPT ![z] = c]
  <2>1. Current'[z] = c
    BY <1>1, <1>2, <1>3, CurrentWillBe
  <2>2. \A x \in Zones : x # z => Current'[x] = Current[x]
    BY <1>3, CurrentStays
  <2>3. Current = [x \in Zones |-> Current[x]] /\ Current' = [x \in Zones |-> Current'[x]]
    BY DEF Current
  <2> QED
    BY <1>1, <2>1, <2>2, <2>3
<1>6. Current[z] = None /\ \A x \in Zones : Current[x] # c
  BY <1>1, <1>2, CurrentIs DEF OpenLogs
<1>7. Ledger!OpenCycle(z, c)
  BY <1>4, <1>5, <1>6 DEF Ledger!OpenCycle, Current, Past
<1> QED
  BY <1>1, <1>2, <1>7

LEMMA LogsInit == Init => LogInv
<1> SUFFICES ASSUME Init PROVE LogInv
  OBVIOUS
<1>1. /\ (\A t \in Tickers : task[t].pc = "idle") /\ (\A l \in Logs : row[l].st = "unused")
      /\ \A e \in Engines : ~eng[e].running
  BY DEF Init, NoTask
<1>2. \A z : OpenLogs(z) = {}
  BY <1>1 DEF OpenLogs
<1> QED
  BY <1>1, <1>2, CoreInit DEF LogInv, LogsSound

(* The scheduler and its engines keep the ledger of cycles, whatever ticks,
   toggles, synchronisations, failures and crashes interleave: at any moment at
   most one cycle of a zone is not over, and a cycle that is over stays so.
   This is the promise of scheduler.py and of the writes of cycle_engine.py to
   cycle_logs, without a restore in between and without a zone that gets rooms
   back while a tick of its former engine is in flight, which break it. *)
THEOREM LedgerKept ==
    ASSUME MaxRestores = 0
    PROVE  Spec /\ [][NoRevival]_vars => KeepsLedger
<1>1. Init => Ledger!InitLedger
  <2> SUFFICES ASSUME Init PROVE Ledger!InitLedger
    OBVIOUS
  <2>1. LogInv /\ \A l \in Logs : row[l].st = "unused"
    BY LogsInit DEF Init
  <2>2. (\A z : OpenLogs(z) = {}) /\ Past = {}
    BY <2>1 DEF OpenLogs, Past
  <2>3. Current = [z \in Zones |-> None]
    BY <2>2 DEF Current
  <2> QED
    BY <2>2, <2>3 DEF Ledger!InitLedger, Current, Past
<1>2. LogInv /\ [Next]_vars /\ [NoRevival]_vars => LogInv'
  BY LogsNext
<1>3. LogInv /\ LogInv' /\ [Next]_vars => [Ledger!NextLedger]_(Ledger!ledger)
  <2> SUFFICES ASSUME LogInv, LogInv', [Next]_vars PROVE [Ledger!NextLedger]_(Ledger!ledger)
    OBVIOUS
  <2>1. ASSUME NEW t \in Tickers, InsertLog(t) PROVE Ledger!NextLedger
    BY <2>1, InsertOpens DEF Ledger!NextLedger
  <2>2. ASSUME NEW S, Closes(S) PROVE Ledger!NextLedger \/ UNCHANGED <<Current, Past>>
    BY <2>2, ClosesCycles DEF Ledger!NextLedger
  <2>3. Ledger!NextLedger \/ UNCHANGED <<Current, Past>>
    BY <2>1, <2>2, RowEffect
  <2> QED
    BY <2>3 DEF Ledger!ledger, Current, Past
<1> QED
  BY LogsInit, <1>1, <1>2, <1>3, PTL DEF Spec, KeepsLedger, Ledger!LedgerSpec

-----------------------------------------------------------------------------
(* Without failures every open log is the one its engine runs, and every    *)
(* engine that runs one is of the fleet, or about to be.                    *)

Runs(e, l)  == eng[e].running /\ eng[e].log = l
Building(z) == sync.pc = "publish" /\ sync.zone = z

Accounts ==
    /\ \A e \in Engines : eng[e].running => Seated(e) \/ (sync.pc = "publish" /\ sync.engine = e)
    /\ \A z \in Zones : \A l \in OpenLogs(z) :
           \/ pub[z] # None /\ Runs(pub[z], l)
           \/ Building(z) /\ Runs(sync.engine, l)
           \/ pub[z] = None /\ ~Building(z) /\ used["crashes"] > 0
    /\ Leaving => OpenLogs(sync.zone) = {} /\ ~eng[pub[sync.zone]].running
Accounted == used["faults"] = 0 => Accounts
AccountInv == LogInv /\ Accounted

(* What is spent is not given back. *)
LEMMA UsedGrows ==
    ASSUME MaxRestores = 0, LogInv, [Next]_vars
    PROVE  \A j \in Kinds : used[j] \in Nat /\ used'[j] \in Nat /\ used'[j] >= used[j]
<1> DEFINE Grows == \A j \in Kinds : used[j] \in Nat /\ used'[j] \in Nat /\ used'[j] >= used[j]
<1> SUFFICES Grows
  OBVIOUS
<1>u. used \in [Kinds -> Nat]
  BY DEF LogInv, CoreInv, TypeInv, TypeOK
<1>s. ASSUME NEW k \in Kinds, Spend(k) PROVE Grows
  BY <1>s, <1>u DEF Spend
<1>e. UNCHANGED used => Grows
  BY <1>u
<1>k. {"toggles", "moves", "faults", "crashes"} \subseteq Kinds
  BY DEF Kinds
<1> HIDE DEF Grows
<1>m. ASSUME NEW b, Mishap(b) PROVE Grows
  BY <1>e, <1>k, <1>m, <1>s DEF Mishap
<1>1. ASSUME NEW x, NEW f, NEW logged \in BOOLEAN, NEW parked \in BOOLEAN, EndCycle(x, f, logged, parked)
      PROVE  Grows
  <2>1. Mishap(~(logged /\ parked))
    BY <1>1 DEF EndCycle
  <2> QED
    BY <1>m, <2>1
<1>2. ASSUME NEW x, NEW f, ForceAbort(x, f) PROVE Grows
  BY <1>1, <1>2, <1>e, <1>m DEF ForceAbort, NothingToEnd
<1>3. ASSUME NEW t \in Tickers, TaskStep(t) \/ \E z \in Zones : TickBegin(t, z) PROVE Grows
  <2>1. CASE TickRunning(t)
    <3>1. UNCHANGED used \/ \E logged, parked \in BOOLEAN : EndCycle(task[t].engine, task[t].file, logged, parked)
      BY <2>1, Zenon DEF TickRunning
    <3> QED
      BY <1>1, <1>e, <3>1
  <2>2. CASE TickRaises(t)
    BY <1>m, <2>2 DEF TickRaises
  <2>3. CASE ~TickRunning(t) /\ ~TickRaises(t)
    <3>1. UNCHANGED used
      BY <1>3, <2>3, Zenon DEF TaskStep, TickIdle, CloseOwn, CloseCross, InsertLog, JoinRooms, TickBegin
    <3> QED
      BY <1>e, <3>1
  <2> QED
    BY <2>1, <2>2, <2>3
<1>4. ASSUME NEW z \in Zones, ToggleAborts(z) \/ RemoveAborts(z) PROVE Grows
  BY <1>2, <1>4 DEF ToggleAborts, RemoveAborts
<1>5. CASE ToggleStep
  BY <1>4, <1>5, <1>e, <1>k, <1>s DEF ToggleStep, ToggleAdvances, ToggleBreaks, ToggleCloses
<1>6. CASE SyncStep \/ SyncBegins
  <2>1. ASSUME NEW z \in Zones, NEW e \in Engines, Build(z, e) PROVE Grows
    BY <1>e, <1>m, <2>1 DEF Build, Discard
  <2> QED
    BY <1>4, <1>6, <1>e, <1>k, <1>s, <2>1, Zenon DEF SyncStep, SyncBegins, Publish, RemoveCloses, RemovePops,
       SyncEnds, SyncRaises
<1>7. CASE Outside /\ ~SwapFile
  BY <1>7, <1>k, <1>s DEF Outside, Toggle, Crash, MoveRoom
<1> QED
  BY <1>3, <1>5, <1>6, <1>7, <1>e, StillNext DEF Next, vars, LogInv, CoreInv

(* What a step has to show that builds, publishes and removes nothing and
   inserts no log: who stops running has had its log closed. *)
LEMMA AccountFrame ==
    ASSUME LogInv, Accounts, NEW S, Closes(S),
           UNCHANGED pub,
           \A e \in Engines : /\ eng'[e].zone = eng[e].zone
                              /\ eng'[e].running => eng'[e] = eng[e]
                              /\ eng[e].running /\ ~eng'[e].running => eng[e].log \in S,
           sync.pc = "publish" \/ sync'.pc = "publish" => sync' = sync,
           Leaving' => Leaving /\ sync'.zone = sync.zone,
           used["crashes"] \in Nat /\ used'["crashes"] \in Nat /\ used'["crashes"] >= used["crashes"]
    PROVE  Accounts'
<1>o. \A z : OpenLogs(z)' = OpenLogs(z) \ S
  BY DEF Closes, OpenLogs
<1>p. pub \in [Zones -> Engines \cup {None}] /\ None \notin Engines
  BY LockParts DEF LogInv
<1>1. ASSUME NEW e \in Engines, eng'[e].running
      PROVE  Seated(e)' \/ (sync'.pc = "publish" /\ sync'.engine = e)
  BY <1>1 DEF Accounts, Seated
<1>2. ASSUME NEW z \in Zones, NEW l \in OpenLogs(z)'
      PROVE  \/ pub'[z] # None /\ Runs(pub[z], l)'
             \/ Building(z)' /\ Runs(sync.engine, l)'
             \/ pub'[z] = None /\ ~Building(z)' /\ used'["crashes"] > 0
  <2>1. l \in OpenLogs(z) /\ l \notin S
    BY <1>2, <1>o
  <2>2. \A e \in Engines : Runs(e, l) => Runs(e, l)'
    BY <2>1 DEF Runs
  <2>3. Building(z)' <=> Building(z)
    BY DEF Building
  <2>4. CASE pub[z] # None /\ Runs(pub[z], l)
    BY <1>p, <2>2, <2>4 DEF Runs
  <2>5. CASE Building(z) /\ Runs(sync.engine, l)
    <3>1. sync.engine \in Engines /\ sync' = sync
      BY <2>5 DEF Building, LogInv, CoreInv, Seats
    <3> QED
      BY <2>2, <2>3, <2>5, <3>1 DEF Runs
  <2>6. CASE pub[z] = None /\ ~Building(z) /\ used["crashes"] > 0
    BY <2>3, <2>6
  <2> QED
    BY <2>1, <2>4, <2>5, <2>6 DEF Accounts
<1>3. Leaving' => OpenLogs(sync.zone)' = {} /\ ~eng'[pub'[sync'.zone]].running
  <2>1. ASSUME Leaving' PROVE OpenLogs(sync.zone)' = {} /\ ~eng'[pub'[sync'.zone]].running
    <3>z. PICK z : z = sync.zone
      OBVIOUS
    <3>1. Leaving /\ sync'.zone = z /\ OpenLogs(z) = {} /\ ~eng[pub[z]].running
      BY <2>1, <3>z DEF Accounts
    <3>2. z \in Zones /\ pub[z] \in Engines
      BY <1>p, <3>1, <3>z DEF LogInv, CoreInv, Seats, Published
    <3>3. OpenLogs(z)' = {}
      BY <1>o, <3>1
    <3> QED
      BY <3>1, <3>2, <3>3 DEF OpenLogs
  <2> QED
    BY <2>1
<1> QED
  BY <1>1, <1>2, <1>3 DEF Accounts

(* A start adds a log and runs it, in a zone whose engine stays. *)
LEMMA AccountInsert ==
    ASSUME MaxRestores = 0, LogInv, Accounts, NEW t \in Tickers, InsertLog(t)
    PROVE  Accounts'
<1>e. PICK e : e = task[t].engine
  OBVIOUS
<1>z. PICK z : z = eng[e].zone
  OBVIOUS
<1>1. /\ e \in Engines /\ z \in Zones /\ pub[z] = e /\ OpenLogs(z) = {} /\ FreshLog \in Unused /\ lock[e] = t
      /\ \A l \in Logs : IF l = FreshLog THEN row'[l].zone = z /\ row'[l].st = "open" ELSE row'[l] = row[l]
      /\ eng'[e].running /\ eng'[e].log = FreshLog /\ eng'[e].zone = z
      /\ \A x \in Engines : x # e => eng'[x] = eng[x]
  BY <1>e, <1>z, InsertEffect
<1>2. UNCHANGED <<pub, sync, used>>
  BY DEF InsertLog, control
<1>3. OpenLogs(z)' = {FreshLog} /\ \A x \in Zones : x # z => OpenLogs(x)' = OpenLogs(x)
  BY <1>1 DEF OpenLogs, Unused
<1>p. pub \in [Zones -> Engines \cup {None}] /\ None \notin Engines /\ None \notin Tickers
  BY LockParts DEF LogInv
<1>4. \A x \in Zones : pub[x] # None /\ x # z => pub[x] \in Engines /\ pub[x] # e
  BY <1>p, <1>z, <1>1 DEF LogInv, CoreInv, Seats
<1>5. sync.pc = "publish" => sync.engine \in Engines /\ sync.engine # e /\ sync.zone # z
  BY <1>1, <1>e, <1>p DEF LogInv, CoreInv, Seats
<1>6. Leaving => sync.zone # z /\ sync.zone \in Zones /\ pub[sync.zone] # None
  BY <1>1, <1>p DEF LogInv, CoreInv, Seats, Locked, Published
<1>7. ASSUME NEW x \in Engines, eng'[x].running
      PROVE  Seated(x)' \/ (sync'.pc = "publish" /\ sync'.engine = x)
  <2>1. CASE x = e
    BY <1>1, <1>2, <2>1 DEF Seated
  <2>2. CASE x # e
    BY <1>1, <1>2, <1>7, <2>2 DEF Accounts, Seated
  <2> QED
    BY <2>1, <2>2
<1>8. ASSUME NEW x \in Zones, NEW l \in OpenLogs(x)'
      PROVE  \/ pub'[x] # None /\ Runs(pub[x], l)'
             \/ Building(x)' /\ Runs(sync.engine, l)'
             \/ pub'[x] = None /\ ~Building(x)' /\ used'["crashes"] > 0
  <2>1. CASE x = z
    BY <1>1, <1>2, <1>3, <1>8, <1>p, <2>1 DEF Runs
  <2>2. CASE x # z
    <3>1. l \in OpenLogs(x)
      BY <1>3, <1>8, <2>2
    <3>2. pub[x] # None => (Runs(pub[x], l)' <=> Runs(pub[x], l))
      BY <1>1, <1>2, <1>4, <2>2 DEF Runs
    <3>3. Building(x) => (Runs(sync.engine, l)' <=> Runs(sync.engine, l))
      BY <1>1, <1>2, <1>5 DEF Runs, Building
    <3> QED
      BY <1>2, <3>1, <3>2, <3>3 DEF Accounts, Building
  <2> QED
    BY <2>1, <2>2
<1>9. ASSUME Leaving' PROVE OpenLogs(sync.zone)' = {} /\ ~eng'[pub'[sync'.zone]].running
  <2>y. PICK y : y = sync.zone
    OBVIOUS
  <2>1. Leaving /\ sync'.zone = y /\ y # z /\ y \in Zones /\ pub[y] # None
    BY <1>2, <1>6, <1>9, <2>y DEF Leaving
  <2>2. OpenLogs(y) = {} /\ ~eng[pub[y]].running
    BY <2>1, <2>y DEF Accounts
  <2>3. OpenLogs(y)' = {} /\ ~eng'[pub[y]].running
    BY <1>1, <1>3, <1>4, <2>1, <2>2
  <2> QED
    BY <1>2, <2>1, <2>3 DEF OpenLogs
<1> QED
  BY <1>7, <1>8, <1>9 DEF Accounts

(* The synchronisation: an engine is built to run the log of its zone, and
   one is taken out when its cycle is over and its zone has no log. *)
LEMMA AccountSync ==
    ASSUME MaxRestores = 0, LogInv, Accounts, SyncStep \/ SyncBegins, [Next]_vars,
           used["faults"] = 0, used'["faults"] = 0, NEW S, Closes(S)
    PROVE  Accounts'
<1> USE DEF flags, fleet, control, conn, store
<1>p. pub \in [Zones -> Engines \cup {None}] /\ None \notin Engines /\ None \notin Zones
  BY LockParts DEF LogInv
<1>u. used["crashes"] \in Nat /\ used'["crashes"] \in Nat /\ used'["crashes"] >= used["crashes"]
  BY UsedGrows DEF Kinds
<1>o. \A z : OpenLogs(z)' = OpenLogs(z) \ S
  BY DEF Closes, OpenLogs
<1>f. used["faults"] \in Nat /\ ~Spend("faults")
  BY UsedGrows DEF Kinds, Spend, LogInv, CoreInv, TypeInv, TypeOK
<1>y. sync \in [pc : {"idle", "create", "publish", "remove", "close", "pop"},
                zones : SUBSET Zones, zone : Zones \cup {None}, engine : Engines \cup {None}]
  BY DEF LogInv, CoreInv, TypeInv, TypeOK
<1>1. CASE SyncBegins \/ RemoveCloses \/ SyncEnds \/ SyncRaises
  <2>1. UNCHANGED <<pub, eng>> /\ sync.pc # "publish"
    BY <1>1 DEF SyncBegins, RemoveCloses, SyncEnds, SyncRaises, LogInv, CoreInv, Still
  <2>2. CASE RemoveCloses
    <3>1. sync.pc = "close" /\ sync'.pc = "pop" /\ sync'.zone = sync.zone
      BY <1>y, <2>2 DEF RemoveCloses
    <3> QED
      BY <1>u, <2>1, <3>1, AccountFrame DEF Leaving
  <2>3. CASE SyncBegins \/ SyncEnds \/ SyncRaises
    <3>1. sync'.pc \in {"idle", "create"}
      <4>1. SyncBegins => sync'.pc = "create"
        BY DEF SyncBegins, NoSync
      <4>2. SyncEnds \/ SyncRaises => sync'.pc = "idle"
        BY DEF SyncEnds, SyncRaises, NoSync
      <4> QED
        BY <2>3, <4>1, <4>2
    <3> QED
      BY <1>u, <2>1, <3>1, AccountFrame DEF Leaving
  <2> QED
    BY <1>1, <2>2, <2>3
<1>2. ASSUME NEW z \in Zones, NEW e \in Engines, Build(z, e) PROVE Accounts'
  <2> DEFINE open == OpenLogs(z)
             last == CHOOSE l \in open : \A m \in open : m <= l
             warm == [zone |-> z, running |-> TRUE, log |-> last, file |-> link]
  <2>1. /\ UNCHANGED <<pub, used>> /\ sync.pc = "create" /\ pub[z] = None /\ ~eng[e].running
        /\ (\A x \in Zones : pub[x] # e)
        /\ sync'.pc = "publish" /\ sync'.zone = z /\ sync'.engine = e
        /\ Resume(z, e) \/ Discard(z, e, TRUE)
    <3>1. ASSUME Discard(z, e, FALSE) PROVE FALSE
      BY <1>f, <3>1 DEF Discard, Mishap, Spend
    <3> QED
      BY <1>2, <1>f, <1>y, <3>1 DEF Build, Idle, Published, Discard, Mishap
  <2>2. eng \in [Engines -> EngineRecords]
    BY DEF LogInv, CoreInv, TypeInv, TypeOK
  <2>3. \A x \in Engines : x # e => eng'[x] = eng[x]
    <3>1. \E c : eng' = [eng EXCEPT ![e] = c]
      BY <2>1 DEF Resume, Discard
    <3> QED
      BY <2>2, <3>1
  <2>5. \A l \in OpenLogs(z)' : Runs(e, l)'
    <3>l. PICK k : k = last
      OBVIOUS
    <3>1. CASE open = {}
      BY <1>o, <3>1
    <3>2. CASE open # {} /\ Resume(z, e)
      <4>1. row' = Over(open \ {k}) /\ eng' = [eng EXCEPT ![e] = warm]
        BY <3>l, <3>2 DEF Resume
      <4>2. Closes(open \ {k})
        <5>1. open \ {k} \subseteq Logs \ Unused
          BY DEF OpenLogs, Unused
        <5> QED
          BY <4>1, <5>1, OverCloses DEF LogInv
      <4>3. OpenLogs(z)' \subseteq {k}
        BY <4>2 DEF Closes, OpenLogs
      <4>4. warm.running /\ warm.log = k
        BY <3>l
      <4> HIDE DEF warm
      <4>5. eng'[e] = warm
        BY <2>2, <4>1
      <4> QED
        BY <4>3, <4>4, <4>5 DEF Runs
    <3>3. CASE Discard(z, e, TRUE)
      <4>1. open \subseteq Logs \ Unused
        BY DEF OpenLogs, Unused
      <4>2. Closes(open)
        BY <3>3, <4>1, OverCloses DEF Discard, LogInv
      <4> QED
        BY <4>2 DEF Closes, OpenLogs
    <3> QED
      BY <2>1, <3>1, <3>2, <3>3
  <2> HIDE DEF open, last, warm
  <2>6. ASSUME NEW x \in Engines, eng'[x].running PROVE Seated(x)' \/ (sync'.pc = "publish" /\ sync'.engine = x)
    BY <2>1, <2>3, <2>6 DEF Accounts, Seated
  <2>7. ASSUME NEW x \in Zones, NEW l \in OpenLogs(x)'
        PROVE  \/ pub'[x] # None /\ Runs(pub[x], l)'
               \/ Building(x)' /\ Runs(sync.engine, l)'
               \/ pub'[x] = None /\ ~Building(x)' /\ used'["crashes"] > 0
    <3>1. CASE x = z
      BY <2>1, <2>5, <2>7, <3>1 DEF Building, Runs
    <3>2. CASE x # z
      <4>1. l \in OpenLogs(x) /\ ~Building(x)' /\ ~Building(x)
        BY <1>o, <2>1, <2>7, <3>2 DEF Building
      <4>2. pub[x] # None => (Runs(pub[x], l)' <=> Runs(pub[x], l))
        BY <1>p, <2>1, <2>3 DEF Runs
      <4> QED
        BY <2>1, <4>1, <4>2 DEF Accounts
    <3> QED
      BY <3>1, <3>2
  <2> QED
    BY <2>1, <2>6, <2>7 DEF Accounts, Leaving
<1>3. CASE Publish
  <2>z. PICK z : z = sync.zone
    OBVIOUS
  <2>e. PICK e : e = sync.engine
    OBVIOUS
  <2>1. /\ UNCHANGED <<eng, row, used>> /\ sync.pc = "publish" /\ pub' = [pub EXCEPT ![z] = e] /\ sync'.pc = "create"
    BY <1>3, <1>y, <2>e, <2>z DEF Publish
  <2>2. z \in Zones /\ pub[z] = None /\ e \in Engines /\ eng[e].zone = z
    BY <2>1, <2>e, <2>z DEF LogInv, CoreInv, Seats
  <2>3. pub'[z] = e /\ \A x \in Zones : x # z => pub'[x] = pub[x]
    BY <1>p, <2>1, <2>2
  <2>4. ASSUME NEW x \in Engines, eng'[x].running PROVE Seated(x)'
    <3>1. CASE x = e
      BY <2>1, <2>2, <2>3, <3>1 DEF Seated
    <3>2. CASE x # e
      BY <1>p, <2>1, <2>2, <2>3, <2>4, <2>e, <3>2 DEF Accounts, Seated
    <3> QED
      BY <3>1, <3>2
  <2>5. ASSUME NEW x \in Zones, NEW l \in OpenLogs(x)'
        PROVE  (pub'[x] # None /\ Runs(pub[x], l)') \/ (pub'[x] = None /\ ~Building(x)' /\ used'["crashes"] > 0)
    <3>1. l \in OpenLogs(x)
      BY <1>o, <2>5
    <3>2. CASE x = z
      <4>1. Runs(e, l)
        BY <2>1, <2>2, <2>e, <2>z, <3>1, <3>2 DEF Accounts, Building
      <4> QED
        BY <1>p, <2>1, <2>2, <2>3, <3>2, <4>1 DEF Runs
    <3>3. CASE x # z
      <4>1. ~Building(x) /\ ~Building(x)'
        BY <2>1, <2>z, <3>3 DEF Building
      <4> QED
        BY <2>1, <2>3, <3>1, <3>3, <4>1 DEF Accounts, Runs
    <3> QED
      BY <3>2, <3>3
  <2> QED
    BY <2>1, <2>4, <2>5 DEF Accounts, Leaving
<1>4. ASSUME NEW z \in Zones, RemoveAborts(z) PROVE Accounts'
  <2>e. PICK e : e = pub[z]
    OBVIOUS
  <2>1. /\ UNCHANGED pub /\ sync.pc \in {"create", "remove"} /\ sync'.pc = "close" /\ sync'.zone = z
        /\ e \in Engines /\ e # None /\ ForceAbort(e, link)
    BY <1>4, <1>p, <1>y, <2>e DEF RemoveAborts, Published
  <2>2. /\ \A x \in Engines : eng'[x].zone = eng[x].zone
        /\ \A x \in Engines : x # e => eng'[x] = eng[x]
    BY <2>1, AbortSeats DEF LogInv
  <2>3. IF eng[e].running THEN Closes({eng[e].log}) /\ ~eng'[e].running ELSE Closes({}) /\ UNCHANGED <<eng, driven>>
    BY <2>1, AbortCloses, OneFile DEF LogInv, CoreInv
  <2>4. \A l \in OpenLogs(z) : Runs(e, l)
    BY <2>1, <2>e DEF Accounts, Building
  <2>5. OpenLogs(z)' = {} /\ ~eng'[e].running
    BY <2>3, <2>4 DEF Runs, Closes, OpenLogs
  <2>6. ASSUME NEW x \in Engines, eng'[x].running PROVE Seated(x)' \/ (sync'.pc = "publish" /\ sync'.engine = x)
    BY <2>1, <2>2, <2>5, <2>6 DEF Accounts, Seated
  <2>7. ASSUME NEW x \in Zones, NEW l \in OpenLogs(x)'
        PROVE  \/ pub'[x] # None /\ Runs(pub[x], l)'
               \/ Building(x)' /\ Runs(sync.engine, l)'
               \/ pub'[x] = None /\ ~Building(x)' /\ used'["crashes"] > 0
    <3>1. x # z /\ l \in OpenLogs(x) /\ ~Building(x)' /\ ~Building(x)
      BY <1>o, <2>1, <2>5, <2>7 DEF Building
    <3>2. pub[x] # None => pub[x] \in Engines /\ pub[x] # e
      BY <1>p, <2>1, <2>e, <3>1 DEF LogInv, CoreInv, Seats
    <3> QED
      BY <1>u, <2>1, <2>2, <3>1, <3>2 DEF Accounts, Runs
  <2>8. OpenLogs(sync.zone)' = {} /\ ~eng'[pub'[sync'.zone]].running
    BY <2>1, <2>5, <2>e DEF OpenLogs
  <2> QED
    BY <2>6, <2>7, <2>8 DEF Accounts
<1>5. CASE RemovePops
  <2>z. PICK z : z = sync.zone
    OBVIOUS
  <2>1. UNCHANGED <<eng, row, used>> /\ sync.pc = "pop" /\ pub' = [pub EXCEPT ![z] = None] /\ sync'.pc = "remove"
    BY <1>5, <1>y, <2>z DEF RemovePops
  <2>2. z \in Zones /\ pub[z] \in Engines /\ OpenLogs(z) = {} /\ ~eng[pub[z]].running
    BY <1>p, <2>1, <2>z DEF LogInv, CoreInv, Seats, Leaving, Published, Accounts
  <2>3. pub'[z] = None /\ \A x \in Zones : x # z => pub'[x] = pub[x]
    BY <1>p, <2>1, <2>2
  <2>4. ASSUME NEW x \in Engines, eng'[x].running PROVE Seated(x)'
    <3>1. Seated(x) /\ x # pub[z]
      BY <2>1, <2>2, <2>4 DEF Accounts
    <3> QED
      BY <2>1, <2>3, <3>1 DEF Seated
  <2>5. ASSUME NEW x \in Zones, NEW l \in OpenLogs(x)'
        PROVE  (pub'[x] # None /\ Runs(pub[x], l)') \/ (pub'[x] = None /\ ~Building(x)' /\ used'["crashes"] > 0)
    <3>1. l \in OpenLogs(x) /\ x # z /\ ~Building(x) /\ ~Building(x)'
      BY <1>o, <2>1, <2>2, <2>5 DEF Building
    <3> QED
      BY <2>1, <2>3, <3>1 DEF Accounts, Runs
  <2> QED
    BY <2>1, <2>4, <2>5 DEF Accounts, Leaving
<1> QED
  BY <1>1, <1>2, <1>3, <1>4, <1>5 DEF SyncStep

(* Every step accounts for what it does, as long as nothing has failed. *)
LEMMA AccountNext ==
    ASSUME MaxRestores = 0, AccountInv, [Next]_vars, [NoRevival]_vars
    PROVE  AccountInv'
<1> USE DEF flags, fleet, control, conn, store
<1>1. LogInv /\ LogInv'
  BY LogsNext DEF AccountInv
<1> SUFFICES ASSUME used'["faults"] = 0 PROVE Accounts'
  BY <1>1 DEF AccountInv, Accounted
<1>u. /\ used["crashes"] \in Nat /\ used'["crashes"] \in Nat /\ used'["crashes"] >= used["crashes"]
      /\ used["faults"] = 0
  BY <1>1, UsedGrows DEF Kinds
<1>a. Accounts
  BY <1>u DEF AccountInv, Accounted
<1>p. \A z \in Published : pub[z] \in Engines
  BY <1>1, LockParts DEF Published, LogInv
<1>0. ASSUME UNCHANGED <<pub, eng, sync>>, NEW S, Closes(S) PROVE Accounts'
  BY <1>0, <1>1, <1>a, <1>u, AccountFrame DEF Leaving
<1>2. ASSUME NEW e \in Engines, NEW S, Closes(S), UNCHANGED <<pub, sync>>, eng[e].running => eng[e].log \in S,
             \A x \in Engines : eng'[x].zone = eng[x].zone,
             \A x \in Engines : x # e => eng'[x] = eng[x],
             eng'[e].running => eng'[e] = eng[e]
      PROVE  Accounts'
  BY <1>1, <1>2, <1>a, <1>u, AccountFrame DEF Leaving
<1>3. ASSUME NEW t \in Tickers, TaskStep(t) \/ \E z \in Zones : TickBegin(t, z), NEW S, Closes(S)
      PROVE  Accounts'
  <2>1. ASSUME TickRunning(t), NEW logged \in BOOLEAN, NEW parked \in BOOLEAN,
               EndCycle(task[t].engine, task[t].file, logged, parked)
        PROVE  Accounts'
    <3>1. task[t].engine \in Engines /\ eng[task[t].engine].running /\ UNCHANGED <<pub, sync>>
      BY <1>1, <2>1, LockParts, Zenon DEF TickRunning, Works, LogInv
    <3>2. Closes(IF logged THEN {eng[task[t].engine].log} ELSE {}) /\ logged
      BY <1>1, <2>1, <3>1, EndCloses, OneFile DEF LogInv, CoreInv
    <3>3. Closes({eng[task[t].engine].log})
      BY <3>2
    <3> QED
      BY <1>1, <1>2, <2>1, <3>1, <3>3, EndSeats DEF LogInv
  <2>2. CASE TickRunning(t) /\ UNCHANGED eng
    BY <1>0, <1>3, <2>2, Zenon DEF TickRunning
  <2>3. CASE InsertLog(t)
    BY <1>1, <1>a, <2>3, AccountInsert
  <2>4. CASE TickIdle(t) \/ CloseOwn(t) \/ CloseCross(t) \/ JoinRooms(t) \/ TickRaises(t)
             \/ \E z \in Zones : TickBegin(t, z)
    <3>1. UNCHANGED <<pub, eng, sync>>
      BY <2>4, Zenon DEF TickIdle, CloseOwn, CloseCross, JoinRooms, TickRaises, TickBegin
    <3> QED
      BY <1>0, <1>3, <3>1
  <2>5. TickRunning(t) => UNCHANGED eng \/ \E logged, parked \in BOOLEAN :
                                               EndCycle(task[t].engine, task[t].file, logged, parked)
    BY Zenon DEF TickRunning
  <2> QED
    BY <1>3, <2>1, <2>2, <2>3, <2>4, <2>5 DEF TaskStep
<1>4. ASSUME NEW z \in Zones, ToggleAborts(z) PROVE Accounts'
  <2>1. pub[z] \in Engines /\ ForceAbort(pub[z], link) /\ UNCHANGED <<pub, sync>>
    BY <1>4, <1>p DEF ToggleAborts, Turn
  <2>2. IF eng[pub[z]].running THEN Closes({eng[pub[z]].log}) /\ ~eng'[pub[z]].running
        ELSE Closes({}) /\ UNCHANGED <<eng, driven>>
    BY <1>1, <2>1, AbortCloses, OneFile DEF LogInv, CoreInv
  <2>3. /\ \A x \in Engines : eng'[x].zone = eng[x].zone
        /\ \A x \in Engines : x # pub[z] => eng'[x] = eng[x]
    BY <1>1, <2>1, AbortSeats DEF LogInv
  <2>4. CASE eng[pub[z]].running
    BY <1>2, <2>1, <2>2, <2>3, <2>4
  <2>5. CASE ~eng[pub[z]].running
    BY <1>0, <2>1, <2>2, <2>5
  <2> QED
    BY <2>4, <2>5
<1>5. ASSUME ToggleStep, NEW S, Closes(S) PROVE Accounts'
  <2>1. ASSUME ~\E z \in Zones : ToggleAborts(z) PROVE UNCHANGED <<pub, eng, sync>>
    BY <1>5, <2>1 DEF ToggleStep, ToggleAdvances, ToggleBreaks, ToggleCloses
  <2> QED
    BY <1>0, <1>4, <1>5, <2>1
<1>6. CASE Crash
  <2>1. used'["crashes"] > 0
    <3>1. used'["crashes"] = used["crashes"] + 1
      BY <1>1, <1>6 DEF Crash, Spend, Kinds, LogInv, CoreInv, TypeInv, TypeOK
    <3> QED
      BY <1>u, <3>1
  <2>2. /\ (\A z \in Zones : pub'[z] = None) /\ (\A e \in Engines : ~eng'[e].running) /\ sync'.pc = "idle"
    BY <1>6 DEF Crash, NoSync
  <2> QED
    BY <2>1, <2>2 DEF Accounts, Leaving, Building
<1>7. ASSUME Outside, ~Crash, ~SwapFile, NEW S, Closes(S) PROVE Accounts'
  <2>1. ASSUME NEW r \in Rooms, NEW z \in Zones \cup {None}, MoveRoom(r, z) PROVE UNCHANGED <<pub, eng, sync>>
    BY <2>1 DEF MoveRoom
  <2>2. ASSUME NEW sys \in BOOLEAN, NEW develop \in DevModes, Toggle(sys, develop) PROVE UNCHANGED <<pub, eng, sync>>
    BY <2>2 DEF Toggle
  <2> QED
    BY <1>0, <1>7, <2>1, <2>2 DEF Outside
<1>8. CASE UNCHANGED vars
  BY <1>0, <1>1, <1>8, RoomsCloseNothing DEF vars, LogInv
<1>9. ASSUME NEW t \in Tickers, InsertLog(t) PROVE Accounts'
  BY <1>1, <1>9, <1>a, AccountInsert
<1>10. ASSUME Next, NEW S, Closes(S) PROVE Accounts'
  <2>1. ~SwapFile /\ ~ReloadStep
    BY <1>1, StillNext DEF LogInv, CoreInv
  <2>2. CASE SyncStep \/ SyncBegins
    BY <1>1, <1>10, <1>a, <1>u, <2>2, AccountSync
  <2> QED
    BY <1>3, <1>5, <1>6, <1>7, <1>10, <2>1, <2>2 DEF Next
<1> QED
  BY <1>1, <1>8, <1>9, <1>10, RowEffect

LEMMA AccountInit == Init => AccountInv
<1> SUFFICES ASSUME Init PROVE AccountInv
  OBVIOUS
<1>1. /\ (\A l \in Logs : row[l].st = "unused") /\ (\A e \in Engines : ~eng[e].running) /\ sync.pc = "idle"
  BY DEF Init, NoSync
<1> QED
  BY <1>1, LogsInit DEF AccountInv, Accounted, Accounts, OpenLogs, Leaving

(* Without failures every open row of cycle_logs is that of the cycle the
   zone's engine runs, whatever ticks, toggles, synchronisations and crashes
   interleave; the exception is a zone that lost its rooms before a crash. *)
THEOREM NothingOrphaned ==
    ASSUME MaxRestores = 0
    PROVE  Spec /\ [][NoRevival]_vars => []NoOrphanLog
<1>1. AccountInv => NoOrphanLog
  <2> SUFFICES ASSUME AccountInv, Settled, used["faults"] = 0, NEW z \in Zones, OpenLogs(z) # {}
               PROVE  IF pub[z] = None THEN used["crashes"] > 0
                      ELSE eng[pub[z]].running /\ OpenLogs(z) = {eng[pub[z]].log}
    BY DEF NoOrphanLog
  <2>1. sync.pc = "idle" /\ Accounts
    BY DEF Settled, NoSync, AccountInv, Accounted
  <2>2. \A l \in OpenLogs(z) : (pub[z] # None /\ Runs(pub[z], l)) \/ (pub[z] = None /\ used["crashes"] > 0)
    BY <2>1 DEF Accounts, Building
  <2> QED
    BY <2>2 DEF Runs
<1>2. AccountInv /\ [Next]_vars /\ [NoRevival]_vars => AccountInv'
  BY AccountNext
<1> QED
  BY AccountInit, <1>1, <1>2, PTL DEF Spec

(* Without failures and restores an engine that runs a cycle is one the
   scheduler still ticks, whatever tick of it was in flight when the last room
   of its thermostat was taken away (scheduler.py:717-741).  A restore takes
   engines out in the same way; the run restore_race shows that there the
   claim is false. *)
THEOREM NoGhostEngine ==
    ASSUME MaxRestores = 0
    PROVE  Spec /\ [][NoRevival]_vars => []RemovedStaysDown
<1>1. AccountInv => RemovedStaysDown
  <2> SUFFICES ASSUME AccountInv, Settled, used["faults"] = 0, NEW e \in Engines, eng[e].running
               PROVE  \E z \in Zones : pub[z] = e
    BY DEF RemovedStaysDown
  <2>1. Seated(e)
    BY DEF Settled, NoSync, AccountInv, Accounted, Accounts
  <2> QED
    BY <2>1 DEF Seated
<1>2. AccountInv /\ [Next]_vars /\ [NoRevival]_vars => AccountInv'
  BY AccountNext
<1> QED
  BY AccountInit, <1>1, <1>2, PTL DEF Spec

-----------------------------------------------------------------------------
(* The setpoints.  A thermostat that stands at the setpoint of a cycle is   *)
(* one whose engine runs a cycle, as long as every park gets through.       *)

Watched == used["faults"] = 0 /\ used["crashes"] = 0 =>
               \A z \in Zones : driven[z] => pub[z] # None /\ eng[pub[z]].running
WatchInv == AccountInv /\ dev = FALSE /\ Watched

(* An end that does not fail parks the setpoint of its zone. *)
LEMMA EndParks ==
    ASSUME MaxRestores = 0, WatchInv, NEW e \in Engines, NEW f, f = file, eng[e].running,
           NEW logged \in BOOLEAN, NEW parked \in BOOLEAN, EndCycle(e, f, logged, parked), used'["faults"] = 0
    PROVE  \A z \in Zones : driven'[z] => driven[z] /\ eng[e].zone # z
<1>1. parked
  BY EndCloses DEF WatchInv, AccountInv
<1>2. driven' = [driven EXCEPT ![eng[e].zone] = driven[eng[e].zone] /\ (dev \/ ~parked)]
  BY Zenon DEF EndCycle
<1>3. driven \in [Zones -> BOOLEAN] /\ dev = FALSE
  BY DEF WatchInv, AccountInv, LogInv, CoreInv, TypeInv, TypeOK
<1>4. ASSUME NEW z \in Zones, driven'[z] PROVE driven[z] /\ eng[e].zone # z
  <2>1. CASE eng[e].zone = z
    <3>1. driven'[z] = (driven[z] /\ (dev \/ ~parked))
      BY <1>2, <1>3, <2>1
    <3> QED
      BY <1>1, <1>3, <1>4, <3>1
  <2>2. CASE eng[e].zone # z
    BY <1>2, <1>3, <1>4, <2>2
  <2> QED
    BY <2>1, <2>2
<1> QED
  BY <1>4

LEMMA AbortParks ==
    ASSUME MaxRestores = 0, WatchInv, NEW e \in Engines, NEW f, f = file, ForceAbort(e, f), used'["faults"] = 0
    PROVE  \A z \in Zones : driven'[z] => driven[z] /\ (eng[e].running => eng[e].zone # z)
<1>1. ASSUME NEW logged \in BOOLEAN, NEW parked \in BOOLEAN, EndCycle(e, f, logged, parked), eng[e].running
      PROVE  \A z \in Zones : driven'[z] => driven[z] /\ eng[e].zone # z
  BY <1>1, EndParks
<1>2. ~Mishap(TRUE)
  BY DEF Mishap, Spend, WatchInv, AccountInv, LogInv, CoreInv, TypeInv, TypeOK, Kinds
<1> QED
  BY <1>1, <1>2, Zenon DEF ForceAbort, NothingToEnd

(* Whoever drives a thermostat is the engine of its zone, and runs. *)
LEMMA DriverRuns ==
    ASSUME MaxRestores = 0, AccountInv, used["faults"] = 0, NEW t \in Tickers, TickRunning(t) \/ JoinRooms(t)
    PROVE  LET e == task[t].engine IN e \in Engines /\ Seated(e) /\ eng[e].running
<1> DEFINE e == task[t].engine
<1>l. e \in Engines
  BY LockParts, Zenon DEF TickRunning, JoinRooms, Works, AccountInv, LogInv
<1>1. CASE TickRunning(t)
  <2>1. eng[e].running /\ task[t].pc = "wait"
    BY <1>1, Zenon DEF TickRunning
  <2>2. ~(sync.pc = "publish" /\ sync.engine = e)
    BY DEF AccountInv, LogInv, CoreInv, Seats
  <2> QED
    BY <1>l, <2>1, <2>2 DEF AccountInv, Accounted, Accounts
<1>2. CASE JoinRooms(t)
  <2>1. task[t].pc = "join"
    BY <1>2 DEF JoinRooms
  <2>2. lock[e] = t /\ t # None
    BY <1>l, <2>1, LockParts DEF LockHeld, AccountInv, LogInv
  <2> QED
    BY <1>l, <2>1, <2>2 DEF AccountInv, LogInv, CoreInv, Locked
<1> QED
  BY <1>1, <1>2

LEMMA WatchNext ==
    ASSUME MaxRestores = 0, DevModes \subseteq {FALSE}, WatchInv, [Next]_vars, [NoRevival]_vars
    PROVE  WatchInv'
<1> USE DEF flags, fleet, control, conn, store
<1>1. AccountInv /\ AccountInv' /\ LogInv /\ dev = FALSE
  BY AccountNext DEF WatchInv, AccountInv
<1>x. ~SwapFile /\ ~ReloadStep
  BY StillNext DEF WatchInv, AccountInv, LogInv, CoreInv
<1>d. dev' = FALSE
  <2>1. ASSUME NEW sys \in BOOLEAN, NEW develop \in DevModes, Toggle(sys, develop) PROVE dev' = FALSE
    BY <2>1 DEF Toggle
  <2>2. ASSUME NEW t \in Tickers, TaskStep(t) \/ \E z \in Zones : TickBegin(t, z) PROVE UNCHANGED dev
    BY <2>2, Zenon DEF TaskStep, TickBegin, TickRunning, TickIdle, CloseOwn, CloseCross, InsertLog, JoinRooms, TickRaises
  <2>3. ASSUME ToggleStep \/ SyncBegins \/ SyncStep PROVE UNCHANGED dev
    <3>1. CASE ToggleStep
      BY <3>1, Zenon DEF ToggleStep, ToggleAdvances, ToggleBreaks, ToggleAborts, ToggleCloses
    <3>2. CASE SyncBegins
      BY <3>2 DEF SyncBegins
    <3>3. CASE SyncStep
      BY <3>3, Zenon DEF SyncStep, Publish, RemoveCloses, RemovePops, SyncEnds, SyncRaises, RemoveAborts, Build
    <3> QED
      BY <2>3, <3>1, <3>2, <3>3
  <2>4. ASSUME NEW r \in Rooms, NEW z \in Zones \cup {None}, MoveRoom(r, z) PROVE UNCHANGED dev
    BY <2>4 DEF MoveRoom
  <2>5. Crash \/ UNCHANGED vars => UNCHANGED dev
    BY DEF Crash, vars
  <2> QED
    BY <1>1, <1>x, <2>1, <2>2, <2>3, <2>4, <2>5 DEF Next, Outside
<1> SUFFICES ASSUME used'["faults"] = 0, used'["crashes"] = 0
             PROVE  \A z \in Zones : driven'[z] => pub'[z] # None /\ eng'[pub'[z]].running
  BY <1>1, <1>d DEF WatchInv, Watched
<1>u. used["faults"] = 0 /\ used["crashes"] = 0
  BY <1>1, UsedGrows DEF Kinds
<1>w. /\ \A z \in Zones : driven[z] => pub[z] # None /\ eng[pub[z]].running
      /\ Accounts /\ driven \in [Zones -> BOOLEAN]
  BY <1>1, <1>u DEF WatchInv, Watched, AccountInv, Accounted, LogInv, CoreInv, TypeInv, TypeOK
<1>p. /\ pub \in [Zones -> Engines \cup {None}] /\ None \notin Engines
      /\ \A z \in Zones : pub[z] # None => pub[z] \in Engines /\ eng[pub[z]].zone = z
  BY <1>1, LockParts DEF LogInv, CoreInv, Seats
<1>0. ASSUME UNCHANGED <<pub, eng, driven>>
      PROVE  \A z \in Zones : driven'[z] => pub'[z] # None /\ eng'[pub'[z]].running
  BY <1>0, <1>w
<1>2. ASSUME NEW e \in Engines, UNCHANGED pub, \A x \in Engines : x # e => eng'[x] = eng[x],
             \A z \in Zones : driven'[z] => driven[z] /\ (eng[e].running => eng[e].zone # z)
      PROVE  \A z \in Zones : driven'[z] => pub'[z] # None /\ eng'[pub'[z]].running
  <2> SUFFICES ASSUME NEW z \in Zones, driven'[z] PROVE pub[z] # None /\ eng'[pub[z]].running
    BY <1>2
  <2>1. pub[z] # None /\ eng[pub[z]].running /\ pub[z] # e
    BY <1>2, <1>p, <1>w
  <2> QED
    BY <1>2, <1>p, <2>1
<1>3. ASSUME NEW t \in Tickers, TickRunning(t) \/ JoinRooms(t), UNCHANGED <<pub, eng>>,
             driven' = [driven EXCEPT ![eng[task[t].engine].zone] = driven[eng[task[t].engine].zone] \/ ~dev]
      PROVE  \A z \in Zones : driven'[z] => pub'[z] # None /\ eng'[pub'[z]].running
  <2>1. Seated(task[t].engine) /\ eng[task[t].engine].running /\ task[t].engine \in Engines
    BY <1>1, <1>3, <1>u, DriverRuns
  <2>2. \A z \in Zones : driven'[z] => driven[z] \/ z = eng[task[t].engine].zone
    BY <1>3, <1>w
  <2> QED
    BY <1>3, <1>p, <1>w, <2>1, <2>2 DEF Seated
<1>4. ASSUME NEW t \in Tickers, TaskStep(t) \/ \E z \in Zones : TickBegin(t, z)
      PROVE  \A z \in Zones : driven'[z] => pub'[z] # None /\ eng'[pub'[z]].running
  <2>1. ASSUME TickRunning(t), NEW logged \in BOOLEAN, NEW parked \in BOOLEAN,
               EndCycle(task[t].engine, task[t].file, logged, parked)
        PROVE  \A z \in Zones : driven'[z] => pub'[z] # None /\ eng'[pub'[z]].running
    <3>1. task[t].engine \in Engines /\ eng[task[t].engine].running /\ UNCHANGED pub /\ task[t].file = file
      BY <1>1, <2>1, LockParts, OneFile, Zenon DEF TickRunning, Works, LogInv, CoreInv
    <3>2. \A z \in Zones : driven'[z] => driven[z] /\ eng[task[t].engine].zone # z
      BY <2>1, <3>1, EndParks
    <3>3. \A x \in Engines : x # task[t].engine => eng'[x] = eng[x]
      BY <1>1, <2>1, <3>1, EndSeats DEF LogInv
    <3> QED
      BY <1>2, <3>1, <3>2, <3>3
  <2>2. ASSUME TickRunning(t), ~\E logged, parked \in BOOLEAN : EndCycle(task[t].engine, task[t].file, logged, parked)
        PROVE  \A z \in Zones : driven'[z] => pub'[z] # None /\ eng'[pub'[z]].running
    <3>1. /\ UNCHANGED <<pub, eng>>
          /\ driven' = [driven EXCEPT ![eng[task[t].engine].zone] = driven[eng[task[t].engine].zone] \/ ~dev]
      BY <2>2, Zenon DEF TickRunning
    <3> QED
      BY <1>3, <2>2, <3>1
  <2>3. CASE JoinRooms(t)
    <3>1. /\ UNCHANGED <<pub, eng>>
          /\ driven' = [driven EXCEPT ![eng[task[t].engine].zone] = driven[eng[task[t].engine].zone] \/ ~dev]
      BY <2>3, Zenon DEF JoinRooms
    <3> QED
      BY <1>3, <2>3, <3>1, Zenon
  <2>4. CASE InsertLog(t)
    <3>1. /\ UNCHANGED <<pub, driven>> /\ eng'[task[t].engine].running
          /\ \A x \in Engines : x # task[t].engine => eng'[x] = eng[x]
      BY <1>1, <2>4, InsertEffect, Zenon DEF InsertLog
    <3> QED
      BY <1>p, <1>w, <3>1
  <2>5. CASE TickIdle(t) \/ CloseOwn(t) \/ CloseCross(t) \/ TickRaises(t) \/ \E z \in Zones : TickBegin(t, z)
    <3>1. UNCHANGED <<pub, eng, driven>>
      BY <2>5, Zenon DEF TickIdle, CloseOwn, CloseCross, TickRaises, TickBegin
    <3> QED
      BY <1>0, <3>1
  <2> QED
    BY <1>4, <2>1, <2>2, <2>3, <2>4, <2>5 DEF TaskStep
<1>5. ASSUME NEW z \in Zones, ToggleAborts(z) \/ RemoveAborts(z)
      PROVE  \A x \in Zones : driven'[x] => pub'[x] # None /\ eng'[pub'[x]].running
  <2>1. pub[z] \in Engines /\ ForceAbort(pub[z], link) /\ UNCHANGED pub /\ link = file
    BY <1>1, <1>5, <1>p, OneFile DEF ToggleAborts, RemoveAborts, Turn, Published, LogInv, CoreInv
  <2>2. \A x \in Zones : driven'[x] => driven[x] /\ (eng[pub[z]].running => eng[pub[z]].zone # x)
    BY <2>1, AbortParks
  <2>3. \A x \in Engines : x # pub[z] => eng'[x] = eng[x]
    BY <1>1, <2>1, AbortSeats DEF LogInv
  <2> QED
    BY <1>2, <2>1, <2>2, <2>3
<1>6. CASE Publish
  <2>1. UNCHANGED <<eng, driven>> /\ pub' = [pub EXCEPT ![sync.zone] = sync.engine] /\ sync.pc = "publish"
    BY <1>6 DEF Publish
  <2>2. sync.zone \in Zones /\ pub[sync.zone] = None
    BY <1>1, <2>1 DEF LogInv, CoreInv, Seats
  <2> QED
    BY <1>p, <1>w, <2>1, <2>2
<1>7. CASE RemovePops
  <2>1. UNCHANGED <<eng, driven>> /\ pub' = [pub EXCEPT ![sync.zone] = None] /\ sync.pc = "pop"
    BY <1>7 DEF RemovePops
  <2>2. ~eng[pub[sync.zone]].running
    BY <1>w, <2>1 DEF Accounts, Leaving
  <2> QED
    BY <1>p, <1>w, <2>1, <2>2
<1>8. ASSUME NEW z \in Zones, NEW e \in Engines, Build(z, e)
      PROVE  \A x \in Zones : driven'[x] => pub'[x] # None /\ eng'[pub'[x]].running
  <2>1. UNCHANGED pub /\ (\A x \in Zones : pub[x] # e) /\ \E c : eng' = [eng EXCEPT ![e] = c]
    <3>1. \E c : eng' = [eng EXCEPT ![e] = c]
      BY <1>8 DEF Build, Resume, Discard
    <3> QED
      BY <1>8, <3>1 DEF Build, Idle
  <2>3. \A x \in Zones : driven'[x] => driven[x]
    <3>1. driven \in [Zones -> BOOLEAN]
      BY <1>1 DEF LogInv, CoreInv, TypeInv, TypeOK
    <3>2. UNCHANGED driven \/ \E b \in BOOLEAN : driven' = [driven EXCEPT ![z] = @ /\ b]
      <4>1. ASSUME NEW parked \in BOOLEAN, Discard(z, e, parked)
            PROVE  \E b \in BOOLEAN : driven' = [driven EXCEPT ![z] = @ /\ b]
        <5> DEFINE b == dev \/ ~parked
        <5>1. b \in BOOLEAN /\ driven' = [driven EXCEPT ![z] = @ /\ b]
          BY <4>1 DEF Discard
        <5> HIDE DEF b
        <5> QED
          BY <5>1
      <4> QED
        BY <1>8, <4>1 DEF Build
    <3> QED
      BY <3>1, <3>2
  <2>2. eng \in [Engines -> EngineRecords]
    BY <1>1 DEF LogInv, CoreInv, TypeInv, TypeOK
  <2> QED
    BY <1>p, <1>w, <2>1, <2>2, <2>3
<1>9. CASE UNCHANGED vars \/ SyncBegins \/ RemoveCloses \/ SyncEnds \/ SyncRaises
           \/ ToggleAdvances \/ ToggleBreaks \/ (\E z \in Zones : ToggleCloses(z))
           \/ (\E sys \in BOOLEAN, develop \in DevModes : Toggle(sys, develop))
           \/ (\E r \in Rooms, z \in Zones \cup {None} : MoveRoom(r, z))
  <2>1. ASSUME NEW r \in Rooms, NEW z \in Zones \cup {None}, MoveRoom(r, z) PROVE UNCHANGED <<pub, eng, driven>>
    BY <2>1 DEF MoveRoom
  <2>2. UNCHANGED <<pub, eng, driven>>
    BY <1>9, <2>1 DEF vars, SyncBegins, RemoveCloses, SyncEnds, SyncRaises, ToggleAdvances, ToggleBreaks,
       ToggleCloses, Toggle
  <2> QED
    BY <1>0, <2>2
<1>10. ~Crash
  BY <1>1, <1>u DEF Crash, Spend, Kinds, LogInv, CoreInv, TypeInv, TypeOK
<1> QED
  BY <1>x, <1>4, <1>5, <1>6, <1>7, <1>8, <1>9, <1>10 DEF Next, ToggleStep, SyncStep, Outside

(* Without failures and crashes, and with the developer mode never on, a
   thermostat stands at the setpoint of a cycle only while the engine of its
   zone runs one: flipping the mode, or taking the last room away, parks it
   (docs/system-modes.md:21).  With the developer mode the run dev_toggle shows
   the contrary. *)
THEOREM DrivenIsWatched ==
    ASSUME MaxRestores = 0, DevModes \subseteq {FALSE}
    PROVE  Spec /\ [][NoRevival]_vars => []DrivenIsSupervised
<1>1. WatchInv => DrivenIsSupervised
  <2> SUFFICES ASSUME WatchInv, used["faults"] + used["crashes"] = 0
               PROVE  \A z \in Zones : driven[z] => pub[z] # None /\ eng[pub[z]].running
    BY DEF DrivenIsSupervised
  <2>1. used["faults"] \in Nat /\ used["crashes"] \in Nat
    BY DEF WatchInv, AccountInv, LogInv, CoreInv, TypeInv, TypeOK, Kinds
  <2>2. used["faults"] = 0 /\ used["crashes"] = 0
    BY <2>1
  <2> QED
    BY <2>2 DEF WatchInv, Watched
<1>2. Init => WatchInv
  <2> SUFFICES ASSUME Init PROVE WatchInv
    OBVIOUS
  <2>1. dev = FALSE /\ \A z \in Zones : ~driven[z]
    BY DEF Init
  <2> QED
    BY <2>1, AccountInit DEF WatchInv, Watched
<1>3. WatchInv /\ [Next]_vars /\ [NoRevival]_vars => WatchInv'
  BY WatchNext
<1> QED
  BY <1>1, <1>2, <1>3, PTL DEF Spec

-----------------------------------------------------------------------------
(* The toggles.  What was going on when a toggle began is closed and ended  *)
(* zone by zone; a zone that leaves the fleet meanwhile leaves none of it,  *)
(* and one that comes back is built on none of it.                          *)

Done(z)  == OpenLogs(z) \cap toggle.old = {}
Clean(e) == ~(eng[e].running /\ eng[e].log \in toggle.old)

Swept == used["faults"] <= 1 /\ sync.pc = "pop" => OpenLogs(sync.zone) = {}

Slate ==
    toggle.pc # "idle" =>
        /\ toggle.old \cap Unused = {}
        /\ used["faults"] <= 1 =>
               /\ \A z \in toggle.fleet \ Published : Done(z)
               /\ toggle.pc = "net" => \A z \in toggle.fleet \cap toggle.seen : Done(z)
        /\ used["faults"] = 0 =>
               /\ \A z \in toggle.fleet : toggle.pc = "net" \/ z \in toggle.seen =>
                      Done(z) /\ (pub[z] # None => Clean(pub[z]))
               /\ sync.pc = "publish" /\ sync.zone \in toggle.fleet => Clean(sync.engine)

SlateInv == AccountInv /\ Swept /\ Slate

(* No cycle of before a toggle opens again, nor is run again unless an engine
   is built for it. *)
LEMMA OldStaysOver ==
    ASSUME MaxRestores = 0, LogInv, [Next]_vars, toggle.old \cap Unused = {}, toggle'.old = toggle.old
    PROVE  /\ toggle'.old \cap Unused' = {}
           /\ \A z : Done(z) => Done(z)'
           /\ \A e \in Engines : Clean(e) => Clean(e)' \/ \E z \in Zones : Build(z, e) /\ eng'[e].log \in OpenLogs(z)
           /\ \A z \in Zones : \A l \in OpenLogs(z)' : l \in OpenLogs(z) \/ l \in Unused
<1>1. ASSUME NEW S, Closes(S)
      PROVE  Unused' = Unused /\ \A z : OpenLogs(z)' \subseteq OpenLogs(z)
  BY <1>1 DEF Closes, Unused, OpenLogs
<1>2. ASSUME NEW t \in Tickers, InsertLog(t)
      PROVE  /\ Unused' \subseteq Unused /\ FreshLog \in Unused
             /\ \A z : OpenLogs(z)' \subseteq OpenLogs(z) \cup {FreshLog}
             /\ eng'[task[t].engine].log = FreshLog
  <2>f. PICK c : c = FreshLog
    OBVIOUS
  <2>1. /\ c \in Unused /\ eng'[task[t].engine].log = c
        /\ \A l \in Logs : IF l = c THEN row'[l].st = "open" ELSE row'[l] = row[l]
    BY <1>2, <2>f, InsertEffect
  <2>2. Unused' \subseteq Unused /\ \A z : OpenLogs(z)' \subseteq OpenLogs(z) \cup {c}
    BY <2>1 DEF Unused, OpenLogs
  <2> QED
    BY <2>1, <2>2, <2>f
<1>3. toggle'.old \cap Unused' = {}
  BY <1>1, <1>2, RowEffect
<1>4. \A z : OpenLogs(z)' \subseteq OpenLogs(z) \cup Unused
  BY <1>1, <1>2, RowEffect
<1>5. ASSUME NEW z, Done(z) PROVE Done(z)'
  BY <1>4, <1>5 DEF Done
<1>6. ASSUME NEW e \in Engines, Clean(e) PROVE Clean(e)' \/ \E z \in Zones : Build(z, e) /\ eng'[e].log \in OpenLogs(z)
  <2>1. CASE eng'[e].running /\ eng'[e] = eng[e]
    BY <1>6, <2>1 DEF Clean
  <2>2. ASSUME NEW t \in Tickers, InsertLog(t), e = task[t].engine PROVE Clean(e)'
    BY <1>2, <2>2 DEF Clean
  <2>3. CASE ~eng'[e].running
    BY <2>3 DEF Clean
  <2> QED
    BY <2>1, <2>2, <2>3, EngEffect
<1> QED
  BY <1>3, <1>4, <1>5, <1>6

(* The end of a cycle without failures leaves its zone without a log. *)
LEMMA AbortClears ==
    ASSUME MaxRestores = 0, AccountInv, NEW z \in Published, ForceAbort(pub[z], link), used'["faults"] = 0
    PROVE  OpenLogs(z)' = {} /\ ~eng'[pub[z]].running
<1>e. PICK e : e = pub[z]
  OBVIOUS
<1>1. e \in Engines /\ e # None /\ z \in Zones
  BY <1>e, LockParts DEF Published, AccountInv, LogInv
<1>2. used["faults"] = 0 /\ IF eng[e].running THEN Closes({eng[e].log}) /\ ~eng'[e].running
                            ELSE Closes({}) /\ UNCHANGED <<eng, driven>>
  BY <1>1, <1>e, AbortCloses, OneFile DEF AccountInv, LogInv, CoreInv
<1>3. ~Building(z)
  BY <1>1, <1>e DEF Building, AccountInv, LogInv, CoreInv, Seats
<1>4. \A l \in OpenLogs(z) : Runs(e, l)
  BY <1>1, <1>2, <1>3, <1>e DEF AccountInv, Accounted, Accounts
<1> QED
  BY <1>2, <1>4, <1>e DEF Runs, Closes, OpenLogs

(* The zone that is about to go gets no new log. *)
LEMMA SweptNext ==
    ASSUME MaxRestores = 0, AccountInv, AccountInv', Swept, [Next]_vars
    PROVE  Swept'
<1> USE DEF flags, fleet, control, conn, store
<1>u. /\ used["faults"] \in Nat /\ used'["faults"] \in Nat /\ used'["faults"] >= used["faults"]
      /\ LogInv
  BY UsedGrows DEF AccountInv, Kinds
<1> SUFFICES ASSUME used'["faults"] <= 1, sync'.pc = "pop" PROVE OpenLogs(sync.zone)' = {}
  BY DEF Swept
<1>y. sync \in [pc : {"idle", "create", "publish", "remove", "close", "pop"},
                zones : SUBSET Zones, zone : Zones \cup {None}, engine : Engines \cup {None}]
  BY <1>u DEF LogInv, CoreInv, TypeInv, TypeOK
<1>z. PICK z : z = sync.zone
  OBVIOUS
<1>1. CASE UNCHANGED sync
  <2>1. sync.pc = "pop" /\ OpenLogs(z) = {} /\ sync'.zone = z
    BY <1>1, <1>u, <1>z DEF Swept
  <2>2. ASSUME NEW t \in Tickers, InsertLog(t) PROVE OpenLogs(z)' = {}
    <3>f. PICK c : c = FreshLog
      OBVIOUS
    <3>w. PICK y : y = eng[task[t].engine].zone
      OBVIOUS
    <3>1. /\ pub[y] = task[t].engine /\ lock[task[t].engine] = t
          /\ \A l \in Logs : IF l = c THEN row'[l].zone = y ELSE row'[l] = row[l]
      BY <1>u, <2>2, <3>f, <3>w, InsertEffect
    <3>2. lock[pub[z]] = None /\ t # None
      BY <1>u, <1>z, <2>1, LockParts DEF LogInv, CoreInv, Locked, Leaving
    <3>3. y # z
      BY <3>1, <3>2
    <3> QED
      BY <2>1, <3>1, <3>3 DEF OpenLogs
  <2>3. ASSUME NEW S, Closes(S) PROVE OpenLogs(z)' = {}
    BY <2>1, <2>3 DEF Closes, OpenLogs
  <2>4. OpenLogs(z)' = {}
    BY <1>u, <2>2, <2>3, RowEffect
  <2> QED
    BY <2>1, <2>4 DEF OpenLogs
<1>2. CASE RemoveCloses
  <2>1. sync'.zone = z /\ sync.pc = "close"
    BY <1>2, <1>y, <1>z DEF RemoveCloses
  <2>2. CASE UNCHANGED row /\ Spend("faults")
    <3>1. used["faults"] = 0
      BY <1>u, <2>2 DEF Spend, LogInv, CoreInv, TypeInv, TypeOK, Kinds
    <3>2. OpenLogs(z) = {}
      BY <1>z, <2>1, <3>1 DEF AccountInv, Accounted, Accounts, Leaving
    <3> QED
      BY <2>1, <2>2, <3>2 DEF OpenLogs
  <2>3. CASE CloseLogs(OpenLogs(z), link)
    <3>1. row' = Over(OpenLogs(z))
      BY <1>u, <2>3, OneFile DEF CloseLogs, LogInv, CoreInv
    <3>2. Closes(OpenLogs(z))
      BY <1>u, <3>1, OverCloses DEF LogInv, OpenLogs, Unused
    <3> QED
      BY <2>1, <3>2 DEF Closes, OpenLogs
  <2> QED
    BY <1>2, <1>z, <2>2, <2>3 DEF RemoveCloses
<1>3. UNCHANGED sync \/ RemoveCloses
  <2>1. ASSUME SyncStep \/ SyncBegins, ~RemoveCloses PROVE FALSE
    <3>1. sync'.pc # "pop"
      <4>1. ASSUME NEW z1 \in Zones, NEW e \in Engines, Build(z1, e) PROVE sync'.pc = "publish"
        BY <1>y, <4>1 DEF Build
      <4>2. ASSUME NEW z1 \in Zones, RemoveAborts(z1) PROVE sync'.pc = "close"
        BY <1>y, <4>2 DEF RemoveAborts
      <4>3. Publish \/ SyncBegins => sync'.pc = "create"
        BY <1>y DEF Publish, SyncBegins, NoSync
      <4>4. RemovePops => sync'.pc = "remove"
        BY <1>y DEF RemovePops
      <4>5. SyncEnds \/ SyncRaises => sync'.pc = "idle"
        BY DEF SyncEnds, SyncRaises, NoSync
      <4> QED
        BY <2>1, <4>1, <4>2, <4>3, <4>4, <4>5 DEF SyncStep
    <3> QED
      BY <3>1
  <2>2. ASSUME NEW t \in Tickers, TaskStep(t) \/ \E x \in Zones : TickBegin(t, x) PROVE UNCHANGED sync
    BY <2>2, Zenon DEF TaskStep, TickBegin, TickRunning, TickIdle, CloseOwn, CloseCross, InsertLog, JoinRooms, TickRaises
  <2>3. ToggleStep => UNCHANGED sync
    BY Zenon DEF ToggleStep, ToggleAdvances, ToggleBreaks, ToggleAborts, ToggleCloses
  <2>4. ASSUME NEW sys \in BOOLEAN, NEW develop \in DevModes, Toggle(sys, develop) PROVE UNCHANGED sync
    BY <2>4 DEF Toggle
  <2>5. ASSUME NEW r \in Rooms, NEW x \in Zones \cup {None}, MoveRoom(r, x) PROVE UNCHANGED sync
    BY <2>5 DEF MoveRoom
  <2>6. ~Crash
    BY DEF Crash, NoSync
  <2>7. ~SwapFile /\ ~ReloadStep
    BY <1>u, StillNext DEF LogInv, CoreInv
  <2> QED
    BY <2>1, <2>2, <2>3, <2>4, <2>5, <2>6, <2>7 DEF Next, Outside, vars
<1> QED
  BY <1>1, <1>2, <1>3

(* What a step has to show that leaves the toggle alone *)
LEMMA SlateFrame ==
    ASSUME MaxRestores = 0, AccountInv, Slate, [Next]_vars, UNCHANGED toggle,
           used["faults"] \in Nat /\ used'["faults"] \in Nat /\ used'["faults"] >= used["faults"],
           \A z \in Zones : pub[z] # None /\ pub'[z] = None /\ used'["faults"] <= 1 => Done(z)',
           \A z \in Zones : pub'[z] # None => \/ pub[z] = pub'[z]
                                              \/ Building(z) /\ sync.engine = pub'[z] /\ UNCHANGED eng,
           sync'.pc = "publish" => \/ UNCHANGED sync
                                   \/ \E e \in Engines : /\ Build(sync'.zone, e) /\ sync'.engine = e
                                                         /\ pub[sync'.zone] = None /\ sync'.zone \in Zones
    PROVE  Slate'
<1> SUFFICES ASSUME toggle.pc # "idle" PROVE Slate'
  BY DEF Slate
<1>l. LogInv
  BY DEF AccountInv
<1>o. /\ toggle'.old \cap Unused' = {}
      /\ \A z : Done(z) => Done(z)'
      /\ \A e \in Engines : Clean(e) => Clean(e)' \/ \E z \in Zones : Build(z, e) /\ eng'[e].log \in OpenLogs(z)
  BY <1>l, OldStaysOver DEF Slate
<1>p. pub \in [Zones -> Engines \cup {None}] /\ None \notin Engines
  BY <1>l, LockParts DEF LogInv
<1>f. toggle.fleet \subseteq Zones
  BY <1>l DEF LogInv, CoreInv, TypeInv, TypeOK
<1>1. ASSUME used'["faults"] <= 1
      PROVE  /\ \A z \in toggle'.fleet \ Published' : Done(z)'
             /\ toggle'.pc = "net" => \A z \in toggle'.fleet \cap toggle'.seen : Done(z)'
  <2>1. used["faults"] <= 1
    BY <1>1
  <2>2. ASSUME NEW z \in toggle.fleet, pub'[z] = None PROVE Done(z)'
    BY <1>1, <1>f, <1>o, <2>1, <2>2 DEF Slate, Published
  <2>3. toggle.pc = "net" => \A z \in toggle.fleet \cap toggle.seen : Done(z)'
    BY <1>o, <2>1 DEF Slate
  <2> QED
    BY <1>f, <2>2, <2>3 DEF Published
<1>2. ASSUME used'["faults"] = 0
      PROVE  /\ \A z \in toggle'.fleet : toggle'.pc = "net" \/ z \in toggle'.seen =>
                    Done(z)' /\ (pub'[z] # None => Clean(pub[z])')
             /\ sync'.pc = "publish" /\ sync'.zone \in toggle'.fleet => Clean(sync.engine)'
  <2>0. used["faults"] = 0
    BY <1>2
  <2>1. ASSUME NEW z \in toggle.fleet, toggle.pc = "net" \/ z \in toggle.seen, pub'[z] # None
        PROVE  Clean(pub[z])'
    <3>1. CASE pub[z] = pub'[z]
      <4>1. pub[z] \in Engines /\ Clean(pub[z]) /\ \A y \in Zones : ~Build(y, pub[z])
        BY <1>f, <1>p, <2>0, <2>1, <3>1, Zenon DEF Slate, Build, Idle
      <4>2. Clean(pub[z])' <=> ~(eng'[pub[z]].running /\ eng'[pub[z]].log \in toggle'.old)
        BY <3>1 DEF Clean
      <4>3. PICK e \in Engines : e = pub[z]
        BY <4>1
      <4>4. Clean(e)'
        BY <1>o, <4>1, <4>3
      <4> QED
        BY <3>1, <4>3, <4>4 DEF Clean
    <3>2. CASE Building(z) /\ sync.engine = pub'[z] /\ UNCHANGED eng
      BY <2>0, <3>2 DEF Slate, Clean, Building
    <3> QED
      BY <1>f, <2>1, <3>1, <3>2
  <2>2. ASSUME sync'.pc = "publish", sync'.zone \in toggle.fleet PROVE Clean(sync.engine)'
    <3>1. CASE UNCHANGED sync
      <4>1. PICK e \in Engines : e = sync.engine
        BY <1>l, <2>2, <3>1 DEF LogInv, CoreInv, Seats
      <4>2. Clean(e) /\ \A y \in Zones : ~Build(y, e)
        BY <2>0, <2>2, <3>1, <4>1, Zenon DEF Slate, Build
      <4>3. Clean(e)'
        BY <1>o, <4>2
      <4> QED
        BY <3>1, <4>1, <4>3 DEF Clean
    <3>2. ASSUME NEW e \in Engines, Build(sync'.zone, e), sync'.engine = e, pub[sync'.zone] = None, sync'.zone \in Zones
          PROVE  Clean(sync.engine)'
      <4>1. PICK z \in Zones : z = sync'.zone
        BY <3>2
      <4>2. Done(z)
        BY <2>0, <2>2, <3>2, <4>1 DEF Slate, Published
      <4>3. eng'[e].running => eng'[e].log \in OpenLogs(z)
        <5>1. ~(\E t \in Tickers : InsertLog(t))
          <6>1. sync.pc = "create"
            BY <3>2, Zenon DEF Build
          <6>2. \A t \in Tickers : InsertLog(t) => UNCHANGED sync
            BY DEF InsertLog, control
          <6> QED
            BY <2>2, <6>1, <6>2
        <5>2. ~eng[e].running /\ \A y \in Zones : Build(y, e) => y = z
          <6>1. sync \in [pc : {"idle", "create", "publish", "remove", "close", "pop"},
                zones : SUBSET Zones, zone : Zones \cup {None}, engine : Engines \cup {None}]
            BY <1>l DEF LogInv, CoreInv, TypeInv, TypeOK
          <6> QED
            BY <3>2, <4>1, <6>1, ZenonT(60) DEF Build, Idle
        <5> QED
          BY <1>l, <5>1, <5>2, EngEffect
      <4> QED
        BY <3>2, <4>2, <4>3 DEF Clean, Done
    <3> QED
      BY <2>2, <3>1, <3>2
  <2>3. \A z \in toggle.fleet : toggle.pc = "net" \/ z \in toggle.seen => Done(z)'
    BY <1>o, <2>0 DEF Slate
  <2> QED
    BY <2>1, <2>2, <2>3
<1> QED
  BY <1>1, <1>2, <1>o DEF Slate

LEMMA SlateNext ==
    ASSUME MaxRestores = 0, SlateInv, [Next]_vars, [NoRevival]_vars
    PROVE  SlateInv'
<1> USE DEF flags, fleet, control, conn, store
<1>l. AccountInv /\ AccountInv' /\ LogInv /\ Slate /\ Swept /\ Swept'
  BY AccountNext, SweptNext DEF SlateInv, AccountInv
<1>u. used["faults"] \in Nat /\ used'["faults"] \in Nat /\ used'["faults"] >= used["faults"]
  BY <1>l, UsedGrows DEF Kinds
<1>x. ~SwapFile /\ ~ReloadStep
  BY <1>l, StillNext DEF LogInv, CoreInv
<1>p. pub \in [Zones -> Engines \cup {None}] /\ None \notin Engines
  BY <1>l, LockParts DEF LogInv
<1>y. sync \in [pc : {"idle", "create", "publish", "remove", "close", "pop"},
                zones : SUBSET Zones, zone : Zones \cup {None}, engine : Engines \cup {None}]
  BY <1>l DEF LogInv, CoreInv, TypeInv, TypeOK
<1>t. toggle \in [pc : {"idle", "abort", "net"}, seen : SUBSET Zones, fleet : SUBSET Zones, old : SUBSET Logs]
  BY <1>l DEF LogInv, CoreInv, TypeInv, TypeOK
<1> SUFFICES Slate'
  BY <1>l DEF SlateInv
<1>0. ASSUME UNCHANGED <<toggle, pub>>, UNCHANGED sync \/ sync'.pc # "publish" PROVE Slate'
  BY <1>0, <1>l, <1>u, SlateFrame
<1>1. ASSUME NEW t \in Tickers, TaskStep(t) \/ \E z \in Zones : TickBegin(t, z) PROVE Slate'
  <2>1. UNCHANGED <<toggle, pub, sync>>
    BY <1>1, Zenon DEF TaskStep, TickBegin, TickRunning, TickIdle, CloseOwn, CloseCross, InsertLog, JoinRooms, TickRaises
  <2> QED
    BY <1>0, <2>1
<1>2. ASSUME NEW z \in Zones, ToggleAborts(z) PROVE Slate'
  <2>1. /\ z \in Published /\ ForceAbort(pub[z], link) /\ UNCHANGED <<pub, sync>> /\ toggle.pc = "abort"
        /\ toggle'.pc = "abort" /\ toggle'.seen = toggle.seen \cup {z}
        /\ toggle'.fleet = toggle.fleet /\ toggle'.old = toggle.old
    BY <1>2, <1>t DEF ToggleAborts, Turn
  <2>2. /\ toggle'.old \cap Unused' = {}
        /\ \A x : Done(x) => Done(x)'
        /\ \A e \in Engines : Clean(e) => Clean(e)' \/ \E x \in Zones : Build(x, e) /\ eng'[e].log \in OpenLogs(x)
    BY <1>l, <2>1, OldStaysOver DEF Slate
  <2>3. \A e \in Engines : Clean(e) => Clean(e)'
    <3>1. \A e \in Engines, x \in Zones : ~Build(x, e)
      <4>1. ASSUME NEW e \in Engines, NEW x \in Zones, Build(x, e) PROVE FALSE
        <5>1. sync.pc = "create" /\ sync'.pc = "publish"
          BY <1>y, <4>1 DEF Build
        <5> QED
          BY <2>1, <5>1
      <4> QED
        BY <4>1
    <3> QED
      BY <2>2, <3>1
  <2>4. ASSUME used'["faults"] = 0 PROVE OpenLogs(z)' = {} /\ ~eng'[pub[z]].running
    BY <1>l, <2>1, <2>4, AbortClears
  <2>5. used'["faults"] <= 1 => \A x \in toggle'.fleet \ Published' : Done(x)'
    BY <1>u, <2>1, <2>2, <1>l DEF Slate, Published
  <2>6. ASSUME used'["faults"] = 0, NEW x \in toggle.fleet, x \in toggle'.seen
        PROVE  Done(x)' /\ (pub'[x] # None => Clean(pub[x])')
    <3>1. CASE x = z
      BY <2>1, <2>4, <2>6, <3>1 DEF Done, Clean
    <3>2. CASE x # z
      <4>1. Done(x) /\ (pub[x] # None => Clean(pub[x]))
        BY <1>l, <1>u, <2>1, <2>6, <3>2 DEF Slate
      <4>2. ASSUME pub[x] # None PROVE Clean(pub[x])'
        <5>1. PICK e \in Engines : e = pub[x]
          BY <1>p, <1>t, <4>2
        <5> QED
          BY <2>1, <2>3, <4>1, <4>2, <5>1 DEF Clean
      <4> QED
        BY <2>1, <2>2, <4>1, <4>2
    <3> QED
      BY <3>1, <3>2
  <2>7. ASSUME used'["faults"] = 0, sync'.pc = "publish", sync'.zone \in toggle'.fleet PROVE Clean(sync.engine)'
    <3>1. PICK e \in Engines : e = sync.engine
      BY <1>l, <2>1, <2>7 DEF LogInv, CoreInv, Seats
    <3>2. Clean(e)
      BY <1>l, <1>u, <2>1, <2>7, <3>1 DEF Slate
    <3> QED
      BY <2>1, <2>3, <3>1, <3>2 DEF Clean
  <2> QED
    BY <2>1, <2>2, <2>5, <2>6, <2>7 DEF Slate
<1>3. ASSUME NEW z \in Zones, ToggleCloses(z) PROVE Slate'
  <2>1. /\ UNCHANGED <<pub, sync, eng>> /\ toggle.pc = "net"
        /\ toggle'.pc = "net" /\ toggle'.seen = toggle.seen \cup {z}
        /\ toggle'.fleet = toggle.fleet /\ toggle'.old = toggle.old
    BY <1>3, <1>t DEF ToggleCloses, Turn
  <2>2. /\ toggle'.old \cap Unused' = {}
        /\ \A x : Done(x) => Done(x)'
    BY <1>l, <2>1, OldStaysOver DEF Slate
  <2>3. \A e : Clean(e) <=> Clean(e)'
    BY <2>1 DEF Clean
  <2>4. ASSUME used'["faults"] <= 1, z \in toggle.fleet PROVE Done(z)'
    <3>1. CASE CloseLogs(OpenLogs(z), link)
      <4>1. row' = Over(OpenLogs(z))
        BY <1>l, <3>1, OneFile DEF CloseLogs, LogInv, CoreInv
      <4>2. Closes(OpenLogs(z))
        BY <1>l, <4>1, OverCloses DEF LogInv, OpenLogs, Unused
      <4> QED
        BY <4>2 DEF Closes, OpenLogs, Done
    <3>2. CASE Spend("faults")
      <4>1. used["faults"] = 0
        BY <1>l, <2>4, <3>2 DEF Spend, LogInv, CoreInv, TypeInv, TypeOK, Kinds
      <4>2. Done(z)
        BY <1>l, <2>1, <2>4, <4>1 DEF Slate
      <4> QED
        BY <2>2, <4>2
    <3> QED
      BY <1>3, <3>1, <3>2 DEF ToggleCloses
  <2>5. used'["faults"] <= 1 => \A x \in toggle'.fleet \ Published' : Done(x)'
    BY <1>l, <1>u, <2>1, <2>2 DEF Slate, Published
  <2>6. used'["faults"] <= 1 => \A x \in toggle'.fleet \cap toggle'.seen : Done(x)'
    BY <1>l, <1>u, <2>1, <2>2, <2>4 DEF Slate
  <2>7. ASSUME used'["faults"] = 0
        PROVE  /\ \A x \in toggle'.fleet : Done(x)' /\ (pub'[x] # None => Clean(pub[x])')
               /\ sync'.pc = "publish" /\ sync'.zone \in toggle'.fleet => Clean(sync.engine)'
    <3>1. used["faults"] = 0
      BY <1>u, <2>7
    <3>2. ASSUME NEW x \in toggle.fleet PROVE Done(x)' /\ (pub'[x] # None => Clean(pub[x])')
      <4>1. Done(x) /\ (pub[x] # None => Clean(pub[x]))
        BY <1>l, <2>1, <3>1 DEF Slate
      <4> QED
        BY <2>1, <2>2, <4>1 DEF Clean
    <3>3. ASSUME sync'.pc = "publish", sync'.zone \in toggle.fleet PROVE Clean(sync.engine)'
      <4>1. Clean(sync.engine)
        BY <1>l, <2>1, <3>1, <3>3 DEF Slate
      <4> QED
        BY <2>1, <4>1 DEF Clean
    <3> QED
      BY <2>1, <3>2, <3>3
  <2> QED
    BY <2>1, <2>2, <2>5, <2>6, <2>7 DEF Slate
<1>4. CASE ToggleAdvances
  <2>1. UNCHANGED <<fleet, sync, row, used>> /\ toggle.pc # "idle" /\ Published \subseteq toggle.seen
    BY <1>4 DEF ToggleAdvances
  <2>2. CASE toggle.pc = "abort"
    <3>1. toggle'.pc = "net" /\ toggle'.seen = {} /\ toggle'.fleet = toggle.fleet /\ toggle'.old = toggle.old
      BY <1>4, <1>t, <2>2 DEF ToggleAdvances
    <3>2. /\ \A x : Done(x)' <=> Done(x)
          /\ \A e : Clean(e)' <=> Clean(e)
          /\ toggle'.old \cap Unused' = toggle.old \cap Unused /\ Published' = Published
      BY <2>1, <3>1 DEF Done, Clean, OpenLogs, Unused, Published
    <3>3. ASSUME used["faults"] = 0, NEW x \in toggle.fleet
          PROVE  Done(x)' /\ (pub'[x] # None => Clean(pub[x])')
      <4>1. Done(x) /\ (pub[x] # None => Clean(pub[x]))
        BY <1>l, <1>t, <2>1, <3>3 DEF Slate, Published
      <4> QED
        BY <2>1, <3>1, <3>2, <4>1 DEF Clean
    <3>4. ASSUME used["faults"] = 0, sync.pc = "publish", sync.zone \in toggle.fleet PROVE Clean(sync.engine)'
      <4>1. Clean(sync.engine)
        BY <1>l, <2>1, <3>4 DEF Slate
      <4> QED
        BY <2>1, <3>1, <4>1 DEF Clean
    <3>5. used["faults"] <= 1 => \A x \in toggle.fleet \ Published : Done(x)'
      BY <1>l, <2>1, <3>2 DEF Slate
    <3>6. toggle'.old \cap Unused' = {}
      BY <1>l, <2>1, <3>2 DEF Slate
    <3> QED
      BY <2>1, <3>1, <3>2, <3>3, <3>4, <3>5, <3>6 DEF Slate
  <2>3. CASE toggle.pc # "abort"
    <3>1. toggle'.pc = "idle"
      BY <1>4, <2>3 DEF ToggleAdvances, NoToggle
    <3> QED
      BY <3>1 DEF Slate
  <2> QED
    BY <2>2, <2>3
<1>5. CASE ToggleBreaks \/ Crash
  <2>1. toggle'.pc = "idle"
    BY <1>5 DEF ToggleBreaks, Crash, NoToggle
  <2> QED
    BY <2>1 DEF Slate
<1>6. ASSUME NEW sys \in BOOLEAN, NEW develop \in DevModes, Toggle(sys, develop) PROVE Slate'
  <2>1. UNCHANGED <<fleet, sync, row>>
    BY <1>6 DEF Toggle
  <2>2. CASE toggle' = NoToggle
    BY <2>2 DEF Slate, NoToggle
  <2>3. CASE toggle' # NoToggle
    <3>1. /\ toggle'.pc = "abort" /\ toggle'.seen = {} /\ toggle'.fleet = Published
          /\ toggle'.old = {l \in Logs : row[l].st = "open"}
      BY <1>6, <2>3 DEF Toggle
    <3>2. toggle'.old \cap Unused' = {} /\ Published' = Published
      BY <2>1, <3>1 DEF Unused, Published
    <3>3. sync.pc = "publish" => sync.zone \notin Published
      BY <1>l DEF LogInv, CoreInv, Seats, Published
    <3> QED
      BY <2>1, <3>1, <3>2, <3>3 DEF Slate
  <2> QED
    BY <2>2, <2>3
<1>7. CASE Publish
  <2>1. /\ UNCHANGED <<eng, toggle>> /\ sync.pc = "publish" /\ pub' = [pub EXCEPT ![sync.zone] = sync.engine]
        /\ sync'.pc = "create"
    BY <1>7, <1>y DEF Publish
  <2>2. sync.zone \in Zones /\ pub[sync.zone] = None /\ sync.engine \in Engines
    BY <1>l, <2>1 DEF LogInv, CoreInv, Seats
  <2>3. \A z \in Zones : pub'[z] = IF z = sync.zone THEN sync.engine ELSE pub[z]
    BY <1>p, <2>1, <2>2
  <2> QED
    BY <1>l, <1>p, <1>u, <2>1, <2>2, <2>3, SlateFrame DEF Building
<1>8. CASE RemovePops
  <2>z. PICK z : z = sync.zone
    OBVIOUS
  <2>1. /\ UNCHANGED <<row, toggle, used>> /\ sync.pc = "pop" /\ pub' = [pub EXCEPT ![z] = None] /\ sync'.pc = "remove"
    BY <1>8, <1>y, <2>z DEF RemovePops
  <2>2. \A x \in Zones : pub'[x] = IF x = z THEN None ELSE pub[x]
    BY <1>p, <2>1
  <2>3. used["faults"] <= 1 => OpenLogs(z) = {}
    BY <1>l, <2>1, <2>z DEF Swept
  <2>4. used'["faults"] <= 1 => Done(z)'
    BY <2>1, <2>3 DEF Done, OpenLogs
  <2> QED
    BY <1>l, <1>u, <2>1, <2>2, <2>4, SlateFrame
<1>9. ASSUME NEW z \in Zones, NEW e \in Engines, Build(z, e) PROVE Slate'
  <2>1. UNCHANGED <<pub, toggle>> /\ sync'.zone = z /\ sync'.engine = e /\ pub[z] = None
    BY <1>9, <1>y DEF Build, Published
  <2> QED
    BY <1>9, <1>l, <1>u, <2>1, SlateFrame
<1>10. CASE UNCHANGED vars \/ SyncBegins \/ RemoveCloses \/ SyncEnds \/ SyncRaises
            \/ (\E z \in Zones : RemoveAborts(z))
            \/ (\E r \in Rooms, z \in Zones \cup {None} : MoveRoom(r, z))
  <2>1. ASSUME NEW r \in Rooms, NEW z \in Zones \cup {None}, MoveRoom(r, z) PROVE UNCHANGED <<toggle, pub, sync>>
    BY <2>1 DEF MoveRoom
  <2>2. ASSUME NEW z \in Zones, RemoveAborts(z) PROVE UNCHANGED <<toggle, pub>> /\ sync'.pc = "close"
    BY <1>y, <2>2 DEF RemoveAborts
  <2>3. RemoveCloses => UNCHANGED <<toggle, pub>> /\ sync'.pc = "pop"
    BY <1>y DEF RemoveCloses
  <2>4. SyncBegins => UNCHANGED <<toggle, pub>> /\ sync'.pc = "create"
    BY DEF SyncBegins, NoSync
  <2>5. SyncEnds \/ SyncRaises => UNCHANGED <<toggle, pub>> /\ sync'.pc = "idle"
    BY DEF SyncEnds, SyncRaises, NoSync
  <2>6. UNCHANGED vars => UNCHANGED <<toggle, pub, sync>>
    BY DEF vars
  <2> QED
    BY <1>0, <1>10, <2>1, <2>2, <2>3, <2>4, <2>5, <2>6
<1> QED
  BY <1>x, <1>1, <1>2, <1>3, <1>4, <1>5, <1>6, <1>7, <1>8, <1>9, <1>10
  DEF Next, ToggleStep, SyncStep, Outside

(* A toggle that comes to its end over the zones it began with leaves no open
   row of a cycle of before it, even if one step failed, and no engine that
   runs one, if none did: _reset_and_reevaluate, its safety net and the ticks,
   synchronisations and moves that interleave with them. *)
THEOREM ToggleCleans ==
    ASSUME MaxRestores = 0
    PROVE  Spec /\ [][NoRevival]_vars => []CleanSlate
<1>1. SlateInv => CleanSlate
  <2> SUFFICES ASSUME SlateInv, Finished, NEW z \in Published
               PROVE  /\ used["faults"] <= 1 => OpenLogs(z) \cap toggle.old = {}
                      /\ used["faults"] = 0 => ~(eng[pub[z]].running /\ eng[pub[z]].log \in toggle.old)
    BY DEF CleanSlate
  <2>1. toggle.pc = "net" /\ z \in toggle.fleet /\ z \in toggle.seen /\ pub[z] # None
    BY DEF Finished, Published
  <2> QED
    BY <2>1 DEF SlateInv, Slate, Done, Clean
<1>2. Init => SlateInv
  <2> SUFFICES ASSUME Init PROVE SlateInv
    OBVIOUS
  <2>1. toggle.pc = "idle" /\ sync.pc = "idle"
    BY DEF Init, NoToggle, NoSync
  <2> QED
    BY <2>1, AccountInit DEF SlateInv, Slate, Swept
<1>3. SlateInv /\ [Next]_vars /\ [NoRevival]_vars => SlateInv'
  BY SlateNext
<1> QED
  BY <1>1, <1>2, <1>3, PTL DEF Spec

=============================================================================
