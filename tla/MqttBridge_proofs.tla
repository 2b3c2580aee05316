-------------------------- MODULE MqttBridge_proofs --------------------------
(***************************************************************************)
(* Proofs about MqttBridge: its types, that the discovery config of a room *)
(* is not blanked under it, that a command kept from before sets nothing,  *)
(* and that a bridge at rest has mirrored the database.                    *)
(***************************************************************************)
EXTENDS MqttBridge, FiniteSetTheorems, TLAPS

RoomTables == [Rooms -> RoomRecords \cup {None}]
Failures   == {"rooms", "thermostats", "system", "status", "schedules"}
Syncs == [pc : {"idle", "lists", "details", "configs", "states", "retire", "sweep", "republish"},
          rooms : RoomTables, system : {On, Off}, failed : SUBSET Failures,
          moved : SUBSET ConfigTopics]
Readers == [pc : {"idle", "dispatch", "result"}, order : Messages \cup {None},
            room : Rooms \cup {None}, ok : BOOLEAN]

(* A command on its way to the API has been decoded and its room found. *)
Dispatchable(d) ==
    d.pc = "dispatch" => /\ d.order \in Messages /\ Decodes(d.order)
                         /\ d.order.control # "enabled" => d.room \in Rooms

TypeInv == TypeOK /\ sync \in Syncs /\ reader \in Readers /\ Dispatchable(reader)

-----------------------------------------------------------------------------
(* Topics, payloads and snapshots *)

(* No command topic is one of the mirror, and no config topic one of a
   state. *)
LEMMA TopicsApart ==
    /\ CommandTopics \cap (ConfigTopics \cup StateTopics) = {}
    /\ ConfigTopics \cap StateTopics = {}
<1>1. ASSUME NEW o \in Orders PROVE TopicOf(o) \notin ConfigTopics \cup StateTopics
  <2>1. ASSUME NEW r PROVE TopicOf(o) # <<"config", r>>
    <3>1. Len(TopicOf(o)) = 3 /\ Len(<<"config", r>>) = 2
      BY DEF TopicOf
    <3> QED
      BY <3>1
  <2>2. ASSUME NEW p \in {"knob", "hold"} \X Idents PROVE TopicOf(o) # p
    <3>1. Len(TopicOf(o)) = 3 /\ Len(p) = 2
      BY DEF TopicOf
    <3> QED
      BY <3>1
  <2>3. TopicOf(o) # <<"enabled">>
    <3>1. Len(TopicOf(o)) = 3 /\ Len(<<"enabled">>) = 1
      BY DEF TopicOf
    <3> QED
      BY <3>1
  <2> QED
    BY <2>1, <2>2, <2>3 DEF ConfigTopics, StateTopics
<1>2. ASSUME NEW r \in Rooms PROVE <<"config", r>> \notin StateTopics
  <2>1. <<"config", r>> # <<"enabled">>
    <3>1. Len(<<"config", r>>) = 2 /\ Len(<<"enabled">>) = 1
      OBVIOUS
    <3> QED
      BY <3>1
  <2> QED
    BY <2>1 DEF StateTopics
<1> QED
  BY <1>1, <1>2 DEF CommandTopics, ConfigTopics

(* A room found under an ident is one of the rooms. *)
LEMMA HolderTyped ==
    ASSUME NEW rooms \in RoomTables, NEW i
    PROVE  Holder(rooms, i) = None \/ (Holder(rooms, i) \in Rooms /\ rooms[Holder(rooms, i)] # None)
BY DEF Holder

(* What a snapshot wants on the topics *)
LEMMA DesiredTyped ==
    ASSUME NEW s \in Syncs
    PROVE  /\ Desired(s) \in [Topics -> Payloads \cup {None}]
           /\ \A r \in Rooms :
                 IF s.rooms[r] = None THEN Desired(s)[<<"config", r>>] = None
                 ELSE Desired(s)[<<"config", r>>] \in Configs
           /\ \A t \in CommandTopics : Desired(s)[t] = None
<1>1. ASSUME NEW r \in Rooms
      PROVE  IF s.rooms[r] = None THEN DesiredConfig(s, <<"config", r>>) = None
             ELSE DesiredConfig(s, <<"config", r>>) \in Configs
  BY DEF DesiredConfig, Syncs, RoomTables, RoomRecords, Configs
<1>2. ASSUME NEW t \in StateTopics PROVE DesiredState(s, t) \in Payloads \cup {None}
  <2>1. CASE t = <<"enabled">>
    BY <2>1 DEF DesiredState, Syncs, Payloads
  <2>2. CASE t # <<"enabled">>
    <3> DEFINE r == Holder(s.rooms, t[2])
    <3>1. r = None \/ (r \in Rooms /\ s.rooms[r] \in RoomRecords)
      BY HolderTyped DEF Syncs, RoomTables
    <3>2. r # None => Resolve(s.rooms[r].knob, s.failed) \in Payloads /\ Encode(s.rooms[r].hold) \in Payloads
      BY <3>1 DEF Resolve, Encode, RoomRecords, Payloads
    <3> QED
      BY <2>2, <3>1, <3>2 DEF DesiredState
  <2> QED
    BY <2>1, <2>2
<1>3. ASSUME NEW t \in ConfigTopics PROVE DesiredConfig(s, t) \in Payloads \cup {None}
  BY <1>1 DEF ConfigTopics, Payloads
<1>4. ConfigTopics \subseteq Topics /\ CommandTopics \subseteq Topics
  BY DEF Topics, MirrorTopics
<1>5. \A r \in Rooms : <<"config", r>> \in ConfigTopics
  BY DEF ConfigTopics
<1> QED
  BY <1>1, <1>2, <1>3, <1>4, <1>5, TopicsApart DEF Desired

(* There are finitely many messages to blank a set of topics with, and they
   can be put in a row. *)
LEMMA InARow ==
    ASSUME NEW S, IsFiniteSet(S)
    PROVE  SetToSeq(S) \in Seq(S)
<1>1. Cardinality(S) \in Nat /\ ExistsBijection(1..Cardinality(S), S)
  BY FS_CardinalityType
<1>2. PICK f \in Bijection(1..Cardinality(S), S) : TRUE
  BY <1>1 DEF ExistsBijection
<1>3. f \in [1..Cardinality(S) -> S] /\ IsInjective(f)
  BY <1>2 DEF Bijection, Injection, IsInjective
<1>4. SetToSeq(S) \in [1..Cardinality(S) -> S]
  BY <1>3 DEF SetToSeq
<1> QED
  BY <1>1, <1>4

(* A sweep finds finitely many commands to blank. *)
LEMMA BlankingsFinite == IsFiniteSet({Blanking(t) : t \in Stale \cap CommandTopics})
<1> DEFINE B == {Blanking(t) : t \in Stale \cap CommandTopics}
<1>1. IsFiniteSet(CommandTopics)
  <2> DEFINE f == [o \in Orders |-> TopicOf(o)]
  <2>1. f \in Surjection(Orders, CommandTopics)
    BY DEF CommandTopics, Surjection
  <2> QED
    BY <2>1, FS_Surjection, BridgeAssumption
<1>2. IsFiniteSet(Stale \cap CommandTopics)
  BY <1>1, FS_Subset
<1> QED
  <2> DEFINE T == Stale \cap CommandTopics
             f == [t \in T |-> Blanking(t)]
  <2>1. f \in Surjection(T, B)
    BY DEF Surjection
  <2> QED
    BY <1>2, <2>1, FS_Surjection

(* The messages that a sweep makes the broker send back *)
LEMMA BlankingsTyped ==
    LET B == {Blanking(t) : t \in Stale \cap CommandTopics} IN
    SetToSeq(B) \in Seq(Messages) /\ \A m \in B : m \in Messages /\ m.payload = Blank
<1> DEFINE B == {Blanking(t) : t \in Stale \cap CommandTopics}
<1>1. IsFiniteSet(B)
  BY BlankingsFinite
<1>2. ASSUME NEW m \in B PROVE m \in Messages /\ m.payload = Blank
  <2>1. PICK t \in CommandTopics : m = Blanking(t)
    BY <1>2
  <2>2. PICK o \in Orders : t = TopicOf(o)
    BY <2>1 DEF CommandTopics
  <2>3. m = [verb |-> o.verb, control |-> o.control, ident |-> o.ident, payload |-> Blank]
    BY <2>1, <2>2 DEF Blanking, TopicOf
  <2> QED
    BY <2>3, StartAssumption DEF Messages
<1>3. SetToSeq(B) \in Seq(B)
  BY <1>1, InARow
<1>4. B \subseteq Messages
  BY <1>2
<1> HIDE DEF B
<1>5. SetToSeq(B) \in Seq(Messages)
  BY <1>3, <1>4
<1> QED
  BY <1>2, <1>5 DEF B
-----------------------------------------------------------------------------
(* Types *)

(* The budgets are numbers. *)
LEMMA SpendTyped ==
    ASSUME used \in [Kinds -> Nat], \A k \in Kinds : used[k] <= Cap[k],
           NEW k \in Kinds, Spend(k) \/ UNCHANGED used
    PROVE  used' \in [Kinds -> Nat] /\ \A j \in Kinds : used'[j] <= Cap[j]
<1>1. Cap[k] \in Nat
  BY BridgeAssumption DEF Cap, Kinds
<1> QED
  BY <1>1 DEF Spend

(* A publication leaves what it published on its topics. *)
LEMMA PublishAllTyped ==
    ASSUME TypeInv, NEW T \in SUBSET MirrorTopics,
           PublishAll(T \cap Changed(Desired(sync)), Desired(sync))
    PROVE  /\ kept' \in [Topics -> (Payloads \ {Blank}) \cup {None}]
           /\ retained' \in [Topics -> Payloads \cup {None}]
           /\ \A t \in CommandTopics : retained'[t] = None
<1> DEFINE d == Desired(sync)
<1>1. d \in [Topics -> Payloads \cup {None}] /\ \A t \in CommandTopics : d[t] = None
  BY DesiredTyped DEF TypeInv
<1> HIDE DEF d
<1>2. \A t \in Topics : AsKept(d[t]) \in (Payloads \ {Blank}) \cup {None}
  BY <1>1 DEF AsKept
<1>3. PublishAll(T \cap Changed(d), d)
  BY DEF d
<1>4. CommandTopics \subseteq Topics
  BY DEF Topics
<1> QED
  BY <1>1, <1>2, <1>3, <1>4 DEF PublishAll, TypeInv, TypeOK

(* The start has its types. *)
LEMMA TypeInit == Init => TypeInv
<1> SUFFICES ASSUME Init PROVE TypeInv
  OBVIOUS
<1>1. Nothing \in [Topics -> (Payloads \ {Blank}) \cup {None}] /\ \A t \in CommandTopics : Nothing[t] = None
  BY DEF Nothing, Topics
<1>2. used \in [Kinds -> Nat] /\ \A k \in Kinds : used[k] <= Cap[k]
  BY BridgeAssumption DEF Init, Cap, Kinds
<1>3. NoSync \in Syncs /\ NoReader \in Readers /\ Dispatchable(NoReader)
  BY DEF NoSync, Syncs, NoRooms, RoomTables, NoReader, Readers, Dispatchable
<1>4. sync.pc = "idle" /\ reader.pc = "idle"
  BY DEF Init, NoSync, NoReader
<1>5. room \in RoomTables /\ born \subseteq Rooms /\ \A r \in Rooms : room[r] # None => r \in born
  BY StartAssumption DEF Init, RoomTables
<1>6. kept \in [Topics -> (Payloads \ {Blank}) \cup {None}]
  BY <1>1, StartAssumption DEF Init
<1>7. retained \in [Topics -> Payloads \cup {None}] /\ \A t \in CommandTopics : retained[t] = None
  BY <1>1 DEF Init
<1>8. {replay, noted} \subseteq [Topics -> (Payloads \ {Blank}) \cup {None}]
  BY <1>1 DEF Init
<1>9. inbox \in Seq(Messages)
  BY DEF Init
<1>10. TypeOK
  BY <1>2, <1>4, <1>5, <1>6, <1>7, <1>8, <1>9 DEF Init, TypeOK, RoomTables
<1> QED
  BY <1>3, <1>10 DEF Init, TypeInv

(* The end of a session *)
LEMMA EndTyped ==
    ASSUME TypeInv
    PROVE  /\ NoSync \in Syncs /\ NoSync.pc = "idle"
           /\ NewSync \in Syncs /\ NewSync.pc = "lists"
           /\ NoReader \in Readers /\ NoReader.pc = "idle" /\ Dispatchable(NoReader)
           /\ Nothing \in [Topics -> (Payloads \ {Blank}) \cup {None}]
           /\ \A t \in CommandTopics : Nothing[t] = None
           /\ <<>> \in Seq(Messages)
BY DEF NoSync, NewSync, Syncs, NoRooms, RoomTables, NoReader, Readers, Dispatchable, Nothing, Topics

(* The steps of the session, of the broker and of its Last Will keep the types. *)
LEMMA TypeSession ==
    ASSUME TypeInv, SessionSteps \/ Drop \/ BrokerRestarts \/ WillFires PROVE TypeInv'
<1> USE DEF database, broker, memory
<1>1. CASE Connect
  BY <1>1, EndTyped DEF Connect, TypeInv, TypeOK
<1>2. CASE IdleWhileDisabled
  BY <1>2 DEF IdleWhileDisabled, TypeInv, TypeOK
<1>3. CASE Drop
  <2>1. used' \in [Kinds -> Nat] /\ \A j \in Kinds : used'[j] <= Cap[j]
    BY <1>3, SpendTyped DEF Drop, Kinds, TypeInv, TypeOK
  <2> QED
    BY <1>3, <2>1, EndTyped DEF Drop, EndSession, TypeInv, TypeOK
<1>4. CASE BrokerRestarts
  <2>1. used' \in [Kinds -> Nat] /\ \A j \in Kinds : used'[j] <= Cap[j]
    BY <1>4, SpendTyped DEF BrokerRestarts, Kinds, TypeInv, TypeOK
  <2> QED
    BY <1>4, <2>1, EndTyped DEF BrokerRestarts, TypeInv, TypeOK
<1>5. CASE WillFires
  BY <1>5 DEF WillFires, TypeInv, TypeOK
<1> QED
  BY <1>1, <1>2, <1>3, <1>4, <1>5 DEF SessionSteps

(* So do the steps of a sync and of the sweep, *)
LEMMA TypeSync == ASSUME TypeInv, SyncSteps PROVE TypeInv'
<1> USE DEF database, broker, memory
<1>1. CASE Refresh
  <2>1. CASE enabled
    BY <1>1, <2>1, EndTyped DEF Refresh, TypeInv, TypeOK
  <2>2. CASE ~enabled
    BY <1>1, <2>2, EndTyped DEF Refresh, EndSession, TypeInv, TypeOK
  <2> QED
    BY <2>1, <2>2
<1>2. CASE SyncRaises
  <2>1. used' \in [Kinds -> Nat] /\ \A j \in Kinds : used'[j] <= Cap[j]
    BY <1>2, SpendTyped DEF SyncRaises, Kinds, TypeInv, TypeOK
  <2>2. CASE session = "first"
    BY <1>2, <2>1, <2>2, EndTyped DEF SyncRaises, EndSession, TypeInv, TypeOK
  <2>3. CASE session # "first"
    BY <1>2, <2>1, <2>3, EndTyped DEF SyncRaises, TypeInv, TypeOK
  <2> QED
    BY <2>2, <2>3
<1>3. CASE ReadLists
  <2>1. PICK bad \in {{}, {"rooms"}, {"thermostats"}, {"system"}} :
           /\ Mishap(bad # {})
           /\ sync' = [sync EXCEPT !.pc = "details", !.failed = bad,
                                   !.rooms = IF "rooms" \in bad THEN NoRooms ELSE room,
                                   !.system = system]
    BY <1>3 DEF ReadLists
  <2>2. used' \in [Kinds -> Nat] /\ \A j \in Kinds : used'[j] <= Cap[j]
    BY <2>1, SpendTyped DEF Mishap, Kinds, TypeInv, TypeOK
  <2>3. sync' \in Syncs /\ sync'.pc = "details"
    BY <2>1 DEF Syncs, Failures, RoomTables, NoRooms, TypeInv, TypeOK
  <2> QED
    BY <1>3, <2>2, <2>3 DEF ReadLists, TypeInv, TypeOK
<1>4. CASE ReadDetails
  <2> DEFINE listed == {r \in Rooms : sync.rooms[r] # None}
             lost   == {r \in listed : room[r] = None}
             table  == [r \in Rooms |->
                          IF r \in listed \ lost THEN [sync.rooms[r] EXCEPT !.hold = room[r].hold]
                          ELSE IF r \in lost THEN [sync.rooms[r] EXCEPT !.hold = None] ELSE None]
  <2>1. PICK bad \in {{}, {"status"}} :
           /\ Mishap(bad # {})
           /\ sync' = [sync EXCEPT
                  !.pc = "configs",
                  !.failed = @ \cup bad \cup (IF lost = {} THEN {} ELSE {"schedules"}),
                  !.rooms = table]
    BY <1>4 DEF ReadDetails
  <2>2. used' \in [Kinds -> Nat] /\ \A j \in Kinds : used'[j] <= Cap[j]
    BY <2>1, SpendTyped DEF Mishap, Kinds, TypeInv, TypeOK
  <2>3. table \in RoomTables
    <3>1. ASSUME NEW r \in listed PROVE sync.rooms[r] \in RoomRecords
      BY <3>1 DEF TypeInv, Syncs, RoomTables
    <3>2. ASSUME NEW r \in listed \ lost PROVE room[r] \in RoomRecords
      BY <3>2 DEF TypeInv, TypeOK
    <3>3. ASSUME NEW r \in listed, NEW h \in {None, Own}
          PROVE  [sync.rooms[r] EXCEPT !.hold = h] \in RoomRecords
      BY <3>1 DEF RoomRecords
    <3>4. ASSUME NEW r \in listed \ lost PROVE room[r].hold \in {None, Own}
      BY <3>2 DEF RoomRecords
    <3> HIDE DEF listed, lost
    <3> QED
      BY <3>3, <3>4 DEF RoomTables, lost
  <2> HIDE DEF table, lost
  <2>4. sync' \in Syncs /\ sync'.pc = "configs"
    BY <2>1, <2>3 DEF Syncs, Failures, TypeInv
  <2> QED
    BY <1>4, <2>2, <2>4 DEF ReadDetails, TypeInv, TypeOK
<1>5. CASE PublishConfigs
  <2>1. ConfigTopics \in SUBSET MirrorTopics /\ PublishAll(ConfigTopics \cap Changed(Desired(sync)), Desired(sync))
    <3>1. Changed(Desired(sync)) \cap ConfigTopics = ConfigTopics \cap Changed(Desired(sync))
      OBVIOUS
    <3> QED
      BY <1>5, <3>1 DEF PublishConfigs, MirrorTopics
  <2>2. sync' \in Syncs /\ sync'.pc = "states"
    BY <1>5 DEF PublishConfigs, Syncs, TypeInv
  <2>3. /\ kept' \in [Topics -> (Payloads \ {Blank}) \cup {None}]
        /\ retained' \in [Topics -> Payloads \cup {None}]
        /\ \A t \in CommandTopics : retained'[t] = None
    BY <2>1, PublishAllTyped
  <2> QED
    BY <1>5, <2>2, <2>3 DEF PublishConfigs, TypeInv, TypeOK
<1>6. CASE PublishStates
  <2>1. StateTopics \in SUBSET MirrorTopics /\ PublishAll(StateTopics \cap Changed(Desired(sync)), Desired(sync))
    <3>1. Changed(Desired(sync)) \cap StateTopics = StateTopics \cap Changed(Desired(sync))
      OBVIOUS
    <3> QED
      BY <1>6, <3>1 DEF PublishStates, MirrorTopics
  <2>2. /\ sync' \in Syncs /\ sync'.pc \in {"idle", "retire"}
        /\ (sync'.pc = "retire" /\ session' = session) \/ session' = "live"
    BY <1>6, EndTyped DEF PublishStates, SyncReturns, Syncs, TypeInv
  <2>3. /\ kept' \in [Topics -> (Payloads \ {Blank}) \cup {None}]
        /\ retained' \in [Topics -> Payloads \cup {None}]
        /\ \A t \in CommandTopics : retained'[t] = None
    BY <2>1, PublishAllTyped
  <2> QED
    BY <1>6, <2>2, <2>3 DEF PublishStates, TypeInv, TypeOK
<1>7. CASE Retire
  <2>1. /\ sync' \in Syncs /\ sync'.pc \in {"idle", "sweep"} /\ session' = "live"
    BY <1>7, EndTyped DEF Retire, SyncReturns, Syncs, TypeInv
  <2>2. /\ kept' \in [Topics -> (Payloads \ {Blank}) \cup {None}]
        /\ retained' \in [Topics -> Payloads \cup {None}]
        /\ \A t \in CommandTopics : retained'[t] = None
    BY <1>7 DEF Retire, TypeInv, TypeOK, Topics
  <2> QED
    BY <1>7, <2>1, <2>2 DEF Retire, TypeInv, TypeOK
<1>8. CASE Sweep
  <2>1. inbox' \in Seq(Messages)
    BY <1>8, BlankingsTyped DEF Sweep, TypeInv, TypeOK
  <2>2. kept' \in [Topics -> (Payloads \ {Blank}) \cup {None}]
    BY <1>8 DEF Sweep, TypeInv, TypeOK
  <2>3. Moved \subseteq ConfigTopics
    BY DEF Moved
  <2>4. sync' \in Syncs /\ sync'.pc \in {"idle", "republish"}
    BY <1>8, <2>3, EndTyped DEF Sweep, Syncs, TypeInv
  <2>5. session = "live"
    BY <1>8 DEF Sweep, TypeInv, TypeOK
  <2>6. noted' \in [Topics -> (Payloads \ {Blank}) \cup {None}] /\ reconciled' \in BOOLEAN
    BY <1>8, EndTyped DEF Sweep, TypeInv, TypeOK
  <2>7. tardy' \in BOOLEAN
    BY <1>8 DEF Sweep
  <2> QED
    BY <1>8, <2>1, <2>2, <2>4, <2>5, <2>6, <2>7 DEF Sweep, TypeInv, TypeOK
<1>9. CASE Republish
  <2>1. kept' \in [Topics -> (Payloads \ {Blank}) \cup {None}]
    BY <1>9 DEF Republish, AsKept, TypeInv, TypeOK
  <2> QED
    BY <1>9, <2>1, EndTyped DEF Republish, TypeInv, TypeOK
<1> QED
  BY <1>1, <1>2, <1>3, <1>4, <1>5, <1>6, <1>7, <1>8, <1>9 DEF SyncSteps

(* those of the reader, *)
LEMMA TypeReader == ASSUME TypeInv, ReaderSteps PROVE TypeInv'
<1> USE DEF database, broker, memory
<1>1. CASE ReadReplay
  <2>1. noted' \in [Topics -> (Payloads \ {Blank}) \cup {None}]
    BY <1>1 DEF ReadReplay, TypeInv, TypeOK
  <2> QED
    BY <1>1, <2>1, EndTyped DEF ReadReplay, TypeInv, TypeOK
<1>2. CASE TakeOrder
  <2>1. Head(inbox) \in Messages /\ Tail(inbox) \in Seq(Messages)
    BY <1>2 DEF TakeOrder, TypeInv, TypeOK
  <2> DEFINE o == Head(inbox)
  <2>2. PICK bad \in BOOLEAN :
           LET r == IF bad THEN None ELSE Holder(room, o.ident)
               known == o.control = "enabled" \/ r # None
           IN  /\ Mishap(bad)
               /\ bad => o.control # "enabled"
               /\ reader' = [pc |-> IF known /\ Decodes(o) THEN "dispatch" ELSE "result",
                             order |-> o, room |-> r, ok |-> FALSE]
    BY <1>2 DEF TakeOrder
  <2> DEFINE r == IF bad THEN None ELSE Holder(room, o.ident)
  <2>3. r \in Rooms \cup {None}
    BY HolderTyped DEF RoomTables, TypeInv, TypeOK
  <2>4. used' \in [Kinds -> Nat] /\ \A j \in Kinds : used'[j] <= Cap[j]
    BY <2>2, SpendTyped DEF Mishap, Kinds, TypeInv, TypeOK
  <2> HIDE DEF o, r
  <2>5. reader' \in Readers /\ Dispatchable(reader')
    BY <2>1, <2>2, <2>3 DEF Readers, Dispatchable, r, o
  <2> QED
    BY <1>2, <2>1, <2>4, <2>5 DEF TakeOrder, TypeInv, TypeOK
<1>3. CASE Dispatch
  <2>1. reader.order \in Messages /\ Decodes(reader.order)
        /\ (reader.order.control # "enabled" => reader.room \in Rooms)
    BY <1>3 DEF Dispatch, TypeInv, Dispatchable
  <2>2. reader' \in Readers /\ Dispatchable(reader') /\ reader'.pc = "result"
    BY <1>3 DEF Dispatch, TypeInv, Readers, Dispatchable
  <2>3. wake' \in BOOLEAN
    BY <1>3 DEF Dispatch, TypeInv, TypeOK
  <2>4. CASE reader.order.control = "enabled"
    <3>1. system' \in {On, Off} /\ UNCHANGED room
      BY <1>3, <2>1, <2>4 DEF Dispatch, Messages, Decodes, Clears
    <3> QED
      BY <1>3, <2>2, <2>3, <3>1 DEF Dispatch, TypeInv, TypeOK
  <2>5. CASE reader.order.control # "enabled"
    <3>1. Decoded(reader.order) \in {None, Own}
      BY <2>1, <2>5 DEF Decoded, Clears, Messages
    <3>2. room' \in RoomTables /\ \A r \in Rooms : room'[r] # None => room[r] # None
      <4> DEFINE r == reader.room  v == Decoded(reader.order)
      <4>1. room \in RoomTables /\ r \in Rooms /\ v \in {None, Own}
        BY <2>1, <2>5, <3>1 DEF RoomTables, TypeInv, TypeOK
      <4>2. \/ UNCHANGED room
            \/ room[r] # None /\ room' \in {[room EXCEPT ![r].knob = v], [room EXCEPT ![r].hold = v]}
        BY <1>3, <2>5 DEF Dispatch
      <4> HIDE DEF r, v
      <4>3. room[r] # None =>
               /\ [room[r] EXCEPT !.knob = v] \in RoomRecords
               /\ [room[r] EXCEPT !.hold = v] \in RoomRecords
        BY <4>1 DEF RoomTables, RoomRecords
      <4> QED
        BY <4>1, <4>2, <4>3 DEF RoomTables
    <3> QED
      BY <1>3, <2>2, <2>3, <2>5, <3>2 DEF Dispatch, RoomTables, TypeInv, TypeOK
  <2> QED
    BY <2>4, <2>5
<1>4. CASE Answer
  BY <1>4, EndTyped DEF Answer, TypeInv, TypeOK
<1> QED
  BY <1>1, <1>2, <1>3, <1>4 DEF ReaderSteps

(* What the others may make of the rooms *)
LEMMA EditTyped ==
    ASSUME TypeInv, NEW rooms \in RoomTables, NEW ids \in SUBSET Rooms, Edit(rooms, ids),
           \A r \in Rooms : rooms[r] # None => r \in ids
    PROVE  TypeInv'
<1>1. used' \in [Kinds -> Nat] /\ \A j \in Kinds : used'[j] <= Cap[j]
  BY SpendTyped DEF Edit, Kinds, TypeInv, TypeOK
<1> QED
  BY <1>1 DEF Edit, broker, memory, RoomTables, TypeInv, TypeOK

(* those of the others, *)
LEMMA TypeOthers == ASSUME TypeInv, Others PROVE TypeInv'
<1> USE DEF database, broker, memory
<1>1. ASSUME NEW r \in Rooms, DeleteRoom(r) PROVE TypeInv'
  <2>1. [room EXCEPT ![r] = None] \in RoomTables
    BY DEF RoomTables, TypeInv, TypeOK
  <2>2. \A x \in Rooms : [room EXCEPT ![r] = None][x] # None => x \in born
    BY DEF TypeInv, TypeOK
  <2>3. Edit([room EXCEPT ![r] = None], born) /\ born \in SUBSET Rooms
    BY <1>1 DEF DeleteRoom, TypeInv, TypeOK
  <2> QED
    BY <2>1, <2>2, <2>3, EditTyped
<1>2. ASSUME NEW r \in Rooms, SetHold(r) PROVE TypeInv'
  <2>1. [room EXCEPT ![r].hold = Own] \in RoomTables
    BY <1>2 DEF SetHold, RoomTables, RoomRecords, TypeInv, TypeOK
  <2> QED
    BY <1>2, <2>1, EditTyped DEF SetHold, TypeInv, TypeOK
<1>3. ASSUME NEW r \in Rooms, Expire(r) PROVE TypeInv'
  <2>1. room' \in RoomTables
    BY <1>3 DEF Expire, RoomTables, RoomRecords, TypeInv, TypeOK
  <2>2. used' \in [Kinds -> Nat] /\ \A j \in Kinds : used'[j] <= Cap[j]
    BY <1>3, SpendTyped DEF Expire, Kinds, TypeInv, TypeOK
  <2>3. \A x \in Rooms : room'[x] # None => x \in born
    BY <1>3 DEF Expire, TypeInv, TypeOK
  <2> QED
    BY <1>3, <2>1, <2>2, <2>3 DEF Expire, RoomTables, TypeInv, TypeOK
<1>4. ASSUME NEW r \in Rooms, NEW n \in Names, CreateRoom(r, n) PROVE TypeInv'
  <2>1. [room EXCEPT ![r] = [name |-> n, knob |-> None, hold |-> None]] \in RoomTables
    <3>1. [name |-> n, knob |-> None, hold |-> None] \in RoomRecords
      BY DEF RoomRecords
    <3> QED
      BY <3>1 DEF RoomTables, TypeInv, TypeOK
  <2> DEFINE rooms == [room EXCEPT ![r] = [name |-> n, knob |-> None, hold |-> None]]
  <2>2. \A x \in Rooms : rooms[x] # None => x \in born \cup {r}
    BY DEF TypeInv, TypeOK
  <2>3. Edit(rooms, born \cup {r}) /\ born \cup {r} \in SUBSET Rooms
    BY <1>4 DEF CreateRoom, TypeInv, TypeOK
  <2> QED
    BY <2>1, <2>2, <2>3, EditTyped
<1>5. ASSUME NEW r \in Rooms, NEW n \in Names, RenameRoom(r, n) PROVE TypeInv'
  <2>1. [room EXCEPT ![r].name = n] \in RoomTables
    BY <1>5 DEF RenameRoom, RoomTables, RoomRecords, TypeInv, TypeOK
  <2> QED
    BY <1>5, <2>1, EditTyped DEF RenameRoom, TypeInv, TypeOK
<1>6. ASSUME NEW r \in Rooms, NEW v \in {None, Own}, SetKnob(r, v) PROVE TypeInv'
  <2>1. [room EXCEPT ![r].knob = v] \in RoomTables
    BY <1>6 DEF SetKnob, RoomTables, RoomRecords, TypeInv, TypeOK
  <2> QED
    BY <1>6, <2>1, EditTyped DEF SetKnob, TypeInv, TypeOK
<1>7. CASE SetEnabled
  <2>1. used' \in [Kinds -> Nat] /\ \A j \in Kinds : used'[j] <= Cap[j]
    BY <1>7, SpendTyped DEF SetEnabled, Kinds, TypeInv, TypeOK
  <2> QED
    BY <1>7, <2>1 DEF SetEnabled, TypeInv, TypeOK
<1>8. ASSUME NEW o \in Orders, NEW retain \in BOOLEAN, Publish(o, retain) PROVE TypeInv'
  <2>1. used' \in [Kinds -> Nat] /\ \A j \in Kinds : used'[j] <= Cap[j]
    BY <1>8, SpendTyped DEF Publish, Kinds, TypeInv, TypeOK
  <2>2. o \in Messages /\ AsKept(o.payload) \in (Payloads \ {Blank}) \cup {None}
    BY StartAssumption DEF Messages, AsKept, Payloads
  <2>3. inbox' \in Seq(Messages) /\ (session = "off" => inbox' = <<>>)
    BY <1>8, <2>2 DEF Publish, TypeInv, TypeOK
  <2>4. kept' \in [Topics -> (Payloads \ {Blank}) \cup {None}]
    BY <1>8, <2>2 DEF Publish, TypeInv, TypeOK
  <2> QED
    BY <1>8, <2>1, <2>3, <2>4 DEF Publish, TypeInv, TypeOK
<1> QED
  BY <1>1, <1>2, <1>3, <1>4, <1>5, <1>6, <1>7, <1>8 DEF Others

(* and so every step. *)
LEMMA TypeNext == TypeInv /\ [Next]_vars => TypeInv'
<1> SUFFICES ASSUME TypeInv, [Next]_vars PROVE TypeInv'
  OBVIOUS
<1>1. CASE UNCHANGED vars
  BY <1>1 DEF vars, database, broker, memory, TypeInv, TypeOK
<1> QED
  BY <1>1, TypeSession, TypeSync, TypeReader, TypeOthers DEF Next

(* Every state of the bridge has its type: in particular no session that is
   off goes on with a sync, a command or a message, and no command topic is
   ever taken for one of the mirror. *)
THEOREM BridgeTypeCorrect == Spec => []TypeOK
<1>1. TypeInv => TypeOK
  BY DEF TypeInv
<1> QED
  BY <1>1, TypeInit, TypeNext, PTL DEF Spec

-----------------------------------------------------------------------------
(* The configs of the rooms that exist *)

C(r) == <<"config", r>>

(* A config on the broker, on its way from it or in the memory of the bridge *)
Seen(r) == noted[C(r)] # None \/ replay[C(r)] # None \/ retained[C(r)] # None

(* A config is that of a room that has been; ids are not used twice. *)
ConfigsHaveRooms ==
    \A r \in Rooms :
        /\ kept[C(r)] # None \/ Seen(r) \/ sync.rooms[r] # None => r \in born
        /\ retained[C(r)] \in Configs \cup {None}

(* A sync that read the rooms knows each that exists and was seen before. *)
SyncKnows ==
    sync.pc \in {"details", "configs", "states", "retire", "sweep"} /\ "rooms" \notin sync.failed
      => \A r \in Rooms : room[r] # None /\ Seen(r) => sync.rooms[r] # None

(* What a sync does to the topics is done in an order. *)
SyncOrder ==
    /\ sync.pc \in {"states", "retire", "sweep"}
          => \A r \in Rooms : sync.rooms[r] # None => retained[C(r)] # None
    /\ sync.pc \in {"retire", "sweep"} => sync.failed = {}
    /\ sync.pc = "republish" => \A t \in sync.moved : retained[t] # None

KeptInv == ConfigsHaveRooms /\ SyncKnows /\ SyncOrder

(* Configs are on topics of their own. *)
LEMMA ConfigIsTopic == \A r \in Rooms : C(r) \in ConfigTopics /\ C(r) \in Topics /\ C(r) \notin StateTopics \cup CommandTopics
BY TopicsApart DEF C, ConfigTopics, Topics, MirrorTopics

(* At the start nothing has been seen of a room that has not been. *)
LEMMA KeptInit == Init => KeptInv
<1> SUFFICES ASSUME Init PROVE KeptInv
  OBVIOUS
<1>1. \A r \in Rooms : Nothing[C(r)] = None
  BY ConfigIsTopic DEF Nothing
<1>2. sync.pc = "idle" /\ \A r \in Rooms : sync.rooms[r] = None
  BY DEF Init, NoSync, NoRooms
<1>3. \A r \in Rooms : kept[C(r)] # None => r \in born
  BY <1>1 DEF Init
<1> QED
  BY <1>1, <1>2, <1>3 DEF Init, KeptInv, ConfigsHaveRooms, SyncKnows, SyncOrder, Seen

(* A session that ends forgets its sync. *)
LEMMA KeptForgets ==
    ASSUME KeptInv, sync' = NoSync, born' = born,
           \A r \in Rooms : /\ kept'[C(r)] \in {kept[C(r)], None}
                            /\ noted'[C(r)] \in {noted[C(r)], None}
                            /\ replay'[C(r)] \in {replay[C(r)], None}
                            /\ retained'[C(r)] \in {retained[C(r)], None}
    PROVE  KeptInv'
<1>1. sync'.pc = "idle" /\ \A r \in Rooms : sync'.rooms[r] = None
  BY DEF NoSync, NoRooms
<1>2. ConfigsHaveRooms'
  BY <1>1 DEF KeptInv, ConfigsHaveRooms, Seen, C
<1> QED
  BY <1>1, <1>2 DEF KeptInv, SyncKnows, SyncOrder

(* Nor does what leaves the sync, the topics and the set of the rooms alone
   disturb anything. *)
LEMMA KeptStays ==
    ASSUME KeptInv, UNCHANGED <<sync, retained, noted, replay>>,
           born \subseteq born',
           \A r \in Rooms : /\ kept'[C(r)] \in {kept[C(r)], None}
                            /\ room'[r] # None => room[r] # None \/ r \notin born
    PROVE  KeptInv'
<1>1. \A r \in Rooms : Seen(r)' <=> Seen(r)
  BY DEF Seen, C
<1>2. ConfigsHaveRooms'
  BY <1>1 DEF KeptInv, ConfigsHaveRooms, C
<1>3. SyncKnows'
  BY <1>1 DEF KeptInv, SyncKnows, ConfigsHaveRooms
<1>4. SyncOrder'
  BY DEF KeptInv, SyncOrder, C
<1> QED
  BY <1>2, <1>3, <1>4 DEF KeptInv

(* The session and the broker keep the configs in order; *)
LEMMA KeptSession ==
    ASSUME TypeInv, KeptInv, SessionSteps \/ Drop \/ BrokerRestarts \/ WillFires PROVE KeptInv'
<1> USE DEF database, broker, memory
<1>0. \A r \in Rooms : Nothing[C(r)] = None
  BY ConfigIsTopic DEF Nothing
<1>1. CASE Connect
  <2>1. sync'.pc = "lists" /\ \A r \in Rooms : sync'.rooms[r] = None
    BY <1>1 DEF Connect, NewSync, NoSync, NoRooms
  <2>2. ConfigsHaveRooms'
    BY <1>0, <1>1, <2>1 DEF Connect, KeptInv, ConfigsHaveRooms, Seen, C
  <2> QED
    BY <2>1, <2>2 DEF KeptInv, SyncKnows, SyncOrder
<1>2. CASE IdleWhileDisabled
  BY <1>2, KeptStays DEF IdleWhileDisabled
<1>3. CASE Drop
  BY <1>0, <1>3, KeptForgets DEF Drop, EndSession
<1>4. CASE BrokerRestarts
  BY <1>0, <1>4, KeptForgets DEF BrokerRestarts
<1>5. CASE WillFires
  BY <1>5, KeptStays DEF WillFires
<1> QED
  BY <1>1, <1>2, <1>3, <1>4, <1>5 DEF SessionSteps

(* the reader does; *)
LEMMA KeptReader == ASSUME TypeInv, KeptInv, ReaderSteps PROVE KeptInv'
<1> USE DEF database, broker, memory
<1>1. CASE ReadReplay
  <2>1. \A r \in Rooms : Seen(r)' => Seen(r)
    BY <1>1, ConfigIsTopic DEF ReadReplay, Seen, Nothing, C
  <2>2. ConfigsHaveRooms'
    BY <1>1, <2>1 DEF ReadReplay, KeptInv, ConfigsHaveRooms, C
  <2>3. SyncKnows' /\ SyncOrder'
    BY <1>1, <2>1 DEF ReadReplay, KeptInv, SyncKnows, SyncOrder, C
  <2> QED
    BY <2>2, <2>3 DEF KeptInv
<1>2. CASE TakeOrder
  BY <1>2, KeptStays DEF TakeOrder
<1>3. CASE Dispatch
  <2>1. \A r \in Rooms : room'[r] # None => room[r] # None
    BY <1>3 DEF Dispatch, TypeInv, TypeOK
  <2> QED
    BY <1>3, <2>1, KeptStays DEF Dispatch
<1>4. CASE Answer
  BY <1>4, KeptStays DEF Answer
<1> QED
  BY <1>1, <1>2, <1>3, <1>4 DEF ReaderSteps

(* the edits do, as an id is not used twice; *)
LEMMA KeptOthers == ASSUME TypeInv, KeptInv, Others PROVE KeptInv'
<1> USE DEF database, broker, memory
<1>1. ASSUME NEW r \in Rooms,
             DeleteRoom(r) \/ SetHold(r) \/ Expire(r)
               \/ (\E n \in Names : RenameRoom(r, n)) \/ (\E v \in {None, Own} : SetKnob(r, v))
      PROVE KeptInv'
  <2>1. /\ UNCHANGED <<sync, retained, noted, replay, born, kept>>
        /\ \A x \in Rooms : room'[x] # None => room[x] # None
    BY <1>1 DEF DeleteRoom, SetHold, Expire, RenameRoom, SetKnob, Edit, TypeInv, TypeOK
  <2> QED
    BY <2>1, KeptStays
<1>2. ASSUME NEW r \in Rooms, NEW n \in Names, CreateRoom(r, n) PROVE KeptInv'
  <2>1. /\ UNCHANGED <<sync, retained, noted, replay, kept>> /\ born \subseteq born'
        /\ \A x \in Rooms : room'[x] # None => room[x] # None \/ x \notin born
    BY <1>2 DEF CreateRoom, Edit, TypeInv, TypeOK
  <2> QED
    BY <2>1, KeptStays
<1>3. CASE SetEnabled
  BY <1>3, KeptStays DEF SetEnabled
<1>4. ASSUME NEW o \in Orders, NEW retain \in BOOLEAN, Publish(o, retain) PROVE KeptInv'
  <2>1. \A r \in Rooms : kept'[C(r)] = kept[C(r)]
    <3>1. TopicOf(o) \in CommandTopics
      BY DEF CommandTopics
    <3> QED
      BY <1>4, <3>1, ConfigIsTopic DEF Publish, TypeInv, TypeOK
  <2> QED
    BY <1>4, <2>1, KeptStays DEF Publish
<1> QED
  BY <1>1, <1>2, <1>3, <1>4 DEF Others

(* and a sync does, whatever happens between its reads and its publications. *)
LEMMA KeptSync == ASSUME TypeInv, KeptInv, SyncSteps PROVE KeptInv'
<1> USE DEF database, broker, memory
<1>0. \A r \in Rooms : Nothing[C(r)] = None
  BY ConfigIsTopic DEF Nothing
<1>d. \A r \in Rooms : IF sync.rooms[r] = None THEN Desired(sync)[C(r)] = None
                       ELSE Desired(sync)[C(r)] \in Configs
  BY DesiredTyped DEF TypeInv, C
<1>t. retained \in [Topics -> Payloads \cup {None}] /\ kept \in [Topics -> (Payloads \ {Blank}) \cup {None}]
  BY DEF TypeInv, TypeOK
<1>c. None \notin Configs /\ Blank \notin Configs
  BY StartAssumption
<1>1. CASE Refresh
  <2>1. CASE enabled
    <3>1. sync'.pc = "lists" /\ \A r \in Rooms : sync'.rooms[r] = None
      BY <1>1, <2>1 DEF Refresh, NewSync, NoSync, NoRooms
    <3>2. ConfigsHaveRooms'
      BY <1>1, <2>1, <3>1 DEF Refresh, KeptInv, ConfigsHaveRooms, Seen, C
    <3> QED
      BY <3>1, <3>2 DEF KeptInv, SyncKnows, SyncOrder
  <2>2. CASE ~enabled
    BY <1>0, <1>1, <2>2, KeptForgets DEF Refresh, EndSession
  <2> QED
    BY <2>1, <2>2
<1>2. CASE SyncRaises
  BY <1>0, <1>2, KeptForgets DEF SyncRaises, EndSession
<1>3. CASE ReadLists
  <2>1. PICK bad \in {{}, {"rooms"}, {"thermostats"}, {"system"}} :
           sync' = [sync EXCEPT !.pc = "details", !.failed = bad,
                                !.rooms = IF "rooms" \in bad THEN NoRooms ELSE room,
                                !.system = system]
    BY <1>3 DEF ReadLists
  <2>2. /\ sync'.pc = "details" /\ sync'.failed = bad
        /\ sync'.rooms = IF "rooms" \in bad THEN NoRooms ELSE room
    BY <2>1 DEF TypeInv, Syncs
  <2>3. \A r \in Rooms : /\ sync'.rooms[r] # None => r \in born
                         /\ "rooms" \notin sync'.failed => sync'.rooms[r] = room[r]
    BY <2>2 DEF NoRooms, TypeInv, TypeOK
  <2>4. ConfigsHaveRooms'
    BY <1>3, <2>3 DEF ReadLists, KeptInv, ConfigsHaveRooms, Seen, C
  <2>5. SyncKnows'
    BY <1>3, <2>3 DEF ReadLists, SyncKnows
  <2> QED
    BY <2>2, <2>4, <2>5 DEF KeptInv, SyncOrder
<1>4. CASE ReadDetails
  <2>1. /\ sync'.pc = "configs"
        /\ "rooms" \in sync.failed => "rooms" \in sync'.failed
        /\ \A r \in Rooms : sync'.rooms[r] # None <=> sync.rooms[r] # None
    <3> DEFINE listed == {r \in Rooms : sync.rooms[r] # None}
               lost   == {r \in listed : room[r] = None}
               table  == [r \in Rooms |->
                            IF r \in listed \ lost THEN [sync.rooms[r] EXCEPT !.hold = room[r].hold]
                            ELSE IF r \in lost THEN [sync.rooms[r] EXCEPT !.hold = None] ELSE None]
    <3>1. PICK bad \in {{}, {"status"}} :
             sync' = [sync EXCEPT
                    !.pc = "configs",
                    !.failed = @ \cup bad \cup (IF lost = {} THEN {} ELSE {"schedules"}),
                    !.rooms = table]
      BY <1>4 DEF ReadDetails
    <3>2. ASSUME NEW r \in Rooms PROVE table[r] # None <=> sync.rooms[r] # None
      <4>1. CASE r \in listed
        <5>1. sync.rooms[r] \in RoomRecords
          BY <4>1 DEF TypeInv, Syncs, RoomTables
        <5>2. r \in listed \ lost => room[r] \in RoomRecords
          BY <4>1 DEF TypeInv, TypeOK
        <5>3. table[r] \in RoomRecords
          BY <4>1, <5>1, <5>2 DEF RoomRecords
        <5> QED
          BY <4>1, <5>3, StartAssumption
      <4>2. CASE r \notin listed
        BY <4>2
      <4> QED
        BY <4>1, <4>2
    <3> HIDE DEF lost, table
    <3>3. sync'.rooms = table /\ sync'.pc = "configs" /\ sync.failed \subseteq sync'.failed
      BY <3>1 DEF TypeInv, Syncs
    <3> QED
      BY <3>2, <3>3
  <2>2. ConfigsHaveRooms'
    BY <1>4, <2>1 DEF ReadDetails, KeptInv, ConfigsHaveRooms, Seen, C
  <2>3. SyncKnows'
    <3>1. sync.pc = "details" /\ UNCHANGED <<room, noted, replay, retained>>
      BY <1>4 DEF ReadDetails
    <3>2. \A r \in Rooms : Seen(r)' <=> Seen(r)
      BY <3>1 DEF Seen, C
    <3> QED
      BY <2>1, <3>1, <3>2 DEF KeptInv, SyncKnows
  <2> QED
    BY <2>1, <2>2, <2>3 DEF KeptInv, SyncOrder
<1>5. CASE PublishConfigs
  <2>1. \A r \in Rooms :
           retained'[C(r)] = IF Desired(sync)[C(r)] # None THEN Desired(sync)[C(r)] ELSE retained[C(r)]
    BY <1>5, <1>t, ConfigIsTopic DEF PublishConfigs, PublishAll, Changed
  <2>2. \A r \in Rooms :
           kept'[C(r)] # None => kept[C(r)] # None \/ Desired(sync)[C(r)] # None
    BY <1>5, <1>t, ConfigIsTopic DEF PublishConfigs, PublishAll, Changed
  <2>3. sync' = [sync EXCEPT !.pc = "states"] /\ sync.pc = "configs" /\ UNCHANGED <<room, born, noted, replay>>
    BY <1>5 DEF PublishConfigs
  <2>4. sync'.pc = "states" /\ sync'.rooms = sync.rooms /\ sync'.failed = sync.failed
    BY <2>3 DEF TypeInv, Syncs
  <2>5. \A r \in Rooms : Seen(r)' => Seen(r) \/ sync.rooms[r] # None
    BY <1>d, <2>1, <2>3 DEF Seen, C
  <2>6. ConfigsHaveRooms'
    BY <1>d, <2>1, <2>2, <2>3, <2>4, <2>5 DEF KeptInv, ConfigsHaveRooms, C
  <2>7. SyncKnows'
    BY <2>3, <2>4, <2>5 DEF KeptInv, SyncKnows
  <2>8. SyncOrder'
    BY <1>c, <1>d, <2>1, <2>4 DEF SyncOrder, C
  <2> QED
    BY <2>6, <2>7, <2>8 DEF KeptInv
<1>6. CASE PublishStates
  <2>1. /\ sync.pc = "states" /\ UNCHANGED <<room, born, noted, replay>>
        /\ \A r \in Rooms : retained'[C(r)] = retained[C(r)] /\ kept'[C(r)] = kept[C(r)]
    BY <1>6, <1>t, ConfigIsTopic DEF PublishStates, PublishAll
  <2>2. CASE Partial(sync)
    <3>1. sync' = NoSync
      BY <1>6, <2>2 DEF PublishStates, SyncReturns
    <3> QED
      BY <2>1, <3>1, KeptForgets
  <2>3. CASE ~Partial(sync)
    <3>1. sync'.pc = "retire" /\ sync'.rooms = sync.rooms /\ sync'.failed = sync.failed /\ sync.failed = {}
      BY <1>6, <2>3 DEF PublishStates, Partial, TypeInv, Syncs
    <3>2. \A r \in Rooms : Seen(r)' <=> Seen(r)
      BY <2>1 DEF Seen, C
    <3> QED
      BY <2>1, <3>1, <3>2 DEF KeptInv, ConfigsHaveRooms, SyncKnows, SyncOrder, C
  <2> QED
    BY <2>2, <2>3
<1>7. CASE Retire
  <2>1. /\ sync.pc = "retire" /\ UNCHANGED <<room, born, noted, replay>>
        /\ \A r \in Rooms : kept'[C(r)] \in {kept[C(r)], None}
        /\ \A r \in Rooms : retained'[C(r)] \in {retained[C(r)], None}
        /\ \A r \in Rooms : sync.rooms[r] # None => retained'[C(r)] = retained[C(r)]
    BY <1>7, <1>c, <1>d, <1>t, ConfigIsTopic DEF Retire
  <2>2. \/ sync' = NoSync
        \/ sync'.pc = "sweep" /\ sync'.rooms = sync.rooms /\ sync'.failed = sync.failed
    BY <1>7 DEF Retire, SyncReturns, TypeInv, Syncs
  <2>3. CASE sync' = NoSync
    BY <2>1, <2>3, KeptForgets
  <2>4. CASE sync'.pc = "sweep" /\ sync'.rooms = sync.rooms /\ sync'.failed = sync.failed
    <3>1. \A r \in Rooms : Seen(r)' => Seen(r)
      BY <2>1 DEF Seen, C
    <3>2. ConfigsHaveRooms'
      BY <2>1, <2>4, <3>1 DEF KeptInv, ConfigsHaveRooms, C
    <3>3. SyncKnows'
      BY <2>1, <2>4, <3>1 DEF KeptInv, SyncKnows
    <3>4. SyncOrder'
      BY <2>1, <2>4 DEF KeptInv, SyncOrder, C
    <3> QED
      BY <3>2, <3>3, <3>4 DEF KeptInv
  <2> QED
    BY <2>2, <2>3, <2>4
<1>8. CASE Sweep
  <2>1. /\ UNCHANGED <<room, born, retained, replay>>
        /\ \A r \in Rooms : /\ kept'[C(r)] \in {kept[C(r)], None}
                             /\ noted'[C(r)] \in {noted[C(r)], None}
    BY <1>0, <1>8, <1>t, ConfigIsTopic DEF Sweep
  <2>2. CASE Moved = {}
    <3>1. sync' = NoSync
      BY <1>8, <2>2 DEF Sweep
    <3> QED
      BY <2>1, <3>1, KeptForgets
  <2>3. CASE Moved # {}
    <3>1. sync'.pc = "republish" /\ sync'.rooms = sync.rooms /\ sync'.moved = Moved
      BY <1>8, <2>3 DEF Sweep, TypeInv, Syncs
    <3>2. \A t \in Moved : retained[t] # None
      BY DEF Moved
    <3>3. ConfigsHaveRooms'
      BY <2>1, <3>1 DEF KeptInv, ConfigsHaveRooms, Seen, C
    <3> QED
      BY <2>1, <3>1, <3>2, <3>3 DEF KeptInv, SyncKnows, SyncOrder
  <2> QED
    BY <2>2, <2>3
<1>9. CASE Republish
  <2>1. sync'.pc = "idle" /\ \A r \in Rooms : sync'.rooms[r] = None
    BY <1>9 DEF Republish, NoSync, NoRooms
  <2>2. \A r \in Rooms : kept'[C(r)] # None => kept[C(r)] # None \/ retained[C(r)] # None
    BY <1>9, <1>t, ConfigIsTopic DEF Republish, AsKept
  <2>3. UNCHANGED <<born, retained, replay>> /\ \A r \in Rooms : noted'[C(r)] = None
    BY <1>0, <1>9 DEF Republish
  <2>4. ConfigsHaveRooms'
    BY <2>1, <2>2, <2>3 DEF KeptInv, ConfigsHaveRooms, Seen, C
  <2> QED
    BY <2>1, <2>4 DEF KeptInv, SyncKnows, SyncOrder
<1> QED
  BY <1>1, <1>2, <1>3, <1>4, <1>5, <1>6, <1>7, <1>8, <1>9 DEF SyncSteps

(* So does every step. *)
LEMMA KeptNext == TypeInv /\ KeptInv /\ [Next]_vars => KeptInv'
<1> SUFFICES ASSUME TypeInv, KeptInv, [Next]_vars PROVE KeptInv'
  OBVIOUS
<1>1. CASE UNCHANGED vars
  BY <1>1, KeptStays DEF vars, database, broker, memory
<1> QED
  BY <1>1, KeptSession, KeptSync, KeptReader, KeptOthers DEF Next

(* What blanks the config of a room that exists *)
LEMMA BlankingStep ==
    ASSUME TypeInv, KeptInv, [Next]_vars, NEW r \in Rooms,
           room[r] # None, kept[C(r)] # None, kept'[C(r)] = None
    PROVE  used'["drops"] # used["drops"] \/ (sync'.pc = "republish" /\ C(r) \in sync'.moved)
<1> USE DEF database, broker, memory
<1>t. /\ kept \in [Topics -> (Payloads \ {Blank}) \cup {None}]
      /\ retained \in [Topics -> Payloads \cup {None}] /\ used \in [Kinds -> Nat]
      /\ C(r) \in Topics \ (CommandTopics \cup StateTopics)
  BY ConfigIsTopic DEF TypeInv, TypeOK
<1>c. None \notin Configs /\ Blank \notin Configs /\ retained[C(r)] \in Configs \cup {None}
  BY StartAssumption DEF KeptInv, ConfigsHaveRooms
<1>1. ASSUME UNCHANGED kept PROVE FALSE
  BY <1>1
<1>2. CASE BrokerRestarts
  BY <1>2, <1>t DEF BrokerRestarts, Spend, Kinds
<1>3. CASE PublishConfigs
  <2>1. Desired(sync)[C(r)] \in Configs \cup {None}
    BY DesiredTyped DEF TypeInv, C
  <2>2. kept'[C(r)] \in {kept[C(r)]} \cup Configs
    BY <1>3, <1>c, <1>t, <2>1 DEF PublishConfigs, PublishAll, Changed, AsKept
  <2> QED
    BY <1>c, <2>2
<1>4. CASE PublishStates
  BY <1>4, <1>t DEF PublishStates, PublishAll
<1>5. CASE Retire
  <2>1. sync.pc = "retire" /\ retained[C(r)] # None /\ Desired(sync)[C(r)] = None
    BY <1>5, <1>t DEF Retire
  <2>2. sync.rooms[r] = None
    BY <1>c, <2>1, DesiredTyped DEF TypeInv, C
  <2>3. sync.rooms[r] # None
    BY <2>1 DEF KeptInv, SyncKnows, SyncOrder, Seen
  <2> QED
    BY <2>2, <2>3
<1>6. CASE Sweep
  <2>1. CASE C(r) \in Moved
    BY <1>6, <2>1 DEF Sweep, TypeInv, Syncs
  <2>2. CASE C(r) \notin Moved
    <3>1. sync.pc = "sweep" /\ C(r) \in Stale
      BY <1>6, <1>t, <2>2 DEF Sweep
    <3>2. noted[C(r)] # None /\ retained[C(r)] = None
      BY <3>1 DEF Stale
    <3>3. sync.rooms[r] # None
      BY <3>1, <3>2 DEF KeptInv, SyncKnows, SyncOrder, Seen
    <3> QED
      BY <3>1, <3>2, <3>3 DEF KeptInv, SyncOrder
  <2> QED
    BY <2>1, <2>2
<1>7. CASE Republish
  <2>1. C(r) \in sync.moved => retained[C(r)] # None
    BY <1>7 DEF Republish, KeptInv, SyncOrder
  <2> QED
    BY <1>7, <1>c, <1>t, <2>1 DEF Republish, AsKept
<1>8. ASSUME NEW o \in Orders, NEW retain \in BOOLEAN, Publish(o, retain) PROVE FALSE
  <2>1. TopicOf(o) # C(r)
    BY <1>t DEF CommandTopics
  <2> QED
    BY <1>8, <1>t, <2>1 DEF Publish
<1>9. CASE Others
  BY <1>1, <1>8, <1>9
  DEF Others, DeleteRoom, SetHold, Expire, CreateRoom, RenameRoom, SetKnob, Edit, SetEnabled
<1>10. CASE SessionSteps \/ ReaderSteps \/ Drop \/ WillFires
  BY <1>1, <1>10
  DEF SessionSteps, Connect, IdleWhileDisabled, ReaderSteps, ReadReplay, TakeOrder, Dispatch, Answer,
      Drop, WillFires
<1>11. CASE Refresh \/ SyncRaises \/ ReadLists \/ ReadDetails
  BY <1>1, <1>11 DEF Refresh, SyncRaises, ReadLists, ReadDetails
<1>12. CASE UNCHANGED vars
  BY <1>1, <1>12 DEF vars
<1> QED
  BY <1>2, <1>3, <1>4, <1>5, <1>6, <1>7, <1>9, <1>10, <1>11, <1>12 DEF Next, SyncSteps

(* The discovery config of a room that exists is not blanked, however the
   edits of rooms, the reads of a sync, its failures, lost sessions and the
   sweep of what an earlier run left interleave: only a move to a new device
   blanks it, to publish it again, and only a broker that restarts loses it. *)
THEOREM RoomsKeepTheirEntities == Spec => EntitiesAreKept
<1>1. TypeInv /\ KeptInv /\ [Next]_vars =>
         [\A r \in Rooms :
            LET t == <<"config", r>> IN
            room[r] # None /\ kept[t] # None /\ kept'[t] = None
                => used'["drops"] # used["drops"] \/ (sync'.pc = "republish" /\ t \in sync'.moved)]_vars
  BY BlankingStep DEF C
<1> QED
  BY <1>1, TypeInit, TypeNext, KeptInit, KeptNext, PTL DEF Spec, EntitiesAreKept

-----------------------------------------------------------------------------
(* Commands kept from before *)

(* While nobody has published, what is on its way has an empty payload. *)
NothingToSet ==
    used["orders"] = 0 =>
        /\ \A i \in DOMAIN inbox : inbox[i].payload = Blank
        /\ reader.pc = "dispatch" => reader.order.payload = Blank

(* At the start nothing is on its way. *)
LEMMA NothingInit == Init => NothingToSet
BY DEF Init, NothingToSet, NoReader

(* Every step keeps it so: a sweep sends back empty payloads only. *)
LEMMA NothingNext == TypeInv /\ NothingToSet /\ [Next]_vars => NothingToSet'
<1> SUFFICES ASSUME TypeInv, NothingToSet, [Next]_vars PROVE NothingToSet'
  OBVIOUS
<1> USE DEF database, broker, memory
<1>t. used \in [Kinds -> Nat] /\ inbox \in Seq(Messages)
  BY DEF TypeInv, TypeOK
<1>0. ASSUME used'["orders"] = used["orders"], inbox' \in {inbox, <<>>},
             reader' = reader \/ reader'.pc # "dispatch"
      PROVE  NothingToSet'
  BY <1>0 DEF NothingToSet
<1>s. ASSUME NEW k \in Kinds \ {"orders"}, Spend(k) \/ UNCHANGED used
      PROVE  used'["orders"] = used["orders"]
  BY <1>s, <1>t DEF Spend, Kinds
<1>1. CASE Sweep
  <2> DEFINE B == {Blanking(t) : t \in Stale \cap CommandTopics}
  <2>1. SetToSeq(B) \in Seq(B)
    BY BlankingsFinite, InARow
  <2>2. \A m \in B : m.payload = Blank
    BY DEF Blanking
  <2>3. UNCHANGED <<used, reader>> /\ inbox' = inbox \o SetToSeq(B)
    BY <1>1 DEF Sweep
  <2> HIDE DEF B
  <2>4. \A i \in DOMAIN SetToSeq(B) : SetToSeq(B)[i].payload = Blank
    BY <2>1, <2>2
  <2> QED
    BY <1>t, <2>1, <2>3, <2>4 DEF NothingToSet
<1>2. CASE TakeOrder
  <2>1. used'["orders"] = used["orders"]
    BY <1>2, <1>s DEF TakeOrder, Mishap, Kinds
  <2>2. reader'.order = Head(inbox) /\ inbox # <<>> /\ inbox' = Tail(inbox)
    BY <1>2 DEF TakeOrder
  <2>3. ASSUME used["orders"] = 0
        PROVE  /\ Head(inbox).payload = Blank
               /\ \A i \in DOMAIN Tail(inbox) : Tail(inbox)[i].payload = Blank
    <3>1. \A i \in DOMAIN inbox : inbox[i].payload = Blank
      BY <2>3 DEF NothingToSet
    <3> QED
      BY <1>t, <2>2, <3>1
  <2> QED
    BY <2>1, <2>2, <2>3 DEF NothingToSet
<1>3. ASSUME NEW o \in Orders, NEW retain \in BOOLEAN, Publish(o, retain) PROVE NothingToSet'
  <2>1. used'["orders"] # 0
    BY <1>3, <1>t DEF Publish, Spend, Kinds
  <2> QED
    BY <2>1 DEF NothingToSet
<1>4. CASE Connect \/ IdleWhileDisabled \/ WillFires \/ ReadReplay
  BY <1>0, <1>4 DEF Connect, IdleWhileDisabled, WillFires, ReadReplay
<1>5. CASE Drop \/ BrokerRestarts
  BY <1>0, <1>5, <1>s DEF Drop, BrokerRestarts, EndSession, NoReader, Kinds
<1>6. CASE Refresh \/ SyncRaises
  BY <1>0, <1>6, <1>s DEF Refresh, SyncRaises, EndSession, NoReader, Kinds
<1>7. CASE ReadLists \/ ReadDetails
  BY <1>0, <1>7, <1>s DEF ReadLists, ReadDetails, Mishap, Kinds
<1>8. CASE PublishConfigs \/ PublishStates \/ Retire \/ Republish
  <2>1. UNCHANGED <<used, inbox, reader>>
    BY <1>8 DEF PublishConfigs, PublishStates, Retire, Republish
  <2> QED
    BY <1>0, <2>1
<1>9. CASE Dispatch \/ Answer
  <2>1. reader'.pc # "dispatch"
    <3>1. CASE Dispatch
      <4>1. reader' = [reader EXCEPT !.pc = "result", !.ok = reader'.ok] /\ reader \in Readers
        BY <3>1 DEF Dispatch, TypeInv, Readers
      <4> QED
        BY <4>1 DEF Readers
    <3>2. CASE Answer
      BY <3>2 DEF Answer, NoReader
    <3> QED
      BY <1>9, <3>1, <3>2
  <2>2. UNCHANGED <<used, inbox>>
    BY <1>9 DEF Dispatch, Answer
  <2> QED
    BY <1>0, <2>1, <2>2
<1>10. ASSUME NEW r \in Rooms,
              DeleteRoom(r) \/ SetHold(r) \/ Expire(r)
                \/ (\E n \in Names : CreateRoom(r, n) \/ RenameRoom(r, n)) \/ (\E v \in {None, Own} : SetKnob(r, v))
       PROVE NothingToSet'
  BY <1>0, <1>10, <1>s DEF DeleteRoom, SetHold, Expire, CreateRoom, RenameRoom, SetKnob, Edit, Kinds
<1>11. CASE SetEnabled
  BY <1>0, <1>11, <1>s DEF SetEnabled, Kinds
<1>12. CASE UNCHANGED vars
  BY <1>0, <1>12 DEF vars
<1> QED
  BY <1>1, <1>2, <1>3, <1>4, <1>5, <1>6, <1>7, <1>8, <1>9, <1>10, <1>11, <1>12
  DEF Next, SessionSteps, SyncSteps, ReaderSteps, Others

(* A command that the broker kept from before sets no control, however often
   the bridge connects and whatever is swept: its replay is not run, and its
   blanking, which does come back as a live command, carries no value. *)
THEOREM OldCommandsSetNothing == Spec => StaleCommandsSetNothing
<1>1. TypeInv /\ NothingToSet /\ [Next]_vars =>
         [reader.pc = "dispatch" /\ used["orders"] = 0 => Decoded(reader.order) = None]_vars
  BY DEF NothingToSet, Decoded
<1> QED
  BY <1>1, TypeInit, TypeNext, NothingInit, NothingNext, PTL DEF Spec, StaleCommandsSetNothing

-----------------------------------------------------------------------------
(* The mirror of a quiet bridge *)

(* No read has failed and no hold has run out. *)
Unspoilt == used["faults"] = 0 /\ used["expiries"] = 0

(* What a session knows it has published is on the broker, but for a config
   that is being moved. *)
KeptAgrees ==
    session # "off" =>
        \A t \in MirrorTopics :
            retained[t] # None /\ ~(sync.pc = "republish" /\ t \in sync.moved)
                => kept[t] = AsKept(retained[t])

Current  == sync.rooms = room /\ sync.system = system /\ sync.failed = {}
Tells(T) == \A t \in T : Desired(World)[t] # None => retained[t] = Desired(World)[t]

(* Unless it is woken, a sync that has read works on the database of now, and
   what it has published so far says so. *)
NewsIsTaken ==
    session # "off" /\ ~wake /\ Unspoilt =>
        /\ sync.pc \notin {"idle", "lists"} => Current
        /\ sync.pc = "states" => Tells(ConfigTopics)
        /\ sync.pc \in {"idle", "retire", "sweep", "republish"} => Tells(MirrorTopics)

MirrorInv == KeptAgrees /\ NewsIsTaken

(* At the start no session is up. *)
LEMMA MirrorInit == Init => MirrorInv
BY DEF Init, MirrorInv, KeptAgrees, NewsIsTaken

(* Nothing unspoils a history. *)
LEMMA SpoiltStays ==
    ASSUME used \in [Kinds -> Nat], NEW k \in Kinds, Spend(k) \/ UNCHANGED used
    PROVE  /\ Unspoilt' => Unspoilt
           /\ k \in {"faults", "expiries"} /\ Spend(k) => ~Unspoilt'
BY DEF Spend, Unspoilt, Kinds

(* What a snapshot wants is a matter of the rooms, the switch and the
   failures. *)
LEMMA WantedOfCurrent == ASSUME Current PROVE Desired(sync) = Desired(World)
<1>1. sync.rooms = World.rooms /\ sync.system = World.system /\ sync.failed = World.failed
  BY DEF Current, World, NoSync
<1>2. \A t : DesiredConfig(sync, t) = DesiredConfig(World, t) /\ DesiredState(sync, t) = DesiredState(World, t)
  BY <1>1 DEF DesiredConfig, DesiredState
<1> QED
  BY <1>2 DEF Desired

(* A step that touches neither the rooms nor the mirror keeps it, *)
LEMMA MirrorStays ==
    ASSUME MirrorInv, UNCHANGED <<room, system, kept, retained, session, sync>>,
           wake => wake', Unspoilt' => Unspoilt
    PROVE  MirrorInv'
<1>1. World' = World
  BY DEF World
<1>2. Desired(World)' = Desired(World) /\ Current' = Current
  BY <1>1 DEF Desired, DesiredConfig, DesiredState, Current
<1>3. Tells(ConfigTopics)' = Tells(ConfigTopics) /\ Tells(MirrorTopics)' = Tells(MirrorTopics)
  BY <1>2 DEF Tells
<1> QED
  BY <1>2, <1>3 DEF MirrorInv, KeptAgrees, NewsIsTaken

(* so does one that wakes the refresher, *)
LEMMA MirrorWakes ==
    ASSUME MirrorInv, UNCHANGED <<session, sync, retained>>, \A t \in MirrorTopics : kept'[t] = kept[t],
           wake' \/ ~Unspoilt'
    PROVE  MirrorInv'
BY DEF MirrorInv, KeptAgrees, NewsIsTaken

(* and one that ends the session. *)
LEMMA MirrorEnds == ASSUME session' = "off" PROVE MirrorInv'
BY DEF MirrorInv, KeptAgrees, NewsIsTaken

(* The session, the broker and its Last Will *)
LEMMA MirrorSession ==
    ASSUME TypeInv, MirrorInv, SessionSteps \/ Drop \/ BrokerRestarts \/ WillFires PROVE MirrorInv'
<1> USE DEF database, broker, memory
<1>1. CASE Connect
  <2>1. sync'.pc = "lists" /\ \A t \in MirrorTopics : retained'[t] = None
    BY <1>1 DEF Connect, NewSync, NoSync, Nothing, Topics
  <2> QED
    BY <2>1 DEF MirrorInv, KeptAgrees, NewsIsTaken
<1>2. CASE IdleWhileDisabled
  BY <1>2, MirrorEnds DEF IdleWhileDisabled
<1>3. CASE Drop \/ BrokerRestarts
  BY <1>3, MirrorEnds DEF Drop, BrokerRestarts, EndSession
<1>4. CASE WillFires
  <2>1. Unspoilt' => Unspoilt
    BY <1>4 DEF WillFires, Unspoilt
  <2> QED
    BY <1>4, <2>1, MirrorStays DEF WillFires
<1> QED
  BY <1>1, <1>2, <1>3, <1>4 DEF SessionSteps

(* The reader: what it writes wakes the refresher. *)
LEMMA MirrorReader == ASSUME TypeInv, MirrorInv, ReaderSteps PROVE MirrorInv'
<1> USE DEF database, broker, memory
<1>t. used \in [Kinds -> Nat]
  BY DEF TypeInv, TypeOK
<1>1. CASE ReadReplay \/ Answer
  <2>1. UNCHANGED <<room, system, kept, retained, session, sync, used>>
    BY <1>1 DEF ReadReplay, Answer
  <2>2. wake => wake'
    BY <1>1, Zenon DEF ReadReplay, Answer
  <2> QED
    BY <2>1, <2>2, MirrorStays DEF Unspoilt
<1>2. CASE TakeOrder
  <2>1. Unspoilt' => Unspoilt
    BY <1>2, <1>t, SpoiltStays DEF TakeOrder, Mishap, Kinds
  <2> QED
    BY <1>2, <2>1, MirrorStays DEF TakeOrder
<1>3. CASE Dispatch
  <2> DEFINE ok == reader.order.control = "enabled" \/ room[reader.room] # None
  <2>1. UNCHANGED <<session, sync, retained, kept, used>>
    BY <1>3 DEF Dispatch
  <2>2. CASE ok
    <3>1. wake'
      BY <1>3, <2>2 DEF Dispatch
    <3> QED
      BY <2>1, <3>1, MirrorWakes
  <2>3. CASE ~ok
    <3>1. UNCHANGED <<room, system>> /\ (wake => wake')
      BY <1>3, <2>3 DEF Dispatch
    <3>2. Unspoilt' => Unspoilt
      BY <2>1 DEF Unspoilt
    <3> QED
      BY <2>1, <3>1, <3>2, MirrorStays
  <2> QED
    BY <2>2, <2>3
<1> QED
  BY <1>1, <1>2, <1>3 DEF ReaderSteps

(* The others: what they write wakes it, but for the end of a hold. *)
LEMMA MirrorOthers == ASSUME TypeInv, MirrorInv, Others PROVE MirrorInv'
<1> USE DEF database, broker, memory
<1>t. used \in [Kinds -> Nat]
  BY DEF TypeInv, TypeOK
<1>1. ASSUME NEW r \in Rooms,
             DeleteRoom(r) \/ SetHold(r)
               \/ (\E n \in Names : CreateRoom(r, n) \/ RenameRoom(r, n)) \/ (\E v \in {None, Own} : SetKnob(r, v))
      PROVE  MirrorInv'
  <2>1. UNCHANGED <<session, sync, retained, kept>> /\ wake'
    BY <1>1 DEF DeleteRoom, SetHold, CreateRoom, RenameRoom, SetKnob, Edit
  <2> QED
    BY <2>1, MirrorWakes
<1>2. ASSUME NEW r \in Rooms, Expire(r) PROVE MirrorInv'
  <2>1. UNCHANGED <<session, sync, retained, kept>>
    BY <1>2 DEF Expire
  <2>2. ~Unspoilt'
    BY <1>2, <1>t, SpoiltStays DEF Expire, Kinds
  <2> QED
    BY <2>1, <2>2, MirrorWakes
<1>3. CASE SetEnabled
  <2>1. UNCHANGED <<session, sync, retained, kept>> /\ wake'
    BY <1>3 DEF SetEnabled
  <2> QED
    BY <2>1, MirrorWakes
<1>4. ASSUME NEW o \in Orders, NEW retain \in BOOLEAN, Publish(o, retain) PROVE MirrorInv'
  <2>1. UNCHANGED <<room, system, retained, session, sync, wake>>
    BY <1>4 DEF Publish
  <2>2. \A t \in MirrorTopics : kept'[t] = kept[t]
    <3>1. \A t \in MirrorTopics : t # TopicOf(o)
      BY TopicsApart DEF MirrorTopics, CommandTopics
    <3>2. MirrorTopics \subseteq Topics /\ kept \in [Topics -> (Payloads \ {Blank}) \cup {None}]
      BY DEF Topics, TypeInv, TypeOK
    <3> QED
      BY <1>4, <3>1, <3>2 DEF Publish
  <2>3. Unspoilt' => Unspoilt
    BY <1>4, <1>t, SpoiltStays DEF Publish, Kinds
  <2>4. KeptAgrees'
    BY <2>1, <2>2 DEF MirrorInv, KeptAgrees
  <2>5. NewsIsTaken'
    <3>1. World' = World
      BY <2>1 DEF World
    <3>2. Desired(World)' = Desired(World) /\ Current' = Current
      BY <2>1, <3>1 DEF Desired, DesiredConfig, DesiredState, Current
    <3>3. Tells(ConfigTopics)' = Tells(ConfigTopics) /\ Tells(MirrorTopics)' = Tells(MirrorTopics)
      BY <2>1, <3>2 DEF Tells
    <3> QED
      BY <2>1, <2>3, <3>2, <3>3 DEF MirrorInv, NewsIsTaken
  <2> QED
    BY <2>4, <2>5 DEF MirrorInv
<1> QED
  BY <1>1, <1>2, <1>3, <1>4 DEF Others

(* A publication leaves what it published on the broker and in the memory. *)
LEMMA PublishedIsKept ==
    ASSUME TypeInv, KeptAgrees, session # "off", sync.pc # "republish",
           NEW T \in SUBSET MirrorTopics, PublishAll(Changed(Desired(sync)) \cap T, Desired(sync))
    PROVE  /\ \A t \in MirrorTopics : retained'[t] # None => kept'[t] = AsKept(retained'[t])
           /\ \A t \in T : Desired(sync)[t] # None => retained'[t] = Desired(sync)[t]
           /\ \A t \in MirrorTopics \ T : retained'[t] = retained[t]
<1> DEFINE d == Desired(sync)
<1>1. MirrorTopics \subseteq Topics
  BY DEF Topics
<1>2. \A t \in Topics : t \in Changed(d) <=> d[t] # None /\ d[t] # retained[t]
  BY DEF Changed
<1>3. PublishAll(Changed(d) \cap T, d)
  OBVIOUS
<1> HIDE DEF d
<1>4. \A t \in MirrorTopics :
         /\ kept'[t] = IF t \in Changed(d) /\ t \in T THEN AsKept(d[t]) ELSE kept[t]
         /\ retained'[t] = IF t \in Changed(d) /\ t \in T THEN d[t] ELSE retained[t]
  BY <1>1, <1>3 DEF PublishAll
<1>5. \A t \in MirrorTopics : retained[t] # None => kept[t] = AsKept(retained[t])
  BY DEF KeptAgrees
<1>6. \A t \in MirrorTopics : retained'[t] # None => kept'[t] = AsKept(retained'[t])
  BY <1>4, <1>5
<1>7. \A t \in T : d[t] # None => retained'[t] = d[t]
  BY <1>1, <1>2, <1>4
<1>8. \A t \in MirrorTopics \ T : retained'[t] = retained[t]
  BY <1>4
<1> QED
  BY <1>6, <1>7, <1>8 DEF d

(* The refresher *)
LEMMA MirrorSync == ASSUME TypeInv, MirrorInv, SyncSteps PROVE MirrorInv'
<1> USE DEF database, broker, memory
<1>t. /\ used \in [Kinds -> Nat] /\ sync \in Syncs /\ MirrorTopics \subseteq Topics
      /\ kept \in [Topics -> (Payloads \ {Blank}) \cup {None}] /\ retained \in [Topics -> Payloads \cup {None}]
      /\ session = "off" => sync.pc = "idle"
  BY DEF TypeInv, TypeOK, Topics
<1>w. ASSUME UNCHANGED <<room, system>> PROVE Desired(World)' = Desired(World)
  BY <1>w DEF World, Desired, DesiredConfig, DesiredState
<1>a. NoSync.pc = "idle" /\ NewSync.pc = "lists"
  BY DEF NoSync, NewSync
<1>1. CASE Refresh
  <2>1. CASE enabled
    <3>1. sync'.pc = "lists" /\ UNCHANGED <<session, kept, retained>> /\ sync.pc = "idle"
      BY <1>1, <1>a, <2>1 DEF Refresh
    <3> QED
      BY <3>1 DEF MirrorInv, KeptAgrees, NewsIsTaken
  <2>2. CASE ~enabled
    BY <1>1, <2>2, MirrorEnds DEF Refresh, EndSession
  <2> QED
    BY <2>1, <2>2
<1>2. CASE SyncRaises
  <2>1. ~Unspoilt'
    BY <1>2, <1>t, SpoiltStays DEF SyncRaises, Kinds
  <2>2. CASE session = "first"
    BY <1>2, <2>2, MirrorEnds DEF SyncRaises, EndSession
  <2>3. CASE session # "first"
    <3>1. sync'.pc = "idle" /\ UNCHANGED <<session, kept, retained>> /\ sync.pc # "republish"
      BY <1>2, <1>a, <2>3 DEF SyncRaises
    <3> QED
      BY <2>1, <3>1 DEF MirrorInv, KeptAgrees, NewsIsTaken
  <2> QED
    BY <2>2, <2>3
<1>3. CASE ReadLists
  <2>1. PICK bad \in {{}, {"rooms"}, {"thermostats"}, {"system"}} :
           /\ Mishap(bad # {})
           /\ sync' = [sync EXCEPT !.pc = "details", !.failed = bad,
                                   !.rooms = IF "rooms" \in bad THEN NoRooms ELSE room,
                                   !.system = system]
    BY <1>3 DEF ReadLists
  <2>2. Unspoilt' => bad = {}
    <3>1. CASE bad = {}
      BY <3>1
    <3>2. CASE bad # {}
      BY <1>t, <2>1, <3>2, SpoiltStays DEF Mishap, Kinds
    <3> QED
      BY <3>1, <3>2
  <2>3. sync'.pc = "details" /\ (bad = {} => Current')
    BY <1>3, <1>t, <2>1 DEF ReadLists, Current, Syncs
  <2>4. UNCHANGED <<session, kept, retained>> /\ sync.pc # "republish"
    BY <1>3 DEF ReadLists
  <2> QED
    BY <2>2, <2>3, <2>4 DEF MirrorInv, KeptAgrees, NewsIsTaken
<1>4. CASE ReadDetails
  <2> DEFINE listed == {r \in Rooms : sync.rooms[r] # None}
             lost   == {r \in listed : room[r] = None}
             table  == [r \in Rooms |->
                          IF r \in listed \ lost THEN [sync.rooms[r] EXCEPT !.hold = room[r].hold]
                          ELSE IF r \in lost THEN [sync.rooms[r] EXCEPT !.hold = None] ELSE None]
  <2>1. PICK bad \in {{}, {"status"}} :
           /\ Mishap(bad # {})
           /\ sync' = [sync EXCEPT
                  !.pc = "configs",
                  !.failed = @ \cup bad \cup (IF lost = {} THEN {} ELSE {"schedules"}),
                  !.rooms = table]
    BY <1>4 DEF ReadDetails
  <2>2. Unspoilt' => bad = {} /\ Unspoilt
    <3>1. CASE bad = {}
      BY <2>1, <3>1 DEF Mishap, Unspoilt
    <3>2. CASE bad # {}
      BY <1>t, <2>1, <3>2, SpoiltStays DEF Mishap, Kinds
    <3> QED
      BY <3>1, <3>2
  <2>3. UNCHANGED <<room, system, session, kept, retained, wake>> /\ sync.pc = "details"
    BY <1>4 DEF ReadDetails
  <2>4. ASSUME Current PROVE lost = {} /\ table = room
    <3>1. lost = {} /\ room \in RoomTables
      BY <2>4 DEF Current, TypeInv, TypeOK, RoomTables
    <3>2. ASSUME NEW r \in Rooms PROVE table[r] = room[r]
      <4>1. CASE r \in listed
        <5>1. room[r] \in RoomRecords /\ sync.rooms[r] = room[r]
          BY <2>4, <3>1, <4>1 DEF Current, RoomTables
        <5>2. [room[r] EXCEPT !.hold = room[r].hold] = room[r]
          BY <5>1 DEF RoomRecords
        <5> QED
          BY <3>1, <4>1, <5>1, <5>2
      <4>2. CASE r \notin listed
        BY <2>4, <4>2 DEF Current
      <4> QED
        BY <4>1, <4>2
    <3> HIDE DEF table
    <3>3. table \in [Rooms -> UNION {{room[r]} : r \in Rooms}]
      BY <3>2 DEF table
    <3> QED
      BY <3>1, <3>2, <3>3 DEF RoomTables
  <2> HIDE DEF lost, table
  <2>5. sync'.pc = "configs" /\ sync'.rooms = table /\ sync'.system = sync.system
        /\ (lost = {} /\ bad = {} => sync'.failed = sync.failed)
    BY <1>t, <2>1 DEF Syncs
  <2>6. Current /\ bad = {} => Current'
    BY <2>3, <2>4, <2>5 DEF Current
  <2> QED
    BY <2>2, <2>3, <2>5, <2>6 DEF MirrorInv, KeptAgrees, NewsIsTaken
<1>5. CASE PublishConfigs
  <2>1. /\ sync.pc = "configs" /\ UNCHANGED <<room, system, session, wake, used>>
        /\ PublishAll(Changed(Desired(sync)) \cap ConfigTopics, Desired(sync))
    BY <1>5 DEF PublishConfigs
  <2>2. sync'.pc = "states" /\ UNCHANGED <<sync.rooms, sync.system, sync.failed>>
    BY <1>5, <1>t DEF PublishConfigs, Syncs
  <2>3. /\ \A t \in MirrorTopics : retained'[t] # None => kept'[t] = AsKept(retained'[t])
        /\ \A t \in ConfigTopics : Desired(sync)[t] # None => retained'[t] = Desired(sync)[t]
    BY <1>t, <2>1, PublishedIsKept DEF MirrorInv, MirrorTopics
  <2>4. KeptAgrees'
    BY <2>3 DEF KeptAgrees, AsKept
  <2>5. ASSUME Current PROVE Current' /\ Tells(ConfigTopics)'
    BY <1>w, <2>1, <2>2, <2>3, <2>5, WantedOfCurrent DEF Current, Tells
  <2> QED
    BY <2>1, <2>2, <2>4, <2>5 DEF MirrorInv, NewsIsTaken, Unspoilt
<1>6. CASE PublishStates
  <2>1. /\ sync.pc = "states" /\ UNCHANGED <<room, system, wake, used>>
        /\ PublishAll(Changed(Desired(sync)) \cap StateTopics, Desired(sync))
    BY <1>6 DEF PublishStates
  <2>2. /\ \A t \in MirrorTopics : retained'[t] # None => kept'[t] = AsKept(retained'[t])
        /\ \A t \in StateTopics : Desired(sync)[t] # None => retained'[t] = Desired(sync)[t]
        /\ \A t \in ConfigTopics : retained'[t] = retained[t]
    BY <1>t, <2>1, PublishedIsKept, TopicsApart DEF MirrorInv, MirrorTopics
  <2>3. KeptAgrees'
    BY <2>2 DEF KeptAgrees, AsKept
  <2>4. ASSUME ~wake, Unspoilt PROVE Current /\ Tells(MirrorTopics)'
    <3>1. Current /\ Tells(ConfigTopics)
      BY <1>t, <2>1, <2>4 DEF MirrorInv, NewsIsTaken
    <3> QED
      BY <1>w, <2>1, <2>2, <3>1, WantedOfCurrent DEF Tells, MirrorTopics
  <2>5. Current => sync'.pc = "retire" /\ UNCHANGED <<sync.rooms, sync.system, sync.failed>>
    BY <1>6, <1>t DEF PublishStates, Partial, Current, Syncs
  <2>6. ASSUME ~wake', Unspoilt' PROVE sync'.pc = "retire" /\ Current' /\ Tells(MirrorTopics)'
    <3>1. ~wake /\ Unspoilt
      BY <2>1, <2>6 DEF Unspoilt
    <3> QED
      BY <2>1, <2>4, <2>5, <3>1 DEF Current
  <2> QED
    BY <2>3, <2>6 DEF MirrorInv, NewsIsTaken
<1>7. CASE Retire
  <2>1. /\ sync.pc = "retire" /\ UNCHANGED <<room, system, wake, used>>
        /\ \A t \in MirrorTopics :
              IF retained[t] # None /\ Desired(sync)[t] = None
              THEN kept'[t] = None /\ retained'[t] = None
              ELSE kept'[t] = kept[t] /\ retained'[t] = retained[t]
    BY <1>7, <1>t DEF Retire
  <2>2. KeptAgrees'
    BY <1>t, <2>1 DEF MirrorInv, KeptAgrees, AsKept
  <2>3. \/ sync'.pc = "idle"
        \/ sync'.pc = "sweep" /\ UNCHANGED <<sync.rooms, sync.system, sync.failed>>
    BY <1>7, <1>a, <1>t DEF Retire, SyncReturns, Syncs
  <2>4. ASSUME ~wake', Unspoilt' PROVE (sync'.pc = "sweep" => Current') /\ Tells(MirrorTopics)'
    <3>1. ~wake /\ Unspoilt
      BY <2>1, <2>4 DEF Unspoilt
    <3>2. Current /\ Tells(MirrorTopics)
      BY <1>t, <2>1, <3>1 DEF MirrorInv, NewsIsTaken
    <3>3. Current' \/ sync'.pc = "idle"
      BY <2>1, <2>3, <3>2 DEF Current
    <3> QED
      BY <1>w, <2>1, <2>3, <3>2, <3>3, WantedOfCurrent DEF Tells
  <2> QED
    BY <2>2, <2>3, <2>4 DEF MirrorInv, NewsIsTaken
<1>8. CASE Sweep
  <2>1. /\ sync.pc = "sweep" /\ UNCHANGED <<room, system, session, retained, wake, used>>
        /\ \A t \in MirrorTopics : retained[t] # None /\ t \notin Moved => kept'[t] = kept[t]
    BY <1>8, <1>t DEF Sweep, Stale
  <2>2. \/ sync'.pc = "idle" /\ Moved = {}
        \/ sync'.pc = "republish" /\ sync'.moved = Moved /\ UNCHANGED <<sync.rooms, sync.system, sync.failed>>
    BY <1>8, <1>a, <1>t DEF Sweep, Syncs
  <2>3. KeptAgrees'
    BY <2>1, <2>2 DEF MirrorInv, KeptAgrees, AsKept
  <2>4. Current => Current' \/ sync'.pc = "idle"
    BY <2>1, <2>2 DEF Current
  <2>5. Tells(MirrorTopics) => Tells(MirrorTopics)'
    BY <1>w, <2>1 DEF Tells
  <2> QED
    BY <2>1, <2>2, <2>3, <2>4, <2>5 DEF MirrorInv, NewsIsTaken, Unspoilt
<1>9. CASE Republish
  <2>1. /\ sync.pc = "republish" /\ UNCHANGED <<room, system, session, retained, wake, used>>
        /\ sync'.pc = "idle"
        /\ \A t \in MirrorTopics : kept'[t] = IF t \in sync.moved THEN AsKept(retained[t]) ELSE kept[t]
    BY <1>9, <1>a, <1>t DEF Republish
  <2>2. KeptAgrees'
    BY <2>1 DEF MirrorInv, KeptAgrees, AsKept
  <2>3. Tells(MirrorTopics) => Tells(MirrorTopics)'
    BY <1>w, <2>1 DEF Tells
  <2> QED
    BY <2>1, <2>2, <2>3 DEF MirrorInv, NewsIsTaken, Unspoilt
<1> QED
  BY <1>1, <1>2, <1>3, <1>4, <1>5, <1>6, <1>7, <1>8, <1>9 DEF SyncSteps

(* So does every step. *)
LEMMA MirrorNext == TypeInv /\ MirrorInv /\ [Next]_vars => MirrorInv'
<1> SUFFICES ASSUME TypeInv, MirrorInv, [Next]_vars PROVE MirrorInv'
  OBVIOUS
<1>1. CASE UNCHANGED vars
  <2>1. UNCHANGED <<room, system, kept, retained, session, sync, wake, used>>
    BY <1>1 DEF vars, database, broker, memory
  <2> QED
    BY <2>1, MirrorStays DEF Unspoilt
<1> QED
  BY <1>1, MirrorSession, MirrorSync, MirrorReader, MirrorOthers DEF Next

(* No edit is lost between the wake that announces it and the snapshot that
   takes it in, however edits, commands, lost connections, restarts of the
   broker and what earlier runs left on it interleave with the syncs: once
   the bridge is at rest, the topics of the rooms that exist are those of the
   database. *)
THEOREM NoEditIsLost == Spec => []QuietIsMirrored
<1>1. TypeInv /\ MirrorInv => QuietIsMirrored
  <2> SUFFICES ASSUME TypeInv, MirrorInv, session = "live", sync.pc = "idle", ~wake, Unspoilt,
                      NEW t \in MirrorTopics, Wanted[t] # None
               PROVE  kept[t] = Wanted[t]
    BY DEF QuietIsMirrored, Unspoilt
  <2>1. Wanted[t] = AsKept(Desired(World)[t])
    BY DEF Wanted, Topics
  <2>2. Desired(World)[t] # None
    BY <2>1 DEF AsKept
  <2>3. retained[t] = Desired(World)[t]
    BY <2>2 DEF MirrorInv, NewsIsTaken, Tells
  <2> QED
    BY <2>1, <2>2, <2>3 DEF MirrorInv, KeptAgrees
<1> QED
  BY <1>1, TypeInit, TypeNext, MirrorInit, MirrorNext, PTL DEF Spec

=============================================================================
