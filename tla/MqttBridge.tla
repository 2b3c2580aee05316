------------------------------ MODULE MqttBridge ------------------------------
(***************************************************************************)
(* The MQTT bridge (smart_vent/backend/mqtt/).                             *)
(*                                                                         *)
(* A session mirrors the rooms of the database onto retained topics of the *)
(* broker and turns command messages into REST calls.  Its two tasks, the  *)
(* reader and the refresher, interleave at their awaits with the REST      *)
(* writes of others and with the broker.  A room has two controls, which   *)
(* stand for the registry's: the knob, nullable and inherited from the     *)
(* thermostat (whose value is Base), and the hold, which only an override  *)
(* sets; the system has its switch.                                        *)
(***************************************************************************)
EXTENDS Naturals, FiniteSets, SequencesExt

CONSTANTS
    Rooms,      \* ids, never used twice
    Names,      \* sanitised names
    Orders,     \* the commands somebody may publish
    None,
    Own, Base,  \* a value of one's own, the value of the thermostat
    Blank,      \* the empty payload
    On, Off,    \* the positions of the system's switch
    InitRoom,   \* the rooms at the start
    LeftOver,   \* what the broker may retain from an earlier run
    MaxEdits, MaxExpiries, MaxOrders, MaxFaults, MaxDrops, MaxToggles

ASSUME BridgeAssumption ==
    /\ IsFiniteSet(Rooms) /\ IsFiniteSet(Names) /\ IsFiniteSet(Orders)
    /\ Rooms \cap Names = {}
    /\ {None, Own, Base, Blank, On, Off} \cap (Rooms \cup Names) = {}
    /\ None \notin {Own, Base, Blank, On, Off} /\ Blank \notin {Own, Base, On, Off}
    /\ {MaxEdits, MaxExpiries, MaxOrders, MaxFaults, MaxDrops, MaxToggles} \subseteq Nat

VARIABLES
    (* the database *)
    room,       \* each room's name, knob and hold, None while there is no such room
    born,       \* ids that have been used
    system,     \* system_enabled
    (* the broker *)
    kept,       \* the retained payload of each topic
    status,     \* the retained payload of the availability topic
    ghost,      \* it still holds a broken connection, whose Last Will is to come
    replay,     \* retained messages on their way to the session that subscribed
    inbox,      \* live messages on their way to it
    (* the bridge *)
    enabled,    \* is_enabled()
    session,    \* off; first: the first sync of _serve; live: its two tasks run
    retained,   \* _retained: what this session knows it has published
    noted,      \* _broker_retained
    reconciled, \* _reconciled
    wake,       \* _wake
    sync,       \* the sync (and sweep) in progress
    reader,     \* the command in progress
    tardy,      \* the sweep of this session ran before the replay had been read
    used

database == <<room, born, system>>
broker   == <<kept, status, ghost, replay, inbox>>
memory   == <<retained, noted, reconciled>>
vars     == <<database, broker, enabled, session, memory, wake, sync, reader, tardy, used>>

-----------------------------------------------------------------------------
(* Topics and payloads *)

Idents        == Rooms \cup Names
ConfigTopics  == {<<"config", r>> : r \in Rooms}
StateTopics   == ({"knob", "hold"} \X Idents) \cup {<<"enabled">>}
MirrorTopics  == ConfigTopics \cup StateTopics
TopicOf(o)    == <<o.verb, o.control, o.ident>>
CommandTopics == {TopicOf(o) : o \in Orders}
Topics        == MirrorTopics \cup CommandTopics

(* A config names the device's identifiers and, as metadata, the room. *)
Configs  == {"old", "now"} \X Names
Payloads == {Own, Base, Blank, On, Off} \cup Configs
Nothing  == [t \in Topics |-> None]

(* Retaining an empty payload is how MQTT forgets a topic. *)
AsKept(p) == IF p = Blank THEN None ELSE p

RoomRecords == [name : Names, knob : {None, Own}, hold : {None, Own}]
Kinds == {"edits", "expiries", "orders", "faults", "drops", "toggles"}
Cap   == [k \in Kinds |->
            CASE k = "edits"  -> MaxEdits  [] k = "expiries" -> MaxExpiries
              [] k = "orders" -> MaxOrders [] k = "faults"   -> MaxFaults
              [] k = "drops"  -> MaxDrops  [] k = "toggles"  -> MaxToggles]

Spend(k)      == used[k] < Cap[k] /\ used' = [used EXCEPT ![k] = @ + 1]
Mishap(wrong) == IF wrong THEN Spend("faults") ELSE UNCHANGED used

(* An empty payload may come on any topic. *)
Messages == [verb : {"set", "clear"}, control : {"knob", "hold"},
             ident : Idents \cup {None}, payload : {Own, Blank}]
       \cup [verb : {"set", "clear"}, control : {"enabled"}, ident : {None}, payload : {On, Off, Blank}]

(* What is compared with None is told apart from it; the start is a state of
   the database, and what an earlier run left is a state of the broker. *)
ASSUME StartAssumption ==
    /\ {None, Blank} \cap Configs = {} /\ None \notin RoomRecords
    /\ Orders \subseteq Messages
    /\ InitRoom \in [Rooms -> RoomRecords \cup {None}]
    /\ LeftOver \in [Topics -> (Payloads \ {Blank}) \cup {None}]

TypeOK ==
    /\ room \in [Rooms -> RoomRecords \cup {None}]
    /\ born \subseteq Rooms /\ \A r \in Rooms : room[r] # None => r \in born
    /\ system \in {On, Off} /\ enabled \in BOOLEAN
    /\ {kept, replay, noted} \subseteq [Topics -> (Payloads \ {Blank}) \cup {None}]
    /\ retained \in [Topics -> Payloads \cup {None}]
    /\ \A t \in CommandTopics : retained[t] = None
    /\ status \in {"online", "offline"} /\ ghost \in BOOLEAN
    /\ inbox \in Seq(Messages)
    /\ session \in {"off", "first", "live"}
    /\ {reconciled, wake, tardy} \subseteq BOOLEAN
    /\ sync.pc \in {"idle", "lists", "details", "configs", "states", "retire", "sweep", "republish"}
    /\ reader.pc \in {"idle", "dispatch", "result"}
    /\ session = "off" => sync.pc = "idle" /\ reader.pc = "idle" /\ inbox = <<>>
    /\ session = "first" => sync.pc \notin {"idle", "sweep", "republish"} /\ reader.pc = "idle"
    /\ used \in [Kinds -> Nat] /\ \A k \in Kinds : used[k] <= Cap[k]

-----------------------------------------------------------------------------
(* Rendering the world *)

NoRooms  == [r \in Rooms |-> None]
NoSync   == [pc |-> "idle", rooms |-> NoRooms, system |-> On, failed |-> {}, moved |-> {}]
NewSync  == [NoSync EXCEPT !.pc = "lists"]
NoReader == [pc |-> "idle", order |-> None, room |-> None, ok |-> FALSE]

(* room_by_ident: by id, then by sanitised name (names are unique). *)
Holder(rooms, i) ==
    LET found == {r \in Rooms : rooms[r] # None /\ i \in {r, rooms[r].name}}
    IN  IF found = {} THEN None ELSE CHOOSE r \in found : TRUE

(* A knob that is not set shows the thermostat's, if that was read. *)
Resolve(knob, failed) ==
    IF knob # None THEN knob ELSE IF "thermostats" \in failed THEN Blank ELSE Base

Encode(hold) == IF hold = None THEN Blank ELSE hold

(* What a snapshot wants on each topic; None where it has nothing to say. *)
DesiredConfig(s, t) ==
    IF s.rooms[t[2]] = None THEN None ELSE <<"now", s.rooms[t[2]].name>>

DesiredState(s, t) ==
    IF t = <<"enabled">> THEN IF "system" \in s.failed THEN None ELSE s.system
    ELSE LET r == Holder(s.rooms, t[2]) IN
         IF r = None THEN None
         ELSE IF t[1] = "knob" THEN Resolve(s.rooms[r].knob, s.failed)
         ELSE IF "status" \in s.failed THEN None ELSE Encode(s.rooms[r].hold)

Desired(s) ==
    [t \in Topics |-> IF t \in ConfigTopics THEN DesiredConfig(s, t)
                      ELSE IF t \in StateTopics THEN DesiredState(s, t) ELSE None]

(* What the topics should retain if nothing had failed. *)
World  == [NoSync EXCEPT !.rooms = room, !.system = system]
Wanted == [t \in Topics |-> AsKept(Desired(World)[t])]

Partial(s) == s.failed # {}
Changed(d) == {t \in Topics : d[t] # None /\ d[t] # retained[t]}

PublishAll(T, d) ==
    /\ kept' = [t \in Topics |-> IF t \in T THEN AsKept(d[t]) ELSE kept[t]]
    /\ retained' = [t \in Topics |-> IF t \in T THEN d[t] ELSE retained[t]]

-----------------------------------------------------------------------------
(* The session *)

(* Mutant: the tasks are not cancelled with the session. *)
EndSessionOnly(goodbye) ==
    /\ session' = "off" /\ sync' = NoSync /\ UNCHANGED reader
    /\ replay' = Nothing /\ inbox' = <<>>
    /\ status' = IF goodbye THEN "offline" ELSE status

EndSession(goodbye) ==
    /\ session' = "off" /\ sync' = NoSync /\ reader' = NoReader
    /\ replay' = Nothing /\ inbox' = <<>>
    /\ status' = IF goodbye THEN "offline" ELSE status

(* Mutant: what the last connection published is taken to be still there. *)
ConnectRemembers ==
    /\ session = "off" /\ enabled
    /\ session' = "first" /\ status' = "online"
    /\ replay' = kept /\ noted' = Nothing /\ reconciled' = FALSE /\ tardy' = FALSE
    /\ sync' = NewSync
    /\ UNCHANGED <<database, kept, ghost, inbox, enabled, retained, wake, reader, used>>

(* run and the start of _serve: the topics kept now are replayed. *)
Connect ==
    /\ session = "off" /\ enabled
    /\ session' = "first" /\ status' = "online"
    /\ retained' = Nothing
    /\ replay' = kept /\ noted' = Nothing /\ reconciled' = FALSE /\ tardy' = FALSE
    /\ sync' = NewSync
    /\ UNCHANGED <<database, kept, ghost, inbox, enabled, wake, reader, used>>

(* The run loop idles while the toggle is off; its sleep consumes the wake. *)
IdleWhileDisabled ==
    /\ session = "off" /\ ~enabled /\ wake
    /\ wake' = FALSE
    /\ UNCHANGED <<database, broker, enabled, session, memory, sync, reader, tardy, used>>

(* The broker or the network goes; whoever holds the old connection will
   publish its Last Will, at once or after the bridge is back. *)
Drop ==
    /\ session # "off" /\ Spend("drops")
    /\ EndSession(FALSE) /\ ghost' = TRUE
    /\ UNCHANGED <<database, kept, enabled, memory, wake, tardy>>

(* A broker that keeps nothing on disk comes back empty. *)
BrokerRestarts ==
    /\ Spend("drops")
    /\ session' = "off" /\ sync' = NoSync /\ reader' = NoReader
    /\ replay' = Nothing /\ inbox' = <<>>
    /\ kept' = Nothing /\ status' = "offline" /\ ghost' = FALSE
    /\ UNCHANGED <<database, enabled, memory, wake, tardy>>

WillFires ==
    /\ ghost /\ ghost' = FALSE /\ status' = "offline"
    /\ UNCHANGED <<database, kept, replay, inbox, enabled, session, memory, wake, sync, reader, tardy, used>>

-----------------------------------------------------------------------------
(* The refresher: build_snapshot, sync, _reconcile_stale *)

(* _refresh_loop, woken by the timer or by request_sync *)
Refresh ==
    /\ session = "live" /\ sync.pc = "idle"
    /\ wake' = FALSE
    /\ IF enabled
       THEN /\ sync' = NewSync
            /\ UNCHANGED <<session, reader, replay, inbox, status>>
       ELSE EndSession(TRUE)
    /\ UNCHANGED <<database, kept, ghost, enabled, memory, tardy, used>>

(* An exception of a read: the first sync ends the session, a later one is
   logged. *)
SyncRaises ==
    /\ sync.pc \in {"lists", "details"} /\ Spend("faults")
    /\ IF session = "first"
       THEN EndSession(TRUE)
       ELSE /\ sync' = NoSync
            /\ UNCHANGED <<session, reader, replay, inbox, status>>
    /\ UNCHANGED <<database, kept, ghost, enabled, memory, wake, tardy>>

ReadLists ==
    /\ sync.pc = "lists"
    /\ \E bad \in {{}, {"rooms"}, {"thermostats"}, {"system"}} :
           /\ Mishap(bad # {})
           /\ sync' = [sync EXCEPT !.pc = "details", !.failed = bad,
                                   !.rooms = IF "rooms" \in bad THEN NoRooms ELSE room,
                                   !.system = system]
    /\ UNCHANGED <<database, broker, enabled, session, memory, wake, reader, tardy>>

(* The schedules and the holds of the rooms listed: a room deleted since
   answers 404, which is a failed read like another. *)
ReadDetails ==
    /\ sync.pc = "details"
    /\ \E bad \in {{}, {"status"}} :
           /\ Mishap(bad # {})
           /\ LET listed == {r \in Rooms : sync.rooms[r] # None}
                  lost   == {r \in listed : room[r] = None}
              IN  sync' = [sync EXCEPT
                      !.pc = "configs",
                      !.failed = @ \cup bad \cup (IF lost = {} THEN {} ELSE {"schedules"}),
                      !.rooms = [r \in Rooms |->
                          IF r \in listed \ lost THEN [@[r] EXCEPT !.hold = room[r].hold]
                          ELSE IF r \in lost THEN [@[r] EXCEPT !.hold = None] ELSE None]]
    /\ UNCHANGED <<database, broker, enabled, session, memory, wake, reader, tardy>>

PublishConfigs ==
    /\ sync.pc = "configs"
    /\ PublishAll(Changed(Desired(sync)) \cap ConfigTopics, Desired(sync))
    /\ sync' = [sync EXCEPT !.pc = "states"]
    /\ UNCHANGED <<database, status, ghost, replay, inbox, enabled, session, noted,
                   reconciled, wake, reader, tardy, used>>

(* Where a sync goes on from its publications, or ends. *)
SyncReturns(swept) ==
    /\ session' = "live"
    /\ sync' = IF session = "live" /\ swept /\ ~reconciled
               THEN [sync EXCEPT !.pc = "sweep"] ELSE NoSync

(* Mutant: a partial snapshot retires and sweeps like a full one. *)
PublishStatesAlways ==
    /\ sync.pc = "states"
    /\ PublishAll(Changed(Desired(sync)) \cap StateTopics, Desired(sync))
    /\ sync' = [sync EXCEPT !.pc = "retire"] /\ UNCHANGED session
    /\ UNCHANGED <<database, status, ghost, replay, inbox, enabled, noted, reconciled,
                   wake, reader, tardy, used>>

PublishStates ==
    /\ sync.pc = "states"
    /\ PublishAll(Changed(Desired(sync)) \cap StateTopics, Desired(sync))
    /\ IF Partial(sync) THEN SyncReturns(FALSE)
       ELSE sync' = [sync EXCEPT !.pc = "retire"] /\ UNCHANGED session
    /\ UNCHANGED <<database, status, ghost, replay, inbox, enabled, noted, reconciled,
                   wake, reader, tardy, used>>

(* Mutant: the wake is consumed when the sync ends instead. *)
RetireLate ==
    /\ sync.pc = "retire"
    /\ LET gone == {t \in Topics : retained[t] # None /\ Desired(sync)[t] = None} IN
           /\ kept' = [t \in Topics |-> IF t \in gone THEN None ELSE kept[t]]
           /\ retained' = [t \in Topics |-> IF t \in gone THEN None ELSE retained[t]]
    /\ SyncReturns(TRUE) /\ wake' = FALSE
    /\ UNCHANGED <<database, status, ghost, replay, inbox, enabled, noted, reconciled,
                   reader, tardy, used>>

Retire ==
    /\ sync.pc = "retire"
    /\ LET gone == {t \in Topics : retained[t] # None /\ Desired(sync)[t] = None} IN
           /\ kept' = [t \in Topics |-> IF t \in gone THEN None ELSE kept[t]]
           /\ retained' = [t \in Topics |-> IF t \in gone THEN None ELSE retained[t]]
    /\ SyncReturns(TRUE)
    /\ UNCHANGED <<database, status, ghost, replay, inbox, enabled, noted, reconciled,
                   wake, reader, tardy, used>>

(* The broker forwards the blanking of a command topic to our own
   subscription, as a live message. *)
Blanking(t) == [verb |-> t[1], control |-> t[2], ident |-> t[3], payload |-> Blank]

Moved == {t \in ConfigTopics : noted[t] # None /\ retained[t] # None /\ noted[t][1] # retained[t][1]}
Stale == {t \in Topics : noted[t] # None /\ retained[t] = None}

(* _reconcile_stale and the blanking half of _migrate_moved_devices *)
Sweep ==
    /\ sync.pc = "sweep"
    /\ kept' = [t \in Topics |-> IF t \in Stale \cup Moved THEN None ELSE kept[t]]
    /\ inbox' = inbox \o SetToSeq({Blanking(t) : t \in Stale \cap CommandTopics})
    /\ tardy' = (replay # Nothing)
    /\ IF Moved # {}
       THEN /\ sync' = [sync EXCEPT !.pc = "republish", !.moved = Moved]
            /\ UNCHANGED <<reconciled, noted>>
       ELSE sync' = NoSync /\ reconciled' = TRUE /\ noted' = Nothing
    /\ UNCHANGED <<database, status, ghost, replay, enabled, session, retained, wake, reader, used>>

(* A second later the moved configs are published again. *)
Republish ==
    /\ sync.pc = "republish"
    /\ kept' = [t \in Topics |-> IF t \in sync.moved THEN AsKept(retained[t]) ELSE kept[t]]
    /\ sync' = NoSync /\ reconciled' = TRUE /\ noted' = Nothing
    /\ UNCHANGED <<database, status, ghost, replay, inbox, enabled, session, retained, wake,
                   reader, tardy, used>>

-----------------------------------------------------------------------------
(* The reader: _read_loop, handle_message *)

(* Mutant: a replayed command is run. *)
ReadReplayAsLive ==
    /\ session = "live" /\ reader.pc = "idle" /\ replay # Nothing
    /\ inbox' = inbox \o SetToSeq({[Blanking(t) EXCEPT !.payload = replay[t]] :
                                      t \in {c \in CommandTopics : replay[c] # None}})
    /\ noted' = IF reconciled THEN noted
                ELSE [t \in Topics |-> IF replay[t] # None THEN replay[t] ELSE noted[t]]
    /\ replay' = Nothing
    /\ UNCHANGED <<database, kept, status, ghost, enabled, session, retained, reconciled,
                   wake, sync, reader, tardy, used>>

ReadReplay ==
    /\ session = "live" /\ reader.pc = "idle" /\ replay # Nothing
    /\ noted' = IF reconciled THEN noted
                ELSE [t \in Topics |-> IF replay[t] # None THEN replay[t] ELSE noted[t]]
    /\ replay' = Nothing
    /\ UNCHANGED <<database, kept, status, ghost, inbox, enabled, session, retained, reconciled,
                   wake, sync, reader, tardy, used>>

(* decode_value and build_request: an empty payload clears a nullable
   control and is no number and no switch position.  The system's switch
   does not look at the verb: a clear sets it to its payload. *)
Clears(o)   == o.verb = "clear" /\ o.control # "enabled"
Decodes(o)  == Clears(o) \/ o.control = "knob" \/ o.payload # Blank
Decoded(o)  == IF Clears(o) \/ o.payload = Blank THEN None ELSE o.payload

(* _resolve_command: the ident is looked up in a snapshot of its own. *)
TakeOrder ==
    /\ session = "live" /\ reader.pc = "idle" /\ replay = Nothing /\ inbox # <<>>
    /\ inbox' = Tail(inbox)
    /\ \E bad \in BOOLEAN :
           LET o == Head(inbox)
               r == IF bad THEN None ELSE Holder(room, o.ident)
               known == o.control = "enabled" \/ r # None
           IN  /\ Mishap(bad)
               /\ bad => o.control # "enabled"
               /\ reader' = [pc |-> IF known /\ Decodes(o) THEN "dispatch" ELSE "result",
                             order |-> o, room |-> r, ok |-> FALSE]
    /\ UNCHANGED <<database, kept, status, ghost, replay, enabled, session, memory, wake, sync, tardy>>

(* The REST handler: a room deleted since is a 404; a write is broadcast,
   which pokes the bridge. *)
Dispatch ==
    /\ reader.pc = "dispatch"
    /\ LET o == reader.order  r == reader.room
           ok == o.control = "enabled" \/ room[r] # None
       IN  /\ reader' = [reader EXCEPT !.pc = "result", !.ok = ok]
           /\ wake' = (wake \/ ok)
           /\ IF o.control = "enabled"
              THEN system' = o.payload /\ UNCHANGED room
              ELSE /\ UNCHANGED system
                   /\ room' = IF ~ok THEN room
                              ELSE IF o.control = "knob" THEN [room EXCEPT ![r].knob = Decoded(o)]
                              ELSE [room EXCEPT ![r].hold = Decoded(o)]
    /\ UNCHANGED <<born, broker, enabled, session, memory, sync, tardy, used>>

(* _publish_result, then request_sync *)
Answer ==
    /\ reader.pc = "result"
    /\ wake' = (wake \/ reader.ok)
    /\ reader' = NoReader
    /\ UNCHANGED <<database, broker, enabled, session, memory, sync, tardy, used>>

-----------------------------------------------------------------------------
(* The others *)

(* REST writes: the broadcast of their event pokes the bridge. *)
Edit(rooms, ids) ==
    /\ Spend("edits") /\ room' = rooms /\ born' = ids /\ wake' = TRUE
    /\ UNCHANGED <<system, broker, enabled, session, memory, sync, reader, tardy>>

Free(n) == \A r \in Rooms : room[r] # None => room[r].name # n

CreateRoom(r, n) == r \notin born /\ Free(n)
                    /\ Edit([room EXCEPT ![r] = [name |-> n, knob |-> None, hold |-> None]], born \cup {r})
DeleteRoom(r)    == room[r] # None /\ Edit([room EXCEPT ![r] = None], born)
RenameRoom(r, n) == room[r] # None /\ Free(n) /\ Edit([room EXCEPT ![r].name = n], born)
SetKnob(r, v)    == room[r] # None /\ room[r].knob # v /\ Edit([room EXCEPT ![r].knob = v], born)
SetHold(r)       == room[r] # None /\ Edit([room EXCEPT ![r].hold = Own], born)

(* A hold runs out, which nobody announces. *)
Expire(r) ==
    /\ room[r] # None /\ room[r].hold # None /\ Spend("expiries")
    /\ room' = [room EXCEPT ![r].hold = None]
    /\ UNCHANGED <<born, system, broker, enabled, session, memory, wake, sync, reader, tardy>>

SetEnabled ==
    /\ Spend("toggles") /\ enabled' = ~enabled /\ wake' = TRUE
    /\ UNCHANGED <<database, broker, session, memory, sync, reader, tardy>>

(* Somebody publishes a command, perhaps with the retain flag. *)
Publish(o, retain) ==
    /\ Spend("orders")
    /\ inbox' = IF session = "off" THEN inbox ELSE Append(inbox, o)
    /\ kept' = IF retain THEN [kept EXCEPT ![TopicOf(o)] = AsKept(o.payload)] ELSE kept
    /\ UNCHANGED <<database, status, ghost, replay, enabled, session, memory, wake, sync, reader, tardy>>

Others ==
    \/ \E r \in Rooms : \/ DeleteRoom(r) \/ SetHold(r) \/ Expire(r)
                        \/ \E n \in Names : CreateRoom(r, n) \/ RenameRoom(r, n)
                        \/ \E v \in {None, Own} : SetKnob(r, v)
    \/ SetEnabled
    \/ \E o \in Orders, retain \in BOOLEAN : Publish(o, retain)

-----------------------------------------------------------------------------
Init ==
    /\ room = InitRoom /\ system = On
    /\ \/ kept = Nothing /\ born = {r \in Rooms : room[r] # None}
       \/ kept = LeftOver /\ born = Rooms
    /\ status = "offline" /\ ghost = FALSE /\ replay = Nothing /\ inbox = <<>>
    /\ enabled = TRUE /\ session = "off"
    /\ retained = Nothing /\ noted = Nothing /\ reconciled = TRUE
    /\ wake = FALSE /\ sync = NoSync /\ reader = NoReader /\ tardy = FALSE
    /\ used = [k \in Kinds |-> 0]

SessionSteps == Connect \/ IdleWhileDisabled
SyncSteps    == Refresh \/ SyncRaises \/ ReadLists \/ ReadDetails \/ PublishConfigs \/ PublishStates
                \/ Retire \/ Sweep \/ Republish
ReaderSteps  == ReadReplay \/ TakeOrder \/ Dispatch \/ Answer

Next == SessionSteps \/ SyncSteps \/ ReaderSteps \/ Others \/ Drop \/ BrokerRestarts \/ WillFires

Spec == Init /\ [][Next]_vars

(* The event loop runs every task that can; a broker notices a dead peer. *)
FairSpec == Spec /\ WF_vars(SessionSteps) /\ WF_vars(SyncSteps) /\ WF_vars(ReaderSteps)
                 /\ WF_vars(WillFires)

-----------------------------------------------------------------------------
(* Properties *)

(* The discovery config of a room that exists is never blanked, which would
   delete its entities, except to move it to its new device: not by a
   partial snapshot, nor by a snapshot that an edit has overtaken. *)
EntitiesAreKept ==
    [][\A r \in Rooms :
          LET t == <<"config", r>> IN
          room[r] # None /\ kept[t] # None /\ kept'[t] = None
              => used'["drops"] # used["drops"] \/ (sync'.pc = "republish" /\ t \in sync'.moved)]_vars

(* No edit is lost between the wake that announces it and the snapshot that
   takes it in: with nothing left to do, no read failed and no hold run out,
   the topics of the rooms that exist are those of the database
   (request_sync, _idle). *)
QuietIsMirrored ==
    session = "live" /\ sync.pc = "idle" /\ reader.pc = "idle" /\ ~wake
      /\ used["faults"] = 0 /\ used["expiries"] = 0
        => \A t \in MirrorTopics : Wanted[t] # None => kept[t] = Wanted[t]

(* Left alone, the enabled bridge ends with exactly the topics of the
   database on the broker, whatever an earlier run, a lost broker, a partial
   snapshot or a moved device left there; only a sweep that ran before the
   broker's replay was read may leave topics behind. *)
MirrorConverges ==
    <>[](enabled => \A t \in MirrorTopics :
             kept[t] = Wanted[t] \/ (Wanted[t] = None /\ tardy))

(* A command the broker retained from before sets nothing, however often the
   bridge connects (_read_loop): while nobody publishes, no command gives a
   control a value.  Its blanking by the sweep does come back as a live
   command, and a clear or an empty payload is obeyed. *)
StaleCommandsSetNothing ==
    [][reader.pc = "dispatch" /\ used["orders"] = 0 => Decoded(reader.order) = None]_vars

(* bridge.py:504-507: a topic whose section could not be read keeps its
   previous retained value instead of being blanked: the knob of a room that
   exists always has a value to show, its own or the thermostat's. *)
FailedReadKeepsState ==
    [][\A r \in Rooms :
          LET t == <<"knob", r>> IN
          room[r] # None /\ kept[t] # None /\ kept'[t] = None => used'["drops"] # used["drops"]]_vars
=============================================================================
