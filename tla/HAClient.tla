------------------------------ MODULE HAClient ------------------------------
(***************************************************************************)
(* The WebSocket client of Home Assistant                                  *)
(* (smart_vent/backend/ha_client.py): the life of its connection, the      *)
(* cache of entity states fed by the subscription, and the service calls   *)
(* of concurrent coroutines, matched to their replies by message id.       *)
(*                                                                         *)
(* Home Assistant itself is external: it carries out a call some time      *)
(* after it has received it, reports the state of an entity some time      *)
(* after it has changed, and its messages to the client keep their order.  *)
(* The entities are covers; what a call asks of them is a verb.            *)
(***************************************************************************)
EXTENDS Naturals, Sequences

CONSTANTS
    Entities,   \* the covers
    Callers,    \* the coroutines that make service calls
    Prompt,     \* HA reports a change before it answers the call behind it
    MaxCalls,   \* bound: messages sent
    MaxMoves    \* bound: covers moved by hand or become unavailable

ASSUME ClientAssumption ==
    /\ Prompt \in BOOLEAN
    /\ MaxCalls \in Nat
    /\ MaxMoves \in Nat

VARIABLES
    conn,     \* how far _connect has got
    msgId,    \* _msg_id
    pending,  \* the keys of _pending
    call,     \* what each caller is waiting for
    cache,    \* _state_cache
    (* Home Assistant and the socket *)
    pos,      \* where each cover stands
    seen,     \* the state Home Assistant holds of it
    sent,     \* the calls it has received and not answered
    wire,     \* its messages the client has not yet read
    moves,
    (* history *)
    done,     \* the calls it has carried out
    told,     \* the calls whose caller was told of success
    missed    \* covers that changed where the client could not see it

client == <<conn, msgId, pending, call, cache>>
ha     == <<pos, seen, sent, wire, moves>>
past   == <<done, told, missed>>
vars   == <<client, ha, past>>

-----------------------------------------------------------------------------
Positions == {"closed", "part", "open"}
Reports   == Positions \cup {"unavailable"}
Verbs     == {"open", "close", "toggle"}
Ids       == 1..MaxCalls

Dialling == {"handshake", "fetching", "subscribing"}

Messages == [id : Ids, ent : Entities, verb : Verbs, live : BOOLEAN]
Events   == [kind : {"event"}, ent : Entities, to : Reports]
Replies  == [kind : {"reply"}, id : Ids, ok : BOOLEAN]

NoCall == [phase |-> "idle"]
Calls  == {NoCall} \cup [phase : {"sending", "waiting"}, id : Ids, ent : Entities, verb : Verbs]

TypeOK ==
    /\ conn \in {"down", "up"} \cup Dialling
    /\ msgId \in 0..MaxCalls
    /\ pending \in SUBSET Ids
    /\ call \in [Callers -> Calls]
    /\ cache \in [Entities -> Reports \cup {"absent"}]
    /\ pos \in [Entities -> Positions]
    /\ seen \in [Entities -> Reports]
    /\ sent \in SUBSET Messages
    /\ wire \in Seq(Events \cup Replies)
    /\ moves \in 0..MaxMoves
    /\ done \in SUBSET Ids /\ told \in SUBSET Ids
    /\ missed \in SUBSET Entities

Init ==
    /\ conn = "down" /\ msgId = 0 /\ pending = {}
    /\ call = [c \in Callers |-> NoCall]
    /\ cache = [e \in Entities |-> "absent"]
    /\ pos \in [Entities -> Positions] /\ seen = pos
    /\ sent = {} /\ wire = <<>> /\ moves = 0
    /\ done = {} /\ told = {} /\ missed = {}

-----------------------------------------------------------------------------
(* The connection *)

Dial ==
    /\ conn = "down" /\ conn' = "handshake"
    /\ UNCHANGED <<msgId, pending, call, cache, ha, past>>

Handshake ==
    /\ conn = "handshake" /\ conn' = "fetching"
    /\ UNCHANGED <<msgId, pending, call, cache, ha, past>>

(* fetch_states; a failure, its own timeout among them, is contained and   *)
(* leaves the old cache.                                                   *)
Fetch ==
    /\ conn = "fetching" /\ conn' = "subscribing"
    /\ \/ cache' = seen /\ missed' = {}
       \/ cache' = cache /\ missed' = Entities
    /\ UNCHANGED <<msgId, pending, call, ha, done, told>>

Subscribe ==
    /\ conn = "subscribing" /\ conn' = "up"
    /\ UNCHANGED <<msgId, pending, call, cache, ha, past>>

(* An error, or the timeout that each wait for the peer has *)
ConnectFails ==
    /\ conn \in {"handshake", "subscribing"} /\ conn' = "down"
    /\ UNCHANGED <<msgId, pending, call, cache, ha, past>>

(* The socket is lost.  The finally of _connect fails every call in        *)
(* flight; what HA had received it may carry out, but answers no more.     *)
Unanswered(S) == {[m EXCEPT !.live = FALSE] : m \in S}

(* Mutant of Drop: the calls in flight wait for their own timeout. *)
DropForgets ==
    /\ conn = "up" /\ conn' = "down"
    /\ pending' = {}
    /\ wire' = <<>>
    /\ \E kept \in SUBSET sent : sent' = Unanswered(kept)
    /\ UNCHANGED <<msgId, call, cache, pos, seen, moves, past>>

Drop ==
    /\ conn = "up" /\ conn' = "down"
    /\ pending' = {}
    /\ call' = [c \in Callers |-> IF call[c].phase = "waiting" THEN NoCall ELSE call[c]]
    /\ wire' = <<>>
    /\ \E kept \in SUBSET sent : sent' = Unanswered(kept)
    /\ UNCHANGED <<msgId, cache, pos, seen, moves, past>>

-----------------------------------------------------------------------------
(* _send *)

(* Mutant of Call: the id is taken before it is counted up. *)
CallWithOldId(c, e, verb) ==
    /\ conn = "up" /\ call[c] = NoCall
    /\ msgId < MaxCalls
    /\ msgId' = msgId + 1
    /\ pending' = pending \cup {msgId}
    /\ call' = [call EXCEPT ![c] = [phase |-> "sending", id |-> msgId, ent |-> e, verb |-> verb]]
    /\ UNCHANGED <<conn, cache, ha, past>>

Call(c, e, verb) ==
    /\ conn = "up" /\ call[c] = NoCall
    /\ msgId < MaxCalls
    /\ msgId' = msgId + 1
    /\ pending' = pending \cup {msgId'}
    /\ call' = [call EXCEPT ![c] = [phase |-> "sending", id |-> msgId', ent |-> e, verb |-> verb]]
    /\ UNCHANGED <<conn, cache, ha, past>>

MessageOf(c) == [id |-> call[c].id, ent |-> call[c].ent, verb |-> call[c].verb, live |-> TRUE]

Written(c) ==
    /\ call[c].phase = "sending" /\ call[c].id \in pending
    /\ sent' = sent \cup {MessageOf(c)}
    /\ call' = [call EXCEPT ![c].phase = "waiting"]
    /\ UNCHANGED <<conn, msgId, pending, cache, pos, seen, wire, moves, past>>

(* The write fails or takes too long, by which time it may have gone out;  *)
(* or the connection it was made on is lost.                               *)
SendFails(c) ==
    /\ call[c].phase = "sending"
    /\ pending' = pending \ {call[c].id}
    /\ \/ UNCHANGED sent
       \/ call[c].id \in pending /\ sent' = sent \cup {MessageOf(c)}
    /\ call' = [call EXCEPT ![c] = NoCall]
    /\ UNCHANGED <<conn, msgId, cache, pos, seen, wire, moves, past>>

(* No answer within ten seconds; the entry in _pending remains. *)
CallTimesOut(c) ==
    /\ call[c].phase = "waiting"
    /\ call' = [call EXCEPT ![c] = NoCall]
    /\ UNCHANGED <<conn, msgId, pending, cache, ha, past>>

-----------------------------------------------------------------------------
(* _read_loop, _dispatch *)

(* Mutant of ReadEvent: an unavailable cover keeps its last state. *)
ReadEventIfAvailable ==
    /\ conn = "up" /\ wire # <<>> /\ Head(wire).kind = "event"
    /\ cache' = IF Head(wire).to = "unavailable" THEN cache
                 ELSE [cache EXCEPT ![Head(wire).ent] = Head(wire).to]
    /\ wire' = Tail(wire)
    /\ UNCHANGED <<conn, msgId, pending, call, pos, seen, sent, moves, past>>

ReadEvent ==
    /\ conn = "up" /\ wire # <<>> /\ Head(wire).kind = "event"
    /\ cache' = [cache EXCEPT ![Head(wire).ent] = Head(wire).to]
    /\ wire' = Tail(wire)
    /\ UNCHANGED <<conn, msgId, pending, call, pos, seen, sent, moves, past>>

(* Mutant of ReadReply: an answer goes to whoever is waiting. *)
ReadReplyUnmatched ==
    /\ conn = "up" /\ wire # <<>> /\ Head(wire).kind = "reply"
    /\ pending' = pending \ {Head(wire).id}
    /\ \/ \E c \in Callers :
            /\ call[c].phase = "waiting"
            /\ call' = [call EXCEPT ![c] = NoCall]
            /\ told' = IF Head(wire).ok THEN told \cup {call[c].id} ELSE told
       \/ UNCHANGED <<call, told>>
    /\ wire' = Tail(wire)
    /\ UNCHANGED <<conn, msgId, cache, pos, seen, sent, moves, done, missed>>

Addressed(c, id) == id \in pending /\ call[c].phase = "waiting" /\ call[c].id = id

(* The answer of a call that has timed out finds nobody. *)
ReadReply ==
    LET reply == Head(wire) IN
    /\ conn = "up" /\ wire # <<>> /\ reply.kind = "reply"
    /\ pending' = pending \ {reply.id}
    /\ call' = [c \in Callers |-> IF Addressed(c, reply.id) THEN NoCall ELSE call[c]]
    /\ told' = IF reply.ok /\ \E c \in Callers : Addressed(c, reply.id)
                 THEN told \cup {reply.id} ELSE told
    /\ wire' = Tail(wire)
    /\ UNCHANGED <<conn, msgId, cache, pos, seen, sent, moves, done, missed>>

-----------------------------------------------------------------------------
(* Home Assistant *)

Effect(verb, at) ==
    CASE verb = "open"   -> "open"
      [] verb = "close"  -> "closed"
      [] verb = "toggle" -> IF at = "closed" THEN "open" ELSE "closed"

Apply(m) ==
    /\ m \in sent /\ m.id \notin done
    /\ pos' = [pos EXCEPT ![m.ent] = Effect(m.verb, @)]
    /\ done' = done \cup {m.id}
    /\ sent' = IF m.live THEN sent ELSE sent \ {m}
    /\ UNCHANGED <<client, seen, wire, moves, told, missed>>

Answer(m) ==
    /\ m \in sent /\ m.live /\ conn = "up"
    /\ Prompt /\ m.id \in done => seen[m.ent] = pos[m.ent]
    /\ wire' = Append(wire, [kind |-> "reply", id |-> m.id, ok |-> m.id \in done])
    /\ sent' = sent \ {m}
    /\ UNCHANGED <<client, pos, seen, moves, past>>

(* A new state goes to the subscriber, if there is one. *)
Publish(e, to) ==
    /\ seen' = [seen EXCEPT ![e] = to]
    /\ wire' = IF conn = "up" THEN Append(wire, [kind |-> "event", ent |-> e, to |-> to]) ELSE wire
    /\ missed' = IF conn = "up" THEN missed \ {e} ELSE missed \cup {e}

ReportState(e) ==
    /\ seen[e] # pos[e]
    /\ Publish(e, pos[e])
    /\ UNCHANGED <<client, pos, sent, moves, done, told>>

GoUnavailable(e) ==
    /\ moves < MaxMoves /\ moves' = moves + 1
    /\ seen[e] # "unavailable"
    /\ Publish(e, "unavailable")
    /\ UNCHANGED <<client, pos, sent, done, told>>

MoveByHand(e, to) ==
    /\ moves < MaxMoves /\ moves' = moves + 1
    /\ pos' = [pos EXCEPT ![e] = to]
    /\ UNCHANGED <<client, seen, sent, wire, past>>

-----------------------------------------------------------------------------
Connect == Dial \/ Handshake \/ Fetch \/ Subscribe \/ ConnectFails

Finish(c) == Written(c) \/ SendFails(c) \/ CallTimesOut(c)

Service ==
    \/ \E m \in sent : Apply(m) \/ Answer(m)
    \/ \E e \in Entities :
         ReportState(e) \/ GoUnavailable(e) \/ \E to \in Positions : MoveByHand(e, to)

Internal ==
    \/ Connect \/ Drop
    \/ ReadEvent \/ ReadReply
    \/ \E c \in Callers : Finish(c)
    \/ Service

Next ==
    \/ Internal
    \/ \E c \in Callers, e \in Entities, verb \in Verbs : Call(c, e, verb)

Spec == Init /\ [][Next]_vars

-----------------------------------------------------------------------------
(* Properties *)

(* A caller is told of success only for a call that was carried out, its   *)
(* own: answers are matched by id, across timeouts and reconnections.      *)
SuccessWasApplied == told \subseteq done

(* Nobody waits on a dead connection: a caller that waits for an answer    *)
(* has its own entry in _pending, and a lost connection leaves none.       *)
WaitersAreTracked ==
    /\ conn # "up" => pending = {}
    /\ \A c \in Callers : call[c].phase = "waiting" => conn = "up" /\ call[c].id \in pending
    /\ \A c, d \in Callers :
         c # d /\ call[c] # NoCall /\ call[d] # NoCall => call[c].id # call[d].id

(* What the cache will say of a cover once the wire is read                *)
Replayed(e) ==
    LET of == {i \in 1..Len(wire) : wire[i].kind = "event" /\ wire[i].ent = e}
    IN  IF of = {} THEN cache[e] ELSE wire[CHOOSE i \in of : \A j \in of : j <= i].to

(* While connected, the cache lags behind Home Assistant only by what is   *)
(* on the wire, except for covers that changed between the fetch of their  *)
(* states and the subscription, or were never fetched.                     *)
CacheIsReplay == conn = "up" => \A e \in Entities \ missed : Replayed(e) = seen[e]

=============================================================================
