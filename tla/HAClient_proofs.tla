-------------------------- MODULE HAClient_proofs --------------------------
(* Proofs about HAClient. *)
EXTENDS HAClient, TLAPS

(* Home Assistant says yes only to what it has done. *)
AnswersInv == \A i \in 1..Len(wire) : wire[i].kind = "reply" /\ wire[i].ok => wire[i].id \in done

(* A caller is told of success only by the answer to a call carried out. *)
SuccessInv == SuccessWasApplied /\ AnswersInv

(* Ids are handed out in order, and the caller that waits for an answer is *)
(* the only one with its id.                                               *)
IdsInv ==
    /\ \A c \in Callers : call[c] # NoCall => call[c].id \in 1..msgId
    /\ WaitersAreTracked

-----------------------------------------------------------------------------
(* The messages on the wire *)

(* What the client has read leaves the others on the wire. *)
LEMMA ReadWire ==
    ASSUME wire \in Seq(Events \cup Replies), wire # <<>>, wire' = Tail(wire)
    PROVE  /\ wire' \in Seq(Events \cup Replies)
           /\ Head(wire) \in Events \cup Replies
           /\ Head(wire) = wire[1] /\ 1 \in 1..Len(wire)
           /\ \A i \in 1..Len(wire') : i + 1 \in 1..Len(wire) /\ wire'[i] = wire[i + 1]
<1> DEFINE M == Events \cup Replies
<1>1. wire \in Seq(M) /\ wire # <<>>
  OBVIOUS
<1> HIDE DEF M
<1>2. /\ Tail(wire) \in Seq(M) /\ Head(wire) \in M
      /\ Head(wire) = wire[1] /\ 1 \in 1..Len(wire)
      /\ \A i \in 1..Len(Tail(wire)) : i + 1 \in 1..Len(wire) /\ Tail(wire)[i] = wire[i + 1]
  BY <1>1
<1> QED
  BY <1>2 DEF M

(* A message written to the wire goes behind the others. *)
LEMMA WriteWire ==
    ASSUME wire \in Seq(Events \cup Replies), NEW m \in Events \cup Replies,
           wire' = Append(wire, m)
    PROVE  /\ wire' \in Seq(Events \cup Replies)
           /\ \A i \in 1..Len(wire') : (i \in 1..Len(wire) /\ wire'[i] = wire[i]) \/ wire'[i] = m
<1> DEFINE M == Events \cup Replies
<1>1. wire \in Seq(M) /\ m \in M
  OBVIOUS
<1> HIDE DEF M
<1>2. /\ Append(wire, m) \in Seq(M)
      /\ \A i \in 1..Len(Append(wire, m)) :
           (i \in 1..Len(wire) /\ Append(wire, m)[i] = wire[i]) \/ Append(wire, m)[i] = m
  BY <1>1
<1> QED
  BY <1>2 DEF M

(* What Home Assistant reports of a cover is typed. *)
LEMMA PublishType ==
    ASSUME TypeOK, NEW e \in Entities, NEW to \in Reports, Publish(e, to)
    PROVE  /\ seen' \in [Entities -> Reports]
           /\ wire' \in Seq(Events \cup Replies)
           /\ missed' \in SUBSET Entities
<1> DEFINE event == [kind |-> "event", ent |-> e, to |-> to]
<1>1. event \in Events \cup Replies
  BY DEF Events
<1>2. wire \in Seq(Events \cup Replies)
  BY DEF TypeOK
<1>3. CASE conn = "up"
  <2>1. wire' = Append(wire, event)
    BY <1>3 DEF Publish
  <2> QED
    BY <1>1, <1>2, <2>1, WriteWire DEF Publish, TypeOK
<1>4. CASE conn # "up"
  BY <1>2, <1>4 DEF Publish, TypeOK
<1> QED
  BY <1>3, <1>4

-----------------------------------------------------------------------------
(* Type correctness *)

(* Every step of the client and of Home Assistant keeps the state typed. *)
LEMMA Typing == TypeOK /\ [Next]_vars => TypeOK'
<1> SUFFICES ASSUME TypeOK, [Next]_vars PROVE TypeOK'
  OBVIOUS
<1>1. CASE Dial
  BY <1>1 DEF TypeOK, Dial, client, ha, past, Dialling
<1>2. CASE Handshake
  BY <1>2 DEF TypeOK, Handshake, client, ha, past, Dialling
<1>3. CASE Fetch
  BY <1>3 DEF TypeOK, Fetch, client, ha, past, Dialling
<1>4. CASE Subscribe
  BY <1>4 DEF TypeOK, Subscribe, client, ha, past, Dialling
<1>5. CASE ConnectFails
  BY <1>5 DEF TypeOK, ConnectFails, client, ha, past, Dialling
<1>6. CASE Drop
  <2>1. PICK kept \in SUBSET sent : sent' = Unanswered(kept)
    BY <1>6 DEF Drop
  <2>2. sent' \in SUBSET Messages
    <3>1. ASSUME NEW m \in kept PROVE [m EXCEPT !.live = FALSE] \in Messages
      <4>1. m \in Messages
        BY DEF TypeOK
      <4> QED
        BY <4>1 DEF Messages
    <3> QED
      BY <2>1, <3>1 DEF Unanswered
  <2>3. call' \in [Callers -> Calls]
    BY <1>6 DEF TypeOK, Drop, Calls
  <2>4. wire' \in Seq(Events \cup Replies)
    BY <1>6 DEF Drop
  <2> QED
    BY <1>6, <2>2, <2>3, <2>4 DEF TypeOK, Drop, past
<1>7. CASE ReadEvent
  <2>1. Head(wire) \in Events \cup Replies /\ wire' \in Seq(Events \cup Replies)
    BY <1>7, ReadWire DEF TypeOK, ReadEvent
  <2>2. Head(wire).ent \in Entities /\ Head(wire).to \in Reports
    BY <1>7, <2>1 DEF ReadEvent, Events, Replies
  <2> QED
    BY <1>7, <2>1, <2>2 DEF TypeOK, ReadEvent, past
<1>8. CASE ReadReply
  <2>1. Head(wire) \in Events \cup Replies /\ wire' \in Seq(Events \cup Replies)
    BY <1>8, ReadWire DEF TypeOK, ReadReply
  <2>2. Head(wire).id \in Ids
    BY <1>8, <2>1 DEF ReadReply, Events, Replies
  <2>3. call' \in [Callers -> Calls]
    BY <1>8 DEF TypeOK, ReadReply, Calls
  <2> QED
    BY <1>8, <2>1, <2>2, <2>3 DEF TypeOK, ReadReply
<1>9. ASSUME NEW c \in Callers, Written(c) PROVE TypeOK'
  <2>1. call[c] \in [phase : {"sending", "waiting"}, id : Ids, ent : Entities, verb : Verbs]
    BY <1>9 DEF TypeOK, Written, Calls, NoCall
  <2>2. MessageOf(c) \in Messages
    BY <2>1 DEF MessageOf, Messages
  <2>3. call' \in [Callers -> Calls]
    BY <1>9, <2>1 DEF TypeOK, Written, Calls
  <2> QED
    BY <1>9, <2>2, <2>3 DEF TypeOK, Written, past
<1>10. ASSUME NEW c \in Callers, SendFails(c) PROVE TypeOK'
  <2>1. call[c] \in [phase : {"sending", "waiting"}, id : Ids, ent : Entities, verb : Verbs]
    BY <1>10 DEF TypeOK, SendFails, Calls, NoCall
  <2>2. MessageOf(c) \in Messages
    BY <2>1 DEF MessageOf, Messages
  <2>3. call' \in [Callers -> Calls]
    BY <1>10 DEF TypeOK, SendFails, Calls
  <2> QED
    BY <1>10, <2>2, <2>3 DEF TypeOK, SendFails, past
<1>11. ASSUME NEW c \in Callers, CallTimesOut(c) PROVE TypeOK'
  BY <1>11 DEF TypeOK, CallTimesOut, Calls, ha, past
<1>12. ASSUME NEW m \in sent, Apply(m) PROVE TypeOK'
  <2>1. m \in Messages
    BY DEF TypeOK
  <2>2. Effect(m.verb, pos[m.ent]) \in Positions
    BY <2>1 DEF Effect, Messages, Verbs, Positions
  <2> QED
    BY <1>12, <2>1, <2>2 DEF TypeOK, Apply, client, Messages
<1>13. ASSUME NEW m \in sent, Answer(m) PROVE TypeOK'
  <2> DEFINE reply == [kind |-> "reply", id |-> m.id, ok |-> m.id \in done]
  <2>1. reply \in Events \cup Replies
    BY DEF TypeOK, Messages, Replies
  <2>2. wire' = Append(wire, reply) /\ wire \in Seq(Events \cup Replies)
    BY <1>13 DEF Answer, TypeOK
  <2>3. wire' \in Seq(Events \cup Replies)
    BY <2>1, <2>2, WriteWire
  <2> QED
    BY <1>13, <2>3 DEF TypeOK, Answer, client, past
<1>14. ASSUME NEW e \in Entities, ReportState(e) PROVE TypeOK'
  <2>1. pos[e] \in Reports
    BY DEF TypeOK, Reports
  <2> QED
    BY <1>14, <2>1, PublishType DEF TypeOK, ReportState, client
<1>15. ASSUME NEW e \in Entities, GoUnavailable(e) PROVE TypeOK'
  <2>1. "unavailable" \in Reports
    BY DEF Reports
  <2> QED
    BY <1>15, <2>1, PublishType, ClientAssumption DEF TypeOK, GoUnavailable, client
<1>16. ASSUME NEW e \in Entities, NEW to \in Positions, MoveByHand(e, to) PROVE TypeOK'
  BY <1>16, ClientAssumption DEF TypeOK, MoveByHand, client, past
<1>17. ASSUME NEW c \in Callers, NEW e \in Entities, NEW verb \in Verbs, Call(c, e, verb) PROVE TypeOK'
  <2>1. msgId' \in 0..MaxCalls /\ msgId' \in Ids
    BY <1>17, ClientAssumption DEF TypeOK, Call, Ids
  <2>2. call' \in [Callers -> Calls]
    BY <1>17, <2>1 DEF TypeOK, Call, Calls
  <2> QED
    BY <1>17, <2>1, <2>2 DEF TypeOK, Call, ha, past
<1>18. CASE UNCHANGED vars
  BY <1>18 DEF TypeOK, vars, client, ha, past
<1> QED
  BY <1>1, <1>2, <1>3, <1>4, <1>5, <1>6, <1>7, <1>8, <1>9, <1>10, <1>11,
     <1>12, <1>13, <1>14, <1>15, <1>16, <1>17, <1>18 DEF Next, Internal,
     Connect, Finish, Service

(* Every reachable state of the client and of Home Assistant is typed, for *)
(* any number of covers, callers and messages.                             *)
THEOREM ClientTypeCorrect == Spec => []TypeOK
<1>1. Init => TypeOK
  <2> SUFFICES ASSUME Init PROVE TypeOK
    OBVIOUS
  <2>1. wire \in Seq(Events \cup Replies)
    BY DEF Init
  <2> QED
    BY <2>1, ClientAssumption DEF Init, TypeOK, Calls, Positions, Reports
<1> QED
  BY <1>1, Typing, PTL DEF Spec

-----------------------------------------------------------------------------
(* Success *)

(* A report of a state is no answer. *)
LEMMA PublishAnswers ==
    ASSUME TypeOK, AnswersInv, NEW e \in Entities, NEW to \in Reports, Publish(e, to), done' = done
    PROVE  AnswersInv'
<1> DEFINE event == [kind |-> "event", ent |-> e, to |-> to]
<1>1. event \in Events \cup Replies
  BY DEF Events
<1>2. wire \in Seq(Events \cup Replies)
  BY DEF TypeOK
<1>3. CASE conn = "up"
  <2>1. wire' = Append(wire, event)
    BY <1>3 DEF Publish
  <2>2. \A i \in 1..Len(wire') : (i \in 1..Len(wire) /\ wire'[i] = wire[i]) \/ wire'[i] = event
    BY <1>1, <1>2, <2>1, WriteWire
  <2> QED
    BY <2>2 DEF AnswersInv
<1>4. CASE conn # "up"
  BY <1>4 DEF Publish, AnswersInv
<1> QED
  BY <1>3, <1>4

(* No step tells a caller of a success that was not one, nor lets Home     *)
(* Assistant say so.                                                       *)
LEMMA SuccessStep == TypeOK /\ SuccessInv /\ [Next]_vars => SuccessInv'
<1> SUFFICES ASSUME TypeOK, SuccessInv, [Next]_vars PROVE SuccessInv'
  OBVIOUS
<1>1. CASE Dial
  BY <1>1 DEF Dial, client, ha, past, SuccessInv, SuccessWasApplied, AnswersInv
<1>2. CASE Handshake
  BY <1>2 DEF Handshake, client, ha, past, SuccessInv, SuccessWasApplied, AnswersInv
<1>3. CASE Fetch
  BY <1>3 DEF Fetch, client, ha, past, SuccessInv, SuccessWasApplied, AnswersInv
<1>4. CASE Subscribe
  BY <1>4 DEF Subscribe, client, ha, past, SuccessInv, SuccessWasApplied, AnswersInv
<1>5. CASE ConnectFails
  BY <1>5 DEF ConnectFails, client, ha, past, SuccessInv, SuccessWasApplied, AnswersInv
<1>6. CASE Drop
  <2>1. Len(wire') = 0
    BY <1>6 DEF Drop
  <2> QED
    BY <1>6, <2>1 DEF Drop, past, SuccessInv, SuccessWasApplied, AnswersInv
<1>7. CASE ReadEvent
  BY <1>7, ReadWire DEF TypeOK, ReadEvent, past, SuccessInv, SuccessWasApplied, AnswersInv
<1>8. CASE ReadReply
  <2>1. Head(wire).ok => Head(wire).id \in done
    BY <1>8, ReadWire DEF TypeOK, ReadReply, SuccessInv, AnswersInv
  <2>2. AnswersInv'
    BY <1>8, ReadWire DEF TypeOK, ReadReply, SuccessInv, AnswersInv
  <2> QED
    BY <1>8, <2>1, <2>2 DEF ReadReply, SuccessInv, SuccessWasApplied
<1>9. ASSUME NEW c \in Callers, Written(c) PROVE SuccessInv'
  BY <1>9 DEF Written, client, ha, past, SuccessInv, SuccessWasApplied, AnswersInv
<1>10. ASSUME NEW c \in Callers, SendFails(c) PROVE SuccessInv'
  BY <1>10 DEF SendFails, client, ha, past, SuccessInv, SuccessWasApplied, AnswersInv
<1>11. ASSUME NEW c \in Callers, CallTimesOut(c) PROVE SuccessInv'
  BY <1>11 DEF CallTimesOut, client, ha, past, SuccessInv, SuccessWasApplied, AnswersInv
<1>12. ASSUME NEW m \in sent, Apply(m) PROVE SuccessInv'
  BY <1>12 DEF Apply, client, ha, past, SuccessInv, SuccessWasApplied, AnswersInv
<1>13. ASSUME NEW m \in sent, Answer(m) PROVE SuccessInv'
  <2> DEFINE reply == [kind |-> "reply", id |-> m.id, ok |-> m.id \in done]
  <2>1. reply \in Events \cup Replies
    BY DEF TypeOK, Messages, Replies
  <2>2. wire' = Append(wire, reply) /\ wire \in Seq(Events \cup Replies)
    BY <1>13 DEF Answer, TypeOK
  <2>3. \A i \in 1..Len(wire') : (i \in 1..Len(wire) /\ wire'[i] = wire[i]) \/ wire'[i] = reply
    BY <2>1, <2>2, WriteWire
  <2>4. reply.ok => reply.id \in done
    BY Zenon
  <2> HIDE DEF reply
  <2>5. AnswersInv'
    BY <1>13, <2>3, <2>4 DEF Answer, past, SuccessInv, AnswersInv
  <2> QED
    BY <1>13, <2>5 DEF Answer, past, SuccessInv, SuccessWasApplied, AnswersInv
<1>14. ASSUME NEW e \in Entities, ReportState(e) PROVE SuccessInv'
  <2>1. pos[e] \in Reports
    BY DEF TypeOK, Reports
  <2> QED
    BY <1>14, <2>1, PublishAnswers DEF ReportState, SuccessInv, SuccessWasApplied
<1>15. ASSUME NEW e \in Entities, GoUnavailable(e) PROVE SuccessInv'
  <2>1. "unavailable" \in Reports
    BY DEF TypeOK, Reports
  <2> QED
    BY <1>15, <2>1, PublishAnswers DEF GoUnavailable, SuccessInv, SuccessWasApplied
<1>16. ASSUME NEW e \in Entities, NEW to \in Positions, MoveByHand(e, to) PROVE SuccessInv'
  BY <1>16 DEF MoveByHand, client, ha, past, SuccessInv, SuccessWasApplied, AnswersInv
<1>17. ASSUME NEW c \in Callers, NEW e \in Entities, NEW verb \in Verbs, Call(c, e, verb) PROVE SuccessInv'
  BY <1>17 DEF Call, client, ha, past, SuccessInv, SuccessWasApplied, AnswersInv
<1>18. CASE UNCHANGED vars
  BY <1>18 DEF vars, client, ha, past, SuccessInv, SuccessWasApplied, AnswersInv
<1> QED
  BY <1>1, <1>2, <1>3, <1>4, <1>5, <1>6, <1>7, <1>8, <1>9, <1>10, <1>11,
     <1>12, <1>13, <1>14, <1>15, <1>16, <1>17, <1>18 DEF Next, Internal,
     Connect, Finish, Service

(* call_service returns without an error only for a call that Home         *)
(* Assistant has carried out, however late answers, timeouts and           *)
(* reconnections fall.                                                     *)
THEOREM SuccessIsReal == Spec => []SuccessWasApplied
<1>1. Init => SuccessInv
  <2> SUFFICES ASSUME Init PROVE SuccessInv
    OBVIOUS
  <2>1. Len(wire) = 0
    BY DEF Init
  <2> QED
    BY <2>1 DEF Init, SuccessInv, SuccessWasApplied, AnswersInv
<1>2. SuccessInv => SuccessWasApplied
  BY DEF SuccessInv
<1> QED
  BY <1>1, <1>2, SuccessStep, ClientTypeCorrect, PTL DEF Spec

-----------------------------------------------------------------------------
(* Callers and _pending *)

(* Every step keeps the ids of the calls apart and every waiter tracked. *)
LEMMA IdsStep == TypeOK /\ IdsInv /\ [Next]_vars => IdsInv'
<1> SUFFICES ASSUME TypeOK, IdsInv, [Next]_vars PROVE IdsInv'
  OBVIOUS
<1>1. CASE Dial
  BY <1>1 DEF TypeOK, Dial, client, ha, past, Dialling, IdsInv, WaitersAreTracked
<1>2. CASE Handshake
  BY <1>2 DEF TypeOK, Handshake, client, ha, past, Dialling, IdsInv, WaitersAreTracked
<1>3. CASE Fetch
  BY <1>3 DEF TypeOK, Fetch, client, ha, past, Dialling, IdsInv, WaitersAreTracked
<1>4. CASE Subscribe
  BY <1>4 DEF TypeOK, Subscribe, client, ha, past, Dialling, IdsInv, WaitersAreTracked
<1>5. CASE ConnectFails
  BY <1>5 DEF TypeOK, ConnectFails, client, ha, past, Dialling, IdsInv, WaitersAreTracked
<1>6. CASE Drop
  BY <1>6 DEF TypeOK, Drop, past, NoCall, IdsInv, WaitersAreTracked
<1>7. CASE ReadEvent
  BY <1>7 DEF TypeOK, ReadEvent, client, ha, past, Dialling, IdsInv, WaitersAreTracked
<1>8. CASE ReadReply
  BY <1>8 DEF TypeOK, ReadReply, Addressed, NoCall, IdsInv, WaitersAreTracked
<1>9. ASSUME NEW c \in Callers, Written(c) PROVE IdsInv'
  BY <1>9 DEF TypeOK, Written, ha, past, NoCall, Calls, IdsInv, WaitersAreTracked
<1>10. ASSUME NEW c \in Callers, SendFails(c) PROVE IdsInv'
  BY <1>10 DEF TypeOK, SendFails, ha, past, NoCall, Calls, IdsInv, WaitersAreTracked
<1>11. ASSUME NEW c \in Callers, CallTimesOut(c) PROVE IdsInv'
  BY <1>11 DEF TypeOK, CallTimesOut, ha, past, NoCall, Calls, IdsInv, WaitersAreTracked
<1>12. ASSUME NEW m \in sent, Apply(m) PROVE IdsInv'
  BY <1>12 DEF TypeOK, Apply, client, ha, past, Dialling, IdsInv, WaitersAreTracked
<1>13. ASSUME NEW m \in sent, Answer(m) PROVE IdsInv'
  BY <1>13 DEF TypeOK, Answer, client, ha, past, Dialling, IdsInv, WaitersAreTracked
<1>14. ASSUME NEW e \in Entities, ReportState(e) PROVE IdsInv'
  BY <1>14 DEF ReportState, client, IdsInv, WaitersAreTracked
<1>15. ASSUME NEW e \in Entities, GoUnavailable(e) PROVE IdsInv'
  BY <1>15 DEF GoUnavailable, client, IdsInv, WaitersAreTracked
<1>16. ASSUME NEW e \in Entities, NEW to \in Positions, MoveByHand(e, to) PROVE IdsInv'
  BY <1>16 DEF TypeOK, MoveByHand, client, ha, past, Dialling, IdsInv, WaitersAreTracked
<1>17. ASSUME NEW c \in Callers, NEW e \in Entities, NEW verb \in Verbs, Call(c, e, verb) PROVE IdsInv'
  BY <1>17 DEF TypeOK, Call, ha, past, NoCall, IdsInv, WaitersAreTracked
<1>18. CASE UNCHANGED vars
  BY <1>18 DEF vars, client, ha, past, IdsInv, WaitersAreTracked
<1> QED
  BY <1>1, <1>2, <1>3, <1>4, <1>5, <1>6, <1>7, <1>8, <1>9, <1>10, <1>11,
     <1>12, <1>13, <1>14, <1>15, <1>16, <1>17, <1>18 DEF Next, Internal,
     Connect, Finish, Service

(* A caller that waits has its own entry in _pending, on a connection that *)
(* is up: the finally of _connect leaves nobody behind.                    *)
THEOREM NobodyIsForgotten == Spec => []WaitersAreTracked
<1>1. Init => IdsInv
  BY DEF Init, IdsInv, WaitersAreTracked, NoCall
<1>2. IdsInv => WaitersAreTracked
  BY DEF IdsInv
<1> QED
  BY <1>1, <1>2, IdsStep, ClientTypeCorrect, PTL DEF Spec

-----------------------------------------------------------------------------
(* The cache *)

(* The ith message on the wire is news of cover e. *)
NewsOf(e, i) == wire[i].kind = "event" /\ wire[i].ent = e

(* Cover e is up to date once the wire is read: no news of it is on the    *)
(* way and the cache is right, or the last news of it is.                  *)
UpToDate(e) ==
    \/ cache[e] = seen[e] /\ \A i \in 1..Len(wire) : ~NewsOf(e, i)
    \/ \E i \in 1..Len(wire) :
         NewsOf(e, i) /\ wire[i].to = seen[e] /\ \A j \in 1..Len(wire) : NewsOf(e, j) => j <= i

(* From the fetch of the states on, a cover that was not missed is up to   *)
(* date; before, nothing is on the wire.                                   *)
ReplayInv ==
    /\ conn # "up" => wire = <<>>
    /\ conn \in {"subscribing", "up"} => \A e \in Entities \ missed : UpToDate(e)

(* What the client has read makes the wire one message shorter. *)
LEMMA ReadShifts ==
    ASSUME wire \in Seq(Events \cup Replies), wire # <<>>, wire' = Tail(wire)
    PROVE  /\ Len(wire) \in Nat /\ Len(wire') = Len(wire) - 1
           /\ \A i \in 1..Len(wire) : i # 1 => i - 1 \in 1..Len(wire') /\ wire'[i - 1] = wire[i]
<1> DEFINE M == Events \cup Replies
<1>1. wire \in Seq(M) /\ wire # <<>>
  OBVIOUS
<1> HIDE DEF M
<1>2. /\ Len(wire) \in Nat /\ Len(Tail(wire)) = Len(wire) - 1
      /\ \A i \in 1..Len(wire) : i # 1 => i - 1 \in 1..Len(Tail(wire)) /\ Tail(wire)[i - 1] = wire[i]
  BY <1>1
<1> QED
  BY <1>2

(* A message written to the wire is the last one. *)
LEMMA WriteEnds ==
    ASSUME wire \in Seq(Events \cup Replies), NEW m \in Events \cup Replies,
           wire' = Append(wire, m)
    PROVE  /\ Len(wire) \in Nat /\ Len(wire') = Len(wire) + 1
           /\ wire'[Len(wire')] = m
           /\ \A i \in 1..Len(wire) : wire'[i] = wire[i]
<1> DEFINE M == Events \cup Replies
<1>1. wire \in Seq(M) /\ m \in M
  OBVIOUS
<1> HIDE DEF M
<1>2. /\ Len(wire) \in Nat /\ Len(Append(wire, m)) = Len(wire) + 1
      /\ Append(wire, m)[Len(wire) + 1] = m
      /\ \A i \in 1..Len(wire) : Append(wire, m)[i] = wire[i]
  BY <1>1
<1> QED
  BY <1>2

(* A cover that is up to date stays so while others are read. *)
LEMMA ReadKeepsUpToDate ==
    ASSUME wire \in Seq(Events \cup Replies), wire # <<>>, wire' = Tail(wire),
           NEW e \in Entities, UpToDate(e), seen' = seen,
           IF NewsOf(e, 1) THEN cache'[e] = wire[1].to ELSE cache'[e] = cache[e]
    PROVE  UpToDate(e)'
<1>1. /\ Len(wire) \in Nat /\ Len(wire') = Len(wire) - 1
      /\ \A i \in 1..Len(wire) : i # 1 => i - 1 \in 1..Len(wire') /\ wire'[i - 1] = wire[i]
  BY ReadShifts
<1>2. /\ 1 \in 1..Len(wire)
      /\ \A i \in 1..Len(wire') : i + 1 \in 1..Len(wire) /\ wire'[i] = wire[i + 1]
  BY ReadWire
<1>3. \A i \in 1..Len(wire') : NewsOf(e, i)' <=> NewsOf(e, i + 1)
  BY <1>2 DEF NewsOf
<1>4. CASE \A i \in 1..Len(wire) : ~NewsOf(e, i)
  <2>1. cache[e] = seen[e] /\ cache'[e] = cache[e]
    BY <1>2, <1>4 DEF UpToDate
  <2> QED
    BY <1>2, <1>3, <1>4, <2>1 DEF UpToDate
<1>5. ASSUME NEW i \in 1..Len(wire), NewsOf(e, i), wire[i].to = seen[e],
             \A j \in 1..Len(wire) : NewsOf(e, j) => j <= i
      PROVE  UpToDate(e)'
  <2>1. CASE i = 1
    <3>1. cache'[e] = seen[e]
      BY <1>5, <2>1
    <3>2. \A j \in 1..Len(wire') : ~NewsOf(e, j)'
      BY <1>1, <1>2, <1>3, <1>5, <2>1
    <3> QED
      BY <3>1, <3>2 DEF UpToDate
  <2>2. CASE i # 1
    <3>1. i - 1 \in 1..Len(wire') /\ wire'[i - 1].to = seen[e] /\ NewsOf(e, i - 1)'
      BY <1>1, <1>5, <2>2 DEF NewsOf
    <3>2. \A j \in 1..Len(wire') : NewsOf(e, j)' => j <= i - 1
      BY <1>1, <1>2, <1>3, <1>5
    <3> QED
      BY <3>1, <3>2 DEF UpToDate
  <2> QED
    BY <2>1, <2>2
<1> QED
  BY <1>4, <1>5 DEF UpToDate

(* A message that is no news of a cover leaves it as it was. *)
LEMMA WriteKeepsUpToDate ==
    ASSUME wire \in Seq(Events \cup Replies), NEW m \in Events \cup Replies,
           wire' = Append(wire, m),
           NEW e \in Entities, UpToDate(e), seen'[e] = seen[e], cache' = cache,
           ~(m.kind = "event" /\ m.ent = e)
    PROVE  UpToDate(e)'
<1>1. /\ Len(wire) \in Nat /\ Len(wire') = Len(wire) + 1
      /\ wire'[Len(wire')] = m
      /\ \A i \in 1..Len(wire) : wire'[i] = wire[i]
  BY WriteEnds
<1>2. /\ \A i \in 1..Len(wire) : i \in 1..Len(wire') /\ (NewsOf(e, i)' <=> NewsOf(e, i))
      /\ \A i \in 1..Len(wire') : NewsOf(e, i)' => i \in 1..Len(wire)
  BY <1>1 DEF NewsOf
<1>3. CASE \A i \in 1..Len(wire) : ~NewsOf(e, i)
  BY <1>2, <1>3 DEF UpToDate
<1>4. ASSUME NEW i \in 1..Len(wire), NewsOf(e, i), wire[i].to = seen[e],
             \A j \in 1..Len(wire) : NewsOf(e, j) => j <= i
      PROVE  UpToDate(e)'
  <2>1. i \in 1..Len(wire') /\ NewsOf(e, i)' /\ wire'[i].to = seen'[e]
    BY <1>1, <1>2, <1>4
  <2>2. \A j \in 1..Len(wire') : NewsOf(e, j)' => j <= i
    BY <1>2, <1>4
  <2> QED
    BY <2>1, <2>2 DEF UpToDate
<1> QED
  BY <1>3, <1>4 DEF UpToDate

(* News of a cover brings it up to date, and leaves the others as they     *)
(* were; a change that nobody subscribes to is missed.                     *)
LEMMA PublishReplay ==
    ASSUME TypeOK, ReplayInv, NEW e \in Entities, NEW to \in Reports, Publish(e, to),
           UNCHANGED client
    PROVE  ReplayInv'
<1> DEFINE event == [kind |-> "event", ent |-> e, to |-> to]
<1>1. event \in Events \cup Replies
  BY DEF Events
<1>2. wire \in Seq(Events \cup Replies) /\ conn' = conn /\ cache' = cache
  BY DEF TypeOK, client
<1>3. seen'[e] = to /\ \A d \in Entities \ {e} : seen'[d] = seen[d]
  BY DEF Publish, TypeOK
<1>4. CASE conn = "up"
  <2>1. wire' = Append(wire, event) /\ missed' = missed \ {e}
    BY <1>4 DEF Publish
  <2>2. UpToDate(e)'
    <3>1. PICK n \in 1..Len(wire') : wire'[n] = event /\ \A j \in 1..Len(wire') : j <= n
      BY <1>1, <1>2, <2>1, WriteEnds
    <3>2. NewsOf(e, n)' /\ wire'[n].to = seen'[e]
      BY <1>3, <3>1 DEF NewsOf
    <3> QED
      BY <3>1, <3>2 DEF UpToDate
  <2>3. ASSUME NEW d \in Entities \ {e}, d \notin missed PROVE UpToDate(d)'
    <3>1. UpToDate(d)
      BY <1>4, <2>3 DEF ReplayInv
    <3>2. ~(event.kind = "event" /\ event.ent = d)
      BY <2>3
    <3> QED
      BY <1>1, <1>2, <1>3, <2>1, <3>1, <3>2, WriteKeepsUpToDate
  <2> QED
    BY <1>2, <1>4, <2>1, <2>2, <2>3 DEF ReplayInv
<1>5. CASE conn # "up"
  <2>1. wire' = wire /\ missed' = missed \cup {e}
    BY <1>5 DEF Publish
  <2>2. ASSUME NEW d \in Entities \ missed', UpToDate(d) PROVE UpToDate(d)'
    BY <1>2, <1>3, <2>1, <2>2 DEF UpToDate, NewsOf
  <2> QED
    BY <1>2, <1>5, <2>1, <2>2 DEF ReplayInv
<1> QED
  BY <1>4, <1>5

(* Steps that touch neither the wire nor the states keep the covers as     *)
(* they are.                                                               *)
LEMMA QuietReplay ==
    ASSUME ReplayInv, UNCHANGED <<conn, wire, cache, seen, missed>>
    PROVE  ReplayInv'
  BY DEF ReplayInv, UpToDate, NewsOf

(* Every step keeps the covers that were not missed up to date. *)
LEMMA ReplayStep == TypeOK /\ ReplayInv /\ [Next]_vars => ReplayInv'
<1> SUFFICES ASSUME TypeOK, ReplayInv, [Next]_vars PROVE ReplayInv'
  OBVIOUS
<1>0. wire \in Seq(Events \cup Replies)
  BY DEF TypeOK
<1>1. CASE Dial
  BY <1>1 DEF Dial, ha, past, ReplayInv
<1>2. CASE Handshake
  BY <1>2 DEF Handshake, ha, past, ReplayInv
<1>3. CASE Fetch
  <2>1. wire = <<>> /\ wire' = <<>> /\ seen' = seen /\ conn' = "subscribing"
    BY <1>3 DEF Fetch, ha, ReplayInv
  <2>2. (cache' = seen /\ missed' = {}) \/ missed' = Entities
    BY <1>3 DEF Fetch
  <2>3. Len(wire') = 0
    BY <2>1
  <2> QED
    BY <2>1, <2>2, <2>3 DEF ReplayInv, UpToDate
<1>4. CASE Subscribe
  BY <1>4 DEF Subscribe, ha, past, ReplayInv, UpToDate, NewsOf
<1>5. CASE ConnectFails
  BY <1>5 DEF ConnectFails, ha, past, ReplayInv
<1>6. CASE Drop
  BY <1>6 DEF Drop, ReplayInv
<1>7. CASE ReadEvent
  <2>1. /\ conn = "up" /\ wire # <<>> /\ wire' = Tail(wire)
        /\ UNCHANGED <<conn, seen, missed>>
    BY <1>7 DEF ReadEvent, past
  <2>2. Head(wire) = wire[1] /\ Head(wire) \in Events \cup Replies
    BY <1>0, <2>1, ReadWire
  <2>3. Head(wire).kind = "event" /\ cache' = [cache EXCEPT ![Head(wire).ent] = Head(wire).to]
    BY <1>7 DEF ReadEvent
  <2>4. \A e \in Entities : IF NewsOf(e, 1) THEN cache'[e] = wire[1].to ELSE cache'[e] = cache[e]
    BY <2>2, <2>3 DEF TypeOK, NewsOf
  <2>5. \A e \in Entities : UpToDate(e) => UpToDate(e)'
    BY <1>0, <2>1, <2>4, ReadKeepsUpToDate
  <2> QED
    BY <2>1, <2>5 DEF ReplayInv
<1>8. CASE ReadReply
  <2>1. /\ conn = "up" /\ wire # <<>> /\ wire' = Tail(wire)
        /\ UNCHANGED <<conn, seen, missed, cache>>
    BY <1>8 DEF ReadReply
  <2>2. Head(wire) = wire[1] /\ Head(wire).kind = "reply"
    BY <1>0, <1>8, <2>1, ReadWire DEF ReadReply
  <2>3. \A e \in Entities : ~NewsOf(e, 1)
    BY <2>2 DEF NewsOf
  <2>4. \A e \in Entities : UpToDate(e) => UpToDate(e)'
    BY <1>0, <2>1, <2>3, ReadKeepsUpToDate
  <2> QED
    BY <2>1, <2>4 DEF ReplayInv
<1>9. ASSUME NEW c \in Callers, Written(c) PROVE ReplayInv'
  BY <1>9, QuietReplay DEF Written, past
<1>10. ASSUME NEW c \in Callers, SendFails(c) PROVE ReplayInv'
  BY <1>10, QuietReplay DEF SendFails, past
<1>11. ASSUME NEW c \in Callers, CallTimesOut(c) PROVE ReplayInv'
  BY <1>11, QuietReplay DEF CallTimesOut, ha, past
<1>12. ASSUME NEW m \in sent, Apply(m) PROVE ReplayInv'
  BY <1>12, QuietReplay DEF Apply, client
<1>13. ASSUME NEW m \in sent, Answer(m) PROVE ReplayInv'
  <2> DEFINE reply == [kind |-> "reply", id |-> m.id, ok |-> m.id \in done]
  <2>1. reply \in Events \cup Replies
    BY DEF TypeOK, Messages, Replies
  <2>2. /\ wire' = Append(wire, reply) /\ conn = "up"
        /\ UNCHANGED <<conn, cache, seen, missed>>
    BY <1>13 DEF Answer, client, past
  <2>3. \A e \in Entities : ~(reply.kind = "event" /\ reply.ent = e)
    OBVIOUS
  <2> HIDE DEF reply
  <2>4. \A e \in Entities : UpToDate(e) => UpToDate(e)'
    BY <1>0, <2>1, <2>2, <2>3, WriteKeepsUpToDate
  <2> QED
    BY <2>2, <2>4 DEF ReplayInv
<1>14. ASSUME NEW e \in Entities, ReportState(e) PROVE ReplayInv'
  <2>1. pos[e] \in Reports
    BY DEF TypeOK, Reports
  <2> QED
    BY <1>14, <2>1, PublishReplay DEF ReportState
<1>15. ASSUME NEW e \in Entities, GoUnavailable(e) PROVE ReplayInv'
  <2>1. "unavailable" \in Reports
    BY DEF Reports
  <2> QED
    BY <1>15, <2>1, PublishReplay DEF GoUnavailable
<1>16. ASSUME NEW e \in Entities, NEW to \in Positions, MoveByHand(e, to) PROVE ReplayInv'
  BY <1>16, QuietReplay DEF MoveByHand, client, past
<1>17. ASSUME NEW c \in Callers, NEW e \in Entities, NEW verb \in Verbs, Call(c, e, verb) PROVE ReplayInv'
  BY <1>17, QuietReplay DEF Call, ha, past
<1>18. CASE UNCHANGED vars
  BY <1>18, QuietReplay DEF vars, client, ha, past
<1> QED
  BY <1>1, <1>2, <1>3, <1>4, <1>5, <1>6, <1>7, <1>8, <1>9, <1>10, <1>11,
     <1>12, <1>13, <1>14, <1>15, <1>16, <1>17, <1>18 DEF Next, Internal,
     Connect, Finish, Service

(* A cover that is up to date is what the reading of the wire will make of *)
(* the cache.                                                              *)
LEMMA ReplayedIsSeen ==
    ASSUME NEW e \in Entities, UpToDate(e), Len(wire) \in Nat
    PROVE  Replayed(e) = seen[e]
<1> DEFINE of == {i \in 1..Len(wire) : wire[i].kind = "event" /\ wire[i].ent = e}
           last == CHOOSE i \in of : \A j \in of : j <= i
<1>1. \A i \in 1..Len(wire) : i \in of <=> NewsOf(e, i)
  BY DEF NewsOf
<1>2. CASE of = {}
  <2>1. cache[e] = seen[e]
    BY <1>1, <1>2 DEF UpToDate
  <2> QED
    BY <1>2, <2>1 DEF Replayed
<1>3. CASE of # {}
  <2>1. PICK i \in of : wire[i].to = seen[e] /\ \A j \in of : j <= i
    BY <1>1, <1>3 DEF UpToDate
  <2>2. last \in of /\ \A j \in of : j <= last
    <3> HIDE DEF of
    <3> QED
      BY <2>1
  <2>3. last = i
    <3>1. last <= i /\ i <= last
      BY <2>1, <2>2
    <3>2. last \in Nat /\ i \in Nat
      BY <2>1, <2>2
    <3> HIDE DEF last
    <3> QED
      BY <3>1, <3>2
  <2>4. Replayed(e) = wire[last].to
    BY <1>3 DEF Replayed
  <2> QED
    BY <2>1, <2>3, <2>4
<1> QED
  BY <1>2, <1>3

(* While connected, the cache is behind Home Assistant only by what is on  *)
(* the wire, for every cover that the subscription has not missed.         *)
THEOREM CacheIsCurrent == Spec => []CacheIsReplay
<1>1. Init => ReplayInv
  BY DEF Init, ReplayInv
<1>2. ASSUME TypeOK, ReplayInv PROVE CacheIsReplay
  <2>1. Len(wire) \in Nat
    <3> DEFINE M == Events \cup Replies
    <3>1. wire \in Seq(M)
      BY <1>2 DEF TypeOK
    <3> HIDE DEF M
    <3> QED
      BY <3>1
  <2> QED
    BY <1>2, <2>1, ReplayedIsSeen DEF ReplayInv, CacheIsReplay
<1> QED
  BY <1>1, <1>2, ReplayStep, ClientTypeCorrect, PTL DEF Spec

=============================================================================
