------------------------- MODULE RoomServer_proofs -------------------------
(***************************************************************************)
(* Proofs about RoomServer, for every set of sessions, every buffer size   *)
(* and every number of messages.                                           *)
(***************************************************************************)
EXTENDS RoomServer, SequenceTheorems, FiniteSetTheorems, TLAPS

-----------------------------------------------------------------------------
(* The chat buffer. *)

\* Appending to a buffer of messages leaves a buffer of messages.
LEMMA ChatAppendType ==
    ASSUME NEW S, NEW buf \in Seq(S), NEW msg \in S
    PROVE  ChatAppend(buf, msg) \in Seq(S)
  <1>1. CASE Len(buf) >= MaxMessages
    <2>1. Len(buf) > 0
      BY <1>1, MaxMessagesAssumption
    <2>2. buf # << >>
      BY <2>1
    <2>3. Tail(buf) \in Seq(S)
      BY <2>2, HeadTailProperties
    <2> QED  BY <1>1, <2>3, AppendProperties DEF ChatAppend
  <1>2. CASE ~(Len(buf) >= MaxMessages)
    BY <1>2, AppendProperties DEF ChatAppend
  <1> QED  BY <1>1, <1>2

\* A history is a sequence of messages of the buffer.
LEMMA ChatHistoryType ==
    ASSUME NEW S, NEW buf \in Seq(S), NEW limit \in Nat
    PROVE  ChatHistory(buf, limit) \in Seq(S)
  <1> DEFINE start == IF Len(buf) > limit THEN Len(buf) - limit ELSE 0
  <1>1. /\ Len(buf) \in Nat
        /\ start \in Nat
    BY LenProperties
  <1>2. SubSeq(buf, start + 1, Len(buf)) \in Seq(S)
    <2>1. \A i \in start + 1 .. Len(buf) : buf[i] \in S
      BY <1>1, ElementOfSeq
    <2> HIDE DEF start
    <2> QED  BY <1>1, <2>1, SubSeqProperties
  <1> QED  BY <1>2 DEF ChatHistory

-----------------------------------------------------------------------------
(* Types. *)

\* Sending to a channel keeps every queue a sequence of events.
LEMMA SendToType ==
    ASSUME TypeOK, NEW p \in Sessions, NEW e \in Event, SendTo(p, e)
    PROVE  queue' \in [Sessions -> Seq(Event)]
  <1>1. queue[p] \in Seq(Event)
    BY DEF TypeOK
  <1>2. Append(queue[p], e) \in Seq(Event)
    BY <1>1, AppendProperties
  <1> QED  BY <1>1, <1>2 DEF SendTo, TypeOK

\* A snapshot of the room is a roster.
LEMMA SnapshotType ==
    ASSUME TypeOK, NEW s \in Sessions
    PROVE  [p \in participants \ {s} |-> display_names[p]] \in Roster
  <1>1. participants \ {s} \in SUBSET Sessions
    BY DEF TypeOK
  <1>2. [p \in participants \ {s} |-> display_names[p]]
            \in [participants \ {s} -> Names \cup {None}]
    BY DEF TypeOK
  <1> QED  BY <1>1, <1>2 DEF Roster

\* The value of an idle event-stream call is well typed.
LEMMA IdleType ==
    SseIdle \in SseCall
  <1>1. Nobody \in [{} -> Names \cup {None}]
    BY DEF Nobody
  <1>2. Nobody \in Roster
    BY <1>1 DEF Roster
  <1>3. << >> \in Seq(Message)
    BY EmptySeq
  <1> QED  BY <1>2, <1>3 DEF SseIdle, SseCall

\* An event-stream call that moves on is still one.
LEMMA CallType ==
    ASSUME NEW c \in SseCall,
           NEW pc \in {"idle", "snapshot", "announce"}, NEW todo \in SUBSET Sessions
    PROVE  /\ [c EXCEPT !.pc = pc, !.todo = todo] \in SseCall
           /\ [c EXCEPT !.todo = todo] \in SseCall
  BY DEF SseCall

\* TypeOK holds initially ...
LEMMA TypeInit == Init => TypeOK
  <1> SUFFICES ASSUME Init PROVE TypeOK
    OBVIOUS
  <1>1. << >> \in Seq(Message) /\ << >> \in Seq(Event)
    BY EmptySeq
  <1> QED  BY <1>1, IdleType DEF Init, TypeOK

\* ... and every step keeps it.
LEMMA TypeStep == TypeOK /\ [Next]_vars => TypeOK'
  <1> SUFFICES ASSUME TypeOK, [Next]_vars PROVE TypeOK'
    OBVIOUS
  <1> USE ServerAssumption
  <1>1. ASSUME NEW s \in Sessions,
               NEW claim \in Passwords \cup {None},
               NEW supplied \in Passwords \cup {None},
               NEW name \in Names \cup {None},
               Join(s, claim, supplied, name)
        PROVE  TypeOK'
    BY <1>1 DEF Join, TypeOK, chatVars
  <1>2. ASSUME NEW s \in Sessions, SseSnapshot(s)
        PROVE  TypeOK'
    <2>1. ChatHistory(chat, ResyncLimit) \in Seq(Message)
      BY ChatHistoryType DEF TypeOK
    <2> QED  BY <1>2, <2>1, SnapshotType
             DEF SseSnapshot, TypeOK, SseCall, roomVars, chatVars, streamVars
  <1>3. ASSUME NEW s \in Sessions, SseSubscribe(s)
        PROVE  TypeOK'
    <2> DEFINE call == [sse[s] EXCEPT !.pc = "announce",
                                      !.todo = participants \ {s}]
    <2>1. call \in SseCall
      <3>1. sse[s] \in SseCall /\ participants \ {s} \in SUBSET Sessions
        BY DEF TypeOK
      <3> QED  BY <3>1, CallType
    <2>2. sse' = [sse EXCEPT ![s] = call]
      BY <1>3 DEF SseSubscribe, TypeOK
    <2>3. /\ live' = [live EXCEPT ![s] = "subscribed"]
          /\ UNCHANGED <<password, participants, display_names, entered_with,
                         chat, posted, post, resync, queue>>
      BY <1>3 DEF SseSubscribe, roomVars, chatVars
    <2> HIDE DEF call
    <2> QED  BY <2>1, <2>2, <2>3 DEF TypeOK
  <1>4. ASSUME NEW s \in Sessions, NEW p \in Sessions, SseAnnounce(s, p)
        PROVE  TypeOK'
    <2>1. PeerJoined(s) \in Event
      BY DEF PeerJoined, Event, TypeOK
    <2>2. queue' \in [Sessions -> Seq(Event)]
      BY <1>4, <2>1, SendToType DEF SseAnnounce
    <2> DEFINE call == [sse[s] EXCEPT !.todo = @ \ {p}]
    <2>3. call \in SseCall
      <3>1. sse[s] \in SseCall /\ sse[s].todo \ {p} \in SUBSET Sessions
        BY DEF TypeOK, SseCall
      <3> QED  BY <3>1, CallType
    <2>4. sse' = [sse EXCEPT ![s] = call]
      BY <1>4 DEF SseAnnounce, TypeOK
    <2> HIDE DEF call
    <2> QED  BY <1>4, <2>2, <2>3, <2>4
             DEF SseAnnounce, TypeOK, roomVars, chatVars
  <1>5. ASSUME NEW s \in Sessions, SseReturn(s)
        PROVE  TypeOK'
    <2>1. [peers |-> sse[s].peers, chat |-> sse[s].chat] \in Resync
      BY DEF TypeOK, Resync, SseCall
    <2> QED  BY <1>5, <2>1, IdleType DEF SseReturn, TypeOK, roomVars, chatVars
  <1>6. ASSUME NEW s \in Sessions, DeliverResync(s)
        PROVE  TypeOK'
    BY <1>6 DEF DeliverResync, TypeOK, roomVars, chatVars
  <1>7. ASSUME NEW s \in Sessions, DeliverEvent(s)
        PROVE  TypeOK'
    <2>1. Tail(queue[s]) \in Seq(Event)
      BY <1>7, HeadTailProperties DEF DeliverEvent, TypeOK
    <2> QED  BY <1>7, <2>1 DEF DeliverEvent, TypeOK, roomVars, chatVars
  <1>8. ASSUME NEW s \in Sessions, CloseStream(s)
        PROVE  TypeOK'
    <2>1. << >> \in Seq(Event)
      BY EmptySeq
    <2> QED  BY <1>8, <2>1 DEF CloseStream, TypeOK, roomVars, chatVars
  <1>9. ASSUME NEW s \in Sessions, NEW to \in Sessions, NEW kind \in SignalKinds,
               NEW body \in Bodies, Signal(s, to, kind, body)
        PROVE  TypeOK'
    <2>1. SignalEvent(s, to, kind, body) \in Event
      BY DEF SignalEvent, Event
    <2>2. queue' \in [Sessions -> Seq(Event)]
      BY <1>9, <2>1, SendToType DEF Signal, TypeOK
    <2> QED  BY <1>9, <2>2 DEF Signal, TypeOK, roomVars, chatVars
  <1>10. ASSUME NEW t \in Threads, NEW s \in Sessions, PostAppend(t, s)
         PROVE  TypeOK'
    <2> DEFINE msg == [id |-> posted + 1, from |-> s]
    <2>1. msg \in Message
      BY DEF Message, TypeOK
    <2>2. ChatAppend(chat, msg) \in Seq(Message)
      BY <2>1, ChatAppendType DEF TypeOK
    <2>3. [msg |-> msg, todo |-> participants]
             \in [msg : Message, todo : SUBSET Sessions]
      BY <2>1 DEF TypeOK
    <2>4. /\ chat' = ChatAppend(chat, msg)
          /\ post' = [post EXCEPT ![t] = [msg |-> msg, todo |-> participants]]
          /\ posted' = posted + 1
          /\ UNCHANGED <<password, participants, display_names, entered_with, sse,
                         live, resync, queue>>
      BY <1>10 DEF PostAppend, roomVars, streamVars
    <2> HIDE DEF msg
    <2> QED  BY <2>2, <2>3, <2>4 DEF TypeOK
  <1>11. ASSUME NEW t \in Threads, NEW p \in Sessions, PostSend(t, p)
         PROVE  TypeOK'
    <2>1. post[t] \in [msg : Message, todo : SUBSET Sessions]
      BY <1>11 DEF PostSend, TypeOK, PostIdle
    <2>2. ChatEvent(post[t].msg) \in Event
      BY <2>1 DEF ChatEvent, Event
    <2>3. queue' \in [Sessions -> Seq(Event)]
      BY <1>11, <2>2, SendToType DEF PostSend
    <2> DEFINE rest == post[t].todo \ {p}
               call == IF rest = {} THEN PostIdle
                       ELSE [msg |-> post[t].msg, todo |-> rest]
    <2>4. call \in [msg : Message, todo : SUBSET Sessions] \cup {PostIdle}
      BY <2>1
    <2>5. post' = [post EXCEPT ![t] = call]
      BY <1>11 DEF PostSend
    <2> HIDE DEF call
    <2> QED  BY <1>11, <2>3, <2>4, <2>5 DEF PostSend, TypeOK, roomVars
  <1>12. CASE UNCHANGED vars
    BY <1>12 DEF vars, TypeOK, roomVars, chatVars, streamVars
  <1> QED  BY <1>1, <1>2, <1>3, <1>4, <1>5, <1>6, <1>7, <1>8, <1>9, <1>10,
              <1>11, <1>12
           DEF Next, Handler, Stream, StreamLagged, StreamEnded, Disconnect

\* Every reachable state is well typed.
THEOREM TypeCorrect == Spec => []TypeOK
  BY TypeInit, TypeStep, PTL DEF Spec

-----------------------------------------------------------------------------
(* Seats. *)

\* The cap is inductive: a newcomer is let in only while a seat is free.
LEMMA CapacityStep ==
    TypeOK /\ RoomCapacity /\ [Next]_vars => RoomCapacity'
  <1> SUFFICES ASSUME TypeOK, RoomCapacity, [Next]_vars PROVE RoomCapacity'
    OBVIOUS
  <1> USE ServerAssumption
  <1>1. IsFiniteSet(participants)
    BY SessionsAssumption, FS_Subset DEF TypeOK
  <1>2. Cardinality(participants) \in Nat
    BY <1>1, FS_CardinalityType
  <1>3. ASSUME NEW s \in Sessions,
               NEW claim \in Passwords \cup {None},
               NEW supplied \in Passwords \cup {None},
               NEW name \in Names \cup {None},
               Join(s, claim, supplied, name)
        PROVE  RoomCapacity'
    <2>1. participants' = participants \cup {s}
      BY <1>3 DEF Join
    <2>2. CASE s \in participants
      BY <2>1, <2>2 DEF RoomCapacity
    <2>3. CASE s \notin participants
      <3>1. Cardinality(participants') = Cardinality(participants) + 1
        BY <1>1, <2>1, <2>3, FS_AddElement
      <3>2. Cardinality(participants) < MaxParticipants
        BY <1>3, <2>3 DEF Join, HasSeat
      <3> QED  BY <1>2, <3>1, <3>2 DEF RoomCapacity
    <2> QED  BY <2>2, <2>3
  <1>4. ASSUME UNCHANGED participants
        PROVE  RoomCapacity'
    BY <1>4 DEF RoomCapacity
  <1> QED
    BY <1>3, <1>4
    DEF Next, vars, roomVars, Handler, Stream, SseSnapshot, SseSubscribe,
        SseAnnounce, SseReturn, DeliverResync, DeliverEvent, StreamLagged,
        StreamEnded, Disconnect, CloseStream, Signal, PostAppend, PostSend

\* The room never holds more than max_participants sessions, however many
\* handlers run (handle_join, server/mod.rs:93-99).
THEOREM CapacityHolds == Spec => []RoomCapacity
  <1>1. Init => RoomCapacity
    BY ServerAssumption, FS_EmptySet DEF Init, RoomCapacity
  <1> QED  BY <1>1, CapacityStep, TypeCorrect, PTL DEF Spec

-----------------------------------------------------------------------------
(* Calls and streams belong to seated sessions. *)

\* A room that is not claimed is empty; whoever listens, or is about to, holds
\* a seat; an announcement is made by a session that is subscribed.
Seated ==
    /\ password = None => participants = {}
    /\ \A s \in Sessions :
         /\ sse[s].pc # "idle" \/ live[s] # "closed" => s \in participants
         /\ sse[s].pc = "announce" => live[s] = "subscribed"

LEMMA SeatedInit == Init => Seated
  BY DEF Init, Seated, SseIdle

LEMMA SeatedStep == TypeOK /\ Seated /\ [Next]_vars => Seated'
  <1> SUFFICES ASSUME TypeOK, Seated, [Next]_vars PROVE Seated'
    OBVIOUS
  <1> USE ServerAssumption DEF Seated
  <1>1. ASSUME NEW s \in Sessions,
               NEW claim \in Passwords \cup {None},
               NEW supplied \in Passwords \cup {None},
               NEW name \in Names \cup {None},
               Join(s, claim, supplied, name)
        PROVE  Seated'
    <2>1. password' # None
      BY <1>1 DEF Join, Granted
    <2>2. \A x \in Sessions : sse'[x].pc = "idle"
      BY <1>1 DEF Join, Exclusive, SseIdle
    <2>3. \A x \in Sessions : live'[x] # "closed" => live[x] # "closed"
      BY <1>1 DEF Join, TypeOK
    <2> QED  BY <1>1, <2>1, <2>2, <2>3 DEF Join
  <1>2. ASSUME NEW s \in Sessions, SseSnapshot(s)
        PROVE  Seated'
    BY <1>2 DEF SseSnapshot, TypeOK, roomVars, streamVars
  <1>3. ASSUME NEW s \in Sessions, SseSubscribe(s)
        PROVE  Seated'
    <2>1. s \in participants
      BY <1>3 DEF SseSubscribe
    <2>2. \A x \in Sessions \ {s} : sse'[x] = sse[x] /\ live'[x] = live[x]
      BY <1>3 DEF SseSubscribe, TypeOK
    <2>3. live'[s] = "subscribed" /\ UNCHANGED roomVars
      BY <1>3 DEF SseSubscribe, TypeOK
    <2> QED  BY <2>1, <2>2, <2>3 DEF roomVars
  <1>4. ASSUME NEW s \in Sessions, NEW p \in Sessions, SseAnnounce(s, p)
        PROVE  Seated'
    <2>1. \A x \in Sessions : sse'[x].pc = sse[x].pc
      BY <1>4 DEF SseAnnounce, TypeOK, SseCall
    <2> QED  BY <1>4, <2>1 DEF SseAnnounce, roomVars
  <1>5. ASSUME NEW s \in Sessions, SseReturn(s)
        PROVE  Seated'
    BY <1>5 DEF SseReturn, TypeOK, roomVars, SseIdle
  <1>6. ASSUME NEW s \in Sessions, Streaming(s), CloseStream(s)
        PROVE  Seated'
    BY <1>6 DEF Streaming, CloseStream, TypeOK, roomVars, SseIdle
  <1>7. ASSUME UNCHANGED <<password, participants, sse, live>>
        PROVE  Seated'
    BY <1>7
  <1> QED
    BY <1>1, <1>2, <1>3, <1>4, <1>5, <1>6, <1>7
    DEF Next, vars, roomVars, chatVars, streamVars, Handler, Stream,
        DeliverResync, DeliverEvent, StreamLagged, StreamEnded, Disconnect,
        Signal, PostAppend, PostSend

LEMMA SeatedHolds == Spec => [](TypeOK /\ Seated)
  BY TypeInit, TypeStep, SeatedInit, SeatedStep, PTL DEF Spec

-----------------------------------------------------------------------------
(* The contract of the room. *)

\* Every step of the handlers is a step of the contract or changes nothing in
\* it.
LEMMA ContractStep ==
    TypeOK /\ Seated /\ [Next]_vars => [Contract!Next]_(Contract!vars)
  <1> SUFFICES ASSUME TypeOK, Seated, [Next]_vars
               PROVE  [Contract!Next]_(Contract!vars)
    OBVIOUS
  <1> USE ServerAssumption
  <1> DEFINE listening == {x \in Sessions : live[x] # "closed"}
  <1>1. ASSUME NEW s \in Sessions,
               NEW claim \in Passwords \cup {None},
               NEW supplied \in Passwords \cup {None},
               NEW name \in Names \cup {None},
               Join(s, claim, supplied, name)
        PROVE  Contract!Next
    <2>1. listening' = listening
      BY <1>1 DEF Join, TypeOK
    <2>2. CASE password = None
      <3>1. claim \in Passwords /\ password' = claim /\ participants' = {s}
        BY <1>1, <2>2 DEF Join, Granted, Seated
      <3>2. Contract!Claim(s, claim)
        BY <1>1, <2>1, <2>2, <3>1 DEF Join, Contract!Claim
      <3> QED  BY <3>1, <3>2 DEF Contract!Next
    <2>3. CASE password # None
      <3>1. supplied \in Passwords /\ supplied = password
        BY <1>1, <2>3 DEF Join, Granted
      <3>2. Contract!Admit(s, supplied)
        <4>1. Contract!Cardinality(participants) = Cardinality(participants)
          BY DEF Contract!Cardinality, Cardinality, Contract!IsFiniteSet, IsFiniteSet
        <4> QED  BY <1>1, <2>1, <2>3, <3>1, <4>1
                 DEF Join, HasSeat, Contract!Admit
      <3> QED  BY <3>1, <3>2 DEF Contract!Next
    <2> QED  BY <2>2, <2>3
  <1>2. ASSUME NEW s \in Sessions, SseSubscribe(s)
        PROVE  Contract!Next
    <2>1. s \in participants
      BY <1>2 DEF SseSubscribe, Seated
    <2>2. listening' = listening \cup {s}
      BY <1>2 DEF SseSubscribe, TypeOK
    <2>3. Contract!Listen(s)
      BY <1>2, <2>1, <2>2 DEF SseSubscribe, roomVars, Contract!Listen
    <2> QED  BY <2>3 DEF Contract!Next
  <1>3. ASSUME NEW s \in Sessions, CloseStream(s)
        PROVE  Contract!Next
    <2>1. listening' = listening \ {s}
      BY <1>3 DEF CloseStream, TypeOK
    <2>2. Contract!Leave(s)
      BY <1>3, <2>1 DEF CloseStream, roomVars, Contract!Leave
    <2> QED  BY <2>2 DEF Contract!Next
  <1>4. ASSUME UNCHANGED <<password, participants, entered_with, live>>
        PROVE  UNCHANGED Contract!vars
    BY <1>4 DEF Contract!vars
  <1> QED
    BY <1>1, <1>2, <1>3, <1>4
    DEF Next, vars, roomVars, chatVars, streamVars, Handler, Stream,
        SseSnapshot, SseAnnounce, SseReturn, DeliverResync, DeliverEvent,
        StreamLagged, StreamEnded, Disconnect, Signal, PostAppend, PostSend

\* The handlers, split at every access they interleave at, implement the
\* contract of RoomContract: claimed once, entered by password and seat.
THEOREM ServerImplementsContract == Spec => ImplementsContract
  <1>1. Init => Contract!Init
    BY DEF Init, Contract!Init
  <1> QED
    BY <1>1, SeatedHolds, ContractStep, PTL
    DEF Spec, ImplementsContract, Contract!Spec

-----------------------------------------------------------------------------
(* What reaches a stream. *)

\* A send adds its event to the end of one queue, or to none.
LEMMA SendToAppends ==
    ASSUME TypeOK, NEW p \in Sessions, NEW e \in Event, SendTo(p, e),
           NEW s \in Sessions
    PROVE  \/ queue'[s] = queue[s]
           \/ /\ s = p
              /\ queue'[s] = Append(queue[s], e)
              /\ Len(queue'[s]) = Len(queue[s]) + 1
              /\ queue'[s][Len(queue'[s])] = e
              /\ \A i \in 1 .. Len(queue[s]) : queue'[s][i] = queue[s][i]
  <1>1. \/ queue'[s] = queue[s]
        \/ s = p /\ queue'[s] = Append(queue[s], e)
    BY DEF SendTo, TypeOK
  <1>2. queue[s] \in Seq(Event)
    BY DEF TypeOK
  <1> QED  BY <1>1, <1>2, AppendProperties

\* What a queue holds stays addressed when an addressed event is added to it.
LEMMA SendAddressed ==
    ASSUME TypeOK, AddressedSignals, NEW p \in Sessions, NEW e \in Event,
           SendTo(p, e), e.type \in SignalKinds => e.made_for = p
    PROVE  AddressedSignals'
  <1> SUFFICES ASSUME NEW s \in Sessions, NEW i \in 1 .. Len(queue'[s]),
                      queue'[s][i].type \in SignalKinds
               PROVE  queue'[s][i].made_for = s
    BY DEF AddressedSignals
  <1>1. CASE queue'[s] = queue[s]
    BY <1>1 DEF AddressedSignals
  <1>2. CASE queue'[s] # queue[s]
    <2>1. /\ s = p
          /\ Len(queue'[s]) = Len(queue[s]) + 1
          /\ queue'[s][Len(queue'[s])] = e
          /\ \A j \in 1 .. Len(queue[s]) : queue'[s][j] = queue[s][j]
      BY <1>2, SendToAppends
    <2>2. Len(queue[s]) \in Nat
      BY LenProperties DEF TypeOK
    <2>3. CASE i = Len(queue[s]) + 1
      BY <2>1, <2>3
    <2>4. CASE i \in 1 .. Len(queue[s])
      BY <2>1, <2>4 DEF AddressedSignals
    <2> QED  BY <2>1, <2>2, <2>3, <2>4
  <1> QED  BY <1>1, <1>2

LEMMA AddressedStep ==
    TypeOK /\ AddressedSignals /\ [Next]_vars => AddressedSignals'
  <1> SUFFICES ASSUME TypeOK, AddressedSignals, [Next]_vars
               PROVE  AddressedSignals'
    OBVIOUS
  <1> USE ServerAssumption
  <1>1. ASSUME NEW s \in Sessions, NEW p \in Sessions, SseAnnounce(s, p)
        PROVE  AddressedSignals'
    <2>1. PeerJoined(s) \in Event /\ PeerJoined(s).type \notin SignalKinds
      BY DEF PeerJoined, Event, TypeOK
    <2>2. SendTo(p, PeerJoined(s))
      BY <1>1 DEF SseAnnounce
    <2> QED  BY <2>1, <2>2, SendAddressed
  <1>2. ASSUME NEW t \in Threads, NEW p \in Sessions, PostSend(t, p)
        PROVE  AddressedSignals'
    <2>1. post[t] \in [msg : Message, todo : SUBSET Sessions]
      BY <1>2 DEF PostSend, TypeOK, PostIdle
    <2>2. /\ ChatEvent(post[t].msg) \in Event
          /\ ChatEvent(post[t].msg).type \notin SignalKinds
      BY <2>1 DEF ChatEvent, Event
    <2>3. SendTo(p, ChatEvent(post[t].msg))
      BY <1>2 DEF PostSend
    <2> QED  BY <2>2, <2>3, SendAddressed
  <1>3. ASSUME NEW s \in Sessions, NEW to \in Sessions, NEW kind \in SignalKinds,
               NEW body \in Bodies, Signal(s, to, kind, body)
        PROVE  AddressedSignals'
    <2>1. SignalEvent(s, to, kind, body) \in Event /\ SignalEvent(s, to, kind, body).made_for = to
      BY DEF SignalEvent, Event
    <2>2. SendTo(to, SignalEvent(s, to, kind, body)) \/ UNCHANGED queue
      BY <1>3 DEF Signal
    <2> QED  BY <2>1, <2>2, SendAddressed DEF AddressedSignals
  <1>4. ASSUME NEW s \in Sessions, DeliverEvent(s)
        PROVE  AddressedSignals'
    <2> SUFFICES ASSUME NEW x \in Sessions, NEW i \in 1 .. Len(queue'[x]),
                        queue'[x][i].type \in SignalKinds
                 PROVE  queue'[x][i].made_for = x
      BY DEF AddressedSignals
    <2>1. \/ queue'[x] = queue[x]
          \/ queue'[x] = Tail(queue[x]) /\ queue[x] # << >>
      BY <1>4 DEF DeliverEvent, TypeOK
    <2>2. CASE queue'[x] = queue[x]
      BY <2>2 DEF AddressedSignals
    <2>3. CASE queue'[x] = Tail(queue[x]) /\ queue[x] # << >>
      <3> DEFINE tail == Tail(queue[x])
      <3>1. /\ Len(tail) = Len(queue[x]) - 1
            /\ Len(queue[x]) \in Nat
            /\ \A j \in 1 .. Len(tail) : tail[j] = queue[x][j + 1]
        BY <2>3, HeadTailProperties, LenProperties DEF TypeOK
      <3>2. i \in 1 .. Len(tail) /\ queue'[x][i] = tail[i]
        BY <2>3
      <3> HIDE DEF tail
      <3>3. i + 1 \in 1 .. Len(queue[x]) /\ queue'[x][i] = queue[x][i + 1]
        BY <3>1, <3>2
      <3> QED  BY <3>3 DEF AddressedSignals
    <2> QED  BY <2>1, <2>2, <2>3
  <1>5. ASSUME NEW s \in Sessions, CloseStream(s)
        PROVE  AddressedSignals'
    <2>1. \A x \in Sessions : queue'[x] = queue[x] \/ queue'[x] = << >>
      BY <1>5 DEF CloseStream, TypeOK
    <2>2. Len(<< >>) = 0
      BY EmptySeq
    <2> QED  BY <2>1, <2>2 DEF AddressedSignals
  <1>6. ASSUME UNCHANGED queue
        PROVE  AddressedSignals'
    BY <1>6 DEF AddressedSignals
  <1>7. ASSUME NEW s \in Sessions,
               SseSnapshot(s) \/ SseSubscribe(s) \/ SseReturn(s) \/ DeliverResync(s)
        PROVE  AddressedSignals'
    BY <1>6, <1>7 DEF SseSnapshot, SseSubscribe, SseReturn, DeliverResync, streamVars
  <1> QED
    BY <1>1, <1>2, <1>3, <1>4, <1>5, <1>6, <1>7
    DEF Next, vars, roomVars, chatVars, streamVars, Handler, Stream, Join,
        StreamLagged, StreamEnded, Disconnect, PostAppend

\* Every signal waiting in a stream was made for the peer that reads it
\* (handle_signal, server/mod.rs:186-191).
THEOREM SignalsAddressed == Spec => []AddressedSignals
  <1>1. Init => AddressedSignals
    <2>1. Len(<< >>) = 0
      BY EmptySeq
    <2> QED  BY <2>1 DEF Init, AddressedSignals
  <1> QED  BY <1>1, AddressedStep, TypeCorrect, PTL DEF Spec

\* A step that adds an announcement to a stream is the announcement of a
\* session that listens.
LEMMA AnnounceStep ==
    ASSUME TypeOK, Seated, [Next]_vars, NEW x \in Sessions,
           Len(queue'[x]) > Len(queue[x]),
           queue'[x][Len(queue'[x])].type = "peer_joined"
    PROVE  live[queue'[x][Len(queue'[x])].peer] = "subscribed"
  <1> USE ServerAssumption
  <1> DEFINE last == queue'[x][Len(queue'[x])]
             Goal == live[last.peer] = "subscribed"
  <1>0. Len(queue[x]) \in Nat
    BY LenProperties DEF TypeOK
  <1>1. ASSUME NEW s \in Sessions, NEW p \in Sessions, SseAnnounce(s, p)
        PROVE  Goal
    <2>1. PeerJoined(s) \in Event /\ PeerJoined(s).peer = s
      BY DEF PeerJoined, Event, TypeOK
    <2>2. SendTo(p, PeerJoined(s))
      BY <1>1 DEF SseAnnounce
    <2>3. last = PeerJoined(s)
      BY <1>0, <2>1, <2>2, SendToAppends
    <2>4. live[s] = "subscribed"
      BY <1>1 DEF SseAnnounce, Seated
    <2> QED  BY <2>1, <2>3, <2>4
  <1>2. ASSUME NEW t \in Threads, NEW p \in Sessions, PostSend(t, p)
        PROVE  Goal
    <2>1. post[t] \in [msg : Message, todo : SUBSET Sessions]
      BY <1>2 DEF PostSend, TypeOK, PostIdle
    <2>2. ChatEvent(post[t].msg) \in Event /\ ChatEvent(post[t].msg).type # "peer_joined"
      BY <2>1 DEF ChatEvent, Event
    <2>3. SendTo(p, ChatEvent(post[t].msg))
      BY <1>2 DEF PostSend
    <2> QED  BY <1>0, <2>2, <2>3, SendToAppends
  <1>3. ASSUME NEW s \in Sessions, NEW to \in Sessions, NEW kind \in SignalKinds,
               NEW body \in Bodies, Signal(s, to, kind, body)
        PROVE  Goal
    <2>1. /\ SignalEvent(s, to, kind, body) \in Event
          /\ SignalEvent(s, to, kind, body).type # "peer_joined"
      BY DEF SignalEvent, Event
    <2>2. SendTo(to, SignalEvent(s, to, kind, body)) \/ UNCHANGED queue
      BY <1>3 DEF Signal
    <2> QED  BY <1>0, <2>1, <2>2, SendToAppends
  <1>4. ASSUME NEW s \in Sessions, DeliverEvent(s)
        PROVE  Goal
    <2> DEFINE tail == Tail(queue[x])
    <2>1. \/ queue'[x] = queue[x]
          \/ queue'[x] = tail /\ queue[x] # << >>
      BY <1>4 DEF DeliverEvent, TypeOK
    <2>2. queue[x] # << >> => Len(tail) = Len(queue[x]) - 1
      BY HeadTailProperties DEF TypeOK
    <2> HIDE DEF tail
    <2>3. Len(queue'[x]) <= Len(queue[x])
      BY <1>0, <2>1, <2>2
    <2> QED  BY <1>0, <2>3
  <1>5. ASSUME NEW s \in Sessions, CloseStream(s)
        PROVE  Goal
    <2>1. queue'[x] = queue[x] \/ queue'[x] = << >>
      BY <1>5 DEF CloseStream, TypeOK
    <2>2. Len(<< >>) = 0
      BY EmptySeq
    <2> QED  BY <1>0, <2>1, <2>2
  <1>6. ASSUME UNCHANGED queue
        PROVE  Goal
    BY <1>0, <1>6
  <1>7. ASSUME NEW s \in Sessions,
               SseSnapshot(s) \/ SseSubscribe(s) \/ SseReturn(s) \/ DeliverResync(s)
        PROVE  Goal
    BY <1>6, <1>7 DEF SseSnapshot, SseSubscribe, SseReturn, DeliverResync, streamVars
  <1> QED
    BY <1>1, <1>2, <1>3, <1>4, <1>5, <1>6, <1>7
    DEF Next, vars, roomVars, chatVars, streamVars, Handler, Stream, Join,
        StreamLagged, StreamEnded, Disconnect, PostAppend

\* Whoever is announced listens already (handle_sse, server/mod.rs:153-168).
THEOREM AnnouncedAreListening == Spec => AnnouncedListening
  <1>1. TypeOK /\ Seated /\ [Next]_vars =>
          [\A s \in Sessions :
             Len(queue'[s]) > Len(queue[s]) =>
                LET e == queue'[s][Len(queue'[s])]
                IN  e.type = "peer_joined" => live[e.peer] = "subscribed"]_vars
    BY AnnounceStep
  <1> QED  BY <1>1, SeatedHolds, PTL DEF Spec, AnnouncedListening

-----------------------------------------------------------------------------
(* The chat store. *)

\* What an append leaves: the buffer, without its oldest message when it was
\* full, and the new one behind it.
LEMMA ChatAppendShifts ==
    ASSUME NEW S, NEW buf \in Seq(S), NEW msg \in S
    PROVE  LET drop == IF Len(buf) >= MaxMessages THEN 1 ELSE 0
               new  == ChatAppend(buf, msg)
           IN  /\ Len(new) = Len(buf) - drop + 1
               /\ new[Len(new)] = msg
               /\ \A i \in 1 .. Len(buf) - drop : new[i] = buf[i + drop]
  <1>1. Len(buf) \in Nat
    BY LenProperties
  <1>2. CASE Len(buf) >= MaxMessages
    <2> DEFINE rest == Tail(buf)
    <2>1. buf # << >>
      BY <1>1, <1>2, MaxMessagesAssumption
    <2>2. /\ rest \in Seq(S) /\ Len(rest) = Len(buf) - 1
          /\ \A i \in 1 .. Len(rest) : rest[i] = buf[i + 1]
      BY <2>1, HeadTailProperties
    <2>3. ChatAppend(buf, msg) = Append(rest, msg)
      BY <1>2 DEF ChatAppend
    <2> HIDE DEF rest
    <2>4. /\ Len(Append(rest, msg)) = Len(rest) + 1
          /\ Append(rest, msg)[Len(rest) + 1] = msg
          /\ \A i \in 1 .. Len(rest) : Append(rest, msg)[i] = rest[i]
      BY <2>2, AppendProperties
    <2> QED  BY <1>1, <1>2, <2>2, <2>3, <2>4
  <1>3. CASE ~(Len(buf) >= MaxMessages)
    <2>1. ChatAppend(buf, msg) = Append(buf, msg)
      BY <1>3 DEF ChatAppend
    <2>2. /\ Len(Append(buf, msg)) = Len(buf) + 1
          /\ Append(buf, msg)[Len(buf) + 1] = msg
          /\ \A i \in 1 .. Len(buf) : Append(buf, msg)[i] = buf[i]
      BY AppendProperties
    <2> QED  BY <1>1, <1>3, <2>1, <2>2
  <1> QED  BY <1>2, <1>3

LEMMA ChatLatestStep ==
    TypeOK /\ ChatIsLatest /\ [Next]_vars => ChatIsLatest'
  <1> SUFFICES ASSUME TypeOK, ChatIsLatest, [Next]_vars PROVE ChatIsLatest'
    OBVIOUS
  <1>1. ASSUME NEW t \in Threads, NEW s \in Sessions, PostAppend(t, s)
        PROVE  ChatIsLatest'
    <2> DEFINE msg  == [id |-> posted + 1, from |-> s]
               new  == ChatAppend(chat, msg)
               drop == IF Len(chat) >= MaxMessages THEN 1 ELSE 0
    <2>1. /\ chat' = new /\ posted' = posted + 1 /\ posted \in Nat
          /\ chat \in Seq(Message) /\ Len(chat) \in Nat
      BY <1>1, LenProperties DEF PostAppend, TypeOK
    <2>2. msg \in Message /\ msg.id = posted + 1
      BY <2>1 DEF Message
    <2>3. /\ Len(new) = Len(chat) - drop + 1
          /\ new[Len(new)] = msg
          /\ \A i \in 1 .. Len(chat) - drop : new[i] = chat[i + drop]
      BY <2>1, <2>2, ChatAppendShifts
    <2>4. /\ Len(chat) = IF posted < MaxMessages THEN posted ELSE MaxMessages
          /\ \A i \in 1 .. Len(chat) : chat[i].id = posted - Len(chat) + i
      BY DEF ChatIsLatest
    <2>5. /\ drop = IF posted < MaxMessages THEN 0 ELSE 1
          /\ drop \in {0, 1} /\ drop <= Len(chat)
      <3>1. /\ Len(chat) = IF posted < MaxMessages THEN posted ELSE MaxMessages
            /\ posted \in Nat
        BY <2>1, <2>4
      <3> HIDE DEF msg, new
      <3> QED  BY <3>1, MaxMessagesAssumption
    <2> HIDE DEF msg, new, drop
    <2>6. Len(new) = IF posted + 1 < MaxMessages THEN posted + 1 ELSE MaxMessages
      <3>1. /\ Len(new) = Len(chat) - drop + 1
            /\ Len(chat) = IF posted < MaxMessages THEN posted ELSE MaxMessages
            /\ posted \in Nat /\ Len(chat) \in Nat
        BY <2>1, <2>3, <2>4
      <3> QED  BY <2>5, <3>1, MaxMessagesAssumption
    <2>7. ASSUME NEW i \in 1 .. Len(new)
          PROVE  new[i].id = posted + 1 - Len(new) + i
      <3>1. CASE i = Len(new)
        BY <2>1, <2>2, <2>3, <3>1, SMTT(20)
      <3>2. CASE i # Len(new)
        <4>1. i \in 1 .. Len(chat) - drop /\ i + drop \in 1 .. Len(chat)
          BY <2>1, <2>3, <2>5, <3>2
        <4>2. new[i].id = posted - Len(chat) + (i + drop)
          BY <2>3, <2>4, <4>1
        <4> QED  BY <2>1, <2>3, <2>5, <4>1, <4>2, SMTT(20)
      <3> QED  BY <3>1, <3>2
    <2> QED  BY <2>1, <2>6, <2>7 DEF ChatIsLatest
  <1>2. ASSUME UNCHANGED <<chat, posted>>
        PROVE  ChatIsLatest'
    BY <1>2 DEF ChatIsLatest
  <1>3. ASSUME NEW s \in Sessions,
               SseSnapshot(s) \/ Handler(s) \/ Stream(s) \/ Disconnect(s)
        PROVE  UNCHANGED <<chat, posted>>
    BY <1>3 DEF roomVars, chatVars, Handler, Stream, SseSnapshot, SseSubscribe,
        SseAnnounce, SseReturn, DeliverResync, DeliverEvent, StreamLagged,
        StreamEnded, Disconnect, CloseStream
  <1> QED
    BY <1>1, <1>2, <1>3 DEF Next, vars, chatVars, Join, Signal, PostSend

\* For any number of threads, and whatever the limit of the store, what is
\* stored is the end of the conversation, in order (server/chat.rs:38-56).
THEOREM StoreIsLatest == Spec => []ChatIsLatest
  <1>1. Init => ChatIsLatest
    BY MaxMessagesAssumption DEF Init, ChatIsLatest
  <1> QED  BY <1>1, ChatLatestStep, TypeCorrect, PTL DEF Spec

=============================================================================
