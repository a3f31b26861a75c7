-------------------------- MODULE RoomView_proofs --------------------------
(***************************************************************************)
(* Proofs about RoomView: the room as its participants see it.             *)
(***************************************************************************)
EXTENDS RoomView, RoomServer_proofs

-----------------------------------------------------------------------------
(* RoomView refines RoomServer: its steps are the server's or stutter.     *)

\* The page adds no behaviour to the server.
LEMMA ViewStepIsServerStep == [ViewNext]_viewVars => [Next]_vars
  <1> SUFFICES ASSUME [ViewNext]_viewVars PROVE [Next]_vars
    OBVIOUS
  <1>1. ASSUME NEW s \in Sessions, ShowResync(s) \/ ShowEvent(s)
        PROVE  Next
    BY <1>1 DEF ShowResync, ShowEvent, Next, Stream
  <1>2. ASSUME NEW s \in Sessions, ToggleChat(s)
        PROVE  UNCHANGED vars
    BY <1>2 DEF ToggleChat
  <1>3. ASSUME NEW s \in Sessions, OpenStream(s)
        PROVE  Next
    BY <1>3 DEF OpenStream, Next
  <1>4. ASSUME NEW s \in Sessions, NEW t \in Threads, PostMessage(t, s)
        PROVE  Next
    BY <1>4 DEF PostMessage, Next
  <1>5. ASSUME SilentStep
        PROVE  Next
    BY <1>5 DEF SilentStep, Next, Stream
  <1>6. CASE UNCHANGED viewVars
    BY <1>6 DEF viewVars
  <1> QED  BY <1>1, <1>2, <1>3, <1>4, <1>5, <1>6 DEF ViewNext

\* Whatever RoomServer guarantees holds with the pages attached.
THEOREM ViewRefinesServer == ViewSpec => Spec
  BY ViewStepIsServerStep, PTL DEF ViewSpec, ViewInit, Spec

-----------------------------------------------------------------------------
(* Types. *)

\* What the handler of the page makes of an event is a view again.
LEMMA OnResyncType ==
    ASSUME NEW v \in View, NEW r \in Resync
    PROVE  OnResync(v, r) \in View
  BY DEF OnResync, View, Resync

LEMMA OnToggleType ==
    ASSUME NEW v \in View
    PROVE  OnToggle(v) \in View
  BY DEF OnToggle, View

LEMMA OnPeerJoinedType ==
    ASSUME NEW v \in View, NEW p \in Sessions, NEW name \in Names \cup {None}
    PROVE  /\ OnPeerJoined(v, p, name) \in View
           /\ DOMAIN OnPeerJoined(v, p, name).peers = DOMAIN v.peers \cup {p}
  <1>1. PICK P \in SUBSET Sessions : v.peers \in [P -> Names \cup {None}]
    BY DEF View, Roster
  <1> DEFINE more == [q \in DOMAIN v.peers \cup {p} |->
                        IF q = p THEN name ELSE v.peers[q]]
  <1>2. more \in [P \cup {p} -> Names \cup {None}]
    BY <1>1
  <1>3. P \cup {p} \in SUBSET Sessions
    OBVIOUS
  <1>4. more \in Roster /\ DOMAIN more = DOMAIN v.peers \cup {p}
    BY <1>2, <1>3 DEF Roster
  <1> HIDE DEF more
  <1>5. /\ [v EXCEPT !.peers = more] \in View
        /\ [v EXCEPT !.peers = more].peers = more
    BY <1>4 DEF View
  <1>6. CASE p \in DOMAIN v.peers
    BY <1>6 DEF OnPeerJoined
  <1>7. CASE p \notin DOMAIN v.peers
    <2>1. OnPeerJoined(v, p, name) = [v EXCEPT !.peers = more]
      BY <1>7 DEF OnPeerJoined, more
    <2> QED  BY <1>4, <1>5, <2>1
  <1> QED  BY <1>6, <1>7

LEMMA OnChatType ==
    ASSUME NEW s \in Sessions, NEW v \in View, NEW m \in Message
    PROVE  OnChat(s, v, m) \in View /\ OnChat(s, v, m).peers = v.peers
  <1> DEFINE c == Append(v.chat, m)
             n == IF m.from # s /\ ~v.open THEN v.unread + 1 ELSE v.unread
             w == [v EXCEPT !.chat = c, !.unread = n]
  <1>1. c \in Seq(Message)
    BY AppendProperties DEF View
  <1>2. n \in Nat
    BY DEF View
  <1>3. OnChat(s, v, m) = w
    BY DEF OnChat
  <1> HIDE DEF c, n
  <1>4. w \in View /\ w.peers = v.peers
    BY <1>1, <1>2 DEF View
  <1> QED  BY <1>3, <1>4

LEMMA OnEventType ==
    ASSUME NEW s \in Sessions, NEW v \in View, NEW e \in Event
    PROVE  /\ OnEvent(s, v, e) \in View
           /\ DOMAIN v.peers \subseteq DOMAIN OnEvent(s, v, e).peers
           /\ e.type = "peer_joined" => e.peer \in DOMAIN OnEvent(s, v, e).peers
  <1>1. CASE e.type = "peer_joined"
    <2>1. e.peer \in Sessions /\ e.name \in Names \cup {None}
      BY <1>1, ServerAssumption DEF Event
    <2>2. OnEvent(s, v, e) = OnPeerJoined(v, e.peer, e.name)
      BY <1>1 DEF OnEvent
    <2> QED  BY <2>1, <2>2, OnPeerJoinedType
  <1>2. CASE e.type = "chat_message"
    <2>1. e.msg \in Message
      BY <1>2, ServerAssumption DEF Event
    <2>2. OnEvent(s, v, e) = OnChat(s, v, e.msg)
      BY <1>2 DEF OnEvent
    <2> QED  BY <1>2, <2>1, <2>2, OnChatType
  <1>3. CASE e.type \notin {"peer_joined", "chat_message"}
    <2>1. OnEvent(s, v, e) = v
      BY <1>3 DEF OnEvent
    <2> QED  BY <1>3, <2>1
  <1> QED  BY <1>1, <1>2, <1>3

\* The views, apart from the history variables, are well typed.
ViewsOK == view \in [Sessions -> View]

LEMMA ViewsInit == ViewInit => ViewsOK
  <1>1. Nobody \in [{} -> Names \cup {None}]
    BY DEF Nobody
  <1>2. Nobody \in Roster
    BY <1>1 DEF Roster
  <1>3. << >> \in Seq(Message)
    BY EmptySeq
  <1> QED  BY <1>2, <1>3 DEF ViewInit, ViewsOK, View

LEMMA ViewsStep == TypeOK /\ ViewsOK /\ [ViewNext]_viewVars => ViewsOK'
  <1> SUFFICES ASSUME TypeOK, ViewsOK, [ViewNext]_viewVars PROVE ViewsOK'
    OBVIOUS
  <1>1. ASSUME NEW s \in Sessions, ShowResync(s)
        PROVE  ViewsOK'
    <2>1. resync[s] \in Resync
      BY <1>1 DEF ShowResync, DeliverResync, TypeOK
    <2>2. OnResync(view[s], resync[s]) \in View
      BY <2>1, OnResyncType DEF ViewsOK
    <2> QED  BY <1>1, <2>2 DEF ShowResync, ViewsOK
  <1>2. ASSUME NEW s \in Sessions, ShowEvent(s)
        PROVE  ViewsOK'
    <2>1. Head(queue[s]) \in Event
      BY <1>2, HeadTailProperties DEF ShowEvent, DeliverEvent, TypeOK
    <2>2. OnEvent(s, view[s], Head(queue[s])) \in View
      BY <2>1, OnEventType DEF ViewsOK
    <2> QED  BY <1>2, <2>2 DEF ShowEvent, ViewsOK
  <1>3. ASSUME NEW s \in Sessions, ToggleChat(s)
        PROVE  ViewsOK'
    <2>1. OnToggle(view[s]) \in View
      BY OnToggleType DEF ViewsOK
    <2> QED  BY <1>3, <2>1 DEF ToggleChat, ViewsOK
  <1>4. ASSUME UNCHANGED view
        PROVE  ViewsOK'
    BY <1>4 DEF ViewsOK
  <1> QED  BY <1>1, <1>2, <1>3, <1>4
           DEF ViewNext, OpenStream, PostMessage, SilentStep, viewVars

-----------------------------------------------------------------------------
(* Presence. *)

\* p has a seat but has not announced itself since it lost its stream, or has
\* never opened one.
Fresh(p) == live[p] = "closed" /\ sse[p].pc \in {"idle", "snapshot"}

\* The inductive invariant behind MutualPresence.  A call that holds a roster
\* holds the current one, since no join can happen before it returns ...
CurrentRosters ==
    \A s \in Sessions :
        sse[s].pc # "idle" => DOMAIN sse[s].peers = participants \ {s}

\* ... and a stream misses a participant only while that one has still to
\* announce itself to it.
Missing(s, p) ==
    \/ Fresh(p)
    \/ sse[p].pc = "announce" /\ s \in sse[p].todo

Presence ==
    \A s, p \in Sessions :
        s # p /\ p \in participants /\ Connected(s)
            => p \in Known(s) \/ Missing(s, p)

\* Rosters change with joins only, and a join finds no call.
LEMMA RostersStep ==
    TypeOK /\ CurrentRosters /\ [Next]_vars => CurrentRosters'
  <1> SUFFICES ASSUME TypeOK, CurrentRosters, [Next]_vars
               PROVE  CurrentRosters'
    OBVIOUS
  <1> USE DEF CurrentRosters
  <1>1. ASSUME NEW s \in Sessions,
               NEW claim \in Passwords \cup {None},
               NEW supplied \in Passwords \cup {None},
               NEW name \in Names \cup {None},
               Join(s, claim, supplied, name)
        PROVE  CurrentRosters'
    <2>1. \A x \in Sessions : sse'[x].pc = "idle"
      BY <1>1 DEF Join, Exclusive, SseIdle
    <2> QED  BY <2>1
  <1>2. ASSUME NEW s \in Sessions, SseSnapshot(s)
        PROVE  CurrentRosters'
    <2>1. DOMAIN sse'[s].peers = participants \ {s}
      BY <1>2 DEF SseSnapshot, TypeOK
    <2>2. \A x \in Sessions \ {s} : sse'[x] = sse[x]
      BY <1>2 DEF SseSnapshot, TypeOK
    <2> QED  BY <1>2, <2>1, <2>2 DEF SseSnapshot, roomVars
  <1>3. ASSUME NEW s \in Sessions,
               SseSubscribe(s) \/ \E p \in Sessions : SseAnnounce(s, p)
        PROVE  CurrentRosters'
    <2>1. sse'[s].peers = sse[s].peers /\ sse[s].pc # "idle"
      BY <1>3 DEF SseSubscribe, SseAnnounce, TypeOK, SseCall
    <2>2. \A x \in Sessions \ {s} : sse'[x] = sse[x]
      BY <1>3 DEF SseSubscribe, SseAnnounce, TypeOK
    <2>3. UNCHANGED participants
      BY <1>3 DEF SseSubscribe, SseAnnounce, roomVars
    <2> QED  BY <2>1, <2>2, <2>3
  <1>4. ASSUME NEW s \in Sessions, SseReturn(s)
        PROVE  CurrentRosters'
    <2>1. sse'[s].pc = "idle"
      BY <1>4 DEF SseReturn, TypeOK, SseIdle
    <2>2. \A x \in Sessions \ {s} : sse'[x] = sse[x]
      BY <1>4 DEF SseReturn, TypeOK
    <2> QED  BY <1>4, <2>1, <2>2 DEF SseReturn, roomVars
  <1>5. ASSUME UNCHANGED <<participants, sse>>
        PROVE  CurrentRosters'
    BY <1>5
  <1> QED
    BY <1>1, <1>2, <1>3, <1>4, <1>5
    DEF Next, vars, roomVars, chatVars, streamVars, Handler, Stream,
        DeliverResync, DeliverEvent, StreamLagged, StreamEnded, Disconnect,
        CloseStream, Signal, PostAppend, PostSend

\* A page forgets nobody while its stream only gains an event.
LEMMA KnownGrows ==
    ASSUME TypeOK, NEW s \in Sessions,
           view'[s] = view[s], resync'[s] = resync[s],
           \/ queue'[s] = queue[s]
           \/ \E e \in Event : queue'[s] = Append(queue[s], e)
    PROVE  /\ Known(s) \subseteq Known(s)'
           /\ Len(queue[s]) <= Len(queue'[s])
           /\ Overrun(s) => Overrun(s)'
  <1>1. /\ Len(queue[s]) \in Nat
        /\ Len(queue[s]) <= Len(queue'[s])
        /\ Len(queue'[s]) \in Nat
        /\ \A i \in 1 .. Len(queue[s]) : queue'[s][i] = queue[s][i]
    <2>1. queue[s] \in Seq(Event)
      BY DEF TypeOK
    <2> QED  BY <2>1, LenProperties, AppendProperties
  <1>2. Base(s)' = Base(s)
    BY DEF Base, OnResync
  <1>3. Known(s) \subseteq Known(s)'
    <2> SUFFICES ASSUME NEW p \in Known(s) PROVE p \in Known(s)'
      OBVIOUS
    <2>1. CASE p \in DOMAIN Base(s).peers
      BY <1>2, <2>1 DEF Known
    <2>2. CASE p \notin DOMAIN Base(s).peers
      <3>1. PICK i \in 1 .. Len(queue[s]) :
                queue[s][i].type = "peer_joined" /\ queue[s][i].peer = p
        BY <2>2 DEF Known
      <3>2. i \in 1 .. Len(queue'[s]) /\ queue'[s][i] = queue[s][i]
        BY <1>1, <3>1
      <3> QED  BY <3>1, <3>2 DEF Known
    <2> QED  BY <2>1, <2>2
  <1> QED  BY <1>1, <1>3, ServerAssumption DEF Overrun


\* A step that sends at most one event keeps Presence, if it keeps or pays what
\* is missing.
LEMMA PresenceSend ==
    ASSUME TypeOK, Presence,
           NEW s \in Sessions, NEW p \in Sessions, s # p,
           p \in participants, Connected(s)',
           sse'[s] = sse[s], live'[s] = live[s],
           view'[s] = view[s], resync'[s] = resync[s],
           \/ queue'[s] = queue[s]
           \/ \E e \in Event : queue'[s] = Append(queue[s], e),
           Missing(s, p) => Missing(s, p)' \/ p \in Known(s)'
    PROVE  p \in Known(s)' \/ Missing(s, p)'
  <1>1. Known(s) \subseteq Known(s)' /\ (Overrun(s) => Overrun(s)')
    BY KnownGrows
  <1>2. Connected(s)
    BY <1>1 DEF Connected, Streaming
  <1> QED  BY <1>1, <1>2 DEF Presence

LEMMA PresenceStep ==
    TypeOK /\ ViewsOK /\ Seated /\ CurrentRosters /\ Presence
        /\ [ViewNext]_viewVars => Presence'
  <1> SUFFICES ASSUME TypeOK, ViewsOK, Seated, CurrentRosters, Presence,
                      [ViewNext]_viewVars,
                      NEW s \in Sessions, NEW p \in Sessions, s # p,
                      p \in participants', Connected(s)'
               PROVE  p \in Known(s)' \/ Missing(s, p)'
    BY DEF Presence
  <1> USE ServerAssumption
  <1> DEFINE Goal == p \in Known(s)' \/ Missing(s, p)'
  <1>1. ASSUME NEW x \in Sessions,
               NEW claim \in Passwords \cup {None},
               NEW supplied \in Passwords \cup {None},
               NEW name \in Names \cup {None},
               Join(x, claim, supplied, name), UNCHANGED view
        PROVE  Goal
    <2>1. /\ sse[p].pc = "idle" /\ sse'[p].pc = "idle"
          /\ sse'[s] = sse[s] /\ sse[s] = SseIdle
      <3>1. sse' = sse /\ sse[p] = SseIdle /\ sse[s] = SseIdle
        BY <1>1 DEF Join, Exclusive
      <3>2. SseIdle.pc = "idle"
        BY DEF SseIdle
      <3> QED  BY <3>1, <3>2
    <2>2. live[s] = "subscribed" /\ x # s
      <3>1. live'[s] = "subscribed"
        BY DEF Connected
      <3>2. live' = [live EXCEPT ![x] = IF @ = "subscribed" THEN "severed" ELSE @]
        BY <1>1 DEF Join
      <3>3. live \in [Sessions -> {"closed", "subscribed", "severed"}]
        BY DEF TypeOK
      <3>4. CASE x = s
        BY <3>1, <3>2, <3>3, <3>4
      <3>5. CASE x # s
        BY <3>1, <3>2, <3>3, <3>5
      <3> QED  BY <3>4, <3>5
    <2>3. Connected(s)
      BY <1>1, <2>1, <2>2 DEF Join, Connected, Streaming, Overrun
    <2>4. CASE p \notin participants
      <3>1. live[p] = "closed"
        BY <2>4 DEF Seated
      <3>2. live'[p] = "closed"
        BY <1>1, <3>1 DEF Join, TypeOK
      <3> QED  BY <2>1, <3>2 DEF Missing, Fresh
    <2>5. CASE p \in participants
      <3>1. p \in Known(s) \/ live[p] = "closed"
        BY <2>1, <2>3, <2>5 DEF Presence, Missing, Fresh
      <3>2. CASE p \in Known(s)
        BY <1>1, <3>2 DEF Join, Known, Base, OnResync
      <3>3. CASE live[p] = "closed"
        <4>1. live'[p] = "closed"
          BY <1>1, <3>3 DEF Join, TypeOK
        <4> QED  BY <2>1, <4>1 DEF Missing, Fresh
      <3> QED  BY <3>1, <3>2, <3>3
    <2> QED  BY <2>4, <2>5
  <1>2. ASSUME NEW x \in Sessions, SseSnapshot(x), UNCHANGED view
        PROVE  Goal
    <2>1. x # s
      BY <1>2 DEF SseSnapshot, Connected, streamVars
    <2>2. Missing(s, p) => Missing(s, p)'
      BY <1>2, <2>1 DEF SseSnapshot, TypeOK, Missing, Fresh, SseIdle, streamVars
    <2>3. sse'[s] = sse[s]
      BY <1>2, <2>1 DEF SseSnapshot, TypeOK
    <2> QED  BY <1>2, <2>2, <2>3, PresenceSend
             DEF SseSnapshot, roomVars, streamVars
  <1>3. ASSUME NEW x \in Sessions, SseSubscribe(x), UNCHANGED view
        PROVE  Goal
    <2>1. x # s
      BY <1>3 DEF SseSubscribe, TypeOK, SseCall, SseIdle, Connected, Streaming
    <2>2. sse'[s] = sse[s] /\ live'[s] = live[s]
      BY <1>3, <2>1 DEF SseSubscribe, TypeOK
    <2>3. s \in participants
      BY <2>2 DEF Connected, Streaming, Seated
    <2>4. CASE x = p
      <3>1. sse'[p].pc = "announce" /\ s \in sse'[p].todo
        BY <1>3, <2>3, <2>4 DEF SseSubscribe, TypeOK, SseCall
      <3> QED  BY <3>1 DEF Missing
    <2>5. CASE x # p
      <3>1. sse'[p] = sse[p] /\ live'[p] = live[p]
        BY <1>3, <2>5 DEF SseSubscribe, TypeOK
      <3>2. Missing(s, p) => Missing(s, p)'
        BY <3>1 DEF Missing, Fresh
      <3> QED  BY <1>3, <2>2, <3>2, PresenceSend DEF SseSubscribe, roomVars
    <2> QED  BY <2>4, <2>5
  <1>4. ASSUME NEW x \in Sessions, NEW q \in Sessions, SseAnnounce(x, q),
               UNCHANGED view
        PROVE  Goal
    <2>1. x # s
      BY <1>4 DEF SseAnnounce, TypeOK, SseCall, SseIdle, Connected, Streaming
    <2>2. sse'[s] = sse[s] /\ live'[s] = live[s]
      BY <1>4, <2>1 DEF SseAnnounce, TypeOK
    <2>3. PeerJoined(x) \in Event /\ PeerJoined(x).type = "peer_joined"
            /\ PeerJoined(x).peer = x
      BY DEF PeerJoined, Event, TypeOK
    <2>4. SendTo(q, PeerJoined(x))
      BY <1>4 DEF SseAnnounce
    <2>5. \/ queue'[s] = queue[s]
          \/ s = q /\ queue'[s] = Append(queue[s], PeerJoined(x))
      BY <2>3, <2>4, SendToAppends
    <2>6. Missing(s, p) => Missing(s, p)' \/ p \in Known(s)'
      <3>1. CASE x = p /\ q = s
        <4>1. live[s] = "subscribed" /\ ~Overrun(s)
          <5>1. queue[s] \in Seq(Event)
            BY DEF TypeOK
          <5>2. ~Overrun(s)'
            BY DEF Connected
          <5> QED  BY <2>2, <2>5, <5>1, <5>2, LenProperties, AppendProperties, <2>3
                   DEF Connected, Overrun
        <4>2. queue'[s] = Append(queue[s], PeerJoined(x))
          BY <2>4, <3>1, <4>1 DEF SendTo, TypeOK
        <4>3. /\ Len(queue'[s]) \in 1 .. Len(queue'[s])
              /\ queue'[s][Len(queue'[s])] = PeerJoined(x)
          <5>1. queue[s] \in Seq(Event)
            BY DEF TypeOK
          <5> QED  BY <2>3, <4>2, <5>1, LenProperties, AppendProperties
        <4>4. p \in Known(s)'
          BY <2>3, <3>1, <4>3 DEF Known
        <4> QED  BY <4>4
      <3>2. CASE x = p /\ q # s
        BY <1>4, <3>2 DEF SseAnnounce, Missing, Fresh, TypeOK, SseCall
      <3>3. CASE x # p
        <4>1. sse'[p] = sse[p] /\ live'[p] = live[p]
          BY <1>4, <3>3 DEF SseAnnounce, TypeOK
        <4> QED  BY <4>1 DEF Missing, Fresh
      <3> QED  BY <3>1, <3>2, <3>3
    <2> QED  BY <1>4, <2>2, <2>3, <2>5, <2>6, PresenceSend
             DEF SseAnnounce, roomVars
  <1>5. ASSUME NEW x \in Sessions, SseReturn(x), UNCHANGED view
        PROVE  Goal
    <2>1. CASE x = s
      <3>1. p \in DOMAIN sse[s].peers
        BY <1>5, <2>1 DEF SseReturn, CurrentRosters, roomVars
      <3>2. resync'[s] = [peers |-> sse[s].peers, chat |-> sse[s].chat]
        BY <1>5, <2>1 DEF SseReturn, TypeOK
      <3>3. resync'[s] \in Resync
        BY <3>2 DEF TypeOK, SseCall, Resync
      <3>4. resync'[s] # None
        BY <3>3, NoneAssumption
      <3>5. Base(s)'.peers = sse[s].peers
        BY <3>2, <3>4, <1>5 DEF Base, OnResync, ViewsOK, View
      <3> QED  BY <3>1, <3>5 DEF Known
    <2>2. CASE x # s
      <3>1. sse'[s] = sse[s] /\ resync'[s] = resync[s]
        BY <1>5, <2>2 DEF SseReturn, TypeOK
      <3>2. Missing(s, p) => Missing(s, p)'
        BY <1>5 DEF SseReturn, Missing, Fresh, TypeOK, SseIdle
      <3> QED  BY <1>5, <3>1, <3>2, PresenceSend DEF SseReturn, roomVars
    <2> QED  BY <2>1, <2>2
  <1>6. ASSUME NEW x \in Sessions, ShowResync(x)
        PROVE  Goal
    <2>1. UNCHANGED <<participants, sse, live, queue>>
      BY <1>6 DEF ShowResync, DeliverResync, roomVars
    <2>2. Missing(s, p) => Missing(s, p)'
      BY <2>1 DEF Missing, Fresh
    <2>3. CASE x = s
      <3>1. resync[s] \in Resync /\ resync[s] # None
        BY <1>6, <2>3 DEF ShowResync, DeliverResync, TypeOK
      <3>2. resync'[s] = None /\ view'[s] = OnResync(view[s], resync[s])
        BY <1>6, <2>3 DEF ShowResync, DeliverResync, TypeOK, ViewsOK
      <3>3. Base(s)' = Base(s)
        BY <3>1, <3>2 DEF Base
      <3>4. Known(s)' = Known(s)
        BY <2>1, <3>3 DEF Known
      <3>5. Connected(s)
        BY <2>1 DEF Connected, Streaming, Overrun
      <3> QED  BY <2>1, <2>2, <3>4, <3>5 DEF Presence
    <2>4. CASE x # s
      <3>1. view'[s] = view[s] /\ resync'[s] = resync[s]
        BY <1>6, <2>4 DEF ShowResync, DeliverResync, TypeOK, ViewsOK
      <3> QED  BY <2>1, <2>2, <3>1, PresenceSend
    <2> QED  BY <2>3, <2>4
  <1>7. ASSUME NEW x \in Sessions, ShowEvent(x)
        PROVE  Goal
    <2>1. UNCHANGED <<participants, sse, live, resync>>
      BY <1>7 DEF ShowEvent, DeliverEvent, roomVars
    <2>2. Missing(s, p) => Missing(s, p)'
      BY <2>1 DEF Missing, Fresh
    <2>3. CASE x = s
      <3> DEFINE q == queue[s]
                 tail == Tail(q)
      <3>1. /\ q \in Seq(Event) /\ q # << >> /\ resync[s] = None
            /\ queue'[s] = tail
            /\ view'[s] = OnEvent(s, view[s], Head(q))
            /\ ~Overrun(s)
        BY <1>7, <2>3 DEF ShowEvent, DeliverEvent, TypeOK, ViewsOK
      <3>2. /\ Head(q) \in Event
            /\ Head(q) = q[1]
            /\ Len(q) \in Nat
            /\ Len(tail) = Len(q) - 1
            /\ \A i \in 1 .. Len(tail) : tail[i] = q[i + 1]
        BY <3>1, HeadTailProperties, LenProperties
      <3>3. /\ DOMAIN view[s].peers \subseteq DOMAIN view'[s].peers
            /\ Head(q).type = "peer_joined" => Head(q).peer \in DOMAIN view'[s].peers
        <4> DEFINE e == Head(q)
                   w == OnEvent(s, view[s], e)
        <4>1. e \in Event /\ view[s] \in View
          BY <3>2 DEF ViewsOK
        <4>2. view'[s] = w
          BY <3>1
        <4> HIDE DEF e
        <4>3. /\ DOMAIN view[s].peers \subseteq DOMAIN w.peers
              /\ e.type = "peer_joined" => e.peer \in DOMAIN w.peers
          BY <4>1, OnEventType
        <4> HIDE DEF w
        <4> QED  BY <4>2, <4>3 DEF e
      <3>4. Base(s) = view[s] /\ Base(s)' = view'[s]
        BY <2>1, <3>1 DEF Base
      <3>5. Known(s) \subseteq Known(s)'
        <4> SUFFICES ASSUME NEW y \in Known(s) PROVE y \in Known(s)'
          OBVIOUS
        <4>1. CASE y \in DOMAIN view[s].peers
          BY <3>3, <3>4, <4>1 DEF Known
        <4>2. CASE y \notin DOMAIN view[s].peers
          <5>1. PICK i \in 1 .. Len(q) : q[i].type = "peer_joined" /\ q[i].peer = y
            BY <3>4, <4>2 DEF Known
          <5>2. CASE i = 1
            BY <3>2, <3>3, <3>4, <5>1, <5>2 DEF Known
          <5>3. CASE i # 1
            <6> HIDE DEF tail, q
            <6>1. i - 1 \in 1 .. Len(tail) /\ tail[i - 1] = q[i]
              BY <3>2, <5>1, <5>3
            <6> QED  BY <3>1, <5>1, <6>1 DEF Known
          <5> QED  BY <5>2, <5>3
        <4> QED  BY <4>1, <4>2
      <3>6. Connected(s)
        BY <2>1, <3>1 DEF Connected, Streaming
      <3> QED  BY <2>1, <2>2, <3>5, <3>6 DEF Presence
    <2>4. CASE x # s
      <3>1. view'[s] = view[s] /\ queue'[s] = queue[s]
        BY <1>7, <2>4 DEF ShowEvent, DeliverEvent, TypeOK, ViewsOK
      <3> QED  BY <2>1, <2>2, <3>1, PresenceSend
    <2> QED  BY <2>3, <2>4
  <1>8. ASSUME NEW x \in Sessions, Streaming(x), CloseStream(x), UNCHANGED view
        PROVE  Goal
    <2>1. UNCHANGED <<participants, sse>>
      BY <1>8 DEF CloseStream, roomVars
    <2>2. x # s
      BY <1>8 DEF CloseStream, TypeOK, Connected
    <2>3. /\ live'[s] = live[s] /\ resync'[s] = resync[s] /\ queue'[s] = queue[s]
          /\ live'[p] = live[p] \/ live'[p] = "closed"
      BY <1>8, <2>2 DEF CloseStream, TypeOK
    <2>4. Missing(s, p) => Missing(s, p)'
      BY <2>1, <2>3 DEF Missing, Fresh
    <2> QED  BY <1>8, <2>1, <2>3, <2>4, PresenceSend
  <1>9. ASSUME NEW e \in Event, NEW q \in Sessions,
               SendTo(q, e) \/ UNCHANGED queue,
               UNCHANGED <<participants, sse, live, resync, view>>
        PROVE  Goal
    <2>1. Missing(s, p) => Missing(s, p)'
      BY <1>9 DEF Missing, Fresh
    <2>2. queue'[s] = queue[s] \/ queue'[s] = Append(queue[s], e)
      BY <1>9, SendToAppends
    <2> QED  BY <1>9, <2>1, <2>2, PresenceSend
  <1>10. ASSUME NEW t \in Threads, NEW q \in Sessions, PostSend(t, q),
                UNCHANGED view
         PROVE  Goal
    <2>1. post[t] \in [msg : Message, todo : SUBSET Sessions]
      BY <1>10 DEF PostSend, TypeOK, PostIdle
    <2>2. ChatEvent(post[t].msg) \in Event
      BY <2>1 DEF ChatEvent, Event
    <2> QED  BY <1>9, <1>10, <2>2 DEF PostSend, roomVars
  <1>11. ASSUME NEW x \in Sessions, NEW to \in Sessions, NEW kind \in SignalKinds,
                NEW body \in Bodies, Signal(x, to, kind, body), UNCHANGED view
         PROVE  Goal
    <2>1. SignalEvent(x, to, kind, body) \in Event
      BY DEF SignalEvent, Event
    <2> QED  BY <1>9, <1>11, <2>1 DEF Signal, roomVars
  <1>12. ASSUME UNCHANGED <<participants, sse, live, resync, queue>>,
                NEW x \in Sessions, view' = [view EXCEPT ![x] = OnToggle(view[x])]
         PROVE  Goal
    <2>1. Base(s)'.peers = Base(s).peers
      BY <1>12 DEF Base, OnResync, OnToggle, ViewsOK, View
    <2>2. Known(s)' = Known(s)
      BY <1>12, <2>1 DEF Known
    <2>3. Connected(s)
      BY <1>12 DEF Connected, Streaming, Overrun
    <2>4. Missing(s, p) => Missing(s, p)'
      BY <1>12 DEF Missing, Fresh
    <2> QED  BY <1>12, <2>2, <2>3, <2>4 DEF Presence
  <1>13. ASSUME UNCHANGED <<participants, sse, live, resync, queue, view>>
         PROVE  Goal
    <2>1. Missing(s, p) => Missing(s, p)'
      BY <1>13 DEF Missing, Fresh
    <2> QED  BY <1>13, <2>1, PresenceSend
  <1>14. ASSUME NEW x \in Sessions, Handler(x), UNCHANGED view
         PROVE  Goal
    BY <1>3, <1>4, <1>5, <1>14 DEF Handler
  <1>15. ASSUME SilentStep
         PROVE  Goal
    BY <1>1, <1>8, <1>10, <1>11, <1>14, <1>15
    DEF SilentStep, StreamLagged, StreamEnded, Disconnect
  <1>16. ASSUME NEW x \in Sessions, OpenStream(x)
         PROVE  Goal
    BY <1>2, <1>16 DEF OpenStream
  <1>17. ASSUME NEW x \in Sessions, NEW t \in Threads, PostMessage(t, x)
         PROVE  Goal
    BY <1>13, <1>17 DEF PostMessage, PostAppend, roomVars, streamVars
  <1>18. ASSUME NEW x \in Sessions, ToggleChat(x)
         PROVE  Goal
    BY <1>12, <1>18 DEF ToggleChat, vars, roomVars, streamVars
  <1>19. CASE UNCHANGED viewVars
    BY <1>13, <1>19 DEF viewVars, vars, roomVars, streamVars
  <1> QED  BY <1>6, <1>7, <1>15, <1>16, <1>17, <1>18, <1>19 DEF ViewNext

\* Two participants whose streams are open list each other (handle_sse and
\* handle_join, server/mod.rs:75-168; sse_handler, pages/room.rs:588-614).
THEOREM PresenceIsMutual == ViewSpec => []MutualPresence
  <1>1. ViewInit => CurrentRosters /\ Presence
    BY DEF ViewInit, Init, CurrentRosters, Presence, Connected, Streaming, SseIdle
  <1>2. Seated /\ Presence => MutualPresence
    <2> SUFFICES ASSUME Seated, Presence,
                        NEW s \in Sessions, NEW p \in Sessions,
                        s # p, Connected(s), Connected(p)
                 PROVE  p \in Known(s)
      BY DEF MutualPresence
    <2>1. live[p] = "subscribed" /\ sse[p].pc = "idle"
      BY DEF Connected, Streaming, SseIdle
    <2>2. p \in participants
      BY <2>1 DEF Seated
    <2>3. ~Missing(s, p)
      BY <2>1 DEF Missing, Fresh
    <2> QED  BY <2>2, <2>3 DEF Presence
  <1>3. ViewSpec => [](TypeOK /\ Seated)
    BY ViewRefinesServer, SeatedHolds, PTL
  <1>4. ViewSpec => []ViewsOK
    BY <1>3, ViewsInit, ViewsStep, PTL DEF ViewSpec
  <1>5. ViewSpec => []CurrentRosters
    BY <1>1, <1>3, RostersStep, ViewStepIsServerStep, PTL DEF ViewSpec
  <1>6. ViewSpec => []Presence
    BY <1>1, <1>3, <1>4, <1>5, PresenceStep, PTL DEF ViewSpec
  <1> QED  BY <1>2, <1>3, <1>6, PTL

-----------------------------------------------------------------------------
(* Types of the whole. *)

\* The history variables are well typed.
AuditOK ==
    /\ quiet \in [Sessions -> BOOLEAN]
    /\ returned_before \in Seq(SUBSET Nat)
    /\ unseen \in [Sessions -> Int]

LEMMA AuditStep == TypeOK /\ ViewsOK /\ AuditOK /\ [ViewNext]_viewVars => AuditOK'
  <1> SUFFICES ASSUME TypeOK, ViewsOK, AuditOK, [ViewNext]_viewVars PROVE AuditOK'
    OBVIOUS
  <1>1. ASSUME NEW s \in Sessions, OpenStream(s)
        PROVE  AuditOK'
    <2>1. (InFlight = {}) \in BOOLEAN
      OBVIOUS
    <2> QED  BY <1>1, <2>1 DEF OpenStream, AuditOK
  <1>2. ASSUME NEW s \in Sessions, NEW t \in Threads, PostMessage(t, s)
        PROVE  AuditOK'
    <2> DEFINE answered == (1 .. posted) \ {post[u].msg.id : u \in InFlight}
    <2>1. answered \in SUBSET Nat
      BY DEF TypeOK
    <2>2. returned_before' = Append(returned_before, answered)
      BY <1>2 DEF PostMessage
    <2> HIDE DEF answered
    <2>3. returned_before' \in Seq(SUBSET Nat)
      BY <2>1, <2>2, AppendProperties DEF AuditOK
    <2>4. quiet' \in [Sessions -> BOOLEAN]
      BY <1>2 DEF PostMessage, AuditOK
    <2>5. unseen' \in [Sessions -> Int]
      BY <1>2 DEF PostMessage, AuditOK
    <2> QED  BY <2>3, <2>4, <2>5 DEF AuditOK
  <1>3. ASSUME UNCHANGED <<quiet, returned_before>>, unseen' \in [Sessions -> Int]
        PROVE  AuditOK'
    BY <1>3 DEF AuditOK
  <1>4. ASSUME NEW s \in Sessions, ShowEvent(s)
        PROVE  AuditOK'
    <2>1. unseen' \in [Sessions -> Int]
      BY <1>4 DEF ShowEvent, AuditOK
    <2> QED  BY <1>3, <1>4, <2>1 DEF ShowEvent
  <1>5. ASSUME NEW s \in Sessions, ToggleChat(s)
        PROVE  AuditOK'
    <2>1. view[s].unread \in Nat
      BY DEF ViewsOK, View
    <2>2. unseen' \in [Sessions -> Int]
      BY <1>5, <2>1 DEF ToggleChat, AuditOK
    <2> QED  BY <1>3, <1>5, <2>2 DEF ToggleChat
  <1>6. ASSUME UNCHANGED auditVars
        PROVE  AuditOK'
    BY <1>6 DEF auditVars, AuditOK
  <1> QED  BY <1>1, <1>2, <1>4, <1>5, <1>6
           DEF ViewNext, ShowResync, SilentStep, viewVars

LEMMA AuditInit == ViewInit => AuditOK
  BY EmptySeq DEF ViewInit, AuditOK

LEMMA ViewsHold == ViewSpec => [](TypeOK /\ ViewsOK /\ Seated /\ CurrentRosters)
  <1>1. ViewInit => CurrentRosters
    BY DEF ViewInit, Init, CurrentRosters, SseIdle
  <1>2. ViewSpec => [](TypeOK /\ Seated)
    BY ViewRefinesServer, SeatedHolds, PTL
  <1>3. ViewSpec => []ViewsOK
    BY <1>2, ViewsInit, ViewsStep, PTL DEF ViewSpec
  <1>4. ViewSpec => []CurrentRosters
    BY <1>1, <1>2, RostersStep, ViewStepIsServerStep, PTL DEF ViewSpec
  <1> QED  BY <1>2, <1>3, <1>4, PTL

\* Every reachable state of room and pages is well typed: in particular no badge
\* is ever below zero (pages/room.rs:588-641, components/controls.rs:23-30).
THEOREM ViewTypeCorrect == ViewSpec => []ViewTypeOK
  <1>1. TypeOK /\ ViewsOK /\ AuditOK => ViewTypeOK
    BY DEF ViewTypeOK, ViewsOK, AuditOK
  <1>2. ViewSpec => []AuditOK
    BY ViewsHold, AuditInit, AuditStep, PTL DEF ViewSpec
  <1> QED  BY <1>1, <1>2, ViewsHold, PTL

-----------------------------------------------------------------------------
(* Whom a page lists. *)

\* An event that tells s of nobody but another participant.
Sound(s, e) == e.type = "peer_joined" => e.peer \in participants \ {s}

SoundView(s)   == DOMAIN view[s].peers \subseteq participants \ {s}
SoundResync(s) == resync[s] # None => DOMAIN resync[s].peers \subseteq participants \ {s}
SoundQueue(s)  == \A i \in 1 .. Len(queue[s]) : Sound(s, queue[s][i])

\* The invariant behind RosterSound: what is shown, what is on its way, and no
\* session announces itself to itself.
SoundRosters ==
    \A s \in Sessions :
        /\ SoundView(s)
        /\ SoundResync(s)
        /\ SoundQueue(s)
        /\ s \notin sse[s].todo

LEMMA SoundEventShown ==
    ASSUME NEW s \in Sessions, NEW v \in View, NEW e \in Event, Sound(s, e),
           DOMAIN v.peers \subseteq participants \ {s}
    PROVE  DOMAIN OnEvent(s, v, e).peers \subseteq participants \ {s}
  <1>1. CASE e.type = "peer_joined"
    <2>1. e.peer \in Sessions /\ e.name \in Names \cup {None}
      BY <1>1, ServerAssumption DEF Event
    <2>2. OnEvent(s, v, e) = OnPeerJoined(v, e.peer, e.name)
      BY <1>1 DEF OnEvent
    <2>3. DOMAIN OnEvent(s, v, e).peers = DOMAIN v.peers \cup {e.peer}
      BY <2>1, <2>2, OnPeerJoinedType
    <2> QED  BY <1>1, <2>3 DEF Sound
  <1>2. CASE e.type = "chat_message"
    <2>1. e.msg \in Message
      BY <1>2, ServerAssumption DEF Event
    <2>2. OnEvent(s, v, e) = OnChat(s, v, e.msg)
      BY <1>2 DEF OnEvent
    <2> QED  BY <2>1, <2>2, OnChatType
  <1>3. CASE e.type \notin {"peer_joined", "chat_message"}
    BY <1>3 DEF OnEvent
  <1> QED  BY <1>1, <1>2, <1>3

\* A sound event that is sent to one session, at most, leaves sound queues.
LEMMA SoundSend ==
    ASSUME TypeOK, SoundRosters, NEW p \in Sessions, NEW e \in Event,
           SendTo(p, e), Sound(p, e), UNCHANGED participants,
           NEW s \in Sessions
    PROVE  SoundQueue(s)'
  <1> SUFFICES ASSUME NEW i \in 1 .. Len(queue'[s]),
                      queue'[s][i].type = "peer_joined"
               PROVE  queue'[s][i].peer \in participants \ {s}
    BY DEF SoundQueue, Sound
  <1>1. CASE queue'[s] = queue[s]
    BY <1>1 DEF SoundRosters, SoundQueue, Sound
  <1>2. CASE queue'[s] # queue[s]
    <2>1. /\ s = p
          /\ Len(queue'[s]) = Len(queue[s]) + 1
          /\ queue'[s][Len(queue'[s])] = e
          /\ \A j \in 1 .. Len(queue[s]) : queue'[s][j] = queue[s][j]
      BY <1>2, SendToAppends
    <2>2. Len(queue[s]) \in Nat
      BY LenProperties DEF TypeOK
    <2>3. CASE i = Len(queue[s]) + 1
      BY <2>1, <2>3 DEF Sound
    <2>4. CASE i \in 1 .. Len(queue[s])
      BY <2>1, <2>4 DEF SoundRosters, SoundQueue, Sound
    <2> QED  BY <2>1, <2>2, <2>3, <2>4
  <1> QED  BY <1>1, <1>2

LEMMA SoundStep ==
    TypeOK /\ ViewsOK /\ Seated /\ CurrentRosters /\ SoundRosters
        /\ [ViewNext]_viewVars => SoundRosters'
  <1> SUFFICES ASSUME TypeOK, ViewsOK, Seated, CurrentRosters, SoundRosters,
                      [ViewNext]_viewVars
               PROVE  SoundRosters'
    OBVIOUS
  <1> USE ServerAssumption
  <1>1. ASSUME NEW x \in Sessions,
               NEW claim \in Passwords \cup {None},
               NEW supplied \in Passwords \cup {None},
               NEW name \in Names \cup {None},
               Join(x, claim, supplied, name), UNCHANGED view
        PROVE  SoundRosters'
    BY <1>1 DEF Join, SoundRosters, SoundView, SoundResync, SoundQueue, Sound
  <1>2. ASSUME UNCHANGED <<participants, view, resync, queue>>,
               \A s \in Sessions : s \notin sse'[s].todo
        PROVE  SoundRosters'
    BY <1>2 DEF SoundRosters, SoundView, SoundResync, SoundQueue, Sound
  <1>3. ASSUME NEW x \in Sessions, SseSnapshot(x), UNCHANGED view
        PROVE  SoundRosters'
    <2>1. \A s \in Sessions : s \notin sse'[s].todo
      BY <1>3 DEF SseSnapshot, TypeOK, SoundRosters
    <2> QED  BY <1>2, <1>3, <2>1 DEF SseSnapshot, roomVars, streamVars
  <1>4. ASSUME NEW x \in Sessions, SseSubscribe(x), UNCHANGED view
        PROVE  SoundRosters'
    <2>1. \A s \in Sessions : s \notin sse'[s].todo
      BY <1>4 DEF SseSubscribe, TypeOK, SseCall, SoundRosters
    <2> QED  BY <1>2, <1>4, <2>1 DEF SseSubscribe, roomVars
  <1>5. ASSUME NEW x \in Sessions, NEW p \in Sessions, SseAnnounce(x, p),
               UNCHANGED view
        PROVE  SoundRosters'
    <2>1. PeerJoined(x) \in Event /\ Sound(p, PeerJoined(x))
      <3>1. x \in participants
        BY <1>5 DEF SseAnnounce, Seated
      <3>2. x # p
        BY <1>5 DEF SseAnnounce, SoundRosters
      <3> QED  BY <3>1, <3>2 DEF PeerJoined, Event, TypeOK, Sound
    <2>2. SendTo(p, PeerJoined(x)) /\ UNCHANGED <<participants, resync>>
      BY <1>5 DEF SseAnnounce, roomVars
    <2>3. \A s \in Sessions : SoundQueue(s)'
      BY <2>1, <2>2, SoundSend
    <2>4. \A s \in Sessions : s \notin sse'[s].todo
      BY <1>5 DEF SseAnnounce, TypeOK, SseCall, SoundRosters
    <2> QED  BY <1>5, <2>2, <2>3, <2>4 DEF SoundRosters, SoundView, SoundResync
  <1>6. ASSUME NEW x \in Sessions, SseReturn(x), UNCHANGED view
        PROVE  SoundRosters'
    <2>1. DOMAIN sse[x].peers = participants \ {x}
      BY <1>6 DEF SseReturn, CurrentRosters
    <2>2. resync'[x].peers = sse[x].peers
          /\ \A s \in Sessions \ {x} : resync'[s] = resync[s]
      BY <1>6 DEF SseReturn, TypeOK
    <2>3. \A s \in Sessions : s \notin sse'[s].todo
      BY <1>6 DEF SseReturn, TypeOK, SseIdle, SoundRosters
    <2>4. UNCHANGED <<participants, queue>>
      BY <1>6 DEF SseReturn, roomVars
    <2>5. \A s \in Sessions : SoundResync(s)'
      BY <2>1, <2>2, <2>4 DEF SoundRosters, SoundResync
    <2> QED  BY <1>6, <2>3, <2>4, <2>5 DEF SoundRosters, SoundView, SoundQueue, Sound
  <1>7. ASSUME NEW x \in Sessions, ShowResync(x)
        PROVE  SoundRosters'
    <2>1. /\ UNCHANGED <<participants, sse, queue>>
          /\ resync' = [resync EXCEPT ![x] = None] /\ resync[x] # None
          /\ view' = [view EXCEPT ![x] = OnResync(view[x], resync[x])]
      BY <1>7 DEF ShowResync, DeliverResync, roomVars
    <2>2. OnResync(view[x], resync[x]).peers = resync[x].peers
      BY DEF OnResync, ViewsOK, View
    <2>3. \A s \in Sessions : SoundView(s)' /\ SoundResync(s)'
      BY <2>1, <2>2 DEF SoundRosters, SoundView, SoundResync, TypeOK, ViewsOK
    <2> QED  BY <2>1, <2>3 DEF SoundRosters, SoundQueue, Sound
  <1>8. ASSUME NEW x \in Sessions, ShowEvent(x)
        PROVE  SoundRosters'
    <2> DEFINE q == queue[x]
               e == Head(q)
               w == OnEvent(x, view[x], e)
    <2>1. /\ UNCHANGED <<participants, sse, resync>>
          /\ q \in Seq(Event) /\ q # << >>
          /\ queue' = [queue EXCEPT ![x] = Tail(q)]
          /\ view' = [view EXCEPT ![x] = w]
      BY <1>8 DEF ShowEvent, DeliverEvent, roomVars, TypeOK
    <2>2. /\ e \in Event /\ e = q[1] /\ Len(q) \in Nat /\ Len(q) >= 1
          /\ Len(Tail(q)) = Len(q) - 1
          /\ \A i \in 1 .. Len(Tail(q)) : Tail(q)[i] = q[i + 1]
      BY <2>1, HeadTailProperties, LenProperties
    <2>3. Sound(x, e)
      BY <2>2 DEF SoundRosters, SoundQueue
    <2> HIDE DEF e
    <2>4. DOMAIN w.peers \subseteq participants \ {x}
      BY <2>2, <2>3, SoundEventShown DEF ViewsOK, SoundRosters, SoundView
    <2> HIDE DEF w
    <2>5. \A s \in Sessions : SoundView(s)'
      BY <2>1, <2>4 DEF SoundRosters, SoundView, ViewsOK
    <2>6. ASSUME NEW s \in Sessions
          PROVE  SoundQueue(s)'
      <3>1. CASE s = x
        <4>1. queue'[s] = Tail(q)
          BY <2>1, <3>1 DEF TypeOK
        <4> SUFFICES ASSUME NEW i \in 1 .. Len(Tail(q)),
                            Tail(q)[i].type = "peer_joined"
                     PROVE  Tail(q)[i].peer \in participants \ {s}
          BY <2>1, <4>1 DEF SoundQueue, Sound
        <4>2. i + 1 \in 1 .. Len(q) /\ Tail(q)[i] = q[i + 1]
          BY <2>2
        <4>3. Sound(s, q[i + 1])
          BY <3>1, <4>2 DEF SoundRosters, SoundQueue
        <4> QED  BY <4>2, <4>3 DEF Sound
      <3>2. CASE s # x
        <4>1. queue'[s] = queue[s]
          BY <2>1, <3>2 DEF TypeOK
        <4> QED  BY <2>1, <4>1 DEF SoundRosters, SoundQueue, Sound
      <3> QED  BY <3>1, <3>2
    <2> QED  BY <2>1, <2>5, <2>6 DEF SoundRosters, SoundResync
  <1>9. ASSUME NEW x \in Sessions, CloseStream(x), UNCHANGED view
        PROVE  SoundRosters'
    <2>1. \A s \in Sessions : /\ resync'[s] \in {resync[s], None}
                              /\ queue'[s] \in {queue[s], << >>}
      BY <1>9 DEF CloseStream, TypeOK
    <2>2. UNCHANGED <<participants, sse>>
      BY <1>9 DEF CloseStream, roomVars
    <2> QED  BY <1>9, <2>1, <2>2
             DEF SoundRosters, SoundView, SoundResync, SoundQueue, Sound
  <1>10. ASSUME NEW e \in Event, NEW q \in Sessions, SendTo(q, e), Sound(q, e),
                UNCHANGED <<participants, sse, resync, view>>
         PROVE  SoundRosters'
    <2>1. \A s \in Sessions : SoundQueue(s)'
      BY <1>10, SoundSend
    <2> QED  BY <1>10, <2>1 DEF SoundRosters, SoundView, SoundResync
  <1>11. ASSUME NEW t \in Threads, NEW q \in Sessions, PostSend(t, q),
                UNCHANGED view
         PROVE  SoundRosters'
    <2>1. post[t] \in [msg : Message, todo : SUBSET Sessions]
      BY <1>11 DEF PostSend, TypeOK, PostIdle
    <2>2. ChatEvent(post[t].msg) \in Event /\ Sound(q, ChatEvent(post[t].msg))
      BY <2>1 DEF ChatEvent, Event, Sound
    <2> QED  BY <1>10, <1>11, <2>2 DEF PostSend, roomVars
  <1>12. ASSUME NEW x \in Sessions, NEW to \in Sessions, NEW kind \in SignalKinds,
                NEW body \in Bodies, Signal(x, to, kind, body), UNCHANGED view
         PROVE  SoundRosters'
    <2>1. SignalEvent(x, to, kind, body) \in Event
          /\ Sound(to, SignalEvent(x, to, kind, body))
      BY DEF SignalEvent, Event, Sound
    <2>2. UNCHANGED <<participants, sse, resync>>
      BY <1>12 DEF Signal, roomVars
    <2>3. CASE SendTo(to, SignalEvent(x, to, kind, body))
      BY <1>10, <1>12, <2>1, <2>2, <2>3
    <2>4. CASE UNCHANGED queue
      BY <1>2, <1>12, <2>2, <2>4 DEF SoundRosters
    <2> QED  BY <1>12, <2>3, <2>4 DEF Signal
  <1>13. ASSUME NEW x \in Sessions, ToggleChat(x)
         PROVE  SoundRosters'
    <2>1. /\ UNCHANGED <<participants, sse, resync, queue>>
          /\ view' = [view EXCEPT ![x] = OnToggle(view[x])]
      BY <1>13 DEF ToggleChat, vars, roomVars, streamVars
    <2>2. OnToggle(view[x]).peers = view[x].peers
      BY DEF OnToggle, ViewsOK, View
    <2>3. \A s \in Sessions : SoundView(s)'
      BY <2>1, <2>2 DEF SoundRosters, SoundView, ViewsOK
    <2> QED  BY <2>1, <2>3 DEF SoundRosters, SoundResync, SoundQueue, Sound
  <1>14. ASSUME UNCHANGED <<participants, sse, resync, queue, view>>
         PROVE  SoundRosters'
    BY <1>2, <1>14 DEF SoundRosters
  <1>15. ASSUME SilentStep
         PROVE  SoundRosters'
    BY <1>1, <1>4, <1>5, <1>6, <1>9, <1>11, <1>12, <1>15
    DEF SilentStep, Handler, StreamLagged, StreamEnded, Disconnect
  <1>16. ASSUME NEW x \in Sessions, NEW t \in Threads, PostMessage(t, x)
         PROVE  SoundRosters'
    BY <1>14, <1>16 DEF PostMessage, PostAppend, roomVars, streamVars
  <1>17. ASSUME NEW x \in Sessions, OpenStream(x)
         PROVE  SoundRosters'
    BY <1>3, <1>17 DEF OpenStream
  <1>18. CASE UNCHANGED viewVars
    BY <1>14, <1>18 DEF viewVars, vars, roomVars, streamVars
  <1> QED  BY <1>7, <1>8, <1>13, <1>15, <1>16, <1>17, <1>18 DEF ViewNext

\* No page ever lists itself, or anybody the room has not seated, whatever is
\* lost or late (handle_sse, server/mod.rs:142-168; pages/room.rs:588-614).
THEOREM RostersAreSound == ViewSpec => []RosterSound
  <1>1. ViewInit => SoundRosters
    BY DEF ViewInit, Init, SoundRosters, SoundView, SoundResync, SoundQueue, Nobody,
           SseIdle
  <1>2. ViewsOK /\ SoundRosters => RosterSound
    <2> SUFFICES ASSUME ViewsOK, SoundRosters, NEW s \in Sessions
                 PROVE  Known(s) \subseteq participants \ {s}
      BY DEF RosterSound
    <2>1. DOMAIN Base(s).peers \subseteq participants \ {s}
      BY DEF Base, OnResync, SoundRosters, SoundView, SoundResync, ViewsOK, View
    <2> QED  BY <2>1 DEF Known, SoundRosters, SoundQueue, Sound
  <1>3. ViewSpec => []SoundRosters
    BY <1>1, ViewsHold, SoundStep, PTL DEF ViewSpec
  <1> QED  BY <1>2, <1>3, ViewsHold, PTL

=============================================================================
