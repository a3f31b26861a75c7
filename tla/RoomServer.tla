----------------------------- MODULE RoomServer -----------------------------
(***************************************************************************)
(* One room of the signaling server (server/mod.rs, server/rooms.rs): its  *)
(* participants, its chat and the event stream of every participant.       *)
(*                                                                         *)
(* Handlers run on several threads.  handle_join holds the room's map      *)
(* entry exclusively until it answers, so it is one action, possible only  *)
(* while no other handler of the room is running.  handle_sse,             *)
(* handle_chat_send and handle_signal share the entry: they exclude joins  *)
(* and interleave with each other at every access to the chat store and to *)
(* a participant's channel.  handle_signal makes one such access and is    *)
(* one action; the two others are split at each of theirs.                 *)
(*                                                                         *)
(* A participant's tokio broadcast channel is kept as the receiver its     *)
(* browser reads: `live` says whether a receiver exists and whether the    *)
(* channel it reads is still the one in the room, `queue` is what was sent *)
(* to the channel and not read yet.  A receiver that is more than          *)
(* SSE_BUFFER_SIZE behind gets an error instead of events; BufferSize + 1  *)
(* queued events stand for every such backlog.                             *)
(***************************************************************************)
EXTENDS ChatBuffer, FiniteSets

CONSTANTS
    Sessions,         \* session ids, one browser tab each
    Threads,          \* chat requests the server can be working on at once
    Passwords,        \* non-empty passwords
    Names,            \* display names
    SignalKinds,      \* "offer", "answer", "ice": relayed alike
    Bodies,           \* what signals carry: descriptions and candidates
    MaxParticipants,  \* AppState::max_participants
    BufferSize,       \* SSE_BUFFER_SIZE, 128 in the code
    ResyncLimit,      \* chat messages in a resync, 50 in the code
    MaxPosts,         \* bound of the model: chat messages ever posted
    None              \* absent option: no password, no name, no resync

ASSUME ServerAssumption ==
    /\ MaxParticipants \in Nat \ {0}
    /\ BufferSize \in Nat \ {0}
    /\ ResyncLimit \in Nat
    /\ MaxPosts \in Nat
    /\ None \notin Passwords
    /\ None \notin Names
    /\ {"peer_joined", "chat_message"} \cap SignalKinds = {}

ASSUME SessionsAssumption == IsFiniteSet(Sessions)

VARIABLES
    password,       \* RoomState::password; None while the room does not exist
    participants,   \* keys of RoomState::participants
    display_names,  \* RoomState::display_names
    entered_with,   \* history: the password each session last came in with
    chat,           \* the chat store's buffer of this room
    posted,         \* messages appended so far, the source of message ids
    sse,            \* the handle_sse call of each session
    post,           \* the handle_chat_send call of each thread
    live,           \* the receiver behind each session's event stream
    resync,         \* the resync event that is still ahead of the live events
    queue           \* sent to the receiver, not read by the browser yet

roomVars   == <<password, participants, display_names, entered_with>>
chatVars   == <<chat, posted, post>>
streamVars == <<live, resync, queue>>
vars       == <<roomVars, chatVars, sse, streamVars>>

-----------------------------------------------------------------------------
(* The data. *)

\* A chat message: `id` is its place in the order of appends.
Message == [id : Nat, from : Sessions]

\* The roster of a snapshot: display names by peer id.
Roster == UNION {[P -> Names \cup {None}] : P \in SUBSET Sessions}

Resync == [peers : Roster, chat : Seq(Message)]

ASSUME NoneAssumption == None \notin Resync

PeerJoined(p) == [type |-> "peer_joined", peer |-> p, name |-> display_names[p]]
ChatEvent(m)  == [type |-> "chat_message", msg |-> m]

\* Mutant: the request is relayed as it came.
RawSignal(from, to, kind, body) ==
    [type |-> kind, from |-> from, to |-> to, body |-> body]

\* An sdp or a candidate is known by the peer it was made for.
SignalEvent(from, to, kind, body) ==
    [type |-> kind, from |-> from, made_for |-> to, body |-> body]

\* No handler of the server builds the peer-left event of types.rs: a seat is
\* never given up.
Event ==
    [type : {"peer_joined"}, peer : Sessions, name : Names \cup {None}]
        \cup [type : {"chat_message"}, msg : Message]
        \cup [type : SignalKinds, from : Sessions, made_for : Sessions,
              body : Bodies]

\* The roster of somebody who is alone.
Nobody == [p \in {} |-> None]

\* A handle_sse call: the roster and the chat it has read, and the
\* participants it has still to tell of the session.
SseCall == [pc : {"idle", "snapshot", "announce"}, peers : Roster,
            chat : Seq(Message), todo : SUBSET Sessions]

\* No handle_sse call of the session is running.
SseIdle == [pc |-> "idle", peers |-> Nobody, chat |-> << >>, todo |-> {}]

\* No handle_chat_send call on the thread.
PostIdle == [msg |-> None, todo |-> {}]

TypeOK ==
    /\ password \in Passwords \cup {None}
    /\ participants \subseteq Sessions
    /\ display_names \in [Sessions -> Names \cup {None}]
    /\ entered_with \in [Sessions -> Passwords \cup {None}]
    /\ chat \in Seq(Message)
    /\ posted \in Nat
    /\ sse \in [Sessions -> SseCall]
    /\ post \in [Threads -> [msg : Message, todo : SUBSET Sessions]
                               \cup {PostIdle}]
    /\ live \in [Sessions -> {"closed", "subscribed", "severed"}]
    /\ resync \in [Sessions -> Resync \cup {None}]
    /\ queue \in [Sessions -> Seq(Event)]

Init ==
    /\ password = None
    /\ participants = {}
    /\ display_names = [s \in Sessions |-> None]
    /\ entered_with = [s \in Sessions |-> None]
    /\ chat = << >>
    /\ posted = 0
    /\ sse = [s \in Sessions |-> SseIdle]
    /\ post = [t \in Threads |-> PostIdle]
    /\ live = [s \in Sessions |-> "closed"]
    /\ resync = [s \in Sessions |-> None]
    /\ queue = [s \in Sessions |-> << >>]

-----------------------------------------------------------------------------
(* Channels. *)

\* The receiver has lost events: its next read is an error.
Overrun(s) == Len(queue[s]) > BufferSize

\* Sender::send on p's channel: lost when nobody is subscribed to it.
SendTo(p, e) ==
    queue' = [queue EXCEPT ![p] = IF live[p] = "subscribed" /\ ~Overrun(p)
                                  THEN Append(@, e)
                                  ELSE @]

-----------------------------------------------------------------------------
(* handle_join. *)

\* Mutant: a join that shares the room entry with the event-stream handlers.
ExclusiveOfPosts == \A t \in Threads : post[t] = PostIdle

\* The entry of the room in AppState::rooms is not shared by any handler.
Exclusive ==
    /\ \A s \in Sessions : sse[s] = SseIdle
    /\ \A t \in Threads : post[t] = PostIdle

\* Mutant: an existing room lets in whoever sends no password.
GrantedWithout(claim, supplied) ==
    IF password = None THEN claim # None ELSE supplied \in {password, None}

\* A new room is claimed with a password; an existing one asks for its own.
Granted(claim, supplied) ==
    IF password = None THEN claim # None ELSE supplied = password

\* Mutant: the cap is off by one.
HasSeatPlusOne(s) ==
    s \in participants \/ Cardinality(participants) <= MaxParticipants

\* Re-joining with an existing session does not count against the cap.
HasSeat(s) ==
    s \in participants \/ Cardinality(participants) < MaxParticipants

\* A join that is let in.  The refusals (need_password, password_required,
\* full) change nothing in the room.  The new channel replaces the old one: a
\* receiver of the old one is severed from the room.
Join(s, claim, supplied, name) ==
    /\ Exclusive
    /\ Granted(claim, supplied)
    /\ HasSeat(s)
    /\ password' = IF password = None THEN claim ELSE password
    /\ entered_with' =
          [entered_with EXCEPT ![s] = IF password = None THEN claim ELSE supplied]
    /\ display_names' =
          [display_names EXCEPT ![s] = IF name = None THEN @ ELSE name]
    /\ participants' = participants \cup {s}
    /\ live' = [live EXCEPT ![s] = IF @ = "subscribed" THEN "severed" ELSE @]
    /\ UNCHANGED <<chatVars, sse, resync, queue>>

-----------------------------------------------------------------------------
(* handle_sse.  The browser opens it after a join and again whenever its   *)
(* event stream has ended.                                                 *)

\* Mutant: the joiner is announced before it subscribes.
SseAnnounceFirst(s) ==
    /\ s \in participants
    /\ sse[s] = SseIdle
    /\ live[s] = "closed"
    /\ sse' = [sse EXCEPT ![s] =
                 [pc    |-> "snapshot",
                  peers |-> [p \in participants \ {s} |-> display_names[p]],
                  chat  |-> ChatHistory(chat, ResyncLimit),
                  todo  |-> {}]]
    /\ queue' = [p \in Sessions |->
                   IF p # s /\ live[p] = "subscribed" /\ ~Overrun(p)
                   THEN Append(queue[p], PeerJoined(s))
                   ELSE queue[p]]
    /\ UNCHANGED <<roomVars, chatVars, live, resync>>

\* The roster is read with the room entry shared, so it cannot change before
\* the handler returns; the chat can.
SseSnapshot(s) ==
    /\ s \in participants
    /\ sse[s] = SseIdle
    /\ live[s] = "closed"
    /\ sse' = [sse EXCEPT ![s] =
                 [pc    |-> "snapshot",
                  peers |-> [p \in participants \ {s} |-> display_names[p]],
                  chat  |-> ChatHistory(chat, ResyncLimit),
                  todo  |-> {}]]
    /\ UNCHANGED <<roomVars, chatVars, streamVars>>

\* Mutant: the broadcast does not exclude the session it announces.
SseSubscribeToAll(s) ==
    /\ sse[s].pc = "snapshot"
    /\ sse' = [sse EXCEPT ![s].pc = "announce", ![s].todo = participants]
    /\ live' = [live EXCEPT ![s] = "subscribed"]
    /\ UNCHANGED <<roomVars, chatVars, resync, queue>>

\* Mutant: the joiner is not announced.
SseSubscribeSilently(s) ==
    /\ sse[s].pc = "snapshot"
    /\ sse' = [sse EXCEPT ![s].pc = "announce"]
    /\ live' = [live EXCEPT ![s] = "subscribed"]
    /\ UNCHANGED <<roomVars, chatVars, resync, queue>>

\* tx.subscribe(), then the broadcast of peer_joined to everybody else starts.
SseSubscribe(s) ==
    /\ sse[s].pc = "snapshot"
    /\ sse' = [sse EXCEPT ![s].pc = "announce", ![s].todo = participants \ {s}]
    /\ live' = [live EXCEPT ![s] = "subscribed"]
    /\ UNCHANGED <<roomVars, chatVars, resync, queue>>

\* The broadcast reaches one more participant.
SseAnnounce(s, p) ==
    /\ sse[s].pc = "announce"
    /\ p \in sse[s].todo
    /\ sse' = [sse EXCEPT ![s].todo = @ \ {p}]
    /\ SendTo(p, PeerJoined(s))
    /\ UNCHANGED <<roomVars, chatVars, live, resync>>

\* The response: the resync event chained before the live ones.
SseReturn(s) ==
    /\ sse[s].pc = "announce"
    /\ sse[s].todo = {}
    /\ sse' = [sse EXCEPT ![s] = SseIdle]
    /\ resync' = [resync EXCEPT ![s] = [peers |-> sse[s].peers,
                                        chat  |-> sse[s].chat]]
    /\ UNCHANGED <<roomVars, chatVars, live, queue>>

-----------------------------------------------------------------------------
(* The event stream that handle_sse returned. *)

Streaming(s) == sse[s] = SseIdle /\ live[s] # "closed"

DeliverResync(s) ==
    /\ Streaming(s)
    /\ resync[s] # None
    /\ resync' = [resync EXCEPT ![s] = None]
    /\ UNCHANGED <<roomVars, chatVars, sse, live, queue>>

DeliverEvent(s) ==
    /\ Streaming(s)
    /\ resync[s] = None
    /\ queue[s] # << >>
    /\ ~Overrun(s)
    /\ queue' = [queue EXCEPT ![s] = Tail(@)]
    /\ UNCHANGED <<roomVars, chatVars, sse, live, resync>>

\* The stream of s is gone, with whatever it had not delivered.
CloseStream(s) ==
    /\ live' = [live EXCEPT ![s] = "closed"]
    /\ resync' = [resync EXCEPT ![s] = None]
    /\ queue' = [queue EXCEPT ![s] = << >>]
    /\ UNCHANGED <<roomVars, chatVars, sse>>

\* Mutant: a stream that lagged drops its backlog and goes on.
StreamLaggedOn(s) ==
    /\ Streaming(s)
    /\ resync[s] = None
    /\ Overrun(s)
    /\ queue' = [queue EXCEPT ![s] = << >>]
    /\ UNCHANGED <<roomVars, chatVars, sse, live, resync>>

\* The server ends a stream that lagged.
StreamLagged(s) ==
    /\ Streaming(s)
    /\ resync[s] = None
    /\ Overrun(s)
    /\ CloseStream(s)

\* A severed channel has no sender left: its stream ends once it is drained.
StreamEnded(s) ==
    /\ Streaming(s)
    /\ resync[s] = None
    /\ live[s] = "severed"
    /\ queue[s] = << >>
    /\ CloseStream(s)

\* The connection breaks, the page is reloaded or the tab is closed.
Disconnect(s) ==
    /\ Streaming(s)
    /\ CloseStream(s)

-----------------------------------------------------------------------------
(* handle_signal and handle_chat_send. *)

\* Mutant: signals are broadcast to the room.
SignalAll(s, to, kind, body) ==
    /\ s \in participants
    /\ queue' = [p \in Sessions |->
                   IF live[p] = "subscribed" /\ ~Overrun(p) /\ p # s
                   THEN Append(queue[p], SignalEvent(s, to, kind, body))
                   ELSE queue[p]]
    /\ UNCHANGED <<roomVars, chatVars, sse, live, resync>>

\* One signal, to the one participant it is addressed to.
Signal(s, to, kind, body) ==
    /\ s \in participants
    /\ IF to \in participants THEN SendTo(to, SignalEvent(s, to, kind, body))
                              ELSE UNCHANGED queue
    /\ UNCHANGED <<roomVars, chatVars, sse, live, resync>>

\* Mutant: the sender gets no echo.
PostAppendNoEcho(t, s) ==
    /\ s \in participants
    /\ post[t] = PostIdle
    /\ posted < MaxPosts
    /\ LET msg == [id |-> posted + 1, from |-> s]
       IN  /\ chat' = ChatAppend(chat, msg)
           /\ post' = [post EXCEPT ![t] = [msg |-> msg,
                                           todo |-> participants \ {s}]]
    /\ posted' = posted + 1
    /\ UNCHANGED <<roomVars, sse, streamVars>>

\* The message is stored first, then the broadcast to everybody starts.
PostAppend(t, s) ==
    /\ s \in participants
    /\ post[t] = PostIdle
    /\ posted < MaxPosts
    /\ LET msg == [id |-> posted + 1, from |-> s]
       IN  /\ chat' = ChatAppend(chat, msg)
           /\ post' = [post EXCEPT ![t] = [msg |-> msg, todo |-> participants]]
    /\ posted' = posted + 1
    /\ UNCHANGED <<roomVars, sse, streamVars>>

\* The broadcast reaches one more participant; the last one ends the handler.
PostSend(t, p) ==
    /\ p \in post[t].todo
    /\ SendTo(p, ChatEvent(post[t].msg))
    /\ LET rest == post[t].todo \ {p}
       IN  post' = [post EXCEPT ![t] = IF rest = {} THEN PostIdle
                                       ELSE [msg |-> post[t].msg, todo |-> rest]]
    /\ UNCHANGED <<roomVars, chat, posted, sse, live, resync>>

-----------------------------------------------------------------------------

Handler(s) ==
    \/ SseSubscribe(s)
    \/ \E p \in Sessions : SseAnnounce(s, p)
    \/ SseReturn(s)

Stream(s) ==
    \/ DeliverResync(s)
    \/ DeliverEvent(s)
    \/ StreamLagged(s)
    \/ StreamEnded(s)

Next ==
    \/ \E s \in Sessions :
         \/ \E claim, supplied \in Passwords \cup {None},
               name \in Names \cup {None} : Join(s, claim, supplied, name)
         \/ SseSnapshot(s)
         \/ Handler(s)
         \/ Stream(s)
         \/ Disconnect(s)
         \/ \E to \in Sessions \ {s}, kind \in SignalKinds, body \in Bodies :
              Signal(s, to, kind, body)
         \/ \E t \in Threads : PostAppend(t, s)
    \/ \E t \in Threads, p \in Sessions : PostSend(t, p)

Spec == Init /\ [][Next]_vars

-----------------------------------------------------------------------------
(* Properties. *)

\* The cap holds although the room is read, checked and filled by handlers
\* that run at once, and although a re-join is let in when the room is full
\* (handle_join, server/mod.rs:93-99).
RoomCapacity == Cardinality(participants) <= MaxParticipants

\* A signal reaches no stream but that of the peer it was made for: it would
\* pollute the connection of any other (server/mod.rs:186-191).
AddressedSignals ==
    \A s \in Sessions : \A i \in 1 .. Len(queue[s]) :
        queue[s][i].type \in SignalKinds => queue[s][i].made_for = s

\* However the posts of several threads interleave, the store holds the newest
\* messages there are, in the order in which they were appended and as many as
\* it may, so that the history of a resync is the end of the conversation
\* (server/chat.rs:38-56).
ChatIsLatest ==
    /\ Len(chat) = IF posted < MaxMessages THEN posted ELSE MaxMessages
    /\ \A i \in 1 .. Len(chat) : chat[i].id = posted - Len(chat) + i

\* Nobody is told of a peer that does not listen yet: an offer made in answer
\* to peer_joined would be dropped (server/mod.rs:153-157, .rules:24).
AnnouncedListening ==
    [][\A s \in Sessions :
         Len(queue'[s]) > Len(queue[s]) =>
            LET e == queue'[s][Len(queue'[s])]
            IN  e.type = "peer_joined" => live[e.peer] = "subscribed"]_vars

\* Every step of the handlers is a step, or no step, of the room's contract:
\* one claim, admission by password and seat, no listener without a seat.
Contract == INSTANCE RoomContract WITH
    seated    <- participants,
    listening <- {s \in Sessions : live[s] # "closed"}

ImplementsContract == Contract!Spec
=============================================================================
