------------------------------ MODULE RoomView ------------------------------
(***************************************************************************)
(* The room as its participants see it: RoomServer composed with the event *)
(* handler of the room page (sse_handler in pages/room.rs), which folds    *)
(* each event of the stream into the roster, the chat and the unread badge *)
(* the page shows.  The mesh, which the same handler feeds, is not part of *)
(* this module: signals are delivered and change nothing here.             *)
(***************************************************************************)
EXTENDS RoomServer

CONSTANT ChatUsers    \* bound of the model: who opens and shuts the chat overlay

VARIABLES
    view,           \* what each session's page shows
    quiet,          \* history: no chat POST overlapped the session's opening
                    \* of its stream, from the chat snapshot to the subscribe
    returned_before, \* history: by message id, the messages whose POST had
                    \* returned when that message was appended
    unseen          \* history: by session, how many messages the others have
                    \* posted, less those it has read live with the overlay
                    \* open or has cleared from its badge

auditVars == <<quiet, returned_before, unseen>>
viewVars  == <<vars, view, auditVars>>

View == [peers : Roster, chat : Seq(Message), open : BOOLEAN, unread : Nat]

ViewTypeOK ==
    /\ TypeOK
    /\ view \in [Sessions -> View]
    /\ quiet \in [Sessions -> BOOLEAN]
    /\ returned_before \in Seq(SUBSET Nat)
    /\ unseen \in [Sessions -> Int]

ViewInit ==
    /\ Init
    /\ view = [s \in Sessions |->
                 [peers |-> Nobody, chat |-> << >>, open |-> FALSE, unread |-> 0]]
    /\ quiet = [s \in Sessions |-> FALSE]
    /\ returned_before = << >>
    /\ unseen = [s \in Sessions |-> 0]

-----------------------------------------------------------------------------
(* The event handler of the page. *)

\* Mutant: the history counts as unread.
OnResyncCounted(v, r) ==
    [v EXCEPT !.peers = r.peers, !.chat = r.chat,
              !.unread = v.unread + Len(r.chat)]

\* A resync replaces the roster and the chat; it never counts as unread.
OnResync(v, r) == [v EXCEPT !.peers = r.peers, !.chat = r.chat]

\* A peer that is listed already keeps its entry.
OnPeerJoined(v, p, name) ==
    IF p \in DOMAIN v.peers THEN v
    ELSE [v EXCEPT !.peers =
            [q \in DOMAIN v.peers \cup {p} |-> IF q = p THEN name
                                               ELSE v.peers[q]]]

\* Mutant: the echo of one's own message takes one off the badge.
OnChatOwnOff(s, v, m) ==
    [v EXCEPT !.chat = Append(v.chat, m),
              !.unread = IF v.open THEN v.unread
                         ELSE IF m.from = s THEN v.unread - 1
                         ELSE v.unread + 1]

\* Somebody else's message counts as unread while the overlay is shut.
OnChat(s, v, m) ==
    [v EXCEPT !.chat = Append(v.chat, m),
              !.unread = IF m.from # s /\ ~v.open THEN v.unread + 1
                                                 ELSE v.unread]

\* The handler's match.  Its arm for peer-left is left out with the event.
OnEvent(s, v, e) ==
    CASE e.type = "peer_joined"  -> OnPeerJoined(v, e.peer, e.name)
      [] e.type = "chat_message" -> OnChat(s, v, e.msg)
      [] OTHER                   -> v

\* A message of somebody else, live.
FromOther(s, e) == e.type = "chat_message" /\ e.msg.from # s

ShowResync(s) ==
    /\ DeliverResync(s)
    /\ view' = [view EXCEPT ![s] = OnResync(view[s], resync[s])]
    /\ UNCHANGED auditVars

ShowEvent(s) ==
    /\ DeliverEvent(s)
    /\ view' = [view EXCEPT ![s] = OnEvent(s, view[s], Head(queue[s]))]
    /\ unseen' = [unseen EXCEPT ![s] =
                     IF view[s].open /\ FromOther(s, Head(queue[s]))
                     THEN @ - 1 ELSE @]
    /\ UNCHANGED <<quiet, returned_before>>

\* The chat button: opening the overlay acknowledges its backlog.
OnToggle(v) ==
    [v EXCEPT !.open = ~v.open, !.unread = IF v.open THEN v.unread ELSE 0]

ToggleChat(s) ==
    /\ s \in ChatUsers
    /\ view' = [view EXCEPT ![s] = OnToggle(view[s])]
    /\ unseen' = [unseen EXCEPT ![s] = IF view[s].open THEN @
                                       ELSE @ - view[s].unread]
    /\ UNCHANGED <<vars, quiet, returned_before>>

-----------------------------------------------------------------------------
(* The server's steps, with the history they leave. *)

InFlight == {t \in Threads : post[t] # PostIdle}

OpenStream(s) ==
    /\ SseSnapshot(s)
    /\ quiet' = [quiet EXCEPT ![s] = InFlight = {}]
    /\ UNCHANGED <<view, returned_before, unseen>>

PostMessage(t, s) ==
    /\ PostAppend(t, s)
    /\ quiet' = [x \in Sessions |-> quiet[x] /\ sse[x].pc # "snapshot"]
    /\ returned_before' =
          Append(returned_before, (1 .. posted) \ {post[u].msg.id : u \in InFlight})
    /\ unseen' = [x \in Sessions |-> IF x = s THEN unseen[x] ELSE unseen[x] + 1]
    /\ UNCHANGED view

SilentStep ==
    /\ \/ \E s \in Sessions :
            \/ \E claim, supplied \in Passwords \cup {None},
                  name \in Names \cup {None} : Join(s, claim, supplied, name)
            \/ Handler(s)
            \/ StreamLagged(s)
            \/ StreamEnded(s)
            \/ Disconnect(s)
            \/ \E to \in Sessions \ {s}, kind \in SignalKinds, body \in Bodies :
                  Signal(s, to, kind, body)
       \/ \E t \in Threads, p \in Sessions : PostSend(t, p)
    /\ UNCHANGED <<view, auditVars>>

ViewNext ==
    \/ \E s \in Sessions :
         \/ ShowResync(s)
         \/ ShowEvent(s)
         \/ ToggleChat(s)
         \/ OpenStream(s)
         \/ \E t \in Threads : PostMessage(t, s)
    \/ SilentStep

ViewSpec == ViewInit /\ [][ViewNext]_viewVars

\* tokio runs a handler that has started to its end; an event that was sent
\* is read by its browser; the server ends a stream whose reading failed or
\* whose channel is gone.  Joins, posts, signals, toggles, disconnections and
\* the opening and reopening of streams happen or not: a page can be left
\* while its join is in flight, and a tab can be closed.
ViewFairness ==
    /\ \A s \in Sessions :
         /\ WF_viewVars(Handler(s) /\ UNCHANGED <<view, auditVars>>)
         /\ WF_viewVars(ShowResync(s) \/ ShowEvent(s))
         /\ WF_viewVars((StreamLagged(s) \/ StreamEnded(s))
                          /\ UNCHANGED <<view, auditVars>>)
    /\ \A t \in Threads, p \in Sessions :
         WF_viewVars(PostSend(t, p) /\ UNCHANGED <<view, auditVars>>)

FairViewSpec == ViewSpec /\ ViewFairness

-----------------------------------------------------------------------------
(* What a page shows once it has read what is on its way to it. *)

Connected(s) == Streaming(s) /\ live[s] = "subscribed" /\ ~Overrun(s)

Base(s) == IF resync[s] = None THEN view[s] ELSE OnResync(view[s], resync[s])

Known(s) ==
    DOMAIN Base(s).peers \cup
        {queue[s][i].peer : i \in {j \in 1 .. Len(queue[s]) :
                                     queue[s][j].type = "peer_joined"}}

\* The messages of list b and, below them, those that the events of q add, by
\* place: a page shows a message above those of a later place.
Talk(b, q) ==
    [i \in {j \in 1 .. Len(b) + Len(q) :
               j > Len(b) => q[j - Len(b)].type = "chat_message"} |->
        IF i <= Len(b) THEN b[i] ELSE q[i - Len(b)].msg]

ShownChat(s) == Talk(Base(s).chat, queue[s])

IdsOf(talk) == {talk[i].id : i \in DOMAIN talk}

ShownIds(s) == IdsOf(ShownChat(s))

\* No message stands in two places.
NothingTwice(talk) ==
    \A i, j \in DOMAIN talk : talk[i].id = talk[j].id => i = j

\* The places in q of what others wrote.
FromOthers(s, q) == {i \in 1 .. Len(q) : FromOther(s, q[i])}

\* Messages whose broadcast has still to reach s.
Underway(s) == {post[t].msg.id : t \in {u \in Threads : s \in post[u].todo}}

\* Messages that are on their way to s as live events.
Coming(s) ==
    Underway(s) \cup
        {queue[s][i].msg.id : i \in {j \in 1 .. Len(queue[s]) :
                                       queue[s][j].type = "chat_message"}}

-----------------------------------------------------------------------------
(* Properties. *)

\* The point of announcing a joiner from handle_sse, and of taking the roster
\* and subscribing under one shared entry: two participants whose streams are
\* open list each other, whatever the order in which they joined, opened,
\* lost and reopened them (server/mod.rs:138-159).
MutualPresence ==
    \A s, p \in Sessions :
        s # p /\ Connected(s) /\ Connected(p) => p \in Known(s)

\* A page never lists itself, and lists only sessions the room has seated:
\* the snapshot filters the session out and the announcement excludes it
\* (server/mod.rs:145, :167).
RosterSound == \A s \in Sessions : Known(s) \subseteq participants \ {s}

\* A stream whose opening met no chat POST shows every message once: nothing
\* doubled, and nothing missing from the oldest one it shows to the newest,
\* except what is being broadcast to it right now.  It shows at least as many
\* as a resync carries (server/mod.rs:151-158).
ChatGapFree ==
    \A s \in Sessions :
        Connected(s) /\ quiet[s] =>
            /\ NothingTwice(ShownChat(s))
            /\ ShownIds(s) \cap Underway(s) = {}
            /\ \A i \in ShownIds(s) :
                 i .. posted \subseteq ShownIds(s) \cup Underway(s)
            /\ \/ Cardinality(ShownIds(s) \cup Underway(s)) >= ResyncLimit
               \/ ShownIds(s) \cup Underway(s) = 1 .. posted
               \/ Cardinality(ShownIds(s) \cup Underway(s)) >= MaxMessages

\* Even when the broadcasts of several messages race, no page ever shows a
\* message above one whose POST had been answered before it was sent: messages
\* sent one after the answer to the other keep that order on every page, live
\* and through any resync (handle_chat_send, server/mod.rs:258-265).  A message
\* that some page merely shows may still be on its way to another page, where
\* what is written in reply to it can come first (server/rooms.rs:45-50).
PostOrderKept ==
    \A s \in Sessions :
        LET shown == ShownChat(s)
        IN  \A i, j \in DOMAIN shown :
                i < j => shown[j].id \notin returned_before[shown[i].id]

\* Over reconnects, lag, re-joins and an overlay that opens and shuts, the
\* badge counts a message of the others at most once and no echo of one's own:
\* what it shows, what opening the overlay has cleared, what was read live with
\* the overlay open and what is queued are together no more than the others
\* have posted.  A resync is not counted and a broadcast reaches a channel once
\* (pages/room.rs:618-628, components/controls.rs:25-30).
UnreadCountedOnce ==
    \A s \in Sessions :
        /\ view[s].open => view[s].unread = 0
        /\ view[s].unread + Cardinality(FromOthers(s, queue[s])) <= unseen[s]

\* What a page has shown is taken back by no resync, except by one that is
\* full of newer messages: a message is stored before it is broadcast and the
\* history of a resync is the newest part of the store (server/mod.rs:258-265,
\* server/chat.rs:47-56).
ResyncKeepsChat ==
    [][\A s \in Sessions : \A i \in 1 .. Len(view[s].chat) :
         LET old == view[s].chat[i]
             new == view'[s].chat
         IN  \/ \E j \in 1 .. Len(new) : new[j] = old
             \/ /\ Len(new) >= ResyncLimit \/ Len(new) >= MaxMessages
                /\ \A j \in 1 .. Len(new) : new[j].id > old.id]_viewVars

\* Under fair scheduling, a participant whose stream stays open ends up listing
\* for good every other participant that ever gets its own stream open
\* (README.md:111, server/mod.rs:153-157).
PresenceConverges ==
    \A s, p \in Sessions :
        (s # p /\ <>[](live[s] = "subscribed") /\ <>(live[p] = "subscribed"))
            => <>[](p \in DOMAIN view[s].peers)

\* A stream that nothing is sent to any more, because a re-join has replaced
\* its channel or because it has lost events, ends: its page does not go on
\* looking connected, and EventSource can open another one
\* (server/mod.rs:114-115, :172-177).
DeafStreamsEnd ==
    \A s \in Sessions :
        (live[s] = "severed" \/ Overrun(s)) ~> (live[s] = "closed")


\* What README.md:340-341 says of the badge, of a page that has shown some of
\* the chat: it counts whatever arrives while the overlay is shut.  A message
\* that will also arrive live may still be counted then.
BadgeCountsArrivals ==
    [][\A s \in Sessions :
         LET shown == view[s].chat
             new   == view'[s].chat
         IN  /\ ~view[s].open /\ ~view'[s].open
             /\ shown # << >>
             => view'[s].unread >= view[s].unread +
                  Cardinality({i \in 1 .. Len(new) :
                                 /\ new[i].id > shown[Len(shown)].id
                                 /\ new[i].id \notin Coming(s)'
                                 /\ new[i].from # s})]_viewVars
=============================================================================
