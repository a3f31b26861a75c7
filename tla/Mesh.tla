-------------------------------- MODULE Mesh --------------------------------
(***************************************************************************)
(* The mesh of every participant's page (services/webrtc.rs), composed     *)
(* with the server of RoomServer, over whose streams and relay the pages   *)
(* negotiate one peer connection per pair.                                 *)
(*                                                                         *)
(* A page visits the room: it joins, opens its event stream, and while the *)
(* camera and the ICE configuration are awaited it keeps the room's events *)
(* in a buffer, which the new mesh reads first (pages/room.rs:217-243).    *)
(* Leaving the room closes stream and connections; a reload is a leave and *)
(* another visit with the same session id.  The chat has no part in this.  *)
(*                                                                         *)
(* A signal is POSTed to the server.  Requests of one page overtake each   *)
(* other, and one may fail, which the page only logs.                      *)
(***************************************************************************)
EXTENDS RoomServer, PeerHandle

CONSTANTS
    Returning,       \* bound of the model: sessions that visit more than once
    MaxVisits,       \* bound of the model: visits of each of those
    MaxCandidates,   \* bound of the model: candidates per connection
    MaxBreaks,       \* bound of the model: streams that break
    MayFail          \* what may fail in an instance: "post", "op"

ASSUME MeshAssumption ==
    /\ Sessions \subseteq Nat      \* ids are ordered, as the strings are
    /\ SignalKinds = {"offer", "answer", "ice"}
    /\ MaxVisits \in Nat \ {0}
    /\ MaxCandidates \in Nat
    /\ MaxBreaks \in Nat
    /\ Bodies = (1 .. MaxVisits) \X (0 .. MaxVisits + MaxCandidates)

VARIABLES
    visit,   \* the number of the page visit of each session
    page,    \* how far its page has got
    early,   \* room events kept for the mesh that is being built
    peers,   \* the mesh: its handle for each other session, if it has one
    posts,   \* POSTs of signals the server has not handled yet
    breaks,  \* streams that have broken so far
    loss     \* history: whether a signal between two sessions has got lost,
             \* and if so, whether the one has read a resync since then

pageVars == <<visit, page, early, peers>>
netVars  == <<posts, breaks>>
meshVars == <<vars, pageVars, netVars, loss>>

\* No handle for the session.
NoHandle == [signaling |-> "closed"]

\* A resync, as the mesh reads it.
ResyncRead == [type : {"resync"}, peers : SUBSET Sessions]

Post == [from : Sessions, to : Sessions, type : SignalKinds, body : Bodies]

MeshTypeOK ==
    /\ TypeOK
    /\ visit \in [Sessions -> 0 .. MaxVisits]
    /\ page \in [Sessions -> {"away", "joined", "replaying", "ready"}]
    /\ early \in [Sessions -> Seq(Event \cup ResyncRead)]
    /\ peers \in [Sessions -> [Sessions -> Handle(Bodies) \cup {NoHandle}]]
    /\ posts \subseteq Post
    /\ breaks \in 0 .. MaxBreaks
    /\ loss \in [Sessions -> [Sessions -> {"none", "recent", "resynced"}]]

NoPeers == [p \in Sessions |-> NoHandle]

MeshInit ==
    /\ Init
    /\ visit = [s \in Sessions |-> 0]
    /\ page = [s \in Sessions |-> "away"]
    /\ early = [s \in Sessions |-> << >>]
    /\ peers = [s \in Sessions |-> NoPeers]
    /\ posts = {}
    /\ breaks = 0
    /\ loss = [s \in Sessions |-> [p \in Sessions |-> "none"]]

-----------------------------------------------------------------------------
(* Room events in the mesh. *)

\* Mutant: whoever meets the other first makes the offer.
WeInitiateAlways(s, p) == s # p

\* we_initiate: the session that sorts first makes the offer.
WeInitiate(s, p) == s < p

\* ensure_peer: a page has no connection with itself.
Ensured(s, m, p) == IF p # s /\ m[p] = NoHandle THEN NewHandle ELSE m[p]

\* The mesh is told that these sessions are in the room.
Meet(s, m, present) ==
    [p \in Sessions |-> IF p \in present
                        THEN MaybeOffer(Ensured(s, m, p), WeInitiate(s, p))
                        ELSE m[p]]

\* on_event.  Offers and candidates make the connection on demand, an answer
\* of a peer without one is dropped.
OnRoomEvent(s, m, e) ==
    CASE e.type = "resync"      -> Meet(s, m, e.peers)
      [] e.type = "peer_joined" -> Meet(s, m, {e.peer})
      [] e.type \in SignalKinds ->
           LET p == e.from
               h == IF e.type = "answer" THEN m[p] ELSE Ensured(s, m, p)
           IN  IF h = NoHandle THEN m
               ELSE [m EXCEPT ![p] =
                       CASE e.type = "offer" -> ApplyOffer(h, WeInitiate(s, p), e.body)
                         [] e.type = "answer" -> ApplyAnswer(h, e.body)
                         [] e.type = "ice" -> OnIce(h, WeInitiate(s, p), e.body)]
      [] OTHER -> m   \* the chat

-----------------------------------------------------------------------------
(* History. *)

\* A signal between the sessions of each of the pairs is lost.
Lose(pairs) ==
    loss' = [s \in Sessions |-> [p \in Sessions |->
               IF {s, p} \in pairs THEN "recent" ELSE loss[s][p]]]

\* Signals that s will not read when its stream goes.
UnreadSignals(s) ==
    {{s, queue[s][i].from} : i \in {j \in 1 .. Len(queue[s]) :
                                      queue[s][j].type \in SignalKinds}}

-----------------------------------------------------------------------------
(* The page. *)

\* The page is opened and joins with the room's password.
Enter(s) ==
    /\ page[s] = "away"
    /\ visit[s] < IF s \in Returning THEN MaxVisits ELSE 1
    /\ \E pw \in Passwords : Join(s, pw, pw, None)
    /\ visit' = [visit EXCEPT ![s] = visit[s] + 1]
    /\ page' = [page EXCEPT ![s] = "joined"]
    /\ UNCHANGED <<early, peers, netVars, loss>>

\* EventSource opens the stream, and opens it again when it has ended.
OpenEvents(s) ==
    /\ page[s] # "away"
    /\ SseSnapshot(s)
    /\ UNCHANGED <<pageVars, netVars, loss>>

\* The event handler gives a room event to the mesh, or keeps it for the mesh.
ToMesh(s, e) ==
    /\ page[s] # "replaying"
    /\ IF page[s] = "ready"
       THEN /\ peers' = [peers EXCEPT ![s] = OnRoomEvent(s, peers[s], e)]
            /\ UNCHANGED early
       ELSE /\ early' = [early EXCEPT ![s] = Append(early[s], e)]
            /\ UNCHANGED peers
    /\ UNCHANGED <<visit, page, netVars>>

ReadResync(s) ==
    /\ DeliverResync(s)
    /\ ToMesh(s, [type |-> "resync", peers |-> DOMAIN resync[s].peers])
    /\ loss' = [loss EXCEPT ![s] = [p \in Sessions |->
                  IF loss[s][p] = "none" THEN "none" ELSE "resynced"]]

ReadEvent(s) ==
    /\ DeliverEvent(s)
    /\ ToMesh(s, Head(queue[s]))
    /\ UNCHANGED loss

\* Mutant: the mesh starts with what comes from now on.
BuildMeshUnread(s) ==
    /\ page[s] = "joined"
    /\ page' = [page EXCEPT ![s] = "ready"]
    /\ early' = [early EXCEPT ![s] = << >>]
    /\ UNCHANGED <<vars, visit, peers, netVars, loss>>

\* Camera and ICE configuration are there.  The mesh reads what was kept, and
\* nothing else happens on the page until it has.
BuildMesh(s) ==
    /\ page[s] = "joined"
    /\ page' = [page EXCEPT ![s] = "replaying"]
    /\ UNCHANGED <<vars, visit, early, peers, netVars, loss>>

Replay(s) ==
    /\ page[s] = "replaying"
    /\ early[s] # << >>
    /\ peers' = [peers EXCEPT ![s] = OnRoomEvent(s, peers[s], Head(early[s]))]
    /\ early' = [early EXCEPT ![s] = Tail(early[s])]
    /\ UNCHANGED <<vars, visit, page, netVars, loss>>

MeshReady(s) ==
    /\ page[s] = "replaying"
    /\ early[s] = << >>
    /\ page' = [page EXCEPT ![s] = "ready"]
    /\ UNCHANGED <<vars, visit, early, peers, netVars, loss>>

\* on_cleanup, or the reload of the page.
Leave(s) ==
    /\ page[s] \in {"joined", "ready"}
    /\ \/ Disconnect(s)
       \/ sse[s] = SseIdle /\ live[s] = "closed" /\ UNCHANGED vars
    /\ page' = [page EXCEPT ![s] = "away"]
    /\ early' = [early EXCEPT ![s] = << >>]
    /\ peers' = [peers EXCEPT ![s] = NoPeers]
    /\ Lose(UnreadSignals(s))
    /\ UNCHANGED <<visit, netVars>>

\* The stream breaks ...
BreakStream(s) ==
    /\ breaks < MaxBreaks
    /\ Disconnect(s)
    /\ breaks' = breaks + 1
    /\ Lose(UnreadSignals(s))
    /\ UNCHANGED <<pageVars, posts>>

\* ... or the server ends it, because it lagged.
EndStream(s) ==
    /\ StreamLagged(s)
    /\ Lose(UnreadSignals(s))
    /\ UNCHANGED <<pageVars, netVars>>

-----------------------------------------------------------------------------
(* Peer connections. *)

\* The signal that follows an operation: the POST of the description.
Signalled(s, p, op) ==
    CASE op.do = "local_offer"  ->
           {[from |-> s, to |-> p, type |-> "offer", body |-> <<visit[s], 0>>]}
      [] op.do = "local_answer" ->
           {[from |-> s, to |-> p, type |-> "answer",
             body |-> <<visit[s], peers[s][p].remote[1]>>]}
      [] OTHER -> {}

\* The browser performs the oldest operation of the connection of s with p.
PerformOp(s, p) ==
    /\ page[s] = "ready"
    /\ peers[s][p] # NoHandle
    /\ peers[s][p].ops # << >>
    /\ IF Rejects(peers[s][p])
       THEN /\ peers' = [peers EXCEPT ![s][p] = Failed(peers[s][p])]
            /\ UNCHANGED posts
       ELSE /\ peers' = [peers EXCEPT ![s][p] = Performed(peers[s][p])]
            /\ posts' = posts \cup Signalled(s, p, Head(peers[s][p].ops))
    /\ UNCHANGED <<vars, visit, page, early, breaks, loss>>

\* ... or rejects it.
FailOp(s, p) ==
    /\ "op" \in MayFail
    /\ page[s] = "ready"
    /\ peers[s][p] # NoHandle
    /\ peers[s][p].ops # << >>
    /\ peers' = [peers EXCEPT ![s][p] = Failed(peers[s][p])]
    /\ Lose({{s, p}})
    /\ UNCHANGED <<vars, visit, page, early, netVars>>

\* A connection with a local description gathers candidates, each of which is
\* signalled to its peer.
Gather(s, p) ==
    LET n == peers[s][p].gathered + 1
    IN  /\ page[s] = "ready"
        /\ peers[s][p] # NoHandle
        /\ peers[s][p].local
        /\ n <= MaxCandidates
        /\ peers' = [peers EXCEPT ![s][p] =
                       [peers[s][p] EXCEPT !.gathered = n]]
        /\ posts' = posts \cup {[from |-> s, to |-> p, type |-> "ice",
                                 body |-> <<visit[s], n>>]}
        /\ UNCHANGED <<vars, visit, page, early, breaks, loss>>

\* The POST is over.  The task that answered drains once more.
Posted(r) ==
    /\ posts' = posts \ {r}
    /\ peers' = IF /\ r.type = "answer"
                   /\ peers[r.from][r.to] # NoHandle
                   /\ visit[r.from] = r.body[1]
                THEN [peers EXCEPT ![r.from][r.to] =
                        Drain(peers[r.from][r.to], "end")]
                ELSE peers
    /\ UNCHANGED <<visit, page, early, breaks>>

Relay(r) ==
    /\ Signal(r.from, r.to, r.type, r.body)
    /\ Posted(r)
    /\ Lose(IF queue' = queue THEN {{r.from, r.to}} ELSE {})

PostFails(r) ==
    /\ "post" \in MayFail
    /\ Posted(r)
    /\ Lose({{r.from, r.to}})
    /\ UNCHANGED vars

-----------------------------------------------------------------------------

ServerStep ==
    /\ \E s \in Sessions : Handler(s)
    /\ UNCHANGED <<pageVars, netVars, loss>>

MeshNext ==
    \/ \E s \in Sessions :
         \/ Enter(s)
         \/ OpenEvents(s)
         \/ ReadResync(s)
         \/ ReadEvent(s)
         \/ BuildMesh(s)
         \/ Replay(s)
         \/ MeshReady(s)
         \/ Leave(s)
         \/ BreakStream(s)
         \/ EndStream(s)
         \/ \E p \in Sessions : PerformOp(s, p) \/ FailOp(s, p) \/ Gather(s, p)
    \/ \E r \in posts : Relay(r) \/ PostFails(r)
    \/ ServerStep

MeshSpec == MeshInit /\ [][MeshNext]_meshVars

\* tokio runs handlers to their end, the browser performs what is called,
\* gathers candidates, reads its streams and reopens them; the camera prompt
\* is answered, and a request reaches the server.
MeshFairness ==
    /\ \A s \in Sessions :
         /\ WF_meshVars(Handler(s) /\ UNCHANGED <<pageVars, netVars, loss>>)
         /\ WF_meshVars(OpenEvents(s))
         /\ WF_meshVars(ReadResync(s) \/ ReadEvent(s))
         /\ WF_meshVars(BuildMesh(s) \/ Replay(s) \/ MeshReady(s))
         /\ WF_meshVars(EndStream(s))
         /\ \A p \in Sessions : WF_meshVars(PerformOp(s, p))
                               /\ WF_meshVars(Gather(s, p))
    /\ WF_meshVars(\E r \in posts : Relay(r))

FairMeshSpec == MeshSpec /\ MeshFairness

-----------------------------------------------------------------------------
(* Pairs. *)

\* The stream of s is open, as the server has it too.
Listening(s) == Streaming(s) /\ live[s] = "subscribed"

\* The page of s has its mesh built, and its stream is open and read.
UpToDate(s) ==
    /\ page[s] = "ready"
    /\ Listening(s)
    /\ resync[s] = None
    /\ queue[s] = << >>

\* The pages of s and p have read everything, and nothing of the pair is under
\* way.
Settled(s, p) ==
    /\ \A x \in {s, p} : UpToDate(x)
    /\ \A x, y \in {s, p} : x # y /\ peers[x][y] # NoHandle =>
         /\ peers[x][y].ops = << >>
         /\ ~peers[x][y].local \/ peers[x][y].gathered = MaxCandidates
    /\ \A r \in posts : {r.from, r.to} # {s, p}

\* Offer and answer of the two have met, in the visits they are in, and each
\* has all candidates of the other.
Linked(s, p) ==
    LET h == peers[s][p]
        g == peers[p][s]
        candidates(x) == {<<visit[x], n>> : n \in 1 .. MaxCandidates}
    IN  /\ h # NoHandle /\ g # NoHandle
        /\ h.signaling = "stable" /\ g.signaling = "stable"
        /\ h.remote = <<visit[p], visit[s]>>
        /\ g.remote = <<visit[s], 0>>
        /\ {h.added[i] : i \in 1 .. Len(h.added)} = candidates(p)
        /\ {g.added[i] : i \in 1 .. Len(g.added)} = candidates(s)

\* The pair of two first visits.
FirstVisits(s, p) == visit[s] = 1 /\ visit[p] = 1

\* How often the members of S stand in q.
Count(q, S) == Cardinality({i \in 1 .. Len(q) : q[i] \in S})

\* Signals of a kind that p makes, with one of the bodies B.
SignalsOf(p, kind, B) == [type : {kind}, from : {p}, made_for : Sessions, body : B]

\* How many of them s has not read: posted, in its stream, or kept for its mesh.
OnTheWay(s, p, kind, B) ==
    Cardinality(posts \cap [from : {p}, to : {s}, type : {kind}, body : B])
        + Count(queue[s], SignalsOf(p, kind, B))
        + Count(early[s], SignalsOf(p, kind, B))

Ops(h) == {h.ops[i].do : i \in 1 .. Len(h.ops)}

\* s has an offer to p outstanding, or is making one.
Offering(s, p) ==
    LET h == peers[s][p]
    IN  /\ h # NoHandle
        /\ \/ h.signaling = "have-local-offer"
           \/ \E i \in 1 .. Len(h.ops) :
                h.ops[i].do \in {"create_offer", "local_offer"}

\* An offer of p is on its way to s.
OfferComing(s, p) ==
    LET is(e) == e.type = "offer" /\ e.from = p
    IN  \/ \E i \in 1 .. Len(queue[s]) : is(queue[s][i])
        \/ \E i \in 1 .. Len(early[s]) : is(early[s][i])
        \/ \E r \in posts : is(r) /\ r.to = s

-----------------------------------------------------------------------------
(* Properties. *)

\* Whatever signals are lost, however often pages are reloaded, streams break
\* or lag: a page that has read everything has a connection with every page
\* that listens, for the later of the two is announced to the earlier one, or
\* stands in its resync (handle_sse, server/mod.rs:138-168; sse_handler,
\* pages/room.rs:562-587).
PagesMeet ==
    \A s, p \in Sessions :
        s # p /\ UpToDate(s) /\ Listening(p) => peers[s][p] # NoHandle

\* In whatever order two pages join, open and reopen their streams, build
\* their meshes and overtake each other's signals: once everything is read, a
\* pair that lost no signal is connected and has all candidates
\* (services/webrtc.rs:6-11, server/mod.rs:153-157).
UndisturbedPairsLink ==
    \A s, p \in Sessions :
        /\ WeInitiate(s, p)
        /\ Settled(s, p)
        /\ FirstVisits(s, p)
        /\ loss[s][p] = "none"
        => Linked(s, p)

\* Exactly one offer is made per pair, and no offer or answer lands on a
\* connection that is already negotiating: while pages are not reloaded, what
\* apply_offer and apply_answer ignore never comes (services/webrtc.rs:8-11,
\* :405-416, :466-471).
SignalsWelcome ==
    \A s, p \in Sessions :
        FirstVisits(s, p) /\ page[s] # "away" =>
            LET h       == peers[s][p]
                offers  == OnTheWay(s, p, "offer", Bodies)
                answers == OnTheWay(s, p, "answer", Bodies)
            IN  /\ offers <= 1
                /\ offers # 0 => /\ WeInitiate(p, s)
                                 /\ TakesOffer(Ensured(s, peers[s], p), FALSE)
                /\ answers <= 1
                /\ answers # 0 => /\ WeInitiate(s, p)
                                  /\ h # NoHandle
                                  /\ TakesAnswer(h)
                                  /\ "remote_answer" \notin Ops(h)

\* No glare, in any order of joins and reloads and whatever is lost: nobody has
\* an offer to a peer outstanding, or in the making, while the peer has one to
\* it, and no offer is underway to who has one of its own
\* (services/webrtc.rs:8-11).
NoGlare ==
    \A s, p \in Sessions :
        Offering(s, p) => ~Offering(p, s) /\ ~OfferComing(s, p)

\* The places of a candidate in a handle: waiting, being added, added.
Kept(h, b) ==
    IF h = NoHandle THEN 0
    ELSE Count(h.pending, {b}) + Count(h.added, {b})
           + Count(h.ops, [do : {"add"}, body : {b}, then : {"end", "answer"}])

\* Although candidates overtake descriptions and drains run at once, every
\* candidate that was gathered is in one place: on its way, waiting for the
\* description, being added or added; none is lost, none is added twice
\* (drain_ice, services/webrtc.rs:606-623).
CandidatesOnce ==
    \A s, p \in Sessions :
        /\ FirstVisits(s, p)
        /\ loss[s][p] = "none"
        /\ page[s] # "away"
        /\ peers[p][s] # NoHandle
        => \A b \in Bodies :
             OnTheWay(s, p, "ice", {b}) + Kept(peers[s][p], b) =
               IF b \in {<<visit[p], n>> : n \in 1 .. peers[p][s].gathered}
               THEN 1 ELSE 0

\* Under fair scheduling two pages that stay, and lose no signal, connect
\* (README.md:111-130).
PairsConnect ==
    \A s, p \in Sessions :
        /\ WeInitiate(s, p)
        /\ <>[](page[s] # "away" /\ page[p] # "away")
        /\ [](loss[s][p] = "none")
        => <>[]Linked(s, p)

\* What services/webrtc.rs:466-467 says of the check of apply_answer: an answer
\* that is applied is one to the offer this connection sent.
AnswersMatchOffer ==
    \A s, p \in Sessions :
        WeInitiate(s, p) /\ peers[s][p] # NoHandle
            => \/ peers[s][p].remote = NoBody
               \/ peers[s][p].remote[2] = visit[s]

\* What README.md:460-462, services/webrtc.rs:184-185 and server/rooms.rs:58-60
\* say of a signal that is dropped, its peer not being there or having left: the
\* pair is rebuilt from the next resync.
RebuiltFromResync ==
    \A s, p \in Sessions :
        /\ WeInitiate(s, p)
        /\ Settled(s, p)
        /\ loss[s][p] = "resynced" /\ loss[p][s] = "resynced"
        => Linked(s, p)
=============================================================================
