----------------------------- MODULE Mesh_proofs -----------------------------
(***************************************************************************)
(* Proofs about Mesh: the pages use the server as RoomServer allows, so    *)
(* that what is proved of the server holds with the meshes on top of it,   *)
(* and the tie-break rules glare out, over any number of visits.           *)
(*                                                                         *)
(* What has to be known of handles, events and POSTs for this is put into  *)
(* sets that are narrower than those of MeshTypeOK, so that the invariant  *)
(* is one of membership in sets.                                           *)
(*                                                                         *)
(* After the theorems follow the lemmas about pairs of pages that          *)
(* MeshSignals_proofs and MeshLinks_proofs build on.                       *)
(***************************************************************************)
EXTENDS Mesh, RoomServer_proofs

\* Operations that may wait on a connection: those of an offer, and those that
\* take an answer, are for the initiator; those of an answer are for the other
\* and follow a remote description.
FitOp(described, mine) ==
    {o \in Op(Bodies) :
        /\ o.do \in {"create_answer", "local_answer"} \/ o.then = "answer"
             => described /\ ~mine
        /\ o.do = "remote_offer" => ~mine
        /\ o.do \in {"create_offer", "local_offer", "remote_answer"} => mine}

FitHandle(mine) ==
    {h \in Handle(Bodies) :
        /\ h.ops \in Seq(FitOp(h.remote # NoBody, mine))
        /\ h.signaling = "have-local-offer" => mine
        /\ h.signaling = "have-remote-offer" => ~mine}

-----------------------------------------------------------------------------
(* Handlers keep handles fit. *)

LEMMA SeqOfMore ==
    ASSUME NEW S, NEW T, S \subseteq T, NEW q \in Seq(S)
    PROVE  q \in Seq(T)
  BY SeqDef

\* A connection is made without operations.
LEMMA NewHandleFits ==
    ASSUME NEW mine \in BOOLEAN
    PROVE  NewHandle \in FitHandle(mine)
  BY EmptySeq DEF NewHandle, FitHandle, Handle

\* Another operation is called.
LEMMA OpFits ==
    ASSUME NEW mine \in BOOLEAN, NEW h \in FitHandle(mine),
           NEW o \in FitOp(h.remote # NoBody, mine)
    PROVE  [h EXCEPT !.ops = Append(h.ops, o)] \in FitHandle(mine)
  <1> DEFINE called == Append(h.ops, o)
             left   == [h EXCEPT !.ops = called]
  <1>1. called \in Seq(FitOp(h.remote # NoBody, mine))
    BY AppendProperties DEF FitHandle
  <1>2. called \in Seq(Op(Bodies))
    BY <1>1, SeqOfMore DEF FitOp
  <1> HIDE DEF called
  <1>3. /\ left \in Handle(Bodies)
        /\ left.ops = called
        /\ left.remote = h.remote
        /\ left.signaling = h.signaling
    BY <1>2 DEF FitHandle, Handle
  <1> HIDE DEF left
  <1>4. left \in FitHandle(mine)
    BY <1>1, <1>3 DEF FitHandle
  <1> QED  BY <1>4 DEF left, called

LEMMA CallFits ==
    ASSUME NEW mine \in BOOLEAN, NEW h \in FitHandle(mine), NEW do, NEW body,
           [do |-> do, body |-> body, then |-> "end"]
              \in FitOp(h.remote # NoBody, mine)
    PROVE  Call(h, do, body) \in FitHandle(mine)
  <1> DEFINE o == [do |-> do, body |-> body, then |-> "end"]
  <1>1. Call(h, do, body) = [h EXCEPT !.ops = Append(h.ops, o)]
    BY DEF Call
  <1> HIDE DEF o
  <1>2. o \in FitOp(h.remote # NoBody, mine)
    BY DEF o
  <1> QED  BY <1>1, <1>2, OpFits

LEMMA DrainFits ==
    ASSUME NEW mine \in BOOLEAN, NEW h \in FitHandle(mine),
           NEW then \in {"end", "answer"},
           then = "answer" => h.remote # NoBody /\ ~mine
    PROVE  Drain(h, then) \in FitHandle(mine)
  <1>1. CASE h.pending # << >>
    <2> DEFINE o == [do |-> "add", body |-> Head(h.pending), then |-> then]
               less == [h EXCEPT !.pending = Tail(h.pending)]
    <2>1. Head(h.pending) \in Bodies /\ Tail(h.pending) \in Seq(Bodies)
      BY <1>1, HeadTailProperties DEF FitHandle, Handle
    <2>2. o \in FitOp(h.remote # NoBody, mine)
      BY <2>1 DEF FitOp, Op
    <2>3. /\ less \in FitHandle(mine)
          /\ less.remote = h.remote
          /\ less.ops = h.ops
      BY <2>1 DEF FitHandle, Handle
    <2>4. Drain(h, then) = [less EXCEPT !.ops = Append(less.ops, o)]
      BY <1>1, <2>3 DEF Drain, FitHandle, Handle
    <2> HIDE DEF o, less
    <2> QED  BY <2>2, <2>3, <2>4, OpFits
  <1>2. CASE h.pending = << >> /\ then = "answer"
    <2>1. [do |-> "create_answer", body |-> NoBody, then |-> "end"]
             \in FitOp(h.remote # NoBody, mine)
      BY <1>2 DEF FitOp, Op
    <2>2. Drain(h, then) = Call(h, "create_answer", NoBody)
      BY <1>2 DEF Drain
    <2> QED  BY <2>1, <2>2, CallFits
  <1>3. CASE h.pending = << >> /\ then = "end"
    BY <1>3 DEF Drain
  <1> QED  BY <1>1, <1>2, <1>3

LEMMA MaybeOfferFits ==
    ASSUME NEW mine \in BOOLEAN, NEW h \in FitHandle(mine)
    PROVE  MaybeOffer(h, mine) \in FitHandle(mine)
  <1> DEFINE marked == [h EXCEPT !.negotiated = TRUE]
  <1>1. CASE MaybeOffer(h, mine) = h
    BY <1>1
  <1>2. CASE mine /\ MaybeOffer(h, mine) = Call(marked, "create_offer", NoBody)
    <2>1. marked \in FitHandle(mine)
      BY DEF FitHandle, Handle
    <2>2. [do |-> "create_offer", body |-> NoBody, then |-> "end"]
             \in FitOp(marked.remote # NoBody, mine)
      BY <1>2 DEF FitOp, Op
    <2> HIDE DEF marked
    <2> QED  BY <1>2, <2>1, <2>2, CallFits
  <1> QED  BY <1>1, <1>2 DEF MaybeOffer

LEMMA ApplyFits ==
    ASSUME NEW mine \in BOOLEAN, NEW h \in FitHandle(mine), NEW b \in Bodies,
           NEW do, do = (IF mine THEN "remote_answer" ELSE "remote_offer")
    PROVE  Call([h EXCEPT !.remote_set = TRUE], do, b) \in FitHandle(mine)
  <1> DEFINE marked == [h EXCEPT !.remote_set = TRUE]
  <1>1. marked \in FitHandle(mine)
    BY DEF FitHandle, Handle
  <1>2. [do |-> do, body |-> b, then |-> "end"]
           \in FitOp(marked.remote # NoBody, mine)
    BY DEF FitOp, Op
  <1> HIDE DEF marked
  <1>3. Call(marked, do, b) \in FitHandle(mine)
    BY <1>1, <1>2, CallFits
  <1> QED  BY <1>3 DEF marked

LEMMA OnIceFits ==
    ASSUME NEW mine \in BOOLEAN, NEW h \in FitHandle(mine), NEW b \in Bodies
    PROVE  OnIce(h, mine, b) \in FitHandle(mine)
  <1> DEFINE offered == MaybeOffer(h, mine)
             queued  == [offered EXCEPT !.pending = Append(offered.pending, b)]
  <1>1. offered \in FitHandle(mine)
    BY MaybeOfferFits
  <1> HIDE DEF offered
  <1>2. Append(offered.pending, b) \in Seq(Bodies)
    BY <1>1, AppendProperties DEF FitHandle, Handle
  <1>3. queued \in FitHandle(mine)
    BY <1>1, <1>2 DEF FitHandle, Handle
  <1>4. OnIce(h, mine, b) \in {Drain(queued, "end"), queued}
    BY DEF OnIce, offered
  <1> HIDE DEF queued
  <1> QED  BY <1>3, <1>4, DrainFits

LEMMA NoBodyIsNone == NoBody \notin Bodies
  <1>1. \A b \in Bodies : Len(b) = 2
    BY MeshAssumption
  <1> QED  BY <1>1, EmptySeq DEF NoBody

\* The oldest operation leaves the chain.
LEMMA RestFits ==
    ASSUME NEW mine \in BOOLEAN, NEW h \in FitHandle(mine), h.ops # << >>
    PROVE  /\ Head(h.ops) \in FitOp(h.remote # NoBody, mine)
           /\ [h EXCEPT !.ops = Tail(h.ops)] \in FitHandle(mine)
  <1> DEFINE tail == Tail(h.ops)
             rest == [h EXCEPT !.ops = tail]
  <1>1. /\ Head(h.ops) \in FitOp(h.remote # NoBody, mine)
        /\ tail \in Seq(FitOp(h.remote # NoBody, mine))
    BY HeadTailProperties DEF FitHandle
  <1>2. tail \in Seq(Op(Bodies))
    BY <1>1, SeqOfMore DEF FitOp
  <1> HIDE DEF tail
  <1>3. /\ rest \in Handle(Bodies)
        /\ rest.ops = tail
        /\ rest.remote = h.remote
        /\ rest.signaling = h.signaling
    BY <1>2 DEF FitHandle, Handle
  <1> HIDE DEF rest
  <1>4. rest \in FitHandle(mine)
    BY <1>1, <1>3 DEF FitHandle
  <1> QED  BY <1>1, <1>4 DEF rest, tail

\* A remote description is set: what answers it may wait on the connection.
LEMMA DescribedFits ==
    ASSUME NEW mine \in BOOLEAN, NEW h \in FitHandle(mine), NEW b \in Bodies,
           NEW state \in {"stable", "have-remote-offer"},
           state = "have-remote-offer" => ~mine
    PROVE  /\ [h EXCEPT !.signaling = state, !.remote = b] \in FitHandle(mine)
           /\ [h EXCEPT !.signaling = state, !.remote = b].remote # NoBody
  <1> DEFINE left == [h EXCEPT !.signaling = state, !.remote = b]
  <1>1. b # NoBody
    BY NoBodyIsNone
  <1>2. FitOp(h.remote # NoBody, mine) \subseteq FitOp(TRUE, mine)
    BY DEF FitOp
  <1>3. h.ops \in Seq(FitOp(TRUE, mine))
    BY <1>2, SeqOfMore DEF FitHandle
  <1>4. /\ left \in Handle(Bodies)
        /\ left.ops = h.ops
        /\ left.remote = b
        /\ left.signaling = state
    BY DEF FitHandle, Handle
  <1> HIDE DEF left
  <1>5. FitOp(left.remote # NoBody, mine) = FitOp(TRUE, mine)
    BY <1>1, <1>4 DEF FitOp
  <1>6. left \in FitHandle(mine)
    BY <1>3, <1>4, <1>5 DEF FitHandle
  <1> QED  BY <1>1, <1>4, <1>6 DEF left

LEMMA PerformedFits ==
    ASSUME NEW mine \in BOOLEAN, NEW h \in FitHandle(mine), h.ops # << >>
    PROVE  Performed(h) \in FitHandle(mine)
  <1> DEFINE op   == Head(h.ops)
             rest == [h EXCEPT !.ops = Tail(h.ops)]
  <1>1. op \in FitOp(h.remote # NoBody, mine) /\ rest \in FitHandle(mine)
    BY RestFits
  <1>2. rest.remote = h.remote
    BY DEF FitHandle, Handle
  <1>3. Performed(h) =
          CASE op.do = "create_offer"  -> Call(rest, "local_offer", NoBody)
            [] op.do = "local_offer"   ->
                 [rest EXCEPT !.signaling = "have-local-offer", !.local = TRUE]
            [] op.do = "remote_offer"  -> OfferApplied(rest, op.body)
            [] op.do = "create_answer" -> Call(rest, "local_answer", NoBody)
            [] op.do = "local_answer"  ->
                 [rest EXCEPT !.signaling = "stable", !.local = TRUE]
            [] op.do = "remote_answer" -> AnswerApplied(rest, op.body)
            [] op.do = "add"           ->
                 Drain([rest EXCEPT !.added = Append(rest.added, op.body)], op.then)
    BY DEF Performed
  <1> HIDE DEF op, rest
  <1>4. op \in Op(Bodies)
    BY <1>1 DEF FitOp
  <1>5. CASE op.do \in {"create_offer", "create_answer"}
    <2> DEFINE next == IF op.do = "create_offer" THEN "local_offer" ELSE "local_answer"
    <2>1. [do |-> next, body |-> NoBody, then |-> "end"]
             \in FitOp(rest.remote # NoBody, mine)
      BY <1>1, <1>2, <1>5 DEF FitOp, Op
    <2>2. Performed(h) = Call(rest, next, NoBody)
      BY <1>3, <1>5
    <2> HIDE DEF next
    <2> QED  BY <1>1, <2>1, <2>2, CallFits
  <1>6. CASE op.do = "local_offer"
    <2>1. mine
      BY <1>1, <1>6 DEF FitOp
    <2>2. [rest EXCEPT !.signaling = "have-local-offer", !.local = TRUE]
             \in FitHandle(mine)
      BY <1>1, <2>1 DEF FitHandle, Handle
    <2> QED  BY <1>3, <1>6, <2>2
  <1>7. CASE op.do = "local_answer"
    <2>1. [rest EXCEPT !.signaling = "stable", !.local = TRUE] \in FitHandle(mine)
      BY <1>1 DEF FitHandle, Handle
    <2> QED  BY <1>3, <1>7, <2>1
  <1>8. CASE op.do = "remote_offer"
    <2> DEFINE left == [rest EXCEPT !.signaling = "have-remote-offer",
                                    !.remote = op.body]
    <2>1. op.body \in Bodies /\ ~mine
      BY <1>1, <1>4, <1>8 DEF FitOp, Op
    <2>2. left \in FitHandle(mine) /\ left.remote # NoBody
      BY <1>1, <2>1, DescribedFits
    <2>3. Performed(h) = Drain(left, "answer")
      BY <1>3, <1>8 DEF OfferApplied
    <2> HIDE DEF left
    <2> QED  BY <2>1, <2>2, <2>3, DrainFits
  <1>9. CASE op.do = "remote_answer"
    <2> DEFINE left == [rest EXCEPT !.signaling = "stable", !.remote = op.body]
    <2>1. op.body \in Bodies
      BY <1>4, <1>9 DEF Op
    <2>2. left \in FitHandle(mine)
      BY <1>1, <2>1, DescribedFits
    <2>3. Performed(h) = Drain(left, "end")
      BY <1>3, <1>9 DEF AnswerApplied
    <2> HIDE DEF left
    <2> QED  BY <2>2, <2>3, DrainFits
  <1>10. CASE op.do = "add"
    <2> DEFINE left == [rest EXCEPT !.added = Append(rest.added, op.body)]
    <2>1. op.body \in Bodies /\ op.then \in {"end", "answer"}
      BY <1>4, <1>10 DEF Op
    <2>2. Append(rest.added, op.body) \in Seq(Bodies)
      BY <1>1, <2>1, AppendProperties DEF FitHandle, Handle
    <2>3. left \in FitHandle(mine) /\ left.remote = h.remote
      BY <1>1, <1>2, <2>2 DEF FitHandle, Handle
    <2>4. op.then = "answer" => h.remote # NoBody /\ ~mine
      BY <1>1 DEF FitOp
    <2>5. Performed(h) = Drain(left, op.then)
      BY <1>3, <1>10
    <2> HIDE DEF left
    <2> QED  BY <2>1, <2>3, <2>4, <2>5, DrainFits
  <1> QED  BY <1>4, <1>5, <1>6, <1>7, <1>8, <1>9, <1>10 DEF Op

LEMMA FailedFits ==
    ASSUME NEW mine \in BOOLEAN, NEW h \in FitHandle(mine), h.ops # << >>
    PROVE  Failed(h) \in FitHandle(mine)
  <1> DEFINE op   == Head(h.ops)
             rest == [h EXCEPT !.ops = Tail(h.ops)]
  <1>1. op \in FitOp(h.remote # NoBody, mine) /\ rest \in FitHandle(mine)
    BY RestFits
  <1>2. rest.remote = h.remote
    BY DEF FitHandle, Handle
  <1>3. Failed(h) \in {Drain(rest, "end"), Drain(rest, op.then), rest}
        /\ (op.do # "add" => Failed(h) \in {Drain(rest, "end"), rest})
    BY DEF Failed
  <1> HIDE DEF rest, op
  <1>4. op.do = "add" => op.then \in {"end", "answer"}
    BY <1>1 DEF FitOp, Op
  <1>5. op.then = "answer" => rest.remote # NoBody /\ ~mine
    BY <1>1, <1>2 DEF FitOp
  <1> QED  BY <1>1, <1>3, <1>4, <1>5, DrainFits

-----------------------------------------------------------------------------
(* Room events keep the handles of a page fit. *)

\* A page has no connection with itself, and offers only where it initiates.
FitPeer(s, p) ==
    IF p = s THEN {NoHandle} ELSE FitHandle(WeInitiate(s, p)) \cup {NoHandle}

FitMesh(s, m) ==
    /\ m \in [Sessions -> Handle(Bodies) \cup {NoHandle}]
    /\ \A p \in Sessions : m[p] \in FitPeer(s, p)

\* Offers come from those who initiate, and answers go to them.
FitEvent(s) ==
    {e \in Event : /\ e.type = "offer" => WeInitiate(e.from, s)
                   /\ e.type = "answer" => WeInitiate(s, e.from)}

LEMMA InitiateType ==
    ASSUME NEW s \in Sessions, NEW p \in Sessions
    PROVE  /\ WeInitiate(s, p) \in BOOLEAN
           /\ WeInitiate(s, p) => ~WeInitiate(p, s)
           /\ WeInitiate(s, p) => s # p
  BY MeshAssumption DEF WeInitiate

\* One handle of a mesh is replaced.
LEMMA MeshWith ==
    ASSUME NEW s \in Sessions, NEW p \in Sessions, NEW m, FitMesh(s, m),
           NEW h \in FitPeer(s, p)
    PROVE  FitMesh(s, [m EXCEPT ![p] = h])
  <1>1. h \in Handle(Bodies) \cup {NoHandle}
    BY DEF FitPeer, FitHandle
  <1> QED  BY <1>1 DEF FitMesh

LEMMA EnsuredFits ==
    ASSUME NEW s \in Sessions, NEW p \in Sessions, NEW m, FitMesh(s, m)
    PROVE  /\ Ensured(s, m, p) \in FitPeer(s, p)
           /\ p # s => Ensured(s, m, p) \in FitHandle(WeInitiate(s, p))
  BY NewHandleFits, InitiateType DEF Ensured, FitMesh, FitPeer

LEMMA MeetFits ==
    ASSUME NEW s \in Sessions, NEW m, FitMesh(s, m), NEW present
    PROVE  FitMesh(s, Meet(s, m, present))
  <1> DEFINE met(p) == IF p \in present
                       THEN MaybeOffer(Ensured(s, m, p), WeInitiate(s, p))
                       ELSE m[p]
  <1>1. ASSUME NEW p \in Sessions
        PROVE  met(p) \in FitPeer(s, p)
    <2>1. CASE p \notin present
      BY <2>1 DEF FitMesh
    <2>2. CASE p \in present /\ p # s
      BY <2>2, EnsuredFits, InitiateType, MaybeOfferFits DEF FitPeer
    <2>3. CASE p \in present /\ p = s
      <3>1. Ensured(s, m, p) = NoHandle /\ ~WeInitiate(s, p)
        BY <2>3, InitiateType DEF Ensured, FitMesh, FitPeer
      <3> QED  BY <2>3, <3>1 DEF MaybeOffer, FitPeer
    <2> QED  BY <2>1, <2>2, <2>3
  <1>2. \A p \in Sessions : FitPeer(s, p) \subseteq Handle(Bodies) \cup {NoHandle}
    BY DEF FitPeer, FitHandle
  <1>3. Meet(s, m, present) = [p \in Sessions |-> met(p)]
    BY DEF Meet
  <1> HIDE DEF met
  <1> QED  BY <1>1, <1>2, <1>3 DEF FitMesh

LEMMA OnRoomEventFits ==
    ASSUME NEW s \in Sessions, NEW m, FitMesh(s, m),
           NEW e \in FitEvent(s) \cup ResyncRead
    PROVE  FitMesh(s, OnRoomEvent(s, m, e))
  <1>1. CASE e.type = "resync"
    <2>1. OnRoomEvent(s, m, e) = Meet(s, m, e.peers)
      BY <1>1, MeshAssumption DEF OnRoomEvent
    <2> QED  BY <2>1, MeetFits
  <1>2. CASE e.type = "peer_joined"
    <2>1. OnRoomEvent(s, m, e) = Meet(s, m, {e.peer})
      BY <1>2, MeshAssumption DEF OnRoomEvent
    <2> QED  BY <2>1, MeetFits
  <1>3. CASE e.type \in SignalKinds
    <2> DEFINE p == e.from
               h == IF e.type = "answer" THEN m[p] ELSE Ensured(s, m, p)
               mine == WeInitiate(s, p)
               left == CASE e.type = "offer" -> ApplyOffer(h, mine, e.body)
                         [] e.type = "answer" -> ApplyAnswer(h, e.body)
                         [] e.type = "ice" -> OnIce(h, mine, e.body)
    <2>1. e.from \in Sessions /\ e.body \in Bodies
      BY <1>3, ServerAssumption, MeshAssumption DEF FitEvent, Event, ResyncRead
    <2>2. OnRoomEvent(s, m, e) = IF h = NoHandle THEN m ELSE [m EXCEPT ![p] = left]
      BY <1>3, ServerAssumption, MeshAssumption DEF OnRoomEvent
    <2>3. h \in FitPeer(s, p)
      BY <2>1, EnsuredFits DEF FitMesh
    <2>4. mine \in BOOLEAN
      BY <2>1, InitiateType
    <2>5. ASSUME h # NoHandle
          PROVE  left \in FitPeer(s, p)
      <3>1. h \in FitHandle(mine) /\ p # s
        BY <2>3, <2>5 DEF FitPeer
      <3> HIDE DEF h, mine, p
      <3>2. e.type = "offer" => ApplyOffer(h, mine, e.body) \in FitHandle(mine)
        <4>1. e.type = "offer" => ~mine
          BY <1>3, <2>1, InitiateType DEF FitEvent, ResyncRead, mine, p
        <4> QED  BY <2>1, <2>4, <3>1, <4>1, ApplyFits DEF ApplyOffer
      <3>3. ApplyAnswer(h, e.body) \in FitHandle(mine)
        <4>1. TakesAnswer(h) => mine
          BY <3>1 DEF FitHandle, TakesAnswer
        <4> QED  BY <2>1, <2>4, <3>1, <4>1, ApplyFits DEF ApplyAnswer
      <3>4. OnIce(h, mine, e.body) \in FitHandle(mine)
        BY <2>1, <2>4, <3>1, OnIceFits
      <3>5. left \in FitHandle(mine)
        BY <1>3, <3>2, <3>3, <3>4, MeshAssumption
      <3>6. FitHandle(mine) \subseteq FitPeer(s, p)
        BY <3>1 DEF FitPeer, mine
      <3> HIDE DEF left
      <3> QED  BY <3>5, <3>6
    <2> HIDE DEF left, h, mine, p
    <2>6. p \in Sessions
      BY <2>1 DEF p
    <2> QED  BY <2>2, <2>5, <2>6, MeshWith
  <1>4. CASE e.type \notin {"resync", "peer_joined"} \cup SignalKinds
    BY <1>4 DEF OnRoomEvent
  <1> QED  BY <1>1, <1>2, <1>3, <1>4

-----------------------------------------------------------------------------
(* The invariant. *)

FitPost ==
    {r \in Post : /\ r.from # r.to
                  /\ r.type = "offer" => WeInitiate(r.from, r.to)
                  /\ r.type = "answer" => WeInitiate(r.to, r.from)}

StreamsFit == \A s \in Sessions : queue[s] \in Seq(FitEvent(s))

PagesFit ==
    /\ early \in [Sessions -> Seq(Event \cup ResyncRead)]
    /\ peers \in [Sessions -> [Sessions -> Handle(Bodies) \cup {NoHandle}]]
    /\ \A s \in Sessions :
         /\ early[s] \in Seq(FitEvent(s) \cup ResyncRead)
         /\ FitMesh(s, peers[s])
         /\ page[s] # "away" => visit[s] # 0

PostsFit == posts \subseteq FitPost

MeshInv == MeshTypeOK /\ StreamsFit /\ PagesFit /\ PostsFit

-----------------------------------------------------------------------------
(* Every step is a step of the server, or none. *)

LEMMA ServerStepped ==
    PostsFit /\ [MeshNext]_meshVars => [Next]_vars
  <1> SUFFICES ASSUME PostsFit, [MeshNext]_meshVars PROVE [Next]_vars
    OBVIOUS
  <1>1. ASSUME NEW s \in Sessions, Enter(s)
        PROVE  Next
    <2>1. PICK pw \in Passwords : Join(s, pw, pw, None)
      BY <1>1 DEF Enter
    <2> QED  BY <2>1 DEF Next
  <1>2. ASSUME NEW s \in Sessions, OpenEvents(s)
        PROVE  Next
    BY <1>2 DEF OpenEvents, Next
  <1>3. ASSUME NEW s \in Sessions, ReadResync(s) \/ ReadEvent(s)
        PROVE  Next
    BY <1>3 DEF ReadResync, ReadEvent, Next, Stream
  <1>4. ASSUME NEW s \in Sessions, Leave(s)
        PROVE  [Next]_vars
    BY <1>4 DEF Leave, Next
  <1>5. ASSUME NEW s \in Sessions, BreakStream(s) \/ EndStream(s)
        PROVE  Next
    BY <1>5 DEF BreakStream, EndStream, Next, Stream
  <1>6. ASSUME NEW r \in posts, Relay(r)
        PROVE  Next
    <2>1. /\ r.from \in Sessions
          /\ r.to \in Sessions \ {r.from}
          /\ r.type \in SignalKinds
          /\ r.body \in Bodies
      BY DEF PostsFit, FitPost, Post
    <2>2. Signal(r.from, r.to, r.type, r.body)
      BY <1>6 DEF Relay
    <2> QED  BY <2>1, <2>2 DEF Next
  <1>7. ASSUME ServerStep
        PROVE  Next
    BY <1>7 DEF ServerStep, Next
  <1>8. ASSUME UNCHANGED vars
        PROVE  [Next]_vars
    BY <1>8
  <1> QED
    BY <1>1, <1>2, <1>3, <1>4, <1>5, <1>6, <1>7, <1>8
    DEF MeshNext, meshVars, BuildMesh, Replay, MeshReady, PerformOp, FailOp,
        Gather, PostFails

-----------------------------------------------------------------------------
\* What each action leaves alone.
LEMMA Frame ==
    /\ \A s \in Sessions :
         /\ Enter(s) => UNCHANGED <<queue, early, peers, posts, breaks, loss>>
         /\ OpenEvents(s) =>
              UNCHANGED <<queue, visit, page, early, peers, posts, breaks, loss>>
         /\ ReadResync(s) => UNCHANGED <<queue, visit, page, posts, breaks>>
         /\ ReadEvent(s) => UNCHANGED <<visit, page, posts, breaks, loss>>
         /\ BuildMesh(s) =>
              UNCHANGED <<queue, visit, early, peers, posts, breaks, loss>>
         /\ Replay(s) => UNCHANGED <<queue, visit, page, posts, breaks, loss>>
         /\ MeshReady(s) =>
              UNCHANGED <<queue, visit, early, peers, posts, breaks, loss>>
         /\ Leave(s) => UNCHANGED <<visit, posts, breaks>>
         /\ BreakStream(s) => UNCHANGED <<visit, page, early, peers, posts>>
         /\ EndStream(s) => UNCHANGED <<visit, page, early, peers, posts, breaks>>
    /\ \A s, p \in Sessions :
         /\ PerformOp(s, p) => UNCHANGED <<queue, visit, page, early, breaks, loss>>
         /\ FailOp(s, p) => UNCHANGED <<queue, visit, page, early, posts, breaks>>
         /\ Gather(s, p) => UNCHANGED <<queue, visit, page, early, breaks, loss>>
    /\ \A r \in posts :
         /\ Relay(r) => UNCHANGED <<visit, page, early, breaks>>
         /\ PostFails(r) => UNCHANGED <<queue, visit, page, early, breaks>>
    /\ ServerStep => UNCHANGED <<visit, page, early, peers, posts, breaks, loss>>
    /\ UNCHANGED meshVars =>
         UNCHANGED <<queue, visit, page, early, peers, posts, breaks, loss>>
  <1> USE DEF pageVars, netVars, vars, streamVars
  <1>1. ASSUME NEW s \in Sessions
        PROVE  /\ Enter(s) => UNCHANGED <<queue, early, peers, posts, breaks, loss>>
               /\ OpenEvents(s) =>
                    UNCHANGED <<queue, visit, page, early, peers, posts, breaks, loss>>
    BY DEF Enter, Join, OpenEvents, SseSnapshot
  <1>2. ASSUME NEW s \in Sessions
        PROVE  /\ ReadResync(s) => UNCHANGED <<queue, visit, page, posts, breaks>>
               /\ ReadEvent(s) => UNCHANGED <<visit, page, posts, breaks, loss>>
    BY DEF ReadResync, DeliverResync, ReadEvent, ToMesh
  <1>3. ASSUME NEW s \in Sessions
        PROVE  /\ BuildMesh(s) =>
                    UNCHANGED <<queue, visit, early, peers, posts, breaks, loss>>
               /\ Replay(s) => UNCHANGED <<queue, visit, page, posts, breaks, loss>>
               /\ MeshReady(s) =>
                    UNCHANGED <<queue, visit, early, peers, posts, breaks, loss>>
    BY DEF BuildMesh, Replay, MeshReady
  <1>4. ASSUME NEW s \in Sessions
        PROVE  /\ Leave(s) => UNCHANGED <<visit, posts, breaks>>
               /\ BreakStream(s) => UNCHANGED <<visit, page, early, peers, posts>>
               /\ EndStream(s) => UNCHANGED <<visit, page, early, peers, posts, breaks>>
    BY DEF Leave, BreakStream, EndStream
  <1>5. ASSUME NEW s \in Sessions, NEW p \in Sessions
        PROVE  /\ PerformOp(s, p) =>
                    UNCHANGED <<queue, visit, page, early, breaks, loss>>
               /\ FailOp(s, p) => UNCHANGED <<queue, visit, page, early, posts, breaks>>
               /\ Gather(s, p) => UNCHANGED <<queue, visit, page, early, breaks, loss>>
    BY DEF PerformOp, FailOp, Gather
  <1>6. ASSUME NEW r \in posts
        PROVE  /\ Relay(r) => UNCHANGED <<visit, page, early, breaks>>
               /\ PostFails(r) => UNCHANGED <<queue, visit, page, early, breaks>>
    BY DEF Relay, PostFails, Posted
  <1>7. ServerStep => UNCHANGED <<visit, page, early, peers, posts, breaks, loss>>
    BY DEF ServerStep
  <1>8. UNCHANGED meshVars =>
          UNCHANGED <<queue, visit, page, early, peers, posts, breaks, loss>>
    BY DEF meshVars
  <1> QED  BY <1>1, <1>2, <1>3, <1>4, <1>5, <1>6, <1>7, <1>8

-----------------------------------------------------------------------------
(* What is sent to a stream. *)

LEMMA SendFits ==
    ASSUME TypeOK, StreamsFit, NEW p \in Sessions, NEW e \in FitEvent(p),
           SendTo(p, e)
    PROVE  StreamsFit'
  <1> SUFFICES ASSUME NEW s \in Sessions
               PROVE  queue'[s] \in Seq(FitEvent(s))
    BY DEF StreamsFit
  <1>1. \/ queue'[s] = queue[s]
        \/ s = p /\ queue'[s] = Append(queue[s], e)
    BY SMTT(20) DEF SendTo, TypeOK
  <1> QED  BY <1>1, AppendProperties, SMTT(20) DEF StreamsFit

LEMMA StreamsStep == MeshInv /\ [MeshNext]_meshVars => StreamsFit'
  <1> SUFFICES ASSUME MeshInv, [MeshNext]_meshVars PROVE StreamsFit'
    OBVIOUS
  <1>1. TypeOK /\ StreamsFit /\ PostsFit
    BY DEF MeshInv, MeshTypeOK
  <1>2. ASSUME UNCHANGED queue
        PROVE  StreamsFit'
    BY <1>1, <1>2 DEF StreamsFit
  <1>3. ASSUME NEW s \in Sessions, DeliverEvent(s)
        PROVE  StreamsFit'
    <2>1. Tail(queue[s]) \in Seq(FitEvent(s))
      BY <1>1, <1>3, HeadTailProperties DEF DeliverEvent, StreamsFit
    <2>2. queue' = [queue EXCEPT ![s] = Tail(queue[s])]
      BY <1>3 DEF DeliverEvent
    <2> QED  BY <1>1, <2>1, <2>2 DEF StreamsFit, TypeOK
  <1>4. ASSUME NEW s \in Sessions, CloseStream(s)
        PROVE  StreamsFit'
    <2>1. << >> \in Seq(FitEvent(s))
      BY EmptySeq
    <2> QED  BY <1>1, <1>4, <2>1 DEF StreamsFit, TypeOK, CloseStream
  <1>5. ASSUME NEW s \in Sessions, NEW p \in Sessions, SseAnnounce(s, p)
        PROVE  StreamsFit'
    <2>1. PeerJoined(s) \in FitEvent(p)
      BY <1>1 DEF PeerJoined, FitEvent, Event, TypeOK
    <2> QED  BY <1>1, <1>5, <2>1, SendFits DEF SseAnnounce
  <1>6. ASSUME NEW r \in posts, Relay(r)
        PROVE  StreamsFit'
    <2> DEFINE e == SignalEvent(r.from, r.to, r.type, r.body)
    <2>1. r \in FitPost
      BY <1>1 DEF PostsFit
    <2>2. r.to \in Sessions /\ e \in FitEvent(r.to)
      BY <2>1 DEF FitPost, Post, SignalEvent, FitEvent, Event
    <2>3. SendTo(r.to, e) \/ UNCHANGED queue
      BY <1>6 DEF Relay, Signal
    <2> HIDE DEF e
    <2> QED  BY <1>1, <1>2, <2>2, <2>3, SendFits
  <1>7. ASSUME NEW s \in Sessions, Leave(s)
        PROVE  StreamsFit'
    BY <1>2, <1>4, <1>7 DEF Leave, Disconnect, vars, streamVars
  <1>8. ASSUME ServerStep
        PROVE  StreamsFit'
    BY <1>2, <1>5, <1>8 DEF ServerStep, Handler, SseSubscribe, SseReturn
  <1>9. ASSUME NEW s \in Sessions, ReadEvent(s) \/ BreakStream(s) \/ EndStream(s)
        PROVE  StreamsFit'
    BY <1>3, <1>4, <1>9
    DEF ReadEvent, BreakStream, Disconnect, EndStream, StreamLagged
  <1> QED  BY <1>2, <1>6, <1>7, <1>8, <1>9, Frame DEF MeshNext

-----------------------------------------------------------------------------
(* What the pages keep. *)

\* A mesh in which one handle has changed.
LEMMA PeersWith ==
    ASSUME MeshInv, NEW s \in Sessions, NEW p \in Sessions, NEW h \in FitPeer(s, p),
           peers' = [peers EXCEPT ![s][p] = h],
           UNCHANGED <<visit, page, early>>
    PROVE  PagesFit'
  <1> DEFINE m == [peers[s] EXCEPT ![p] = h]
  <1>1. peers' = [peers EXCEPT ![s] = m]
    OBVIOUS
  <1>2. FitMesh(s, m)
    BY MeshWith DEF MeshInv, PagesFit
  <1> HIDE DEF m
  <1>3. \A x \in Sessions : FitMesh(x, peers'[x])
    BY <1>1, <1>2 DEF MeshInv, PagesFit, MeshTypeOK
  <1>4. peers' \in [Sessions -> [Sessions -> Handle(Bodies) \cup {NoHandle}]]
    BY <1>1, <1>2 DEF MeshInv, PagesFit, FitMesh
  <1> QED  BY <1>3, <1>4 DEF MeshInv, PagesFit

LEMMA EarlyType ==
    ASSUME NEW s \in Sessions, NEW q \in Seq(FitEvent(s) \cup ResyncRead)
    PROVE  q \in Seq(Event \cup ResyncRead)
  BY SeqOfMore DEF FitEvent

\* A mesh that has read an event.
LEMMA ReadFits ==
    ASSUME MeshInv, NEW s \in Sessions, NEW e \in FitEvent(s) \cup ResyncRead,
           ToMesh(s, e)
    PROVE  PagesFit'
  <1>1. CASE page[s] = "ready"
    <2> DEFINE m == OnRoomEvent(s, peers[s], e)
    <2>1. FitMesh(s, m)
      BY OnRoomEventFits DEF MeshInv, PagesFit
    <2>2. peers' = [peers EXCEPT ![s] = m] /\ UNCHANGED <<early, visit, page>>
      BY <1>1 DEF ToMesh
    <2> HIDE DEF m
    <2>3. \A x \in Sessions : FitMesh(x, peers'[x])
      BY <2>1, <2>2 DEF MeshInv, PagesFit, MeshTypeOK
    <2>4. peers' \in [Sessions -> [Sessions -> Handle(Bodies) \cup {NoHandle}]]
      BY <2>1, <2>2 DEF MeshInv, PagesFit, FitMesh
    <2> QED  BY <2>2, <2>3, <2>4 DEF MeshInv, PagesFit
  <1>2. CASE page[s] # "ready"
    <2> DEFINE more == Append(early[s], e)
    <2>1. more \in Seq(FitEvent(s) \cup ResyncRead)
      BY AppendProperties DEF MeshInv, PagesFit
    <2>2. early' = [early EXCEPT ![s] = more] /\ UNCHANGED <<peers, visit, page>>
      BY <1>2 DEF ToMesh
    <2> HIDE DEF more
    <2>3. \A x \in Sessions : early'[x] \in Seq(FitEvent(x) \cup ResyncRead)
      BY <2>1, <2>2 DEF MeshInv, PagesFit, MeshTypeOK
    <2>4. more \in Seq(Event \cup ResyncRead)
      BY <2>1, EarlyType
    <2>5. early' \in [Sessions -> Seq(Event \cup ResyncRead)]
      BY <2>2, <2>4 DEF MeshInv, PagesFit
    <2> QED  BY <2>2, <2>3, <2>5 DEF MeshInv, PagesFit
  <1> QED  BY <1>1, <1>2

\* A connection on which operations wait is one with another session.
LEMMA HandleFits ==
    ASSUME MeshInv, NEW s \in Sessions, NEW p \in Sessions, peers[s][p] # NoHandle
    PROVE  /\ p # s
           /\ WeInitiate(s, p) \in BOOLEAN
           /\ peers[s][p] \in FitHandle(WeInitiate(s, p))
           /\ FitHandle(WeInitiate(s, p)) \subseteq FitPeer(s, p)
  BY InitiateType DEF MeshInv, PagesFit, FitMesh, FitPeer

LEMMA PostedFits ==
    ASSUME MeshInv, NEW r \in posts, Posted(r)
    PROVE  PagesFit'
  <1>1. r.from \in Sessions /\ r.to \in Sessions
    BY DEF MeshInv, PostsFit, FitPost, Post
  <1>2. UNCHANGED <<visit, page, early>>
    BY DEF Posted
  <1>3. CASE UNCHANGED peers
    BY <1>2, <1>3 DEF MeshInv, PagesFit
  <1>4. CASE peers[r.from][r.to] # NoHandle
             /\ peers' = [peers EXCEPT ![r.from][r.to] =
                             Drain(peers[r.from][r.to], "end")]
    <2>1. Drain(peers[r.from][r.to], "end") \in FitPeer(r.from, r.to)
      BY <1>1, <1>4, HandleFits, DrainFits
    <2> QED  BY <1>1, <1>2, <1>4, <2>1, PeersWith
  <1> QED  BY <1>3, <1>4 DEF Posted

LEMMA PagesStep == MeshInv /\ [MeshNext]_meshVars => PagesFit'
  <1> SUFFICES ASSUME MeshInv, [MeshNext]_meshVars PROVE PagesFit'
    OBVIOUS
  <1>1. PagesFit
    BY DEF MeshInv
  <1>2. ASSUME UNCHANGED pageVars
        PROVE  PagesFit'
    BY <1>1, <1>2 DEF pageVars, PagesFit
  <1>3. ASSUME NEW s \in Sessions, Enter(s)
        PROVE  PagesFit'
    <2>1. /\ UNCHANGED <<early, peers>>
          /\ visit' = [visit EXCEPT ![s] = visit[s] + 1]
          /\ page' = [page EXCEPT ![s] = "joined"]
      BY <1>3 DEF Enter
    <2>2. ASSUME NEW x \in Sessions, page'[x] # "away"
          PROVE  visit'[x] # 0
      <3>1. visit[x] \in Nat /\ visit[s] \in Nat
        BY MeshAssumption DEF MeshInv, MeshTypeOK
      <3>2. CASE x = s
        <4>1. visit'[x] = visit[s] + 1
          BY <2>1, <3>2 DEF MeshInv, MeshTypeOK
        <4> QED  BY <3>1, <4>1
      <3>3. CASE x # s
        <4>1. visit'[x] = visit[x] /\ page'[x] = page[x]
          BY <2>1, <3>3 DEF MeshInv, MeshTypeOK
        <4> QED  BY <1>1, <2>2, <4>1 DEF PagesFit
      <3> QED  BY <3>2, <3>3
    <2> QED  BY <1>1, <2>1, <2>2 DEF PagesFit
  <1>4. ASSUME NEW s \in Sessions, ReadResync(s)
        PROVE  PagesFit'
    <2> DEFINE e == [type |-> "resync", peers |-> DOMAIN resync[s].peers]
    <2>1. resync[s] \in Resync
      BY <1>4 DEF ReadResync, DeliverResync, MeshInv, MeshTypeOK, TypeOK
    <2>2. DOMAIN resync[s].peers \in SUBSET Sessions
      BY <2>1 DEF Resync, Roster
    <2>3. e \in ResyncRead
      BY <2>2 DEF ResyncRead
    <2> QED  BY <1>4, <2>3, ReadFits DEF ReadResync
  <1>5. ASSUME NEW s \in Sessions, ReadEvent(s)
        PROVE  PagesFit'
    <2>1. Head(queue[s]) \in FitEvent(s)
      BY <1>5, HeadTailProperties DEF ReadEvent, DeliverEvent, MeshInv, StreamsFit
    <2> QED  BY <1>5, <2>1, ReadFits DEF ReadEvent
  <1>6. ASSUME NEW s \in Sessions, BuildMesh(s) \/ MeshReady(s)
        PROVE  PagesFit'
    <2>1. UNCHANGED <<visit, early, peers>>
      BY <1>6 DEF BuildMesh, MeshReady
    <2>2. \A x \in Sessions : page'[x] # "away" => page[x] # "away"
      BY <1>6 DEF BuildMesh, MeshReady, MeshInv, MeshTypeOK
    <2> QED  BY <1>1, <2>1, <2>2 DEF PagesFit
  <1>7. ASSUME NEW s \in Sessions, Replay(s)
        PROVE  PagesFit'
    <2> DEFINE m == OnRoomEvent(s, peers[s], Head(early[s]))
               less == Tail(early[s])
    <2>1. Head(early[s]) \in FitEvent(s) \cup ResyncRead
      BY <1>1, <1>7, HeadTailProperties DEF Replay, PagesFit
    <2>2. less \in Seq(FitEvent(s) \cup ResyncRead)
      BY <1>1, <1>7, HeadTailProperties DEF Replay, PagesFit
    <2>3. FitMesh(s, m)
      BY <1>1, <2>1, OnRoomEventFits DEF PagesFit
    <2>4. /\ peers' = [peers EXCEPT ![s] = m]
          /\ early' = [early EXCEPT ![s] = less]
          /\ UNCHANGED <<visit, page>>
      BY <1>7 DEF Replay
    <2> HIDE DEF m, less
    <2>5. \A x \in Sessions : /\ FitMesh(x, peers'[x])
                              /\ early'[x] \in Seq(FitEvent(x) \cup ResyncRead)
      BY <1>1, <2>2, <2>3, <2>4 DEF PagesFit, MeshInv, MeshTypeOK
    <2>6. /\ early' \in [Sessions -> Seq(Event \cup ResyncRead)]
          /\ peers' \in [Sessions -> [Sessions -> Handle(Bodies) \cup {NoHandle}]]
      BY <1>1, <2>2, <2>3, <2>4, EarlyType DEF PagesFit, FitMesh
    <2> QED  BY <1>1, <2>4, <2>5, <2>6 DEF PagesFit
  <1>8. ASSUME NEW s \in Sessions, Leave(s)
        PROVE  PagesFit'
    <2>1. << >> \in Seq(FitEvent(s) \cup ResyncRead)
      BY EmptySeq
    <2>2. FitMesh(s, NoPeers)
      BY DEF FitMesh, NoPeers, FitPeer
    <2>3. /\ peers' = [peers EXCEPT ![s] = NoPeers]
          /\ early' = [early EXCEPT ![s] = << >>]
          /\ page' = [page EXCEPT ![s] = "away"]
          /\ UNCHANGED visit
      BY <1>8 DEF Leave
    <2>4. \A x \in Sessions : /\ FitMesh(x, peers'[x])
                              /\ early'[x] \in Seq(FitEvent(x) \cup ResyncRead)
                              /\ page'[x] # "away" => page[x] # "away"
      BY <1>1, <2>1, <2>2, <2>3 DEF PagesFit, MeshInv, MeshTypeOK
    <2>5. /\ early' \in [Sessions -> Seq(Event \cup ResyncRead)]
          /\ peers' \in [Sessions -> [Sessions -> Handle(Bodies) \cup {NoHandle}]]
      BY <1>1, <2>1, <2>2, <2>3, EarlyType DEF PagesFit, FitMesh
    <2> QED  BY <1>1, <2>3, <2>4, <2>5 DEF PagesFit
  <1>9. ASSUME NEW s \in Sessions, NEW p \in Sessions, PerformOp(s, p)
        PROVE  PagesFit'
    <2> DEFINE h == peers[s][p]
    <2>1. h # NoHandle /\ h.ops # << >>
      BY <1>9 DEF PerformOp
    <2>2. Performed(h) \in FitPeer(s, p) /\ Failed(h) \in FitPeer(s, p)
      BY <2>1, HandleFits, PerformedFits, FailedFits
    <2>3. /\ \/ peers' = [peers EXCEPT ![s][p] = Performed(h)]
             \/ peers' = [peers EXCEPT ![s][p] = Failed(h)]
          /\ UNCHANGED <<visit, page, early>>
      BY <1>9 DEF PerformOp
    <2> HIDE DEF h
    <2> QED  BY <2>2, <2>3, PeersWith
  <1>10. ASSUME NEW s \in Sessions, NEW p \in Sessions, FailOp(s, p)
         PROVE  PagesFit'
    <2> DEFINE h == peers[s][p]
    <2>1. h # NoHandle /\ h.ops # << >>
      BY <1>10 DEF FailOp
    <2>2. Failed(h) \in FitPeer(s, p)
      BY <2>1, HandleFits, FailedFits
    <2>3. /\ peers' = [peers EXCEPT ![s][p] = Failed(h)]
          /\ UNCHANGED <<visit, page, early>>
      BY <1>10 DEF FailOp
    <2> HIDE DEF h
    <2> QED  BY <2>2, <2>3, PeersWith
  <1>11. ASSUME NEW s \in Sessions, NEW p \in Sessions, Gather(s, p)
         PROVE  PagesFit'
    <2> DEFINE h == peers[s][p]
               left == [h EXCEPT !.gathered = h.gathered + 1]
    <2>1. /\ peers' = [peers EXCEPT ![s][p] = left]
          /\ UNCHANGED <<visit, page, early>>
      BY <1>11 DEF Gather
    <2>2. /\ h \in FitHandle(WeInitiate(s, p))
          /\ FitHandle(WeInitiate(s, p)) \subseteq FitPeer(s, p)
      BY <1>11, HandleFits DEF Gather
    <2> HIDE DEF h
    <2>3. left \in FitHandle(WeInitiate(s, p))
      BY SMTT(30), <2>2 DEF FitHandle, Handle
    <2> HIDE DEF left
    <2> QED  BY <2>1, <2>2, <2>3, PeersWith
  <1>12. ASSUME NEW r \in posts, Relay(r) \/ PostFails(r)
         PROVE  PagesFit'
    BY <1>12, PostedFits DEF Relay, PostFails
  <1> QED
    BY <1>2, <1>3, <1>4, <1>5, <1>6, <1>7, <1>8, <1>9, <1>10, <1>11, <1>12, Frame
    DEF MeshNext, pageVars

-----------------------------------------------------------------------------
(* What the pages post. *)

LEMMA VisitNumber ==
    ASSUME MeshInv, NEW s \in Sessions, page[s] # "away"
    PROVE  visit[s] \in 1 .. MaxVisits
  <1>1. visit[s] \in 0 .. MaxVisits
    BY DEF MeshInv, MeshTypeOK
  <1>2. visit[s] # 0
    BY DEF MeshInv, PagesFit
  <1> QED  BY <1>1, <1>2, MeshAssumption

\* The signal after an operation is one for the peer, and an offer only if it
\* is ours to make.
LEMMA SignalledFits ==
    ASSUME MeshInv, NEW s \in Sessions, NEW p \in Sessions, page[s] = "ready",
           peers[s][p] # NoHandle, peers[s][p].ops # << >>
    PROVE  Signalled(s, p, Head(peers[s][p].ops)) \subseteq FitPost
  <1> DEFINE h  == peers[s][p]
             op == Head(h.ops)
  <1>1. /\ p # s
        /\ WeInitiate(s, p) \in BOOLEAN
        /\ h \in FitHandle(WeInitiate(s, p))
    BY HandleFits
  <1>2. op \in FitOp(h.remote # NoBody, WeInitiate(s, p))
    BY <1>1, RestFits
  <1>3. visit[s] \in 1 .. MaxVisits
    BY VisitNumber
  <1>4. h.remote \in Bodies \cup {NoBody}
    BY <1>1 DEF FitHandle, Handle
  <1>5. Signalled(s, p, op) =
          CASE op.do = "local_offer"  ->
                 {[from |-> s, to |-> p, type |-> "offer", body |-> <<visit[s], 0>>]}
            [] op.do = "local_answer" ->
                 {[from |-> s, to |-> p, type |-> "answer",
                   body |-> <<visit[s], h.remote[1]>>]}
            [] OTHER -> {}
    BY DEF Signalled
  <1> HIDE DEF h, op
  <1>6. ASSUME op.do = "local_offer"
        PROVE  Signalled(s, p, op) \subseteq FitPost
    <2>1. <<visit[s], 0>> \in Bodies
      BY <1>3, MeshAssumption
    <2>2. WeInitiate(s, p)
      BY <1>2, <1>6 DEF FitOp
    <2>3. [from |-> s, to |-> p, type |-> "offer", body |-> <<visit[s], 0>>]
             \in FitPost
      BY <1>1, <2>1, <2>2, MeshAssumption DEF FitPost, Post
    <2> QED  BY <1>5, <1>6, <2>3
  <1>7. ASSUME op.do = "local_answer"
        PROVE  Signalled(s, p, op) \subseteq FitPost
    <2>1. h.remote \in Bodies
      BY <1>2, <1>4, <1>7 DEF FitOp
    <2>2. h.remote[1] \in 1 .. MaxVisits
      BY <2>1, MeshAssumption
    <2>3. <<visit[s], h.remote[1]>> \in Bodies
      BY <1>3, <2>2, MeshAssumption
    <2>4. WeInitiate(p, s)
      BY <1>1, <1>2, <1>7, MeshAssumption DEF FitOp, WeInitiate
    <2>5. [from |-> s, to |-> p, type |-> "answer",
           body |-> <<visit[s], h.remote[1]>>] \in FitPost
      BY <1>1, <2>3, <2>4, MeshAssumption DEF FitPost, Post
    <2> QED  BY <1>5, <1>7, <2>5
  <1>8. ASSUME op.do \notin {"local_offer", "local_answer"}
        PROVE  Signalled(s, p, op) \subseteq FitPost
    BY <1>5, <1>8
  <1>9. Signalled(s, p, op) \subseteq FitPost
    BY <1>6, <1>7, <1>8
  <1> QED  BY <1>9 DEF h, op

LEMMA PostsStep == MeshInv /\ [MeshNext]_meshVars => PostsFit'
  <1> SUFFICES ASSUME MeshInv, [MeshNext]_meshVars PROVE PostsFit'
    OBVIOUS
  <1>1. PostsFit
    BY DEF MeshInv
  <1>2. ASSUME posts' \subseteq posts
        PROVE  PostsFit'
    BY <1>1, <1>2 DEF PostsFit
  <1>3. ASSUME NEW s \in Sessions, NEW p \in Sessions, PerformOp(s, p)
        PROVE  PostsFit'
    <2>1. Signalled(s, p, Head(peers[s][p].ops)) \subseteq FitPost
      BY <1>3, SignalledFits DEF PerformOp
    <2>2. \/ UNCHANGED posts
          \/ posts' = posts \cup Signalled(s, p, Head(peers[s][p].ops))
      BY <1>3 DEF PerformOp
    <2> QED  BY <1>1, <2>1, <2>2 DEF PostsFit
  <1>4. ASSUME NEW s \in Sessions, NEW p \in Sessions, Gather(s, p)
        PROVE  PostsFit'
    <2> DEFINE n == peers[s][p].gathered + 1
               r == [from |-> s, to |-> p, type |-> "ice", body |-> <<visit[s], n>>]
    <2>1. page[s] = "ready" /\ peers[s][p] # NoHandle /\ n <= MaxCandidates
      BY <1>4 DEF Gather
    <2>2. p # s /\ peers[s][p] \in FitHandle(WeInitiate(s, p))
      BY <2>1, HandleFits
    <2>3. n \in Nat
      BY <2>2 DEF FitHandle, Handle
    <2>4. posts' = posts \cup {r}
      BY <1>4 DEF Gather
    <2> HIDE DEF n
    <2>5. visit[s] \in 1 .. MaxVisits
      BY <2>1, VisitNumber
    <2>6. <<visit[s], n>> \in Bodies
      BY <2>1, <2>3, <2>5, MeshAssumption
    <2>7. r \in FitPost
      BY <2>2, <2>6, MeshAssumption DEF FitPost, Post
    <2> QED  BY <1>1, <2>4, <2>7 DEF PostsFit
  <1>5. ASSUME NEW r \in posts, Relay(r) \/ PostFails(r)
        PROVE  PostsFit'
    BY <1>2, <1>5 DEF Relay, PostFails, Posted
  <1> QED
    BY <1>2, <1>3, <1>4, <1>5, Frame DEF MeshNext

-----------------------------------------------------------------------------
(* Type correctness of the mesh. *)

LEMMA LoseType ==
    ASSUME NEW pairs, Lose(pairs),
           loss \in [Sessions -> [Sessions -> {"none", "recent", "resynced"}]]
    PROVE  loss' \in [Sessions -> [Sessions -> {"none", "recent", "resynced"}]]
  BY DEF Lose

LEMMA VisitsStep ==
    MeshTypeOK /\ [MeshNext]_meshVars =>
        /\ visit' \in [Sessions -> 0 .. MaxVisits]
        /\ page' \in [Sessions -> {"away", "joined", "replaying", "ready"}]
        /\ breaks' \in 0 .. MaxBreaks
        /\ loss' \in [Sessions -> [Sessions -> {"none", "recent", "resynced"}]]
  <1> SUFFICES ASSUME MeshTypeOK, [MeshNext]_meshVars
               PROVE  /\ visit' \in [Sessions -> 0 .. MaxVisits]
                      /\ page' \in [Sessions -> {"away", "joined", "replaying", "ready"}]
                      /\ breaks' \in 0 .. MaxBreaks
                      /\ loss' \in [Sessions ->
                                      [Sessions -> {"none", "recent", "resynced"}]]
    OBVIOUS
  <1>1. visit' \in [Sessions -> 0 .. MaxVisits]
    <2>1. ASSUME NEW s \in Sessions, Enter(s)
          PROVE  visit' \in [Sessions -> 0 .. MaxVisits]
      <3>1. visit' = [visit EXCEPT ![s] = visit[s] + 1]
        BY <2>1 DEF Enter
      <3>2. visit[s] < MaxVisits /\ visit[s] \in Nat
        BY <2>1, MeshAssumption DEF Enter, MeshTypeOK
      <3>3. visit[s] + 1 \in 0 .. MaxVisits
        BY <3>2, MeshAssumption
      <3> QED  BY <3>1, <3>3 DEF MeshTypeOK
    <2>2. ASSUME UNCHANGED visit
          PROVE  visit' \in [Sessions -> 0 .. MaxVisits]
      BY <2>2 DEF MeshTypeOK
    <2> QED
      BY <2>1, <2>2, Frame DEF MeshNext
  <1>2. page' \in [Sessions -> {"away", "joined", "replaying", "ready"}]
    <2>1. ASSUME NEW s \in Sessions,
                 Enter(s) \/ BuildMesh(s) \/ MeshReady(s) \/ Leave(s)
          PROVE  page' \in [Sessions -> {"away", "joined", "replaying", "ready"}]
      BY <2>1 DEF Enter, BuildMesh, MeshReady, Leave, MeshTypeOK
    <2>2. ASSUME UNCHANGED page
          PROVE  page' \in [Sessions -> {"away", "joined", "replaying", "ready"}]
      BY <2>2 DEF MeshTypeOK
    <2> QED
      BY <2>1, <2>2, Frame DEF MeshNext
  <1>3. breaks' \in 0 .. MaxBreaks
    <2>1. ASSUME NEW s \in Sessions, BreakStream(s)
          PROVE  breaks' \in 0 .. MaxBreaks
      BY <2>1, MeshAssumption DEF BreakStream, MeshTypeOK
    <2>2. ASSUME UNCHANGED breaks
          PROVE  breaks' \in 0 .. MaxBreaks
      BY <2>2 DEF MeshTypeOK
    <2> QED
      BY <2>1, <2>2, Frame DEF MeshNext
  <1>4. loss' \in [Sessions -> [Sessions -> {"none", "recent", "resynced"}]]
    <2>1. ASSUME NEW s \in Sessions, ReadResync(s)
          PROVE  loss' \in [Sessions -> [Sessions -> {"none", "recent", "resynced"}]]
      BY <2>1 DEF ReadResync, MeshTypeOK
    <2>2. \A pairs : Lose(pairs) =>
             loss' \in [Sessions -> [Sessions -> {"none", "recent", "resynced"}]]
      BY LoseType DEF MeshTypeOK
    <2>3. ASSUME UNCHANGED loss
          PROVE  loss' \in [Sessions -> [Sessions -> {"none", "recent", "resynced"}]]
      BY <2>3 DEF MeshTypeOK
    <2>4. ASSUME NEW s \in Sessions, NEW p \in Sessions,
                 Leave(s) \/ BreakStream(s) \/ EndStream(s) \/ FailOp(s, p)
          PROVE  loss' \in [Sessions -> [Sessions -> {"none", "recent", "resynced"}]]
      BY <2>2, <2>4 DEF Leave, BreakStream, EndStream, FailOp
    <2>5. ASSUME NEW r \in posts, Relay(r) \/ PostFails(r)
          PROVE  loss' \in [Sessions -> [Sessions -> {"none", "recent", "resynced"}]]
      BY <2>2, <2>5 DEF Relay, PostFails
    <2> QED
      BY <2>1, <2>3, <2>4, <2>5, Frame DEF MeshNext
  <1> QED  BY <1>1, <1>2, <1>3, <1>4

LEMMA MeshInvInit == MeshInit => MeshInv
  <1> SUFFICES ASSUME MeshInit PROVE MeshInv
    OBVIOUS
  <1> DEFINE Early == Event \cup ResyncRead
  <1>1. /\ << >> \in Seq(Early)
        /\ \A s \in Sessions : /\ << >> \in Seq(FitEvent(s))
                               /\ << >> \in Seq(FitEvent(s) \cup ResyncRead)
    BY EmptySeq
  <1>2. MeshTypeOK
    BY <1>1, TypeInit, MeshAssumption DEF MeshInit, MeshTypeOK, NoPeers
  <1>3. StreamsFit
    BY <1>1 DEF MeshInit, Init, StreamsFit
  <1>4. PagesFit
    BY <1>1, <1>2 DEF MeshInit, MeshTypeOK, PagesFit, FitMesh, FitPeer, NoPeers
  <1>5. PostsFit
    BY DEF MeshInit, PostsFit
  <1> QED  BY <1>2, <1>3, <1>4, <1>5 DEF MeshInv

LEMMA MeshInvStep == MeshInv /\ [MeshNext]_meshVars => MeshInv'
  <1> SUFFICES ASSUME MeshInv, [MeshNext]_meshVars PROVE MeshInv'
    OBVIOUS
  <1>1. StreamsFit' /\ PagesFit' /\ PostsFit'
    BY StreamsStep, PagesStep, PostsStep
  <1>2. TypeOK'
    BY ServerStepped, TypeStep DEF MeshInv, MeshTypeOK
  <1>3. (posts \subseteq Post)'
    BY <1>1 DEF PostsFit, FitPost
  <1>4. MeshTypeOK'
    BY <1>1, <1>2, <1>3, VisitsStep DEF MeshInv, MeshTypeOK, PagesFit
  <1> QED  BY <1>1, <1>4 DEF MeshInv

LEMMA MeshInvHolds == MeshSpec => []MeshInv
  BY MeshInvInit, MeshInvStep, PTL DEF MeshSpec

-----------------------------------------------------------------------------
(* Theorems. *)

\* Every reachable state of server, streams, pages and POSTs is well typed.
THEOREM MeshTypeCorrect == MeshSpec => []MeshTypeOK
  <1>1. MeshInv => MeshTypeOK
    BY DEF MeshInv
  <1> QED  BY <1>1, MeshInvHolds, PTL

\* What the pages do with the server is what RoomServer allows: a signal comes
\* from a session for another one, a stream is opened, read and closed.
THEOREM MeshRefinesServer == MeshSpec => Spec
  <1>1. MeshInit => Init
    BY DEF MeshInit
  <1>2. MeshInv => PostsFit
    BY DEF MeshInv
  <1> QED  BY <1>1, <1>2, MeshInvHolds, ServerStepped, PTL DEF MeshSpec, Spec

\* What is proved of the server therefore holds under the meshes: signals reach
\* the peer they were made for, whatever the pages do.
THEOREM MeshSignalsAddressed == MeshSpec => []AddressedSignals
  BY MeshRefinesServer, SignalsAddressed, PTL

\* The tie-break of we_initiate is enough: whatever is lost, reopened or
\* reloaded, nobody gets an offer while one of its own is outstanding or in the
\* making, for any number of sessions and visits.
THEOREM GlareRuledOut == MeshSpec => []NoGlare
  <1>1. MeshInv => NoGlare
    <2> SUFFICES ASSUME MeshInv, NEW s \in Sessions, NEW p \in Sessions,
                        Offering(s, p)
                 PROVE  ~Offering(p, s) /\ ~OfferComing(s, p)
      BY DEF NoGlare
    <2>1. ASSUME NEW x \in Sessions, NEW y \in Sessions, Offering(x, y)
          PROVE  WeInitiate(x, y)
      <3> DEFINE h == peers[x][y]
      <3>1. h \in FitHandle(WeInitiate(x, y))
        BY <2>1, HandleFits DEF Offering
      <3>2. \A i \in 1 .. Len(h.ops) :
               h.ops[i] \in FitOp(h.remote # NoBody, WeInitiate(x, y))
        BY <3>1, ElementOfSeq DEF FitHandle
      <3> QED  BY <2>1, <3>1, <3>2 DEF Offering, FitHandle, FitOp
    <2>2. ASSUME OfferComing(s, p)
          PROVE  WeInitiate(p, s)
      <3>1. \A i \in 1 .. Len(queue[s]) : queue[s][i] \in FitEvent(s)
        BY ElementOfSeq DEF MeshInv, StreamsFit
      <3>2. \A i \in 1 .. Len(early[s]) : early[s][i] \in FitEvent(s) \cup ResyncRead
        BY ElementOfSeq DEF MeshInv, PagesFit
      <3> QED  BY <2>2, <3>1, <3>2
               DEF OfferComing, FitEvent, ResyncRead, MeshInv, PostsFit, FitPost
    <2> QED  BY <2>1, <2>2, InitiateType
  <1> QED  BY <1>1, MeshInvHolds, PTL

-----------------------------------------------------------------------------
(***************************************************************************)
(* Lemmas about the pairs: what a step of the system is for two pages,     *)
(* whatever else goes on, is lost or reopened.                             *)
(*                                                                         *)
(* All of it is counting: how often an operation waits on a connection, a  *)
(* signal is on its way, a candidate is kept.  So every step is first      *)
(* reduced to what it does to the two handles of one pair and to the       *)
(* numbers of signals between them.                                        *)
(***************************************************************************)

(* Counting. *)

Places(q, S) == {i \in 1 .. Len(q) : q[i] \in S}

LEMMA PlacesFinite ==
    ASSUME NEW T, NEW q \in Seq(T), NEW S
    PROVE  IsFiniteSet(Places(q, S))
  <1>1. Len(q) \in Nat
    BY LenProperties
  <1>2. IsFiniteSet(1 .. Len(q))
    BY <1>1, FS_Interval
  <1> QED  BY <1>2, FS_Subset DEF Places

LEMMA CountType ==
    ASSUME NEW T, NEW q \in Seq(T), NEW S
    PROVE  /\ Count(q, S) \in Nat
           /\ Count(q, S) = 0 <=> \A i \in 1 .. Len(q) : q[i] \notin S
  <1>1. Count(q, S) = Cardinality(Places(q, S))
    BY DEF Count, Places
  <1>2. IsFiniteSet(Places(q, S))
    BY PlacesFinite
  <1>3. Places(q, S) = {} <=> \A i \in 1 .. Len(q) : q[i] \notin S
    BY DEF Places
  <1> QED  BY <1>1, <1>2, <1>3, FS_CardinalityType, FS_EmptySet

LEMMA CountEmpty ==
    ASSUME NEW S
    PROVE  Count(<< >>, S) = 0
  <1>1. << >> \in Seq({}) /\ Len(<< >>) = 0
    BY EmptySeq
  <1>2. Places(<< >>, S) = {}
    BY <1>1 DEF Places
  <1> QED  BY <1>2, FS_EmptySet DEF Count, Places

LEMMA CountAppend ==
    ASSUME NEW T, NEW q \in Seq(T), NEW e \in T, NEW S
    PROVE  Count(Append(q, e), S) = Count(q, S) + (IF e \in S THEN 1 ELSE 0)
  <1> DEFINE more == Append(q, e)
             top  == Len(q) + 1
  <1>1. /\ Len(q) \in Nat
        /\ Len(more) = top
        /\ more[top] = e
        /\ \A i \in 1 .. Len(q) : more[i] = q[i]
    BY LenProperties, AppendProperties
  <1> HIDE DEF more
  <1>2. \A i : i \in 1 .. Len(more) <=> i \in 1 .. Len(q) \/ i = top
    BY <1>1
  <1>3. top \notin Places(q, S)
    BY <1>1 DEF Places
  <1> HIDE DEF top
  <1>4. Places(more, S) = IF e \in S THEN Places(q, S) \cup {top} ELSE Places(q, S)
    BY <1>1, <1>2 DEF Places
  <1>5. IsFiniteSet(Places(q, S))
    BY PlacesFinite
  <1>6. Cardinality(Places(q, S) \cup {top}) = Cardinality(Places(q, S)) + 1
    BY <1>3, <1>5, FS_AddElement
  <1>7. Cardinality(Places(q, S)) \in Nat
    BY <1>5, FS_CardinalityType
  <1>8. Count(more, S) = Cardinality(Places(more, S)) /\ Count(q, S) = Cardinality(Places(q, S))
    BY DEF Count, Places
  <1>9. CASE e \in S
    BY <1>4, <1>6, <1>8, <1>9 DEF more
  <1>10. CASE e \notin S
    BY <1>4, <1>7, <1>8, <1>10 DEF more
  <1> QED  BY <1>9, <1>10

LEMMA CountTail ==
    ASSUME NEW T, NEW q \in Seq(T), q # << >>, NEW S
    PROVE  Count(q, S) = Count(Tail(q), S) + (IF Head(q) \in S THEN 1 ELSE 0)
  <1> DEFINE less == Tail(q)
             old  == Places(q, S)
             new  == Places(less, S)
             rest == old \ {1}
             g    == [i \in rest |-> i - 1]
  <1>1. /\ Len(q) \in Nat \ {0}
        /\ less \in Seq(T)
        /\ Len(less) = Len(q) - 1
        /\ Head(q) = q[1]
        /\ \A i \in 1 .. Len(less) : less[i] = q[i + 1]
    BY HeadTailProperties, EmptySeq, LenProperties
  <1> HIDE DEF less
  <1>2. IsFiniteSet(old) /\ IsFiniteSet(new)
    BY <1>1, PlacesFinite
  <1>3. 1 \in old <=> Head(q) \in S
    BY <1>1 DEF Places
  <1>4. \A i \in rest : i \in Int /\ i - 1 \in new
    BY <1>1 DEF Places
  <1>5. \A j \in new : j \in Int /\ j + 1 \in rest /\ (j + 1) - 1 = j
    BY <1>1 DEF Places
  <1> HIDE DEF rest, new, old
  <1>6. ExistsBijection(rest, new)
    <2>1. /\ g \in [rest -> new]
          /\ \A i \in rest : g[i] = i - 1
      BY <1>4
    <2>2. \A i, j \in rest : g[i] = g[j] => i = j
      BY <1>4, <2>1
    <2>3. \A j \in new : \E i \in rest : g[i] = j
      BY <1>5, <2>1
    <2> HIDE DEF g
    <2>4. g \in Bijection(rest, new)
      BY <2>1, <2>2, <2>3 DEF Bijection, Injection, Surjection, IsInjective
    <2> QED  BY <2>4 DEF ExistsBijection
  <1>7. /\ IsFiniteSet(rest)
        /\ Cardinality(rest) = IF 1 \in old THEN Cardinality(old) - 1
                                            ELSE Cardinality(old)
    BY <1>2, FS_RemoveElement DEF rest
  <1>8. Cardinality(new) = Cardinality(rest)
    BY <1>6, <1>7, FS_Bijection
  <1>9. Cardinality(old) \in Nat /\ Cardinality(new) \in Nat
    BY <1>2, FS_CardinalityType
  <1>10. Count(q, S) = Cardinality(old) /\ Count(less, S) = Cardinality(new)
    BY DEF Count, Places, old, new
  <1>11. Count(q, S) = Count(less, S) + (IF Head(q) \in S THEN 1 ELSE 0)
    BY <1>3, <1>7, <1>8, <1>9, <1>10
  <1> QED  BY <1>11 DEF less

LEMMA CountMore ==
    ASSUME NEW T, NEW q \in Seq(T), NEW S, NEW U, S \subseteq U
    PROVE  Count(q, S) <= Count(q, U)
  <1>1. IsFiniteSet(Places(q, U)) /\ Places(q, S) \subseteq Places(q, U)
    BY PlacesFinite DEF Places
  <1> QED  BY <1>1, FS_Subset DEF Count, Places

-----------------------------------------------------------------------------
(* Operations that wait on a connection. *)

\* Those of an offer, those of the answer to one, those that take an answer.
OfferOps == [do : {"create_offer", "local_offer"}, body : {NoBody}, then : {"end"}]
AnswerOps ==
    [do : {"remote_offer"}, body : Bodies, then : {"end"}]
        \cup [do : {"create_answer", "local_answer"}, body : {NoBody}, then : {"end"}]
        \cup [do : {"add"}, body : Bodies, then : {"answer"}]
TakeOps == [do : {"remote_answer"}, body : Bodies, then : {"end"}]

OpsIn(h, S) == IF h = NoHandle THEN 0 ELSE Count(h.ops, S)

\* What stays of a handle when only operations and candidates move.
SameState(h, k) ==
    /\ k.negotiated = h.negotiated
    /\ k.remote_set = h.remote_set
    /\ k.signaling = h.signaling
    /\ k.local = h.local
    /\ k.remote = h.remote
    /\ k.gathered = h.gathered

LEMMA HandleIsNotNone ==
    ASSUME NEW h \in Handle(Bodies)
    PROVE  h # NoHandle
  BY DEF Handle, NoHandle

LEMMA CallDoes ==
    ASSUME NEW h \in Handle(Bodies), NEW do, NEW body,
           [do |-> do, body |-> body, then |-> "end"] \in Op(Bodies)
    PROVE  /\ Call(h, do, body) \in Handle(Bodies)
           /\ SameState(h, Call(h, do, body))
           /\ Call(h, do, body).pending = h.pending
           /\ Call(h, do, body).added = h.added
           /\ Call(h, do, body).ops =
                Append(h.ops, [do |-> do, body |-> body, then |-> "end"])
  <1> DEFINE o == [do |-> do, body |-> body, then |-> "end"]
             more == Append(h.ops, o)
  <1>1. more \in Seq(Op(Bodies))
    BY AppendProperties DEF Handle
  <1>2. Call(h, do, body) = [h EXCEPT !.ops = more]
    BY DEF Call
  <1> HIDE DEF more
  <1>3. /\ Call(h, do, body) \in Handle(Bodies)
        /\ SameState(h, Call(h, do, body))
        /\ Call(h, do, body).pending = h.pending
        /\ Call(h, do, body).added = h.added
        /\ Call(h, do, body).ops = more
    BY <1>1, <1>2 DEF Handle, SameState
  <1> QED  BY <1>3 DEF more

\* A round of drain_ice calls one operation, or none.
LEMMA DrainDoes ==
    ASSUME NEW h \in Handle(Bodies), NEW then \in {"end", "answer"}
    PROVE  /\ Drain(h, then) \in Handle(Bodies)
           /\ SameState(h, Drain(h, then))
           /\ Drain(h, then).added = h.added
           /\ h.pending # << >> =>
                /\ Head(h.pending) \in Bodies
                /\ Drain(h, then).pending = Tail(h.pending)
                /\ Drain(h, then).ops =
                     Append(h.ops, [do |-> "add", body |-> Head(h.pending), then |-> then])
           /\ h.pending = << >> =>
                /\ Drain(h, then).pending = << >>
                /\ then = "end" => Drain(h, then).ops = h.ops
                /\ then = "answer" =>
                     Drain(h, then).ops =
                       Append(h.ops, [do |-> "create_answer", body |-> NoBody, then |-> "end"])
  <1>1. CASE h.pending # << >>
    <2> DEFINE o    == [do |-> "add", body |-> Head(h.pending), then |-> then]
               less == Tail(h.pending)
               more == Append(h.ops, o)
    <2>1. Head(h.pending) \in Bodies /\ less \in Seq(Bodies)
      BY <1>1, HeadTailProperties DEF Handle
    <2>2. o \in Op(Bodies)
      BY <2>1 DEF Op
    <2> HIDE DEF o, less
    <2>3. more \in Seq(Op(Bodies))
      BY <2>2, AppendProperties DEF Handle
    <2>4. Drain(h, then) = [h EXCEPT !.pending = less, !.ops = more]
      BY <1>1 DEF Drain, o, less
    <2> HIDE DEF more
    <2>5. /\ Drain(h, then) \in Handle(Bodies)
          /\ SameState(h, Drain(h, then))
          /\ Drain(h, then).added = h.added
          /\ Drain(h, then).pending = less
          /\ Drain(h, then).ops = more
      BY <2>1, <2>3, <2>4 DEF Handle, SameState
    <2> QED  BY <1>1, <2>1, <2>5 DEF more, less, o
  <1>2. CASE h.pending = << >> /\ then = "end"
    <2>1. Drain(h, then) = h
      BY <1>2 DEF Drain
    <2> QED  BY <1>2, <2>1 DEF SameState
  <1>3. CASE h.pending = << >> /\ then = "answer"
    <2>1. Drain(h, then) = Call(h, "create_answer", NoBody)
      BY <1>3 DEF Drain
    <2>2. [do |-> "create_answer", body |-> NoBody, then |-> "end"] \in Op(Bodies)
      BY DEF Op
    <2> QED  BY <1>3, <2>1, <2>2, CallDoes
  <1> QED  BY <1>1, <1>2, <1>3

\* The oldest operation leaves the chain.
LEMMA RestDoes ==
    ASSUME NEW h \in Handle(Bodies), h.ops # << >>
    PROVE  /\ Head(h.ops) \in Op(Bodies)
           /\ [h EXCEPT !.ops = Tail(h.ops)] \in Handle(Bodies)
           /\ SameState(h, [h EXCEPT !.ops = Tail(h.ops)])
           /\ [h EXCEPT !.ops = Tail(h.ops)].pending = h.pending
           /\ [h EXCEPT !.ops = Tail(h.ops)].added = h.added
           /\ [h EXCEPT !.ops = Tail(h.ops)].ops = Tail(h.ops)
  <1> DEFINE tail == Tail(h.ops)
  <1>1. Head(h.ops) \in Op(Bodies) /\ tail \in Seq(Op(Bodies))
    BY HeadTailProperties DEF Handle
  <1> HIDE DEF tail
  <1>2. /\ [h EXCEPT !.ops = tail] \in Handle(Bodies)
        /\ SameState(h, [h EXCEPT !.ops = tail])
        /\ [h EXCEPT !.ops = tail].pending = h.pending
        /\ [h EXCEPT !.ops = tail].added = h.added
        /\ [h EXCEPT !.ops = tail].ops = tail
    BY <1>1 DEF Handle, SameState
  <1> QED  BY <1>1, <1>2 DEF tail

LEMMA OpKinds ==
    ASSUME NEW o \in Op(Bodies)
    PROVE  /\ o \in OfferOps <=> o.do \in {"create_offer", "local_offer"}
           /\ o \in AnswerOps <=>
                \/ o.do \in {"remote_offer", "create_answer", "local_answer"}
                \/ o.do = "add" /\ o.then = "answer"
           /\ o \in TakeOps <=> o.do = "remote_answer"
           /\ o.do \in {"create_offer", "local_offer", "remote_offer", "create_answer",
                        "local_answer", "remote_answer", "add"}
           /\ o.do \in {"remote_offer", "remote_answer", "add"} => o.body \in Bodies
           /\ o.then \in {"end", "answer"}
           /\ o.then = "answer" => o.do = "add"
  <1>1. \/ o \in [do : {"create_offer", "local_offer", "create_answer", "local_answer"},
                  body : {NoBody}, then : {"end"}]
        \/ o \in [do : {"remote_offer", "remote_answer"}, body : Bodies, then : {"end"}]
        \/ o \in [do : {"add"}, body : Bodies, then : {"end", "answer"}]
    BY DEF Op
  <1>2. o = [do |-> o.do, body |-> o.body, then |-> o.then]
    BY <1>1
  <1> QED  BY <1>1, <1>2 DEF OfferOps, AnswerOps, TakeOps

\* The operations of the three kinds that wait on a connection.
LEMMA CallTokens ==
    ASSUME NEW ops \in Seq(Op(Bodies)), NEW o \in Op(Bodies)
    PROVE  /\ Count(Append(ops, o), OfferOps) = Count(ops, OfferOps)
                + (IF o.do \in {"create_offer", "local_offer"} THEN 1 ELSE 0)
           /\ Count(Append(ops, o), AnswerOps) = Count(ops, AnswerOps)
                + (IF \/ o.do \in {"remote_offer", "create_answer", "local_answer"}
                      \/ o.then = "answer" THEN 1 ELSE 0)
           /\ Count(Append(ops, o), TakeOps) = Count(ops, TakeOps)
                + (IF o.do = "remote_answer" THEN 1 ELSE 0)
  <1> DEFINE more == Append(ops, o)
  <1>1. /\ Count(more, OfferOps) = Count(ops, OfferOps) + (IF o \in OfferOps THEN 1 ELSE 0)
        /\ Count(more, AnswerOps) = Count(ops, AnswerOps) + (IF o \in AnswerOps THEN 1 ELSE 0)
        /\ Count(more, TakeOps) = Count(ops, TakeOps) + (IF o \in TakeOps THEN 1 ELSE 0)
    BY CountAppend
  <1> HIDE DEF more
  <1> QED  BY <1>1, OpKinds DEF more

LEMMA RestTokens ==
    ASSUME NEW ops \in Seq(Op(Bodies)), ops # << >>
    PROVE  /\ Count(ops, OfferOps) = Count(Tail(ops), OfferOps)
                + (IF Head(ops).do \in {"create_offer", "local_offer"} THEN 1 ELSE 0)
           /\ Count(ops, AnswerOps) = Count(Tail(ops), AnswerOps)
                + (IF \/ Head(ops).do \in {"remote_offer", "create_answer", "local_answer"}
                      \/ Head(ops).then = "answer" THEN 1 ELSE 0)
           /\ Count(ops, TakeOps) = Count(Tail(ops), TakeOps)
                + (IF Head(ops).do = "remote_answer" THEN 1 ELSE 0)
  <1> DEFINE o    == Head(ops)
             less == Tail(ops)
  <1>1. /\ Count(ops, OfferOps) = Count(less, OfferOps) + (IF o \in OfferOps THEN 1 ELSE 0)
        /\ Count(ops, AnswerOps) = Count(less, AnswerOps) + (IF o \in AnswerOps THEN 1 ELSE 0)
        /\ Count(ops, TakeOps) = Count(less, TakeOps) + (IF o \in TakeOps THEN 1 ELSE 0)
    BY CountTail
  <1>2. o \in Op(Bodies)
    BY HeadTailProperties
  <1> HIDE DEF o, less
  <1> QED  BY <1>1, <1>2, OpKinds DEF o, less

LEMMA TokensType ==
    ASSUME NEW ops \in Seq(Op(Bodies)), NEW S
    PROVE  Count(ops, S) \in Nat
  BY CountType

LEMMA DrainTokens ==
    ASSUME NEW h \in Handle(Bodies), NEW then \in {"end", "answer"}
    PROVE  /\ Count(Drain(h, then).ops, OfferOps) = Count(h.ops, OfferOps)
           /\ Count(Drain(h, then).ops, AnswerOps) =
                Count(h.ops, AnswerOps) + (IF then = "answer" THEN 1 ELSE 0)
           /\ Count(Drain(h, then).ops, TakeOps) = Count(h.ops, TakeOps)
  <1> DEFINE k == Drain(h, then)
             a == [do |-> "add", body |-> Head(h.pending), then |-> then]
             c == [do |-> "create_answer", body |-> NoBody, then |-> "end"]
  <1>1. /\ h.pending # << >> => Head(h.pending) \in Bodies /\ k.ops = Append(h.ops, a)
        /\ h.pending = << >> =>
             /\ then = "end" => k.ops = h.ops
             /\ then = "answer" => k.ops = Append(h.ops, c)
    BY DrainDoes
  <1>2. h.ops \in Seq(Op(Bodies))
    BY DEF Handle
  <1>3. /\ Count(h.ops, OfferOps) \in Nat
        /\ Count(h.ops, AnswerOps) \in Nat
        /\ Count(h.ops, TakeOps) \in Nat
    BY <1>2, TokensType
  <1>4. c \in Op(Bodies) /\ c.do = "create_answer" /\ c.then = "end"
    BY DEF Op
  <1>5. Head(h.pending) \in Bodies => a \in Op(Bodies) /\ a.do = "add" /\ a.then = then
    BY DEF Op
  <1> HIDE DEF k, a, c
  <1>6. CASE h.pending # << >>
    <2>1. a \in Op(Bodies) /\ a.do = "add" /\ a.then = then /\ k.ops = Append(h.ops, a)
      BY <1>1, <1>5, <1>6
    <2>2. Count(k.ops, AnswerOps) = Count(h.ops, AnswerOps)
             + (IF \/ a.do \in {"remote_offer", "create_answer", "local_answer"}
                   \/ a.then = "answer" THEN 1 ELSE 0)
      BY <1>2, <2>1, CallTokens
    <2>3. /\ Count(k.ops, OfferOps) = Count(h.ops, OfferOps)
             + (IF a.do \in {"create_offer", "local_offer"} THEN 1 ELSE 0)
          /\ Count(k.ops, TakeOps) = Count(h.ops, TakeOps)
             + (IF a.do = "remote_answer" THEN 1 ELSE 0)
      BY <1>2, <2>1, CallTokens
    <2>4. /\ Count(k.ops, OfferOps) = Count(h.ops, OfferOps)
          /\ Count(k.ops, TakeOps) = Count(h.ops, TakeOps)
      BY <1>3, <2>1, <2>3
    <2>5. Count(k.ops, AnswerOps) =
             Count(h.ops, AnswerOps) + (IF then = "answer" THEN 1 ELSE 0)
      BY <1>3, <2>1, <2>2
    <2> QED  BY <2>4, <2>5 DEF k
  <1>7. CASE h.pending = << >> /\ then = "answer"
    <2>1. k.ops = Append(h.ops, c)
      BY <1>1, <1>7
    <2>2. /\ Count(k.ops, OfferOps) = Count(h.ops, OfferOps)
             + (IF c.do \in {"create_offer", "local_offer"} THEN 1 ELSE 0)
          /\ Count(k.ops, AnswerOps) = Count(h.ops, AnswerOps)
             + (IF \/ c.do \in {"remote_offer", "create_answer", "local_answer"}
                   \/ c.then = "answer" THEN 1 ELSE 0)
          /\ Count(k.ops, TakeOps) = Count(h.ops, TakeOps)
             + (IF c.do = "remote_answer" THEN 1 ELSE 0)
      BY <1>2, <1>4, <2>1, CallTokens
    <2>3. /\ Count(k.ops, OfferOps) = Count(h.ops, OfferOps)
          /\ Count(k.ops, AnswerOps) = Count(h.ops, AnswerOps) + 1
          /\ Count(k.ops, TakeOps) = Count(h.ops, TakeOps)
      BY <1>3, <1>4, <2>2
    <2> QED  BY <1>7, <2>3 DEF k
  <1>8. CASE h.pending = << >> /\ then = "end"
    BY <1>1, <1>3, <1>8 DEF k
  <1> QED  BY <1>6, <1>7, <1>8

\* Performing the oldest operation moves the connection on.
LEMMA PerformedDoes ==
    ASSUME NEW h \in Handle(Bodies), h.ops # << >>,
           NEW k, k = Performed(h), NEW op, op = Head(h.ops)
    PROVE  /\ k \in Handle(Bodies)
           /\ k.negotiated = h.negotiated
           /\ k.remote_set = h.remote_set
           /\ k.gathered = h.gathered
           /\ k.signaling = CASE op.do = "local_offer" -> "have-local-offer"
                              [] op.do = "remote_offer" -> "have-remote-offer"
                              [] op.do \in {"local_answer", "remote_answer"} -> "stable"
                              [] OTHER -> h.signaling
           /\ k.remote = IF op.do \in {"remote_offer", "remote_answer"}
                         THEN op.body ELSE h.remote
           /\ Count(h.ops, OfferOps) = Count(k.ops, OfferOps)
                + (IF op.do = "local_offer" THEN 1 ELSE 0)
           /\ Count(h.ops, AnswerOps) = Count(k.ops, AnswerOps)
                + (IF op.do = "local_answer" THEN 1 ELSE 0)
           /\ Count(h.ops, TakeOps) = Count(k.ops, TakeOps)
                + (IF op.do = "remote_answer" THEN 1 ELSE 0)
  <1> DEFINE rest == [h EXCEPT !.ops = Tail(h.ops)]
  <1>1. /\ op \in Op(Bodies)
        /\ rest \in Handle(Bodies)
        /\ SameState(h, rest)
        /\ rest.ops = Tail(h.ops)
    BY RestDoes
  <1>2. k = CASE op.do = "create_offer"  -> Call(rest, "local_offer", NoBody)
              [] op.do = "local_offer"   ->
                   [rest EXCEPT !.signaling = "have-local-offer", !.local = TRUE]
              [] op.do = "remote_offer"  -> OfferApplied(rest, op.body)
              [] op.do = "create_answer" -> Call(rest, "local_answer", NoBody)
              [] op.do = "local_answer"  ->
                   [rest EXCEPT !.signaling = "stable", !.local = TRUE]
              [] op.do = "remote_answer" -> AnswerApplied(rest, op.body)
              [] op.do = "add"           ->
                   Drain([rest EXCEPT !.added = Append(rest.added, op.body)], op.then)
    BY DEF Performed
  <1>3. /\ rest.negotiated = h.negotiated
        /\ rest.remote_set = h.remote_set
        /\ rest.gathered = h.gathered
        /\ rest.signaling = h.signaling
        /\ rest.remote = h.remote
    BY <1>1 DEF SameState
  <1> DEFINE offers  == Count(rest.ops, OfferOps)
             answers == Count(rest.ops, AnswerOps)
             takes   == Count(rest.ops, TakeOps)
  <1>4. /\ Count(h.ops, OfferOps) = offers
             + (IF op.do \in {"create_offer", "local_offer"} THEN 1 ELSE 0)
        /\ Count(h.ops, AnswerOps) = answers
             + (IF \/ op.do \in {"remote_offer", "create_answer", "local_answer"}
                   \/ op.then = "answer" THEN 1 ELSE 0)
        /\ Count(h.ops, TakeOps) = takes + (IF op.do = "remote_answer" THEN 1 ELSE 0)
    BY <1>1, RestTokens DEF Handle
  <1> HIDE DEF rest
  <1>5. offers \in Nat /\ answers \in Nat /\ takes \in Nat
    BY <1>1, TokensType DEF Handle
  <1>6. /\ op.do \in {"create_offer", "local_offer", "remote_offer", "create_answer",
                      "local_answer", "remote_answer", "add"}
        /\ op.do \in {"remote_offer", "remote_answer", "add"} => op.body \in Bodies
        /\ op.then \in {"end", "answer"}
        /\ op.then = "answer" => op.do = "add"
    BY <1>1, OpKinds
  <1> HIDE DEF offers, answers, takes
  <1>7. CASE op.do \in {"create_offer", "create_answer"}
    <2> DEFINE next == IF op.do = "create_offer" THEN "local_offer" ELSE "local_answer"
               o    == [do |-> next, body |-> NoBody, then |-> "end"]
    <2>1. k = Call(rest, next, NoBody)
      BY <1>2, <1>7
    <2>2. o \in Op(Bodies) /\ o.do = next /\ o.then = "end"
      BY DEF Op
    <2>3. next = "local_offer" <=> op.do = "create_offer"
      OBVIOUS
    <2>4. next = "local_answer" <=> op.do = "create_answer"
      BY <1>7
    <2> HIDE DEF next
    <2>5. k \in Handle(Bodies) /\ SameState(rest, k) /\ k.ops = Append(rest.ops, o)
      <3> DEFINE called == Call(rest, next, NoBody)
      <3>1. /\ called \in Handle(Bodies)
            /\ SameState(rest, called)
            /\ called.ops = Append(rest.ops, o)
        BY <1>1, <2>2, CallDoes
      <3> HIDE DEF called, o
      <3>2. k = called
        BY <2>1 DEF called
      <3> QED  BY <3>1, <3>2
    <2> HIDE DEF o
    <2>6. /\ Count(k.ops, OfferOps) = offers
               + (IF o.do \in {"create_offer", "local_offer"} THEN 1 ELSE 0)
          /\ Count(k.ops, AnswerOps) = answers
               + (IF \/ o.do \in {"remote_offer", "create_answer", "local_answer"}
                     \/ o.then = "answer" THEN 1 ELSE 0)
          /\ Count(k.ops, TakeOps) = takes + (IF o.do = "remote_answer" THEN 1 ELSE 0)
      <3> DEFINE more == Append(rest.ops, o)
      <3>1. rest.ops \in Seq(Op(Bodies))
        BY <1>1 DEF Handle
      <3>2. /\ Count(more, OfferOps) = offers
                 + (IF o.do \in {"create_offer", "local_offer"} THEN 1 ELSE 0)
            /\ Count(more, AnswerOps) = answers
                 + (IF \/ o.do \in {"remote_offer", "create_answer", "local_answer"}
                       \/ o.then = "answer" THEN 1 ELSE 0)
            /\ Count(more, TakeOps) = takes + (IF o.do = "remote_answer" THEN 1 ELSE 0)
        BY <2>2, <3>1, CallTokens DEF offers, answers, takes
      <3>3. k.ops = more
        BY <2>5
      <3> HIDE DEF more
      <3> QED  BY <3>2, <3>3
    <2>7. /\ Count(k.ops, OfferOps) = offers
               + (IF op.do = "create_offer" THEN 1 ELSE 0)
          /\ Count(k.ops, AnswerOps) = answers
               + (IF op.do = "create_answer" THEN 1 ELSE 0)
          /\ Count(k.ops, TakeOps) = takes
      BY <1>5, <1>7, <2>2, <2>3, <2>4, <2>6
    <2>8. /\ Count(h.ops, OfferOps) = Count(k.ops, OfferOps)
          /\ Count(h.ops, AnswerOps) = Count(k.ops, AnswerOps)
          /\ Count(h.ops, TakeOps) = Count(k.ops, TakeOps)
      BY <1>4, <1>5, <1>6, <1>7, <2>7
    <2>9. Count(k.ops, OfferOps) \in Nat /\ Count(k.ops, AnswerOps) \in Nat
            /\ Count(k.ops, TakeOps) \in Nat
      BY <2>5, TokensType DEF Handle
    <2> QED  BY <1>3, <1>7, <2>5, <2>8, <2>9 DEF SameState
  <1>8. CASE op.do \in {"local_offer", "local_answer"}
    <2> DEFINE state == IF op.do = "local_offer" THEN "have-local-offer" ELSE "stable"
    <2>1. k = [rest EXCEPT !.signaling = state, !.local = TRUE]
      BY <1>2, <1>8
    <2>2. /\ k \in Handle(Bodies)
          /\ k.ops = rest.ops
          /\ k.signaling = state
          /\ k.negotiated = rest.negotiated
          /\ k.remote_set = rest.remote_set
          /\ k.gathered = rest.gathered
          /\ k.remote = rest.remote
      BY <1>1, <2>1 DEF Handle
    <2>3. /\ Count(k.ops, OfferOps) = offers
          /\ Count(k.ops, AnswerOps) = answers
          /\ Count(k.ops, TakeOps) = takes
      BY <2>2 DEF offers, answers, takes
    <2> QED  BY <1>3, <1>4, <1>5, <1>6, <1>8, <2>2, <2>3
  <1>9. CASE op.do \in {"remote_offer", "remote_answer"}
    <2> DEFINE state == IF op.do = "remote_offer" THEN "have-remote-offer" ELSE "stable"
               then  == IF op.do = "remote_offer" THEN "answer" ELSE "end"
               left  == [rest EXCEPT !.signaling = state, !.remote = op.body]
    <2>1. k = Drain(left, then)
      BY <1>2, <1>9 DEF OfferApplied, AnswerApplied
    <2>2. /\ left \in Handle(Bodies)
          /\ left.ops = rest.ops
          /\ left.signaling = state
          /\ left.negotiated = rest.negotiated
          /\ left.remote_set = rest.remote_set
          /\ left.gathered = rest.gathered
          /\ left.remote = op.body
      BY <1>1, <1>6, <1>9 DEF Handle
    <2>3. then \in {"end", "answer"} /\ (then = "answer" <=> op.do = "remote_offer")
      OBVIOUS
    <2> HIDE DEF left, then
    <2>4. k \in Handle(Bodies) /\ SameState(left, k)
      BY <2>1, <2>2, <2>3, DrainDoes
    <2>5. /\ Count(k.ops, OfferOps) = offers
          /\ Count(k.ops, AnswerOps) = answers + (IF then = "answer" THEN 1 ELSE 0)
          /\ Count(k.ops, TakeOps) = takes
      BY <2>1, <2>2, <2>3, DrainTokens DEF offers, answers, takes
    <2>6. /\ Count(h.ops, OfferOps) = Count(k.ops, OfferOps)
          /\ Count(h.ops, AnswerOps) = Count(k.ops, AnswerOps)
          /\ Count(h.ops, TakeOps) = Count(k.ops, TakeOps)
               + (IF op.do = "remote_answer" THEN 1 ELSE 0)
      BY <1>4, <1>5, <1>6, <1>9, <2>3, <2>5
    <2> QED  BY <1>3, <1>5, <1>9, <2>2, <2>4, <2>5, <2>6 DEF SameState
  <1>10. CASE op.do = "add"
    <2> DEFINE more == Append(rest.added, op.body)
               left == [rest EXCEPT !.added = more]
    <2>1. k = Drain(left, op.then)
      BY <1>2, <1>10
    <2>2. more \in Seq(Bodies)
      BY <1>1, <1>6, <1>10, AppendProperties DEF Handle
    <2> HIDE DEF more
    <2>3. /\ left \in Handle(Bodies)
          /\ left.ops = rest.ops
          /\ SameState(rest, left)
      BY <1>1, <2>2 DEF Handle, SameState
    <2> HIDE DEF left
    <2>4. k \in Handle(Bodies) /\ SameState(left, k)
      BY <1>6, <2>1, <2>3, DrainDoes
    <2>5. /\ Count(k.ops, OfferOps) = offers
          /\ Count(k.ops, AnswerOps) = answers + (IF op.then = "answer" THEN 1 ELSE 0)
          /\ Count(k.ops, TakeOps) = takes
      BY <1>6, <2>1, <2>3, DrainTokens DEF offers, answers, takes
    <2>6. /\ Count(h.ops, OfferOps) = Count(k.ops, OfferOps)
          /\ Count(h.ops, AnswerOps) = Count(k.ops, AnswerOps)
          /\ Count(h.ops, TakeOps) = Count(k.ops, TakeOps)
      BY <1>4, <1>5, <1>10, <2>5
    <2> QED  BY <1>3, <1>5, <1>10, <2>3, <2>4, <2>5, <2>6 DEF SameState
  <1> QED  BY <1>6, <1>7, <1>8, <1>9, <1>10

\* A refused operation only goes.
LEMMA FailedDoes ==
    ASSUME NEW h \in Handle(Bodies), h.ops # << >>, NEW k, k = Failed(h)
    PROVE  /\ k \in Handle(Bodies)
           /\ SameState(h, k)
           /\ Count(k.ops, OfferOps) <= Count(h.ops, OfferOps)
           /\ Count(k.ops, AnswerOps) <= Count(h.ops, AnswerOps)
           /\ Count(k.ops, TakeOps) <= Count(h.ops, TakeOps)
  <1> DEFINE op   == Head(h.ops)
             rest == [h EXCEPT !.ops = Tail(h.ops)]
  <1>1. /\ op \in Op(Bodies)
        /\ rest \in Handle(Bodies)
        /\ SameState(h, rest)
        /\ rest.ops = Tail(h.ops)
    BY RestDoes
  <1>2. \/ k = Drain(rest, "end")
        \/ k = Drain(rest, op.then) /\ op.do = "add"
        \/ k = rest
    BY DEF Failed
  <1> DEFINE offers  == Count(rest.ops, OfferOps)
             answers == Count(rest.ops, AnswerOps)
             takes   == Count(rest.ops, TakeOps)
  <1>3. /\ Count(h.ops, OfferOps) = offers
             + (IF op.do \in {"create_offer", "local_offer"} THEN 1 ELSE 0)
        /\ Count(h.ops, AnswerOps) = answers
             + (IF \/ op.do \in {"remote_offer", "create_answer", "local_answer"}
                   \/ op.then = "answer" THEN 1 ELSE 0)
        /\ Count(h.ops, TakeOps) = takes + (IF op.do = "remote_answer" THEN 1 ELSE 0)
    BY <1>1, RestTokens DEF Handle
  <1> HIDE DEF rest, op
  <1>4. offers \in Nat /\ answers \in Nat /\ takes \in Nat
    BY <1>1, TokensType DEF Handle
  <1>5. op.then \in {"end", "answer"}
    BY <1>1, OpKinds
  <1> HIDE DEF offers, answers, takes
  <1>6. ASSUME NEW then \in {"end", "answer"}, k = Drain(rest, then)
        PROVE  /\ k \in Handle(Bodies) /\ SameState(rest, k)
               /\ Count(k.ops, OfferOps) = offers
               /\ Count(k.ops, AnswerOps) = answers + (IF then = "answer" THEN 1 ELSE 0)
               /\ Count(k.ops, TakeOps) = takes
    <2>1. k \in Handle(Bodies) /\ SameState(rest, k)
      BY <1>1, <1>6, DrainDoes
    <2>2. /\ Count(k.ops, OfferOps) = Count(rest.ops, OfferOps)
          /\ Count(k.ops, AnswerOps) =
               Count(rest.ops, AnswerOps) + (IF then = "answer" THEN 1 ELSE 0)
          /\ Count(k.ops, TakeOps) = Count(rest.ops, TakeOps)
      BY <1>1, <1>6, DrainTokens
    <2> QED  BY <2>1, <2>2 DEF offers, answers, takes
  <1>7. CASE k = Drain(rest, "end")
    <2>1. /\ k \in Handle(Bodies) /\ SameState(rest, k)
          /\ Count(k.ops, OfferOps) = offers
          /\ Count(k.ops, AnswerOps) = answers
          /\ Count(k.ops, TakeOps) = takes
      BY <1>4, <1>6, <1>7
    <2> QED  BY <1>1, <1>3, <1>4, <2>1 DEF SameState
  <1>8. CASE k = Drain(rest, op.then) /\ op.do = "add"
    <2>1. /\ k \in Handle(Bodies) /\ SameState(rest, k)
          /\ Count(k.ops, OfferOps) = offers
          /\ Count(k.ops, AnswerOps) = answers + (IF op.then = "answer" THEN 1 ELSE 0)
          /\ Count(k.ops, TakeOps) = takes
      BY <1>5, <1>6, <1>8
    <2> QED  BY <1>1, <1>3, <1>4, <1>8, <2>1 DEF SameState
  <1>9. CASE k = rest
    BY <1>1, <1>3, <1>4, <1>9 DEF offers, answers, takes
  <1> QED  BY <1>2, <1>7, <1>8, <1>9

\* An offer is called for once.
LEMMA MaybeOfferDoes ==
    ASSUME NEW h \in Handle(Bodies), NEW mine \in BOOLEAN,
           NEW k, k = MaybeOffer(h, mine)
    PROVE  \/ /\ ~(mine /\ ~h.negotiated /\ h.signaling = "stable" /\ h.remote = NoBody)
              /\ k = h
           \/ /\ mine /\ ~h.negotiated /\ h.signaling = "stable" /\ h.remote = NoBody
              /\ k \in Handle(Bodies)
              /\ k.negotiated
              /\ k.remote_set = h.remote_set
              /\ k.signaling = h.signaling
              /\ k.local = h.local
              /\ k.remote = h.remote
              /\ k.gathered = h.gathered
              /\ k.pending = h.pending
              /\ k.added = h.added
              /\ k.ops = Append(h.ops, [do |-> "create_offer", body |-> NoBody,
                                        then |-> "end"])
  <1> DEFINE marked == [h EXCEPT !.negotiated = TRUE]
  <1> DEFINE due == mine /\ ~h.negotiated /\ h.signaling = "stable" /\ h.remote = NoBody
  <1>0. k = IF due THEN Call(marked, "create_offer", NoBody) ELSE h
    BY DEF MaybeOffer
  <1>1. ASSUME ~due  PROVE k = h
    <2> HIDE DEF due, marked
    <2> QED  BY <1>0, <1>1
  <1>2. CASE due
    <2>1. k = Call(marked, "create_offer", NoBody)
      BY <1>0, <1>2
    <2>2. /\ marked \in Handle(Bodies)
          /\ marked.negotiated
          /\ marked.remote_set = h.remote_set
          /\ marked.signaling = h.signaling
          /\ marked.local = h.local
          /\ marked.remote = h.remote
          /\ marked.gathered = h.gathered
          /\ marked.pending = h.pending
          /\ marked.added = h.added
          /\ marked.ops = h.ops
      BY DEF Handle
    <2>3. [do |-> "create_offer", body |-> NoBody, then |-> "end"] \in Op(Bodies)
      BY DEF Op
    <2> HIDE DEF marked
    <2>4. /\ k \in Handle(Bodies)
          /\ SameState(marked, k)
          /\ k.pending = marked.pending
          /\ k.added = marked.added
          /\ k.ops = Append(marked.ops, [do |-> "create_offer", body |-> NoBody,
                                         then |-> "end"])
      BY <2>1, <2>2, <2>3, CallDoes
    <2> QED  BY <1>2, <2>2, <2>4 DEF SameState
  <1> QED  BY <1>1, <1>2

\* A candidate is queued, and taken off the queue again where there is a remote
\* description.
LEMMA OnIceDoes ==
    ASSUME NEW h \in Handle(Bodies), NEW mine \in BOOLEAN, NEW b \in Bodies,
           NEW offered, offered = MaybeOffer(h, mine), offered \in Handle(Bodies),
           NEW k, k = OnIce(h, mine, b)
    PROVE  /\ k \in Handle(Bodies)
           /\ SameState(offered, k)
           /\ Count(k.ops, OfferOps) = Count(offered.ops, OfferOps)
           /\ Count(k.ops, AnswerOps) = Count(offered.ops, AnswerOps)
           /\ Count(k.ops, TakeOps) = Count(offered.ops, TakeOps)
  <1> DEFINE more   == Append(offered.pending, b)
             queued == [offered EXCEPT !.pending = more]
  <1>1. more \in Seq(Bodies)
    BY AppendProperties DEF Handle
  <1>2. k = IF queued.remote_set THEN Drain(queued, "end") ELSE queued
    BY DEF OnIce
  <1> HIDE DEF more
  <1>3. queued \in Handle(Bodies) /\ SameState(offered, queued) /\ queued.ops = offered.ops
    BY <1>1 DEF Handle, SameState
  <1> HIDE DEF queued
  <1>4. CASE k = queued
    BY <1>3, <1>4
  <1>5. CASE k = Drain(queued, "end")
    <2>1. k \in Handle(Bodies) /\ SameState(queued, k)
      BY <1>3, <1>5, DrainDoes
    <2>2. /\ Count(k.ops, OfferOps) = Count(queued.ops, OfferOps)
          /\ Count(k.ops, AnswerOps) = Count(queued.ops, AnswerOps) + 0
          /\ Count(k.ops, TakeOps) = Count(queued.ops, TakeOps)
      BY <1>3, <1>5, DrainTokens
    <2>3. Count(queued.ops, AnswerOps) \in Nat
      BY <1>3, TokensType DEF Handle
    <2> QED  BY <1>3, <2>1, <2>2, <2>3 DEF SameState
  <1> QED  BY <1>2, <1>4, <1>5

-----------------------------------------------------------------------------
(* The mail of a pair. *)

\* How much s has not read of what p has sent it: the numbers of OnTheWay, for
\* every kind of signal and set of bodies.
Mail(P, q, y, s, p) ==
    [k \in SignalKinds |-> [B \in SUBSET Bodies |->
        Cardinality(P \cap [from : {p}, to : {s}, type : {k}, body : B])
            + Count(q, SignalsOf(p, k, B)) + Count(y, SignalsOf(p, k, B))]]

\* An event is read, which may be a signal of p.
Taken(m, n, p, e) ==
    \A k \in SignalKinds, B \in SUBSET Bodies :
        m[k][B] = n[k][B] + (IF e \in SignalsOf(p, k, B) THEN 1 ELSE 0)

\* A signal is posted.  If it is there already, it is there once.
Sent(m, n, kind, body) ==
    \A k \in SignalKinds, B \in SUBSET Bodies :
        LET one == IF k = kind /\ body \in B THEN 1 ELSE 0
        IN  /\ n[k][B] = m[k][B] \/ n[k][B] = m[k][B] + one
            /\ m[kind][{body}] = 0 => n[k][B] = m[k][B] + one

\* Signals are lost.
Fewer(m, n) ==
    \A k \in SignalKinds, B \in SUBSET Bodies : n[k][B] <= m[k][B]

LEMMA PostsType ==
    ASSUME NEW P, IsFiniteSet(P), NEW S
    PROVE  /\ Cardinality(P \cap S) \in Nat
           /\ Cardinality(P \cap S) = 0 <=> P \cap S = {}
  <1>1. IsFiniteSet(P \cap S)
    BY FS_Subset
  <1> QED  BY <1>1, FS_CardinalityType, FS_EmptySet

LEMMA PostsCount ==
    ASSUME NEW P, IsFiniteSet(P), NEW r, NEW S
    PROVE  /\ r \in P =>
                Cardinality(P \cap S) =
                  Cardinality((P \ {r}) \cap S) + (IF r \in S THEN 1 ELSE 0)
           /\ r \notin P =>
                Cardinality((P \cup {r}) \cap S) =
                  Cardinality(P \cap S) + (IF r \in S THEN 1 ELSE 0)
  <1>1. IsFiniteSet(P \cap S)
    BY FS_Subset
  <1>2. Cardinality(P \cap S) \in Nat
    BY PostsType
  <1>3. ASSUME r \in P
        PROVE  Cardinality(P \cap S) =
                 Cardinality((P \ {r}) \cap S) + (IF r \in S THEN 1 ELSE 0)
    <2>1. CASE r \in S
      <3>1. (P \ {r}) \cap S = (P \cap S) \ {r} /\ r \in P \cap S
        BY <1>3, <2>1
      <3>2. Cardinality((P \ {r}) \cap S) = Cardinality(P \cap S) - 1
        BY <1>1, <3>1, FS_RemoveElement
      <3>3. Cardinality(P \cap S) = Cardinality((P \ {r}) \cap S) + 1
        BY <1>2, <3>2
      <3> QED  BY <2>1, <3>3
    <2>2. CASE r \notin S
      <3>1. (P \ {r}) \cap S = P \cap S
        BY <2>2
      <3> QED  BY <1>2, <2>2, <3>1
    <2> QED  BY <2>1, <2>2
  <1>4. ASSUME r \notin P
        PROVE  Cardinality((P \cup {r}) \cap S) =
                 Cardinality(P \cap S) + (IF r \in S THEN 1 ELSE 0)
    <2>1. CASE r \in S
      <3>1. (P \cup {r}) \cap S = (P \cap S) \cup {r} /\ r \notin P \cap S
        BY <1>4, <2>1
      <3>2. Cardinality((P \cap S) \cup {r}) = Cardinality(P \cap S) + 1
        BY <1>1, <3>1, FS_AddElement
      <3> QED  BY <2>1, <3>1, <3>2
    <2>2. CASE r \notin S
      <3>1. (P \cup {r}) \cap S = P \cap S
        BY <2>2
      <3> QED  BY <1>2, <2>2, <3>1
    <2> QED  BY <2>1, <2>2
  <1> QED  BY <1>2, <1>3, <1>4

LEMMA MailType ==
    ASSUME NEW P, IsFiniteSet(P), NEW T, NEW q \in Seq(T), NEW U, NEW y \in Seq(U),
           NEW s, NEW p
    PROVE  Mail(P, q, y, s, p) \in [SignalKinds -> [SUBSET Bodies -> Nat]]
  <1>1. ASSUME NEW k \in SignalKinds, NEW B \in SUBSET Bodies
        PROVE  Cardinality(P \cap [from : {p}, to : {s}, type : {k}, body : B])
                 + Count(q, SignalsOf(p, k, B)) + Count(y, SignalsOf(p, k, B)) \in Nat
    <2>1. Cardinality(P \cap [from : {p}, to : {s}, type : {k}, body : B]) \in Nat
      BY PostsType
    <2>2. Count(q, SignalsOf(p, k, B)) \in Nat /\ Count(y, SignalsOf(p, k, B)) \in Nat
      BY CountType
    <2> QED  BY <2>1, <2>2
  <1> QED  BY <1>1 DEF Mail

\* What is read from the stream.
LEMMA MailRead ==
    ASSUME NEW P, IsFiniteSet(P), NEW T, NEW q \in Seq(T), NEW U, NEW y \in Seq(U),
           NEW s, NEW p, q # << >>
    PROVE  Taken(Mail(P, q, y, s, p), Mail(P, Tail(q), y, s, p), p, Head(q))
  <1> SUFFICES ASSUME NEW k \in SignalKinds, NEW B \in SUBSET Bodies
               PROVE  Mail(P, q, y, s, p)[k][B] = Mail(P, Tail(q), y, s, p)[k][B]
                        + (IF Head(q) \in SignalsOf(p, k, B) THEN 1 ELSE 0)
    BY DEF Taken
  <1> DEFINE S == SignalsOf(p, k, B)
             c == Cardinality(P \cap [from : {p}, to : {s}, type : {k}, body : B])
  <1>1. /\ Mail(P, q, y, s, p)[k][B] = c + Count(q, S) + Count(y, S)
        /\ Mail(P, Tail(q), y, s, p)[k][B] = c + Count(Tail(q), S) + Count(y, S)
    BY DEF Mail
  <1>2. Count(q, S) = Count(Tail(q), S) + (IF Head(q) \in S THEN 1 ELSE 0)
    BY CountTail
  <1>3. c \in Nat
    BY PostsType
  <1>4. Tail(q) \in Seq(T)
    BY HeadTailProperties
  <1>5. Count(Tail(q), S) \in Nat /\ Count(y, S) \in Nat
    BY <1>4, CountType
  <1> HIDE DEF S, c
  <1>6. Mail(P, q, y, s, p)[k][B] =
          Mail(P, Tail(q), y, s, p)[k][B] + (IF Head(q) \in S THEN 1 ELSE 0)
    BY <1>1, <1>2, <1>3, <1>5
  <1> QED  BY <1>6 DEF S

\* What is read from the buffer.
LEMMA MailReplayed ==
    ASSUME NEW P, IsFiniteSet(P), NEW T, NEW q \in Seq(T), NEW U, NEW y \in Seq(U),
           NEW s, NEW p, y # << >>
    PROVE  Taken(Mail(P, q, y, s, p), Mail(P, q, Tail(y), s, p), p, Head(y))
  <1> SUFFICES ASSUME NEW k \in SignalKinds, NEW B \in SUBSET Bodies
               PROVE  Mail(P, q, y, s, p)[k][B] = Mail(P, q, Tail(y), s, p)[k][B]
                        + (IF Head(y) \in SignalsOf(p, k, B) THEN 1 ELSE 0)
    BY DEF Taken
  <1> DEFINE S == SignalsOf(p, k, B)
             c == Cardinality(P \cap [from : {p}, to : {s}, type : {k}, body : B])
  <1>1. /\ Mail(P, q, y, s, p)[k][B] = c + Count(q, S) + Count(y, S)
        /\ Mail(P, q, Tail(y), s, p)[k][B] = c + Count(q, S) + Count(Tail(y), S)
    BY DEF Mail
  <1>2. Count(y, S) = Count(Tail(y), S) + (IF Head(y) \in S THEN 1 ELSE 0)
    BY CountTail
  <1>3. c \in Nat
    BY PostsType
  <1>4. Tail(y) \in Seq(U)
    BY HeadTailProperties
  <1>5. Count(Tail(y), S) \in Nat /\ Count(q, S) \in Nat
    BY <1>4, CountType
  <1> HIDE DEF S, c
  <1>6. Mail(P, q, y, s, p)[k][B] =
          Mail(P, q, Tail(y), s, p)[k][B] + (IF Head(y) \in S THEN 1 ELSE 0)
    BY <1>1, <1>2, <1>3, <1>5
  <1> QED  BY <1>6 DEF S

\* An event comes in, or is kept.
LEMMA MailMore ==
    ASSUME NEW P, IsFiniteSet(P), NEW T, NEW q \in Seq(T), NEW U, NEW y \in Seq(U),
           NEW s, NEW p, NEW e
    PROVE  /\ e \in T => Taken(Mail(P, Append(q, e), y, s, p), Mail(P, q, y, s, p), p, e)
           /\ e \in U => Taken(Mail(P, q, Append(y, e), s, p), Mail(P, q, y, s, p), p, e)
  <1>1. ASSUME NEW k \in SignalKinds, NEW B \in SUBSET Bodies
        PROVE  /\ e \in T => Mail(P, Append(q, e), y, s, p)[k][B] =
                   Mail(P, q, y, s, p)[k][B]
                     + (IF e \in SignalsOf(p, k, B) THEN 1 ELSE 0)
               /\ e \in U => Mail(P, q, Append(y, e), s, p)[k][B] =
                   Mail(P, q, y, s, p)[k][B]
                     + (IF e \in SignalsOf(p, k, B) THEN 1 ELSE 0)
    <2> DEFINE S == SignalsOf(p, k, B)
               c == Cardinality(P \cap [from : {p}, to : {s}, type : {k}, body : B])
               more == Append(q, e)
               kept == Append(y, e)
    <2>1. /\ Mail(P, q, y, s, p)[k][B] = c + Count(q, S) + Count(y, S)
          /\ Mail(P, more, y, s, p)[k][B] = c + Count(more, S) + Count(y, S)
          /\ Mail(P, q, kept, s, p)[k][B] = c + Count(q, S) + Count(kept, S)
      BY DEF Mail
    <2>2. /\ e \in T => Count(more, S) = Count(q, S) + (IF e \in S THEN 1 ELSE 0)
          /\ e \in U => Count(kept, S) = Count(y, S) + (IF e \in S THEN 1 ELSE 0)
      BY CountAppend
    <2>3. c \in Nat
      BY PostsType
    <2>4. Count(q, S) \in Nat /\ Count(y, S) \in Nat
      BY CountType
    <2> HIDE DEF S, c, more, kept
    <2>5. /\ e \in T => Mail(P, more, y, s, p)[k][B] =
               Mail(P, q, y, s, p)[k][B] + (IF e \in S THEN 1 ELSE 0)
          /\ e \in U => Mail(P, q, kept, s, p)[k][B] =
               Mail(P, q, y, s, p)[k][B] + (IF e \in S THEN 1 ELSE 0)
      BY <2>1, <2>2, <2>3, <2>4
    <2> QED  BY <2>5 DEF S, more, kept
  <1> QED  BY <1>1 DEF Taken

\* Mails with the same numbers.
LEMMA MailAlike ==
    ASSUME NEW m \in [SignalKinds -> [SUBSET Bodies -> Nat]],
           NEW n \in [SignalKinds -> [SUBSET Bodies -> Nat]],
           \A k \in SignalKinds, B \in SUBSET Bodies : n[k][B] = m[k][B]
    PROVE  n = m
  <1>1. ASSUME NEW k \in SignalKinds
        PROVE  n[k] = m[k]
    <2>1. n[k] \in [SUBSET Bodies -> Nat] /\ m[k] \in [SUBSET Bodies -> Nat]
      OBVIOUS
    <2>2. \A B \in SUBSET Bodies : n[k][B] = m[k][B]
      OBVIOUS
    <2> DEFINE u == n[k]
               v == m[k]
    <2> HIDE DEF u, v
    <2>3. u = v
      BY <2>1, <2>2 DEF u, v
    <2> QED  BY <2>3 DEF u, v
  <1> QED  BY <1>1

\* A signal is posted.
LEMMA MailPosted ==
    ASSUME NEW P, IsFiniteSet(P), NEW T, NEW q \in Seq(T), NEW U, NEW y \in Seq(U),
           NEW s, NEW p, NEW r \in Post
    PROVE  /\ r.from = p /\ r.to = s =>
                Sent(Mail(P, q, y, s, p), Mail(P \cup {r}, q, y, s, p), r.type, r.body)
           /\ ~(r.from = p /\ r.to = s) =>
                Mail(P \cup {r}, q, y, s, p) = Mail(P, q, y, s, p)
  <1> DEFINE sent(k, B) == [from : {p}, to : {s}, type : {k}, body : B]
  <1>1. ASSUME NEW k \in SignalKinds, NEW B \in SUBSET Bodies
        PROVE  r \in sent(k, B) <=>
                  r.from = p /\ r.to = s /\ k = r.type /\ r.body \in B
    BY DEF Post
  <1>2. r.type \in SignalKinds /\ {r.body} \in SUBSET Bodies
    BY DEF Post
  <1>3. ASSUME NEW k \in SignalKinds, NEW B \in SUBSET Bodies
        PROVE  /\ Mail(P \cup {r}, q, y, s, p)[k][B] = Mail(P, q, y, s, p)[k][B]
                  \/ /\ r \in sent(k, B)
                     /\ Mail(P \cup {r}, q, y, s, p)[k][B] =
                          Mail(P, q, y, s, p)[k][B] + 1
               /\ r \notin P =>
                     Mail(P \cup {r}, q, y, s, p)[k][B] =
                       Mail(P, q, y, s, p)[k][B] + (IF r \in sent(k, B) THEN 1 ELSE 0)
    <2> DEFINE a == Count(q, SignalsOf(p, k, B))
               b == Count(y, SignalsOf(p, k, B))
               c == Cardinality(P \cap sent(k, B))
               d == Cardinality((P \cup {r}) \cap sent(k, B))
    <2>1. /\ Mail(P, q, y, s, p)[k][B] = c + a + b
          /\ Mail(P \cup {r}, q, y, s, p)[k][B] = d + a + b
      BY DEF Mail
    <2>2. r \notin P => d = c + (IF r \in sent(k, B) THEN 1 ELSE 0)
      <3>1. \A S : r \notin P => Cardinality((P \cup {r}) \cap S) =
                     Cardinality(P \cap S) + (IF r \in S THEN 1 ELSE 0)
        BY PostsCount
      <3> HIDE DEF sent
      <3> QED  BY <3>1
    <2>3. r \in P => d = c
      <3>1. r \in P => P \cup {r} = P
        OBVIOUS
      <3> QED  BY <3>1
    <2>4. a \in Nat /\ b \in Nat
      BY CountType
    <2>5. c \in Nat
      BY PostsType
    <2> HIDE DEF a, b, c, d, sent
    <2> QED  BY <2>1, <2>2, <2>3, <2>4, <2>5
  <1>4. ASSUME Mail(P, q, y, s, p)[r.type][{r.body}] = 0, r.from = p, r.to = s
        PROVE  r \notin P
    <2> DEFINE a == Count(q, SignalsOf(p, r.type, {r.body}))
               b == Count(y, SignalsOf(p, r.type, {r.body}))
               c == Cardinality(P \cap sent(r.type, {r.body}))
    <2>1. Mail(P, q, y, s, p)[r.type][{r.body}] = c + a + b
      BY <1>2 DEF Mail
    <2>2. a \in Nat /\ b \in Nat
      BY CountType
    <2>3. c \in Nat /\ (c = 0 <=> P \cap sent(r.type, {r.body}) = {})
      BY PostsType
    <2>4. c = 0
      <3> HIDE DEF a, b, c
      <3> QED  BY <1>4, <2>1, <2>2, <2>3
    <2>5. r \in sent(r.type, {r.body})
      BY <1>1, <1>2, <1>4
    <2> QED  BY <2>3, <2>4, <2>5
  <1> HIDE DEF sent
  <1>5. ASSUME r.from = p, r.to = s
        PROVE  Sent(Mail(P, q, y, s, p), Mail(P \cup {r}, q, y, s, p), r.type, r.body)
    BY <1>1, <1>3, <1>4, <1>5 DEF Sent
  <1>6. ASSUME ~(r.from = p /\ r.to = s)
        PROVE  Mail(P \cup {r}, q, y, s, p) = Mail(P, q, y, s, p)
    <2>1. \A k \in SignalKinds, B \in SUBSET Bodies :
             Mail(P \cup {r}, q, y, s, p)[k][B] = Mail(P, q, y, s, p)[k][B]
      BY <1>1, <1>3, <1>6
    <2> DEFINE m == Mail(P, q, y, s, p)
               n == Mail(P \cup {r}, q, y, s, p)
    <2>2. IsFiniteSet(P \cup {r})
      BY FS_AddElement
    <2>3. /\ m \in [SignalKinds -> [SUBSET Bodies -> Nat]]
          /\ n \in [SignalKinds -> [SUBSET Bodies -> Nat]]
      BY <2>2, MailType
    <2>4. \A k \in SignalKinds, B \in SUBSET Bodies : n[k][B] = m[k][B]
      BY <2>1
    <2> HIDE DEF m, n
    <2>5. n = m
      BY <2>3, <2>4, MailAlike
    <2> QED  BY <2>5 DEF m, n
  <1> QED  BY <1>5, <1>6

\* A POST is over.
LEMMA MailGone ==
    ASSUME NEW P, IsFiniteSet(P), NEW T, NEW q \in Seq(T), NEW U, NEW y \in Seq(U),
           NEW s, NEW p, NEW r \in P, r \in Post
    PROVE  /\ \A k \in SignalKinds, B \in SUBSET Bodies :
                 Mail(P, q, y, s, p)[k][B] = Mail(P \ {r}, q, y, s, p)[k][B]
                   + (IF r.from = p /\ r.to = s /\ r.type = k /\ r.body \in B
                      THEN 1 ELSE 0)
           /\ Fewer(Mail(P, q, y, s, p), Mail(P \ {r}, q, y, s, p))
           /\ ~(r.from = p /\ r.to = s) =>
                Mail(P \ {r}, q, y, s, p) = Mail(P, q, y, s, p)
  <1>1. ASSUME NEW k \in SignalKinds, NEW B \in SUBSET Bodies
        PROVE  /\ Mail(P, q, y, s, p)[k][B] = Mail(P \ {r}, q, y, s, p)[k][B]
                    + (IF r.from = p /\ r.to = s /\ r.type = k /\ r.body \in B
                       THEN 1 ELSE 0)
               /\ Mail(P \ {r}, q, y, s, p)[k][B] \in Nat
    <2> DEFINE sent == [from : {p}, to : {s}, type : {k}, body : B]
               a == Count(q, SignalsOf(p, k, B))
               b == Count(y, SignalsOf(p, k, B))
               c == Cardinality(P \cap sent)
               d == Cardinality((P \ {r}) \cap sent)
    <2>1. /\ Mail(P, q, y, s, p)[k][B] = c + a + b
          /\ Mail(P \ {r}, q, y, s, p)[k][B] = d + a + b
      BY DEF Mail
    <2>2. c = d + (IF r \in sent THEN 1 ELSE 0)
      <3>1. \A S : Cardinality(P \cap S) =
               Cardinality((P \ {r}) \cap S) + (IF r \in S THEN 1 ELSE 0)
        BY PostsCount
      <3> HIDE DEF sent
      <3> QED  BY <3>1
    <2>3. a \in Nat /\ b \in Nat
      BY CountType
    <2>4. d \in Nat
      <3>1. IsFiniteSet(P \ {r})
        BY FS_Subset
      <3> QED  BY <3>1, PostsType
    <2>5. r \in sent <=> r.from = p /\ r.to = s /\ r.type = k /\ r.body \in B
      BY DEF Post
    <2> HIDE DEF a, b, c, d, sent
    <2> QED  BY <2>1, <2>2, <2>3, <2>4, <2>5
  <1> DEFINE m == Mail(P, q, y, s, p)
             n == Mail(P \ {r}, q, y, s, p)
  <1>2. IsFiniteSet(P \ {r})
    BY FS_Subset
  <1>3. /\ m \in [SignalKinds -> [SUBSET Bodies -> Nat]]
        /\ n \in [SignalKinds -> [SUBSET Bodies -> Nat]]
    BY <1>2, MailType
  <1>4. \A k \in SignalKinds, B \in SUBSET Bodies :
           m[k][B] = n[k][B]
             + (IF r.from = p /\ r.to = s /\ r.type = k /\ r.body \in B THEN 1 ELSE 0)
    BY <1>1
  <1> HIDE DEF m, n
  <1>5. Fewer(m, n)
    <2>1. ASSUME NEW k \in SignalKinds, NEW B \in SUBSET Bodies
          PROVE  n[k][B] <= m[k][B]
      <3>1. m[k][B] = n[k][B] \/ m[k][B] = n[k][B] + 1
        BY <1>3, <1>4
      <3>2. n[k][B] \in Nat
        BY <1>3
      <3> QED  BY <3>1, <3>2
    <2> QED  BY <2>1 DEF Fewer
  <1>6. ASSUME ~(r.from = p /\ r.to = s)
        PROVE  n = m
    <2>1. \A k \in SignalKinds, B \in SUBSET Bodies : n[k][B] = m[k][B]
      BY <1>3, <1>4, <1>6
    <2> QED  BY <1>3, <2>1, MailAlike
  <1> QED  BY <1>4, <1>5, <1>6 DEF m, n

\* What is taken from here is put there.
LEMMA TakenTwice ==
    ASSUME NEW l \in [SignalKinds -> [SUBSET Bodies -> Nat]],
           NEW m \in [SignalKinds -> [SUBSET Bodies -> Nat]],
           NEW n \in [SignalKinds -> [SUBSET Bodies -> Nat]],
           NEW p, NEW e, Taken(m, l, p, e), Taken(n, l, p, e)
    PROVE  n = m
  <1>1. \A k \in SignalKinds, B \in SUBSET Bodies : n[k][B] = m[k][B]
    BY DEF Taken
  <1> QED  BY <1>1, MailAlike

\* What is not a signal of p is not counted.
LEMMA TakenNone ==
    ASSUME NEW m \in [SignalKinds -> [SUBSET Bodies -> Nat]],
           NEW n \in [SignalKinds -> [SUBSET Bodies -> Nat]],
           NEW p, NEW e, e.type \notin SignalKinds \/ e.from # p,
           Taken(m, n, p, e)
    PROVE  n = m
  <1>1. ASSUME NEW k \in SignalKinds, NEW B \in SUBSET Bodies
        PROVE  n[k][B] = m[k][B]
    <2>1. e \notin SignalsOf(p, k, B)
      BY DEF SignalsOf
    <2>2. m[k][B] = n[k][B] + 0
      BY <2>1 DEF Taken
    <2> QED  BY <2>2
  <1> QED  BY <1>1, MailAlike

\* A POST that is relayed counts as the signal it was.
LEMMA RelayedKind ==
    ASSUME NEW r \in Post, NEW k \in SignalKinds, NEW B \in SUBSET Bodies
    PROVE  SignalEvent(r.from, r.to, r.type, r.body) \in SignalsOf(r.from, k, B)
             <=> r.type = k /\ r.body \in B
  BY DEF Post, SignalsOf, SignalEvent

\* An event is kept for the mesh.
LEMMA MailKept ==
    ASSUME NEW P, IsFiniteSet(P), NEW T, NEW q \in Seq(T), NEW U, NEW y \in Seq(U),
           NEW s, NEW p, q # << >>, Head(q) \in U
    PROVE  Mail(P, Tail(q), Append(y, Head(q)), s, p) = Mail(P, q, y, s, p)
  <1> DEFINE l == Mail(P, Tail(q), y, s, p)
             m == Mail(P, q, y, s, p)
             n == Mail(P, Tail(q), Append(y, Head(q)), s, p)
  <1>1. Tail(q) \in Seq(T) /\ Append(y, Head(q)) \in Seq(U)
    BY HeadTailProperties, AppendProperties
  <1>2. /\ l \in [SignalKinds -> [SUBSET Bodies -> Nat]]
        /\ m \in [SignalKinds -> [SUBSET Bodies -> Nat]]
        /\ n \in [SignalKinds -> [SUBSET Bodies -> Nat]]
    BY <1>1, MailType
  <1>3. Taken(m, l, p, Head(q))
    BY MailRead
  <1>4. Taken(n, l, p, Head(q))
    BY <1>1, MailMore
  <1> HIDE DEF l, m, n
  <1>5. n = m
    BY <1>2, <1>3, <1>4, TakenTwice
  <1> QED  BY <1>5 DEF m, n

\* An event that is no signal of p comes in, or is kept.
LEMMA MailOther ==
    ASSUME NEW P, IsFiniteSet(P), NEW T, NEW q \in Seq(T), NEW U, NEW y \in Seq(U),
           NEW s, NEW p, NEW e, e.type \notin SignalKinds \/ e.from # p
    PROVE  /\ e \in T => Mail(P, Append(q, e), y, s, p) = Mail(P, q, y, s, p)
           /\ e \in U => Mail(P, q, Append(y, e), s, p) = Mail(P, q, y, s, p)
  <1> DEFINE l == Mail(P, q, y, s, p)
             m == Mail(P, Append(q, e), y, s, p)
             n == Mail(P, q, Append(y, e), s, p)
  <1>1. /\ e \in T => Append(q, e) \in Seq(T)
        /\ e \in U => Append(y, e) \in Seq(U)
    BY AppendProperties
  <1>2. /\ l \in [SignalKinds -> [SUBSET Bodies -> Nat]]
        /\ e \in T => m \in [SignalKinds -> [SUBSET Bodies -> Nat]]
        /\ e \in U => n \in [SignalKinds -> [SUBSET Bodies -> Nat]]
    BY <1>1, MailType
  <1>3. /\ e \in T => Taken(m, l, p, e)
        /\ e \in U => Taken(n, l, p, e)
    BY MailMore
  <1> HIDE DEF l, m, n
  <1>4. (e \in T => m = l) /\ (e \in U => n = l)
    BY <1>2, <1>3, TakenNone
  <1> QED  BY <1>4 DEF l, m, n

\* A stream goes with what was not read, which may be nothing of p.
LEMMA MailClosed ==
    ASSUME NEW P, IsFiniteSet(P), NEW T, NEW q \in Seq(T), NEW U, NEW y \in Seq(U),
           NEW s, NEW p
    PROVE  /\ Fewer(Mail(P, q, y, s, p), Mail(P, << >>, y, s, p))
           /\ Fewer(Mail(P, q, y, s, p), Mail(P, << >>, << >>, s, p))
           /\ Fewer(Mail(P, q, y, s, p), Mail(P, q, << >>, s, p))
           /\ (\A i \in 1 .. Len(q) :
                  ~(q[i].type \in SignalKinds /\ q[i].from = p)) =>
                Mail(P, << >>, y, s, p) = Mail(P, q, y, s, p)
  <1> DEFINE m == Mail(P, q, y, s, p)
             n == Mail(P, << >>, y, s, p)
             l == Mail(P, << >>, << >>, s, p)
             o == Mail(P, q, << >>, s, p)
  <1>1. << >> \in Seq(T)
    BY EmptySeq
  <1>2. /\ m \in [SignalKinds -> [SUBSET Bodies -> Nat]]
        /\ n \in [SignalKinds -> [SUBSET Bodies -> Nat]]
    BY <1>1, MailType
  <1>3. ASSUME NEW k \in SignalKinds, NEW B \in SUBSET Bodies
        PROVE  /\ n[k][B] <= m[k][B]
               /\ l[k][B] <= m[k][B]
               /\ o[k][B] <= m[k][B]
               /\ (\A i \in 1 .. Len(q) :
                      ~(q[i].type \in SignalKinds /\ q[i].from = p)) =>
                    n[k][B] = m[k][B]
    <2> DEFINE a == Count(q, SignalsOf(p, k, B))
               b == Count(y, SignalsOf(p, k, B))
               c == Cardinality(P \cap [from : {p}, to : {s}, type : {k}, body : B])
    <2>1. /\ m[k][B] = c + a + b /\ n[k][B] = c + 0 + b
          /\ l[k][B] = c + 0 + 0 /\ o[k][B] = c + a + 0
      BY CountEmpty DEF Mail
    <2>2. a \in Nat /\ b \in Nat
      BY CountType
    <2>3. c \in Nat
      BY PostsType
    <2>4. (\A i \in 1 .. Len(q) :
              ~(q[i].type \in SignalKinds /\ q[i].from = p)) => a = 0
      <3>1. \A i \in 1 .. Len(q) :
               q[i] \in SignalsOf(p, k, B) => q[i].type \in SignalKinds /\ q[i].from = p
        BY DEF SignalsOf
      <3> QED  BY <3>1, CountType
    <2> HIDE DEF a, b, c, l, m, n, o
    <2> QED  BY <2>1, <2>2, <2>3, <2>4
  <1> HIDE DEF l, m, n, o
  <1>4. Fewer(m, n) /\ Fewer(m, l) /\ Fewer(m, o)
    BY <1>3 DEF Fewer
  <1>5. (\A i \in 1 .. Len(q) : ~(q[i].type \in SignalKinds /\ q[i].from = p)) => n = m
    BY <1>2, <1>3, MailAlike
  <1> QED  BY <1>4, <1>5 DEF l, m, n, o

-----------------------------------------------------------------------------
(* What a step does to a pair. *)

\* The handle after an event is read.
Met(h) == IF h = NoHandle THEN NewHandle ELSE h

Reads(h, k, p, mine, e) ==
    \/ /\ \/ e.type = "resync" /\ p \in e.peers
          \/ e.type = "peer_joined" /\ e.peer = p
       /\ k = MaybeOffer(Met(h), mine)
    \/ /\ e.type = "offer" /\ e.from = p
       /\ k = ApplyOffer(Met(h), mine, e.body)
    \/ /\ e.type = "answer" /\ e.from = p
       /\ k = IF h = NoHandle THEN h ELSE ApplyAnswer(h, e.body)
    \/ /\ e.type = "ice" /\ e.from = p
       /\ k = OnIce(Met(h), mine, e.body)
    \/ /\ ~(e.type \in SignalKinds /\ e.from = p)
       /\ k = h

\* What s makes of its handle of p: from h to k, while what p has not read
\* goes from m to m2 and what s has not read from n to n2.
Reading(h, k, m, m2, n, n2, s, p) ==
    /\ m2 = m
    /\ \E e \in FitEvent(s) \cup ResyncRead :
         Reads(h, k, p, WeInitiate(s, p), e) /\ Taken(n, n2, p, e)

Performing(h, k, m, m2, n, n2, v) ==
    /\ h # NoHandle
    /\ h.ops # << >>
    /\ ~Rejects(h)
    /\ k = Performed(h)
    /\ n2 = n
    /\ \/ Head(h.ops).do = "local_offer" /\ Sent(m, m2, "offer", <<v, 0>>)
       \/ Head(h.ops).do = "local_answer" /\ Sent(m, m2, "answer", <<v, h.remote[1]>>)
       \/ Head(h.ops).do \notin {"local_offer", "local_answer"} /\ m2 = m

Failing(h, k, m, m2, n, n2, lost) ==
    /\ h # NoHandle
    /\ h.ops # << >>
    /\ Rejects(h) \/ lost
    /\ k = Failed(h)
    /\ m2 = m
    /\ n2 = n

Gathering(h, k, m, m2, n, n2, v) ==
    /\ h # NoHandle
    /\ h.gathered + 1 <= MaxCandidates
    /\ k = [h EXCEPT !.gathered = h.gathered + 1]
    /\ n2 = n
    /\ Sent(m, m2, "ice", <<v, h.gathered + 1>>)

\* The answer of h has been posted.
Draining(h, k, m, m2, n, n2, mine, lost) ==
    /\ h # NoHandle
    /\ ~mine
    /\ m["answer"][Bodies] # 0
    /\ k = Drain(h, "end")
    /\ m2 = m \/ (lost /\ Fewer(m, m2))
    /\ n2 = n

\* Whatever it is.
Handled(h, k, m, m2, n, n2, s, p, lost) ==
    \/ Reading(h, k, m, m2, n, n2, s, p)
    \/ Performing(h, k, m, m2, n, n2, visit[s])
    \/ Failing(h, k, m, m2, n, n2, lost)
    \/ Gathering(h, k, m, m2, n, n2, visit[s])
    \/ Draining(h, k, m, m2, n, n2, WeInitiate(s, p), lost)

\* The same for the pages: what s has not read of p, before and after.
Unread(s, p)     == Mail(posts, queue[s], early[s], s, p)
UnreadNext(s, p) == Mail(posts', queue'[s], early'[s], s, p)

Lost(s, p) == loss'[s][p] # "none" /\ loss'[p][s] # "none"

\* s goes on, or enters.
Abides(s) ==
    /\ visit'[s] = visit[s]
    /\ page'[s] = "away" <=> page[s] = "away"

Enters(s) ==
    /\ visit'[s] = visit[s] + 1
    /\ page[s] = "away"
    /\ page'[s] # "away"

Acts(s, p) ==
    /\ Abides(s)
    /\ Abides(p)
    /\ page[s] # "away" \/ peers[s][p] # NoHandle
    /\ peers'[p][s] = peers[p][s]
    /\ Handled(peers[s][p], peers'[s][p], Unread(p, s), UnreadNext(p, s),
               Unread(s, p), UnreadNext(s, p), s, p, Lost(s, p))

Leaves(s, p) ==
    /\ visit'[s] = visit[s]
    /\ page[s] # "away"
    /\ page'[s] = "away"
    /\ Abides(p)
    /\ peers'[s][p] = NoHandle
    /\ peers'[p][s] = peers[p][s]
    /\ UnreadNext(p, s) = Unread(p, s)
    /\ Fewer(Unread(s, p), UnreadNext(s, p))

Still(s, p) ==
    /\ Abides(s) \/ Enters(s)
    /\ Abides(p) \/ Enters(p)
    /\ peers'[s][p] = peers[s][p]
    /\ peers'[p][s] = peers[p][s]
    /\ \/ UnreadNext(s, p) = Unread(s, p)
       \/ Fewer(Unread(s, p), UnreadNext(s, p)) /\ Lost(s, p)
    /\ \/ UnreadNext(p, s) = Unread(p, s)
       \/ Fewer(Unread(p, s), UnreadNext(p, s)) /\ Lost(s, p)

PairSteps(s, p) ==
    Acts(s, p) \/ Acts(p, s) \/ Leaves(s, p) \/ Leaves(p, s) \/ Still(s, p)

\* An event in the eyes of one pair.
LEMMA ReadsPair ==
    ASSUME NEW s \in Sessions, NEW p \in Sessions, p # s,
           NEW m \in [Sessions -> Handle(Bodies) \cup {NoHandle}],
           NEW e \in FitEvent(s) \cup ResyncRead
    PROVE  Reads(m[p], OnRoomEvent(s, m, e)[p], p, WeInitiate(s, p), e)
  <1>1. Ensured(s, m, p) = Met(m[p])
    BY DEF Ensured, Met
  <1>2. CASE e.type \in {"resync", "peer_joined"}
    <2> DEFINE present == IF e.type = "resync" THEN e.peers ELSE {e.peer}
    <2>1. OnRoomEvent(s, m, e) = Meet(s, m, present)
      BY <1>2, MeshAssumption DEF OnRoomEvent
    <2>2. Meet(s, m, present)[p] =
             IF p \in present THEN MaybeOffer(Met(m[p]), WeInitiate(s, p)) ELSE m[p]
      BY <1>1 DEF Meet
    <2>3. e.type \notin SignalKinds
      BY <1>2, MeshAssumption
    <2> QED  BY <1>2, <2>1, <2>2, <2>3 DEF Reads
  <1>3. CASE e.type \in SignalKinds
    <2> DEFINE q == e.from
               h == IF e.type = "answer" THEN m[q] ELSE Ensured(s, m, q)
               mine == WeInitiate(s, q)
               left == CASE e.type = "offer" -> ApplyOffer(h, mine, e.body)
                         [] e.type = "answer" -> ApplyAnswer(h, e.body)
                         [] e.type = "ice" -> OnIce(h, mine, e.body)
    <2>1. q \in Sessions
      BY <1>3, ServerAssumption, MeshAssumption DEF FitEvent, Event, ResyncRead
    <2>2. OnRoomEvent(s, m, e) = IF h = NoHandle THEN m ELSE [m EXCEPT ![q] = left]
      BY <1>3, ServerAssumption, MeshAssumption DEF OnRoomEvent
    <2>3. CASE q # p
      <3> HIDE DEF h, left
      <3>1. OnRoomEvent(s, m, e)[p] = m[p]
        BY <2>1, <2>2, <2>3
      <3> QED  BY <2>3, <3>1 DEF Reads
    <2>4. CASE q = p
      <3>1. e.type # "answer" => h = Met(m[p]) /\ h # NoHandle
        BY <1>1, <2>4 DEF Met, NewHandle, NoHandle
      <3>2. e.type = "answer" => h = m[p]
        BY <2>4
      <3>3. e.type \in {"offer", "answer", "ice"}
        BY <1>3, MeshAssumption
      <3>4. /\ e.type = "offer" => left = ApplyOffer(h, mine, e.body)
            /\ e.type = "answer" => left = ApplyAnswer(h, e.body)
            /\ e.type = "ice" => left = OnIce(h, mine, e.body)
        OBVIOUS
      <3> HIDE DEF h, left
      <3>5. OnRoomEvent(s, m, e)[p] = IF h = NoHandle THEN m[p] ELSE left
        BY <2>2, <2>4
      <3> QED  BY <2>4, <3>1, <3>2, <3>3, <3>4, <3>5 DEF Reads
    <2> QED  BY <2>3, <2>4
  <1>4. CASE e.type \notin {"resync", "peer_joined"} \cup SignalKinds
    <2>1. OnRoomEvent(s, m, e) = m
      BY <1>4 DEF OnRoomEvent
    <2> QED  BY <1>4, <2>1 DEF Reads
  <1> QED  BY <1>2, <1>3, <1>4

LEMMA StreamTypes ==
    ASSUME MeshInv, NEW s \in Sessions
    PROVE  /\ queue[s] \in Seq(FitEvent(s))
           /\ early[s] \in Seq(FitEvent(s) \cup ResyncRead)
  BY DEF MeshInv, StreamsFit, PagesFit

\* Nothing of the pair is touched.
LEMMA PairFrame ==
    ASSUME NEW s \in Sessions, NEW p \in Sessions,
           Abides(s) \/ Enters(s), Abides(p) \/ Enters(p),
           UNCHANGED posts,
           peers'[s][p] = peers[s][p], peers'[p][s] = peers[p][s],
           queue'[s] = queue[s], queue'[p] = queue[p],
           early'[s] = early[s], early'[p] = early[p]
    PROVE  Still(s, p)
  BY DEF Still, Unread, UnreadNext

\* The mesh of s reads an event.
LEMMA PairReads ==
    ASSUME MeshInv, NEW s \in Sessions, NEW p \in Sessions, s # p,
           NEW e \in FitEvent(s) \cup ResyncRead, page[s] # "away",
           Abides(s), Abides(p),
           peers' = [peers EXCEPT ![s] = OnRoomEvent(s, peers[s], e)],
           UnreadNext(p, s) = Unread(p, s),
           Taken(Unread(s, p), UnreadNext(s, p), p, e)
    PROVE  Acts(s, p)
  <1>1. peers \in [Sessions -> [Sessions -> Handle(Bodies) \cup {NoHandle}]]
    BY DEF MeshInv, PagesFit
  <1>2. Reads(peers[s][p], OnRoomEvent(s, peers[s], e)[p], p, WeInitiate(s, p), e)
    BY <1>1, ReadsPair
  <1>3. /\ peers'[s][p] = OnRoomEvent(s, peers[s], e)[p]
        /\ peers'[p][s] = peers[p][s]
    BY <1>1
  <1>4. Reads(peers[s][p], peers'[s][p], p, WeInitiate(s, p), e)
    BY <1>2, <1>3
  <1> QED  BY <1>3, <1>4 DEF Acts, Handled, Reading

LEMMA PairReadEvent ==
    ASSUME MeshInv, IsFiniteSet(posts),
           NEW s \in Sessions, NEW p \in Sessions, s # p,
           ReadEvent(s) \/ ReadResync(s) \/ Replay(s)
    PROVE  Acts(s, p) \/ Still(s, p)
  <1>1. /\ queue[s] \in Seq(FitEvent(s))
        /\ early[s] \in Seq(FitEvent(s) \cup ResyncRead)
    BY StreamTypes
  <1>2. Abides(s) /\ Abides(p) /\ UNCHANGED posts
    BY Frame DEF Abides
  <1>3. /\ queue \in [Sessions -> Seq(Event)]
        /\ early \in [Sessions -> Seq(Event \cup ResyncRead)]
    BY DEF MeshInv, MeshTypeOK, TypeOK
  <1>4. CASE ReadEvent(s)
    <2> DEFINE e == Head(queue[s])
    <2>1. queue[s] # << >> /\ queue' = [queue EXCEPT ![s] = Tail(queue[s])]
      BY <1>4 DEF ReadEvent, DeliverEvent
    <2>2. e \in FitEvent(s) \cup ResyncRead /\ e \in FitEvent(s)
      BY <1>1, <2>1, HeadTailProperties
    <2>3. queue'[s] = Tail(queue[s]) /\ queue'[p] = queue[p]
      BY <1>3, <2>1
    <2>4. CASE page[s] = "ready"
      <3>1. /\ peers' = [peers EXCEPT ![s] = OnRoomEvent(s, peers[s], e)]
            /\ UNCHANGED early
        BY <1>4, <2>4 DEF ReadEvent, ToMesh
      <3>2. Taken(Unread(s, p), UnreadNext(s, p), p, e)
        BY <1>1, <1>2, <2>1, <2>3, <3>1, MailRead DEF Unread, UnreadNext
      <3>3. UnreadNext(p, s) = Unread(p, s)
        BY <1>2, <2>3, <3>1 DEF Unread, UnreadNext
      <3> HIDE DEF e
      <3> QED  BY <1>2, <2>2, <2>4, <3>1, <3>2, <3>3, PairReads
    <2>5. CASE page[s] # "ready"
      <3>1. /\ early' = [early EXCEPT ![s] = Append(early[s], e)]
            /\ UNCHANGED peers
        BY <1>4, <2>5 DEF ReadEvent, ToMesh
      <3>2. early'[s] = Append(early[s], e) /\ early'[p] = early[p]
        BY <1>3, <3>1
      <3>3. UnreadNext(s, p) = Unread(s, p)
        BY <1>1, <1>2, <2>1, <2>2, <2>3, <3>2, MailKept DEF Unread, UnreadNext
      <3>4. UnreadNext(p, s) = Unread(p, s)
        BY <1>2, <2>3, <3>2 DEF Unread, UnreadNext
      <3> QED  BY <1>2, <3>1, <3>3, <3>4 DEF Still
    <2> QED  BY <2>4, <2>5
  <1>5. CASE ReadResync(s)
    <2> DEFINE e == [type |-> "resync", peers |-> DOMAIN resync[s].peers]
    <2>1. /\ ToMesh(s, e)
          /\ UNCHANGED queue
          /\ resync[s] # None
      BY <1>5, Frame DEF ReadResync, DeliverResync
    <2>0. resync[s] \in Resync
      BY <2>1 DEF MeshInv, MeshTypeOK, TypeOK
    <2>2. e \in ResyncRead
      BY <2>0 DEF Resync, Roster, ResyncRead
    <2>3. e \in FitEvent(s) \cup ResyncRead
      BY <2>2
    <2>4. e.type \notin SignalKinds
      BY MeshAssumption
    <2> HIDE DEF e
    <2>5. CASE page[s] = "ready"
      <3>1. /\ peers' = [peers EXCEPT ![s] = OnRoomEvent(s, peers[s], e)]
            /\ UNCHANGED early
        BY <2>1, <2>5 DEF ToMesh
      <3>2. /\ UnreadNext(s, p) = Unread(s, p)
            /\ UnreadNext(p, s) = Unread(p, s)
        BY <1>2, <2>1, <3>1 DEF Unread, UnreadNext
      <3>3. Unread(s, p) \in [SignalKinds -> [SUBSET Bodies -> Nat]]
        BY <1>1, MailType DEF Unread
      <3>4. Taken(Unread(s, p), UnreadNext(s, p), p, e)
        <4>1. \A k \in SignalKinds, B \in SUBSET Bodies : e \notin SignalsOf(p, k, B)
          BY <2>4 DEF SignalsOf
        <4> QED  BY <3>2, <3>3, <4>1 DEF Taken
      <3> QED  BY <1>2, <2>3, <2>5, <3>1, <3>2, <3>4, PairReads
    <2>6. CASE page[s] # "ready"
      <3>1. /\ early' = [early EXCEPT ![s] = Append(early[s], e)]
            /\ UNCHANGED peers
        BY <2>1, <2>6 DEF ToMesh
      <3>2. early'[s] = Append(early[s], e) /\ early'[p] = early[p]
        BY <1>3, <3>1
      <3>3. UnreadNext(s, p) = Unread(s, p)
        BY <1>1, <1>2, <2>1, <2>3, <2>4, <3>2, MailOther DEF Unread, UnreadNext
      <3>4. UnreadNext(p, s) = Unread(p, s)
        BY <1>2, <2>1, <3>2 DEF Unread, UnreadNext
      <3> QED  BY <1>2, <3>1, <3>3, <3>4 DEF Still
    <2> QED  BY <2>5, <2>6
  <1>6. CASE Replay(s)
    <2> DEFINE e == Head(early[s])
    <2>1. /\ page[s] = "replaying"
          /\ early[s] # << >>
          /\ peers' = [peers EXCEPT ![s] = OnRoomEvent(s, peers[s], e)]
          /\ early' = [early EXCEPT ![s] = Tail(early[s])]
          /\ UNCHANGED queue
      BY <1>6, Frame DEF Replay
    <2>2. e \in FitEvent(s) \cup ResyncRead
      BY <1>1, <2>1, HeadTailProperties
    <2>3. early'[s] = Tail(early[s]) /\ early'[p] = early[p]
      BY <1>3, <2>1
    <2>4. Taken(Unread(s, p), UnreadNext(s, p), p, e)
      BY <1>1, <1>2, <2>1, <2>3, MailReplayed DEF Unread, UnreadNext
    <2>5. UnreadNext(p, s) = Unread(p, s)
      BY <1>2, <2>1, <2>3 DEF Unread, UnreadNext
    <2> HIDE DEF e
    <2> QED  BY <1>2, <2>1, <2>2, <2>4, <2>5, PairReads
  <1> QED  BY <1>4, <1>5, <1>6

LEMMA PeersType ==
    ASSUME MeshInv
    PROVE  peers \in [Sessions -> [Sessions -> Handle(Bodies) \cup {NoHandle}]]
  BY DEF MeshInv, PagesFit

LEMMA PairPerforms ==
    ASSUME MeshInv, IsFiniteSet(posts),
           NEW s \in Sessions, NEW p \in Sessions, s # p, PerformOp(s, p)
    PROVE  Acts(s, p)
  <1> DEFINE h == peers[s][p]
             op == Head(h.ops)
  <1>1. /\ page[s] = "ready" /\ h # NoHandle /\ h.ops # << >>
        /\ UNCHANGED <<queue, visit, page, early>>
    BY Frame DEF PerformOp
  <1>2. /\ queue[p] \in Seq(FitEvent(p)) /\ queue[s] \in Seq(FitEvent(s))
        /\ early[p] \in Seq(FitEvent(p) \cup ResyncRead)
        /\ early[s] \in Seq(FitEvent(s) \cup ResyncRead)
    BY StreamTypes
  <1>3. Abides(s) /\ Abides(p)
    BY <1>1 DEF Abides
  <1>4. CASE Rejects(h)
    <2>1. peers' = [peers EXCEPT ![s][p] = Failed(h)] /\ UNCHANGED posts
      BY <1>4 DEF PerformOp
    <2> HIDE DEF h
    <2>2. peers'[s][p] = Failed(h) /\ peers'[p][s] = peers[p][s]
      BY <2>1, PeersType
    <2>3. UnreadNext(s, p) = Unread(s, p) /\ UnreadNext(p, s) = Unread(p, s)
      BY <1>1, <2>1 DEF Unread, UnreadNext
    <2>4. Failing(h, peers'[s][p], Unread(p, s), UnreadNext(p, s), Unread(s, p),
                  UnreadNext(s, p), Lost(s, p))
      BY <1>1, <1>4, <2>2, <2>3 DEF Failing
    <2> QED  BY <1>1, <1>3, <2>2, <2>4 DEF Acts, Handled, h
  <1>5. CASE ~Rejects(h)
    <2>1. peers' = [peers EXCEPT ![s][p] = Performed(h)]
          /\ posts' = posts \cup Signalled(s, p, op)
      BY <1>5 DEF PerformOp
    <2>2. Signalled(s, p, op) \subseteq FitPost
      BY <1>1, SignalledFits
    <2>3. Signalled(s, p, op) =
          CASE op.do = "local_offer"  ->
                 {[from |-> s, to |-> p, type |-> "offer", body |-> <<visit[s], 0>>]}
            [] op.do = "local_answer" ->
                 {[from |-> s, to |-> p, type |-> "answer",
                   body |-> <<visit[s], h.remote[1]>>]}
            [] OTHER -> {}
      BY DEF Signalled
    <2> HIDE DEF h, op
    <2>4. peers'[s][p] = Performed(h) /\ peers'[p][s] = peers[p][s]
      BY <2>1, PeersType
    <2>5. ASSUME NEW kind, NEW body,
                 Signalled(s, p, op) =
                   {[from |-> s, to |-> p, type |-> kind, body |-> body]}
          PROVE  /\ Sent(Unread(p, s), UnreadNext(p, s), kind, body)
                 /\ UnreadNext(s, p) = Unread(s, p)
      <3> DEFINE r == [from |-> s, to |-> p, type |-> kind, body |-> body]
      <3>1. posts' = posts \cup {r} /\ r \in Post
        BY <2>1, <2>2, <2>5 DEF FitPost
      <3>2. r.from = s /\ r.to = p /\ r.type = kind /\ r.body = body
        OBVIOUS
      <3> HIDE DEF r
      <3>3. Sent(Mail(posts, queue[p], early[p], p, s),
                 Mail(posts \cup {r}, queue[p], early[p], p, s), r.type, r.body)
        BY <1>2, <3>1, <3>2, MailPosted
      <3>4. Mail(posts \cup {r}, queue[s], early[s], s, p)
               = Mail(posts, queue[s], early[s], s, p)
        BY <1>2, <3>1, <3>2, MailPosted
      <3> QED  BY <1>1, <3>1, <3>2, <3>3, <3>4 DEF Unread, UnreadNext
    <2>6. ASSUME Signalled(s, p, op) = {}
          PROVE  UnreadNext(p, s) = Unread(p, s) /\ UnreadNext(s, p) = Unread(s, p)
      BY <1>1, <2>1, <2>6 DEF Unread, UnreadNext
    <2>7. /\ UnreadNext(s, p) = Unread(s, p)
          /\ \/ op.do = "local_offer"
                /\ Sent(Unread(p, s), UnreadNext(p, s), "offer", <<visit[s], 0>>)
             \/ op.do = "local_answer"
                /\ Sent(Unread(p, s), UnreadNext(p, s), "answer",
                        <<visit[s], h.remote[1]>>)
             \/ op.do \notin {"local_offer", "local_answer"}
                /\ UnreadNext(p, s) = Unread(p, s)
      <3>1. CASE op.do = "local_offer"
        BY <2>3, <2>5, <3>1
      <3>2. CASE op.do = "local_answer"
        BY <2>3, <2>5, <3>2
      <3>3. CASE op.do \notin {"local_offer", "local_answer"}
        BY <2>3, <2>6, <3>3
      <3> QED  BY <3>1, <3>2, <3>3
    <2>8. Performing(h, peers'[s][p], Unread(p, s), UnreadNext(p, s), Unread(s, p),
                     UnreadNext(s, p), visit[s])
      BY <1>1, <1>5, <2>4, <2>7 DEF Performing, op
    <2> QED  BY <1>1, <1>3, <2>4, <2>8 DEF Acts, Handled, h
  <1> QED  BY <1>4, <1>5

LEMMA PairFails ==
    ASSUME MeshInv, NEW s \in Sessions, NEW p \in Sessions, s # p, FailOp(s, p)
    PROVE  Acts(s, p)
  <1> DEFINE h == peers[s][p]
  <1>1. /\ page[s] = "ready" /\ h # NoHandle /\ h.ops # << >>
        /\ peers' = [peers EXCEPT ![s][p] = Failed(h)]
        /\ UNCHANGED <<queue, visit, page, early, posts>>
    BY Frame DEF FailOp
  <1>2. Lost(s, p)
    BY DEF FailOp, Lose, Lost
  <1> HIDE DEF h
  <1>3. peers'[s][p] = Failed(h) /\ peers'[p][s] = peers[p][s]
    BY <1>1, PeersType
  <1>4. UnreadNext(s, p) = Unread(s, p) /\ UnreadNext(p, s) = Unread(p, s)
    BY <1>1 DEF Unread, UnreadNext
  <1>5. Failing(h, peers'[s][p], Unread(p, s), UnreadNext(p, s), Unread(s, p),
                UnreadNext(s, p), Lost(s, p))
    BY <1>1, <1>2, <1>3, <1>4 DEF Failing
  <1> QED  BY <1>1, <1>3, <1>5 DEF Acts, Handled, Abides, h

LEMMA PairGathers ==
    ASSUME MeshInv, IsFiniteSet(posts),
           NEW s \in Sessions, NEW p \in Sessions, s # p, Gather(s, p)
    PROVE  Acts(s, p)
  <1> DEFINE h == peers[s][p]
             n == h.gathered + 1
             r == [from |-> s, to |-> p, type |-> "ice", body |-> <<visit[s], n>>]
  <1>1. /\ page[s] = "ready" /\ h # NoHandle /\ n <= MaxCandidates
        /\ peers' = [peers EXCEPT ![s][p] = [h EXCEPT !.gathered = n]]
        /\ posts' = posts \cup {r}
        /\ UNCHANGED <<queue, visit, page, early>>
    BY Frame DEF Gather
  <1>2. /\ queue[p] \in Seq(FitEvent(p)) /\ queue[s] \in Seq(FitEvent(s))
        /\ early[p] \in Seq(FitEvent(p) \cup ResyncRead)
        /\ early[s] \in Seq(FitEvent(s) \cup ResyncRead)
    BY StreamTypes
  <1>3. visit[s] \in 1 .. MaxVisits
    BY <1>1, VisitNumber
  <1>4. h \in FitHandle(WeInitiate(s, p))
    BY <1>1, HandleFits
  <1>5. n \in Nat
    <2> HIDE DEF h
    <2> QED  BY <1>4 DEF FitHandle, Handle
  <1>6. <<visit[s], n>> \in Bodies
    <2> HIDE DEF n
    <2> QED  BY <1>1, <1>3, <1>5, MeshAssumption
  <1>7. /\ r \in Post
        /\ r.from = s /\ r.to = p /\ r.type = "ice" /\ r.body = <<visit[s], n>>
    <2> HIDE DEF n
    <2> QED  BY <1>6, MeshAssumption DEF Post
  <1> HIDE DEF r
  <1>8. Sent(Mail(posts, queue[p], early[p], p, s),
             Mail(posts \cup {r}, queue[p], early[p], p, s), r.type, r.body)
    BY <1>2, <1>7, MailPosted
  <1>9. Mail(posts \cup {r}, queue[s], early[s], s, p)
           = Mail(posts, queue[s], early[s], s, p)
    BY <1>2, <1>7, MailPosted
  <1>10. /\ Sent(Unread(p, s), UnreadNext(p, s), "ice", <<visit[s], n>>)
         /\ UnreadNext(s, p) = Unread(s, p)
    BY <1>1, <1>7, <1>8, <1>9 DEF Unread, UnreadNext
  <1>11. /\ peers'[s][p] = [h EXCEPT !.gathered = n]
         /\ peers'[p][s] = peers[p][s]
    <2> HIDE DEF h, n
    <2> QED  BY <1>1, PeersType
  <1>12. Gathering(h, peers'[s][p], Unread(p, s), UnreadNext(p, s), Unread(s, p),
                   UnreadNext(s, p), visit[s])
    BY <1>1, <1>10, <1>11 DEF Gathering
  <1> QED  BY <1>1, <1>11, <1>12 DEF Acts, Handled, Abides

LEMMA UnreadPosted ==
    ASSUME MeshInv, IsFiniteSet(posts),
           NEW s \in Sessions, NEW p \in Sessions, s # p,
           NEW r \in posts, Relay(r) \/ PostFails(r)
    PROVE  \/ UnreadNext(s, p) = Unread(s, p)
           \/ /\ Fewer(Unread(s, p), UnreadNext(s, p)) /\ Lost(s, p)
              /\ r.from = p /\ r.to = s
  <1> DEFINE e == SignalEvent(r.from, r.to, r.type, r.body)
  <1>1. r \in FitPost /\ r \in Post
    BY DEF MeshInv, PostsFit, FitPost
  <1>2. r.to \in Sessions /\ e \in FitEvent(r.to) /\ e.from = r.from
    BY <1>1 DEF FitPost, Post, SignalEvent, FitEvent, Event
  <1>3. /\ queue[s] \in Seq(FitEvent(s))
        /\ early[s] \in Seq(FitEvent(s) \cup ResyncRead)
    BY StreamTypes
  <1>4. posts' = posts \ {r} /\ UNCHANGED early
    BY DEF Relay, PostFails, Posted
  <1>5. IsFiniteSet(posts \ {r})
    BY FS_Subset
  <1>6. CASE UNCHANGED queue
    <2>1. Lose({{r.from, r.to}})
      BY <1>6, Zenon DEF Relay, PostFails
    <2>2. r.from = p /\ r.to = s => Lost(s, p)
      BY <2>1 DEF Lose, Lost
    <2>3. Fewer(Mail(posts, queue[s], early[s], s, p),
                Mail(posts \ {r}, queue[s], early[s], s, p))
      BY <1>1, <1>3, MailGone
    <2>4. ~(r.from = p /\ r.to = s) =>
             Mail(posts \ {r}, queue[s], early[s], s, p)
               = Mail(posts, queue[s], early[s], s, p)
      BY <1>1, <1>3, MailGone
    <2> QED  BY <1>4, <1>6, <2>2, <2>3, <2>4 DEF Unread, UnreadNext
  <1>7. CASE queue' = [queue EXCEPT ![r.to] = Append(queue[r.to], e)]
    <2> HIDE DEF e
    <2>1. queue \in [Sessions -> Seq(Event)]
      BY DEF MeshInv, MeshTypeOK, TypeOK
    <2>2. CASE r.to # s
      <3>1. queue'[s] = queue[s]
        BY <1>7, <2>1, <2>2
      <3>2. Mail(posts \ {r}, queue[s], early[s], s, p)
              = Mail(posts, queue[s], early[s], s, p)
        BY <1>1, <1>3, <2>2, MailGone
      <3> QED  BY <1>4, <3>1, <3>2 DEF Unread, UnreadNext
    <2>3. CASE r.to = s /\ r.from = p
      <3>1. queue'[s] = Append(queue[s], e) /\ e \in FitEvent(s)
        BY <1>2, <1>7, <2>1, <2>3
      <3>2. Mail(posts \ {r}, Append(queue[s], e), early[s], s, p)
              = Mail(posts, queue[s], early[s], s, p)
        <4> DEFINE l == Mail(posts \ {r}, queue[s], early[s], s, p)
                   m == Mail(posts, queue[s], early[s], s, p)
                   n == Mail(posts \ {r}, Append(queue[s], e), early[s], s, p)
        <4>1. Append(queue[s], e) \in Seq(FitEvent(s))
          BY <1>3, <3>1, AppendProperties
        <4>2. /\ l \in [SignalKinds -> [SUBSET Bodies -> Nat]]
              /\ m \in [SignalKinds -> [SUBSET Bodies -> Nat]]
              /\ n \in [SignalKinds -> [SUBSET Bodies -> Nat]]
          BY <1>3, <1>5, <4>1, MailType
        <4>3. \A k \in SignalKinds, B \in SUBSET Bodies :
                 m[k][B] = l[k][B] + (IF r.from = p /\ r.to = s /\ r.type = k
                                         /\ r.body \in B THEN 1 ELSE 0)
          BY <1>1, <1>3, MailGone
        <4>4. Taken(n, l, p, e)
          BY <1>3, <1>5, <3>1, MailMore
        <4> HIDE DEF l, m, n
        <4>5. Taken(m, l, p, e)
          <5>1. ASSUME NEW k \in SignalKinds, NEW B \in SUBSET Bodies
                PROVE  m[k][B] = l[k][B] + (IF e \in SignalsOf(p, k, B) THEN 1 ELSE 0)
            <6>1. e \in SignalsOf(p, k, B) <=> r.type = k /\ r.body \in B
              BY <1>1, <2>3, RelayedKind DEF e
            <6> QED  BY <2>3, <4>3, <6>1
          <5> QED  BY <5>1 DEF Taken
        <4>6. n = m
          BY <4>2, <4>4, <4>5, TakenTwice
        <4> QED  BY <4>6 DEF m, n
      <3> QED  BY <1>4, <3>1, <3>2 DEF Unread, UnreadNext
    <2>4. CASE r.to = s /\ r.from # p
      <3>1. queue'[s] = Append(queue[s], e) /\ e \in FitEvent(s)
        BY <1>2, <1>7, <2>1, <2>4
      <3>2. Mail(posts \ {r}, queue[s], early[s], s, p)
              = Mail(posts, queue[s], early[s], s, p)
        BY <1>1, <1>3, <2>4, MailGone
      <3>3. Mail(posts \ {r}, Append(queue[s], e), early[s], s, p)
              = Mail(posts \ {r}, queue[s], early[s], s, p)
        BY <1>2, <1>3, <1>5, <2>4, <3>1, MailOther
      <3> QED  BY <1>4, <3>1, <3>2, <3>3 DEF Unread, UnreadNext
    <2> QED  BY <2>2, <2>3, <2>4
  <1>8. \/ UNCHANGED queue
        \/ queue' = [queue EXCEPT ![r.to] = Append(queue[r.to], e)]
    <2>1. SendTo(r.to, e) \/ UNCHANGED queue
      BY Frame DEF Relay, Signal
    <2>2. queue \in [Sessions -> Seq(Event)]
      BY DEF MeshInv, MeshTypeOK, TypeOK
    <2> HIDE DEF e
    <2> QED  BY <1>2, <2>1, <2>2 DEF SendTo
  <1> QED  BY <1>6, <1>7, <1>8

LEMMA PairDrains ==
    ASSUME MeshInv, IsFiniteSet(posts),
           NEW s \in Sessions, NEW p \in Sessions, s # p,
           NEW r \in posts, Relay(r) \/ PostFails(r),
           r.from = s, r.to = p, r.type = "answer", peers[s][p] # NoHandle,
           peers' = [peers EXCEPT ![s][p] = Drain(peers[s][p], "end")]
    PROVE  Acts(s, p)
  <1> DEFINE h == peers[s][p]
  <1>1. UnreadNext(s, p) = Unread(s, p)
    BY UnreadPosted
  <1>2. \/ UnreadNext(p, s) = Unread(p, s)
        \/ Fewer(Unread(p, s), UnreadNext(p, s)) /\ Lost(s, p)
    BY UnreadPosted DEF Lost
  <1>4. Abides(s) /\ Abides(p)
    BY Frame DEF Abides
  <1>5. h # NoHandle
    OBVIOUS
  <1>6. peers'[s][p] = Drain(h, "end") /\ peers'[p][s] = peers[p][s]
    BY PeersType
  <1> HIDE DEF h
  <1>7. r \in FitPost
    BY DEF MeshInv, PostsFit
  <1>8. ~WeInitiate(s, p)
    BY <1>7, InitiateType DEF FitPost, Post
  <1>9. Unread(p, s)["answer"][Bodies] # 0
    <2> DEFINE S == [from : {s}, to : {p}, type : {"answer"}, body : Bodies]
               c == Cardinality(posts \cap S)
               a == Count(queue[p], SignalsOf(s, "answer", Bodies))
               b == Count(early[p], SignalsOf(s, "answer", Bodies))
    <2>1. r \in posts \cap S
      BY <1>7 DEF FitPost, Post
    <2>2. c \in Nat /\ c # 0
      BY <2>1, PostsType
    <2>3. a \in Nat /\ b \in Nat
      BY StreamTypes, CountType
    <2>4. Unread(p, s)["answer"][Bodies] = c + a + b
      BY MeshAssumption DEF Unread, Mail
    <2> HIDE DEF a, b, c
    <2> QED  BY <2>2, <2>3, <2>4
  <1>10. Draining(h, peers'[s][p], Unread(p, s), UnreadNext(p, s), Unread(s, p),
                  UnreadNext(s, p), WeInitiate(s, p), Lost(s, p))
    BY <1>1, <1>2, <1>5, <1>6, <1>8, <1>9, Zenon DEF Draining
  <1> QED  BY <1>4, <1>5, <1>6, <1>10 DEF Acts, Handled, h

LEMMA PairPosted ==
    ASSUME MeshInv, IsFiniteSet(posts),
           NEW s \in Sessions, NEW p \in Sessions, s # p,
           NEW r \in posts, Relay(r) \/ PostFails(r)
    PROVE  PairSteps(s, p)
  <1> DEFINE h == peers[r.from][r.to]
  <1>1. /\ \/ UnreadNext(s, p) = Unread(s, p)
           \/ Fewer(Unread(s, p), UnreadNext(s, p)) /\ Lost(s, p)
        /\ \/ UnreadNext(p, s) = Unread(p, s)
           \/ Fewer(Unread(p, s), UnreadNext(p, s)) /\ Lost(p, s)
    BY UnreadPosted
  <1>2. Lost(p, s) <=> Lost(s, p)
    BY DEF Lost
  <1>3. Abides(s) /\ Abides(p)
    BY Frame DEF Abides
  <1>4. \/ UNCHANGED peers
        \/ /\ h # NoHandle
           /\ r.type = "answer"
           /\ peers' = [peers EXCEPT ![r.from][r.to] = Drain(h, "end")]
    BY DEF Relay, PostFails, Posted
  <1>5. r.from \in Sessions /\ r.to \in Sessions
    BY DEF MeshInv, PostsFit, FitPost, Post
  <1>6. CASE \/ UNCHANGED peers
             \/ ~(r.from = s /\ r.to = p) /\ ~(r.from = p /\ r.to = s)
    <2>1. peers'[s][p] = peers[s][p] /\ peers'[p][s] = peers[p][s]
      BY <1>4, <1>5, <1>6, PeersType
    <2> QED  BY <1>1, <1>2, <1>3, <2>1 DEF Still, PairSteps
  <1>7. CASE /\ h # NoHandle
             /\ r.type = "answer"
             /\ peers' = [peers EXCEPT ![r.from][r.to] = Drain(h, "end")]
             /\ r.from = s /\ r.to = p
    <2>1. Acts(s, p)
      BY <1>7, PairDrains
    <2> QED  BY <2>1 DEF PairSteps
  <1>8. CASE /\ h # NoHandle
             /\ r.type = "answer"
             /\ peers' = [peers EXCEPT ![r.from][r.to] = Drain(h, "end")]
             /\ r.from = p /\ r.to = s
    <2>1. Acts(p, s)
      BY <1>8, PairDrains
    <2> QED  BY <2>1 DEF PairSteps
  <1> HIDE DEF h
  <1> QED  BY <1>4, <1>6, <1>7, <1>8

LEMMA UnreadClosed ==
    ASSUME MeshInv, IsFiniteSet(posts),
           NEW s \in Sessions, NEW p \in Sessions, NEW x \in Sessions,
           CloseStream(x), Lose(UnreadSignals(x)), UNCHANGED <<posts, early>>
    PROVE  \/ UnreadNext(s, p) = Unread(s, p)
           \/ Fewer(Unread(s, p), UnreadNext(s, p)) /\ Lost(s, p)
  <1>1. /\ queue[s] \in Seq(FitEvent(s))
        /\ early[s] \in Seq(FitEvent(s) \cup ResyncRead)
    BY StreamTypes
  <1>2. /\ queue' = [queue EXCEPT ![x] = << >>]
        /\ queue \in [Sessions -> Seq(Event)]
    BY DEF CloseStream, MeshInv, MeshTypeOK, TypeOK
  <1>3. CASE x # s
    <2>1. queue'[s] = queue[s]
      BY <1>2, <1>3
    <2> QED  BY <2>1 DEF Unread, UnreadNext
  <1>4. CASE x = s /\ \E i \in 1 .. Len(queue[s]) :
                         queue[s][i].type \in SignalKinds /\ queue[s][i].from = p
    <2>1. queue'[s] = << >>
      BY <1>2, <1>4
    <2>2. Fewer(Mail(posts, queue[s], early[s], s, p),
                Mail(posts, << >>, early[s], s, p))
      BY <1>1, MailClosed
    <2>3. {s, p} \in UnreadSignals(s) /\ {p, s} \in UnreadSignals(s)
      <3>1. PICK i \in 1 .. Len(queue[s]) :
               queue[s][i].type \in SignalKinds /\ queue[s][i].from = p
        BY <1>4
      <3>2. {s, p} = {p, s}
        OBVIOUS
      <3> QED  BY <3>1, <3>2 DEF UnreadSignals
    <2>4. Lost(s, p)
      BY <1>4, <2>3 DEF Lose, Lost
    <2> QED  BY <2>1, <2>2, <2>4 DEF Unread, UnreadNext
  <1>5. CASE x = s /\ \A i \in 1 .. Len(queue[s]) :
                         ~(queue[s][i].type \in SignalKinds /\ queue[s][i].from = p)
    <2>1. queue'[s] = << >>
      BY <1>2, <1>5
    <2>2. Mail(posts, << >>, early[s], s, p) = Mail(posts, queue[s], early[s], s, p)
      BY <1>1, <1>5, MailClosed
    <2> QED  BY <2>1, <2>2 DEF Unread, UnreadNext
  <1> QED  BY <1>3, <1>4, <1>5

LEMMA PairCloses ==
    ASSUME MeshInv, IsFiniteSet(posts),
           NEW s \in Sessions, NEW p \in Sessions, s # p,
           NEW x \in Sessions, BreakStream(x) \/ EndStream(x)
    PROVE  Still(s, p)
  <1>1. /\ CloseStream(x) /\ Lose(UnreadSignals(x))
        /\ UNCHANGED <<visit, page, early, peers, posts>>
    BY Frame DEF BreakStream, EndStream, Disconnect, StreamLagged
  <1>2. /\ \/ UnreadNext(s, p) = Unread(s, p)
           \/ Fewer(Unread(s, p), UnreadNext(s, p)) /\ Lost(s, p)
        /\ \/ UnreadNext(p, s) = Unread(p, s)
           \/ Fewer(Unread(p, s), UnreadNext(p, s)) /\ Lost(p, s)
    BY <1>1, UnreadClosed
  <1> QED  BY <1>1, <1>2 DEF Still, Abides, Lost

LEMMA PairLeaves ==
    ASSUME MeshInv, IsFiniteSet(posts),
           NEW s \in Sessions, NEW p \in Sessions, s # p,
           NEW x \in Sessions, Leave(x)
    PROVE  PairSteps(s, p)
  <1>1. /\ page[x] # "away"
        /\ page' = [page EXCEPT ![x] = "away"]
        /\ early' = [early EXCEPT ![x] = << >>]
        /\ peers' = [peers EXCEPT ![x] = NoPeers]
        /\ UNCHANGED <<visit, posts>>
        /\ queue' = [queue EXCEPT ![x] = << >>] \/ UNCHANGED queue
    BY DEF Leave, Disconnect, CloseStream, vars, streamVars, netVars
  <1>2. /\ page \in [Sessions -> {"away", "joined", "replaying", "ready"}]
        /\ early \in [Sessions -> Seq(Event \cup ResyncRead)]
        /\ queue \in [Sessions -> Seq(Event)]
    BY DEF MeshInv, MeshTypeOK, TypeOK
  <1>3. ASSUME NEW y \in Sessions, y # x
        PROVE  /\ Abides(y)
               /\ peers'[y] = peers[y]
               /\ \A z \in Sessions : UnreadNext(y, z) = Unread(y, z)
    <2>1. /\ page'[y] = page[y] /\ early'[y] = early[y] /\ queue'[y] = queue[y]
          /\ peers'[y] = peers[y]
      BY <1>1, <1>2, <1>3, PeersType
    <2> QED  BY <1>1, <2>1 DEF Abides, Unread, UnreadNext
  <1>4. ASSUME NEW y \in Sessions, y # x
        PROVE  Leaves(x, y)
    <2>1. /\ queue[x] \in Seq(FitEvent(x))
          /\ early[x] \in Seq(FitEvent(x) \cup ResyncRead)
      BY StreamTypes
    <2>2. /\ early'[x] = << >> /\ page'[x] = "away"
          /\ peers'[x][y] = NoHandle
          /\ queue'[x] = << >> \/ queue'[x] = queue[x]
      BY <1>1, <1>2, PeersType DEF NoPeers
    <2>3. /\ Fewer(Mail(posts, queue[x], early[x], x, y),
                   Mail(posts, << >>, << >>, x, y))
          /\ Fewer(Mail(posts, queue[x], early[x], x, y),
                   Mail(posts, queue[x], << >>, x, y))
      BY <2>1, MailClosed
    <2>4. Fewer(Unread(x, y), UnreadNext(x, y))
      BY <1>1, <2>2, <2>3 DEF Unread, UnreadNext
    <2> QED  BY <1>1, <1>3, <1>4, <2>2, <2>4 DEF Leaves
  <1>5. CASE x \notin {s, p}
    BY <1>3, <1>5 DEF PairSteps, Still
  <1> QED  BY <1>4, <1>5 DEF PairSteps

LEMMA PairEnters ==
    ASSUME MeshInv, NEW s \in Sessions, NEW p \in Sessions, s # p,
           NEW x \in Sessions, Enter(x)
    PROVE  Still(s, p)
  <1>1. /\ page[x] = "away"
        /\ page' = [page EXCEPT ![x] = "joined"]
        /\ visit' = [visit EXCEPT ![x] = visit[x] + 1]
        /\ UNCHANGED <<queue, early, peers, posts>>
    BY Frame DEF Enter
  <1>2. /\ page \in [Sessions -> {"away", "joined", "replaying", "ready"}]
        /\ visit \in [Sessions -> 0 .. MaxVisits]
    BY DEF MeshInv, MeshTypeOK
  <1>3. \A y \in Sessions : Abides(y) \/ Enters(y)
    BY <1>1, <1>2 DEF Abides, Enters
  <1> QED  BY <1>1, <1>3, PairFrame

\* A page is told of a peer.
LEMMA PairServed ==
    ASSUME MeshInv, IsFiniteSet(posts),
           NEW s \in Sessions, NEW p \in Sessions, s # p, ServerStep
    PROVE  Still(s, p)
  <1>1. UNCHANGED <<visit, page, early, peers, posts>>
    BY Frame
  <1>2. ASSUME NEW x \in Sessions, NEW y \in Sessions, SseAnnounce(x, y),
               NEW z \in Sessions, NEW w \in Sessions
        PROVE  UnreadNext(z, w) = Unread(z, w)
    <2> DEFINE e == PeerJoined(x)
    <2>1. /\ queue[z] \in Seq(FitEvent(z))
          /\ early[z] \in Seq(FitEvent(z) \cup ResyncRead)
      BY StreamTypes
    <2>2. e \in FitEvent(z) /\ e.type \notin SignalKinds
      BY ServerAssumption DEF PeerJoined, FitEvent, Event, MeshInv, MeshTypeOK, TypeOK
    <2>3. SendTo(y, e)
      BY <1>2 DEF SseAnnounce
    <2> HIDE DEF e
    <2>4. queue'[z] = queue[z] \/ queue'[z] = Append(queue[z], e)
      BY <2>3 DEF SendTo, MeshInv, MeshTypeOK, TypeOK
    <2>5. Mail(posts, Append(queue[z], e), early[z], z, w)
            = Mail(posts, queue[z], early[z], z, w)
      BY <2>1, <2>2, MailOther
    <2> QED  BY <1>1, <2>4, <2>5 DEF Unread, UnreadNext
  <1>3. CASE UNCHANGED queue
    BY <1>1, <1>3 DEF Still, Abides, Unread, UnreadNext
  <1>4. CASE \E x, y \in Sessions : SseAnnounce(x, y)
    BY <1>1, <1>2, <1>4 DEF Still, Abides
  <1> QED
    BY <1>3, <1>4 DEF ServerStep, Handler, SseSubscribe, SseReturn

\* What is posted to another is none of the pair's.
LEMMA PostsElsewhere ==
    ASSUME MeshInv, IsFiniteSet(posts),
           NEW s \in Sessions, NEW p \in Sessions,
           NEW x \in Sessions, NEW y \in Sessions,
           PerformOp(x, y) \/ FailOp(x, y) \/ Gather(x, y),
           ~(x = s /\ y = p), ~(x = p /\ y = s)
    PROVE  UnreadNext(s, p) = Unread(s, p) /\ UnreadNext(p, s) = Unread(p, s)
  <1>1. /\ queue[p] \in Seq(FitEvent(p)) /\ queue[s] \in Seq(FitEvent(s))
        /\ early[p] \in Seq(FitEvent(p) \cup ResyncRead)
        /\ early[s] \in Seq(FitEvent(s) \cup ResyncRead)
    BY StreamTypes
  <1>2. UNCHANGED <<queue, early>>
    BY Frame
  <1>3. CASE UNCHANGED posts
    BY <1>2, <1>3 DEF Unread, UnreadNext
  <1>4. CASE \E r : r.from = x /\ r.to = y /\ posts' = posts \cup {r}
    <2>1. PICK r : r.from = x /\ r.to = y /\ posts' = posts \cup {r}
      BY <1>4
    <2>2. r \in Post
      <3>1. PostsFit'
        BY PostsStep DEF MeshNext
      <3> QED  BY <2>1, <3>1 DEF PostsFit, FitPost
    <2>3. Mail(posts \cup {r}, queue[s], early[s], s, p)
             = Mail(posts, queue[s], early[s], s, p)
      BY <1>1, <2>1, <2>2, MailPosted
    <2>4. Mail(posts \cup {r}, queue[p], early[p], p, s)
             = Mail(posts, queue[p], early[p], p, s)
      BY <1>1, <2>1, <2>2, MailPosted
    <2> QED  BY <1>2, <2>1, <2>3, <2>4 DEF Unread, UnreadNext
  <1>5. PerformOp(x, y) =>
          \/ UNCHANGED posts
          \/ \E r : r.from = x /\ r.to = y /\ posts' = posts \cup {r}
    <2> SUFFICES ASSUME PerformOp(x, y)
                 PROVE  \/ UNCHANGED posts
                        \/ \E r : r.from = x /\ r.to = y /\ posts' = posts \cup {r}
      OBVIOUS
    <2> DEFINE op == Head(peers[x][y].ops)
    <2>1. UNCHANGED posts \/ posts' = posts \cup Signalled(x, y, op)
      BY DEF PerformOp
    <2>2. \/ Signalled(x, y, op) = {}
          \/ Signalled(x, y, op) =
               {[from |-> x, to |-> y, type |-> "offer", body |-> <<visit[x], 0>>]}
          \/ Signalled(x, y, op) =
               {[from |-> x, to |-> y, type |-> "answer",
                 body |-> <<visit[x], peers[x][y].remote[1]>>]}
      BY DEF Signalled
    <2> HIDE DEF op
    <2>3. ASSUME NEW kind, NEW body,
                 Signalled(x, y, op) =
                   {[from |-> x, to |-> y, type |-> kind, body |-> body]}
          PROVE  posts' = posts \cup Signalled(x, y, op) =>
                   \E r : r.from = x /\ r.to = y /\ posts' = posts \cup {r}
      <3> DEFINE r == [from |-> x, to |-> y, type |-> kind, body |-> body]
      <3>1. r.from = x /\ r.to = y /\ Signalled(x, y, op) = {r}
        BY <2>3
      <3> HIDE DEF r
      <3> QED  BY <3>1
    <2> QED  BY <2>1, <2>2, <2>3
  <1>6. FailOp(x, y) => UNCHANGED posts
    BY Frame
  <1>7. Gather(x, y) =>
          \E r : r.from = x /\ r.to = y /\ posts' = posts \cup {r}
    <2> DEFINE r == [from |-> x, to |-> y, type |-> "ice",
                     body |-> <<visit[x], peers[x][y].gathered + 1>>]
    <2>1. Gather(x, y) => posts' = posts \cup {r}
      BY DEF Gather
    <2>2. r.from = x /\ r.to = y
      OBVIOUS
    <2> HIDE DEF r
    <2> QED  BY <2>1, <2>2
  <1> QED  BY <1>3, <1>4, <1>5, <1>6, <1>7

\* Every step, for a pair: one of the two makes something of its handle, or
\* leaves, or nothing happens to the two but that signals may get lost.
LEMMA PairStep ==
    ASSUME MeshInv, IsFiniteSet(posts), [MeshNext]_meshVars,
           NEW s \in Sessions, NEW p \in Sessions, s # p
    PROVE  PairSteps(s, p)
  <1> DEFINE others(x) == x \notin {s, p}
  <1>1. ASSUME Still(p, s)
        PROVE  Still(s, p)
    BY <1>1 DEF Still, Lost
  <1>2. ASSUME UNCHANGED <<queue, visit, early, peers, posts>>,
               \A x \in Sessions : page'[x] = "away" <=> page[x] = "away"
        PROVE  Still(s, p)
    BY <1>2, PairFrame DEF Abides
  <1>3. ASSUME NEW x \in Sessions, Enter(x)
        PROVE  PairSteps(s, p)
    BY <1>3, PairEnters DEF PairSteps
  <1>4. ASSUME NEW x \in Sessions,
               OpenEvents(x) \/ BuildMesh(x) \/ MeshReady(x) \/ UNCHANGED meshVars
        PROVE  PairSteps(s, p)
    <2>1. UNCHANGED <<queue, visit, early, peers, posts>>
      BY <1>4, Frame
    <2>2. \A y \in Sessions : page'[y] = "away" <=> page[y] = "away"
      <3>1. CASE UNCHANGED page
        BY <3>1
      <3>2. CASE BuildMesh(x) \/ MeshReady(x)
        <4>1. page[x] # "away" /\ \E now \in {"replaying", "ready"} :
                                    page' = [page EXCEPT ![x] = now]
          BY <3>2 DEF BuildMesh, MeshReady
        <4> QED  BY <4>1 DEF MeshInv, MeshTypeOK
      <3> QED  BY <1>4, <3>1, <3>2, Frame
    <2> QED  BY <1>2, <2>1, <2>2 DEF PairSteps
  <1>5. ASSUME NEW x \in Sessions, ReadEvent(x) \/ ReadResync(x) \/ Replay(x)
        PROVE  PairSteps(s, p)
    <2>1. CASE x = s
      BY <1>5, <2>1, PairReadEvent DEF PairSteps
    <2>2. CASE x = p
      BY <1>1, <1>5, <2>2, PairReadEvent DEF PairSteps
    <2>3. CASE others(x)
      <3>1. \A y \in {s, p} : /\ queue'[y] = queue[y]
                              /\ early'[y] = early[y]
                              /\ peers'[y] = peers[y]
        <4>1. /\ UNCHANGED queue \/ queue' = [queue EXCEPT ![x] = Tail(queue[x])]
              /\ UNCHANGED early \/ \E u : early' = [early EXCEPT ![x] = u]
              /\ UNCHANGED peers \/ \E m : peers' = [peers EXCEPT ![x] = m]
          <5>1. CASE ReadEvent(x)
            BY <5>1 DEF ReadEvent, DeliverEvent, ToMesh
          <5>2. CASE ReadResync(x)
            BY <5>2 DEF ReadResync, DeliverResync, ToMesh
          <5>3. CASE Replay(x)
            BY <5>3 DEF Replay, vars, streamVars
          <5> QED  BY <1>5, <5>1, <5>2, <5>3
        <4>2. /\ queue \in [Sessions -> Seq(Event)]
              /\ early \in [Sessions -> Seq(Event \cup ResyncRead)]
          BY DEF MeshInv, MeshTypeOK, TypeOK
        <4> QED  BY <2>3, <4>1, <4>2, PeersType
      <3>2. UNCHANGED <<visit, page, posts>>
        BY <1>5, Frame
      <3> QED  BY <3>1, <3>2, PairFrame DEF Abides, PairSteps
    <2> QED  BY <2>1, <2>2, <2>3
  <1>6. ASSUME NEW x \in Sessions, NEW y \in Sessions,
               PerformOp(x, y) \/ FailOp(x, y) \/ Gather(x, y)
        PROVE  PairSteps(s, p)
    <2>1. CASE x = s /\ y = p
      BY <1>6, <2>1, PairPerforms, PairFails, PairGathers DEF PairSteps
    <2>2. CASE x = p /\ y = s
      BY <1>6, <2>2, PairPerforms, PairFails, PairGathers DEF PairSteps
    <2>3. CASE ~(x = s /\ y = p) /\ ~(x = p /\ y = s)
      <3>1. peers'[s][p] = peers[s][p] /\ peers'[p][s] = peers[p][s]
        BY <1>6, <2>3, PeersType DEF PerformOp, FailOp, Gather
      <3>2. UNCHANGED <<queue, visit, page, early>>
        BY <1>6, Frame
      <3>3. UnreadNext(s, p) = Unread(s, p) /\ UnreadNext(p, s) = Unread(p, s)
        BY <1>6, <2>3, <3>2, PostsElsewhere
      <3> QED  BY <3>1, <3>2, <3>3 DEF Still, Abides, PairSteps
    <2> QED  BY <2>1, <2>2, <2>3
  <1>7. ASSUME NEW x \in Sessions, Leave(x)
        PROVE  PairSteps(s, p)
    BY <1>7, PairLeaves
  <1>8. ASSUME NEW x \in Sessions, BreakStream(x) \/ EndStream(x)
        PROVE  PairSteps(s, p)
    BY <1>8, PairCloses DEF PairSteps
  <1>9. ASSUME NEW r \in posts, Relay(r) \/ PostFails(r)
        PROVE  PairSteps(s, p)
    BY <1>9, PairPosted
  <1>10. ASSUME ServerStep
         PROVE  PairSteps(s, p)
    BY <1>10, PairServed DEF PairSteps
  <1> QED
    BY <1>3, <1>4, <1>5, <1>6, <1>7, <1>8, <1>9, <1>10 DEF MeshNext
=============================================================================
