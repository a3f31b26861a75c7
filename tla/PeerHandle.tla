----------------------------- MODULE PeerHandle -----------------------------
(***************************************************************************)
(* One peer connection of a page and what the mesh keeps with it           *)
(* (services/webrtc.rs): PeerHandle, the tasks that are running on its     *)
(* connection, and the handlers as operators that take a handle to the     *)
(* handle they leave behind.                                               *)
(*                                                                         *)
(* A task of the mesh is a chain of awaits, and every await but that of a  *)
(* POST is for an operation of the browser's RTCPeerConnection, which      *)
(* performs its operations one by one, in the order of the calls.  `ops`   *)
(* is that order: the operations called and not performed yet.  An         *)
(* operation is performed, and its task continued up to the next call, in  *)
(* one step; what spawn_local starts makes its first call at once.         *)
(*                                                                         *)
(* A description or a candidate, the body of a signal, is a pair of        *)
(* numbers: the page visit of the connection it was made by and, for an    *)
(* answer, the visit of the offer it answers, for a candidate, its number. *)
(***************************************************************************)
EXTENDS Integers, Sequences

\* No description was applied.
NoBody == << >>

\* An operation with its argument, one of the bodies B; `then` is what the
\* drain that adds a candidate does at its end.
Op(B) ==
    [do : {"create_offer", "local_offer", "create_answer", "local_answer"},
     body : {NoBody}, then : {"end"}]
        \cup [do : {"remote_offer", "remote_answer"}, body : B, then : {"end"}]
        \cup [do : {"add"}, body : B, then : {"end", "answer"}]

Handle(B) ==
    [negotiated : BOOLEAN, remote_set : BOOLEAN, pending : Seq(B),
     signaling : {"stable", "have-local-offer", "have-remote-offer"},
     local : BOOLEAN, remote : B \cup {NoBody}, gathered : Nat,
     added : Seq(B), ops : Seq(Op(B))]

\* create_peer.
NewHandle ==
    [negotiated |-> FALSE, remote_set |-> FALSE, pending |-> << >>,
     signaling |-> "stable", local |-> FALSE, remote |-> NoBody,
     gathered |-> 0, added |-> << >>, ops |-> << >>]

\* An operation of the connection is called.
Call(h, do, body) ==
    [h EXCEPT !.ops = Append(h.ops, [do |-> do, body |-> body, then |-> "end"])]

-----------------------------------------------------------------------------
(* Candidates. *)

\* Mutant: the drain looks at the oldest candidate and takes it off the queue
\* only once it is added.
DrainPeeking(h, then) ==
    IF h.pending # << >>
    THEN [h EXCEPT !.ops = Append(h.ops, [do |-> "add", body |-> Head(h.pending),
                                          then |-> then])]
    ELSE IF then = "answer" THEN Call(h, "create_answer", NoBody) ELSE h

\* One round of drain_ice: the oldest candidate is popped and its adding
\* called, or the queue is dry and the task goes on.
Drain(h, then) ==
    IF h.pending # << >>
    THEN [h EXCEPT !.pending = Tail(h.pending),
                   !.ops = Append(h.ops, [do |-> "add", body |-> Head(h.pending),
                                          then |-> then])]
    ELSE IF then = "answer" THEN Call(h, "create_answer", NoBody) ELSE h

-----------------------------------------------------------------------------
(* Handlers of the mesh.  `initiator` says whether the offer is ours. *)

\* Mutant: the signaling state alone says whether an offer is under way.
MaybeOfferUnmarked(h, initiator) ==
    IF initiator /\ h.signaling = "stable" /\ h.remote = NoBody
    THEN Call([h EXCEPT !.negotiated = TRUE], "create_offer", NoBody)
    ELSE h

\* maybe_offer.  The connection is in its initial state as long as it has no
\* remote description.
MaybeOffer(h, initiator) ==
    IF /\ initiator
       /\ ~h.negotiated
       /\ h.signaling = "stable"
       /\ h.remote = NoBody
    THEN Call([h EXCEPT !.negotiated = TRUE], "create_offer", NoBody)
    ELSE h

\* apply_offer ignores what this says FALSE of.
TakesOffer(h, initiator) ==
    /\ ~(initiator /\ h.negotiated)
    /\ ~h.remote_set
    /\ h.signaling = "stable"

ApplyOffer(h, initiator, body) ==
    IF TakesOffer(h, initiator)
    THEN Call([h EXCEPT !.remote_set = TRUE], "remote_offer", body)
    ELSE h

\* apply_answer ignores what this says FALSE of.
TakesAnswer(h) == h.signaling = "have-local-offer"

ApplyAnswer(h, body) ==
    IF TakesAnswer(h)
    THEN Call([h EXCEPT !.remote_set = TRUE], "remote_answer", body)
    ELSE h

\* on_ice: the candidate is queued; with a remote description under way or
\* applied it is drained at once.
OnIce(h, initiator, body) ==
    LET offered == MaybeOffer(h, initiator)
        queued  == [offered EXCEPT !.pending = Append(offered.pending, body)]
    IN  IF queued.remote_set THEN Drain(queued, "end") ELSE queued

-----------------------------------------------------------------------------
(* The browser performs the oldest operation, and its task goes on. *)

\* The offer is the remote description: drain, then answer.
OfferApplied(h, body) ==
    Drain([h EXCEPT !.signaling = "have-remote-offer", !.remote = body], "answer")

\* Mutant: what waited for the answer is left in the queue.
AnswerAppliedUndrained(h, body) ==
    [h EXCEPT !.signaling = "stable", !.remote = body]

\* The answer is the remote description: drain.
AnswerApplied(h, body) ==
    Drain([h EXCEPT !.signaling = "stable", !.remote = body], "end")

Performed(h) ==
    LET op   == Head(h.ops)
        rest == [h EXCEPT !.ops = Tail(h.ops)]
    IN  CASE op.do = "create_offer"  -> Call(rest, "local_offer", NoBody)
          [] op.do = "local_offer"   ->
               [rest EXCEPT !.signaling = "have-local-offer", !.local = TRUE]
          [] op.do = "remote_offer"  -> OfferApplied(rest, op.body)
          [] op.do = "create_answer" -> Call(rest, "local_answer", NoBody)
          [] op.do = "local_answer"  ->
               [rest EXCEPT !.signaling = "stable", !.local = TRUE]
          [] op.do = "remote_answer" -> AnswerApplied(rest, op.body)
          [] op.do = "add"           ->
               Drain([rest EXCEPT !.added = Append(rest.added, op.body)], op.then)

\* The oldest operation does not fit the connection, which rejects it: an
\* answer without an offer, a candidate without a remote description.
Rejects(h) ==
    \/ Head(h.ops).do = "remote_answer" /\ h.signaling # "have-local-offer"
    \/ Head(h.ops).do = "add" /\ h.remote = NoBody

\* The oldest operation is rejected.  The task of an offer or an answer gives
\* up, except that the one applying an answer drains all the same, and a
\* drain goes on with the next candidate.
Failed(h) ==
    LET op   == Head(h.ops)
        rest == [h EXCEPT !.ops = Tail(h.ops)]
    IN  CASE op.do = "remote_answer" -> Drain(rest, "end")
          [] op.do = "add"           -> Drain(rest, op.then)
          [] OTHER                   -> rest
=============================================================================
