-------------------------- MODULE MeshLinks_proofs --------------------------
(***************************************************************************)
(* Proofs that pages meet and that their pairs get linked: for every set   *)
(* of sessions, any number of candidates and breaks, and in every order.   *)
(*                                                                         *)
(* The first half is about one pair that loses nothing: from an offer that *)
(* is called for to the answer that is taken there is always something     *)
(* under way, and what an operation or a waiting candidate asks for is     *)
(* called (AllLinked).  The second half is about the server and the pages  *)
(* together: of two pages that listen, each has been told of the other, or *)
(* is about to be (AllMet).                                                *)
(***************************************************************************)
EXTENDS MeshSignals_proofs

-----------------------------------------------------------------------------
(* Nothing of a connection is left undone. *)

\* Operations that are followed by a round of the drain.
DrainingOps ==
    {o \in Op(Bodies) : o.do \in {"remote_offer", "remote_answer", "add"}}

\* A candidate that waits for no description is drained by an operation that is
\* called; an offer that is applied is going to be answered; and where a
\* description of ours is called for, it is set.
Attended(h) ==
    h # NoHandle =>
        /\ h.remote_set /\ h.pending # << >> => Count(h.ops, DrainingOps) # 0
        /\ h.signaling = "have-remote-offer" => Count(h.ops, AnswerOps) # 0
        /\ h.signaling = "have-local-offer" => h.local
        /\ h.signaling = "stable" /\ h.remote # NoBody => h.local

\* The description that a page gets of its peer, both at their first visits.
Word(mine) == IF mine THEN <<1, 1>> ELSE <<1, 0>>
WordKind(mine) == IF mine THEN "answer" ELSE "offer"

SaidOp(c) ==
    {o \in Op(Bodies) : o.do \in {"remote_offer", "remote_answer"} => o.body = c}
SaidHandle(c) ==
    {h \in Handle(Bodies) : h.remote \in {NoBody, c} /\ h.ops \in Seq(SaidOp(c))}

\* No other description comes, or has been taken.
SaidOnly(n, mine) == n[WordKind(mine)][Bodies \ {Word(mine)}] = 0
Said(h, mine) == h \in SaidHandle(Word(mine)) \cup {NoHandle}

\* Of a pair in which nothing is lost: there is an offer under way, an answer,
\* or a description; the offer that is no longer under way was taken.
Linking(h, g, O, A) ==
    h # NoHandle =>
        /\ h.remote = NoBody =>
             OpsIn(h, OfferOps) + O + (OpsIn(g, AnswerOps) + A + OpsIn(h, TakeOps)) # 0
        /\ OpsIn(h, OfferOps) + O = 0 => g # NoHandle /\ g.remote_set
        /\ h.remote # NoBody => h.signaling = "stable"

LinkOK(a, b) ==
    /\ Linking(peers[a][b], peers[b][a], Unread(b, a)["offer"][Bodies],
               Unread(a, b)["answer"][Bodies])
    /\ Attended(peers[a][b]) /\ Attended(peers[b][a])
    /\ Said(peers[a][b], TRUE) /\ SaidOnly(Unread(a, b), TRUE)
    /\ Said(peers[b][a], FALSE) /\ SaidOnly(Unread(b, a), FALSE)
AllLinked ==
    \A a, b \in Sessions : WeInitiate(a, b) /\ Undisturbed(a, b) => LinkOK(a, b)

-----------------------------------------------------------------------------
(* What is performed, in two steps. *)

\* The handle that the oldest operation op leaves, before its task goes on.
Leftover(h, op, left) ==
    /\ left \in Handle(Bodies)
    /\ left.ops = Tail(h.ops)
    /\ left.pending = h.pending
    /\ left.remote_set = h.remote_set
    /\ left.remote = IF op.do \in {"remote_offer", "remote_answer"}
                     THEN op.body ELSE h.remote
    /\ left.signaling = CASE op.do = "local_offer" -> "have-local-offer"
                          [] op.do = "remote_offer" -> "have-remote-offer"
                          [] op.do \in {"local_answer", "remote_answer"} -> "stable"
                          [] OTHER -> h.signaling
    /\ left.local = (h.local \/ op.do \in {"local_offer", "local_answer"})

LEMMA PerformedParts ==
    ASSUME NEW h \in Handle(Bodies), h.ops # << >>,
           NEW k, k = Performed(h), NEW op, op = Head(h.ops)
    PROVE  \E left : /\ Leftover(h, op, left)
                     /\ \/ /\ op.do \in {"create_offer", "create_answer"}
                           /\ \E do \in {"local_offer", "local_answer"} :
                                k = Call(left, do, NoBody)
                        \/ op.do \in {"local_offer", "local_answer"} /\ k = left
                        \/ /\ op.do \in {"remote_offer", "remote_answer", "add"}
                           /\ \E then \in {"end", "answer"} : k = Drain(left, then)
  <1> DEFINE rest == [h EXCEPT !.ops = Tail(h.ops)]
  <1>1. /\ op \in Op(Bodies)
        /\ rest \in Handle(Bodies)
        /\ SameState(h, rest)
        /\ rest.pending = h.pending
        /\ rest.added = h.added
        /\ rest.ops = Tail(h.ops)
    BY RestDoes
  <1>2. k = CASE op.do = "create_offer"  -> Call(rest, "local_offer", NoBody)
              [] op.do = "local_offer"   ->
                   [rest EXCEPT !.signaling = "have-local-offer", !.local = TRUE]
              [] op.do = "remote_offer"  -> OfferApplied(rest, op.body)
              [] op.do = "create_answer" -> Call(rest, "local_answer", NoBody)
              [] op.do = "local_answer"  ->
                   [rest EXCEPT !.signaling = "stable", !.local = TRUE]
              [] op.do = "remote_answer" -> AnswerApplied(rest, op.body)
              [] op.do = "add"           ->
                   Drain([rest EXCEPT !.added = Append(rest.added, op.body)], op.then)
    BY DEF Performed
  <1> HIDE DEF rest
  <1>3. /\ rest.remote_set = h.remote_set
        /\ rest.signaling = h.signaling
        /\ rest.local = h.local
        /\ rest.remote = h.remote
    BY <1>1 DEF SameState
  <1>4. /\ op.do \in {"create_offer", "local_offer", "remote_offer", "create_answer",
                      "local_answer", "remote_answer", "add"}
        /\ op.do \in {"remote_offer", "remote_answer", "add"} => op.body \in Bodies
        /\ op.then \in {"end", "answer"}
    BY <1>1, OpKinds
  <1>5. h.local \in BOOLEAN
    BY DEF Handle
  <1>6. CASE op.do \in {"create_offer", "create_answer"}
    <2>1. Leftover(h, op, rest)
      BY <1>1, <1>3, <1>5, <1>6 DEF Leftover
    <2>2. \E do \in {"local_offer", "local_answer"} : k = Call(rest, do, NoBody)
      BY <1>2, <1>6
    <2> QED  BY <1>6, <2>1, <2>2
  <1>7. CASE op.do \in {"local_offer", "local_answer"}
    <2> DEFINE state == IF op.do = "local_offer" THEN "have-local-offer" ELSE "stable"
    <2>1. k = [rest EXCEPT !.signaling = state, !.local = TRUE]
      BY <1>2, <1>7
    <2>2. /\ state \in {"have-local-offer", "stable"}
          /\ op.do = "local_offer" => state = "have-local-offer"
          /\ op.do = "local_answer" => state = "stable"
      BY <1>7
    <2> HIDE DEF state
    <2>3. /\ k \in Handle(Bodies)
          /\ k.ops = rest.ops
          /\ k.pending = rest.pending
          /\ k.remote_set = rest.remote_set
          /\ k.remote = rest.remote
          /\ k.signaling = state
          /\ k.local = TRUE
      BY <1>1, <2>1, <2>2 DEF Handle
    <2>4. Leftover(h, op, k)
      BY <1>1, <1>3, <1>7, <2>2, <2>3 DEF Leftover
    <2> QED  BY <1>7, <2>4
  <1>8. CASE op.do \in {"remote_offer", "remote_answer"}
    <2> DEFINE state == IF op.do = "remote_offer" THEN "have-remote-offer" ELSE "stable"
               then  == IF op.do = "remote_offer" THEN "answer" ELSE "end"
               left  == [rest EXCEPT !.signaling = state, !.remote = op.body]
    <2>1. k = Drain(left, then)
      BY <1>2, <1>8 DEF OfferApplied, AnswerApplied
    <2>2. /\ state \in {"have-remote-offer", "stable"}
          /\ op.do = "remote_offer" => state = "have-remote-offer"
          /\ op.do = "remote_answer" => state = "stable"
          /\ then \in {"end", "answer"}
      BY <1>8
    <2> HIDE DEF state, then
    <2>3. /\ left \in Handle(Bodies)
          /\ left.ops = rest.ops
          /\ left.pending = rest.pending
          /\ left.remote_set = rest.remote_set
          /\ left.remote = op.body
          /\ left.signaling = state
          /\ left.local = rest.local
      BY <1>1, <1>4, <1>8, <2>2 DEF Handle
    <2> HIDE DEF left
    <2>4. Leftover(h, op, left)
      BY <1>1, <1>3, <1>5, <1>8, <2>2, <2>3 DEF Leftover
    <2> QED  BY <1>8, <2>1, <2>2, <2>4
  <1>9. CASE op.do = "add"
    <2> DEFINE more == Append(rest.added, op.body)
               left == [rest EXCEPT !.added = more]
    <2>1. k = Drain(left, op.then)
      BY <1>2, <1>9
    <2>2. more \in Seq(Bodies)
      BY <1>1, <1>4, <1>9, AppendProperties DEF Handle
    <2> HIDE DEF more
    <2>3. /\ left \in Handle(Bodies)
          /\ left.ops = rest.ops
          /\ left.pending = rest.pending
          /\ SameState(rest, left)
      BY <1>1, <2>2 DEF Handle, SameState
    <2> HIDE DEF left
    <2>4. Leftover(h, op, left)
      BY <1>1, <1>3, <1>5, <1>9, <2>3 DEF Leftover, SameState
    <2> QED  BY <1>4, <1>9, <2>1, <2>4
  <1> QED  BY <1>4, <1>6, <1>7, <1>8, <1>9

-----------------------------------------------------------------------------
(* Nothing of a connection is left undone. *)

\* Another operation waits on a connection.
LEMMA CountsMore ==
    ASSUME NEW q \in Seq(Op(Bodies)), NEW o \in Op(Bodies), NEW S
    PROVE  /\ Count(q, S) # 0 => Count(Append(q, o), S) # 0
           /\ o \in S => Count(Append(q, o), S) # 0
  <1>1. Count(Append(q, o), S) = Count(q, S) + (IF o \in S THEN 1 ELSE 0)
    BY CountAppend
  <1>2. Count(q, S) \in Nat
    BY CountType
  <1> QED  BY <1>1, <1>2

LEMMA AttendedMore ==
    ASSUME NEW h \in Handle(Bodies), NEW k \in Handle(Bodies), Attended(h),
           k.signaling = h.signaling, k.local = h.local, k.remote = h.remote,
           NEW o \in Op(Bodies), k.ops = Append(h.ops, o),
           \/ o \in DrainingOps
           \/ k.remote_set = h.remote_set /\ k.pending = h.pending
    PROVE  Attended(k)
  <1>1. h # NoHandle /\ h.ops \in Seq(Op(Bodies))
    BY HandleIsNotNone DEF Handle
  <1>2. /\ Count(h.ops, DrainingOps) # 0 => Count(k.ops, DrainingOps) # 0
        /\ o \in DrainingOps => Count(k.ops, DrainingOps) # 0
        /\ Count(h.ops, AnswerOps) # 0 => Count(k.ops, AnswerOps) # 0
    BY <1>1, CountsMore
  <1> QED  BY <1>1, <1>2 DEF Attended

\* The same operations wait.
LEMMA AttendedSame ==
    ASSUME NEW h \in Handle(Bodies), NEW k \in Handle(Bodies), Attended(h),
           k.signaling = h.signaling, k.local = h.local, k.remote = h.remote,
           k.ops = h.ops,
           ~k.remote_set \/ (k.remote_set = h.remote_set /\ k.pending = h.pending)
    PROVE  Attended(k)
  BY HandleIsNotNone DEF Attended

\* After a round of the drain nothing waits that is not looked after.
LEMMA AttendedDrain ==
    ASSUME NEW h \in Handle(Bodies), NEW then \in {"end", "answer"},
           h.signaling = "have-remote-offer" =>
             Count(Drain(h, then).ops, AnswerOps) # 0,
           h.signaling = "have-local-offer" => h.local,
           h.signaling = "stable" /\ h.remote # NoBody => h.local
    PROVE  Attended(Drain(h, then))
  <1> DEFINE k == Drain(h, then)
             o == [do |-> "add", body |-> Head(h.pending), then |-> then]
  <1>1. /\ k \in Handle(Bodies)
        /\ SameState(h, k)
        /\ h.pending # << >> => Head(h.pending) \in Bodies /\ k.ops = Append(h.ops, o)
        /\ h.pending = << >> => k.pending = << >>
    BY DrainDoes
  <1>2. h.signaling = "have-remote-offer" => Count(k.ops, AnswerOps) # 0
    OBVIOUS
  <1>3. h.ops \in Seq(Op(Bodies))
    BY DEF Handle
  <1>4. h.pending # << >> => o \in DrainingOps
    BY <1>1 DEF DrainingOps, Op
  <1> HIDE DEF k, o
  <1>5. h.pending # << >> => Count(k.ops, DrainingOps) # 0
    <2>1. h.pending # << >> => o \in Op(Bodies)
      BY <1>4 DEF DrainingOps
    <2> QED  BY <1>1, <1>3, <1>4, <2>1, CountsMore
  <1>6. k.signaling = "have-remote-offer" => Count(k.ops, AnswerOps) # 0
    BY <1>1, <1>2 DEF SameState
  <1>7. Attended(k)
    BY <1>1, <1>5, <1>6 DEF Attended, SameState
  <1> QED  BY <1>7 DEF k
LEMMA PerformedAttended ==
    ASSUME NEW h \in Handle(Bodies), h.ops # << >>, Attended(h), ~Rejects(h)
    PROVE  Attended(Performed(h))
  <1> DEFINE k  == Performed(h)
             op == Head(h.ops)
  <1>1. PICK left : /\ Leftover(h, op, left)
                    /\ \/ /\ op.do \in {"create_offer", "create_answer"}
                          /\ \E do \in {"local_offer", "local_answer"} :
                               k = Call(left, do, NoBody)
                       \/ op.do \in {"local_offer", "local_answer"} /\ k = left
                       \/ /\ op.do \in {"remote_offer", "remote_answer", "add"}
                          /\ \E then \in {"end", "answer"} : k = Drain(left, then)
    BY PerformedParts
  <1>2. /\ k \in Handle(Bodies)
        /\ k.signaling = CASE op.do = "local_offer" -> "have-local-offer"
                           [] op.do = "remote_offer" -> "have-remote-offer"
                           [] op.do \in {"local_answer", "remote_answer"} -> "stable"
                           [] OTHER -> h.signaling
        /\ Count(h.ops, AnswerOps) = Count(k.ops, AnswerOps)
             + (IF op.do = "local_answer" THEN 1 ELSE 0)
    BY PerformedDoes
  <1>3. op \in Op(Bodies) /\ Tail(h.ops) \in Seq(Op(Bodies))
    BY HeadTailProperties DEF Handle
  <1>4. /\ h # NoHandle
        /\ h.remote_set /\ h.pending # << >> => Count(h.ops, DrainingOps) # 0
        /\ h.signaling = "have-remote-offer" => Count(h.ops, AnswerOps) # 0
        /\ h.signaling = "have-local-offer" => h.local
        /\ h.signaling = "stable" /\ h.remote # NoBody => h.local
        /\ h.local \in BOOLEAN
    BY HandleIsNotNone DEF Attended, Handle
  <1>5. op.do = "remote_answer" => h.signaling = "have-local-offer"
    BY DEF Rejects
  <1>6. op.do = "remote_offer" => Count(h.ops, AnswerOps) # 0
    <2>1. op.do = "remote_offer" => op \in AnswerOps
      BY <1>3, OpKinds
    <2>2. Count(h.ops, AnswerOps) =
            Count(Tail(h.ops), AnswerOps) + (IF op \in AnswerOps THEN 1 ELSE 0)
      BY CountTail DEF Handle
    <2>3. Count(Tail(h.ops), AnswerOps) \in Nat
      BY <1>3, CountType
    <2> QED  BY <2>1, <2>2, <2>3
  <1>7. Count(h.ops, DrainingOps) =
          Count(Tail(h.ops), DrainingOps) + (IF op \in DrainingOps THEN 1 ELSE 0)
    BY CountTail DEF Handle
  <1>8. Count(Tail(h.ops), DrainingOps) \in Nat /\ Count(k.ops, AnswerOps) \in Nat
    BY <1>2, <1>3, CountType DEF Handle
  <1> HIDE DEF k, op
  <1>9. op \in DrainingOps <=> op.do \in {"remote_offer", "remote_answer", "add"}
    BY <1>3 DEF DrainingOps
  <1>10. k.signaling = "have-remote-offer" => Count(k.ops, AnswerOps) # 0
    BY <1>2, <1>4, <1>6, <1>8
  <1>11. /\ left \in Handle(Bodies)
         /\ left.signaling = k.signaling
         /\ left.signaling = "have-local-offer" => left.local
         /\ left.signaling = "stable" /\ left.remote # NoBody => left.local
    BY <1>1, <1>2, <1>4, <1>5 DEF Leftover
  <1>12. CASE /\ op.do \in {"create_offer", "create_answer"}
              /\ \E do \in {"local_offer", "local_answer"} : k = Call(left, do, NoBody)
    <2>1. PICK do \in {"local_offer", "local_answer"} : k = Call(left, do, NoBody)
      BY <1>12
    <2> DEFINE o == [do |-> do, body |-> NoBody, then |-> "end"]
    <2>2. o \in Op(Bodies)
      BY DEF Op
    <2>3. /\ SameState(left, k)
          /\ k.pending = left.pending
          /\ k.ops = Append(left.ops, o)
      BY <1>11, <2>1, <2>2, CallDoes
    <2> HIDE DEF o
    <2>4. left.remote_set /\ left.pending # << >> => Count(left.ops, DrainingOps) # 0
      BY <1>1, <1>4, <1>7, <1>8, <1>9, <1>12 DEF Leftover
    <2>5. k.remote_set /\ k.pending # << >> => Count(k.ops, DrainingOps) # 0
      <3>1. left.ops \in Seq(Op(Bodies))
        BY <1>11 DEF Handle
      <3>2. Count(left.ops, DrainingOps) # 0 => Count(k.ops, DrainingOps) # 0
        BY <2>2, <2>3, <3>1, CountsMore
      <3> QED  BY <2>3, <2>4, <3>2 DEF SameState
    <2> QED  BY <1>10, <1>11, <2>3, <2>5 DEF Attended, SameState, k
  <1>13. CASE op.do \in {"local_offer", "local_answer"} /\ k = left
    <2>1. left.remote_set /\ left.pending # << >> => Count(left.ops, DrainingOps) # 0
      BY <1>1, <1>4, <1>7, <1>8, <1>9, <1>13 DEF Leftover
    <2> QED  BY <1>10, <1>11, <1>13, <2>1 DEF Attended, k
  <1>14. CASE \E then \in {"end", "answer"} : k = Drain(left, then)
    <2>1. PICK then \in {"end", "answer"} : k = Drain(left, then)
      BY <1>14
    <2>2. left.signaling = "have-remote-offer" =>
            Count(Drain(left, then).ops, AnswerOps) # 0
      BY <1>10, <1>11, <2>1
    <2>3. Attended(Drain(left, then))
      BY <1>11, <2>2, AttendedDrain
    <2> QED  BY <2>1, <2>3 DEF k
  <1> QED  BY <1>1, <1>12, <1>13, <1>14

LEMMA MaybeOfferAttended ==
    ASSUME NEW h \in Handle(Bodies), Attended(h), NEW mine \in BOOLEAN
    PROVE  Attended(MaybeOffer(h, mine))
  <1> DEFINE k == MaybeOffer(h, mine)
             o == [do |-> "create_offer", body |-> NoBody, then |-> "end"]
  <1>1. \/ k = h
        \/ /\ k \in Handle(Bodies)
           /\ k.remote_set = h.remote_set
           /\ k.signaling = h.signaling
           /\ k.local = h.local
           /\ k.remote = h.remote
           /\ k.pending = h.pending
           /\ k.ops = Append(h.ops, o)
    BY MaybeOfferDoes
  <1>2. o \in Op(Bodies)
    BY DEF Op
  <1> HIDE DEF o, k
  <1>3. Attended(k)
    BY <1>1, <1>2, AttendedMore
  <1> QED  BY <1>3 DEF k

LEMMA ApplyAttended ==
    ASSUME NEW h \in Handle(Bodies), Attended(h),
           NEW do \in {"remote_offer", "remote_answer"}, NEW body \in Bodies
    PROVE  Attended(Call([h EXCEPT !.remote_set = TRUE], do, body))
  <1> DEFINE marked == [h EXCEPT !.remote_set = TRUE]
             o      == [do |-> do, body |-> body, then |-> "end"]
             k      == Call(marked, do, body)
  <1>1. /\ marked \in Handle(Bodies)
        /\ marked.signaling = h.signaling
        /\ marked.local = h.local
        /\ marked.remote = h.remote
        /\ marked.ops = h.ops
    BY DEF Handle
  <1>2. o \in Op(Bodies) /\ o \in DrainingOps
    BY DEF Op, DrainingOps
  <1> HIDE DEF marked
  <1>3. /\ k \in Handle(Bodies)
        /\ SameState(marked, k)
        /\ k.ops = Append(marked.ops, o)
    BY <1>1, <1>2, CallDoes
  <1> HIDE DEF o, k
  <1>4. Attended(k)
    BY <1>1, <1>2, <1>3, AttendedMore DEF SameState
  <1> QED  BY <1>4 DEF k, marked

LEMMA OnIceAttended ==
    ASSUME NEW h \in Handle(Bodies), Attended(h), NEW mine \in BOOLEAN, NEW c \in Bodies
    PROVE  Attended(OnIce(h, mine, c))
  <1> DEFINE offered == MaybeOffer(h, mine)
             more    == Append(offered.pending, c)
             queued  == [offered EXCEPT !.pending = more]
             k       == OnIce(h, mine, c)
  <1>1. k = IF queued.remote_set THEN Drain(queued, "end") ELSE queued
    BY DEF OnIce
  <1>2. offered \in Handle(Bodies) /\ Attended(offered)
    BY MaybeOfferDoes, MaybeOfferAttended
  <1> HIDE DEF offered, k
  <1>3. more \in Seq(Bodies)
    BY <1>2, AppendProperties DEF Handle
  <1> HIDE DEF more
  <1>4. /\ queued \in Handle(Bodies)
        /\ queued.remote_set = offered.remote_set
        /\ queued.signaling = offered.signaling
        /\ queued.local = offered.local
        /\ queued.remote = offered.remote
        /\ queued.ops = offered.ops
    BY <1>2, <1>3 DEF Handle
  <1> HIDE DEF queued
  <1>5. ~queued.remote_set => Attended(queued)
    BY <1>2, <1>4, AttendedSame
  <1>6. Attended(Drain(queued, "end"))
    <2>1. Count(Drain(queued, "end").ops, AnswerOps) = Count(queued.ops, AnswerOps) + 0
      BY <1>4, DrainTokens
    <2>2. Count(queued.ops, AnswerOps) \in Nat
      BY <1>4, TokensType DEF Handle
    <2>3. /\ offered.signaling = "have-remote-offer" => Count(offered.ops, AnswerOps) # 0
          /\ offered.signaling = "have-local-offer" => offered.local
          /\ offered.signaling = "stable" /\ offered.remote # NoBody => offered.local
      BY <1>2, HandleIsNotNone DEF Attended
    <2>4. queued.signaling = "have-remote-offer" =>
            Count(Drain(queued, "end").ops, AnswerOps) # 0
      BY <1>4, <2>1, <2>2, <2>3
    <2> QED  BY <1>4, <2>3, <2>4, AttendedDrain
  <1>7. Attended(k)
    BY <1>1, <1>5, <1>6
  <1> QED  BY <1>7 DEF k

LEMMA MetAttended ==
    ASSUME NEW h \in Handle(Bodies) \cup {NoHandle}, Attended(h)
    PROVE  Attended(Met(h))
  <1>1. NewHandle.pending = << >> /\ NewHandle.signaling = "stable" /\ NewHandle.remote = NoBody
    BY DEF NewHandle
  <1> QED  BY <1>1 DEF Met, Attended

LEMMA ReadsAttended ==
    ASSUME NEW s \in Sessions, NEW p \in Sessions,
           NEW h \in Handle(Bodies) \cup {NoHandle}, Attended(h), NEW mine \in BOOLEAN,
           NEW e \in FitEvent(s) \cup ResyncRead,
           NEW k, Reads(h, k, p, mine, e)
    PROVE  Attended(k)
  <1> DEFINE j == Met(h)
  <1>1. j \in Handle(Bodies) /\ Attended(j) /\ (h # NoHandle => j = h)
    BY MetIsAlike, MetAttended DEF Met
  <1>2. e.type \in SignalKinds => e.body \in Bodies
    BY BodyOf
  <1>3. {"offer", "answer", "ice"} \subseteq SignalKinds
    BY MeshAssumption
  <1>4. Reads(h, k, p, mine, e)
    OBVIOUS
  <1> HIDE DEF j
  <1>5. CASE k = MaybeOffer(j, mine)
    BY <1>1, <1>5, MaybeOfferAttended
  <1>6. CASE e.type = "offer" /\ k = ApplyOffer(j, mine, e.body)
    <2>1. k = j \/ k = Call([j EXCEPT !.remote_set = TRUE], "remote_offer", e.body)
      BY <1>6 DEF ApplyOffer
    <2>2. e.body \in Bodies
      BY <1>2, <1>3, <1>6
    <2>3. Attended(Call([j EXCEPT !.remote_set = TRUE], "remote_offer", e.body))
      BY <1>1, <2>2, ApplyAttended
    <2> QED  BY <1>1, <2>1, <2>3
  <1>7. CASE e.type = "answer" /\ h # NoHandle /\ k = ApplyAnswer(j, e.body)
    <2>1. k = j \/ k = Call([j EXCEPT !.remote_set = TRUE], "remote_answer", e.body)
      BY <1>7 DEF ApplyAnswer
    <2>2. e.body \in Bodies
      BY <1>2, <1>3, <1>7
    <2>3. Attended(Call([j EXCEPT !.remote_set = TRUE], "remote_answer", e.body))
      BY <1>1, <2>2, ApplyAttended
    <2> QED  BY <1>1, <2>1, <2>3
  <1>8. CASE e.type = "ice" /\ k = OnIce(j, mine, e.body)
    <2>1. e.body \in Bodies
      BY <1>2, <1>3, <1>8
    <2> QED  BY <1>1, <1>8, <2>1, OnIceAttended
  <1>9. CASE k = h
    BY <1>9
  <1>10. \/ k = MaybeOffer(j, mine)
         \/ e.type = "offer" /\ k = ApplyOffer(j, mine, e.body)
         \/ e.type = "answer" /\ h # NoHandle /\ k = ApplyAnswer(j, e.body)
         \/ e.type = "ice" /\ k = OnIce(j, mine, e.body)
         \/ k = h
    BY <1>1, <1>4 DEF Reads, j
  <1> QED  BY <1>5, <1>6, <1>7, <1>8, <1>9, <1>10

\* One more candidate is gathered.
GatheredOne(h, k) == k = [h EXCEPT !.gathered = h.gathered + 1]

LEMMA GatheredSame ==
    ASSUME NEW h \in Handle(Bodies), NEW k, GatheredOne(h, k)
    PROVE  /\ k \in Handle(Bodies)
           /\ k.signaling = h.signaling /\ k.local = h.local /\ k.remote = h.remote
           /\ k.ops = h.ops /\ k.remote_set = h.remote_set /\ k.pending = h.pending
  <1> DEFINE more == h.gathered + 1
  <1>1. k = [h EXCEPT !.gathered = more]
    BY DEF GatheredOne
  <1>2. more \in Nat
    BY DEF Handle
  <1> HIDE DEF more
  <1> QED  BY <1>1, <1>2 DEF Handle

\* The visit of a page with connections.
AtFirst(s, h) == h # NoHandle => visit[s] = 1

\* A step of s for its connection with p that loses nothing.
Safely(h, k, m, m2, n, n2, s, p) ==
    \E lost : ~lost /\ Handled(h, k, m, m2, n, n2, s, p, lost)

\* Whatever is done to a connection that loses nothing, it stays attended.
LEMMA HandledAttended ==
    ASSUME NEW s \in Sessions, NEW p \in Sessions,
           NEW mine, Initiates(s, p, mine), NEW h \in FitHandle(mine) \cup {NoHandle},
           NEW k, NEW m \in Mails, NEW m2 \in Mails, NEW n \in Mails, NEW n2 \in Mails,
           Expects(h, m, n, mine), Attended(h),
           Safely(h, k, m, m2, n, n2, s, p)
    PROVE  Attended(k)
  <1> PICK lost : ~lost /\ Handled(h, k, m, m2, n, n2, s, p, lost)
    BY DEF Safely
  <1>1. mine = WeInitiate(s, p) /\ mine \in BOOLEAN
    BY InitiateType DEF Initiates
  <1>2. h \in Handle(Bodies) \cup {NoHandle}
    BY FitIsHandle
  <1>3. CASE Reading(h, k, m, m2, n, n2, s, p)
    <2>1. PICK e \in FitEvent(s) \cup ResyncRead : Reads(h, k, p, mine, e)
      BY <1>1, <1>3 DEF Reading
    <2> QED  BY <1>1, <1>2, <2>1, ReadsAttended
  <1>4. CASE Performing(h, k, m, m2, n, n2, visit[s])
    BY <1>2, <1>4, PerformedAttended DEF Performing
  <1>5. CASE Failing(h, k, m, m2, n, n2, lost)
    <2>1. h \in Handle(Bodies) /\ h # NoHandle /\ h.ops # << >> /\ Rejects(h)
      BY <1>2, <1>5 DEF Failing
    <2>2. ~Rejects(h)
      BY <2>1, NothingRejected
    <2> QED  BY <2>1, <2>2
  <1>6. CASE Gathering(h, k, m, m2, n, n2, visit[s])
    <2>1. h \in Handle(Bodies) /\ GatheredOne(h, k)
      BY <1>2, <1>6 DEF Gathering, GatheredOne
    <2>2. /\ k \in Handle(Bodies)
          /\ k.signaling = h.signaling /\ k.local = h.local /\ k.remote = h.remote
          /\ k.ops = h.ops /\ k.remote_set = h.remote_set /\ k.pending = h.pending
      BY <2>1, GatheredSame
    <2> QED  BY <2>1, <2>2, AttendedSame
  <1>7. CASE Draining(h, k, m, m2, n, n2, WeInitiate(s, p), lost)
    <2>1. h \in Handle(Bodies) /\ k = Drain(h, "end")
      BY <1>2, <1>7 DEF Draining
    <2>2. Count(Drain(h, "end").ops, AnswerOps) = Count(h.ops, AnswerOps) + 0
      BY <2>1, DrainTokens
    <2>3. Count(h.ops, AnswerOps) \in Nat
      BY <2>1, TokensType DEF Handle
    <2>4. /\ h.signaling = "have-remote-offer" => Count(h.ops, AnswerOps) # 0
          /\ h.signaling = "have-local-offer" => h.local
          /\ h.signaling = "stable" /\ h.remote # NoBody => h.local
      BY <2>1, HandleIsNotNone DEF Attended
    <2>5. h.signaling = "have-remote-offer" =>
            Count(Drain(h, "end").ops, AnswerOps) # 0
      BY <2>2, <2>3, <2>4
    <2> QED  BY <2>1, <2>4, <2>5, AttendedDrain
  <1> QED  BY <1>3, <1>4, <1>5, <1>6, <1>7 DEF Handled

-----------------------------------------------------------------------------
(* What is said to a page at its peer's first visit. *)

LEMMA SaidMore ==
    ASSUME NEW c, NEW h \in SaidHandle(c), NEW o \in SaidOp(c),
           NEW k \in Handle(Bodies), k.remote = h.remote, k.ops = Append(h.ops, o)
    PROVE  k \in SaidHandle(c)
  <1>1. k.ops \in Seq(SaidOp(c))
    BY AppendProperties DEF SaidHandle
  <1> QED  BY <1>1 DEF SaidHandle

LEMMA SaidSame ==
    ASSUME NEW c, NEW h \in SaidHandle(c),
           NEW k \in Handle(Bodies), k.remote = h.remote, k.ops = h.ops
    PROVE  k \in SaidHandle(c)
  BY DEF SaidHandle

LEMMA CallSaid ==
    ASSUME NEW c, NEW h \in SaidHandle(c), NEW do, NEW body,
           [do |-> do, body |-> body, then |-> "end"] \in SaidOp(c)
    PROVE  Call(h, do, body) \in SaidHandle(c)
  <1> DEFINE o == [do |-> do, body |-> body, then |-> "end"]
             k == Call(h, do, body)
  <1>1. h \in Handle(Bodies) /\ o \in Op(Bodies) /\ o \in SaidOp(c)
    BY DEF SaidHandle, SaidOp
  <1>2. k \in Handle(Bodies) /\ SameState(h, k) /\ k.ops = Append(h.ops, o)
    BY <1>1, CallDoes
  <1> HIDE DEF o, k
  <1>3. k \in SaidHandle(c)
    BY <1>1, <1>2, SaidMore DEF SameState
  <1> QED  BY <1>3 DEF k

LEMMA DrainSaid ==
    ASSUME NEW c, NEW h \in SaidHandle(c), NEW then \in {"end", "answer"}
    PROVE  Drain(h, then) \in SaidHandle(c)
  <1> DEFINE add == [do |-> "add", body |-> Head(h.pending), then |-> then]
             ans == [do |-> "create_answer", body |-> NoBody, then |-> "end"]
             k == Drain(h, then)
  <1>1. h \in Handle(Bodies)
    BY DEF SaidHandle
  <1>2. /\ k \in Handle(Bodies)
        /\ SameState(h, k)
        /\ h.pending # << >> => Head(h.pending) \in Bodies /\ k.ops = Append(h.ops, add)
        /\ h.pending = << >> /\ then = "end" => k.ops = h.ops
        /\ h.pending = << >> /\ then = "answer" => k.ops = Append(h.ops, ans)
    BY <1>1, DrainDoes
  <1>3. /\ h.pending # << >> => add \in SaidOp(c)
        /\ ans \in SaidOp(c)
    BY <1>2 DEF SaidOp, Op
  <1> HIDE DEF k, add, ans
  <1>4. k \in SaidHandle(c)
    BY <1>2, <1>3, SaidMore, SaidSame DEF SameState
  <1> QED  BY <1>4 DEF k

LEMMA PerformedSaid ==
    ASSUME NEW c, NEW h \in SaidHandle(c), h.ops # << >>
    PROVE  Performed(h) \in SaidHandle(c)
  <1> DEFINE k  == Performed(h)
             op == Head(h.ops)
  <1>1. h \in Handle(Bodies)
    BY DEF SaidHandle
  <1>2. PICK left : /\ Leftover(h, op, left)
                    /\ \/ /\ op.do \in {"create_offer", "create_answer"}
                          /\ \E do \in {"local_offer", "local_answer"} :
                               k = Call(left, do, NoBody)
                       \/ op.do \in {"local_offer", "local_answer"} /\ k = left
                       \/ /\ op.do \in {"remote_offer", "remote_answer", "add"}
                          /\ \E then \in {"end", "answer"} : k = Drain(left, then)
    BY <1>1, PerformedParts
  <1>3. op \in SaidOp(c) /\ Tail(h.ops) \in Seq(SaidOp(c))
    BY HeadTailProperties DEF SaidHandle
  <1> HIDE DEF k, op
  <1>4. left \in SaidHandle(c)
    BY <1>2, <1>3 DEF Leftover, SaidHandle, SaidOp
  <1>5. \A do \in {"local_offer", "local_answer"} :
          [do |-> do, body |-> NoBody, then |-> "end"] \in SaidOp(c)
    BY DEF SaidOp, Op
  <1>6. k \in SaidHandle(c)
    BY <1>2, <1>4, <1>5, CallSaid, DrainSaid
  <1> QED  BY <1>6 DEF k

LEMMA MaybeOfferSaid ==
    ASSUME NEW c, NEW h \in SaidHandle(c), NEW mine \in BOOLEAN
    PROVE  MaybeOffer(h, mine) \in SaidHandle(c)
  <1> DEFINE k == MaybeOffer(h, mine)
             o == [do |-> "create_offer", body |-> NoBody, then |-> "end"]
  <1>1. h \in Handle(Bodies)
    BY DEF SaidHandle
  <1>2. k = h \/ (k \in Handle(Bodies) /\ k.remote = h.remote /\ k.ops = Append(h.ops, o))
    BY <1>1, MaybeOfferDoes
  <1>3. o \in SaidOp(c)
    BY DEF SaidOp, Op
  <1> HIDE DEF k, o
  <1>4. k \in SaidHandle(c)
    BY <1>2, <1>3, SaidMore
  <1> QED  BY <1>4 DEF k

LEMMA ApplySaid ==
    ASSUME NEW c \in Bodies, NEW h \in SaidHandle(c),
           NEW do \in {"remote_offer", "remote_answer"}
    PROVE  Call([h EXCEPT !.remote_set = TRUE], do, c) \in SaidHandle(c)
  <1> DEFINE marked == [h EXCEPT !.remote_set = TRUE]
  <1>1. marked \in SaidHandle(c)
    BY DEF SaidHandle, Handle
  <1>2. [do |-> do, body |-> c, then |-> "end"] \in SaidOp(c)
    BY DEF SaidOp, Op
  <1> HIDE DEF marked
  <1>3. Call(marked, do, c) \in SaidHandle(c)
    BY <1>1, <1>2, CallSaid
  <1> QED  BY <1>3 DEF marked

LEMMA OnIceSaid ==
    ASSUME NEW c, NEW h \in SaidHandle(c), NEW mine \in BOOLEAN, NEW b \in Bodies
    PROVE  OnIce(h, mine, b) \in SaidHandle(c)
  <1> DEFINE offered == MaybeOffer(h, mine)
             more    == Append(offered.pending, b)
             queued  == [offered EXCEPT !.pending = more]
             k       == OnIce(h, mine, b)
  <1>1. k = IF queued.remote_set THEN Drain(queued, "end") ELSE queued
    BY DEF OnIce
  <1>2. offered \in SaidHandle(c)
    BY MaybeOfferSaid
  <1> HIDE DEF offered, k
  <1>3. more \in Seq(Bodies)
    BY <1>2, AppendProperties DEF SaidHandle, Handle
  <1> HIDE DEF more
  <1>4. queued \in SaidHandle(c)
    BY <1>2, <1>3 DEF SaidHandle, Handle
  <1> HIDE DEF queued
  <1>5. k \in SaidHandle(c)
    BY <1>1, <1>4, DrainSaid
  <1> QED  BY <1>5 DEF k

LEMMA MetSaid ==
    ASSUME NEW c, NEW h \in SaidHandle(c) \cup {NoHandle}
    PROVE  Met(h) \in SaidHandle(c)
  <1>1. NewHandle \in Handle(Bodies) /\ NewHandle.remote = NoBody /\ NewHandle.ops = << >>
    BY DEF NewHandle, Handle
  <1>2. << >> \in Seq(SaidOp(c))
    OBVIOUS
  <1> QED  BY <1>1, <1>2 DEF Met, SaidHandle

LEMMA WordType ==
    ASSUME NEW mine \in BOOLEAN
    PROVE  /\ WordKind(mine) \in SignalKinds
           /\ Bodies \ {Word(mine)} \in SUBSET Bodies
  BY MeshAssumption DEF WordKind

\* What a page is told by its peer.
LEMMA ReadsSaid ==
    ASSUME NEW s \in Sessions, NEW p \in Sessions,
           NEW mine, Initiates(s, p, mine), NEW h, Said(h, mine),
           NEW e \in FitEvent(s) \cup ResyncRead, NEW k, Reads(h, k, p, mine, e),
           NEW n \in Mails, NEW n2 \in Mails, Taken(n, n2, p, e), SaidOnly(n, mine)
    PROVE  Said(k, mine) /\ SaidOnly(n2, mine)
  <1> DEFINE c  == Word(mine)
             kd == WordKind(mine)
             B  == Bodies \ {c}
  <1>1. mine = WeInitiate(s, p) /\ mine \in BOOLEAN
    BY InitiateType DEF Initiates
  <1>2. kd \in SignalKinds /\ B \in SUBSET Bodies
    BY <1>1, WordType
  <1>3. n[kd][B] = n2[kd][B] + (IF e \in SignalsOf(p, kd, B) THEN 1 ELSE 0)
    BY <1>2 DEF Taken
  <1>4. n[kd][B] = 0
    BY DEF SaidOnly
  <1>5. n2[kd][B] \in Nat
    BY <1>2 DEF Mails
  <1>6. /\ "offer" \in SignalKinds /\ "answer" \in SignalKinds /\ "ice" \in SignalKinds
    BY MeshAssumption
  <1>7. /\ e.type \in SignalKinds => e.body \in Bodies /\ e \in FitEvent(s)
        /\ e \in SignalsOf(p, kd, B) <=> e.type = kd /\ e.from = p /\ e.body \in B
    BY <1>2, BodyOf, TakenOf
  <1>8. kd = IF mine THEN "answer" ELSE "offer"
    BY DEF WordKind
  <1>9. B = Bodies \ {c}
    OBVIOUS
  <1>10. h \in SaidHandle(c) \cup {NoHandle}
    BY DEF Said
  <1>11. Met(h) \in SaidHandle(c) /\ (h # NoHandle => Met(h) = h)
    BY <1>10, MetSaid DEF Met
  <1>12. SaidOnly(n2, mine) <=> n2[kd][B] = 0
    BY DEF SaidOnly
  <1>13. Said(k, mine) <=> k \in SaidHandle(c) \cup {NoHandle}
    BY DEF Said
  <1> HIDE DEF c, kd, B
  <1>14. e \notin SignalsOf(p, kd, B) /\ n2[kd][B] = 0
    BY <1>3, <1>4, <1>5
  <1>15. e.type = kd /\ e.from = p => e.body = c /\ c \in Bodies
    BY <1>2, <1>7, <1>9, <1>14
  <1>16. e.type \in {"offer", "answer"} /\ e.from = p => e.type = kd
    <2>1. /\ e.type = "offer" /\ e.from = p => WeInitiate(p, s)
          /\ e.type = "answer" /\ e.from = p => WeInitiate(s, p)
      BY <1>6, <1>7 DEF FitEvent
    <2>2. WeInitiate(p, s) => ~WeInitiate(s, p)
      BY InitiateType
    <2> QED  BY <1>1, <1>8, <2>1, <2>2
  <1>17. CASE k = MaybeOffer(Met(h), mine)
    BY <1>1, <1>11, <1>12, <1>13, <1>14, <1>17, MaybeOfferSaid
  <1>18. CASE e.type = "offer" /\ e.from = p /\ k = ApplyOffer(Met(h), mine, e.body)
    <2>1. k = Met(h) \/ k = Call([Met(h) EXCEPT !.remote_set = TRUE], "remote_offer", c)
      BY <1>15, <1>16, <1>18 DEF ApplyOffer
    <2>2. Call([Met(h) EXCEPT !.remote_set = TRUE], "remote_offer", c) \in SaidHandle(c)
      BY <1>11, <1>15, <1>16, <1>18, ApplySaid
    <2> QED  BY <1>11, <1>12, <1>13, <1>14, <2>1, <2>2
  <1>19. CASE /\ e.type = "answer" /\ e.from = p
              /\ k = IF h = NoHandle THEN h ELSE ApplyAnswer(h, e.body)
    <2>1. \/ k = h
          \/ h # NoHandle /\ k = Call([h EXCEPT !.remote_set = TRUE], "remote_answer", c)
      BY <1>15, <1>16, <1>19 DEF ApplyAnswer
    <2>2. h # NoHandle =>
            Call([h EXCEPT !.remote_set = TRUE], "remote_answer", c) \in SaidHandle(c)
      BY <1>10, <1>15, <1>16, <1>19, ApplySaid
    <2> QED  BY <1>10, <1>12, <1>13, <1>14, <2>1, <2>2
  <1>20. CASE e.type = "ice" /\ k = OnIce(Met(h), mine, e.body)
    BY <1>1, <1>6, <1>7, <1>11, <1>12, <1>13, <1>14, <1>20, OnIceSaid
  <1>21. CASE k = h
    BY <1>10, <1>12, <1>13, <1>14, <1>21
  <1> QED  BY <1>17, <1>18, <1>19, <1>20, <1>21 DEF Reads

LEMMA HandledSaid ==
    ASSUME NEW s \in Sessions, NEW p \in Sessions,
           NEW mine, Initiates(s, p, mine), NEW h \in FitHandle(mine) \cup {NoHandle},
           NEW k, NEW m \in Mails, NEW m2 \in Mails, NEW n \in Mails, NEW n2 \in Mails,
           Expects(h, m, n, mine), Said(h, mine), SaidOnly(n, mine),
           Safely(h, k, m, m2, n, n2, s, p)
    PROVE  Said(k, mine) /\ SaidOnly(n2, mine)
  <1> PICK lost : ~lost /\ Handled(h, k, m, m2, n, n2, s, p, lost)
    BY DEF Safely
  <1> DEFINE c == Word(mine)
  <1>1. mine = WeInitiate(s, p) /\ mine \in BOOLEAN
    BY InitiateType DEF Initiates
  <1>2. h \in Handle(Bodies) \cup {NoHandle} /\ h \in SaidHandle(c) \cup {NoHandle}
    BY FitIsHandle DEF Said
  <1>3. Said(k, mine) <=> k \in SaidHandle(c) \cup {NoHandle}
    BY DEF Said
  <1>4. CASE Reading(h, k, m, m2, n, n2, s, p)
    <2>1. PICK e \in FitEvent(s) \cup ResyncRead :
            Reads(h, k, p, mine, e) /\ Taken(n, n2, p, e)
      BY <1>1, <1>4 DEF Reading
    <2> QED  BY <2>1, ReadsSaid
  <1> HIDE DEF c
  <1>5. CASE Performing(h, k, m, m2, n, n2, visit[s])
    <2>1. h \in SaidHandle(c) /\ h.ops # << >> /\ k = Performed(h) /\ n2 = n
      BY <1>2, <1>5 DEF Performing
    <2>2. Performed(h) \in SaidHandle(c)
      BY <2>1, PerformedSaid
    <2> QED  BY <1>3, <2>1, <2>2
  <1>6. CASE Failing(h, k, m, m2, n, n2, lost)
    <2>1. h \in Handle(Bodies) /\ h # NoHandle /\ h.ops # << >> /\ Rejects(h)
      BY <1>2, <1>6 DEF Failing
    <2>2. ~Rejects(h)
      BY <2>1, NothingRejected
    <2> QED  BY <2>1, <2>2
  <1>7. CASE Gathering(h, k, m, m2, n, n2, visit[s])
    <2>1. h \in SaidHandle(c) /\ GatheredOne(h, k) /\ h \in Handle(Bodies) /\ n2 = n
      BY <1>2, <1>7 DEF Gathering, GatheredOne
    <2>2. k \in Handle(Bodies) /\ k.remote = h.remote /\ k.ops = h.ops
      BY <2>1, GatheredSame
    <2>3. k \in SaidHandle(c)
      BY <2>1, <2>2, SaidSame
    <2> QED  BY <1>3, <2>1, <2>3
  <1>8. CASE Draining(h, k, m, m2, n, n2, WeInitiate(s, p), lost)
    <2>1. h \in SaidHandle(c) /\ k = Drain(h, "end") /\ n2 = n
      BY <1>2, <1>8 DEF Draining
    <2>2. Drain(h, "end") \in SaidHandle(c)
      BY <2>1, DrainSaid
    <2> QED  BY <1>3, <2>1, <2>2
  <1> QED  BY <1>4, <1>5, <1>6, <1>7, <1>8 DEF Handled

\* What a page says itself.
LEMMA SentSaid ==
    ASSUME NEW mine \in BOOLEAN, NEW m \in Mails, NEW m2 \in Mails, SaidOnly(m, mine),
           NEW kind, NEW body, Sent(m, m2, kind, body),
           kind = WordKind(mine) => body = Word(mine)
    PROVE  SaidOnly(m2, mine)
  <1> DEFINE kd == WordKind(mine)
             B  == Bodies \ {Word(mine)}
             one == IF kd = kind /\ body \in B THEN 1 ELSE 0
  <1>1. kd \in SignalKinds /\ B \in SUBSET Bodies
    BY WordType
  <1>2. m2[kd][B] = m[kd][B] \/ m2[kd][B] = m[kd][B] + one
    BY <1>1 DEF Sent
  <1>3. one = 0
    OBVIOUS
  <1>4. m[kd][B] = 0
    BY DEF SaidOnly
  <1>5. SaidOnly(m2, mine) <=> m2[kd][B] = 0
    BY DEF SaidOnly
  <1> HIDE DEF kd, B, one
  <1> QED  BY <1>2, <1>3, <1>4, <1>5

\* It has said nothing else itself.
OnlySaysBy(m, mine) == SaidOnly(m, ~mine)

LEMMA HandledSpeaks ==
    ASSUME NEW s \in Sessions, NEW p \in Sessions,
           NEW mine, Initiates(s, p, mine), NEW h \in FitHandle(mine) \cup {NoHandle},
           NEW k, NEW m \in Mails, NEW m2 \in Mails, NEW n \in Mails, NEW n2 \in Mails,
           Expects(h, m, n, mine), Said(h, mine), OnlySaysBy(m, mine),
           AtFirst(s, h),
           Safely(h, k, m, m2, n, n2, s, p)
    PROVE  OnlySaysBy(m2, mine)
  <1> PICK lost : ~lost /\ Handled(h, k, m, m2, n, n2, s, p, lost)
    BY DEF Safely
  <1> SUFFICES ASSUME SaidOnly(m, ~mine)
               PROVE  SaidOnly(m2, ~mine)
    BY DEF OnlySaysBy
  <1>1. mine \in BOOLEAN /\ (~mine) \in BOOLEAN
    BY InitiateType DEF Initiates
  <1>2. CASE m2 = m
    BY <1>2
  <1>3. CASE Performing(h, k, m, m2, n, n2, visit[s])
    <2> DEFINE op == Head(h.ops)
    <2>1. h \in FitHandle(mine) /\ h # NoHandle /\ h.ops # << >>
      BY <1>3 DEF Performing
    <2>2. op \in FitOp(h.remote # NoBody, mine)
      BY <2>1, HeadTailProperties DEF FitHandle
    <2>3. /\ op.do = "local_offer" => mine
          /\ op.do = "local_answer" => ~mine
      BY <2>2 DEF FitOp
    <2>4. h \in Handle(Bodies) /\ Tidy(h)
      BY <2>1, FitIsHandle DEF Expects
    <2>5. op.do = "local_answer" => h.remote # NoBody
      BY <2>1, <2>4, TidyHead
    <2>6. h.remote \in {NoBody, Word(mine)}
      BY <2>1 DEF Said, SaidHandle
    <2>7. op.do = "local_answer" => h.remote = <<1, 0>>
      BY <2>3, <2>5, <2>6 DEF Word
    <2>8. visit[s] = 1
      BY <2>1 DEF AtFirst
    <2>9. \/ op.do = "local_offer" /\ Sent(m, m2, "offer", <<1, 0>>)
          \/ op.do = "local_answer" /\ Sent(m, m2, "answer", <<1, h.remote[1]>>)
          \/ m2 = m
      BY <1>3, <2>8 DEF Performing
    <2> HIDE DEF op
    <2>10. CASE op.do = "local_offer" /\ Sent(m, m2, "offer", <<1, 0>>)
      <3>1. Word(~mine) = <<1, 0>>
        BY <2>3, <2>10 DEF Word
      <3> QED  BY <1>1, <2>10, <3>1, SentSaid
    <2>11. CASE op.do = "local_answer" /\ Sent(m, m2, "answer", <<1, h.remote[1]>>)
      <3>1. Word(~mine) = <<1, 1>>
        BY <2>3, <2>11 DEF Word
      <3>2. h.remote[1] = 1
        BY <2>7, <2>11
      <3> QED  BY <1>1, <2>11, <3>1, <3>2, SentSaid
    <2> QED  BY <1>2, <2>9, <2>10, <2>11
  <1>4. CASE Gathering(h, k, m, m2, n, n2, visit[s])
    <2>1. PICK body : Sent(m, m2, "ice", body)
      BY <1>4 DEF Gathering
    <2>2. WordKind(~mine) # "ice"
      BY DEF WordKind
    <2> QED  BY <1>1, <2>1, <2>2, SentSaid
  <1>5. /\ Reading(h, k, m, m2, n, n2, s, p) => m2 = m
        /\ Failing(h, k, m, m2, n, n2, lost) => m2 = m
        /\ Draining(h, k, m, m2, n, n2, WeInitiate(s, p), lost) => m2 = m
    BY DEF Reading, Failing, Draining
  <1> QED  BY <1>2, <1>3, <1>4, <1>5 DEF Handled

-----------------------------------------------------------------------------
(* Nothing of an offer gets lost. *)

\* If no signal of a kind is unread, none with a body is.
Heard(m) ==
    \A k \in SignalKinds, b \in Bodies : m[k][Bodies] = 0 => m[k][{b}] = 0

LEMMA SentOnce ==
    ASSUME NEW m \in Mails, NEW m2 \in Mails, Heard(m),
           NEW kind \in SignalKinds, NEW body \in Bodies, m[kind][Bodies] = 0,
           Sent(m, m2, kind, body)
    PROVE  m2[kind][Bodies] = 1
  <1>1. m[kind][{body}] = 0
    BY DEF Heard
  <1>2. Bodies \in SUBSET Bodies
    OBVIOUS
  <1>3. m2[kind][Bodies] = m[kind][Bodies] + 1
    BY <1>1, <1>2 DEF Sent
  <1> QED  BY <1>3

\* What is to be known of the initiator's handle for that.
OffererReady(h, O, A) ==
    h # NoHandle =>
        /\ h.negotiated
        /\ A # 0 => h.signaling = "have-local-offer"
        /\ OpsIn(h, OfferOps) # 0 => O = 0 /\ h.remote = NoBody
OffererAdvances(h, k, O, O2, A, A2) ==
    LET o  == OpsIn(h, OfferOps)
        o2 == OpsIn(k, OfferOps)
        t  == OpsIn(h, TakeOps)
        t2 == OpsIn(k, TakeOps)
    IN  \/ h = NoHandle /\ k = NoHandle
        \/ h = NoHandle /\ k # NoHandle /\ o2 # 0 /\ k.remote = NoBody
        \/ /\ h # NoHandle /\ k # NoHandle /\ o2 + O2 = o + O
           /\ k.remote # NoBody /\ k.signaling = "stable"
        \/ /\ h # NoHandle /\ k # NoHandle /\ o2 + O2 = o + O
           /\ t2 + A2 = t + A /\ k.remote = h.remote
           /\ k.remote # NoBody => k.signaling = h.signaling

LEMMA LinkingOfOfferer ==
    ASSUME NEW h, NEW k, NEW g, NEW O, NEW O2, NEW A, NEW A2, NEW silent,
           TurnTypes(h, k, g, O, O2, A, A2, silent), Linking(h, g, O, A),
           OffererAdvances(h, k, O, O2, A, A2)
    PROVE  Linking(k, g, O2, A2)
  <1> DEFINE o  == OpsIn(h, OfferOps)
             o2 == OpsIn(k, OfferOps)
             t  == OpsIn(h, TakeOps)
             t2 == OpsIn(k, TakeOps)
             a  == OpsIn(g, AnswerOps)
  <1>1. /\ o \in Nat /\ o2 \in Nat /\ t \in Nat /\ t2 \in Nat /\ a \in Nat
        /\ O \in Nat /\ O2 \in Nat /\ A \in Nat /\ A2 \in Nat
    BY OpsInType DEF TurnTypes
  <1>2. h # NoHandle =>
          /\ h.remote = NoBody => o + O + (a + A + t) # 0
          /\ o + O = 0 => g # NoHandle /\ g.remote_set
          /\ h.remote # NoBody => h.signaling = "stable"
    BY DEF Linking
  <1>3. \/ k = NoHandle
        \/ k # NoHandle /\ o2 # 0 /\ k.remote = NoBody
        \/ /\ h # NoHandle /\ k # NoHandle /\ o2 + O2 = o + O
           /\ k.remote # NoBody /\ k.signaling = "stable"
        \/ /\ h # NoHandle /\ k # NoHandle /\ o2 + O2 = o + O
           /\ t2 + A2 = t + A /\ k.remote = h.remote
           /\ k.remote # NoBody => k.signaling = h.signaling
    BY DEF OffererAdvances
  <1>4. \/ k = NoHandle
        \/ /\ k.remote = NoBody => o2 + O2 + (a + A2 + t2) # 0
           /\ o2 + O2 = 0 => g # NoHandle /\ g.remote_set
           /\ k.remote # NoBody => k.signaling = "stable"
    <2> HIDE DEF o, o2, t, t2, a
    <2> QED  BY <1>1, <1>2, <1>3
  <1> QED  BY <1>4 DEF Linking

LEMMA OffererReadsOn ==
    ASSUME NEW s \in Sessions, NEW p \in Sessions, WeInitiate(s, p),
           NEW h \in Handle(Bodies) \cup {NoHandle},
           NEW e \in FitEvent(s) \cup ResyncRead,
           NEW k, Reads(h, k, p, TRUE, e),
           NEW O \in Nat, NEW A \in Nat, NEW A2 \in Nat,
           OffererReady(h, O, A), Counted(e, p, "answer", A, A2)
    PROVE  OffererAdvances(h, k, O, O, A, A2)
  <1> DEFINE f  == MaybeOffer(Met(h), TRUE)
             o  == OpsIn(h, OfferOps)
             o2 == OpsIn(k, OfferOps)
             t  == OpsIn(h, TakeOps)
             t2 == OpsIn(k, TakeOps)
  <1>0. /\ h # NoHandle => h.negotiated
        /\ h # NoHandle /\ A # 0 => h.signaling = "have-local-offer"
    BY DEF OffererReady
  <1>1. /\ f \in Handle(Bodies)
        /\ h # NoHandle => f = h
        /\ h = NoHandle => Count(f.ops, OfferOps) = 1 /\ Count(f.ops, TakeOps) = 0
    BY <1>0, FirstOffer
  <1>2. o \in Nat /\ t \in Nat
    BY OpsInType
  <1>3. ~(e.type = "offer" /\ e.from = p)
    BY InitiateType DEF FitEvent, ResyncRead
  <1>4. A = A2 + (IF e.type = "answer" /\ e.from = p THEN 1 ELSE 0)
    BY DEF Counted
  <1>5. h = NoHandle => f.remote = NoBody
    <2>1. h = NoHandle => Met(h).remote = NoBody
      BY DEF Met, NewHandle
    <2>2. MaybeOffer(Met(h), TRUE).remote = Met(h).remote
      BY NewHandleFits DEF MaybeOffer, Call, Met, FitHandle, Handle
    <2> QED  BY <2>1, <2>2
  <1>6. OffererAdvances(h, k, O, O, A, A2) <=>
          \/ h = NoHandle /\ k = NoHandle
          \/ h = NoHandle /\ k # NoHandle /\ o2 # 0 /\ k.remote = NoBody
          \/ /\ h # NoHandle /\ k # NoHandle /\ o2 + O = o + O
             /\ k.remote # NoBody /\ k.signaling = "stable"
          \/ /\ h # NoHandle /\ k # NoHandle /\ o2 + O = o + O
             /\ t2 + A2 = t + A /\ k.remote = h.remote
             /\ k.remote # NoBody => k.signaling = h.signaling
    BY DEF OffererAdvances
  <1>7. k # NoHandle => o2 = Count(k.ops, OfferOps) /\ t2 = Count(k.ops, TakeOps)
    BY DEF OpsIn
  <1>8. h # NoHandle => o = Count(h.ops, OfferOps) /\ t = Count(h.ops, TakeOps)
    BY DEF OpsIn
  <1>9. k = h /\ A = A2 => OffererAdvances(h, k, O, O, A, A2)
    <2>1. k = h => o2 = o /\ t2 = t
      OBVIOUS
    <2> HIDE DEF o, o2, t, t2
    <2>2. k = h /\ A = A2 => o2 + O = o + O /\ t2 + A2 = t + A
      BY <1>2, <2>1
    <2> QED  BY <1>6, <2>2
  <1>10. f = MaybeOffer(Met(h), TRUE)
    OBVIOUS
  <1> HIDE DEF o, o2, t, t2, f
  <1>11. ASSUME k \in Handle(Bodies), SameState(f, k),
                Count(k.ops, OfferOps) = Count(f.ops, OfferOps),
                Count(k.ops, TakeOps) = Count(f.ops, TakeOps), A = A2
         PROVE  OffererAdvances(h, k, O, O, A, A2)
    <2>1. k # NoHandle
      BY <1>11, HandleIsNotNone
    <2>2. CASE h = NoHandle
      <3>1. k.remote = NoBody
        BY <1>5, <1>11, <2>2 DEF SameState
      <3>2. o2 = 1
        BY <1>1, <1>7, <1>11, <2>1, <2>2
      <3> QED  BY <1>6, <2>1, <2>2, <3>1, <3>2
    <2>3. CASE h # NoHandle
      <3>1. o2 = o /\ t2 = t /\ k.remote = h.remote /\ k.signaling = h.signaling
        BY <1>1, <1>7, <1>8, <1>11, <2>1, <2>3 DEF SameState
      <3>2. o2 + O = o + O /\ t2 + A2 = t + A
        BY <1>11, <3>1
      <3> QED  BY <1>6, <2>1, <2>3, <3>1, <3>2
    <2> QED  BY <2>2, <2>3
  <1>12. CASE /\ \/ e.type = "resync" /\ p \in e.peers
                 \/ e.type = "peer_joined" /\ e.peer = p
              /\ k = MaybeOffer(Met(h), TRUE)
    <2>1. k = f /\ A = A2
      BY <1>4, <1>10, <1>12
    <2>2. k \in Handle(Bodies) /\ SameState(f, k)
      BY <1>1, <2>1 DEF SameState
    <2> QED  BY <1>11, <2>1, <2>2
  <1>13. CASE e.type = "answer" /\ e.from = p
              /\ k = IF h = NoHandle THEN h ELSE ApplyAnswer(h, e.body)
    <2>1. A = A2 + 1
      BY <1>4, <1>13
    <2>2. CASE h = NoHandle
      BY <1>6, <1>13, <2>2
    <2>3. CASE h # NoHandle
      <3> DEFINE marked == [h EXCEPT !.remote_set = TRUE]
                 op == [do |-> "remote_answer", body |-> e.body, then |-> "end"]
      <3>1. e.body \in Bodies
        BY <1>13, BodyOf, MeshAssumption
      <3>2. op \in Op(Bodies) /\ op.do = "remote_answer"
        BY <3>1 DEF Op
      <3>3. /\ marked \in Handle(Bodies)
            /\ marked.remote = h.remote
            /\ marked.signaling = h.signaling
            /\ marked.ops = h.ops
        BY <2>3 DEF Handle
      <3>4. h.signaling = "have-local-offer"
        BY <1>0, <2>1, <2>3
      <3>5. k = Call(marked, "remote_answer", e.body)
        BY <1>13, <2>3, <3>4 DEF ApplyAnswer, TakesAnswer
      <3> HIDE DEF marked
      <3>6. /\ k \in Handle(Bodies)
            /\ SameState(marked, k)
            /\ k.ops = Append(marked.ops, op)
        BY <3>2, <3>3, <3>5, CallDoes
      <3> HIDE DEF op
      <3>7. h.ops \in Seq(Op(Bodies))
        BY <2>3 DEF Handle
      <3>8. /\ Count(Append(h.ops, op), OfferOps) = Count(h.ops, OfferOps)
                 + (IF op.do \in {"create_offer", "local_offer"} THEN 1 ELSE 0)
            /\ Count(Append(h.ops, op), TakeOps) = Count(h.ops, TakeOps)
                 + (IF op.do = "remote_answer" THEN 1 ELSE 0)
        BY <3>2, <3>7, CallTokens
      <3>9. k # NoHandle
        BY <3>6, HandleIsNotNone
      <3>10. o2 = o + 0 /\ t2 = t + 1
        BY <1>7, <1>8, <2>3, <3>2, <3>3, <3>6, <3>8, <3>9
      <3>11. o2 + O = o + O /\ t2 + A2 = t + A
        BY <1>2, <2>1, <3>10
      <3>12. k.remote = h.remote /\ k.signaling = h.signaling
        BY <3>3, <3>6 DEF SameState
      <3> QED  BY <1>6, <2>3, <3>9, <3>11, <3>12
    <2> QED  BY <2>2, <2>3
  <1>14. CASE e.type = "ice" /\ e.from = p /\ k = OnIce(Met(h), TRUE, e.body)
    <2> DEFINE met  == Met(h)
               mine == TRUE
               b    == e.body
    <2>1. b \in Bodies
      BY <1>14, BodyOf, MeshAssumption
    <2>2. met \in Handle(Bodies)
      BY NewHandleFits DEF Met, FitHandle
    <2>3. mine \in BOOLEAN /\ f = MaybeOffer(met, mine) /\ k = OnIce(met, mine, b)
      BY <1>10, <1>14
    <2> HIDE DEF met, mine, b
    <2>4. /\ k \in Handle(Bodies)
          /\ SameState(f, k)
          /\ Count(k.ops, OfferOps) = Count(f.ops, OfferOps)
          /\ Count(k.ops, TakeOps) = Count(f.ops, TakeOps)
      BY <1>1, <2>1, <2>2, <2>3, OnIceDoes
    <2>5. A = A2
      BY <1>4, <1>14
    <2> QED  BY <1>11, <2>4, <2>5
  <1>15. CASE ~(e.type \in SignalKinds /\ e.from = p) /\ k = h
    <2>1. A = A2
      BY <1>4, <1>15, MeshAssumption
    <2> QED  BY <1>9, <1>15, <2>1
  <1> QED  BY <1>3, <1>12, <1>13, <1>14, <1>15 DEF Reads

LEMMA OffererPerformsOn ==
    ASSUME NEW h \in FitHandle(TRUE), h.ops # << >>, NEW k, k = Performed(h),
           NEW O \in Nat, NEW O2 \in Nat, NEW A \in Nat, OffererReady(h, O, A),
           IF Head(h.ops).do = "local_offer" THEN O2 = O + 1 ELSE O2 = O
    PROVE  OffererAdvances(h, k, O, O2, A, A)
  <1> DEFINE op == Head(h.ops)
             o  == OpsIn(h, OfferOps)
             o2 == OpsIn(k, OfferOps)
             t  == OpsIn(h, TakeOps)
             t2 == OpsIn(k, TakeOps)
  <1>1. h \in Handle(Bodies) /\ h # NoHandle
    BY HandleIsNotNone DEF FitHandle
  <1>2. op \in FitOp(h.remote # NoBody, TRUE)
    BY HeadTailProperties DEF FitHandle
  <1>3. /\ op.do \in {"create_offer", "local_offer", "remote_answer", "add"}
        /\ op.do = "remote_answer" => op.body \in Bodies
    BY <1>2, OpKinds DEF FitOp
  <1>4. /\ op.do = "local_offer" => O2 = O + 1
        /\ op.do # "local_offer" => O2 = O
    OBVIOUS
  <1>5. /\ k \in Handle(Bodies)
        /\ k.signaling = CASE op.do = "local_offer" -> "have-local-offer"
                           [] op.do = "remote_offer" -> "have-remote-offer"
                           [] op.do \in {"local_answer", "remote_answer"} -> "stable"
                           [] OTHER -> h.signaling
        /\ k.remote = IF op.do \in {"remote_offer", "remote_answer"}
                      THEN op.body ELSE h.remote
        /\ Count(h.ops, OfferOps) = Count(k.ops, OfferOps)
             + (IF op.do = "local_offer" THEN 1 ELSE 0)
        /\ Count(h.ops, TakeOps) = Count(k.ops, TakeOps)
             + (IF op.do = "remote_answer" THEN 1 ELSE 0)
    BY <1>1, PerformedDoes
  <1>6. k # NoHandle
    BY <1>5, HandleIsNotNone
  <1>7. o \in Nat /\ o2 \in Nat /\ t \in Nat /\ t2 \in Nat
    BY <1>1, <1>5, OpsInType
  <1>8. /\ o = o2 + (IF op.do = "local_offer" THEN 1 ELSE 0)
        /\ t = t2 + (IF op.do = "remote_answer" THEN 1 ELSE 0)
    BY <1>1, <1>5, <1>6 DEF OpsIn
  <1>9. o # 0 => h.remote = NoBody
    BY <1>1 DEF OffererReady
  <1>10. OffererAdvances(h, k, O, O2, A, A) <=>
           \/ h = NoHandle /\ k = NoHandle
           \/ h = NoHandle /\ k # NoHandle /\ o2 # 0 /\ k.remote = NoBody
           \/ /\ h # NoHandle /\ k # NoHandle /\ o2 + O2 = o + O
              /\ k.remote # NoBody /\ k.signaling = "stable"
           \/ /\ h # NoHandle /\ k # NoHandle /\ o2 + O2 = o + O
              /\ t2 + A = t + A /\ k.remote = h.remote
              /\ k.remote # NoBody => k.signaling = h.signaling
    BY DEF OffererAdvances
  <1> HIDE DEF op, o, o2, t, t2
  <1>11. o2 + O2 = o + O
    BY <1>4, <1>7, <1>8
  <1>12. CASE op.do = "remote_answer"
    <2>1. k.remote # NoBody /\ k.signaling = "stable"
      BY <1>3, <1>5, <1>12, NoBodyIsNone
    <2> QED  BY <1>1, <1>6, <1>10, <1>11, <2>1
  <1>13. CASE op.do # "remote_answer"
    <2>1. t2 + A = t + A
      BY <1>7, <1>8, <1>13
    <2>2. k.remote = h.remote
      BY <1>3, <1>5, <1>13
    <2>3. CASE op.do = "local_offer"
      <3>1. o # 0
        BY <1>7, <1>8, <2>3
      <3> QED  BY <1>1, <1>6, <1>9, <1>10, <1>11, <2>1, <2>2, <3>1
    <2>4. CASE op.do # "local_offer"
      <3>1. k.signaling = h.signaling
        BY <1>3, <1>5, <1>13, <2>4
      <3> QED  BY <1>1, <1>6, <1>10, <1>11, <2>1, <2>2, <3>1
    <2> QED  BY <2>3, <2>4
  <1> QED  BY <1>12, <1>13

\* Nothing is performed that changes the connection.
LEMMA OffererRests ==
    ASSUME NEW h \in Handle(Bodies), NEW k \in Handle(Bodies),
           k.signaling = h.signaling, k.remote = h.remote,
           Count(k.ops, OfferOps) = Count(h.ops, OfferOps),
           Count(k.ops, TakeOps) = Count(h.ops, TakeOps),
           NEW O \in Nat, NEW A \in Nat
    PROVE  OffererAdvances(h, k, O, O, A, A)
  <1>1. h # NoHandle /\ k # NoHandle
    BY HandleIsNotNone
  <1>2. OpsIn(k, OfferOps) = OpsIn(h, OfferOps) /\ OpsIn(k, TakeOps) = OpsIn(h, TakeOps)
    BY <1>1 DEF OpsIn
  <1> QED  BY <1>1, <1>2 DEF OffererAdvances


LEMMA OfferBody == <<1, 0>> \in Bodies /\ <<1, 1>> \in Bodies
  BY MeshAssumption

\* What is known of a page that offers, of its letters m and of those to it, n.
OffererAt(s, p, h, m, n) ==
    /\ WeInitiate(s, p) /\ h \in FitHandle(TRUE) \cup {NoHandle}
    /\ AtFirst(s, h) /\ Heard(m) /\ Expects(h, m, n, TRUE)
    /\ OffererReady(h, m["offer"][Bodies], n["answer"][Bodies])

LEMMA OffererHandlesOn ==
    ASSUME NEW s \in Sessions, NEW p \in Sessions, NEW h,
           NEW k, NEW m \in Mails, NEW m2 \in Mails, NEW n \in Mails, NEW n2 \in Mails,
           OffererAt(s, p, h, m, n),
           Safely(h, k, m, m2, n, n2, s, p)
    PROVE  OffererAdvances(h, k, m["offer"][Bodies], m2["offer"][Bodies],
                                 n["answer"][Bodies], n2["answer"][Bodies])
  <1> /\ WeInitiate(s, p) /\ h \in FitHandle(TRUE) \cup {NoHandle}
      /\ AtFirst(s, h) /\ Heard(m) /\ Expects(h, m, n, TRUE)
      /\ OffererReady(h, m["offer"][Bodies], n["answer"][Bodies])
    BY DEF OffererAt
  <1> PICK lost : ~lost /\ Handled(h, k, m, m2, n, n2, s, p, lost)
    BY DEF Safely
  <1> DEFINE O  == m["offer"][Bodies]
             O2 == m2["offer"][Bodies]
             A  == n["answer"][Bodies]
             A2 == n2["answer"][Bodies]
  <1>1. "offer" \in SignalKinds /\ "answer" \in SignalKinds
    BY MeshAssumption
  <1>2. O \in Nat /\ O2 \in Nat /\ A \in Nat /\ A2 \in Nat
    BY <1>1, MailNumbers
  <1>3. h \in Handle(Bodies) \cup {NoHandle}
    BY DEF FitHandle
  <1>4. (m2 = m => O2 = O) /\ (n2 = n => A2 = A)
    OBVIOUS
  <1>5. \A kind, body : Sent(m, m2, kind, body) /\ kind # "offer" => O2 = O
    BY <1>1, MailNumbers
  <1>6. O = 0 /\ Sent(m, m2, "offer", <<1, 0>>) => O2 = O + 1
    BY <1>1, SentOnce, OfferBody
  <1>7. ASSUME NEW e \in FitEvent(s) \cup ResyncRead, Taken(n, n2, p, e)
        PROVE  Counted(e, p, "answer", A, A2)
    BY <1>1, <1>7, TakenNumbers DEF Counted
  <1>8. OffererReady(h, O, A)
    OBVIOUS
  <1> HIDE DEF O, O2, A, A2
  <1> SUFFICES OffererAdvances(h, k, O, O2, A, A2)
    BY DEF O, O2, A, A2
  <1>9. CASE Reading(h, k, m, m2, n, n2, s, p)
    <2>1. PICK e \in FitEvent(s) \cup ResyncRead :
             Reads(h, k, p, TRUE, e) /\ Taken(n, n2, p, e)
      BY <1>9, InitiateType DEF Reading
    <2>2. O2 = O
      BY <1>4, <1>9 DEF Reading
    <2>3. Counted(e, p, "answer", A, A2)
      BY <1>7, <2>1
    <2>4. OffererAdvances(h, k, O, O, A, A2)
      BY <1>2, <1>3, <1>8, <2>1, <2>3, OffererReadsOn
    <2> QED  BY <2>2, <2>4
  <1>10. CASE Performing(h, k, m, m2, n, n2, visit[s])
    <2>1. /\ h \in FitHandle(TRUE) /\ h.ops # << >> /\ k = Performed(h) /\ A2 = A
          /\ h # NoHandle /\ h \in Handle(Bodies)
      BY <1>3, <1>4, <1>10 DEF Performing
    <2>2. visit[s] = 1
      BY <2>1 DEF AtFirst
    <2>3. \/ Head(h.ops).do = "local_offer" /\ Sent(m, m2, "offer", <<1, 0>>)
          \/ Head(h.ops).do # "local_offer" /\ O2 = O
      BY <1>4, <1>5, <1>10, <2>2 DEF Performing
    <2>4. Head(h.ops).do = "local_offer" => O = 0
      <3>1. Head(h.ops) \in Op(Bodies) /\ h.ops \in Seq(Op(Bodies))
        BY <2>1, HeadTailProperties DEF Handle
      <3>2. Head(h.ops).do = "local_offer" => Head(h.ops) \in OfferOps
        BY <3>1, OpKinds
      <3>3. Count(h.ops, OfferOps) =
              Count(Tail(h.ops), OfferOps) + (IF Head(h.ops) \in OfferOps THEN 1 ELSE 0)
        BY <2>1, <3>1, CountTail
      <3>4. Count(Tail(h.ops), OfferOps) \in Nat
        BY <2>1, <3>1, HeadTailProperties, TokensType
      <3>5. Head(h.ops).do = "local_offer" => OpsIn(h, OfferOps) # 0
        BY <2>1, <3>2, <3>3, <3>4 DEF OpsIn
      <3> QED  BY <1>8, <2>1, <3>5 DEF OffererReady
    <2>5. IF Head(h.ops).do = "local_offer" THEN O2 = O + 1 ELSE O2 = O
      BY <1>6, <2>3, <2>4
    <2> QED  BY <1>2, <1>8, <2>1, <2>5, OffererPerformsOn
  <1>11. CASE Failing(h, k, m, m2, n, n2, lost)
    <2>1. h \in Handle(Bodies) /\ h # NoHandle /\ h.ops # << >> /\ Rejects(h)
      BY <1>3, <1>11 DEF Failing
    <2>2. ~Rejects(h)
      BY <2>1, NothingRejected
    <2> QED  BY <2>1, <2>2
  <1>12. CASE Gathering(h, k, m, m2, n, n2, visit[s])
    <2>1. h \in Handle(Bodies) /\ GatheredOne(h, k) /\ A2 = A
      BY <1>3, <1>4, <1>12 DEF Gathering, GatheredOne
    <2>2. O2 = O
      BY <1>5, <1>12 DEF Gathering
    <2>3. /\ k \in Handle(Bodies)
          /\ k.signaling = h.signaling /\ k.remote = h.remote /\ k.ops = h.ops
      BY <2>1, GatheredSame
    <2> QED  BY <1>2, <2>1, <2>2, <2>3, OffererRests
  <1>13. CASE Draining(h, k, m, m2, n, n2, WeInitiate(s, p), lost)
    BY <1>13 DEF Draining
  <1> QED  BY <1>9, <1>10, <1>11, <1>12, <1>13 DEF Handled

\* What is to be known of the other's handle for that.
AnswererReady(g, O, A) ==
    /\ O # 0 => Fresh(g)
    /\ OpsIn(g, AnswerOps) # 0 => A = 0
AnswererAdvances(g, f, O, O2, A, A2) ==
    LET a  == OpsIn(g, AnswerOps)
        a2 == OpsIn(f, AnswerOps)
    IN  \/ /\ g # NoHandle /\ g.remote_set => f # NoHandle /\ f.remote_set
           /\ O2 = O /\ a2 + A2 = a + A
        \/ f # NoHandle /\ f.remote_set /\ O = O2 + 1 /\ a2 + A2 = a + A + 1

LEMMA LinkingOfAnswerer ==
    ASSUME NEW h, NEW f, NEW g, NEW O, NEW O2, NEW A, NEW A2, NEW silent,
           TurnTypes(h, f, g, O, O2, A, A2, silent), Linking(h, g, O, A),
           AnswererAdvances(g, f, O, O2, A, A2)
    PROVE  Linking(h, f, O2, A2)
  <1> DEFINE o  == OpsIn(h, OfferOps)
             t  == OpsIn(h, TakeOps)
             a  == OpsIn(g, AnswerOps)
             a2 == OpsIn(f, AnswerOps)
  <1>1. /\ o \in Nat /\ t \in Nat /\ a \in Nat /\ a2 \in Nat
        /\ O \in Nat /\ O2 \in Nat /\ A \in Nat /\ A2 \in Nat
    BY OpsInType DEF TurnTypes
  <1>2. h # NoHandle =>
          /\ h.remote = NoBody => o + O + (a + A + t) # 0
          /\ o + O = 0 => g # NoHandle /\ g.remote_set
          /\ h.remote # NoBody => h.signaling = "stable"
    BY DEF Linking
  <1>3. \/ /\ g # NoHandle /\ g.remote_set => f # NoHandle /\ f.remote_set
           /\ O2 = O /\ a2 + A2 = a + A
        \/ f # NoHandle /\ f.remote_set /\ O = O2 + 1 /\ a2 + A2 = a + A + 1
    BY DEF AnswererAdvances
  <1>4. h # NoHandle =>
           /\ h.remote = NoBody => o + O2 + (a2 + A2 + t) # 0
           /\ o + O2 = 0 => f # NoHandle /\ f.remote_set
           /\ h.remote # NoBody => h.signaling = "stable"
    <2> HIDE DEF o, t, a, a2
    <2>1. h # NoHandle /\ h.remote = NoBody => o + O2 + (a2 + A2 + t) # 0
      BY <1>1, <1>2, <1>3
    <2>2. h # NoHandle /\ o + O2 = 0 => f # NoHandle /\ f.remote_set
      BY <1>1, <1>2, <1>3
    <2> QED  BY <1>2, <2>1, <2>2
  <1> QED  BY <1>4 DEF Linking

\* Nothing but a candidate is called on the connection.
LEMMA AnswererRests ==
    ASSUME NEW g \in Handle(Bodies) \cup {NoHandle}, NEW f \in Handle(Bodies),
           f.remote_set = Met(g).remote_set, OpsIn(f, AnswerOps) = OpsIn(g, AnswerOps),
           NEW O, NEW A
    PROVE  AnswererAdvances(g, f, O, O, A, A)
  <1>1. f # NoHandle
    BY HandleIsNotNone
  <1>2. g # NoHandle /\ g.remote_set => f.remote_set
    BY DEF Met
  <1> QED  BY <1>1, <1>2 DEF AnswererAdvances

LEMMA AnswererReadsOn ==
    ASSUME NEW s \in Sessions, NEW p \in Sessions, ~WeInitiate(s, p),
           NEW g \in Handle(Bodies) \cup {NoHandle},
           NEW e \in FitEvent(s) \cup ResyncRead,
           NEW k, Reads(g, k, p, WeInitiate(s, p), e),
           NEW O \in Nat, NEW O2 \in Nat, NEW A \in Nat,
           AnswererReady(g, O, A), Counted(e, p, "offer", O, O2)
    PROVE  AnswererAdvances(g, k, O, O2, A, A)
  <1> DEFINE f    == Met(g)
             mine == WeInitiate(s, p)
  <1>0. mine \in BOOLEAN /\ ~mine /\ Reads(g, k, p, mine, e)
    BY InitiateType
  <1> HIDE DEF mine
  <1>1. /\ f \in Handle(Bodies)
        /\ Fresh(g) => Fresh(f)
        /\ OpsIn(f, AnswerOps) = OpsIn(g, AnswerOps)
    BY MetIsAlike
  <1>2. f # NoHandle
    BY <1>1, HandleIsNotNone
  <1>3. OpsIn(g, AnswerOps) \in Nat
    BY OpsInType
  <1>4. O = O2 + (IF e.type = "offer" /\ e.from = p THEN 1 ELSE 0)
    BY DEF Counted
  <1>5. ~(e.type = "answer" /\ e.from = p)
    BY DEF FitEvent, ResyncRead
  <1>6. k = g /\ O2 = O => AnswererAdvances(g, k, O, O2, A, A)
    BY DEF AnswererAdvances
  <1>7. MaybeOffer(f, mine) = f
    BY <1>0 DEF MaybeOffer
  <1>8. ASSUME k \in Handle(Bodies), SameState(f, k), O2 = O,
               Count(k.ops, AnswerOps) = Count(f.ops, AnswerOps)
        PROVE  AnswererAdvances(g, k, O, O2, A, A)
    <2>1. k # NoHandle
      BY <1>8, HandleIsNotNone
    <2>2. OpsIn(k, AnswerOps) = OpsIn(g, AnswerOps)
      BY <1>1, <1>2, <1>8, <2>1 DEF OpsIn
    <2>3. k.remote_set = Met(g).remote_set
      BY <1>8 DEF SameState
    <2> QED  BY <1>8, <2>2, <2>3, AnswererRests
  <1>9. CASE /\ \/ e.type = "resync" /\ p \in e.peers
                \/ e.type = "peer_joined" /\ e.peer = p
             /\ k = MaybeOffer(Met(g), mine)
    <2>1. k = f /\ O2 = O
      BY <1>4, <1>7, <1>9
    <2>2. k \in Handle(Bodies) /\ SameState(f, k)
      BY <1>1, <2>1 DEF SameState
    <2> HIDE DEF f
    <2> QED  BY <1>8, <2>1, <2>2
  <1>10. CASE e.type = "offer" /\ e.from = p /\ k = ApplyOffer(Met(g), mine, e.body)
    <2> DEFINE marked == [f EXCEPT !.remote_set = TRUE]
               o == [do |-> "remote_offer", body |-> e.body, then |-> "end"]
    <2>1. O = O2 + 1
      BY <1>4, <1>10
    <2>2. Fresh(g)
      BY <2>1 DEF AnswererReady
    <2>3. TakesOffer(f, mine)
      BY <1>0, <1>1, <1>2, <2>2 DEF TakesOffer, Fresh
    <2>4. e.body \in Bodies
      BY <1>10, BodyOf, MeshAssumption
    <2>5. o \in Op(Bodies) /\ o.do = "remote_offer"
      BY <2>4 DEF Op
    <2>6. k = Call(marked, "remote_offer", e.body)
      BY <1>10, <2>3 DEF ApplyOffer
    <2> HIDE DEF f
    <2>7. marked \in Handle(Bodies) /\ marked.ops = f.ops /\ marked.remote_set
      BY <1>1 DEF Handle
    <2> HIDE DEF marked
    <2>8. k \in Handle(Bodies) /\ SameState(marked, k) /\ k.ops = Append(marked.ops, o)
      <3> DEFINE c == Call(marked, "remote_offer", e.body)
      <3>1. marked \in Handle(Bodies) /\ o \in Op(Bodies)
        BY <2>5, <2>7
      <3>2. c \in Handle(Bodies) /\ SameState(marked, c) /\ c.ops = Append(marked.ops, o)
        BY <3>1, CallDoes
      <3> QED  BY <2>6, <3>2
    <2> HIDE DEF o
    <2>9. f.ops \in Seq(Op(Bodies))
      BY <1>1 DEF Handle
    <2>10. Count(Append(f.ops, o), AnswerOps) = Count(f.ops, AnswerOps)
             + (IF \/ o.do \in {"remote_offer", "create_answer", "local_answer"}
                   \/ o.then = "answer" THEN 1 ELSE 0)
      BY <2>5, <2>9, CallTokens
    <2>11. k # NoHandle
      BY <2>8, HandleIsNotNone
    <2>12. /\ OpsIn(k, AnswerOps) = Count(Append(f.ops, o), AnswerOps)
           /\ OpsIn(g, AnswerOps) = Count(f.ops, AnswerOps)
      BY <1>1, <1>2, <2>7, <2>8, <2>11 DEF OpsIn
    <2>13. OpsIn(k, AnswerOps) + A = OpsIn(g, AnswerOps) + A + 1
      BY <1>3, <2>5, <2>10, <2>12
    <2>14. k.remote_set
      BY <2>7, <2>8 DEF SameState
    <2> QED  BY <2>1, <2>11, <2>13, <2>14 DEF AnswererAdvances
  <1>11. CASE e.type = "ice" /\ e.from = p /\ k = OnIce(Met(g), mine, e.body)
    <2> DEFINE b == e.body
    <2>1. b \in Bodies
      BY <1>11, BodyOf, MeshAssumption
    <2>2. f = MaybeOffer(f, mine) /\ k = OnIce(f, mine, b)
      BY <1>7, <1>11
    <2>3. O2 = O
      BY <1>4, <1>11
    <2> HIDE DEF b, f
    <2>4. /\ k \in Handle(Bodies)
          /\ SameState(f, k)
          /\ Count(k.ops, AnswerOps) = Count(f.ops, AnswerOps)
      BY <1>0, <1>1, <2>1, <2>2, OnIceDoes
    <2> QED  BY <1>8, <2>3, <2>4
  <1>12. CASE ~(e.type \in SignalKinds /\ e.from = p) /\ k = g
    <2>1. O2 = O
      BY <1>4, <1>12, MeshAssumption
    <2> QED  BY <1>6, <1>12, <2>1
  <1> QED  BY <1>0, <1>5, <1>9, <1>10, <1>11, <1>12 DEF Reads

LEMMA AnswererPerformsOn ==
    ASSUME NEW g \in FitHandle(FALSE), g.ops # << >>, NEW k, k = Performed(g),
           NEW O, NEW A \in Nat, NEW A2 \in Nat,
           IF Head(g.ops).do = "local_answer" THEN A2 = A + 1 ELSE A2 = A
    PROVE  AnswererAdvances(g, k, O, O, A, A2)
  <1> DEFINE op == Head(g.ops)
             a  == OpsIn(g, AnswerOps)
             a2 == OpsIn(k, AnswerOps)
  <1>1. g \in Handle(Bodies) /\ g # NoHandle
    BY HandleIsNotNone DEF FitHandle
  <1>2. /\ op.do = "local_answer" => A2 = A + 1
        /\ op.do # "local_answer" => A2 = A
    OBVIOUS
  <1>3. /\ k \in Handle(Bodies)
        /\ k.remote_set = g.remote_set
        /\ Count(g.ops, AnswerOps) = Count(k.ops, AnswerOps)
             + (IF op.do = "local_answer" THEN 1 ELSE 0)
    BY <1>1, PerformedDoes
  <1>4. k # NoHandle
    BY <1>3, HandleIsNotNone
  <1>5. a \in Nat /\ a2 \in Nat
    BY <1>1, <1>3, OpsInType
  <1>6. a = a2 + (IF op.do = "local_answer" THEN 1 ELSE 0)
    BY <1>1, <1>3, <1>4 DEF OpsIn
  <1>7. a2 + A2 = a + A => AnswererAdvances(g, k, O, O, A, A2)
    BY <1>1, <1>3, <1>4 DEF AnswererAdvances
  <1> HIDE DEF op, a, a2
  <1>8. a2 + A2 = a + A
    BY <1>2, <1>5, <1>6
  <1> QED  BY <1>7, <1>8

\* The same of one that answers.
AnswererAt(s, p, g, m, n) ==
    /\ ~WeInitiate(s, p) /\ g \in FitHandle(FALSE) \cup {NoHandle}
    /\ AtFirst(s, g) /\ Heard(m) /\ Expects(g, m, n, FALSE) /\ Said(g, FALSE)
    /\ AnswererReady(g, n["offer"][Bodies], m["answer"][Bodies])

LEMMA AnswererHandlesOn ==
    ASSUME NEW s \in Sessions, NEW p \in Sessions, NEW g,
           NEW k, NEW m \in Mails, NEW m2 \in Mails, NEW n \in Mails, NEW n2 \in Mails,
           AnswererAt(s, p, g, m, n),
           Safely(g, k, m, m2, n, n2, s, p)
    PROVE  AnswererAdvances(g, k, n["offer"][Bodies], n2["offer"][Bodies],
                                  m["answer"][Bodies], m2["answer"][Bodies])
  <1> /\ ~WeInitiate(s, p) /\ g \in FitHandle(FALSE) \cup {NoHandle}
      /\ AtFirst(s, g) /\ Heard(m) /\ Expects(g, m, n, FALSE) /\ Said(g, FALSE)
      /\ AnswererReady(g, n["offer"][Bodies], m["answer"][Bodies])
    BY DEF AnswererAt
  <1> PICK lost : ~lost /\ Handled(g, k, m, m2, n, n2, s, p, lost)
    BY DEF Safely
  <1> DEFINE O  == n["offer"][Bodies]
             O2 == n2["offer"][Bodies]
             A  == m["answer"][Bodies]
             A2 == m2["answer"][Bodies]
  <1>1. "offer" \in SignalKinds /\ "answer" \in SignalKinds
    BY MeshAssumption
  <1>2. O \in Nat /\ O2 \in Nat /\ A \in Nat /\ A2 \in Nat
    BY <1>1, MailNumbers
  <1>3. g \in Handle(Bodies) \cup {NoHandle}
    BY DEF FitHandle
  <1>4. (n2 = n => O2 = O) /\ (m2 = m => A2 = A)
    OBVIOUS
  <1>5. \A kind, body : Sent(m, m2, kind, body) /\ kind # "answer" => A2 = A
    BY <1>1, MailNumbers
  <1>6. A = 0 /\ Sent(m, m2, "answer", <<1, 1>>) => A2 = A + 1
    BY <1>1, SentOnce, OfferBody
  <1>7. ASSUME NEW e \in FitEvent(s) \cup ResyncRead, Taken(n, n2, p, e)
        PROVE  Counted(e, p, "offer", O, O2)
    BY <1>1, <1>7, TakenNumbers DEF Counted
  <1>8. AnswererReady(g, O, A)
    OBVIOUS
  <1> HIDE DEF O, O2, A, A2
  <1> SUFFICES AnswererAdvances(g, k, O, O2, A, A2)
    BY DEF O, O2, A, A2
  <1>9. CASE Reading(g, k, m, m2, n, n2, s, p)
    <2>1. PICK e \in FitEvent(s) \cup ResyncRead :
             Reads(g, k, p, WeInitiate(s, p), e) /\ Taken(n, n2, p, e)
      BY <1>9 DEF Reading
    <2>2. A2 = A
      BY <1>4, <1>9 DEF Reading
    <2>3. Counted(e, p, "offer", O, O2)
      BY <1>7, <2>1
    <2>4. AnswererAdvances(g, k, O, O2, A, A)
      BY <1>2, <1>3, <1>8, <2>1, <2>3, AnswererReadsOn
    <2> QED  BY <2>2, <2>4
  <1>10. CASE Performing(g, k, m, m2, n, n2, visit[s])
    <2> DEFINE op == Head(g.ops)
    <2>1. /\ g \in FitHandle(FALSE) /\ g.ops # << >> /\ k = Performed(g) /\ O2 = O
          /\ g # NoHandle /\ g \in Handle(Bodies)
      BY <1>3, <1>4, <1>10 DEF Performing
    <2>2. visit[s] = 1
      BY <2>1 DEF AtFirst
    <2>3. op.do = "local_answer" => g.remote = <<1, 0>>
      <3>1. Tidy(g)
        BY DEF Expects
      <3>2. op.do = "local_answer" => g.remote # NoBody
        BY <2>1, <3>1, TidyHead
      <3>3. g.remote \in {NoBody, <<1, 0>>}
        BY <2>1 DEF Said, SaidHandle, Word
      <3> QED  BY <3>2, <3>3
    <2>4. \/ op.do = "local_answer" /\ Sent(m, m2, "answer", <<1, g.remote[1]>>)
          \/ op.do # "local_answer" /\ A2 = A
      BY <1>4, <1>5, <1>10, <2>2 DEF Performing
    <2>5. op.do = "local_answer" => A = 0
      <3>1. op \in Op(Bodies) /\ g.ops \in Seq(Op(Bodies))
        BY <2>1, HeadTailProperties DEF Handle
      <3>2. op.do = "local_answer" => op \in AnswerOps
        BY <3>1, OpKinds
      <3>3. Count(g.ops, AnswerOps) =
              Count(Tail(g.ops), AnswerOps) + (IF op \in AnswerOps THEN 1 ELSE 0)
        BY <2>1, <3>1, CountTail
      <3>4. Count(Tail(g.ops), AnswerOps) \in Nat
        BY <2>1, <3>1, HeadTailProperties, TokensType
      <3>5. op.do = "local_answer" => OpsIn(g, AnswerOps) # 0
        BY <2>1, <3>2, <3>3, <3>4 DEF OpsIn
      <3> QED  BY <1>8, <2>1, <3>5 DEF AnswererReady
    <2>6. op.do = "local_answer" => Sent(m, m2, "answer", <<1, 1>>)
      <3>1. op.do = "local_answer" => g.remote[1] = 1
        BY <2>3
      <3> QED  BY <2>4, <3>1
    <2>7. IF op.do = "local_answer" THEN A2 = A + 1 ELSE A2 = A
      BY <1>6, <2>4, <2>5, <2>6
    <2> QED  BY <1>2, <2>1, <2>7, AnswererPerformsOn
  <1>11. CASE Failing(g, k, m, m2, n, n2, lost)
    <2>1. g \in Handle(Bodies) /\ g # NoHandle /\ g.ops # << >> /\ Rejects(g)
      BY <1>3, <1>11 DEF Failing
    <2>2. ~Rejects(g)
      BY <2>1, NothingRejected
    <2> QED  BY <2>1, <2>2
  <1>12. CASE Gathering(g, k, m, m2, n, n2, visit[s])
    <2>1. g \in Handle(Bodies) /\ g # NoHandle /\ GatheredOne(g, k) /\ O2 = O
      BY <1>3, <1>4, <1>12 DEF Gathering, GatheredOne
    <2>2. A2 = A
      BY <1>5, <1>12 DEF Gathering
    <2>3. k \in Handle(Bodies) /\ k.remote_set = g.remote_set /\ k.ops = g.ops
      BY <2>1, GatheredSame
    <2>4. OpsIn(k, AnswerOps) = OpsIn(g, AnswerOps) /\ Met(g) = g
      BY <2>1, <2>3, HandleIsNotNone DEF OpsIn, Met
    <2> QED  BY <1>3, <2>1, <2>2, <2>3, <2>4, AnswererRests
  <1>13. CASE Draining(g, k, m, m2, n, n2, WeInitiate(s, p), lost)
    <2>1. /\ g \in Handle(Bodies) /\ g # NoHandle /\ k = Drain(g, "end")
          /\ O2 = O /\ A2 = A
      BY <1>3, <1>4, <1>13 DEF Draining
    <2>2. k \in Handle(Bodies) /\ SameState(g, k)
      BY <2>1, DrainDoes
    <2>3. Count(k.ops, AnswerOps) = Count(g.ops, AnswerOps) + 0
      BY <2>1, DrainTokens
    <2>4. Count(g.ops, AnswerOps) \in Nat
      BY <2>1, TokensType DEF Handle
    <2>5. Count(k.ops, AnswerOps) = Count(g.ops, AnswerOps)
      BY <2>3, <2>4
    <2>6. OpsIn(k, AnswerOps) = OpsIn(g, AnswerOps) /\ Met(g) = g
      BY <2>1, <2>2, <2>5, HandleIsNotNone DEF OpsIn, Met
    <2> QED  BY <1>3, <2>1, <2>2, <2>6, AnswererRests DEF SameState
  <1> QED  BY <1>9, <1>10, <1>11, <1>12, <1>13 DEF Handled

LEMMA ReadyOfOfferer ==
    ASSUME NEW h, NEW g, NEW O, NEW O2, NEW A, NEW A2, NEW silent,
           TurnTypes(h, h, g, O, O2, A, A2, silent),
           Turn(h, g, O, A, silent), Orderly(h, g, O, A)
    PROVE  OffererReady(h, O, A)
  <1> DEFINE o == OpsIn(h, OfferOps)
             t == OpsIn(h, TakeOps)
             a == OpsIn(g, AnswerOps)
  <1>1. o \in Nat /\ t \in Nat /\ a \in Nat /\ O \in Nat /\ A \in Nat
    BY OpsInType DEF TurnTypes
  <1>2. /\ o + O + (a + A + t) <= 1
        /\ h # NoHandle => /\ h.negotiated
                           /\ O + (a + A + t) # 0 => h.signaling = "have-local-offer"
    BY DEF Turn
  <1>3. h # NoHandle /\ h.remote # NoBody => o + O + (a + A + t) = 0
    BY DEF Orderly
  <1>4. h # NoHandle =>
          /\ h.negotiated
          /\ A # 0 => h.signaling = "have-local-offer"
          /\ o # 0 => O = 0 /\ h.remote = NoBody
    <2> HIDE DEF o, t, a
    <2>1. A # 0 => O + (a + A + t) # 0
      BY <1>1
    <2>2. o # 0 => O = 0 /\ o + O + (a + A + t) # 0
      BY <1>1, <1>2
    <2> QED  BY <1>2, <1>3, <2>1, <2>2
  <1> QED  BY <1>4 DEF OffererReady

LEMMA ReadyOfAnswerer ==
    ASSUME NEW h, NEW g, NEW O, NEW O2, NEW A, NEW A2, NEW silent,
           TurnTypes(h, g, g, O, O2, A, A2, silent), Turn(h, g, O, A, silent)
    PROVE  AnswererReady(g, O, A)
  <1> DEFINE o == OpsIn(h, OfferOps)
             t == OpsIn(h, TakeOps)
             a == OpsIn(g, AnswerOps)
  <1>1. o \in Nat /\ t \in Nat /\ a \in Nat /\ O \in Nat /\ A \in Nat
    BY OpsInType DEF TurnTypes
  <1>2. o + O + (a + A + t) <= 1 /\ (o + O # 0 => Fresh(g))
    BY DEF Turn
  <1>3. (O # 0 => Fresh(g)) /\ (a # 0 => A = 0)
    <2> HIDE DEF o, t, a
    <2> QED  BY <1>1, <1>2
  <1> QED  BY <1>3 DEF AnswererReady

LEMMA UnreadHeard ==
    ASSUME MeshInv, IsFiniteSet(posts), NEW s \in Sessions, NEW p \in Sessions
    PROVE  Heard(Unread(s, p))
  <1> SUFFICES ASSUME NEW k \in SignalKinds, NEW b \in Bodies,
                      Unread(s, p)[k][Bodies] = 0
               PROVE  Unread(s, p)[k][{b}] = 0
    BY DEF Heard
  <1> DEFINE sent(B) == posts \cap [from : {p}, to : {s}, type : {k}, body : B]
             told(B)   == SignalsOf(p, k, B)
  <1>1. queue[s] \in Seq(FitEvent(s)) /\ early[s] \in Seq(FitEvent(s) \cup ResyncRead)
    BY StreamTypes
  <1>2. \A B \in SUBSET Bodies :
          Unread(s, p)[k][B] = Cardinality(sent(B)) + Count(queue[s], told(B))
                                 + Count(early[s], told(B))
    BY DEF Unread, Mail
  <1>3. \A B \in SUBSET Bodies : /\ Cardinality(sent(B)) \in Nat
                                 /\ Cardinality(sent(B)) = 0 <=> sent(B) = {}
    BY PostsType
  <1>4. \A B \in SUBSET Bodies :
          Count(queue[s], told(B)) \in Nat /\ Count(early[s], told(B)) \in Nat
    BY <1>1, CountType
  <1>5. sent({b}) \subseteq sent(Bodies) /\ told({b}) \subseteq told(Bodies)
    BY DEF SignalsOf
  <1>6. {b} \in SUBSET Bodies /\ Bodies \in SUBSET Bodies
    OBVIOUS
  <1>7. /\ Count(queue[s], told({b})) <= Count(queue[s], told(Bodies))
        /\ Count(early[s], told({b})) <= Count(early[s], told(Bodies))
    BY <1>1, <1>5, CountMore
  <1> HIDE DEF sent, told
  <1>8. /\ Cardinality(sent(Bodies)) = 0
        /\ Count(queue[s], told(Bodies)) = 0
        /\ Count(early[s], told(Bodies)) = 0
    BY <1>2, <1>3, <1>4, <1>6
  <1>9. Cardinality(sent({b})) = 0
    BY <1>3, <1>5, <1>6, <1>8
  <1> QED  BY <1>2, <1>4, <1>6, <1>7, <1>8, <1>9

LinksInv == CandidatesInv /\ AllLinked

LEMMA AllLinkedStep == LinksInv /\ [MeshNext]_meshVars => AllLinked'
  <1> SUFFICES ASSUME LinksInv, [MeshNext]_meshVars,
                      NEW a \in Sessions, NEW b \in Sessions,
                      WeInitiate(a, b), Undisturbed(a, b)'
               PROVE  LinkOK(a, b)'
    BY DEF AllLinked
  <1>1. MeshInv /\ IsFiniteSet(posts) /\ MeshInv'
    BY MeshInvStep DEF LinksInv, CandidatesInv, TurnInv
  <1>2. a # b /\ ~WeInitiate(b, a) /\ WeInitiate(b, a) \in BOOLEAN
    BY InitiateType
  <1>3. PairSteps(a, b)
    BY <1>1, <1>2, PairStep
  <1>4. /\ Undisturbed(a, b)
        /\ ~Leaves(a, b) /\ ~Leaves(b, a)
        /\ ~Lost(a, b) /\ ~Lost(b, a)
        /\ visit[a] <= 1 /\ visit[a] \in Nat
        /\ visit[b] <= 1 /\ visit[b] \in Nat
    BY <1>1, <1>3, StaysUndisturbed
  <1>5. FineOK(a, b) /\ TurnOK(a, b) /\ LinkOK(a, b)
    BY <1>4 DEF LinksInv, AllLinked, CandidatesInv, AllFine, TurnInv, TurnsOK
  <1> DEFINE h  == peers[a][b]
             k  == peers'[a][b]
             g  == peers[b][a]
             f  == peers'[b][a]
             m  == Unread(b, a)
             m2 == UnreadNext(b, a)
             n  == Unread(a, b)
             n2 == UnreadNext(a, b)
             O  == m["offer"][Bodies]
             O2 == m2["offer"][Bodies]
             A  == n["answer"][Bodies]
             A2 == n2["answer"][Bodies]
             silent == Silent(a, b)
  <1>6. LinkOK(a, b)' <=>
          /\ Linking(k, f, O2, A2)
          /\ Attended(k) /\ Attended(f)
          /\ Said(k, TRUE) /\ SaidOnly(n2, TRUE)
          /\ Said(f, FALSE) /\ SaidOnly(m2, FALSE)
    BY DEF LinkOK, Unread, UnreadNext
  <1>7. /\ h \in FitHandle(WeInitiate(a, b)) \cup {NoHandle}
        /\ g \in FitHandle(WeInitiate(b, a)) \cup {NoHandle}
    BY <1>1, <1>2 DEF MeshInv, PagesFit, FitMesh, FitPeer
  <1>8. h \in FitHandle(TRUE) \cup {NoHandle} /\ g \in FitHandle(FALSE) \cup {NoHandle}
    BY <1>2, <1>7 DEF FitHandle, FitOp
  <1>9. /\ h \in Handle(Bodies) \cup {NoHandle}
        /\ g \in Handle(Bodies) \cup {NoHandle}
    BY <1>1, PeersType
  <1>10. m \in Mails /\ m2 \in Mails /\ n \in Mails /\ n2 \in Mails
    <2>1. Unread(b, a) \in Mails /\ Unread(a, b) \in Mails
      BY <1>1, UnreadType
    <2>2. \A x \in Sessions : /\ queue'[x] \in Seq(FitEvent(x))
                              /\ early'[x] \in Seq(FitEvent(x) \cup ResyncRead)
      BY <1>1 DEF MeshInv, StreamsFit, PagesFit
    <2>3. IsFiniteSet(posts')
      BY <1>1, PostsFinite
    <2>4. UnreadNext(b, a) \in Mails /\ UnreadNext(a, b) \in Mails
      BY <1>1, <2>2, <2>3, MailType DEF UnreadNext, Mails
    <2> QED  BY <2>1, <2>4
  <1>11. O \in Nat /\ O2 \in Nat /\ A \in Nat /\ A2 \in Nat
    BY <1>10, MeshAssumption, MailNumbers
  <1>12. /\ Heard(m) /\ Heard(n)
         /\ visit[a] = 0 => h = NoHandle
         /\ visit[b] = 0 => g = NoHandle
         /\ Orderly(h, g, O, A)
         /\ Turn(h, g, O, A, silent)
         /\ Linking(h, g, O, A)
         /\ Attended(h) /\ Attended(g)
         /\ Said(h, TRUE) /\ SaidOnly(n, TRUE)
         /\ Said(g, FALSE) /\ SaidOnly(m, FALSE)
    BY <1>1, <1>5, UnreadHeard DEF FineOK, TurnOK, LinkOK
  <1>13. silent \in BOOLEAN
    BY DEF Silent
  <1>14. AtFirst(a, h) /\ AtFirst(b, g)
    BY <1>4, <1>12 DEF AtFirst
  <1> DEFINE Goal == /\ Linking(k, f, O2, A2)
                     /\ Attended(k) /\ Attended(f)
                     /\ Said(k, TRUE) /\ SaidOnly(n2, TRUE)
                     /\ Said(f, FALSE) /\ SaidOnly(m2, FALSE)
  <1> HIDE DEF h, k, g, f, m, m2, n, n2, silent
  <1>15. ASSUME Acts(a, b)
         PROVE  Goal
    <2>1. f = g
      BY <1>15 DEF Acts, f, g
    <2>2. Safely(h, k, m, m2, n, n2, a, b)
      BY <1>4, <1>15 DEF Acts, Safely, h, k, m, m2, n, n2
    <2> DEFINE mine == WeInitiate(a, b)
    <2>3. /\ mine \in BOOLEAN /\ mine /\ Initiates(a, b, mine)
          /\ h \in FitHandle(mine) \cup {NoHandle}
      BY <1>7, InitiateType DEF Initiates
    <2>4. mine = TRUE /\ (~mine) = FALSE
      BY <2>3
    <2> HIDE DEF mine
    <2>5. Expects(h, m, n, mine)
      <3>1. Turn(h, g, O, n["answer"][Bodies], silent) /\ Orderly(h, g, O, n["answer"][Bodies])
        BY <1>12
      <3>2. O \in Nat
        BY <1>11
      <3> HIDE DEF O
      <3> QED  BY <1>9, <1>10, <2>3, <3>1, <3>2, OffererExpects
    <2>6. Said(h, mine) /\ SaidOnly(n, mine) /\ SaidOnly(m, ~mine)
      BY <1>12, <2>4
    <2>7. Attended(k)
      BY <1>10, <1>12, <2>2, <2>3, <2>5, HandledAttended
    <2>8. Said(k, mine) /\ SaidOnly(n2, mine)
      BY <1>10, <2>2, <2>3, <2>5, <2>6, HandledSaid
    <2>9. SaidOnly(m2, ~mine)
      <3>1. AtFirst(a, h) /\ OnlySaysBy(m, mine)
        BY <1>14, <2>6 DEF OnlySaysBy
      <3>2. OnlySaysBy(m2, mine)
        BY <1>10, <2>2, <2>3, <2>5, <2>6, <3>1, HandledSpeaks
      <3> QED  BY <3>2 DEF OnlySaysBy
    <2>10. Expects(h, m, n, TRUE)
      BY <2>4, <2>5
    <2>11. h # NoHandle => h.negotiated
      BY <1>12 DEF Turn
    <2>12. k \in Handle(Bodies) \cup {NoHandle}
      <3>1. PICK lost : Handled(h, k, m, m2, n, n2, a, b, lost)
        BY <2>2 DEF Safely
      <3> QED  BY <1>8, <1>10, <2>11, <3>1, OffererHandles
    <2>13. TurnTypes(h, k, g, O, O2, A, A2, silent) /\ TurnTypes(h, h, g, O, O2, A, A2, silent)
      BY <1>9, <1>11, <1>13, <2>12 DEF TurnTypes
    <2>14. OffererReady(h, O, A)
      <3>1. Turn(h, g, O, A, silent) /\ Orderly(h, g, O, A)
        BY <1>12
      <3> HIDE DEF O, O2, A, A2
      <3> QED  BY <2>13, <3>1, ReadyOfOfferer
    <2>15. OffererAdvances(h, k, O, O2, A, A2)
      <3>1. OffererAt(a, b, h, m, n)
        BY <1>8, <1>12, <1>14, <2>10, <2>14 DEF OffererAt
      <3>2. OffererAdvances(h, k, m["offer"][Bodies], m2["offer"][Bodies],
                            n["answer"][Bodies], n2["answer"][Bodies])
        BY <1>10, <2>2, <3>1, OffererHandlesOn
      <3> QED  BY <3>2
    <2>16. Linking(k, g, O2, A2)
      <3>1. Linking(h, g, O, A)
        BY <1>12
      <3> HIDE DEF O, O2, A, A2
      <3> QED  BY <2>13, <2>15, <3>1, LinkingOfOfferer
    <2> QED  BY <1>12, <2>1, <2>4, <2>7, <2>8, <2>9, <2>16
  <1>16. ASSUME Acts(b, a)
         PROVE  Goal
    <2>1. k = h
      BY <1>16 DEF Acts, k, h
    <2>2. Safely(g, f, n, n2, m, m2, b, a)
      BY <1>4, <1>16 DEF Acts, Safely, g, f, m, m2, n, n2
    <2> DEFINE mine == WeInitiate(b, a)
    <2>3. /\ mine \in BOOLEAN /\ ~mine /\ Initiates(b, a, mine)
          /\ g \in FitHandle(mine) \cup {NoHandle}
      BY <1>2, <1>7 DEF Initiates
    <2>4. mine = FALSE /\ (~mine) = TRUE
      BY <2>3
    <2> HIDE DEF mine
    <2>5. Expects(g, n, m, mine)
      <3>1. Orderly(h, g, O, n["answer"][Bodies])
        BY <1>12
      <3> HIDE DEF O
      <3> QED  BY <2>3, <3>1, AnswererExpects
    <2>6. Said(g, mine) /\ SaidOnly(m, mine) /\ SaidOnly(n, ~mine)
      BY <1>12, <2>4
    <2>7. Attended(f)
      BY <1>10, <1>12, <2>2, <2>3, <2>5, HandledAttended
    <2>8. Said(f, mine) /\ SaidOnly(m2, mine)
      BY <1>10, <2>2, <2>3, <2>5, <2>6, HandledSaid
    <2>9. SaidOnly(n2, ~mine)
      <3>1. AtFirst(b, g) /\ OnlySaysBy(n, mine)
        BY <1>14, <2>6 DEF OnlySaysBy
      <3>2. OnlySaysBy(n2, mine)
        BY <1>10, <2>2, <2>3, <2>5, <2>6, <3>1, HandledSpeaks
      <3> QED  BY <3>2 DEF OnlySaysBy
    <2>10. Expects(g, n, m, FALSE)
      BY <2>4, <2>5
    <2>11. f \in Handle(Bodies) \cup {NoHandle}
      <3>1. PICK lost : Handled(g, f, n, n2, m, m2, b, a, lost)
        BY <2>2 DEF Safely
      <3> QED  BY <1>2, <1>8, <1>10, <3>1, AnswererHandles
    <2>12. TurnTypes(h, f, g, O, O2, A, A2, silent) /\ TurnTypes(h, g, g, O, O2, A, A2, silent)
      BY <1>9, <1>11, <1>13, <2>11 DEF TurnTypes
    <2>13. AnswererReady(g, O, A)
      <3>1. Turn(h, g, O, A, silent)
        BY <1>12
      <3> HIDE DEF O, O2, A, A2
      <3> QED  BY <2>12, <3>1, ReadyOfAnswerer
    <2>14. AnswererAdvances(g, f, O, O2, A, A2)
      <3>1. AnswererAt(b, a, g, n, m)
        BY <1>2, <1>8, <1>12, <1>14, <2>10, <2>13 DEF AnswererAt
      <3>2. AnswererAdvances(g, f, m["offer"][Bodies], m2["offer"][Bodies],
                             n["answer"][Bodies], n2["answer"][Bodies])
        BY <1>10, <2>2, <3>1, AnswererHandlesOn
      <3> QED  BY <3>2
    <2>15. Linking(h, f, O2, A2)
      <3>1. Linking(h, g, O, A)
        BY <1>12
      <3> HIDE DEF O, O2, A, A2
      <3> QED  BY <2>12, <2>14, <3>1, LinkingOfAnswerer
    <2> QED  BY <1>12, <2>1, <2>4, <2>7, <2>8, <2>9, <2>15
  <1>17. ASSUME Still(a, b)
         PROVE  Goal
    <2>1. k = h /\ f = g /\ n2 = n /\ m2 = m
      BY <1>4, <1>17 DEF Still, h, k, g, f, m, m2, n, n2
    <2> QED  BY <1>12, <2>1
  <1>18. Goal
    <2> HIDE DEF Goal
    <2> QED  BY <1>3, <1>4, <1>15, <1>16, <1>17 DEF PairSteps
  <1> QED  BY <1>6, <1>18

-----------------------------------------------------------------------------
(* Pages that meet. *)

\* An event that tells of p.
Tells(e, p) ==
    \/ e.type = "resync" /\ p \in e.peers
    \/ e.type = "peer_joined" /\ e.peer = p

InEarly(s, p)   == \E i \in 1 .. Len(early[s]) : Tells(early[s][i], p)
InQueue(s, p)   == \E i \in 1 .. Len(queue[s]) : Tells(queue[s][i], p)
InResync(s, p)  == resync[s] # None /\ p \in DOMAIN resync[s].peers
Announced(s, p) == sse[p].pc = "announce" /\ s \in sse[p].todo

\* s has a connection with p, or has got what tells of it.
Hears(s, p) ==
    peers[s][p] # NoHandle \/ InEarly(s, p) \/ InQueue(s, p) \/ InResync(s, p)

\* Of two pages that listen, each is told of the other, or is about to be: by
\* its own call, which has yet to return, or by that of the other.
HaveMet(s, p) ==
    live[s] = "subscribed" /\ ~Overrun(s) /\ live[p] = "subscribed" =>
        Hears(s, p) \/ sse[s].pc # "idle" \/ Announced(s, p)
AllMet == \A s, p \in Sessions : s # p => HaveMet(s, p)

\* The roster of a call is that of the room.
Rosters ==
    \A s \in Sessions :
        sse[s].pc # "idle" => DOMAIN sse[s].peers = participants \ {s}

\* A mesh that is built has read what was kept for it.
ReadyRead == \A s \in Sessions : page[s] = "ready" => early[s] = << >>

-----------------------------------------------------------------------------
(* Pages that meet: the server's part. *)

\* A snapshot is of a roster that does not change before the call is over.
LEMMA RostersStep == TypeOK /\ Rosters /\ [Next]_vars => Rosters'
  <1> SUFFICES ASSUME TypeOK, Rosters, [Next]_vars, NEW s \in Sessions,
                      sse'[s].pc # "idle"
               PROVE  DOMAIN sse'[s].peers = participants' \ {s}
    BY DEF Rosters
  <1>1. sse \in [Sessions -> SseCall] /\ SseIdle.pc = "idle"
    BY DEF TypeOK, SseIdle
  <1>2. sse[s].pc # "idle" => DOMAIN sse[s].peers = participants \ {s}
    BY DEF Rosters
  <1>3. CASE sse' = sse /\ participants' = participants
    BY <1>2, <1>3
  <1>4. ASSUME NEW x \in Sessions, NEW claim, NEW supplied, NEW name,
               Join(x, claim, supplied, name)
        PROVE  sse' = sse /\ sse[s] = SseIdle
    BY <1>4 DEF Join, Exclusive
  <1>5. ASSUME NEW x \in Sessions, SseSnapshot(x)
        PROVE  /\ participants' = participants
               /\ x = s => DOMAIN sse'[s].peers = participants \ {s}
               /\ x # s => sse'[s] = sse[s]
    <2> DEFINE roster == [p \in participants \ {x} |-> display_names[p]]
               call == [pc |-> "snapshot", peers |-> roster,
                        chat |-> ChatHistory(chat, ResyncLimit), todo |-> {}]
    <2>1. participants' = participants /\ sse' = [sse EXCEPT ![x] = call]
      BY <1>5 DEF SseSnapshot, roomVars
    <2>2. DOMAIN call.peers = participants \ {x}
      OBVIOUS
    <2> HIDE DEF call
    <2> QED  BY <1>1, <2>1, <2>2
  <1>6. ASSUME NEW x \in Sessions, Handler(x)
        PROVE  /\ participants' = participants
               /\ sse'[s] = sse[s] \/ sse'[s] = SseIdle
                    \/ (sse'[s].peers = sse[s].peers /\ sse[s].pc # "idle")
    <2>1. participants' = participants
      BY <1>6 DEF Handler, SseSubscribe, SseAnnounce, SseReturn, roomVars
    <2>2. CASE SseSubscribe(x)
      <3>1. /\ sse[x].pc = "snapshot"
            /\ sse' = [sse EXCEPT ![x] = [sse[x] EXCEPT !.pc = "announce",
                                            !.todo = participants \ {x}]]
        BY <1>1, <2>2 DEF SseSubscribe
      <3>2. sse[x] \in SseCall
        BY <1>1
      <3>3. [sse[x] EXCEPT !.pc = "announce", !.todo = participants \ {x}].peers
              = sse[x].peers
        BY <3>2 DEF SseCall
      <3> QED  BY <1>1, <2>1, <3>1, <3>3
    <2>3. ASSUME NEW p \in Sessions, SseAnnounce(x, p)
          PROVE  sse'[s] = sse[s]
                    \/ (sse'[s].peers = sse[s].peers /\ sse[s].pc # "idle")
      <3>1. /\ sse[x].pc = "announce"
            /\ sse' = [sse EXCEPT ![x] = [sse[x] EXCEPT !.todo = sse[x].todo \ {p}]]
        BY <1>1, <2>3 DEF SseAnnounce
      <3>2. sse[x] \in SseCall
        BY <1>1
      <3>3. [sse[x] EXCEPT !.todo = sse[x].todo \ {p}].peers = sse[x].peers
        BY <3>2 DEF SseCall
      <3> QED  BY <1>1, <3>1, <3>3
    <2>4. CASE SseReturn(x)
      <3>1. sse' = [sse EXCEPT ![x] = SseIdle]
        BY <2>4 DEF SseReturn
      <3> QED  BY <1>1, <2>1, <3>1
    <2> QED  BY <1>6, <2>1, <2>2, <2>3, <2>4 DEF Handler
  <1>7. ASSUME NEW x \in Sessions,
               \/ Stream(x)
               \/ Disconnect(x)
               \/ \E to \in Sessions, kind \in SignalKinds, body \in Bodies :
                    Signal(x, to, kind, body)
               \/ \E t \in Threads : PostAppend(t, x)
        PROVE  sse' = sse /\ participants' = participants
    BY <1>7 DEF Stream, DeliverResync, DeliverEvent, StreamLagged, StreamEnded,
                CloseStream, Disconnect, Signal, PostAppend, roomVars
  <1>8. ASSUME NEW t \in Threads, NEW p \in Sessions, PostSend(t, p)
        PROVE  sse' = sse /\ participants' = participants
    BY <1>8 DEF PostSend, roomVars
  <1>9. CASE UNCHANGED vars
    BY <1>3, <1>9 DEF vars, roomVars
  <1>10. CASE Next
    <2>1. CASE \E x \in Sessions : Stream(x) \/ Disconnect(x)
                  \/ (\E to \in Sessions \ {x}, kind \in SignalKinds, body \in Bodies :
                        Signal(x, to, kind, body))
                  \/ \E t \in Threads : PostAppend(t, x)
      BY <1>3, <1>7, <2>1
    <2>2. CASE \E x \in Sessions, claim, supplied \in Passwords \cup {None},
                  name \in Names \cup {None} : Join(x, claim, supplied, name)
      BY <1>1, <1>4, <2>2
    <2>3. CASE \E x \in Sessions : SseSnapshot(x)
      BY <1>2, <1>5, <2>3
    <2>4. CASE \E x \in Sessions : Handler(x)
      BY <1>1, <1>2, <1>6, <2>4
    <2>5. CASE \E t \in Threads, p \in Sessions : PostSend(t, p)
      BY <1>3, <1>8, <2>5
    <2> QED  BY <1>10, <2>1, <2>2, <2>3, <2>4, <2>5 DEF Next
  <1> QED  BY <1>9, <1>10

\* An event that is sent is the last of one queue, or lost.
LEMMA SendOn ==
    ASSUME TypeOK, NEW x \in Sessions, NEW e, SendTo(x, e),
           NEW s \in Sessions, NEW p
    PROVE  /\ InQueue(s, p) => InQueue(s, p)'
           /\ Overrun(s) => Overrun(s)'
           /\ x = s /\ live[s] = "subscribed" /\ ~Overrun(s) /\ Tells(e, p) =>
                InQueue(s, p)'
  <1>1. queue \in [Sessions -> Seq(Event)] /\ BufferSize \in Nat
    BY ServerAssumption DEF TypeOK
  <1>2. queue'[s] = IF s = x /\ live[x] = "subscribed" /\ ~Overrun(x)
                    THEN Append(queue[s], e) ELSE queue[s]
    BY <1>1 DEF SendTo
  <1>3. CASE queue'[s] = queue[s] /\ ~(s = x /\ live[x] = "subscribed" /\ ~Overrun(x))
    BY <1>3 DEF InQueue, Overrun
  <1>4. CASE queue'[s] = Append(queue[s], e)
    <2>1. /\ Len(queue'[s]) = Len(queue[s]) + 1
          /\ queue'[s][Len(queue[s]) + 1] = e
          /\ \A i \in 1 .. Len(queue[s]) : queue'[s][i] = queue[s][i]
          /\ Len(queue[s]) \in Nat
      <3>1. queue[s] \in Seq(Event \cup {e})
        BY <1>1, SeqOfMore
      <3> QED  BY <1>4, <3>1, AppendProperties, LenProperties
    <2>2. Overrun(s) => Overrun(s)'
      BY <1>1, <2>1 DEF Overrun
    <2>3. Tells(e, p) => InQueue(s, p)'
      <3>1. Len(queue[s]) + 1 \in 1 .. Len(queue'[s])
        BY <2>1
      <3> QED  BY <2>1, <3>1 DEF InQueue, Tells
    <2>4. InQueue(s, p) => InQueue(s, p)'
      <3>1. \A i \in 1 .. Len(queue[s]) : i \in 1 .. Len(queue'[s])
        BY <2>1
      <3> QED  BY <2>1, <3>1 DEF InQueue, Tells
    <2> QED  BY <2>2, <2>3, <2>4
  <1> QED  BY <1>2, <1>3, <1>4

\* While the stream of s stays open: who starts to listen is being announced to
\* it, a call that returns leaves its roster, and an announcement arrives.
LEMMA StreamsOn ==
    ASSUME TypeOK, Seated, Rosters, [Next]_vars,
           NEW s \in Sessions, NEW p \in Sessions, s # p, live'[s] = "subscribed"
    PROVE  /\ live[s] # "subscribed" => sse'[s].pc # "idle"
           /\ live'[p] = "subscribed" /\ live[p] # "subscribed" => Announced(s, p)'
           /\ Overrun(s) => Overrun(s)'
           /\ live[p] = "subscribed" /\ sse[s].pc # "idle" =>
                sse'[s].pc # "idle" \/ InResync(s, p)'
           /\ live[s] = "subscribed" /\ Announced(s, p) =>
                Announced(s, p)' \/ InQueue(s, p)' \/ Overrun(s)
  <1> DEFINE Goal ==
               /\ live[s] # "subscribed" => sse'[s].pc # "idle"
               /\ live'[p] = "subscribed" /\ live[p] # "subscribed" => Announced(s, p)'
               /\ Overrun(s) => Overrun(s)'
               /\ live[p] = "subscribed" /\ sse[s].pc # "idle" =>
                    sse'[s].pc # "idle" \/ InResync(s, p)'
               /\ live[s] = "subscribed" /\ Announced(s, p) =>
                    Announced(s, p)' \/ InQueue(s, p)' \/ Overrun(s)
  <1>1. /\ sse \in [Sessions -> SseCall]
        /\ live \in [Sessions -> {"closed", "subscribed", "severed"}]
        /\ resync \in [Sessions -> Resync \cup {None}]
        /\ queue \in [Sessions -> Seq(Event)]
        /\ SseIdle.pc = "idle" /\ SseIdle.todo = {}
    BY DEF TypeOK, SseIdle
  <1>2. \A x \in Sessions : live[x] # "closed" => x \in participants
    BY DEF Seated
  <1>3. ASSUME sse' = sse, live'[s] = live[s],
               live'[p] = "subscribed" => live[p] = "subscribed",
               Overrun(s) => Overrun(s)'
        PROVE  Goal
    BY <1>3 DEF Announced
  <1>4. ASSUME NEW x \in Sessions, NEW claim, NEW supplied, NEW name,
               Join(x, claim, supplied, name)
        PROVE  Goal
    <2>1. /\ sse' = sse /\ queue' = queue
          /\ live' = [live EXCEPT ![x] = IF live[x] = "subscribed" THEN "severed"
                                        ELSE live[x]]
      BY <1>4 DEF Join
    <2>2. live'[s] = live[s] /\ (live'[p] = "subscribed" => live[p] = "subscribed")
      BY <1>1, <2>1
    <2>3. Overrun(s) => Overrun(s)'
      BY <2>1 DEF Overrun
    <2> QED  BY <1>3, <2>1, <2>2, <2>3
  <1>5. ASSUME NEW x \in Sessions, SseSnapshot(x)
        PROVE  Goal
    <2>1. /\ sse[x].pc = "idle" /\ queue' = queue /\ live' = live
          /\ \A y \in Sessions : y # x => sse'[y] = sse[y]
          /\ sse'[x].pc = "snapshot"
      BY <1>1, <1>5 DEF SseSnapshot, streamVars
    <2>2. Overrun(s) => Overrun(s)'
      BY <2>1 DEF Overrun
    <2> QED  BY <2>1, <2>2 DEF Announced
  <1>6. ASSUME NEW x \in Sessions, SseSubscribe(x)
        PROVE  Goal
    <2>1. /\ sse[x].pc = "snapshot" /\ queue' = queue
          /\ live' = [live EXCEPT ![x] = "subscribed"]
          /\ \A y \in Sessions : y # x => sse'[y] = sse[y]
          /\ sse'[x].pc = "announce" /\ sse'[x].todo = participants \ {x}
      <3>1. /\ sse[x].pc = "snapshot" /\ queue' = queue
            /\ live' = [live EXCEPT ![x] = "subscribed"]
            /\ sse' = [sse EXCEPT ![x] = [sse[x] EXCEPT !.pc = "announce",
                                            !.todo = participants \ {x}]]
        BY <1>1, <1>6 DEF SseSubscribe
      <3>2. sse[x] \in SseCall
        BY <1>1
      <3> QED  BY <1>1, <3>1, <3>2 DEF SseCall
    <2>2. Overrun(s) => Overrun(s)'
      BY <2>1 DEF Overrun
    <2>3. x = p => s \in participants
      BY <1>1, <1>2, <2>1
    <2> QED  BY <1>1, <2>1, <2>2, <2>3 DEF Announced
  <1>7. ASSUME NEW x \in Sessions, NEW q \in Sessions, SseAnnounce(x, q)
        PROVE  Goal
    <2>1. /\ sse[x].pc = "announce" /\ live' = live
          /\ \A y \in Sessions : y # x => sse'[y] = sse[y]
          /\ sse'[x].pc = "announce" /\ sse'[x].todo = sse[x].todo \ {q}
          /\ SendTo(q, PeerJoined(x))
      <3>1. /\ sse[x].pc = "announce" /\ live' = live
            /\ sse' = [sse EXCEPT ![x] = [sse[x] EXCEPT !.todo = sse[x].todo \ {q}]]
            /\ SendTo(q, PeerJoined(x))
        BY <1>1, <1>7 DEF SseAnnounce
      <3>2. sse[x] \in SseCall
        BY <1>1
      <3> QED  BY <1>1, <3>1, <3>2 DEF SseCall
    <2>2. x = p => Tells(PeerJoined(x), p)
      BY DEF Tells, PeerJoined
    <2>3. /\ Overrun(s) => Overrun(s)'
          /\ q = s /\ live[s] = "subscribed" /\ ~Overrun(s) /\ x = p =>
               InQueue(s, p)'
      BY <2>1, <2>2, SendOn
    <2> QED  BY <1>1, <2>1, <2>3 DEF Announced
  <1>8. ASSUME NEW x \in Sessions, SseReturn(x)
        PROVE  Goal
    <2>1. /\ sse[x].pc = "announce" /\ sse[x].todo = {}
          /\ live' = live /\ queue' = queue
          /\ sse' = [sse EXCEPT ![x] = SseIdle]
          /\ resync' = [resync EXCEPT ![x] = [peers |-> sse[x].peers,
                                             chat  |-> sse[x].chat]]
      BY <1>8 DEF SseReturn
    <2>2. Overrun(s) => Overrun(s)'
      BY <2>1 DEF Overrun
    <2>3. live[p] = "subscribed" /\ x = s => InResync(s, p)'
      <3> SUFFICES ASSUME live[p] = "subscribed", x = s
                   PROVE  InResync(s, p)'
        OBVIOUS
      <3>1. p \in DOMAIN sse[s].peers
        BY <1>2, <2>1 DEF Rosters
      <3>2. resync'[s] \in Resync /\ resync'[s].peers = sse[s].peers
        <4>1. sse[s] \in SseCall
          BY <1>1
        <4> QED  BY <1>1, <2>1, <4>1 DEF SseCall, Resync
      <3> QED  BY <3>1, <3>2, NoneAssumption DEF InResync
    <2> QED  BY <1>1, <2>1, <2>2, <2>3 DEF Announced
  <1>9. ASSUME NEW x \in Sessions, Stream(x) \/ Disconnect(x)
        PROVE  Goal
    <2>1. sse' = sse
      BY <1>9 DEF Stream, DeliverResync, DeliverEvent, StreamLagged, StreamEnded,
                  CloseStream, Disconnect
    <2>2. CASE CloseStream(x)
      <3>1. live'[x] = "closed" /\ x # s /\ live'[s] = live[s] /\ queue'[s] = queue[s]
        BY <1>1, <2>2 DEF CloseStream
      <3>2. live'[p] = "subscribed" => live[p] = "subscribed"
        BY <1>1, <2>2 DEF CloseStream
      <3> QED  BY <1>3, <2>1, <3>1, <3>2 DEF Overrun
    <2>3. CASE DeliverResync(x)
      BY <1>3, <2>1, <2>3 DEF DeliverResync, Overrun
    <2>4. CASE DeliverEvent(x)
      <3>1. live' = live /\ ~Overrun(x) /\ (x # s => queue'[s] = queue[s])
        BY <1>1, <2>4 DEF DeliverEvent
      <3> QED  BY <1>3, <2>1, <3>1 DEF Overrun
    <2> QED  BY <1>9, <2>2, <2>3, <2>4
               DEF Stream, StreamLagged, StreamEnded, Disconnect
  <1>10. ASSUME NEW x \in Sessions, NEW to \in Sessions, NEW kind, NEW body,
                Signal(x, to, kind, body)
         PROVE  Goal
    <2>1. sse' = sse /\ live' = live
      BY <1>10 DEF Signal
    <2>2. Overrun(s) => Overrun(s)'
      <3>1. CASE SendTo(to, SignalEvent(x, to, kind, body))
        BY <3>1, SendOn
      <3>2. CASE UNCHANGED queue
        BY <3>2 DEF Overrun
      <3> QED  BY <1>10, <3>1, <3>2 DEF Signal
    <2> QED  BY <1>3, <2>1, <2>2
  <1>11. ASSUME NEW x \in Sessions, NEW t \in Threads, PostAppend(t, x)
         PROVE  Goal
    BY <1>3, <1>11 DEF PostAppend, streamVars, Overrun
  <1>12. ASSUME NEW t \in Threads, NEW q \in Sessions, PostSend(t, q)
         PROVE  Goal
    <2>1. sse' = sse /\ live' = live /\ SendTo(q, ChatEvent(post[t].msg))
      BY <1>12 DEF PostSend
    <2>2. Overrun(s) => Overrun(s)'
      BY <2>1, SendOn
    <2> QED  BY <1>3, <2>1, <2>2
  <1>13. ASSUME UNCHANGED vars
         PROVE  Goal
    BY <1>3, <1>13 DEF vars, streamVars, Overrun
  <1> HIDE DEF Goal
  <1>14. ASSUME Next
         PROVE  Goal
    <2>1. CASE \E x \in Sessions, claim, supplied \in Passwords \cup {None},
                  name \in Names \cup {None} : Join(x, claim, supplied, name)
      BY <1>4, <2>1
    <2>2. CASE \E x \in Sessions : SseSnapshot(x) \/ Stream(x) \/ Disconnect(x)
      BY <1>5, <1>9, <2>2
    <2>3. CASE \E x \in Sessions : Handler(x)
      BY <1>6, <1>7, <1>8, <2>3 DEF Handler
    <2>4. CASE \E x, to \in Sessions, kind \in SignalKinds, body \in Bodies :
                  Signal(x, to, kind, body)
      BY <1>10, <2>4
    <2>5. CASE \E t \in Threads, x \in Sessions : PostAppend(t, x) \/ PostSend(t, x)
      BY <1>11, <1>12, <2>5
    <2> QED  BY <1>14, <2>1, <2>2, <2>3, <2>4, <2>5 DEF Next
  <1>15. Goal
    BY <1>13, <1>14
  <1> QED  BY <1>15 DEF Goal

-----------------------------------------------------------------------------
(* Pages that meet: the pages' part. *)

\* The mesh makes a connection with whom an event tells of.
LEMMA TellsMeets ==
    ASSUME NEW s \in Sessions, NEW p \in Sessions, p # s,
           NEW m, FitMesh(s, m), NEW e, Tells(e, p)
    PROVE  OnRoomEvent(s, m, e)[p] # NoHandle
  <1>1. PICK present : p \in present /\ OnRoomEvent(s, m, e) = Meet(s, m, present)
    <2>1. e.type = "resync" => OnRoomEvent(s, m, e) = Meet(s, m, e.peers)
      BY MeshAssumption DEF OnRoomEvent
    <2>2. e.type = "peer_joined" => OnRoomEvent(s, m, e) = Meet(s, m, {e.peer})
      BY MeshAssumption DEF OnRoomEvent
    <2> QED  BY <2>1, <2>2 DEF Tells
  <1>2. OnRoomEvent(s, m, e)[p] = MaybeOffer(Ensured(s, m, p), WeInitiate(s, p))
    BY <1>1 DEF Meet
  <1>3. Ensured(s, m, p) \in FitHandle(WeInitiate(s, p)) /\ WeInitiate(s, p) \in BOOLEAN
    BY EnsuredFits, InitiateType
  <1> DEFINE mine == WeInitiate(s, p)
             h == Ensured(s, m, p)
  <1> HIDE DEF mine, h
  <1>4. MaybeOffer(h, mine) \in FitHandle(mine)
    BY <1>3, MaybeOfferFits DEF mine, h
  <1>5. MaybeOffer(h, mine) \in Handle(Bodies)
    BY <1>4 DEF FitHandle
  <1> QED  BY <1>2, <1>5, HandleIsNotNone DEF mine, h

\* What is kept stays kept, and an event that comes is read or kept.
LEMMA ToMeshTells ==
    ASSUME MeshInv, NEW x \in Sessions, NEW e, ToMesh(x, e),
           NEW s \in Sessions, NEW p \in Sessions, p # s
    PROVE  /\ InEarly(s, p) => InEarly(s, p)'
           /\ x = s /\ Tells(e, p) => InEarly(s, p)' \/ peers'[s][p] # NoHandle
  <1>1. /\ early \in [Sessions -> Seq(Event \cup ResyncRead)]
        /\ peers \in [Sessions -> [Sessions -> Handle(Bodies) \cup {NoHandle}]]
        /\ FitMesh(s, peers[s])
    BY DEF MeshInv, PagesFit
  <1>2. CASE page[x] = "ready"
    <2>1. early' = early /\ peers' = [peers EXCEPT ![x] = OnRoomEvent(x, peers[x], e)]
      BY <1>2 DEF ToMesh
    <2>2. InEarly(s, p) => InEarly(s, p)'
      BY <2>1 DEF InEarly
    <2>3. x = s /\ Tells(e, p) => peers'[s][p] # NoHandle
      <3>1. x = s => peers'[s] = OnRoomEvent(s, peers[s], e)
        BY <1>1, <2>1
      <3> QED  BY <1>1, <3>1, TellsMeets
    <2> QED  BY <2>2, <2>3
  <1>3. CASE page[x] # "ready"
    <2>1. early' = [early EXCEPT ![x] = Append(early[x], e)]
      BY <1>3 DEF ToMesh
    <2>2. CASE s # x
      BY <1>1, <2>1, <2>2 DEF InEarly
    <2>3. CASE s = x
      <3>1. early'[s] = Append(early[s], e)
        BY <1>1, <2>1, <2>3
      <3>2. /\ Len(early'[s]) = Len(early[s]) + 1
            /\ early'[s][Len(early[s]) + 1] = e
            /\ \A i \in 1 .. Len(early[s]) : early'[s][i] = early[s][i]
            /\ Len(early[s]) \in Nat
        <4>1. early[s] \in Seq((Event \cup ResyncRead) \cup {e})
          <5> DEFINE E == Event \cup ResyncRead
          <5>1. early[s] \in Seq(E)
            BY <1>1
          <5> HIDE DEF E
          <5>2. early[s] \in Seq(E \cup {e})
            BY <5>1, SeqOfMore
          <5> QED  BY <5>2 DEF E
        <4> QED  BY <3>1, <4>1, AppendProperties, LenProperties
      <3>3. Tells(e, p) => InEarly(s, p)'
        <4>1. Len(early[s]) + 1 \in 1 .. Len(early'[s])
          BY <3>2
        <4> QED  BY <3>2, <4>1 DEF InEarly, Tells
      <3>4. InEarly(s, p) => InEarly(s, p)'
        <4>1. \A i \in 1 .. Len(early[s]) : i \in 1 .. Len(early'[s])
          BY <3>2
        <4> QED  BY <3>2, <4>1 DEF InEarly, Tells
      <3> QED  BY <3>3, <3>4
    <2> QED  BY <2>2, <2>3
  <1> QED  BY <1>2, <1>3

\* Whoever is told of in a sequence is in its first event, or in the rest.
LEMMA TailTells ==
    ASSUME NEW S, NEW q \in Seq(S), q # << >>, NEW p,
           \E i \in 1 .. Len(q) : Tells(q[i], p)
    PROVE  \/ Tells(Head(q), p)
           \/ \E i \in 1 .. Len(Tail(q)) : Tells(Tail(q)[i], p)
  <1>1. PICK i \in 1 .. Len(q) : Tells(q[i], p)
    OBVIOUS
  <1>2. /\ Len(Tail(q)) = Len(q) - 1 /\ Len(q) \in Nat
        /\ \A j \in 1 .. Len(Tail(q)) : Tail(q)[j] = q[j + 1]
        /\ Head(q) = q[1]
    BY HeadTailProperties, LenProperties
  <1>3. CASE i = 1
    BY <1>1, <1>2, <1>3
  <1>4. CASE i # 1
    <2>1. i - 1 \in 1 .. Len(Tail(q)) /\ (i - 1) + 1 = i
      BY <1>2, <1>4
    <2>2. Tail(q)[i - 1] = q[i]
      BY <1>2, <2>1
    <2> QED  BY <1>1, <2>1, <2>2
  <1> QED  BY <1>3, <1>4

\* A connection is kept ...
LEMMA ReadsStays ==
    ASSUME NEW s \in Sessions, NEW p, NEW h \in Handle(Bodies), NEW mine \in BOOLEAN,
           NEW e \in FitEvent(s) \cup ResyncRead, NEW k, Reads(h, k, p, mine, e)
    PROVE  k \in Handle(Bodies)
  <1>1. h # NoHandle /\ Met(h) = h
    BY HandleIsNotNone DEF Met
  <1>2. e.type \in SignalKinds => e.body \in Bodies
    BY BodyOf
  <1>3. {"offer", "answer", "ice"} \subseteq SignalKinds
    BY MeshAssumption
  <1>4. MaybeOffer(h, mine) \in Handle(Bodies)
    BY MaybeOfferDoes
  <1>5. \A do \in {"remote_offer", "remote_answer"}, b \in Bodies :
          Call([h EXCEPT !.remote_set = TRUE], do, b) \in Handle(Bodies)
    <2>1. [h EXCEPT !.remote_set = TRUE] \in Handle(Bodies)
      BY DEF Handle
    <2>2. \A do \in {"remote_offer", "remote_answer"}, b \in Bodies :
            [do |-> do, body |-> b, then |-> "end"] \in Op(Bodies)
      BY DEF Op
    <2> HIDE DEF Handle
    <2> QED  BY <2>1, <2>2, CallDoes
  <1>6. \A b \in Bodies : OnIce(h, mine, b) \in Handle(Bodies)
    BY <1>4, OnIceDoes
  <1>7. \/ k = MaybeOffer(h, mine)
        \/ e.type = "offer" /\ k = ApplyOffer(h, mine, e.body)
        \/ e.type = "answer" /\ k = ApplyAnswer(h, e.body)
        \/ e.type = "ice" /\ k = OnIce(h, mine, e.body)
        \/ k = h
    BY <1>1 DEF Reads
  <1> QED  BY <1>2, <1>3, <1>4, <1>5, <1>6, <1>7 DEF ApplyOffer, ApplyAnswer

LEMMA HandledStays ==
    ASSUME NEW s \in Sessions, NEW p \in Sessions, NEW h \in Handle(Bodies),
           NEW k, NEW m, NEW m2, NEW n, NEW n2, NEW lost,
           Handled(h, k, m, m2, n, n2, s, p, lost)
    PROVE  k # NoHandle
  <1>1. CASE Reading(h, k, m, m2, n, n2, s, p)
    <2> DEFINE mine == WeInitiate(s, p)
    <2>1. mine \in BOOLEAN
      BY InitiateType
    <2>2. PICK e \in FitEvent(s) \cup ResyncRead : Reads(h, k, p, mine, e)
      BY <1>1 DEF Reading
    <2> HIDE DEF mine
    <2>3. k \in Handle(Bodies)
      BY <2>1, <2>2, ReadsStays
    <2> QED  BY <2>3, HandleIsNotNone
  <1>2. CASE Performing(h, k, m, m2, n, n2, visit[s])
    <2>1. h.ops # << >> /\ k = Performed(h)
      BY <1>2 DEF Performing
    <2>2. k \in Handle(Bodies)
      BY <2>1, PerformedDoes
    <2> QED  BY <2>2, HandleIsNotNone
  <1>3. CASE Failing(h, k, m, m2, n, n2, lost)
    <2>1. h.ops # << >> /\ k = Failed(h)
      BY <1>3 DEF Failing
    <2>2. k \in Handle(Bodies)
      BY <2>1, FailedDoes
    <2> QED  BY <2>2, HandleIsNotNone
  <1>4. CASE Gathering(h, k, m, m2, n, n2, visit[s])
    <2>1. GatheredOne(h, k)
      BY <1>4 DEF Gathering, GatheredOne
    <2>2. k \in Handle(Bodies)
      BY <2>1, GatheredSame
    <2> QED  BY <2>2, HandleIsNotNone
  <1>5. CASE Draining(h, k, m, m2, n, n2, WeInitiate(s, p), lost)
    <2>1. k = Drain(h, "end")
      BY <1>5 DEF Draining
    <2>2. k \in Handle(Bodies)
      BY <2>1, DrainDoes
    <2> QED  BY <2>2, HandleIsNotNone
  <1> QED  BY <1>1, <1>2, <1>3, <1>4, <1>5 DEF Handled

\* ... until the page is left.
LEMMA HandlesStay ==
    ASSUME MeshInv, IsFiniteSet(posts), [MeshNext]_meshVars,
           NEW s \in Sessions, NEW p \in Sessions, s # p,
           peers[s][p] # NoHandle, ~(page[s] # "away" /\ page'[s] = "away")
    PROVE  peers'[s][p] # NoHandle
  <1>1. PairSteps(s, p)
    BY PairStep
  <1>2. peers[s][p] \in Handle(Bodies)
    BY PeersType
  <1>3. Acts(s, p) => peers'[s][p] # NoHandle
    BY <1>2, HandledStays DEF Acts
  <1> QED  BY <1>1, <1>3 DEF PairSteps, Acts, Leaves, Still

\* A page that is left has closed its stream.
LEMMA LeftIsClosed ==
    ASSUME MeshInv, [MeshNext]_meshVars, NEW s \in Sessions,
           page[s] # "away", page'[s] = "away"
    PROVE  live'[s] = "closed"
  <1>1. /\ page \in [Sessions -> {"away", "joined", "replaying", "ready"}]
        /\ live \in [Sessions -> {"closed", "subscribed", "severed"}]
    BY DEF MeshInv, MeshTypeOK, TypeOK
  <1>2. \A x \in Sessions :
          /\ Enter(x) => page' = [page EXCEPT ![x] = "joined"]
          /\ BuildMesh(x) => page' = [page EXCEPT ![x] = "replaying"]
          /\ MeshReady(x) => page' = [page EXCEPT ![x] = "ready"]
    BY DEF Enter, BuildMesh, MeshReady
  <1>3. ASSUME NEW x \in Sessions, Leave(x)
        PROVE  page' = [page EXCEPT ![x] = "away"] /\ live'[x] = "closed"
    BY <1>1, <1>3 DEF Leave, Disconnect, CloseStream, vars, streamVars
  <1>4. CASE \E x \in Sessions : Enter(x) \/ BuildMesh(x) \/ MeshReady(x)
    BY <1>1, <1>2, <1>4
  <1>5. CASE \E x \in Sessions : Leave(x)
    BY <1>1, <1>3, <1>5
  <1> QED  BY <1>1, <1>4, <1>5, Frame DEF MeshNext

\* What s has heard of p it goes on to know, while its stream stays open.
LEMMA HearsOn ==
    ASSUME MeshInv, IsFiniteSet(posts), [MeshNext]_meshVars,
           NEW s \in Sessions, NEW p \in Sessions, p # s,
           live'[s] = "subscribed", Hears(s, p)
    PROVE  Hears(s, p)' \/ sse[s].pc # "idle"
  <1> DEFINE Goal == Hears(s, p)' \/ sse[s].pc # "idle"
  <1>1. /\ TypeOK
        /\ early \in [Sessions -> Seq(Event \cup ResyncRead)]
        /\ peers \in [Sessions -> [Sessions -> Handle(Bodies) \cup {NoHandle}]]
        /\ FitMesh(s, peers[s])
        /\ live \in [Sessions -> {"closed", "subscribed", "severed"}]
        /\ resync \in [Sessions -> Resync \cup {None}]
        /\ queue \in [Sessions -> Seq(Event)]
        /\ sse \in [Sessions -> SseCall]
    BY DEF MeshInv, MeshTypeOK, PagesFit, TypeOK
  <1>2. peers[s][p] # NoHandle => peers'[s][p] # NoHandle
    BY HandlesStay, LeftIsClosed
  <1>3. ASSUME early'[s] = early[s], queue'[s] = queue[s], resync'[s] = resync[s]
        PROVE  Goal
    BY <1>2, <1>3 DEF Hears, InEarly, InQueue, InResync
  <1>4. ASSUME NEW x \in Sessions, CloseStream(x), early' = early
        PROVE  Goal
    <2>1. live' = [live EXCEPT ![x] = "closed"]
      BY <1>4 DEF CloseStream
    <2>2. x # s
      BY <1>1, <2>1
    <2>3. queue'[s] = queue[s] /\ resync'[s] = resync[s]
      BY <1>1, <1>4, <2>2 DEF CloseStream
    <2> QED  BY <1>3, <1>4, <2>3
  <1>5. ASSUME NEW x \in Sessions, ReadResync(x)
        PROVE  Goal
    <2> DEFINE e == [type |-> "resync", peers |-> DOMAIN resync[x].peers]
    <2>1. /\ ToMesh(x, e) /\ queue' = queue
          /\ resync' = [resync EXCEPT ![x] = None]
      BY <1>5 DEF ReadResync, DeliverResync
    <2>2. x = s /\ InResync(s, p) => Tells(e, p)
      BY DEF InResync, Tells
    <2> HIDE DEF e
    <2>3. /\ InEarly(s, p) => InEarly(s, p)'
          /\ x = s /\ Tells(e, p) => InEarly(s, p)' \/ peers'[s][p] # NoHandle
      BY <2>1, ToMeshTells
    <2>4. InQueue(s, p) => InQueue(s, p)'
      BY <2>1 DEF InQueue
    <2>5. x # s => (InResync(s, p) => InResync(s, p)')
      BY <1>1, <2>1 DEF InResync
    <2> QED  BY <1>2, <2>2, <2>3, <2>4, <2>5 DEF Hears
  <1>6. ASSUME NEW x \in Sessions, ReadEvent(x)
        PROVE  Goal
    <2> DEFINE e == Head(queue[x])
    <2>1. /\ ToMesh(x, e) /\ resync' = resync /\ queue[x] # << >>
          /\ queue' = [queue EXCEPT ![x] = Tail(queue[x])]
      BY <1>6 DEF ReadEvent, DeliverEvent
    <2>2. x = s /\ InQueue(s, p) => Tells(e, p) \/ InQueue(s, p)'
      <3> SUFFICES ASSUME x = s, InQueue(s, p)
                   PROVE  Tells(e, p) \/ InQueue(s, p)'
        OBVIOUS
      <3>1. queue'[s] = Tail(queue[s]) /\ queue[s] \in Seq(Event) /\ queue[s] # << >>
        BY <1>1, <2>1
      <3>2. \E i \in 1 .. Len(queue[s]) : Tells(queue[s][i], p)
        BY DEF InQueue
      <3>3. \/ Tells(Head(queue[s]), p)
            \/ \E i \in 1 .. Len(Tail(queue[s])) : Tells(Tail(queue[s])[i], p)
        BY <3>1, <3>2, TailTells
      <3> QED  BY <3>1, <3>3 DEF InQueue, Tells
    <2>3. x # s => (InQueue(s, p) => InQueue(s, p)')
      BY <1>1, <2>1 DEF InQueue
    <2>4. InResync(s, p) => InResync(s, p)'
      BY <2>1 DEF InResync
    <2> HIDE DEF e
    <2>5. /\ InEarly(s, p) => InEarly(s, p)'
          /\ x = s /\ Tells(e, p) => InEarly(s, p)' \/ peers'[s][p] # NoHandle
      BY <2>1, ToMeshTells
    <2> QED  BY <1>2, <2>2, <2>3, <2>4, <2>5 DEF Hears
  <1>7. ASSUME NEW x \in Sessions, Replay(x)
        PROVE  Goal
    <2>1. /\ early[x] # << >> /\ queue' = queue /\ resync' = resync
          /\ early' = [early EXCEPT ![x] = Tail(early[x])]
          /\ peers' = [peers EXCEPT ![x] = OnRoomEvent(x, peers[x], Head(early[x]))]
      BY <1>7 DEF Replay, vars, streamVars
    <2>2. (InQueue(s, p) => InQueue(s, p)') /\ (InResync(s, p) => InResync(s, p)')
      BY <2>1 DEF InQueue, InResync
    <2>3. CASE x # s
      BY <1>1, <1>3, <2>1, <2>3
    <2>4. CASE x = s
      <3>1. /\ early'[s] = Tail(early[s]) /\ early[s] # << >>
            /\ peers'[s] = OnRoomEvent(s, peers[s], Head(early[s]))
            /\ early[s] \in Seq(Event \cup ResyncRead)
        BY <1>1, <2>1, <2>4
      <3>2. InEarly(s, p) => Tells(Head(early[s]), p) \/ InEarly(s, p)'
        <4> SUFFICES ASSUME InEarly(s, p)
                     PROVE  Tells(Head(early[s]), p) \/ InEarly(s, p)'
          OBVIOUS
        <4> DEFINE E == Event \cup ResyncRead
        <4>1. early[s] \in Seq(E)
          BY <3>1
        <4> HIDE DEF E
        <4>2. \E i \in 1 .. Len(early[s]) : Tells(early[s][i], p)
          BY DEF InEarly
        <4>3. \/ Tells(Head(early[s]), p)
              \/ \E i \in 1 .. Len(Tail(early[s])) : Tells(Tail(early[s])[i], p)
          BY <3>1, <4>1, <4>2, TailTells
        <4> QED  BY <3>1, <4>3 DEF InEarly, Tells
      <3>3. Tells(Head(early[s]), p) => peers'[s][p] # NoHandle
        BY <1>1, <3>1, TellsMeets
      <3> QED  BY <1>2, <2>2, <3>2, <3>3 DEF Hears
    <2> QED  BY <2>3, <2>4
  <1>8. ASSUME NEW x \in Sessions, Leave(x)
        PROVE  Goal
    <2>1. CASE Disconnect(x)
      <3>1. live'[x] = "closed" /\ CloseStream(x)
        BY <1>1, <2>1 DEF Disconnect, CloseStream
      <3>2. x # s
        BY <3>1
      <3>3. early'[s] = early[s]
        BY <1>1, <1>8, <3>2 DEF Leave
      <3>4. queue'[s] = queue[s] /\ resync'[s] = resync[s]
        BY <1>1, <3>1, <3>2 DEF CloseStream
      <3> QED  BY <1>3, <3>3, <3>4
    <2>2. CASE live[x] = "closed" /\ UNCHANGED vars
      <3>1. x # s /\ queue' = queue /\ resync' = resync
        BY <2>2 DEF vars, streamVars
      <3>2. early'[s] = early[s]
        BY <1>1, <1>8, <3>1 DEF Leave
      <3> QED  BY <1>3, <3>1, <3>2
    <2> QED  BY <1>8, <2>1, <2>2 DEF Leave
  <1>9. ASSUME NEW r \in posts, Relay(r)
        PROVE  Goal
    <2>1. early' = early /\ resync' = resync
      BY <1>9 DEF Relay, Posted, Signal
    <2>2. r.to \in Sessions
      BY DEF MeshInv, MeshTypeOK, Post
    <2>3. InQueue(s, p) => InQueue(s, p)'
      <3>1. CASE SendTo(r.to, SignalEvent(r.from, r.to, r.type, r.body))
        BY <1>1, <2>2, <3>1, SendOn
      <3>2. CASE UNCHANGED queue
        BY <3>2 DEF InQueue
      <3> QED  BY <1>9, <3>1, <3>2 DEF Relay, Signal
    <2> QED  BY <1>2, <2>1, <2>3 DEF Hears, InEarly, InResync
  <1>10. ASSUME NEW x \in Sessions, Handler(x), UNCHANGED pageVars
         PROVE  Goal
    <2>1. early' = early
      BY <1>10 DEF pageVars
    <2>2. CASE SseSubscribe(x)
      BY <1>3, <2>1, <2>2 DEF SseSubscribe
    <2>3. ASSUME NEW q \in Sessions, SseAnnounce(x, q)
          PROVE  Goal
      <3>1. resync' = resync /\ SendTo(q, PeerJoined(x))
        BY <2>3 DEF SseAnnounce
      <3>2. InQueue(s, p) => InQueue(s, p)'
        BY <1>1, <3>1, SendOn
      <3> QED  BY <1>2, <2>1, <3>1, <3>2 DEF Hears, InEarly, InResync
    <2>4. CASE SseReturn(x)
      <3>1. /\ sse[x].pc = "announce" /\ queue' = queue
            /\ x # s => resync'[s] = resync[s]
        BY <1>1, <2>4 DEF SseReturn
      <3> QED  BY <1>3, <2>1, <3>1
    <2> QED  BY <1>10, <2>2, <2>3, <2>4 DEF Handler
  <1>11. ASSUME \/ UNCHANGED <<queue, early, resync>>
                \/ \E x \in Sessions : CloseStream(x) /\ early' = early
         PROVE  Goal
    BY <1>3, <1>4, <1>11
  <1>12. ASSUME \/ UNCHANGED meshVars
                \/ \E x \in Sessions : \/ Enter(x) \/ OpenEvents(x)
                                       \/ BuildMesh(x) \/ MeshReady(x)
                \/ \E x, y \in Sessions : PerformOp(x, y) \/ FailOp(x, y) \/ Gather(x, y)
                \/ \E r \in posts : PostFails(r)
         PROVE  UNCHANGED <<queue, early, resync>>
    BY <1>12 DEF meshVars, pageVars, vars, streamVars, Enter, Join, OpenEvents,
                 SseSnapshot, BuildMesh, MeshReady, PerformOp, FailOp, Gather,
                 PostFails, Posted
  <1>13. ASSUME NEW x \in Sessions, BreakStream(x) \/ EndStream(x)
         PROVE  CloseStream(x) /\ early' = early
    BY <1>13 DEF BreakStream, EndStream, Disconnect, StreamLagged, pageVars
  <1>14. ASSUME ServerStep
         PROVE  Goal
    BY <1>10, <1>14 DEF ServerStep
  <1> HIDE DEF Goal
  <1>15. Goal
    <2>1. ASSUME \E x \in Sessions : ReadResync(x) \/ ReadEvent(x) \/ Replay(x) \/ Leave(x)
          PROVE  Goal
      BY <1>5, <1>6, <1>7, <1>8, <2>1
    <2>2. ASSUME \E x \in Sessions : BreakStream(x) \/ EndStream(x)
          PROVE  Goal
      BY <1>11, <1>13, <2>2
    <2>3. ASSUME \E r \in posts : Relay(r)
          PROVE  Goal
      BY <1>9, <2>3
    <2> QED  BY <1>11, <1>12, <1>14, <2>1, <2>2, <2>3 DEF MeshNext
  <1> QED  BY <1>15 DEF Goal

\* Two pages that listen stay met.
LEMMA AllMetStep ==
    MeshInv /\ IsFiniteSet(posts) /\ Seated /\ Rosters /\ AllMet
      /\ [MeshNext]_meshVars => AllMet'
  <1> SUFFICES ASSUME MeshInv, IsFiniteSet(posts), Seated, Rosters, AllMet,
                      [MeshNext]_meshVars,
                      NEW s \in Sessions, NEW p \in Sessions, s # p,
                      live'[s] = "subscribed", ~Overrun(s)', live'[p] = "subscribed"
               PROVE  Hears(s, p)' \/ sse'[s].pc # "idle" \/ Announced(s, p)'
    BY DEF AllMet, HaveMet
  <1>1. TypeOK /\ [Next]_vars
    BY ServerStepped DEF MeshInv, MeshTypeOK
  <1>2. /\ live[s] # "subscribed" => sse'[s].pc # "idle"
        /\ live[p] # "subscribed" => Announced(s, p)'
        /\ ~Overrun(s)
        /\ live[p] = "subscribed" /\ sse[s].pc # "idle" =>
             sse'[s].pc # "idle" \/ InResync(s, p)'
        /\ live[s] = "subscribed" /\ Announced(s, p) =>
             Announced(s, p)' \/ InQueue(s, p)'
    BY <1>1, StreamsOn
  <1>3. Hears(s, p) => Hears(s, p)' \/ sse[s].pc # "idle"
    BY HearsOn
  <1>4. InQueue(s, p)' \/ InResync(s, p)' => Hears(s, p)'
    BY DEF Hears
  <1>5. live[s] = "subscribed" /\ live[p] = "subscribed" =>
          Hears(s, p) \/ sse[s].pc # "idle" \/ Announced(s, p)
    BY <1>2 DEF AllMet, HaveMet
  <1> QED  BY <1>2, <1>3, <1>4, <1>5

\* A mesh that is built has read what was kept for it.
LEMMA ReadyReadStep == MeshInv /\ ReadyRead /\ [MeshNext]_meshVars => ReadyRead'
  <1> SUFFICES ASSUME MeshInv, ReadyRead, [MeshNext]_meshVars,
                      NEW s \in Sessions, page'[s] = "ready"
               PROVE  early'[s] = << >>
    BY DEF ReadyRead
  <1>1. /\ page \in [Sessions -> {"away", "joined", "replaying", "ready"}]
        /\ early \in [Sessions -> Seq(Event \cup ResyncRead)]
    BY DEF MeshInv, MeshTypeOK
  <1>2. page[s] = "ready" => early[s] = << >>
    BY DEF ReadyRead
  <1>3. CASE page'[s] = page[s] /\ early'[s] = early[s]
    BY <1>2, <1>3
  <1>4. ASSUME NEW x \in Sessions, Enter(x) \/ BuildMesh(x)
        PROVE  early' = early /\ page'[x] # "ready" /\ (x # s => page'[s] = page[s])
    BY <1>1, <1>4 DEF Enter, BuildMesh
  <1>5. ASSUME NEW x \in Sessions, MeshReady(x)
        PROVE  /\ early' = early /\ (x = s => early[s] = << >>)
               /\ x # s => page'[s] = page[s]
    BY <1>1, <1>5 DEF MeshReady
  <1>6. ASSUME NEW x \in Sessions, Leave(x)
        PROVE  /\ page'[x] = "away"
               /\ x # s => page'[s] = page[s] /\ early'[s] = early[s]
    BY <1>1, <1>6 DEF Leave
  <1>7. ASSUME NEW x \in Sessions, NEW e, ToMesh(x, e)
        PROVE  page'[s] = page[s] /\ (page[s] = "ready" => early'[s] = early[s])
    BY <1>1, <1>7 DEF ToMesh
  <1>8. ASSUME NEW x \in Sessions, Replay(x)
        PROVE  /\ page' = page /\ page[x] # "ready"
               /\ x # s => early'[s] = early[s]
    BY <1>1, <1>8 DEF Replay
  <1>9. CASE \E x \in Sessions : \/ Enter(x) \/ BuildMesh(x) \/ MeshReady(x)
                                \/ Leave(x) \/ Replay(x)
    BY <1>2, <1>4, <1>5, <1>6, <1>8, <1>9
  <1>10. CASE \E x \in Sessions : ReadResync(x) \/ ReadEvent(x)
    BY <1>2, <1>7, <1>10 DEF ReadResync, ReadEvent
  <1> QED  BY <1>3, <1>9, <1>10, Frame DEF MeshNext

-----------------------------------------------------------------------------
(* Everything together. *)

MeetInv == Seated /\ Rosters /\ AllMet /\ ReadyRead
ConnectInv == LinksInv /\ MeetInv

LEMMA ConnectInvInit == MeshInit => ConnectInv
  <1> SUFFICES ASSUME MeshInit PROVE ConnectInv
    OBVIOUS
  <1>1. CandidatesInv /\ Seated
    BY CandidatesInvInit, SeatedInit DEF MeshInit
  <1>2. \A s, p \in Sessions : peers[s][p] = NoHandle
    BY DEF MeshInit, NoPeers
  <1>3. \A s \in Sessions : sse[s].pc = "idle" /\ live[s] = "closed" /\ early[s] = << >>
    BY DEF MeshInit, Init, SseIdle
  <1>4. Rosters /\ AllMet /\ ReadyRead
    BY <1>3 DEF Rosters, AllMet, HaveMet, ReadyRead
  <1>5. ASSUME NEW a \in Sessions, NEW b \in Sessions
        PROVE  LinkOK(a, b)
    <2>1. peers[a][b] = NoHandle /\ peers[b][a] = NoHandle
      BY <1>2
    <2>2. \A h, O, A : Linking(NoHandle, h, O, A)
      BY DEF Linking
    <2>3. Attended(NoHandle) /\ \A mine : Said(NoHandle, mine)
      BY DEF Attended, Said
    <2>4. {"offer", "answer"} \subseteq SignalKinds
      BY MeshAssumption
    <2>5. \A s, p \in Sessions, mine \in BOOLEAN : SaidOnly(Unread(s, p), mine)
      <3> TAKE s, p \in Sessions, mine \in BOOLEAN
      <3>1. WordKind(mine) \in SignalKinds
        BY <2>4 DEF WordKind
      <3> QED  BY <3>1, UnreadInit DEF SaidOnly
    <2> QED  BY <2>1, <2>2, <2>3, <2>5 DEF LinkOK
  <1> QED  BY <1>1, <1>4, <1>5 DEF ConnectInv, LinksInv, MeetInv, AllLinked

LEMMA ConnectInvStep == ConnectInv /\ [MeshNext]_meshVars => ConnectInv'
  <1> SUFFICES ASSUME ConnectInv, [MeshNext]_meshVars PROVE ConnectInv'
    OBVIOUS
  <1>1. /\ CandidatesInv /\ AllLinked /\ Seated /\ Rosters /\ AllMet /\ ReadyRead
        /\ MeshInv /\ IsFiniteSet(posts) /\ TypeOK
    BY DEF ConnectInv, LinksInv, MeetInv, CandidatesInv, TurnInv, MeshInv, MeshTypeOK
  <1>2. [Next]_vars
    BY <1>1, ServerStepped DEF MeshInv
  <1>3. CandidatesInv' /\ AllLinked'
    BY <1>1, CandidatesInvStep, AllLinkedStep DEF LinksInv
  <1>4. Seated' /\ Rosters'
    BY <1>1, <1>2, SeatedStep, RostersStep
  <1>5. AllMet' /\ ReadyRead'
    BY <1>1, AllMetStep, ReadyReadStep
  <1> QED  BY <1>3, <1>4, <1>5 DEF ConnectInv, LinksInv, MeetInv

LEMMA ConnectInvHolds == MeshSpec => []ConnectInv
  BY ConnectInvInit, ConnectInvStep, PTL DEF MeshSpec

-----------------------------------------------------------------------------
(* A pair that has settled. *)

\* A page that has read everything has a connection with whoever listens.
LEMMA UpToDateMet ==
    ASSUME MeetInv, TypeOK, NEW s \in Sessions, NEW p \in Sessions, s # p,
           UpToDate(s), Listening(p)
    PROVE  peers[s][p] # NoHandle
  <1>1. /\ live[s] = "subscribed" /\ live[p] = "subscribed"
        /\ sse[s] = SseIdle /\ sse[p] = SseIdle
        /\ page[s] = "ready" /\ resync[s] = None /\ queue[s] = << >>
    BY DEF UpToDate, Listening, Streaming
  <1>2. early[s] = << >>
    BY <1>1 DEF MeetInv, ReadyRead
  <1>3. Len(<< >>) = 0 /\ BufferSize \in Nat
    BY EmptySeq, ServerAssumption
  <1>4. ~Overrun(s)
    BY <1>1, <1>3 DEF Overrun
  <1>5. Hears(s, p) \/ sse[s].pc # "idle" \/ Announced(s, p)
    BY <1>1, <1>4 DEF MeetInv, AllMet, HaveMet
  <1>6. SseIdle.pc = "idle"
    BY DEF SseIdle
  <1> QED  BY <1>1, <1>2, <1>3, <1>5, <1>6
             DEF Hears, Announced, InEarly, InQueue, InResync

\* Nothing of the one is still to be read by the other.
LEMMA SettledUnread ==
    ASSUME MeetInv, NEW s \in Sessions, NEW p \in Sessions,
           NEW x \in Sessions, NEW y \in Sessions, {x, y} = {s, p},
           Settled(s, p), NEW k \in SignalKinds, NEW B \in SUBSET Bodies
    PROVE  Unread(x, y)[k][B] = 0
  <1>1. queue[x] = << >> /\ page[x] = "ready"
    BY DEF Settled, UpToDate
  <1>2. early[x] = << >>
    BY <1>1 DEF MeetInv, ReadyRead
  <1>3. posts \cap [from : {y}, to : {x}, type : {k}, body : B] = {}
    <2>1. \A r \in posts : {r.from, r.to} # {x, y}
      BY DEF Settled
    <2> QED  BY <2>1
  <1>4. Unread(x, y)[k][B] =
          Cardinality(posts \cap [from : {y}, to : {x}, type : {k}, body : B])
            + Count(queue[x], SignalsOf(y, k, B))
            + Count(early[x], SignalsOf(y, k, B))
    BY DEF Unread, Mail
  <1>5. Cardinality(posts \cap [from : {y}, to : {x}, type : {k}, body : B]) = 0
    BY <1>3, FS_EmptySet
  <1>6. /\ Count(queue[x], SignalsOf(y, k, B)) = 0
        /\ Count(early[x], SignalsOf(y, k, B)) = 0
    BY <1>1, <1>2, CountEmpty
  <1> QED  BY <1>4, <1>5, <1>6

\* A handle that has nothing to do, and a remote description, is at rest.
LEMMA RestingHandle ==
    ASSUME NEW h \in Handle(Bodies), h.ops = << >>, h.remote_set,
           Tidy(h), Attended(h),
           h.signaling = "have-local-offer" => h.remote = NoBody
    PROVE  /\ h.remote # NoBody
           /\ h.signaling = "stable"
           /\ h.local
           /\ h.pending = << >>
  <1>1. h # NoHandle
    BY HandleIsNotNone
  <1>2. h.remote # NoBody
    BY <1>1 DEF Tidy
  <1>3. Count(h.ops, DrainingOps) = 0 /\ Count(h.ops, AnswerOps) = 0
    BY CountEmpty
  <1>4. h.signaling \in {"stable", "have-local-offer", "have-remote-offer"}
    BY DEF Handle
  <1> QED  BY <1>1, <1>2, <1>3, <1>4 DEF Attended

\* All candidates of the other have been added to it.
LEMMA AllAdded ==
    ASSUME NEW h \in Handle(Bodies), h.ops = << >>, h.pending = << >>,
           NEW g \in Handle(Bodies), g.gathered = MaxCandidates,
           NEW n, Balanced(h, g, n), \A b \in Bodies : n["ice"][{b}] = 0
    PROVE  {h.added[i] : i \in 1 .. Len(h.added)} =
             {<<1, j>> : j \in 1 .. MaxCandidates}
  <1>1. h # NoHandle /\ g # NoHandle /\ h.added \in Seq(Bodies)
    BY HandleIsNotNone DEF Handle
  <1>2. \A b \in Bodies :
          Count(h.added, {b}) = IF b[1] = 1 /\ b[2] \in 1 .. MaxCandidates THEN 1 ELSE 0
    <2> TAKE b \in Bodies
    <2>1. Kept(h, b) = Count(h.added, {b})
      <3>1. Kept(h, b) = Count(h.pending, {b}) + Count(h.added, {b})
              + Count(h.ops, [do : {"add"}, body : {b}, then : {"end", "answer"}])
        BY <1>1 DEF Kept
      <3>2. /\ Count(h.pending, {b}) = 0
            /\ Count(h.ops, [do : {"add"}, body : {b}, then : {"end", "answer"}]) = 0
        BY CountEmpty
      <3>3. Count(h.added, {b}) \in Nat
        BY <1>1, CountType
      <3> QED  BY <3>1, <3>2, <3>3
    <2>2. Gathered(g) = MaxCandidates
      BY <1>1 DEF Gathered
    <2>3. Count(h.added, {b}) \in Nat
      BY <1>1, CountType
    <2>4. n["ice"][{b}] + Kept(h, b) =
            IF b[1] = 1 /\ b[2] \in 1 .. Gathered(g) THEN 1 ELSE 0
      BY DEF Balanced
    <2>5. n["ice"][{b}] = 0
      OBVIOUS
    <2> QED  BY <2>1, <2>2, <2>3, <2>4, <2>5
  <1>3. \A b \in Bodies : Count(h.added, {b}) = 0 <=>
          \A i \in 1 .. Len(h.added) : h.added[i] \notin {b}
    BY <1>1, CountType
  <1>4. \A b \in Bodies : (b[1] = 1 /\ b[2] \in 1 .. MaxCandidates) <=>
          \E i \in 1 .. Len(h.added) : h.added[i] = b
    <2> TAKE b \in Bodies
    <2>1. (b[1] = 1 /\ b[2] \in 1 .. MaxCandidates) <=> Count(h.added, {b}) # 0
      BY <1>2
    <2>2. Count(h.added, {b}) # 0 <=> \E i \in 1 .. Len(h.added) : h.added[i] \in {b}
      BY <1>3
    <2> QED  BY <2>1, <2>2
  <1>5. \A i \in 1 .. Len(h.added) : h.added[i] \in Bodies
    BY <1>1, ElementOfSeq
  <1>6. \A b \in Bodies : b = <<b[1], b[2]>>
    BY MeshAssumption
  <1>7. \A j \in 1 .. MaxCandidates : <<1, j>> \in Bodies
    BY MeshAssumption
  <1>8. ASSUME NEW i \in 1 .. Len(h.added)
        PROVE  \E j \in 1 .. MaxCandidates : h.added[i] = <<1, j>>
    <2> DEFINE b == h.added[i]
    <2>1. b \in Bodies
      BY <1>5
    <2>2. b[1] = 1 /\ b[2] \in 1 .. MaxCandidates
      BY <1>4, <2>1
    <2>3. b = <<b[1], b[2]>>
      BY <1>6, <2>1
    <2> QED  BY <2>2, <2>3
  <1>9. ASSUME NEW j \in 1 .. MaxCandidates
        PROVE  \E i \in 1 .. Len(h.added) : h.added[i] = <<1, j>>
    <2> DEFINE b == <<1, j>>
    <2>1. b \in Bodies /\ b[1] = 1 /\ b[2] = j
      BY <1>7
    <2> HIDE DEF b
    <2>2. \E i \in 1 .. Len(h.added) : h.added[i] = b
      BY <1>4, <2>1
    <2> QED  BY <2>2 DEF b
  <1> DEFINE added == {h.added[i] : i \in 1 .. Len(h.added)}
             all   == {<<1, j>> : j \in 1 .. MaxCandidates}
  <1>10. added \subseteq all
    BY <1>8
  <1>11. all \subseteq added
    <2> SUFFICES ASSUME NEW c \in all PROVE c \in added
      OBVIOUS
    <2>1. PICK j \in 1 .. MaxCandidates : c = <<1, j>>
      OBVIOUS
    <2>2. PICK i \in 1 .. Len(h.added) : h.added[i] = <<1, j>>
      BY <1>9
    <2> QED  BY <2>1, <2>2
  <1> QED  BY <1>10, <1>11

\* The handles of a settled pair in which nothing was lost.
LEMMA SettledPairLinked ==
    ASSUME ConnectInv, NEW a \in Sessions, NEW b \in Sessions, WeInitiate(a, b),
           Settled(a, b), FirstVisits(a, b), loss[a][b] = "none"
    PROVE  Linked(a, b)
  <1> DEFINE h == peers[a][b]
             g == peers[b][a]
  <1>1. /\ MeshInv /\ TypeOK /\ MeetInv /\ AllFine /\ AllLinked
        /\ a # b /\ ~WeInitiate(b, a) /\ WeInitiate(b, a) \in BOOLEAN
    BY InitiateType DEF ConnectInv, LinksInv, CandidatesInv, TurnInv, MeshInv, MeshTypeOK
  <1>2. /\ UpToDate(a) /\ UpToDate(b)
        /\ Listening(a) /\ Listening(b)
    BY DEF Settled, UpToDate
  <1>3. h # NoHandle /\ g # NoHandle
    BY <1>1, <1>2, UpToDateMet
  <1>4. h \in Handle(Bodies) /\ g \in Handle(Bodies)
    BY <1>1, <1>3, PeersType
  <1>5. g.signaling # "have-local-offer"
    <2>1. g \in FitHandle(WeInitiate(b, a))
      BY <1>1, <1>3 DEF MeshInv, PagesFit, FitMesh, FitPeer
    <2> QED  BY <1>1, <2>1 DEF FitHandle
  <1>6. /\ page[a] = "ready" /\ page[b] = "ready"
        /\ h.ops = << >> /\ g.ops = << >>
        /\ h.local => h.gathered = MaxCandidates
        /\ g.local => g.gathered = MaxCandidates
    BY <1>1, <1>3 DEF Settled, UpToDate
  <1>7. FineOK(a, b) /\ LinkOK(a, b)
    <2>1. Undisturbed(a, b)
      BY <1>6 DEF Undisturbed, Staying, FirstVisits
    <2> QED  BY <1>1, <2>1 DEF AllFine, AllLinked
  <1>8. /\ Unread(b, a)["offer"][Bodies] = 0
        /\ Unread(a, b)["answer"][Bodies] = 0
        /\ \A c \in Bodies : Unread(a, b)["ice"][{c}] = 0 /\ Unread(b, a)["ice"][{c}] = 0
    <2>1. {"offer", "answer", "ice"} \subseteq SignalKinds /\ Bodies \in SUBSET Bodies
      BY MeshAssumption
    <2>2. \A k \in SignalKinds, B \in SUBSET Bodies :
            Unread(a, b)[k][B] = 0 /\ Unread(b, a)[k][B] = 0
      BY <1>1, SettledUnread
    <2> QED  BY <2>1, <2>2
  <1>9. /\ Tidy(h) /\ Tidy(g)
        /\ Balanced(h, g, Unread(a, b)) /\ Balanced(g, h, Unread(b, a))
    BY <1>7 DEF FineOK, Orderly
  <1>10. /\ Linking(h, g, 0, 0) /\ Attended(h) /\ Attended(g)
         /\ Said(h, TRUE) /\ Said(g, FALSE)
    BY <1>7, <1>8 DEF LinkOK
  <1> HIDE DEF h, g
  <1>11. \A S : OpsIn(h, S) = 0 /\ OpsIn(g, S) = 0
    BY <1>6, CountEmpty DEF OpsIn
  <1>12. h.remote # NoBody /\ h.signaling = "stable" /\ g.remote_set
    BY <1>3, <1>10, <1>11 DEF Linking
  <1>13. h.remote_set
    BY <1>3, <1>9, <1>12, <1>4 DEF Tidy, Handle
  <1>14. h.local /\ h.pending = << >>
    BY <1>4, <1>6, <1>9, <1>10, <1>12, <1>13, RestingHandle
  <1>15. g.remote # NoBody /\ g.signaling = "stable" /\ g.local /\ g.pending = << >>
    BY <1>4, <1>5, <1>6, <1>9, <1>10, <1>12, RestingHandle
  <1>16. h.remote = <<1, 1>> /\ g.remote = <<1, 0>>
    <2>1. h \in SaidHandle(Word(TRUE)) /\ g \in SaidHandle(Word(FALSE))
      BY <1>3, <1>10 DEF Said
    <2> QED  BY <1>12, <1>15, <2>1 DEF SaidHandle, Word
  <1>17. {h.added[i] : i \in 1 .. Len(h.added)} = {<<1, j>> : j \in 1 .. MaxCandidates}
    BY <1>4, <1>6, <1>8, <1>9, <1>14, <1>15, AllAdded
  <1>18. {g.added[i] : i \in 1 .. Len(g.added)} = {<<1, j>> : j \in 1 .. MaxCandidates}
    BY <1>4, <1>6, <1>8, <1>9, <1>14, <1>15, AllAdded
  <1>19. visit[a] = 1 /\ visit[b] = 1
    BY DEF FirstVisits
  <1> QED  BY <1>3, <1>12, <1>15, <1>16, <1>17, <1>18, <1>19 DEF Linked, h, g

\* Whatever signals are lost, however often pages are reloaded, streams break
\* or lag: a page that has read everything has a connection with every page
\* that listens (handle_sse, server/mod.rs:138-168; sse_handler,
\* pages/room.rs:562-587).
THEOREM PagesHaveMet == MeshSpec => []PagesMeet
  <1>1. ConnectInv => PagesMeet
    BY UpToDateMet DEF ConnectInv, LinksInv, CandidatesInv, TurnInv, MeshInv,
                       MeshTypeOK, PagesMeet
  <1> QED  BY <1>1, ConnectInvHolds, PTL

\* In whatever order two pages join, open and reopen their streams, build their
\* meshes and overtake each other's signals, and for any number of sessions,
\* candidates and breaks: once everything is read, a pair that lost no signal
\* is connected and has all candidates (services/webrtc.rs:6-11,
\* server/mod.rs:153-157).
THEOREM UndisturbedPairsAreLinked == MeshSpec => []UndisturbedPairsLink
  <1>1. ConnectInv => UndisturbedPairsLink
    BY SettledPairLinked DEF UndisturbedPairsLink
  <1> QED  BY <1>1, ConnectInvHolds, PTL
=============================================================================
