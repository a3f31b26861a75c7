------------------------- MODULE MeshSignals_proofs -------------------------
(***************************************************************************)
(* Proofs about the signals of a pair: what two pages still have to say to *)
(* each other is in one place at a time, for every set of sessions, any    *)
(* number of candidates, and whatever is lost.                             *)
(*                                                                         *)
(* The argument is in numbers: how many operations of an offer, of an      *)
(* answer, of a candidate wait on the two connections, and how many        *)
(* signals are on their way between them (Mesh_proofs).  Every             *)
(* candidate is counted for itself.                                        *)
(***************************************************************************)
EXTENDS Mesh_proofs

-----------------------------------------------------------------------------
(* One at a time: the offer, the answer. *)

Mails == [SignalKinds -> [SUBSET Bodies -> Nat]]

\* A connection that takes an offer, or none yet.
Fresh(g) == g = NoHandle \/ (~g.remote_set /\ g.signaling = "stable")

\* Of an offer, from its making to the taking of its answer, there is one at
\* most between the handle h of the initiator and the handle g of the other.
Turn(h, g, offers, answers, silent) ==
    LET making  == OpsIn(h, OfferOps) + offers
        replied == OpsIn(g, AnswerOps) + answers + OpsIn(h, TakeOps)
    IN  /\ making + replied <= 1
        /\ silent => making + replied = 0 /\ Fresh(g)
        /\ making # 0 => Fresh(g)
        /\ h # NoHandle =>
             /\ h.negotiated
             /\ offers + replied # 0 => h.signaling = "have-local-offer"

LEMMA OpsInType ==
    ASSUME NEW h \in Handle(Bodies) \cup {NoHandle}, NEW S
    PROVE  OpsIn(h, S) \in Nat
  BY TokensType DEF OpsIn, Handle

\* An event among the signals of p.
LEMMA TakenOf ==
    ASSUME NEW s \in Sessions, NEW p \in Sessions,
           NEW e \in FitEvent(s) \cup ResyncRead,
           NEW k \in SignalKinds, NEW B \in SUBSET Bodies
    PROVE  e \in SignalsOf(p, k, B) <=> e.type = k /\ e.from = p /\ e.body \in B
  BY ServerAssumption, MeshAssumption DEF FitEvent, Event, ResyncRead, SignalsOf

LEMMA BodyOf ==
    ASSUME NEW s \in Sessions, NEW e \in FitEvent(s) \cup ResyncRead,
           e.type \in SignalKinds
    PROVE  e.body \in Bodies /\ e.from \in Sessions /\ e \in FitEvent(s)
  BY ServerAssumption, MeshAssumption DEF FitEvent, Event, ResyncRead

\* How the numbers of offers and answers change.
LEMMA TakenNumbers ==
    ASSUME NEW s \in Sessions, NEW p \in Sessions,
           NEW e \in FitEvent(s) \cup ResyncRead,
           NEW n \in Mails, NEW n2 \in Mails, Taken(n, n2, p, e),
           NEW k \in SignalKinds
    PROVE  n[k][Bodies] = n2[k][Bodies] + (IF e.type = k /\ e.from = p THEN 1 ELSE 0)
  <1>1. Bodies \in SUBSET Bodies
    OBVIOUS
  <1>2. n[k][Bodies] =
          n2[k][Bodies] + (IF e \in SignalsOf(p, k, Bodies) THEN 1 ELSE 0)
    BY <1>1 DEF Taken
  <1>3. e \in SignalsOf(p, k, Bodies) <=> e.type = k /\ e.from = p
    BY <1>1, TakenOf, BodyOf
  <1> QED  BY <1>2, <1>3

LEMMA MailNumbers ==
    ASSUME NEW m \in Mails, NEW m2 \in Mails, NEW k \in SignalKinds
    PROVE  /\ m[k][Bodies] \in Nat
           /\ Fewer(m, m2) => m2[k][Bodies] <= m[k][Bodies]
           /\ \A kind, body : Sent(m, m2, kind, body) =>
                 /\ m2[k][Bodies] = m[k][Bodies] \/ m2[k][Bodies] = m[k][Bodies] + 1
                 /\ kind # k => m2[k][Bodies] = m[k][Bodies]
  <1>1. Bodies \in SUBSET Bodies
    OBVIOUS
  <1>2. m[k][Bodies] \in Nat
    BY <1>1 DEF Mails
  <1>3. Fewer(m, m2) => m2[k][Bodies] <= m[k][Bodies]
    BY <1>1 DEF Fewer
  <1>4. ASSUME NEW kind, NEW body, Sent(m, m2, kind, body)
        PROVE  /\ m2[k][Bodies] = m[k][Bodies] \/ m2[k][Bodies] = m[k][Bodies] + 1
               /\ kind # k => m2[k][Bodies] = m[k][Bodies]
    <2>1. \/ m2[k][Bodies] = m[k][Bodies]
          \/ m2[k][Bodies] =
               m[k][Bodies] + (IF k = kind /\ body \in Bodies THEN 1 ELSE 0)
      BY <1>1, <1>4 DEF Sent
    <2> QED  BY <1>2, <2>1
  <1> QED  BY <1>2, <1>3, <1>4

\* Handles that offer, wait and are marked alike.
Akin(h, k) ==
    \/ h = NoHandle /\ k = NoHandle
    \/ /\ h # NoHandle
       /\ k # NoHandle
       /\ k.negotiated = h.negotiated
       /\ k.signaling = h.signaling

\* What an initiator may do, in numbers: o and t are the operations of an offer
\* and of taking the answer, O and A the offers and answers on their way.
OffererDoes(h, k, O, O2, A, A2) ==
    LET o  == OpsIn(h, OfferOps)
        o2 == OpsIn(k, OfferOps)
        t  == OpsIn(h, TakeOps)
        t2 == OpsIn(k, TakeOps)
    IN  \/ Akin(h, k) /\ o2 <= o /\ t2 <= t /\ O2 <= O /\ A2 <= A
        \/ /\ h = NoHandle /\ k # NoHandle /\ k.negotiated
           /\ o2 = 1 /\ t2 = 0 /\ O2 = O /\ A2 <= A
        \/ /\ Akin(h, k) /\ h # NoHandle /\ h.signaling = "have-local-offer"
           /\ o2 = o /\ t2 = t + 1 /\ O2 = O /\ A = A2 + 1
        \/ /\ h # NoHandle /\ k # NoHandle /\ k.negotiated = h.negotiated
           /\ k.signaling = "have-local-offer"
           /\ o = o2 + 1 /\ t2 = t /\ O2 <= O + 1 /\ A2 = A
        \/ /\ h # NoHandle /\ k # NoHandle /\ k.negotiated = h.negotiated
           /\ o2 = o /\ t = t2 + 1 /\ O2 = O /\ A2 = A

TurnTypes(h, k, g, O, O2, A, A2, silent) ==
    /\ {h, k, g} \subseteq Handle(Bodies) \cup {NoHandle}
    /\ {O, O2, A, A2} \subseteq Nat
    /\ silent \in BOOLEAN

LEMMA TurnOfOfferer ==
    ASSUME NEW h, NEW k, NEW g, NEW O, NEW O2, NEW A, NEW A2, NEW silent,
           TurnTypes(h, k, g, O, O2, A, A2, silent),
           h = NoHandle => silent,
           Turn(h, g, O, A, silent),
           OffererDoes(h, k, O, O2, A, A2)
    PROVE  Turn(k, g, O2, A2, silent /\ k = NoHandle)
  <1> DEFINE o  == OpsIn(h, OfferOps)
             o2 == OpsIn(k, OfferOps)
             t  == OpsIn(h, TakeOps)
             t2 == OpsIn(k, TakeOps)
             a  == OpsIn(g, AnswerOps)
  <1>0. /\ h \in Handle(Bodies) \cup {NoHandle}
        /\ k \in Handle(Bodies) \cup {NoHandle}
        /\ g \in Handle(Bodies) \cup {NoHandle}
        /\ O \in Nat /\ O2 \in Nat /\ A \in Nat /\ A2 \in Nat
        /\ silent \in BOOLEAN
    BY DEF TurnTypes
  <1>1. o \in Nat /\ o2 \in Nat /\ t \in Nat /\ t2 \in Nat /\ a \in Nat
    BY <1>0, OpsInType
  <1>2. /\ o + O + (a + A + t) <= 1
        /\ silent => o + O + (a + A + t) = 0 /\ Fresh(g)
        /\ o + O # 0 => Fresh(g)
        /\ h # NoHandle =>
             /\ h.negotiated
             /\ O + (a + A + t) # 0 => h.signaling = "have-local-offer"
    BY DEF Turn
  <1>3. \/ Akin(h, k) /\ o2 <= o /\ t2 <= t /\ O2 <= O /\ A2 <= A
        \/ /\ h = NoHandle /\ k # NoHandle /\ k.negotiated
           /\ o2 = 1 /\ t2 = 0 /\ O2 = O /\ A2 <= A
        \/ /\ Akin(h, k) /\ h # NoHandle /\ h.signaling = "have-local-offer"
           /\ o2 = o /\ t2 = t + 1 /\ O2 = O /\ A = A2 + 1
        \/ /\ h # NoHandle /\ k # NoHandle /\ k.negotiated = h.negotiated
           /\ k.signaling = "have-local-offer"
           /\ o = o2 + 1 /\ t2 = t /\ O2 <= O + 1 /\ A2 = A
        \/ /\ h # NoHandle /\ k # NoHandle /\ k.negotiated = h.negotiated
           /\ o2 = o /\ t = t2 + 1 /\ O2 = O /\ A2 = A
    BY DEF OffererDoes
  <1> HIDE DEF o, o2, t, t2, a
  <1>4. /\ o2 + O2 + (a + A2 + t2) <= 1
        /\ silent /\ k = NoHandle => o2 + O2 + (a + A2 + t2) = 0 /\ Fresh(g)
        /\ o2 + O2 # 0 => Fresh(g)
        /\ k # NoHandle =>
             /\ k.negotiated
             /\ O2 + (a + A2 + t2) # 0 => k.signaling = "have-local-offer"
    <2>1. CASE Akin(h, k) /\ o2 <= o /\ t2 <= t /\ O2 <= O /\ A2 <= A
      BY <1>0, <1>1, <1>2, <2>1 DEF Akin
    <2>2. CASE /\ h = NoHandle /\ k # NoHandle /\ k.negotiated
               /\ o2 = 1 /\ t2 = 0 /\ O2 = O /\ A2 <= A
      BY <1>0, <1>1, <1>2, <2>2
    <2>3. CASE /\ Akin(h, k) /\ h # NoHandle /\ h.signaling = "have-local-offer"
               /\ o2 = o /\ t2 = t + 1 /\ O2 = O /\ A = A2 + 1
      BY <1>0, <1>1, <1>2, <2>3 DEF Akin
    <2>4. CASE /\ h # NoHandle /\ k # NoHandle /\ k.negotiated = h.negotiated
               /\ k.signaling = "have-local-offer"
               /\ o = o2 + 1 /\ t2 = t /\ O2 <= O + 1 /\ A2 = A
      BY <1>0, <1>1, <1>2, <2>4
    <2>5. CASE /\ h # NoHandle /\ k # NoHandle /\ k.negotiated = h.negotiated
               /\ o2 = o /\ t = t2 + 1 /\ O2 = O /\ A2 = A
      BY <1>0, <1>1, <1>2, <2>5
    <2> QED  BY <1>3, <2>1, <2>2, <2>3, <2>4, <2>5
  <1> QED  BY <1>4 DEF Turn, o2, t2, a

\* The first that an initiator makes of a peer it has no connection with.
LEMMA FirstOffer ==
    ASSUME NEW h \in Handle(Bodies) \cup {NoHandle}, h # NoHandle => h.negotiated,
           NEW f, f = MaybeOffer(Met(h), TRUE)
    PROVE  /\ f \in Handle(Bodies)
           /\ f.negotiated
           /\ h # NoHandle => f = h
           /\ h = NoHandle => /\ Count(f.ops, OfferOps) = 1
                              /\ Count(f.ops, TakeOps) = 0
  <1>1. Met(h) \in Handle(Bodies)
    BY NewHandleFits DEF Met, FitHandle
  <1>2. CASE h # NoHandle
    <2>1. Met(h) = h
      BY <1>2 DEF Met
    <2>2. MaybeOffer(h, TRUE) = h
      BY <1>2 DEF MaybeOffer
    <2> QED  BY <1>1, <1>2, <2>1, <2>2
  <1>3. CASE h = NoHandle
    <2> DEFINE o == [do |-> "create_offer", body |-> NoBody, then |-> "end"]
    <2>1. Met(h) = NewHandle
      BY <1>3 DEF Met
    <2>2. /\ ~NewHandle.negotiated
          /\ NewHandle.signaling = "stable"
          /\ NewHandle.remote = NoBody
          /\ NewHandle.ops = << >>
      BY DEF NewHandle
    <2>3. /\ f \in Handle(Bodies)
          /\ f.negotiated
          /\ f.ops = Append(NewHandle.ops, o)
      <3> DEFINE mine == TRUE
                 new  == NewHandle
      <3>1. /\ new \in Handle(Bodies) /\ mine \in BOOLEAN /\ mine
            /\ f = MaybeOffer(new, mine)
        BY <1>1, <2>1
      <3>2. ~new.negotiated /\ new.signaling = "stable" /\ new.remote = NoBody
        BY <2>2
      <3> HIDE DEF mine, new, o
      <3>3. /\ f \in Handle(Bodies)
            /\ f.negotiated
            /\ f.ops = Append(new.ops, [do |-> "create_offer", body |-> NoBody,
                                       then |-> "end"])
        <4>1. \A i \in BOOLEAN : \A x : x = MaybeOffer(new, i) =>
                 \/ ~(i /\ ~new.negotiated /\ new.signaling = "stable"
                        /\ new.remote = NoBody)
                 \/ /\ x \in Handle(Bodies)
                    /\ x.negotiated
                    /\ x.ops = Append(new.ops, [do |-> "create_offer", body |-> NoBody,
                                               then |-> "end"])
          BY <3>1, MaybeOfferDoes
        <4> QED  BY <3>1, <3>2, <4>1
      <3> QED  BY <3>3 DEF new, o
    <2>4. o \in Op(Bodies) /\ o.do = "create_offer"
      BY DEF Op
    <2> HIDE DEF o
    <2>5. << >> \in Seq(Op(Bodies))
      BY EmptySeq
    <2>6. /\ Count(Append(<< >>, o), OfferOps) = Count(<< >>, OfferOps)
               + (IF o.do \in {"create_offer", "local_offer"} THEN 1 ELSE 0)
          /\ Count(Append(<< >>, o), TakeOps) = Count(<< >>, TakeOps)
               + (IF o.do = "remote_answer" THEN 1 ELSE 0)
      BY <2>4, <2>5, CallTokens
    <2>7. Count(<< >>, OfferOps) = 0 /\ Count(<< >>, TakeOps) = 0
      BY CountEmpty
    <2>8. f.ops = Append(<< >>, o)
      BY <2>2, <2>3
    <2> DEFINE ops == Append(<< >>, o)
    <2>9. Count(ops, OfferOps) = 1 /\ Count(ops, TakeOps) = 0
      BY <2>4, <2>6, <2>7
    <2> HIDE DEF ops
    <2>10. Count(f.ops, OfferOps) = 1 /\ Count(f.ops, TakeOps) = 0
      BY <2>8, <2>9 DEF ops
    <2> QED  BY <1>3, <2>3, <2>10
  <1> QED  BY <1>2, <1>3

\* One less signal of a kind is unread if this event is one.
Counted(e, p, kind, N, N2) ==
    N = N2 + (IF e.type = kind /\ e.from = p THEN 1 ELSE 0)

\* What an initiator makes of an event.
LEMMA OffererReads ==
    ASSUME NEW s \in Sessions, NEW p \in Sessions, WeInitiate(s, p),
           NEW h \in Handle(Bodies) \cup {NoHandle}, h # NoHandle => h.negotiated,
           NEW e \in FitEvent(s) \cup ResyncRead,
           NEW k, Reads(h, k, p, TRUE, e),
           NEW O \in Nat, NEW A \in Nat, NEW A2 \in Nat,
           Counted(e, p, "answer", A, A2)
    PROVE  k \in Handle(Bodies) \cup {NoHandle} /\ OffererDoes(h, k, O, O, A, A2)
  <1> DEFINE f == MaybeOffer(Met(h), TRUE)
  <1>1. /\ f \in Handle(Bodies)
        /\ f.negotiated
        /\ h # NoHandle => f = h
        /\ h = NoHandle => Count(f.ops, OfferOps) = 1 /\ Count(f.ops, TakeOps) = 0
    BY FirstOffer
  <1>2. OpsIn(h, OfferOps) \in Nat /\ OpsIn(h, TakeOps) \in Nat
    BY OpsInType
  <1>3. ~(e.type = "offer" /\ e.from = p)
    BY InitiateType DEF FitEvent, ResyncRead
  <1>4. A2 <= A
    BY DEF Counted
  <1>5. ASSUME k \in Handle(Bodies), SameState(f, k),
               Count(k.ops, OfferOps) = Count(f.ops, OfferOps),
               Count(k.ops, TakeOps) = Count(f.ops, TakeOps)
        PROVE  OffererDoes(h, k, O, O, A, A2)
    <2>1. k # NoHandle
      BY <1>5, HandleIsNotNone
    <2>2. /\ OpsIn(k, OfferOps) = Count(f.ops, OfferOps)
          /\ OpsIn(k, TakeOps) = Count(f.ops, TakeOps)
      BY <1>5, <2>1 DEF OpsIn
    <2>3. CASE h = NoHandle
      <3>1. k.negotiated
        BY <1>1, <1>5 DEF SameState
      <3>2. OpsIn(k, OfferOps) = 1 /\ OpsIn(k, TakeOps) = 0
        BY <1>1, <2>2, <2>3
      <3> QED  BY <1>4, <2>1, <2>3, <3>1, <3>2 DEF OffererDoes
    <2>4. CASE h # NoHandle
      <3>1. /\ OpsIn(k, OfferOps) = OpsIn(h, OfferOps)
            /\ OpsIn(k, TakeOps) = OpsIn(h, TakeOps)
        BY <1>1, <2>2, <2>4 DEF OpsIn
      <3>2. Akin(h, k)
        BY <1>1, <1>5, <2>1, <2>4 DEF Akin, SameState
      <3> QED  BY <1>2, <1>4, <3>1, <3>2 DEF OffererDoes
    <2> QED  BY <2>3, <2>4
  <1>6. ASSUME k = h
        PROVE  OffererDoes(h, k, O, O, A, A2)
    BY <1>2, <1>4, <1>6 DEF OffererDoes, Akin
  <1>7. CASE k = f
    <2>1. k \in Handle(Bodies) /\ SameState(f, k)
      BY <1>1, <1>7 DEF SameState
    <2> HIDE DEF f
    <2> QED  BY <1>5, <1>7, <2>1
  <1>8. CASE e.type = "answer" /\ e.from = p
             /\ k = IF h = NoHandle THEN h ELSE ApplyAnswer(h, e.body)
    <2>1. CASE h = NoHandle \/ ~TakesAnswer(h)
      BY <1>6, <1>8, <2>1 DEF ApplyAnswer
    <2>2. CASE h # NoHandle /\ TakesAnswer(h)
      <3> DEFINE marked == [h EXCEPT !.remote_set = TRUE]
                 o == [do |-> "remote_answer", body |-> e.body, then |-> "end"]
      <3>1. e.type \in SignalKinds
        BY <1>8, MeshAssumption
      <3>2. e.body \in Bodies
        BY <3>1, BodyOf
      <3>3. o \in Op(Bodies) /\ o.do = "remote_answer"
        BY <3>2 DEF Op
      <3>4. /\ marked \in Handle(Bodies)
            /\ marked.negotiated = h.negotiated
            /\ marked.signaling = h.signaling
            /\ marked.ops = h.ops
        BY <2>2 DEF Handle
      <3>5. k = Call(marked, "remote_answer", e.body)
        BY <1>8, <2>2 DEF ApplyAnswer
      <3> HIDE DEF marked
      <3>6. /\ k \in Handle(Bodies)
            /\ SameState(marked, k)
            /\ k.ops = Append(marked.ops, o)
        BY <3>3, <3>4, <3>5, CallDoes
      <3> HIDE DEF o
      <3>7. h.ops \in Seq(Op(Bodies))
        BY <2>2 DEF Handle
      <3>8. /\ Count(Append(h.ops, o), OfferOps) = Count(h.ops, OfferOps)
                 + (IF o.do \in {"create_offer", "local_offer"} THEN 1 ELSE 0)
            /\ Count(Append(h.ops, o), TakeOps) = Count(h.ops, TakeOps)
                 + (IF o.do = "remote_answer" THEN 1 ELSE 0)
        BY <3>3, <3>7, CallTokens
      <3>9. k # NoHandle
        BY <3>6, HandleIsNotNone
      <3>10. /\ OpsIn(k, OfferOps) = Count(Append(h.ops, o), OfferOps)
             /\ OpsIn(k, TakeOps) = Count(Append(h.ops, o), TakeOps)
             /\ OpsIn(h, OfferOps) = Count(h.ops, OfferOps)
             /\ OpsIn(h, TakeOps) = Count(h.ops, TakeOps)
        BY <2>2, <3>4, <3>6, <3>9 DEF OpsIn
      <3>11. /\ OpsIn(k, OfferOps) = OpsIn(h, OfferOps)
             /\ OpsIn(k, TakeOps) = OpsIn(h, TakeOps) + 1
        BY <1>2, <3>3, <3>8, <3>10
      <3>12. Akin(h, k)
        BY <2>2, <3>4, <3>6, <3>9 DEF Akin, SameState
      <3>13. h.signaling = "have-local-offer"
        BY <2>2 DEF TakesAnswer
      <3>14. A = A2 + 1
        BY <1>8 DEF Counted
      <3> QED  BY <2>2, <3>6, <3>11, <3>12, <3>13, <3>14 DEF OffererDoes
    <2> QED  BY <1>8, <2>1, <2>2 DEF ApplyAnswer
  <1>9. CASE e.type = "ice" /\ e.from = p /\ k = OnIce(Met(h), TRUE, e.body)
    <2>1. e.body \in Bodies
      BY <1>9, BodyOf, MeshAssumption
    <2>2. Met(h) \in Handle(Bodies)
      BY NewHandleFits DEF Met, FitHandle
    <2>3. /\ k \in Handle(Bodies)
          /\ SameState(f, k)
          /\ Count(k.ops, OfferOps) = Count(f.ops, OfferOps)
          /\ Count(k.ops, TakeOps) = Count(f.ops, TakeOps)
      <3> DEFINE met  == Met(h)
                 mine == TRUE
                 b    == e.body
      <3>1. /\ met \in Handle(Bodies)
            /\ mine \in BOOLEAN
            /\ b \in Bodies
            /\ f = MaybeOffer(met, mine)
            /\ k = OnIce(met, mine, b)
        BY <1>9, <2>1, <2>2
      <3> HIDE DEF met, mine, b, f
      <3>2. f \in Handle(Bodies)
        BY <1>1
      <3> QED  BY <3>1, <3>2, OnIceDoes
    <2> HIDE DEF f
    <2> QED  BY <1>5, <2>3
  <1>10. CASE k = h
    BY <1>6, <1>10
  <1> QED  BY <1>3, <1>7, <1>8, <1>9, <1>10 DEF Reads

LEMMA OffererPerforms ==
    ASSUME NEW h \in FitHandle(TRUE), h.ops # << >>, NEW k, k = Performed(h),
           NEW O \in Nat, NEW O2 \in Nat, NEW A \in Nat,
           \/ O2 = O
           \/ Head(h.ops).do = "local_offer" /\ O2 = O + 1
    PROVE  k \in Handle(Bodies) /\ OffererDoes(h, k, O, O2, A, A)
  <1> DEFINE op == Head(h.ops)
  <1>1. h \in Handle(Bodies) /\ h # NoHandle
    BY HandleIsNotNone DEF FitHandle
  <1>2. op \in FitOp(h.remote # NoBody, TRUE)
    BY HeadTailProperties DEF FitHandle
  <1>3. op.do \in {"create_offer", "local_offer", "remote_answer", "add"}
    BY <1>2, OpKinds DEF FitOp
  <1>4. O2 = O \/ (op.do = "local_offer" /\ O2 = O + 1)
    OBVIOUS
  <1> HIDE DEF op
  <1>5. /\ k \in Handle(Bodies)
        /\ k.negotiated = h.negotiated
        /\ k.signaling = CASE op.do = "local_offer" -> "have-local-offer"
                           [] op.do = "remote_offer" -> "have-remote-offer"
                           [] op.do \in {"local_answer", "remote_answer"} -> "stable"
                           [] OTHER -> h.signaling
        /\ Count(h.ops, OfferOps) = Count(k.ops, OfferOps)
             + (IF op.do = "local_offer" THEN 1 ELSE 0)
        /\ Count(h.ops, TakeOps) = Count(k.ops, TakeOps)
             + (IF op.do = "remote_answer" THEN 1 ELSE 0)
    BY <1>1, PerformedDoes DEF op
  <1>6. k # NoHandle
    BY <1>5, HandleIsNotNone
  <1> DEFINE o  == OpsIn(h, OfferOps)
             o2 == OpsIn(k, OfferOps)
             t  == OpsIn(h, TakeOps)
             t2 == OpsIn(k, TakeOps)
  <1>7. o \in Nat /\ o2 \in Nat /\ t \in Nat /\ t2 \in Nat
    BY <1>1, <1>5, OpsInType
  <1>8. /\ o = o2 + (IF op.do = "local_offer" THEN 1 ELSE 0)
        /\ t = t2 + (IF op.do = "remote_answer" THEN 1 ELSE 0)
    BY <1>1, <1>5, <1>6 DEF OpsIn
  <1> HIDE DEF o, o2, t, t2
  <1>9. CASE op.do = "local_offer"
    <2>1. o = o2 + 1 /\ t2 = t /\ O2 <= O + 1
      BY <1>4, <1>7, <1>8, <1>9
    <2>2. k.signaling = "have-local-offer"
      BY <1>5, <1>9
    <2> QED  BY <1>1, <1>5, <1>6, <2>1, <2>2 DEF OffererDoes, o, o2, t, t2
  <1>10. CASE op.do = "remote_answer"
    <2>1. o2 = o /\ t = t2 + 1 /\ O2 = O
      BY <1>4, <1>7, <1>8, <1>10
    <2> QED  BY <1>1, <1>5, <1>6, <2>1 DEF OffererDoes, o, o2, t, t2
  <1>11. CASE op.do \in {"create_offer", "add"}
    <2>1. o2 <= o /\ t2 <= t /\ O2 <= O /\ A <= A
      BY <1>4, <1>7, <1>8, <1>11
    <2>2. Akin(h, k)
      BY <1>1, <1>5, <1>6, <1>11 DEF Akin
    <2> QED  BY <1>5, <2>1, <2>2 DEF OffererDoes, o, o2, t, t2
  <1> QED  BY <1>3, <1>9, <1>10, <1>11

\* A handle on which nothing is called but candidates.
LEMMA OffererKeeps ==
    ASSUME NEW h \in Handle(Bodies), NEW k \in Handle(Bodies),
           k.negotiated = h.negotiated, k.signaling = h.signaling,
           Count(k.ops, OfferOps) <= Count(h.ops, OfferOps),
           Count(k.ops, TakeOps) <= Count(h.ops, TakeOps),
           NEW O \in Nat, NEW O2 \in Nat, O2 <= O,
           NEW A \in Nat, NEW A2 \in Nat, A2 <= A
    PROVE  OffererDoes(h, k, O, O2, A, A2)
  <1>1. h # NoHandle /\ k # NoHandle
    BY HandleIsNotNone
  <1>2. Akin(h, k)
    BY <1>1 DEF Akin
  <1>3. /\ OpsIn(k, OfferOps) <= OpsIn(h, OfferOps)
        /\ OpsIn(k, TakeOps) <= OpsIn(h, TakeOps)
    BY <1>1 DEF OpsIn
  <1> QED  BY <1>2, <1>3 DEF OffererDoes

LEMMA SameCounts ==
    ASSUME NEW h \in Handle(Bodies), NEW k \in Handle(Bodies), k.ops = h.ops, NEW S
    PROVE  Count(k.ops, S) <= Count(h.ops, S)
  <1>1. Count(h.ops, S) \in Nat
    BY TokensType DEF Handle
  <1> QED  BY <1>1

LEMMA OffererHandles ==
    ASSUME NEW s \in Sessions, NEW p \in Sessions, WeInitiate(s, p),
           NEW h \in FitHandle(TRUE) \cup {NoHandle}, h # NoHandle => h.negotiated,
           NEW k, NEW m \in Mails, NEW m2 \in Mails, NEW n \in Mails, NEW n2 \in Mails,
           NEW lost, Handled(h, k, m, m2, n, n2, s, p, lost)
    PROVE  /\ k \in Handle(Bodies) \cup {NoHandle}
           /\ OffererDoes(h, k, m["offer"][Bodies], m2["offer"][Bodies],
                                n["answer"][Bodies], n2["answer"][Bodies])
  <1> DEFINE O  == m["offer"][Bodies]
             O2 == m2["offer"][Bodies]
             A  == n["answer"][Bodies]
             A2 == n2["answer"][Bodies]
  <1>1. "offer" \in SignalKinds /\ "answer" \in SignalKinds
    BY MeshAssumption
  <1>2. O \in Nat /\ O2 \in Nat /\ A \in Nat /\ A2 \in Nat
    BY <1>1, MailNumbers
  <1>3. h \in Handle(Bodies) \cup {NoHandle}
    BY DEF FitHandle
  <1>4. m2 = m => O2 = O
    OBVIOUS
  <1>5. n2 = n => A2 = A
    OBVIOUS
  <1>6. Fewer(m, m2) => O2 <= O
    BY <1>1, MailNumbers
  <1>7. ASSUME NEW kind, NEW body, Sent(m, m2, kind, body)
        PROVE  /\ O2 = O \/ O2 = O + 1
               /\ kind # "offer" => O2 = O
    BY <1>1, <1>7, MailNumbers
  <1>8. ASSUME NEW e \in FitEvent(s) \cup ResyncRead, Taken(n, n2, p, e)
        PROVE  Counted(e, p, "answer", A, A2)
    BY <1>1, <1>8, TakenNumbers DEF Counted
  <1> HIDE DEF O, O2, A, A2
  <1> SUFFICES k \in Handle(Bodies) \cup {NoHandle} /\ OffererDoes(h, k, O, O2, A, A2)
    BY DEF O, O2, A, A2
  <1>9. CASE Reading(h, k, m, m2, n, n2, s, p)
    <2>1. PICK e \in FitEvent(s) \cup ResyncRead :
             Reads(h, k, p, TRUE, e) /\ Taken(n, n2, p, e)
      BY <1>9, InitiateType DEF Reading
    <2>2. O2 = O
      BY <1>4, <1>9 DEF Reading
    <2>3. Counted(e, p, "answer", A, A2)
      BY <1>8, <2>1
    <2>4. k \in Handle(Bodies) \cup {NoHandle} /\ OffererDoes(h, k, O, O, A, A2)
      BY <1>2, <1>3, <2>1, <2>3, OffererReads
    <2> QED  BY <2>2, <2>4
  <1>10. CASE Performing(h, k, m, m2, n, n2, visit[s])
    <2>1. h \in FitHandle(TRUE) /\ h.ops # << >> /\ k = Performed(h) /\ A2 = A
      BY <1>5, <1>10 DEF Performing
    <2>2. \/ O2 = O
          \/ Head(h.ops).do = "local_offer" /\ O2 = O + 1
      BY <1>4, <1>7, <1>10 DEF Performing
    <2> QED  BY <1>2, <2>1, <2>2, OffererPerforms
  <1>11. CASE Failing(h, k, m, m2, n, n2, lost)
    <2>1. h \in Handle(Bodies) /\ h.ops # << >> /\ k = Failed(h) /\ O2 = O /\ A2 = A
      BY <1>3, <1>4, <1>5, <1>11 DEF Failing
    <2>2. /\ k \in Handle(Bodies)
          /\ SameState(h, k)
          /\ Count(k.ops, OfferOps) <= Count(h.ops, OfferOps)
          /\ Count(k.ops, TakeOps) <= Count(h.ops, TakeOps)
      BY <2>1, FailedDoes
    <2>3. k.negotiated = h.negotiated /\ k.signaling = h.signaling
      BY <2>2 DEF SameState
    <2>4. O2 <= O /\ A2 <= A
      BY <1>2, <2>1
    <2> QED  BY <1>2, <2>1, <2>2, <2>3, <2>4, OffererKeeps
  <1>12. CASE Gathering(h, k, m, m2, n, n2, visit[s])
    <2>1. /\ h \in Handle(Bodies)
          /\ k = [h EXCEPT !.gathered = h.gathered + 1]
          /\ A2 = A
      BY <1>3, <1>5, <1>12 DEF Gathering
    <2>2. O2 = O
      BY <1>7, <1>12 DEF Gathering
    <2>3. /\ k \in Handle(Bodies)
          /\ k.negotiated = h.negotiated
          /\ k.signaling = h.signaling
          /\ k.ops = h.ops
      BY <2>1 DEF Handle
    <2>4. /\ Count(k.ops, OfferOps) <= Count(h.ops, OfferOps)
          /\ Count(k.ops, TakeOps) <= Count(h.ops, TakeOps)
      BY <2>1, <2>3, SameCounts
    <2>5. O2 <= O /\ A2 <= A
      BY <1>2, <2>1, <2>2
    <2> QED  BY <1>2, <2>1, <2>3, <2>4, <2>5, OffererKeeps
  <1>13. CASE Draining(h, k, m, m2, n, n2, WeInitiate(s, p), lost)
    <2>1. h \in Handle(Bodies) /\ k = Drain(h, "end") /\ A2 = A
      BY <1>3, <1>5, <1>13 DEF Draining
    <2>2. O2 <= O /\ A2 <= A
      BY <1>2, <1>4, <1>6, <1>13, <2>1 DEF Draining
    <2>3. k \in Handle(Bodies) /\ SameState(h, k)
      BY <2>1, DrainDoes
    <2>4. /\ Count(k.ops, OfferOps) = Count(h.ops, OfferOps)
          /\ Count(k.ops, TakeOps) = Count(h.ops, TakeOps)
      BY <2>1, DrainTokens
    <2>5. Count(h.ops, OfferOps) \in Nat /\ Count(h.ops, TakeOps) \in Nat
      BY <2>1, TokensType DEF Handle
    <2>6. /\ Count(k.ops, OfferOps) <= Count(h.ops, OfferOps)
          /\ Count(k.ops, TakeOps) <= Count(h.ops, TakeOps)
      BY <2>4, <2>5
    <2>7. k.negotiated = h.negotiated /\ k.signaling = h.signaling
      BY <2>3 DEF SameState
    <2> QED  BY <1>2, <2>1, <2>2, <2>3, <2>6, <2>7, OffererKeeps
  <1> QED  BY <1>9, <1>10, <1>11, <1>12, <1>13 DEF Handled

\* What the other may do, in numbers: a are the operations of an answer.
AnswererDoes(g, k, O, O2, A, A2) ==
    LET a  == OpsIn(g, AnswerOps)
        a2 == OpsIn(k, AnswerOps)
    IN  \/ (Fresh(g) => Fresh(k)) /\ a2 <= a /\ O2 <= O /\ A2 <= A
        \/ a2 = a + 1 /\ O = O2 + 1 /\ A2 = A
        \/ a2 = a /\ a >= 1 /\ O2 = O /\ A2 = A
        \/ a = a2 + 1 /\ O2 = O /\ A2 <= A + 1

LEMMA TurnOfAnswerer ==
    ASSUME NEW h, NEW g, NEW k, NEW O, NEW O2, NEW A, NEW A2, NEW silent,
           TurnTypes(h, k, g, O, O2, A, A2, silent),
           Turn(h, g, O, A, silent),
           AnswererDoes(g, k, O, O2, A, A2)
    PROVE  Turn(h, k, O2, A2, silent)
  <1> DEFINE o  == OpsIn(h, OfferOps)
             t  == OpsIn(h, TakeOps)
             a  == OpsIn(g, AnswerOps)
             a2 == OpsIn(k, AnswerOps)
  <1>0. /\ h \in Handle(Bodies) \cup {NoHandle}
        /\ k \in Handle(Bodies) \cup {NoHandle}
        /\ g \in Handle(Bodies) \cup {NoHandle}
        /\ O \in Nat /\ O2 \in Nat /\ A \in Nat /\ A2 \in Nat
        /\ silent \in BOOLEAN
    BY DEF TurnTypes
  <1>1. o \in Nat /\ t \in Nat /\ a \in Nat /\ a2 \in Nat
    BY <1>0, OpsInType
  <1>2. /\ o + O + (a + A + t) <= 1
        /\ silent => o + O + (a + A + t) = 0 /\ Fresh(g)
        /\ o + O # 0 => Fresh(g)
        /\ h # NoHandle =>
             /\ h.negotiated
             /\ O + (a + A + t) # 0 => h.signaling = "have-local-offer"
    BY DEF Turn
  <1>3. \/ (Fresh(g) => Fresh(k)) /\ a2 <= a /\ O2 <= O /\ A2 <= A
        \/ a2 = a + 1 /\ O = O2 + 1 /\ A2 = A
        \/ a2 = a /\ a >= 1 /\ O2 = O /\ A2 = A
        \/ a = a2 + 1 /\ O2 = O /\ A2 <= A + 1
    BY DEF AnswererDoes
  <1> HIDE DEF o, t, a, a2
  <1>4. /\ o + O2 + (a2 + A2 + t) <= 1
        /\ silent => o + O2 + (a2 + A2 + t) = 0 /\ Fresh(k)
        /\ o + O2 # 0 => Fresh(k)
        /\ h # NoHandle =>
             /\ h.negotiated
             /\ O2 + (a2 + A2 + t) # 0 => h.signaling = "have-local-offer"
    <2>1. CASE (Fresh(g) => Fresh(k)) /\ a2 <= a /\ O2 <= O /\ A2 <= A
      BY <1>0, <1>1, <1>2, <2>1
    <2>2. CASE a2 = a + 1 /\ O = O2 + 1 /\ A2 = A
      BY <1>0, <1>1, <1>2, <2>2
    <2>3. CASE a2 = a /\ a >= 1 /\ O2 = O /\ A2 = A
      BY <1>0, <1>1, <1>2, <2>3
    <2>4. CASE a = a2 + 1 /\ O2 = O /\ A2 <= A + 1
      BY <1>0, <1>1, <1>2, <2>4
    <2> QED  BY <1>3, <2>1, <2>2, <2>3, <2>4
  <1> QED  BY <1>4 DEF Turn, o, a2, t

\* A new connection has nothing to do.
LEMMA MetIsAlike ==
    ASSUME NEW g \in Handle(Bodies) \cup {NoHandle}
    PROVE  /\ Met(g) \in Handle(Bodies)
           /\ Fresh(g) => Fresh(Met(g))
           /\ \A S : OpsIn(Met(g), S) = OpsIn(g, S)
  <1>1. NewHandle \in Handle(Bodies)
    BY NewHandleFits DEF FitHandle
  <1>2. /\ ~NewHandle.remote_set
        /\ NewHandle.signaling = "stable"
        /\ NewHandle.ops = << >>
    BY DEF NewHandle
  <1>3. \A S : Count(<< >>, S) = 0
    BY CountEmpty
  <1>4. CASE g = NoHandle
    <2>1. Met(g) = NewHandle
      BY <1>4 DEF Met
    <2>2. \A S : OpsIn(NewHandle, S) = 0
      BY <1>1, <1>2, <1>3, HandleIsNotNone DEF OpsIn
    <2> QED  BY <1>1, <1>2, <1>4, <2>1, <2>2 DEF Fresh, OpsIn
  <1>5. CASE g # NoHandle
    BY <1>5 DEF Met
  <1> QED  BY <1>4, <1>5

\* What it makes of an event.
LEMMA AnswererReads ==
    ASSUME NEW s \in Sessions, NEW p \in Sessions, ~WeInitiate(s, p),
           NEW g \in Handle(Bodies) \cup {NoHandle},
           NEW e \in FitEvent(s) \cup ResyncRead,
           NEW k, Reads(g, k, p, WeInitiate(s, p), e),
           NEW O \in Nat, NEW O2 \in Nat, NEW A \in Nat,
           Counted(e, p, "offer", O, O2)
    PROVE  k \in Handle(Bodies) \cup {NoHandle} /\ AnswererDoes(g, k, O, O2, A, A)
  <1> DEFINE f    == Met(g)
             mine == WeInitiate(s, p)
  <1>0. mine \in BOOLEAN /\ ~mine /\ Reads(g, k, p, mine, e)
    BY InitiateType
  <1> HIDE DEF mine
  <1>1. /\ f \in Handle(Bodies)
        /\ Fresh(g) => Fresh(f)
        /\ OpsIn(f, AnswerOps) = OpsIn(g, AnswerOps)
    BY MetIsAlike
  <1>2. f # NoHandle
    BY <1>1, HandleIsNotNone
  <1>3. OpsIn(g, AnswerOps) \in Nat
    BY OpsInType
  <1>4. O2 <= O
    BY DEF Counted
  <1>5. ~(e.type = "answer" /\ e.from = p)
    BY DEF FitEvent, ResyncRead
  <1>6. k = g => AnswererDoes(g, k, O, O2, A, A)
    BY <1>3, <1>4 DEF AnswererDoes
  <1>7. MaybeOffer(f, mine) = f
    BY <1>0 DEF MaybeOffer
  <1>8. ASSUME k \in Handle(Bodies), SameState(f, k),
               Count(k.ops, AnswerOps) = Count(f.ops, AnswerOps)
        PROVE  AnswererDoes(g, k, O, O2, A, A)
    <2>1. k # NoHandle
      BY <1>8, HandleIsNotNone
    <2>2. OpsIn(k, AnswerOps) <= OpsIn(g, AnswerOps)
      BY <1>1, <1>2, <1>3, <1>8, <2>1 DEF OpsIn
    <2>3. Fresh(g) => Fresh(k)
      BY <1>1, <1>2, <1>8, <2>1 DEF Fresh, SameState
    <2> QED  BY <1>4, <2>2, <2>3 DEF AnswererDoes
  <1>9. CASE k = MaybeOffer(Met(g), mine)
    <2>1. k = f
      BY <1>7, <1>9
    <2>2. k \in Handle(Bodies) /\ SameState(f, k)
      BY <1>1, <2>1 DEF SameState
    <2> HIDE DEF f
    <2> QED  BY <1>8, <2>1, <2>2
  <1>10. CASE e.type = "offer" /\ e.from = p /\ k = ApplyOffer(Met(g), mine, e.body)
    <2>1. CASE TakesOffer(f, mine)
      <3> DEFINE marked == [f EXCEPT !.remote_set = TRUE]
                 o == [do |-> "remote_offer", body |-> e.body, then |-> "end"]
      <3>1. e.type \in SignalKinds
        BY <1>10, MeshAssumption
      <3>2. e.body \in Bodies
        BY <3>1, BodyOf
      <3>3. o \in Op(Bodies) /\ o.do = "remote_offer"
        BY <3>2 DEF Op
      <3>4. k = Call(marked, "remote_offer", e.body)
        BY <1>10, <2>1 DEF ApplyOffer
      <3> HIDE DEF f
      <3>5. marked \in Handle(Bodies) /\ marked.ops = f.ops
        BY <1>1 DEF Handle
      <3> HIDE DEF marked
      <3>6. k \in Handle(Bodies) /\ k.ops = Append(marked.ops, o)
        BY <3>3, <3>4, <3>5, CallDoes
      <3> HIDE DEF o
      <3>7. f.ops \in Seq(Op(Bodies))
        BY <1>1 DEF Handle
      <3>8. Count(Append(f.ops, o), AnswerOps) = Count(f.ops, AnswerOps)
              + (IF \/ o.do \in {"remote_offer", "create_answer", "local_answer"}
                    \/ o.then = "answer" THEN 1 ELSE 0)
        BY <3>3, <3>7, CallTokens
      <3>9. k # NoHandle
        BY <3>6, HandleIsNotNone
      <3>10. /\ OpsIn(k, AnswerOps) = Count(Append(f.ops, o), AnswerOps)
             /\ OpsIn(g, AnswerOps) = Count(f.ops, AnswerOps)
        BY <1>1, <1>2, <3>5, <3>6, <3>9 DEF OpsIn
      <3>11. OpsIn(k, AnswerOps) = OpsIn(g, AnswerOps) + 1
        BY <1>3, <3>3, <3>8, <3>10
      <3>12. O = O2 + 1
        BY <1>10 DEF Counted
      <3> QED  BY <3>6, <3>11, <3>12 DEF AnswererDoes
    <2>2. CASE ~TakesOffer(f, mine)
      <3>1. TakesOffer(NewHandle, mine)
        BY <1>0 DEF TakesOffer, NewHandle
      <3>2. f = g
        BY <2>2, <3>1 DEF Met
      <3>3. k = g
        BY <1>10, <2>2, <3>2 DEF ApplyOffer
      <3> QED  BY <1>6, <3>3
    <2> QED  BY <2>1, <2>2
  <1>11. CASE e.type = "ice" /\ e.from = p /\ k = OnIce(Met(g), mine, e.body)
    <2> DEFINE b == e.body
    <2>1. b \in Bodies
      BY <1>11, BodyOf, MeshAssumption
    <2>2. f = MaybeOffer(f, mine) /\ k = OnIce(f, mine, b)
      BY <1>7, <1>11
    <2> HIDE DEF b, f
    <2>3. /\ k \in Handle(Bodies)
          /\ SameState(f, k)
          /\ Count(k.ops, AnswerOps) = Count(f.ops, AnswerOps)
      BY <1>0, <1>1, <2>1, <2>2, OnIceDoes
    <2> QED  BY <1>8, <2>3
  <1>12. CASE k = g
    BY <1>6, <1>12
  <1> QED  BY <1>0, <1>5, <1>9, <1>10, <1>11, <1>12 DEF Reads

LEMMA AnswererPerforms ==
    ASSUME NEW g \in FitHandle(FALSE), g.ops # << >>, NEW k, k = Performed(g),
           NEW O \in Nat, NEW A \in Nat, NEW A2 \in Nat,
           \/ A2 = A
           \/ Head(g.ops).do = "local_answer" /\ A2 = A + 1
    PROVE  k \in Handle(Bodies) /\ AnswererDoes(g, k, O, O, A, A2)
  <1> DEFINE op == Head(g.ops)
  <1>1. g \in Handle(Bodies) /\ g # NoHandle
    BY HandleIsNotNone DEF FitHandle
  <1>2. op \in FitOp(g.remote # NoBody, FALSE)
    BY HeadTailProperties DEF FitHandle
  <1>3. op.do \in {"remote_offer", "create_answer", "local_answer", "add"}
    BY <1>2, OpKinds DEF FitOp
  <1>4. A2 = A \/ (op.do = "local_answer" /\ A2 = A + 1)
    OBVIOUS
  <1>5. /\ Count(Tail(g.ops), AnswerOps) \in Nat
        /\ Count(g.ops, AnswerOps) = Count(Tail(g.ops), AnswerOps)
             + (IF \/ op.do \in {"remote_offer", "create_answer", "local_answer"}
                   \/ op.then = "answer" THEN 1 ELSE 0)
    <2>1. g.ops \in Seq(Op(Bodies)) /\ Tail(g.ops) \in Seq(Op(Bodies))
      BY <1>1, HeadTailProperties DEF Handle
    <2> QED  BY <2>1, RestTokens, TokensType
  <1> HIDE DEF op
  <1>6. /\ k \in Handle(Bodies)
        /\ k.remote_set = g.remote_set
        /\ k.signaling = CASE op.do = "local_offer" -> "have-local-offer"
                           [] op.do = "remote_offer" -> "have-remote-offer"
                           [] op.do \in {"local_answer", "remote_answer"} -> "stable"
                           [] OTHER -> g.signaling
        /\ Count(g.ops, AnswerOps) = Count(k.ops, AnswerOps)
             + (IF op.do = "local_answer" THEN 1 ELSE 0)
    BY <1>1, PerformedDoes DEF op
  <1>7. k # NoHandle
    BY <1>6, HandleIsNotNone
  <1> DEFINE a  == OpsIn(g, AnswerOps)
             a2 == OpsIn(k, AnswerOps)
  <1>8. a \in Nat /\ a2 \in Nat
    BY <1>1, <1>6, OpsInType
  <1>9. /\ a = a2 + (IF op.do = "local_answer" THEN 1 ELSE 0)
        /\ op.do = "remote_offer" => a >= 1
    BY <1>1, <1>5, <1>6, <1>7 DEF OpsIn
  <1> HIDE DEF a, a2
  <1>10. CASE op.do = "local_answer"
    <2>1. a = a2 + 1 /\ A2 <= A + 1
      BY <1>4, <1>8, <1>9, <1>10
    <2> QED  BY <1>6, <2>1 DEF AnswererDoes, a, a2
  <1>11. CASE op.do = "remote_offer"
    <2>1. a2 = a /\ a >= 1 /\ A2 = A
      BY <1>4, <1>8, <1>9, <1>11
    <2> QED  BY <1>6, <2>1 DEF AnswererDoes, a, a2
  <1>12. CASE op.do \in {"create_answer", "add"}
    <2>1. a2 <= a /\ O <= O /\ A2 <= A
      BY <1>4, <1>8, <1>9, <1>12
    <2>2. Fresh(g) => Fresh(k)
      BY <1>1, <1>6, <1>12 DEF Fresh
    <2> QED  BY <1>6, <2>1, <2>2 DEF AnswererDoes, a, a2
  <1> QED  BY <1>3, <1>10, <1>11, <1>12

LEMMA AnswererKeeps ==
    ASSUME NEW g \in Handle(Bodies), NEW k \in Handle(Bodies),
           k.remote_set = g.remote_set, k.signaling = g.signaling,
           Count(k.ops, AnswerOps) <= Count(g.ops, AnswerOps),
           NEW O \in Nat, NEW O2 \in Nat, O2 <= O,
           NEW A \in Nat, NEW A2 \in Nat, A2 <= A
    PROVE  AnswererDoes(g, k, O, O2, A, A2)
  <1>1. g # NoHandle /\ k # NoHandle
    BY HandleIsNotNone
  <1>2. Fresh(g) => Fresh(k)
    BY <1>1 DEF Fresh
  <1>3. OpsIn(k, AnswerOps) <= OpsIn(g, AnswerOps)
    BY <1>1 DEF OpsIn
  <1> QED  BY <1>2, <1>3 DEF AnswererDoes

LEMMA AnswererHandles ==
    ASSUME NEW s \in Sessions, NEW p \in Sessions, ~WeInitiate(s, p),
           NEW g \in FitHandle(FALSE) \cup {NoHandle},
           NEW k, NEW m \in Mails, NEW m2 \in Mails, NEW n \in Mails, NEW n2 \in Mails,
           NEW lost, Handled(g, k, m, m2, n, n2, s, p, lost)
    PROVE  /\ k \in Handle(Bodies) \cup {NoHandle}
           /\ AnswererDoes(g, k, n["offer"][Bodies], n2["offer"][Bodies],
                                 m["answer"][Bodies], m2["answer"][Bodies])
  <1> DEFINE O  == n["offer"][Bodies]
             O2 == n2["offer"][Bodies]
             A  == m["answer"][Bodies]
             A2 == m2["answer"][Bodies]
  <1>1. "offer" \in SignalKinds /\ "answer" \in SignalKinds
    BY MeshAssumption
  <1>2. O \in Nat /\ O2 \in Nat /\ A \in Nat /\ A2 \in Nat
    BY <1>1, MailNumbers
  <1>3. g \in Handle(Bodies) \cup {NoHandle}
    BY DEF FitHandle
  <1>4. n2 = n => O2 = O
    OBVIOUS
  <1>5. m2 = m => A2 = A
    OBVIOUS
  <1>6. Fewer(m, m2) => A2 <= A
    BY <1>1, MailNumbers
  <1>7. ASSUME NEW kind, NEW body, Sent(m, m2, kind, body)
        PROVE  /\ A2 = A \/ A2 = A + 1
               /\ kind # "answer" => A2 = A
    BY <1>1, <1>7, MailNumbers
  <1>8. ASSUME NEW e \in FitEvent(s) \cup ResyncRead, Taken(n, n2, p, e)
        PROVE  Counted(e, p, "offer", O, O2)
    BY <1>1, <1>8, TakenNumbers DEF Counted
  <1> HIDE DEF O, O2, A, A2
  <1> SUFFICES k \in Handle(Bodies) \cup {NoHandle} /\ AnswererDoes(g, k, O, O2, A, A2)
    BY DEF O, O2, A, A2
  <1>9. CASE Reading(g, k, m, m2, n, n2, s, p)
    <2>1. PICK e \in FitEvent(s) \cup ResyncRead :
             Reads(g, k, p, WeInitiate(s, p), e) /\ Taken(n, n2, p, e)
      BY <1>9 DEF Reading
    <2>2. A2 = A
      BY <1>5, <1>9 DEF Reading
    <2>3. Counted(e, p, "offer", O, O2)
      BY <1>8, <2>1
    <2>4. k \in Handle(Bodies) \cup {NoHandle} /\ AnswererDoes(g, k, O, O2, A, A)
      BY <1>2, <1>3, <2>1, <2>3, AnswererReads
    <2> QED  BY <2>2, <2>4
  <1>10. CASE Performing(g, k, m, m2, n, n2, visit[s])
    <2>1. g \in FitHandle(FALSE) /\ g.ops # << >> /\ k = Performed(g) /\ O2 = O
      BY <1>4, <1>10 DEF Performing
    <2>2. \/ A2 = A
          \/ Head(g.ops).do = "local_answer" /\ A2 = A + 1
      BY <1>5, <1>7, <1>10 DEF Performing
    <2> QED  BY <1>2, <2>1, <2>2, AnswererPerforms
  <1>11. CASE Failing(g, k, m, m2, n, n2, lost)
    <2>1. g \in Handle(Bodies) /\ g.ops # << >> /\ k = Failed(g) /\ O2 = O /\ A2 = A
      BY <1>3, <1>4, <1>5, <1>11 DEF Failing
    <2>2. /\ k \in Handle(Bodies)
          /\ SameState(g, k)
          /\ Count(k.ops, AnswerOps) <= Count(g.ops, AnswerOps)
      BY <2>1, FailedDoes
    <2>3. k.remote_set = g.remote_set /\ k.signaling = g.signaling
      BY <2>2 DEF SameState
    <2>4. O2 <= O /\ A2 <= A
      BY <1>2, <2>1
    <2> QED  BY <1>2, <2>1, <2>2, <2>3, <2>4, AnswererKeeps
  <1>12. CASE Gathering(g, k, m, m2, n, n2, visit[s])
    <2>1. /\ g \in Handle(Bodies)
          /\ k = [g EXCEPT !.gathered = g.gathered + 1]
          /\ O2 = O
      BY <1>3, <1>4, <1>12 DEF Gathering
    <2>2. A2 = A
      BY <1>7, <1>12 DEF Gathering
    <2>3. /\ k \in Handle(Bodies)
          /\ k.remote_set = g.remote_set
          /\ k.signaling = g.signaling
          /\ k.ops = g.ops
      <3> DEFINE more == g.gathered + 1
      <3>1. g \in Handle(Bodies) /\ more \in Nat /\ k = [g EXCEPT !.gathered = more]
        BY <2>1 DEF Handle
      <3> HIDE DEF more
      <3> QED  BY <3>1 DEF Handle
    <2>4. Count(k.ops, AnswerOps) <= Count(g.ops, AnswerOps)
      BY <2>1, <2>3, SameCounts
    <2>5. O2 <= O /\ A2 <= A
      BY <1>2, <2>1, <2>2
    <2> QED  BY <1>2, <2>1, <2>3, <2>4, <2>5, AnswererKeeps
  <1>13. CASE Draining(g, k, m, m2, n, n2, WeInitiate(s, p), lost)
    <2>1. g \in Handle(Bodies) /\ k = Drain(g, "end") /\ O2 = O
      BY <1>3, <1>4, <1>13 DEF Draining
    <2>2. O2 <= O /\ A2 <= A
      BY <1>2, <1>5, <1>6, <1>13, <2>1 DEF Draining
    <2>3. k \in Handle(Bodies) /\ SameState(g, k)
      BY <2>1, DrainDoes
    <2>4. Count(k.ops, AnswerOps) = Count(g.ops, AnswerOps) + 0
      BY <2>1, DrainTokens
    <2>5. Count(g.ops, AnswerOps) \in Nat
      BY <2>1, TokensType DEF Handle
    <2>6. Count(k.ops, AnswerOps) <= Count(g.ops, AnswerOps)
      BY <2>4, <2>5
    <2>7. k.remote_set = g.remote_set /\ k.signaling = g.signaling
      BY <2>3 DEF SameState
    <2> QED  BY <1>2, <2>1, <2>2, <2>3, <2>6, <2>7, AnswererKeeps
  <1> QED  BY <1>9, <1>10, <1>11, <1>12, <1>13 DEF Handled

\* What is lost leaves less.
LEMMA TurnShrinks ==
    ASSUME NEW h \in Handle(Bodies) \cup {NoHandle}, NEW k \in {h, NoHandle},
           NEW g \in Handle(Bodies) \cup {NoHandle}, NEW f \in {g, NoHandle},
           NEW O \in Nat, NEW O2 \in Nat, O2 <= O,
           NEW A \in Nat, NEW A2 \in Nat, A2 <= A,
           NEW silent \in BOOLEAN, NEW silent2 \in BOOLEAN, silent2 => silent,
           Turn(h, g, O, A, silent)
    PROVE  Turn(k, f, O2, A2, silent2)
  <1> DEFINE o  == OpsIn(h, OfferOps)
             o2 == OpsIn(k, OfferOps)
             t  == OpsIn(h, TakeOps)
             t2 == OpsIn(k, TakeOps)
             a  == OpsIn(g, AnswerOps)
             a2 == OpsIn(f, AnswerOps)
  <1>1. o \in Nat /\ t \in Nat /\ a \in Nat
    BY OpsInType
  <1>2. /\ o2 \in {0, o}
        /\ t2 \in {0, t}
        /\ a2 \in {0, a}
        /\ Fresh(g) => Fresh(f)
        /\ k # NoHandle => h # NoHandle /\ k = h
    BY DEF OpsIn, Fresh
  <1>3. /\ o + O + (a + A + t) <= 1
        /\ silent => o + O + (a + A + t) = 0 /\ Fresh(g)
        /\ o + O # 0 => Fresh(g)
        /\ h # NoHandle =>
             /\ h.negotiated
             /\ O + (a + A + t) # 0 => h.signaling = "have-local-offer"
    BY DEF Turn
  <1> HIDE DEF o, o2, t, t2, a, a2
  <1>4. /\ o2 + O2 + (a2 + A2 + t2) <= 1
        /\ silent2 => o2 + O2 + (a2 + A2 + t2) = 0 /\ Fresh(f)
        /\ o2 + O2 # 0 => Fresh(f)
        /\ k # NoHandle =>
             /\ k.negotiated
             /\ O2 + (a2 + A2 + t2) # 0 => k.signaling = "have-local-offer"
    BY <1>1, <1>2, <1>3
  <1> QED  BY <1>4 DEF Turn, o2, a2, t2

\* Nothing has been said yet by a, in the visit it is in.
Silent(a, b) == peers[a][b] = NoHandle /\ (visit[a] = 0 \/ page[a] # "away")

TurnOK(a, b) ==
    /\ visit[a] = 0 => peers[a][b] = NoHandle
    /\ Turn(peers[a][b], peers[b][a], Unread(b, a)["offer"][Bodies],
            Unread(a, b)["answer"][Bodies], Silent(a, b))

\* The initiator is at its first visit.  The other may come and go.
TurnsOK ==
    \A a, b \in Sessions : WeInitiate(a, b) /\ visit[a] <= 1 => TurnOK(a, b)

TurnInv == MeshInv /\ IsFiniteSet(posts) /\ TurnsOK

LEMMA UnreadType ==
    ASSUME MeshInv, IsFiniteSet(posts), NEW s \in Sessions, NEW p \in Sessions
    PROVE  Unread(s, p) \in Mails
  <1>1. queue[s] \in Seq(FitEvent(s)) /\ early[s] \in Seq(FitEvent(s) \cup ResyncRead)
    BY StreamTypes
  <1> QED  BY <1>1, MailType DEF Unread, Mails

LEMMA PostsFinite ==
    [MeshNext]_meshVars /\ IsFiniteSet(posts) => IsFiniteSet(posts')
  <1> SUFFICES ASSUME [MeshNext]_meshVars, IsFiniteSet(posts)
               PROVE  IsFiniteSet(posts')
    OBVIOUS
  <1>1. \/ posts' = posts
        \/ \E r : posts' = posts \cup {r}
        \/ \E r : posts' = posts \ {r}
    <2>1. ASSUME NEW s \in Sessions, NEW p \in Sessions,
                 PerformOp(s, p)
          PROVE  \/ posts' = posts
                 \/ \E r : posts' = posts \cup {r}
      <3>1. posts' = posts \/ posts' = posts \cup Signalled(s, p, Head(peers[s][p].ops))
        BY <2>1 DEF PerformOp
      <3>2. \/ Signalled(s, p, Head(peers[s][p].ops)) = {}
            \/ \E r : Signalled(s, p, Head(peers[s][p].ops)) = {r}
        BY DEF Signalled
      <3> QED  BY <3>1, <3>2
    <2>2. ASSUME NEW s \in Sessions, NEW p \in Sessions, Gather(s, p)
          PROVE  \E r : posts' = posts \cup {r}
      BY <2>2 DEF Gather
    <2>3. ASSUME NEW s \in Sessions, NEW p \in Sessions, FailOp(s, p)
          PROVE  posts' = posts
      BY <2>3 DEF FailOp, netVars
    <2>4. ASSUME NEW r \in posts, Relay(r) \/ PostFails(r)
          PROVE  posts' = posts \ {r}
      BY <2>4 DEF Relay, PostFails, Posted
    <2>5. ASSUME NEW s \in Sessions,
                 \/ Enter(s) \/ OpenEvents(s) \/ ReadResync(s) \/ ReadEvent(s)
                 \/ BuildMesh(s) \/ Replay(s) \/ MeshReady(s) \/ Leave(s)
                 \/ BreakStream(s) \/ EndStream(s)
          PROVE  posts' = posts
      BY <2>5 DEF Enter, OpenEvents, ReadResync, ReadEvent, ToMesh, BuildMesh, Replay,
                  MeshReady, Leave, BreakStream, EndStream, netVars
    <2>6. ServerStep \/ UNCHANGED meshVars => posts' = posts
      BY DEF ServerStep, meshVars, netVars
    <2> QED  BY <2>1, <2>2, <2>3, <2>4, <2>5, <2>6 DEF MeshNext
  <1> QED  BY <1>1, FS_AddElement, FS_RemoveElement

LEMMA TurnsStep == TurnInv /\ [MeshNext]_meshVars => TurnsOK'
  <1> SUFFICES ASSUME TurnInv, [MeshNext]_meshVars, NEW a \in Sessions, NEW b \in Sessions,
                      WeInitiate(a, b), visit'[a] <= 1
               PROVE  TurnOK(a, b)'
    BY DEF TurnsOK
  <1>1. MeshInv /\ IsFiniteSet(posts) /\ MeshInv' /\ IsFiniteSet(posts')
    BY MeshInvStep, PostsFinite DEF TurnInv
  <1>2. a # b /\ ~WeInitiate(b, a)
    BY InitiateType
  <1>3. PairSteps(a, b)
    BY <1>1, <1>2, PairStep
  <1>4. visit[a] \in Nat /\ visit'[a] \in Nat
    BY <1>1, MeshAssumption DEF MeshInv, MeshTypeOK
  <1>5. page[a] # "away" => visit[a] # 0
    BY <1>1 DEF MeshInv, PagesFit
  <1> DEFINE h  == peers[a][b]
             k  == peers'[a][b]
             g  == peers[b][a]
             f  == peers'[b][a]
             m  == Unread(b, a)
             m2 == UnreadNext(b, a)
             n  == Unread(a, b)
             n2 == UnreadNext(a, b)
             O  == m["offer"][Bodies]
             O2 == m2["offer"][Bodies]
             A  == n["answer"][Bodies]
             A2 == n2["answer"][Bodies]
             silent  == h = NoHandle /\ (visit[a] = 0 \/ page[a] # "away")
             silent2 == k = NoHandle /\ (visit'[a] = 0 \/ page'[a] # "away")
  <1>6. TurnOK(a, b)' <=>
          /\ visit'[a] = 0 => k = NoHandle
          /\ Turn(k, f, O2, A2, silent2)
    BY DEF TurnOK, Silent, Unread, UnreadNext
  <1>7. /\ h \in FitHandle(WeInitiate(a, b)) \cup {NoHandle}
        /\ g \in FitHandle(WeInitiate(b, a)) \cup {NoHandle}
    BY <1>1, <1>2 DEF MeshInv, PagesFit, FitMesh, FitPeer
  <1>8. h \in FitHandle(TRUE) \cup {NoHandle} /\ g \in FitHandle(FALSE) \cup {NoHandle}
    BY <1>2, <1>7 DEF FitHandle, FitOp
  <1>9. /\ h \in Handle(Bodies) \cup {NoHandle}
        /\ g \in Handle(Bodies) \cup {NoHandle}
    BY <1>1, PeersType
  <1>10. m \in Mails /\ m2 \in Mails /\ n \in Mails /\ n2 \in Mails
    <2>1. Unread(b, a) \in Mails /\ Unread(a, b) \in Mails
      BY <1>1, UnreadType
    <2>2. \A x \in Sessions : /\ queue'[x] \in Seq(FitEvent(x))
                              /\ early'[x] \in Seq(FitEvent(x) \cup ResyncRead)
      BY <1>1 DEF MeshInv, StreamsFit, PagesFit
    <2>3. UnreadNext(b, a) \in Mails /\ UnreadNext(a, b) \in Mails
      BY <1>1, <2>2, MailType DEF UnreadNext, Mails
    <2> QED  BY <2>1, <2>3
  <1>11. "offer" \in SignalKinds /\ "answer" \in SignalKinds
    BY MeshAssumption
  <1>12. O \in Nat /\ O2 \in Nat /\ A \in Nat /\ A2 \in Nat
    BY <1>10, <1>11, MailNumbers
  <1>13. /\ m2 = m => O2 <= O
         /\ n2 = n => A2 <= A
         /\ Fewer(m, m2) => O2 <= O
         /\ Fewer(n, n2) => A2 <= A
    BY <1>10, <1>11, <1>12, MailNumbers
  <1>14. silent \in BOOLEAN /\ silent2 \in BOOLEAN
    OBVIOUS
  <1>15. ASSUME visit[a] <= 1
         PROVE  /\ visit[a] = 0 => h = NoHandle
                /\ Turn(h, g, O, A, silent)
    BY <1>15 DEF TurnInv, TurnsOK, TurnOK, Silent
  <1> HIDE DEF h, k, g, f, m, m2, n, n2
  <1> DEFINE Goal == (visit'[a] = 0 => k = NoHandle) /\ Turn(k, f, O2, A2, silent2)
  <1>16. ASSUME Acts(a, b)
         PROVE  Goal
    <2>1. /\ visit'[a] = visit[a]
          /\ page'[a] = "away" <=> page[a] = "away"
          /\ page[a] # "away" \/ h # NoHandle
          /\ f = g
      BY <1>16 DEF Acts, Abides, h, f, g
    <2>2. PICK lost : Handled(h, k, m, m2, n, n2, a, b, lost)
      BY <1>16 DEF Acts, h, k, m, m2, n, n2
    <2>3. visit[a] <= 1
      BY <2>1
    <2>4. visit[a] # 0 /\ Turn(h, g, O, A, silent)
      BY <1>5, <1>15, <2>1, <2>3
    <2>5. h = NoHandle => silent
      BY <2>1
    <2>6. h # NoHandle => h.negotiated
      BY <2>4 DEF Turn
    <2>7. k \in Handle(Bodies) \cup {NoHandle} /\ OffererDoes(h, k, O, O2, A, A2)
      BY <1>8, <1>10, <2>2, <2>6, OffererHandles
    <2>8. silent2 => silent /\ k = NoHandle
      BY <2>1, <2>4, <2>7 DEF OffererDoes, Akin
    <2> HIDE DEF silent, silent2, O, O2, A, A2
    <2>9. Turn(k, g, O2, A2, silent /\ k = NoHandle)
      <3>1. TurnTypes(h, k, g, O, O2, A, A2, silent)
        BY <1>9, <1>12, <1>14, <2>7 DEF TurnTypes
      <3>2. OffererDoes(h, k, O, O2, A, A2)
        BY <2>7
      <3>3. Turn(h, g, O, A, silent)
        BY <2>4
      <3> QED  BY <2>5, <3>1, <3>2, <3>3, TurnOfOfferer
    <2>10. Turn(k, g, O2, A2, silent2)
      BY <2>8, <2>9 DEF Turn
    <2> QED  BY <2>1, <2>4, <2>10
  <1>17. ASSUME Acts(b, a)
         PROVE  Goal
    <2>1. /\ visit'[a] = visit[a]
          /\ page'[a] = "away" <=> page[a] = "away"
          /\ k = h
      BY <1>17 DEF Acts, Abides, h, k
    <2>2. PICK lost : Handled(g, f, n, n2, m, m2, b, a, lost)
      BY <1>17 DEF Acts, g, f, m, m2, n, n2
    <2>3. visit[a] <= 1
      BY <2>1
    <2>4. (visit[a] = 0 => h = NoHandle) /\ Turn(h, g, O, A, silent)
      BY <1>15, <2>3
    <2>5. f \in Handle(Bodies) \cup {NoHandle} /\ AnswererDoes(g, f, O, O2, A, A2)
      BY <1>2, <1>8, <1>10, <2>2, AnswererHandles
    <2>6. silent2 = silent
      BY <2>1
    <2> HIDE DEF silent, silent2, O, O2, A, A2
    <2>7. Turn(h, f, O2, A2, silent)
      <3>1. TurnTypes(h, f, g, O, O2, A, A2, silent)
        BY <1>9, <1>12, <1>14, <2>5 DEF TurnTypes
      <3>2. AnswererDoes(g, f, O, O2, A, A2)
        BY <2>5
      <3>3. Turn(h, g, O, A, silent)
        BY <2>4
      <3> QED  BY <3>1, <3>2, <3>3, TurnOfAnswerer
    <2> QED  BY <2>1, <2>4, <2>6, <2>7
  <1>18. ASSUME Leaves(a, b) \/ Leaves(b, a) \/ Still(a, b)
         PROVE  Goal
    <2>1. k \in {h, NoHandle} /\ f \in {g, NoHandle}
      BY <1>18 DEF Leaves, Still, h, k, g, f
    <2>2. O2 <= O /\ A2 <= A
      BY <1>13, <1>18 DEF Leaves, Still, m, m2, n, n2
    <2>3. \/ visit'[a] = visit[a] + 1 /\ page[a] = "away" /\ k = h
          \/ visit'[a] = visit[a] /\ (page'[a] = "away" <=> page[a] = "away") /\ k = h
          \/ visit'[a] = visit[a] /\ page[a] # "away" /\ page'[a] = "away" /\ k = NoHandle
      BY <1>18 DEF Leaves, Still, Abides, Enters, h, k
    <2>4. visit[a] <= 1 /\ (visit'[a] # visit[a] => visit[a] = 0)
      BY <1>4, <2>3
    <2>5. (visit[a] = 0 => h = NoHandle) /\ Turn(h, g, O, A, silent)
      BY <1>15, <2>4
    <2>6. silent2 => silent
      BY <1>4, <1>5, <2>3, <2>4, <2>5
    <2>7. visit'[a] = 0 => k = NoHandle
      BY <1>4, <2>3, <2>5
    <2> HIDE DEF silent, silent2, O, O2, A, A2
    <2>8. Turn(k, f, O2, A2, silent2)
      BY SMTT(30), <1>9, <1>12, <1>14, <2>1, <2>2, <2>5, <2>6, TurnShrinks
    <2> QED  BY <2>7, <2>8
  <1>19. Goal
    <2> HIDE DEF Goal
    <2> QED  BY <1>3, <1>16, <1>17, <1>18 DEF PairSteps
  <1> QED  BY <1>6, <1>19

LEMMA TurnInvInit == MeshInit => TurnInv
  <1> SUFFICES ASSUME MeshInit PROVE TurnInv
    OBVIOUS
  <1>1. MeshInv
    BY MeshInvInit
  <1>2. posts = {} /\ IsFiniteSet(posts)
    BY FS_EmptySet DEF MeshInit
  <1>3. ASSUME NEW a \in Sessions, NEW b \in Sessions
        PROVE  TurnOK(a, b)
    <2>1. peers[a][b] = NoHandle /\ peers[b][a] = NoHandle /\ visit[a] = 0
      BY DEF MeshInit, NoPeers
    <2>2. \A S : OpsIn(NoHandle, S) = 0
      BY DEF OpsIn
    <2>3. ASSUME NEW s \in Sessions, NEW p \in Sessions, NEW k \in SignalKinds
          PROVE  Unread(s, p)[k][Bodies] = 0
      <3>1. queue[s] = << >> /\ early[s] = << >>
        BY DEF MeshInit, Init
      <3>2. \A S : Count(<< >>, S) = 0
        BY CountEmpty
      <3>3. \A S : Cardinality(posts \cap S) = 0
        BY <1>2, FS_EmptySet
      <3>4. Unread(s, p)[k][Bodies] =
              Cardinality(posts \cap [from : {p}, to : {s}, type : {k}, body : Bodies])
                + Count(queue[s], SignalsOf(p, k, Bodies))
                + Count(early[s], SignalsOf(p, k, Bodies))
        BY DEF Unread, Mail
      <3>5. /\ Cardinality(posts \cap [from : {p}, to : {s}, type : {k}, body : Bodies]) = 0
            /\ Count(queue[s], SignalsOf(p, k, Bodies)) = 0
            /\ Count(early[s], SignalsOf(p, k, Bodies)) = 0
        BY <3>1, <3>2, <3>3
      <3> QED  BY <3>4, <3>5
    <2>4. /\ Unread(b, a)["offer"][Bodies] = 0
          /\ Unread(a, b)["answer"][Bodies] = 0
      BY <2>3, MeshAssumption
    <2>5. Fresh(NoHandle)
      BY DEF Fresh
    <2>6. Turn(NoHandle, NoHandle, 0, 0, Silent(a, b))
      BY <2>2, <2>5 DEF Turn
    <2> QED  BY <2>1, <2>4, <2>6 DEF TurnOK
  <1> QED  BY <1>1, <1>2, <1>3 DEF TurnInv, TurnsOK

LEMMA TurnInvStep == TurnInv /\ [MeshNext]_meshVars => TurnInv'
  <1> SUFFICES ASSUME TurnInv, [MeshNext]_meshVars PROVE TurnInv'
    OBVIOUS
  <1>1. MeshInv' /\ IsFiniteSet(posts')
    BY MeshInvStep, PostsFinite DEF TurnInv
  <1>2. TurnsOK'
    BY TurnsStep
  <1> QED  BY <1>1, <1>2 DEF TurnInv

LEMMA TurnInvHolds == MeshSpec => []TurnInv
  BY TurnInvInit, TurnInvStep, PTL DEF MeshSpec

-----------------------------------------------------------------------------
(* Theorems. *)

LEMMA OnTheWayIsUnread ==
    ASSUME NEW s \in Sessions, NEW p \in Sessions, NEW k \in SignalKinds,
           NEW B \in SUBSET Bodies
    PROVE  OnTheWay(s, p, k, B) = Unread(s, p)[k][B]
  BY DEF OnTheWay, Unread, Mail

\* Nobody gets an offer of whom it initiates with, or an answer of another.
LEMMA NothingComes ==
    ASSUME MeshInv, IsFiniteSet(posts), NEW s \in Sessions, NEW p \in Sessions,
           NEW k \in {"offer", "answer"},
           k = "offer" => ~WeInitiate(p, s),
           k = "answer" => ~WeInitiate(s, p)
    PROVE  OnTheWay(s, p, k, Bodies) = 0
  <1> DEFINE S == SignalsOf(p, k, Bodies)
             R == [from : {p}, to : {s}, type : {k}, body : Bodies]
  <1>1. posts \cap R = {}
    BY DEF MeshInv, PostsFit, FitPost
  <1>2. Cardinality(posts \cap R) = 0
    BY <1>1, PostsType
  <1>3. \A e \in FitEvent(s) \cup ResyncRead : e \notin S
    BY DEF FitEvent, ResyncRead, SignalsOf
  <1>4. queue[s] \in Seq(FitEvent(s)) /\ early[s] \in Seq(FitEvent(s) \cup ResyncRead)
    BY StreamTypes
  <1>5. /\ \A i \in 1 .. Len(queue[s]) : queue[s][i] \in FitEvent(s)
        /\ \A i \in 1 .. Len(early[s]) : early[s][i] \in FitEvent(s) \cup ResyncRead
    BY <1>4, ElementOfSeq
  <1> HIDE DEF S, R
  <1>6. Count(queue[s], S) = 0 /\ Count(early[s], S) = 0
    BY <1>3, <1>4, <1>5, CountType
  <1> QED  BY <1>2, <1>6 DEF OnTheWay, S, R

\* However joins, reopened streams, losses and overtaking signals interleave:
\* while two pages are at their first visits, one offer at most is on its way
\* between them, one answer at most, and each comes to a connection that takes
\* it, so that apply_offer and apply_answer ignore none
\* (services/webrtc.rs:405-416, :466-471).
THEOREM SignalsAreWelcome == MeshSpec => []SignalsWelcome
  <1>1. TurnInv => SignalsWelcome
    <2> SUFFICES ASSUME TurnInv, NEW s \in Sessions, NEW p \in Sessions,
                        FirstVisits(s, p), page[s] # "away"
                 PROVE  LET h       == peers[s][p]
                            offers  == OnTheWay(s, p, "offer", Bodies)
                            answers == OnTheWay(s, p, "answer", Bodies)
                        IN  /\ offers <= 1
                            /\ offers # 0 =>
                                 /\ WeInitiate(p, s)
                                 /\ TakesOffer(Ensured(s, peers[s], p), FALSE)
                            /\ answers <= 1
                            /\ answers # 0 => /\ WeInitiate(s, p)
                                              /\ h # NoHandle
                                              /\ TakesAnswer(h)
                                              /\ "remote_answer" \notin Ops(h)
      BY DEF SignalsWelcome
    <2> DEFINE h       == peers[s][p]
               g       == peers[p][s]
               offers  == OnTheWay(s, p, "offer", Bodies)
               answers == OnTheWay(s, p, "answer", Bodies)
    <2>1. MeshInv /\ IsFiniteSet(posts) /\ visit[s] = 1 /\ visit[p] = 1
      BY DEF TurnInv, FirstVisits
    <2>2. "offer" \in SignalKinds /\ "answer" \in SignalKinds /\ Bodies \in SUBSET Bodies
      BY MeshAssumption
    <2>3. h \in Handle(Bodies) \cup {NoHandle} /\ g \in Handle(Bodies) \cup {NoHandle}
      BY <2>1, PeersType
    <2>4. offers = Unread(s, p)["offer"][Bodies] /\ answers = Unread(s, p)["answer"][Bodies]
      BY <2>2, OnTheWayIsUnread
    <2>5. offers \in Nat /\ answers \in Nat
      <3>1. Unread(s, p) \in Mails
        BY <2>1, UnreadType
      <3> QED  BY <2>2, <2>4, <3>1, MailNumbers
    <2>6. ASSUME answers # 0
          PROVE  /\ answers <= 1
                 /\ WeInitiate(s, p)
                 /\ h # NoHandle
                 /\ TakesAnswer(h)
                 /\ "remote_answer" \notin Ops(h)
      <3>1. WeInitiate(s, p)
        BY <2>1, <2>6, NothingComes
      <3>2. TurnOK(s, p)
        BY <2>1, <3>1 DEF TurnInv, TurnsOK
      <3> DEFINE O == Unread(p, s)["offer"][Bodies]
                 o == OpsIn(h, OfferOps)
                 t == OpsIn(h, TakeOps)
                 a == OpsIn(g, AnswerOps)
                 silent == Silent(s, p)
      <3>3. Turn(h, g, O, answers, silent)
        BY <2>4, <3>2 DEF TurnOK
      <3>4. O \in Nat
        <4>1. Unread(p, s) \in Mails
          BY <2>1, UnreadType
        <4> QED  BY <2>2, <4>1, MailNumbers
      <3>5. o \in Nat /\ t \in Nat /\ a \in Nat
        BY <2>3, OpsInType
      <3>6. /\ o + O + (a + answers + t) <= 1
            /\ silent => o + O + (a + answers + t) = 0
            /\ h # NoHandle =>
                 (O + (a + answers + t) # 0 => h.signaling = "have-local-offer")
        BY <3>3 DEF Turn
      <3>7. h = NoHandle => silent
        BY DEF Silent
      <3> HIDE DEF O, o, t, a, silent, h, g, offers, answers
      <3>8. answers <= 1 /\ t = 0 /\ h # NoHandle
        BY <2>5, <2>6, <3>4, <3>5, <3>6, <3>7
      <3>9. h.signaling = "have-local-offer"
        BY <2>5, <2>6, <3>4, <3>5, <3>6, <3>8
      <3>10. "remote_answer" \notin Ops(h)
        <4>1. h \in Handle(Bodies) /\ h.ops \in Seq(Op(Bodies)) /\ Count(h.ops, TakeOps) = 0
          BY <2>3, <3>8 DEF Handle, OpsIn, t
        <4>2. \A i \in 1 .. Len(h.ops) : h.ops[i] \in Op(Bodies) /\ h.ops[i] \notin TakeOps
          BY <4>1, CountType, ElementOfSeq
        <4>3. \A i \in 1 .. Len(h.ops) : h.ops[i].do # "remote_answer"
          BY <4>2, OpKinds
        <4> QED  BY <4>3 DEF Ops
      <3> QED  BY <3>1, <3>8, <3>9, <3>10 DEF TakesAnswer
    <2>7. ASSUME offers # 0
          PROVE  /\ offers <= 1
                 /\ WeInitiate(p, s)
                 /\ TakesOffer(Ensured(s, peers[s], p), FALSE)
      <3>1. WeInitiate(p, s)
        BY <2>1, <2>7, NothingComes
      <3>2. TurnOK(p, s)
        BY <2>1, <3>1 DEF TurnInv, TurnsOK
      <3> DEFINE A == Unread(p, s)["answer"][Bodies]
                 o == OpsIn(g, OfferOps)
                 t == OpsIn(g, TakeOps)
                 a == OpsIn(h, AnswerOps)
      <3>3. Turn(g, h, offers, A, Silent(p, s))
        BY <2>4, <3>2 DEF TurnOK
      <3>4. A \in Nat
        <4>1. Unread(p, s) \in Mails
          BY <2>1, UnreadType
        <4> QED  BY <2>2, <4>1, MailNumbers
      <3>5. o \in Nat /\ t \in Nat /\ a \in Nat
        BY <2>3, OpsInType
      <3>6. o + offers + (a + A + t) <= 1 /\ (o + offers # 0 => Fresh(h))
        BY <3>3 DEF Turn
      <3>7. s # p
        BY <3>1, InitiateType
      <3>8. Ensured(s, peers[s], p) = IF h = NoHandle THEN NewHandle ELSE h
        BY <3>7 DEF Ensured
      <3> HIDE DEF A, o, t, a, h, g, offers, answers
      <3>9. offers <= 1 /\ Fresh(h)
        BY <2>5, <2>7, <3>4, <3>5, <3>6
      <3>10. TakesOffer(Ensured(s, peers[s], p), FALSE)
        BY <3>8, <3>9 DEF Fresh, TakesOffer, NewHandle
      <3> QED  BY <3>1, <3>9, <3>10
    <2>8. offers <= 1 /\ answers <= 1
      <3>1. (offers # 0 => offers <= 1) /\ (answers # 0 => answers <= 1)
        BY <2>6, <2>7
      <3> HIDE DEF offers, answers
      <3> QED  BY <2>5, <3>1
    <2> QED  BY <2>6, <2>7, <2>8
  <1> QED  BY <1>1, TurnInvHolds, PTL

-----------------------------------------------------------------------------
(* The candidates of a pair. *)

\* Operations that add one of the candidates B.
AddOps(B) == [do : {"add"}, body : B, then : {"end", "answer"}]

LEMMA AddKinds ==
    ASSUME NEW o \in Op(Bodies), NEW b \in Bodies
    PROVE  o \in AddOps({b}) <=> o.do = "add" /\ o.body = b
  <1>1. \/ o \in [do : {"create_offer", "local_offer", "create_answer", "local_answer"},
                  body : {NoBody}, then : {"end"}]
        \/ o \in [do : {"remote_offer", "remote_answer"}, body : Bodies, then : {"end"}]
        \/ o \in [do : {"add"}, body : Bodies, then : {"end", "answer"}]
    BY DEF Op
  <1>2. o = [do |-> o.do, body |-> o.body, then |-> o.then]
    BY <1>1
  <1> QED  BY <1>1, <1>2 DEF AddOps

LEMMA KeptParts ==
    ASSUME NEW h \in Handle(Bodies), NEW b \in Bodies
    PROVE  /\ Kept(h, b) = Count(h.pending, {b}) + Count(h.added, {b})
                             + Count(h.ops, AddOps({b}))
           /\ Count(h.pending, {b}) \in Nat
           /\ Count(h.added, {b}) \in Nat
           /\ Count(h.ops, AddOps({b})) \in Nat
           /\ Kept(h, b) \in Nat
  <1>1. h # NoHandle
    BY HandleIsNotNone
  <1>2. Kept(h, b) = Count(h.pending, {b}) + Count(h.added, {b})
                       + Count(h.ops, AddOps({b}))
    BY <1>1 DEF Kept, AddOps
  <1>3. /\ Count(h.pending, {b}) \in Nat
        /\ Count(h.added, {b}) \in Nat
        /\ Count(h.ops, AddOps({b})) \in Nat
    BY CountType DEF Handle
  <1> QED  BY <1>2, <1>3

LEMMA KeptType ==
    ASSUME NEW h \in Handle(Bodies) \cup {NoHandle}, NEW b \in Bodies
    PROVE  Kept(h, b) \in Nat
  BY KeptParts DEF Kept

\* An operation is called.
LEMMA AddsAppended ==
    ASSUME NEW q \in Seq(Op(Bodies)), NEW o \in Op(Bodies), NEW b \in Bodies
    PROVE  Count(Append(q, o), AddOps({b})) =
             Count(q, AddOps({b})) + (IF o.do = "add" /\ o.body = b THEN 1 ELSE 0)
  <1> DEFINE more == Append(q, o)
  <1>1. Count(more, AddOps({b})) =
          Count(q, AddOps({b})) + (IF o \in AddOps({b}) THEN 1 ELSE 0)
    BY CountAppend
  <1> HIDE DEF more
  <1>2. o \in AddOps({b}) <=> o.do = "add" /\ o.body = b
    BY AddKinds
  <1> QED  BY <1>1, <1>2 DEF more

LEMMA CallKeeps ==
    ASSUME NEW h \in Handle(Bodies), NEW do, NEW body,
           [do |-> do, body |-> body, then |-> "end"] \in Op(Bodies),
           do # "add", NEW b \in Bodies
    PROVE  Kept(Call(h, do, body), b) = Kept(h, b)
  <1> DEFINE o == [do |-> do, body |-> body, then |-> "end"]
             k == Call(h, do, body)
  <1>1. /\ k \in Handle(Bodies)
        /\ k.pending = h.pending
        /\ k.added = h.added
        /\ k.ops = Append(h.ops, o)
    BY CallDoes
  <1>2. o \in Op(Bodies) /\ o.do # "add"
    OBVIOUS
  <1> HIDE DEF o, k
  <1>3. h.ops \in Seq(Op(Bodies))
    BY DEF Handle
  <1>4. Count(Append(h.ops, o), AddOps({b})) =
          Count(h.ops, AddOps({b})) + (IF o.do = "add" /\ o.body = b THEN 1 ELSE 0)
    BY <1>2, <1>3, AddsAppended
  <1>5. Count(k.ops, AddOps({b})) = Count(h.ops, AddOps({b}))
    BY <1>1, <1>2, <1>4, KeptParts
  <1>6. Kept(k, b) = Kept(h, b)
    BY <1>1, <1>5, KeptParts
  <1> QED  BY <1>6 DEF k

LEMMA DrainKeeps ==
    ASSUME NEW h \in Handle(Bodies), NEW then \in {"end", "answer"}, NEW b \in Bodies
    PROVE  Kept(Drain(h, then), b) = Kept(h, b)
  <1> DEFINE k == Drain(h, then)
             a == [do |-> "add", body |-> Head(h.pending), then |-> then]
             c == [do |-> "create_answer", body |-> NoBody, then |-> "end"]
  <1>1. /\ k \in Handle(Bodies)
        /\ k.added = h.added
        /\ h.pending # << >> => /\ Head(h.pending) \in Bodies
                                /\ k.pending = Tail(h.pending)
                                /\ k.ops = Append(h.ops, a)
        /\ h.pending = << >> =>
             /\ k.pending = << >>
             /\ then = "end" => k.ops = h.ops
             /\ then = "answer" => k.ops = Append(h.ops, c)
    BY DrainDoes
  <1>2. h.ops \in Seq(Op(Bodies)) /\ h.pending \in Seq(Bodies)
    BY DEF Handle
  <1>3. c \in Op(Bodies) /\ c.do = "create_answer"
    BY DEF Op
  <1>4. Head(h.pending) \in Bodies =>
          a \in Op(Bodies) /\ a.do = "add" /\ a.body = Head(h.pending)
    BY DEF Op
  <1> HIDE DEF k, a, c
  <1>5. /\ Kept(h, b) = Count(h.pending, {b}) + Count(h.added, {b})
             + Count(h.ops, AddOps({b}))
        /\ Kept(k, b) = Count(k.pending, {b}) + Count(k.added, {b})
             + Count(k.ops, AddOps({b}))
        /\ Count(h.pending, {b}) \in Nat
        /\ Count(h.added, {b}) \in Nat
        /\ Count(h.ops, AddOps({b})) \in Nat
        /\ Count(k.pending, {b}) \in Nat
    BY <1>1, KeptParts
  <1>6. CASE h.pending # << >>
    <2>1. a \in Op(Bodies) /\ a.do = "add" /\ a.body = Head(h.pending)
      BY <1>1, <1>4, <1>6
    <2>2. Count(Append(h.ops, a), AddOps({b})) =
            Count(h.ops, AddOps({b})) + (IF a.do = "add" /\ a.body = b THEN 1 ELSE 0)
      BY <1>2, <2>1, AddsAppended
    <2>3. Count(h.pending, {b}) =
            Count(Tail(h.pending), {b}) + (IF Head(h.pending) \in {b} THEN 1 ELSE 0)
      BY <1>2, <1>6, CountTail
    <2>4. /\ Count(k.ops, AddOps({b})) = Count(Append(h.ops, a), AddOps({b}))
          /\ Count(k.pending, {b}) = Count(Tail(h.pending), {b})
          /\ Count(k.added, {b}) = Count(h.added, {b})
      BY <1>1, <1>6
    <2>5. Head(h.pending) \in {b} <=> a.do = "add" /\ a.body = b
      BY <2>1
    <2> QED  BY <1>5, <2>2, <2>3, <2>4, <2>5 DEF k
  <1>7. CASE h.pending = << >> /\ then = "answer"
    <2>1. Count(Append(h.ops, c), AddOps({b})) =
            Count(h.ops, AddOps({b})) + (IF c.do = "add" /\ c.body = b THEN 1 ELSE 0)
      BY <1>2, <1>3, AddsAppended
    <2>2. /\ Count(k.ops, AddOps({b})) = Count(Append(h.ops, c), AddOps({b}))
          /\ Count(k.pending, {b}) = Count(h.pending, {b})
          /\ Count(k.added, {b}) = Count(h.added, {b})
      BY <1>1, <1>7
    <2> QED  BY <1>3, <1>5, <2>1, <2>2 DEF k
  <1>8. CASE h.pending = << >> /\ then = "end"
    <2>1. k.ops = h.ops /\ k.pending = h.pending /\ k.added = h.added
      BY <1>1, <1>8
    <2> QED  BY <1>5, <2>1 DEF k
  <1> QED  BY <1>6, <1>7, <1>8

\* What is performed changes the place of a candidate, or of none.
LEMMA PerformedKeeps ==
    ASSUME NEW h \in Handle(Bodies), h.ops # << >>, NEW b \in Bodies
    PROVE  Kept(Performed(h), b) = Kept(h, b)
  <1> DEFINE op   == Head(h.ops)
             rest == [h EXCEPT !.ops = Tail(h.ops)]
             k    == Performed(h)
  <1>1. /\ op \in Op(Bodies)
        /\ rest \in Handle(Bodies)
        /\ rest.pending = h.pending
        /\ rest.added = h.added
        /\ rest.ops = Tail(h.ops)
    BY RestDoes
  <1>2. k = CASE op.do = "create_offer"  -> Call(rest, "local_offer", NoBody)
              [] op.do = "local_offer"   ->
                   [rest EXCEPT !.signaling = "have-local-offer", !.local = TRUE]
              [] op.do = "remote_offer"  -> OfferApplied(rest, op.body)
              [] op.do = "create_answer" -> Call(rest, "local_answer", NoBody)
              [] op.do = "local_answer"  ->
                   [rest EXCEPT !.signaling = "stable", !.local = TRUE]
              [] op.do = "remote_answer" -> AnswerApplied(rest, op.body)
              [] op.do = "add"           ->
                   Drain([rest EXCEPT !.added = Append(rest.added, op.body)], op.then)
    BY DEF Performed
  <1>3. /\ op.do \in {"create_offer", "local_offer", "remote_offer", "create_answer",
                      "local_answer", "remote_answer", "add"}
        /\ op.do \in {"remote_offer", "remote_answer", "add"} => op.body \in Bodies
        /\ op.then \in {"end", "answer"}
    BY <1>1, OpKinds
  <1>4. Count(h.ops, AddOps({b})) =
          Count(rest.ops, AddOps({b})) + (IF op \in AddOps({b}) THEN 1 ELSE 0)
    BY <1>1, CountTail DEF Handle
  <1>5. op \in AddOps({b}) <=> op.do = "add" /\ op.body = b
    BY <1>1, AddKinds
  <1> HIDE DEF op, rest, k
  <1>6. /\ Kept(h, b) = Count(h.pending, {b}) + Count(h.added, {b})
             + Count(h.ops, AddOps({b}))
        /\ Kept(rest, b) = Count(rest.pending, {b}) + Count(rest.added, {b})
             + Count(rest.ops, AddOps({b}))
        /\ Count(rest.pending, {b}) \in Nat
        /\ Count(rest.added, {b}) \in Nat
        /\ Count(rest.ops, AddOps({b})) \in Nat
    BY <1>1, KeptParts
  <1>7. Kept(h, b) = Kept(rest, b) + (IF op.do = "add" /\ op.body = b THEN 1 ELSE 0)
    <2>1. Count(rest.pending, {b}) = Count(h.pending, {b})
          /\ Count(rest.added, {b}) = Count(h.added, {b})
      BY <1>1
    <2> QED  BY <1>4, <1>5, <1>6, <2>1
  <1>8. Kept(rest, b) \in Nat
    BY <1>1, KeptType
  <1>9. CASE op.do \in {"create_offer", "create_answer"}
    <2> DEFINE next == IF op.do = "create_offer" THEN "local_offer" ELSE "local_answer"
    <2>1. k = Call(rest, next, NoBody)
      BY <1>2, <1>9
    <2>2. [do |-> next, body |-> NoBody, then |-> "end"] \in Op(Bodies) /\ next # "add"
      BY DEF Op
    <2> HIDE DEF next
    <2>3. Kept(Call(rest, next, NoBody), b) = Kept(rest, b)
      BY <1>1, <2>2, CallKeeps
    <2> QED  BY <1>7, <1>8, <1>9, <2>1, <2>3 DEF k
  <1>10. CASE op.do \in {"local_offer", "local_answer"}
    <2> DEFINE state == IF op.do = "local_offer" THEN "have-local-offer" ELSE "stable"
    <2>1. k = [rest EXCEPT !.signaling = state, !.local = TRUE]
      BY <1>2, <1>10
    <2>2. /\ k \in Handle(Bodies)
          /\ k.pending = rest.pending /\ k.added = rest.added /\ k.ops = rest.ops
      BY <1>1, <2>1 DEF Handle
    <2>3. Kept(k, b) = Kept(rest, b)
      BY <1>6, <2>2, KeptParts
    <2> QED  BY <1>7, <1>8, <1>10, <2>3 DEF k
  <1>11. CASE op.do \in {"remote_offer", "remote_answer"}
    <2> DEFINE state == IF op.do = "remote_offer" THEN "have-remote-offer" ELSE "stable"
               then  == IF op.do = "remote_offer" THEN "answer" ELSE "end"
               left  == [rest EXCEPT !.signaling = state, !.remote = op.body]
    <2>1. k = Drain(left, then)
      BY <1>2, <1>11 DEF OfferApplied, AnswerApplied
    <2>2. /\ left \in Handle(Bodies)
          /\ left.pending = rest.pending /\ left.added = rest.added
          /\ left.ops = rest.ops
      BY <1>1, <1>3, <1>11 DEF Handle
    <2>3. then \in {"end", "answer"}
      OBVIOUS
    <2> HIDE DEF left, then
    <2>4. Kept(Drain(left, then), b) = Kept(left, b)
      BY <2>2, <2>3, DrainKeeps
    <2>5. Kept(left, b) = Kept(rest, b)
      BY <1>6, <2>2, KeptParts
    <2> QED  BY <1>7, <1>8, <1>11, <2>1, <2>4, <2>5 DEF k
  <1>12. CASE op.do = "add"
    <2> DEFINE more == Append(rest.added, op.body)
               left == [rest EXCEPT !.added = more]
    <2>1. k = Drain(left, op.then)
      BY <1>2, <1>12
    <2>2. rest.added \in Seq(Bodies) /\ op.body \in Bodies
      BY <1>1, <1>3, <1>12 DEF Handle
    <2>3. /\ more \in Seq(Bodies)
          /\ Count(more, {b}) =
               Count(rest.added, {b}) + (IF op.body \in {b} THEN 1 ELSE 0)
      BY <2>2, CountAppend, AppendProperties
    <2> HIDE DEF more
    <2>4. /\ left \in Handle(Bodies)
          /\ left.pending = rest.pending /\ left.added = more /\ left.ops = rest.ops
      BY <1>1, <2>3 DEF Handle
    <2> HIDE DEF left
    <2>5. Kept(Drain(left, op.then), b) = Kept(left, b)
      BY <1>3, <2>4, DrainKeeps
    <2>6. Kept(left, b) = Count(left.pending, {b}) + Count(left.added, {b})
            + Count(left.ops, AddOps({b}))
      BY <2>4, KeptParts
    <2>7. /\ Count(left.pending, {b}) = Count(rest.pending, {b})
          /\ Count(left.added, {b}) = Count(more, {b})
          /\ Count(left.ops, AddOps({b})) = Count(rest.ops, AddOps({b}))
      BY <2>4
    <2>8. Kept(left, b) = Kept(rest, b) + (IF op.body = b THEN 1 ELSE 0)
      BY <1>6, <2>3, <2>6, <2>7
    <2> QED  BY <1>7, <1>12, <2>1, <2>5, <2>8 DEF k
  <1>13. Kept(k, b) = Kept(h, b)
    BY <1>3, <1>9, <1>10, <1>11, <1>12 DEF k
  <1> QED  BY <1>13 DEF k

\* Handles with the same candidates and operations.
LEMMA SameKept ==
    ASSUME NEW h \in Handle(Bodies), NEW k \in Handle(Bodies),
           k.pending = h.pending, k.added = h.added, k.ops = h.ops,
           NEW b \in Bodies
    PROVE  Kept(k, b) = Kept(h, b)
  BY KeptParts

LEMMA MetKeeps ==
    ASSUME NEW h \in Handle(Bodies) \cup {NoHandle}, NEW b \in Bodies
    PROVE  Met(h) \in Handle(Bodies) /\ Kept(Met(h), b) = Kept(h, b)
  <1>1. NewHandle \in Handle(Bodies)
    BY NewHandleFits DEF FitHandle
  <1>2. Kept(NewHandle, b) = 0
    <2>1. NewHandle.pending = << >> /\ NewHandle.added = << >> /\ NewHandle.ops = << >>
      BY DEF NewHandle
    <2>2. \A S : Count(<< >>, S) = 0
      BY CountEmpty
    <2>3. Kept(NewHandle, b) = Count(NewHandle.pending, {b})
            + Count(NewHandle.added, {b}) + Count(NewHandle.ops, AddOps({b}))
      BY <1>1, KeptParts
    <2> QED  BY <2>1, <2>2, <2>3
  <1> QED  BY <1>1, <1>2 DEF Met, Kept

LEMMA MaybeOfferKeeps ==
    ASSUME NEW h \in Handle(Bodies), NEW mine \in BOOLEAN, NEW b \in Bodies
    PROVE  /\ MaybeOffer(h, mine) \in Handle(Bodies)
           /\ Kept(MaybeOffer(h, mine), b) = Kept(h, b)
  <1> DEFINE k == MaybeOffer(h, mine)
             o == [do |-> "create_offer", body |-> NoBody, then |-> "end"]
  <1>1. \/ k = h
        \/ /\ k \in Handle(Bodies)
           /\ k.pending = h.pending
           /\ k.added = h.added
           /\ k.ops = Append(h.ops, o)
    BY MaybeOfferDoes
  <1>2. o \in Op(Bodies) /\ o.do # "add"
    BY DEF Op
  <1>3. h.ops \in Seq(Op(Bodies))
    BY DEF Handle
  <1> HIDE DEF o, k
  <1>4. Count(Append(h.ops, o), AddOps({b})) =
          Count(h.ops, AddOps({b})) + (IF o.do = "add" /\ o.body = b THEN 1 ELSE 0)
    BY <1>2, <1>3, AddsAppended
  <1>5. Count(Append(h.ops, o), AddOps({b})) = Count(h.ops, AddOps({b}))
    BY <1>2, <1>4, KeptParts
  <1>6. k \in Handle(Bodies) /\ Kept(k, b) = Kept(h, b)
    BY <1>1, <1>5, KeptParts
  <1> QED  BY <1>6 DEF k

\* A description is taken, or ignored.
LEMMA ApplyKeeps ==
    ASSUME NEW h \in Handle(Bodies), NEW do \in {"remote_offer", "remote_answer"},
           NEW body \in Bodies, NEW b \in Bodies,
           NEW k, k = h \/ k = Call([h EXCEPT !.remote_set = TRUE], do, body)
    PROVE  k \in Handle(Bodies) /\ Kept(k, b) = Kept(h, b)
  <1> DEFINE marked == [h EXCEPT !.remote_set = TRUE]
  <1>1. /\ marked \in Handle(Bodies)
        /\ marked.pending = h.pending /\ marked.added = h.added /\ marked.ops = h.ops
    BY DEF Handle
  <1>2. [do |-> do, body |-> body, then |-> "end"] \in Op(Bodies) /\ do # "add"
    BY DEF Op
  <1>3. k = h \/ k = Call(marked, do, body)
    OBVIOUS
  <1> HIDE DEF marked
  <1>4. Kept(marked, b) = Kept(h, b)
    BY <1>1, SameKept
  <1>5. /\ Call(marked, do, body) \in Handle(Bodies)
        /\ Kept(Call(marked, do, body), b) = Kept(marked, b)
    BY <1>1, <1>2, CallDoes, CallKeeps
  <1> QED  BY <1>3, <1>4, <1>5

\* A candidate comes.
LEMMA OnIceKeeps ==
    ASSUME NEW h \in Handle(Bodies), NEW mine \in BOOLEAN,
           NEW c \in Bodies, NEW b \in Bodies
    PROVE  /\ OnIce(h, mine, c) \in Handle(Bodies)
           /\ Kept(OnIce(h, mine, c), b) = Kept(h, b) + (IF c = b THEN 1 ELSE 0)
  <1> DEFINE offered == MaybeOffer(h, mine)
             more    == Append(offered.pending, c)
             queued  == [offered EXCEPT !.pending = more]
             k       == OnIce(h, mine, c)
  <1>1. k = IF queued.remote_set THEN Drain(queued, "end") ELSE queued
    BY DEF OnIce
  <1>2. offered \in Handle(Bodies) /\ Kept(offered, b) = Kept(h, b)
    BY MaybeOfferKeeps
  <1> HIDE DEF offered, k
  <1>3. offered.pending \in Seq(Bodies)
    BY <1>2 DEF Handle
  <1>4. /\ more \in Seq(Bodies)
        /\ Count(more, {b}) = Count(offered.pending, {b}) + (IF c \in {b} THEN 1 ELSE 0)
    BY <1>3, CountAppend, AppendProperties
  <1> HIDE DEF more
  <1>5. /\ queued \in Handle(Bodies)
        /\ queued.pending = more
        /\ queued.added = offered.added
        /\ queued.ops = offered.ops
    BY <1>2, <1>4 DEF Handle
  <1> HIDE DEF queued
  <1>6. Kept(queued, b) = Kept(h, b) + (IF c = b THEN 1 ELSE 0)
    <2>1. /\ Kept(queued, b) = Count(queued.pending, {b}) + Count(queued.added, {b})
               + Count(queued.ops, AddOps({b}))
          /\ Kept(offered, b) = Count(offered.pending, {b}) + Count(offered.added, {b})
               + Count(offered.ops, AddOps({b}))
          /\ Count(offered.pending, {b}) \in Nat
          /\ Count(offered.added, {b}) \in Nat
          /\ Count(offered.ops, AddOps({b})) \in Nat
      BY <1>2, <1>5, KeptParts
    <2>2. /\ Count(queued.pending, {b}) = Count(more, {b})
          /\ Count(queued.added, {b}) = Count(offered.added, {b})
          /\ Count(queued.ops, AddOps({b})) = Count(offered.ops, AddOps({b}))
      BY <1>5
    <2> QED  BY <1>2, <1>4, <2>1, <2>2
  <1>7. /\ Drain(queued, "end") \in Handle(Bodies)
        /\ Kept(Drain(queued, "end"), b) = Kept(queued, b)
    BY <1>5, DrainDoes, DrainKeeps
  <1>8. k \in Handle(Bodies) /\ Kept(k, b) = Kept(h, b) + (IF c = b THEN 1 ELSE 0)
    BY <1>1, <1>5, <1>6, <1>7
  <1> QED  BY <1>8 DEF k

\* What is read counts if it is a candidate.
LEMMA ReadsKeeps ==
    ASSUME NEW s \in Sessions, NEW p \in Sessions,
           NEW h \in Handle(Bodies) \cup {NoHandle}, NEW mine \in BOOLEAN,
           NEW e \in FitEvent(s) \cup ResyncRead,
           NEW k, Reads(h, k, p, mine, e), NEW b \in Bodies
    PROVE  /\ k \in Handle(Bodies) \cup {NoHandle}
           /\ Kept(k, b) = Kept(h, b)
                + (IF e.type = "ice" /\ e.from = p /\ e.body = b THEN 1 ELSE 0)
  <1> DEFINE f == Met(h)
  <1>1. f \in Handle(Bodies) /\ Kept(f, b) = Kept(h, b)
    BY MetKeeps
  <1>2. Kept(h, b) \in Nat
    BY KeptType
  <1>3. e.type \in SignalKinds => e.body \in Bodies
    BY BodyOf
  <1>4. "ice" \in SignalKinds /\ "offer" \in SignalKinds /\ "answer" \in SignalKinds
    BY MeshAssumption
  <1>5. h # NoHandle => h \in Handle(Bodies)
    OBVIOUS
  <1>6. \/ /\ e.type \in {"resync", "peer_joined"}
           /\ k = MaybeOffer(f, mine)
        \/ e.type = "offer" /\ k = ApplyOffer(f, mine, e.body)
        \/ e.type = "answer" /\ k = IF h = NoHandle THEN h ELSE ApplyAnswer(h, e.body)
        \/ e.type = "ice" /\ e.from = p /\ k = OnIce(f, mine, e.body)
        \/ ~(e.type \in SignalKinds /\ e.from = p) /\ k = h
    BY DEF Reads
  <1> HIDE DEF f
  <1>7. CASE e.type \in {"resync", "peer_joined"} /\ k = MaybeOffer(f, mine)
    <2>1. k \in Handle(Bodies) /\ Kept(k, b) = Kept(f, b)
      BY <1>1, <1>7, MaybeOfferKeeps
    <2> QED  BY <1>1, <1>2, <1>7, <2>1
  <1>8. CASE e.type = "offer" /\ k = ApplyOffer(f, mine, e.body)
    <2>1. k = f \/ k = Call([f EXCEPT !.remote_set = TRUE], "remote_offer", e.body)
      BY <1>8 DEF ApplyOffer
    <2>2. k \in Handle(Bodies) /\ Kept(k, b) = Kept(f, b)
      <3> DEFINE body == e.body
                 do   == "remote_offer"
      <3>1. /\ body \in Bodies /\ do \in {"remote_offer", "remote_answer"}
            /\ k = f \/ k = Call([f EXCEPT !.remote_set = TRUE], do, body)
        BY <1>3, <1>4, <1>8, <2>1
      <3> HIDE DEF body, do
      <3> QED  BY <1>1, <3>1, ApplyKeeps
    <2> QED  BY <1>1, <1>2, <1>8, <2>2
  <1>9. CASE e.type = "answer" /\ k = IF h = NoHandle THEN h ELSE ApplyAnswer(h, e.body)
    <2>1. CASE h = NoHandle
      BY <1>2, <1>9, <2>1
    <2>2. CASE h # NoHandle
      <3> DEFINE body == e.body
                 do   == "remote_answer"
      <3>1. /\ body \in Bodies /\ do \in {"remote_offer", "remote_answer"}
            /\ k = h \/ k = Call([h EXCEPT !.remote_set = TRUE], do, body)
        BY <1>3, <1>4, <1>9, <2>2 DEF ApplyAnswer
      <3> HIDE DEF body, do
      <3>2. k \in Handle(Bodies) /\ Kept(k, b) = Kept(h, b)
        BY <1>5, <2>2, <3>1, ApplyKeeps
      <3> QED  BY <1>2, <1>9, <3>2
    <2> QED  BY <2>1, <2>2
  <1>10. CASE e.type = "ice" /\ e.from = p /\ k = OnIce(f, mine, e.body)
    <2> DEFINE c == e.body
    <2>1. c \in Bodies /\ k = OnIce(f, mine, c)
      BY <1>3, <1>4, <1>10
    <2> HIDE DEF c
    <2>2. k \in Handle(Bodies) /\ Kept(k, b) = Kept(f, b) + (IF c = b THEN 1 ELSE 0)
      BY <1>1, <2>1, OnIceKeeps
    <2> QED  BY <1>1, <1>10, <2>2 DEF c
  <1>11. CASE ~(e.type \in SignalKinds /\ e.from = p) /\ k = h
    BY <1>2, <1>4, <1>11
  <1> QED  BY <1>6, <1>7, <1>8, <1>9, <1>10, <1>11

-----------------------------------------------------------------------------
(* Candidates wait for the description. *)

\* Nothing but an offer is called before remote_set is, and its remote
\* description is the first thing after it: no candidate is added too early.
Tidy(h) ==
    h # NoHandle =>
        /\ ~h.remote_set => h.remote = NoBody /\ h.ops \in Seq(OfferOps)
        /\ h.remote_set /\ h.remote = NoBody =>
             h.ops # << >> /\ Head(h.ops).do \in {"remote_offer", "remote_answer"}

LEMMA TidyMore ==
    ASSUME NEW h \in Handle(Bodies), NEW k \in Handle(Bodies), Tidy(h),
           k.remote_set = h.remote_set, k.remote = h.remote,
           \/ k.ops = h.ops
           \/ \E o \in Op(Bodies) : /\ k.ops = Append(h.ops, o)
                                    /\ h.remote_set \/ o \in OfferOps
    PROVE  Tidy(k)
  <1>1. h # NoHandle /\ k # NoHandle
    BY HandleIsNotNone
  <1>2. CASE k.ops = h.ops
    BY <1>1, <1>2 DEF Tidy
  <1>3. ASSUME NEW o \in Op(Bodies), k.ops = Append(h.ops, o),
               h.remote_set \/ o \in OfferOps
        PROVE  Tidy(k)
    <2> DEFINE more == Append(h.ops, o)
    <2>1. h.ops \in Seq(Op(Bodies))
      BY DEF Handle
    <2>2. h.ops # << >> => more # << >> /\ Head(more) = Head(h.ops)
      BY <2>1, AppendProperties, HeadTailProperties, EmptySeq
    <2>3. h.ops \in Seq(OfferOps) /\ o \in OfferOps => more \in Seq(OfferOps)
      BY AppendProperties
    <2> HIDE DEF more
    <2>4. k.ops = more
      BY <1>3 DEF more
    <2> QED  BY <1>1, <1>3, <2>2, <2>3, <2>4 DEF Tidy
  <1> QED  BY <1>2, <1>3

LEMMA DrainTidy ==
    ASSUME NEW h \in Handle(Bodies), Tidy(h), h.remote_set,
           NEW then \in {"end", "answer"}
    PROVE  Tidy(Drain(h, then))
  <1> DEFINE k == Drain(h, then)
             a == [do |-> "add", body |-> Head(h.pending), then |-> then]
             c == [do |-> "create_answer", body |-> NoBody, then |-> "end"]
  <1>1. /\ k \in Handle(Bodies)
        /\ SameState(h, k)
        /\ h.pending # << >> => Head(h.pending) \in Bodies /\ k.ops = Append(h.ops, a)
        /\ h.pending = << >> =>
             /\ then = "end" => k.ops = h.ops
             /\ then = "answer" => k.ops = Append(h.ops, c)
    BY DrainDoes
  <1>2. c \in Op(Bodies)
    BY DEF Op
  <1>3. Head(h.pending) \in Bodies => a \in Op(Bodies)
    BY DEF Op
  <1> HIDE DEF k, a, c
  <1>4. k.remote_set = h.remote_set /\ k.remote = h.remote
    BY <1>1 DEF SameState
  <1>5. k.ops = h.ops \/ \E o \in Op(Bodies) : k.ops = Append(h.ops, o)
    BY <1>1, <1>2, <1>3
  <1>6. Tidy(k)
    BY <1>1, <1>4, <1>5, TidyMore
  <1> QED  BY <1>6 DEF k

\* No operation that is performed is refused for coming too early.
LEMMA TidyHead ==
    ASSUME NEW h \in Handle(Bodies), h.ops # << >>, Tidy(h)
    PROVE  /\ ~(Head(h.ops).do = "add" /\ h.remote = NoBody)
           /\ Head(h.ops).do \notin {"create_offer", "local_offer"} => h.remote_set
           /\ Head(h.ops).do \in {"create_offer", "local_offer"} /\ h.remote_set =>
                h.remote # NoBody
           /\ Head(h.ops).do \in {"create_answer", "local_answer", "add"} =>
                h.remote # NoBody
  <1> DEFINE op == Head(h.ops)
  <1>1. h # NoHandle
    BY HandleIsNotNone
  <1>2. op \in Op(Bodies)
    BY RestDoes
  <1>3. h.ops \in Seq(OfferOps) => op \in OfferOps
    BY HeadTailProperties
  <1>4. op \in OfferOps <=> op.do \in {"create_offer", "local_offer"}
    BY <1>2, OpKinds
  <1>5. /\ ~h.remote_set => h.remote = NoBody /\ h.ops \in Seq(OfferOps)
        /\ h.remote_set /\ h.remote = NoBody => op.do \in {"remote_offer", "remote_answer"}
    BY <1>1 DEF Tidy
  <1> HIDE DEF op
  <1>6. /\ ~(op.do = "add" /\ h.remote = NoBody)
        /\ op.do \notin {"create_offer", "local_offer"} => h.remote_set
        /\ op.do \in {"create_offer", "local_offer"} /\ h.remote_set =>
             h.remote # NoBody
        /\ op.do \in {"create_answer", "local_answer", "add"} => h.remote # NoBody
    BY <1>3, <1>4, <1>5
  <1> QED  BY <1>6 DEF op

LEMMA PerformedTidy ==
    ASSUME NEW h \in Handle(Bodies), h.ops # << >>, Tidy(h)
    PROVE  Tidy(Performed(h))
  <1> DEFINE op   == Head(h.ops)
             rest == [h EXCEPT !.ops = Tail(h.ops)]
             k    == Performed(h)
             o    == [do |-> "local_offer", body |-> NoBody, then |-> "end"]
  <1>1. /\ op \in Op(Bodies)
        /\ rest \in Handle(Bodies)
        /\ rest.ops = Tail(h.ops)
    BY RestDoes
  <1>2. h # NoHandle
    BY HandleIsNotNone
  <1>3. /\ k \in Handle(Bodies)
        /\ k.remote_set = h.remote_set
        /\ k.remote = IF op.do \in {"remote_offer", "remote_answer"}
                      THEN op.body ELSE h.remote
    BY PerformedDoes
  <1>4. /\ op.do \notin {"create_offer", "local_offer"} => h.remote_set
        /\ op.do \in {"create_offer", "local_offer"} /\ h.remote_set =>
             h.remote # NoBody
        /\ op.do \in {"create_answer", "local_answer", "add"} => h.remote # NoBody
    BY TidyHead
  <1>5. /\ op.do \in {"create_offer", "local_offer", "remote_offer", "create_answer",
                      "local_answer", "remote_answer", "add"}
        /\ op.do \in {"remote_offer", "remote_answer", "add"} => op.body \in Bodies
    BY <1>1, OpKinds
  <1>6. NoBody \notin Bodies
    BY NoBodyIsNone
  <1>7. o \in Op(Bodies) /\ o \in OfferOps
    BY DEF Op, OfferOps
  <1>8. op.do = "create_offer" => k = Call(rest, "local_offer", NoBody)
    BY DEF Performed
  <1>9. op.do = "local_offer" =>
          k = [rest EXCEPT !.signaling = "have-local-offer", !.local = TRUE]
    BY DEF Performed
  <1>10. h.ops \in Seq(OfferOps) => rest.ops \in Seq(OfferOps)
    BY <1>1, HeadTailProperties
  <1>11. ~h.remote_set => h.remote = NoBody /\ h.ops \in Seq(OfferOps)
    BY <1>2 DEF Tidy
  <1>12. Call(rest, "local_offer", NoBody).ops = Append(rest.ops, o)
    <2> HIDE DEF rest
    <2>1. [do |-> "local_offer", body |-> NoBody, then |-> "end"] \in Op(Bodies)
      BY <1>7
    <2> QED  BY <1>1, <2>1, CallDoes
  <1>13. [rest EXCEPT !.signaling = "have-local-offer", !.local = TRUE].ops = rest.ops
    <2> HIDE DEF rest
    <2> QED  BY <1>1 DEF Handle
  <1>14. rest.ops \in Seq(OfferOps) => Append(rest.ops, o) \in Seq(OfferOps)
    BY <1>7, AppendProperties
  <1> HIDE DEF op, rest, k, o
  <1>15. op.do \in {"create_offer", "local_offer"} /\ ~h.remote_set =>
           k.ops \in Seq(OfferOps)
    BY <1>8, <1>9, <1>10, <1>11, <1>12, <1>13, <1>14
  <1>16. Tidy(k)
    BY <1>3, <1>4, <1>5, <1>6, <1>11, <1>15 DEF Tidy
  <1> QED  BY <1>16 DEF k

LEMMA MaybeOfferTidy ==
    ASSUME NEW h \in Handle(Bodies), Tidy(h), NEW mine \in BOOLEAN
    PROVE  Tidy(MaybeOffer(h, mine))
  <1> DEFINE k == MaybeOffer(h, mine)
             o == [do |-> "create_offer", body |-> NoBody, then |-> "end"]
  <1>1. \/ k = h
        \/ /\ k \in Handle(Bodies)
           /\ k.remote_set = h.remote_set
           /\ k.remote = h.remote
           /\ k.ops = Append(h.ops, o)
    BY MaybeOfferDoes
  <1>2. o \in Op(Bodies) /\ o \in OfferOps
    BY DEF Op, OfferOps
  <1> HIDE DEF o, k
  <1>3. Tidy(k)
    BY <1>1, <1>2, TidyMore
  <1> QED  BY <1>3 DEF k

\* A description is applied where nothing was called before.
LEMMA ApplyTidy ==
    ASSUME NEW h \in Handle(Bodies), Tidy(h), h.ops = << >>,
           NEW do \in {"remote_offer", "remote_answer"}, NEW body \in Bodies
    PROVE  Tidy(Call([h EXCEPT !.remote_set = TRUE], do, body))
  <1> DEFINE marked == [h EXCEPT !.remote_set = TRUE]
             o      == [do |-> do, body |-> body, then |-> "end"]
             k      == Call(marked, do, body)
  <1>1. marked \in Handle(Bodies) /\ marked.remote_set /\ marked.ops = << >>
    BY DEF Handle
  <1>2. o \in Op(Bodies) /\ o.do = do
    BY DEF Op
  <1> HIDE DEF marked
  <1>3. k.remote_set /\ k.ops = Append(<< >>, o)
    BY <1>1, <1>2, CallDoes DEF SameState
  <1>4. Append(<< >>, o) # << >> /\ Head(Append(<< >>, o)) = o
    OBVIOUS
  <1> HIDE DEF o, k
  <1>5. Tidy(k)
    BY <1>2, <1>3, <1>4 DEF Tidy
  <1> QED  BY <1>5 DEF k, marked

LEMMA OnIceTidy ==
    ASSUME NEW h \in Handle(Bodies), Tidy(h), NEW mine \in BOOLEAN, NEW c \in Bodies
    PROVE  Tidy(OnIce(h, mine, c))
  <1> DEFINE offered == MaybeOffer(h, mine)
             more    == Append(offered.pending, c)
             queued  == [offered EXCEPT !.pending = more]
             k       == OnIce(h, mine, c)
  <1>1. k = IF queued.remote_set THEN Drain(queued, "end") ELSE queued
    BY DEF OnIce
  <1>2. offered \in Handle(Bodies) /\ Tidy(offered)
    BY MaybeOfferDoes, MaybeOfferTidy
  <1> HIDE DEF offered, k
  <1>3. more \in Seq(Bodies)
    BY <1>2, AppendProperties DEF Handle
  <1> HIDE DEF more
  <1>4. /\ queued \in Handle(Bodies)
        /\ queued.remote_set = offered.remote_set
        /\ queued.remote = offered.remote
        /\ queued.ops = offered.ops
    BY <1>2, <1>3 DEF Handle
  <1> HIDE DEF queued
  <1>5. Tidy(queued)
    BY <1>2, <1>4, TidyMore
  <1>6. queued.remote_set => Tidy(Drain(queued, "end"))
    BY <1>4, <1>5, DrainTidy
  <1>7. Tidy(k)
    BY <1>1, <1>5, <1>6
  <1> QED  BY <1>7 DEF k

LEMMA MetTidy ==
    ASSUME NEW h \in Handle(Bodies) \cup {NoHandle}, Tidy(h)
    PROVE  Tidy(Met(h))
  <1>1. Tidy(NewHandle)
    BY EmptySeq DEF Tidy, NewHandle
  <1> QED  BY <1>1 DEF Met

\* What is read leaves the connection tidy, if descriptions come where nothing
\* is called.
LEMMA ReadsTidy ==
    ASSUME NEW s \in Sessions, NEW p \in Sessions,
           NEW h \in Handle(Bodies) \cup {NoHandle}, Tidy(h), NEW mine \in BOOLEAN,
           NEW e \in FitEvent(s) \cup ResyncRead,
           NEW k, Reads(h, k, p, mine, e),
           e.type = "offer" /\ e.from = p /\ TakesOffer(Met(h), mine) =>
             Met(h).ops = << >>,
           e.type = "answer" /\ e.from = p /\ h # NoHandle /\ TakesAnswer(h) =>
             h.ops = << >>
    PROVE  Tidy(k)
  <1> DEFINE f == Met(h)
  <1>1. f \in Handle(Bodies) /\ Tidy(f)
    <2>1. f \in Handle(Bodies)
      BY NewHandleFits DEF Met, FitHandle
    <2> QED  BY <2>1, MetTidy
  <1>2. e.type \in SignalKinds => e.body \in Bodies
    BY BodyOf
  <1>3. "ice" \in SignalKinds /\ "offer" \in SignalKinds /\ "answer" \in SignalKinds
    BY MeshAssumption
  <1>4. h # NoHandle => h \in Handle(Bodies)
    OBVIOUS
  <1>5. \/ k = MaybeOffer(f, mine)
        \/ e.type = "offer" /\ e.from = p /\ k = ApplyOffer(f, mine, e.body)
        \/ /\ e.type = "answer" /\ e.from = p
           /\ k = IF h = NoHandle THEN h ELSE ApplyAnswer(h, e.body)
        \/ e.type = "ice" /\ k = OnIce(f, mine, e.body)
        \/ k = h
    BY DEF Reads
  <1>6. e.type = "offer" /\ e.from = p /\ TakesOffer(f, mine) => f.ops = << >>
    OBVIOUS
  <1> HIDE DEF f
  <1>7. CASE k = MaybeOffer(f, mine)
    BY <1>1, <1>7, MaybeOfferTidy
  <1>8. CASE e.type = "offer" /\ e.from = p /\ k = ApplyOffer(f, mine, e.body)
    <2> DEFINE body == e.body
               do   == "remote_offer"
    <2>1. \/ k = f
          \/ f.ops = << >> /\ k = Call([f EXCEPT !.remote_set = TRUE], do, body)
      BY <1>6, <1>8 DEF ApplyOffer
    <2>2. body \in Bodies /\ do \in {"remote_offer", "remote_answer"}
      BY <1>2, <1>3, <1>8
    <2> HIDE DEF body, do
    <2> QED  BY <1>1, <2>1, <2>2, ApplyTidy
  <1>9. CASE /\ e.type = "answer" /\ e.from = p
             /\ k = IF h = NoHandle THEN h ELSE ApplyAnswer(h, e.body)
    <2> DEFINE body == e.body
               do   == "remote_answer"
    <2>1. \/ k = h
          \/ /\ h # NoHandle /\ h.ops = << >>
             /\ k = Call([h EXCEPT !.remote_set = TRUE], do, body)
      BY <1>9 DEF ApplyAnswer
    <2>2. body \in Bodies /\ do \in {"remote_offer", "remote_answer"}
      BY <1>2, <1>3, <1>9
    <2> HIDE DEF body, do
    <2> QED  BY <1>4, <2>1, <2>2, ApplyTidy
  <1>10. CASE e.type = "ice" /\ k = OnIce(f, mine, e.body)
    <2> DEFINE c == e.body
    <2>1. c \in Bodies /\ k = OnIce(f, mine, c)
      BY <1>2, <1>3, <1>10
    <2> HIDE DEF c
    <2> QED  BY <1>1, <2>1, OnIceTidy
  <1>11. CASE k = h
    BY <1>11
  <1> QED  BY <1>5, <1>7, <1>8, <1>9, <1>10, <1>11

-----------------------------------------------------------------------------
(* What is made of a handle when nothing is lost. *)

Gathered(h) == IF h = NoHandle THEN 0 ELSE h.gathered

\* The operations and signals that there may be on a handle in a pair that has
\* lost nothing; m is what the peer has not read of its page, n what its page
\* has not read of the peer.
Expects(h, m, n, mine) ==
    /\ Tidy(h)
    /\ mine /\ h # NoHandle /\ n["answer"][Bodies] # 0 => h.ops = << >>
    /\ h # NoHandle /\ h.ops # << >> /\ Head(h.ops).do = "remote_answer" =>
         h.signaling = "have-local-offer"
    /\ ~mine /\ m["answer"][Bodies] # 0 => h # NoHandle /\ h.remote_set

\* What comes is kept.
Keeps(h, k, n, n2) ==
    \A b \in Bodies : n["ice"][{b}] + Kept(h, b) = n2["ice"][{b}] + Kept(k, b)

\* What is gathered is sent.
Gathers(h, k, m, m2, v) ==
    \/ /\ Gathered(k) = Gathered(h)
       /\ \A b \in Bodies : m2["ice"][{b}] = m["ice"][{b}]
    \/ /\ h # NoHandle
       /\ Gathered(k) = Gathered(h) + 1
       /\ Gathered(k) <= MaxCandidates
       /\ Sent(m, m2, "ice", <<v, Gathered(k)>>)

\* The answer is taken once, and given after the offer was.
Describes(h, k, m, m2, n, n2, mine) ==
    /\ mine /\ k # NoHandle /\ k.remote # NoBody =>
         /\ h # NoHandle
         /\ \/ h.remote # NoBody
            \/ /\ OpsIn(h, OfferOps) = OpsIn(k, OfferOps)
               /\ OpsIn(h, TakeOps) = OpsIn(k, TakeOps) + 1
               /\ m2 = m /\ n2 = n
    /\ ~mine /\ m2["answer"][Bodies] # 0 => k # NoHandle /\ k.remote_set

Proceeds(h, k, m, m2, n, n2, mine, v) ==
    /\ Tidy(k)
    /\ Keeps(h, k, n, n2)
    /\ Gathers(h, k, m, m2, v)
    /\ Describes(h, k, m, m2, n, n2, mine)

\* How the numbers of a candidate change.
LEMMA IceNumbers ==
    ASSUME NEW m \in Mails, NEW m2 \in Mails, NEW b \in Bodies
    PROVE  /\ m["ice"][{b}] \in Nat
           /\ \A kind, body : Sent(m, m2, kind, body) /\ kind # "ice" =>
                m2["ice"][{b}] = m["ice"][{b}]
           /\ \A s \in Sessions, p \in Sessions : \A e \in FitEvent(s) \cup ResyncRead :
                Taken(m, m2, p, e) =>
                  m["ice"][{b}] = m2["ice"][{b}]
                    + (IF e.type = "ice" /\ e.from = p /\ e.body = b THEN 1 ELSE 0)
  <1>1. "ice" \in SignalKinds /\ {b} \in SUBSET Bodies
    BY MeshAssumption
  <1>2. m["ice"][{b}] \in Nat
    BY <1>1 DEF Mails
  <1>3. ASSUME NEW kind, NEW body, Sent(m, m2, kind, body), kind # "ice"
        PROVE  m2["ice"][{b}] = m["ice"][{b}]
    <2>1. \/ m2["ice"][{b}] = m["ice"][{b}]
          \/ m2["ice"][{b}] =
               m["ice"][{b}] + (IF "ice" = kind /\ body \in {b} THEN 1 ELSE 0)
      BY <1>1, <1>3 DEF Sent
    <2> QED  BY <1>2, <1>3, <2>1
  <1>4. ASSUME NEW s \in Sessions, NEW p \in Sessions,
               NEW e \in FitEvent(s) \cup ResyncRead, Taken(m, m2, p, e)
        PROVE  m["ice"][{b}] = m2["ice"][{b}]
                 + (IF e.type = "ice" /\ e.from = p /\ e.body = b THEN 1 ELSE 0)
    <2>1. m["ice"][{b}] =
            m2["ice"][{b}] + (IF e \in SignalsOf(p, "ice", {b}) THEN 1 ELSE 0)
      BY <1>1, <1>4 DEF Taken
    <2>2. e \in SignalsOf(p, "ice", {b}) <=> e.type = "ice" /\ e.from = p /\ e.body \in {b}
      BY <1>1, TakenOf
    <2> QED  BY <2>1, <2>2
  <1> QED  BY <1>2, <1>3, <1>4

LEMMA FitIsHandle ==
    ASSUME NEW h, NEW mine, h \in FitHandle(mine) \cup {NoHandle}
    PROVE  h \in Handle(Bodies) \cup {NoHandle}
  BY DEF FitHandle

\* Who does not make the offers has nothing called before an offer comes.
LEMMA NothingCalled ==
    ASSUME NEW g \in FitHandle(FALSE), Tidy(g), ~g.remote_set
    PROVE  g.ops = << >>
  <1>1. g # NoHandle /\ g.ops \in Seq(Op(Bodies))
    BY HandleIsNotNone DEF FitHandle, Handle
  <1>2. g.ops \in Seq(OfferOps) /\ g.ops \in Seq(FitOp(g.remote # NoBody, FALSE))
    BY <1>1 DEF Tidy, FitHandle
  <1>3. ASSUME g.ops # << >>
        PROVE  FALSE
    <2> DEFINE o == Head(g.ops)
    <2>1. o \in OfferOps /\ o \in FitOp(g.remote # NoBody, FALSE)
      BY <1>2, <1>3, HeadTailProperties
    <2> HIDE DEF o
    <2>2. o \in Op(Bodies) /\ o.do \notin {"create_offer", "local_offer"}
      BY <2>1 DEF FitOp
    <2> QED  BY <2>1, <2>2, OpKinds
  <1> QED  BY <1>3

\* What no event changes.
LEMMA ReadsState ==
    ASSUME NEW s \in Sessions, NEW p \in Sessions,
           NEW h \in Handle(Bodies) \cup {NoHandle}, NEW mine \in BOOLEAN,
           NEW e \in FitEvent(s) \cup ResyncRead,
           NEW k, Reads(h, k, p, mine, e)
    PROVE  /\ k # NoHandle \/ h = NoHandle
           /\ k # NoHandle => /\ k.gathered = Met(h).gathered
                              /\ k.remote = Met(h).remote
                              /\ Met(h).remote_set => k.remote_set
  <1> DEFINE f == Met(h)
             Goal == /\ k # NoHandle
                     /\ k.gathered = f.gathered
                     /\ k.remote = f.remote
                     /\ f.remote_set => k.remote_set
  <1>1. f \in Handle(Bodies)
    BY NewHandleFits DEF Met, FitHandle
  <1>2. f # NoHandle /\ (h # NoHandle => f = h)
    BY <1>1, HandleIsNotNone DEF Met
  <1>3. e.type \in SignalKinds => e.body \in Bodies
    BY BodyOf
  <1>4. "ice" \in SignalKinds /\ "offer" \in SignalKinds /\ "answer" \in SignalKinds
    BY MeshAssumption
  <1>5. \/ k = MaybeOffer(f, mine)
        \/ e.type = "offer" /\ k = ApplyOffer(f, mine, e.body)
        \/ e.type = "answer" /\ h # NoHandle /\ k = ApplyAnswer(h, e.body)
        \/ e.type = "ice" /\ k = OnIce(f, mine, e.body)
        \/ k = h
    BY DEF Reads
  <1> HIDE DEF f
  <1>6. CASE k = MaybeOffer(f, mine)
    <2>1. /\ k \in Handle(Bodies)
          /\ k.gathered = f.gathered /\ k.remote = f.remote /\ k.remote_set = f.remote_set
      BY <1>1, <1>6, MaybeOfferDoes
    <2>2. k # NoHandle
      BY <2>1, HandleIsNotNone
    <2> QED  BY <2>1, <2>2 DEF f
  <1>7. ASSUME NEW do \in {"remote_offer", "remote_answer"}, NEW body \in Bodies,
               k = f \/ k = Call([f EXCEPT !.remote_set = TRUE], do, body)
        PROVE  Goal
    <2> DEFINE marked == [f EXCEPT !.remote_set = TRUE]
    <2>1. /\ marked \in Handle(Bodies) /\ marked.remote_set
          /\ marked.gathered = f.gathered /\ marked.remote = f.remote
      BY <1>1 DEF Handle
    <2>2. k = f \/ k = Call(marked, do, body)
      BY <1>7
    <2>3. [do |-> do, body |-> body, then |-> "end"] \in Op(Bodies)
      BY DEF Op
    <2> HIDE DEF marked
    <2>4. /\ Call(marked, do, body) \in Handle(Bodies)
          /\ SameState(marked, Call(marked, do, body))
      BY <2>1, <2>3, CallDoes
    <2>5. Call(marked, do, body) # NoHandle
      BY <2>4, HandleIsNotNone
    <2>6. CASE k = f
      BY <1>2, <2>6
    <2>7. CASE k = Call(marked, do, body)
      BY <2>1, <2>4, <2>5, <2>7 DEF SameState
    <2> QED  BY <2>2, <2>6, <2>7
  <1>8. CASE e.type = "offer" /\ k = ApplyOffer(f, mine, e.body)
    <2> DEFINE body == e.body
               do   == "remote_offer"
    <2>1. /\ body \in Bodies /\ do \in {"remote_offer", "remote_answer"}
          /\ k = f \/ k = Call([f EXCEPT !.remote_set = TRUE], do, body)
      BY <1>3, <1>4, <1>8 DEF ApplyOffer
    <2> HIDE DEF body, do, Goal
    <2>2. Goal
      BY <1>7, <2>1
    <2> QED  BY <2>2 DEF Goal, f
  <1>9. CASE e.type = "answer" /\ h # NoHandle /\ k = ApplyAnswer(h, e.body)
    <2> DEFINE body == e.body
               do   == "remote_answer"
    <2>1. /\ body \in Bodies /\ do \in {"remote_offer", "remote_answer"}
          /\ k = f \/ k = Call([f EXCEPT !.remote_set = TRUE], do, body)
      BY <1>2, <1>3, <1>4, <1>9 DEF ApplyAnswer
    <2> HIDE DEF body, do, Goal
    <2>2. Goal
      BY <1>7, <2>1
    <2> QED  BY <2>2 DEF Goal, f
  <1>10. CASE e.type = "ice" /\ k = OnIce(f, mine, e.body)
    <2> DEFINE b == e.body
               offered == MaybeOffer(f, mine)
    <2>1. b \in Bodies /\ k = OnIce(f, mine, b)
      BY <1>3, <1>4, <1>10
    <2> HIDE DEF b
    <2>2. /\ offered \in Handle(Bodies)
          /\ offered.gathered = f.gathered
          /\ offered.remote = f.remote
          /\ offered.remote_set = f.remote_set
      BY <1>1, MaybeOfferDoes
    <2> DEFINE o == offered
    <2>3. o = MaybeOffer(f, mine) /\ o \in Handle(Bodies)
      BY <2>2
    <2> HIDE DEF o, offered
    <2>4. k \in Handle(Bodies) /\ SameState(o, k)
      BY <1>1, <2>1, <2>3, OnIceDoes
    <2>5. k # NoHandle
      BY <2>4, HandleIsNotNone
    <2> QED  BY <2>2, <2>4, <2>5 DEF SameState, o, f
  <1>11. CASE k = h
    BY <1>2, <1>11 DEF f
  <1> QED  BY <1>5, <1>6, <1>8, <1>9, <1>10, <1>11

LEMMA ReadingProceeds ==
    ASSUME NEW s \in Sessions, NEW p \in Sessions,
           NEW h \in FitHandle(WeInitiate(s, p)) \cup {NoHandle},
           NEW k, NEW m \in Mails, NEW m2 \in Mails, NEW n \in Mails, NEW n2 \in Mails,
           Expects(h, m, n, WeInitiate(s, p)),
           Reading(h, k, m, m2, n, n2, s, p), NEW v
    PROVE  Proceeds(h, k, m, m2, n, n2, WeInitiate(s, p), v)
  <1> DEFINE mine == WeInitiate(s, p)
  <1>1. PICK e \in FitEvent(s) \cup ResyncRead :
           Reads(h, k, p, mine, e) /\ Taken(n, n2, p, e)
    BY DEF Reading
  <1>2. m2 = m
    BY DEF Reading
  <1>3. h \in Handle(Bodies) \cup {NoHandle} /\ mine \in BOOLEAN
    BY FitIsHandle, InitiateType
  <1>4. Expects(h, m, n, mine) /\ h \in FitHandle(mine) \cup {NoHandle}
    OBVIOUS
  <1>5. e.type = "offer" /\ e.from = p => ~mine
    BY <1>1, InitiateType DEF FitEvent, ResyncRead
  <1>6. e.type = "answer" /\ e.from = p => mine
    BY <1>1 DEF FitEvent, ResyncRead
  <1> HIDE DEF mine
  <1>7. e.type = "answer" /\ e.from = p => n["answer"][Bodies] # 0
    <2>1. "answer" \in SignalKinds
      BY MeshAssumption
    <2>2. /\ n["answer"][Bodies] =
               n2["answer"][Bodies] + (IF e.type = "answer" /\ e.from = p THEN 1 ELSE 0)
          /\ n2["answer"][Bodies] \in Nat
      BY <1>1, <2>1, TakenNumbers, MailNumbers
    <2> QED  BY <2>2
  <1>8. e.type = "answer" /\ e.from = p /\ h # NoHandle /\ TakesAnswer(h) =>
          h.ops = << >>
    BY <1>4, <1>6, <1>7 DEF Expects
  <1>9. e.type = "offer" /\ e.from = p /\ TakesOffer(Met(h), mine) =>
          Met(h).ops = << >>
    <2> SUFFICES ASSUME e.type = "offer", e.from = p, TakesOffer(Met(h), mine)
                 PROVE  Met(h).ops = << >>
      OBVIOUS
    <2>1. mine = FALSE
      BY <1>3, <1>5
    <2>2. Met(h) \in FitHandle(FALSE)
      BY <1>4, <2>1, NewHandleFits DEF Met
    <2>3. Tidy(Met(h))
      BY <1>3, <1>4, MetTidy DEF Expects
    <2>4. ~Met(h).remote_set
      BY DEF TakesOffer
    <2> QED  BY <2>2, <2>3, <2>4, NothingCalled
  <1>10. Tidy(k)
    BY <1>1, <1>3, <1>4, <1>8, <1>9, ReadsTidy DEF Expects
  <1>11. Keeps(h, k, n, n2)
    <2>1. ASSUME NEW b \in Bodies
          PROVE  n["ice"][{b}] + Kept(h, b) = n2["ice"][{b}] + Kept(k, b)
      <3>1. Kept(k, b) = Kept(h, b)
               + (IF e.type = "ice" /\ e.from = p /\ e.body = b THEN 1 ELSE 0)
        BY <1>1, <1>3, ReadsKeeps
      <3>2. n["ice"][{b}] = n2["ice"][{b}]
               + (IF e.type = "ice" /\ e.from = p /\ e.body = b THEN 1 ELSE 0)
        <4>1. \A x \in Sessions, y \in Sessions : \A z \in FitEvent(x) \cup ResyncRead :
                 Taken(n, n2, y, z) =>
                   n["ice"][{b}] = n2["ice"][{b}]
                     + (IF z.type = "ice" /\ z.from = y /\ z.body = b THEN 1 ELSE 0)
          BY IceNumbers
        <4> QED  BY <1>1, <4>1
      <3>3. n2["ice"][{b}] \in Nat /\ Kept(h, b) \in Nat
        BY <1>3, IceNumbers, KeptType
      <3> QED  BY <3>1, <3>2, <3>3
    <2> QED  BY <2>1 DEF Keeps
  <1>12. /\ k # NoHandle \/ h = NoHandle
         /\ k # NoHandle => /\ k.gathered = Met(h).gathered
                            /\ k.remote = Met(h).remote
                            /\ Met(h).remote_set => k.remote_set
    BY <1>1, <1>3, ReadsState
  <1>13. Met(h).gathered = Gathered(h) /\ Gathered(NoHandle) = 0
    BY DEF Met, Gathered, NewHandle
  <1>14. Gathers(h, k, m, m2, v)
    <2>1. Gathered(k) = Gathered(h)
      BY <1>12, <1>13 DEF Gathered
    <2> QED  BY <1>2, <2>1 DEF Gathers
  <1>15. Describes(h, k, m, m2, n, n2, mine)
    <2>1. k # NoHandle /\ k.remote # NoBody => h # NoHandle /\ h.remote # NoBody
      BY <1>12 DEF Met, NewHandle
    <2>2. ~mine /\ m2["answer"][Bodies] # 0 => k # NoHandle /\ k.remote_set
      BY <1>2, <1>4, <1>12 DEF Expects, Met
    <2> QED  BY <2>1, <2>2 DEF Describes
  <1>16. Proceeds(h, k, m, m2, n, n2, mine, v)
    BY <1>10, <1>11, <1>14, <1>15 DEF Proceeds
  <1> QED  BY <1>16 DEF mine

\* A handle that is performed on, nothing of the pair being lost.
LEMMA PerformingProceeds ==
    ASSUME NEW mine \in BOOLEAN, NEW h \in FitHandle(mine) \cup {NoHandle},
           NEW k, NEW m \in Mails, NEW m2 \in Mails, NEW n \in Mails, NEW n2 \in Mails,
           NEW v, Expects(h, m, n, mine), Performing(h, k, m, m2, n, n2, v)
    PROVE  Proceeds(h, k, m, m2, n, n2, mine, v)
  <1> DEFINE op == Head(h.ops)
  <1>1. h \in Handle(Bodies) /\ h # NoHandle /\ h.ops # << >> /\ k = Performed(h) /\ n2 = n
    BY FitIsHandle DEF Performing
  <1>2. Tidy(h)
    BY DEF Expects
  <1>3. /\ k \in Handle(Bodies)
        /\ k.remote_set = h.remote_set
        /\ k.gathered = h.gathered
        /\ k.remote = IF op.do \in {"remote_offer", "remote_answer"}
                      THEN op.body ELSE h.remote
        /\ Count(h.ops, OfferOps) = Count(k.ops, OfferOps)
             + (IF op.do = "local_offer" THEN 1 ELSE 0)
        /\ Count(h.ops, TakeOps) = Count(k.ops, TakeOps)
             + (IF op.do = "remote_answer" THEN 1 ELSE 0)
    BY <1>1, PerformedDoes
  <1>4. k # NoHandle
    BY <1>3, HandleIsNotNone
  <1>5. op \in FitOp(h.remote # NoBody, mine)
    BY <1>1, HeadTailProperties DEF FitHandle
  <1>6. op.do = "remote_offer" => ~mine
    BY <1>5 DEF FitOp
  <1>7. op.do = "local_answer" => h.remote_set
    BY <1>1, <1>2, TidyHead
  <1>8. \/ op.do = "local_offer" /\ Sent(m, m2, "offer", <<v, 0>>)
        \/ op.do = "local_answer" /\ Sent(m, m2, "answer", <<v, h.remote[1]>>)
        \/ op.do \notin {"local_offer", "local_answer"} /\ m2 = m
    BY DEF Performing
  <1> HIDE DEF op
  <1>9. Tidy(k)
    BY <1>1, <1>2, PerformedTidy
  <1>10. Keeps(h, k, n, n2)
    BY <1>1, PerformedKeeps DEF Keeps
  <1>11. Gathers(h, k, m, m2, v)
    <2>1. Gathered(k) = Gathered(h)
      BY <1>1, <1>3, <1>4 DEF Gathered
    <2>2. ASSUME NEW b \in Bodies
          PROVE  m2["ice"][{b}] = m["ice"][{b}]
      <3>1. \A kind, body : Sent(m, m2, kind, body) /\ kind # "ice" =>
              m2["ice"][{b}] = m["ice"][{b}]
        BY IceNumbers
      <3> QED  BY <1>8, <3>1
    <2> QED  BY <2>1, <2>2 DEF Gathers
  <1>12. Describes(h, k, m, m2, n, n2, mine)
    <2>1. ASSUME mine, k.remote # NoBody, h.remote = NoBody
          PROVE  /\ OpsIn(h, OfferOps) = OpsIn(k, OfferOps)
                 /\ OpsIn(h, TakeOps) = OpsIn(k, TakeOps) + 1
                 /\ m2 = m /\ n2 = n
      <3>1. op.do = "remote_answer"
        BY <1>3, <1>6, <2>1
      <3>2. m2 = m
        BY <1>8, <3>1
      <3>3. Count(k.ops, OfferOps) \in Nat /\ Count(k.ops, TakeOps) \in Nat
        BY <1>3, TokensType DEF Handle
      <3>4. /\ Count(h.ops, OfferOps) = Count(k.ops, OfferOps)
            /\ Count(h.ops, TakeOps) = Count(k.ops, TakeOps) + 1
        BY <1>3, <3>1, <3>3
      <3> QED  BY <1>1, <1>4, <3>2, <3>4 DEF OpsIn
    <2>2. ASSUME ~mine, m2["answer"][Bodies] # 0
          PROVE  k.remote_set
      <3>1. "answer" \in SignalKinds
        BY MeshAssumption
      <3>2. \A kind, body : Sent(m, m2, kind, body) /\ kind # "answer" =>
              m2["answer"][Bodies] = m["answer"][Bodies]
        BY <3>1, MailNumbers
      <3>3. CASE op.do = "local_answer"
        BY <1>3, <1>7, <3>3
      <3>4. CASE op.do # "local_answer"
        <4>1. m["answer"][Bodies] # 0
          BY <1>8, <2>2, <3>2, <3>4
        <4>2. h.remote_set
          BY <2>2, <4>1 DEF Expects
        <4> QED  BY <1>3, <4>2
      <3> QED  BY <3>3, <3>4
    <2> QED  BY <1>1, <1>4, <2>1, <2>2 DEF Describes
  <1> QED  BY <1>9, <1>10, <1>11, <1>12 DEF Proceeds

LEMMA GatheringProceeds ==
    ASSUME NEW mine \in BOOLEAN, NEW h \in FitHandle(mine) \cup {NoHandle},
           NEW k, NEW m \in Mails, NEW m2 \in Mails, NEW n \in Mails, NEW n2 \in Mails,
           NEW v, Expects(h, m, n, mine), Gathering(h, k, m, m2, n, n2, v)
    PROVE  Proceeds(h, k, m, m2, n, n2, mine, v)
  <1> DEFINE more == h.gathered + 1
  <1>1. /\ h \in Handle(Bodies) /\ h # NoHandle
        /\ more <= MaxCandidates
        /\ k = [h EXCEPT !.gathered = more]
        /\ n2 = n
        /\ Sent(m, m2, "ice", <<v, more>>)
    BY FitIsHandle DEF Gathering
  <1>2. more \in Nat
    BY <1>1 DEF Handle
  <1>3. more = Gathered(h) + 1
    BY <1>1 DEF Gathered
  <1> HIDE DEF more
  <1>4. /\ k \in Handle(Bodies)
        /\ k.gathered = more
        /\ k.remote_set = h.remote_set /\ k.remote = h.remote
        /\ k.pending = h.pending /\ k.added = h.added /\ k.ops = h.ops
    BY <1>1, <1>2 DEF Handle
  <1>5. k # NoHandle
    BY <1>4, HandleIsNotNone
  <1>6. Tidy(k)
    BY <1>1, <1>4, TidyMore DEF Expects
  <1>7. Keeps(h, k, n, n2)
    BY <1>1, <1>4, SameKept DEF Keeps
  <1>8. Gathers(h, k, m, m2, v)
    <2>1. Gathered(k) = more
      BY <1>4, <1>5 DEF Gathered
    <2> QED  BY <1>1, <1>3, <2>1 DEF Gathers
  <1>9. Describes(h, k, m, m2, n, n2, mine)
    <2>1. "answer" \in SignalKinds
      BY MeshAssumption
    <2>2. m2["answer"][Bodies] = m["answer"][Bodies]
      BY <1>1, <2>1, MailNumbers
    <2>3. ~mine /\ m["answer"][Bodies] # 0 => h.remote_set
      BY DEF Expects
    <2> QED  BY <1>1, <1>4, <1>5, <2>2, <2>3 DEF Describes
  <1> QED  BY <1>6, <1>7, <1>8, <1>9 DEF Proceeds

\* The drain after a POST that is not lost.
Drained(h, k, m, m2, n, n2, mine) ==
    /\ h # NoHandle /\ ~mine /\ m["answer"][Bodies] # 0
    /\ k = Drain(h, "end") /\ m2 = m /\ n2 = n

LEMMA DrainingProceeds ==
    ASSUME NEW mine \in BOOLEAN, NEW h \in FitHandle(mine) \cup {NoHandle},
           NEW k, NEW m \in Mails, NEW m2 \in Mails, NEW n \in Mails, NEW n2 \in Mails,
           NEW v, Expects(h, m, n, mine), Drained(h, k, m, m2, n, n2, mine)
    PROVE  Proceeds(h, k, m, m2, n, n2, mine, v)
  <1>1. /\ h \in Handle(Bodies) /\ h # NoHandle /\ ~mine /\ m["answer"][Bodies] # 0
        /\ k = Drain(h, "end") /\ m2 = m /\ n2 = n
    BY FitIsHandle DEF Drained
  <1>2. Tidy(h) /\ h.remote_set
    BY <1>1 DEF Expects
  <1>3. k \in Handle(Bodies) /\ SameState(h, k)
    BY <1>1, DrainDoes
  <1>4. k # NoHandle
    BY <1>3, HandleIsNotNone
  <1>5. Tidy(k)
    BY <1>1, <1>2, DrainTidy
  <1>6. Keeps(h, k, n, n2)
    BY <1>1, DrainKeeps DEF Keeps
  <1>7. Gathers(h, k, m, m2, v)
    <2>1. Gathered(k) = Gathered(h)
      BY <1>1, <1>3, <1>4 DEF Gathered, SameState
    <2> QED  BY <1>1, <2>1 DEF Gathers
  <1>8. Describes(h, k, m, m2, n, n2, mine)
    BY <1>1, <1>2, <1>3, <1>4 DEF Describes, SameState
  <1> QED  BY <1>5, <1>6, <1>7, <1>8 DEF Proceeds

\* Nothing is rejected that comes when it is expected.
LEMMA NothingRejected ==
    ASSUME NEW h \in Handle(Bodies), h # NoHandle, h.ops # << >>,
           NEW m, NEW n, NEW mine, Expects(h, m, n, mine)
    PROVE  ~Rejects(h)
  <1>1. Tidy(h)
    BY DEF Expects
  <1>2. ~(Head(h.ops).do = "add" /\ h.remote = NoBody)
    BY <1>1, TidyHead
  <1>3. Head(h.ops).do = "remote_answer" => h.signaling = "have-local-offer"
    BY DEF Expects
  <1> QED  BY <1>2, <1>3 DEF Rejects

\* mine says whether s makes the offer.
Initiates(s, p, mine) == mine = WeInitiate(s, p)

LEMMA HandledProceeds ==
    ASSUME NEW s \in Sessions, NEW p \in Sessions,
           NEW mine, Initiates(s, p, mine), NEW h \in FitHandle(mine) \cup {NoHandle},
           NEW k, NEW m \in Mails, NEW m2 \in Mails, NEW n \in Mails, NEW n2 \in Mails,
           Expects(h, m, n, mine),
           NEW lost, ~lost, Handled(h, k, m, m2, n, n2, s, p, lost)
    PROVE  Proceeds(h, k, m, m2, n, n2, mine, visit[s])
  <1> DEFINE v == visit[s]
  <1>1. mine = WeInitiate(s, p) /\ mine \in BOOLEAN
    BY InitiateType DEF Initiates
  <1>2. CASE Reading(h, k, m, m2, n, n2, s, p)
    BY <1>1, <1>2, ReadingProceeds
  <1>3. CASE Performing(h, k, m, m2, n, n2, visit[s])
    <2>1. Expects(h, m, n, mine) /\ Performing(h, k, m, m2, n, n2, v)
      BY <1>3
    <2>2. h \in FitHandle(mine) \cup {NoHandle}
      OBVIOUS
    <2> HIDE DEF v
    <2>3. Proceeds(h, k, m, m2, n, n2, mine, v)
      BY <1>1, <2>1, <2>2, PerformingProceeds
    <2> QED  BY <2>3 DEF v
  <1>4. CASE Failing(h, k, m, m2, n, n2, lost)
    <2>1. h \in Handle(Bodies) /\ h # NoHandle /\ h.ops # << >> /\ Rejects(h)
      BY <1>1, <1>4, FitIsHandle DEF Failing
    <2>2. ~Rejects(h)
      BY <2>1, NothingRejected
    <2> QED  BY <2>1, <2>2
  <1>5. CASE Gathering(h, k, m, m2, n, n2, visit[s])
    <2>1. Expects(h, m, n, mine) /\ Gathering(h, k, m, m2, n, n2, v)
      BY <1>5
    <2>2. h \in FitHandle(mine) \cup {NoHandle}
      OBVIOUS
    <2> HIDE DEF v
    <2>3. Proceeds(h, k, m, m2, n, n2, mine, v)
      BY <1>1, <2>1, <2>2, GatheringProceeds
    <2> QED  BY <2>3 DEF v
  <1>6. CASE Draining(h, k, m, m2, n, n2, WeInitiate(s, p), lost)
    <2>1. Expects(h, m, n, mine) /\ Drained(h, k, m, m2, n, n2, mine)
      BY <1>1, <1>6 DEF Draining, Drained
    <2>2. h \in FitHandle(mine) \cup {NoHandle}
      OBVIOUS
    <2> HIDE DEF v
    <2>3. Proceeds(h, k, m, m2, n, n2, mine, v)
      BY <1>1, <2>1, <2>2, DrainingProceeds
    <2> QED  BY <2>3 DEF v
  <1> QED  BY <1>2, <1>3, <1>4, <1>5, <1>6 DEF Handled

-----------------------------------------------------------------------------
(* A pair that loses nothing. *)

\* The handle h of who makes the offer and the handle g of the other: what is
\* called comes in the order of the descriptions, O offers and A answers being
\* on their way.  With the answer taken, nothing of the offer is left.
Orderly(h, g, O, A) ==
    /\ Tidy(h)
    /\ Tidy(g)
    /\ h # NoHandle /\ h.remote # NoBody =>
         OpsIn(h, OfferOps) + O + (OpsIn(g, AnswerOps) + A + OpsIn(h, TakeOps)) = 0
    /\ A # 0 => g # NoHandle /\ g.remote_set

\* The candidates gathered for g, at its page's first visit, are in h or come.
Balanced(h, g, n) ==
    \A b \in Bodies :
        n["ice"][{b}] + Kept(h, b) = IF b[1] = 1 /\ b[2] \in 1 .. Gathered(g)
                                     THEN 1 ELSE 0

LEMMA OffererExpects ==
    ASSUME NEW mine \in BOOLEAN, mine,
           NEW h \in FitHandle(mine) \cup {NoHandle},
           NEW g \in Handle(Bodies) \cup {NoHandle},
           NEW m, NEW n \in Mails, NEW O \in Nat, NEW silent,
           Turn(h, g, O, n["answer"][Bodies], silent),
           Orderly(h, g, O, n["answer"][Bodies])
    PROVE  Expects(h, m, n, mine)
  <1> DEFINE A == n["answer"][Bodies]
             o == OpsIn(h, OfferOps)
             t == OpsIn(h, TakeOps)
             a == OpsIn(g, AnswerOps)
  <1>1. h \in Handle(Bodies) \cup {NoHandle}
    BY FitIsHandle
  <1>2. A \in Nat /\ o \in Nat /\ t \in Nat /\ a \in Nat
    BY <1>1, MeshAssumption, MailNumbers, OpsInType
  <1>3. /\ o + O + (a + A + t) <= 1
        /\ h # NoHandle /\ O + (a + A + t) # 0 => h.signaling = "have-local-offer"
    BY DEF Turn
  <1>4. /\ Tidy(h)
        /\ h # NoHandle /\ h.remote # NoBody => o + O + (a + A + t) = 0
    BY DEF Orderly
  <1>5. ASSUME h # NoHandle, h.ops # << >>
        PROVE  /\ Head(h.ops).do \in {"create_offer", "local_offer"} => o # 0
               /\ Head(h.ops).do = "remote_answer" => t # 0
               /\ Head(h.ops).do # "remote_offer"
    <2> DEFINE op == Head(h.ops)
    <2>1. h.ops \in Seq(Op(Bodies)) /\ h.ops \in Seq(FitOp(h.remote # NoBody, mine))
      BY <1>1, <1>5 DEF FitHandle, Handle
    <2>2. op \in Op(Bodies) /\ op \in FitOp(h.remote # NoBody, mine)
      BY <1>5, <2>1, HeadTailProperties
    <2>3. op = h.ops[1] /\ 1 \in 1 .. Len(h.ops)
      BY <1>5, <2>1, HeadTailProperties, EmptySeq, LenProperties
    <2>4. /\ op \in OfferOps => Count(h.ops, OfferOps) # 0
          /\ op \in TakeOps => Count(h.ops, TakeOps) # 0
      BY <2>1, <2>3, CountType
    <2>5. op.do # "remote_offer"
      BY <2>2 DEF FitOp
    <2>6. /\ op \in OfferOps <=> op.do \in {"create_offer", "local_offer"}
          /\ op \in TakeOps <=> op.do = "remote_answer"
      BY <2>2, OpKinds
    <2>7. o = Count(h.ops, OfferOps) /\ t = Count(h.ops, TakeOps)
      BY <1>5 DEF OpsIn
    <2> HIDE DEF op, o, t
    <2>8. /\ op.do \in {"create_offer", "local_offer"} => o # 0
          /\ op.do = "remote_answer" => t # 0
      BY <2>4, <2>6, <2>7
    <2> QED  BY <2>5, <2>8 DEF op
  <1> HIDE DEF A, o, t, a
  <1>6. ASSUME h # NoHandle, A # 0
        PROVE  h.ops = << >>
    <2>1. o = 0 /\ t = 0 /\ h.remote = NoBody
      BY <1>2, <1>3, <1>4, <1>6
    <2>2. ~h.remote_set
      BY <1>4, <1>5, <1>6, <2>1 DEF Tidy
    <2>3. h.ops \in Seq(OfferOps)
      BY <1>4, <1>6, <2>2 DEF Tidy
    <2>4. ASSUME h.ops # << >>
          PROVE  FALSE
      <3>1. Head(h.ops) \in OfferOps
        BY <2>3, <2>4, HeadTailProperties
      <3>2. Head(h.ops).do \in {"create_offer", "local_offer"}
        BY <3>1 DEF OfferOps
      <3> QED  BY <1>5, <1>6, <2>1, <2>4, <3>2
    <2> QED  BY <2>4
  <1>7. ASSUME h # NoHandle, h.ops # << >>, Head(h.ops).do = "remote_answer"
        PROVE  h.signaling = "have-local-offer"
    <2>1. t # 0
      BY <1>5, <1>7
    <2>2. O + (a + A + t) # 0
      BY <1>2, <2>1
    <2> QED  BY <1>3, <1>7, <2>2
  <1> QED  BY <1>4, <1>6, <1>7 DEF Expects, A

LEMMA AnswererExpects ==
    ASSUME NEW mine \in BOOLEAN, ~mine,
           NEW g \in FitHandle(mine) \cup {NoHandle},
           NEW h, NEW m, NEW n, NEW O, Orderly(h, g, O, m["answer"][Bodies])
    PROVE  Expects(g, m, n, mine)
  <1>1. Tidy(g)
    BY DEF Orderly
  <1>2. ASSUME g # NoHandle, g.ops # << >>
        PROVE  Head(g.ops).do # "remote_answer"
    <2>1. Head(g.ops) \in FitOp(g.remote # NoBody, mine)
      BY <1>2, HeadTailProperties DEF FitHandle
    <2> QED  BY <2>1 DEF FitOp
  <1>3. m["answer"][Bodies] # 0 => g # NoHandle /\ g.remote_set
    BY DEF Orderly
  <1> QED  BY <1>1, <1>2, <1>3 DEF Expects

\* An answer that is on its way was made for an offer that was taken.
Answering(g, A) == A # 0 => g # NoHandle /\ g.remote_set

\* A description comes with the answer that was waiting for it.
Described(h, k, O, O2, A, A2) ==
    k # NoHandle /\ k.remote # NoBody =>
      /\ h # NoHandle
      /\ \/ h.remote # NoBody
         \/ /\ OpsIn(h, OfferOps) = OpsIn(k, OfferOps)
            /\ OpsIn(h, TakeOps) = OpsIn(k, TakeOps) + 1
            /\ O2 = O /\ A2 = A

\* The initiator goes on.
LEMMA OffererOrderly ==
    ASSUME NEW h, NEW k, NEW g, NEW O, NEW O2, NEW A, NEW A2, NEW silent,
           TurnTypes(h, k, g, O, O2, A, A2, silent),
           Turn(h, g, O, A, silent), Orderly(h, g, O, A), Tidy(k),
           OffererDoes(h, k, O, O2, A, A2), Described(h, k, O, O2, A, A2)
    PROVE  Orderly(k, g, O2, A2)
  <1> DEFINE o  == OpsIn(h, OfferOps)
             o2 == OpsIn(k, OfferOps)
             t  == OpsIn(h, TakeOps)
             t2 == OpsIn(k, TakeOps)
             a  == OpsIn(g, AnswerOps)
  <1>0. /\ h \in Handle(Bodies) \cup {NoHandle}
        /\ k \in Handle(Bodies) \cup {NoHandle}
        /\ g \in Handle(Bodies) \cup {NoHandle}
        /\ O \in Nat /\ O2 \in Nat /\ A \in Nat /\ A2 \in Nat
    BY DEF TurnTypes
  <1>1. o \in Nat /\ o2 \in Nat /\ t \in Nat /\ t2 \in Nat /\ a \in Nat
    BY <1>0, OpsInType
  <1>2. o + O + (a + A + t) <= 1
    BY DEF Turn
  <1>3. /\ Tidy(g)
        /\ h # NoHandle /\ h.remote # NoBody => o + O + (a + A + t) = 0
        /\ A # 0 => g # NoHandle /\ g.remote_set
    BY DEF Orderly
  <1>4. \/ o2 <= o /\ t2 <= t /\ O2 <= O /\ A2 <= A
        \/ h = NoHandle /\ A2 <= A
        \/ A = A2 + 1
        \/ o = o2 + 1 /\ A2 = A
        \/ t = t2 + 1 /\ A2 = A
    BY DEF OffererDoes
  <1>5. k # NoHandle /\ k.remote # NoBody =>
          /\ h # NoHandle
          /\ h.remote # NoBody \/ (o2 = o /\ t = t2 + 1 /\ O2 = O /\ A2 = A)
    BY DEF Described
  <1> HIDE DEF o, o2, t, t2, a
  <1>6. k # NoHandle /\ k.remote # NoBody => o2 + O2 + (a + A2 + t2) = 0
    <2> SUFFICES ASSUME k # NoHandle, k.remote # NoBody
                 PROVE  o2 + O2 + (a + A2 + t2) = 0
      OBVIOUS
    <2>1. CASE h.remote # NoBody
      <3>1. h # NoHandle /\ o + O + (a + A + t) = 0
        BY <1>3, <1>5, <2>1
      <3>2. o = 0 /\ O = 0 /\ a = 0 /\ A = 0 /\ t = 0
        BY <1>0, <1>1, <3>1
      <3> QED  BY <1>0, <1>1, <1>4, <3>1, <3>2
    <2>2. CASE o2 = o /\ t = t2 + 1 /\ O2 = O /\ A2 = A
      BY <1>0, <1>1, <1>2, <2>2
    <2> QED  BY <1>5, <2>1, <2>2
  <1>7. A2 <= A
    BY <1>0, <1>4
  <1>8. A2 # 0 => A # 0
    BY <1>0, <1>7
  <1> QED  BY <1>3, <1>6, <1>8 DEF Orderly, o2, t2, a

\* The other goes on.
LEMMA AnswererOrderly ==
    ASSUME NEW h, NEW f, NEW g, NEW O, NEW O2, NEW A, NEW A2, NEW silent,
           TurnTypes(h, f, g, O, O2, A, A2, silent),
           Orderly(h, g, O, A), Tidy(f),
           AnswererDoes(g, f, O, O2, A, A2), Answering(f, A2)
    PROVE  Orderly(h, f, O2, A2)
  <1> DEFINE o  == OpsIn(h, OfferOps)
             t  == OpsIn(h, TakeOps)
             a  == OpsIn(g, AnswerOps)
             a2 == OpsIn(f, AnswerOps)
  <1>0. /\ h \in Handle(Bodies) \cup {NoHandle}
        /\ f \in Handle(Bodies) \cup {NoHandle}
        /\ g \in Handle(Bodies) \cup {NoHandle}
        /\ O \in Nat /\ O2 \in Nat /\ A \in Nat /\ A2 \in Nat
    BY DEF TurnTypes
  <1>1. o \in Nat /\ t \in Nat /\ a \in Nat /\ a2 \in Nat
    BY <1>0, OpsInType
  <1>2. /\ Tidy(h)
        /\ h # NoHandle /\ h.remote # NoBody => o + O + (a + A + t) = 0
    BY DEF Orderly
  <1>3. \/ a2 <= a /\ O2 <= O /\ A2 <= A
        \/ O = O2 + 1
        \/ a >= 1
        \/ a = a2 + 1
    BY DEF AnswererDoes
  <1> HIDE DEF o, t, a, a2
  <1>4. o + O + (a + A + t) = 0 => o + O2 + (a2 + A2 + t) = 0
    <2> SUFFICES ASSUME o + O + (a + A + t) = 0
                 PROVE  o + O2 + (a2 + A2 + t) = 0
      OBVIOUS
    <2>1. o = 0 /\ O = 0 /\ a = 0 /\ A = 0 /\ t = 0
      BY <1>0, <1>1
    <2> QED  BY <1>0, <1>1, <1>3, <2>1
  <1>5. A2 # 0 => f # NoHandle /\ f.remote_set
    BY DEF Answering
  <1> QED  BY <1>2, <1>4, <1>5 DEF Orderly, o, t, a2

LEMMA KeepsBalanced ==
    ASSUME NEW h, NEW k, NEW g, NEW n, NEW n2, Balanced(h, g, n), Keeps(h, k, n, n2)
    PROVE  Balanced(k, g, n2)
  BY DEF Balanced, Keeps

\* A candidate that is gathered is on its way.
LEMMA GathersBalanced ==
    ASSUME NEW h \in Handle(Bodies) \cup {NoHandle}, NEW k,
           NEW g \in Handle(Bodies) \cup {NoHandle},
           NEW m \in Mails, NEW m2 \in Mails,
           Balanced(g, h, m), Gathers(h, k, m, m2, 1)
    PROVE  Balanced(g, k, m2)
  <1>1. CASE /\ Gathered(k) = Gathered(h)
             /\ \A b \in Bodies : m2["ice"][{b}] = m["ice"][{b}]
    BY <1>1 DEF Balanced
  <1>2. CASE /\ Gathered(k) = Gathered(h) + 1
             /\ Gathered(k) <= MaxCandidates
             /\ Sent(m, m2, "ice", <<1, Gathered(k)>>)
    <2> DEFINE G == Gathered(h)
               c == Gathered(k)
    <2>1. G \in Nat /\ c = G + 1
      BY <1>2 DEF Gathered, Handle
    <2>2. c <= MaxCandidates /\ Sent(m, m2, "ice", <<1, c>>)
      BY <1>2
    <2> HIDE DEF G, c
    <2> DEFINE last == <<1, c>>
    <2>3. last \in Bodies /\ last[1] = 1 /\ last[2] = c
      BY <2>1, <2>2, MeshAssumption
    <2>4. Sent(m, m2, "ice", last)
      BY <2>2
    <2>5. ASSUME NEW b \in Bodies
          PROVE  m2["ice"][{b}] + Kept(g, b) =
                   IF b[1] = 1 /\ b[2] \in 1 .. c THEN 1 ELSE 0
      <3> DEFINE x  == m["ice"][{b}]
                 x2 == m2["ice"][{b}]
                 y  == Kept(g, b)
      <3>1. "ice" \in SignalKinds /\ {b} \in SUBSET Bodies
        BY MeshAssumption
      <3>2. x \in Nat /\ x2 \in Nat /\ y \in Nat
        BY IceNumbers, KeptType
      <3>3. x + y = IF b[1] = 1 /\ b[2] \in 1 .. G THEN 1 ELSE 0
        BY DEF Balanced, G
      <3>4. b = <<b[1], b[2]>> /\ b[1] \in Nat /\ b[2] \in Nat
        BY MeshAssumption
      <3>5. CASE b = last
        <4>1. x = 0 => x2 = x + 1
          BY <2>4, <3>1, <3>5 DEF Sent
        <4>2. b[1] = 1 /\ b[2] = c
          BY <2>3, <3>5
        <4> HIDE DEF x, x2, y, last
        <4>3. ~(b[2] \in 1 .. G) /\ b[2] \in 1 .. c
          BY <2>1, <4>2
        <4>4. x = 0 /\ y = 0
          BY <3>2, <3>3, <4>3
        <4>5. x2 + y = 1
          BY <4>1, <4>4
        <4> QED  BY <4>2, <4>3, <4>5 DEF x2, y
      <3>6. CASE b # last
        <4>1. x2 = x \/ x2 = x + 0
          BY <2>4, <3>1, <3>6 DEF Sent
        <4>2. ~(b[1] = 1 /\ b[2] = c)
          BY <3>4, <3>6
        <4> HIDE DEF x, x2, y, last
        <4>3. b[1] = 1 /\ b[2] \in 1 .. c <=> b[1] = 1 /\ b[2] \in 1 .. G
          BY <2>1, <3>4, <4>2
        <4>4. x2 + y = IF b[1] = 1 /\ b[2] \in 1 .. c THEN 1 ELSE 0
          BY <3>2, <3>3, <4>1, <4>3
        <4> QED  BY <4>4 DEF x2, y
      <3> QED  BY <3>5, <3>6
    <2> QED  BY <2>5 DEF Balanced, c
  <1> QED  BY <1>1, <1>2 DEF Gathers

\* At its first visit, or not come yet.
Staying(s) == visit[s] = 0 \/ (visit[s] = 1 /\ page[s] # "away")

Undisturbed(a, b) ==
    /\ Staying(a)
    /\ Staying(b)
    /\ loss[a][b] = "none" \/ loss[b][a] = "none"

FineOK(a, b) ==
    /\ visit[a] = 0 => peers[a][b] = NoHandle
    /\ visit[b] = 0 => peers[b][a] = NoHandle
    /\ Orderly(peers[a][b], peers[b][a], Unread(b, a)["offer"][Bodies],
               Unread(a, b)["answer"][Bodies])
    /\ Balanced(peers[a][b], peers[b][a], Unread(a, b))
    /\ Balanced(peers[b][a], peers[a][b], Unread(b, a))

AllFine ==
    \A a, b \in Sessions : WeInitiate(a, b) /\ Undisturbed(a, b) => FineOK(a, b)

\* A page that is left has no connections.
LeftEmpty ==
    \A s, p \in Sessions : s # p /\ page[s] = "away" => peers[s][p] = NoHandle

CandidatesInv == TurnInv /\ LeftEmpty /\ AllFine

\* What is lost stays lost.
LEMMA LossStays ==
    MeshTypeOK /\ [MeshNext]_meshVars =>
        \A s, p \in Sessions : loss'[s][p] = "none" => loss[s][p] = "none"
  <1> SUFFICES ASSUME MeshTypeOK, [MeshNext]_meshVars,
                      NEW s \in Sessions, NEW p \in Sessions, loss'[s][p] = "none"
               PROVE  loss[s][p] = "none"
    OBVIOUS
  <1>1. ASSUME NEW x \in Sessions, ReadResync(x)
        PROVE  loss[s][p] = "none"
    BY <1>1 DEF ReadResync, MeshTypeOK
  <1>2. ASSUME NEW pairs, Lose(pairs)
        PROVE  loss[s][p] = "none"
    BY <1>2 DEF Lose
  <1>3. ASSUME UNCHANGED loss
        PROVE  loss[s][p] = "none"
    BY <1>3
  <1>4. ASSUME NEW x \in Sessions, NEW y \in Sessions,
               Leave(x) \/ BreakStream(x) \/ EndStream(x) \/ FailOp(x, y)
        PROVE  loss[s][p] = "none"
    BY <1>2, <1>4 DEF Leave, BreakStream, EndStream, FailOp
  <1>5. ASSUME NEW r \in posts, Relay(r) \/ PostFails(r)
        PROVE  loss[s][p] = "none"
    BY <1>2, <1>5 DEF Relay, PostFails
  <1> QED  BY <1>1, <1>3, <1>4, <1>5, Frame DEF MeshNext

LEMMA LeftEmptyStep == TurnInv /\ LeftEmpty /\ [MeshNext]_meshVars => LeftEmpty'
  <1> SUFFICES ASSUME TurnInv, LeftEmpty, [MeshNext]_meshVars,
                      NEW s \in Sessions, NEW p \in Sessions, s # p, page'[s] = "away"
               PROVE  peers'[s][p] = NoHandle
    BY DEF LeftEmpty
  <1>1. PairSteps(s, p)
    BY PairStep DEF TurnInv
  <1>2. page[s] = "away" => peers[s][p] = NoHandle
    BY DEF LeftEmpty
  <1>3. CASE Acts(s, p)
    BY <1>2, <1>3 DEF Acts, Abides
  <1>4. CASE Acts(p, s)
    BY <1>2, <1>4 DEF Acts, Abides
  <1>5. CASE Leaves(s, p)
    BY <1>5 DEF Leaves
  <1>6. CASE Leaves(p, s)
    BY <1>2, <1>6 DEF Leaves, Abides
  <1>7. CASE Still(s, p)
    BY <1>2, <1>7 DEF Still, Abides, Enters
  <1> QED  BY <1>1, <1>3, <1>4, <1>5, <1>6, <1>7 DEF PairSteps

\* A pair that is undisturbed has been, and nobody leaves it.
LEMMA StaysUndisturbed ==
    ASSUME MeshInv, [MeshNext]_meshVars, NEW a \in Sessions, NEW b \in Sessions,
           PairSteps(a, b), Undisturbed(a, b)'
    PROVE  /\ Undisturbed(a, b)
           /\ ~Leaves(a, b) /\ ~Leaves(b, a)
           /\ ~Lost(a, b) /\ ~Lost(b, a)
           /\ visit[a] <= 1 /\ visit[a] \in Nat
           /\ visit[b] <= 1 /\ visit[b] \in Nat
  <1>1. /\ visit'[a] = 0 \/ (visit'[a] = 1 /\ page'[a] # "away")
        /\ visit'[b] = 0 \/ (visit'[b] = 1 /\ page'[b] # "away")
        /\ loss'[a][b] = "none" \/ loss'[b][a] = "none"
    BY DEF Undisturbed, Staying
  <1>2. visit[a] \in Nat /\ visit[b] \in Nat
    BY MeshAssumption DEF MeshInv, MeshTypeOK
  <1>3. /\ page[a] # "away" => visit[a] # 0
        /\ page[b] # "away" => visit[b] # 0
    BY DEF MeshInv, PagesFit
  <1>4. loss[a][b] = "none" \/ loss[b][a] = "none"
    BY <1>1, LossStays DEF MeshInv
  <1>5. ~Leaves(a, b) /\ ~Leaves(b, a)
    BY <1>1, <1>3 DEF Leaves
  <1>6. (Abides(a) \/ Enters(a)) /\ (Abides(b) \/ Enters(b))
    BY <1>5 DEF PairSteps, Acts, Still
  <1>7. Staying(a) /\ visit[a] <= 1
    BY <1>1, <1>2, <1>6 DEF Staying, Abides, Enters
  <1>8. Staying(b) /\ visit[b] <= 1
    BY <1>1, <1>2, <1>6 DEF Staying, Abides, Enters
  <1>9. ~Lost(a, b) /\ ~Lost(b, a)
    BY <1>1 DEF Lost
  <1> QED  BY <1>2, <1>4, <1>5, <1>7, <1>8, <1>9 DEF Undisturbed

LEMMA AllFineStep == CandidatesInv /\ [MeshNext]_meshVars => AllFine'
  <1> SUFFICES ASSUME CandidatesInv, [MeshNext]_meshVars,
                      NEW a \in Sessions, NEW b \in Sessions,
                      WeInitiate(a, b), Undisturbed(a, b)'
               PROVE  FineOK(a, b)'
    BY DEF AllFine
  <1>1. MeshInv /\ IsFiniteSet(posts) /\ MeshInv'
    BY MeshInvStep DEF CandidatesInv, TurnInv
  <1>2. a # b /\ ~WeInitiate(b, a) /\ WeInitiate(b, a) \in BOOLEAN
    BY InitiateType
  <1>3. PairSteps(a, b)
    BY <1>1, <1>2, PairStep
  <1>4. /\ Undisturbed(a, b)
        /\ ~Leaves(a, b) /\ ~Leaves(b, a)
        /\ ~Lost(a, b) /\ ~Lost(b, a)
        /\ visit[a] <= 1 /\ visit[a] \in Nat
        /\ visit[b] <= 1 /\ visit[b] \in Nat
    BY <1>1, <1>3, StaysUndisturbed
  <1>5. FineOK(a, b) /\ TurnOK(a, b)
    BY <1>4 DEF CandidatesInv, AllFine, TurnInv, TurnsOK
  <1>6. /\ page[a] # "away" => visit[a] # 0
        /\ page[b] # "away" => visit[b] # 0
    BY <1>1 DEF MeshInv, PagesFit
  <1> DEFINE h  == peers[a][b]
             k  == peers'[a][b]
             g  == peers[b][a]
             f  == peers'[b][a]
             m  == Unread(b, a)
             m2 == UnreadNext(b, a)
             n  == Unread(a, b)
             n2 == UnreadNext(a, b)
             O  == m["offer"][Bodies]
             O2 == m2["offer"][Bodies]
             A  == n["answer"][Bodies]
             A2 == n2["answer"][Bodies]
             silent == Silent(a, b)
  <1>7. FineOK(a, b)' <=>
          /\ visit'[a] = 0 => k = NoHandle
          /\ visit'[b] = 0 => f = NoHandle
          /\ Orderly(k, f, O2, A2)
          /\ Balanced(k, f, n2)
          /\ Balanced(f, k, m2)
    BY DEF FineOK, Unread, UnreadNext
  <1>8. /\ h \in FitHandle(WeInitiate(a, b)) \cup {NoHandle}
        /\ g \in FitHandle(WeInitiate(b, a)) \cup {NoHandle}
    BY <1>1, <1>2 DEF MeshInv, PagesFit, FitMesh, FitPeer
  <1>9. h \in FitHandle(TRUE) \cup {NoHandle} /\ g \in FitHandle(FALSE) \cup {NoHandle}
    BY <1>2, <1>8 DEF FitHandle, FitOp
  <1>10. /\ h \in Handle(Bodies) \cup {NoHandle}
         /\ g \in Handle(Bodies) \cup {NoHandle}
    BY <1>1, PeersType
  <1>11. m \in Mails /\ m2 \in Mails /\ n \in Mails /\ n2 \in Mails
    <2>1. Unread(b, a) \in Mails /\ Unread(a, b) \in Mails
      BY <1>1, UnreadType
    <2>2. \A x \in Sessions : /\ queue'[x] \in Seq(FitEvent(x))
                              /\ early'[x] \in Seq(FitEvent(x) \cup ResyncRead)
      BY <1>1 DEF MeshInv, StreamsFit, PagesFit
    <2>3. IsFiniteSet(posts')
      BY <1>1, PostsFinite
    <2>4. UnreadNext(b, a) \in Mails /\ UnreadNext(a, b) \in Mails
      BY <1>1, <2>2, <2>3, MailType DEF UnreadNext, Mails
    <2> QED  BY <2>1, <2>4
  <1>12. O \in Nat /\ O2 \in Nat /\ A \in Nat /\ A2 \in Nat
    BY <1>11, MeshAssumption, MailNumbers
  <1>13. /\ visit[a] = 0 => h = NoHandle
         /\ visit[b] = 0 => g = NoHandle
         /\ Orderly(h, g, O, A)
         /\ Balanced(h, g, n)
         /\ Balanced(g, h, m)
         /\ Turn(h, g, O, A, silent)
    BY <1>5 DEF FineOK, TurnOK
  <1>14. silent \in BOOLEAN
    BY DEF Silent
  <1>15. (visit[a] # 0 => visit[a] = 1) /\ (visit[b] # 0 => visit[b] = 1)
    BY <1>4
  <1> DEFINE Goal == /\ visit'[a] = 0 => k = NoHandle
                     /\ visit'[b] = 0 => f = NoHandle
                     /\ Orderly(k, f, O2, A2)
                     /\ Balanced(k, f, n2)
                     /\ Balanced(f, k, m2)
  <1> HIDE DEF h, k, g, f, m, m2, n, n2, silent
  <1>16. ASSUME Acts(a, b)
         PROVE  Goal
    <2>1. /\ visit'[a] = visit[a] /\ visit'[b] = visit[b]
          /\ page[a] # "away" \/ h # NoHandle
          /\ f = g
      BY <1>16 DEF Acts, Abides, h, f, g
    <2>2. visit[a] = 1
      BY <1>6, <1>13, <1>15, <2>1
    <2>3. PICK lost : ~lost /\ Handled(h, k, m, m2, n, n2, a, b, lost)
      BY <1>4, <1>16 DEF Acts, h, k, m, m2, n, n2
    <2>4. Handled(h, k, m, m2, n, n2, a, b, lost)
      BY <2>3
    <2>5. Expects(h, m, n, WeInitiate(a, b))
      <3> DEFINE mine == WeInitiate(a, b)
      <3>1. mine \in BOOLEAN /\ mine /\ h \in FitHandle(mine) \cup {NoHandle}
        BY <1>8, InitiateType
      <3>2. Turn(h, g, O, n["answer"][Bodies], silent) /\ Orderly(h, g, O, n["answer"][Bodies])
        BY <1>13
      <3>3. O \in Nat
        BY <1>12
      <3> HIDE DEF mine, O
      <3>4. Expects(h, m, n, mine)
        BY <1>10, <1>11, <3>1, <3>2, <3>3, OffererExpects
      <3> QED  BY <3>4 DEF mine
    <2>6. Proceeds(h, k, m, m2, n, n2, WeInitiate(a, b), visit[a])
      <3> DEFINE mine == WeInitiate(a, b)
      <3>1. /\ Initiates(a, b, mine)
            /\ h \in FitHandle(mine) \cup {NoHandle}
            /\ Expects(h, m, n, mine)
        BY <1>8, <2>5 DEF Initiates
      <3> HIDE DEF mine
      <3>2. Proceeds(h, k, m, m2, n, n2, mine, visit[a])
        BY <1>11, <2>3, <3>1, HandledProceeds
      <3> QED  BY <3>2 DEF mine
    <2>7. /\ Tidy(k)
          /\ Keeps(h, k, n, n2)
          /\ Gathers(h, k, m, m2, 1)
          /\ Describes(h, k, m, m2, n, n2, WeInitiate(a, b))
      BY <2>2, <2>6 DEF Proceeds
    <2>8. h # NoHandle => h.negotiated
      BY <1>13 DEF Turn
    <2>9. k \in Handle(Bodies) \cup {NoHandle} /\ OffererDoes(h, k, O, O2, A, A2)
      BY <1>9, <1>11, <2>4, <2>8, OffererHandles
    <2>10. Described(h, k, O, O2, A, A2)
      BY <2>7 DEF Describes, Described
    <2>11. TurnTypes(h, k, g, O, O2, A, A2, silent)
      BY <1>10, <1>12, <1>14, <2>9 DEF TurnTypes
    <2>12. Orderly(k, g, O2, A2)
      <3>1. Turn(h, g, O, A, silent) /\ Orderly(h, g, O, A)
        BY <1>13
      <3> HIDE DEF O, O2, A, A2
      <3> QED  BY <2>7, <2>9, <2>10, <2>11, <3>1, OffererOrderly
    <2>13. Balanced(k, g, n2)
      BY <1>13, <2>7, KeepsBalanced
    <2>14. Balanced(g, k, m2)
      BY <1>10, <1>11, <1>13, <2>7, GathersBalanced
    <2> HIDE DEF O, O2, A, A2
    <2> QED  BY <1>13, <2>1, <2>2, <2>12, <2>13, <2>14
  <1>17. ASSUME Acts(b, a)
         PROVE  Goal
    <2>1. /\ visit'[a] = visit[a] /\ visit'[b] = visit[b]
          /\ page[b] # "away" \/ g # NoHandle
          /\ k = h
      BY <1>17 DEF Acts, Abides, h, k, g
    <2>2. visit[b] = 1
      BY <1>6, <1>13, <1>15, <2>1
    <2>3. PICK lost : ~lost /\ Handled(g, f, n, n2, m, m2, b, a, lost)
      BY <1>4, <1>17 DEF Acts, g, f, m, m2, n, n2
    <2>4. Handled(g, f, n, n2, m, m2, b, a, lost)
      BY <2>3
    <2>5. Expects(g, n, m, WeInitiate(b, a))
      <3> DEFINE mine == WeInitiate(b, a)
      <3>1. mine \in BOOLEAN /\ ~mine /\ g \in FitHandle(mine) \cup {NoHandle}
        BY <1>2, <1>8
      <3>2. Orderly(h, g, O, n["answer"][Bodies])
        BY <1>13
      <3> HIDE DEF mine, O
      <3>3. Expects(g, n, m, mine)
        BY <3>1, <3>2, AnswererExpects
      <3> QED  BY <3>3 DEF mine
    <2>6. Proceeds(g, f, n, n2, m, m2, WeInitiate(b, a), visit[b])
      <3> DEFINE mine == WeInitiate(b, a)
      <3>1. /\ Initiates(b, a, mine)
            /\ g \in FitHandle(mine) \cup {NoHandle}
            /\ Expects(g, n, m, mine)
        BY <1>8, <2>5 DEF Initiates
      <3> HIDE DEF mine
      <3>2. Proceeds(g, f, n, n2, m, m2, mine, visit[b])
        BY <1>11, <2>3, <3>1, HandledProceeds
      <3> QED  BY <3>2 DEF mine
    <2>7. /\ Tidy(f)
          /\ Keeps(g, f, m, m2)
          /\ Gathers(g, f, n, n2, 1)
          /\ Describes(g, f, n, n2, m, m2, WeInitiate(b, a))
      BY <2>2, <2>6 DEF Proceeds
    <2>8. f \in Handle(Bodies) \cup {NoHandle} /\ AnswererDoes(g, f, O, O2, A, A2)
      BY <1>2, <1>9, <1>11, <2>4, AnswererHandles
    <2>9. Answering(f, A2)
      BY <1>2, <2>7 DEF Describes, Answering
    <2>10. TurnTypes(h, f, g, O, O2, A, A2, silent)
      BY <1>10, <1>12, <1>14, <2>8 DEF TurnTypes
    <2>11. Orderly(h, f, O2, A2)
      <3>1. Orderly(h, g, O, A)
        BY <1>13
      <3> HIDE DEF O, O2, A, A2
      <3> QED  BY <2>7, <2>8, <2>9, <2>10, <3>1, AnswererOrderly
    <2>12. Balanced(f, h, m2)
      BY <1>13, <2>7, KeepsBalanced
    <2>13. Balanced(h, f, n2)
      BY <1>10, <1>11, <1>13, <2>7, GathersBalanced
    <2> HIDE DEF O, O2, A, A2
    <2> QED  BY <1>13, <2>1, <2>2, <2>11, <2>12, <2>13
  <1>18. ASSUME Still(a, b)
         PROVE  Goal
    <2>1. k = h /\ f = g /\ n2 = n /\ m2 = m
      BY <1>4, <1>18 DEF Still, h, k, g, f, m, m2, n, n2
    <2>2. /\ visit'[a] = 0 => visit[a] = 0
          /\ visit'[b] = 0 => visit[b] = 0
      BY <1>4, <1>18 DEF Still, Abides, Enters
    <2> QED  BY <1>13, <2>1, <2>2
  <1>19. Goal
    <2> HIDE DEF Goal
    <2> QED  BY <1>3, <1>4, <1>16, <1>17, <1>18 DEF PairSteps
  <1> QED  BY <1>7, <1>19

\* Nothing is unread at first.
LEMMA UnreadInit ==
    ASSUME MeshInit
    PROVE  \A s, p \in Sessions, k \in SignalKinds, B \in SUBSET Bodies :
             Unread(s, p)[k][B] = 0
  <1> SUFFICES ASSUME NEW s \in Sessions, NEW p \in Sessions, NEW k \in SignalKinds,
                      NEW B \in SUBSET Bodies
               PROVE  Unread(s, p)[k][B] = 0
    OBVIOUS
  <1>1. queue[s] = << >> /\ early[s] = << >> /\ posts = {}
    BY DEF MeshInit, Init
  <1>2. \A S : Count(<< >>, S) = 0
    BY CountEmpty
  <1>3. \A S : Cardinality(posts \cap S) = 0
    BY <1>1, FS_EmptySet
  <1>4. Unread(s, p)[k][B] =
          Cardinality(posts \cap [from : {p}, to : {s}, type : {k}, body : B])
            + Count(queue[s], SignalsOf(p, k, B))
            + Count(early[s], SignalsOf(p, k, B))
    BY DEF Unread, Mail
  <1>5. /\ Cardinality(posts \cap [from : {p}, to : {s}, type : {k}, body : B]) = 0
        /\ Count(queue[s], SignalsOf(p, k, B)) = 0
        /\ Count(early[s], SignalsOf(p, k, B)) = 0
    BY <1>1, <1>2, <1>3
  <1> QED  BY <1>4, <1>5

LEMMA CandidatesInvInit == MeshInit => CandidatesInv
  <1> SUFFICES ASSUME MeshInit PROVE CandidatesInv
    OBVIOUS
  <1>1. TurnInv
    BY TurnInvInit
  <1>2. \A s, p \in Sessions : peers[s][p] = NoHandle
    BY DEF MeshInit, NoPeers
  <1>3. LeftEmpty
    BY <1>2 DEF LeftEmpty
  <1>4. posts = {} /\ IsFiniteSet(posts)
    BY FS_EmptySet DEF MeshInit
  <1>5. \A s, p \in Sessions, k \in SignalKinds, B \in SUBSET Bodies :
          Unread(s, p)[k][B] = 0
    BY UnreadInit
  <1>6. ASSUME NEW a \in Sessions, NEW b \in Sessions
        PROVE  FineOK(a, b)
    <2>1. Bodies \in SUBSET Bodies /\ {"ice", "offer", "answer"} \subseteq SignalKinds
      BY MeshAssumption
    <2>2. peers[a][b] = NoHandle /\ peers[b][a] = NoHandle
      BY <1>2
    <2>3. /\ Unread(b, a)["offer"][Bodies] = 0
          /\ Unread(a, b)["answer"][Bodies] = 0
      BY <1>5, <2>1
    <2>4. Orderly(NoHandle, NoHandle, 0, 0)
      BY DEF Orderly, Tidy
    <2>5. ASSUME NEW s \in Sessions, NEW p \in Sessions
          PROVE  Balanced(NoHandle, NoHandle, Unread(s, p))
      <3>1. \A c \in Bodies : Unread(s, p)["ice"][{c}] = 0
        BY <1>5, <2>1
      <3>2. \A c \in Bodies : Kept(NoHandle, c) = 0 /\ Gathered(NoHandle) = 0
        BY DEF Kept, Gathered
      <3>3. \A c \in Bodies : c[2] \notin 1 .. 0
        BY MeshAssumption
      <3> QED  BY <3>1, <3>2, <3>3 DEF Balanced
    <2> QED  BY <2>2, <2>3, <2>4, <2>5 DEF FineOK
  <1> QED  BY <1>1, <1>3, <1>6 DEF CandidatesInv, AllFine

LEMMA CandidatesInvStep == CandidatesInv /\ [MeshNext]_meshVars => CandidatesInv'
  <1> SUFFICES ASSUME CandidatesInv, [MeshNext]_meshVars PROVE CandidatesInv'
    OBVIOUS
  <1>1. TurnInv' /\ LeftEmpty'
    BY TurnInvStep, LeftEmptyStep DEF CandidatesInv
  <1>2. AllFine'
    BY AllFineStep
  <1> QED  BY <1>1, <1>2 DEF CandidatesInv

LEMMA CandidatesInvHolds == MeshSpec => []CandidatesInv
  BY CandidatesInvInit, CandidatesInvStep, PTL DEF MeshSpec

\* However candidates overtake descriptions and each other, and whichever tasks
\* drain the queue at once: while two pages are at their first visits and lose
\* no signal of each other, every candidate that was gathered is in exactly one
\* place, on its way, waiting, being added or added, and no other is anywhere
\* (drain_ice, services/webrtc.rs:606-623).
THEOREM CandidatesAreAddedOnce == MeshSpec => []CandidatesOnce
  <1>1. CandidatesInv => CandidatesOnce
    <2> SUFFICES ASSUME CandidatesInv, NEW s \in Sessions, NEW p \in Sessions,
                        FirstVisits(s, p), loss[s][p] = "none", page[s] # "away",
                        peers[p][s] # NoHandle, NEW b \in Bodies
                 PROVE  OnTheWay(s, p, "ice", {b}) + Kept(peers[s][p], b) =
                          IF b \in {<<visit[p], n>> : n \in 1 .. peers[p][s].gathered}
                          THEN 1 ELSE 0
      BY DEF CandidatesOnce
    <2>1. MeshInv /\ visit[s] = 1 /\ visit[p] = 1
      BY DEF CandidatesInv, TurnInv, FirstVisits
    <2>2. s # p
      BY <2>1 DEF MeshInv, PagesFit, FitMesh, FitPeer
    <2>3. page[p] # "away"
      BY <2>2 DEF CandidatesInv, LeftEmpty
    <2>4. Undisturbed(s, p) /\ Undisturbed(p, s)
      BY <2>1, <2>3 DEF Undisturbed, Staying
    <2>5. WeInitiate(s, p) \/ WeInitiate(p, s)
      BY <2>2, MeshAssumption DEF WeInitiate
    <2>6. Balanced(peers[s][p], peers[p][s], Unread(s, p))
      BY <2>4, <2>5 DEF CandidatesInv, AllFine, FineOK
    <2>7. "ice" \in SignalKinds /\ {b} \in SUBSET Bodies
      BY MeshAssumption
    <2>8. OnTheWay(s, p, "ice", {b}) = Unread(s, p)["ice"][{b}]
      BY <2>7, OnTheWayIsUnread
    <2>9. OnTheWay(s, p, "ice", {b}) + Kept(peers[s][p], b) =
            IF b[1] = 1 /\ b[2] \in 1 .. peers[p][s].gathered THEN 1 ELSE 0
      BY <2>6, <2>8 DEF Balanced, Gathered
    <2>10. b \in {<<visit[p], n>> : n \in 1 .. peers[p][s].gathered} <=>
             b[1] = 1 /\ b[2] \in 1 .. peers[p][s].gathered
      <3>1. b = <<b[1], b[2]>>
        BY MeshAssumption
      <3> QED  BY <2>1, <3>1
    <2> QED  BY <2>9, <2>10
  <1> QED  BY <1>1, CandidatesInvHolds, PTL
=============================================================================
