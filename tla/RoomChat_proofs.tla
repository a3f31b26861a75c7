-------------------------- MODULE RoomChat_proofs --------------------------
(***************************************************************************)
(* Proofs about the chat a page shows, for every set of sessions and of    *)
(* threads, every buffer size, store size and history length.              *)
(***************************************************************************)
EXTENDS RoomView_proofs

-----------------------------------------------------------------------------
(* Talks: a list of messages followed by a stream of events. *)

\* The first talk has only what the second has, in the same order.
PartOf(new, old) ==
    \E g \in [DOMAIN new -> DOMAIN old] :
        /\ \A i \in DOMAIN new : new[i] = old[g[i]]
        /\ \A i, j \in DOMAIN new : i < j => g[i] < g[j]
        /\ \A i, j \in DOMAIN new : g[i] = g[j] => i = j

LEMMA TalkPlaces ==
    ASSUME NEW b \in Seq(Message), NEW q \in Seq(Event)
    PROVE  /\ DOMAIN Talk(b, q) \subseteq 1 .. Len(b) + Len(q)
           /\ \A i \in 1 .. Len(b) + Len(q) :
                i \in DOMAIN Talk(b, q) <=>
                    (i > Len(b) => q[i - Len(b)].type = "chat_message")
           /\ \A i \in DOMAIN Talk(b, q) :
                Talk(b, q)[i] = IF i <= Len(b) THEN b[i] ELSE q[i - Len(b)].msg
           /\ \A i \in DOMAIN Talk(b, q) : Talk(b, q)[i] \in Message
  <1>1. Len(b) \in Nat /\ Len(q) \in Nat
    BY LenProperties
  <1>2. /\ DOMAIN Talk(b, q) \subseteq 1 .. Len(b) + Len(q)
        /\ \A i \in 1 .. Len(b) + Len(q) :
             i \in DOMAIN Talk(b, q) <=>
                 (i > Len(b) => q[i - Len(b)].type = "chat_message")
        /\ \A i \in DOMAIN Talk(b, q) :
             Talk(b, q)[i] = IF i <= Len(b) THEN b[i] ELSE q[i - Len(b)].msg
    BY DEF Talk
  <1>3. ASSUME NEW i \in DOMAIN Talk(b, q)
        PROVE  Talk(b, q)[i] \in Message
    <2>1. CASE i <= Len(b)
      <3>1. b[i] \in Message
        BY <1>1, <1>2, <2>1, ElementOfSeq
      <3> QED  BY <1>2, <2>1, <3>1
    <2>2. CASE ~(i <= Len(b))
      <3>1. i - Len(b) \in 1 .. Len(q) /\ q[i - Len(b)].type = "chat_message"
        BY <1>1, <1>2, <2>2
      <3>2. q[i - Len(b)] \in Event
        BY <3>1, ElementOfSeq
      <3>3. q[i - Len(b)].msg \in Message
        BY <3>1, <3>2, ServerAssumption DEF Event
      <3> QED  BY <1>2, <2>2, <3>3
    <2> QED  BY <2>1, <2>2
  <1> QED  BY <1>2, <1>3

\* A chat event that is sent comes below all the rest.
LEMMA TalkGains ==
    ASSUME NEW b \in Seq(Message), NEW q \in Seq(Event), NEW e \in Event,
           e.type = "chat_message"
    PROVE  LET top == Len(b) + Len(q) + 1
               new == Talk(b, Append(q, e))
               old == Talk(b, q)
           IN  /\ DOMAIN new = DOMAIN old \cup {top}
               /\ \A i \in DOMAIN old : i < top /\ new[i] = old[i]
               /\ new[top] = e.msg
  <1>1. /\ Len(b) \in Nat /\ Len(q) \in Nat
        /\ Append(q, e) \in Seq(Event)
        /\ Len(Append(q, e)) = Len(q) + 1
        /\ \A i \in 1 .. Len(q) : Append(q, e)[i] = q[i]
        /\ Append(q, e)[Len(q) + 1] = e
    BY LenProperties, AppendProperties
  <1> DEFINE top == Len(b) + Len(q) + 1
             new == Talk(b, Append(q, e))
             old == Talk(b, q)
  <1>2. /\ DOMAIN old \subseteq 1 .. Len(b) + Len(q)
        /\ \A i \in 1 .. Len(b) + Len(q) :
             i \in DOMAIN old <=>
                 (i > Len(b) => q[i - Len(b)].type = "chat_message")
        /\ \A i \in DOMAIN old :
             old[i] = IF i <= Len(b) THEN b[i] ELSE q[i - Len(b)].msg
    BY TalkPlaces
  <1>3. /\ DOMAIN new \subseteq 1 .. Len(b) + Len(Append(q, e))
        /\ \A i \in 1 .. Len(b) + Len(Append(q, e)) :
             i \in DOMAIN new <=>
                 (i > Len(b) => Append(q, e)[i - Len(b)].type = "chat_message")
        /\ \A i \in DOMAIN new :
             new[i] = IF i <= Len(b) THEN b[i] ELSE Append(q, e)[i - Len(b)].msg
    BY <1>1, TalkPlaces
  <1> HIDE DEF new, old
  <1>4. ASSUME NEW i \in 1 .. Len(b) + Len(q)
        PROVE  /\ i \in DOMAIN new <=> i \in DOMAIN old
               /\ i \in DOMAIN old => new[i] = old[i]
    <2>1. i > Len(b) => i - Len(b) \in 1 .. Len(q)
      BY <1>1
    <2>2. i > Len(b) => Append(q, e)[i - Len(b)] = q[i - Len(b)]
      BY <1>1, <2>1
    <2>3. i \in 1 .. Len(b) + Len(Append(q, e))
      BY <1>1
    <2>4. i > Len(b) \/ i <= Len(b)
      BY <1>1
    <2>5. i \in DOMAIN new <=> i \in DOMAIN old
      BY <1>2, <1>3, <2>2, <2>3
    <2>6. ASSUME i \in DOMAIN old
          PROVE  new[i] = old[i]
      <3>1. /\ new[i] = IF i <= Len(b) THEN b[i] ELSE Append(q, e)[i - Len(b)].msg
            /\ old[i] = IF i <= Len(b) THEN b[i] ELSE q[i - Len(b)].msg
        BY <1>2, <1>3, <2>5, <2>6
      <3> QED  BY <2>2, <2>4, <3>1
    <2> QED  BY <2>5, <2>6
  <1>5. top \in DOMAIN new /\ new[top] = e.msg
    <2>1. top - Len(b) = Len(q) + 1 /\ top \in 1 .. Len(b) + Len(Append(q, e))
          /\ ~(top <= Len(b))
      BY <1>1
    <2> QED  BY <1>1, <1>3, <2>1
  <1>6. 1 .. Len(b) + Len(Append(q, e)) = (1 .. Len(b) + Len(q)) \cup {top}
    <2>1. Len(b) + Len(Append(q, e)) = Len(b) + Len(q) + 1
      BY <1>1
    <2>2. \A n \in Nat : 1 .. n + 1 = (1 .. n) \cup {n + 1}
      OBVIOUS
    <2> QED  BY <1>1, <2>1, <2>2
  <1>7. \A i \in 1 .. Len(b) + Len(q) : i < top
    BY <1>1
  <1>8. DOMAIN new = DOMAIN old \cup {top}
    BY <1>2, <1>3, <1>4, <1>5, <1>6
  <1> QED  BY <1>2, <1>4, <1>5, <1>7, <1>8 DEF new, old

\* Any other event that is sent does not touch the talk.
LEMMA TalkIgnores ==
    ASSUME NEW b \in Seq(Message), NEW q \in Seq(Event), NEW e \in Event,
           e.type # "chat_message"
    PROVE  Talk(b, Append(q, e)) = Talk(b, q)
  <1>1. /\ Len(b) \in Nat /\ Len(q) \in Nat
        /\ Len(Append(q, e)) = Len(q) + 1
        /\ \A i \in 1 .. Len(q) : Append(q, e)[i] = q[i]
        /\ Append(q, e)[Len(q) + 1] = e
    BY LenProperties, AppendProperties
  <1> DEFINE D(r) == {j \in 1 .. Len(b) + Len(r) :
                        j > Len(b) => r[j - Len(b)].type = "chat_message"}
  <1>2. \A j \in 1 .. Len(b) + Len(q) : j > Len(b) => j - Len(b) \in 1 .. Len(q)
    BY <1>1
  <1>3. \A j \in 1 .. Len(b) + Len(q) :
           j > Len(b) => Append(q, e)[j - Len(b)] = q[j - Len(b)]
    BY <1>1, <1>2
  <1>4. D(Append(q, e)) = D(q)
    <2> DEFINE top == Len(b) + Len(q) + 1
    <2>1. 1 .. Len(b) + Len(Append(q, e)) = (1 .. Len(b) + Len(q)) \cup {top}
      BY <1>1
    <2>2. top \notin D(Append(q, e))
      <3>1. top > Len(b) /\ top - Len(b) = Len(q) + 1
        BY <1>1
      <3> QED  BY <1>1, <3>1
    <2> HIDE DEF top
    <2> QED  BY <1>3, <2>1, <2>2
  <1>5. \A i \in D(q) : (IF i <= Len(b) THEN b[i] ELSE Append(q, e)[i - Len(b)].msg)
                          = IF i <= Len(b) THEN b[i] ELSE q[i - Len(b)].msg
    BY <1>1, <1>3
  <1> QED  BY <1>4, <1>5 DEF Talk

\* A message that is shown moves from the stream to the list: the talk is the
\* same.
LEMMA TalkShown ==
    ASSUME NEW b \in Seq(Message), NEW q \in Seq(Event), q # << >>,
           Head(q).type = "chat_message"
    PROVE  Talk(Append(b, Head(q).msg), Tail(q)) = Talk(b, q)
  <1> DEFINE m == Head(q).msg
             c == Append(b, m)
             r == Tail(q)
             new == Talk(c, r)
             old == Talk(b, q)
  <1>1. /\ Len(b) \in Nat /\ Len(q) \in Nat /\ Len(q) > 0
        /\ Head(q) \in Event /\ Head(q) = q[1]
        /\ r \in Seq(Event) /\ Len(r) = Len(q) - 1
        /\ \A i \in 1 .. Len(r) : r[i] = q[i + 1]
    BY LenProperties, HeadTailProperties, EmptySeq
  <1>2. m \in Message
    BY <1>1, ServerAssumption DEF Event
  <1>3. /\ c \in Seq(Message) /\ Len(c) = Len(b) + 1
        /\ \A i \in 1 .. Len(b) : c[i] = b[i]
        /\ c[Len(b) + 1] = m
    BY <1>2, AppendProperties
  <1> HIDE DEF c, r, m
  <1>4. /\ DOMAIN old \subseteq 1 .. Len(b) + Len(q)
        /\ \A i \in 1 .. Len(b) + Len(q) :
             i \in DOMAIN old <=>
                 (i > Len(b) => q[i - Len(b)].type = "chat_message")
        /\ \A i \in DOMAIN old :
             old[i] = IF i <= Len(b) THEN b[i] ELSE q[i - Len(b)].msg
    BY TalkPlaces
  <1>5. /\ DOMAIN new \subseteq 1 .. Len(c) + Len(r)
        /\ \A i \in 1 .. Len(c) + Len(r) :
             i \in DOMAIN new <=>
                 (i > Len(c) => r[i - Len(c)].type = "chat_message")
        /\ \A i \in DOMAIN new :
             new[i] = IF i <= Len(c) THEN c[i] ELSE r[i - Len(c)].msg
    BY <1>1, <1>3, TalkPlaces
  <1>6. Len(c) + Len(r) = Len(b) + Len(q)
    BY <1>1, <1>3
  <1>7. ASSUME NEW i \in 1 .. Len(b) + Len(q)
        PROVE  /\ i \in DOMAIN new <=> i \in DOMAIN old
               /\ i \in DOMAIN old => new[i] = old[i]
    <2>1. CASE i <= Len(b)
      BY <1>1, <1>3, <1>4, <1>5, <1>6, <2>1, SMTT(30)
    <2>2. CASE i = Len(b) + 1
      <3>1. i <= Len(c) /\ ~(i > Len(c)) /\ i > Len(b) /\ i - Len(b) = 1
        BY <1>1, <1>3, <2>2
      <3>2. i \in DOMAIN new /\ new[i] = m
        BY <1>3, <1>5, <1>6, <2>2, <3>1
      <3>3. i \in DOMAIN old /\ old[i] = q[1].msg
        <4>1. q[i - Len(b)].type = "chat_message" /\ ~(i <= Len(b))
          BY <1>1, <3>1
        <4>2. i \in DOMAIN old
          BY <1>4, <4>1
        <4>3. old[i] = q[i - Len(b)].msg
          BY <1>4, <4>1, <4>2
        <4> QED  BY <3>1, <4>2, <4>3
      <3> QED  BY <1>1, <3>2, <3>3 DEF m
    <2>3. CASE i > Len(b) + 1
      <3>1. i > Len(c) /\ i > Len(b) /\ i - Len(c) \in 1 .. Len(r)
            /\ (i - Len(c)) + 1 = i - Len(b)
        BY <1>1, <1>3, <2>3
      <3>2. r[i - Len(c)] = q[i - Len(b)]
        BY <1>1, <3>1
      <3>3. ~(i <= Len(c)) /\ ~(i <= Len(b))
        BY <1>1, <1>3, <2>3
      <3>4. i \in DOMAIN new <=> r[i - Len(c)].type = "chat_message"
        BY <1>5, <1>6, <3>1
      <3>5. i \in DOMAIN old <=> q[i - Len(b)].type = "chat_message"
        BY <1>4, <3>1
      <3>6. i \in DOMAIN new => new[i] = r[i - Len(c)].msg
        BY <1>5, <3>3
      <3>7. i \in DOMAIN old => old[i] = q[i - Len(b)].msg
        BY <1>4, <3>3
      <3> QED  BY <3>2, <3>4, <3>5, <3>6, <3>7
    <2>4. i <= Len(b) \/ i = Len(b) + 1 \/ i > Len(b) + 1
      BY <1>1
    <2> QED  BY <2>1, <2>2, <2>3, <2>4
  <1>8. DOMAIN new = DOMAIN old
    BY <1>4, <1>5, <1>6, <1>7
  <1>9. new = old
    <2>1. /\ new = [i \in DOMAIN new |-> new[i]]
          /\ old = [i \in DOMAIN old |-> old[i]]
      BY DEF Talk
    <2>2. \A i \in DOMAIN old : new[i] = old[i]
      BY <1>4, <1>7
    <2> HIDE DEF new, old
    <2>3. [i \in DOMAIN new |-> new[i]] = [i \in DOMAIN old |-> old[i]]
      BY <1>8, <2>2
    <2> QED  BY <2>1, <2>3, Zenon
  <1> QED  BY <1>9 DEF new, old, c, r, m

\* Any other event that is taken off the stream leaves the messages as they
\* are, in their order.
LEMMA TalkMovesUp ==
    ASSUME NEW b \in Seq(Message), NEW q \in Seq(Event), q # << >>,
           Head(q).type # "chat_message"
    PROVE  /\ PartOf(Talk(b, Tail(q)), Talk(b, q))
           /\ IdsOf(Talk(b, Tail(q))) = IdsOf(Talk(b, q))
  <1> DEFINE r == Tail(q)
             new == Talk(b, r)
             old == Talk(b, q)
             g == [i \in DOMAIN new |-> IF i <= Len(b) THEN i ELSE i + 1]
  <1>1. /\ Len(b) \in Nat /\ Len(q) \in Nat /\ Len(q) > 0
        /\ Head(q) = q[1]
        /\ r \in Seq(Event) /\ Len(r) = Len(q) - 1
        /\ \A i \in 1 .. Len(r) : r[i] = q[i + 1]
    BY LenProperties, HeadTailProperties, EmptySeq
  <1> HIDE DEF r
  <1>2. /\ DOMAIN old \subseteq 1 .. Len(b) + Len(q)
        /\ \A i \in 1 .. Len(b) + Len(q) :
             i \in DOMAIN old <=>
                 (i > Len(b) => q[i - Len(b)].type = "chat_message")
        /\ \A i \in DOMAIN old :
             old[i] = IF i <= Len(b) THEN b[i] ELSE q[i - Len(b)].msg
    BY TalkPlaces
  <1>3. /\ DOMAIN new \subseteq 1 .. Len(b) + Len(r)
        /\ \A i \in 1 .. Len(b) + Len(r) :
             i \in DOMAIN new <=>
                 (i > Len(b) => r[i - Len(b)].type = "chat_message")
        /\ \A i \in DOMAIN new :
             new[i] = IF i <= Len(b) THEN b[i] ELSE r[i - Len(b)].msg
    BY <1>1, TalkPlaces
  <1> HIDE DEF new, old
  <1>4. ASSUME NEW i \in DOMAIN new
        PROVE  g[i] \in DOMAIN old /\ new[i] = old[g[i]]
    <2>1. CASE i <= Len(b)
      BY <1>1, <1>2, <1>3, <2>1, SMTT(30)
    <2>2. CASE ~(i <= Len(b))
      <3>1. /\ i > Len(b) /\ i - Len(b) \in 1 .. Len(r)
            /\ (i - Len(b)) + 1 = (i + 1) - Len(b)
            /\ i + 1 \in 1 .. Len(b) + Len(q) /\ ~(i + 1 <= Len(b))
        BY <1>1, <1>3, <2>2
      <3>2. r[i - Len(b)] = q[(i + 1) - Len(b)]
        BY <1>1, <3>1
      <3>3. q[(i + 1) - Len(b)].type = "chat_message"
        BY <1>3, <3>1, <3>2
      <3> QED  BY <1>2, <1>3, <2>2, <3>1, <3>2, <3>3
    <2> QED  BY <2>1, <2>2
  <1>5. ASSUME NEW k \in DOMAIN old
        PROVE  \E i \in DOMAIN new : g[i] = k
    <2>1. CASE k <= Len(b)
      BY <1>1, <1>2, <1>3, <2>1
    <2>2. CASE ~(k <= Len(b))
      <3>1. k # Len(b) + 1
        BY <1>1, <1>2
      <3>2. /\ k - 1 > Len(b) /\ (k - 1) - Len(b) \in 1 .. Len(r)
            /\ ((k - 1) - Len(b)) + 1 = k - Len(b)
            /\ k - 1 \in 1 .. Len(b) + Len(r) /\ ~(k - 1 <= Len(b))
            /\ k > Len(b) /\ (k - 1) + 1 = k
        BY <1>1, <1>2, <2>2, <3>1
      <3>3. r[(k - 1) - Len(b)].type = "chat_message"
        BY <1>1, <1>2, <3>2
      <3>4. k - 1 \in DOMAIN new
        BY <1>3, <3>2, <3>3
      <3>5. g[k - 1] = k
        BY <3>2, <3>4
      <3> QED  BY <3>4, <3>5
    <2> QED  BY <2>1, <2>2
  <1>6. \A i, j \in DOMAIN new : (i < j => g[i] < g[j]) /\ (g[i] = g[j] => i = j)
    BY <1>1, <1>3
  <1>7. g \in [DOMAIN new -> DOMAIN old]
    BY <1>4
  <1> HIDE DEF g
  <1>8. PartOf(new, old)
    BY <1>4, <1>6, <1>7 DEF PartOf
  <1>9. IdsOf(new) = IdsOf(old)
    BY <1>4, <1>5 DEF IdsOf
  <1> QED  BY <1>8, <1>9 DEF new, old, r

\* A stream that is cut off leaves the list.
LEMMA TalkCut ==
    ASSUME NEW b \in Seq(Message), NEW q \in Seq(Event)
    PROVE  PartOf(Talk(b, << >>), Talk(b, q))
  <1> DEFINE new == Talk(b, << >>)
             old == Talk(b, q)
             g == [i \in DOMAIN new |-> i]
  <1>1. /\ Len(b) \in Nat /\ Len(q) \in Nat
        /\ << >> \in Seq(Event) /\ Len(<< >>) = 0
    BY LenProperties, EmptySeq
  <1>2. /\ \A i \in 1 .. Len(b) + Len(q) :
             i \in DOMAIN old <=>
                 (i > Len(b) => q[i - Len(b)].type = "chat_message")
        /\ \A i \in DOMAIN old :
             old[i] = IF i <= Len(b) THEN b[i] ELSE q[i - Len(b)].msg
    BY TalkPlaces
  <1>3. /\ DOMAIN new \subseteq 1 .. Len(b)
        /\ \A i \in DOMAIN new : new[i] = b[i]
    BY <1>1 DEF Talk
  <1> HIDE DEF new, old
  <1>4. \A i \in DOMAIN new : i \in DOMAIN old /\ old[i] = b[i]
    BY <1>1, <1>2, <1>3
  <1>5. g \in [DOMAIN new -> DOMAIN old]
    BY <1>4
  <1>6. PartOf(new, old)
    BY <1>3, <1>4, <1>5 DEF PartOf
  <1> QED  BY <1>6 DEF new, old

-----------------------------------------------------------------------------
(* The inductive invariant, by parts. *)

\* A message the room has had; the store, as long as it keeps it, has the same.
Genuine(m) ==
    /\ m.id \in 1 .. posted
    /\ \A i \in 1 .. Len(chat) : chat[i].id = m.id => chat[i] = m

\* A talk of genuine messages, none of them above one whose POST had returned
\* before it was sent.
Faithful(talk) ==
    /\ \A i \in DOMAIN talk : Genuine(talk[i])
    /\ \A i, j \in DOMAIN talk :
         i < j => talk[j].id \notin returned_before[talk[i].id]

\* A POST returns before only later messages.
ReturnsOK ==
    /\ Len(returned_before) = posted
    /\ \A m \in 1 .. posted : returned_before[m] \subseteq 1 .. m - 1

\* What is being broadcast is stored, has returned before nothing that there
\* is, and is broadcast by one handler only.
PostsOK ==
    /\ \A t \in InFlight :
         /\ Genuine(post[t].msg)
         /\ \A m \in 1 .. posted : post[t].msg.id \notin returned_before[m]
    /\ \A t, u \in InFlight : post[t].msg.id = post[u].msg.id => t = u

\* Nothing is on its way on a closed stream, and the chat of a snapshot is read
\* before the session subscribes.
StreamsOK ==
    \A s \in Sessions :
        /\ live[s] = "closed" => queue[s] = << >> /\ resync[s] = None
        /\ sse[s].pc = "snapshot" => live[s] = "closed"
        /\ sse[s].pc # "idle" => resync[s] = None

\* The lists of messages a page shows or is about to show.
Lists(s) ==
    {view[s].chat}
        \cup {c \in {sse[s].chat} : sse[s].pc # "idle"}
        \cup {r.chat : r \in {resync[s]} \ {None}}

TalksOK == \A s \in Sessions : \A b \in Lists(s) : Faithful(Talk(b, queue[s]))

\* A history that may replace a list: it has what the list has, or is full and
\* newer.
Covers(new, old) ==
    \A i \in 1 .. Len(old) :
        \/ \E j \in 1 .. Len(new) : new[j] = old[i]
        \/ /\ Len(new) >= ResyncLimit \/ Len(new) >= MaxMessages
           /\ \A j \in 1 .. Len(new) : new[j].id > old[i].id

CoversOK ==
    \A s \in Sessions :
        /\ sse[s].pc # "idle" => Covers(sse[s].chat, view[s].chat)
        /\ resync[s] # None => Covers(resync[s].chat, view[s].chat)

\* No message was posted while a quiet opening was between its snapshot and its
\* subscribe.
QuietOK ==
    \A s \in Sessions :
        sse[s].pc = "snapshot" /\ quiet[s] =>
            InFlight = {} /\ sse[s].chat = ChatHistory(chat, ResyncLimit)

\* What the talk of an open stream begins with.
Source(s) == IF sse[s].pc = "announce" THEN sse[s].chat ELSE Base(s).chat

\* From some message on, everything is on the page or under way, once; and that
\* message is the first of all or far enough back.
Whole(talk, underway) ==
    /\ NothingTwice(talk)
    /\ IdsOf(talk) \cap underway = {}
    /\ \E lo \in 1 .. posted + 1 :
         /\ IdsOf(talk) \cup underway = lo .. posted
         /\ \/ lo = 1
            \/ posted - lo + 1 >= ResyncLimit
            \/ posted - lo + 1 >= MaxMessages

WholeOK ==
    \A s \in Sessions :
        live[s] = "subscribed" /\ ~Overrun(s) /\ quiet[s] =>
            Whole(Talk(Source(s), queue[s]), Underway(s))

\* The ids of what others wrote and is being broadcast to s.
OthersUnderway(s) ==
    {post[t].msg.id : t \in {u \in Threads : s \in post[u].todo /\ post[u].msg.from # s}}

\* The badge, the stream and the broadcasts have each message of the others
\* once between them, and none that was read live or cleared from the badge.
BadgeOK ==
    \A s \in Sessions :
        /\ view[s].open => view[s].unread = 0
        /\ view[s].unread + Cardinality(FromOthers(s, queue[s]))
             + Cardinality(OthersUnderway(s)) <= unseen[s]

-----------------------------------------------------------------------------
(* Messages and the store. *)

\* Who is not posting is in nobody's way.
LEMMA PostType ==
    ASSUME TypeOK, NEW t \in Threads
    PROVE  /\ t \in InFlight => post[t] \in [msg : Message, todo : SUBSET Sessions]
           /\ t \notin InFlight => post[t].todo = {}
  BY DEF TypeOK, InFlight, PostIdle

\* What PostAppend does to the store.
LEMMA AppendedStore ==
    ASSUME TypeOK, ChatIsLatest, NEW t \in Threads, NEW s \in Sessions,
           PostAppend(t, s)
    PROVE  LET msg == [id |-> posted + 1, from |-> s]
           IN  /\ msg \in Message
               /\ posted' = posted + 1
               /\ Len(chat') \in 1 .. posted'
               /\ chat'[Len(chat')] = msg
               /\ \A i \in 1 .. Len(chat') :
                    /\ chat'[i].id = posted' - Len(chat') + i
                    /\ i # Len(chat') =>
                         \E j \in 1 .. Len(chat) : chat'[i] = chat[j]
  <1> DEFINE msg  == [id |-> posted + 1, from |-> s]
             drop == IF Len(chat) >= MaxMessages THEN 1 ELSE 0
  <1>1. msg \in Message /\ posted \in Nat /\ chat \in Seq(Message)
    BY DEF Message, TypeOK
  <1>2. chat' = ChatAppend(chat, msg) /\ posted' = posted + 1
    BY DEF PostAppend
  <1> HIDE DEF msg
  <1>3. /\ Len(chat') = Len(chat) - drop + 1
        /\ chat'[Len(chat')] = msg
        /\ \A i \in 1 .. Len(chat) - drop : chat'[i] = chat[i + drop]
    BY <1>1, <1>2, ChatAppendShifts, SMTT(30)
  <1>4. ChatIsLatest'
    <2>1. Next
      BY DEF Next
    <2> QED  BY <2>1, ChatLatestStep
  <1>5. Len(chat) \in Nat /\ Len(chat) <= posted /\ drop \in 0 .. Len(chat)
    <2>1. Len(chat) \in Nat /\ Len(chat) <= posted
      BY <1>1, LenProperties, MaxMessagesAssumption DEF ChatIsLatest
    <2> QED  BY <2>1, MaxMessagesAssumption
  <1>6. Len(chat') \in 1 .. posted'
    BY <1>1, <1>2, <1>3, <1>5
  <1>7. \A i \in 1 .. Len(chat') : chat'[i].id = posted' - Len(chat') + i
    BY <1>4 DEF ChatIsLatest
  <1>8. ASSUME NEW i \in 1 .. Len(chat'), i # Len(chat')
        PROVE  \E j \in 1 .. Len(chat) : chat'[i] = chat[j]
    <2>1. i \in 1 .. Len(chat) - drop /\ i + drop \in 1 .. Len(chat)
      BY <1>3, <1>5, <1>8
    <2> QED  BY <1>3, <2>1
  <1> QED  BY <1>1, <1>2, <1>3, <1>6, <1>7, <1>8 DEF msg

\* The store only loses messages, and numbers the new one higher.
LEMMA GenuineKept ==
    ASSUME TypeOK, ChatIsLatest, [Next]_vars, NEW m, Genuine(m)
    PROVE  Genuine(m)'
  <1>1. ASSUME NEW t \in Threads, NEW s \in Sessions, PostAppend(t, s)
        PROVE  Genuine(m)'
    <2>1. /\ posted' = posted + 1 /\ posted \in Nat
          /\ Len(chat') \in 1 .. posted'
          /\ \A i \in 1 .. Len(chat') :
               /\ chat'[i].id = posted' - Len(chat') + i
               /\ i # Len(chat') => \E j \in 1 .. Len(chat) : chat'[i] = chat[j]
      BY <1>1, AppendedStore DEF TypeOK
    <2>2. m.id \in 1 .. posted' /\ m.id # posted'
      BY <2>1 DEF Genuine
    <2>3. ASSUME NEW i \in 1 .. Len(chat'), chat'[i].id = m.id
          PROVE  chat'[i] = m
      <3>1. i # Len(chat')
        BY <2>1, <2>2, <2>3
      <3>2. PICK j \in 1 .. Len(chat) : chat'[i] = chat[j]
        BY <2>1, <3>1
      <3> QED  BY <2>3, <3>2 DEF Genuine
    <2> QED  BY <2>2, <2>3 DEF Genuine
  <1>2. CASE UNCHANGED <<chat, posted>>
    BY <1>2 DEF Genuine
  <1> QED
    BY <1>1, <1>2
    DEF Next, vars, chatVars, Handler, Stream, Join, SseSnapshot, SseSubscribe,
        SseAnnounce, SseReturn, DeliverResync, DeliverEvent, StreamLagged,
        StreamEnded, Disconnect, CloseStream, Signal, PostSend

\* A message is genuine from the start.
LEMMA NewIsGenuine ==
    ASSUME TypeOK, ChatIsLatest, NEW t \in Threads, NEW s \in Sessions,
           PostAppend(t, s), NEW msg, msg = [id |-> posted + 1, from |-> s]
    PROVE  Genuine(msg)'
  <1>1. /\ posted' = posted + 1 /\ posted \in Nat
        /\ Len(chat') \in 1 .. posted'
        /\ chat'[Len(chat')] = msg
        /\ \A i \in 1 .. Len(chat') : chat'[i].id = posted' - Len(chat') + i
    BY AppendedStore DEF TypeOK
  <1>2. msg.id = posted' /\ msg.id \in 1 .. posted'
    BY <1>1
  <1>3. ASSUME NEW i \in 1 .. Len(chat'), chat'[i].id = posted'
        PROVE  i = Len(chat')
    BY <1>1, <1>3
  <1> QED  BY <1>1, <1>2, <1>3 DEF Genuine

\* So is what the store holds.
LEMMA StoreIsGenuine ==
    ASSUME TypeOK, ChatIsLatest, NEW i \in 1 .. Len(chat)
    PROVE  Genuine(chat[i]) /\ chat[i].id = posted - Len(chat) + i
  <1>1. /\ posted \in Nat /\ Len(chat) \in Nat /\ Len(chat) <= posted
        /\ \A j \in 1 .. Len(chat) : chat[j].id = posted - Len(chat) + j
    BY LenProperties, MaxMessagesAssumption DEF TypeOK, ChatIsLatest
  <1> QED  BY <1>1 DEF Genuine

\* A history is the newest part of the store, and is full unless it is all
\* there ever was.
LEMMA HistoryShape ==
    ASSUME TypeOK, ChatIsLatest
    PROVE  LET h == ChatHistory(chat, ResyncLimit)
           IN  /\ h \in Seq(Message)
               /\ Len(h) \in 0 .. posted
               /\ Len(h) = posted \/ Len(h) >= ResyncLimit \/ Len(h) >= MaxMessages
               /\ \A i \in 1 .. Len(h) :
                    Genuine(h[i]) /\ h[i].id = posted - Len(h) + i
  <1> DEFINE start == IF Len(chat) > ResyncLimit THEN Len(chat) - ResyncLimit ELSE 0
             h == SubSeq(chat, start + 1, Len(chat))
  <1>1. /\ posted \in Nat /\ Len(chat) \in Nat /\ Len(chat) <= posted
        /\ Len(chat) = posted \/ Len(chat) >= MaxMessages
        /\ start \in 0 .. Len(chat)
    BY LenProperties, MaxMessagesAssumption, ServerAssumption
    DEF TypeOK, ChatIsLatest
  <1>2. start = 0 \/ Len(chat) - start >= ResyncLimit
    BY <1>1, ServerAssumption
  <1>3. \A i \in start + 1 .. Len(chat) : chat[i] \in Message
    BY <1>1, ElementOfSeq DEF TypeOK
  <1> HIDE DEF start
  <1>4. /\ h \in Seq(Message) /\ Len(h) = Len(chat) - start
        /\ \A i \in 1 .. Len(h) : h[i] = chat[start + i]
    <2>1. /\ h \in Seq(Message)
          /\ Len(h) = IF start + 1 <= Len(chat) THEN Len(chat) - (start + 1) + 1 ELSE 0
          /\ \A i \in 1 .. Len(chat) - (start + 1) + 1 :
                h[i] = chat[start + 1 + i - 1]
      BY <1>1, <1>3, SubSeqProperties
    <2>2. Len(h) = Len(chat) - start
      BY <1>1, <2>1
    <2>3. \A i \in 1 .. Len(h) : h[i] = chat[start + i]
      BY <1>1, <2>1, <2>2, SMTT(30)
    <2> QED  BY <2>1, <2>2, <2>3
  <1>5. ASSUME NEW i \in 1 .. Len(h)
        PROVE  Genuine(h[i]) /\ h[i].id = posted - Len(h) + i
    <2>1. start + i \in 1 .. Len(chat)
      BY <1>1, <1>4
    <2>2. Genuine(chat[start + i]) /\ chat[start + i].id = posted - Len(chat) + (start + i)
      BY <2>1, StoreIsGenuine
    <2>3. posted - Len(chat) + (start + i) = posted - Len(h) + i
      BY <1>1, <1>4
    <2> QED  BY <1>4, <2>2, <2>3
  <1>6. h = ChatHistory(chat, ResyncLimit)
    BY DEF ChatHistory, start
  <1> HIDE DEF h
  <1>7. /\ Len(h) \in 0 .. posted
        /\ Len(h) = posted \/ Len(h) >= ResyncLimit \/ Len(h) >= MaxMessages
    BY <1>1, <1>2, <1>4, ServerAssumption, MaxMessagesAssumption
  <1> QED  BY <1>4, <1>5, <1>6, <1>7

-----------------------------------------------------------------------------
(* Posts and streams. *)

\* What the history of a message is when it is posted.
LEMMA ReturnsAppended ==
    ASSUME TypeOK, AuditOK, ReturnsOK,
           NEW t \in Threads, NEW s \in Sessions, PostMessage(t, s)
    PROVE  /\ posted' = posted + 1
           /\ Len(returned_before') = posted'
           /\ \A m \in 1 .. posted : returned_before'[m] = returned_before[m]
           /\ returned_before'[posted'] =
                 (1 .. posted) \ {post[u].msg.id : u \in InFlight}
  <1> DEFINE answered == (1 .. posted) \ {post[u].msg.id : u \in InFlight}
  <1>1. posted \in Nat /\ returned_before \in Seq(SUBSET Nat) /\ answered \in SUBSET Nat
    BY DEF TypeOK, AuditOK
  <1>2. posted' = posted + 1 /\ returned_before' = Append(returned_before, answered)
    BY DEF PostMessage, PostAppend
  <1> HIDE DEF answered
  <1>3. /\ Len(returned_before') = Len(returned_before) + 1
        /\ \A m \in 1 .. Len(returned_before) : returned_before'[m] = returned_before[m]
        /\ returned_before'[Len(returned_before) + 1] = answered
    BY <1>1, <1>2, AppendProperties
  <1> QED  BY <1>2, <1>3 DEF ReturnsOK, answered

LEMMA ReturnsStep ==
    TypeOK /\ AuditOK /\ ReturnsOK /\ [ViewNext]_viewVars => ReturnsOK'
  <1> SUFFICES ASSUME TypeOK, AuditOK, ReturnsOK, [ViewNext]_viewVars
               PROVE  ReturnsOK'
    OBVIOUS
  <1>1. ASSUME NEW s \in Sessions, NEW t \in Threads, PostMessage(t, s)
        PROVE  ReturnsOK'
    <2>1. /\ posted' = posted + 1 /\ posted \in Nat
          /\ Len(returned_before') = posted'
          /\ \A m \in 1 .. posted : returned_before'[m] = returned_before[m]
          /\ returned_before'[posted'] \subseteq 1 .. posted
      BY <1>1, ReturnsAppended DEF TypeOK
    <2>2. posted' - 1 = posted
      BY <2>1
    <2>3. ASSUME NEW m \in 1 .. posted'
          PROVE  returned_before'[m] \subseteq 1 .. m - 1
      <3>1. CASE m = posted'
        BY <2>1, <2>2, <3>1
      <3>2. CASE m # posted'
        <4>1. m \in 1 .. posted
          BY <2>1, <3>2
        <4> QED  BY <2>1, <4>1 DEF ReturnsOK
      <3> QED  BY <3>1, <3>2
    <2> QED  BY <2>1, <2>3 DEF ReturnsOK
  <1>2. CASE UNCHANGED <<posted, returned_before>>
    BY <1>2 DEF ReturnsOK
  <1> QED
    BY <1>1, <1>2
    DEF ViewNext, viewVars, auditVars, vars, chatVars, ShowResync, ShowEvent,
        ToggleChat, OpenStream, SilentStep, Handler, Join, SseSnapshot,
        SseSubscribe, SseAnnounce, SseReturn, DeliverResync, DeliverEvent,
        StreamLagged, StreamEnded, Disconnect, CloseStream, Signal, PostSend

LEMMA PostsStep ==
    TypeOK /\ AuditOK /\ ChatIsLatest /\ ReturnsOK /\ PostsOK /\ [ViewNext]_viewVars
        => PostsOK'
  <1> SUFFICES ASSUME TypeOK, AuditOK, ChatIsLatest, ReturnsOK, PostsOK,
                      [ViewNext]_viewVars
               PROVE  PostsOK'
    OBVIOUS
  <1>1. ASSUME NEW s \in Sessions, NEW t \in Threads, PostMessage(t, s)
        PROVE  PostsOK'
    <2> DEFINE msg == [id |-> posted + 1, from |-> s]
    <2>1. /\ posted' = posted + 1 /\ posted \in Nat
          /\ \A m \in 1 .. posted : returned_before'[m] = returned_before[m]
          /\ returned_before'[posted'] =
                (1 .. posted) \ {post[u].msg.id : u \in InFlight}
      BY <1>1, ReturnsAppended DEF TypeOK
    <2>2. /\ PostAppend(t, s) /\ post[t] = PostIdle
          /\ post' = [post EXCEPT ![t] = [msg |-> msg, todo |-> participants]]
      BY <1>1 DEF PostMessage, PostAppend
    <2>3. \A mm : mm = msg => Genuine(mm)'
      BY <2>2, NewIsGenuine
    <2>4. [Next]_vars
      BY ViewStepIsServerStep
    <2>5. \A u \in Threads \ {t} : post'[u] = post[u]
      BY <2>2 DEF TypeOK
    <2>6. post'[t].msg = msg
      BY <2>2 DEF TypeOK
    <2>7. msg.id = posted'
      BY <2>1
    <2> HIDE DEF msg
    <2>8. ASSUME NEW u \in InFlight', u # t
          PROVE  /\ u \in InFlight /\ post'[u] = post[u]
                 /\ Genuine(post[u].msg) /\ post[u].msg.id \in 1 .. posted
      <3>1. u \in InFlight /\ post'[u] = post[u]
        BY <2>5, <2>8 DEF InFlight
      <3> QED  BY <3>1 DEF PostsOK, Genuine
    <2>9. ASSUME NEW u \in InFlight'
          PROVE  /\ Genuine(post[u].msg)'
                 /\ \A m \in 1 .. posted' : post'[u].msg.id \notin returned_before'[m]
      <3>1. CASE u = t
        <4>1. Genuine(post[u].msg)'
          BY <2>3, <2>6, <3>1 DEF Genuine
        <4>2. \A m \in 1 .. posted : posted' \notin returned_before'[m]
          BY <2>1 DEF ReturnsOK
        <4>3. posted' \notin returned_before'[posted']
          BY <2>1
        <4>4. 1 .. posted' = (1 .. posted) \cup {posted'}
          BY <2>1
        <4> QED  BY <2>6, <2>7, <3>1, <4>1, <4>2, <4>3, <4>4
      <3>2. CASE u # t
        <4>1. /\ u \in InFlight /\ post'[u] = post[u]
              /\ Genuine(post[u].msg) /\ post[u].msg.id \in 1 .. posted
          BY <2>8, <3>2
        <4>2. \A mm : Genuine(mm) => Genuine(mm)'
          BY <2>4, GenuineKept
        <4>3. Genuine(post[u].msg)'
          BY <4>1, <4>2 DEF Genuine
        <4>4. \A m \in 1 .. posted : post[u].msg.id \notin returned_before[m]
          BY <4>1 DEF PostsOK
        <4>5. post[u].msg.id \notin returned_before'[posted']
          BY <2>1, <4>1
        <4>6. 1 .. posted' = (1 .. posted) \cup {posted'}
          BY <2>1
        <4> QED  BY <2>1, <4>1, <4>3, <4>4, <4>5, <4>6
      <3> QED  BY <3>1, <3>2
    <2>10. ASSUME NEW u \in InFlight', NEW v \in InFlight',
                  post'[u].msg.id = post'[v].msg.id
           PROVE  u = v
      <3>1. CASE u = t \/ v = t
        BY <2>1, <2>6, <2>7, <2>8, <2>10, <3>1
      <3>2. CASE u # t /\ v # t
        BY <2>8, <2>10, <3>2 DEF PostsOK
      <3> QED  BY <3>1, <3>2
    <2> QED  BY <2>9, <2>10 DEF PostsOK
  <1>2. ASSUME NEW t \in Threads, NEW p \in Sessions, PostSend(t, p),
               UNCHANGED auditVars
        PROVE  PostsOK'
    <2>1. UNCHANGED <<chat, posted, returned_before>>
      BY <1>2 DEF PostSend, auditVars
    <2>2. \A u \in InFlight' : u \in InFlight /\ post'[u].msg = post[u].msg
      <3> DEFINE rest == post[t].todo \ {p}
                 call == IF rest = {} THEN PostIdle
                         ELSE [msg |-> post[t].msg, todo |-> rest]
      <3>1. post' = [post EXCEPT ![t] = call] /\ p \in post[t].todo
        BY <1>2 DEF PostSend
      <3>2. t \in InFlight
        BY <3>1 DEF InFlight, PostIdle
      <3>3. call = PostIdle \/ call.msg = post[t].msg
        OBVIOUS
      <3> HIDE DEF call
      <3> QED  BY <3>1, <3>2, <3>3 DEF InFlight, TypeOK
    <2>3. ASSUME NEW u \in InFlight'
          PROVE  Genuine(post[u].msg)'
      <3>1. Genuine(post[u].msg) /\ post'[u].msg = post[u].msg
        BY <2>2 DEF PostsOK
      <3> QED  BY <2>1, <3>1 DEF Genuine
    <2>4. ASSUME NEW u \in InFlight', NEW m \in 1 .. posted'
          PROVE  post'[u].msg.id \notin returned_before'[m]
      BY <2>1, <2>2 DEF PostsOK
    <2>5. ASSUME NEW u \in InFlight', NEW v \in InFlight',
                 post'[u].msg.id = post'[v].msg.id
          PROVE  u = v
      BY <2>2, <2>5 DEF PostsOK
    <2> QED  BY <2>3, <2>4, <2>5 DEF PostsOK
  <1>3. CASE UNCHANGED <<chat, posted, post, returned_before>>
    BY <1>3 DEF PostsOK, Genuine, InFlight
  <1> QED
    BY <1>1, <1>2, <1>3
    DEF ViewNext, viewVars, auditVars, vars, chatVars, ShowResync, ShowEvent,
        ToggleChat, OpenStream, SilentStep, Handler, Join, SseSnapshot,
        SseSubscribe, SseAnnounce, SseReturn, DeliverResync, DeliverEvent,
        StreamLagged, StreamEnded, Disconnect, CloseStream, Signal

\* Nothing is sent to a stream that is not open.
LEMMA StreamsStep ==
    TypeOK /\ Seated /\ StreamsOK /\ [Next]_vars => StreamsOK'
  <1> SUFFICES ASSUME TypeOK, Seated, StreamsOK, [Next]_vars
               PROVE  StreamsOK'
    OBVIOUS
  <1> USE DEF StreamsOK
  <1>1. ASSUME NEW x \in Sessions,
               NEW claim \in Passwords \cup {None},
               NEW supplied \in Passwords \cup {None},
               NEW name \in Names \cup {None},
               Join(x, claim, supplied, name)
        PROVE  StreamsOK'
    <2>1. /\ \A s \in Sessions : sse'[s].pc = "idle"
          /\ \A s \in Sessions : live'[s] = "closed" => live[s] = "closed"
          /\ UNCHANGED <<queue, resync>>
      BY <1>1 DEF Join, Exclusive, SseIdle, TypeOK
    <2> QED  BY <2>1
  <1>2. ASSUME NEW x \in Sessions, SseSnapshot(x)
        PROVE  StreamsOK'
    <2>1. /\ \A s \in Sessions \ {x} : sse'[s] = sse[s]
          /\ live[x] = "closed" /\ UNCHANGED <<live, queue, resync>>
      BY <1>2 DEF SseSnapshot, TypeOK, streamVars
    <2> QED  BY <2>1
  <1>3. ASSUME NEW x \in Sessions, SseSubscribe(x)
        PROVE  StreamsOK'
    <2>1. /\ \A s \in Sessions \ {x} : sse'[s] = sse[s] /\ live'[s] = live[s]
          /\ live'[x] = "subscribed" /\ sse'[x].pc = "announce"
          /\ sse[x].pc = "snapshot" /\ UNCHANGED <<queue, resync>>
      BY <1>3 DEF SseSubscribe, TypeOK, SseCall
    <2> QED  BY <2>1
  <1>4. ASSUME NEW p \in Sessions, NEW e, SendTo(p, e),
               UNCHANGED <<live, resync>>,
               \A s \in Sessions : sse'[s].pc = sse[s].pc
        PROVE  StreamsOK'
    <2>1. \A s \in Sessions : live[s] = "closed" => queue'[s] = queue[s]
      BY <1>4 DEF SendTo, TypeOK
    <2> QED  BY <1>4, <2>1
  <1>5. ASSUME NEW x \in Sessions, NEW p \in Sessions, SseAnnounce(x, p)
        PROVE  StreamsOK'
    <2>1. \A s \in Sessions : sse'[s].pc = sse[s].pc
      BY <1>5 DEF SseAnnounce, TypeOK, SseCall
    <2> QED  BY <1>4, <1>5, <2>1 DEF SseAnnounce
  <1>6. ASSUME NEW x \in Sessions, SseReturn(x)
        PROVE  StreamsOK'
    <2>1. /\ \A s \in Sessions \ {x} : sse'[s] = sse[s] /\ resync'[s] = resync[s]
          /\ sse'[x].pc = "idle" /\ sse[x].pc = "announce"
          /\ UNCHANGED <<live, queue>>
      BY <1>6 DEF SseReturn, TypeOK, SseIdle
    <2>2. live[x] # "closed"
      BY <2>1 DEF Seated
    <2> QED  BY <2>1, <2>2
  <1>7. ASSUME NEW x \in Sessions, DeliverResync(x) \/ DeliverEvent(x)
        PROVE  StreamsOK'
    <2>1. /\ UNCHANGED <<sse, live>> /\ live[x] # "closed"
          /\ \A s \in Sessions : resync'[s] = None \/ resync'[s] = resync[s]
          /\ \A s \in Sessions \ {x} : queue'[s] = queue[s]
      BY <1>7 DEF DeliverResync, DeliverEvent, Streaming, TypeOK
    <2> QED  BY <2>1
  <1>8. ASSUME NEW x \in Sessions, Streaming(x), CloseStream(x)
        PROVE  StreamsOK'
    <2>1. /\ UNCHANGED sse
          /\ live'[x] = "closed" /\ queue'[x] = << >> /\ resync'[x] = None
          /\ \A s \in Sessions \ {x} : live'[s] = live[s] /\ queue'[s] = queue[s]
                                       /\ resync'[s] = resync[s]
      BY <1>8 DEF CloseStream, TypeOK
    <2> QED  BY <2>1
  <1>9. ASSUME NEW s \in Sessions, NEW to \in Sessions, NEW kind \in SignalKinds,
               NEW body \in Bodies, Signal(s, to, kind, body)
        PROVE  StreamsOK'
    <2>1. UNCHANGED <<sse, live, resync>>
      BY <1>9 DEF Signal
    <2>2. CASE to \in participants
      BY <1>4, <1>9, <2>1, <2>2 DEF Signal
    <2>3. CASE to \notin participants
      BY <1>9, <2>1, <2>3 DEF Signal
    <2> QED  BY <2>2, <2>3
  <1>10. ASSUME NEW t \in Threads, NEW p \in Sessions, PostSend(t, p)
         PROVE  StreamsOK'
    BY <1>4, <1>10 DEF PostSend
  <1>11. CASE UNCHANGED <<sse, live, resync, queue>>
    BY <1>11
  <1> QED
    BY <1>1, <1>2, <1>3, <1>5, <1>6, <1>7, <1>8, <1>9, <1>10, <1>11
    DEF Next, vars, streamVars, Handler, Stream, StreamLagged, StreamEnded,
        Disconnect, PostAppend

-----------------------------------------------------------------------------
(* Faithful talks. *)

LEMMA ListsType ==
    ASSUME TypeOK, ViewsOK, NEW s \in Sessions, NEW b \in Lists(s)
    PROVE  b \in Seq(Message)
  BY DEF TypeOK, ViewsOK, View, SseCall, Resync, Lists

\* Part of a faithful talk is faithful ...
LEMMA FaithfulPart ==
    ASSUME NEW old, NEW new, Faithful(old), PartOf(new, old)
    PROVE  Faithful(new)
  <1>1. PICK g \in [DOMAIN new -> DOMAIN old] :
            /\ \A i \in DOMAIN new : new[i] = old[g[i]]
            /\ \A i, j \in DOMAIN new : i < j => g[i] < g[j]
    BY DEF PartOf
  <1>2. \A i \in DOMAIN new : g[i] \in DOMAIN old
    BY <1>1
  <1>3. \A i \in DOMAIN new : Genuine(new[i])
    BY <1>1, <1>2 DEF Faithful
  <1>4. ASSUME NEW i \in DOMAIN new, NEW j \in DOMAIN new, i < j
        PROVE  new[j].id \notin returned_before[new[i].id]
    BY <1>1, <1>2, <1>4 DEF Faithful
  <1> QED  BY <1>3, <1>4 DEF Faithful

\* ... and so is a faithful talk with a message below it that nothing had seen
\* return.
LEMMA FaithfulBelow ==
    ASSUME NEW old, NEW new, NEW top \in Int, NEW m,
           DOMAIN old \subseteq Int, Faithful(old),
           DOMAIN new = DOMAIN old \cup {top},
           \A i \in DOMAIN old : i < top /\ new[i] = old[i],
           new[top] = m, Genuine(m),
           \A k \in 1 .. posted : m.id \notin returned_before[k]
    PROVE  Faithful(new)
  <1>1. \A i \in DOMAIN new : Genuine(new[i])
    BY DEF Faithful
  <1>2. ASSUME NEW i \in DOMAIN new, NEW j \in DOMAIN new, i < j
        PROVE  new[j].id \notin returned_before[new[i].id]
    <2>1. i \in DOMAIN old /\ new[i] = old[i] /\ old[i].id \in 1 .. posted
      <3>1. i # top
        BY <1>2
      <3> QED  BY <3>1 DEF Faithful, Genuine
    <2>2. CASE j = top
      BY <2>1, <2>2
    <2>3. CASE j # top
      BY <1>2, <2>1, <2>3 DEF Faithful
    <2> QED  BY <2>2, <2>3
  <1> QED  BY <1>1, <1>2 DEF Faithful

\* Time does not make a talk less faithful.
LEMMA FaithfulKept ==
    ASSUME TypeOK, AuditOK, ChatIsLatest, ReturnsOK, [ViewNext]_viewVars,
           NEW talk, Faithful(talk)
    PROVE  Faithful(talk)'
  <1>1. [Next]_vars
    BY ViewStepIsServerStep
  <1>2. \A m \in 1 .. posted : returned_before'[m] = returned_before[m]
    <2>1. ASSUME NEW s \in Sessions, NEW t \in Threads, PostMessage(t, s)
          PROVE  \A m \in 1 .. posted : returned_before'[m] = returned_before[m]
      BY <2>1, ReturnsAppended
    <2>2. CASE UNCHANGED returned_before
      BY <2>2
    <2> QED
      BY <2>1, <2>2
      DEF ViewNext, viewVars, auditVars, ShowResync, ShowEvent, ToggleChat,
          OpenStream, SilentStep
  <1>3. \A i \in DOMAIN talk : Genuine(talk[i])'
    <2>1. \A m : Genuine(m) => Genuine(m)'
      BY <1>1, GenuineKept
    <2> QED  BY <2>1 DEF Faithful, Genuine
  <1>4. ASSUME NEW i \in DOMAIN talk, NEW j \in DOMAIN talk, i < j
        PROVE  talk[j].id \notin returned_before'[talk[i].id]
    BY <1>2, <1>4 DEF Faithful, Genuine
  <1> QED  BY <1>3, <1>4 DEF Faithful

\* A snapshot is faithful: the store is in the order of posting.
LEMMA HistoryIsFaithful ==
    ASSUME TypeOK, ChatIsLatest, ReturnsOK
    PROVE  Faithful(Talk(ChatHistory(chat, ResyncLimit), << >>))
  <1> DEFINE h == ChatHistory(chat, ResyncLimit)
             talk == Talk(h, << >>)
  <1>1. /\ h \in Seq(Message) /\ Len(h) \in Nat
        /\ \A i \in 1 .. Len(h) : Genuine(h[i]) /\ h[i].id = posted - Len(h) + i
    BY HistoryShape, LenProperties
  <1> HIDE DEF h
  <1>2. /\ DOMAIN talk \subseteq 1 .. Len(h)
        /\ \A i \in DOMAIN talk : talk[i] = h[i]
    BY <1>1, EmptySeq DEF Talk
  <1> HIDE DEF talk
  <1>3. ASSUME NEW i \in DOMAIN talk, NEW j \in DOMAIN talk, i < j
        PROVE  talk[j].id \notin returned_before[talk[i].id]
    <2>1. h[i].id \in 1 .. posted /\ h[j].id = posted - Len(h) + j
          /\ h[i].id = posted - Len(h) + i
      BY <1>1, <1>2 DEF Genuine
    <2>2. ~(h[j].id <= h[i].id - 1)
      BY <1>1, <1>2, <1>3, <2>1 DEF TypeOK
    <2>3. h[j].id \notin 1 .. h[i].id - 1
      BY <2>2
    <2> QED  BY <1>2, <2>1, <2>3 DEF ReturnsOK
  <1> QED  BY <1>1, <1>2, <1>3 DEF Faithful, talk, h

LEMMA TalksStep ==
    TypeOK /\ ViewsOK /\ AuditOK /\ ChatIsLatest /\ ReturnsOK /\ PostsOK
        /\ StreamsOK /\ TalksOK /\ [ViewNext]_viewVars => TalksOK'
  <1> SUFFICES ASSUME TypeOK, ViewsOK, AuditOK, ChatIsLatest, ReturnsOK, PostsOK,
                      StreamsOK, TalksOK, [ViewNext]_viewVars,
                      NEW s \in Sessions, NEW b \in Lists(s)',
                      NEW talk, talk = Talk(b, queue'[s])
               PROVE  Faithful(talk)'
    BY DEF TalksOK, Faithful, Genuine
  <1> SUFFICES Faithful(talk)
    BY FaithfulKept
  <1> USE ServerAssumption
  <1>1. queue[s] \in Seq(Event)
    BY DEF TypeOK
  <1>2. ASSUME b \in Lists(s), queue'[s] = queue[s]
        PROVE  Faithful(talk)
    BY <1>2 DEF TalksOK
  <1>3. ASSUME b \in Lists(s), NEW e \in Event, e.type # "chat_message",
               queue'[s] = Append(queue[s], e)
        PROVE  Faithful(talk)
    <2>1. Talk(b, queue'[s]) = Talk(b, queue[s])
      BY <1>1, <1>3, ListsType, TalkIgnores
    <2> QED  BY <1>3, <2>1 DEF TalksOK
  <1>4. ASSUME b \in Lists(s), queue'[s] = << >>
        PROVE  Faithful(talk)
    <2>1. PartOf(talk, Talk(b, queue[s]))
      BY <1>1, <1>4, ListsType, TalkCut
    <2> QED  BY <1>4, <2>1, FaithfulPart DEF TalksOK
  <1>5. ASSUME NEW x \in Sessions, ShowResync(x)
        PROVE  Faithful(talk)
    <2>1. /\ resync[x] # None /\ resync' = [resync EXCEPT ![x] = None]
          /\ UNCHANGED <<sse, queue>>
          /\ view' = [view EXCEPT ![x] = OnResync(view[x], resync[x])]
      BY <1>5 DEF ShowResync, DeliverResync
    <2>2. OnResync(view[x], resync[x]).chat = resync[x].chat
      BY DEF OnResync, ViewsOK, View
    <2>3. b \in Lists(s)
      <3>1. CASE s = x
        <4>1. view'[s].chat = resync[s].chat /\ resync'[s] = None
          BY <2>1, <2>2, <3>1 DEF TypeOK, ViewsOK
        <4> QED  BY <2>1, <3>1, <4>1 DEF Lists
      <3>2. CASE s # x
        <4>1. view'[s] = view[s] /\ resync'[s] = resync[s]
          BY <2>1, <3>2 DEF TypeOK, ViewsOK
        <4> QED  BY <2>1, <4>1 DEF Lists
      <3> QED  BY <3>1, <3>2
    <2> QED  BY <1>2, <2>1, <2>3
  <1>6. ASSUME NEW x \in Sessions, ShowEvent(x)
        PROVE  Faithful(talk)
    <2>1. /\ sse[x] = SseIdle /\ resync[x] = None
          /\ UNCHANGED <<sse, resync>>
          /\ queue[x] # << >> /\ queue' = [queue EXCEPT ![x] = Tail(@)]
          /\ view' = [view EXCEPT ![x] = OnEvent(x, view[x], Head(queue[x]))]
      BY <1>6 DEF ShowEvent, DeliverEvent, Streaming
    <2>2. CASE s # x
      <3>1. view'[s] = view[s] /\ queue'[s] = queue[s]
        BY <2>1, <2>2 DEF TypeOK, ViewsOK
      <3> QED  BY <1>2, <2>1, <3>1 DEF Lists
    <2>3. CASE s = x
      <3>1. b = OnEvent(s, view[s], Head(queue[s])).chat
        <4>1. sse[s].pc = "idle"
          BY <2>1, <2>3 DEF SseIdle
        <4> QED  BY <2>1, <2>3, <4>1 DEF Lists, ViewsOK
      <3>2. queue'[s] = Tail(queue[s]) /\ queue[s] # << >>
        BY <2>1, <2>3 DEF TypeOK
      <3>3. view[s].chat \in Lists(s)
        BY DEF Lists
      <3>4. Head(queue[s]) \in Event
        BY <1>1, <3>2, HeadTailProperties
      <3>5. CASE Head(queue[s]).type = "chat_message"
        <4> DEFINE m == Head(queue[s]).msg
        <4>1. OnEvent(s, view[s], Head(queue[s])) = OnChat(s, view[s], m)
          BY <3>5 DEF OnEvent
        <4>2. OnChat(s, view[s], m).chat = Append(view[s].chat, m)
          BY DEF OnChat, ViewsOK, View
        <4>3. Talk(Append(view[s].chat, m), Tail(queue[s])) = Talk(view[s].chat, queue[s])
          BY <1>1, <3>2, <3>3, <3>5, ListsType, TalkShown
        <4> QED  BY <3>1, <3>2, <3>3, <4>1, <4>2, <4>3 DEF TalksOK
      <3>6. CASE Head(queue[s]).type # "chat_message"
        <4>1. OnEvent(s, view[s], Head(queue[s])).chat = view[s].chat
          <5>1. CASE Head(queue[s]).type = "peer_joined"
            BY <5>1 DEF OnEvent, OnPeerJoined, ViewsOK, View
          <5>2. CASE Head(queue[s]).type # "peer_joined"
            BY <3>6, <5>2 DEF OnEvent
          <5> QED  BY <5>1, <5>2
        <4>2. PartOf(Talk(view[s].chat, Tail(queue[s])), Talk(view[s].chat, queue[s]))
          BY <1>1, <3>2, <3>3, <3>6, ListsType, TalkMovesUp
        <4>3. talk = Talk(view[s].chat, Tail(queue[s]))
          BY <3>1, <3>2, <4>1
        <4> QED  BY <3>3, <4>2, <4>3, FaithfulPart DEF TalksOK
      <3> QED  BY <3>5, <3>6
    <2> QED  BY <2>2, <2>3
  <1>7. ASSUME NEW x \in Sessions, ToggleChat(x)
        PROVE  Faithful(talk)
    <2>1. view'[s].chat = view[s].chat
      BY <1>7 DEF ToggleChat, OnToggle, ViewsOK, View
    <2>2. UNCHANGED <<sse, resync, queue>>
      BY <1>7 DEF ToggleChat, vars, streamVars
    <2> QED  BY <1>2, <2>1, <2>2 DEF Lists
  <1>8. ASSUME NEW x \in Sessions, OpenStream(x)
        PROVE  Faithful(talk)
    <2>1. UNCHANGED <<view, resync, queue>>
      BY <1>8 DEF OpenStream, SseSnapshot, streamVars
    <2>2. \/ sse'[s] = sse[s]
          \/ sse'[s].chat = ChatHistory(chat, ResyncLimit) /\ live[s] = "closed"
      BY <1>8 DEF OpenStream, SseSnapshot, TypeOK
    <2>3. CASE b \in Lists(s)
      BY <1>2, <2>1, <2>3
    <2>4. CASE b \notin Lists(s)
      <3>1. b = ChatHistory(chat, ResyncLimit) /\ live[s] = "closed"
        BY <2>1, <2>2, <2>4 DEF Lists
      <3>2. queue'[s] = << >>
        BY <2>1, <3>1 DEF StreamsOK
      <3> QED  BY <3>1, <3>2, HistoryIsFaithful
    <2> QED  BY <2>3, <2>4
  <1>9. ASSUME NEW x \in Sessions, NEW t \in Threads, PostMessage(t, x)
        PROVE  Faithful(talk)
    BY <1>2, <1>9 DEF PostMessage, PostAppend, streamVars, Lists
  <1>10. ASSUME NEW x \in Sessions,
                NEW claim \in Passwords \cup {None},
                NEW supplied \in Passwords \cup {None},
                NEW name \in Names \cup {None},
                Join(x, claim, supplied, name), UNCHANGED view
         PROVE  Faithful(talk)
    BY <1>2, <1>10 DEF Join, Lists
  <1>11. ASSUME NEW x \in Sessions, Handler(x), UNCHANGED view
         PROVE  Faithful(talk)
    <2>1. CASE SseSubscribe(x)
      <3>1. sse'[s].chat = sse[s].chat /\ (sse'[s].pc # "idle" => sse[s].pc # "idle")
        BY <2>1 DEF SseSubscribe, TypeOK, SseCall
      <3> QED  BY <1>2, <1>11, <2>1, <3>1 DEF SseSubscribe, Lists
    <2>2. ASSUME NEW p \in Sessions, SseAnnounce(x, p)
          PROVE  Faithful(talk)
      <3>1. sse'[s].chat = sse[s].chat /\ sse'[s].pc = sse[s].pc
        BY <2>2 DEF SseAnnounce, TypeOK, SseCall
      <3>2. b \in Lists(s)
        BY <1>11, <2>2, <3>1 DEF SseAnnounce, Lists
      <3>3. PeerJoined(x) \in Event /\ PeerJoined(x).type # "chat_message"
        BY DEF PeerJoined, Event, TypeOK
      <3>4. queue'[s] = queue[s] \/ queue'[s] = Append(queue[s], PeerJoined(x))
        BY <2>2, <3>3, SendToAppends DEF SseAnnounce
      <3> QED  BY <1>2, <1>3, <3>2, <3>3, <3>4
    <2>3. CASE SseReturn(x)
      <3>1. /\ UNCHANGED queue /\ sse[x].pc = "announce"
            /\ s = x => resync'[s].chat = sse[s].chat /\ sse'[s].pc = "idle"
            /\ s # x => resync'[s] = resync[s] /\ sse'[s] = sse[s]
        BY <2>3 DEF SseReturn, TypeOK, SseIdle
      <3> QED  BY <1>2, <1>11, <3>1 DEF Lists
    <2> QED  BY <1>11, <2>1, <2>2, <2>3 DEF Handler
  <1>12. ASSUME NEW x \in Sessions, CloseStream(x), UNCHANGED view
         PROVE  Faithful(talk)
    <2>1. /\ UNCHANGED sse
          /\ s = x => queue'[s] = << >> /\ resync'[s] = None
          /\ s # x => queue'[s] = queue[s] /\ resync'[s] = resync[s]
      BY <1>12 DEF CloseStream, TypeOK
    <2>2. b \in Lists(s)
      BY <1>12, <2>1 DEF Lists
    <2> QED  BY <1>2, <1>4, <2>1, <2>2
  <1>13. ASSUME NEW x \in Sessions, NEW to \in Sessions, NEW kind \in SignalKinds,
                NEW body \in Bodies, Signal(x, to, kind, body), UNCHANGED view
         PROVE  Faithful(talk)
    <2> DEFINE e == SignalEvent(x, to, kind, body)
    <2>1. b \in Lists(s)
      BY <1>13 DEF Signal, Lists
    <2>2. e \in Event /\ e.type # "chat_message"
      BY DEF SignalEvent, Event
    <2>3. queue'[s] = queue[s] \/ queue'[s] = Append(queue[s], e)
      <3>1. CASE to \in participants
        BY <1>13, <2>2, <3>1, SendToAppends DEF Signal
      <3>2. CASE to \notin participants
        BY <1>13, <3>2 DEF Signal
      <3> QED  BY <3>1, <3>2
    <2> QED  BY <1>2, <1>3, <2>1, <2>2, <2>3
  <1>14. ASSUME NEW t \in Threads, NEW p \in Sessions, PostSend(t, p), UNCHANGED view
         PROVE  Faithful(talk)
    <2> DEFINE m == post[t].msg
               e == ChatEvent(m)
    <2>1. b \in Lists(s)
      BY <1>14 DEF PostSend, Lists
    <2>2. /\ m \in Message /\ Genuine(m)
          /\ \A k \in 1 .. posted : m.id \notin returned_before[k]
      BY <1>14, PostType DEF PostSend, PostsOK
    <2>3. e \in Event /\ e.type = "chat_message" /\ e.msg = m
      BY <2>2 DEF ChatEvent, Event
    <2>4. queue'[s] = queue[s] \/ queue'[s] = Append(queue[s], e)
      BY <1>14, <2>3, SendToAppends DEF PostSend
    <2> HIDE DEF m, e
    <2>5. CASE queue'[s] = Append(queue[s], e)
      <3> DEFINE top == Len(b) + Len(queue[s]) + 1
                 old == Talk(b, queue[s])
      <3>1. b \in Seq(Message) /\ Len(b) \in Nat /\ Len(queue[s]) \in Nat
        BY <1>1, <2>1, ListsType, LenProperties
      <3>2. /\ DOMAIN talk = DOMAIN old \cup {top}
            /\ \A i \in DOMAIN old : i < top /\ talk[i] = old[i]
            /\ talk[top] = m
        <4> DEFINE new == Talk(b, Append(queue[s], e))
        <4>1. /\ DOMAIN new = DOMAIN old \cup {top}
              /\ \A i \in DOMAIN old : i < top /\ new[i] = old[i]
              /\ new[top] = e.msg
          BY <1>1, <2>3, <3>1, TalkGains, ZenonT(30)
        <4>2. talk = new
          BY <2>5
        <4> QED  BY <2>3, <4>1, <4>2
      <3>3. DOMAIN old \subseteq Int /\ top \in Int
        BY <1>1, <3>1, TalkPlaces
      <3>4. Faithful(old)
        BY <2>1 DEF TalksOK
      <3> HIDE DEF old, top
      <3> QED  BY <2>2, <3>2, <3>3, <3>4, FaithfulBelow
    <2> QED  BY <1>2, <2>1, <2>4, <2>5
  <1>15. CASE UNCHANGED viewVars
    BY <1>2, <1>15 DEF viewVars, vars, streamVars, Lists
  <1>16. CASE SilentStep
    BY <1>10, <1>11, <1>12, <1>13, <1>14, <1>16
    DEF SilentStep, StreamLagged, StreamEnded, Disconnect
  <1> QED  BY <1>5, <1>6, <1>7, <1>8, <1>9, <1>15, <1>16 DEF ViewNext

\* Pages start empty, and so do streams.
LEMMA ChatInit == ViewInit => ReturnsOK /\ PostsOK /\ StreamsOK /\ TalksOK
  <1> SUFFICES ASSUME ViewInit PROVE ReturnsOK /\ PostsOK /\ StreamsOK /\ TalksOK
    OBVIOUS
  <1>1. ReturnsOK
    BY DEF ViewInit, Init, ReturnsOK
  <1>2. PostsOK /\ StreamsOK
    BY DEF ViewInit, Init, PostsOK, StreamsOK, InFlight, SseIdle
  <1>3. ASSUME NEW s \in Sessions, NEW b \in Lists(s)
        PROVE  Faithful(Talk(b, queue[s]))
    <2>1. b = << >> /\ queue[s] = << >>
      BY <1>3 DEF ViewInit, Init, Lists, SseIdle
    <2>2. DOMAIN Talk(<< >>, << >>) = {}
      BY DEF Talk
    <2> HIDE DEF Talk
    <2> QED  BY <2>1, <2>2 DEF Faithful
  <1> QED  BY <1>1, <1>2, <1>3 DEF TalksOK

\* What the chat of a page rests on.
LEMMA ChatHolds ==
    ViewSpec => [](TypeOK /\ ViewsOK /\ AuditOK /\ Seated /\ ChatIsLatest
                     /\ ReturnsOK /\ PostsOK /\ StreamsOK /\ TalksOK)
  <1>1. ViewSpec => [](TypeOK /\ ViewsOK /\ Seated)
    BY ViewsHold, PTL
  <1>2. ViewSpec => []AuditOK
    BY <1>1, AuditInit, AuditStep, PTL DEF ViewSpec
  <1>3. ViewSpec => []ChatIsLatest
    BY ViewRefinesServer, StoreIsLatest, PTL
  <1>4. ViewSpec => []ReturnsOK
    BY <1>1, <1>2, ChatInit, ReturnsStep, PTL DEF ViewSpec
  <1>5. ViewSpec => []PostsOK
    BY <1>1, <1>2, <1>3, <1>4, ChatInit, PostsStep, PTL DEF ViewSpec
  <1>6. ViewSpec => []StreamsOK
    BY <1>1, ChatInit, StreamsStep, ViewStepIsServerStep, PTL DEF ViewSpec
  <1>7. ViewSpec => []TalksOK
    BY <1>1, <1>2, <1>3, <1>4, <1>5, <1>6, ChatInit, TalksStep, PTL DEF ViewSpec
  <1> QED  BY <1>1, <1>2, <1>3, <1>4, <1>5, <1>6, <1>7, PTL

\* What a page shows, or will once it has had its resync, is one of its lists.
LEMMA BaseIsListed ==
    ASSUME ViewsOK, NEW s \in Sessions
    PROVE  Base(s).chat \in Lists(s)
  <1>1. CASE resync[s] = None
    BY <1>1 DEF Base, Lists
  <1>2. CASE resync[s] # None
    <2>1. Base(s).chat = resync[s].chat
      BY <1>2 DEF Base, OnResync, ViewsOK, View
    <2> QED  BY <1>2, <2>1 DEF Lists
  <1> QED  BY <1>1, <1>2

\* However the broadcasts race and whenever pages reconnect, lag or rejoin, no
\* page shows a message above one whose POST had been answered before it was
\* sent (handle_chat_send, server/mod.rs:258-265).
THEOREM PostOrderIsKept == ViewSpec => []PostOrderKept
  <1>1. ViewsOK /\ TalksOK => PostOrderKept
    BY BaseIsListed DEF TalksOK, Faithful, PostOrderKept, ShownChat
  <1> QED  BY <1>1, ChatHolds, PTL

-----------------------------------------------------------------------------
(* What a resync takes back. *)

\* The list of messages of a view is moved by two steps only.
LEMMA ListMoves ==
    ASSUME TypeOK, ViewsOK, [ViewNext]_viewVars, NEW s \in Sessions
    PROVE  \/ view'[s].chat = view[s].chat
           \/ ShowResync(s) /\ view'[s].chat = resync[s].chat
           \/ /\ sse[s].pc = "idle" /\ resync[s] = None
              /\ UNCHANGED <<sse, resync>>
              /\ \E m \in Message : view'[s].chat = Append(view[s].chat, m)
  <1> USE ServerAssumption
  <1>1. ASSUME NEW x \in Sessions, x # s, view' = [view EXCEPT ![x] = view'[x]]
        PROVE  view'[s].chat = view[s].chat
    BY <1>1 DEF ViewsOK
  <1>2. ASSUME NEW x \in Sessions, ShowResync(x)
        PROVE  \/ view'[s].chat = view[s].chat
               \/ ShowResync(s) /\ view'[s].chat = resync[s].chat
    <2>1. CASE x = s
      <3>1. view'[s] = OnResync(view[s], resync[s])
        BY <1>2, <2>1 DEF ShowResync, ViewsOK
      <3>2. OnResync(view[s], resync[s]).chat = resync[s].chat
        BY DEF OnResync, ViewsOK, View
      <3> QED  BY <1>2, <2>1, <3>1, <3>2
    <2>2. CASE x # s
      BY <1>2, <2>2 DEF ShowResync, ViewsOK
    <2> QED  BY <2>1, <2>2
  <1>3. ASSUME NEW x \in Sessions, ShowEvent(x)
        PROVE  \/ view'[s].chat = view[s].chat
               \/ /\ sse[s].pc = "idle" /\ resync[s] = None
                  /\ UNCHANGED <<sse, resync>>
                  /\ \E m \in Message : view'[s].chat = Append(view[s].chat, m)
    <2>1. CASE x = s
      <3> DEFINE e == Head(queue[s])
      <3>1. /\ sse[s].pc = "idle" /\ resync[s] = None /\ queue[s] # << >>
            /\ UNCHANGED <<sse, resync>> /\ view'[s] = OnEvent(s, view[s], e)
        BY <1>3, <2>1 DEF ShowEvent, DeliverEvent, Streaming, SseIdle, ViewsOK
      <3>2. e \in Event
        BY <3>1, HeadTailProperties DEF TypeOK
      <3> HIDE DEF e
      <3>3. CASE e.type = "chat_message"
        <4>1. OnEvent(s, view[s], e) = OnChat(s, view[s], e.msg)
          BY <3>3 DEF OnEvent
        <4>2. OnChat(s, view[s], e.msg).chat = Append(view[s].chat, e.msg)
          BY DEF OnChat, ViewsOK, View
        <4>3. e.msg \in Message
          BY <3>2, <3>3 DEF Event
        <4> QED  BY <3>1, <4>1, <4>2, <4>3
      <3>4. CASE e.type = "peer_joined"
        <4>1. OnEvent(s, view[s], e).chat = view[s].chat
          BY <3>4 DEF OnEvent, OnPeerJoined, ViewsOK, View
        <4> QED  BY <3>1, <4>1
      <3>5. CASE e.type \notin {"chat_message", "peer_joined"}
        <4>1. OnEvent(s, view[s], e) = view[s]
          BY <3>5 DEF OnEvent
        <4> QED  BY <3>1, <4>1
      <3> QED  BY <3>3, <3>4, <3>5
    <2>2. CASE x # s
      BY <1>3, <2>2 DEF ShowEvent, ViewsOK
    <2> QED  BY <2>1, <2>2
  <1>4. ASSUME NEW x \in Sessions, ToggleChat(x)
        PROVE  view'[s].chat = view[s].chat
    BY <1>4 DEF ToggleChat, OnToggle, ViewsOK, View
  <1>5. CASE UNCHANGED view
    BY <1>5
  <1> QED  BY <1>2, <1>3, <1>4, <1>5
           DEF ViewNext, viewVars, OpenStream, PostMessage, SilentStep

\* A snapshot covers what a page shows: of messages that are genuine, the store
\* has the newest.
LEMMA HistoryCovers ==
    ASSUME TypeOK, ChatIsLatest, NEW old \in Seq(Message),
           \A i \in 1 .. Len(old) : Genuine(old[i])
    PROVE  Covers(ChatHistory(chat, ResyncLimit), old)
  <1> DEFINE h == ChatHistory(chat, ResyncLimit)
  <1>1. /\ posted \in Nat /\ Len(h) \in 0 .. posted
        /\ Len(h) = posted \/ Len(h) >= ResyncLimit \/ Len(h) >= MaxMessages
        /\ \A i \in 1 .. Len(h) : h[i].id = posted - Len(h) + i
    BY HistoryShape DEF TypeOK
  <1>2. \A i \in 1 .. Len(h) : \E j \in 1 .. Len(chat) : h[i] = chat[j]
    <2> DEFINE start == IF Len(chat) > ResyncLimit THEN Len(chat) - ResyncLimit ELSE 0
    <2>1. Len(chat) \in Nat /\ start \in 0 .. Len(chat)
      BY LenProperties, ServerAssumption DEF TypeOK
    <2>2. \A i \in start + 1 .. Len(chat) : chat[i] \in Message
      BY <2>1, ElementOfSeq DEF TypeOK
    <2>3. h = SubSeq(chat, start + 1, Len(chat))
      BY DEF ChatHistory
    <2> HIDE DEF start
    <2>4. /\ Len(h) = IF start + 1 <= Len(chat) THEN Len(chat) - (start + 1) + 1 ELSE 0
          /\ \A i \in 1 .. Len(chat) - (start + 1) + 1 :
                h[i] = chat[start + 1 + i - 1]
      BY <2>1, <2>2, <2>3, SubSeqProperties
    <2> HIDE DEF h
    <2>5. ASSUME NEW i \in 1 .. Len(h)
          PROVE  \E j \in 1 .. Len(chat) : h[i] = chat[j]
      <3>1. i \in 1 .. Len(chat) - (start + 1) + 1 /\ start + 1 + i - 1 \in 1 .. Len(chat)
        BY <2>1, <2>4
      <3> QED  BY <2>4, <3>1
    <2> QED  BY <2>5
  <1> HIDE DEF h
  <1>3. ASSUME NEW i \in 1 .. Len(old),
               ~\E j \in 1 .. Len(h) : h[j] = old[i]
        PROVE  /\ Len(h) >= ResyncLimit \/ Len(h) >= MaxMessages
               /\ \A j \in 1 .. Len(h) : h[j].id > old[i].id
    <2>1. old[i].id \in 1 .. posted
      BY DEF Genuine
    <2>2. ~(old[i].id > posted - Len(h))
      <3> SUFFICES ASSUME old[i].id > posted - Len(h) PROVE FALSE
        OBVIOUS
      <3> DEFINE j == old[i].id - (posted - Len(h))
      <3>1. j \in 1 .. Len(h) /\ posted - Len(h) + j = old[i].id
        BY <1>1, <2>1
      <3>2. h[j].id = old[i].id
        BY <1>1, <3>1
      <3>3. PICK k \in 1 .. Len(chat) : h[j] = chat[k]
        BY <1>2, <3>1
      <3>4. chat[k] = old[i]
        BY <3>2, <3>3 DEF Genuine
      <3> QED  BY <1>3, <3>1, <3>3, <3>4
    <2>3. Len(h) # posted
      BY <1>1, <2>1, <2>2
    <2>4. \A j \in 1 .. Len(h) : h[j].id > old[i].id
      BY <1>1, <2>1, <2>2
    <2> QED  BY <1>1, <2>3, <2>4
  <1> QED  BY <1>3 DEF Covers, h

LEMMA CoversStep ==
    TypeOK /\ ViewsOK /\ ChatIsLatest /\ StreamsOK /\ TalksOK /\ CoversOK
        /\ [ViewNext]_viewVars => CoversOK'
  <1> SUFFICES ASSUME TypeOK, ViewsOK, ChatIsLatest, StreamsOK, TalksOK, CoversOK,
                      [ViewNext]_viewVars, NEW s \in Sessions
               PROVE  /\ sse'[s].pc # "idle" => Covers(sse'[s].chat, view'[s].chat)
                      /\ resync'[s] # None => Covers(resync'[s].chat, view'[s].chat)
    BY DEF CoversOK, Covers
  <1> DEFINE Goal == /\ sse'[s].pc # "idle" => Covers(sse'[s].chat, view'[s].chat)
                     /\ resync'[s] # None => Covers(resync'[s].chat, view'[s].chat)
  <1>1. ASSUME view'[s].chat = view[s].chat,
               sse'[s].pc # "idle" => sse[s].pc # "idle" /\ sse'[s].chat = sse[s].chat,
               \/ resync'[s] = None
               \/ resync'[s] = resync[s]
               \/ sse[s].pc # "idle" /\ resync'[s].chat = sse[s].chat
        PROVE  Goal
    BY <1>1 DEF CoversOK
  <1>2. ASSUME NEW x \in Sessions, OpenStream(x)
        PROVE  Goal
    <2>1. /\ UNCHANGED <<view, resync>> /\ live[x] = "closed"
          /\ s # x => sse'[s] = sse[s]
          /\ s = x => sse'[s].chat = ChatHistory(chat, ResyncLimit)
      BY <1>2 DEF OpenStream, SseSnapshot, streamVars, TypeOK
    <2>2. CASE s # x
      BY <1>1, <2>1, <2>2
    <2>3. CASE s = x
      <3>1. resync'[s] = None
        BY <2>1, <2>3 DEF StreamsOK
      <3>2. view[s].chat \in Seq(Message) /\ view[s].chat \in Lists(s)
        BY DEF ViewsOK, View, Lists
      <3>3. \A i \in 1 .. Len(view[s].chat) : Genuine(view[s].chat[i])
        <4> DEFINE b == view[s].chat
        <4>1. /\ Len(b) \in Nat /\ Len(queue[s]) \in Nat
          BY <3>2, LenProperties DEF TypeOK
        <4>2. Faithful(Talk(b, queue[s]))
          BY <3>2 DEF TalksOK
        <4>3. \A i \in 1 .. Len(b) : i \in DOMAIN Talk(b, queue[s])
                                      /\ Talk(b, queue[s])[i] = b[i]
          <5>1. b \in Seq(Message) /\ queue[s] \in Seq(Event)
            BY <3>2 DEF TypeOK
          <5> HIDE DEF b
          <5>2. \A i \in 1 .. Len(b) : /\ i \in 1 .. Len(b) + Len(queue[s])
                                       /\ i <= Len(b) /\ ~(i > Len(b))
            BY <4>1
          <5>3. /\ \A i \in 1 .. Len(b) + Len(queue[s]) :
                     i \in DOMAIN Talk(b, queue[s]) <=>
                        (i > Len(b) => queue[s][i - Len(b)].type = "chat_message")
                /\ \A i \in DOMAIN Talk(b, queue[s]) :
                     Talk(b, queue[s])[i] =
                        IF i <= Len(b) THEN b[i] ELSE queue[s][i - Len(b)].msg
            BY <5>1, TalkPlaces
          <5>4. \A i \in 1 .. Len(b) : i \in DOMAIN Talk(b, queue[s])
            BY <5>2, <5>3
          <5> QED  BY <5>2, <5>3, <5>4
        <4> HIDE DEF b
        <4>4. \A i \in 1 .. Len(b) : Genuine(b[i])
          BY <4>2, <4>3 DEF Faithful
        <4> QED  BY <4>4 DEF b
      <3>4. Covers(ChatHistory(chat, ResyncLimit), view[s].chat)
        BY <3>2, <3>3, HistoryCovers
      <3> QED  BY <2>1, <2>3, <3>1, <3>4
    <2> QED  BY <2>2, <2>3
  <1>3. ASSUME NEW x \in Sessions, ShowResync(x)
        PROVE  Goal
    <2>1. /\ sse[x] = SseIdle /\ UNCHANGED sse
          /\ resync' = [resync EXCEPT ![x] = None]
          /\ s # x => view'[s] = view[s]
      BY <1>3 DEF ShowResync, DeliverResync, Streaming, ViewsOK
    <2>2. CASE s = x
      BY <2>1, <2>2 DEF SseIdle, TypeOK
    <2>3. CASE s # x
      <3>1. resync'[s] = resync[s]
        BY <2>1, <2>3 DEF TypeOK
      <3> QED  BY <1>1, <2>1, <2>3, <3>1
    <2> QED  BY <2>2, <2>3
  <1>4. ASSUME NEW x \in Sessions, ShowEvent(x) \/ ToggleChat(x)
        PROVE  Goal
    <2>1. UNCHANGED <<sse, resync>>
      BY <1>4 DEF ShowEvent, DeliverEvent, ToggleChat, vars, streamVars
    <2>2. CASE view'[s].chat = view[s].chat
      BY <1>1, <2>1, <2>2
    <2>3. CASE view'[s].chat # view[s].chat
      <3>1. ~ShowResync(s)
        BY <2>1, <2>3 DEF ShowResync, DeliverResync, TypeOK
      <3>2. sse[s].pc = "idle" /\ resync[s] = None
        BY <2>3, <3>1, ListMoves
      <3> QED  BY <2>1, <3>2
    <2> QED  BY <2>2, <2>3
  <1>5. ASSUME NEW x \in Sessions, Handler(x), UNCHANGED view
        PROVE  Goal
    <2>1. CASE SseSubscribe(x) \/ \E p \in Sessions : SseAnnounce(x, p)
      <3>1. ASSUME SseSubscribe(x)
            PROVE  /\ sse'[s].chat = sse[s].chat
                   /\ sse'[s].pc # "idle" => sse[s].pc # "idle"
        BY <3>1 DEF SseSubscribe, TypeOK, SseCall
      <3>2. ASSUME NEW p \in Sessions, SseAnnounce(x, p)
            PROVE  sse'[s].chat = sse[s].chat /\ sse'[s].pc = sse[s].pc
        BY <3>2 DEF SseAnnounce, TypeOK, SseCall
      <3>3. /\ UNCHANGED resync
            /\ sse'[s].chat = sse[s].chat
            /\ sse'[s].pc # "idle" => sse[s].pc # "idle"
        BY <2>1, <3>1, <3>2 DEF SseSubscribe, SseAnnounce
      <3> QED  BY <1>1, <1>5, <3>3
    <2>2. CASE SseReturn(x)
      <3>1. /\ s # x => sse'[s] = sse[s] /\ resync'[s] = resync[s]
            /\ s = x => /\ sse'[s].pc = "idle" /\ sse[s].pc # "idle"
                        /\ resync'[s].chat = sse[s].chat
        BY <2>2 DEF SseReturn, TypeOK, SseIdle
      <3> QED  BY <1>1, <1>5, <3>1
    <2> QED  BY <1>5, <2>1, <2>2 DEF Handler
  <1>6. ASSUME NEW x \in Sessions, CloseStream(x), UNCHANGED view
        PROVE  Goal
    <2>1. UNCHANGED sse /\ (resync'[s] = None \/ resync'[s] = resync[s])
      BY <1>6 DEF CloseStream, TypeOK
    <2> QED  BY <1>1, <1>6, <2>1
  <1>7. CASE UNCHANGED <<view, sse, resync>>
    BY <1>1, <1>7
  <1>8. CASE SilentStep
    <2>1. UNCHANGED view
      BY <1>8 DEF SilentStep
    <2> QED
      BY <1>5, <1>6, <1>7, <1>8, <2>1
      DEF SilentStep, StreamLagged, StreamEnded, Disconnect, Join, Signal, PostSend
  <1>9. ASSUME NEW x \in Sessions, NEW t \in Threads, PostMessage(t, x)
        PROVE  Goal
    BY <1>7, <1>9 DEF PostMessage, PostAppend, streamVars
  <1>10. CASE UNCHANGED viewVars
    BY <1>7, <1>10 DEF viewVars, vars, streamVars
  <1> QED  BY <1>2, <1>3, <1>4, <1>8, <1>9, <1>10 DEF ViewNext

LEMMA CoversHold == ViewSpec => []CoversOK
  <1>1. ViewInit => CoversOK
    BY DEF ViewInit, Init, CoversOK, SseIdle
  <1> QED  BY <1>1, ChatHolds, CoversStep, PTL DEF ViewSpec

\* Over disconnections, lag, re-joins and racing posts, what a page has shown
\* stays, unless a resync that is full has only newer messages
\* (server/mod.rs:258-265, server/chat.rs:47-56).
THEOREM ResyncKeepsWhatWasShown == ViewSpec => ResyncKeepsChat
  <1>1. TypeOK /\ ViewsOK /\ CoversOK /\ [ViewNext]_viewVars =>
           \A s \in Sessions : \A i \in 1 .. Len(view[s].chat) :
             LET old == view[s].chat[i]
                 new == view'[s].chat
             IN  \/ \E j \in 1 .. Len(new) : new[j] = old
                 \/ /\ Len(new) >= ResyncLimit \/ Len(new) >= MaxMessages
                    /\ \A j \in 1 .. Len(new) : new[j].id > old.id
    <2> SUFFICES ASSUME TypeOK, ViewsOK, CoversOK, [ViewNext]_viewVars,
                        NEW s \in Sessions
                 PROVE  Covers(view'[s].chat, view[s].chat)
      BY DEF Covers
    <2>1. CASE view'[s].chat = view[s].chat
      BY <2>1 DEF Covers
    <2>2. CASE ShowResync(s) /\ view'[s].chat = resync[s].chat
      <3>1. resync[s] # None
        BY <2>2 DEF ShowResync, DeliverResync
      <3> QED  BY <2>2, <3>1 DEF CoversOK
    <2>3. ASSUME NEW m \in Message, view'[s].chat = Append(view[s].chat, m)
          PROVE  Covers(view'[s].chat, view[s].chat)
      <3> DEFINE b == view[s].chat
                 c == view'[s].chat
      <3>1. /\ Len(b) \in Nat /\ Len(c) = Len(b) + 1
            /\ \A i \in 1 .. Len(b) : c[i] = b[i]
        <4>1. b \in Seq(Message)
          BY DEF ViewsOK, View
        <4> QED  BY <2>3, <4>1, LenProperties, AppendProperties
      <3> HIDE DEF b, c
      <3>2. \A i \in 1 .. Len(b) : i \in 1 .. Len(c) /\ c[i] = b[i]
        BY <3>1
      <3>3. Covers(c, b)
        BY <3>2 DEF Covers
      <3> QED  BY <3>3 DEF b, c
    <2> QED  BY <2>1, <2>2, <2>3, ListMoves
  <1> QED  BY <1>1, ChatHolds, CoversHold, PTL DEF ViewSpec, ResyncKeepsChat

-----------------------------------------------------------------------------
(* Whole talks. *)

LEMMA QuietStep ==
    TypeOK /\ AuditOK /\ QuietOK /\ [ViewNext]_viewVars => QuietOK'
  <1> SUFFICES ASSUME TypeOK, AuditOK, QuietOK, [ViewNext]_viewVars,
                      NEW s \in Sessions, sse'[s].pc = "snapshot", quiet'[s]
               PROVE  InFlight' = {} /\ sse'[s].chat = ChatHistory(chat', ResyncLimit)
    BY DEF QuietOK, ChatHistory
  <1> DEFINE Goal == InFlight' = {} /\ sse'[s].chat = ChatHistory(chat', ResyncLimit)
  <1>1. ASSUME sse'[s] = sse[s], quiet[s], UNCHANGED <<chat, post>>
        PROVE  Goal
    BY <1>1 DEF QuietOK, InFlight
  <1>2. ASSUME NEW x \in Sessions, OpenStream(x)
        PROVE  Goal
    <2>1. UNCHANGED <<chat, post>>
      BY <1>2 DEF OpenStream, SseSnapshot, chatVars
    <2>2. CASE s = x
      <3>1. InFlight = {} /\ sse'[s].chat = ChatHistory(chat, ResyncLimit)
        BY <1>2, <2>2 DEF OpenStream, SseSnapshot, TypeOK, AuditOK
      <3> QED  BY <2>1, <3>1 DEF InFlight
    <2>3. CASE s # x
      <3>1. sse'[s] = sse[s] /\ quiet[s]
        BY <1>2, <2>3 DEF OpenStream, SseSnapshot, TypeOK, AuditOK
      <3> QED  BY <1>1, <2>1, <3>1
    <2> QED  BY <2>2, <2>3
  <1>3. ASSUME NEW x \in Sessions, NEW t \in Threads, PostMessage(t, x)
        PROVE  Goal
    <2>1. sse'[s] = sse[s] /\ sse[s].pc # "snapshot"
      BY <1>3 DEF PostMessage, PostAppend
    <2> QED  BY <2>1
  <1>4. ASSUME NEW t \in Threads, NEW p \in Sessions, PostSend(t, p),
               UNCHANGED quiet
        PROVE  Goal
    <2>1. sse'[s] = sse[s] /\ quiet[s] /\ t \in InFlight
      BY <1>4 DEF PostSend, InFlight, PostIdle
    <2> QED  BY <2>1 DEF QuietOK
  <1>5. ASSUME NEW x \in Sessions, Handler(x), UNCHANGED quiet
        PROVE  Goal
    <2>1. UNCHANGED <<chat, post>>
      BY <1>5 DEF Handler, SseSubscribe, SseAnnounce, SseReturn, chatVars
    <2>2. CASE SseSubscribe(x)
      <3>1. s # x /\ sse'[s] = sse[s]
        BY <2>2 DEF SseSubscribe, TypeOK, SseCall
      <3> QED  BY <1>1, <1>5, <2>1, <3>1
    <2>3. ASSUME NEW p \in Sessions, SseAnnounce(x, p)
          PROVE  Goal
      <3>1. s # x /\ sse'[s] = sse[s]
        BY <2>3 DEF SseAnnounce, TypeOK, SseCall
      <3> QED  BY <1>1, <1>5, <2>1, <3>1
    <2>4. CASE SseReturn(x)
      <3>1. s # x /\ sse'[s] = sse[s]
        BY <2>4 DEF SseReturn, TypeOK, SseIdle
      <3> QED  BY <1>1, <1>5, <2>1, <3>1
    <2> QED  BY <1>5, <2>2, <2>3, <2>4 DEF Handler
  <1>6. CASE UNCHANGED <<sse, chat, post, quiet>>
    BY <1>1, <1>6
  <1>7. CASE SilentStep
    <2>1. UNCHANGED quiet
      BY <1>7 DEF SilentStep, auditVars
    <2> QED
      BY <1>4, <1>5, <1>6, <1>7, <2>1
      DEF SilentStep, Join, StreamLagged, StreamEnded, Disconnect, CloseStream,
          Signal, chatVars
  <1>8. ASSUME NEW x \in Sessions, ShowResync(x) \/ ShowEvent(x) \/ ToggleChat(x)
        PROVE  Goal
    BY <1>6, <1>8 DEF ShowResync, ShowEvent, ToggleChat, DeliverResync,
                      DeliverEvent, vars, chatVars, auditVars
  <1>9. CASE UNCHANGED viewVars
    BY <1>6, <1>9 DEF viewVars, vars, chatVars, auditVars
  <1> QED  BY <1>2, <1>3, <1>7, <1>8, <1>9 DEF ViewNext

\* Of a talk in which nothing stands twice, no part has anything twice.
LEMMA OncePart ==
    ASSUME NEW old, NEW new, NothingTwice(old), PartOf(new, old)
    PROVE  NothingTwice(new)
  <1>1. PICK g \in [DOMAIN new -> DOMAIN old] :
            /\ \A i \in DOMAIN new : new[i] = old[g[i]]
            /\ \A i, j \in DOMAIN new : g[i] = g[j] => i = j
    BY DEF PartOf
  <1>2. \A i \in DOMAIN new : g[i] \in DOMAIN old
    BY <1>1
  <1> QED  BY <1>1, <1>2 DEF NothingTwice

\* A message that reaches the stream goes from under way to the talk.
LEMMA WholeSent ==
    ASSUME NEW old, NEW new, NEW top, NEW m, NEW underway,
           Whole(old, underway), m.id \in underway,
           DOMAIN new = DOMAIN old \cup {top},
           \A i \in DOMAIN old : i # top /\ new[i] = old[i],
           new[top] = m
    PROVE  Whole(new, underway \ {m.id})
  <1>1. IdsOf(new) = IdsOf(old) \cup {m.id}
    BY DEF IdsOf
  <1>2. m.id \notin IdsOf(old)
    BY DEF Whole
  <1>3. NothingTwice(new)
    <2> SUFFICES ASSUME NEW i \in DOMAIN new, NEW j \in DOMAIN new,
                        new[i].id = new[j].id
                 PROVE  i = j
      BY DEF NothingTwice
    <2>1. CASE i = top /\ j # top
      BY <1>2, <2>1 DEF IdsOf
    <2>2. CASE i # top /\ j = top
      BY <1>2, <2>2 DEF IdsOf
    <2>3. CASE i # top /\ j # top
      BY <2>3 DEF Whole, NothingTwice
    <2> QED  BY <2>1, <2>2, <2>3
  <1>4. /\ IdsOf(new) \cap (underway \ {m.id}) = {}
        /\ IdsOf(new) \cup (underway \ {m.id}) = IdsOf(old) \cup underway
    BY <1>1 DEF Whole
  <1>5. PICK lo \in 1 .. posted + 1 :
           /\ IdsOf(old) \cup underway = lo .. posted
           /\ \/ lo = 1
              \/ posted - lo + 1 >= ResyncLimit
              \/ posted - lo + 1 >= MaxMessages
    BY DEF Whole
  <1>6. IdsOf(new) \cup (underway \ {m.id}) = lo .. posted
    BY <1>4, <1>5
  <1> QED  BY <1>3, <1>4, <1>5, <1>6 DEF Whole

\* A new message is under way to everybody.
LEMMA WholePosted ==
    ASSUME posted \in Nat, posted' = posted + 1, NEW talk, NEW underway,
           Whole(talk, underway), NEW more, more = underway \cup {posted'}
    PROVE  Whole(talk, more)'
  <1>1. PICK lo \in 1 .. posted + 1 :
           /\ IdsOf(talk) \cup underway = lo .. posted
           /\ \/ lo = 1
              \/ posted - lo + 1 >= ResyncLimit
              \/ posted - lo + 1 >= MaxMessages
    BY DEF Whole
  <1>2. /\ lo \in 1 .. posted' + 1
        /\ lo .. posted' = (lo .. posted) \cup {posted'}
        /\ posted' \notin lo .. posted
    BY <1>1
  <1>3. IdsOf(talk) \cup more = lo .. posted'
    BY <1>1, <1>2
  <1>4. IdsOf(talk) \cap more = {}
    BY <1>1, <1>2 DEF Whole
  <1>5. \/ lo = 1
        \/ posted' - lo + 1 >= ResyncLimit
        \/ posted' - lo + 1 >= MaxMessages
    BY <1>1, ServerAssumption, MaxMessagesAssumption
  <1>6. NothingTwice(talk)
    BY DEF Whole
  <1> QED  BY <1>2, <1>3, <1>4, <1>5, <1>6 DEF Whole

\* What a quiet opening begins with.
LEMMA HistoryIsWhole ==
    ASSUME TypeOK, ChatIsLatest
    PROVE  Whole(Talk(ChatHistory(chat, ResyncLimit), << >>), {})
  <1> DEFINE h == ChatHistory(chat, ResyncLimit)
             talk == Talk(h, << >>)
             lo == posted - Len(h) + 1
  <1>1. /\ posted \in Nat /\ h \in Seq(Message) /\ Len(h) \in 0 .. posted
        /\ Len(h) = posted \/ Len(h) >= ResyncLimit \/ Len(h) >= MaxMessages
        /\ \A i \in 1 .. Len(h) : h[i].id = posted - Len(h) + i
    BY HistoryShape DEF TypeOK
  <1> HIDE DEF h
  <1>2. /\ DOMAIN talk = 1 .. Len(h)
        /\ \A i \in 1 .. Len(h) : talk[i] = h[i]
    <2>1. << >> \in Seq(Event) /\ Len(<< >>) = 0
      BY EmptySeq
    <2>2. /\ DOMAIN talk \subseteq 1 .. Len(h) + 0
          /\ \A i \in 1 .. Len(h) + 0 :
               i \in DOMAIN talk <=>
                 (i > Len(h) => (<< >>)[i - Len(h)].type = "chat_message")
          /\ \A i \in DOMAIN talk :
               talk[i] = IF i <= Len(h) THEN h[i] ELSE (<< >>)[i - Len(h)].msg
      BY <1>1, <2>1, TalkPlaces
    <2>3. Len(h) + 0 = Len(h) /\ \A i \in 1 .. Len(h) : i <= Len(h) /\ ~(i > Len(h))
      BY <1>1
    <2> HIDE DEF talk
    <2>4. DOMAIN talk = 1 .. Len(h)
      BY <2>2, <2>3
    <2> QED  BY <2>2, <2>3, <2>4
  <1> HIDE DEF talk
  <1>3. NothingTwice(talk)
    <2>1. \A i, j \in 1 .. Len(h) :
             posted - Len(h) + i = posted - Len(h) + j => i = j
      BY <1>1
    <2> QED  BY <1>1, <1>2, <2>1, ZenonT(30) DEF NothingTwice
  <1>4. IdsOf(talk) = lo .. posted
    <2>1. \A i \in 1 .. Len(h) : talk[i].id \in lo .. posted
      BY <1>1, <1>2
    <2>2. ASSUME NEW k \in lo .. posted
          PROVE  \E i \in 1 .. Len(h) : talk[i].id = k
      <3> DEFINE i == k - (posted - Len(h))
      <3>1. i \in 1 .. Len(h) /\ posted - Len(h) + i = k
        BY <1>1
      <3> QED  BY <1>1, <1>2, <3>1
    <2> HIDE DEF lo
    <2> QED  BY <1>2, <2>1, <2>2 DEF IdsOf
  <1>5. /\ lo \in 1 .. posted + 1
        /\ \/ lo = 1
           \/ posted - lo + 1 >= ResyncLimit
           \/ posted - lo + 1 >= MaxMessages
    <2>1. /\ posted - lo + 1 = Len(h) /\ lo \in 1 .. posted + 1
          /\ Len(h) = posted => lo = 1
      BY <1>1
    <2> HIDE DEF lo
    <2> QED  BY <1>1, <2>1
  <1> HIDE DEF lo
  <1> QED  BY <1>3, <1>4, <1>5 DEF Whole, talk, h

\* Who has a message to come.
LEMMA UnderwaySent ==
    ASSUME TypeOK, PostsOK, NEW t \in Threads, NEW p \in Sessions, PostSend(t, p)
    PROVE  /\ Underway(p)' = Underway(p) \ {post[t].msg.id}
           /\ post[t].msg.id \in Underway(p)
           /\ \A s \in Sessions \ {p} : Underway(s)' = Underway(s)
  <1> DEFINE rest == post[t].todo \ {p}
             call == IF rest = {} THEN PostIdle ELSE [msg |-> post[t].msg, todo |-> rest]
  <1>1. post' = [post EXCEPT ![t] = call] /\ p \in post[t].todo
    BY DEF PostSend
  <1>2. call.todo = rest /\ (rest # {} => call.msg = post[t].msg)
    BY DEF PostIdle
  <1> HIDE DEF call
  <1>3. /\ post'[t].todo = rest /\ (rest # {} => post'[t].msg = post[t].msg)
        /\ \A u \in Threads \ {t} : post'[u] = post[u]
    BY <1>1, <1>2 DEF TypeOK
  <1>4. \A s \in Sessions, u \in Threads :
          /\ s \in post'[u].todo <=> s \in post[u].todo /\ ~(s = p /\ u = t)
          /\ s \in post'[u].todo => post'[u].msg = post[u].msg
    BY <1>3
  <1>5. \A u \in Threads : p \in post[u].todo => u \in InFlight
    BY DEF InFlight, PostIdle
  <1>6. \A u \in Threads : p \in post[u].todo /\ u # t => post[u].msg.id # post[t].msg.id
    BY <1>1, <1>5 DEF PostsOK
  <1>7. Underway(p)' = Underway(p) \ {post[t].msg.id}
    BY <1>4, <1>6 DEF Underway
  <1>8. post[t].msg.id \in Underway(p)
    BY <1>1 DEF Underway
  <1>9. ASSUME NEW s \in Sessions \ {p}
        PROVE  Underway(s)' = Underway(s)
    BY <1>4 DEF Underway
  <1> QED  BY <1>7, <1>8, <1>9

LEMMA UnderwayPosted ==
    ASSUME TypeOK, NEW t \in Threads, NEW x \in Sessions, PostAppend(t, x),
           NEW s \in Sessions
    PROVE  Underway(s)' = IF s \in participants THEN Underway(s) \cup {posted'}
                                                ELSE Underway(s)
  <1> DEFINE msg == [id |-> posted + 1, from |-> x]
             call == [msg |-> msg, todo |-> participants]
  <1>1. /\ post' = [post EXCEPT ![t] = call]
        /\ post[t].todo = {} /\ posted' = posted + 1
    BY DEF PostAppend, PostIdle
  <1>2. call.msg.id = posted' /\ call.todo = participants
    BY <1>1
  <1> HIDE DEF call
  <1>3. /\ post'[t].msg.id = posted' /\ post'[t].todo = participants
        /\ \A u \in Threads \ {t} : post'[u] = post[u]
    BY <1>1, <1>2 DEF TypeOK
  <1>4. \A u \in Threads : s \in post[u].todo => u # t
    BY <1>1
  <1> QED  BY <1>3, <1>4 DEF Underway

\* The list a talk begins with is one of those of the session.
LEMMA SourceType ==
    ASSUME TypeOK, ViewsOK, NEW s \in Sessions
    PROVE  Source(s) \in Seq(Message)
  <1>1. Source(s) \in Lists(s)
    BY BaseIsListed DEF Source, Lists
  <1> QED  BY <1>1, ListsType

LEMMA WholeStep ==
    TypeOK /\ ViewsOK /\ AuditOK /\ Seated /\ ChatIsLatest /\ PostsOK /\ StreamsOK
        /\ QuietOK /\ WholeOK /\ [ViewNext]_viewVars => WholeOK'
  <1> SUFFICES ASSUME TypeOK, ViewsOK, AuditOK, Seated, ChatIsLatest, PostsOK,
                      StreamsOK, QuietOK, WholeOK, [ViewNext]_viewVars,
                      NEW s \in Sessions, live'[s] = "subscribed",
                      ~(Len(queue'[s]) > BufferSize), quiet'[s],
                      NEW src, src = Source(s)',
                      NEW talk, talk = Talk(src, queue'[s]),
                      NEW more, more = Underway(s)'
               PROVE  Whole(talk, more)'
    BY DEF WholeOK, Overrun
  <1> USE ServerAssumption
  <1> DEFINE Goal == Whole(talk, more)'
             ChatOf == IF sse[s].pc = "announce" THEN sse[s].chat
                       ELSE IF resync[s] = None THEN view[s].chat ELSE resync[s].chat
  <1>1. /\ Source(s) = ChatOf /\ src = ChatOf'
        /\ Source(s) \in Seq(Message) /\ queue[s] \in Seq(Event)
    <2>1. ViewsOK'
      BY ViewsStep
    <2>2. \A v \in View : \A r : OnResync(v, r).chat = r.chat
      BY DEF OnResync, View
    <2>3. Source(s) = ChatOf
      BY <2>2 DEF Source, Base, ViewsOK
    <2>4. src = ChatOf'
      BY <2>1, <2>2 DEF Source, Base, ViewsOK
    <2> QED  BY <2>3, <2>4, SourceType DEF TypeOK
  <1>2. posted' = posted /\ post' = post =>
           /\ more = Underway(s)
           /\ Whole(talk, more) => Goal
    BY DEF Underway, Whole
  <1>3. ASSUME live[s] = "subscribed", quiet[s], src = Source(s),
               queue'[s] = queue[s], UNCHANGED <<post, posted>>
        PROVE  Goal
    <2>1. Whole(Talk(Source(s), queue[s]), Underway(s))
      BY <1>3 DEF WholeOK, Overrun
    <2> QED  BY <1>2, <1>3, <2>1
  <1>4. ASSUME live[s] = "subscribed", quiet[s], src = Source(s),
               NEW e \in Event, e.type # "chat_message",
               queue'[s] = Append(queue[s], e), UNCHANGED <<post, posted>>
        PROVE  Goal
    <2>1. ~(Len(queue[s]) > BufferSize)
      <3>1. Len(queue[s]) \in Nat /\ Len(queue'[s]) = Len(queue[s]) + 1
        BY <1>1, <1>4, LenProperties, AppendProperties
      <3> QED  BY <3>1
    <2>2. Whole(Talk(Source(s), queue[s]), Underway(s))
      BY <1>4, <2>1 DEF WholeOK, Overrun
    <2>3. talk = Talk(Source(s), queue[s])
      BY <1>1, <1>4, TalkIgnores
    <2> QED  BY <1>2, <1>4, <2>2, <2>3
  <1> HIDE DEF Goal
  <1>5. ASSUME NEW x \in Sessions,
               NEW claim \in Passwords \cup {None},
               NEW supplied \in Passwords \cup {None},
               NEW name \in Names \cup {None},
               Join(x, claim, supplied, name), UNCHANGED <<view, auditVars>>
        PROVE  Goal
    <2>1. live[s] = "subscribed"
      BY <1>5 DEF Join, TypeOK
    <2>2. UNCHANGED <<sse, resync, queue, post, posted, view, quiet>>
      BY <1>5 DEF Join, chatVars, auditVars
    <2> QED  BY <1>1, <1>3, <2>1, <2>2
  <1>6. ASSUME NEW x \in Sessions, OpenStream(x)
        PROVE  Goal
    <2>1. UNCHANGED <<live, resync, queue, post, posted, view>> /\ x # s
      BY <1>6 DEF OpenStream, SseSnapshot, streamVars, chatVars
    <2>2. sse'[s] = sse[s] /\ quiet[s]
      BY <1>6, <2>1 DEF OpenStream, SseSnapshot, TypeOK, AuditOK
    <2> QED  BY <1>1, <1>3, <2>1, <2>2
  <1>7. ASSUME NEW x \in Sessions, SseSubscribe(x), UNCHANGED <<view, auditVars>>
        PROVE  Goal
    <2>1. UNCHANGED <<resync, queue, chat, post, posted, view, quiet>>
      BY <1>7 DEF SseSubscribe, chatVars, auditVars
    <2>2. CASE x = s
      <3>1. sse[s].pc = "snapshot" /\ sse'[s].pc = "announce" /\ sse'[s].chat = sse[s].chat
        BY <1>7, <2>2 DEF SseSubscribe, TypeOK, SseCall
      <3>2. InFlight = {} /\ src = ChatHistory(chat, ResyncLimit)
        BY <1>1, <2>1, <3>1 DEF QuietOK
      <3>3. queue'[s] = << >>
        BY <2>1, <3>1 DEF StreamsOK
      <3>4. Underway(s) = {}
        BY <3>2 DEF Underway, InFlight, PostIdle
      <3>5. Whole(talk, {})
        BY <3>2, <3>3, HistoryIsWhole
      <3> QED  BY <1>2, <2>1, <3>4, <3>5
    <2>3. CASE x # s
      <3>1. sse'[s] = sse[s] /\ live[s] = "subscribed"
        BY <1>7, <2>3 DEF SseSubscribe, TypeOK
      <3> QED  BY <1>1, <1>3, <2>1, <3>1
    <2> QED  BY <2>2, <2>3
  <1>8. ASSUME NEW x \in Sessions, NEW p \in Sessions, SseAnnounce(x, p),
               UNCHANGED <<view, auditVars>>
        PROVE  Goal
    <2>1. sse'[s].chat = sse[s].chat /\ sse'[s].pc = sse[s].pc
      BY <1>8 DEF SseAnnounce, TypeOK, SseCall
    <2>2. UNCHANGED <<live, resync, post, posted, view, quiet>>
      BY <1>8 DEF SseAnnounce, chatVars, auditVars
    <2>3. src = Source(s)
      BY <1>1, <2>1, <2>2
    <2>4. PeerJoined(x) \in Event /\ PeerJoined(x).type # "chat_message"
      BY DEF PeerJoined, Event, TypeOK
    <2>5. queue'[s] = queue[s] \/ queue'[s] = Append(queue[s], PeerJoined(x))
      BY <1>8, <2>4, SendToAppends DEF SseAnnounce
    <2> QED  BY <1>3, <1>4, <2>2, <2>3, <2>4, <2>5
  <1>9. ASSUME NEW x \in Sessions, SseReturn(x), UNCHANGED <<view, auditVars>>
        PROVE  Goal
    <2>1. UNCHANGED <<live, queue, post, posted, view, quiet>>
      BY <1>9 DEF SseReturn, chatVars, auditVars
    <2>2. CASE x = s
      <3>1. /\ sse[s].pc = "announce" /\ sse'[s].pc = "idle"
            /\ resync'[s].chat = sse[s].chat /\ resync'[s] \in Resync
        BY <1>9, <2>2 DEF SseReturn, SseIdle, TypeOK, SseCall, Resync
      <3> QED  BY <1>1, <1>3, <2>1, <3>1, NoneAssumption
    <2>3. CASE x # s
      <3>1. sse'[s] = sse[s] /\ resync'[s] = resync[s]
        BY <1>9, <2>3 DEF SseReturn, TypeOK
      <3> QED  BY <1>1, <1>3, <2>1, <3>1
    <2> QED  BY <2>2, <2>3
  <1>10. ASSUME NEW x \in Sessions, ShowResync(x)
         PROVE  Goal
    <2>1. /\ sse[x] = SseIdle /\ resync[x] # None
          /\ resync' = [resync EXCEPT ![x] = None]
          /\ view' = [view EXCEPT ![x] = OnResync(view[x], resync[x])]
          /\ UNCHANGED <<sse, live, queue, post, posted, quiet>>
      BY <1>10 DEF ShowResync, DeliverResync, Streaming, chatVars, auditVars
    <2>2. CASE x = s
      <3>1. view'[s].chat = resync[s].chat
        BY <2>1, <2>2 DEF ViewsOK, View, OnResync
      <3>2. sse[s].pc = "idle" /\ resync'[s] = None
        BY <2>1, <2>2 DEF SseIdle, TypeOK
      <3> QED  BY <1>1, <1>3, <2>1, <2>2, <3>1, <3>2
    <2>3. CASE x # s
      <3>1. view'[s] = view[s] /\ resync'[s] = resync[s]
        BY <2>1, <2>3 DEF TypeOK, ViewsOK
      <3> QED  BY <1>1, <1>3, <2>1, <3>1
    <2> QED  BY <2>2, <2>3
  <1>11. ASSUME NEW x \in Sessions, ShowEvent(x)
         PROVE  Goal
    <2>1. /\ sse[x] = SseIdle /\ resync[x] = None /\ ~Overrun(x)
          /\ queue[x] # << >> /\ queue' = [queue EXCEPT ![x] = Tail(@)]
          /\ view' = [view EXCEPT ![x] = OnEvent(x, view[x], Head(queue[x]))]
          /\ UNCHANGED <<sse, live, resync, post, posted, quiet>>
      BY <1>11 DEF ShowEvent, DeliverEvent, Streaming, chatVars, auditVars
    <2>2. CASE x # s
      <3>1. view'[s] = view[s] /\ queue'[s] = queue[s]
        BY <2>1, <2>2 DEF TypeOK, ViewsOK
      <3> QED  BY <1>1, <1>3, <2>1, <3>1
    <2>3. CASE x = s
      <3> DEFINE b == view[s].chat
                 e == Head(queue[s])
      <3>1. Source(s) = b /\ src = view'[s].chat
        BY <1>1, <2>1, <2>3 DEF SseIdle
      <3>2. /\ queue'[s] = Tail(queue[s]) /\ queue[s] # << >>
            /\ view'[s] = OnEvent(s, view[s], e)
        BY <2>1, <2>3 DEF TypeOK, ViewsOK
      <3>3. Whole(Talk(b, queue[s]), Underway(s))
        BY <2>1, <2>3, <3>1 DEF WholeOK
      <3>4. b \in Seq(Message)
        BY <1>1, <3>1
      <3>5. CASE e.type = "chat_message"
        <4>1. OnEvent(s, view[s], e) = OnChat(s, view[s], e.msg)
          BY <3>5 DEF OnEvent
        <4>2. OnChat(s, view[s], e.msg).chat = Append(b, e.msg)
          BY DEF OnChat, ViewsOK, View
        <4>3. Talk(Append(b, e.msg), Tail(queue[s])) = Talk(b, queue[s])
          BY <1>1, <3>2, <3>4, <3>5, TalkShown
        <4>4. talk = Talk(b, queue[s])
          BY <3>1, <3>2, <4>1, <4>2, <4>3
        <4> QED  BY <1>2, <2>1, <3>3, <4>4
      <3>6. CASE e.type # "chat_message"
        <4>1. OnEvent(s, view[s], e).chat = b
          <5>1. CASE e.type = "peer_joined"
            BY <5>1 DEF OnEvent, OnPeerJoined, ViewsOK, View
          <5>2. CASE e.type # "peer_joined"
            BY <3>6, <5>2 DEF OnEvent
          <5> QED  BY <5>1, <5>2
        <4>2. /\ PartOf(Talk(b, Tail(queue[s])), Talk(b, queue[s]))
              /\ IdsOf(Talk(b, Tail(queue[s]))) = IdsOf(Talk(b, queue[s]))
          BY <1>1, <3>2, <3>4, <3>6, TalkMovesUp
        <4>3. talk = Talk(b, Tail(queue[s]))
          BY <3>1, <3>2, <4>1
        <4>4. NothingTwice(talk)
          BY <3>3, <4>2, <4>3, OncePart DEF Whole
        <4>5. Whole(talk, Underway(s))
          BY <3>3, <4>2, <4>3, <4>4 DEF Whole
        <4> QED  BY <1>2, <2>1, <4>5
      <3> QED  BY <3>5, <3>6
    <2> QED  BY <2>2, <2>3
  <1>12. ASSUME NEW x \in Sessions, ToggleChat(x)
         PROVE  Goal
    <2>1. view'[s].chat = view[s].chat
      BY <1>12 DEF ToggleChat, OnToggle, ViewsOK, View
    <2>2. UNCHANGED <<sse, live, resync, queue, post, posted, quiet>>
      BY <1>12 DEF ToggleChat, vars, streamVars, chatVars, auditVars
    <2> QED  BY <1>1, <1>3, <2>1, <2>2
  <1>13. ASSUME NEW x \in Sessions, CloseStream(x), UNCHANGED <<view, auditVars>>
         PROVE  Goal
    <2>1. x # s
      BY <1>13 DEF CloseStream, TypeOK
    <2>2. /\ live'[s] = live[s] /\ resync'[s] = resync[s] /\ queue'[s] = queue[s]
          /\ UNCHANGED <<sse, view, quiet, post, posted>>
      BY <1>13, <2>1 DEF CloseStream, TypeOK, auditVars, chatVars
    <2> QED  BY <1>1, <1>3, <2>2
  <1>14. ASSUME NEW x \in Sessions, NEW to \in Sessions, NEW kind \in SignalKinds,
                NEW body \in Bodies, Signal(x, to, kind, body),
                UNCHANGED <<view, auditVars>>
         PROVE  Goal
    <2> DEFINE e == SignalEvent(x, to, kind, body)
    <2>1. UNCHANGED <<sse, live, resync, post, posted, view, quiet>>
      BY <1>14 DEF Signal, chatVars, auditVars
    <2>2. e \in Event /\ e.type # "chat_message"
      BY DEF SignalEvent, Event
    <2>3. queue'[s] = queue[s] \/ queue'[s] = Append(queue[s], e)
      <3>1. CASE to \in participants
        BY <1>14, <2>2, <3>1, SendToAppends DEF Signal
      <3>2. CASE to \notin participants
        BY <1>14, <3>2 DEF Signal
      <3> QED  BY <3>1, <3>2
    <2>4. src = Source(s)
      BY <1>1, <2>1
    <2> HIDE DEF e
    <2> QED  BY <1>3, <1>4, <2>1, <2>2, <2>3, <2>4
  <1>15. ASSUME NEW x \in Sessions, NEW t \in Threads, PostMessage(t, x)
         PROVE  Goal
    <2>1. /\ UNCHANGED <<sse, live, resync, queue, view>>
          /\ posted' = posted + 1 /\ posted \in Nat /\ quiet[s]
      BY <1>15 DEF PostMessage, PostAppend, streamVars, TypeOK
    <2>2. s \in participants
      BY <2>1 DEF Seated
    <2>3. more = Underway(s) \cup {posted'}
      BY <1>15, <2>2, UnderwayPosted DEF PostMessage
    <2>4. Whole(talk, Underway(s))
      <3>1. Whole(Talk(Source(s), queue[s]), Underway(s))
        BY <2>1 DEF WholeOK, Overrun
      <3> QED  BY <1>1, <2>1, <3>1
    <2> QED  BY <2>1, <2>3, <2>4, WholePosted DEF Goal
  <1>16. ASSUME NEW t \in Threads, NEW p \in Sessions, PostSend(t, p),
                UNCHANGED <<view, auditVars>>
         PROVE  Goal
    <2> DEFINE m == post[t].msg
               e == ChatEvent(m)
               under == Underway(s)
    <2>1. /\ UNCHANGED <<sse, live, resync, posted, view, quiet>>
          /\ SendTo(p, e)
      BY <1>16 DEF PostSend, auditVars
    <2>2. e \in Event /\ e.type = "chat_message" /\ e.msg = m
      <3>1. m \in Message
        BY <1>16, PostType DEF PostSend
      <3> QED  BY <3>1 DEF ChatEvent, Event
    <2>3. src = Source(s)
      BY <1>1, <2>1
    <2>4. CASE p # s
      <3>1. queue'[s] = queue[s]
        BY <2>1, <2>4 DEF SendTo, TypeOK
      <3>2. more = under
        BY <1>16, <2>4, UnderwaySent
      <3>3. Whole(talk, under)
        BY <2>1, <2>3, <3>1 DEF WholeOK, Overrun
      <3> QED  BY <2>1, <3>2, <3>3 DEF Goal, Whole
    <2>5. CASE p = s
      <3>1. queue'[s] = Append(queue[s], e) /\ ~Overrun(s)
        BY <2>1, <2>5 DEF SendTo, TypeOK, Overrun
      <3>2. more = under \ {m.id} /\ m.id \in under
        BY <1>16, <2>5, UnderwaySent
      <3> DEFINE b == Source(s)
                 q == queue[s]
                 top == Len(b) + Len(q) + 1
                 old == Talk(b, q)
                 new == Talk(b, Append(q, e))
      <3>3. Whole(old, under)
        BY <2>1, <3>1 DEF WholeOK
      <3>4. /\ b \in Seq(Message) /\ q \in Seq(Event)
            /\ Len(b) \in Nat /\ Len(q) \in Nat
        BY <1>1, LenProperties
      <3>5. talk = new
        BY <2>3, <3>1
      <3> HIDE DEF b, q, e, m, under
      <3>6. /\ DOMAIN new = DOMAIN old \cup {top}
            /\ \A i \in DOMAIN old : i < top /\ new[i] = old[i]
            /\ new[top] = e.msg
        BY <2>2, <3>4, TalkGains
      <3>7. DOMAIN old \subseteq Int /\ top \in Int
        BY <3>4, TalkPlaces
      <3> HIDE DEF old, new, top
      <3>8. \A i \in DOMAIN old : i # top /\ new[i] = old[i]
        BY <3>6, <3>7
      <3>9. DOMAIN new = DOMAIN old \cup {top} /\ new[top] = m
        BY <2>2, <3>6
      <3>10. Whole(new, under \ {m.id})
        BY <3>2, <3>3, <3>8, <3>9, WholeSent
      <3> QED  BY <2>1, <3>2, <3>5, <3>10 DEF Goal, Whole
    <2> QED  BY <2>4, <2>5
  <1>17. CASE SilentStep
    <2>1. UNCHANGED <<view, auditVars>>
      BY <1>17 DEF SilentStep
    <2>2. ASSUME NEW x \in Sessions, Handler(x)
          PROVE  Goal
      BY <1>7, <1>8, <1>9, <2>1, <2>2 DEF Handler
    <2>3. ASSUME NEW x \in Sessions,
                 StreamLagged(x) \/ StreamEnded(x) \/ Disconnect(x)
          PROVE  Goal
      BY <1>13, <2>1, <2>3 DEF StreamLagged, StreamEnded, Disconnect
    <2> QED  BY <1>5, <1>14, <1>16, <1>17, <2>1, <2>2, <2>3 DEF SilentStep, Goal
  <1>18. CASE UNCHANGED viewVars
    <2>1. UNCHANGED <<sse, live, resync, queue, post, posted, view, quiet>>
      BY <1>18 DEF viewVars, vars, streamVars, chatVars, auditVars
    <2> QED  BY <1>1, <1>3, <2>1 DEF Goal
  <1> QED  BY <1>6, <1>10, <1>11, <1>12, <1>15, <1>17, <1>18 DEF ViewNext, Goal

LEMMA WholeHolds == ViewSpec => [](QuietOK /\ WholeOK)
  <1>1. ViewInit => QuietOK /\ WholeOK
    BY DEF ViewInit, Init, QuietOK, WholeOK, SseIdle
  <1>2. ViewSpec => []QuietOK
    BY <1>1, ChatHolds, QuietStep, PTL DEF ViewSpec
  <1> QED  BY <1>1, <1>2, ChatHolds, WholeStep, PTL DEF ViewSpec

\* A participant whose stream opened between two posts has every message once,
\* from the oldest its page shows to the newest there is, on the page or being
\* broadcast (handle_sse, server/mod.rs:151-158).
THEOREM ChatHasNoGap == ViewSpec => []ChatGapFree
  <1>1. TypeOK /\ WholeOK => ChatGapFree
    <2> SUFFICES ASSUME TypeOK, WholeOK, NEW s \in Sessions, Connected(s), quiet[s],
                        NEW talk, talk = ShownChat(s),
                        NEW under, under = Underway(s)
                 PROVE  /\ NothingTwice(talk)
                        /\ IdsOf(talk) \cap under = {}
                        /\ \A i \in IdsOf(talk) :
                             i .. posted \subseteq IdsOf(talk) \cup under
                        /\ \/ Cardinality(IdsOf(talk) \cup under) >= ResyncLimit
                           \/ IdsOf(talk) \cup under = 1 .. posted
                           \/ Cardinality(IdsOf(talk) \cup under) >= MaxMessages
      BY DEF ChatGapFree, ShownIds
    <2>1. talk = Talk(Source(s), queue[s])
      BY DEF Connected, Streaming, SseIdle, ShownChat, Source
    <2>2. Whole(talk, under)
      BY <2>1 DEF WholeOK, Connected
    <2>3. PICK lo \in 1 .. posted + 1 :
             /\ IdsOf(talk) \cup under = lo .. posted
             /\ \/ lo = 1
                \/ posted - lo + 1 >= ResyncLimit
                \/ posted - lo + 1 >= MaxMessages
      BY <2>2 DEF Whole
    <2>4. posted \in Nat /\ lo \in Int /\ lo <= posted + 1
      BY DEF TypeOK
    <2>5. Cardinality(lo .. posted) = posted - lo + 1
      <3>1. Cardinality(lo .. posted) = IF lo > posted THEN 0 ELSE posted - lo + 1
        BY <2>4, FS_Interval
      <3> QED  BY <2>4, <3>1
    <2>6. \A i \in IdsOf(talk) : i .. posted \subseteq lo .. posted
      <3>1. \A i \in lo .. posted : i .. posted \subseteq lo .. posted
        BY <2>4
      <3> QED  BY <2>3, <3>1
    <2> QED  BY <2>2, <2>3, <2>5, <2>6 DEF Whole
  <1> QED  BY <1>1, ChatHolds, WholeHolds, PTL

-----------------------------------------------------------------------------
(* The unread badge. *)

\* What counts as unread of a queue grows by one with a message from others, ...
LEMMA FromOthersSent ==
    ASSUME NEW s \in Sessions, NEW q \in Seq(Event), NEW e \in Event
    PROVE  /\ IsFiniteSet(FromOthers(s, q))
           /\ Cardinality(FromOthers(s, q)) \in Nat
           /\ Cardinality(FromOthers(s, Append(q, e))) =
                 IF e.type = "chat_message" /\ e.msg.from # s
                 THEN Cardinality(FromOthers(s, q)) + 1
                 ELSE Cardinality(FromOthers(s, q))
  <1> DEFINE new == FromOthers(s, Append(q, e))
             old == FromOthers(s, q)
             top == Len(q) + 1
             counts == e.type = "chat_message" /\ e.msg.from # s
  <1>1. /\ Len(q) \in Nat
        /\ Len(Append(q, e)) = Len(q) + 1
        /\ \A i \in 1 .. Len(q) : Append(q, e)[i] = q[i]
        /\ Append(q, e)[top] = e
    BY LenProperties, AppendProperties
  <1>2. 1 .. Len(q) + 1 = (1 .. Len(q)) \cup {top} /\ top \notin 1 .. Len(q)
    BY <1>1
  <1> HIDE DEF top
  <1>3. new = IF counts THEN old \cup {top} ELSE old
    BY <1>1, <1>2 DEF FromOthers, FromOther
  <1>4. old \in SUBSET (1 .. Len(q)) /\ top \notin old
    BY <1>2 DEF FromOthers
  <1>5. IsFiniteSet(old) /\ Cardinality(old) \in Nat
    <2>1. IsFiniteSet(1 .. Len(q))
      BY <1>1, FS_Interval
    <2>2. IsFiniteSet(old)
      BY <1>4, <2>1, FS_Subset
    <2> QED  BY <2>2, FS_CardinalityType
  <1> HIDE DEF new, old
  <1>6. Cardinality(old \cup {top}) = Cardinality(old) + 1
    BY <1>4, <1>5, FS_AddElement
  <1> QED  BY <1>3, <1>5, <1>6 DEF new, old

\* ... and falls by one when it is taken off the queue.
LEMMA FromOthersRead ==
    ASSUME NEW s \in Sessions, NEW q \in Seq(Event), q # << >>
    PROVE  /\ Cardinality(FromOthers(s, q)) \in Nat
           /\ Cardinality(FromOthers(s, Tail(q))) =
                 IF Head(q).type = "chat_message" /\ Head(q).msg.from # s
                 THEN Cardinality(FromOthers(s, q)) - 1
                 ELSE Cardinality(FromOthers(s, q))
  <1> DEFINE r == Tail(q)
             new == FromOthers(s, r)
             old == FromOthers(s, q)
             rest == old \ {1}
             g == [i \in rest |-> i - 1]
  <1>1. /\ Len(q) \in Nat /\ Len(q) > 0
        /\ Head(q) = q[1]
        /\ Len(r) = Len(q) - 1
        /\ \A i \in 1 .. Len(r) : r[i] = q[i + 1]
    BY LenProperties, HeadTailProperties, EmptySeq
  <1> HIDE DEF r
  <1>2. 1 \in old <=> Head(q).type = "chat_message" /\ Head(q).msg.from # s
    BY <1>1 DEF FromOthers, FromOther
  <1>3. \A i \in 1 .. Len(r) : i \in new <=> i + 1 \in rest
    BY <1>1 DEF FromOthers, FromOther
  <1>4. old \subseteq 1 .. Len(q) /\ new \subseteq 1 .. Len(r)
    BY DEF FromOthers
  <1> HIDE DEF new, old
  <1>5. rest \subseteq 2 .. Len(q)
    BY <1>1, <1>4
  <1>6. \A i \in rest : i - 1 \in 1 .. Len(r) /\ (i - 1) + 1 = i
    BY <1>1, <1>5
  <1>7. \A i \in rest : g[i] \in new
    BY <1>3, <1>6
  <1>8. \A k \in new : k + 1 \in rest /\ g[k + 1] = k
    <2>1. \A k \in new : k \in 1 .. Len(r) /\ (k + 1) - 1 = k
      BY <1>1, <1>4
    <2> QED  BY <1>3, <2>1
  <1>9. \A i, j \in rest : g[i] = g[j] => i = j
    BY <1>5
  <1> HIDE DEF rest
  <1>10. ExistsBijection(rest, new)
    <2>1. g \in [rest -> new]
      BY <1>7
    <2> HIDE DEF g
    <2>2. g \in Bijection(rest, new)
      BY <1>8, <1>9, <2>1 DEF Bijection, Injection, Surjection, IsInjective
    <2> QED  BY <2>2 DEF ExistsBijection
  <1>11. IsFiniteSet(old) /\ Cardinality(old) \in Nat
    <2>1. IsFiniteSet(1 .. Len(q))
      BY <1>1, FS_Interval
    <2>2. IsFiniteSet(old)
      BY <1>4, <2>1, FS_Subset
    <2> QED  BY <2>2, FS_CardinalityType
  <1>12. /\ IsFiniteSet(rest)
         /\ Cardinality(rest) = IF 1 \in old THEN Cardinality(old) - 1
                                             ELSE Cardinality(old)
    BY <1>11, FS_RemoveElement DEF rest
  <1>13. Cardinality(new) = Cardinality(rest)
    BY <1>10, <1>12, FS_Bijection
  <1> QED  BY <1>2, <1>11, <1>12, <1>13 DEF new, old, r

\* Who has messages of others to come.
LEMMA OthersUnderwayType ==
    ASSUME TypeOK, PostsOK, NEW s \in Sessions
    PROVE  /\ IsFiniteSet(OthersUnderway(s))
           /\ Cardinality(OthersUnderway(s)) \in Nat
  <1>1. OthersUnderway(s) \in SUBSET (1 .. posted)
    <2>1. \A u \in Threads : s \in post[u].todo => u \in InFlight
      BY DEF InFlight, PostIdle
    <2> QED  BY <2>1 DEF OthersUnderway, PostsOK, Genuine
  <1>2. IsFiniteSet(1 .. posted)
    BY FS_Interval DEF TypeOK
  <1>3. IsFiniteSet(OthersUnderway(s))
    BY <1>1, <1>2, FS_Subset
  <1> QED  BY <1>3, FS_CardinalityType

LEMMA OthersPosted ==
    ASSUME TypeOK, PostsOK, NEW t \in Threads, NEW x \in Sessions, PostAppend(t, x),
           NEW s \in Sessions, NEW more, more = OthersUnderway(s)'
    PROVE  Cardinality(more) \in Nat
           /\ Cardinality(more) <= IF x = s THEN Cardinality(OthersUnderway(s))
                                   ELSE Cardinality(OthersUnderway(s)) + 1
  <1> DEFINE msg == [id |-> posted + 1, from |-> x]
             call == [msg |-> msg, todo |-> participants]
             all == IF x = s THEN OthersUnderway(s)
                             ELSE OthersUnderway(s) \cup {posted + 1}
  <1>1. post' = [post EXCEPT ![t] = call]
    BY DEF PostAppend
  <1>2. call.msg.id = posted + 1 /\ call.msg.from = x
    OBVIOUS
  <1> HIDE DEF call
  <1>3. /\ post'[t].msg.id = posted + 1 /\ post'[t].msg.from = x
        /\ \A u \in Threads \ {t} : post'[u] = post[u]
    BY <1>1, <1>2 DEF TypeOK
  <1>4. more \in SUBSET all
    BY <1>3 DEF OthersUnderway
  <1>5. /\ IsFiniteSet(all)
        /\ Cardinality(all) <= IF x = s THEN Cardinality(OthersUnderway(s))
                               ELSE Cardinality(OthersUnderway(s)) + 1
    <2>1. /\ IsFiniteSet(OthersUnderway(s))
          /\ Cardinality(OthersUnderway(s)) \in Nat
      BY OthersUnderwayType
    <2>2. CASE x = s
      BY <2>1, <2>2
    <2>3. CASE x # s
      <3>1. /\ IsFiniteSet(all)
            /\ Cardinality(all) = IF posted + 1 \in OthersUnderway(s)
                                  THEN Cardinality(OthersUnderway(s))
                                  ELSE Cardinality(OthersUnderway(s)) + 1
        BY <2>1, <2>3, FS_AddElement
      <3> QED  BY <2>1, <2>3, <3>1
    <2> QED  BY <2>2, <2>3
  <1> HIDE DEF all
  <1>6. IsFiniteSet(more) /\ Cardinality(more) <= Cardinality(all)
    BY <1>4, <1>5, FS_Subset
  <1>7. /\ Cardinality(more) \in Nat /\ Cardinality(all) \in Nat
        /\ Cardinality(OthersUnderway(s)) \in Nat
    BY <1>5, <1>6, FS_CardinalityType, OthersUnderwayType
  <1> QED  BY <1>5, <1>6, <1>7

LEMMA OthersSent ==
    ASSUME TypeOK, PostsOK, NEW t \in Threads, NEW p \in Sessions, PostSend(t, p),
           NEW s \in Sessions, NEW less, less = OthersUnderway(s)'
    PROVE  Cardinality(less) =
              IF s = p /\ post[t].msg.from # s
              THEN Cardinality(OthersUnderway(s)) - 1
              ELSE Cardinality(OthersUnderway(s))
  <1> DEFINE rest == post[t].todo \ {p}
             call == IF rest = {} THEN PostIdle ELSE [msg |-> post[t].msg, todo |-> rest]
             id == post[t].msg.id
  <1>1. post' = [post EXCEPT ![t] = call] /\ p \in post[t].todo
    BY DEF PostSend
  <1>2. call.todo = rest /\ (rest # {} => call.msg = post[t].msg)
    BY DEF PostIdle
  <1> HIDE DEF call
  <1>3. /\ post'[t].todo = rest /\ (rest # {} => post'[t].msg = post[t].msg)
        /\ \A u \in Threads \ {t} : post'[u] = post[u]
    BY <1>1, <1>2 DEF TypeOK
  <1>4. \A u \in Threads :
          /\ s \in post'[u].todo <=> s \in post[u].todo /\ ~(s = p /\ u = t)
          /\ s \in post'[u].todo => post'[u].msg = post[u].msg
    BY <1>3
  <1>5. \A u \in Threads : p \in post[u].todo /\ u # t => post[u].msg.id # id
    <2>1. \A u \in Threads : p \in post[u].todo => u \in InFlight
      BY DEF InFlight, PostIdle
    <2> QED  BY <1>1, <2>1 DEF PostsOK
  <1>6. CASE s = p /\ post[t].msg.from # s
    <2>1. less = OthersUnderway(s) \ {id} /\ id \in OthersUnderway(s)
      BY <1>1, <1>4, <1>5, <1>6 DEF OthersUnderway
    <2>2. IsFiniteSet(OthersUnderway(s))
      BY OthersUnderwayType
    <2> HIDE DEF id
    <2> QED  BY <1>6, <2>1, <2>2, FS_RemoveElement
  <1>7. CASE ~(s = p /\ post[t].msg.from # s)
    <2>1. less = OthersUnderway(s)
      BY <1>4, <1>7 DEF OthersUnderway
    <2> QED  BY <1>7, <2>1
  <1> QED  BY <1>6, <1>7

LEMMA BadgeStep ==
    TypeOK /\ ViewsOK /\ AuditOK /\ PostsOK /\ BadgeOK /\ [ViewNext]_viewVars => BadgeOK'
  <1> SUFFICES ASSUME TypeOK, ViewsOK, AuditOK, PostsOK, BadgeOK,
                      [ViewNext]_viewVars,
                      NEW s \in Sessions,
                      NEW fresh, fresh = Cardinality(FromOthers(s, queue'[s])),
                      NEW after, after = Cardinality(OthersUnderway(s)')
               PROVE  /\ view'[s].open => view'[s].unread = 0
                      /\ view'[s].unread + fresh + after <= unseen'[s]
    BY DEF BadgeOK
  <1> USE ServerAssumption
  <1> DEFINE Goal == /\ view'[s].open => view'[s].unread = 0
                     /\ view'[s].unread + fresh + after <= unseen'[s]
             listed  == Cardinality(FromOthers(s, queue[s]))
             coming  == Cardinality(OthersUnderway(s))
  <1>1. /\ queue[s] \in Seq(Event) /\ view[s] \in View
        /\ unseen[s] \in Int /\ listed \in Nat /\ coming \in Nat
        /\ view[s].unread \in Nat
        /\ view[s].open => view[s].unread = 0
        /\ view[s].unread + listed + coming <= unseen[s]
    <2>1. queue[s] \in Seq(Event) /\ view[s] \in View /\ unseen[s] \in Int
          /\ view[s].unread \in Nat
      BY DEF TypeOK, ViewsOK, AuditOK, View
    <2>2. listed \in Nat
      <3>1. IsFiniteSet(1 .. Len(queue[s]))
        BY <2>1, LenProperties, FS_Interval
      <3>2. FromOthers(s, queue[s]) \in SUBSET (1 .. Len(queue[s]))
        BY DEF FromOthers
      <3> QED  BY <3>1, <3>2, FS_Subset, FS_CardinalityType
    <2> QED  BY <2>1, <2>2, OthersUnderwayType DEF BadgeOK
  <1>2. post' = post => after = coming
    BY DEF OthersUnderway
  <1> HIDE DEF listed, coming
  <1>3. ASSUME view'[s].open = view[s].open, view'[s].unread = view[s].unread,
               fresh = listed, unseen'[s] = unseen[s], post' = post
        PROVE  Goal
    BY <1>1, <1>2, <1>3
  <1>4. queue'[s] = queue[s] => fresh = listed
    BY DEF listed
  <1>5. ASSUME NEW e \in Event, e.type # "chat_message",
               queue'[s] = Append(queue[s], e)
        PROVE  fresh = listed
    BY <1>1, <1>5, FromOthersSent DEF listed
  <1> HIDE DEF Goal
  <1>6. ASSUME NEW x \in Sessions, ShowResync(x)
        PROVE  Goal
    <2>1. /\ view' = [view EXCEPT ![x] = OnResync(view[x], resync[x])]
          /\ UNCHANGED <<queue, post, unseen>>
      BY <1>6 DEF ShowResync, DeliverResync, chatVars, auditVars
    <2>2. view'[s].open = view[s].open /\ view'[s].unread = view[s].unread
      BY <2>1 DEF OnResync, ViewsOK, View
    <2> QED  BY <1>3, <1>4, <2>1, <2>2
  <1>7. ASSUME NEW x \in Sessions, ShowEvent(x)
        PROVE  Goal
    <2>1. /\ queue[x] # << >> /\ queue' = [queue EXCEPT ![x] = Tail(@)]
          /\ view' = [view EXCEPT ![x] = OnEvent(x, view[x], Head(queue[x]))]
          /\ unseen' = [unseen EXCEPT ![x] =
                           IF view[x].open /\ FromOther(x, Head(queue[x]))
                           THEN @ - 1 ELSE @]
          /\ post' = post
      BY <1>7 DEF ShowEvent, DeliverEvent, chatVars
    <2>2. CASE x # s
      <3>1. view'[s] = view[s] /\ queue'[s] = queue[s] /\ unseen'[s] = unseen[s]
        BY <2>1, <2>2 DEF TypeOK, ViewsOK, AuditOK
      <3> QED  BY <1>3, <1>4, <2>1, <3>1
    <2>3. CASE x = s
      <3> DEFINE e == Head(queue[s])
                 counts == e.type = "chat_message" /\ e.msg.from # s
      <3>1. /\ view'[s] = OnEvent(s, view[s], e)
            /\ queue[s] # << >> /\ queue'[s] = Tail(queue[s])
            /\ unseen'[s] = IF view[s].open /\ counts THEN unseen[s] - 1
                            ELSE unseen[s]
        BY <2>1, <2>3 DEF TypeOK, ViewsOK, AuditOK, FromOther
      <3>2. fresh = IF counts THEN listed - 1 ELSE listed
        BY <1>1, <3>1, FromOthersRead DEF listed
      <3>3. CASE e.type = "chat_message"
        <4>1. view'[s] = OnChat(s, view[s], e.msg)
          BY <3>1, <3>3 DEF OnEvent
        <4>2. /\ view'[s].open = view[s].open
              /\ view'[s].unread = IF e.msg.from # s /\ ~view[s].open
                                   THEN view[s].unread + 1 ELSE view[s].unread
          BY <1>1, <4>1 DEF OnChat, View
        <4>3. CASE counts /\ ~view[s].open
          BY <1>1, <1>2, <2>1, <3>1, <3>2, <4>2, <4>3 DEF Goal
        <4>4. CASE ~counts
          BY <1>3, <2>1, <3>1, <3>2, <3>3, <4>2, <4>4
        <4>5. CASE counts /\ view[s].open
          BY <1>1, <1>2, <2>1, <3>1, <3>2, <4>2, <4>5 DEF Goal
        <4> QED  BY <4>3, <4>4, <4>5
      <3>4. CASE e.type # "chat_message"
        <4>1. view'[s].open = view[s].open /\ view'[s].unread = view[s].unread
          <5>1. CASE e.type = "peer_joined"
            BY <1>1, <3>1, <5>1 DEF OnEvent, OnPeerJoined, View
          <5>2. CASE e.type # "peer_joined"
            BY <3>1, <3>4, <5>2 DEF OnEvent
          <5> QED  BY <5>1, <5>2
        <4> QED  BY <1>3, <2>1, <3>1, <3>2, <3>4, <4>1
      <3> QED  BY <3>3, <3>4
    <2> QED  BY <2>2, <2>3
  <1>8. ASSUME NEW x \in Sessions, ToggleChat(x)
        PROVE  Goal
    <2>1. UNCHANGED <<queue, post>>
      BY <1>8 DEF ToggleChat, vars, streamVars, chatVars
    <2>2. CASE x = s
      <3>1. /\ view'[s].open = ~view[s].open
            /\ view'[s].unread = IF view[s].open THEN view[s].unread ELSE 0
        BY <1>8, <2>2 DEF ToggleChat, OnToggle, ViewsOK, View
      <3>2. unseen'[s] = IF view[s].open THEN unseen[s]
                         ELSE unseen[s] - view[s].unread
        BY <1>8, <2>2 DEF ToggleChat, AuditOK
      <3>3. view'[s].unread = 0
        BY <1>1, <3>1
      <3> QED  BY <1>1, <1>2, <1>4, <2>1, <3>2, <3>3 DEF Goal
    <2>3. CASE x # s
      <3>1. view'[s] = view[s] /\ unseen'[s] = unseen[s]
        BY <1>8, <2>3 DEF ToggleChat, ViewsOK, AuditOK
      <3> QED  BY <1>3, <1>4, <2>1, <3>1
    <2> QED  BY <2>2, <2>3
  <1>9. ASSUME UNCHANGED <<view, post, unseen>>,
               \/ queue'[s] = queue[s]
               \/ \E e \in Event : /\ e.type # "chat_message"
                                   /\ queue'[s] = Append(queue[s], e)
        PROVE  Goal
    BY <1>3, <1>4, <1>5, <1>9
  <1>10. ASSUME NEW x \in Sessions, OpenStream(x)
         PROVE  Goal
    BY <1>9, <1>10 DEF OpenStream, SseSnapshot, streamVars, chatVars
  <1>11. ASSUME NEW x \in Sessions, Handler(x), UNCHANGED <<view, unseen>>
         PROVE  Goal
    <2>1. CASE SseSubscribe(x) \/ SseReturn(x)
      BY <1>9, <1>11, <2>1 DEF SseSubscribe, SseReturn, chatVars
    <2>2. ASSUME NEW p \in Sessions, SseAnnounce(x, p)
          PROVE  Goal
      <3>1. PeerJoined(x) \in Event /\ PeerJoined(x).type # "chat_message"
        BY DEF PeerJoined, Event, TypeOK
      <3>2. queue'[s] = queue[s] \/ queue'[s] = Append(queue[s], PeerJoined(x))
        BY <2>2, <3>1, SendToAppends DEF SseAnnounce
      <3> QED  BY <1>9, <1>11, <2>2, <3>1, <3>2 DEF SseAnnounce, chatVars
    <2> QED  BY <1>11, <2>1, <2>2 DEF Handler
  <1>12. ASSUME NEW x \in Sessions, CloseStream(x), UNCHANGED <<view, unseen>>
         PROVE  Goal
    <2>1. /\ post' = post
          /\ queue'[s] = queue[s] \/ queue'[s] = << >>
      BY <1>12 DEF CloseStream, TypeOK, chatVars
    <2>2. CASE queue'[s] = << >>
      <3>1. fresh = 0
        <4>1. FromOthers(s, << >>) = {}
          BY EmptySeq DEF FromOthers
        <4> QED  BY <2>2, <4>1, FS_EmptySet
      <3> QED  BY <1>1, <1>2, <1>12, <2>1, <3>1 DEF Goal
    <2> QED  BY <1>9, <1>12, <2>1, <2>2
  <1>13. ASSUME NEW x \in Sessions, NEW to \in Sessions, NEW kind \in SignalKinds,
                NEW body \in Bodies, Signal(x, to, kind, body),
                UNCHANGED <<view, unseen>>
         PROVE  Goal
    <2> DEFINE e == SignalEvent(x, to, kind, body)
    <2>1. e \in Event /\ e.type # "chat_message"
      BY DEF SignalEvent, Event
    <2>2. queue'[s] = queue[s] \/ queue'[s] = Append(queue[s], e)
      <3>1. CASE to \in participants
        BY <1>13, <2>1, <3>1, SendToAppends DEF Signal
      <3>2. CASE to \notin participants
        BY <1>13, <3>2 DEF Signal
      <3> QED  BY <3>1, <3>2
    <2> HIDE DEF e
    <2> QED  BY <1>9, <1>13, <2>1, <2>2 DEF Signal, chatVars
  <1>14. ASSUME NEW x \in Sessions, NEW t \in Threads, PostMessage(t, x)
         PROVE  Goal
    <2>1. /\ UNCHANGED <<view, queue>> /\ PostAppend(t, x)
          /\ unseen'[s] = IF s = x THEN unseen[s] ELSE unseen[s] + 1
      BY <1>14 DEF PostMessage, PostAppend, streamVars
    <2>2. after \in Nat /\ after <= IF x = s THEN coming ELSE coming + 1
      BY <2>1, OthersPosted DEF coming
    <2> QED  BY <1>1, <1>4, <2>1, <2>2 DEF Goal
  <1>15. ASSUME NEW t \in Threads, NEW p \in Sessions, PostSend(t, p),
                UNCHANGED <<view, unseen>>
         PROVE  Goal
    <2> DEFINE m == post[t].msg
               e == ChatEvent(m)
    <2>1. SendTo(p, e)
      BY <1>15 DEF PostSend
    <2>2. e \in Event /\ e.type = "chat_message" /\ e.msg = m
      <3>1. m \in Message
        BY <1>15, PostType DEF PostSend
      <3> QED  BY <3>1 DEF ChatEvent, Event
    <2>3. after = IF s = p /\ m.from # s THEN coming - 1 ELSE coming
      BY <1>15, OthersSent DEF coming
    <2>4. queue'[s] = queue[s] \/ (s = p /\ queue'[s] = Append(queue[s], e))
      BY <2>1 DEF SendTo, TypeOK
    <2> HIDE DEF e
    <2>5. CASE queue'[s] = queue[s]
      BY <1>1, <1>4, <1>15, <2>1, <2>3, <2>5 DEF Goal
    <2>6. CASE s = p /\ queue'[s] = Append(queue[s], e)
      <3>1. fresh = IF m.from # s THEN listed + 1 ELSE listed
        BY <1>1, <2>2, <2>6, FromOthersSent DEF listed
      <3> QED  BY <1>1, <1>15, <2>1, <2>3, <2>6, <3>1 DEF Goal
    <2> QED  BY <2>4, <2>5, <2>6
  <1>16. ASSUME NEW x \in Sessions,
                NEW claim \in Passwords \cup {None},
                NEW supplied \in Passwords \cup {None},
                NEW name \in Names \cup {None},
                Join(x, claim, supplied, name), UNCHANGED <<view, unseen>>
         PROVE  Goal
    BY <1>9, <1>16 DEF Join, chatVars
  <1>17. CASE SilentStep
    <2>1. UNCHANGED <<view, unseen>>
      BY <1>17 DEF SilentStep, auditVars
    <2>2. ASSUME NEW x \in Sessions,
                 StreamLagged(x) \/ StreamEnded(x) \/ Disconnect(x)
          PROVE  Goal
      BY <1>12, <2>1, <2>2 DEF StreamLagged, StreamEnded, Disconnect
    <2> QED  BY <1>11, <1>13, <1>15, <1>16, <1>17, <2>1, <2>2 DEF SilentStep, Goal
  <1>18. CASE UNCHANGED viewVars
    BY <1>9, <1>18 DEF viewVars, vars, streamVars, chatVars, auditVars, Goal
  <1> QED  BY <1>6, <1>7, <1>8, <1>10, <1>14, <1>17, <1>18 DEF ViewNext, Goal

\* Over reconnects, lag, re-joins and racing posts, the badge of a page counts
\* a message of the others at most once, none that was cleared from it or read
\* with the overlay open, and no echo of one's own (pages/room.rs:618-628,
\* components/controls.rs:25-30).
THEOREM UnreadIsCountedOnce == ViewSpec => []UnreadCountedOnce
  <1>1. ViewInit => BadgeOK
    <2> SUFFICES ASSUME ViewInit, NEW s \in Sessions
                 PROVE  /\ view[s].unread = 0
                        /\ view[s].unread + Cardinality(FromOthers(s, queue[s]))
                             + Cardinality(OthersUnderway(s)) <= unseen[s]
      BY DEF BadgeOK
    <2>1. queue[s] = << >> /\ view[s].unread = 0 /\ unseen[s] = 0
      BY DEF ViewInit, Init
    <2>2. FromOthers(s, queue[s]) = {}
      BY <2>1, EmptySeq DEF FromOthers
    <2>3. OthersUnderway(s) = {}
      BY DEF ViewInit, Init, OthersUnderway, PostIdle
    <2>4. /\ Cardinality(FromOthers(s, queue[s])) = 0
          /\ Cardinality(OthersUnderway(s)) = 0
      BY <2>2, <2>3, FS_EmptySet
    <2> QED  BY <2>1, <2>4
  <1>2. TypeOK /\ ViewsOK /\ AuditOK /\ PostsOK /\ BadgeOK => UnreadCountedOnce
    <2> SUFFICES ASSUME TypeOK, ViewsOK, AuditOK, PostsOK, BadgeOK, NEW s \in Sessions
                 PROVE  /\ view[s].open => view[s].unread = 0
                        /\ view[s].unread + Cardinality(FromOthers(s, queue[s]))
                              <= unseen[s]
      BY DEF UnreadCountedOnce
    <2>1. /\ view[s].unread \in Nat /\ unseen[s] \in Int
          /\ IsFiniteSet(1 .. Len(queue[s]))
      BY LenProperties, FS_Interval DEF TypeOK, ViewsOK, AuditOK, View
    <2>2. Cardinality(FromOthers(s, queue[s])) \in Nat
      <3>1. FromOthers(s, queue[s]) \in SUBSET (1 .. Len(queue[s]))
        BY DEF FromOthers
      <3> QED  BY <2>1, <3>1, FS_Subset, FS_CardinalityType
    <2>3. Cardinality(OthersUnderway(s)) \in Nat
      BY OthersUnderwayType
    <2> QED  BY <2>1, <2>2, <2>3 DEF BadgeOK
  <1>3. ViewSpec => []BadgeOK
    BY <1>1, ChatHolds, BadgeStep, PTL DEF ViewSpec
  <1> QED  BY <1>2, <1>3, ChatHolds, PTL
=============================================================================
