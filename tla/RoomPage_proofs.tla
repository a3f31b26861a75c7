--------------------------- MODULE RoomPage_proofs ---------------------------
(***************************************************************************)
(* Proofs about RoomPage: one visit of the room page, for any number of    *)
(* attempts, events, drops and restarts.                                   *)
(***************************************************************************)
EXTENDS RoomPage, FiniteSetTheorems, SequenceTheorems, TLAPS

-----------------------------------------------------------------------------
(* The inductive invariant. *)

\* An attempt whose join is not answered has neither stream nor mesh, and a
\* stream that could not be opened is in no slot: attempts do not share slots.
SlotsOwned ==
    \A a \in Attempts :
        /\ task[a].pc \in {"unused", "join"} =>
              source[a] = "none" /\ a # stream /\ a # mesh
        /\ source[a] = "failed" => a # stream

\* At most one join is under way, exactly while the page says so.
OneJoin ==
    /\ \A a, b \in Attempts : task[a].pc = "join" /\ task[b].pc = "join" => a = b
    /\ ~left => (status = "joining" <=> \E a \in Attempts : task[a].pc = "join")

Undisturbed == ~left /\ \A a \in Attempts : source[a] # "failed"

\* While no opening has failed, one attempt sets up the mesh, on a connected
\* page that has none yet.
OneBuilder ==
    Undisturbed =>
        /\ \A a, b \in Attempts : /\ task[a].pc \in {"camera", "ice"}
                                  /\ task[b].pc \in {"camera", "ice"}
                                  => a = b
        /\ \A a \in Attempts : task[a].pc \in {"camera", "ice"} =>
              mesh = 0 /\ status = "connected"
        /\ mesh # 0 => status = "connected"

Numbers(n) == [i \in 1 .. n |-> i]

\* What the handler read is in the mesh or, while there is none, in the buffer.
EventsKept ==
    Undisturbed =>
        /\ mesh = 0 => early = Numbers(read)
        /\ mesh # 0 => early = << >> /\ heard[mesh] = Numbers(read)

PageInv ==
    /\ PageTypeOK
    /\ SlotsOwned
    /\ OneJoin
    /\ NothingLeftBehind
    /\ OneStreamPerVisit
    /\ OneBuilder
    /\ EventsKept

-----------------------------------------------------------------------------
(* Types. *)

LEMMA StatusOfReply ==
    ASSUME NEW creds, NEW reply \in Replies(creds), reply # "ok"
    PROVE  reply \in Status \ {"joining", "connected"}
  BY DEF Replies, Status

\* A task that goes on to its next await is still a task.
LEMMA TaskGoesOn ==
    ASSUME PageTypeOK, NEW a \in Attempts,
           NEW pc \in {"camera", "ice", "ended"}, GoesTo(a, pc)
    PROVE  /\ task' \in [Attempts -> Task]
           /\ task'[a].pc = pc
           /\ \A b \in Attempts \ {a} : task'[b] = task[b]
  <1> DEFINE gone == [task[a] EXCEPT !.pc = pc]
  <1>1. gone \in Task /\ gone.pc = pc
    BY DEF PageTypeOK, Task
  <1>2. task' = [task EXCEPT ![a] = gone]
    BY DEF GoesTo
  <1> HIDE DEF gone
  <1> QED  BY <1>1, <1>2 DEF PageTypeOK

\* The sources after a slot is closed.
LEMMA ClosedSources ==
    ASSUME PageTypeOK, NEW slot \in 0 .. MaxAttempts
    PROVE  /\ Closed(slot) \in
                 [Attempts -> {"none", "failed", "connecting", "open", "closed"}]
           /\ \A b \in Attempts : b # slot => Closed(slot)[b] = source[b]
           /\ \A b \in Attempts : b = slot => Closed(slot)[b] = "closed"
  BY DEF PageTypeOK, Closed, Attempts

\* The numbers up to n + 1 are those up to n and one more.
LEMMA NumbersGrow ==
    ASSUME NEW n \in Nat
    PROVE  /\ Append(Numbers(n), n + 1) = Numbers(n + 1)
           /\ Numbers(n) \in Seq(Nat)
           /\ Len(Numbers(n)) = n
  <1>1. Numbers(n) \in Seq(Nat) /\ Len(Numbers(n)) = n
    BY DEF Numbers
  <1>2. Append(Numbers(n), n + 1) \in Seq(Nat)
        /\ Len(Append(Numbers(n), n + 1)) = n + 1
    BY <1>1, AppendProperties
  <1>3. Numbers(n + 1) \in Seq(Nat) /\ Len(Numbers(n + 1)) = n + 1
    BY DEF Numbers
  <1>4. ASSUME NEW i \in 1 .. n + 1
        PROVE  Append(Numbers(n), n + 1)[i] = Numbers(n + 1)[i]
    BY <1>1, AppendProperties DEF Numbers
  <1> QED  BY <1>1, <1>2, <1>3, <1>4, SeqEqual

-----------------------------------------------------------------------------
(* The invariant holds at first and is kept by every step. *)

LEMMA PageInvInit == PageInit => PageInv
  <1> SUFFICES ASSUME PageInit PROVE PageInv
    OBVIOUS
  <1> USE PageAssumption
  <1>1. PageTypeOK
    <2>1. Unused \in Task /\ [Unused EXCEPT !.pc = "join"] \in Task
      BY DEF Unused, Task, Creds
    <2>2. << >> \in Seq(1 .. MaxEvents)
      OBVIOUS
    <2>3. task \in [Attempts -> Task]
      BY <2>1 DEF PageInit
    <2>4. heard \in [Attempts -> Seq(1 .. MaxEvents)] /\ early \in Seq(1 .. MaxEvents)
      BY <2>2 DEF PageInit
    <2>5. 0 \in 0 .. MaxAttempts /\ 0 \in 0 .. MaxEvents /\ 0 \in 0 .. MaxDrops
          /\ 0 \in 0 .. MaxRestarts
      OBVIOUS
    <2> QED  BY <2>3, <2>4, <2>5 DEF PageInit, PageTypeOK, Status
  <1>2. SlotsOwned /\ OneJoin /\ OneBuilder
    BY DEF PageInit, SlotsOwned, OneJoin, OneBuilder, Unused, Attempts
  <1>3. NothingLeftBehind /\ OneStreamPerVisit
    BY DEF PageInit, NothingLeftBehind, OneStreamPerVisit, Live
  <1>4. EventsKept
    BY DEF PageInit, EventsKept, Numbers
  <1> QED  BY <1>1, <1>2, <1>3, <1>4 DEF PageInv

LEMMA ConnectKeeps ==
    ASSUME PageInv, NEW a \in Attempts, NEW creds \in Creds, Connect(a, creds)
    PROVE  PageInv'
  <1> USE PageAssumption DEF PageInv
  <1>1. /\ task' \in [Attempts -> Task]
        /\ task'[a].pc = "join" /\ task[a].pc = "unused"
        /\ \A b \in Attempts \ {a} : task'[b] = task[b]
    BY DEF Connect, PageTypeOK, Task
  <1>2. /\ ~left /\ status \notin {"joining", "connected"} /\ status' = "joining"
        /\ UNCHANGED <<serverVars, left, camera, meshVars, streamVars>>
        /\ bad_password' = FALSE
    BY DEF Connect, IgnoresAttempt
  <1>3. PageTypeOK'
    BY <1>1, <1>2 DEF PageTypeOK, serverVars, meshVars, streamVars, Status
  <1>4. SlotsOwned'
    BY <1>1, <1>2 DEF SlotsOwned, meshVars, streamVars
  <1>5. OneJoin'
    BY <1>1, <1>2 DEF OneJoin
  <1>6. NothingLeftBehind' /\ OneStreamPerVisit'
    BY <1>1, <1>2 DEF NothingLeftBehind, OneStreamPerVisit, Live, meshVars,
                      streamVars, PageTypeOK
  <1>7. OneBuilder' /\ EventsKept'
    BY <1>1, <1>2 DEF OneBuilder, EventsKept, Undisturbed, meshVars, streamVars
  <1> QED  BY <1>3, <1>4, <1>5, <1>6, <1>7

\* The answer to a join that arrives on a page that was left.
LEMMA AnsweredTooLateKeeps ==
    ASSUME PageInv, NEW a \in Attempts, JoinAnswered(a), left
    PROVE  PageInv'
  <1> USE PageAssumption DEF PageInv
  <1>1. /\ GoesTo(a, "ended") /\ task[a].pc = "join"
        /\ UNCHANGED <<uiVars, left, camera, meshVars, streamVars, restarts>>
        /\ exists' \in BOOLEAN /\ seated' \in BOOLEAN
    BY DEF JoinAnswered, PageTypeOK
  <1>2. /\ task' \in [Attempts -> Task] /\ task'[a].pc = "ended"
        /\ \A b \in Attempts \ {a} : task'[b] = task[b]
    BY <1>1, TaskGoesOn
  <1>3. PageTypeOK'
    BY <1>1, <1>2 DEF PageTypeOK, uiVars, meshVars, streamVars
  <1>4. SlotsOwned' /\ OneJoin' /\ OneBuilder' /\ EventsKept'
    BY <1>1, <1>2 DEF SlotsOwned, OneJoin, OneBuilder, EventsKept, Undisturbed,
                      uiVars, meshVars, streamVars
  <1>5. NothingLeftBehind' /\ OneStreamPerVisit'
    BY <1>1, <1>2 DEF NothingLeftBehind, OneStreamPerVisit, Live, uiVars,
                      meshVars, streamVars, PageTypeOK
  <1> QED  BY <1>3, <1>4, <1>5

\* An answer that lets nobody in.
LEMMA RefusedKeeps ==
    ASSUME PageInv, ~left, NEW a \in Attempts, task[a].pc = "join",
           NEW reply \in Status \ {"joining", "connected"}, Refused(a, reply),
           exists' \in BOOLEAN, seated' \in BOOLEAN,
           UNCHANGED <<left, camera, meshVars, restarts>>
    PROVE  PageInv'
  <1> USE PageAssumption DEF PageInv
  <1>1. /\ GoesTo(a, "ended") /\ status' = reply /\ UNCHANGED streamVars
        /\ bad_password' \in BOOLEAN
    BY DEF Refused, PageTypeOK
  <1>2. /\ task' \in [Attempts -> Task] /\ task'[a].pc = "ended"
        /\ \A b \in Attempts \ {a} : task'[b] = task[b]
    BY <1>1, TaskGoesOn
  <1>3. status = "joining"
    BY DEF OneJoin
  <1>4. PageTypeOK'
    BY <1>1, <1>2 DEF PageTypeOK, meshVars, streamVars
  <1>5. SlotsOwned' /\ OneJoin'
    BY <1>1, <1>2 DEF SlotsOwned, OneJoin, meshVars, streamVars
  <1>6. NothingLeftBehind' /\ OneStreamPerVisit'
    BY <1>1, <1>2 DEF NothingLeftBehind, OneStreamPerVisit, Live,
                      meshVars, streamVars, PageTypeOK
  <1>7. OneBuilder' /\ EventsKept'
    BY <1>1, <1>2, <1>3 DEF OneBuilder, EventsKept, Undisturbed, meshVars,
                            streamVars
  <1> QED  BY <1>4, <1>5, <1>6, <1>7

\* A join that is let in: its stream is opened, or cannot be.
LEMMA AdmittedKeeps ==
    ASSUME PageInv, ~left, NEW a \in Attempts, task[a].pc = "join", Admitted(a),
           exists' \in BOOLEAN, seated' \in BOOLEAN,
           UNCHANGED <<left, camera, meshVars, restarts>>
    PROVE  PageInv'
  <1> USE PageAssumption DEF PageInv
  <1>1. /\ GoesTo(a, "camera") /\ UNCHANGED <<bad_password, drops>>
        /\ source[a] = "none" /\ a # stream /\ a # mesh
    BY DEF Admitted, SlotsOwned
  <1>2. /\ task' \in [Attempts -> Task] /\ task'[a].pc = "camera"
        /\ \A b \in Attempts \ {a} : task'[b] = task[b]
    BY <1>1, TaskGoesOn
  <1>3. status = "joining"
    BY DEF OneJoin
  <1>4. CASE /\ status' = "connected"
             /\ source' = [Closed(stream) EXCEPT ![a] = "connecting"]
             /\ stream' = a
    <2>1. /\ source' \in
                [Attempts -> {"none", "failed", "connecting", "open", "closed"}]
          /\ source'[a] = "connecting"
          /\ \A b \in Attempts \ {a} :
               source'[b] = IF b = stream THEN "closed" ELSE source[b]
      BY <1>4, ClosedSources DEF PageTypeOK
    <2>2. PageTypeOK'
      <3>1. stream' \in 0 .. MaxAttempts /\ status' \in Status
        BY <1>4 DEF Attempts, Status
      <3> QED  BY <1>1, <1>2, <2>1, <3>1 DEF PageTypeOK, meshVars
    <2>3. SlotsOwned' /\ OneJoin'
      BY <1>1, <1>2, <1>4, <2>1 DEF SlotsOwned, OneJoin, meshVars
    <2>4. NothingLeftBehind' /\ OneStreamPerVisit'
      <3>1. \A b \in Attempts : Live(b)' => b = stream'
        BY <1>4, <2>1 DEF OneStreamPerVisit, Live
      <3>2. \A b \in camera' : b = mesh' \/ task'[b].pc = "ice"
        BY <1>1, <1>2 DEF OneStreamPerVisit, meshVars, PageTypeOK
      <3>3. stream' # 0 /\ ~left'
        BY <1>4 DEF Attempts
      <3> QED  BY <3>1, <3>2, <3>3 DEF NothingLeftBehind, OneStreamPerVisit
    <2>5. Undisturbed' => Undisturbed
      BY <2>1 DEF Undisturbed, SlotsOwned
    <2>6. OneBuilder' /\ EventsKept'
      BY <1>1, <1>2, <1>3, <1>4, <2>5 DEF OneBuilder, EventsKept, meshVars
    <2> QED  BY <2>2, <2>3, <2>4, <2>6
  <1>5. CASE /\ status' = "error"
             /\ source' = [source EXCEPT ![a] = "failed"]
             /\ UNCHANGED stream
    <2>1. /\ source' \in
                [Attempts -> {"none", "failed", "connecting", "open", "closed"}]
          /\ source'[a] = "failed"
          /\ \A b \in Attempts \ {a} : source'[b] = source[b]
      BY <1>5 DEF PageTypeOK
    <2>2. PageTypeOK'
      BY <1>1, <1>2, <1>5, <2>1 DEF PageTypeOK, meshVars, Status
    <2>3. SlotsOwned' /\ OneJoin'
      BY <1>1, <1>2, <1>5, <2>1 DEF SlotsOwned, OneJoin, meshVars
    <2>4. NothingLeftBehind' /\ OneStreamPerVisit'
      <3>1. \A b \in Attempts : Live(b)' => b = stream'
        BY <1>5, <2>1 DEF OneStreamPerVisit, Live
      <3>2. \A b \in camera' : b = mesh' \/ task'[b].pc = "ice"
        BY <1>1, <1>2 DEF OneStreamPerVisit, meshVars, PageTypeOK
      <3>3. status' = "error" /\ ~left'
        BY <1>5
      <3> QED  BY <3>1, <3>2, <3>3 DEF NothingLeftBehind, OneStreamPerVisit
    <2>5. OneBuilder' /\ EventsKept'
      BY <2>1 DEF OneBuilder, EventsKept, Undisturbed
    <2> QED  BY <2>2, <2>3, <2>4, <2>5
  <1> QED  BY <1>4, <1>5 DEF Admitted

LEMMA JoinAnsweredKeeps ==
    ASSUME PageInv, NEW a \in Attempts, JoinAnswered(a)
    PROVE  PageInv'
  <1>1. CASE left
    BY <1>1, AnsweredTooLateKeeps
  <1>2. CASE ~left
    <2>1. PICK reply \in Replies(task[a].creds) :
             /\ exists' = (exists \/ reply = "ok")
             /\ seated' = (seated \/ reply = "ok")
             /\ \/ Refused(a, "error")
                \/ reply = "ok" /\ Admitted(a)
                \/ reply # "ok" /\ Refused(a, reply)
      BY <1>2 DEF JoinAnswered
    <2>2. /\ task[a].pc = "join" /\ exists' \in BOOLEAN /\ seated' \in BOOLEAN
          /\ UNCHANGED <<left, camera, meshVars, restarts>>
      BY <2>1 DEF JoinAnswered, PageInv, PageTypeOK
    <2>3. CASE Refused(a, "error")
      BY <1>2, <2>2, <2>3, RefusedKeeps DEF Status
    <2>4. CASE reply = "ok" /\ Admitted(a)
      BY <1>2, <2>2, <2>4, AdmittedKeeps
    <2>5. CASE reply # "ok" /\ Refused(a, reply)
      BY <1>2, <2>2, <2>5, RefusedKeeps, StatusOfReply
    <2> QED  BY <2>1, <2>3, <2>4, <2>5
  <1> QED  BY <1>1, <1>2

LEMMA CameraAnsweredKeeps ==
    ASSUME PageInv, NEW a \in Attempts, CameraAnswered(a)
    PROVE  PageInv'
  <1> USE PageAssumption DEF PageInv
  <1>1. /\ GoesTo(a, "ice") /\ task[a].pc = "camera"
        /\ camera' \in {camera, camera \cup {a}}
        /\ UNCHANGED <<serverVars, uiVars, left, meshVars, streamVars>>
    BY DEF CameraAnswered
  <1>2. /\ task' \in [Attempts -> Task] /\ task'[a].pc = "ice"
        /\ \A b \in Attempts \ {a} : task'[b] = task[b]
    BY <1>1, TaskGoesOn
  <1>3. PageTypeOK'
    BY <1>1, <1>2 DEF PageTypeOK, serverVars, uiVars, meshVars, streamVars
  <1>4. SlotsOwned' /\ OneJoin'
    BY <1>1, <1>2 DEF SlotsOwned, OneJoin, uiVars, meshVars, streamVars
  <1>5. \A b \in camera' : b = mesh' \/ task'[b].pc = "ice"
    <2>1. camera \subseteq Attempts /\ mesh' = mesh
          /\ \A b \in camera : b = mesh \/ task[b].pc = "ice"
      BY <1>1 DEF OneStreamPerVisit, meshVars, PageTypeOK
    <2> QED  BY <1>1, <1>2, <2>1
  <1>6. left => \A b \in camera' : task'[b].pc = "ice"
    BY <1>1, <1>2 DEF NothingLeftBehind, PageTypeOK
  <1>7. NothingLeftBehind' /\ OneStreamPerVisit'
    BY <1>1, <1>5, <1>6 DEF NothingLeftBehind, OneStreamPerVisit, Live, uiVars,
                            meshVars, streamVars
  <1>8. OneBuilder' /\ EventsKept'
    BY <1>1, <1>2 DEF OneBuilder, EventsKept, Undisturbed, uiVars, meshVars,
                      streamVars
  <1> QED  BY <1>3, <1>4, <1>7, <1>8

\* The mesh is built: for a page that was left, which closes it, or for the slot.
LEMMA MeshBuiltKeeps ==
    ASSUME PageInv, NEW a \in Attempts, MeshBuilt(a)
    PROVE  PageInv'
  <1> USE PageAssumption DEF PageInv
  <1>1. /\ GoesTo(a, "ended") /\ task[a].pc = "ice"
        /\ UNCHANGED <<serverVars, uiVars, left, read, streamVars>>
    BY DEF MeshBuilt, meshVars
  <1>2. /\ task' \in [Attempts -> Task] /\ task'[a].pc = "ended"
        /\ \A b \in Attempts \ {a} : task'[b] = task[b]
    BY <1>1, TaskGoesOn
  <1>3. SlotsOwned' /\ OneJoin'
    <2>1. mesh' \in {mesh, a}
      BY DEF MeshBuilt, meshVars
    <2> QED  BY <1>1, <1>2, <2>1 DEF SlotsOwned, OneJoin, uiVars, streamVars
  <1>4. CASE left
    <2>1. camera' = camera \ {a} /\ UNCHANGED meshVars
      BY <1>4 DEF MeshBuilt
    <2>2. PageTypeOK'
      BY <1>1, <1>2, <2>1 DEF PageTypeOK, serverVars, uiVars, meshVars, streamVars
    <2>3. NothingLeftBehind' /\ OneStreamPerVisit'
      BY <1>1, <1>2, <1>4, <2>1 DEF NothingLeftBehind, OneStreamPerVisit, Live,
                              uiVars, meshVars, streamVars, PageTypeOK
    <2>4. OneBuilder' /\ EventsKept'
      BY <1>1, <1>4 DEF OneBuilder, EventsKept, Undisturbed
    <2> QED  BY <1>3, <2>2, <2>3, <2>4
  <1>5. CASE ~left
    <2>1. /\ heard' = [heard EXCEPT ![a] = early] /\ early' = << >>
          /\ camera' = camera \ {mesh} /\ mesh' = a /\ ticker' \in {TRUE, ticker}
      BY <1>5 DEF MeshBuilt
    <2>2. PageTypeOK'
      <3>1. mesh' \in 0 .. MaxAttempts /\ early' \in Seq(1 .. MaxEvents)
            /\ heard' \in [Attempts -> Seq(1 .. MaxEvents)]
        BY <2>1 DEF PageTypeOK, Attempts
      <3> QED  BY <1>1, <1>2, <2>1, <3>1 DEF PageTypeOK, serverVars, uiVars,
                                             streamVars
    <2>3. NothingLeftBehind' /\ OneStreamPerVisit'
      BY <1>1, <1>2, <1>5, <2>1 DEF NothingLeftBehind, OneStreamPerVisit, Live,
                              uiVars, streamVars, PageTypeOK
    <2>4. ASSUME Undisturbed'
          PROVE  OneBuilder' /\ EventsKept'
      <3>1. Undisturbed
        BY <1>1, <2>4 DEF Undisturbed, streamVars
      <3>2. mesh = 0 /\ status = "connected" /\ early = Numbers(read)
            /\ \A b \in Attempts : task[b].pc \in {"camera", "ice"} => a = b
        BY <1>1, <3>1 DEF OneBuilder, EventsKept
      <3>3. heard'[mesh'] = Numbers(read')
        BY <1>1, <2>1, <3>2 DEF PageTypeOK
      <3>4. mesh' # 0 /\ early' = << >>
        BY <2>1 DEF Attempts
      <3> QED  BY <1>1, <1>2, <3>2, <3>3, <3>4 DEF OneBuilder, EventsKept, uiVars
    <2> QED  BY <1>3, <2>2, <2>3, <2>4 DEF OneBuilder, EventsKept
  <1> QED  BY <1>4, <1>5

LEMMA EventReadKeeps ==
    ASSUME PageInv, NEW a \in Attempts, EventRead(a)
    PROVE  PageInv'
  <1> USE PageAssumption DEF PageInv
  <1>1. /\ read' = read + 1 /\ read' \in 1 .. MaxEvents /\ read \in Nat
        /\ UNCHANGED <<serverVars, uiVars, left, task, camera, mesh, ticker,
                       streamVars>>
    BY DEF EventRead, PageTypeOK
  <1>2. SlotsOwned' /\ OneJoin' /\ NothingLeftBehind' /\ OneStreamPerVisit'
        /\ OneBuilder'
    BY <1>1 DEF SlotsOwned, OneJoin, NothingLeftBehind, OneStreamPerVisit, Live,
                OneBuilder, Undisturbed, uiVars, streamVars
  <1>3. CASE mesh # 0
    <2>1. heard' = [heard EXCEPT ![mesh] = Append(heard[mesh], read + 1)]
          /\ early' = early /\ mesh \in Attempts
      BY <1>3 DEF EventRead, PageTypeOK, Attempts
    <2>2. Append(heard[mesh], read + 1) \in Seq(1 .. MaxEvents)
      BY <1>1, <2>1, AppendProperties DEF PageTypeOK
    <2>3. PageTypeOK'
      BY <1>1, <2>1, <2>2 DEF PageTypeOK, serverVars, uiVars, streamVars
    <2>4. heard'[mesh] = Append(heard[mesh], read + 1)
      BY <2>1 DEF PageTypeOK
    <2>5. EventsKept'
      BY <1>1, <1>3, <2>1, <2>4, NumbersGrow DEF EventsKept, Undisturbed,
                                                 streamVars
    <2> QED  BY <1>2, <2>3, <2>5
  <1>4. CASE mesh = 0
    <2>1. early' = Append(early, read + 1) /\ heard' = heard
      BY <1>4 DEF EventRead
    <2>2. early' \in Seq(1 .. MaxEvents)
      BY <1>1, <2>1, AppendProperties DEF PageTypeOK
    <2>3. PageTypeOK'
      BY <1>1, <2>1, <2>2 DEF PageTypeOK, serverVars, uiVars, streamVars
    <2>4. EventsKept'
      BY <1>1, <1>4, <2>1, NumbersGrow DEF EventsKept, Undisturbed, streamVars
    <2> QED  BY <1>2, <2>3, <2>4
  <1> QED  BY <1>3, <1>4

\* What becomes of a stream that is open or being opened is closed, open or
\* being opened; other streams stay as they are.
LEMMA SourceKeeps ==
    ASSUME PageInv, exists' \in BOOLEAN, seated' \in BOOLEAN,
           restarts' \in 0 .. MaxRestarts, drops' \in 0 .. MaxDrops,
           source' \in [Attempts -> {"none", "failed", "connecting", "open", "closed"}],
           \A b \in Attempts :
             \/ source'[b] = source[b]
             \/ Live(b) /\ source'[b] \in {"connecting", "open", "closed"},
           UNCHANGED <<uiVars, left, task, camera, meshVars, stream>>
    PROVE  PageInv'
  <1> USE DEF PageInv
  <1>1. PageTypeOK'
    BY DEF PageTypeOK, uiVars, meshVars
  <1>2. SlotsOwned'
    BY DEF SlotsOwned, Live, meshVars
  <1>3. OneJoin'
    BY DEF OneJoin, uiVars
  <1>4. NothingLeftBehind' /\ OneStreamPerVisit'
    BY DEF NothingLeftBehind, OneStreamPerVisit, Live, uiVars, meshVars
  <1>5. Undisturbed' => Undisturbed
    BY DEF Undisturbed, Live
  <1>6. OneBuilder' /\ EventsKept'
    BY <1>5 DEF OneBuilder, EventsKept, uiVars, meshVars
  <1> QED  BY <1>1, <1>2, <1>3, <1>4, <1>6

LEMMA StreamKeeps ==
    ASSUME PageInv, NEW a \in Attempts,
           StreamOpens(a) \/ StreamRefused(a) \/ StreamDrops(a)
    PROVE  PageInv'
  <1> USE PageAssumption
  <1>1. exists' \in BOOLEAN /\ seated' \in BOOLEAN /\ restarts' \in 0 .. MaxRestarts
    BY DEF StreamOpens, StreamRefused, StreamDrops, serverVars, PageInv, PageTypeOK
  <1>2. drops' \in 0 .. MaxDrops
    BY DEF StreamOpens, StreamRefused, StreamDrops, PageInv, PageTypeOK
  <1>3. PICK next \in {"connecting", "open", "closed"} :
           source' = [source EXCEPT ![a] = next]
    BY DEF StreamOpens, StreamRefused, StreamDrops
  <1>4. Live(a)
    BY DEF StreamOpens, StreamRefused, StreamDrops, Live
  <1>5. source' \in [Attempts -> {"none", "failed", "connecting", "open", "closed"}]
        /\ \A b \in Attempts :
             \/ source'[b] = source[b]
             \/ Live(b) /\ source'[b] \in {"connecting", "open", "closed"}
    <2>1. source \in [Attempts -> {"none", "failed", "connecting", "open", "closed"}]
      BY DEF PageInv, PageTypeOK
    <2>2. \A b \in Attempts : source'[b] = IF b = a THEN next ELSE source[b]
      BY <1>3, <2>1
    <2>3. source' \in [Attempts -> {"none", "failed", "connecting", "open", "closed"}]
      BY <1>3, <2>1
    <2> QED  BY <1>4, <2>2, <2>3
  <1>6. UNCHANGED <<uiVars, left, task, camera, meshVars, stream>>
    BY DEF StreamOpens, StreamRefused, StreamDrops
  <1> QED  BY <1>1, <1>2, <1>5, <1>6, SourceKeeps

LEMMA RestartKeeps ==
    ASSUME PageInv, Restart
    PROVE  PageInv'
  <1> USE PageAssumption
  <1>1. restarts \in 0 .. MaxRestarts /\ drops \in 0 .. MaxDrops
        /\ source \in [Attempts -> {"none", "failed", "connecting", "open", "closed"}]
    BY DEF PageInv, PageTypeOK
  <1>2. exists' = FALSE /\ seated' = FALSE /\ drops' = drops
        /\ restarts < MaxRestarts /\ restarts' = restarts + 1
        /\ source' = [b \in Attempts |-> IF source[b] = "open" THEN "connecting"
                                                               ELSE source[b]]
    BY DEF Restart
  <1>3. restarts' \in 0 .. MaxRestarts
    BY <1>1, <1>2
  <1>4. source' \in [Attempts -> {"none", "failed", "connecting", "open", "closed"}]
        /\ \A b \in Attempts :
             \/ source'[b] = source[b]
             \/ Live(b) /\ source'[b] \in {"connecting", "open", "closed"}
    <2>1. \A b \in Attempts :
             source'[b] = IF source[b] = "open" THEN "connecting" ELSE source[b]
      BY <1>2
    <2>2. source' \in [Attempts -> {"none", "failed", "connecting", "open", "closed"}]
      <3>1. \A b \in Attempts :
               (IF source[b] = "open" THEN "connecting" ELSE source[b])
                  \in {"none", "failed", "connecting", "open", "closed"}
        BY <1>1
      <3> QED  BY <1>2, <3>1
    <2> QED  BY <2>1, <2>2 DEF Live
  <1>5. UNCHANGED <<uiVars, left, task, camera, meshVars, stream>>
    BY DEF Restart
  <1> QED  BY <1>1, <1>2, <1>3, <1>4, <1>5, SourceKeeps

LEMMA LeaveKeeps ==
    ASSUME PageInv, Leave
    PROVE  PageInv'
  <1> USE PageAssumption DEF PageInv
  <1>1. /\ left' /\ source' = Closed(stream) /\ stream' = 0
        /\ camera' = camera \ {mesh} /\ mesh' = 0 /\ ticker' = FALSE
        /\ UNCHANGED <<serverVars, uiVars, task, early, heard, read, drops>>
    BY DEF Leave
  <1>2. source' \in [Attempts -> {"none", "failed", "connecting", "open", "closed"}]
        /\ \A b \in Attempts :
             source'[b] = IF b = stream THEN "closed" ELSE source[b]
    BY <1>1, ClosedSources DEF PageTypeOK
  <1>3. PageTypeOK'
    <2>1. stream' \in 0 .. MaxAttempts /\ mesh' \in 0 .. MaxAttempts
          /\ left' \in BOOLEAN
      BY <1>1 DEF Leave
    <2> QED  BY <1>1, <1>2, <2>1 DEF PageTypeOK, serverVars, uiVars
  <1>4. SlotsOwned'
    BY <1>1, <1>2 DEF SlotsOwned, Attempts
  <1>5. OneJoin' /\ OneBuilder' /\ EventsKept'
    BY <1>1 DEF OneJoin, OneBuilder, EventsKept, Undisturbed
  <1>6. NothingLeftBehind' /\ OneStreamPerVisit'
    BY <1>1, <1>2 DEF NothingLeftBehind, OneStreamPerVisit, Live, PageTypeOK
  <1> QED  BY <1>3, <1>4, <1>5, <1>6

\* What depends on none of the server's state is kept when nothing else changes.
LEMMA ServerStepKeeps ==
    ASSUME PageInv, exists' \in BOOLEAN, seated' \in BOOLEAN,
           restarts' \in 0 .. MaxRestarts,
           UNCHANGED <<uiVars, left, task, camera, meshVars, streamVars>>
    PROVE  PageInv'
  <1>1. PageTypeOK'
    BY DEF PageInv, PageTypeOK, uiVars, meshVars, streamVars
  <1>2. SlotsOwned' /\ OneJoin'
    BY DEF PageInv, SlotsOwned, OneJoin, uiVars, meshVars, streamVars
  <1>3. NothingLeftBehind' /\ OneStreamPerVisit'
    BY DEF PageInv, NothingLeftBehind, OneStreamPerVisit, Live, uiVars, meshVars,
           streamVars
  <1>4. OneBuilder' /\ EventsKept'
    BY DEF PageInv, OneBuilder, EventsKept, Undisturbed, uiVars, meshVars,
           streamVars
  <1> QED  BY <1>1, <1>2, <1>3, <1>4 DEF PageInv

LEMMA RoomClaimedKeeps ==
    ASSUME PageInv, RoomClaimed
    PROVE  PageInv'
  <1>1. exists' \in BOOLEAN /\ seated' \in BOOLEAN /\ restarts' \in 0 .. MaxRestarts
    BY DEF RoomClaimed, PageInv, PageTypeOK
  <1>2. UNCHANGED <<uiVars, left, task, camera, meshVars, streamVars>>
    BY DEF RoomClaimed
  <1> QED  BY <1>1, <1>2, ServerStepKeeps

LEMMA StutterKeeps ==
    ASSUME PageInv, UNCHANGED vars
    PROVE  PageInv'
  <1>1. exists' \in BOOLEAN /\ seated' \in BOOLEAN /\ restarts' \in 0 .. MaxRestarts
    BY DEF vars, serverVars, PageInv, PageTypeOK
  <1>2. UNCHANGED <<uiVars, left, task, camera, meshVars, streamVars>>
    BY DEF vars
  <1> QED  BY <1>1, <1>2, ServerStepKeeps

LEMMA PageInvStep == PageInv /\ [PageNext]_vars => PageInv'
  <1> SUFFICES ASSUME PageInv, [PageNext]_vars PROVE PageInv'
    OBVIOUS
  <1>1. ASSUME NEW a \in Attempts, NEW creds \in Creds, Connect(a, creds)
        PROVE  PageInv'
    BY <1>1, ConnectKeeps
  <1>2. ASSUME NEW a \in Attempts, JoinAnswered(a) \/ CameraAnswered(a) \/ MeshBuilt(a)
        PROVE  PageInv'
    BY <1>2, JoinAnsweredKeeps, CameraAnsweredKeeps, MeshBuiltKeeps
  <1>3. ASSUME NEW a \in Attempts, \/ EventRead(a) \/ StreamOpens(a)
                                   \/ StreamRefused(a) \/ StreamDrops(a)
        PROVE  PageInv'
    BY <1>3, EventReadKeeps, StreamKeeps
  <1>4. CASE Leave \/ RoomClaimed \/ Restart
    BY <1>4, LeaveKeeps, RoomClaimedKeeps, RestartKeeps
  <1>5. CASE UNCHANGED vars
    BY <1>5, StutterKeeps
  <1> QED  BY <1>1, <1>2, <1>3, <1>4, <1>5 DEF PageNext

\* Every reachable state of a visit satisfies the inductive invariant.
THEOREM PageInvariant == PageSpec => []PageInv
  BY PageInvInit, PageInvStep, PTL DEF PageSpec

-----------------------------------------------------------------------------
(* What it gives. *)

\* Every reachable state of a visit is well typed, whatever the user, the
\* server and the browser do (pages/room.rs:154-302).
THEOREM PageTypeCorrect == PageSpec => []PageTypeOK
  BY PageInvariant, PTL DEF PageInv

\* One join is under way at a time, for any number of attempts, exactly while
\* the page shows it (pages/room.rs:155-161).
THEOREM JoinsDoNotOverlap == PageSpec => []OneJoinAtATime
  <1>1. PageInv => OneJoinAtATime
    <2> SUFFICES ASSUME PageInv PROVE OneJoinAtATime
      OBVIOUS
    <2> DEFINE joining == {a \in Attempts : task[a].pc = "join"}
    <2>1. CASE joining = {}
      <3>1. Cardinality(joining) = 0
        BY <2>1, FS_EmptySet
      <3> QED  BY <3>1 DEF OneJoinAtATime, PageInv, OneJoin
    <2>2. CASE joining # {}
      <3>1. PICK a \in joining : TRUE
        BY <2>2
      <3>2. joining = {a}
        BY <3>1 DEF PageInv, OneJoin
      <3>3. Cardinality(joining) = 1
        BY <3>2, FS_Singleton
      <3> QED  BY <3>3 DEF OneJoinAtATime, PageInv, OneJoin
    <2> QED  BY <2>1, <2>2
  <1> QED  BY <1>1, PageInvariant, PTL

\* Whenever the page is left, no stream, mesh or interval stays behind, and the
\* camera only with a task that will close it (pages/room.rs:279-302).
THEOREM LeavesNothingBehind == PageSpec => []NothingLeftBehind
  BY PageInvariant, PTL DEF PageInv

\* A visit never has two streams open (services/signaling.rs:36-43).
THEOREM VisitHasOneStream == PageSpec => []OneStreamPerVisit
  BY PageInvariant, PTL DEF PageInv

\* The mesh hears every event once and in order, however reading and building
\* interleave (pages/room.rs:237-243, :570-587).
THEOREM EventsReachTheMesh == PageSpec => []EventsOnceInOrder
  <1>1. PageInv => EventsOnceInOrder
    <2> SUFFICES ASSUME PageInv, Undisturbed
                 PROVE  (IF mesh = 0 THEN << >> ELSE heard[mesh]) \o early
                          = Numbers(read)
      BY DEF EventsOnceInOrder, Undisturbed, Numbers
    <2>1. Numbers(read) \in Seq(Nat)
      BY NumbersGrow, PageAssumption DEF PageInv, PageTypeOK
    <2>2. Numbers(read) \o << >> = Numbers(read) /\ << >> \o Numbers(read) = Numbers(read)
      BY <2>1, ConcatEmptySeq
    <2> QED  BY <2>2 DEF PageInv, EventsKept
  <1> QED  BY <1>1, PageInvariant, PTL

=============================================================================
