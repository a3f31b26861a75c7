------------------------------- MODULE RoomPage -------------------------------
(***************************************************************************)
(* One visit of the room page (RoomPage in pages/room.rs): joining, with   *)
(* as many attempts as it takes, the event stream, the camera, the mesh    *)
(* and the interval an admitted attempt sets up across its awaits, and     *)
(* on_cleanup, which may come between any two of them.                     *)
(*                                                                         *)
(* A task of the page runs undisturbed from one await to the next, so each *)
(* attempt has one action per await: the reply to the join, the answer to  *)
(* the camera prompt, the ICE configuration.  The server is here what      *)
(* handle_join and handle_sse let a page see of it; RoomView and Mesh have *)
(* the whole of it.  The events of the page's streams are numbered in the  *)
(* order the handler gets them (all but the chat, which no mesh hears).    *)
(***************************************************************************)
EXTENDS Naturals, Sequences, FiniteSets

CONSTANTS
    MaxAttempts,   \* bound of the model: attempts to join in one visit
    MaxEvents,     \* bound of the model: events of the stream
    MaxDrops,      \* bound of the model: streams that break
    MaxRestarts    \* bound of the model: restarts of the server

ASSUME PageAssumption ==
    /\ MaxAttempts \in Nat \ {0}
    /\ MaxEvents \in Nat
    /\ MaxDrops \in Nat
    /\ MaxRestarts \in Nat

VARIABLES
    exists,        \* the server has the room
    seated,        \* ... and this session is one of its participants
    status,        \* the RoomStatus signal
    bad_password,  \* the gate says that the password was wrong
    left,          \* the page was left: its signals are disposed
    task,          \* the task of each attempt to join
    camera,        \* attempts whose camera stream is on
    source,        \* the EventSource of each attempt
    stream,        \* slot: the attempt whose stream the page owns, or 0
    mesh,          \* slot: the attempt whose mesh the page owns, or 0
    early,         \* events kept for the mesh that is being built
    heard,         \* history: the events the mesh of each attempt was given
    read,          \* events the handler got so far
    ticker,        \* the interval that polls the level meter is running
    drops,         \* streams broken so far
    restarts       \* restarts of the server so far

serverVars == <<exists, seated, restarts>>
uiVars     == <<status, bad_password>>
meshVars   == <<mesh, early, heard, read, ticker>>
streamVars == <<source, stream, drops>>
vars       == <<serverVars, uiVars, left, task, camera, meshVars, streamVars>>

-----------------------------------------------------------------------------

Attempts == 1 .. MaxAttempts

Creds == {"anonymous", "claim", "verify"}

Status == {"joining", "need_password", "password_required", "full",
           "connected", "error"}

Task == [pc : {"unused", "join", "camera", "ice", "ended"}, creds : Creds]

PageTypeOK ==
    /\ exists \in BOOLEAN /\ seated \in BOOLEAN
    /\ status \in Status
    /\ bad_password \in BOOLEAN
    /\ left \in BOOLEAN
    /\ task \in [Attempts -> Task]
    /\ camera \subseteq Attempts
    /\ source \in [Attempts -> {"none", "failed", "connecting", "open", "closed"}]
    /\ stream \in 0 .. MaxAttempts
    /\ mesh \in 0 .. MaxAttempts
    /\ early \in Seq(1 .. MaxEvents)
    /\ heard \in [Attempts -> Seq(1 .. MaxEvents)]
    /\ read \in 0 .. MaxEvents
    /\ ticker \in BOOLEAN
    /\ drops \in 0 .. MaxDrops
    /\ restarts \in 0 .. MaxRestarts

Unused == [pc |-> "unused", creds |-> "anonymous"]

\* The page is mounted and its first attempt, without a password, is sent.
PageInit ==
    /\ exists \in BOOLEAN
    /\ seated = FALSE
    /\ status = "joining"
    /\ bad_password = FALSE
    /\ left = FALSE
    /\ task = [a \in Attempts |-> IF a = 1 THEN [Unused EXCEPT !.pc = "join"]
                                          ELSE Unused]
    /\ camera = {}
    /\ source = [a \in Attempts |-> "none"]
    /\ stream = 0
    /\ mesh = 0
    /\ early = << >>
    /\ heard = [a \in Attempts |-> << >>]
    /\ read = 0
    /\ ticker = FALSE
    /\ drops = 0
    /\ restarts = 0

\* The attempt a goes on to its next await, or ends.
GoesTo(a, pc) == task' = [task EXCEPT ![a] = [task[a] EXCEPT !.pc = pc]]

-----------------------------------------------------------------------------
(* connect. *)

\* Mutant: only a page that is connected ignores another attempt.
IgnoresWhenConnected == status = "connected"

\* A double submit, or a submit that races the mount, is ignored.
IgnoresAttempt == status \in {"joining", "connected"}

\* What the page has to offer: the gate claims or verifies, the error screen
\* tries again.  The form of a gate that was just submitted is still there.
Offered(creds) ==
    CASE status = "need_password"     -> creds = "claim"
      [] status = "password_required" -> creds = "verify"
      [] status = "error"             -> creds = "anonymous"
      [] status = "joining"           -> creds \in {"claim", "verify"}
      [] OTHER                        -> FALSE

Connect(a, creds) ==
    /\ ~left
    /\ ~IgnoresAttempt
    /\ Offered(creds)
    /\ task[a].pc = "unused"
    /\ \A b \in 1 .. a - 1 : task[b].pc # "unused"
    /\ status' = "joining"
    /\ bad_password' = FALSE
    /\ task' = [task EXCEPT ![a] = [pc |-> "join", creds |-> creds]]
    /\ UNCHANGED <<serverVars, left, camera, meshVars, streamVars>>

\* What handle_join may answer; "error" when it is not reached.
Replies(creds) ==
    {"error"} \cup
    IF ~exists THEN IF creds = "claim" THEN {"ok"} ELSE {"need_password"}
    ELSE IF creds # "verify" THEN {"password_required"}
    ELSE {"ok", "password_required"} \cup (IF seated THEN {} ELSE {"full"})

\* An answer that lets nobody in, and a request that failed.
Refused(a, reply) ==
    /\ status' = reply
    /\ bad_password' = (\/ bad_password
                        \/ reply = "password_required" /\ task[a].creds = "verify")
    /\ GoesTo(a, "ended")
    /\ UNCHANGED streamVars

\* Mutant: dropping an EventSource does not close its connection.
ClosedByGarbage(slot) == source

\* SseStream::close, which dropping the stream of a slot calls too.
Closed(slot) == [b \in Attempts |-> IF b = slot THEN "closed" ELSE source[b]]

\* SseStream::open gives a stream, which replaces what was in the slot, or an
\* error.  Either way the task goes on to the camera.
Admitted(a) ==
    /\ \/ /\ status' = "connected"
          /\ source' = [Closed(stream) EXCEPT ![a] = "connecting"]
          /\ stream' = a
       \/ /\ status' = "error"
          /\ source' = [source EXCEPT ![a] = "failed"]
          /\ UNCHANGED stream
    /\ GoesTo(a, "camera")
    /\ UNCHANGED <<bad_password, drops>>

\* Mutant: the reply is not held against the page having been left.
JoinAnsweredUnchecked(a) ==
    /\ task[a].pc = "join"
    /\ \E reply \in Replies(task[a].creds) :
         /\ exists' = (exists \/ reply = "ok")
         /\ seated' = (seated \/ reply = "ok")
         /\ \/ Refused(a, "error")
            \/ reply = "ok" /\ Admitted(a)
            \/ reply # "ok" /\ Refused(a, reply)
    /\ UNCHANGED <<left, camera, meshVars, restarts>>

\* Mutant: whatever the server answers is shown.
JoinAnsweredRaw(a) ==
    /\ task[a].pc = "join"
    /\ \E reply \in Replies(task[a].creds) :
         /\ exists' = (exists \/ reply = "ok")
         /\ seated' = (seated \/ reply = "ok")
         /\ Refused(a, reply)
    /\ UNCHANGED <<left, camera, meshVars, restarts>>

\* The join is handled, and its answer arrives or is lost.  A page that was
\* left in the meantime takes no notice.
JoinAnswered(a) ==
    /\ task[a].pc = "join"
    /\ \E reply \in Replies(task[a].creds) :
         /\ exists' = (exists \/ reply = "ok")
         /\ seated' = (seated \/ reply = "ok")
         /\ IF left THEN GoesTo(a, "ended") /\ UNCHANGED <<uiVars, streamVars>>
            ELSE \/ Refused(a, "error")
                 \/ reply = "ok" /\ Admitted(a)
                 \/ reply # "ok" /\ Refused(a, reply)
    /\ UNCHANGED <<left, camera, meshVars, restarts>>

\* get_local_media: the prompt is answered, whether or not the page is still
\* there.  Without a camera the page joins all the same.
CameraAnswered(a) ==
    /\ task[a].pc = "camera"
    /\ camera' \in {camera, camera \cup {a}}
    /\ GoesTo(a, "ice")
    /\ UNCHANGED <<serverVars, uiVars, left, meshVars, streamVars>>

\* Mutant: the mesh is kept without a look at the page.
MeshBuiltUnchecked(a) ==
    /\ task[a].pc = "ice"
    /\ mesh' = a
    /\ heard' = [heard EXCEPT ![a] = early]
    /\ early' = << >>
    /\ camera' = camera \ {mesh}
    /\ ticker' \in {TRUE, ticker}
    /\ GoesTo(a, "ended")
    /\ UNCHANGED <<serverVars, uiVars, left, read, streamVars>>

\* Mutant: the mesh is in its slot first and the buffer stays as it was.
MeshBuiltUnreplayed(a) ==
    /\ task[a].pc = "ice"
    /\ IF left THEN camera' = camera \ {a} /\ UNCHANGED meshVars
       ELSE /\ mesh' = a
            /\ camera' = camera \ {mesh}
            /\ ticker' \in {TRUE, ticker}
            /\ UNCHANGED <<early, heard, read>>
    /\ GoesTo(a, "ended")
    /\ UNCHANGED <<serverVars, uiVars, left, streamVars>>

\* Mesh::new has its ICE configuration.  The mesh is closed again when the page
\* was left; else it reads what was kept for it and takes the slot.  Dropping
\* the mesh that was there closes it.  The interval is set once, if it can be.
MeshBuilt(a) ==
    /\ task[a].pc = "ice"
    /\ IF left
       THEN /\ camera' = camera \ {a}
            /\ UNCHANGED meshVars
       ELSE /\ heard' = [heard EXCEPT ![a] = early]
            /\ early' = << >>
            /\ camera' = camera \ {mesh}
            /\ mesh' = a
            /\ ticker' \in {TRUE, ticker}
            /\ UNCHANGED read
    /\ GoesTo(a, "ended")
    /\ UNCHANGED <<serverVars, uiVars, left, streamVars>>

-----------------------------------------------------------------------------
(* The event stream. *)

\* The handler gives an event to the mesh, or keeps it until there is one.
EventRead(a) ==
    /\ source[a] = "open"
    /\ read < MaxEvents
    /\ read' = read + 1
    /\ IF mesh # 0
       THEN /\ heard' = [heard EXCEPT ![mesh] = Append(heard[mesh], read + 1)]
            /\ UNCHANGED early
       ELSE /\ early' = Append(early, read + 1)
            /\ UNCHANGED heard
    /\ UNCHANGED <<serverVars, uiVars, left, task, camera, mesh, ticker, streamVars>>

\* The browser's request is answered with a stream ...
StreamOpens(a) ==
    /\ source[a] = "connecting"
    /\ seated
    /\ source' = [source EXCEPT ![a] = "open"]
    /\ UNCHANGED <<serverVars, uiVars, left, task, camera, meshVars, stream, drops>>

\* ... or with an error status, which EventSource takes for final.  The page
\* has no handler for that.
StreamRefused(a) ==
    /\ source[a] = "connecting"
    /\ ~seated
    /\ source' = [source EXCEPT ![a] = "closed"]
    /\ UNCHANGED <<serverVars, uiVars, left, task, camera, meshVars, stream, drops>>

\* The stream breaks or the server ends it: EventSource connects again.
StreamDrops(a) ==
    /\ source[a] = "open"
    /\ drops < MaxDrops
    /\ drops' = drops + 1
    /\ source' = [source EXCEPT ![a] = "connecting"]
    /\ UNCHANGED <<serverVars, uiVars, left, task, camera, meshVars, stream>>

-----------------------------------------------------------------------------
(* The user, and the server. *)

\* on_cleanup: what is in the slots is closed.
Leave ==
    /\ ~left
    /\ left' = TRUE
    /\ source' = Closed(stream)
    /\ stream' = 0
    /\ camera' = camera \ {mesh}
    /\ mesh' = 0
    /\ ticker' = FALSE
    /\ UNCHANGED <<serverVars, uiVars, task, early, heard, read, drops>>

\* Somebody else claims the room.
RoomClaimed ==
    /\ ~exists
    /\ exists' = TRUE
    /\ UNCHANGED <<seated, restarts, uiVars, left, task, camera, meshVars, streamVars>>

\* The server comes up again, with no rooms.
Restart ==
    /\ restarts < MaxRestarts
    /\ restarts' = restarts + 1
    /\ exists' = FALSE
    /\ seated' = FALSE
    /\ source' = [a \in Attempts |-> IF source[a] = "open" THEN "connecting"
                                                           ELSE source[a]]
    /\ UNCHANGED <<uiVars, left, task, camera, meshVars, stream, drops>>

-----------------------------------------------------------------------------

TaskStep(a) == JoinAnswered(a) \/ CameraAnswered(a) \/ MeshBuilt(a)

StreamStep(a) == StreamOpens(a) \/ StreamRefused(a)

PageNext ==
    \/ \E a \in Attempts :
         \/ \E creds \in Creds : Connect(a, creds)
         \/ JoinAnswered(a)
         \/ CameraAnswered(a)
         \/ MeshBuilt(a)
         \/ EventRead(a)
         \/ StreamOpens(a)
         \/ StreamRefused(a)
         \/ StreamDrops(a)
    \/ Leave
    \/ RoomClaimed
    \/ Restart

PageSpec == PageInit /\ [][PageNext]_vars

\* Requests are answered or fail, the camera prompt is answered, and
\* EventSource keeps trying.  What the user does, and events, drops and
\* restarts, happen or not.
PageFairness ==
    \A a \in Attempts : WF_vars(TaskStep(a)) /\ WF_vars(StreamStep(a))

FairPageSpec == PageSpec /\ PageFairness

-----------------------------------------------------------------------------
(* Properties. *)

Live(a) == source[a] \in {"connecting", "open"}

\* However forms and error screens are used, one request to join is under way
\* at a time, and it is under way exactly while the page says so: no attempt is
\* answered after another one has begun (pages/room.rs:155-161).
OneJoinAtATime ==
    /\ Cardinality({a \in Attempts : task[a].pc = "join"}) <= 1
    /\ ~left => (status = "joining" <=> \E a \in Attempts : task[a].pc = "join")

\* A page that is left between any two awaits of any of its attempts leaves no
\* stream, mesh or interval behind at any moment, and the camera only to a task
\* that is about to close it (pages/room.rs:188, :231-236, :280-301).
NothingLeftBehind ==
    left => /\ \A a \in Attempts : ~Live(a)
            /\ mesh = 0
            /\ ~ticker
            /\ \A a \in camera : task[a].pc = "ice"

\* One visit has one stream at most, the one cleanup can reach, and one camera
\* in use beside those that attempts are still setting up, whatever failed
\* before (.rules:26, services/signaling.rs:36-43, pages/room.rs:217-220).
OneStreamPerVisit ==
    /\ \A a \in Attempts : Live(a) => a = stream
    /\ \A a \in camera : a = mesh \/ task[a].pc = "ice"
    /\ status = "connected" /\ ~left => stream # 0

\* Unless an opening has failed, the mesh hears every event of the stream once
\* and in order, whether it came before the mesh, while it was being built, or
\* after (pages/room.rs:222-225, :237-243, :570-587).
EventsOnceInOrder ==
    ~left /\ (\A a \in Attempts : source[a] # "failed") =>
        (IF mesh = 0 THEN << >> ELSE heard[mesh]) \o early = [i \in 1 .. read |-> i]

\* Whatever was under way when the page was left, the camera goes off for good
\* (pages/room.rs:231-236, :286-290).
CameraGoesOut == left ~> [](camera = {})

\* A connected page that stays gets its mesh, and nothing waits for it any
\* longer (pages/room.rs:222-243).
MeshGetsBuilt ==
    <>[](status = "connected" /\ ~left) => <>[](mesh # 0 /\ early = << >>)

\* What README.md:130 says of a stream that ends: EventSource reconnects, and a
\* fresh resync is sent.
StreamComesBack ==
    \A a \in Attempts : source[a] = "connecting" ~> source[a] = "open" \/ left
=============================================================================
