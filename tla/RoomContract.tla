---------------------------- MODULE RoomContract ----------------------------
(***************************************************************************)
(* What a room promises about who is in it, with no handlers, locks or     *)
(* streams: one participant claims the room and thereby sets its password; *)
(* from then on a session is seated only by giving that password and only  *)
(* while a seat is free; a seated session may come back as often as it     *)
(* likes; nobody but a seated session listens to the room's events.        *)
(*                                                                         *)
(* RoomServer implements this contract (RoomServer!Contract).              *)
(***************************************************************************)
EXTENDS Naturals, FiniteSets

CONSTANTS
    Sessions,         \* session ids a browser may present
    Passwords,        \* non-empty passwords
    MaxParticipants,  \* seats in the room
    None              \* no password: the room does not exist yet

VARIABLES
    password,      \* the claim password, None before the claim
    seated,        \* the sessions that hold a seat
    entered_with,  \* the password each of them gave when it last came in
    listening      \* the sessions that listen to the room

vars == <<password, seated, entered_with, listening>>

Init ==
    /\ password = None
    /\ seated = {}
    /\ entered_with = [s \in Sessions |-> None]
    /\ listening = {}

\* The first participant creates the room and chooses its password.
Claim(s, pw) ==
    /\ password = None
    /\ password' = pw
    /\ seated' = {s}
    /\ entered_with' = [entered_with EXCEPT ![s] = pw]
    /\ UNCHANGED listening

\* Somebody who knows the password takes a free seat, or returns to theirs.
Admit(s, pw) ==
    /\ password # None
    /\ pw = password
    /\ s \in seated \/ Cardinality(seated) < MaxParticipants
    /\ seated' = seated \cup {s}
    /\ entered_with' = [entered_with EXCEPT ![s] = pw]
    /\ UNCHANGED <<password, listening>>

\* A seated session starts to listen.
Listen(s) ==
    /\ s \in seated
    /\ listening' = listening \cup {s}
    /\ UNCHANGED <<password, seated, entered_with>>

\* A listener goes quiet; it keeps its seat.
Leave(s) ==
    /\ listening' = listening \ {s}
    /\ UNCHANGED <<password, seated, entered_with>>

Next ==
    \E s \in Sessions :
        \/ \E pw \in Passwords : Claim(s, pw) \/ Admit(s, pw)
        \/ Listen(s)
        \/ Leave(s)

Spec == Init /\ [][Next]_vars
=============================================================================
