------------------------------ MODULE LevelMeter ------------------------------
(***************************************************************************)
(* Who is shown large: the level meter of services/audio_level.rs, the     *)
(* interval of the room page that polls it, and the page's choice of the   *)
(* stage (on_stage in pages/room.rs).                                      *)
(*                                                                         *)
(* Levels are in thousandths of full scale, rounded down where the code    *)
(* has an f32.  The order in which a HashMap is visited decides between    *)
(* equal levels: any of them may win.                                      *)
(*                                                                         *)
(* peer-left is one of the events of types.rs and the page and the mesh    *)
(* handle it, though no handler of this repository's server sends it.      *)
(***************************************************************************)
EXTENDS Integers, FiniteSets, SequencesExt

CONSTANTS
    Peers,            \* session ids of the others
    Readings,         \* the RMS a tick may find on a peer's stream
    Similar,          \* those of them that are close to each other
    MaxResumeTries,   \* MAX_RESUME_TRIES, 5 in the code
    None              \* no holder, no speaker

ASSUME MeterAssumption ==
    /\ 0 \in Readings
    /\ Readings \subseteq Nat
    /\ Similar \subseteq Readings
    /\ MaxResumeTries \in Nat
    /\ None \notin Peers

ASSUME PeersAssumption == IsFiniteSet(Peers)

VARIABLES
    list,           \* the peers signal: ids in the order of arrival
    levels,         \* LevelMeter::levels; its keys are those of inputs
    holder,         \* LevelMeter::holder
    speaker,        \* the speaker signal
    parked,         \* the AudioContext is suspended
    resume_tries,   \* LevelMeter::resume_tries
    resuming,       \* a resume() of the context is pending
    gesture,        \* the page has had a user gesture
    steady          \* from now on all readings are similar

meterVars   == <<levels, holder, resume_tries>>
contextVars == <<parked, resuming, gesture>>
vars        == <<list, speaker, meterVars, contextVars, steady>>

-----------------------------------------------------------------------------
(* The constants of the code. *)

\* SPEECH_FLOOR
SpeechFloor == 20

\* Mutant: a slip of the sign.
SmoothedSlipped(reading, previous) == (3 * reading - 7 * previous) \div 10

\* SMOOTHING: three tenths of each reading.
Smoothed(reading, previous) == (3 * reading + 7 * previous) \div 10

\* Mutant: no hysteresis.
LouderAtAll(challenger, incumbent) == challenger > incumbent

\* SWITCH_RATIO: a challenger must be 1.6 times as loud.
ClearlyLouder(challenger, incumbent) == 10 * challenger >= 16 * incumbent

-----------------------------------------------------------------------------

Watched == DOMAIN levels

Listed == {list[i] : i \in 1 .. Len(list)}

\* A peer is listed once.
MeterTypeOK ==
    /\ list \in Seq(Peers)
    /\ \A i, j \in 1 .. Len(list) : list[i] = list[j] => i = j
    /\ Watched \subseteq Peers
    /\ levels \in [Watched -> Nat]
    /\ holder \in Peers \cup {None}
    /\ speaker \in Peers \cup {None}
    /\ parked \in BOOLEAN
    /\ resume_tries \in 0 .. MaxResumeTries
    /\ resuming \in BOOLEAN
    /\ gesture \in BOOLEAN
    /\ steady \in BOOLEAN

\* The context is parked unless the user has touched the page already.
MeterInit ==
    /\ list = << >>
    /\ levels = [p \in {} |-> 0]
    /\ holder = None
    /\ speaker = None
    /\ gesture \in BOOLEAN
    /\ parked = ~gesture
    /\ resume_tries = 0
    /\ resuming = FALSE
    /\ steady = FALSE

-----------------------------------------------------------------------------
(* Peers come and go. *)

PeerJoined(p) ==
    /\ p \notin Listed
    /\ list' = Append(list, p)
    /\ UNCHANGED <<speaker, meterVars, contextVars, steady>>

\* A resync lists whom the server has seated, in the order its map has them in
\* now.  The meter forgets nobody for it.
Resync ==
    /\ \E P \in SUBSET Peers : list' \in Bijection(1 .. Cardinality(P), P)
    /\ UNCHANGED <<speaker, meterVars, contextVars, steady>>

\* ontrack: the stream of a peer is there and is watched.  A peer that is
\* watched already is not watched again.  Without an analyser it goes unheard.
Watch(p) ==
    /\ p \in Listed \ Watched
    /\ levels' = [q \in Watched \cup {p} |-> IF q = p THEN 0 ELSE levels[q]]
    /\ UNCHANGED <<list, speaker, holder, resume_tries, contextVars, steady>>

\* The mesh closes the connection, which makes the meter forget the peer, and
\* the page takes it off its list, where it stands once: a resync comes from a
\* map and a peer that is listed is not listed again.  The speaker signal waits
\* for the next tick.
PeerLeft(p) ==
    /\ \E i \in 1 .. Len(list) : list[i] = p /\ list' = RemoveAt(list, i)
    /\ levels' = [q \in Watched \ {p} |-> levels[q]]
    /\ holder' = IF holder = p THEN None ELSE holder
    /\ UNCHANGED <<speaker, resume_tries, contextVars, steady>>

-----------------------------------------------------------------------------
(* The tick of the page's interval: dominant_speaker, sample. *)

\* The loudest of those above the floor.
Loudest(new) ==
    {p \in DOMAIN new : /\ new[p] > SpeechFloor
                        /\ \A q \in DOMAIN new : new[q] <= new[p]}

\* Mutant: in a quiet room the last holder stays.
OwnersSticky(new) ==
    IF Loudest(new) = {} THEN {holder}
    ELSE {IF holder \in DOMAIN new /\ ~ClearlyLouder(new[best], new[holder])
          THEN holder ELSE best : best \in Loudest(new)}

\* Who may have the stage after a sample that left the levels at new: nobody in
\* a quiet room; the incumbent, unless the challenger is clearly louder.
Owners(new) ==
    IF Loudest(new) = {} THEN {None}
    ELSE {IF holder \in DOMAIN new /\ ~ClearlyLouder(new[best], new[holder])
          THEN holder ELSE best : best \in Loudest(new)}

\* What a stream may read: silence while the context is parked.
Heard == IF parked THEN {0} ELSE IF steady THEN Similar ELSE Readings

\* Mutant: one try is all there is.
EnsureRunningOnce ==
    IF parked /\ resume_tries = 0
    THEN resume_tries' = 1 /\ resuming' = TRUE
    ELSE UNCHANGED <<resume_tries, resuming>>

\* ensure_running asks a parked context to start, a bounded number of times.
EnsureRunning ==
    IF parked /\ resume_tries < MaxResumeTries
    THEN resume_tries' = resume_tries + 1 /\ resuming' = TRUE
    ELSE UNCHANGED <<resume_tries, resuming>>

Tick ==
    /\ EnsureRunning
    /\ \E heard \in [Watched -> Heard] :
         LET new == [p \in Watched |-> Smoothed(heard[p], levels[p])]
         IN  /\ levels' = new
             /\ holder' \in Owners(new)
             /\ speaker' = holder'
    /\ UNCHANGED <<list, parked, gesture, steady>>

\* Mutant: the newcomer has it.
OnStageLast ==
    IF speaker \in Listed THEN speaker
    ELSE IF list = << >> THEN None ELSE list[Len(list)]

\* on_stage: the speaker, if it is still listed, else the first peer.
OnStage ==
    IF speaker \in Listed THEN speaker
    ELSE IF list = << >> THEN None ELSE Head(list)

-----------------------------------------------------------------------------
(* The browser and the user. *)

\* A context that was asked to may start once there has been a gesture; before
\* that the request is rejected.
Resumed ==
    /\ resuming
    /\ resuming' = FALSE
    /\ parked' = (parked /\ ~gesture)
    /\ UNCHANGED <<list, speaker, meterVars, gesture, steady>>

Gesture ==
    /\ ~gesture
    /\ gesture' = TRUE
    /\ UNCHANGED <<list, speaker, meterVars, parked, resuming, steady>>

\* Everybody is there, and from now on talks at a similar volume.
BecomesSteady ==
    /\ ~steady
    /\ ~parked
    /\ Watched = Peers
    /\ steady' = TRUE
    /\ UNCHANGED <<list, speaker, meterVars, contextVars>>

-----------------------------------------------------------------------------

MeterNext ==
    \/ \E p \in Peers : Watch(p)
    \/ \E p \in Peers : ~steady /\ (PeerJoined(p) \/ PeerLeft(p))
    \/ ~steady /\ Resync
    \/ Tick
    \/ Resumed
    \/ Gesture
    \/ BecomesSteady

MeterSpec == MeterInit /\ [][MeterNext]_vars

\* The interval ticks, and the browser answers.
FairMeterSpec == MeterSpec /\ WF_vars(Tick) /\ WF_vars(Resumed)

-----------------------------------------------------------------------------
(* Properties. *)

\* The stage has an owner whenever anybody is listed, and passes from a peer
\* that stays only when a tick names another one, when the peer the meter last
\* named is back, or when a resync lists another one first while the meter names
\* nobody who is listed: arrivals and departures of others do not move it.  The
\* meter is polled and may name a peer that left a moment ago
\* (pages/room.rs:104-116, :589-617).
StageKept ==
    [][/\ list' # << >> => OnStage' \in Listed'
       /\ OnStage' # OnStage =>
            \/ OnStage \notin Listed'
            \/ speaker' # speaker
            \/ /\ speaker \notin Listed
               /\ \/ OnStage' = speaker
                  \/ ~\E p \in Peers : PeerJoined(p) \/ PeerLeft(p)]_vars

\* Who holds the stage is still watched, and was not silent at the last sample:
\* a peer below the floor keeps it only against a challenger that is not clearly
\* louder (services/audio_level.rs:101-111, :128-145).
HolderAudible ==
    holder # None => /\ holder \in Watched
                     /\ 16 * levels[holder] > 10 * SpeechFloor

\* Two people of similar volume do not hand the stage back and forth: once all
\* talk alike, it stays with one of them (services/audio_level.rs:28-31).
StageSettles == <>steady => \E p \in Peers : <>[](holder = p)

\* A gesture that comes before the tries are used up gets the meter going, though
\* the tries before it were rejected and its own answer may be late; after the
\* last one the code gives up for good (services/audio_level.rs:33-36).
GestureHeard == (gesture /\ resume_tries < MaxResumeTries) ~> ~parked
=============================================================================
