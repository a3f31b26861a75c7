-------------------------- MODULE LevelMeter_proofs --------------------------
(***************************************************************************)
(* Proofs about LevelMeter: who may hold the stage and what moves it, for  *)
(* any peers, any readings and any number of tries.                        *)
(***************************************************************************)
EXTENDS LevelMeter, SequenceTheorems, FiniteSetTheorems, TLAPS

\* What the meter knows is well typed.  The page's list is not part of it.
MeterWellTyped ==
    /\ Watched \subseteq Peers
    /\ levels \in [Watched -> Nat]
    /\ holder \in Peers \cup {None}

MeterInv == MeterWellTyped /\ HolderAudible

-----------------------------------------------------------------------------
(* Levels. *)

\* A smoothed level is a level.
LEMMA SmoothedIsLevel ==
    ASSUME NEW reading \in Nat, NEW previous \in Nat
    PROVE  Smoothed(reading, previous) \in Nat
  BY DEF Smoothed

LEMMA HeardIsLevel == Heard \subseteq Nat
  BY MeterAssumption DEF Heard

\* Whoever may have the stage after a sample is watched and well above silence:
\* the loudest is above the floor, and an incumbent that keeps the stage is not
\* far below the loudest.
LEMMA OwnersAudible ==
    ASSUME NEW S \in SUBSET Peers, NEW new \in [S -> Nat],
           NEW owner \in Owners(new)
    PROVE  \/ owner = None
           \/ owner \in S /\ 16 * new[owner] > 10 * SpeechFloor
  <1>1. CASE Loudest(new) = {}
    BY <1>1 DEF Owners
  <1>2. CASE Loudest(new) # {}
    <2>1. PICK best \in Loudest(new) :
             owner = IF holder \in DOMAIN new
                          /\ ~ClearlyLouder(new[best], new[holder])
                     THEN holder ELSE best
      BY <1>2 DEF Owners
    <2>2. best \in S /\ new[best] \in Nat /\ new[best] > SpeechFloor
      BY <2>1 DEF Loudest
    <2>3. CASE owner = best
      BY <2>2, <2>3 DEF SpeechFloor
    <2>4. CASE /\ owner = holder /\ holder \in DOMAIN new
               /\ ~ClearlyLouder(new[best], new[holder])
      <3>1. owner \in S /\ new[owner] \in Nat
        BY <2>4
      <3>2. ~(10 * new[best] >= 16 * new[owner])
        BY <2>4 DEF ClearlyLouder
      <3> QED  BY <2>2, <3>1, <3>2 DEF SpeechFloor
    <2> QED  BY <2>1, <2>3, <2>4
  <1> QED  BY <1>1, <1>2

-----------------------------------------------------------------------------
(* The invariant. *)

LEMMA MeterInvInit == MeterInit => MeterInv
  BY DEF MeterInit, MeterInv, MeterWellTyped, HolderAudible, Watched

LEMMA WatchKeeps ==
    ASSUME MeterInv, NEW p \in Peers, Watch(p)
    PROVE  MeterInv'
  <1> DEFINE more == [q \in Watched \cup {p} |-> IF q = p THEN 0 ELSE levels[q]]
  <1>1. p \notin Watched /\ levels' = more /\ holder' = holder
    BY DEF Watch
  <1>2. more \in [Watched \cup {p} -> Nat] /\ DOMAIN more = Watched \cup {p}
        /\ \A q \in Watched : more[q] = levels[q]
    BY <1>1 DEF MeterInv, MeterWellTyped
  <1>3. Watched' = Watched \cup {p}
    BY <1>1, <1>2 DEF Watched
  <1> HIDE DEF more
  <1> QED  BY <1>1, <1>2, <1>3 DEF MeterInv, MeterWellTyped, HolderAudible

LEMMA PeerLeftKeeps ==
    ASSUME MeterInv, NEW p \in Peers, PeerLeft(p)
    PROVE  MeterInv'
  <1> DEFINE rest == [q \in Watched \ {p} |-> levels[q]]
  <1>1. levels' = rest /\ holder' = IF holder = p THEN None ELSE holder
    BY DEF PeerLeft
  <1>2. rest \in [Watched \ {p} -> Nat] /\ DOMAIN rest = Watched \ {p}
        /\ \A q \in Watched \ {p} : rest[q] = levels[q]
    BY DEF MeterInv, MeterWellTyped
  <1>3. Watched' = Watched \ {p}
    BY <1>1, <1>2 DEF Watched
  <1> HIDE DEF rest
  <1> QED  BY <1>1, <1>2, <1>3 DEF MeterInv, MeterWellTyped, HolderAudible

LEMMA TickKeeps ==
    ASSUME MeterInv, Tick
    PROVE  MeterInv'
  <1>1. PICK heard \in [Watched -> Heard] :
           LET new == [p \in Watched |-> Smoothed(heard[p], levels[p])]
           IN  levels' = new /\ holder' \in Owners(new)
    BY DEF Tick
  <1> DEFINE new == [p \in Watched |-> Smoothed(heard[p], levels[p])]
  <1>2. levels' = new /\ holder' \in Owners(new)
    BY <1>1
  <1>3. new \in [Watched -> Nat]
    <2>1. \A p \in Watched : heard[p] \in Nat /\ levels[p] \in Nat
      BY HeardIsLevel DEF MeterInv, MeterWellTyped
    <2> QED  BY <2>1, SmoothedIsLevel
  <1>4. Watched \in SUBSET Peers /\ DOMAIN new = Watched
    BY DEF MeterInv, MeterWellTyped
  <1> HIDE DEF new
  <1>5. Watched' = Watched
    BY <1>2, <1>4 DEF Watched
  <1>6. \/ holder' = None
        \/ holder' \in Watched /\ 16 * new[holder'] > 10 * SpeechFloor
    BY <1>2, <1>3, <1>4, OwnersAudible
  <1> QED  BY <1>2, <1>3, <1>4, <1>5, <1>6 DEF MeterInv, MeterWellTyped,
                                               HolderAudible

LEMMA MeterInvStep == MeterInv /\ [MeterNext]_vars => MeterInv'
  <1> SUFFICES ASSUME MeterInv, [MeterNext]_vars PROVE MeterInv'
    OBVIOUS
  <1>1. ASSUME UNCHANGED <<levels, holder>>
        PROVE  MeterInv'
    BY <1>1 DEF MeterInv, MeterWellTyped, HolderAudible, Watched
  <1>2. ASSUME NEW p \in Peers, Watch(p) \/ PeerJoined(p) \/ PeerLeft(p)
        PROVE  MeterInv'
    BY <1>1, <1>2, WatchKeeps, PeerLeftKeeps DEF PeerJoined, meterVars
  <1>3. CASE Resync \/ Resumed \/ Gesture \/ BecomesSteady
    BY <1>1, <1>3 DEF Resync, Resumed, Gesture, BecomesSteady, meterVars
  <1>4. CASE Tick
    BY <1>4, TickKeeps
  <1>5. CASE UNCHANGED vars
    BY <1>1, <1>5 DEF vars, meterVars
  <1> QED  BY <1>2, <1>3, <1>4, <1>5 DEF MeterNext

\* For any peers and readings, who holds the stage is watched and was not silent
\* at the last sample (services/audio_level.rs:109-118, :131-146).
THEOREM HolderIsAudible == MeterSpec => []HolderAudible
  <1>1. MeterInv => HolderAudible
    BY DEF MeterInv
  <1> QED  BY <1>1, MeterInvInit, MeterInvStep, PTL DEF MeterSpec

-----------------------------------------------------------------------------
(* The page's list. *)

\* A peer is listed once.
ListOK ==
    /\ list \in Seq(Peers)
    /\ \A i, j \in 1 .. Len(list) : list[i] = list[j] => i = j

\* What removing a place from a sequence leaves.
LEMMA RemoveAtShifts ==
    ASSUME NEW S, NEW old \in Seq(S), NEW i \in 1 .. Len(old)
    PROVE  /\ RemoveAt(old, i) \in Seq(S)
           /\ Len(RemoveAt(old, i)) = Len(old) - 1
           /\ \A j \in 1 .. Len(old) - 1 :
                RemoveAt(old, i)[j] = IF j < i THEN old[j] ELSE old[j + 1]
  <1> DEFINE a == SubSeq(old, 1, i - 1)
             b == SubSeq(old, i + 1, Len(old))
  <1>1. Len(old) \in Nat /\ i \in Int /\ \A j \in 1 .. Len(old) : old[j] \in S
    BY LenProperties, ElementOfSeq
  <1>2. /\ a \in Seq(S) /\ Len(a) = i - 1
        /\ \A j \in 1 .. i - 1 : a[j] = old[j]
    <2>1. \A j \in 1 .. i - 1 : old[j] \in S
      BY <1>1
    <2>2. /\ a \in Seq(S)
          /\ Len(a) = IF 1 <= i - 1 THEN (i - 1) - 1 + 1 ELSE 0
          /\ \A j \in 1 .. (i - 1) - 1 + 1 : a[j] = old[1 + j - 1]
      BY <1>1, <2>1, SubSeqProperties
    <2> HIDE DEF a
    <2>3. Len(a) = i - 1
      BY <1>1, <2>2
    <2>4. \A j \in 1 .. i - 1 : j \in 1 .. (i - 1) - 1 + 1 /\ 1 + j - 1 = j
      BY <1>1
    <2> QED  BY <2>2, <2>3, <2>4
  <1>3. /\ b \in Seq(S) /\ Len(b) = Len(old) - i
        /\ \A j \in 1 .. Len(old) - i : b[j] = old[i + j]
    <2>1. \A j \in i + 1 .. Len(old) : old[j] \in S
      BY <1>1
    <2>2. /\ b \in Seq(S)
          /\ Len(b) = IF i + 1 <= Len(old) THEN Len(old) - (i + 1) + 1 ELSE 0
          /\ \A j \in 1 .. Len(old) - (i + 1) + 1 : b[j] = old[(i + 1) + j - 1]
      BY <1>1, <2>1, SubSeqProperties
    <2> HIDE DEF b
    <2>3. Len(b) = Len(old) - i
      BY <1>1, <2>2
    <2>4. \A j \in 1 .. Len(old) - i : /\ j \in 1 .. Len(old) - (i + 1) + 1
                                       /\ (i + 1) + j - 1 = i + j
      BY <1>1
    <2> QED  BY <2>2, <2>3, <2>4
  <1> HIDE DEF a, b
  <1>4. /\ a \o b \in Seq(S)
        /\ Len(a \o b) = Len(a) + Len(b)
        /\ \A j \in 1 .. Len(a) + Len(b) :
             (a \o b)[j] = IF j <= Len(a) THEN a[j] ELSE b[j - Len(a)]
    BY <1>2, <1>3, ConcatProperties
  <1>5. RemoveAt(old, i) = a \o b
    BY DEF RemoveAt, a, b
  <1> DEFINE new == a \o b
  <1> HIDE DEF new
  <1>6. Len(a) + Len(b) = Len(old) - 1
    BY <1>1, <1>2, <1>3
  <1>7. ASSUME NEW j \in 1 .. Len(old) - 1
        PROVE  new[j] = IF j < i THEN old[j] ELSE old[j + 1]
    <2>1. CASE j < i
      <3>1. j <= Len(a) /\ j \in 1 .. i - 1 /\ j \in 1 .. Len(a) + Len(b)
        BY <1>1, <1>2, <1>6, <2>1
      <3> QED  BY <1>2, <1>4, <2>1, <3>1 DEF new
    <2>2. CASE ~(j < i)
      <3>1. /\ ~(j <= Len(a)) /\ j \in 1 .. Len(a) + Len(b)
            /\ j - Len(a) \in 1 .. Len(old) - i /\ i + (j - Len(a)) = j + 1
        BY <1>1, <1>2, <1>6, <2>2
      <3>2. new[j] = b[j - Len(a)]
        BY <1>4, <3>1 DEF new
      <3>3. b[j - Len(a)] = old[j + 1]
        BY <1>3, <3>1
      <3> QED  BY <2>2, <3>2, <3>3
    <2> QED  BY <2>1, <2>2
  <1> QED  BY <1>4, <1>5, <1>6, <1>7 DEF new

\* Who leaves is listed no more, and the others stay in their order.
LEMMA ListLeft ==
    ASSUME ListOK, NEW p \in Peers, PeerLeft(p)
    PROVE  /\ ListOK'
           /\ p \notin Listed'
           /\ list # << >> /\ list[1] # p => list' # << >> /\ list'[1] = list[1]
  <1>1. PICK i \in 1 .. Len(list) : list[i] = p /\ list' = RemoveAt(list, i)
    BY DEF PeerLeft
  <1>2. Len(list) \in Nat /\ i \in Int
    BY LenProperties DEF ListOK
  <1>3. /\ list' \in Seq(Peers) /\ Len(list') = Len(list) - 1
        /\ \A j \in 1 .. Len(list) - 1 :
             list'[j] = IF j < i THEN list[j] ELSE list[j + 1]
    BY <1>1, RemoveAtShifts DEF ListOK
  <1> DEFINE place(j) == IF j < i THEN j ELSE j + 1
  <1>4. \A j \in 1 .. Len(list') : /\ list'[j] = list[place(j)]
                                   /\ place(j) \in 1 .. Len(list)
                                   /\ place(j) # i
    BY <1>2, <1>3
  <1>5. \A j, k \in 1 .. Len(list') : place(j) = place(k) => j = k
    BY <1>2, <1>3
  <1>6. ListOK'
    <2> HIDE DEF place
    <2>1. \A j, k \in 1 .. Len(list') : list'[j] = list'[k] => j = k
      BY <1>4, <1>5 DEF ListOK
    <2> QED  BY <1>3, <2>1 DEF ListOK
  <1>7. p \notin Listed'
    <2> HIDE DEF place
    <2> QED  BY <1>1, <1>4 DEF ListOK, Listed
  <1>8. ASSUME list[1] # p
        PROVE  list' # << >> /\ list'[1] = list[1]
    <2>1. i # 1 /\ 1 < i /\ 1 \in 1 .. Len(list) - 1
      BY <1>1, <1>2, <1>8
    <2> QED  BY <1>3, <2>1, EmptySeq
  <1> QED  BY <1>6, <1>7, <1>8

LEMMA ListJoined ==
    ASSUME ListOK, NEW p \in Peers, PeerJoined(p)
    PROVE  /\ ListOK'
           /\ list # << >> => list' # << >> /\ list'[1] = list[1]
  <1>1. p \notin Listed /\ list' = Append(list, p)
    BY DEF PeerJoined
  <1>2. /\ list' \in Seq(Peers) /\ list' # << >>
        /\ Len(list') = Len(list) + 1 /\ Len(list) \in Nat
        /\ \A i \in 1 .. Len(list) : list'[i] = list[i]
        /\ list'[Len(list) + 1] = p
    BY <1>1, AppendProperties, LenProperties DEF ListOK
  <1>3. \A i \in 1 .. Len(list') : i \in 1 .. Len(list) \/ i = Len(list) + 1
    BY <1>2
  <1>4. \A i, j \in 1 .. Len(list') : list'[i] = list'[j] => i = j
    BY <1>1, <1>2, <1>3 DEF ListOK, Listed
  <1>5. list # << >> => 1 \in 1 .. Len(list)
    BY <1>2, EmptySeq DEF ListOK
  <1> QED  BY <1>2, <1>4, <1>5 DEF ListOK

LEMMA ListResynced ==
    ASSUME Resync
    PROVE  ListOK'
  <1>1. PICK P \in SUBSET Peers : list' \in Bijection(1 .. Cardinality(P), P)
    BY DEF Resync
  <1>2. Cardinality(P) \in Nat
    BY PeersAssumption, FS_Subset, FS_CardinalityType
  <1>3. /\ list' \in [1 .. Cardinality(P) -> P]
        /\ \A i, j \in 1 .. Cardinality(P) : list'[i] = list'[j] => i = j
    BY <1>1 DEF Bijection, Injection, IsInjective
  <1>4. list' \in [1 .. Cardinality(P) -> Peers]
    BY <1>3
  <1>5. list' \in Seq(Peers) /\ Len(list') = Cardinality(P)
    BY <1>2, <1>4, SeqDef, LenProperties
  <1> QED  BY <1>3, <1>5 DEF ListOK

LEMMA ListStep == ListOK /\ [MeterNext]_vars => ListOK'
  <1> SUFFICES ASSUME ListOK, [MeterNext]_vars PROVE ListOK'
    OBVIOUS
  <1>1. CASE UNCHANGED list
    BY <1>1 DEF ListOK
  <1> QED
    BY <1>1, ListJoined, ListLeft, ListResynced
    DEF MeterNext, Watch, Tick, Resumed, Gesture, BecomesSteady, vars

-----------------------------------------------------------------------------
(* Types, and what moves the stage. *)

ContextOK ==
    /\ speaker \in Peers \cup {None}
    /\ parked \in BOOLEAN
    /\ resume_tries \in 0 .. MaxResumeTries
    /\ resuming \in BOOLEAN
    /\ gesture \in BOOLEAN
    /\ steady \in BOOLEAN

LEMMA ContextStep ==
    MeterInv /\ MeterInv' /\ ContextOK /\ [MeterNext]_vars => ContextOK'
  <1> SUFFICES ASSUME MeterInv, MeterInv', ContextOK, [MeterNext]_vars
               PROVE  ContextOK'
    OBVIOUS
  <1>1. CASE Tick
    <2>1. speaker' = holder' /\ UNCHANGED <<parked, gesture, steady>>
      BY <1>1 DEF Tick
    <2>2. resume_tries' \in 0 .. MaxResumeTries /\ resuming' \in BOOLEAN
      <3>1. EnsureRunning
        BY <1>1 DEF Tick
      <3>2. CASE parked /\ resume_tries < MaxResumeTries
        BY <3>1, <3>2, MeterAssumption DEF EnsureRunning, ContextOK
      <3>3. CASE ~(parked /\ resume_tries < MaxResumeTries)
        BY <3>1, <3>3 DEF EnsureRunning, ContextOK
      <3> QED  BY <3>2, <3>3
    <2> QED  BY <2>1, <2>2 DEF ContextOK, MeterInv, MeterWellTyped
  <1>2. CASE Resumed
    BY <1>2 DEF Resumed, ContextOK, meterVars
  <1>3. CASE Gesture \/ BecomesSteady
    BY <1>3 DEF Gesture, BecomesSteady, ContextOK, meterVars, contextVars
  <1>4. CASE UNCHANGED <<speaker, resume_tries, contextVars, steady>>
    BY <1>4 DEF ContextOK, contextVars
  <1> QED
    BY <1>1, <1>2, <1>3, <1>4
    DEF MeterNext, Watch, PeerJoined, PeerLeft, Resync, vars, meterVars

LEMMA MeterHolds == MeterSpec => [](MeterInv /\ ListOK /\ ContextOK)
  <1>1. MeterInit => ListOK /\ ContextOK
    <2> SUFFICES ASSUME MeterInit PROVE ListOK /\ ContextOK
      OBVIOUS
    <2>1. ListOK
      <3>1. << >> \in Seq(Peers) /\ Len(<< >>) = 0
        BY EmptySeq
      <3> QED  BY <3>1 DEF MeterInit, ListOK
    <2>2. gesture \in BOOLEAN /\ parked \in BOOLEAN
      <3>1. gesture \in BOOLEAN /\ parked = ~gesture
        BY DEF MeterInit
      <3>2. parked \in BOOLEAN
        BY <3>1, Zenon
      <3> QED  BY <3>1, <3>2
    <2>3. speaker \in Peers \cup {None} /\ resume_tries \in 0 .. MaxResumeTries
      BY MeterAssumption DEF MeterInit
    <2>4. resuming \in BOOLEAN /\ steady \in BOOLEAN
      BY Zenon DEF MeterInit
    <2> QED  BY <2>1, <2>2, <2>3, <2>4, Zenon DEF ContextOK
  <1>2. MeterSpec => []MeterInv
    BY MeterInvInit, MeterInvStep, PTL DEF MeterSpec
  <1>3. MeterSpec => []ListOK
    BY <1>1, ListStep, PTL DEF MeterSpec
  <1>4. MeterSpec => []ContextOK
    BY <1>1, <1>2, ContextStep, PTL DEF MeterSpec
  <1> QED  BY <1>2, <1>3, <1>4, PTL

\* For any peers, readings and tries the meter and the page's choice stay well
\* typed: a level is never negative, the tries are never more than the limit, and
\* the page lists a peer once, over arrivals, departures and resyncs
\* (services/audio_level.rs:118-176, pages/room.rs:589-617).
THEOREM MeterTypeCorrect == MeterSpec => []MeterTypeOK
  <1>1. MeterInv /\ ListOK /\ ContextOK => MeterTypeOK
    BY DEF MeterInv, MeterWellTyped, ListOK, ContextOK, MeterTypeOK
  <1> QED  BY <1>1, MeterHolds, PTL

\* Arrivals and departures of others never move the stage, whoever the meter
\* names (on_stage, pages/room.rs:104-116).
THEOREM StageIsKept == MeterSpec => StageKept
  <1>1. ListOK /\ ListOK' /\ [MeterNext]_vars =>
          /\ list' # << >> => OnStage' \in Listed'
          /\ OnStage' # OnStage =>
               \/ OnStage \notin Listed'
               \/ speaker' # speaker
               \/ /\ speaker \notin Listed
                  /\ \/ OnStage' = speaker
                     \/ ~\E p \in Peers : PeerJoined(p) \/ PeerLeft(p)
    <2> SUFFICES ASSUME ListOK, ListOK', [MeterNext]_vars
                 PROVE  /\ list' # << >> => OnStage' \in Listed'
                        /\ OnStage' # OnStage =>
                             \/ OnStage \notin Listed'
                             \/ speaker' # speaker
                             \/ /\ speaker \notin Listed
                                /\ \/ OnStage' = speaker
                                   \/ ~\E p \in Peers : PeerJoined(p) \/ PeerLeft(p)
      OBVIOUS
    <2>1. list # << >> => Head(list) = list[1] /\ list[1] \in Listed
      <3>1. list # << >> => 1 \in 1 .. Len(list)
        BY EmptySeq DEF ListOK
      <3> QED  BY <3>1, HeadTailProperties DEF ListOK, Listed
    <2>2. list' # << >> => Head(list') = list'[1] /\ list'[1] \in Listed'
      <3>1. list' # << >> => 1 \in 1 .. Len(list')
        BY EmptySeq DEF ListOK
      <3> QED  BY <3>1, HeadTailProperties DEF ListOK, Listed
    <2>3. list' # << >> => OnStage' \in Listed'
      BY <2>2 DEF OnStage
    <2>4. Listed' \subseteq Peers /\ (Listed' # {} => list' # << >>)
      BY ElementOfSeq, EmptySeq DEF ListOK, Listed
    <2>5. ASSUME OnStage' # OnStage, OnStage \in Listed', speaker' = speaker
          PROVE  /\ speaker \notin Listed
                 /\ OnStage' # speaker =>
                      ~\E p \in Peers : PeerJoined(p) \/ PeerLeft(p)
      <3>1. speaker \notin Listed
        BY <2>5 DEF OnStage
      <3>2. list # << >> /\ OnStage = list[1] /\ list' # << >>
        BY <2>1, <2>4, <2>5, <3>1, MeterAssumption DEF OnStage
      <3>3. ASSUME OnStage' # speaker, NEW p \in Peers, PeerJoined(p) \/ PeerLeft(p)
            PROVE  FALSE
        <4>1. OnStage' = list'[1]
          BY <2>2, <2>5, <3>2, <3>3 DEF OnStage
        <4>2. CASE PeerJoined(p)
          BY <2>5, <3>2, <4>1, <4>2, ListJoined
        <4>3. CASE PeerLeft(p)
          <5>1. p \notin Listed'
            BY <4>3, ListLeft
          <5>2. list[1] # p
            BY <2>5, <3>2, <5>1
          <5> QED  BY <2>5, <3>2, <4>1, <4>3, <5>2, ListLeft
        <4> QED  BY <3>3, <4>2, <4>3
      <3> QED  BY <3>1, <3>3
    <2> QED  BY <2>3, <2>5
  <1> QED  BY <1>1, MeterHolds, PTL DEF MeterSpec, StageKept
=============================================================================
