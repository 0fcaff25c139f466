--------------------------- MODULE AdhanStopProofs ---------------------------
(***************************************************************************)
(* Theorems about playing and stopping the adhan on Windows, for any       *)
(* number of players and stoppers, of adhans, stops and faults.            *)
(***************************************************************************)
EXTENDS AdhanStop, TLAPS

\* Counts and the event's state, which TypeOK leaves out.
DataOK == signaled \in BOOLEAN /\ adhans \in Nat /\ stops \in Nat /\ faults \in Nat

\* The types of all but the event's state and the counts.
Parts ==
  /\ at \in [Players -> {"out", "ready", "created", "registered", "playing", "stopped"}]
  /\ holds \in [Players -> SUBSET Resources]
  /\ deaf \subseteq Players
  /\ sounding \subseteq {p \in Players : "audio" \in holds[p]}
  /\ doing \in [Stoppers -> {"idle", "opened", "set"}]
  /\ opened = {s \in Stoppers : doing[s] # "idle"}
  /\ told \in [Stoppers -> {"nothing", "none_playing", "stopped"}]

\* A player in its adhan keeps the event, unless Windows refused it.
Hears(p) == InAdhan(p) /\ p \notin deaf
Heard == \A p \in Players : Hears(p) => "event" \in holds[p]

\* A stopper that has set the event finds it set until it closes its handle:
\* the event is set by hand and nothing resets it.
StaysSet == \A s \in Stoppers : doing[s] = "set" => signaled

IInv == TypeOK /\ DataOK /\ LeavesNothing /\ Heard /\ StaysSet

-----------------------------------------------------------------------------
LEMMA InitInv == Init => IInv
<1> SUFFICES ASSUME Init PROVE IInv
  OBVIOUS
<1>1. TypeOK /\ DataOK
  BY DEF Init, TypeOK, DataOK
<1>2. LeavesNothing
  BY DEF Init, LeavesNothing, InAdhan
<1>3. Heard /\ StaysSet
  BY DEF Init, Heard, Hears, InAdhan, StaysSet
<1> QED BY <1>1, <1>2, <1>3 DEF IInv

\* Taking takes from nobody.
LEMMA Takes ==
  ASSUME Parts, NEW p \in Players, NEW r \in SUBSET Resources, Take(p, r)
  PROVE  /\ holds' \in [Players -> SUBSET Resources]
         /\ holds'[p] = holds[p] \cup r
         /\ \A q \in Players : holds[q] \subseteq holds'[q] /\ (q # p => holds'[q] = holds[q])
BY DEF Parts, Take

\* What a step does to the event: either nobody lets go of it and its state
\* stays or turns to set, or EventAfter sees to it.
LEMMA EventStep ==
  ASSUME TypeOK, [Next]_vars
  PROVE  \/ signaled' = signaled /\ WithEvent \subseteq WithEvent'
         \/ signaled' = TRUE /\ WithEvent' = WithEvent /\ EventExists
         \/ EventAfter(signaled)
<1>0. Parts
  BY DEF TypeOK, Parts
<1> USE <1>0 DEF TypeOK, WithEvent, EventExists, Take, Goto
<1>1. ASSUME NEW p \in Players, Player(p) \/ RecitationEnds(p) \/ Kill(p)
      PROVE  \/ signaled' = signaled /\ WithEvent \subseteq WithEvent'
             \/ EventAfter(signaled)
  <2>1. CASE NotifyInit(p)
    <3>1. holds' = holds \/ \E r \in SUBSET Resources : Take(p, r)
      BY <2>1 DEF NotifyInit, InitHolds, Resources
    <3> QED BY <2>1, <3>1, Takes DEF NotifyInit
  <2>2. CASE NotifyCleanup(p)
    BY <2>2 DEF NotifyCleanup
  <2>3. CASE CreateEvent(p)
    BY <2>3 DEF CreateEvent
  <2>4. CASE Register(p)
    <3>1. holds' = holds \/ \E r \in SUBSET Resources : Take(p, r)
      BY <2>4 DEF Register, Resources
    <3> QED BY <2>4, <3>1, Takes DEF Register
  <2>5. CASE AudioStarts(p)
    BY <2>5 DEF AudioStarts
  <2>6. CASE AudioFails(p)
    BY <2>6 DEF AudioFails
  <2>7. CASE Poll(p)
    BY <2>7 DEF Poll
  <2>8. CASE Close(p)
    BY <2>8 DEF Close
  <2>9. CASE RecitationEnds(p)
    BY <2>9 DEF RecitationEnds
  <2>10. CASE Kill(p)
    BY <2>10 DEF Kill
  <2> QED BY <1>1, <2>1, <2>2, <2>3, <2>4, <2>5, <2>6, <2>7, <2>8, <2>9, <2>10 DEF Player
<1>2. ASSUME NEW s \in Stoppers, StopOpens(s)
      PROVE  signaled' = signaled /\ WithEvent \subseteq WithEvent'
  BY <1>2 DEF StopOpens
<1>3. ASSUME NEW s \in Stoppers, StopSets(s)
      PROVE  signaled' = TRUE /\ WithEvent' = WithEvent /\ EventExists
  BY <1>3 DEF StopSets
<1>4. ASSUME NEW s \in Stoppers, StopCloses(s)
      PROVE  EventAfter(signaled)
  BY <1>4 DEF StopCloses
<1>5. CASE UNCHANGED vars
  BY <1>5 DEF vars
<1> QED BY <1>1, <1>2, <1>3, <1>4, <1>5 DEF Next, Stopper

LEMMA CountsStep ==
  ASSUME DataOK, [Next]_vars
  PROVE  adhans' \in Nat /\ stops' \in Nat /\ faults' \in Nat
<1>1. adhans' = adhans \/ adhans' = adhans + 1
  BY DEF Next, Player, Stopper, NotifyInit, NotifyCleanup, CreateEvent, Register, AudioStarts,
       AudioFails, Poll, Close, RecitationEnds, Kill, StopOpens, StopSets, StopCloses, vars
<1>2. stops' = stops \/ stops' = stops + 1
  BY DEF Next, Player, Stopper, NotifyInit, NotifyCleanup, CreateEvent, Register, AudioStarts,
       AudioFails, Poll, Close, RecitationEnds, Kill, StopOpens, StopSets, StopCloses, vars
<1>3. faults' = faults \/ faults' = faults + 1
  BY DEF Next, Player, Stopper, NotifyInit, NotifyCleanup, CreateEvent, Register, AudioStarts,
       AudioFails, Poll, Close, RecitationEnds, Kill, StopOpens, StopSets, StopCloses, Fault, vars
<1> QED BY <1>1, <1>2, <1>3 DEF DataOK

LEMMA PartsStep == Parts /\ [Next]_vars => Parts'
<1> SUFFICES ASSUME Parts, [Next]_vars PROVE Parts'
  OBVIOUS
<1> USE DEF Parts, Goto, Take
<1>1. ASSUME NEW p \in Players, NotifyInit(p)
      PROVE  Parts'
  <2>1. holds' = holds \/ \E r \in SUBSET Resources : Take(p, r)
    BY <1>1 DEF NotifyInit, InitHolds, Resources
  <2>2. holds' \in [Players -> SUBSET Resources] /\ \A q \in Players : holds[q] \subseteq holds'[q]
    BY <2>1, Takes
  <2>3. sounding' \subseteq {q \in Players : "audio" \in holds'[q]}
    BY <1>1, <2>2 DEF NotifyInit
  <2> QED BY <1>1, <2>2, <2>3 DEF NotifyInit
<1>2. ASSUME NEW p \in Players, NotifyCleanup(p)
      PROVE  Parts'
  BY <1>2 DEF NotifyCleanup
<1>3. ASSUME NEW p \in Players, CreateEvent(p)
      PROVE  Parts'
  <2>1. /\ \E r \in SUBSET Resources : holds' = [holds EXCEPT ![p] = @ \cup r]
        /\ deaf' = deaf \/ deaf' = deaf \cup {p} \/ deaf' = deaf \ {p}
    BY <1>3 DEF CreateEvent, Resources
  <2>2. Take(p, Resources) \/ \E r \in SUBSET Resources : Take(p, r)
    BY <2>1 DEF Take
  <2>3. /\ holds' \in [Players -> SUBSET Resources]
        /\ \A q \in Players : holds[q] \subseteq holds'[q]
    BY <2>2, Takes
  <2>4. deaf' \subseteq Players
    BY <2>1
  <2>5. at' \in [Players -> {"out", "ready", "created", "registered", "playing", "stopped"}]
    BY <1>3 DEF CreateEvent, Goto
  <2>6. sounding' \subseteq {q \in Players : "audio" \in holds'[q]}
    BY <1>3, <2>3 DEF CreateEvent
  <2> QED BY <1>3, <2>3, <2>4, <2>5, <2>6 DEF CreateEvent
<1>4. ASSUME NEW p \in Players, Register(p)
      PROVE  Parts'
  <2>1. holds' = holds \/ \E r \in SUBSET Resources : Take(p, r)
    BY <1>4 DEF Register, InitHolds, Resources
  <2>2. holds' \in [Players -> SUBSET Resources] /\ \A q \in Players : holds[q] \subseteq holds'[q]
    BY <2>1, Takes
  <2>3. sounding' \subseteq {q \in Players : "audio" \in holds'[q]}
    BY <1>4, <2>2 DEF Register
  <2> QED BY <1>4, <2>2, <2>3 DEF Register
<1>5. ASSUME NEW p \in Players, AudioStarts(p)
      PROVE  Parts'
  <2>1. Take(p, {"audio"}) /\ {"audio"} \in SUBSET Resources
    BY <1>5 DEF AudioStarts, InitHolds, Resources
  <2>2. holds' \in [Players -> SUBSET Resources] /\ \A q \in Players : holds[q] \subseteq holds'[q]
    BY <2>1, Takes
  <2>3. "audio" \in holds'[p] /\ sounding' = sounding \cup {p}
    BY <1>5 DEF AudioStarts
  <2>4. sounding' \subseteq {q \in Players : "audio" \in holds'[q]}
    BY <2>2, <2>3
  <2> QED BY <1>5, <2>2, <2>4 DEF AudioStarts
<1>6. ASSUME NEW p \in Players, AudioFails(p)
      PROVE  Parts'
  BY <1>6 DEF AudioFails
<1>7. ASSUME NEW p \in Players, Poll(p)
      PROVE  Parts'
  BY <1>7 DEF Poll
<1>8. ASSUME NEW p \in Players, Close(p)
      PROVE  Parts'
  BY <1>8 DEF Close
<1>9. ASSUME NEW p \in Players, RecitationEnds(p)
      PROVE  Parts'
  BY <1>9 DEF RecitationEnds
<1>10. ASSUME NEW p \in Players, Kill(p)
      PROVE  Parts'
  BY <1>10 DEF Kill
<1>11. ASSUME NEW s \in Stoppers, StopOpens(s)
      PROVE  Parts'
  BY <1>11 DEF StopOpens
<1>12. ASSUME NEW s \in Stoppers, StopSets(s)
      PROVE  Parts'
  BY <1>12 DEF StopSets
<1>13. ASSUME NEW s \in Stoppers, StopCloses(s)
      PROVE  Parts'
  BY <1>13 DEF StopCloses
<1>14. CASE UNCHANGED vars
  BY <1>14 DEF vars
<1> HIDE DEF Parts
<1> QED
  BY <1>1, <1>2, <1>3, <1>4, <1>5, <1>6, <1>7, <1>8, <1>9, <1>10, <1>11, <1>12, <1>13, <1>14
     DEF Next, Player, Stopper

LEMMA TypeStep == TypeOK /\ DataOK /\ [Next]_vars => TypeOK' /\ DataOK'
<1> SUFFICES ASSUME TypeOK, DataOK, [Next]_vars PROVE TypeOK' /\ DataOK'
  OBVIOUS
<1>1. Parts'
  BY PartsStep DEF TypeOK, DataOK, Parts
<1>2. signaled \in BOOLEAN /\ (signaled => WithEvent # {})
  BY DEF TypeOK, DataOK, EventExists
<1>3. EventAfter(signaled) => signaled' \in BOOLEAN /\ (signaled' => EventExists')
  BY <1>2 DEF EventAfter
<1>4. signaled' \in BOOLEAN /\ (signaled' => EventExists')
  <2>1. CASE signaled' = signaled /\ WithEvent \subseteq WithEvent'
    BY <1>2, <2>1 DEF EventExists
  <2>2. CASE signaled' = TRUE /\ WithEvent' = WithEvent /\ EventExists
    BY <2>2 DEF EventExists
  <2> QED BY <1>3, <2>1, <2>2, EventStep
<1> QED BY <1>1, <1>4, CountsStep DEF Parts, TypeOK, DataOK

LEMMA LeavesStep == TypeOK /\ LeavesNothing /\ [Next]_vars => LeavesNothing'
<1> SUFFICES ASSUME TypeOK, LeavesNothing, [Next]_vars,
                    NEW q \in Players
             PROVE  (/\ ~InAdhan(q) => holds[q] \cap {"class", "event", "toast", "audio"} = {}
                     /\ IF at[q] = "out" THEN holds[q] = {} ELSE Initialized(q)
                     /\ "audio" \in holds[q] <=> at[q] = "playing")'
  BY DEF LeavesNothing
<1> USE DEF InAdhan, Initialized
<1>1. /\ ~InAdhan(q) => holds[q] \cap {"class", "event", "toast", "audio"} = {}
      /\ IF at[q] = "out" THEN holds[q] = {} ELSE Initialized(q)
      /\ "audio" \in holds[q] <=> at[q] = "playing"
      /\ holds[q] \subseteq Resources
  BY DEF LeavesNothing, TypeOK
<1>2. CASE at'[q] = at[q] /\ holds'[q] = holds[q]
  BY <1>1, <1>2
<1>3. CASE NotifyInit(q)
  <2>1. /\ at[q] = "out"
        /\ \/ at'[q] = "ready" /\ holds'[q] = holds[q] \cup {"ro", "notifier", "factory"}
           \/ at'[q] = "out" /\ holds'[q] = holds[q] \cup {}
    BY <1>3 DEF NotifyInit, InitHolds, Take, Goto, TypeOK
  <2> QED BY <1>1, <2>1
<1>4. CASE NotifyCleanup(q)
  BY <1>1, <1>4 DEF NotifyCleanup, Goto, TypeOK, Resources
<1>5. CASE CreateEvent(q)
  <2>1. /\ at[q] = "ready" /\ at'[q] = "created"
        /\ \E got \in SUBSET {"toast", "event"} : holds'[q] = holds[q] \cup got
    BY <1>5 DEF CreateEvent, Take, Goto, TypeOK
  <2> QED BY <1>1, <2>1
<1>6. CASE Register(q)
  <2>1. /\ at[q] = "created" /\ at'[q] = "registered"
        /\ holds'[q] = holds[q] \/ holds'[q] = holds[q] \cup {"class"}
    BY <1>6 DEF Register, Take, Goto, TypeOK
  <2> QED BY <1>1, <2>1
<1>7. CASE AudioStarts(q)
  BY <1>1, <1>7 DEF AudioStarts, Take, Goto, TypeOK
<1>8. CASE AudioFails(q)
  BY <1>1, <1>8 DEF AudioFails, Goto, TypeOK
<1>9. CASE Poll(q)
  BY <1>1, <1>9 DEF Poll, Goto, TypeOK
<1>10. CASE Close(q)
  BY <1>1, <1>10 DEF Close, Goto, TypeOK
<1>11. CASE Kill(q)
  BY <1>1, <1>11 DEF Kill, Goto, TypeOK
<1>12. ASSUME NEW p \in Players, p # q, Player(p) \/ Kill(p)
       PROVE  at'[q] = at[q] /\ holds'[q] = holds[q]
  BY <1>12 DEF Player, NotifyInit, NotifyCleanup, CreateEvent, Register, AudioStarts, AudioFails,
               Poll, Close, Kill, Take, Goto, TypeOK
<1>13. CASE \/ \E p \in Players : RecitationEnds(p)
            \/ \E s \in Stoppers : Stopper(s)
            \/ UNCHANGED vars
  BY <1>2, <1>13 DEF RecitationEnds, Stopper, StopOpens, StopSets, StopCloses, vars
<1> QED
  BY <1>2, <1>3, <1>4, <1>5, <1>6, <1>7, <1>8, <1>9, <1>10, <1>11, <1>12, <1>13 DEF Next, Player

\* The event is created at the begin of an adhan and given back at its end.
LEMMA HeardStep == TypeOK /\ Heard /\ [Next]_vars => Heard'
<1> SUFFICES ASSUME TypeOK, Heard, [Next]_vars, NEW q \in Players, Hears(q)'
             PROVE  "event" \in holds'[q]
  BY DEF Heard
<1> USE DEF Hears, InAdhan
<1>1. InAdhan(q) /\ q \notin deaf => "event" \in holds[q]
  BY DEF Heard
<1>2. InAdhan(q)' /\ q \notin deaf'
  OBVIOUS
<1>3. CASE at'[q] = at[q] /\ holds'[q] = holds[q] /\ (q \in deaf <=> q \in deaf')
  BY <1>1, <1>2, <1>3
<1>4. CASE NotifyInit(q) \/ NotifyCleanup(q) \/ Close(q) \/ Kill(q)
  <2>1. at'[q] \in {"out", "ready"}
    BY <1>4 DEF NotifyInit, NotifyCleanup, Close, Kill, Goto, TypeOK
  <2> QED BY <1>2, <2>1
<1>5. CASE CreateEvent(q)
  <2>1. \E got \in SUBSET {"toast", "event"} :
          /\ holds'[q] = holds[q] \cup got
          /\ "event" \in got \/ q \in deaf'
    BY <1>5 DEF CreateEvent, Take, TypeOK
  <2> QED BY <1>2, <2>1
<1>6. CASE Register(q) \/ AudioStarts(q) \/ AudioFails(q) \/ Poll(q)
  <2>1. InAdhan(q) /\ deaf' = deaf /\ holds[q] \ {"audio"} \subseteq holds'[q]
    BY <1>6 DEF Register, AudioStarts, AudioFails, Poll, Take, TypeOK
  <2> QED BY <1>1, <1>2, <2>1
<1>7. ASSUME NEW p \in Players, p # q, Player(p) \/ Kill(p)
      PROVE  at'[q] = at[q] /\ holds'[q] = holds[q] /\ (q \in deaf <=> q \in deaf')
  BY <1>7 DEF Player, NotifyInit, NotifyCleanup, CreateEvent, Register, AudioStarts, AudioFails,
              Poll, Close, Kill, Take, Goto, TypeOK
<1>8. CASE \/ \E p \in Players : RecitationEnds(p)
           \/ \E s \in Stoppers : Stopper(s)
           \/ UNCHANGED vars
  BY <1>3, <1>8 DEF RecitationEnds, Stopper, StopOpens, StopSets, StopCloses, vars
<1> QED BY <1>3, <1>4, <1>5, <1>6, <1>7, <1>8 DEF Next, Player

\* A stopper with a handle keeps the event in being, and with it its state.
LEMMA SetStep == TypeOK /\ StaysSet /\ [Next]_vars => StaysSet'
<1> SUFFICES ASSUME TypeOK, StaysSet, [Next]_vars, NEW s \in Stoppers, doing'[s] = "set"
             PROVE  signaled' = TRUE
  BY DEF StaysSet
<1>1. CASE StopSets(s)
  BY <1>1 DEF StopSets
<1>2. CASE ~StopSets(s)
  <2>1. doing[s] = "set" /\ s \in opened'
    <3>1. ASSUME NEW r \in Stoppers, Stopper(r)
          PROVE  doing[s] = "set" /\ s \in opened'
      BY <1>2, <3>1 DEF Stopper, StopOpens, StopSets, StopCloses, TypeOK
    <3>2. ASSUME NEW p \in Players, Player(p) \/ RecitationEnds(p) \/ Kill(p)
          PROVE  doing' = doing /\ opened' = opened
      BY <3>2 DEF Player, NotifyInit, NotifyCleanup, CreateEvent, Register, AudioStarts,
                  AudioFails, Poll, Close, Kill, RecitationEnds
    <3>3. ASSUME UNCHANGED vars
          PROVE  doing' = doing /\ opened' = opened
      BY <3>3 DEF vars
    <3> QED BY <3>1, <3>2, <3>3 DEF Next, TypeOK
  <2>2. signaled = TRUE /\ EventExists'
    BY <2>1 DEF StaysSet, EventExists, WithEvent
  <2> QED BY <2>2, EventStep DEF EventAfter
<1> QED BY <1>1, <1>2

-----------------------------------------------------------------------------
(***************************************************************************)
(* The inductive invariant: types, who holds what at which point of        *)
(* notify_adhan, that a player hears the event, that a set event stays so. *)
(***************************************************************************)
THEOREM Inductive == Spec => []IInv
<1>1. Init => IInv
  BY InitInv
<1>2. IInv /\ [Next]_vars => IInv'
  BY TypeStep, LeavesStep, HeardStep, SetStep DEF IInv
<1> QED BY <1>1, <1>2, PTL DEF Spec

(***************************************************************************)
(* Types; the event is signaled only while somebody keeps it.              *)
(***************************************************************************)
THEOREM TypeCorrect == Spec => []TypeOK
<1>1. IInv => TypeOK
  BY DEF IInv
<1> QED BY <1>1, Inductive, PTL

(***************************************************************************)
(* Whatever fails and whoever is killed, no process sounds, advertises an  *)
(* adhan or serves the button outside notify_adhan, and none holds         *)
(* anything outside notify_init_once and notify_cleanup.                   *)
(***************************************************************************)
THEOREM NothingLeft == Spec => []LeavesNothing
<1>1. IInv => LeavesNothing
  BY DEF IInv
<1> QED BY <1>1, Inductive, PTL

(***************************************************************************)
(* notify_adhan_stop answers that no adhan plays only when none does, or   *)
(* only one whose player was refused the event, unless its own OpenEventW  *)
(* fails on the event: with any number of players at any point of their    *)
(* adhans.                                                                 *)
(***************************************************************************)
THEOREM NonePlayingIsTrue == Spec => ToldTruly
<1>1. ASSUME IInv, [Next]_vars,
             stops' > stops, doing' = doing, faults' = faults,
             NEW p \in Players, at[p] = "playing"
      PROVE  p \in deaf
  <2>1. stops' # stops
    <3>1. stops \in Nat /\ stops' \in Nat
      BY <1>1, CountsStep DEF IInv, DataOK
    <3>2. stops' > stops
      BY <1>1
    <3> QED BY ONLY <3>1, <3>2
  <2>2. PICK s \in Stoppers : StopOpens(s)
    BY <1>1, <2>1 DEF Next, Player, Stopper, NotifyInit, NotifyCleanup, CreateEvent, Register,
       AudioStarts, AudioFails, Poll, Close, RecitationEnds, Kill, StopSets, StopCloses, vars
  <2>3. ~EventExists
    <3>1. doing'[s] = "idle"
      BY <1>1, <2>2 DEF StopOpens
    <3>2. doing' # [doing EXCEPT ![s] = "opened"]
      BY <1>1, <3>1 DEF IInv, TypeOK
    <3>3. ~Fault
      BY <1>1 DEF Fault, IInv, DataOK
    <3> QED BY <2>2, <3>2, <3>3 DEF StopOpens
  <2> QED BY <1>1, <2>3 DEF IInv, Heard, Hears, InAdhan, EventExists, WithEvent
<1>2. IInv /\ [Next]_vars =>
        [stops' > stops /\ doing' = doing /\ faults' = faults =>
           \A p \in Players : at[p] = "playing" => p \in deaf]_vars
  BY <1>1
<1> QED BY <1>2, Inductive, PTL DEF Spec, ToldTruly

(***************************************************************************)
(* The safety half of StopEndsAll: once a stop has set the event, nobody   *)
(* takes it back from a player that hears it.  Closing handles, killed     *)
(* processes, adhans that begin and other players' polls leave it set, so  *)
(* two adhans at once both find it.                                        *)
(***************************************************************************)
SetUntilHeard ==
  [][\A p \in Players :
       signaled /\ at[p] = "playing" /\ at'[p] = "playing" /\ p \notin deaf => signaled']_vars

THEOREM StopReachesAll == Spec => SetUntilHeard
<1>1. ASSUME IInv, IInv', [Next]_vars, NEW p \in Players,
             signaled, at[p] = "playing", at'[p] = "playing", p \notin deaf
      PROVE  signaled'
  <2>1. deaf' = deaf \/ \E q \in Players : CreateEvent(q)
    BY <1>1 DEF Next, Player, Stopper, NotifyInit, NotifyCleanup, Register, AudioStarts,
       AudioFails, Poll, Close, RecitationEnds, Kill, StopOpens, StopSets, StopCloses, vars
  <2>2. p \notin deaf'
    <3>1. ASSUME NEW q \in Players, CreateEvent(q) PROVE p \notin deaf'
      <4>1. at'[q] = "created"
        BY <1>1, <3>1 DEF CreateEvent, IInv, TypeOK, Goto
      <4>2. deaf' = deaf \ {q} \/ deaf' = deaf \cup {q}
        BY <3>1 DEF CreateEvent
      <4> QED BY <1>1, <4>1, <4>2
    <3> QED BY <1>1, <2>1, <3>1
  <2>3. EventExists'
    BY <1>1, <2>2 DEF IInv, Heard, Hears, InAdhan, EventExists, WithEvent
  <2>4. signaled = TRUE
    BY <1>1 DEF IInv, DataOK
  <2> QED BY <1>1, <2>3, <2>4, EventStep DEF EventAfter, IInv
<1>2. IInv /\ IInv' /\ [Next]_vars =>
        [\A p \in Players :
           signaled /\ at[p] = "playing" /\ at'[p] = "playing" /\ p \notin deaf => signaled']_vars
  BY <1>1
<1> QED BY <1>2, Inductive, PTL DEF Spec, SetUntilHeard
=============================================================================
