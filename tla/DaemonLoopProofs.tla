-------------------------- MODULE DaemonLoopProofs --------------------------
(***************************************************************************)
(* Theorems about the daemon loop for every resolution of the clock, every *)
(* length of the minute, every number of announcements and of signals.     *)
(***************************************************************************)
EXTENDS DaemonLoop, SequenceTheorems, TLAPS

\* A recitation that came to its end with the player still allocated.
Ended == [Playing EXCEPT !.sounding = FALSE]

\* What TypeOK leaves out: the list, and the player as one of three states.
DataOK ==
  /\ left \in Seq({"adhan", "note"})
  /\ audio \in {Silent, Playing, Ended}

\* The program points after the cycle has written its list back.
Written == {"starting", "test", "mask", "recheck", "doze", "pselect", "unmask", "stopped"}

\* LeavesNothing, with the list that an adhan still heads and, at every
\* point from which the daemon can stop, nothing unsaved.
AdhanInv ==
  /\ ~InAdhan => audio = Silent /\ ~shown
  /\ InAdhan => left # <<>>
  /\ pc \in Written => ~unsaved

\* g_stop is clear not only in the sleep but from the test under the mask on.
StopInv == pc \in {"doze", "pselect"} => ~stop

(***************************************************************************)
(* How the nap, the clock and the count of minutes belong together: what   *)
(* is left of the nap reaches the next minute and ends in its first        *)
(* second.  Time outside the nap sets held and voids the upper bound.      *)
(***************************************************************************)
MinuteInv ==
  /\ pc \in {"starting", "test", "unmask"} /\ ~stop => crossed >= 1 /\ (~held => crossed = 1)
  /\ pc \in {"cycle", "poll", "close", "mask", "recheck", "doze"} /\ ~held => crossed = 0
  /\ pc \in {"doze", "pselect"} =>
       /\ crossed = 0 => phase + nap >= MinuteTicks
       /\ ~held /\ crossed = 0 => phase + nap < MinuteTicks + TicksPerSec
       /\ ~held /\ crossed # 0 => crossed = 1 /\ phase + nap < TicksPerSec

IInv == TypeOK /\ DataOK /\ AdhanInv /\ StopInv /\ MinuteInv

-----------------------------------------------------------------------------
\* The length of a minute.
LEMMA MinuteType ==
  /\ TicksPerSec \in Nat /\ TicksPerSec >= 1 /\ MinuteSecs \in Nat /\ MinuteSecs >= 1
  /\ MinuteTicks \in Nat /\ MinuteTicks >= TicksPerSec
<1>1. TicksPerSec \in Nat /\ TicksPerSec >= 1 /\ MinuteSecs \in Nat /\ MinuteSecs >= 1
  BY LoopAssumption
<1>2. MinuteTicks \in Nat /\ MinuteTicks >= TicksPerSec
  BY <1>1, Z3 DEF MinuteTicks
<1> QED BY <1>1, <1>2

\* The nap that Recheck takes reaches the minute and, at most, all of its
\* first second but one tick.
LEMMA NapReaches ==
  ASSUME phase \in 0..(MinuteTicks - 1)
  PROVE  LET n == SecondsToNextMinute * TicksPerSec IN
         /\ n \in 0..MinuteTicks
         /\ phase + n >= MinuteTicks /\ phase + n < MinuteTicks + TicksPerSec
<1> DEFINE n == SecondsToNextMinute * TicksPerSec
<1>1. phase \in Nat /\ phase < MinuteTicks
  BY MinuteType
<1>2. /\ Second \in Nat /\ Second * TicksPerSec \in Nat
      /\ Second * TicksPerSec <= phase /\ phase < Second * TicksPerSec + TicksPerSec
  BY <1>1, MinuteType, Z3 DEF Second
<1>3. n = MinuteTicks - Second * TicksPerSec
  BY <1>2, MinuteType, Z3 DEF SecondsToNextMinute, MinuteTicks
<1>4. n >= 0
  BY <1>1, <1>2, <1>3, MinuteType
<1> HIDE DEF n
<1>5. /\ n \in 0..MinuteTicks
      /\ phase + n >= MinuteTicks /\ phase + n < MinuteTicks + TicksPerSec
  BY <1>1, <1>2, <1>3, <1>4, MinuteType
<1> QED BY <1>5 DEF n

\* One tick moves the phase by one, or back to the minute's beginning.
LEMMA PhaseMoves ==
  ASSUME phase \in 0..(MinuteTicks - 1), phase' = (phase + 1) % MinuteTicks
  PROVE  /\ phase' \in 0..(MinuteTicks - 1)
         /\ phase' = IF phase + 1 = MinuteTicks THEN 0 ELSE phase + 1
<1>1. phase \in Nat /\ phase + 1 <= MinuteTicks
  BY MinuteType
<1>2. CASE phase + 1 = MinuteTicks
  BY <1>1, <1>2, MinuteType, Z3
<1>3. CASE phase + 1 # MinuteTicks
  BY <1>1, <1>3, MinuteType, Z3
<1> QED BY <1>2, <1>3

\* A list of announcements, and what is left of it after the first.
LEMMA ListType ==
  ASSUME NEW n \in 0..MaxDue, NEW l \in [1..n -> {"adhan", "note"}]
  PROVE  l \in Seq({"adhan", "note"}) /\ Len(l) <= MaxDue
BY LoopAssumption, SeqDef, LenProperties

LEMMA TailType ==
  ASSUME DataOK, Len(left) <= MaxDue, left # <<>>
  PROVE  Tail(left) \in Seq({"adhan", "note"}) /\ Len(Tail(left)) <= MaxDue
BY LoopAssumption, HeadTailProperties, LenProperties DEF DataOK

\* The three states of the player, told apart.
LEMMA Players ==
  /\ Silent # Playing /\ Silent # Ended /\ ~Silent.playing /\ ~Silent.sounding
  /\ Playing.playing /\ Ended.playing /\ Playing.sounding /\ ~Ended.sounding
  /\ ~Silent.engine /\ ~Silent.sound /\ Playing.engine /\ Playing.sound
  /\ Ended.engine /\ Ended.sound
BY Zenon DEF Silent, Playing, Ended

\* However it was, audio_stop leaves it silent.
LEMMA StopSilences == DataOK => AudioStop = Silent
BY Players DEF DataOK, AudioStop

-----------------------------------------------------------------------------
LEMMA InitInv == Init => IInv
<1> SUFFICES ASSUME Init PROVE IInv
  OBVIOUS
<1>1. TypeOK
  <2>1. Len(left) <= MaxDue /\ signals \in 0..MaxSignals
    BY LoopAssumption DEF Init
  <2>2. 0 \in 0..MinuteTicks
    BY MinuteType
  <2>3. phase \in 0..(MinuteTicks - 1) /\ nap \in 0..MinuteTicks /\ crossed \in 0..2
    BY <2>2 DEF Init
  <2>4. masked = (pc \in {"recheck", "doze", "unmask"})
    <3>1. masked \in BOOLEAN /\ (masked <=> pc \in {"recheck", "doze", "unmask"})
      BY DEF Init
    <3> QED BY <3>1, SMT
  <2> QED BY <2>1, <2>3, <2>4 DEF Init, TypeOK
<1>2. DataOK /\ AdhanInv /\ StopInv /\ MinuteInv
  BY DEF Init, DataOK, AdhanInv, InAdhan, Written, StopInv, MinuteInv
<1> QED BY <1>1, <1>2 DEF IInv

\* The mask is up from Mask to the sleep and from the sleep to Unmask.
LEMMA MaskStep == TypeOK /\ [Next]_vars => (masked = (pc \in {"recheck", "doze", "unmask"}))'
<1> DEFINE Up == {"recheck", "doze", "unmask"}
<1> SUFFICES ASSUME TypeOK, [Next]_vars PROVE masked' = (pc' \in Up)
  OBVIOUS
<1>1. masked = (pc \in Up) /\ masked \in BOOLEAN
  BY SMT DEF TypeOK
<1>2. \/ Mask \/ Wake \/ (Deliver /\ pc = "pselect") \/ Pselect \/ Unmask
      \/ masked' = masked /\ (pc \in Up <=> pc' \in Up)
  BY DEF Next, Process, Send, DeliverEarly, Deliver, Install, BeginCycle, Leave, CycleFails,
         Note, FinishCycle, Recheck, StartAdhan, Poll, Close, RecitationEnds,
         UserEnds, Tick, vars, flagVars
<1> HIDE DEF Up
<1>3. masked' \in BOOLEAN /\ (masked' <=> pc' \in Up)
  <2>1. ASSUME Mask \/ Wake \/ (Deliver /\ pc = "pselect")
        PROVE  masked' = TRUE /\ pc' \in Up
    BY <2>1 DEF Mask, Wake, Deliver, Up
  <2>2. ASSUME Pselect \/ Unmask
        PROVE  masked' = FALSE /\ pc' \notin Up
    BY <2>2 DEF Pselect, Unmask, Up
  <2>3. ASSUME masked' = masked, pc \in Up <=> pc' \in Up
        PROVE  masked' \in BOOLEAN /\ (masked' <=> pc' \in Up)
    BY <1>1, <2>3
  <2> QED BY <1>2, <2>1, <2>2, <2>3
<1> QED BY <1>3, SMT

LEMMA TypeStep == TypeOK /\ DataOK /\ AdhanInv /\ [Next]_vars => TypeOK'
<1> SUFFICES ASSUME TypeOK, DataOK, AdhanInv, [Next]_vars PROVE TypeOK'
  OBVIOUS
<1>0. masked' = (pc' \in {"recheck", "doze", "unmask"})
  BY MaskStep
<1> USE <1>0, LoopAssumption DEF TypeOK, flagVars, timeVars, adhanVars
<1>1. CASE Send
  BY <1>1 DEF Send
<1>2. CASE DeliverEarly
  BY <1>2 DEF DeliverEarly
<1>3. CASE Deliver
  BY <1>3 DEF Deliver, Handle
<1>4. CASE Install
  BY <1>4 DEF Install
<1>5. CASE BeginCycle
  <2>1. Len(left') <= MaxDue
    BY <1>5, ListType DEF BeginCycle
  <2>2. /\ pc' = "cycle" /\ crossed' = 0 /\ held' = FALSE
        /\ UNCHANGED <<stop, interrupt, pending, asked, signals, shown, unsaved, phase, nap>>
    BY <1>5 DEF BeginCycle
  <2>3. interrupt' = stop' /\ asked' = stop' /\ signals' \in 0..MaxSignals
    BY <2>2
  <2>4. phase' \in 0..(MinuteTicks - 1) /\ nap' \in 0..MinuteTicks /\ crossed' \in 0..2
    BY <2>2
  <2>5. shown' \in BOOLEAN /\ unsaved' \in BOOLEAN /\ held' \in BOOLEAN
        /\ stop' \in BOOLEAN /\ pending' \in BOOLEAN
    BY <2>2
  <2> QED BY <2>1, <2>2, <2>3, <2>4, <2>5
<1>6. CASE Leave
  BY <1>6 DEF Leave
<1>7. CASE CycleFails
  BY <1>7 DEF CycleFails
<1>8. CASE Note
  BY <1>8, TailType DEF Note
<1>9. CASE FinishCycle
  BY <1>9 DEF FinishCycle
<1>10. CASE Mask
  BY <1>10 DEF Mask
<1>11. CASE Recheck
  BY <1>11, NapReaches DEF Recheck
<1>12. CASE Pselect
  BY <1>12 DEF Pselect
<1>13. CASE Unmask
  BY <1>13 DEF Unmask
<1>14. CASE StartAdhan
  BY <1>14, TailType DEF StartAdhan
<1>15. CASE Poll
  BY <1>15 DEF Poll
<1>16. CASE Close
  BY <1>16, TailType DEF Close, AdhanInv, InAdhan
<1>17. CASE Wake
  BY <1>17 DEF Wake
<1>18. CASE RecitationEnds
  BY <1>18 DEF RecitationEnds
<1>19. CASE UserEnds
  BY <1>19 DEF UserEnds
<1>20. CASE Tick
  <2>1. phase' \in 0..(MinuteTicks - 1)
    BY <1>20, PhaseMoves DEF Tick
  <2>2. nap' \in 0..MinuteTicks /\ held' \in BOOLEAN
    <3>1. CASE pc = "pselect"
      BY <1>20, <3>1, MinuteType DEF Tick
    <3>2. CASE pc # "pselect"
      BY <1>20, <3>2 DEF Tick
    <3> QED BY <3>1, <3>2
  <2>3. crossed' \in 0..2
    BY <1>20 DEF Tick
  <2> QED BY <1>20, <2>1, <2>2, <2>3 DEF Tick
<1>21. CASE UNCHANGED vars
  BY <1>21 DEF vars
<1> QED
  BY <1>1, <1>2, <1>3, <1>4, <1>5, <1>6, <1>7, <1>8, <1>9, <1>10, <1>11, <1>12, <1>13,
     <1>14, <1>15, <1>16, <1>17, <1>18, <1>19, <1>20, <1>21 DEF Next, Process

LEMMA DataStep == TypeOK /\ DataOK /\ AdhanInv /\ [Next]_vars => DataOK'
<1> SUFFICES ASSUME TypeOK, DataOK, AdhanInv, [Next]_vars PROVE DataOK'
  OBVIOUS
<1> USE DEF DataOK, flagVars, timeVars, adhanVars
<1>1. CASE BeginCycle
  BY <1>1, ListType DEF BeginCycle
<1>2. CASE CycleFails
  BY <1>2 DEF CycleFails
<1>3. CASE Note
  BY <1>3, TailType DEF Note, TypeOK
<1>4. CASE StartAdhan
  <2>1. audio' \in {Silent, Playing}
    BY <1>4 DEF StartAdhan, AudioStart
  <2>2. left' = left \/ left' = Tail(left)
    BY <1>4 DEF StartAdhan
  <2> QED BY <1>4, <2>1, <2>2, TailType DEF StartAdhan, TypeOK
<1>5. CASE RecitationEnds
  <2>1. audio = Playing
    BY <1>5, Players DEF RecitationEnds
  <2> QED BY <1>5, <2>1 DEF RecitationEnds, Ended
<1>6. CASE Poll
  BY <1>6, StopSilences DEF Poll
<1>7. CASE UserEnds
  BY <1>7, StopSilences DEF UserEnds
<1>8. CASE Close
  <2>1. left # <<>>
    BY <1>8 DEF Close, AdhanInv, InAdhan
  <2> QED BY <1>8, <2>1, StopSilences, TailType DEF Close, TypeOK
<1>9. CASE UNCHANGED <<left, audio>>
  BY <1>9
<1>10. \/ BeginCycle \/ CycleFails \/ Note \/ StartAdhan \/ RecitationEnds \/ Poll
       \/ UserEnds \/ Close \/ UNCHANGED <<left, audio>>
  BY DEF Next, Process, Send, DeliverEarly, Deliver, Install, Leave, FinishCycle, Mask,
         Recheck, Pselect, Unmask, Wake, Tick, vars
<1> QED
  BY <1>1, <1>2, <1>3, <1>4, <1>5, <1>6, <1>7, <1>8, <1>9, <1>10

LEMMA AdhanStep == TypeOK /\ DataOK /\ AdhanInv /\ [Next]_vars => AdhanInv'
<1> SUFFICES ASSUME TypeOK, DataOK, AdhanInv, [Next]_vars PROVE AdhanInv'
  OBVIOUS
<1> USE DEF AdhanInv, InAdhan, Written, flagVars, timeVars, adhanVars
<1>1. CASE Send
  BY <1>1 DEF Send
<1>2. CASE DeliverEarly
  BY <1>2 DEF DeliverEarly
<1>3. CASE Deliver
  BY <1>3 DEF Deliver
<1>4. CASE Install
  BY <1>4 DEF Install
<1>5. CASE BeginCycle
  BY <1>5 DEF BeginCycle
<1>6. CASE Leave
  BY <1>6 DEF Leave
<1>7. CASE CycleFails
  BY <1>7 DEF CycleFails
<1>8. CASE Note
  BY <1>8 DEF Note
<1>9. CASE FinishCycle
  BY <1>9 DEF FinishCycle
<1>10. CASE Mask
  BY <1>10 DEF Mask
<1>11. CASE Recheck
  BY <1>11 DEF Recheck
<1>12. CASE Pselect
  BY <1>12 DEF Pselect
<1>13. CASE Unmask
  BY <1>13 DEF Unmask
<1>14. CASE StartAdhan
  BY <1>14 DEF StartAdhan, AudioStart
<1>15. CASE Poll
  BY <1>15 DEF Poll
<1>16. CASE Close
  BY <1>16, StopSilences DEF Close
<1>17. CASE Wake
  BY <1>17 DEF Wake
<1>18. CASE RecitationEnds
  <2>1. pc \in {"poll", "close"}
    BY <1>18, Players DEF RecitationEnds
  <2> QED BY <1>18, <2>1 DEF RecitationEnds
<1>19. CASE UserEnds
  BY <1>19 DEF UserEnds
<1>20. CASE Tick
  BY <1>20 DEF Tick
<1>21. CASE UNCHANGED vars
  BY <1>21 DEF vars
<1> QED
  BY <1>1, <1>2, <1>3, <1>4, <1>5, <1>6, <1>7, <1>8, <1>9, <1>10, <1>11, <1>12, <1>13,
     <1>14, <1>15, <1>16, <1>17, <1>18, <1>19, <1>20, <1>21 DEF Next, Process

\* A stop signal that comes after the test finds the mask up; one that comes
\* in the sleep ends it.
LEMMA StopStep == TypeOK /\ StopInv /\ [Next]_vars => StopInv'
<1> SUFFICES ASSUME TypeOK, StopInv, [Next]_vars PROVE StopInv'
  OBVIOUS
<1> USE DEF StopInv
<1>1. CASE Deliver
  BY <1>1 DEF Deliver, TypeOK
<1>2. CASE Recheck
  BY <1>2 DEF Recheck, flagVars
<1>3. CASE Pselect
  BY <1>3 DEF Pselect
<1>4. CASE stop' = stop /\ (pc' = pc \/ pc' \notin {"doze", "pselect"})
  BY <1>4
<1>5. \/ Deliver \/ Recheck \/ Pselect
      \/ stop' = stop /\ (pc' = pc \/ pc' \notin {"doze", "pselect"})
  BY DEF Next, Process, Send, DeliverEarly, Install, BeginCycle, Leave, CycleFails, Note,
         FinishCycle, Mask, Unmask, StartAdhan, Poll, Close, Wake, RecitationEnds,
         UserEnds, Tick, vars, flagVars
<1> QED BY <1>1, <1>2, <1>3, <1>4, <1>5

\* Minutes are begun by ticks alone: the nap is set once, from the phase, and
\* from then on one tick takes one off the nap and adds one to the phase.
LEMMA MinuteStep == TypeOK /\ MinuteInv /\ [Next]_vars => MinuteInv'
<1> SUFFICES ASSUME TypeOK, MinuteInv, [Next]_vars PROVE MinuteInv'
  OBVIOUS
<1> USE DEF MinuteInv, flagVars, timeVars, adhanVars
<1>1. CASE Send
  BY <1>1 DEF Send
<1>2. CASE DeliverEarly
  BY <1>2 DEF DeliverEarly
<1>3. CASE Deliver
  BY <1>3 DEF Deliver, Handle
<1>4. CASE Install
  BY <1>4 DEF Install
<1>5. CASE BeginCycle
  BY <1>5 DEF BeginCycle
<1>6. CASE Leave
  BY <1>6 DEF Leave
<1>7. CASE CycleFails
  BY <1>7 DEF CycleFails
<1>8. CASE Note
  BY <1>8 DEF Note
<1>9. CASE FinishCycle
  BY <1>9 DEF FinishCycle
<1>10. CASE Mask
  BY <1>10 DEF Mask
<1>11. CASE Recheck
  <2>1. CASE stop
    BY <1>11, <2>1 DEF Recheck
  <2>2. CASE ~stop
    <3>1. phase' + nap' >= MinuteTicks /\ phase' + nap' < MinuteTicks + TicksPerSec
      BY <1>11, <2>2, NapReaches DEF Recheck, TypeOK
    <3> QED BY <1>11, <2>2, <3>1 DEF Recheck
  <2> QED BY <2>1, <2>2
<1>12. CASE Pselect
  BY <1>12 DEF Pselect
<1>13. CASE Unmask
  BY <1>13 DEF Unmask
<1>14. CASE StartAdhan
  BY <1>14 DEF StartAdhan
<1>15. CASE Poll
  BY <1>15 DEF Poll
<1>16. CASE Close
  BY <1>16 DEF Close
<1>17. CASE Wake
  <2>1. phase < MinuteTicks /\ phase \in Nat /\ crossed \in Nat /\ nap = 0
    BY <1>17, MinuteType DEF Wake, TypeOK
  <2> QED BY <1>17, <2>1, MinuteType DEF Wake
<1>18. CASE RecitationEnds
  BY <1>18 DEF RecitationEnds
<1>19. CASE UserEnds
  BY <1>19 DEF UserEnds
<1>20. CASE Tick
  <2>1. /\ phase \in Nat /\ phase < MinuteTicks /\ phase' \in Nat /\ nap \in Nat
        /\ crossed \in 0..2
    BY <1>20, PhaseMoves, MinuteType DEF Tick, TypeOK
  <2>2. phase' = IF phase + 1 = MinuteTicks THEN 0 ELSE phase + 1
    BY <1>20, PhaseMoves DEF Tick, TypeOK
  <2>3. /\ phase' = 0 /\ crossed < 2 => crossed' = crossed + 1
        /\ ~(phase' = 0 /\ crossed < 2) => crossed' = crossed
    BY <1>20 DEF Tick
  <2>4. CASE pc = "pselect"
    <3>1. nap > 0 /\ nap' = nap - 1 /\ held' = held /\ pc' = pc /\ stop' = stop
      BY <1>20, <2>4 DEF Tick
    <3> QED BY <2>1, <2>2, <2>3, <2>4, <3>1, MinuteType
  <2>5. CASE pc # "pselect"
    <3>1. nap' = nap /\ held' = TRUE /\ pc' = pc /\ stop' = stop
      BY <1>20, <2>5 DEF Tick
    <3> QED BY <2>1, <2>2, <2>3, <2>5, <3>1, MinuteType
  <2> QED BY <2>4, <2>5
<1>21. CASE UNCHANGED vars
  BY <1>21 DEF vars
<1> QED
  BY <1>1, <1>2, <1>3, <1>4, <1>5, <1>6, <1>7, <1>8, <1>9, <1>10, <1>11, <1>12, <1>13,
     <1>14, <1>15, <1>16, <1>17, <1>18, <1>19, <1>20, <1>21 DEF Next, Process

-----------------------------------------------------------------------------
(***************************************************************************)
(* The inductive invariant holds: types, the player and the list, what is  *)
(* unsaved where, the mask around the sleep, and the nap against the clock.*)
(***************************************************************************)
THEOREM Inductive == Spec => []IInv
<1>1. Init => IInv
  BY InitInv
<1>2. IInv /\ [Next]_vars => IInv'
  BY TypeStep, DataStep, AdhanStep, StopStep, MinuteStep DEF IInv
<1> QED BY <1>1, <1>2, PTL DEF Spec

(***************************************************************************)
(* Types; the stop signals are blocked exactly between pthread_sigmask and *)
(* the sleep and from the sleep to the unblocking, and the two flags of    *)
(* handle_stop_signal never part.                                          *)
(***************************************************************************)
THEOREM TypeCorrect == Spec => []TypeOK
<1>1. IInv => TypeOK
  BY DEF IInv
<1> QED BY <1>1, Inductive, PTL

(***************************************************************************)
(* The test of g_stop and the sleep leave no gap: however many signals are *)
(* sent and whenever they are delivered, the daemon never sleeps with      *)
(* g_stop set.                                                             *)
(***************************************************************************)
THEOREM NoStopSleptThrough == Spec => []NeverAsleepWithStop
<1>1. IInv => NeverAsleepWithStop
  BY DEF IInv, StopInv, NeverAsleepWithStop
<1> QED BY <1>1, Inductive, PTL

(***************************************************************************)
(* Audio and notification live exactly as long as notify_adhan, and the    *)
(* daemon stops with nothing announced that the cache file does not know.  *)
(***************************************************************************)
THEOREM NothingLeft == Spec => []LeavesNothing
<1>1. IInv => LeavesNothing
  <2> SUFFICES ASSUME IInv PROVE LeavesNothing
    OBVIOUS
  <2>1. audio \in {Silent, Playing, Ended}
    BY DEF IInv, DataOK
  <2>2. audio.playing = (audio.engine /\ audio.sound) /\ (audio.engine <=> audio.sound)
    <3>1. CASE audio = Silent
      <4>1. audio.playing \in BOOLEAN /\ ~audio.playing /\ ~audio.engine /\ ~audio.sound
        BY <3>1 DEF Silent
      <4> QED BY <4>1, SMT
    <3>2. CASE audio = Playing
      BY <3>2, Players
    <3>3. CASE audio = Ended
      BY <3>3, Players
    <3> QED BY <2>1, <3>1, <3>2, <3>3
  <2> QED BY <2>2 DEF IInv, AdhanInv, Written, LeavesNothing
<1> QED BY <1>1, Inductive, PTL

(***************************************************************************)
(* One cycle in a minute, for every length of the minute and every tick in *)
(* it at which the cycle ends: the nap of seconds_until_next_minute ends   *)
(* in a later minute, and in the next one if no time passes outside it.    *)
(***************************************************************************)
THEOREM OneCycleAMinute == Spec => MinuteByMinute
<1>1. IInv /\ [Next]_vars =>
        [pc = "test" /\ pc' = "cycle" => crossed >= 1 /\ (~held => crossed = 1)]_vars
  <2> SUFFICES ASSUME IInv, [Next]_vars, pc = "test", pc' = "cycle"
               PROVE  crossed >= 1 /\ (~held => crossed = 1)
    OBVIOUS
  <2>1. ~stop
    BY DEF Next, Process, Send, DeliverEarly, Deliver, Install, BeginCycle, Leave, CycleFails,
           Note, FinishCycle, Mask, Recheck, Pselect, Unmask, StartAdhan, Poll, Close, Wake,
           RecitationEnds, UserEnds, Tick, vars
  <2> QED BY <2>1 DEF IInv, MinuteInv
<1> QED BY <1>1, Inductive, PTL DEF Spec, MinuteByMinute
=============================================================================
