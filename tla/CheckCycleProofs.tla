-------------------------- MODULE CheckCycleProofs --------------------------
(***************************************************************************)
(* Theorems about the check cycle for every schedule, every set of         *)
(* settings and places, every number of commands, failures and crashes.    *)
(***************************************************************************)
EXTENDS CheckCycle, TriggersProofs

\* A time of day counts as a natural number of minutes.
LEMMA EpochType ==
  ASSUME NEW t \in [day : 0..LastDay, minute : 0..(DayLen - 1)]
  PROVE  Epoch(t) \in Nat
<1>1. t.day \in Nat /\ t.minute \in Nat /\ DayLen \in Nat
  BY SizesAssumption
<1>2. t.day * DayLen \in Nat
  BY <1>1
<1> QED BY <1>1, <1>2 DEF Epoch

\* A lookup turns a config into a config.
LEMMA DetectedType ==
  ASSUME TypeOK, NEW c \in Configs, NEW l \in Detectable
  PROVE  Detected(c, l) \in Configs
<1>1. Clock \in [day : 0..LastDay, minute : 0..(DayLen - 1)]
  BY DEF Clock, TypeOK
<1>2. Epoch(Clock) \in Nat
  BY <1>1, EpochType
<1>3. l \in Locations
  BY CycleAssumption
<1> QED BY <1>2, <1>3 DEF Detected, Configs

\* A rebuild makes a list of today's triggers.
LEMMA RebuiltType ==
  ASSUME TypeOK, cfg \in Configs
  PROVE  /\ Rebuilt \subseteq Scheduled(cfg.prefs, cfg.loc, now.day)
         /\ Scheduled(cfg.prefs, cfg.loc, now.day) \subseteq Trigger
<1>1. cfg.prefs \in Prefs /\ cfg.loc \in Locations /\ now.day \in 0..LastDay
  BY DEF Configs, TypeOK
<1> QED BY <1>1, ScheduledType, BuiltIsScheduled DEF Rebuilt

LEMMA GivenUpType ==
  ASSUME TypeOK, cfg \in Configs
  PROVE  GivenUp \subseteq Occurrences
<1>1. now.day \in 0..LastDay /\ Scheduled(cfg.prefs, cfg.loc, now.day) \subseteq Trigger
  BY RebuiltType DEF TypeOK
<1>2. ASSUME cacheFile # Nil
      PROVE  cacheFile.date \in 0..LastDay /\ cacheFile.triggers \subseteq Trigger
  BY <1>2 DEF TypeOK, Caches
<1> QED BY <1>1, <1>2 DEF GivenUp, Occurrences, Occ

\* At rest and in a cycle are different places.
LEMMA Places ==
  /\ Resting \cap InCycle = {} /\ HoldsList \subseteq InCycle
  /\ "asleep" \in Resting /\ "down" \in Resting
BY DEF Resting, InCycle, Blocking, HoldsList

-----------------------------------------------------------------------------
LEMMA InitInv == Init => IInv
<1> SUFFICES ASSUME Init PROVE IInv
  OBVIOUS
<1>1. TypeOK
  <2>1. /\ day \in 0..LastDay /\ minute \in 0..(DayLen - 1)
        /\ now \in [day : 0..LastDay, minute : 0..(DayLen - 1)] /\ NotAfter(now, Clock)
    BY SizesAssumption DEF Init, NotAfter, Clock
  <2>2. config \in Configs /\ cacheFile \in Caches \cup {Nil}
    BY CycleAssumption DEF Init
  <2>3. /\ pc \in Resting /\ pc \in Resting \cup InCycle
        /\ pc \notin HoldsList
    BY DEF Init, Resting, HoldsList
  <2>4. cli \in [at : {"idle", "editing", "saved"}, cfg : Configs \cup {Nil}]
    BY DEF Init
  <2>5. edits \in 0..MaxEdits /\ mishaps \in 0..MaxMishaps /\ retryAt \in Nat
    BY CycleAssumption DEF Init
  <2> QED BY <2>1, <2>2, <2>3, <2>4, <2>5 DEF Init, TypeOK
<1>2. Accounted /\ Behind /\ Recorded /\ NeverTwice
  BY DEF Init, Accounted, Behind, Recorded, NeverTwice, Resting
<1> QED BY <1>1, <1>2 DEF IInv

\* A cycle that begins or ends reads a clock that does not run ahead.
LEMMA ClockRead ==
  ASSUME TypeOK, now' = Clock, UNCHANGED clockVars
  PROVE  /\ now' \in [day : 0..LastDay, minute : 0..(DayLen - 1)]
         /\ NotAfter(now, Clock)'
<1>1. day \in Int /\ minute \in Int
  BY SizesAssumption DEF TypeOK
<1>2. now'.day = day /\ now'.minute = minute /\ day' = day /\ minute' = minute
  BY DEF Clock, clockVars
<1> QED BY <1>1, <1>2 DEF TypeOK, Clock, NotAfter

LEMMA EndCycleType ==
  ASSUME TypeOK, EndCycle, UNCHANGED <<clockVars, config, cli>>,
         cacheFile' \in Caches \cup {Nil}, retryAt' \in Nat, edits' = edits, mishaps' \in 0..MaxMishaps,
         UNCHANGED <<announced, lost, exposed>>, forgotten' \subseteq announced
  PROVE  TypeOK'
<1>1. /\ now' \in [day : 0..LastDay, minute : 0..(DayLen - 1)]
      /\ NotAfter(now, Clock)'
  BY ClockRead DEF EndCycle
<1>2. /\ pc' = "asleep" /\ cfg' = Nil /\ cache' = Nil
      /\ refreshed' = FALSE /\ notified' = FALSE /\ dirty' = FALSE
  BY DEF EndCycle
<1>3. /\ pc' \in Resting \cup InCycle /\ pc' \in Resting
      /\ pc' \notin HoldsList
  BY <1>2 DEF Resting, InCycle, HoldsList
<1> QED BY <1>1, <1>2, <1>3 DEF TypeOK, clockVars

LEMMA TypeStep == TypeOK /\ [Next]_vars => TypeOK'
<1> SUFFICES ASSUME TypeOK, [Next]_vars PROVE TypeOK'
  OBVIOUS
<1> USE SizesAssumption, NilAssumption, CycleAssumption
    DEF TypeOK, Resting, InCycle, Blocking, HoldsList, Clock, NotAfter, history, budget,
        clockVars, cycleVars
<1>1. CASE Tick
  BY <1>1 DEF Tick
<1>2. CASE BeginCycle
  BY <1>2, ClockRead DEF BeginCycle, Awake, RetryAtOnEntry, AfterDetect
<1>3. CASE ConfigUnreadable
  BY <1>3, EndCycleType DEF ConfigUnreadable, Mishap, Awake, RetryAtOnEntry
<1>4. CASE DetectSucceeds
  BY <1>4, DetectedType DEF DetectSucceeds
<1>5. CASE DetectFails
  BY <1>5, EndCycleType DEF DetectFails
<1>6. CASE SaveDetected
  BY <1>6 DEF SaveDetected, AfterDetect
<1>7. CASE SaveDetectedFails
  BY <1>7, EndCycleType DEF SaveDetectedFails, Mishap
<1>8. CASE RefreshSucceeds
  BY <1>8, DetectedType DEF RefreshSucceeds
<1>9. CASE RefreshFails
  <2>1. retryAt' \in Nat
    BY <1>9, EpochType DEF RefreshFails
  <2> QED BY <1>9, <2>1 DEF RefreshFails
<1>10. CASE SaveRefreshed
  BY <1>10 DEF SaveRefreshed
<1>11. CASE SaveRefreshedFails
  BY <1>11 DEF SaveRefreshedFails, Mishap
<1>12. CASE LoadCache
  BY <1>12 DEF LoadCache, ValidForToday
<1>13. CASE RebuildCache
  <2>1. cfg \in Configs
    BY <1>13 DEF RebuildCache
  <2>2. cache' \in Caches /\ cache'.date = now.day
    BY <1>13, <2>1, RebuiltType DEF RebuildCache, Rebuild, Caches, Configs
  <2>3. lost' \subseteq Occurrences
    BY <1>13, <2>1, GivenUpType DEF RebuildCache, Rebuild
  <2> QED BY <1>13, <2>2, <2>3 DEF RebuildCache, Rebuild, Reconsidered
<1>14. CASE CacheUnreadable
  <2>1. cfg \in Configs
    BY <1>14 DEF CacheUnreadable
  <2>2. cache' \in Caches /\ cache'.date = now.day
    BY <1>14, <2>1, RebuiltType DEF CacheUnreadable, Rebuild, Caches, Configs
  <2>3. lost' \subseteq Occurrences
    BY <1>14, <2>1, GivenUpType DEF CacheUnreadable, Rebuild
  <2> QED BY <1>14, <2>2, <2>3 DEF CacheUnreadable, Rebuild, Mishap
<1>15. CASE SaveBuilt
  BY <1>15 DEF SaveBuilt
<1>16. CASE SaveBuiltFails
  BY <1>16 DEF SaveBuiltFails, Mishap
<1>17. ASSUME NEW t \in Held, Announce(t) \/ Drop(t) PROVE TypeOK'
  <2>1. cache \in Caches /\ t \in Trigger /\ Occ(now.day, t) \in Occurrences
    BY <1>17 DEF Announce, Drop, Caches, EarliestDue, Due, Occurrences, Occ
  <2>2. cache' \in Caches /\ cache'.date = now.day
    BY <1>17, <2>1 DEF Announce, Drop, Consume, Caches
  <2>3. announced' \subseteq Occurrences /\ forgotten' \subseteq announced' /\ lost' \subseteq Occurrences
    BY <1>17, <2>1 DEF Announce, Drop
  <2> QED BY <1>17, <2>2, <2>3 DEF Announce, Drop, Consume
<1>18. CASE NotifyInitFails
  BY <1>18, EndCycleType DEF NotifyInitFails, Mishap
<1>19. CASE AdhanEnds
  BY <1>19 DEF AdhanEnds
<1>20. CASE FinishLoop
  BY <1>20 DEF FinishLoop, LoopDone
<1>21. CASE FinishUnsaved
  BY <1>21, EndCycleType DEF FinishUnsaved, LoopDone, Unrecorded
<1>22. CASE SaveBack
  BY <1>22, EndCycleType DEF SaveBack
<1>23. CASE SaveBackFails
  BY <1>23, EndCycleType DEF SaveBackFails, Unrecorded, Mishap
<1>24. CASE Crash
  <2>1. /\ pc' = "down" /\ cfg' = Nil /\ cache' = Nil /\ now' = now
        /\ refreshed' = FALSE /\ notified' = FALSE /\ dirty' = FALSE
        /\ mishaps' \in 0..MaxMishaps /\ edits' = edits
    BY <1>24 DEF Crash, Mishap
  <2>2. forgotten' \subseteq announced' /\ announced' = announced
    BY <1>24 DEF Crash, Unrecorded
  <2>3. exposed' \in BOOLEAN
    BY <1>24 DEF Crash, MidRefresh
  <2>4. /\ UNCHANGED clockVars /\ UNCHANGED <<config, cacheFile, retryAt, cli, lost>>
    BY <1>24 DEF Crash
  <2> QED BY <2>1, <2>2, <2>3, <2>4
<1>25. CASE CliOpen
  BY <1>25 DEF CliOpen
<1>26. CASE CliSave
  <2>1. cli.cfg \in Configs
    BY <1>26 DEF CliSave
  <2>2. Edited(cli.cfg) \subseteq Configs
    <3> DEFINE c == cli.cfg
    <3>1. \A f \in Prefs : [c EXCEPT !.prefs = f] \in Configs
      BY <2>1 DEF Configs
    <3>2. \A l \in Locations : [c EXCEPT !.loc = l, !.auto = FALSE] \in Configs
      BY <2>1 DEF Configs
    <3>3. \A l \in Detectable : Detected(c, l) \in Configs
      BY <2>1, DetectedType
    <3>4. [c EXCEPT !.auto = TRUE] \in Configs
      BY <2>1 DEF Configs
    <3>5. Edited(c) = {[c EXCEPT !.prefs = f] : f \in Prefs}
                        \cup {[c EXCEPT !.loc = l, !.auto = FALSE] : l \in Locations}
                        \cup {Detected(c, l) : l \in Detectable}
                        \cup {[c EXCEPT !.auto = TRUE]}
      BY DEF Edited
    <3> HIDE DEF c
    <3>6. ASSUME NEW e \in Edited(c) PROVE e \in Configs
      <4>1. CASE e \in {[c EXCEPT !.prefs = f] : f \in Prefs}
        BY <3>1, <4>1
      <4>2. CASE e \in {[c EXCEPT !.loc = l, !.auto = FALSE] : l \in Locations}
        BY <3>2, <4>2
      <4>3. CASE e \in {Detected(c, l) : l \in Detectable}
        BY <3>3, <4>3
      <4>4. CASE e = [c EXCEPT !.auto = TRUE]
        BY <3>4, <4>4
      <4> QED BY <3>5, <3>6, <4>1, <4>2, <4>3, <4>4
    <3> QED BY <3>6 DEF c
  <2> QED BY <1>26, <2>2 DEF CliSave
<1>27. CASE CliSaveFails
  BY <1>27 DEF CliSaveFails, Mishap
<1>28. CASE CliInvalidate
  BY <1>28 DEF CliInvalidate, AboutToWrite
<1>29. CASE CliInvalidateLost
  BY <1>29 DEF CliInvalidateLost, Mishap
<1>30. CASE UNCHANGED vars
  BY <1>30 DEF vars
<1> QED
  BY <1>1, <1>2, <1>3, <1>4, <1>5, <1>6, <1>7, <1>8, <1>9, <1>10, <1>11, <1>12, <1>13,
     <1>14, <1>15, <1>16, <1>17, <1>18, <1>19, <1>20, <1>21, <1>22, <1>23, <1>24, <1>25,
     <1>26, <1>27, <1>28, <1>29, <1>30
  DEF Next, DaemonStep, CliStep
-----------------------------------------------------------------------------
(***************************************************************************)
(* What the steps do to the lists and to the history, in four kinds and    *)
(* seven single actions.                                                   *)
(***************************************************************************)
Keeps ==
  UNCHANGED <<cacheFile, cache, now, notified, announced, lost, forgotten>>

ReadsClock ==
  /\ UNCHANGED <<cacheFile, announced, lost, forgotten>>
  /\ cache' \in {cache, Nil} /\ now' = Clock /\ ~notified /\ ~notified'

Forgets ==
  /\ UNCHANGED <<cacheFile, announced, lost>>
  /\ forgotten' = forgotten \cup Unrecorded
  /\ cache' = Nil /\ now' \in {now, Clock}

Invalidates ==
  /\ UNCHANGED <<cache, now, notified, announced, lost>>
  /\ cacheFile' = Nil /\ forgotten' = announced

Writes == SaveBuilt \/ SaveBack

Rebuilds == RebuildCache \/ CacheUnreadable

LEMMA StepKinds ==
  ASSUME TypeOK, [Next]_vars
  PROVE  \/ Keeps \/ ReadsClock \/ Forgets \/ Invalidates
         \/ LoadCache \/ Rebuilds \/ Writes
         \/ \E t \in Held : Announce(t) \/ Drop(t)
<1> USE DEF history, cycleVars
<1>1. ASSUME pc \notin HoldsList \ {"saveBuilt"} PROVE ~notified
  BY <1>1 DEF TypeOK
<1>2. CASE Tick
  BY <1>2 DEF Tick, Keeps
<1>3. CASE BeginCycle
  BY <1>1, <1>3 DEF BeginCycle, Awake, HoldsList, ReadsClock
<1>4. CASE ConfigUnreadable
  BY <1>1, <1>4 DEF ConfigUnreadable, Awake, HoldsList, EndCycle, ReadsClock
<1>5. CASE DetectFails
  BY <1>1, <1>5 DEF DetectFails, HoldsList, EndCycle, ReadsClock
<1>6. CASE SaveDetectedFails
  BY <1>1, <1>6 DEF SaveDetectedFails, HoldsList, EndCycle, ReadsClock
<1>7. CASE DetectSucceeds \/ SaveDetected
  BY <1>7 DEF DetectSucceeds, SaveDetected, Keeps
<1>8. CASE RefreshSucceeds \/ RefreshFails
  BY <1>8 DEF RefreshSucceeds, RefreshFails, Keeps
<1>9. CASE SaveRefreshed \/ SaveRefreshedFails
  BY <1>9 DEF SaveRefreshed, SaveRefreshedFails, Keeps
<1>10. CASE SaveBuiltFails \/ AdhanEnds \/ FinishLoop
  BY <1>10 DEF SaveBuiltFails, AdhanEnds, FinishLoop, Keeps
<1>11. CASE NotifyInitFails
  BY <1>11 DEF NotifyInitFails, EndCycle, ReadsClock
<1>12. CASE FinishUnsaved
  <2>1. CASE dirty
    BY <1>12, <2>1 DEF FinishUnsaved, EndCycle, Forgets
  <2>2. CASE ~dirty
    BY <1>12, <2>2 DEF FinishUnsaved, EndCycle, ReadsClock, TypeOK
  <2> QED BY <2>1, <2>2
<1>13. CASE SaveBackFails
  BY <1>13 DEF SaveBackFails, EndCycle, Forgets
<1>14. CASE Crash
  <2>1. CASE pc \in InCycle
    BY <1>14, <2>1 DEF Crash, Forgets
  <2>2. CASE pc \notin InCycle
    <3>1. cache = Nil /\ notified = FALSE
      BY <1>1, <2>2, Places DEF TypeOK
    <3> QED BY <1>14, <2>2, <3>1 DEF Crash, Keeps
  <2> QED BY <2>1, <2>2
<1>15. CASE CliOpen \/ CliSave \/ CliSaveFails \/ CliInvalidateLost
  BY <1>15 DEF CliOpen, CliSave, CliSaveFails, CliInvalidateLost, Keeps
<1>16. CASE CliInvalidate
  BY <1>16 DEF CliInvalidate, Invalidates
<1>17. CASE UNCHANGED vars
  BY <1>17 DEF vars, Keeps
<1> QED
  BY <1>2, <1>3, <1>4, <1>5, <1>6, <1>7, <1>8, <1>9, <1>10, <1>11, <1>12, <1>13, <1>14,
     <1>15, <1>16, <1>17
  DEF Next, DaemonStep, CliStep, Writes, Rebuilds

-----------------------------------------------------------------------------
LEMMA AccountedStep == TypeOK /\ Accounted /\ [Next]_vars => Accounted'
<1> SUFFICES ASSUME TypeOK, Accounted, [Next]_vars PROVE Accounted'
  OBVIOUS
<1> USE DEF history, Accounted, AccountedIn
<1>1. CASE Keeps \/ Forgets \/ Invalidates
  BY <1>1 DEF Keeps, Forgets, Invalidates
<1>2. CASE ReadsClock
  BY <1>2 DEF ReadsClock
<1>3. CASE LoadCache
  BY <1>3 DEF LoadCache
<1>4. CASE Rebuilds
  <2>1. /\ announced' = announced /\ lost' = lost \cup GivenUp /\ cacheFile' = cacheFile
        /\ cache' = [date |-> now.day, triggers |-> Rebuilt,
                     from |-> [prefs |-> cfg.prefs, loc |-> cfg.loc]]
    BY <1>4 DEF Rebuilds, RebuildCache, CacheUnreadable, Rebuild
  <2>2. \A t \in Scheduled(cfg.prefs, cfg.loc, now.day) :
          t \in Rebuilt \/ Occ(now.day, t) \in announced \cup GivenUp
    BY DEF GivenUp
  <2>3. AccountedIn(cache)'
    BY <2>1, <2>2
  <2> QED BY <2>1, <2>3
<1>5. CASE Writes
  <2>1. cache # Nil
    BY <1>5 DEF Writes, SaveBuilt, SaveBack, TypeOK, HoldsList
  <2> QED BY <1>5, <2>1 DEF Writes, SaveBuilt, SaveBack, EndCycle, cycleVars
<1>6. ASSUME NEW t \in Held, Announce(t) \/ Drop(t) PROVE Accounted'
  <2>1. pc = "loop"
    BY <1>6 DEF Announce, Drop
  <2>2. cache # Nil /\ cache \in Caches /\ cache.date = now.day
    BY <2>1 DEF TypeOK, HoldsList
  <2>3. cache' = [cache EXCEPT !.triggers = @ \ {t}] /\ cacheFile' = cacheFile
    BY <1>6 DEF Announce, Drop, Consume
  <2>4. /\ announced \subseteq announced' /\ lost \subseteq lost'
        /\ Occ(now.day, t) \in announced' \cup lost'
    BY <1>6 DEF Announce, Drop
  <2>5. /\ cache'.from = cache.from /\ cache'.date = cache.date
        /\ cache'.triggers = cache.triggers \ {t}
    BY <2>2, <2>3 DEF Caches
  <2>6. AccountedIn(cache)'
    BY <2>2, <2>4, <2>5
  <2> QED BY <2>3, <2>4, <2>6
<1> QED BY <1>1, <1>2, <1>3, <1>4, <1>5, <1>6, StepKinds

LEMMA BehindStep == TypeOK /\ Behind /\ [Next]_vars => Behind'
<1> SUFFICES ASSUME TypeOK, Behind, [Next]_vars PROVE Behind'
  OBVIOUS
<1>1. /\ now.day \in Int /\ now.minute \in Int /\ Clock.day \in Int /\ Clock.minute \in Int
      /\ NotAfter(now, Clock)
  BY SizesAssumption DEF TypeOK, Clock
<1>2. \A o \in announced : o.day \in Int /\ o.trig.minute \in Int
  BY SizesAssumption, TriggerNumbers DEF TypeOK, Occurrences
<1>3. cacheFile # Nil => cacheFile.date \in Int
  BY SizesAssumption DEF TypeOK, Caches
<1>4. ASSUME announced' = announced, cacheFile' \in {cacheFile, Nil}, now' \in {now, Clock}
      PROVE  Behind'
  BY <1>1, <1>2, <1>3, <1>4 DEF Behind, NotAfter
<1>5. CASE Keeps \/ ReadsClock \/ Forgets \/ Invalidates
  BY <1>4, <1>5 DEF Keeps, ReadsClock, Forgets, Invalidates
<1>6. CASE LoadCache \/ Rebuilds
  BY <1>4, <1>6 DEF LoadCache, Rebuilds, RebuildCache, CacheUnreadable, Rebuild, history
<1>7. CASE Writes
  <2>1. cache # Nil /\ cache.date = now.day
    BY <1>7 DEF Writes, SaveBuilt, SaveBack, TypeOK, HoldsList
  <2>2. announced' = announced /\ cacheFile' = cache /\ now' \in {now, Clock}
    BY <1>7 DEF Writes, SaveBuilt, SaveBack, EndCycle, cycleVars, history
  <2> QED BY <1>1, <1>2, <2>1, <2>2 DEF Behind, NotAfter
<1>8. ASSUME NEW t \in Held, Announce(t) PROVE Behind'
  <2>1. t.minute <= now.minute
    BY <1>8 DEF Announce, EarliestDue, Due
  <2>2. /\ announced' = announced \cup {Occ(now.day, t)}
        /\ cacheFile' = cacheFile /\ now' = now
    BY <1>8 DEF Announce
  <2> QED BY <2>1, <2>2 DEF Behind, NotAfter, Occ
<1>9. ASSUME NEW t \in Held, Drop(t) PROVE Behind'
  BY <1>4, <1>9 DEF Drop
<1> QED BY <1>5, <1>6, <1>7, <1>8, <1>9, StepKinds

\* What has been announced is not told apart by anything but day and trigger.
LEMMA OccInjective ==
  ASSUME NEW d, NEW t, NEW u, Occ(d, t) = Occ(d, u)
  PROVE  t = u
<1>1. Occ(d, t).trig = t /\ Occ(d, u).trig = u
  BY DEF Occ
<1> QED BY <1>1

LEMMA RecordedStep ==
  TypeOK /\ Behind /\ Recorded /\ NeverTwice /\ [Next]_vars => Recorded'
<1> SUFFICES ASSUME TypeOK, Behind, Recorded, NeverTwice, [Next]_vars PROVE Recorded'
  OBVIOUS
<1>1. /\ now.day \in Int /\ Clock.day \in Int /\ now.day <= Clock.day
      /\ \A o \in announced : o.day \in Int /\ o.day <= now.day
  BY SizesAssumption, TriggerNumbers DEF TypeOK, Clock, Behind, NotAfter, Occurrences
<1>2. CASE Keeps
  BY <1>2 DEF Keeps, Recorded
<1>3. CASE ReadsClock
  BY <1>1, <1>3 DEF ReadsClock, Recorded
<1>4. CASE Forgets
  <2>1. ASSUME cacheFile # Nil, NEW t \in cacheFile.triggers,
               Occ(cacheFile.date, t) \in announced
        PROVE  Occ(cacheFile.date, t) \in Unrecorded
    BY <2>1 DEF Unrecorded, Occ
  <2>2. ASSUME NEW o \in announced, cacheFile = Nil \/ cacheFile.date # o.day
        PROVE  o \in Unrecorded
    BY <2>2 DEF Unrecorded
  <2> QED BY <1>4, <2>1, <2>2 DEF Forgets, Recorded
<1>5. CASE Invalidates
  BY <1>5 DEF Invalidates, Recorded
<1>6. CASE LoadCache
  BY <1>6 DEF LoadCache, Recorded, history
<1>7. CASE Rebuilds
  BY <1>7 DEF Rebuilds, RebuildCache, CacheUnreadable, Rebuild, Recorded
<1>8. CASE Writes
  <2>1. cache # Nil /\ cache.date = now.day
    BY <1>8 DEF Writes, SaveBuilt, SaveBack, TypeOK, HoldsList
  <2>2. /\ cacheFile' = cache /\ now' \in {now, Clock}
        /\ announced' = announced /\ forgotten' = forgotten
    BY <1>8 DEF Writes, SaveBuilt, SaveBack, EndCycle, cycleVars, history
  <2>3. \A t \in cache.triggers :
          Occ(cache.date, t) \in announced => Occ(cache.date, t) \in forgotten
    BY <2>1 DEF NeverTwice
  <2>4. ASSUME cache.date # now'.day, NEW o \in announced PROVE o.day # now'.day
    BY <1>1, <2>1, <2>2, <2>4
  <2> QED BY <2>1, <2>2, <2>3, <2>4 DEF Recorded
<1>9. ASSUME NEW t \in Held, Announce(t) \/ Drop(t) PROVE Recorded'
  BY <1>9 DEF Announce, Drop, Recorded
<1> QED BY <1>2, <1>3, <1>4, <1>5, <1>6, <1>7, <1>8, <1>9, StepKinds

\* A rebuild does not schedule what has been announced and not forgotten.
LEMMA RebuiltIsNew ==
  ASSUME TypeOK, Behind, Recorded, Rebuilds, NEW t \in Rebuilt,
         Occ(now.day, t) \in announced
  PROVE  Occ(now.day, t) \in forgotten'
<1>1. cfg \in Configs /\ ~notified
  BY DEF Rebuilds, RebuildCache, CacheUnreadable, TypeOK, Resting, HoldsList
<1>2. t \in Trigger /\ t.minute \in Int /\ now.minute \in Int /\ now.day \in Int
  BY <1>1, RebuiltType, TriggerNumbers, SizesAssumption DEF TypeOK
<1>3. CASE CacheUnreadable
  BY <1>3 DEF CacheUnreadable
<1>4. CASE RebuildCache /\ refreshed
  <2>1. t.minute >= now.minute
    BY <1>4 DEF Rebuilt
  <2>2. t.minute <= now.minute
    BY <1>2 DEF Behind, NotAfter, Occ
  <2>3. Occ(now.day, t) \in Reconsidered
    BY <1>2, <1>4, <2>1, <2>2 DEF Reconsidered, Occ
  <2> QED BY <1>4, <2>3 DEF RebuildCache
<1>5. CASE RebuildCache /\ ~refreshed
  <2>1. cacheFile = Nil \/ cacheFile.date # now.day
    BY <1>5 DEF RebuildCache, ValidForToday
  <2>2. Occ(now.day, t) \in forgotten
    BY <1>1, <2>1 DEF Recorded, Occ
  <2> QED BY <1>5, <2>2 DEF RebuildCache
<1> QED BY <1>3, <1>4, <1>5 DEF Rebuilds

LEMMA NeverTwiceStep ==
  TypeOK /\ TypeOK' /\ Behind /\ Recorded /\ Recorded' /\ NeverTwice /\ [Next]_vars
    => NeverTwice'
<1> SUFFICES ASSUME TypeOK, TypeOK', Behind, Recorded, Recorded', NeverTwice, [Next]_vars
             PROVE  NeverTwice'
  OBVIOUS
<1> DEFINE New == cache # Nil =>
             \A t \in cache.triggers :
               Occ(cache.date, t) \in announced => Occ(cache.date, t) \in forgotten
<1>1. New
  BY DEF NeverTwice
<1>2. SUFFICES New'
  <2>1. ASSUME (pc \in Resting)' PROVE ~notified'
    BY <2>1 DEF TypeOK, Resting, HoldsList
  <2> QED BY <1>2, <2>1 DEF NeverTwice, Recorded
<1>3. CASE Keeps \/ ReadsClock \/ Forgets
  BY <1>1, <1>3 DEF Keeps, ReadsClock, Forgets
<1>4. CASE Invalidates
  BY <1>4 DEF Invalidates
<1>5. CASE LoadCache
  <2>1. ~notified
    BY <1>5 DEF LoadCache, TypeOK, HoldsList
  <2> QED BY <1>5, <2>1 DEF LoadCache, Recorded, history
<1>6. CASE Rebuilds
  <2>1. /\ announced' = announced
        /\ cache' = [date |-> now.day, triggers |-> Rebuilt,
                     from |-> [prefs |-> cfg.prefs, loc |-> cfg.loc]]
    BY <1>6 DEF Rebuilds, RebuildCache, CacheUnreadable, Rebuild
  <2> QED BY <1>6, <2>1, RebuiltIsNew
<1>7. CASE Writes
  BY <1>1, <1>7 DEF Writes, SaveBuilt, SaveBack, EndCycle, cycleVars, history
<1>8. ASSUME NEW t \in Held, Announce(t) \/ Drop(t) PROVE New'
  <2>1. cache # Nil /\ cache \in Caches /\ cache.date = now.day
    BY <1>8 DEF Announce, Drop, TypeOK, HoldsList
  <2>2. cache' = [cache EXCEPT !.triggers = @ \ {t}]
    BY <1>8 DEF Announce, Drop, Consume
  <2>3. cache'.date = cache.date /\ cache'.triggers = cache.triggers \ {t}
    BY <2>1, <2>2 DEF Caches
  <2>4. /\ announced' \subseteq announced \cup {Occ(now.day, t)}
        /\ forgotten \ {Occ(now.day, t)} \subseteq forgotten'
    BY <1>8 DEF Announce, Drop
  <2>5. \A u \in cache.triggers \ {t} : Occ(now.day, u) # Occ(now.day, t)
    BY OccInjective
  <2> QED BY <1>1, <2>1, <2>3, <2>4, <2>5
<1> QED BY <1>3, <1>4, <1>5, <1>6, <1>7, <1>8, StepKinds

LEMMA InvStep == IInv /\ [Next]_vars => IInv'
BY TypeStep, AccountedStep, BehindStep, RecordedStep, NeverTwiceStep DEF IInv

LEMMA Invariant == Spec => []IInv
BY InitInv, InvStep, PTL DEF Spec

-----------------------------------------------------------------------------
(***************************************************************************)
(* The cycle's locals are what each place in muslimtify_run_cycle_at needs *)
(* them to be: a list in memory is always today's, flags are fresh at the  *)
(* start, and no failure path leaves one behind.                           *)
(***************************************************************************)
THEOREM TypeCorrect == Spec => []TypeOK
<1>1. IInv => TypeOK
  BY DEF IInv
<1> QED BY <1>1, Invariant, PTL

(***************************************************************************)
(* No trigger vanishes: what a day holds under the settings of a list is   *)
(* on the list, announced or given up, at every step of cycles, commands,  *)
(* failures and crashes.                                                   *)
(***************************************************************************)
THEOREM NothingVanishes == Spec => []Accounted
<1>1. IInv => Accounted
  BY DEF IInv
<1> QED BY <1>1, Invariant, PTL

(***************************************************************************)
(* No trigger repeats unless the record of it was destroyed, however many  *)
(* crashes, failed saves, refreshes and settings commands there are.       *)
(***************************************************************************)
THEOREM RepeatsOnlyForgotten == Spec => []NeverTwice
<1>1. IInv => NeverTwice
  BY DEF IInv
<1> QED BY <1>1, Invariant, PTL

(***************************************************************************)
(* Every trigger that is given up is given up for a reason the code names: *)
(* the five of GivenUpWithReason and no other.                             *)
(***************************************************************************)
THEOREM ReasonsToGiveUp == Spec => GivenUpWithReason
<1> DEFINE Reason(o) ==
      \/ o.day < now.day
      \/ now.minute - o.trig.minute > CatchupMax
      \/ Overtaken(o.trig, now.minute)
      \/ refreshed /\ o.trig.minute < now.minute
      \/ /\ o.trig.before > 0
         /\ Cardinality(Scheduled(cfg.prefs, cfg.loc, now.day)) > MaxTriggers
<1>1. ASSUME IInv, [Next]_vars, NEW o \in lost' \ lost PROVE Reason(o)
  <2>1. TypeOK /\ Behind
    BY <1>1 DEF IInv
  <2>2. CASE Keeps \/ ReadsClock \/ Forgets \/ Invalidates
    BY <1>1, <2>2 DEF Keeps, ReadsClock, Forgets, Invalidates
  <2>3. CASE LoadCache \/ Writes
    BY <1>1, <2>3 DEF LoadCache, Writes, SaveBuilt, SaveBack, history
  <2>4. CASE Rebuilds
    <3>1. cfg \in Configs /\ o \in GivenUp
      BY <1>1, <2>1, <2>4
      DEF Rebuilds, RebuildCache, CacheUnreadable, Rebuild, TypeOK, Resting
    <3>2. /\ cfg.prefs \in Prefs /\ cfg.loc \in Locations
          /\ now.day \in 0..LastDay /\ now.minute \in 0..(DayLen - 1)
      BY <2>1, <3>1 DEF TypeOK, Configs
    <3>3. CASE cacheFile # Nil /\ cacheFile.date # now.day /\ o.day = cacheFile.date
      <4>1. cacheFile.date \in Int /\ now.day \in Int
        BY <2>1, <3>3, SizesAssumption DEF TypeOK, Caches
      <4> QED BY <2>1, <3>3, <4>1 DEF Behind
    <3>4. ASSUME NEW t \in Scheduled(cfg.prefs, cfg.loc, now.day) \ Rebuilt,
                 o = Occ(now.day, t)
          PROVE  Reason(o)
      <4>1. o.trig = t /\ t \in Trigger
        BY <2>1, <3>1, <3>4, RebuiltType DEF Occ
      <4>2. CASE t \notin BuildTriggers(cfg.prefs, cfg.loc, now.day, now.minute)
        BY <3>2, <4>1, <4>2, LeftOutWithReason
      <4>3. CASE t \in BuildTriggers(cfg.prefs, cfg.loc, now.day, now.minute)
        <5>1. refreshed /\ ~(t.minute >= now.minute)
          BY <3>4, <4>3 DEF Rebuilt
        <5>2. t.minute \in Int /\ now.minute \in Int
          BY <3>2, <4>1, TriggerNumbers, SizesAssumption
        <5> QED BY <4>1, <5>1, <5>2
      <4> QED BY <4>2, <4>3
    <3>5. \/ cacheFile # Nil /\ cacheFile.date # now.day /\ o.day = cacheFile.date
          \/ \E t \in Scheduled(cfg.prefs, cfg.loc, now.day) \ Rebuilt : o = Occ(now.day, t)
      BY <3>1 DEF GivenUp, Occ
    <3> QED BY <3>3, <3>4, <3>5
  <2>5. ASSUME NEW t \in Held, Announce(t) \/ Drop(t) PROVE Reason(o)
    <3>1. o = Occ(now.day, t) /\ CatchupAction(t, now.minute) = "DROP"
      BY <1>1, <2>5 DEF Announce, Drop
    <3>2. now.minute - t.minute > CatchupMax \/ Overtaken(t, now.minute)
      BY <3>1 DEF CatchupAction
    <3>3. o.trig = t
      BY <3>1 DEF Occ
    <3> QED BY <3>2, <3>3
  <2> QED BY <1>1, <2>1, <2>2, <2>3, <2>4, <2>5, StepKinds
<1>2. IInv /\ [Next]_vars => [\A o \in lost' \ lost : Reason(o)]_vars
  BY <1>1
<1> QED BY <1>2, Invariant, PTL DEF Spec, GivenUpWithReason

-----------------------------------------------------------------------------
\* A list in the file or in memory is one of the day's schedules, or less.
LEMMA GenuineStep == TypeOK /\ Genuine /\ [Next]_vars => Genuine'
<1> SUFFICES ASSUME TypeOK, Genuine, [Next]_vars PROVE Genuine'
  OBVIOUS
<1> USE DEF Genuine
<1>1. CASE Keeps \/ ReadsClock \/ Forgets \/ Invalidates
  BY <1>1 DEF Keeps, ReadsClock, Forgets, Invalidates
<1>2. CASE LoadCache
  BY <1>2 DEF LoadCache
<1>3. CASE Rebuilds
  <2>1. /\ cacheFile' = cacheFile
        /\ cache' = [date |-> now.day, triggers |-> Rebuilt,
                     from |-> [prefs |-> cfg.prefs, loc |-> cfg.loc]]
    BY <1>3 DEF Rebuilds, RebuildCache, CacheUnreadable, Rebuild
  <2>2. Rebuilt \subseteq Scheduled(cfg.prefs, cfg.loc, now.day)
    BY BuiltIsScheduled DEF Rebuilt
  <2> QED BY <2>1, <2>2
<1>4. CASE Writes
  BY <1>4 DEF Writes, SaveBuilt, SaveBack, EndCycle, cycleVars
<1>5. ASSUME NEW t \in Held, Announce(t) \/ Drop(t) PROVE Genuine'
  <2>1. cache # Nil /\ cache \in Caches
    BY <1>5 DEF Announce, Drop, TypeOK, HoldsList
  <2>2. cache' = [cache EXCEPT !.triggers = @ \ {t}] /\ cacheFile' = cacheFile
    BY <1>5 DEF Announce, Drop, Consume
  <2>3. /\ cache'.from = cache.from /\ cache'.date = cache.date
        /\ cache'.triggers = cache.triggers \ {t}
    BY <2>1, <2>2 DEF Caches
  <2> QED BY <2>1, <2>2, <2>3
<1> QED BY <1>1, <1>2, <1>3, <1>4, <1>5, StepKinds

\* What is on a list, some schedule of the day holds.
LEMMA OnASchedule ==
  ASSUME TypeOK, Genuine, NEW c \in {cacheFile, cache} \ {Nil}, NEW t \in c.triggers
  PROVE  c.date \in 0..LastDay /\ t \in Trigger /\ Promise!Planned(Occ(c.date, t))
<1>1. c \in Caches
  BY DEF TypeOK
<1>2. /\ c.date \in 0..LastDay /\ c.triggers \subseteq Trigger
      /\ c.from.prefs \in Prefs /\ c.from.loc \in Locations
  BY <1>1 DEF Caches
<1>3. Scheduled(c.from.prefs, c.from.loc, c.date) \in DaySchedules[c.date]
  BY <1>2 DEF DaySchedules
<1>4. t \in Scheduled(c.from.prefs, c.from.loc, c.date)
  BY DEF Genuine
<1>5. Occ(c.date, t).day = c.date /\ Occ(c.date, t).trig = t
  BY DEF Occ
<1> QED BY <1>2, <1>3, <1>4, <1>5 DEF Promise!Planned

\* What a rebuild gives up has not been announced, and there is an excuse.
LEMMA GivenUpExcused ==
  ASSUME TypeOK, Behind, Genuine, cfg \in Configs, NEW o \in GivenUp
  PROVE  o \notin announced /\ Promise!Planned(o) /\ Promise!Excuse(o)
<1>0. o \notin announced
  BY DEF GivenUp
<1>1. /\ cfg.prefs \in Prefs /\ cfg.loc \in Locations
      /\ now.day \in 0..LastDay /\ now.minute \in 0..(DayLen - 1)
  BY DEF TypeOK, Configs
<1>2. CASE cacheFile # Nil /\ cacheFile.date # now.day
           /\ \E t \in cacheFile.triggers : o = Occ(cacheFile.date, t)
  <2>1. PICK t \in cacheFile.triggers : o = Occ(cacheFile.date, t)
    BY <1>2
  <2>2. Promise!Planned(o) /\ cacheFile.date \in 0..LastDay /\ o.day = cacheFile.date
    BY <1>2, <2>1, OnASchedule DEF Occ
  <2>3. cacheFile.date <= now.day
    BY <1>2 DEF Behind
  <2>4. o.day < now.day
    BY <1>1, <1>2, <2>2, <2>3, SizesAssumption
  <2> QED BY <1>0, <2>2, <2>4 DEF Promise!Excuse
<1>3. ASSUME NEW t \in Scheduled(cfg.prefs, cfg.loc, now.day) \ Rebuilt, o = Occ(now.day, t)
      PROVE  Promise!Planned(o) /\ Promise!Excuse(o)
  <2> DEFINE S == Scheduled(cfg.prefs, cfg.loc, now.day)
  <2>1. o.day = now.day /\ o.trig = t /\ t \in S
    BY <1>3 DEF Occ
  <2>2. S \in DaySchedules[now.day]
    BY <1>1 DEF DaySchedules
  <2>3. Promise!Planned(o)
    BY <2>1, <2>2 DEF Promise!Planned
  <2>4. t.minute \in Int /\ t.before \in Int /\ now.minute \in Int /\ CatchupMax \in Int
    BY <1>1, <2>1, ScheduledType, TriggerNumbers, SizesAssumption
  <2>5. CASE t \notin BuildTriggers(cfg.prefs, cfg.loc, now.day, now.minute)
    <3>1. \/ now.minute - t.minute > CatchupMax
          \/ t.before > 0 /\ Cardinality(S) > MaxTriggers
      BY <1>1, <2>1, <2>5, LeftOutWithReason
    <3>2. ASSUME now.minute - t.minute > CatchupMax PROVE now.minute > t.minute + CatchupMax
      BY <2>4, <3>2
    <3>3. ASSUME t.before > 0, Cardinality(S) > MaxTriggers PROVE Promise!Crowded(o)
      <4>1. S \in DaySchedules[o.day] \cap LongSchedules
        BY <1>1, <2>1, <2>2, <3>3 DEF LongSchedules
      <4> QED BY <2>1, <3>3, <4>1 DEF Promise!Crowded
    <3>4. ASSUME now.minute - t.minute > CatchupMax PROVE Promise!Excuse(o)
      <4>1. now.minute > o.trig.minute + CatchupMax
        BY <2>1, <3>2, <3>4
      <4> QED BY <2>1, <4>1, Zenon DEF Promise!Excuse
    <3>5. ASSUME Promise!Crowded(o) PROVE Promise!Excuse(o)
      BY <2>1, <3>5, Zenon DEF Promise!Excuse
    <3> QED BY <2>3, <3>1, <3>3, <3>4, <3>5
  <2>6. CASE t \in BuildTriggers(cfg.prefs, cfg.loc, now.day, now.minute)
    <3>1. refreshed /\ ~(t.minute >= now.minute)
      BY <1>3, <2>6 DEF Rebuilt
    <3>2. t.minute < now.minute
      BY <2>4, <3>1
    <3>3. o.trig.minute < now.minute
      BY <2>1, <3>2, Zenon
    <3> QED BY <2>1, <2>3, <3>1, <3>3, Zenon DEF Promise!Excuse
  <2> QED BY <2>3, <2>5, <2>6
<1>4. \/ /\ cacheFile # Nil /\ cacheFile.date # now.day
         /\ \E t \in cacheFile.triggers : o = Occ(cacheFile.date, t)
      \/ \E t \in Scheduled(cfg.prefs, cfg.loc, now.day) \ Rebuilt : o = Occ(now.day, t)
  BY DEF GivenUp
<1> QED BY <1>0, <1>2, <1>3, <1>4

\* What the cycle has in hand, a schedule holds, and it was not told before or
\* is unsure.
LEMMA SoundAgenda == TypeOK /\ Genuine /\ NeverTwice => Promise!Sound
<1> SUFFICES ASSUME TypeOK, Genuine, NeverTwice, cache # Nil, NEW t \in cache.triggers
             PROVE  /\ Promise!Planned(Occ(cache.date, t))
                    /\ Occ(cache.date, t) \in announced => Occ(cache.date, t) \in forgotten
  BY DEF Promise!Sound, Agenda
<1>1. Promise!Planned(Occ(cache.date, t))
  BY OnASchedule
<1> QED BY <1>1 DEF NeverTwice

\* The clock is read, or not, and no announcement is taken back.
LEMMA Proceeds ==
  ASSUME TypeOK, TypeOK', now' \in {now, Clock}, forgotten \subseteq forgotten',
         forgotten' \subseteq announced, UNCHANGED <<announced, lost>>,
          Agenda' = Agenda \/ Agenda = {} \/ Agenda' = {}
  PROVE  Promise!Proceed
<1>1. now.day < now'.day \/ (now.day = now'.day /\ now.minute <= now'.minute)
  <2>1. now.day \in Int /\ now.minute \in Int
    BY SizesAssumption DEF TypeOK
  <2> QED BY <2>1 DEF TypeOK, NotAfter
<1>2. refreshed' \in BOOLEAN
  BY DEF TypeOK
<1> QED BY <1>1, <1>2 DEF Promise!Proceed, Promise!Forget

LEMMA RefinesStep == IInv /\ Genuine /\ [Next]_vars => [Promise!Next]_(Promise!vars)
<1> SUFFICES ASSUME IInv, Genuine, [Next]_vars PROVE Promise!Next
  OBVIOUS
<1>1. TypeOK /\ Behind /\ NeverTwice /\ TypeOK' /\ NeverTwice' /\ Genuine'
  BY InvStep, GenuineStep DEF IInv
<1>2. forgotten \subseteq announced
  BY <1>1 DEF TypeOK
<1>3. Promise!Sound'
  <2>1. (TypeOK /\ Genuine /\ NeverTwice => Promise!Sound)'
    BY SoundAgenda, PTL
  <2> QED BY <1>1, <2>1
<1>4. ASSUME cache = Nil PROVE Agenda = {}
  BY <1>4 DEF Agenda
<1>5. CASE Keeps \/ ReadsClock \/ Forgets \/ Invalidates \/ LoadCache \/ Writes
  <2>1. now' \in {now, Clock} /\ UNCHANGED <<announced, lost>>
    BY <1>5 DEF Keeps, ReadsClock, Forgets, Invalidates, LoadCache, Writes, SaveBuilt,
       SaveBack, EndCycle, cycleVars, history
  <2>2. forgotten' \in {forgotten, forgotten \cup Unrecorded, announced}
    BY <1>5 DEF Keeps, ReadsClock, Forgets, Invalidates, LoadCache, Writes, SaveBuilt,
       SaveBack, EndCycle, cycleVars, history
  <2>3. Unrecorded \subseteq announced
    BY DEF Unrecorded
  <2>4. cache' = cache \/ cache = Nil \/ cache' = Nil
    BY <1>1, <1>5 DEF Keeps, ReadsClock, Forgets, Invalidates, LoadCache, Writes, SaveBuilt,
       SaveBack, EndCycle, cycleVars, TypeOK, HoldsList
  <2>5. Agenda' = Agenda \/ Agenda = {} \/ Agenda' = {}
    BY <2>4 DEF Agenda
  <2>6. Promise!Proceed
    BY <1>1, <1>2, <2>1, <2>2, <2>3, <2>5, Proceeds
  <2> QED BY <1>3, <2>6 DEF Promise!Next
<1>6. CASE Rebuilds
  <2>1. cfg \in Configs /\ cache = Nil
    BY <1>1, <1>6 DEF Rebuilds, RebuildCache, CacheUnreadable, TypeOK, Resting, HoldsList
  <2>2. UNCHANGED <<now, refreshed, announced>> /\ lost' = lost \cup GivenUp
    BY <1>6 DEF Rebuilds, RebuildCache, CacheUnreadable, Rebuild
  <2>3. forgotten' \in {forgotten \cup Reconsidered, announced}
    BY <1>6 DEF Rebuilds, RebuildCache, CacheUnreadable
  <2>4. forgotten \subseteq forgotten' /\ forgotten' \subseteq announced
    BY <1>2, <2>3 DEF Reconsidered
  <2>5. \A o \in lost' \ lost : Promise!Planned(o) /\ o \notin announced /\ Promise!Excuse(o)
    BY <1>1, <2>1, <2>2, GivenUpExcused
  <2>6. Promise!GiveUp
    BY <1>4, <2>1, <2>2, <2>4, <2>5 DEF Promise!GiveUp, Promise!Forget
  <2> QED BY <1>3, <2>6 DEF Promise!Next
<1>7. ASSUME NEW t \in Held, Announce(t) \/ Drop(t) PROVE Promise!Next
  <2> DEFINE o == Occ(now.day, t)
  <2>1. cache # Nil /\ cache \in Caches /\ cache.date = now.day /\ t \in cache.triggers
    BY <1>1, <1>7 DEF Announce, Drop, TypeOK, HoldsList, EarliestDue, Due
  <2>2. t \in Trigger /\ Promise!Planned(o)
    BY <1>1, <2>1, OnASchedule
  <2>3. o.day = now.day /\ o.trig = t
    BY DEF Occ
  <2>4. /\ t.minute \in Int /\ t.before \in Int /\ now.minute \in Int /\ CatchupMax \in Int
        /\ t.minute <= now.minute
    BY <1>1, <1>7, <2>2, TriggerNumbers, SizesAssumption
    DEF TypeOK, Announce, Drop, EarliestDue, Due
  <2>5. o \in Agenda /\ Agenda' = Agenda \ {o}
    <3>1. cache' = [cache EXCEPT !.triggers = @ \ {t}]
      BY <1>7 DEF Announce, Drop, Consume
    <3>2. cache'.date = now.day /\ cache'.triggers = cache.triggers \ {t} /\ cache' \in Caches
      BY <2>1, <3>1 DEF Caches
    <3>3. Agenda = {Occ(now.day, u) : u \in cache.triggers}
      BY <2>1 DEF Agenda
    <3>4. Agenda' = {Occ(now.day, u) : u \in cache.triggers \ {t}}
      BY <3>2, NilAssumption DEF Agenda
    <3>5. \A u \in cache.triggers \ {t} : Occ(now.day, u) # o
      BY OccInjective
    <3> QED BY <2>1, <3>3, <3>4, <3>5
  <2>6. CASE Announce(t)
    <3>1. CatchupAction(t, now.minute) = "FIRE"
      BY <2>6 DEF Announce
    <3>2. now.minute <= t.minute + CatchupMax /\ ~Overtaken(t, now.minute)
      BY <2>4, <3>1 DEF CatchupAction
    <3>3. Promise!InTime(o) /\ ~Promise!Useless(o)
      BY <2>3, <2>4, <3>2 DEF Promise!InTime, Promise!Useless, Overtaken
    <3>4. /\ announced' = announced \cup {o} /\ forgotten' = forgotten \ {o}
          /\ UNCHANGED <<now, refreshed, lost>>
      BY <2>6 DEF Announce
    <3>5. Promise!Tell(o)
      BY <2>5, <3>3, <3>4 DEF Promise!Tell
    <3> QED BY <1>3, <2>5, <3>5 DEF Promise!Next
  <2>7. CASE Drop(t)
    <3>1. CatchupAction(t, now.minute) = "DROP"
      BY <2>7 DEF Drop
    <3>2. now.minute > t.minute + CatchupMax \/ Overtaken(t, now.minute)
      BY <2>4, <3>1 DEF CatchupAction
    <3>3. Promise!Excuse(o)
      BY <2>3, <3>2 DEF Promise!Excuse, Promise!Useless, Overtaken
    <3>4. /\ lost' = lost \cup ({o} \ announced)
          /\ UNCHANGED <<now, refreshed, announced, forgotten>>
      BY <2>7 DEF Drop
    <3>5. Promise!GiveUp
      BY <1>2, <2>2, <2>5, <3>3, <3>4 DEF Promise!GiveUp, Promise!Forget
    <3> QED BY <1>3, <3>5 DEF Promise!Next
  <2> QED BY <1>7, <2>6, <2>7
<1> QED BY <1>1, <1>5, <1>6, <1>7, StepKinds

(***************************************************************************)
(* The cycle implements the announcer: whatever is read, written, lost and *)
(* edited in between, the user is told what a schedule of the day holds,   *)
(* in its minute or within the catch-up window, never of a reminder whose  *)
(* prayer has come, nothing again of which the record was kept, and what   *)
(* is given up has an excuse (muslimtify_cycle.c, check_cycle.c).          *)
(***************************************************************************)
THEOREM CycleIsAnnouncer == Spec => KeepsPromise
<1>1. Init => Promise!Init /\ Genuine
  BY DEF Init, Promise!Init, Genuine, Agenda
<1>2. IInv /\ Genuine /\ [Next]_vars => Genuine'
  BY GenuineStep DEF IInv
<1>3. Spec => Promise!Spec
  BY <1>1, <1>2, RefinesStep, Invariant, PTL DEF Spec, Promise!Spec
<1> QED BY <1>3 DEF KeepsPromise

\* Left undisturbed, a cycle finds the file it has loaded or written.
LEMMA InOrderStep == TypeOK /\ InOrder /\ [Next]_vars => InOrder'
<1> SUFFICES ASSUME TypeOK, InOrder, [Next]_vars PROVE InOrder'
  OBVIOUS
<1> USE CycleAssumption, NilAssumption
    DEF InOrder, Undisturbed, TypeOK, history, budget, cycleVars
<1>1. ASSUME Mishap PROVE mishaps' # 0
  BY <1>1 DEF Mishap
<1>2. ASSUME NEW c, NEW t, NEW r, RefreshEvery = 0 PROVE AfterDetect(c, t, r) = "loadCache"
  BY <1>2 DEF AfterDetect, Stale
<1>3. ASSUME EndCycle PROVE ~refreshed' /\ pc' = "asleep"
  BY <1>3 DEF EndCycle
<1>4. CASE Tick
  BY <1>4 DEF Tick
<1>5. CASE BeginCycle
  <2>1. RefreshEvery = 0 => pc' \in {"detect", "loadCache"}
    BY <1>2, <1>5 DEF BeginCycle
  <2> QED BY <1>5, <2>1 DEF BeginCycle, Awake, AfterDetect
<1>6. CASE ConfigUnreadable \/ SaveDetectedFails \/ NotifyInitFails \/ SaveBackFails
  BY <1>1, <1>3, <1>6
  DEF ConfigUnreadable, SaveDetectedFails, NotifyInitFails, SaveBackFails
<1>7. CASE DetectSucceeds \/ DetectFails
  BY <1>3, <1>7 DEF DetectSucceeds, DetectFails
<1>8. CASE SaveDetected
  <2>1. RefreshEvery = 0 => pc' = "loadCache"
    BY <1>2, <1>8 DEF SaveDetected
  <2> QED BY <1>8, <2>1 DEF SaveDetected, AfterDetect
<1>9. CASE RefreshSucceeds \/ RefreshFails \/ SaveRefreshed
  BY <1>9 DEF RefreshSucceeds, RefreshFails, SaveRefreshed
<1>10. CASE SaveRefreshedFails \/ SaveBuiltFails \/ CacheUnreadable
  BY <1>1, <1>10 DEF SaveRefreshedFails, SaveBuiltFails, CacheUnreadable, Rebuild
<1>11. CASE LoadCache
  BY <1>11 DEF LoadCache, ValidForToday
<1>12. CASE RebuildCache
  <2>1. RefreshEvery = 0 => Reconsidered = {}
    BY DEF Reconsidered
  <2> QED BY <1>12, <2>1 DEF RebuildCache, Rebuild
<1>13. CASE SaveBuilt
  BY <1>13 DEF SaveBuilt, HoldsList
<1>14. ASSUME NEW t \in Held, Announce(t) \/ Drop(t) PROVE InOrder'
  <2>1. pc = "loop" /\ pc' \in {"loop", "adhan"}
    BY <1>14 DEF Announce, Drop
  <2>2. /\ UNCHANGED <<cacheFile, cli, mishaps, edits, refreshed>>
        /\ forgotten' \in {forgotten, forgotten \ {Occ(now.day, t)}}
    BY <1>14 DEF Announce, Drop
  <2> QED BY <2>1, <2>2
<1>15. CASE AdhanEnds \/ FinishLoop
  BY <1>15 DEF AdhanEnds, FinishLoop, LoopDone
<1>16. CASE FinishUnsaved
  BY <1>3, <1>16 DEF FinishUnsaved, LoopDone
<1>17. CASE SaveBack
  BY <1>3, <1>17 DEF SaveBack, HoldsList
<1>18. CASE Crash
  BY <1>1, <1>18 DEF Crash
<1>19. CASE CliStep
  <2>1. CASE CliOpen
    BY <2>1 DEF CliOpen
  <2>2. CASE CliSave \/ CliSaveFails
    BY <1>1, <2>2 DEF CliSave, CliSaveFails
  <2>3. CASE CliInvalidate \/ CliInvalidateLost
    BY <1>1, <2>3 DEF CliInvalidate, CliInvalidateLost
  <2> QED BY <1>19, <2>1, <2>2, <2>3 DEF CliStep
<1>20. CASE UNCHANGED vars
  BY <1>20 DEF vars
<1> QED
  BY <1>4, <1>5, <1>6, <1>7, <1>8, <1>9, <1>10, <1>11, <1>12, <1>13, <1>14, <1>15, <1>16,
     <1>17, <1>18, <1>19, <1>20
  DEF Next, DaemonStep

(***************************************************************************)
(* A daemon that no command, failure, crash or refresh disturbs announces  *)
(* nothing twice: the list in its hands holds nothing announced but what   *)
(* was forgotten, and left undisturbed it forgets nothing                  *)
(* (muslimtify_cycle.c).                                                   *)
(***************************************************************************)
THEOREM UndisturbedTellsOnce == Spec => ToldOnce
<1>1. Init => InOrder
  BY DEF Init, InOrder
<1>2. IInv /\ InOrder /\ [Next]_vars => InOrder'
  BY InOrderStep DEF IInv
<1>3. IInv /\ InOrder /\ [Next]_vars =>
        [Undisturbed => \A t \in Held : Announce(t) => Occ(now.day, t) \notin announced]_vars
  <2> SUFFICES ASSUME IInv, InOrder, Undisturbed, NEW t \in Held, Announce(t)
               PROVE  Occ(now.day, t) \notin announced
    OBVIOUS
  <2>1. forgotten = {} /\ TypeOK /\ NeverTwice
    BY DEF InOrder, IInv
  <2>2. cache # Nil /\ cache.date = now.day /\ t \in cache.triggers
    BY <2>1 DEF Announce, Held, TypeOK, HoldsList
  <2> QED BY <2>1, <2>2 DEF NeverTwice
<1> QED BY <1>1, <1>2, <1>3, Invariant, PTL DEF Spec, ToldOnce

-----------------------------------------------------------------------------
\* The file is of an earlier day once the clock has been read on a later one.
LEMMA FileOfToday ==
  ASSUME TypeOK, Behind, cacheFile # Nil, NEW d \in {day, Clock.day},
         cacheFile.date = d
  PROVE  cacheFile.date = now.day
<1>1. day \in Int /\ now.day \in Int /\ now.day <= day /\ Clock.day = day
  BY SizesAssumption DEF TypeOK, NotAfter, Clock
<1>2. cacheFile.date \in Int /\ cacheFile.date <= now.day
  BY SizesAssumption DEF Behind, TypeOK, Caches
<1> QED BY <1>1, <1>2

LEMMA TiedStep ==
  ASSUME Unset \notin Detectable
  PROVE  TypeOK /\ Behind /\ Tied /\ [Next]_vars => Tied'
<1> SUFFICES ASSUME TypeOK, Behind, Tied, [Next]_vars PROVE Tied'
  OBVIOUS
<1> USE DEF Tied, history, budget, cycleVars, clockVars
<1>1. \A c : \A l \in Detectable : c \in Configs => ~NeedsDetect(Detected(c, l))
  BY DEF NeedsDetect, Detected, Configs
<1>2. now' = Clock /\ UNCHANGED cacheFile /\ cacheFile # Nil /\ cacheFile.date = now'.day
        => cacheFile.date = now.day
  BY FileOfToday DEF Clock
<1>3. CASE Tick
  BY <1>3 DEF Tick, MidRefresh, BelongsToConfig, NeedsDetect
<1>4. CASE BeginCycle
  <2>1. ~MidRefresh /\ ~MidRefresh' /\ pc \notin {"loop", "adhan"}
    BY <1>4 DEF BeginCycle, Awake, MidRefresh, TypeOK, HoldsList
  <2> QED BY <1>2, <1>4, <2>1
          DEF BeginCycle, Awake, AfterDetect, BelongsToConfig, NeedsDetect
<1>5. ASSUME pc' \in Resting, UNCHANGED <<config, cacheFile, cli>>, now' \in {now, Clock},
             ~exposed' => ~exposed /\ ~MidRefresh
      PROVE  Tied'
  <2> SUFFICES ASSUME ~exposed', cli'.at # "saved" PROVE Tied'
    OBVIOUS
  <2>1. ~exposed /\ cli.at # "saved" /\ ~MidRefresh
    BY <1>5
  <2>2. pc' \notin InCycle
    BY <1>5, Places
  <2>3. ASSUME cacheFile' # Nil, cacheFile'.date = now'.day PROVE BelongsToConfig(cacheFile)'
    <3>1. cacheFile # Nil /\ cacheFile.date = now.day
      BY <1>2, <1>5, <2>3
    <3>2. BelongsToConfig(cacheFile)
      BY <2>1, <3>1
    <3> QED BY <1>5, <3>2 DEF BelongsToConfig, NeedsDetect
  <2> QED BY <2>2, <2>3 DEF InCycle, Blocking
<1>6. CASE ConfigUnreadable \/ DetectFails \/ SaveDetectedFails \/ NotifyInitFails
  <2>1. ~MidRefresh
    BY <1>6 DEF ConfigUnreadable, DetectFails, SaveDetectedFails, NotifyInitFails, Awake,
       MidRefresh
  <2> QED BY <1>5, <1>6, <2>1
          DEF ConfigUnreadable, DetectFails, SaveDetectedFails, NotifyInitFails, EndCycle,
              Resting
<1>7. CASE FinishUnsaved \/ SaveBackFails \/ Crash
  <2>1. CASE FinishUnsaved \/ SaveBackFails
    BY <1>5, <2>1 DEF FinishUnsaved, LoopDone, SaveBackFails, EndCycle, Resting, MidRefresh
  <2>2. CASE Crash
    BY <1>5, <2>2 DEF Crash, Resting
  <2> QED BY <1>7, <2>1, <2>2
<1>8. CASE DetectSucceeds
  BY <1>1, <1>8 DEF DetectSucceeds, MidRefresh, BelongsToConfig, NeedsDetect, TypeOK, Resting
<1>9. CASE SaveDetected
  BY <1>9 DEF SaveDetected, AfterDetect, MidRefresh, BelongsToConfig, NeedsDetect
<1>10. CASE RefreshSucceeds
  BY <1>1, <1>10 DEF RefreshSucceeds, MidRefresh, BelongsToConfig, NeedsDetect, TypeOK, Resting
<1>11. CASE RefreshFails
  BY <1>11 DEF RefreshFails, MidRefresh, BelongsToConfig, NeedsDetect
<1>12. CASE SaveRefreshed
  <2>1. refreshed
    BY <1>12 DEF SaveRefreshed, TypeOK
  <2> QED BY <1>12, <2>1 DEF SaveRefreshed, MidRefresh, BelongsToConfig, NeedsDetect
<1>13. CASE SaveRefreshedFails \/ SaveBuiltFails \/ CliInvalidateLost
  BY <1>13 DEF SaveRefreshedFails, SaveBuiltFails, CliInvalidateLost
<1>14. CASE LoadCache
  BY <1>14 DEF LoadCache, ValidForToday, MidRefresh, BelongsToConfig, NeedsDetect
<1>15. CASE Rebuilds
  BY <1>15 DEF Rebuilds, RebuildCache, CacheUnreadable, Rebuild, MidRefresh, BelongsToConfig,
     NeedsDetect
<1>16. CASE SaveBuilt
  BY <1>16 DEF SaveBuilt, MidRefresh, BelongsToConfig, NeedsDetect
<1>17. ASSUME NEW t \in Held, Announce(t) \/ Drop(t) PROVE Tied'
  <2>1. cache \in Caches /\ pc = "loop"
    BY <1>17 DEF Announce, Drop, TypeOK, HoldsList
  <2>2. cache'.from = cache.from
    BY <1>17, <2>1 DEF Announce, Drop, Consume, Caches
  <2> QED BY <1>17, <2>1, <2>2 DEF Announce, Drop, MidRefresh, BelongsToConfig, NeedsDetect
<1>18. CASE AdhanEnds
  BY <1>18 DEF AdhanEnds, MidRefresh, BelongsToConfig, NeedsDetect
<1>19. CASE FinishLoop
  BY <1>19 DEF FinishLoop, LoopDone, MidRefresh, BelongsToConfig, NeedsDetect
<1>20. CASE SaveBack
  BY <1>20 DEF SaveBack, EndCycle, MidRefresh, BelongsToConfig, NeedsDetect
<1>21. CASE CliOpen \/ CliSaveFails
  BY <1>21 DEF CliOpen, CliSaveFails, MidRefresh, BelongsToConfig, NeedsDetect
<1>22. CASE CliSave
  BY <1>22 DEF CliSave
<1>23. CASE CliInvalidate
  BY <1>23 DEF CliInvalidate, AboutToWrite, TypeOK, Resting, InCycle, Blocking
<1>24. CASE UNCHANGED vars
  BY <1>24 DEF vars, MidRefresh, BelongsToConfig, NeedsDetect
<1> QED
  BY <1>3, <1>4, <1>6, <1>7, <1>8, <1>9, <1>10, <1>11, <1>12, <1>13, <1>14, <1>15, <1>16,
     <1>17, <1>18, <1>19, <1>20, <1>21, <1>22, <1>23, <1>24
  DEF Next, DaemonStep, CliStep, Rebuilds

(***************************************************************************)
(* If no lookup answers 0,0, a change of settings takes effect: whatever   *)
(* the interleaving of a cycle's loop, its adhan and a command, the list   *)
(* at rest is the one of the config, up to the exceptions "exposed" names. *)
(***************************************************************************)
THEOREM SettingsRule ==
  ASSUME Unset \notin Detectable
  PROVE  Spec => []FreshCache
<1>1. Init => Tied
  BY DEF Init, Tied, MidRefresh
<1>2. IInv /\ Tied /\ [Next]_vars => Tied'
  BY TiedStep DEF IInv
<1>3. IInv /\ Tied => FreshCache
  <2> SUFFICES ASSUME IInv, Tied, Quiescent, ~exposed, cacheFile # Nil, cacheFile.date = day
               PROVE  cacheFile.from = [prefs |-> config.prefs, loc |-> config.loc]
    BY DEF FreshCache, CacheMatchesConfig
  <2>1. TypeOK /\ Behind
    BY DEF IInv
  <2>2. cacheFile.date = now.day
    BY <2>1, FileOfToday
  <2>3. pc \in Resting /\ cli.at # "saved" /\ ~MidRefresh
    BY DEF Quiescent, Resting, MidRefresh
  <2> QED BY <2>2, <2>3 DEF Tied, BelongsToConfig, Resting
<1> QED BY <1>1, <1>2, <1>3, Invariant, PTL DEF Spec
=============================================================================
