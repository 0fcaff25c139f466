----------------------------- MODULE CheckCycle -----------------------------
(***************************************************************************)
(* The check cycle of the daemon (src/lib/muslimtify_cycle.c), run once a  *)
(* minute against two files it shares with the command line: the config    *)
(* file and the trigger cache.  A step of this module is what the daemon   *)
(* or a command does between two points at which another process, the      *)
(* clock or a crash can get in between: a file read or written, a blocking *)
(* call, an announcement.                                                  *)
(*                                                                         *)
(* The clock is a day and a minute of the day.  What the prayer times are  *)
(* and which trigger a list admits comes from module Triggers.             *)
(***************************************************************************)
EXTENDS Triggers

CONSTANTS
  Nil,             \* no file, or no value
  Unset,           \* the location 0,0 of a config that never had one
  Detectable,      \* locations a lookup may answer
  Initial,         \* configs the system may start from
  RefreshEvery,    \* refresh_interval in minutes, 0 = never
  RetryAfter,      \* REFRESH_RETRY_SEC in minutes (10)
  ProcessPerCycle, \* TRUE: a new process each minute (Windows task)
  MaxEdits,        \* bound: commands that change settings
  MaxMishaps,      \* bound: failed reads, writes and inits, and crashes
  MaxBlock         \* TimelySpec only: minutes a cycle may be blocked

Configs == [prefs : Prefs, loc : Locations, auto : BOOLEAN, updated : Nat]

\* A cache file or its copy in memory.  "from" is not in the file: it keeps
\* which settings and place the triggers were computed for.
Caches == [date : 0..LastDay, triggers : SUBSET Trigger,
           from : [prefs : Prefs, loc : Locations]]

Occurrences == [day : 0..LastDay, trig : Trigger]

ASSUME CycleAssumption ==
  /\ Unset \in Locations /\ Detectable \subseteq Locations
  /\ Initial \subseteq Configs
  /\ RefreshEvery \in Nat /\ RetryAfter \in Nat /\ ProcessPerCycle \in BOOLEAN
  /\ MaxEdits \in Nat /\ MaxMishaps \in Nat /\ MaxBlock \in Nat

ASSUME NilAssumption == Nil \notin Configs /\ Nil \notin Caches

VARIABLES
  day, minute,   \* the wall clock
  config,        \* the config file
  cacheFile,     \* the trigger cache file, Nil when there is none
  pc,            \* where the daemon is
  now,           \* clock reading of the cycle; at rest, when it went to sleep
  cfg,           \* the cycle's copy of the config
  cache,         \* the cycle's copy of the trigger cache
  refreshed, notified, dirty,   \* the cycle's flags of these names
  retryAt,       \* g_refresh_retry_at
  cli,           \* a command that edits settings: where it is, what it holds
  edits, mishaps,               \* bounds used up
  announced,     \* history: occurrences announced to the user
  forgotten,     \* history: announced ones whose record was destroyed
  lost,          \* history: occurrences given up without an announcement
  exposed        \* history: a step broke the cache's tie to the config

clockVars == <<day, minute>>
cycleVars == <<now, cfg, cache, refreshed, notified, dirty>>
budget    == <<edits, mishaps>>
history   == <<announced, forgotten, lost, exposed>>
vars == <<clockVars, config, cacheFile, pc, cycleVars, retryAt, cli, budget, history>>

Resting  == {"down", "asleep"}
Blocking == {"detect", "refresh", "adhan"}
InCycle  == Blocking \cup {"saveDetected", "saveRefreshed", "loadCache",
                           "saveBuilt", "loop", "saveBack"}

-----------------------------------------------------------------------------
Clock == [day |-> day, minute |-> minute]
Epoch(t) == t.day * DayLen + t.minute

Occ(d, t) == [day |-> d, trig |-> t]

NeedsDetect(c) == c.auto /\ c.loc = Unset

Stale(c, t) == c.auto /\ RefreshEvery > 0 /\ Epoch(t) - c.updated >= RefreshEvery

\* A lookup that found l: the candidate config that replaces c.
Detected(c, l) == [c EXCEPT !.loc = l, !.auto = TRUE, !.updated = Epoch(Clock)]

AfterDetect(c, t, retry) ==
  IF Stale(c, t) /\ Epoch(t) >= retry THEN "refresh" ELSE "loadCache"

ValidIgnoringDate(c) == c # Nil

ValidForToday(c) == c # Nil /\ c.date = now.day

\* The announced occurrences that the cache file no longer vouches for.
Unrecorded ==
  {o \in announced : \/ cacheFile = Nil
                     \/ cacheFile.date # o.day
                     \/ o.trig \in cacheFile.triggers}

Mishap == mishaps < MaxMishaps /\ mishaps' = mishaps + 1 /\ edits' = edits

\* The cycle returns: its locals are gone, the daemon sleeps until the clock
\* shows another minute.
EndCycle ==
  /\ pc' = "asleep" /\ now' = Clock
  /\ cfg' = Nil /\ cache' = Nil
  /\ refreshed' = FALSE /\ notified' = FALSE /\ dirty' = FALSE

-----------------------------------------------------------------------------
Tick ==
  /\ \/ minute + 1 < DayLen /\ minute' = minute + 1 /\ day' = day
     \/ minute + 1 = DayLen /\ day < LastDay /\ minute' = 0 /\ day' = day + 1
  /\ UNCHANGED <<config, cacheFile, pc, cycleVars, retryAt, cli, budget, history>>

\* Due to run: just started, or asleep since an earlier minute.
Awake == pc = "down" \/ (pc = "asleep" /\ now # Clock)

\* g_refresh_retry_at lives as long as the process.
RetryAtOnEntry == IF pc = "down" \/ ProcessPerCycle THEN 0 ELSE retryAt

BeginCycle ==
  /\ Awake
  /\ now' = Clock
  /\ cfg' = config
  /\ retryAt' = RetryAtOnEntry
  /\ pc' = IF NeedsDetect(config) THEN "detect"
           ELSE AfterDetect(config, Clock, RetryAtOnEntry)
  /\ UNCHANGED <<clockVars, config, cacheFile, cache, refreshed, notified, dirty,
                 cli, budget, history>>

\* config_load fails: MUSLIMTIFY_ERR_CONFIG_LOAD, the daemon carries on.
ConfigUnreadable ==
  /\ Awake /\ Mishap
  /\ EndCycle
  /\ retryAt' = RetryAtOnEntry
  /\ UNCHANGED <<clockVars, config, cacheFile, cli, history>>

DetectSucceeds ==
  /\ pc = "detect"
  /\ \E l \in Detectable : cfg' = Detected(cfg, l)
  /\ pc' = "saveDetected"
  /\ UNCHANGED <<clockVars, config, cacheFile, now, cache, refreshed, notified, dirty,
                 retryAt, cli, budget, history>>

DetectFails ==
  /\ pc = "detect"
  /\ EndCycle
  /\ UNCHANGED <<clockVars, config, cacheFile, retryAt, cli, budget, history>>

\* config_save only: the cache is not invalidated.
SaveDetected ==
  /\ pc = "saveDetected"
  /\ config' = cfg
  /\ pc' = AfterDetect(cfg, now, retryAt)
  /\ UNCHANGED <<clockVars, cacheFile, cycleVars, retryAt, cli, budget, history>>

SaveDetectedFails ==
  /\ pc = "saveDetected" /\ Mishap
  /\ EndCycle
  /\ UNCHANGED <<clockVars, config, cacheFile, retryAt, cli, history>>

RefreshSucceeds ==
  /\ pc = "refresh"
  /\ \E l \in Detectable : cfg' = Detected(cfg, l)
  /\ refreshed' = TRUE
  /\ pc' = "saveRefreshed"
  /\ UNCHANGED <<clockVars, config, cacheFile, now, cache, notified, dirty,
                 retryAt, cli, budget, history>>

\* The last known location is kept and the cycle carries on.
RefreshFails ==
  /\ pc = "refresh"
  /\ retryAt' = Epoch(now) + RetryAfter
  /\ pc' = "loadCache"
  /\ UNCHANGED <<clockVars, config, cacheFile, cycleVars, cli, budget, history>>

SaveRefreshed ==
  /\ pc = "saveRefreshed"
  /\ config' = cfg
  /\ pc' = "loadCache"
  /\ UNCHANGED <<clockVars, cacheFile, cycleVars, retryAt, cli, budget, history>>

\* Not fatal: the cycle goes on with a location the config does not have.
SaveRefreshedFails ==
  /\ pc = "saveRefreshed" /\ Mishap
  /\ pc' = "loadCache"
  /\ exposed' = TRUE
  /\ UNCHANGED <<clockVars, config, cacheFile, cycleVars, retryAt, cli,
                 announced, forgotten, lost>>

LoadCacheRegardless ==
  /\ pc = "loadCache" /\ ValidForToday(cacheFile)
  /\ cache' = cacheFile
  /\ pc' = "loop"
  /\ UNCHANGED <<clockVars, config, cacheFile, now, cfg, refreshed, notified, dirty,
                 retryAt, cli, budget, history>>

LoadCache ==
  /\ pc = "loadCache" /\ ~refreshed /\ ValidForToday(cacheFile)
  /\ cache' = cacheFile
  /\ pc' = "loop"
  /\ UNCHANGED <<clockVars, config, cacheFile, now, cfg, refreshed, notified, dirty,
                 retryAt, cli, budget, history>>

\* What a rebuild schedules.  After a refresh, nothing that lies behind.
RebuiltNoBound ==
  BuildTriggers(cfg.prefs, cfg.loc, now.day, now.minute)

RebuiltStrict ==
  {t \in BuildTriggers(cfg.prefs, cfg.loc, now.day, now.minute) :
     refreshed => t.minute > now.minute}

Rebuilt ==
  {t \in BuildTriggers(cfg.prefs, cfg.loc, now.day, now.minute) :
     refreshed => t.minute >= now.minute}

\* What a rebuild gives up: the rest of an earlier day's list, and what of
\* today's schedule it leaves out.
GivenUp ==
  ({Occ(now.day, t) : t \in Scheduled(cfg.prefs, cfg.loc, now.day) \ Rebuilt}
    \cup IF cacheFile # Nil /\ cacheFile.date # now.day
         THEN {Occ(cacheFile.date, t) : t \in cacheFile.triggers} ELSE {})
  \ announced

\* A refresh in the minute of an announcement schedules it anew.
Reconsidered ==
  {o \in announced : refreshed /\ o.day = now.day /\ o.trig.minute = now.minute}

Rebuild ==
  /\ cache' = [date |-> now.day, triggers |-> Rebuilt,
               from |-> [prefs |-> cfg.prefs, loc |-> cfg.loc]]
  /\ lost' = lost \cup GivenUp
  /\ pc' = "saveBuilt"

RebuildCache ==
  /\ pc = "loadCache" /\ (refreshed \/ ~ValidForToday(cacheFile))
  /\ Rebuild
  /\ forgotten' = forgotten \cup Reconsidered
  /\ UNCHANGED <<clockVars, config, cacheFile, now, cfg, refreshed, notified, dirty,
                 retryAt, cli, budget, announced, exposed>>

\* cache_load rejects a file it cannot read or parse.
CacheUnreadable ==
  /\ pc = "loadCache" /\ ~refreshed /\ ValidForToday(cacheFile) /\ Mishap
  /\ Rebuild
  /\ forgotten' = announced
  /\ UNCHANGED <<clockVars, config, cacheFile, now, cfg, refreshed, notified, dirty,
                 retryAt, cli, announced, exposed>>

SaveBuilt ==
  /\ pc = "saveBuilt"
  /\ cacheFile' = cache
  /\ pc' = "loop"
  /\ UNCHANGED <<clockVars, config, cycleVars, retryAt, cli, budget, history>>

\* The cycle goes on with its copy; a file of another place may stay behind.
SaveBuiltFails ==
  /\ pc = "saveBuilt" /\ Mishap
  /\ pc' = "loop"
  /\ exposed' = TRUE
  /\ UNCHANGED <<clockVars, config, cacheFile, cycleVars, retryAt, cli,
                 announced, forgotten, lost>>

-----------------------------------------------------------------------------
\* The loop over the triggers.  The trigger leaves the list once it has been
\* announced; that is not visible before the list is saved, so it is one step.
ConsumeMinute(t) ==
  /\ cache' = [cache EXCEPT !.triggers = {u \in @ : u.minute # t.minute}]
  /\ dirty' = TRUE

ConsumeClean(t) ==
  /\ cache' = [cache EXCEPT !.triggers = @ \ {t}]
  /\ UNCHANGED dirty

Consume(t) ==
  /\ cache' = [cache EXCEPT !.triggers = @ \ {t}]
  /\ dirty' = TRUE

Announce(t) ==
  /\ pc = "loop" /\ t \in EarliestDue(cache.triggers, now.minute)
  /\ CatchupAction(t, now.minute) = "FIRE"
  /\ Consume(t)
  /\ notified' = TRUE
  /\ announced' = announced \cup {Occ(now.day, t)}
  /\ forgotten' = forgotten \ {Occ(now.day, t)}
  /\ pc' = IF PlaysAdhan(t, now.minute) THEN "adhan" ELSE "loop"
  /\ UNCHANGED <<clockVars, config, cacheFile, now, cfg, refreshed, retryAt, cli,
                 budget, lost, exposed>>

\* notify_init fails before the first announcement: the cycle ends without
\* saving, the trigger is tried again.
NotifyInitFails ==
  /\ pc = "loop" /\ ~notified /\ Mishap
  /\ \E t \in EarliestDue(cache.triggers, now.minute) : CatchupAction(t, now.minute) = "FIRE"
  /\ EndCycle
  /\ UNCHANGED <<clockVars, config, cacheFile, retryAt, cli, history>>

Drop(t) ==
  /\ pc = "loop" /\ t \in EarliestDue(cache.triggers, now.minute)
  /\ CatchupAction(t, now.minute) = "DROP"
  /\ Consume(t)
  /\ lost' = lost \cup ({Occ(now.day, t)} \ announced)
  /\ UNCHANGED <<clockVars, config, cacheFile, pc, now, cfg, refreshed, notified, retryAt,
                 cli, budget, announced, forgotten, exposed>>

\* The recitation ends, is stopped or is interrupted.
AdhanEnds ==
  /\ pc = "adhan"
  /\ pc' = "loop"
  /\ UNCHANGED <<clockVars, config, cacheFile, cycleVars, retryAt, cli, budget, history>>

LoopDone == pc = "loop" /\ Due(cache.triggers, now.minute) = {}

\* Something was consumed and the file is still there: write the list back.
FinishLoopNoCheck ==
  /\ LoopDone /\ dirty
  /\ pc' = "saveBack"
  /\ UNCHANGED <<clockVars, config, cacheFile, cycleVars, retryAt, cli, budget, history>>

FinishLoop ==
  /\ LoopDone /\ dirty /\ cacheFile # Nil
  /\ pc' = "saveBack"
  /\ UNCHANGED <<clockVars, config, cacheFile, cycleVars, retryAt, cli, budget, history>>

\* Nothing to write back, or no file to write it to.
FinishUnsaved ==
  /\ LoopDone /\ (~dirty \/ cacheFile = Nil)
  /\ EndCycle
  /\ forgotten' = IF dirty THEN forgotten \cup Unrecorded ELSE forgotten
  /\ UNCHANGED <<clockVars, config, cacheFile, retryAt, cli, budget,
                 announced, lost, exposed>>

SaveBack ==
  /\ pc = "saveBack"
  /\ cacheFile' = cache
  /\ EndCycle
  /\ UNCHANGED <<clockVars, config, retryAt, cli, budget, history>>

\* MUSLIMTIFY_ERR_CACHE_SAVE: the same triggers come back next minute.
SaveBackFails ==
  /\ pc = "saveBack" /\ Mishap
  /\ EndCycle
  /\ forgotten' = forgotten \cup Unrecorded
  /\ UNCHANGED <<clockVars, config, cacheFile, retryAt, cli, announced, lost, exposed>>

\* The config already has the new place, the cache file the old one's times.
MidRefresh == refreshed /\ pc \in {"loadCache", "saveBuilt"}

\* The process is killed, or stopped between cycles; the service manager
\* may start it again at once.
Crash ==
  /\ pc # "down" /\ Mishap
  /\ pc' = "down"
  /\ cfg' = Nil /\ cache' = Nil
  /\ refreshed' = FALSE /\ notified' = FALSE /\ dirty' = FALSE
  /\ forgotten' = IF pc \in InCycle THEN forgotten \cup Unrecorded ELSE forgotten
  /\ exposed' = (exposed \/ MidRefresh)
  /\ UNCHANGED <<clockVars, config, cacheFile, now, retryAt, cli, announced, lost>>

-----------------------------------------------------------------------------
\* A command: it loads the config, changes its copy, saves the copy and then
\* deletes the cache file (muslimtify_save).
CliOpen ==
  /\ cli.at = "idle" /\ edits < MaxEdits
  /\ edits' = edits + 1
  /\ cli' = [at |-> "editing", cfg |-> config]
  /\ UNCHANGED <<clockVars, config, cacheFile, pc, cycleVars, retryAt, mishaps, history>>

\* Preferences, a place set by hand, a lookup, or GPS switched on without a fix.
Edited(c) ==
  {[c EXCEPT !.prefs = f] : f \in Prefs}
    \cup {[c EXCEPT !.loc = l, !.auto = FALSE] : l \in Locations}
    \cup {Detected(c, l) : l \in Detectable}
    \cup {[c EXCEPT !.auto = TRUE]}

CliSave ==
  /\ cli.at = "editing"
  /\ \E c \in Edited(cli.cfg) : config' = c
  /\ cli' = [at |-> "saved", cfg |-> Nil]
  /\ UNCHANGED <<clockVars, cacheFile, pc, cycleVars, retryAt, budget, history>>

CliSaveFails ==
  /\ cli.at = "editing" /\ Mishap
  /\ cli' = [at |-> "idle", cfg |-> Nil]
  /\ UNCHANGED <<clockVars, config, cacheFile, pc, cycleVars, retryAt, history>>

\* A cycle that is about to write the cache, and read the config long ago.
AboutToWrite == pc \in InCycle \ {"loop", "adhan"}

CliInvalidate ==
  /\ cli.at = "saved"
  /\ cacheFile' = Nil
  /\ cli' = [at |-> "idle", cfg |-> Nil]
  /\ forgotten' = announced
  /\ exposed' = AboutToWrite
  /\ UNCHANGED <<clockVars, config, pc, cycleVars, retryAt, budget, announced, lost>>

\* The delete fails, which cache_invalidate ignores, or the command dies first.
CliInvalidateLost ==
  /\ cli.at = "saved" /\ Mishap
  /\ cli' = [at |-> "idle", cfg |-> Nil]
  /\ exposed' = TRUE
  /\ UNCHANGED <<clockVars, config, cacheFile, pc, cycleVars, retryAt,
                 announced, forgotten, lost>>

-----------------------------------------------------------------------------
Init ==
  /\ day = 0 /\ minute = 0
  /\ config \in Initial
  /\ cacheFile = Nil
  /\ pc = "down" /\ now = [day |-> 0, minute |-> 0]
  /\ cfg = Nil /\ cache = Nil
  /\ refreshed = FALSE /\ notified = FALSE /\ dirty = FALSE
  /\ retryAt = 0
  /\ cli = [at |-> "idle", cfg |-> Nil]
  /\ edits = 0 /\ mishaps = 0
  /\ announced = {} /\ forgotten = {} /\ lost = {} /\ exposed = FALSE

Held == IF pc = "loop" THEN cache.triggers ELSE {}

DaemonStep ==
  \/ BeginCycle \/ ConfigUnreadable
  \/ DetectSucceeds \/ DetectFails \/ SaveDetected \/ SaveDetectedFails
  \/ RefreshSucceeds \/ RefreshFails \/ SaveRefreshed \/ SaveRefreshedFails
  \/ LoadCache \/ RebuildCache \/ CacheUnreadable \/ SaveBuilt \/ SaveBuiltFails
  \/ \E t \in Held : Announce(t)
  \/ \E t \in Held : Drop(t)
  \/ NotifyInitFails \/ AdhanEnds
  \/ FinishLoop \/ FinishUnsaved \/ SaveBack \/ SaveBackFails

CliStep == CliOpen \/ CliSave \/ CliSaveFails \/ CliInvalidate \/ CliInvalidateLost

Next == Tick \/ DaemonStep \/ Crash \/ CliStep

Spec == Init /\ [][Next]_vars

(***************************************************************************)
(* The daemon left undisturbed by suspends: it runs in every minute, and   *)
(* time passes within a cycle only in its blocking calls, for at most      *)
(* MaxBlock minutes.  The service manager restarts it within the minute.   *)
(***************************************************************************)
TimelyTick ==
  /\ \/ pc = "asleep" /\ now = Clock
     \/ pc \in Blocking /\ Epoch(Clock) - Epoch(now) < MaxBlock
  /\ Tick

TimelyNext == TimelyTick \/ DaemonStep \/ Crash \/ CliStep

TimelySpec ==
  Init /\ [][TimelyNext]_vars /\ WF_vars(DaemonStep) /\ WF_vars(TimelyTick)

-----------------------------------------------------------------------------
HoldsList == {"saveBuilt", "loop", "adhan", "saveBack"}

NotAfter(a, b) == a.day < b.day \/ (a.day = b.day /\ a.minute <= b.minute)

\* Types, and what the cycle's locals hold at each pc.
TypeOK ==
  /\ day \in 0..LastDay /\ minute \in 0..(DayLen - 1)
  /\ config \in Configs
  /\ cacheFile \in Caches \cup {Nil}
  /\ pc \in Resting \cup InCycle
  /\ now \in [day : 0..LastDay, minute : 0..(DayLen - 1)] /\ NotAfter(now, Clock)
  /\ cfg \in Configs \cup {Nil} /\ (cfg = Nil <=> pc \in Resting)
  /\ cache \in Caches \cup {Nil} /\ (cache # Nil <=> pc \in HoldsList)
  /\ cache # Nil => cache.date = now.day
  /\ refreshed \in BOOLEAN /\ notified \in BOOLEAN /\ dirty \in BOOLEAN
  /\ (pc = "saveRefreshed" => refreshed)
  /\ (refreshed => pc \in HoldsList \cup {"saveRefreshed", "loadCache"})
  /\ (dirty => pc \in HoldsList \ {"saveBuilt"}) /\ (notified => dirty)
  /\ retryAt \in Nat
  /\ cli \in [at : {"idle", "editing", "saved"}, cfg : Configs \cup {Nil}]
  /\ (cli.at = "editing" <=> cli.cfg # Nil)
  /\ edits \in 0..MaxEdits /\ mishaps \in 0..MaxMishaps
  /\ announced \subseteq Occurrences /\ forgotten \subseteq announced
  /\ lost \subseteq Occurrences
  /\ exposed \in BOOLEAN

\* Everything the day holds for the settings of list c is accounted for.
AccountedIn(c) ==
  \A t \in Scheduled(c.from.prefs, c.from.loc, c.date) :
    t \in c.triggers \/ Occ(c.date, t) \in announced \cup lost

(***************************************************************************)
(* No trigger of a day vanishes: the list on disk and the list in memory   *)
(* hold, at every step and whatever is killed, fails or is edited, each of *)
(* the day's triggers that has been neither announced nor given up.        *)
(***************************************************************************)
Accounted ==
  /\ cacheFile # Nil => AccountedIn(cacheFile)
  /\ cache # Nil => AccountedIn(cache)

(***************************************************************************)
(* A trigger is given up for one of five reasons only: its day is over, it *)
(* is later than the catch-up window, it is a reminder whose prayer has    *)
(* come, the day was rebuilt for a new place after its minute, or it is a  *)
(* reminder of a day with more triggers than the list holds.               *)
(***************************************************************************)
GivenUpWithReason ==
  [][\A o \in lost' \ lost :
       \/ o.day < now.day
       \/ now.minute - o.trig.minute > CatchupMax
       \/ Overtaken(o.trig, now.minute)
       \/ refreshed /\ o.trig.minute < now.minute
       \/ /\ o.trig.before > 0
          /\ Cardinality(Scheduled(cfg.prefs, cfg.loc, now.day)) > MaxTriggers]_vars

(***************************************************************************)
(* A list never holds what the user has already been told, unless the      *)
(* record of it was destroyed (forgotten): by a crash or a failed save     *)
(* before the list was written back, by a command that changed settings,   *)
(* by an unreadable file, or by a refresh within the same minute.          *)
(***************************************************************************)
NeverTwice ==
  /\ pc \in Resting /\ cacheFile # Nil =>
       \A t \in cacheFile.triggers :
         Occ(cacheFile.date, t) \in announced => Occ(cacheFile.date, t) \in forgotten
  /\ cache # Nil =>
       \A t \in cache.triggers :
         Occ(cache.date, t) \in announced => Occ(cache.date, t) \in forgotten

\* The strengthening that makes the invariants above inductive.  What was
\* announced lies behind, and so does the day of the file; before its first
\* announcement a cycle finds on disk a record of all that went before.
Behind ==
  /\ \A o \in announced : NotAfter([day |-> o.day, minute |-> o.trig.minute], now)
  /\ cacheFile # Nil => cacheFile.date <= now.day

Recorded ==
  ~notified =>
    /\ cacheFile # Nil =>
         \A t \in cacheFile.triggers :
           Occ(cacheFile.date, t) \in announced => Occ(cacheFile.date, t) \in forgotten
    /\ cacheFile = Nil \/ cacheFile.date # now.day =>
         \A o \in announced : o.day = now.day => o \in forgotten

IInv == TypeOK /\ Accounted /\ Behind /\ Recorded /\ NeverTwice

\* What a list holds is of the day it is for, under the settings it was
\* computed for.
Genuine ==
  \A c \in {cacheFile, cache} \ {Nil} :
    c.triggers \subseteq Scheduled(c.from.prefs, c.from.loc, c.date)

DaySchedules == [d \in 0..LastDay |-> {Scheduled(f, l, d) : f \in Prefs, l \in Locations}]

LongSchedules ==
  {S \in UNION {DaySchedules[d] : d \in 0..LastDay} : Cardinality(S) > MaxTriggers}

\* The list in the cycle's hands.
Agenda == IF cache = Nil THEN {} ELSE {Occ(cache.date, t) : t \in cache.triggers}

Promise == INSTANCE Announcer WITH
  Schedules <- DaySchedules, Window <- CatchupMax, TooLong <- LongSchedules,
  moved <- refreshed, agenda <- Agenda, told <- announced, unsure <- forgotten, givenUp <- lost

(***************************************************************************)
(* To the user the cycle, with its two files, its commands, failures and   *)
(* crashes, is an Announcer: it tells what a schedule of the day holds, in *)
(* time, never a reminder whose prayer has come, nothing again of which    *)
(* the record was not lost, and gives up nothing without a reason.         *)
(***************************************************************************)
KeepsPromise == Promise!Spec

\* Unless a command, a failure or a crash disturbs it, the list is there until
\* the loop has ended, and no place is looked for but the first.
Undisturbed == mishaps = 0 /\ edits = 0 /\ RefreshEvery = 0

InOrder ==
  /\ RefreshEvery = 0 => ~refreshed /\ pc \notin {"refresh", "saveRefreshed"}
  /\ Undisturbed =>
       /\ cli.at = "idle" /\ forgotten = {}
       /\ pc \in {"loop", "adhan", "saveBack"} => cacheFile # Nil

(***************************************************************************)
(* Without a command, a failure or a crash, and with no place to refresh,  *)
(* nothing is announced a second time: no record is ever lost, whatever    *)
(* the clock skips and however long a call blocks.                         *)
(***************************************************************************)
ToldOnce ==
  [][Undisturbed => \A t \in Held : Announce(t) => Occ(now.day, t) \notin announced]_vars

\* Today's list on disk was computed for the settings on disk.
CacheMatchesConfig ==
  cacheFile # Nil /\ cacheFile.date = day =>
    cacheFile.from = [prefs |-> config.prefs, loc |-> config.loc]

Quiescent == pc \in Resting /\ cli.at = "idle"

(***************************************************************************)
(* Between cycles and commands, today's cache belongs to the settings in   *)
(* force, so a saved change takes effect: the deletion of the cache file   *)
(* wins against a cycle that is in its loop or its adhan.  The exceptions  *)
(* are named by "exposed".                                                 *)
(***************************************************************************)
FreshCache == Quiescent /\ ~exposed => CacheMatchesConfig

\* The strengthening for FreshCache.  Unless exposed, or with a deletion of the
\* cache still to come, the list on disk and the list about to be written
\* belong to the config on disk; a cycle that saves a config rebuilds as well.
BelongsToConfig(c) ==
  /\ c.from = [prefs |-> config.prefs, loc |-> config.loc]
  /\ ~NeedsDetect(config)

Tied ==
  ~exposed /\ cli.at # "saved" =>
    /\ pc \notin {"loop", "adhan"} /\ ~MidRefresh =>
         (cacheFile # Nil /\ cacheFile.date = now.day => BelongsToConfig(cacheFile))
    /\ pc \in {"loop", "adhan"} =>
         cacheFile = Nil \/ (BelongsToConfig(cacheFile) /\ BelongsToConfig(cache))
    /\ pc \in {"saveBuilt", "saveBack"} => BelongsToConfig(cache)
    /\ pc \in {"detect", "refresh", "loadCache"} => cfg = config
    /\ pc \in {"detect", "saveDetected"} => NeedsDetect(config)
    /\ pc \in {"saveDetected", "refresh", "saveRefreshed", "loadCache"} => ~NeedsDetect(cfg)

(***************************************************************************)
(* "A cache that is gone stays gone and the next cycle rebuilds"           *)
(* (muslimtify_cycle.c): after a command has finished, no cycle leaves     *)
(* today's list of the old settings behind.                                *)
(***************************************************************************)
SettingsTakeEffect == Quiescent => CacheMatchesConfig

\* How many minutes after its own minute the cycle looks at an occurrence.
Lateness(o) == Epoch(now) - (o.day * DayLen + o.trig.minute)

(***************************************************************************)
(* "Trigger is due now or was missed within the catch-up window" is fired  *)
(* (check_cycle.h): a prayer time is given up only once it is more than    *)
(* CatchupMax minutes old.                                                 *)
(***************************************************************************)
CatchUpHonoured ==
  [][\A o \in lost' \ lost : o.trig.before = 0 => Lateness(o) > CatchupMax]_vars

(***************************************************************************)
(* "The old location's version of those was handled by earlier cycles"     *)
(* (muslimtify_cycle.c): a prayer that a refresh leaves out because its    *)
(* new time lies behind has been announced today under its old time.       *)
(***************************************************************************)
RefreshSkipsOnlyHandled ==
  [][\A o \in lost' \ lost :
       refreshed /\ o.day = now.day /\ o.trig.before = 0 /\ Lateness(o) <= CatchupMax =>
         \E a \in announced :
           /\ a.day = o.day /\ a.trig.before = 0
           /\ a.trig.prayer = o.trig.prayer /\ a.trig.src = o.trig.src]_vars

(***************************************************************************)
(* A daemon that is scheduled in every minute announces every prayer of    *)
(* the settings it starts with, failures, a crash and recitations of up to *)
(* MaxBlock minutes notwithstanding, if the day leaves the catch-up window *)
(* its length.                                                             *)
(***************************************************************************)
EveryPrayerAnnounced ==
  \A c \in Initial, d \in 0..LastDay :
    \A t \in Scheduled(c.prefs, c.loc, d) :
      t.before = 0 /\ t.minute + CatchupMax < DayLen =>
        ((config = c /\ day = d /\ minute = t.minute) ~> Occ(d, t) \in announced)
=============================================================================
