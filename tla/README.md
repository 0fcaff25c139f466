# A TLA+ model of muslimtify

muslimtify announces the five daily prayers and reminders ahead of them on the
desktop. A daemon wakes up every minute, loads a config file and a cache of
today's triggers, announces what is due, and writes the cache back. Commands
edit the same files while it runs. These modules model that core and what
surrounds it: the files, the daemon's signals and recitation, the settings and
the search for a place, the installation of the service. TLC checks them on
small instances; TLAPS proves, for every value of the constants, all of the
safety properties that hold of them, and that the file store and the check
cycle each implement an abstract promise.

## 1. The system

| part | source | state it keeps | operations | talks to |
|---|---|---|---|---|
| trigger schedule | `core/cache.c` | trigger array, cache file `next_prayer.json` | build, load, save, invalidate, remove | prayer times, file store |
| trigger classification | `core/check_cycle.c` | none | KEEP / FIRE / DROP, validity of a cache, adhan or note | check cycle |
| check cycle | `lib/muslimtify_cycle.c` | locals of one cycle, `g_refresh_retry_at` | detect, refresh, load or rebuild, loop, write back | everything below |
| settings handle | `lib/muslimtify_settings.c`, `lib/muslimtify.c` | a copy of the config | load, setters, save (save config, then delete the cache) | config file, cache file |
| location | `core/location.c`, `lib/muslimtify_location.c` | candidate config, `use_gps`, `updated_at` | GPS, then IP lookup; staleness; GPS on/off | gpsd, network |
| config file | `core/config.c` | `config.json` | load with coercions, save by temporary file and rename | file store |
| file store | `platform/posix`, `platform/windows` | files | create, sync, rename, delete, exists | file system |
| daemon loop | `cli/daemon_loop.c` | `g_stop`, signal mask | run a cycle, sleep to the next minute, stop | signals, service manager |
| notification, adhan | `platform/linux/notification.c`, `platform/windows/*` | playback, interrupt flag, stop event | announce, play, interrupt, stop | audio, desktop |
| service installation | `platform/*/daemon*.c` | unit file or scheduled task | install, uninstall, status | systemctl, schtasks |
| next prayer | `core/prayer_checker.c` | none | next prayer over three days | command line |
| gpsd client | `platform/linux/gpsd_client.c` | socket, bounded read loop | read a fix | gpsd |
| command line, display, JSON, strings | `cli/*`, `json.h`, `core/string_util.c` | none | parse, print | settings handle |

What is hard here: two processes share two files without a lock, and the only
signal between them is the deletion of one; a cycle may be blocked for minutes
by a lookup or a recitation while the clock runs and settings change; a cycle
announces before it records; the day's list is replaced at midnight and after a
location refresh; the machine may be suspended, the daemon killed and restarted
within the minute; the trigger array has a fixed capacity and prayer times may
run over midnight.

What makes each part correct:

- *schedule*: every occurrence is on exactly one day's list; capacity costs
  reminders, never prayers.
- *loop*: nothing is skipped; a trigger is given up only for a stated reason.
- *cycle and files*: no trigger vanishes; none repeats unless its record was
  destroyed; a saved setting takes effect; every prayer is announced while the
  daemon runs.
- *location*: a failed lookup changes nothing, is not retried every minute, and
  what is reported of the receiver is so.
- *settings and config file*: a command does what its arguments ask and nothing
  else, whatever was in the file; every handle is in normal form.
- *file store*: a file is the old or the new one at every crash.
- *daemon loop*: a stop signal is never slept through and ends a recitation.
- *adhan on Windows*: a stop reaches every player, and is never told wrongly
  that there is none.
- *service*: what reports success is done, whatever was left half done before.

## 2. Modules

| module | content |
|---|---|
| `Triggers` | constants and pure operators: the triggers of a day, what a rebuild admits, KEEP/FIRE/DROP. No state, no recursion. |
| `TriggerArray` | the same as the code does it, one turn of a loop per step: filling an array, sorting it, trimming it after a refresh, removing while walking. Shows that `Triggers` is the right abstraction. |
| `CheckCycle` | the daemon's cycle, the clock, a command and crashes, interleaved over the config file and the cache file. |
| `Announcer` | what the daemon promises the user, without lists, files and commands; `CheckCycle` implements it. |
| `AtomicFile` | the abstract file: what saving it promises. |
| `JsonScan` | the JSON scanner, the text of a cache file and the loaders' verdict on it. Operators only. |
| `FileStore` | savers, a reader, a directory and a disk; implements `AtomicFile`. Extends `JsonScan`. |
| `DaemonLoop` | the Linux daemon process: signals, nap, playback of an adhan. |
| `AdhanStop` | players and stoppers of an adhan on Windows, and the event they share. |
| `Service` | install, uninstall and status of the service as rows of calls that may fail. |
| `ConfigFile` | what the config file means: defaults, what a save writes, what a load makes of it. Operators only. |
| `Location` | receiver, IP lookup and detection. Operators only. Extends `ConfigFile`. |
| `Settings` | the setters and the commands that load, set and save. Extends `Location`. |
| `TriggersProofs`, `TriggerArrayProofs`, `CheckCycleProofs`, `DaemonLoopProofs`, `AdhanStopProofs`, `ServiceProofs`, `FileStoreProofs`, `SettingsProofs` | the theorems about these modules (section 5). |
| `MCTriggerArray`, `MCCheckCycle`, `MCFileStore`, `MCDaemonLoop`, `MCAdhanStop`, `MCService`, `MCSettings` | values for the constants of the runs. |

The modules compose in two ways. `FileStore` uses the scanner of `JsonScan` to
judge what it leaves on disk, and `Settings` puts the operators of `Location`
and `ConfigFile` to work in commands. Between the others each takes what the
next one proves or checks as a step: a save is one step of `CheckCycle` and
`Settings` because `FileStore` implements `AtomicFile`; a cycle is a list of
announcements in `DaemonLoop`, and an adhan is one blocking step of `CheckCycle`
because `DaemonLoop` opens it up.

### Triggers
A trigger is a record `prayer, src, slot, minute, before, adhan`. `minute`,
`before` (`minutes_before`) and `adhan` are fields of `CacheTrigger`; `src` (the
source day D-1, D, D+1 it was computed from) and `slot` (0 for the exact time, j
for the j-th reminder) keep two triggers apart that agree in everything else.
The prayer times are a constant function `PrayerMinute` of settings, place and
day, already rounded up to a minute: `ceil(hours * 60)` of the code. A prayer
that does not occur on a day (non-finite time) is outside the function's domain.
A list is a set; the array's order is kept by `EarliestDue`. The order of two
triggers of the same minute is left open, because `qsort` is not stable.

### TriggerArray
One behaviour builds the array of a day and runs one cycle's loop over it. The
counters `pass`, `day_delta`, `type`, `j` are those of `cache_build_triggers`:
two passes (exact times first), three source days, the prayers, the reminders.
`SkipPrayer`, `AddExact`, `AddReminder`, `RemindersDone`, `NextDay`, `NextPass`
are the turns of its loops. `SortArray` arranges the array in any order by
minute, whichever `qsort` happens to leave equal minutes in; `TrimRemoves` and
`TrimKeeps` are the loop that follows a location refresh, `Keep`, `Fire` and
`Drop` that of the cycle, with an index that stays where it is when an entry is
removed.

### CheckCycle
Variables that are code: `config`, `cacheFile` (the two files), `pc`, `now`,
`cfg`, `cache`, `refreshed`, `notified`, `dirty`, `retryAt` (the cycle and the
process), `cli` (a command and the copy of the config it holds), `day` and
`minute` (the clock). Each action is the code between two points at which
someone else can get in: the file reads, the two lookups (`detect`, `refresh`),
each `config_save` and `cache_save`, each announcement, the end of an adhan, the
existence check and the write that follows it. A rebuild is one step, for it
reads only the cycle's own copy. A removal from the list in memory is one step
with the announcement, for nobody sees it before the list is saved.

| code (`muslimtify_run_cycle_at`) | action |
|---|---|
| config_load, choice of detection or refresh | `BeginCycle`, `ConfigUnreadable` |
| first detection and its save | `DetectSucceeds/Fails`, `SaveDetected(Fails)` |
| periodic refresh and its save | `RefreshSucceeds/Fails`, `SaveRefreshed(Fails)` |
| cache_load, validity, rebuild, save | `LoadCache`, `RebuildCache`, `CacheUnreadable`, `SaveBuilt(Fails)` |
| loop over triggers | `Announce`, `Drop`, `NotifyInitFails`, `AdhanEnds` |
| exists check and write back | `FinishLoop`, `FinishUnsaved`, `SaveBack(Fails)` |
| `muslimtify_reload`, setters, `muslimtify_save` | `CliOpen`, `CliSave(Fails)`, `CliInvalidate`, `CliInvalidateLost` |
| process killed and restarted | `Crash`, then `BeginCycle` |

History variables, not in the code: `announced` (what the user was told),
`lost` (given up unannounced), `forgotten` (announced, but the record was
destroyed: the cause of every legitimate repeat), `exposed` (a step broke the
cache's tie to the config: a deletion that came while a cycle was about to
write or was lost, a failed save of a refreshed config or of a rebuilt list, a
crash between those two), and the field `from` of a list, which says which
settings it was computed for.

A save is atomic or fails without effect here; that is what temporary file,
sync and rename are for, and `FileStore` shows it for savers that take turns; what
two savers at once can leave (a config or a list the loaders then refuse) is not
in `CheckCycle`. The
clock does not run backwards. A command's edit is any of: other schedule
preferences, a place set by hand, a place looked up, GPS switched on without a
fix. Two commands do not run at once.

`Announcer` is the cycle as its user sees it: the agenda the daemon works through,
what has been told, what of it the daemon may no longer know (`unsure`), what it has
given up. Every agenda is `Sound`: it holds what some schedule of the day holds, and
of what was told only the unsure. `Tell` takes an item from it, in its minute or
the window after it and, if it is a reminder, before its prayer; `GiveUp` demands an
excuse for what leaves the agenda or never gets there; `Proceed` is all that
reads, writes, saves and fails, and may begin an agenda or drop one as a whole.
The mapping is `moved` to `refreshed`, `agenda` to the list in memory (`Agenda`),
`told` to `announced`, `unsure` to `forgotten`, `givenUp` to `lost`. A telling always
changes the agenda, so a repeated one is a step that has to be allowed. It does not
say when a record may be lost; `NeverTwice` and `ToldOnce` of `CheckCycle` are about
that.

### JsonScan, FileStore, AtomicFile
A text is a sequence of characters of which only those the scanner tells apart
have names. `FindMatching`, `FindKey`, `StringEnd`, `Unescaped` run over a text
with the scanner's own state (depth, in a string, after an escape): a loop is a
recursive function whose value at n is the state after the n-th character.
`CacheText` is what `cache_save` writes and `CacheLoad`, `ConfigAccepts` what the
loaders say of a text; `NextItem` is a turn of the loop over the array. The six
keys of a trigger are one key with one string.

`FileStore` has a directory with the names `path` and `tmp`, files with content,
a disk that holds what was synced and may hold more, and savers that walk
through `config_save` / `cache_save`:

| code | action |
|---|---|
| `platform_file_create_private` | `Begin`, `StreamFails` (`fdopen` fails on the file that is there already), `BeginFails` |
| buffered `fprintf`, one buffer at a time | `WriteBlock`, `WriteFails` |
| `platform_file_sync`, `fclose` | `Sync`, `SyncFails` |
| `platform_atomic_rename` | `Rename`, `RenameFails` |
| `platform_file_delete` of the temporary file | `Cleanup`, which may fail |
| `cache_invalidate`; `read_file` | `Invalidate`; `ReadOpen`, `ReadClose` |

Around them are `Kill`, `PowerCut`, `FlushData`, `FlushDir`. On Windows a file
somebody has open can neither be renamed nor deleted (`Held`). The refinement
maps a file to the saved value whose text it holds, to `Absent` or to `Torn`.
`AtomicFile` promises nothing while two savers overlap, for they share the
temporary file (`clash`, until both are done and the disk has settled); the
model reaches torn files only there. `CutsRefused` says that such a file is then
refused by the loaders and never believed. `litter` marks a temporary file nobody
will see to: its saver was killed, the power failed, `fdopen` failed on it (the
code closes the descriptor and deletes nothing) or its deletion failed (the code
ignores the result). `NoLitter` says that there are no other reasons to find one
at rest, and that the next save that gets through takes it away.

### DaemonLoop
`pc` follows `run_daemon_loop`: `test`, `cycle`, `mask`, `recheck`, `doze`,
`pselect`, `unmask`; within a cycle an adhan is `poll` and `close`. `stop` and
`interrupt` are `g_stop` and `g_adhan_interrupt`, `audio` the state of
`audio.c`. `Deliver` may happen at every point at which the signals are not
blocked; `Pselect` unblocks them and sleeps in one step, as the system call
does. Before `Install` a signal kills the process. `asked`, `crossed`, `held`
are history.

### AdhanStop
A player is a process in `notify_adhan` with the resources it holds, a stopper a
call of `notify_adhan_stop` by a command, by the toast's button in the player's
own process or by a process started for the button. The named event lives as
long as somebody has a handle of it and is signaled by hand. `deaf` are the
players to which Windows refused the event; for them the code plays on and can
only be stopped by the end of the recitation, and the properties except them.
`StopOpens` may fail on an event that is there, and then answers as if there were
none.

### Service
`job` is the running command with the point it has reached; each action is one
call of `systemctl`, `schtasks` or the registry, or one file operation, which
works or is a `Fault`. A fault of `schtasks` may have had its effect, because it
is terminated after a minute. `did` is the `*out` the command fills, `real` what
truly happened. Around the commands: `Kill`, `ServiceEnds`, `Login`,
`ProgramsChange`, `UserDisablesTask`.

### ConfigFile, Location, Settings
A document has, per section, the text of some keys; a text is the number or word
it is read as. `Document` is `write_json_file` (six decimals, angles only for
the method "custom"), `Load` is `config_load` with all its coercions. `Location`
is the gpsd read loop with its verdicts (`ReadLine`, `GpsdRead`, `GpsdAnswer`), the Windows
request, the parse of an IP answer, the fallback (`FetchCore`), detection into a
copy (`Detect`) and the receiver switch.

In `Settings` a command is a record of its arguments. It goes through `Open`
(load, and the setters if nothing has to be looked up), `LookUp` or `Probe`,
then `Save`, `Failure` or `Finish`. In between, `HandEdit` and `FileLost` change
the file. Each setter of the library and each command is an operator with its
name; the first setter that fails ends the command, as in the code.

## 3. Runs

| run | properties | shows |
|---|---|---|
| `trigger_array` | `TypeOK`, `BuildAgrees`, `LoopDisposesOfAllDue`, `CapacityNeverCostsAdhan`, `OvertakenReminderHasItsPrayer`, `ScheduledOnce` | the array code, in every order `qsort` may leave, computes the sets of `Triggers`; the loops skip nothing; capacity, late reminders and midnight are as the comments say |
| `cycle` | `TypeOK`, `Accounted`, `NeverTwice`, `FreshCache`, `GivenUpWithReason` | two days from a config without a place, one command, one failure or crash anywhere |
| `cycle_refresh` | `Accounted`, `FreshCache`, `GivenUpWithReason`, `KeepsPromise` | one day with location refreshes between two places, one command, two failures or crashes; the cycle implements `Announcer` |
| `cycle_liveness` | `EveryPrayerAnnounced` | every prayer is announced although recitations overrun and one thing fails |
| `file_store` | `TypeOK`, `NoLitter`, `CutsRefused`, `ReadBack`, `Implements`, `ReadUndisturbed` | the save protocol implements `AtomicFile`; readers are not disturbed, a temporary file is left for four reasons only, cut files are refused, what was saved is what is loaded |
| `daemon_loop` | `TypeOK`, `NeverAsleepWithStop`, `LeavesNothing`, `StopHonoured`, `MinuteByMinute` | no stop is slept through, every stop ends the daemon, an adhan leaves nothing behind, the nap neither repeats nor skips a minute |
| `adhan_stop` | `TypeOK`, `LeavesNothing`, `ToldTruly`, `StopEndsAll` | a stop ends every adhan that plays, of several processes too; unless Windows refused a player or the stopper the event, nobody is told that none plays while one does |
| `service` | `TypeOK`, `TornUnitNoticed`, `InstallWorks`, `UninstallRemoves`, `ReportsTrue`, `StatusConsistent` | what succeeds is done, from every half-done state; what is printed is so |
| `settings` | `TypeOK`, `ReportsTrue`, `DoesWhatWasAsked` | a saved file, loaded again, says what was asked and all else as it was; a failed command leaves it alone; detection reports truly |
| `settings_race` | `SettingsTakeEffect` (violated) | finding 1 |
| `midnight` | `CatchUpHonoured` (violated) | finding 2 |
| `refresh_skips` | `RefreshSkipsOnlyHandled` (violated) | finding 3 |

Deadlock is not checked where the bounded behaviours end (a day is over, saves or
commands are used up, the daemon has stopped).

**Bounds.** A day has 3 to 8 minutes and the catch-up window is 1 or 2, so that
on time, late within the window, and too late all occur within a day and across
its end. Two prayers with a reminder each (two in `trigger_array`) give two
triggers in one minute, a reminder overtaken by its prayer, and a recitation
that makes the next prayer late; `trigger_array` also has a spill over midnight
that starts and stops, a prayer that does not occur and an array too small for
the reminders (6 entries of 10). `MaxEdits`, `MaxMishaps` bound commands and
failures; the races need one command and at most two failures, and the theorems
do not depend on these bounds.

`file_store`: two savers, three saves and one fault, so that a save can meet the
leftover of a killed one and a third can follow two that overlapped; a text takes
two buffers, so that it can be cut in the middle, and has every character the
scanner treats specially inside a string. `daemon_loop`: two announcements, so
that an adhan follows the one a stop ended; two signals; minutes of three seconds
of two ticks, so that cycles begin within a second and overrun. `adhan_stop`: two
players, two stoppers, three adhans, two stops and one fault, so that an event is
shared, outlives a player and is created anew. `service`: two places of the
program and two faults, so that the program moves between two installations and
one command fails on what another left half done. `settings`: two commands and
two changes of the file, one of each kind of argument (valid, out of range, too
long, not a number); gpsd may send up to three lines and two are read. A command
sets independent parts of the config, so the run splits commands and edits in
three groups that do not mix.

**Fairness.** `TimelySpec` (liveness and two of the findings) is the daemon on a machine
that is not suspended. `WF(DaemonStep)`: the process is scheduled, lookups time
out, a recitation ends with its file, and the service manager restarts a dead
daemon (`Restart=on-failure`, `RestartSec=5`). `WF(TimelyTick)`: time passes,
while the daemon sleeps or, for at most `MaxBlock` minutes, in a blocking call;
`sleep_to_next_minute` wakes it in every minute it does not overrun. All safety
properties are checked and proved under `Spec`, where the clock may advance at
any moment and by any amount (suspend, starvation).

`DaemonLoop`: `WF(Process)`, the process is scheduled, and its poll timer runs;
`SF(Deliver)`, a pending signal is delivered when the process runs on with it
unblocked. Nothing is assumed of the clock, of the recitation or of the user, so
`StopHonoured` does not wait for a nap or a recitation to end. `AdhanStop`: the
wait loop polls every 100 ms and closes (`Poll`, `Close`), and a stopper between
its three calls goes on (`StopSets`, `StopCloses`).

## 4. Findings

1. `settings_race`: a cycle that read the config before a command saved it can
   write the old list after the command deleted the cache: in the rebuild's
   `cache_save`, which checks nothing, and between the existence check and the
   write back. The old settings then rule for the rest of the day. The comment at
   `muslimtify_cycle.c:163` promises "a cache that is gone stays gone".
   `FreshCache` is what does hold: the deletion wins against the loop and
   against an adhan of any length.
2. `midnight`: a new date replaces the list, so a prayer in the last minutes of
   a day that an adhan or an overrun delayed past midnight is dropped, one
   minute late; `check_cycle.h` promises the catch-up window.
3. `refresh_skips`: a refresh leaves out what lies behind at the new place,
   "handled by earlier cycles" (`muslimtify_cycle.c:90`). After a move to the
   east the old version was still ahead, so the prayer is never announced.

Smaller disagreements and observations, made while modelling and not given a run:

- `cmd_method.c:45` says a missing country is reported by
  `muslimtify_set_method_from_country`; it falls back to "mwl" without a word
  (`muslimtify_location.c:126`), as `muslimtify.h` documents.
- A method name the code does not know, written by hand with angles, is computed
  with these angles (`config.c:715`), but the next save drops them, because only
  "custom" has them written (`config.c:219`).
- Uninstalling returns success also when stopping or disabling the service
  failed (`daemon.c:277`); `ReportsTrue` of `Service` therefore speaks of these
  two steps only when no call failed.
- It also prints "Reloaded systemd" (`cmd_daemon.c:104`) whatever the reload,
  whose result nobody looks at (`linux/daemon.c:303`), came to; `ReportsTrue`
  leaves this line out.
- `notify_adhan_stop` says "event absent => no adhan currently playing" of every
  `OpenEventW` that fails (`notification_win.c:987`): a stopper that is
  refused an event that is there is told the same while the adhan plays on. `ToldTruly`
  excepts a failing `OpenEventW`.
- `cmd_daemon_win.c:10` says "Location and calculation method are auto-detected
  lazily on the first scheduled run", and the repository's `README.md:161` that
  the method is selected "based on your country and location". The scheduled run
  (`muslimtify_cycle.c:60`) detects and saves the place and leaves the method
  alone. Only `daemon install` on Linux (`cmd_daemon.c:37`) and `method auto`
  (`cmd_method.c:58`) derive it, so after an installation on Windows it stays
  "kemenag", the default, until the user asks. `DoesWhatWasAsked` follows the
  code here: of a `cycle` it demands that the method is kept.
- A save whose `fdopen` or whose deletion of the temporary file fails reports
  its failure and leaves `<path>.tmp` behind (`platform_posix.c:198`,
  `config.c:273`, `cache.c:301`); see `NoLitter`.
- A lookup with an unknown timezone moves the place and keeps the old zone
  (`location.c:231`).

## 5. Proofs

All theorems hold for every value of the constants that meets the named
assumptions: schedules, places, lengths of the day and of the minute, windows
and capacities, numbers of processes, signals, commands and failures.

| module | theorem | statement |
|---|---|---|
| `TriggersProofs` | `ScheduledType` | a day's triggers satisfy the bounds `cache_load` checks |
| | `ExactTimesFit` | a rebuild drops no exact time within the window for capacity |
| | `LeftOutWithReason` | what a rebuild leaves out is too old, or a reminder on a day beyond capacity |
| | `BuildFits` | a rebuilt list is finite and fits the array |
| | `OnOneDay`, `OnSomeDay` | an occurrence is on the list of one day only; on that of some day if it falls on one lived through |
| `TriggerArrayProofs` | `TypeCorrect` | `Spec => []TypeOK` |
| | `LoopsBuildTheSet` | `Spec => []BuildAgrees` |
| | `NothingSkipped` | `Spec => []LoopDisposesOfAllDue` |
| | `CapacityCostsReminders` | `Spec => []CapacityNeverCostsAdhan` |
| | `LateReminderLosesNothing` | `Spec => []OvertakenReminderHasItsPrayer` |
| | `OncePerOccurrence` | `Spec => []ScheduledOnce` |
| `CheckCycleProofs` | `TypeCorrect` | `Spec => []TypeOK` |
| | `NothingVanishes` | `Spec => []Accounted` |
| | `RepeatsOnlyForgotten` | `Spec => []NeverTwice` |
| | `ReasonsToGiveUp` | `Spec => GivenUpWithReason` |
| | `CycleIsAnnouncer` | `Spec => KeepsPromise`: the cycle refines `Announcer` |
| | `UndisturbedTellsOnce` | `Spec => ToldOnce`: without a command, failure, crash or refresh nothing is announced twice |
| | `SettingsRule` | `Spec => []FreshCache`, provided no lookup answers 0,0 |
| `DaemonLoopProofs` | `TypeCorrect` | `Spec => []TypeOK` |
| | `NoStopSleptThrough` | `Spec => []NeverAsleepWithStop` |
| | `NothingLeft` | `Spec => []LeavesNothing` |
| | `OneCycleAMinute` | `Spec => MinuteByMinute` |
| `AdhanStopProofs` | `TypeCorrect` | `Spec => []TypeOK` |
| | `NothingLeft` | `Spec => []LeavesNothing` |
| | `NonePlayingIsTrue` | `Spec => ToldTruly` |
| | `StopReachesAll` | no step takes a set event back from an adhan that plays and hears it: the safety half of `StopEndsAll` |
| `ServiceProofs` | `TypeCorrect` | `Spec => []TypeOK` |
| | `NoTornUnitUnnoticed` | `Spec => []TornUnitNoticed` |
| | `InstallationWorks`, `UninstallationRemoves` | `Spec => InstallWorks`, `Spec => UninstallRemoves` |
| | `ReportsAreTrue`, `StatusIsConsistent` | `Spec => ReportsTrue`, `Spec => StatusConsistent` |
| `FileStoreProofs` | `TypeCorrect` | `Spec => []TypeOK` |
| | `FailedSavesCleanUp` | `Spec => []NoLitter` |
| | `ReadersUndisturbed` | `Spec => ReadUndisturbed` |
| | `SavesAreAtomic` | `Spec => Implements`: the save protocol refines `AtomicFile` |
| | `NoBeginningIsAccepted` | `config_load` takes no proper beginning of a text it takes |
| | `SavedTextIsKept` | `cache_load` finds in the text of a list that list, and in a cut text the same or nothing |
| | `CutsAreRefused` | `Spec => []CutsRefused` |
| | `SavedIsReadBack` | `Spec => []ReadBack` |
| `SettingsProofs` | `TypeCorrect` | `Spec => []TypeOK` |
| | `DetectionReportsTruly` | `Spec => []ReportsTrue` |
| | `DoesAsAsked` | `Spec => DoesWhatWasAsked` |
| | `HandlesAreMade` | `Spec => []Provenance`: what is about to be saved was made by the command's setters from what it loaded or looked up |
| | `SaveLosesNothing` | load, save and load again return every field |
| | `GpsdReadsFirstFix` | for any lines, gpsd's answer is the first fix among those that may be taken |
| | `PlacesAreFound` | `Spec => []PlaceFound`: a looked up place is in range and was reported by somebody |

Every module with variables has its inductive invariant under the name `IInv`,
a theorem `Inductive == Spec => []IInv` (in `CheckCycleProofs` a lemma), one
lemma per part of `IInv` and group of actions, and the theorems as
consequences. TLC checked each `IInv`, and `Tied`, `Genuine` and `InOrder` of `CheckCycle`,
as an invariant with the constants of the module's runs before it was proved.

*Triggers.* `ExactTimesFit` counts: the exact times inserted before an exact
time are told apart by source day and prayer, so there are fewer than
3 * |Prayers|, which `CapacityAssumption` (15 <= 64) bounds by the array.
`OnOneDay` and `OnSomeDay` divide an occurrence's minute by the length of a day.

*TriggerArray.* The properties speak of a finished array, so the invariant
describes the unfinished one, loop by loop. `FillInv`: the array holds, in the
order of the loops, what they have been past, and if something they have been
past is missing then the array is full of what came before it. At the end of
the second pass that is `BuildTriggers`, whose definition counts predecessors.
`TrimInv`: all that is missing is over, and nothing before the index is.
`WalkInv`: what is behind the index waits, what was announced was due and came
no later than all that is left, and only what is to be dropped is gone.

*CheckCycle.* `IInv` is `TypeOK` (with what the locals hold at each `pc`),
`Accounted`, `NeverTwice`, and two strengthenings. `Behind`: announced triggers
and the file's day are not later than the cycle's clock, which is why a refresh
can repeat only what was announced this very minute. `Recorded`: before its
first announcement a cycle finds on disk a record of everything announced today
and not forgotten, also when it ends early; without it a cycle that fails in
`notify_init` could repeat. `StepKinds` sorts the actions by what they do to
the lists and the history, and each conjunct has a step lemma over these kinds.
`SettingsRule` uses the invariant `Tied`, which says at which `pc` the file, the
list in memory and the cycle's config belong to the config on disk. Its
hypothesis is needed: a list computed for 0,0 would be kept after the next
detection, whose save does not delete the cache.

`CycleIsAnnouncer` maps each kind of step to one of `Announcer`: an announcement
is `Tell`, a drop or a rebuild `GiveUp`, everything else `Proceed`. An agenda is sound
(`SoundAgenda`) because what a list holds, also one left over from another day or
place, is from a schedule of its date (`Genuine`) and was not told before or is
unsure (`NeverTwice`); that the clock of the cycle never goes back is in `TypeOK`. A
rebuild gives up nothing but for the reasons of `LeftOutWithReason`, which are
excuses. `UndisturbedTellsOnce` uses `InOrder`: left
undisturbed, the file a cycle has loaded or written is there until the loop has
ended, so the list is always written back and `forgotten` stays empty.

*DaemonLoop.* `StopInv` extends `NeverAsleepWithStop` back to `doze`: from the
second test of `g_stop` on the signals are blocked, and only `pselect` lets them
in. `AdhanInv` says what a cycle has unsaved and what the player holds at each
`pc`. `MinuteInv` relates the phase of the minute, what is left of the nap and
the minutes crossed; it is inductive for any length of the second and the
minute because a tick takes from the nap what it adds to the phase.

*AdhanStop.* `Heard`: every playing process that was not refused the event
holds a handle of it. `StaysSet`: as long as a stopper that has set the event
keeps its handle, the event is set. `Heard` gives `ToldTruly`, for a stopper that
finds no event then finds no hearing player; no count of players or stoppers
enters.

*Service.* `InstallInv` and `UninstallInv` say how far a command has come at
each call, `SaysInv` what it will have printed and what it will have done by
then; `clean` marks a command none of whose calls failed. `TornUnitNoticed` is
preserved because of `InstallInv`; the other four theorems are action properties
and look at the steps that end a command.

*FileStore.* `NamesApart`: the file that is written is neither the one that is
read nor the one a power cut would leave, overlapping savers or not; this alone
gives `ReadersUndisturbed` outside a clash. `NoOrphan`, a temporary file that is
not `litter` has a busy saver, gives `FailedSavesCleanUp`; its one hard case is
a deletion Windows refuses because somebody has the file open, who by
`NamesApart` is no reader and so a saver. `InTurn`, for savers that take
turns: the temporary file is the one saver's (`Alone`), holds what it has
written so far and is on disk before it is renamed (`Progress`), and what bears
the name is on disk (`OnDisk`). With it each step maps to one of `AtomicFile`:
creating is `Begin`, a failed `fdopen` `Decline` (which may start a clash, for it
truncates), the rename that ends a save `Install`, writing and syncing
stutter, the disk catching up with the directory makes the new value
safe, a power cut takes the file back to the safe one. During a clash
`AtomicFile` promises nothing but that the set of values being saved is
accounted for.

*FileStore, the texts.* A loop over a text is a function of the position, and
what it does on a text of any length is shown by the least position at which a
claim fails (lemma `UpTo`), so no induction theorem is needed. Three things are
shown of each scanner. It reads locally: on a text that begins like another it
goes through the same states, and once it has found its bracket or key it stays
there (`MatchEnds`, `CutKey`); `NoBeginningIsAccepted` follows from this alone.
It steps over what is written: `Quoted`, `Labelled`, `ObjectAt`, `Listed` and
`Layout` say where the pieces of a saved text lie, and over each piece the
scanner comes back to the depth it had, whatever the string in it contains
(`InsideString`). What it cuts out is laid out the same way (`ObjectPart`,
`ListedPart`), so the loop over the array finds each object in turn, and
undoing the escapes undoes what `json_write_escaped` did. In a cut text a loader
finds a key at the same place or not at all, and the array is refused unless
its closing bracket is there. That texts are sequences and that different values
have different texts, which `SavesAreAtomic` needs, is a consequence (`Texts`).

*Settings.* `FileOK`: a document has numbers where a load reads numbers, after
every save and hand edit. `HandleInv`: from its load on a command's handle is
`Good`, which is `Normal` with the types of the fields. `LoadGood` proves that
the coercions of a load yield this from any readable document, and a lemma per
setter and command that each keeps it. `DetectTells` goes through receiver,
fallback and detection, `PlaceStays` shows that what a command sets after a
lookup does not touch the place the report is about.

`DoesAsAsked` needs to know where a handle comes from. `Provenance` says, for
each point of a command, that the handle is the one that was loaded with the
command's own setters applied, or that one as a receiver or lookup changed it
(`Made`); it is proved action by action. `Loaded` is what a load makes of any
document, and for such a config each field is followed through a save and the
next load (`PlaceBack`, `PrayerBack`, ..., together `SaveLosesNothing`): a
number that was rounded to six decimals is not rounded again, a name that was
cut is not cut again. What a command wants of a field (`Wanted`) is then
compared with what its setters did, section by section.

The read loop of gpsd is a function of the number of lines; which fix it has
after n lines is shown by the least n at which the claim would fail.
`PlacesAreFound` also shows that the second range check, in
`location_fetch_gps`, refuses nothing that either receiver answers.

*Assumptions.* `PrayersAssumption`, `SizesAssumption`, `RemindersAssumption`
(config.c admits 1..1440 and ten of them), `TimesAssumption` (a time carries at
most a day over), `CapacityAssumption`, `PrayerOrderAssumption` (the build loop
counts the prayers in order), `CycleAssumption`, `NilAssumption`;
`LoopAssumption`, `StopAssumption` (no process is both player and stopper),
`StoreAssumption` and `PlacesAssumption` (sizes are numbers; the tags of the
models are no values, files or places); `ValuesAssumption` (a value is a date
and at most `MaxItems` strings, of any characters), `ScanAssumption` (the depth
limit admits a list of objects in an object; the code's is 100);
`ConfigFileAssumption` and `NamesAssumption` (a name cut to its buffer is not
cut again, and the names the program knows fit), `LocationAssumption` (so do the
country codes), `RepliesAssumption` (a reply has both coordinates),
`SettingsAssumption` ("all" is no prayer's name), `ArgumentsAssumption` (what a
command or a load reads as a number is a number or `Junk`, a switch is on or
off). TLC evaluates all of them.

*Only model-checked.* `EveryPrayerAnnounced`, `StopHonoured` and `StopEndsAll`:
liveness under fairness, which TLAPS cannot prove (of `StopEndsAll` the safety
half is). The three findings are counterexamples of TLC.

## 6. Not modelled

- Astronomy (vendored, floating point): the prayer times are a constant.
- `prayer_checker.c`, the search for the next prayer: pure and without state; the
  times it searches are the inputs of `Triggers`.
- Display, tables, help, log: output that no other part reads.
- Of notifications: wording, toast XML, icon and sound lookup. Of HTTP: the
  request; its reply is an input of `Location`.
- Of JSON: `\uXXXX`, numbers, the arena allocator. Of strings: all but the cut of
  names that are too long (`Fit`).
- The text of the systemd unit and of the task's XML.
- Concurrent edits that overwrite each other (`config_save` of a whole stale
  copy, in daemon or command) are steps of `CheckCycle`, but nothing promises
  that they merge, so no property speaks of them.
- `muslimtify_notify_test` changes no state of the cycle; as a player it is in
  `AdhanStop`.
- A clock that is set back.

## 7. Plan

The modules and theorems planned are done. What could follow:

- the cycle of `DaemonLoop`, a list of announcements, stated against `Announcer`;
- a property for the clock that is set back, once `day` and `minute` may move
  against time: `ToldOnce` and the mapping to `Announcer` would then need a
  record of the days that were lived twice;
- two commands at once, and what a stale whole copy overwrites.
