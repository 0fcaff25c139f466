---------------------------- MODULE TriggerArray ----------------------------
(***************************************************************************)
(* The trigger list as the code keeps it: an array filled by the nested    *)
(* loops of cache_build_triggers and sorted by minute (src/core/cache.c),  *)
(* rid of what is over after a location refresh, and worked off in place   *)
(* by the loop of muslimtify_run_cycle_at (src/lib/muslimtify_cycle.c).    *)
(* One behaviour of this module builds the array at minute built of a day  *)
(* and runs one cycle's loop at that minute or a later one of the day.  It *)
(* ties the sets of module Triggers to the array.                          *)
(***************************************************************************)
EXTENDS Triggers, SequencesExt

\* The build loop counts the prayers from Fajr to Isha.
ASSUME PrayerOrderAssumption == Prayers = 1..Cardinality(Prayers)

VARIABLES
  prefs, location, day,  \* what the array is built from
  built,                 \* minute of the rebuild
  refreshed,             \* the rebuild follows a location refresh
  stage,                 \* "fill", "trim", "built", "walk"
  pass, day_delta, type, j,  \* counters of the build loops; type and j from 1
  arr,                   \* cache.triggers[0 .. trigger_count - 1]
  cur,                   \* minute of the cycle that works the array off
  i,                     \* index of the loop over the array, from 1
  fired                  \* triggers announced, in order

inputs == <<prefs, location, day, built, refreshed>>
counters == <<pass, day_delta, type, j>>
vars == <<inputs, stage, counters, arr, cur, i, fired>>

-----------------------------------------------------------------------------
PRAYER_COUNT == Cardinality(Prayers)

RemindersGoFirst == pass = 1

\* The exact times go first, so that no reminder takes their room.
ExactPass == pass = 0

\* The prayer the loops are at is announced and occurs on the source day.
Occurs ==
  type \in Enabled[prefs] \cap DOMAIN PrayerMinute[prefs][location][day + day_delta]

AddOffDay(a, e) ==
  IF e.minute >= built - CatchupMax /\ Len(a) < MaxTriggers THEN Append(a, e) ELSE a

AddHadTime(a, e) ==
  IF e.minute \in 0..(DayLen - 1) /\ e.minute >= built /\ Len(a) < MaxTriggers
  THEN Append(a, e) ELSE a

\* A trigger outside the day or older than the catch-up window is skipped,
\* one that finds the array full is dropped.
Add(a, e) ==
  IF /\ e.minute \in 0..(DayLen - 1)
     /\ e.minute >= built - CatchupMax
     /\ Len(a) < MaxTriggers
  THEN Append(a, e) ELSE a

Filling == stage = "fill" /\ pass < 2 /\ day_delta <= 1 /\ type <= PRAYER_COUNT

SkipPrayer ==
  /\ Filling /\ ~Occurs
  /\ type' = type + 1
  /\ UNCHANGED <<inputs, stage, pass, day_delta, j, arr, cur, i, fired>>

AddExact ==
  /\ Filling /\ Occurs /\ ExactPass
  /\ arr' = Add(arr, Entry(prefs, location, day, <<day + day_delta, type, 0>>))
  /\ type' = type + 1
  /\ UNCHANGED <<inputs, stage, pass, day_delta, j, cur, i, fired>>

AddReminder ==
  /\ Filling /\ Occurs /\ ~ExactPass /\ j <= Len(Reminders[prefs][type])
  /\ arr' = Add(arr, Entry(prefs, location, day, <<day + day_delta, type, j>>))
  /\ j' = j + 1
  /\ UNCHANGED <<inputs, stage, pass, day_delta, type, cur, i, fired>>

RemindersDone ==
  /\ Filling /\ Occurs /\ ~ExactPass /\ j > Len(Reminders[prefs][type])
  /\ type' = type + 1 /\ j' = 1
  /\ UNCHANGED <<inputs, stage, pass, day_delta, arr, cur, i, fired>>

NextDay ==
  /\ stage = "fill" /\ pass < 2 /\ day_delta <= 1 /\ type > PRAYER_COUNT
  /\ day_delta' = day_delta + 1 /\ type' = 1
  /\ UNCHANGED <<inputs, stage, pass, j, arr, cur, i, fired>>

NextPass ==
  /\ stage = "fill" /\ pass < 2 /\ day_delta > 1
  /\ pass' = pass + 1 /\ day_delta' = -1
  /\ UNCHANGED <<inputs, stage, type, j, arr, cur, i, fired>>

Sorted(s) == \A m, n \in DOMAIN s : m < n => s[m].minute <= s[n].minute

\* qsort: any arrangement by minute.
SortArray ==
  /\ stage = "fill" /\ pass = 2
  /\ \E order \in Bijection(DOMAIN arr, DOMAIN arr) :
       /\ arr' = [n \in DOMAIN arr |-> arr[order[n]]]
       /\ Sorted(arr')
  /\ stage' = "trim"
  /\ UNCHANGED <<inputs, counters, cur, i, fired>>

-----------------------------------------------------------------------------
\* What the old place announced until now is not announced again for the new.
Over(t) == refreshed /\ t.minute < built

TrimRemoves ==
  /\ stage = "trim" /\ i <= Len(arr) /\ Over(arr[i])
  /\ arr' = RemoveAt(arr, i)
  /\ UNCHANGED <<inputs, stage, counters, cur, i, fired>>

TrimKeeps ==
  /\ stage = "trim" /\ i <= Len(arr) /\ ~Over(arr[i])
  /\ i' = i + 1
  /\ UNCHANGED <<inputs, stage, counters, arr, cur, fired>>

TrimEnds ==
  /\ stage = "trim" /\ i > Len(arr)
  /\ stage' = "built"
  /\ UNCHANGED <<inputs, counters, arr, cur, i, fired>>

-----------------------------------------------------------------------------
\* The cycle of the rebuild or the first one after it works the array off.
BeginWalk ==
  /\ stage = "built"
  /\ stage' = "walk" /\ i' = 1
  /\ cur' \in built..(DayLen - 1)
  /\ UNCHANGED <<inputs, counters, arr, fired>>

Keep ==
  /\ stage = "walk" /\ i <= Len(arr) /\ CatchupAction(arr[i], cur) = "KEEP"
  /\ i' = i + 1
  /\ UNCHANGED <<inputs, stage, counters, arr, cur, fired>>

FireSkipsNext ==
  /\ stage = "walk" /\ i <= Len(arr) /\ CatchupAction(arr[i], cur) = "FIRE"
  /\ fired' = Append(fired, arr[i])
  /\ arr' = RemoveAt(arr, i)
  /\ i' = i + 1
  /\ UNCHANGED <<inputs, stage, counters, cur>>

\* cache_remove_trigger closes the gap, so the index stays where it is.
Fire ==
  /\ stage = "walk" /\ i <= Len(arr) /\ CatchupAction(arr[i], cur) = "FIRE"
  /\ fired' = Append(fired, arr[i])
  /\ arr' = RemoveAt(arr, i)
  /\ UNCHANGED <<inputs, stage, counters, cur, i>>

DropSkipsNext ==
  /\ stage = "walk" /\ i <= Len(arr) /\ CatchupAction(arr[i], cur) = "DROP"
  /\ arr' = RemoveAt(arr, i)
  /\ i' = i + 1
  /\ UNCHANGED <<inputs, stage, counters, cur, fired>>

Drop ==
  /\ stage = "walk" /\ i <= Len(arr) /\ CatchupAction(arr[i], cur) = "DROP"
  /\ arr' = RemoveAt(arr, i)
  /\ UNCHANGED <<inputs, stage, counters, cur, i, fired>>

-----------------------------------------------------------------------------
Init ==
  /\ prefs \in Prefs /\ location \in Locations /\ day \in 0..LastDay
  /\ built \in 0..(DayLen - 1) /\ refreshed \in BOOLEAN
  /\ stage = "fill" /\ pass = 0 /\ day_delta = -1 /\ type = 1 /\ j = 1
  /\ arr = <<>> /\ cur = built /\ i = 1 /\ fired = <<>>

Fill == SkipPrayer \/ AddExact \/ AddReminder \/ RemindersDone \/ NextDay \/ NextPass
Trim == TrimRemoves \/ TrimKeeps \/ TrimEnds
Walk == BeginWalk \/ Keep \/ Fire \/ Drop

Next == Fill \/ SortArray \/ Trim \/ Walk

Spec == Init /\ [][Next]_vars

-----------------------------------------------------------------------------
TypeOK ==
  /\ prefs \in Prefs /\ location \in Locations /\ day \in 0..LastDay
  /\ built \in 0..(DayLen - 1) /\ cur \in built..(DayLen - 1) /\ refreshed \in BOOLEAN
  /\ stage \in {"fill", "trim", "built", "walk"}
  /\ pass \in 0..2 /\ day_delta \in -1..2
  /\ type \in 1..(PRAYER_COUNT + 1) /\ j \in 1..(MaxReminders + 1)
  /\ arr \in Seq(Trigger) /\ Len(arr) <= MaxTriggers
  /\ fired \in Seq(Trigger)
  /\ i \in 1..(Len(arr) + 1)

\* What the list holds once it is built, as module CheckCycle has it.
List == {t \in BuildTriggers(prefs, location, day, built) : ~Over(t)}

(***************************************************************************)
(* The loops of cache_build_triggers and the sort produce, in order and    *)
(* without repetition, exactly the set BuildTriggers, which the other      *)
(* modules use in their place: day-D membership, catch-up gate and         *)
(* capacity included; after a refresh, what is over by then is gone.       *)
(***************************************************************************)
BuildAgrees ==
  stage = "built" =>
    /\ ToSet(arr) = List
    /\ Len(arr) = Cardinality(List)
    /\ Sorted(arr)

(***************************************************************************)
(* A cycle's loop, which removes entries from the array it walks, ends     *)
(* with the future triggers and with nothing skipped: what it announced is *)
(* what was due within the catch-up window, oldest first.                  *)
(***************************************************************************)
LoopDisposesOfAllDue ==
  stage = "walk" /\ i > Len(arr) =>
    /\ ToSet(arr) = {t \in List : CatchupAction(t, cur) = "KEEP"}
    /\ ToSet(fired) = {t \in List : CatchupAction(t, cur) = "FIRE"}
    /\ Sorted(fired)

(***************************************************************************)
(* However many reminders are configured, the array's capacity never costs *)
(* an exact prayer time: every one of the day that is still in the window  *)
(* at the rebuild is announced or still to come (cache.c, "the capacity    *)
(* guard must never be free to drop one").                                 *)
(***************************************************************************)
CapacityNeverCostsAdhan ==
  stage = "walk" =>
    \A e \in Scheduled(prefs, location, day) :
      /\ e.before = 0 /\ e.minute >= built - CatchupMax /\ ~Over(e)
      /\ cur - e.minute <= CatchupMax
      => e \in ToSet(arr) \/ e \in ToSet(fired)

(***************************************************************************)
(* A late reminder that is not announced because its prayer has come loses *)
(* nothing: the prayer's own trigger is on the list of the same day and is *)
(* announced in the same cycle (check_cycle.c, "This never loses a real    *)
(* catch-up").                                                             *)
(***************************************************************************)
OvertakenReminderHasItsPrayer ==
  stage = "walk" /\ i > Len(arr) =>
    \A r \in List :
      Overtaken(r, cur) /\ cur - r.minute <= CatchupMax =>
        \E n \in DOMAIN fired :
          /\ fired[n].prayer = r.prayer /\ fired[n].src = r.src
          /\ fired[n].before = 0

(***************************************************************************)
(* A prayer whose time runs over midnight is moved to the neighbouring day *)
(* and not copied: no occurrence is on the lists of two days, and each     *)
(* that falls on a day 0..LastDay is on the list of one (cache.c,          *)
(* "scheduled exactly once").                                              *)
(***************************************************************************)
ScheduledOnce ==
  \A s \in 0..LastDay :
    \A p \in Enabled[prefs] \cap DOMAIN PrayerMinute[prefs][location][s] :
      LET On(d) == \E e \in BuildTriggers(prefs, location, d, 0) :
                     e.src = s /\ e.prayer = p /\ e.slot = 0
          Days == {d \in 0..LastDay : On(d)}
      IN /\ Cardinality(Days) <= 1
         /\ InstantMin(prefs, location, 0, s, p) \in 0..(DayLen * (LastDay + 1) - 1)
              => Days # {}
=============================================================================
