------------------------------ MODULE Triggers ------------------------------
(***************************************************************************)
(* The day's triggers: which announcements a calendar day holds, which of  *)
(* them a rebuild of the trigger cache admits, and what a check cycle does *)
(* with each one (src/core/cache.c, src/core/check_cycle.c).               *)
(*                                                                         *)
(* A trigger list is a set here.  The array of the code is sorted by       *)
(* minute and a cycle works through it from the front; the order between   *)
(* triggers of different minutes is kept by EarliestDue, and the order of  *)
(* two triggers of the same minute is left open, as qsort leaves it.       *)
(***************************************************************************)
EXTENDS Integers, Sequences, FiniteSets

CONSTANTS
  Prayers,       \* the five prayers, numbered in the order of the build loop
  Prefs,         \* choices of the settings that shape the schedule
  Locations,     \* places the prayer times are computed for
  LastDay,       \* days 0..LastDay are lived through, one more is looked at
  DayLen,        \* minutes of a day (1440)
  CatchupMax,    \* CATCHUP_MAX_MIN (15)
  MaxTriggers,   \* MAX_TRIGGERS (64)
  MaxReminders,  \* MAX_REMINDERS (10)
  Enabled,       \* [Prefs -> SUBSET Prayers]: prayers that are announced
  AdhanOn,       \* [Prefs -> SUBSET Prayers]: prayers recited when announced
  Reminders,     \* [Prefs -> [Prayers -> Seq(1..DayLen)]]
  PrayerMinute   \* [Prefs -> [Locations -> [SourceDays -> ...]]], see below

SourceDays == -1..(LastDay + 1)

ASSUME PrayersAssumption ==
  /\ Prayers \subseteq Nat /\ IsFiniteSet(Prayers)
  /\ Enabled \in [Prefs -> SUBSET Prayers]
  /\ AdhanOn \in [Prefs -> SUBSET Prayers]

ASSUME SizesAssumption ==
  /\ LastDay \in Nat /\ DayLen \in Nat \ {0} /\ CatchupMax \in Nat
  /\ MaxTriggers \in Nat /\ MaxReminders \in Nat

\* Two 24-hour lists of five prayers fit three times over: 3 * 5 <= 64.
ASSUME CapacityAssumption == 3 * Cardinality(Prayers) <= MaxTriggers

\* config.c admits 1..1440 and drops whatever exceeds MAX_REMINDERS.
ASSUME RemindersAssumption ==
  \A f \in Prefs, p \in Prayers :
    /\ Reminders[f][p] \in Seq(1..DayLen)
    /\ Len(Reminders[f][p]) <= MaxReminders

(***************************************************************************)
(* PrayerMinute[f][l][d] is what prayer_times_for_config answers for day d *)
(* with every time rounded up to a minute: a function on the prayers that  *)
(* occur that day (the library reports a non-finite time for the others).  *)
(* A time may run over into the day before or the day after, not further.  *)
(***************************************************************************)
ASSUME TimesAssumption ==
  \A f \in Prefs, l \in Locations, d \in SourceDays :
    \A p \in DOMAIN PrayerMinute[f][l][d] :
      PrayerMinute[f][l][d][p] \in (-DayLen)..(2 * DayLen - 1)

-----------------------------------------------------------------------------
Trigger ==
  [prayer : Prayers, src : SourceDays, slot : 0..MaxReminders,
   minute : 0..(DayLen - 1), before : 0..DayLen, adhan : BOOLEAN]

\* Slot 0 of a prayer is its exact time, slot j its j-th reminder.
Before(f, p, j) == IF j = 0 THEN 0 ELSE Reminders[f][p][j]

\* The minute of day d on which the prayer p of source day s falls.
InstantMin(f, l, d, s, p) == PrayerMinute[f][l][s][p] + DayLen * (s - d)

Entry(f, l, d, k) ==
  LET s == k[1]
      p == k[2]
      j == k[3]
  IN [prayer |-> p, src |-> s, slot |-> j,
      minute |-> InstantMin(f, l, d, s, p) - Before(f, p, j),
      before |-> Before(f, p, j), adhan |-> j = 0 /\ p \in AdhanOn[f]]

VisitedNoTomorrow(f, l, d) ==
  {k \in ((d - 1)..d) \X Prayers \X (0..MaxReminders) :
     /\ k[2] \in Enabled[f] \cap DOMAIN PrayerMinute[f][l][k[1]]
     /\ k[3] <= Len(Reminders[f][k[2]])}

\* What the loops of cache_build_triggers visit: days d-1, d and d+1, the
\* enabled prayers that occur, their exact time and their reminders.
Visited(f, l, d) ==
  {k \in ((d - 1)..(d + 1)) \X Prayers \X (0..MaxReminders) :
     /\ k[2] \in Enabled[f] \cap DOMAIN PrayerMinute[f][l][k[1]]
     /\ k[3] <= Len(Reminders[f][k[2]])}

\* Every trigger whose own minute falls on day d.
Scheduled(f, l, d) ==
  {e \in {Entry(f, l, d, k) : k \in Visited(f, l, d)} : e.minute \in 0..(DayLen - 1)}

Admitted(f, l, d, cur) == {e \in Scheduled(f, l, d) : e.minute >= cur - CatchupMax}

Pass(e) == IF e.slot = 0 THEN 0 ELSE 1

\* The order of insertion: exact times first, then the reminders, each pass
\* by source day, prayer and reminder index.
InsertedBefore(a, b) ==
  \/ Pass(a) < Pass(b)
  \/ /\ Pass(a) = Pass(b)
     /\ \/ a.src < b.src
        \/ a.src = b.src /\ a.prayer < b.prayer
        \/ a.src = b.src /\ a.prayer = b.prayer /\ a.slot < b.slot

\* The triggers a rebuild at minute cur of day d schedules.
BuildTriggers(f, l, d, cur) ==
  LET A == Admitted(f, l, d, cur) IN
  {e \in A : Cardinality({x \in A : InsertedBefore(x, e)}) < MaxTriggers}

-----------------------------------------------------------------------------
\* A reminder is worth nothing once its prayer's minute has come.
Overtaken(t, cur) == t.before > 0 /\ t.minute + t.before <= cur

CatchupOffByOne(t, cur) ==
  IF t.minute > cur THEN "KEEP"
  ELSE IF cur - t.minute >= CatchupMax \/ Overtaken(t, cur) THEN "DROP"
  ELSE "FIRE"

CatchupAction(t, cur) ==
  IF t.minute > cur THEN "KEEP"
  ELSE IF cur - t.minute > CatchupMax \/ Overtaken(t, cur) THEN "DROP"
  ELSE "FIRE"

PlaysAdhan(t, cur) == t.before = 0 /\ t.adhan /\ cur <= t.minute

\* What is due at minute cur, and of that what the sorted array yields next.
Due(T, cur) == {t \in T : t.minute <= cur}
EarliestDue(T, cur) == {t \in Due(T, cur) : \A u \in Due(T, cur) : t.minute <= u.minute}
=============================================================================
