------------------------- MODULE TriggerArrayProofs -------------------------
(***************************************************************************)
(* Theorems about the array of triggers: that the loops which fill it, the *)
(* sort, and the loops that remove entries from the array they walk        *)
(* compute the sets of module Triggers, for any settings, place and day.   *)
(***************************************************************************)
EXTENDS TriggerArray, TriggersProofs, SequenceTheorems

-----------------------------------------------------------------------------
\* What the loops have been past, in the terms of the triggers.
Seen(x) ==
  \/ Pass(x) < pass
  \/ /\ Pass(x) = pass
     /\ \/ x.src < day + day_delta
        \/ /\ x.src = day + day_delta
           /\ x.prayer < type \/ (x.prayer = type /\ Pass(x) = 1 /\ x.slot < j)

Wanted == Admitted(prefs, location, day, built)
Past == {x \in Wanted : Seen(x)}

\* An array filled from what the loops have been past: in the order it was
\* seen, all of it while there is room, and what found no room came later.
Holds(a, P) ==
  /\ \A n \in DOMAIN a : a[n] \in P
  /\ \A m, n \in DOMAIN a : m < n => InsertedBefore(a[m], a[n])
  /\ \A x \in P : x \notin ToSet(a) =>
       Len(a) = MaxTriggers /\ \A n \in DOMAIN a : InsertedBefore(a[n], x)

\* A counter stands at its beginning where its loop is not running.
CountersOK ==
  /\ j # 1 => pass = 1 /\ day_delta <= 1 /\ type <= PRAYER_COUNT /\ Occurs
  /\ day_delta = 2 => type = 1

FillInv == stage = "fill" => CountersOK /\ i = 1 /\ fired = <<>> /\ Holds(arr, Past)

\* While it is trimmed: only what is over may be missing, and none of it is
\* behind the index.
TrimInv ==
  stage = "trim" =>
    /\ Sorted(arr) /\ IsInjective(arr) /\ fired = <<>>
    /\ \A n \in DOMAIN arr : arr[n] \in BuildTriggers(prefs, location, day, built)
    /\ \A t \in BuildTriggers(prefs, location, day, built) : t \in ToSet(arr) \/ Over(t)
    /\ \A n \in DOMAIN arr : n < i => ~Over(arr[n])

BuiltInv ==
  stage = "built" =>
    Sorted(arr) /\ IsInjective(arr) /\ fired = <<>> /\ ToSet(arr) = List

\* While it is worked off: what is behind the index waits, what was announced
\* was due and came no later than all that is left, only the rest is gone.
WalkInv ==
  stage = "walk" =>
    /\ Sorted(arr) /\ Sorted(fired)
    /\ \A n \in DOMAIN arr : arr[n] \in List
    /\ \A n \in DOMAIN arr : n < i => CatchupAction(arr[n], cur) = "KEEP"
    /\ \A m \in DOMAIN fired : fired[m] \in List /\ CatchupAction(fired[m], cur) = "FIRE"
    /\ \A m \in DOMAIN fired, n \in DOMAIN arr : fired[m].minute <= arr[n].minute
    /\ \A t \in List : t \in ToSet(arr) \/ t \in ToSet(fired) \/ CatchupAction(t, cur) = "DROP"

IInv == TypeOK /\ FillInv /\ TrimInv /\ BuiltInv /\ WalkInv
-----------------------------------------------------------------------------
\* What is left of a sequence when one entry is taken out.
LEMMA RemoveAtIs ==
  ASSUME NEW S, NEW s \in Seq(S), NEW k \in 1..Len(s), NEW r, r = RemoveAt(s, k)
  PROVE  /\ r \in Seq(S) /\ Len(r) = Len(s) - 1
         /\ \A n \in 1..Len(r) : r[n] = IF n < k THEN s[n] ELSE s[n + 1]
<1> DEFINE a == SubSeq(s, 1, k - 1)
           b == SubSeq(s, k + 1, Len(s))
<1>1. /\ a \in Seq(S) /\ Len(a) = k - 1
      /\ \A n \in 1..(k - 1) : a[n] = s[n]
  <2>1. \A n \in 1..(k - 1) : s[n] \in S
    OBVIOUS
  <2> QED BY <2>1, SubSeqProperties
<1>2. /\ b \in Seq(S) /\ Len(b) = Len(s) - k
      /\ \A n \in 1..(Len(s) - k) : b[n] = s[k + n]
  <2>1. \A n \in (k + 1)..Len(s) : s[n] \in S
    OBVIOUS
  <2> QED BY <2>1, SubSeqProperties
<1>3. r = a \o b
  BY DEF RemoveAt
<1> HIDE DEF a, b
<1>4. /\ r \in Seq(S) /\ Len(r) = (k - 1) + (Len(s) - k)
      /\ \A n \in 1..Len(r) : r[n] = IF n <= k - 1 THEN a[n] ELSE b[n - (k - 1)]
  <2>1. /\ r \in Seq(S) /\ Len(r) = Len(a) + Len(b)
        /\ \A n \in 1..(Len(a) + Len(b)) : r[n] = IF n <= Len(a) THEN a[n] ELSE b[n - Len(a)]
    <3>1. /\ a \o b \in Seq(S) /\ Len(a \o b) = Len(a) + Len(b)
          /\ \A n \in 1..(Len(a) + Len(b)) :
               (a \o b)[n] = IF n <= Len(a) THEN a[n] ELSE b[n - Len(a)]
      BY <1>1, <1>2, ConcatProperties
    <3> QED BY <1>3, <3>1, Zenon
  <2> QED BY <1>1, <1>2, <2>1
<1>5. ASSUME NEW n \in 1..Len(r) PROVE r[n] = IF n < k THEN s[n] ELSE s[n + 1]
  <2>1. CASE n < k
    BY <1>1, <1>4, <2>1
  <2>2. CASE n >= k
    <3>1. n - (k - 1) \in 1..(Len(s) - k) /\ k + (n - (k - 1)) = n + 1
      BY <1>4, <2>2
    <3>2. b[n - (k - 1)] = s[n + 1]
      BY <1>2, <3>1
    <3> QED BY <1>4, <2>2, <3>2
  <2> QED BY <2>1, <2>2
<1> QED BY <1>4, <1>5

LEMMA Removed ==
  ASSUME NEW S, NEW s \in Seq(S), NEW k \in 1..Len(s), NEW r, r = RemoveAt(s, k)
  PROVE  /\ \A n \in DOMAIN r : \E m \in DOMAIN s : m # k /\ r[n] = s[m]
         /\ \A m \in DOMAIN s : m = k \/ \E n \in DOMAIN r : r[n] = s[m]
         /\ \A n \in DOMAIN r : n < k => r[n] = s[n]
         /\ IsInjective(s) => IsInjective(r)
         /\ Sorted(s) => Sorted(r)
<1>1. /\ Len(r) = Len(s) - 1 /\ r \in Seq(S) /\ DOMAIN r = 1..Len(r) /\ DOMAIN s = 1..Len(s)
      /\ \A n \in 1..Len(r) : r[n] = IF n < k THEN s[n] ELSE s[n + 1]
  BY RemoveAtIs
<1> DEFINE from(n) == IF n < k THEN n ELSE n + 1
<1>2. \A n \in DOMAIN r : r[n] = s[from(n)] /\ from(n) \in DOMAIN s /\ from(n) # k
  BY <1>1
<1>3. \A m, n \in DOMAIN r : (m < n => from(m) < from(n)) /\ (from(m) = from(n) => m = n)
  BY <1>1
<1>4. \A m \in DOMAIN s : m # k => \E n \in DOMAIN r : from(n) = m
  <2> SUFFICES ASSUME NEW m \in DOMAIN s, m # k PROVE \E n \in DOMAIN r : from(n) = m
    OBVIOUS
  <2>1. CASE m < k
    BY <1>1, <2>1
  <2>2. CASE m > k
    <3>1. m - 1 \in DOMAIN r /\ from(m - 1) = m
      BY <1>1, <2>2
    <3> QED BY <3>1
  <2> QED BY <1>1, <2>1, <2>2
<1>5. \A n \in DOMAIN r : n < k => from(n) = n
  OBVIOUS
<1> HIDE DEF from
<1>6. IsInjective(s) => IsInjective(r)
  BY <1>2, <1>3 DEF IsInjective
<1>7. Sorted(s) => Sorted(r)
  BY <1>2, <1>3 DEF Sorted
<1> QED BY <1>2, <1>4, <1>5, <1>6, <1>7

\* The same of the array and one step.
LEMMA ArrayRemoved ==
  ASSUME arr \in Seq(Trigger), i \in 1..Len(arr), arr' = RemoveAt(arr, i)
  PROVE  /\ \A n \in DOMAIN arr' : \E m \in DOMAIN arr : m # i /\ arr'[n] = arr[m]
         /\ \A m \in DOMAIN arr : m = i \/ \E n \in DOMAIN arr' : arr'[n] = arr[m]
         /\ \A n \in DOMAIN arr' : n < i => arr'[n] = arr[n]
         /\ IsInjective(arr) => IsInjective(arr')
         /\ Sorted(arr) => Sorted(arr')
         /\ arr' \in Seq(Trigger) /\ Len(arr') = Len(arr) - 1 /\ DOMAIN arr' = 1..Len(arr')
<1>1. PICK s, k, r : s = arr /\ k = i /\ r = arr'
  OBVIOUS
<1>2. s \in Seq(Trigger) /\ k \in 1..Len(s) /\ r = RemoveAt(s, k)
  BY <1>1
<1>3. /\ \A n \in DOMAIN r : \E m \in DOMAIN s : m # k /\ r[n] = s[m]
      /\ \A m \in DOMAIN s : m = k \/ \E n \in DOMAIN r : r[n] = s[m]
      /\ \A n \in DOMAIN r : n < k => r[n] = s[n]
      /\ IsInjective(s) => IsInjective(r)
      /\ Sorted(s) => Sorted(r)
  BY <1>2, Removed
<1>4. r \in Seq(Trigger) /\ Len(r) = Len(s) - 1
  BY <1>2, RemoveAtIs
<1>5. DOMAIN r = 1..Len(r)
  BY <1>4
<1> QED BY <1>1, <1>3, <1>4, <1>5

\* A sequence without repetition has as many entries as elements.
LEMMA EntriesCounted ==
  ASSUME NEW S, NEW s \in Seq(S), IsInjective(s)
  PROVE  IsFiniteSet(ToSet(s)) /\ Cardinality(ToSet(s)) = Len(s)
<1>1. s \in [1..Len(s) -> ToSet(s)]
  BY DEF ToSet
<1>2. s \in Bijection(1..Len(s), ToSet(s))
  BY <1>1 DEF Bijection, Injection, Surjection, IsInjective, ToSet
<1>3. IsFiniteSet(1..Len(s)) /\ Cardinality(1..Len(s)) = Len(s)
  <2>1. Len(s) \in Nat
    OBVIOUS
  <2> QED BY <2>1, FS_Interval
<1> QED BY <1>2, <1>3, FS_Bijection DEF ExistsBijection

-----------------------------------------------------------------------------
\* A trigger of the day is the entry its loop counters stand for.
LEMMA EntryOfKey ==
  ASSUME NEW f \in Prefs, NEW l \in Locations, NEW d \in 0..LastDay,
         NEW x \in Scheduled(f, l, d)
  PROVE  /\ x = Entry(f, l, d, <<x.src, x.prayer, x.slot>>)
         /\ <<x.src, x.prayer, x.slot>> \in Visited(f, l, d)
<1>1. PICK k \in Visited(f, l, d) : x = Entry(f, l, d, k)
  BY DEF Scheduled
<1>2. k = <<k[1], k[2], k[3]>>
  BY VisitedParts
<1>3. x.src = k[1] /\ x.prayer = k[2] /\ x.slot = k[3]
  BY <1>1 DEF Entry
<1> QED BY <1>1, <1>2, <1>3

LEMMA RemindersLen ==
  ASSUME TypeOK, type <= PRAYER_COUNT
  PROVE  /\ Len(Reminders[prefs][type]) \in 0..MaxReminders
         /\ type \in Prayers
<1>1. type \in Prayers
  <2>1. PRAYER_COUNT \in Nat
    BY FS_CardinalityType, PrayersAssumption DEF PRAYER_COUNT
  <2>2. type \in 1..PRAYER_COUNT
    BY <2>1 DEF TypeOK
  <2> QED BY <2>2, PrayerOrderAssumption DEF PRAYER_COUNT
<1>2. prefs \in Prefs
  BY DEF TypeOK
<1> QED BY <1>1, <1>2, RemindersAssumption

LEMMA WantedParts ==
  ASSUME TypeOK, NEW x \in Wanted
  PROVE  /\ x \in Trigger /\ x \in Scheduled(prefs, location, day)
         /\ x = Entry(prefs, location, day, <<x.src, x.prayer, x.slot>>)
         /\ x.src \in (day - 1)..(day + 1) /\ x.prayer \in 1..PRAYER_COUNT
         /\ x.prayer \in Enabled[prefs] \cap DOMAIN PrayerMinute[prefs][location][x.src]
         /\ x.slot \in 0..MaxReminders /\ x.slot <= Len(Reminders[prefs][x.prayer])
         /\ Pass(x) = (IF x.slot = 0 THEN 0 ELSE 1)
<1>1. prefs \in Prefs /\ location \in Locations /\ day \in 0..LastDay
  BY DEF TypeOK
<1>2. x \in Scheduled(prefs, location, day)
  BY DEF Wanted, Admitted
<1>3. x \in Trigger
  BY <1>1, <1>2, ScheduledType
<1> DEFINE k == <<x.src, x.prayer, x.slot>>
<1>4. x = Entry(prefs, location, day, k) /\ k \in Visited(prefs, location, day)
  BY <1>1, <1>2, EntryOfKey
<1>5. k[1] = x.src /\ k[2] = x.prayer /\ k[3] = x.slot
  OBVIOUS
<1> HIDE DEF k
<1>6. /\ k[1] \in (day - 1)..(day + 1) /\ k[2] \in Prayers /\ k[3] \in 0..MaxReminders
      /\ k[3] <= Len(Reminders[prefs][k[2]])
  BY <1>1, <1>4, VisitedParts
<1>7. k[2] \in Enabled[prefs] \cap DOMAIN PrayerMinute[prefs][location][k[1]]
  BY <1>4 DEF Visited
<1>8. x.prayer \in 1..PRAYER_COUNT
  BY <1>5, <1>6, PrayerOrderAssumption DEF PRAYER_COUNT
<1>9. x.src \in (day - 1)..(day + 1) /\ x.slot \in 0..MaxReminders
  BY <1>5, <1>6
<1>10. x.slot <= Len(Reminders[prefs][x.prayer])
  BY <1>5, <1>6
<1>11. x.prayer \in Enabled[prefs] \cap DOMAIN PrayerMinute[prefs][location][x.src]
  BY <1>5, <1>7
<1>12. x = Entry(prefs, location, day, <<x.src, x.prayer, x.slot>>)
  BY <1>4 DEF k
<1> QED BY <1>2, <1>3, <1>8, <1>9, <1>10, <1>11, <1>12 DEF Pass

\* Adding the trigger the loops have come to.
LEMMA AddStep ==
  ASSUME NEW a \in Seq(Trigger), Len(a) <= MaxTriggers, NEW P \in SUBSET Trigger,
         Holds(a, P), NEW e, e \in Wanted => e \in Trigger,
         e \in Wanted <=> e.minute \in 0..(DayLen - 1) /\ e.minute >= built - CatchupMax,
         \A x \in P : InsertedBefore(x, e),
         NEW b, b = Add(a, e)
  PROVE  /\ b \in Seq(Trigger) /\ Len(b) <= MaxTriggers
         /\ Holds(b, P \cup {x \in {e} : e \in Wanted})
<1> DEFINE Q == P \cup {x \in {e} : e \in Wanted}
<1>1. CASE e \in Wanted /\ Len(a) < MaxTriggers
  <2>1. b = Append(a, e)
    BY <1>1 DEF Add
  <2>2. /\ b \in Seq(Trigger) /\ Len(b) = Len(a) + 1 /\ Len(b) <= MaxTriggers
        /\ b[Len(a) + 1] = e /\ \A n \in 1..Len(a) : b[n] = a[n]
    BY <1>1, <2>1, SizesAssumption, AppendProperties
  <2>3. ToSet(b) = ToSet(a) \cup {e} /\ DOMAIN b = 1..Len(b) /\ DOMAIN a = 1..Len(a)
    BY <2>2 DEF ToSet
  <2>4. \A n \in DOMAIN b : n \in DOMAIN a \/ n = Len(a) + 1
    BY <2>2, <2>3
  <2>5. \A n \in DOMAIN b : b[n] \in Q
    BY <1>1, <2>2, <2>3, <2>4 DEF Holds
  <2>6. ASSUME NEW m \in DOMAIN b, NEW n \in DOMAIN b, m < n
        PROVE  InsertedBefore(b[m], b[n])
    <3>1. m \in DOMAIN a /\ b[m] = a[m] /\ a[m] \in P
      BY <2>2, <2>3, <2>6 DEF Holds
    <3>2. CASE n \in DOMAIN a
      BY <2>2, <2>3, <2>6, <3>1, <3>2 DEF Holds
    <3>3. CASE n = Len(a) + 1
      BY <2>2, <3>1, <3>3
    <3> QED BY <2>4, <3>2, <3>3
  <2>7. Q \ ToSet(b) \subseteq P \ ToSet(a)
    BY <2>3
  <2>8. Q \ ToSet(b) = {}
    BY <1>1, <2>7, SizesAssumption DEF Holds
  <2> QED BY <2>2, <2>5, <2>6, <2>8 DEF Holds
<1>2. CASE e \in Wanted /\ Len(a) = MaxTriggers
  <2>1. b = a
    BY <1>2, SizesAssumption DEF Add
  <2>2. \A n \in DOMAIN a : InsertedBefore(a[n], e)
    BY DEF Holds
  <2> QED BY <1>2, <2>1, <2>2 DEF Holds
<1>3. CASE e \notin Wanted
  <2>1. b = a /\ Q = P
    BY <1>3 DEF Add
  <2> QED BY <2>1
<1> QED BY <1>1, <1>2, <1>3, SizesAssumption

\* A full pass over everything wanted leaves what BuildTriggers describes.
LEMMA FilledIsBuilt ==
  ASSUME TypeOK, Holds(arr, Wanted)
  PROVE  /\ ToSet(arr) = BuildTriggers(prefs, location, day, built)
         /\ IsInjective(arr)
<1> DEFINE Earlier(e) == {x \in Wanted : InsertedBefore(x, e)}
<1>1. /\ arr \in Seq(Trigger) /\ Len(arr) \in Nat /\ Len(arr) <= MaxTriggers
      /\ DOMAIN arr = 1..Len(arr)
  BY DEF TypeOK
<1>2. /\ \A n \in 1..Len(arr) : arr[n] \in Wanted
      /\ \A m, n \in 1..Len(arr) : m < n => InsertedBefore(arr[m], arr[n])
  BY <1>1 DEF Holds
<1>3. Wanted \subseteq Trigger
  BY WantedParts
<1>4. \A x, y \in Wanted : ~InsertedBefore(x, x) /\ ~(InsertedBefore(x, y) /\ InsertedBefore(y, x))
  BY <1>3, InsertedInOrder
<1>5. IsInjective(arr)
  <2> SUFFICES ASSUME NEW m \in 1..Len(arr), NEW n \in 1..Len(arr), arr[m] = arr[n], m # n
               PROVE  FALSE
    BY <1>1 DEF IsInjective
  <2>1. m < n \/ n < m
    OBVIOUS
  <2> QED BY <1>2, <1>4, <2>1
<1>6. \A e : IsFiniteSet(Earlier(e)) /\ Cardinality(Earlier(e)) \in Nat
  <2> SUFFICES ASSUME NEW e PROVE IsFiniteSet(Earlier(e)) /\ Cardinality(Earlier(e)) \in Nat
    OBVIOUS
  <2>1. prefs \in Prefs /\ location \in Locations /\ day \in 0..LastDay
    BY DEF TypeOK
  <2>2. Earlier(e) \in SUBSET Scheduled(prefs, location, day)
    BY WantedParts
  <2> QED BY <2>1, <2>2, ScheduledFinite, FS_Subset, FS_CardinalityType
<1>7. ASSUME NEW n \in 1..Len(arr) PROVE Cardinality(Earlier(arr[n])) < MaxTriggers
  <2> DEFINE s == [m \in 1..(n - 1) |-> arr[m]]
             T == {arr[m] : m \in 1..(n - 1)}
  <2>1. Earlier(arr[n]) \subseteq T
    <3> SUFFICES ASSUME NEW x \in Wanted, InsertedBefore(x, arr[n]) PROVE x \in T
      OBVIOUS
    <3>1. x \in ToSet(arr)
      BY <1>1, <1>2, <1>4 DEF Holds
    <3>2. PICK m \in 1..Len(arr) : x = arr[m]
      BY <1>1, <3>1 DEF ToSet
    <3>3. m < n
      BY <1>2, <1>4, <3>2
    <3> QED BY <3>2, <3>3
  <2>2. s \in Surjection(1..(n - 1), T)
    BY DEF Surjection
  <2>3. IsFiniteSet(1..(n - 1)) /\ Cardinality(1..(n - 1)) = n - 1
    BY FS_Interval
  <2>4. IsFiniteSet(T) /\ Cardinality(T) <= n - 1
    BY <2>2, <2>3, FS_Surjection
  <2>5. Cardinality(Earlier(arr[n])) <= Cardinality(T) /\ Cardinality(T) \in Nat
    BY <2>1, <2>4, FS_Subset, FS_CardinalityType
  <2> HIDE DEF Earlier, T
  <2> QED BY <1>1, <1>6, <2>4, <2>5, SizesAssumption
<1>8. ASSUME NEW e \in Wanted, e \notin ToSet(arr)
      PROVE  ~(Cardinality(Earlier(e)) < MaxTriggers)
  <2>1. Len(arr) = MaxTriggers /\ \A n \in 1..Len(arr) : InsertedBefore(arr[n], e)
    BY <1>1, <1>8 DEF Holds
  <2>2. ToSet(arr) \subseteq Earlier(e)
    BY <1>1, <1>2, <2>1 DEF ToSet
  <2>3. Cardinality(ToSet(arr)) = MaxTriggers
    BY <1>1, <1>5, <2>1, EntriesCounted
  <2>4. Cardinality(ToSet(arr)) <= Cardinality(Earlier(e))
    BY <1>6, <2>2, FS_Subset
  <2> HIDE DEF Earlier
  <2> QED BY <1>6, <2>3, <2>4, SizesAssumption
<1>9. ToSet(arr) \subseteq Wanted
  BY <1>1, <1>2 DEF ToSet
<1>10. BuildTriggers(prefs, location, day, built)
        = {e \in Wanted : Cardinality(Earlier(e)) < MaxTriggers}
  BY DEF BuildTriggers, Wanted
<1>11. \A e \in ToSet(arr) : Cardinality(Earlier(e)) < MaxTriggers
  BY <1>1, <1>7 DEF ToSet
<1> HIDE DEF Earlier
<1> QED BY <1>5, <1>8, <1>9, <1>10, <1>11
-----------------------------------------------------------------------------
\* The trigger the loops are at, and what they have been past by then.
LEMMA VisitedNow ==
  ASSUME TypeOK, Filling, Occurs,
         NEW q \in 0..MaxReminders, q <= Len(Reminders[prefs][type]),
         (pass = 0 /\ q = 0) \/ (pass = 1 /\ q = j),
         NEW e, e = Entry(prefs, location, day, <<day + day_delta, type, q>>)
  PROVE  /\ e.src = day + day_delta /\ e.prayer = type /\ e.slot = q /\ Pass(e) = pass
         /\ e \in Wanted => e \in Trigger
         /\ e \in Wanted <=> e.minute \in 0..(DayLen - 1) /\ e.minute >= built - CatchupMax
         /\ \A x \in Past : InsertedBefore(x, e)
<1> DEFINE k == <<day + day_delta, type, q>>
<1>1. /\ prefs \in Prefs /\ location \in Locations /\ day \in 0..LastDay
      /\ day \in Int /\ day_delta \in -1..1 /\ type \in 1..PRAYER_COUNT /\ PRAYER_COUNT \in Nat
      /\ pass \in {0, 1} /\ j \in Nat \ {0}
  <2>1. PRAYER_COUNT \in Nat
    BY FS_CardinalityType, PrayersAssumption DEF PRAYER_COUNT
  <2> QED BY <2>1, SizesAssumption DEF TypeOK, Filling
<1>2. e.src = day + day_delta /\ e.prayer = type /\ e.slot = q /\ Pass(e) = pass
  <2>1. e.src = k[1] /\ e.prayer = k[2] /\ e.slot = k[3]
    BY DEF Entry
  <2>2. e.src = day + day_delta /\ e.prayer = type /\ e.slot = q
    BY <2>1
  <2> QED BY <1>1, <2>2 DEF Pass
<1>3. k \in Visited(prefs, location, day)
  <2>1. type \in Prayers
    BY <1>1, PrayerOrderAssumption DEF PRAYER_COUNT
  <2>2. k \in ((day - 1)..(day + 1)) \X Prayers \X (0..MaxReminders)
    BY <1>1, <2>1
  <2> QED BY <2>2 DEF Visited, Occurs
<1>4. e \in Scheduled(prefs, location, day) <=> e.minute \in 0..(DayLen - 1)
  BY <1>3 DEF Scheduled
<1>5. e \in Wanted <=> e.minute \in 0..(DayLen - 1) /\ e.minute >= built - CatchupMax
  BY <1>4 DEF Wanted, Admitted
<1>6. e \in Wanted => e \in Trigger
  BY WantedParts
<1>7. ASSUME NEW x \in Past PROVE InsertedBefore(x, e)
  <2>1. x \in Wanted /\ Seen(x)
    BY DEF Past
  <2>2. x.src \in Int /\ x.prayer \in Int /\ x.slot \in Nat /\ Pass(x) = (IF x.slot = 0 THEN 0 ELSE 1)
    <3>1. /\ x.src \in (day - 1)..(day + 1) /\ x.prayer \in 1..PRAYER_COUNT
          /\ x.slot \in 0..MaxReminders /\ Pass(x) = (IF x.slot = 0 THEN 0 ELSE 1)
      BY <2>1, WantedParts
    <3> QED BY <1>1, <3>1, SizesAssumption
  <2> QED BY <1>1, <1>2, <2>1, <2>2 DEF Seen, InsertedBefore
<1> QED BY <1>2, <1>5, <1>6, <1>7

\* What the loops have been past by the next step, read off the counters.
LEMMA PastNext ==
  ASSUME IInv, stage = "fill", Fill
  PROVE  /\ Wanted' = Wanted
         /\ SkipPrayer \/ RemindersDone \/ NextDay \/ NextPass => Past' = Past
         /\ AddExact =>
              Past' = Past \cup {x \in {Entry(prefs, location, day, <<day + day_delta, type, 0>>)} :
                                   x \in Wanted}
         /\ AddReminder =>
              Past' = Past \cup {x \in {Entry(prefs, location, day, <<day + day_delta, type, j>>)} :
                                   x \in Wanted}
<1>1. UNCHANGED inputs
  BY DEF Fill, SkipPrayer, AddExact, AddReminder, RemindersDone, NextDay, NextPass
<1>2. Wanted' = Wanted
  BY <1>1 DEF inputs, Wanted
<1>3. TypeOK /\ CountersOK
  BY DEF IInv, FillInv
<1>4. /\ day \in Int /\ day_delta \in -1..2 /\ type \in Nat \ {0} /\ PRAYER_COUNT \in Nat
      /\ pass \in 0..2 /\ j \in Nat \ {0} /\ day' = day
  <2>1. PRAYER_COUNT \in Nat
    BY FS_CardinalityType, PrayersAssumption DEF PRAYER_COUNT
  <2> QED BY <1>1, <1>3, <2>1, SizesAssumption DEF TypeOK, inputs
<1>5. ASSUME NEW x \in Wanted
      PROVE  /\ x.src = day + day_delta /\ x.prayer = type =>
                  Occurs /\ x.slot <= Len(Reminders[prefs][type])
             /\ x = Entry(prefs, location, day, <<x.src, x.prayer, x.slot>>)
  BY <1>3, WantedParts DEF Occurs
<1>a. ASSUME NEW x \in Wanted
      PROVE  /\ x.src \in Int /\ x.src <= day + 1 /\ x.src >= day - 1
             /\ x.prayer \in Nat /\ x.prayer > 0 /\ x.prayer <= PRAYER_COUNT
             /\ x.slot \in Nat /\ Pass(x) \in {0, 1} /\ (Pass(x) = 0 <=> x.slot = 0)
  <2>1. x.src \in (day - 1)..(day + 1) /\ x.prayer \in 1..PRAYER_COUNT /\ x.slot \in 0..MaxReminders
    BY <1>3, WantedParts
  <2>2. Pass(x) \in {0, 1} /\ (Pass(x) = 0 <=> x.slot = 0)
    BY DEF Pass
  <2> QED BY <1>4, <2>1, <2>2, SizesAssumption
<1>6. ASSUME SkipPrayer \/ RemindersDone \/ NextDay \/ NextPass
      PROVE  Past' = Past
  <2> SUFFICES ASSUME NEW x \in Wanted PROVE Seen(x)' <=> Seen(x)
    BY <1>2 DEF Past
  <2>1. CASE SkipPrayer
    <3>1. j = 1 /\ type' = type + 1 /\ UNCHANGED <<pass, day_delta, j>>
      BY <1>3, <2>1 DEF SkipPrayer, CountersOK
    <3>2. ~(x.src = day + day_delta /\ x.prayer = type)
      BY <1>5, <2>1 DEF SkipPrayer
    <3> QED BY <1>4, <1>a, <3>1, <3>2 DEF Seen
  <2>2. CASE RemindersDone
    <3>1. /\ pass = 1 /\ type' = type + 1 /\ j' = 1 /\ UNCHANGED <<pass, day_delta>>
          /\ ~(j <= Len(Reminders[prefs][type]))
      BY <1>4, <2>2 DEF RemindersDone, Filling, ExactPass
    <3>2. x.src = day + day_delta /\ x.prayer = type => x.slot < j
      <4>1. Len(Reminders[prefs][type]) \in 0..MaxReminders
        BY <1>3, <2>2, RemindersLen DEF RemindersDone, Filling
      <4>2. x.src = day + day_delta /\ x.prayer = type => x.slot <= Len(Reminders[prefs][type])
        BY <1>5
      <4> QED BY <1>4, <1>a, <3>1, <4>1, <4>2, SizesAssumption
    <3> QED BY <1>4, <1>a, <3>1, <3>2 DEF Seen
  <2>3. CASE NextDay
    <3>1. j = 1 /\ day_delta' = day_delta + 1 /\ type' = 1 /\ UNCHANGED <<pass, j>> /\ type > PRAYER_COUNT
      BY <1>3, <1>4, <2>3 DEF NextDay, CountersOK
    <3> QED BY <1>4, <1>a, <3>1 DEF Seen
  <2>4. CASE NextPass
    <3>1. /\ j = 1 /\ type = 1 /\ day_delta = 2 /\ pass' = pass + 1 /\ day_delta' = -1
          /\ UNCHANGED <<type, j>>
      BY <1>3, <1>4, <2>4 DEF NextPass, CountersOK
    <3> QED BY <1>4, <1>a, <3>1 DEF Seen
  <2> QED BY <1>6, <2>1, <2>2, <2>3, <2>4
<1>7. ASSUME AddExact
      PROVE  Past' = Past \cup {x \in {Entry(prefs, location, day, <<day + day_delta, type, 0>>)} :
                                  x \in Wanted}
  <2>1. pass = 0 /\ type' = type + 1 /\ UNCHANGED <<pass, day_delta, j>>
    BY <1>7 DEF AddExact, ExactPass
  <2>2. PICK e : e = Entry(prefs, location, day, <<day + day_delta, type, 0>>)
    OBVIOUS
  <2>3. e.src = day + day_delta /\ e.prayer = type /\ e.slot = 0
    BY <2>2 DEF Entry
  <2>4. ASSUME NEW x \in Wanted PROVE Seen(x)' <=> Seen(x) \/ x = e
    <3>1. Seen(x)' <=> Seen(x) \/ (x.src = day + day_delta /\ x.prayer = type /\ x.slot = 0)
      BY <1>4, <1>a, <2>1 DEF Seen
    <3>2. x.src = day + day_delta /\ x.prayer = type /\ x.slot = 0 => x = e
      BY <1>5, <2>2
    <3> QED BY <2>3, <3>1, <3>2
  <2> QED BY <1>2, <2>2, <2>4 DEF Past
<1>8. ASSUME AddReminder
      PROVE  Past' = Past \cup {x \in {Entry(prefs, location, day, <<day + day_delta, type, j>>)} :
                                  x \in Wanted}
  <2>1. pass = 1 /\ j' = j + 1 /\ UNCHANGED <<pass, day_delta, type>>
    BY <1>4, <1>8 DEF AddReminder, Filling, ExactPass
  <2>2. PICK e : e = Entry(prefs, location, day, <<day + day_delta, type, j>>)
    OBVIOUS
  <2>3. e.src = day + day_delta /\ e.prayer = type /\ e.slot = j
    BY <2>2 DEF Entry
  <2>4. ASSUME NEW x \in Wanted PROVE Seen(x)' <=> Seen(x) \/ x = e
    <3>1. Seen(x)' <=> Seen(x) \/ (x.src = day + day_delta /\ x.prayer = type /\ x.slot = j)
      BY <1>4, <1>a, <2>1 DEF Seen
    <3>2. x.src = day + day_delta /\ x.prayer = type /\ x.slot = j => x = e
      BY <1>5, <2>2
    <3> QED BY <2>3, <3>1, <3>2
  <2> QED BY <1>2, <2>2, <2>4 DEF Past
<1> QED BY <1>2, <1>6, <1>7, <1>8

-----------------------------------------------------------------------------
LEMMA Starts == Init => IInv
<1> SUFFICES ASSUME Init PROVE IInv
  OBVIOUS
<1>1. PRAYER_COUNT \in Nat
  BY FS_CardinalityType, PrayersAssumption DEF PRAYER_COUNT
<1>2. arr = <<>> /\ Len(arr) = 0 /\ DOMAIN arr = {} /\ fired = <<>>
  BY DEF Init
<1>3. TypeOK
  BY <1>1, <1>2, SizesAssumption DEF Init, TypeOK
<1>4. Past = {}
  <2> SUFFICES ASSUME NEW x \in Wanted PROVE ~Seen(x)
    BY DEF Past
  <2>1. /\ x.src \in (day - 1)..(day + 1) /\ x.prayer \in 1..PRAYER_COUNT
        /\ x.slot \in 0..MaxReminders /\ Pass(x) = (IF x.slot = 0 THEN 0 ELSE 1)
    BY <1>3, WantedParts
  <2>2. day \in Int /\ pass = 0 /\ day_delta = -1 /\ type = 1
    BY SizesAssumption DEF Init
  <2> QED BY <1>1, <2>1, <2>2, SizesAssumption DEF Seen
<1>5. Holds(arr, Past)
  BY <1>2, <1>4 DEF Holds
<1> QED BY <1>3, <1>5 DEF Init, IInv, FillInv, CountersOK, TrimInv, BuiltInv, WalkInv

LEMMA FillKeeps == IInv /\ Fill => IInv'
<1> SUFFICES ASSUME IInv, Fill PROVE IInv'
  OBVIOUS
<1>1. /\ TypeOK /\ CountersOK /\ stage = "fill" /\ i = 1 /\ fired = <<>> /\ Holds(arr, Past)
  BY DEF Fill, SkipPrayer, AddExact, AddReminder, RemindersDone, NextDay, NextPass, Filling,
         IInv, FillInv
<1>2. UNCHANGED <<inputs, stage, cur, i, fired>>
  BY DEF Fill, SkipPrayer, AddExact, AddReminder, RemindersDone, NextDay, NextPass
<1>3. /\ PRAYER_COUNT \in Nat /\ MaxReminders \in Nat
      /\ pass \in 0..2 /\ day_delta \in -1..2 /\ type \in Nat \ {0} /\ j \in 1..(MaxReminders + 1)
  <2>1. PRAYER_COUNT \in Nat
    BY FS_CardinalityType, PrayersAssumption DEF PRAYER_COUNT
  <2> QED BY <1>1, <2>1, SizesAssumption DEF TypeOK
<1>4. Past \in SUBSET Trigger
  BY <1>1, WantedParts DEF Past
<1>5. /\ arr' \in Seq(Trigger) /\ Len(arr') <= MaxTriggers /\ Holds(arr', Past')
  <2>1. CASE SkipPrayer \/ RemindersDone \/ NextDay \/ NextPass
    <3>1. arr' = arr
      BY <2>1 DEF SkipPrayer, RemindersDone, NextDay, NextPass
    <3>2. Past' = Past
      BY <1>1, <2>1, PastNext
    <3> QED BY <1>1, <3>1, <3>2 DEF TypeOK
  <2>2. CASE AddExact
    <3>1. PICK e : e = Entry(prefs, location, day, <<day + day_delta, type, 0>>)
      OBVIOUS
    <3>2. Filling /\ Occurs /\ pass = 0 /\ arr' = Add(arr, e)
      BY <2>2, <3>1 DEF AddExact, ExactPass
    <3>3. 0 \in 0..MaxReminders /\ 0 <= Len(Reminders[prefs][type])
      BY <1>1, <1>3, <3>2, RemindersLen DEF Filling
    <3>4. /\ e \in Wanted => e \in Trigger
          /\ e \in Wanted <=> e.minute \in 0..(DayLen - 1) /\ e.minute >= built - CatchupMax
          /\ \A x \in Past : InsertedBefore(x, e)
      BY <1>1, <3>1, <3>2, <3>3, VisitedNow
    <3>5. Past' = Past \cup {x \in {e} : x \in Wanted}
      BY <1>1, <2>2, <3>1, PastNext
    <3>6. Past' = Past \cup {x \in {e} : e \in Wanted}
      BY <3>5
    <3>7. arr \in Seq(Trigger) /\ Len(arr) <= MaxTriggers
      BY <1>1 DEF TypeOK
    <3>8. /\ arr' \in Seq(Trigger) /\ Len(arr') <= MaxTriggers
          /\ Holds(arr', Past \cup {x \in {e} : e \in Wanted})
      BY <1>1, <1>4, <3>2, <3>4, <3>7, AddStep
    <3> QED BY <3>6, <3>8
  <2>3. CASE AddReminder
    <3>1. PICK e : e = Entry(prefs, location, day, <<day + day_delta, type, j>>)
      OBVIOUS
    <3>2. /\ Filling /\ Occurs /\ pass = 1 /\ arr' = Add(arr, e)
          /\ j <= Len(Reminders[prefs][type])
      BY <1>3, <2>3, <3>1 DEF AddReminder, ExactPass, Filling
    <3>3. j \in 0..MaxReminders
      BY <1>1, <1>3, <3>2, RemindersLen DEF Filling
    <3>4. /\ e \in Wanted => e \in Trigger
          /\ e \in Wanted <=> e.minute \in 0..(DayLen - 1) /\ e.minute >= built - CatchupMax
          /\ \A x \in Past : InsertedBefore(x, e)
      BY <1>1, <3>1, <3>2, <3>3, VisitedNow
    <3>5. Past' = Past \cup {x \in {e} : x \in Wanted}
      BY <1>1, <2>3, <3>1, PastNext
    <3>6. Past' = Past \cup {x \in {e} : e \in Wanted}
      BY <3>5
    <3>7. arr \in Seq(Trigger) /\ Len(arr) <= MaxTriggers
      BY <1>1 DEF TypeOK
    <3>8. /\ arr' \in Seq(Trigger) /\ Len(arr') <= MaxTriggers
          /\ Holds(arr', Past \cup {x \in {e} : e \in Wanted})
      BY <1>1, <1>4, <3>2, <3>4, <3>7, AddStep
    <3> QED BY <3>6, <3>8
  <2> QED BY <2>1, <2>2, <2>3 DEF Fill
<1>6. /\ pass' \in 0..2 /\ day_delta' \in -1..2
      /\ type' \in 1..(PRAYER_COUNT + 1) /\ j' \in 1..(MaxReminders + 1)
      /\ CountersOK'
  <2>1. CASE SkipPrayer
    <3>1. /\ type' = type + 1 /\ UNCHANGED <<pass, day_delta, j>> /\ j = 1 /\ type <= PRAYER_COUNT
          /\ day_delta # 2
      BY <1>1, <1>3, <2>1 DEF SkipPrayer, Filling, CountersOK
    <3> QED BY <1>3, <3>1 DEF CountersOK
  <2>2. CASE AddExact
    <3>1. /\ type' = type + 1 /\ UNCHANGED <<pass, day_delta, j>> /\ j = 1 /\ type <= PRAYER_COUNT
          /\ day_delta # 2
      BY <1>1, <1>3, <2>2 DEF AddExact, ExactPass, Filling, CountersOK
    <3> QED BY <1>3, <3>1 DEF CountersOK
  <2>3. CASE AddReminder
    <3>1. /\ j' = j + 1 /\ UNCHANGED <<pass, day_delta, type>> /\ type <= PRAYER_COUNT
          /\ day_delta <= 1 /\ pass = 1 /\ Occurs /\ j <= Len(Reminders[prefs][type])
      BY <1>3, <2>3 DEF AddReminder, ExactPass, Filling
    <3>2. Occurs'
      BY <1>2, <3>1 DEF Occurs, inputs
    <3>3. Len(Reminders[prefs][type]) \in 0..MaxReminders
      BY <1>1, <3>1, RemindersLen
    <3> QED BY <1>3, <3>1, <3>2, <3>3 DEF CountersOK
  <2>4. CASE RemindersDone
    <3>1. /\ type' = type + 1 /\ UNCHANGED <<pass, day_delta>> /\ j' = 1 /\ type <= PRAYER_COUNT
          /\ day_delta # 2
      BY <1>3, <2>4 DEF RemindersDone, Filling
    <3> QED BY <1>3, <3>1 DEF CountersOK
  <2>5. CASE NextDay
    <3>1. /\ type' = 1 /\ day_delta' = day_delta + 1 /\ UNCHANGED <<pass, j>> /\ j = 1
          /\ day_delta <= 1
      BY <1>1, <1>3, <2>5 DEF NextDay, CountersOK
    <3> QED BY <1>3, <3>1 DEF CountersOK
  <2>6. CASE NextPass
    <3>1. /\ pass' = pass + 1 /\ pass < 2 /\ day_delta' = -1 /\ UNCHANGED <<type, j>>
          /\ j = 1 /\ type = 1
      BY <1>1, <1>3, <2>6 DEF NextPass, CountersOK
    <3> QED BY <1>3, <3>1 DEF CountersOK
  <2> QED BY <2>1, <2>2, <2>3, <2>4, <2>5, <2>6 DEF Fill
<1>7. TypeOK'
  <2>1. /\ (prefs \in Prefs /\ location \in Locations /\ day \in 0..LastDay
           /\ built \in 0..(DayLen - 1) /\ cur \in built..(DayLen - 1) /\ refreshed \in BOOLEAN
           /\ stage \in {"fill", "trim", "built", "walk"})'
    BY <1>1, <1>2 DEF TypeOK, inputs
  <2>2. i' \in 1..(Len(arr') + 1) /\ fired' \in Seq(Trigger)
    BY <1>1, <1>2, <1>5
  <2>3. PRAYER_COUNT' = PRAYER_COUNT
    BY DEF PRAYER_COUNT
  <2> QED BY <1>5, <1>6, <2>1, <2>2, <2>3 DEF TypeOK
<1> QED BY <1>1, <1>2, <1>5, <1>6, <1>7 DEF IInv, FillInv, TrimInv, BuiltInv, WalkInv

LEMMA SortKeeps == IInv /\ SortArray => IInv'
<1> SUFFICES ASSUME IInv, SortArray PROVE IInv'
  OBVIOUS
<1>1. /\ TypeOK /\ stage = "fill" /\ pass = 2 /\ i = 1 /\ fired = <<>> /\ Holds(arr, Past)
      /\ stage' = "trim" /\ UNCHANGED <<inputs, counters, cur, i, fired>>
  BY DEF SortArray, IInv, FillInv
<1>2. /\ arr \in Seq(Trigger) /\ Len(arr) \in Nat /\ Len(arr) <= MaxTriggers
      /\ DOMAIN arr = 1..Len(arr) /\ \A n \in 1..Len(arr) : arr[n] \in Trigger
  BY <1>1 DEF TypeOK
<1>3. PICK order \in Bijection(1..Len(arr), 1..Len(arr)) :
        arr' = [n \in 1..Len(arr) |-> arr[order[n]]] /\ Sorted(arr')
  BY <1>2 DEF SortArray
<1>4. /\ order \in [1..Len(arr) -> 1..Len(arr)]
      /\ \A w \in 1..Len(arr) : \E v \in 1..Len(arr) : order[v] = w
      /\ \A v, w \in 1..Len(arr) : order[v] = order[w] => v = w
  BY DEF Bijection, Injection, Surjection, IsInjective
<1>5. /\ arr' \in Seq(Trigger) /\ Len(arr') = Len(arr) /\ DOMAIN arr' = 1..Len(arr)
      /\ \A n \in 1..Len(arr) : arr'[n] = arr[order[n]]
  <2>1. arr' \in [1..Len(arr) -> Trigger]
    BY <1>2, <1>3, <1>4
  <2> QED BY <1>2, <1>3, <2>1
<1>6. Past = Wanted
  <2>1. ASSUME NEW x \in Wanted PROVE Seen(x)
    <3>1. Pass(x) < pass
      BY <1>1 DEF Pass
    <3> QED BY <3>1 DEF Seen
  <2> QED BY <2>1 DEF Past
<1>7. ToSet(arr) = BuildTriggers(prefs, location, day, built) /\ IsInjective(arr)
  BY <1>1, <1>6, FilledIsBuilt
<1>8. ToSet(arr') = ToSet(arr)
  <2>1. ToSet(arr') \subseteq ToSet(arr)
    BY <1>2, <1>4, <1>5 DEF ToSet
  <2>2. ASSUME NEW w \in 1..Len(arr) PROVE arr[w] \in ToSet(arr')
    <3>1. PICK v \in 1..Len(arr) : order[v] = w
      BY <1>4
    <3>2. arr'[v] = arr[w] /\ v \in DOMAIN arr'
      BY <1>5, <3>1
    <3> QED BY <3>2 DEF ToSet
  <2> QED BY <1>2, <2>1, <2>2 DEF ToSet
<1>9. IsInjective(arr')
  <2> SUFFICES ASSUME NEW v \in 1..Len(arr), NEW w \in 1..Len(arr), arr'[v] = arr'[w]
               PROVE  v = w
    BY <1>5 DEF IsInjective
  <2>1. order[v] \in 1..Len(arr) /\ order[w] \in 1..Len(arr) /\ arr[order[v]] = arr[order[w]]
    BY <1>4, <1>5
  <2>2. order[v] = order[w]
    BY <1>2, <1>7, <2>1 DEF IsInjective
  <2> QED BY <1>4, <2>2
<1>10. TypeOK'
  BY <1>1, <1>2, <1>5 DEF TypeOK, inputs, counters, PRAYER_COUNT
<1>11. TrimInv'
  <2>1. UNCHANGED BuildTriggers(prefs, location, day, built)
    BY <1>1 DEF inputs
  <2>2. \A n \in DOMAIN arr' : arr'[n] \in BuildTriggers(prefs, location, day, built)
    BY <1>7, <1>8 DEF ToSet
  <2>3. \A n \in DOMAIN arr' : ~(n < i')
    BY <1>1, <1>5
  <2> QED BY <1>1, <1>3, <1>7, <1>8, <1>9, <2>1, <2>2, <2>3 DEF TrimInv
<1> QED BY <1>1, <1>10, <1>11 DEF IInv, FillInv, BuiltInv, WalkInv

LEMMA TrimKeepsInv == IInv /\ Trim => IInv'
<1> SUFFICES ASSUME IInv, Trim PROVE IInv'
  OBVIOUS
<1> DEFINE B == BuildTriggers(prefs, location, day, built)
<1>1. /\ TypeOK /\ stage = "trim" /\ Sorted(arr) /\ IsInjective(arr) /\ fired = <<>>
      /\ \A n \in DOMAIN arr : arr[n] \in B
      /\ \A t \in B : t \in ToSet(arr) \/ Over(t)
      /\ \A n \in DOMAIN arr : n < i => ~Over(arr[n])
      /\ UNCHANGED <<inputs, counters, cur, fired>>
  BY DEF Trim, TrimRemoves, TrimKeeps, TrimEnds, IInv, TrimInv
<1>2. /\ arr \in Seq(Trigger) /\ Len(arr) \in Nat /\ Len(arr) <= MaxTriggers
      /\ DOMAIN arr = 1..Len(arr) /\ i \in 1..(Len(arr) + 1)
  BY <1>1 DEF TypeOK
<1>3. UNCHANGED B /\ \A t : Over(t)' <=> Over(t)
  BY <1>1 DEF inputs, Over
<1>4. CASE TrimRemoves
  <2>1. /\ i \in 1..Len(arr) /\ Over(arr[i]) /\ arr' = RemoveAt(arr, i)
        /\ i' = i /\ stage' = "trim"
    BY <1>1, <1>2, <1>4 DEF TrimRemoves
  <2>2. /\ \A n \in DOMAIN arr' : \E m \in DOMAIN arr : m # i /\ arr'[n] = arr[m]
        /\ \A m \in DOMAIN arr : m = i \/ \E n \in DOMAIN arr' : arr'[n] = arr[m]
        /\ \A n \in DOMAIN arr' : n < i => arr'[n] = arr[n]
        /\ IsInjective(arr') /\ Sorted(arr')
        /\ arr' \in Seq(Trigger) /\ Len(arr') = Len(arr) - 1 /\ DOMAIN arr' = 1..Len(arr')
    <3>1. IsInjective(arr) /\ Sorted(arr)
      BY <1>1
    <3>2. arr \in Seq(Trigger) /\ i \in 1..Len(arr) /\ arr' = RemoveAt(arr, i)
      BY <1>2, <2>1
    <3> QED BY <3>1, <3>2, ArrayRemoved
  <2>4. TypeOK'
    <3>1. i' \in 1..(Len(arr') + 1) /\ Len(arr') <= MaxTriggers
      BY <1>2, <2>1, <2>2, SizesAssumption
    <3> QED BY <1>1, <2>1, <2>2, <3>1 DEF TypeOK, inputs, counters, PRAYER_COUNT
  <2>5. \A n \in DOMAIN arr' : arr'[n] \in B
    BY <1>1, <2>2
  <2>6. \A t \in B : t \in ToSet(arr') \/ Over(t)
    <3> SUFFICES ASSUME NEW t \in B, ~Over(t) PROVE t \in ToSet(arr')
      OBVIOUS
    <3>1. PICK m \in DOMAIN arr : t = arr[m]
      BY <1>1 DEF ToSet
    <3>2. m # i
      BY <2>1, <3>1
    <3> QED BY <2>2, <3>1, <3>2 DEF ToSet
  <2>7. \A n \in DOMAIN arr' : n < i' => ~Over(arr'[n])
    BY <1>1, <1>2, <2>1, <2>2
  <2>8. TrimInv'
    BY <1>1, <1>3, <2>2, <2>5, <2>6, <2>7 DEF TrimInv
  <2> QED BY <2>1, <2>4, <2>8 DEF IInv, FillInv, BuiltInv, WalkInv
<1>5. CASE TrimKeeps
  <2>1. i <= Len(arr) /\ ~Over(arr[i]) /\ i' = i + 1 /\ arr' = arr /\ stage' = "trim"
    BY <1>1, <1>5 DEF TrimKeeps
  <2>2. TypeOK'
    BY <1>1, <1>2, <2>1 DEF TypeOK, inputs, counters, PRAYER_COUNT
  <2>3. \A n \in DOMAIN arr : n < i' => n < i \/ n = i
    BY <1>2, <2>1
  <2>4. TrimInv'
    BY <1>1, <1>3, <2>1, <2>3 DEF TrimInv
  <2> QED BY <2>1, <2>2, <2>4 DEF IInv, FillInv, BuiltInv, WalkInv
<1>6. CASE TrimEnds
  <2>1. i > Len(arr) /\ arr' = arr /\ i' = i /\ stage' = "built"
    BY <1>1, <1>6 DEF TrimEnds
  <2>2. TypeOK'
    BY <1>1, <2>1 DEF TypeOK, inputs, counters, PRAYER_COUNT
  <2>3. \A n \in DOMAIN arr : ~Over(arr[n])
    BY <1>1, <1>2, <2>1
  <2>4. ToSet(arr) = List
    <3>1. ToSet(arr) \subseteq List
      BY <1>1, <2>3 DEF ToSet, List
    <3>2. List \subseteq ToSet(arr)
      BY <1>1 DEF List
    <3> QED BY <3>1, <3>2
  <2>5. List' = List
    BY <1>3 DEF List
  <2>6. BuiltInv'
    BY <1>1, <2>1, <2>4, <2>5 DEF BuiltInv
  <2> QED BY <2>1, <2>2, <2>6 DEF IInv, FillInv, TrimInv, WalkInv
<1> QED BY <1>4, <1>5, <1>6 DEF Trim

\* The classes of a trigger, and what numbers they compare.
LEMMA Classes ==
  ASSUME TypeOK, NEW t \in Trigger
  PROVE  /\ t.minute \in Int /\ cur \in Int
         /\ CatchupAction(t, cur) \in {"KEEP", "FIRE", "DROP"}
         /\ CatchupAction(t, cur) = "KEEP" <=> t.minute > cur
<1>1. t.minute \in Int /\ cur \in Int
  BY SizesAssumption DEF Trigger, TypeOK
<1> QED BY <1>1 DEF CatchupAction

LEMMA ListIsTyped ==
  ASSUME TypeOK
  PROVE  List \subseteq Trigger
<1>1. prefs \in Prefs /\ location \in Locations /\ day \in 0..LastDay
  BY DEF TypeOK
<1> QED BY <1>1, BuiltIsScheduled, ScheduledType DEF List

LEMMA BeginKeepsInv == IInv /\ BeginWalk => IInv'
<1> SUFFICES ASSUME IInv, BeginWalk PROVE IInv'
  OBVIOUS
<1>1. /\ TypeOK /\ stage' = "walk" /\ i' = 1 /\ cur' \in built..(DayLen - 1)
      /\ UNCHANGED <<inputs, counters, arr, fired>>
      /\ Sorted(arr) /\ fired = <<>> /\ ToSet(arr) = List
  BY DEF BeginWalk, IInv, BuiltInv
<1>2. Len(arr) \in Nat /\ DOMAIN arr = 1..Len(arr)
  BY <1>1 DEF TypeOK
<1>3. TypeOK'
  BY <1>1, <1>2 DEF TypeOK, inputs, counters, PRAYER_COUNT
<1>4. List' = List
  BY <1>1 DEF List, Over, inputs
<1>5. WalkInv'
  <2>1. \A n \in DOMAIN arr : arr[n] \in List
    BY <1>1 DEF ToSet
  <2>2. \A n \in DOMAIN arr : ~(n < i')
    BY <1>1, <1>2
  <2>3. fired' = <<>> /\ DOMAIN fired' = {} /\ Sorted(fired')
    BY <1>1 DEF Sorted
  <2> QED BY <1>1, <1>4, <2>1, <2>2, <2>3 DEF WalkInv
<1> QED BY <1>1, <1>3, <1>5 DEF IInv, FillInv, TrimInv, BuiltInv

\* What Fire and Drop share: the entry at the index is taken out.
LEMMA TakenOut ==
  ASSUME IInv, stage = "walk", i <= Len(arr), arr' = RemoveAt(arr, i),
         UNCHANGED <<inputs, stage, counters, cur, i>>
  PROVE  /\ i \in DOMAIN arr /\ arr[i] \in List /\ arr[i] \in Trigger
         /\ List' = List /\ Sorted(arr')
         /\ arr' \in Seq(Trigger) /\ Len(arr') <= MaxTriggers /\ i' \in 1..(Len(arr') + 1)
         /\ \A n \in DOMAIN arr' : arr'[n] \in ToSet(arr)
         /\ \A n \in DOMAIN arr' : n < i => CatchupAction(arr'[n], cur) = "KEEP"
         /\ \A n \in DOMAIN arr' : \E m \in DOMAIN arr : m # i /\ arr'[n] = arr[m]
         /\ \A t \in ToSet(arr) : t = arr[i] \/ t \in ToSet(arr')
<1>1. /\ TypeOK /\ Sorted(arr) /\ \A n \in DOMAIN arr : arr[n] \in List
      /\ \A n \in DOMAIN arr : n < i => CatchupAction(arr[n], cur) = "KEEP"
  BY DEF IInv, WalkInv
<1>2. /\ arr \in Seq(Trigger) /\ Len(arr) \in Nat /\ Len(arr) <= MaxTriggers
      /\ DOMAIN arr = 1..Len(arr) /\ i \in 1..Len(arr)
  BY <1>1 DEF TypeOK
<1>3. /\ \A n \in DOMAIN arr' : \E m \in DOMAIN arr : m # i /\ arr'[n] = arr[m]
      /\ \A m \in DOMAIN arr : m = i \/ \E n \in DOMAIN arr' : arr'[n] = arr[m]
      /\ \A n \in DOMAIN arr' : n < i => arr'[n] = arr[n]
      /\ Sorted(arr')
      /\ arr' \in Seq(Trigger) /\ Len(arr') = Len(arr) - 1 /\ DOMAIN arr' = 1..Len(arr')
  <2>1. Sorted(arr) /\ arr \in Seq(Trigger) /\ i \in 1..Len(arr)
    BY <1>1, <1>2
  <2> QED BY <2>1, ArrayRemoved
<1>4. i' \in 1..(Len(arr') + 1) /\ Len(arr') <= MaxTriggers
  BY <1>2, <1>3, SizesAssumption
<1>5. List' = List
  BY DEF List, Over, inputs
<1>6. \A n \in DOMAIN arr' : n < i => CatchupAction(arr'[n], cur) = "KEEP"
  BY <1>1, <1>2, <1>3
<1>7. \A n \in DOMAIN arr' : arr'[n] \in ToSet(arr)
  BY <1>3 DEF ToSet
<1>8. \A t \in ToSet(arr) : t = arr[i] \/ t \in ToSet(arr')
  BY <1>3 DEF ToSet
<1>9. arr[i] \in Trigger
  BY <1>2
<1> QED BY <1>1, <1>2, <1>3, <1>4, <1>5, <1>6, <1>7, <1>8, <1>9

LEMMA WalkKeepsInv == IInv /\ (Keep \/ Fire \/ Drop) => IInv'
<1> SUFFICES ASSUME IInv, Keep \/ Fire \/ Drop PROVE IInv'
  OBVIOUS
<1>1. /\ TypeOK /\ stage = "walk" /\ stage' = "walk" /\ i <= Len(arr)
      /\ UNCHANGED <<inputs, counters, cur>>
      /\ Sorted(arr) /\ Sorted(fired)
      /\ \A n \in DOMAIN arr : arr[n] \in List
      /\ \A n \in DOMAIN arr : n < i => CatchupAction(arr[n], cur) = "KEEP"
      /\ \A m \in DOMAIN fired : fired[m] \in List /\ CatchupAction(fired[m], cur) = "FIRE"
      /\ \A m \in DOMAIN fired, n \in DOMAIN arr : fired[m].minute <= arr[n].minute
      /\ \A t \in List : t \in ToSet(arr) \/ t \in ToSet(fired) \/ CatchupAction(t, cur) = "DROP"
  BY DEF Keep, Fire, Drop, IInv, WalkInv
<1>2. /\ arr \in Seq(Trigger) /\ Len(arr) \in Nat /\ Len(arr) <= MaxTriggers
      /\ DOMAIN arr = 1..Len(arr) /\ i \in 1..Len(arr)
      /\ fired \in Seq(Trigger) /\ Len(fired) \in Nat /\ DOMAIN fired = 1..Len(fired)
  BY <1>1 DEF TypeOK
<1>3. SUFFICES TypeOK' /\ WalkInv'
  BY <1>1 DEF IInv, FillInv, TrimInv, BuiltInv
<1>4. CASE Keep
  <2>1. CatchupAction(arr[i], cur) = "KEEP" /\ i' = i + 1 /\ UNCHANGED <<arr, fired>>
    BY <1>4 DEF Keep
  <2>2. TypeOK'
    BY <1>1, <1>2, <2>1 DEF TypeOK, inputs, counters, PRAYER_COUNT
  <2>3. \A n \in DOMAIN arr : n < i' => n < i \/ n = i
    BY <1>2, <2>1
  <2>4. List' = List
    BY <1>1 DEF List, Over, inputs
  <2>5. WalkInv'
    BY <1>1, <2>1, <2>3, <2>4 DEF WalkInv
  <2> QED BY <2>2, <2>5
<1>5. CASE Fire
  <2>1. /\ CatchupAction(arr[i], cur) = "FIRE" /\ arr' = RemoveAt(arr, i)
        /\ fired' = Append(fired, arr[i]) /\ i' = i /\ UNCHANGED <<inputs, stage, counters, cur, i>>
    BY <1>5 DEF Fire
  <2>2. /\ i \in DOMAIN arr /\ arr[i] \in List /\ arr[i] \in Trigger
        /\ List' = List /\ Sorted(arr')
        /\ arr' \in Seq(Trigger) /\ Len(arr') <= MaxTriggers /\ i' \in 1..(Len(arr') + 1)
        /\ \A n \in DOMAIN arr' : arr'[n] \in ToSet(arr)
        /\ \A n \in DOMAIN arr' : n < i => CatchupAction(arr'[n], cur) = "KEEP"
        /\ \A n \in DOMAIN arr' : \E m \in DOMAIN arr : m # i /\ arr'[n] = arr[m]
        /\ \A t \in ToSet(arr) : t = arr[i] \/ t \in ToSet(arr')
    BY <1>1, <2>1, TakenOut
  <2>3. /\ fired' \in Seq(Trigger) /\ DOMAIN fired' = 1..(Len(fired) + 1)
        /\ fired'[Len(fired) + 1] = arr[i] /\ \A n \in 1..Len(fired) : fired'[n] = fired[n]
    BY <1>2, <2>1, <2>2, AppendProperties
  <2>4. \A m \in DOMAIN fired' : m \in DOMAIN fired \/ m = Len(fired) + 1
    BY <1>2, <2>3
  <2>5. TypeOK'
    BY <1>1, <2>1, <2>2, <2>3 DEF TypeOK, inputs, counters, PRAYER_COUNT
  <2>6. Sorted(fired')
    <3> SUFFICES ASSUME NEW m \in DOMAIN fired', NEW n \in DOMAIN fired', m < n
                 PROVE  fired'[m].minute <= fired'[n].minute
      BY DEF Sorted
    <3>1. m \in DOMAIN fired /\ fired'[m] = fired[m]
      BY <1>2, <2>3, <2>4
    <3>2. CASE n \in DOMAIN fired
      BY <1>1, <1>2, <2>3, <3>1, <3>2 DEF Sorted
    <3>3. CASE n = Len(fired) + 1
      BY <1>1, <2>2, <2>3, <3>1, <3>3
    <3> QED BY <2>4, <3>2, <3>3
  <2>7. \A n \in DOMAIN arr : n # i => arr[i].minute <= arr[n].minute
    <3> SUFFICES ASSUME NEW n \in DOMAIN arr, n # i PROVE arr[i].minute <= arr[n].minute
      OBVIOUS
    <3>1. CASE n > i
      BY <1>1, <2>2, <3>1 DEF Sorted
    <3>2. CASE n < i
      <4>1. arr[n] \in Trigger /\ CatchupAction(arr[n], cur) = "KEEP"
        BY <1>1, <1>2, <3>2
      <4>2. arr[n].minute > cur /\ arr[n].minute \in Int /\ cur \in Int
        BY <1>1, <4>1, Classes
      <4>3. arr[i].minute \in Int /\ ~(arr[i].minute > cur)
        BY <1>1, <2>1, <2>2, Classes
      <4> QED BY <4>2, <4>3
    <3> QED BY <1>2, <3>1, <3>2
  <2>8. ASSUME NEW m \in DOMAIN fired', NEW n \in DOMAIN arr'
        PROVE  fired'[m].minute <= arr'[n].minute
    <3>1. PICK q \in DOMAIN arr : q # i /\ arr'[n] = arr[q]
      BY <2>2
    <3>2. CASE m \in DOMAIN fired
      BY <1>1, <1>2, <2>3, <3>1, <3>2
    <3>3. CASE m = Len(fired) + 1
      BY <2>3, <2>7, <3>1, <3>3
    <3> QED BY <2>4, <3>2, <3>3
  <2>9. \A m \in DOMAIN fired' : fired'[m] \in List /\ CatchupAction(fired'[m], cur) = "FIRE"
    BY <1>1, <1>2, <2>1, <2>2, <2>3, <2>4
  <2>10. \A n \in DOMAIN arr' : arr'[n] \in List
    BY <1>1, <2>2
  <2>11. ToSet(fired) \cup {arr[i]} \subseteq ToSet(fired')
    BY <1>2, <2>3 DEF ToSet
  <2>12. \A t \in List : t \in ToSet(arr') \/ t \in ToSet(fired') \/ CatchupAction(t, cur) = "DROP"
    BY <1>1, <2>2, <2>11
  <2>13. WalkInv'
    BY <1>1, <2>1, <2>2, <2>6, <2>8, <2>9, <2>10, <2>12 DEF WalkInv
  <2> QED BY <2>5, <2>13
<1>6. CASE Drop
  <2>1. /\ CatchupAction(arr[i], cur) = "DROP" /\ arr' = RemoveAt(arr, i)
        /\ fired' = fired /\ i' = i /\ UNCHANGED <<inputs, stage, counters, cur, i>>
    BY <1>6 DEF Drop
  <2>2. /\ i \in DOMAIN arr /\ arr[i] \in List /\ arr[i] \in Trigger
        /\ List' = List /\ Sorted(arr')
        /\ arr' \in Seq(Trigger) /\ Len(arr') <= MaxTriggers /\ i' \in 1..(Len(arr') + 1)
        /\ \A n \in DOMAIN arr' : arr'[n] \in ToSet(arr)
        /\ \A n \in DOMAIN arr' : n < i => CatchupAction(arr'[n], cur) = "KEEP"
        /\ \A n \in DOMAIN arr' : \E m \in DOMAIN arr : m # i /\ arr'[n] = arr[m]
        /\ \A t \in ToSet(arr) : t = arr[i] \/ t \in ToSet(arr')
    BY <1>1, <2>1, TakenOut
  <2>3. TypeOK'
    BY <1>1, <2>1, <2>2 DEF TypeOK, inputs, counters, PRAYER_COUNT
  <2>4. \A m \in DOMAIN fired, n \in DOMAIN arr' : fired[m].minute <= arr'[n].minute
    BY <1>1, <2>2
  <2>5. \A n \in DOMAIN arr' : arr'[n] \in List
    BY <1>1, <2>2
  <2>6. \A t \in List : t \in ToSet(arr') \/ t \in ToSet(fired) \/ CatchupAction(t, cur) = "DROP"
    BY <1>1, <2>1, <2>2
  <2>7. WalkInv'
    BY <1>1, <2>1, <2>2, <2>4, <2>5, <2>6 DEF WalkInv
  <2> QED BY <2>3, <2>7
<1> QED BY <1>4, <1>5, <1>6

(***************************************************************************)
(* The inductive invariant.                                                *)
(***************************************************************************)
THEOREM Inductive == Spec => []IInv
<1>1. IInv /\ UNCHANGED vars => IInv'
  BY DEF IInv, TypeOK, FillInv, TrimInv, BuiltInv, WalkInv, CountersOK, Occurs, Holds, Past, Wanted,
         Seen, List, Over, PRAYER_COUNT, vars, inputs, counters
<1>2. IInv /\ [Next]_vars => IInv'
  BY <1>1, FillKeeps, SortKeeps, TrimKeepsInv, BeginKeepsInv, WalkKeepsInv DEF Next, Walk
<1> QED BY Starts, <1>2, PTL DEF Spec

(***************************************************************************)
(* Type correctness: in particular the array never holds more than         *)
(* MAX_TRIGGERS, and no index ever points past its end by more than one.   *)
(***************************************************************************)
THEOREM TypeCorrect == Spec => []TypeOK
<1>1. IInv => TypeOK
  BY DEF IInv
<1> QED BY <1>1, Inductive, PTL

(***************************************************************************)
(* The nested loops of cache_build_triggers, the sort and the trimming     *)
(* after a refresh yield the set that module Triggers describes, sorted    *)
(* and without repetition.                                                 *)
(***************************************************************************)
THEOREM LoopsBuildTheSet == Spec => []BuildAgrees
<1>1. IInv => BuildAgrees
  <2> SUFFICES ASSUME IInv, stage = "built" PROVE ToSet(arr) = List /\ Len(arr) = Cardinality(List) /\ Sorted(arr)
    BY DEF BuildAgrees
  <2>1. Sorted(arr) /\ IsInjective(arr) /\ ToSet(arr) = List /\ arr \in Seq(Trigger)
    BY DEF IInv, BuiltInv, TypeOK
  <2>2. Cardinality(ToSet(arr)) = Len(arr)
    BY <2>1, EntriesCounted
  <2> QED BY <2>1, <2>2
<1> QED BY <1>1, Inductive, PTL

(***************************************************************************)
(* The loop that removes entries from the array it walks skips nothing:    *)
(* it ends with what is still to come, and has announced what was due,     *)
(* oldest first (muslimtify_run_cycle_at).                                 *)
(***************************************************************************)
THEOREM NothingSkipped == Spec => []LoopDisposesOfAllDue
<1>1. IInv => LoopDisposesOfAllDue
  <2> SUFFICES ASSUME IInv, stage = "walk", i > Len(arr)
               PROVE  /\ ToSet(arr) = {t \in List : CatchupAction(t, cur) = "KEEP"}
                      /\ ToSet(fired) = {t \in List : CatchupAction(t, cur) = "FIRE"}
                      /\ Sorted(fired)
    BY DEF LoopDisposesOfAllDue
  <2>1. /\ Sorted(fired) /\ \A n \in DOMAIN arr : arr[n] \in List
        /\ \A n \in DOMAIN arr : n < i => CatchupAction(arr[n], cur) = "KEEP"
        /\ \A m \in DOMAIN fired : fired[m] \in List /\ CatchupAction(fired[m], cur) = "FIRE"
        /\ \A t \in List : t \in ToSet(arr) \/ t \in ToSet(fired) \/ CatchupAction(t, cur) = "DROP"
    BY DEF IInv, WalkInv
  <2>2. \A n \in DOMAIN arr : n < i
    BY DEF IInv, TypeOK
  <2>3. \A t \in ToSet(arr) : t \in List /\ CatchupAction(t, cur) = "KEEP"
    BY <2>1, <2>2 DEF ToSet
  <2>4. \A t \in ToSet(fired) : t \in List /\ CatchupAction(t, cur) = "FIRE"
    BY <2>1 DEF ToSet
  <2> QED BY <2>1, <2>3, <2>4
<1> QED BY <1>1, Inductive, PTL

(***************************************************************************)
(* The capacity of the array costs reminders and never a prayer's time.    *)
(***************************************************************************)
THEOREM CapacityCostsReminders == Spec => []CapacityNeverCostsAdhan
<1>1. IInv => CapacityNeverCostsAdhan
  <2> SUFFICES ASSUME IInv, stage = "walk", NEW e \in Scheduled(prefs, location, day),
                      e.before = 0, e.minute >= built - CatchupMax, ~Over(e),
                      cur - e.minute <= CatchupMax
               PROVE  e \in ToSet(arr) \/ e \in ToSet(fired)
    BY DEF CapacityNeverCostsAdhan
  <2>1. prefs \in Prefs /\ location \in Locations /\ day \in 0..LastDay /\ cur \in Int
    BY SizesAssumption DEF IInv, TypeOK
  <2>2. e \in BuildTriggers(prefs, location, day, built)
    BY <2>1, ExactTimesFit DEF Admitted
  <2>3. e.minute \in Int
    BY SizesAssumption DEF Scheduled
  <2>4. CatchupAction(e, cur) # "DROP"
    BY <2>1, <2>3, SizesAssumption DEF CatchupAction, Overtaken
  <2> QED BY <2>2, <2>4 DEF IInv, WalkInv, List
<1> QED BY <1>1, Inductive, PTL

\* A reminder on the list has its prayer on the list.
LEMMA ItsPrayer ==
  ASSUME TypeOK, NEW r \in List, r.minute + r.before <= cur
  PROVE  \E x \in List : /\ x.prayer = r.prayer /\ x.src = r.src /\ x.before = 0
                         /\ x.minute = r.minute + r.before
<1>1. /\ prefs \in Prefs /\ location \in Locations /\ day \in 0..LastDay
      /\ built \in Int /\ cur \in 0..(DayLen - 1) /\ DayLen \in Nat \ {0} /\ CatchupMax \in Nat
  BY SizesAssumption DEF TypeOK
<1>2. r \in Admitted(prefs, location, day, built) /\ ~Over(r)
  BY DEF List, BuildTriggers
<1>3. r \in Scheduled(prefs, location, day) /\ r.minute >= built - CatchupMax
  BY <1>2 DEF Admitted
<1>4. r \in Trigger
  BY <1>1, <1>3, ScheduledType
<1>5. r.minute \in 0..(DayLen - 1) /\ r.before \in 0..DayLen
  BY <1>4 DEF Trigger
<1> DEFINE k == <<r.src, r.prayer, r.slot>>
           h == <<r.src, r.prayer, 0>>
           x == Entry(prefs, location, day, h)
<1>6. r = Entry(prefs, location, day, k) /\ k \in Visited(prefs, location, day)
  BY <1>1, <1>3, EntryOfKey
<1>7. h \in Visited(prefs, location, day)
  <2>1. /\ k[1] = h[1] /\ k[2] = h[2] /\ h[3] = 0
        /\ h = <<h[1], h[2], 0>>
    OBVIOUS
  <2> HIDE DEF h, k
  <2>2. /\ k[1] \in (day - 1)..(day + 1) /\ k[2] \in Prayers
        /\ k[2] \in Enabled[prefs] \cap DOMAIN PrayerMinute[prefs][location][k[1]]
    BY <1>1, <1>6, VisitedParts DEF Visited
  <2>3. 0 \in 0..MaxReminders /\ 0 <= Len(Reminders[prefs][k[2]])
    BY <1>1, <2>2, RemindersAssumption, SizesAssumption
  <2>4. h \in ((day - 1)..(day + 1)) \X Prayers \X (0..MaxReminders)
    BY <2>1, <2>2, <2>3
  <2> QED BY <2>1, <2>2, <2>3, <2>4 DEF Visited
<1>8. PICK u : u = InstantMin(prefs, location, day, r.src, r.prayer)
  OBVIOUS
<1>9. u \in Int
  <2>1. /\ k[1] \in SourceDays /\ k[2] \in Prayers /\ k[2] \in DOMAIN PrayerMinute[prefs][location][k[1]]
    BY <1>1, <1>6, VisitedParts
  <2>2. r.src \in SourceDays /\ r.prayer \in DOMAIN PrayerMinute[prefs][location][r.src]
    BY <2>1
  <2>3. PrayerMinute[prefs][location][r.src][r.prayer] \in (-DayLen)..(2 * DayLen - 1)
    BY <1>1, <2>2, TimesAssumption
  <2>4. r.src \in Int /\ day \in Int
    BY <1>1, <2>2, SizesAssumption DEF SourceDays
  <2>5. DayLen * (r.src - day) \in Int
    BY <1>1, <2>4
  <2> QED BY <1>1, <1>8, <2>3, <2>5 DEF InstantMin
<1>10. r.minute = u - r.before
  <2>1. r.minute = InstantMin(prefs, location, day, k[1], k[2]) - r.before
    BY <1>6 DEF Entry
  <2> QED BY <1>8, <2>1
<1>11. /\ x.prayer = r.prayer /\ x.src = r.src /\ x.before = 0 /\ x.minute = u - 0
  BY <1>8 DEF Entry, Before
<1> HIDE DEF x, h, k
<1>12. x.minute = r.minute + r.before
  BY <1>5, <1>9, <1>10, <1>11
<1>13. x.minute \in 0..(DayLen - 1)
  BY <1>1, <1>5, <1>12
<1>14. x \in Scheduled(prefs, location, day)
  BY <1>7, <1>13 DEF Scheduled, x
<1>15. x \in Admitted(prefs, location, day, built)
  BY <1>1, <1>3, <1>5, <1>12, <1>14 DEF Admitted
<1>16. x \in BuildTriggers(prefs, location, day, built)
  BY <1>1, <1>11, <1>15, ExactTimesFit
<1>17. ~Over(x)
  BY <1>1, <1>2, <1>5, <1>12 DEF Over
<1> QED BY <1>11, <1>12, <1>16, <1>17 DEF List

(***************************************************************************)
(* A late reminder is given up only when its prayer is announced in the    *)
(* same cycle (check_cycle.c, "This never loses a real catch-up").         *)
(***************************************************************************)
THEOREM LateReminderLosesNothing == Spec => []OvertakenReminderHasItsPrayer
<1>1. IInv => OvertakenReminderHasItsPrayer
  <2> SUFFICES ASSUME IInv, stage = "walk", i > Len(arr), NEW r \in List,
                      Overtaken(r, cur), cur - r.minute <= CatchupMax
               PROVE  \E n \in DOMAIN fired :
                        fired[n].prayer = r.prayer /\ fired[n].src = r.src /\ fired[n].before = 0
    BY DEF OvertakenReminderHasItsPrayer
  <2>1. TypeOK /\ r.before > 0 /\ r.minute + r.before <= cur
    BY DEF IInv, Overtaken
  <2>2. PICK x \in List : /\ x.prayer = r.prayer /\ x.src = r.src /\ x.before = 0
                         /\ x.minute = r.minute + r.before
    BY <2>1, ItsPrayer
  <2>3. /\ cur \in Int /\ CatchupMax \in Nat /\ r.minute \in Int /\ r.before \in Int
    BY <2>1, ListIsTyped, SizesAssumption DEF Trigger, TypeOK
  <2>4. CatchupAction(x, cur) = "FIRE"
    <3>1. ~(x.minute > cur) /\ ~(cur - x.minute > CatchupMax)
      BY <2>1, <2>2, <2>3
    <3> QED BY <2>2, <3>1 DEF CatchupAction, Overtaken
  <2>5. x \notin ToSet(arr)
    <3> SUFFICES ASSUME NEW n \in DOMAIN arr, x = arr[n] PROVE FALSE
      BY DEF ToSet
    <3>1. n < i
      BY <2>1 DEF TypeOK
    <3>2. CatchupAction(x, cur) = "KEEP"
      BY <3>1 DEF IInv, WalkInv
    <3> QED BY <2>4, <3>2
  <2>6. x \in ToSet(fired)
    BY <2>4, <2>5 DEF IInv, WalkInv
  <2> QED BY <2>2, <2>6 DEF ToSet
<1> QED BY <1>1, Inductive, PTL

(***************************************************************************)
(* Every occurrence of a prayer has its announcement on the list of one    *)
(* day, however prayer times run over midnight.                            *)
(***************************************************************************)
THEOREM OncePerOccurrence == Spec => []ScheduledOnce
<1>1. TypeOK => ScheduledOnce
  <2> SUFFICES ASSUME TypeOK, NEW s \in 0..LastDay,
                      NEW p \in Enabled[prefs] \cap DOMAIN PrayerMinute[prefs][location][s]
               PROVE  LET On(d) == \E e \in BuildTriggers(prefs, location, d, 0) :
                                     e.src = s /\ e.prayer = p /\ e.slot = 0
                          Days == {d \in 0..LastDay : On(d)}
                      IN /\ Cardinality(Days) <= 1
                         /\ InstantMin(prefs, location, 0, s, p) \in 0..(DayLen * (LastDay + 1) - 1)
                              => Days # {}
    BY DEF ScheduledOnce
  <2> DEFINE On(d) == \E e \in BuildTriggers(prefs, location, d, 0) :
                        e.src = s /\ e.prayer = p /\ e.slot = 0
             Days == {d \in 0..LastDay : On(d)}
  <2>1. prefs \in Prefs /\ location \in Locations
    BY DEF TypeOK
  <2>2. ASSUME NEW c \in Days, NEW d \in Days PROVE c = d
    <3>1. PICK x \in Scheduled(prefs, location, c) : x.src = s /\ x.prayer = p /\ x.slot = 0
      BY BuiltIsScheduled
    <3>2. PICK y \in Scheduled(prefs, location, d) : y.src = s /\ y.prayer = p /\ y.slot = 0
      BY BuiltIsScheduled
    <3>3. c \in 0..LastDay /\ d \in 0..LastDay
      OBVIOUS
    <3>4. x.before = 0 /\ y.before = 0
      BY <2>1, <3>1, <3>2, <3>3, ExactSlot
    <3>5. x.src = y.src /\ x.prayer = y.prayer
      BY <3>1, <3>2
    <3> QED BY <2>1, <3>3, <3>4, <3>5, OnOneDay
  <2>3. ASSUME InstantMin(prefs, location, 0, s, p) \in 0..(DayLen * (LastDay + 1) - 1)
        PROVE  Days # {}
    <3>1. PICK d \in 0..LastDay : \E e \in BuildTriggers(prefs, location, d, 0) :
                                     e.src = s /\ e.prayer = p /\ e.slot = 0
      BY <2>1, <2>3, OnSomeDay
    <3> QED BY <3>1
  <2> HIDE DEF Days
  <2>4. Cardinality(Days) <= 1
    <3>1. CASE Days = {}
      BY <3>1, FS_EmptySet
    <3>2. CASE Days # {}
      <4>1. PICK c \in Days : TRUE
        BY <3>2
      <4>2. Days = {c}
        BY <2>2, <4>1
      <4>3. Cardinality({c}) = 1
        BY FS_Singleton
      <4> QED BY <4>2, <4>3
    <3> QED BY <3>1, <3>2
  <2> QED BY <2>3, <2>4 DEF Days
<1> QED BY <1>1, TypeCorrect, PTL
=============================================================================
