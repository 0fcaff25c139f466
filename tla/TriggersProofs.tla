--------------------------- MODULE TriggersProofs ---------------------------
(***************************************************************************)
(* Theorems about the operators of module Triggers, for every schedule and *)
(* every size of the array.                                                *)
(***************************************************************************)
EXTENDS Triggers, FiniteSetTheorems, TLAPS

\* The fields of a trigger that are compared are numbers.
LEMMA TriggerNumbers ==
  ASSUME NEW t \in Trigger
  PROVE  /\ t.src \in Int /\ t.prayer \in Int /\ t.slot \in Int
         /\ t.minute \in Int /\ t.before \in Int
<1>1. /\ t.src \in SourceDays /\ t.prayer \in Prayers /\ t.slot \in 0..MaxReminders
      /\ t.minute \in 0..(DayLen - 1) /\ t.before \in 0..DayLen
  BY DEF Trigger
<1>2. t.prayer \in Int
  <2>1. t.prayer \in Nat
    BY <1>1, PrayersAssumption
  <2> QED BY <2>1
<1>3. t.src \in Int /\ t.slot \in Int /\ t.minute \in Int /\ t.before \in Int
  BY <1>1, SizesAssumption DEF SourceDays
<1> QED BY <1>2, <1>3

\* The loops of cache_build_triggers visit known days, prayers and reminders.
LEMMA VisitedParts ==
  ASSUME NEW f \in Prefs, NEW l \in Locations, NEW d \in 0..LastDay,
         NEW k \in Visited(f, l, d)
  PROVE  /\ k = <<k[1], k[2], k[3]>>
         /\ k[1] \in (d - 1)..(d + 1) /\ k[1] \in SourceDays
         /\ k[2] \in Prayers /\ k[2] \in DOMAIN PrayerMinute[f][l][k[1]]
         /\ k[3] \in 0..MaxReminders
         /\ k[3] <= Len(Reminders[f][k[2]])
<1>1. k \in ((d - 1)..(d + 1)) \X Prayers \X (0..MaxReminders)
  BY DEF Visited
<1>2. k[1] \in (d - 1)..(d + 1) /\ k[2] \in Prayers /\ k[3] \in 0..MaxReminders
  BY <1>1
<1>3. k[1] \in SourceDays
  BY <1>2, SizesAssumption DEF SourceDays
<1> QED BY <1>1, <1>2, <1>3 DEF Visited

LEMMA EntryOfSeq ==
  ASSUME NEW S, NEW s \in Seq(S), NEW j \in 1..Len(s)
  PROVE  s[j] \in S
OBVIOUS

\* A reminder lies 1..DayLen minutes before its prayer, an exact time none.
LEMMA BeforeType ==
  ASSUME NEW f \in Prefs, NEW p \in Prayers, NEW j \in 0..MaxReminders,
         j <= Len(Reminders[f][p])
  PROVE  /\ Before(f, p, j) \in 0..DayLen
         /\ (Before(f, p, j) = 0) <=> (j = 0)
<1>1. CASE j = 0
  BY <1>1, SizesAssumption DEF Before
<1>2. CASE j # 0
  <2>1. j \in 1..Len(Reminders[f][p])
    BY <1>2, SizesAssumption, RemindersAssumption
  <2>2. Reminders[f][p][j] \in 1..DayLen
    <3>1. Reminders[f][p] \in Seq(1..DayLen)
      BY RemindersAssumption
    <3> QED BY <2>1, <3>1, EntryOfSeq
  <2> QED BY <1>2, <2>2, SizesAssumption DEF Before
<1> QED BY <1>1, <1>2

(***************************************************************************)
(* What a day holds and what a rebuild admits are triggers: a minute of    *)
(* the day, a reminder of at most a day, as cache_load demands of a file.  *)
(***************************************************************************)
THEOREM ScheduledType ==
  ASSUME NEW f \in Prefs, NEW l \in Locations, NEW d \in 0..LastDay
  PROVE  Scheduled(f, l, d) \subseteq Trigger
<1> SUFFICES ASSUME NEW k \in Visited(f, l, d),
                    Entry(f, l, d, k).minute \in 0..(DayLen - 1)
             PROVE  Entry(f, l, d, k) \in Trigger
  BY DEF Scheduled
<1>1. /\ k[1] \in SourceDays /\ k[2] \in Prayers /\ k[3] \in 0..MaxReminders
      /\ k[3] <= Len(Reminders[f][k[2]])
  BY VisitedParts
<1>2. Before(f, k[2], k[3]) \in 0..DayLen
  BY <1>1, BeforeType
<1> QED BY <1>1, <1>2 DEF Entry, Trigger

\* A rebuild adds nothing to the day.
LEMMA BuiltIsScheduled ==
  ASSUME NEW f, NEW l, NEW d, NEW cur
  PROVE  BuildTriggers(f, l, d, cur) \subseteq Scheduled(f, l, d)
BY DEF BuildTriggers, Admitted

\* Slot 0 and no minutes before are the same thing.
LEMMA ExactSlot ==
  ASSUME NEW f \in Prefs, NEW l \in Locations, NEW d \in 0..LastDay,
         NEW e \in Scheduled(f, l, d)
  PROVE  (e.before = 0) <=> (e.slot = 0)
<1>1. PICK k \in Visited(f, l, d) : e = Entry(f, l, d, k)
  BY DEF Scheduled
<1>2. /\ k[2] \in Prayers /\ k[3] \in 0..MaxReminders
      /\ k[3] <= Len(Reminders[f][k[2]])
  BY VisitedParts
<1>3. e.before = Before(f, k[2], k[3]) /\ e.slot = k[3]
  BY <1>1 DEF Entry
<1> QED BY <1>2, <1>3, BeforeType

LEMMA ScheduledFinite ==
  ASSUME NEW f \in Prefs, NEW l \in Locations, NEW d \in 0..LastDay
  PROVE  IsFiniteSet(Scheduled(f, l, d))
<1> DEFINE V == ((d - 1)..(d + 1)) \X (Prayers \X (0..MaxReminders))
           G == [v \in V |-> Entry(f, l, d, <<v[1], v[2][1], v[2][2]>>)]
           R == {G[v] : v \in V}
<1>1. IsFiniteSet((d - 1)..(d + 1)) /\ IsFiniteSet(0..MaxReminders)
  BY FS_Interval, SizesAssumption
<1>2. IsFiniteSet(Prayers \X (0..MaxReminders))
  BY <1>1, FS_Product, PrayersAssumption
<1>3. IsFiniteSet(V)
  BY <1>1, <1>2, FS_Product
<1>4. G \in Surjection(V, R)
  BY DEF Surjection
<1>5. IsFiniteSet(R)
  BY <1>3, <1>4, FS_Surjection
<1>6. Scheduled(f, l, d) \subseteq R
  <2> SUFFICES ASSUME NEW k \in Visited(f, l, d) PROVE Entry(f, l, d, k) \in R
    BY DEF Scheduled
  <2>1. /\ k = <<k[1], k[2], k[3]>> /\ k[1] \in (d - 1)..(d + 1)
        /\ k[2] \in Prayers /\ k[3] \in 0..MaxReminders
    BY VisitedParts
  <2>2. <<k[1], <<k[2], k[3]>>>> \in V
    BY <2>1
  <2>3. G[<<k[1], <<k[2], k[3]>>>>] = Entry(f, l, d, k)
    BY <2>1, <2>2
  <2> QED BY <2>2, <2>3
<1> QED BY <1>5, <1>6, FS_Subset

\* Triggers of one day are told apart by source day, prayer and slot.
LEMMA ToldApart ==
  ASSUME NEW f \in Prefs, NEW l \in Locations, NEW d \in 0..LastDay,
         NEW x \in Scheduled(f, l, d), NEW y \in Scheduled(f, l, d),
         x.slot = y.slot, x.src = y.src, x.prayer = y.prayer
  PROVE  x = y
<1>1. PICK k \in Visited(f, l, d) : x = Entry(f, l, d, k)
  BY DEF Scheduled
<1>2. PICK m \in Visited(f, l, d) : y = Entry(f, l, d, m)
  BY DEF Scheduled
<1>3. k[1] = m[1] /\ k[2] = m[2] /\ k[3] = m[3]
  BY <1>1, <1>2 DEF Entry
<1>4. k = <<k[1], k[2], k[3]>> /\ m = <<m[1], m[2], m[3]>>
  BY VisitedParts
<1>5. k = m
  BY <1>3, <1>4
<1> QED BY <1>1, <1>2, <1>5

(***************************************************************************)
(* The capacity guard never drops a prayer time: whatever reminders are    *)
(* configured, a rebuild keeps every exact time of the day that is not yet *)
(* past the catch-up window (the two passes of cache_build_triggers).      *)
(***************************************************************************)
THEOREM ExactTimesFit ==
  ASSUME NEW f \in Prefs, NEW l \in Locations, NEW d \in 0..LastDay, NEW cur,
         NEW e \in Admitted(f, l, d, cur), e.before = 0
  PROVE  e \in BuildTriggers(f, l, d, cur)
<1> DEFINE A == Admitted(f, l, d, cur)
           X == {x \in A : InsertedBefore(x, e)}
           K == ((d - 1)..(d + 1)) \X Prayers
           ke == <<e.src, e.prayer>>
           g == [x \in X |-> <<x.src, x.prayer>>]
<1>1. A \subseteq Scheduled(f, l, d) /\ e \in Scheduled(f, l, d)
  BY DEF Admitted
<1>2. e.slot = 0
  BY <1>1, ExactSlot
<1>3. \A x \in A : x \in Trigger /\ <<x.src, x.prayer>> \in K
  <2> SUFFICES ASSUME NEW x \in A PROVE x \in Trigger /\ <<x.src, x.prayer>> \in K
    OBVIOUS
  <2>1. PICK k \in Visited(f, l, d) : x = Entry(f, l, d, k)
    BY <1>1 DEF Scheduled
  <2>2. k[1] \in (d - 1)..(d + 1) /\ k[2] \in Prayers
    BY VisitedParts
  <2>3. x.src = k[1] /\ x.prayer = k[2]
    BY <2>1 DEF Entry
  <2> QED BY <1>1, <2>2, <2>3, ScheduledType
<1>4. \A x \in X : x.slot = 0 /\ <<x.src, x.prayer>> # ke
  <2> SUFFICES ASSUME NEW x \in X PROVE x.slot = 0 /\ <<x.src, x.prayer>> # ke
    OBVIOUS
  <2>1. InsertedBefore(x, e) /\ x \in Trigger /\ e \in Trigger
    BY <1>3
  <2>2. /\ x.src \in Int /\ e.src \in Int /\ x.prayer \in Int /\ e.prayer \in Int
        /\ x.slot \in Int
    BY <2>1, TriggerNumbers
  <2>3. Pass(e) = 0
    BY <1>2 DEF Pass
  <2>4. Pass(x) = 0 /\ x.slot = 0
    BY <2>1, <2>3 DEF InsertedBefore, Pass
  <2>5. x.src < e.src \/ (x.src = e.src /\ x.prayer < e.prayer)
    BY <1>2, <2>1, <2>2, <2>3, <2>4 DEF InsertedBefore
  <2> QED BY <2>2, <2>4, <2>5
<1>5. g \in Injection(X, K \ {ke})
  <2>1. g \in [X -> K \ {ke}]
    BY <1>3, <1>4
  <2>2. \A x, y \in X : g[x] = g[y] => x = y
    <3> SUFFICES ASSUME NEW x \in X, NEW y \in X, g[x] = g[y] PROVE x = y
      OBVIOUS
    <3>1. x.src = y.src /\ x.prayer = y.prayer
      OBVIOUS
    <3> QED BY <1>1, <1>4, <3>1, ToldApart
  <2> QED BY <2>1, <2>2 DEF Injection, IsInjective
<1>6. IsFiniteSet(K) /\ Cardinality(K) = 3 * Cardinality(Prayers)
  <2>1. IsFiniteSet((d - 1)..(d + 1)) /\ Cardinality((d - 1)..(d + 1)) = 3
    BY FS_Interval
  <2> QED BY <2>1, FS_Product, PrayersAssumption
<1>7. IsFiniteSet(K \ {ke}) /\ Cardinality(K \ {ke}) = Cardinality(K) - 1
  BY <1>3, <1>6, FS_RemoveElement
<1>8. Cardinality(X) <= Cardinality(K \ {ke}) /\ IsFiniteSet(X)
  BY <1>5, <1>7, FS_Injection
<1>9. Cardinality(X) \in Nat /\ Cardinality(K \ {ke}) \in Nat /\ Cardinality(K) \in Nat
  BY <1>6, <1>7, <1>8, FS_CardinalityType
<1>10. Cardinality(X) < MaxTriggers
  BY <1>6, <1>7, <1>8, <1>9, CapacityAssumption, SizesAssumption
<1> QED BY <1>10 DEF BuildTriggers

(***************************************************************************)
(* What a rebuild leaves out of the day is past the catch-up window, or is *)
(* a reminder of a day with more triggers than the array holds.            *)
(***************************************************************************)
THEOREM LeftOutWithReason ==
  ASSUME NEW f \in Prefs, NEW l \in Locations, NEW d \in 0..LastDay,
         NEW cur \in 0..(DayLen - 1),
         NEW e \in Scheduled(f, l, d), e \notin BuildTriggers(f, l, d, cur)
  PROVE  \/ cur - e.minute > CatchupMax
         \/ e.before > 0 /\ Cardinality(Scheduled(f, l, d)) > MaxTriggers
<1> DEFINE S == Scheduled(f, l, d)
           X == {x \in Admitted(f, l, d, cur) : InsertedBefore(x, e)}
<1>1. e \in Trigger
  BY ScheduledType
<1>2. e.minute \in Int /\ e.before \in 0..DayLen /\ cur \in Int /\ CatchupMax \in Int
  BY <1>1, SizesAssumption DEF Trigger
<1>3. CASE e \notin Admitted(f, l, d, cur)
  <2>1. ~(e.minute >= cur - CatchupMax)
    BY <1>3 DEF Admitted
  <2> QED BY <1>2, <2>1
<1>4. CASE e \in Admitted(f, l, d, cur)
  <2>1. e.before > 0
    BY <1>2, <1>4, ExactTimesFit, SizesAssumption
  <2>2. ~(Cardinality(X) < MaxTriggers)
    BY <1>4 DEF BuildTriggers
  <2>3. IsFiniteSet(S) /\ X \subseteq S
    BY ScheduledFinite DEF Admitted
  <2>4. IsFiniteSet(X) /\ Cardinality(X) \in Nat /\ Cardinality(S) \in Nat
    BY <2>3, FS_Subset, FS_CardinalityType
  <2>5. e \notin X
    <3>1. e.src \in Int /\ e.prayer \in Int /\ e.slot \in Int
      BY <1>1, TriggerNumbers
    <3>2. Pass(e) \in Int
      BY DEF Pass
    <3> QED BY <3>1, <3>2 DEF InsertedBefore
  <2>6. Cardinality(X \cup {e}) = Cardinality(X) + 1
    BY <2>4, <2>5, FS_AddElement
  <2>7. Cardinality(X \cup {e}) <= Cardinality(S)
    <3>1. X \cup {e} \in SUBSET S
      BY <2>3
    <3> QED BY <2>3, <3>1, FS_Subset
  <2> QED BY <2>1, <2>2, <2>4, <2>6, <2>7, SizesAssumption
<1> QED BY <1>3, <1>4

\* The order of insertion is one.
LEMMA InsertedInOrder ==
  ASSUME NEW x \in Trigger, NEW y \in Trigger
  PROVE  /\ ~InsertedBefore(x, x)
         /\ InsertedBefore(x, y) =>
              \A z \in Trigger : InsertedBefore(z, x) => InsertedBefore(z, y)
         /\ \/ InsertedBefore(x, y)
            \/ InsertedBefore(y, x)
            \/ x.src = y.src /\ x.prayer = y.prayer /\ x.slot = y.slot
<1>1. \A t \in Trigger : /\ t.src \in Int /\ t.prayer \in Int /\ t.slot \in Int
                         /\ Pass(t) \in Int
  BY TriggerNumbers DEF Pass
<1> QED BY <1>1 DEF InsertedBefore

(***************************************************************************)
(* A list never holds more than MAX_TRIGGERS (cache_add_trigger), however  *)
(* many reminders are configured.                                          *)
(***************************************************************************)
THEOREM BuildFits ==
  ASSUME NEW f \in Prefs, NEW l \in Locations, NEW d \in 0..LastDay, NEW cur
  PROVE  /\ IsFiniteSet(BuildTriggers(f, l, d, cur))
         /\ Cardinality(BuildTriggers(f, l, d, cur)) <= MaxTriggers
<1> DEFINE A == Admitted(f, l, d, cur)
           B == BuildTriggers(f, l, d, cur)
           Earlier(e) == {x \in A : InsertedBefore(x, e)}
           rank == [e \in B |-> Cardinality(Earlier(e))]
<1>1. A \subseteq Scheduled(f, l, d) /\ A \subseteq Trigger /\ B \subseteq A
  BY ScheduledType DEF Admitted, BuildTriggers
<1>2. \A e : Earlier(e) \subseteq A /\ IsFiniteSet(Earlier(e)) /\ Cardinality(Earlier(e)) \in Nat
  <2> SUFFICES ASSUME NEW e
               PROVE  Earlier(e) \subseteq A /\ IsFiniteSet(Earlier(e)) /\ Cardinality(Earlier(e)) \in Nat
    OBVIOUS
  <2>1. Earlier(e) \in SUBSET Scheduled(f, l, d)
    BY <1>1
  <2> QED BY <2>1, ScheduledFinite, FS_Subset, FS_CardinalityType
<1>3. \A e \in B : rank[e] \in 0..(MaxTriggers - 1)
  <2> SUFFICES ASSUME NEW e \in B PROVE Cardinality(Earlier(e)) \in 0..(MaxTriggers - 1)
    OBVIOUS
  <2>1. Cardinality(Earlier(e)) < MaxTriggers
    BY DEF BuildTriggers
  <2> HIDE DEF Earlier
  <2> QED BY <1>2, <2>1, SizesAssumption
<1>4. ASSUME NEW x \in B, NEW y \in B, InsertedBefore(x, y)
      PROVE  rank[x] # rank[y]
  <2>1. Earlier(x) \subseteq Earlier(y)
    BY <1>1, <1>4, InsertedInOrder
  <2>2. x \in Earlier(y) /\ x \notin Earlier(x)
    BY <1>1, <1>4, InsertedInOrder
  <2>3. Cardinality(Earlier(y)) = Cardinality(Earlier(x)) => Earlier(y) = Earlier(x)
    BY <1>2, <2>1, FS_Subset
  <2> QED BY <2>2, <2>3
<1>5. \A x, y \in B : rank[x] = rank[y] => x = y
  <2> SUFFICES ASSUME NEW x \in B, NEW y \in B, rank[x] = rank[y] PROVE x = y
    OBVIOUS
  <2>1. ~InsertedBefore(x, y) /\ ~InsertedBefore(y, x)
    BY <1>4
  <2>2. x.src = y.src /\ x.prayer = y.prayer /\ x.slot = y.slot
    BY <1>1, <2>1, InsertedInOrder
  <2> QED BY <1>1, <2>2, ToldApart
<1>6. rank \in Injection(B, 0..(MaxTriggers - 1))
  BY <1>3, <1>5 DEF Injection, IsInjective
<1>7. /\ IsFiniteSet(0..(MaxTriggers - 1))
      /\ Cardinality(0..(MaxTriggers - 1)) = MaxTriggers
  BY FS_Interval, SizesAssumption
<1> HIDE DEF rank, B
<1>8. IsFiniteSet(B) /\ Cardinality(B) <= MaxTriggers
  BY <1>6, <1>7, FS_Injection
<1> QED BY <1>8 DEF B

(***************************************************************************)
(* A prayer that runs over midnight is moved to the neighbouring day and   *)
(* not copied: an occurrence has its exact trigger on the list of one day  *)
(* only ("scheduled exactly once", cache.c).                               *)
(***************************************************************************)
THEOREM OnOneDay ==
  ASSUME NEW f \in Prefs, NEW l \in Locations, NEW c \in 0..LastDay, NEW d \in 0..LastDay,
         NEW x \in Scheduled(f, l, c), NEW y \in Scheduled(f, l, d),
         x.before = 0, y.before = 0, x.src = y.src, x.prayer = y.prayer
  PROVE  c = d
<1>1. PICK k \in Visited(f, l, c) : x = Entry(f, l, c, k)
  BY DEF Scheduled
<1>2. PICK m \in Visited(f, l, d) : y = Entry(f, l, d, m)
  BY DEF Scheduled
<1>a. PICK s, p : s = k[1] /\ p = k[2]
  OBVIOUS
<1>b. PICK t : t = PrayerMinute[f][l][s][p]
  OBVIOUS
<1>c. PICK u, v : u = InstantMin(f, l, c, s, p) /\ v = InstantMin(f, l, d, s, p)
  OBVIOUS
<1>3. /\ s = m[1] /\ p = m[2] /\ x.src = s /\ x.prayer = p
      /\ x.minute = u - x.before /\ y.minute = v - y.before
      /\ u = t + DayLen * (s - c) /\ v = t + DayLen * (s - d)
  <2>1. /\ x.src = s /\ x.prayer = p
        /\ x.minute = InstantMin(f, l, c, s, p) - x.before
    BY <1>1, <1>a DEF Entry
  <2>2. /\ y.src = m[1] /\ y.prayer = m[2]
        /\ y.minute = InstantMin(f, l, d, m[1], m[2]) - y.before
    BY <1>2 DEF Entry
  <2>3. m[1] = s /\ m[2] = p
    BY <2>1, <2>2
  <2>4. /\ InstantMin(f, l, c, s, p) = t + DayLen * (s - c)
        /\ InstantMin(f, l, d, s, p) = t + DayLen * (s - d)
    BY <1>b DEF InstantMin
  <2>6. x.minute = u - x.before /\ y.minute = v - y.before
    BY <2>1, <2>2, <2>3, <1>c
  <2>7. u = t + DayLen * (s - c) /\ v = t + DayLen * (s - d)
    BY <2>4, <1>c
  <2> QED BY <2>1, <2>3, <2>6, <2>7, Zenon
<1>4. /\ s \in (c - 1)..(c + 1) /\ s \in (d - 1)..(d + 1)
      /\ s \in SourceDays /\ p \in DOMAIN PrayerMinute[f][l][s]
  BY <1>3, <1>a, VisitedParts
<1>5. t \in Int
  BY <1>4, <1>b, TimesAssumption, SizesAssumption
<1>6. x.minute \in 0..(DayLen - 1) /\ y.minute \in 0..(DayLen - 1)
  BY DEF Scheduled
<1>7. /\ s \in Int /\ c \in Int /\ d \in Int /\ DayLen \in Nat \ {0}
      /\ s - c \in {-1, 0, 1} /\ s - d \in {-1, 0, 1}
  BY <1>4, SizesAssumption
<1>8. /\ DayLen * (s - c) \in {-DayLen, 0, DayLen} /\ (DayLen * (s - c) = 0 <=> s = c)
      /\ (DayLen * (s - c) = DayLen <=> s - c = 1)
      /\ DayLen * (s - d) \in {-DayLen, 0, DayLen} /\ (DayLen * (s - d) = 0 <=> s = d)
      /\ (DayLen * (s - d) = DayLen <=> s - d = 1)
  <2>1. ASSUME NEW n \in {-1, 0, 1}
        PROVE  /\ DayLen * n \in {-DayLen, 0, DayLen} /\ (DayLen * n = 0 <=> n = 0)
               /\ (DayLen * n = DayLen <=> n = 1)
    BY <1>7
  <2> QED BY <1>7, <2>1
<1>9. DayLen * (s - c) = DayLen * (s - d)
  <2> DEFINE a == DayLen * (s - c)
             b == DayLen * (s - d)
  <2>1. /\ a \in {-DayLen, 0, DayLen} /\ b \in {-DayLen, 0, DayLen}
        /\ t + a \in 0..(DayLen - 1) /\ t + b \in 0..(DayLen - 1)
    <3>1. x.minute = t + a /\ y.minute = t + b
      <4>1. u = t + a /\ v = t + b
        BY <1>3
      <4>2. u \in Int /\ v \in Int
        BY <1>5, <1>7, <1>8, <4>1
      <4> QED BY <1>3, <4>1, <4>2
    <3> QED BY <1>6, <1>8, <3>1
  <2> HIDE DEF a, b
  <2>2. a = b
    BY <1>5, <1>7, <2>1
  <2> QED BY <2>2 DEF a, b
<1> QED BY <1>7, <1>8, <1>9

\* A multiple of the day's length between two multiples of it.
LEMMA DaysApart ==
  ASSUME NEW n \in Int, NEW s \in Nat, NEW L \in Nat, s <= L, NEW D \in Nat \ {0},
         n \in (-D)..(2 * D - 1), n + D * s >= 0, n + D * s <= D * (L + 1) - 1
  PROVE  /\ n < 0 => s >= 1
         /\ n >= D => s < L
<1>1. ASSUME n < 0 PROVE s >= 1
  <2>1. s # 0
    BY <1>1
  <2> QED BY <2>1
<1>2. ASSUME n >= D PROVE s < L
  <2>1. s # L
    BY <1>2
  <2> QED BY <2>1
<1> QED BY <1>1, <1>2

(***************************************************************************)
(* And it is not lost between two lists: an occurrence that falls on a day *)
(* that is lived through has its exact trigger on the list of such a day,  *)
(* however far the two days around it reach into each other.               *)
(***************************************************************************)
THEOREM OnSomeDay ==
  ASSUME NEW f \in Prefs, NEW l \in Locations, NEW s \in 0..LastDay,
         NEW p \in Enabled[f], p \in DOMAIN PrayerMinute[f][l][s],
         InstantMin(f, l, 0, s, p) \in 0..(DayLen * (LastDay + 1) - 1)
  PROVE  \E d \in 0..LastDay : \E e \in BuildTriggers(f, l, d, 0) :
           e.src = s /\ e.prayer = p /\ e.slot = 0 /\ e.before = 0
<1>1. PICK t : t = PrayerMinute[f][l][s][p]
  OBVIOUS
<1>2. /\ LastDay \in Nat /\ DayLen \in Nat \ {0} /\ CatchupMax \in Nat /\ MaxReminders \in Nat
      /\ s \in Nat /\ s <= LastDay /\ s \in SourceDays
  BY SizesAssumption DEF SourceDays
<1>3. t \in (-DayLen)..(2 * DayLen - 1)
  BY <1>1, <1>2, TimesAssumption
<1>4. t + DayLen * s >= 0 /\ t + DayLen * s <= DayLen * (LastDay + 1) - 1
  <2>1. InstantMin(f, l, 0, s, p) = t + DayLen * s
    BY <1>1, <1>2 DEF InstantMin
  <2>2. t + DayLen * s \in Int /\ DayLen * (LastDay + 1) - 1 \in Int
    BY <1>2, <1>3
  <2> QED BY <2>1, <2>2
<1>5. (t < 0 => s >= 1) /\ (t >= DayLen => s < LastDay)
  BY <1>2, <1>3, <1>4, DaysApart
<1>6. PICK d \in 0..LastDay :
        /\ s \in (d - 1)..(d + 1)
        /\ t + DayLen * (s - d) \in 0..(DayLen - 1)
  <2>1. CASE t < 0
    <3>1. s - 1 \in 0..LastDay /\ s - (s - 1) = 1
      BY <1>2, <1>5, <2>1
    <3>2. t + DayLen * 1 \in 0..(DayLen - 1)
      BY <1>2, <1>3, <2>1
    <3> QED BY <1>2, <3>1, <3>2
  <2>2. CASE t >= DayLen
    <3>1. s + 1 \in 0..LastDay /\ s - (s + 1) = -1
      BY <1>2, <1>5, <2>2
    <3>2. t + DayLen * (-1) \in 0..(DayLen - 1)
      BY <1>2, <1>3, <2>2
    <3> QED BY <1>2, <3>1, <3>2
  <2>3. CASE t >= 0 /\ t < DayLen
    <3>1. s - s = 0 /\ t + DayLen * 0 \in 0..(DayLen - 1)
      BY <1>2, <1>3, <2>3
    <3> QED BY <1>2, <3>1
  <2> QED BY <1>3, <1>2, <2>1, <2>2, <2>3
<1> DEFINE k == <<s, p, 0>>
           e == Entry(f, l, d, k)
<1>7. /\ e.src = s /\ e.prayer = p /\ e.slot = 0 /\ e.before = 0
      /\ e.minute = InstantMin(f, l, d, s, p) - 0
  BY DEF Entry, Before
<1>8. e.minute \in 0..(DayLen - 1)
  <2>1. InstantMin(f, l, d, s, p) = t + DayLen * (s - d)
    BY <1>1 DEF InstantMin
  <2>2. PICK u : u = InstantMin(f, l, d, s, p)
    OBVIOUS
  <2>3. u \in 0..(DayLen - 1)
    BY <1>6, <2>1, <2>2
  <2>4. e.minute = u - 0
    BY <1>7, <2>2
  <2> QED BY <1>2, <2>3, <2>4
<1>9. k \in Visited(f, l, d)
  <2>1. p \in Prayers
    BY PrayersAssumption
  <2>2. Len(Reminders[f][p]) \in Nat
    BY <2>1, RemindersAssumption
  <2>3. k \in ((d - 1)..(d + 1)) \X Prayers \X (0..MaxReminders)
    BY <1>2, <1>6, <2>1
  <2> QED BY <2>2, <2>3 DEF Visited
<1> HIDE DEF e
<1>10. e \in Scheduled(f, l, d)
  BY <1>8, <1>9 DEF Scheduled, e
<1>11. e \in Admitted(f, l, d, 0)
  BY <1>2, <1>8, <1>10 DEF Admitted
<1>12. e \in BuildTriggers(f, l, d, 0)
  BY <1>7, <1>11, ExactTimesFit
<1> QED BY <1>7, <1>12
=============================================================================
