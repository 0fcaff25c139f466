---------------------------- MODULE SettingsProofs ----------------------------
(***************************************************************************)
(* Theorems about the settings, for any commands, hand edits, machines and *)
(* answers of receivers and lookups.                                       *)
(***************************************************************************)
EXTENDS Settings, FiniteSetTheorems, SequenceTheorems, WellFoundedInduction, TLAPS

Sections == {"location", "prayers", "notification", "calculation", "display"}

\* The sections of a handle: their types and the normal form, part by part.
PlaceGood(l) ==
  /\ {"latitude", "longitude", "use_gps", "auto_detect", "refresh_interval"} \subseteq DOMAIN l
  /\ l.use_gps \in BOOLEAN /\ l.auto_detect \in BOOLEAN /\ l.refresh_interval \in Int
  /\ l.use_gps => l.auto_detect
  /\ l.refresh_interval \notin 1..(MinRefresh - 1)

RemindersGood(minutes) ==
  /\ minutes \in Seq(Int) /\ Len(minutes) <= MaxReminders
  /\ \A i \in DOMAIN minutes : minutes[i] >= 1 /\ minutes[i] <= 1440

OffsetGood(minutes) == minutes \in Int /\ minutes >= OffsetMin /\ minutes <= OffsetMax

PrayersGood(prayers) ==
  /\ DOMAIN prayers = Prayers
  /\ \A p \in Prayers :
       /\ {"reminders", "offset"} \subseteq DOMAIN prayers[p]
       /\ RemindersGood(prayers[p].reminders) /\ OffsetGood(prayers[p].offset)

NotificationGood(notification) ==
  /\ {"timeout", "sound"} \subseteq DOMAIN notification
  /\ notification.timeout \in Int /\ notification.sound \in {"adhan", "default", "off"}

FormatGood(display) ==
  "time_format" \in DOMAIN display /\ display.time_format \in {12, 24}

Good(c) ==
  /\ DOMAIN c = Sections
  /\ PlaceGood(c.location) /\ PrayersGood(c.prayers)
  /\ NotificationGood(c.notification) /\ FormatGood(c.display)

\* A document whose numbers are numbers and whose arrays hold numbers.
PlaceReadable(text) == "refresh_interval" \in DOMAIN text => text.refresh_interval \in Int

PrayerReadable(text) ==
  /\ "offset" \in DOMAIN text => text.offset \in Int
  /\ "reminders" \in DOMAIN text => text.reminders = NotArray \/ text.reminders \in Seq(Int)

NotificationReadable(text) == "timeout" \in DOMAIN text => text.timeout \in Int

Readable(doc) ==
  /\ DOMAIN doc = Sections /\ DOMAIN doc.prayers = Prayers
  /\ PlaceReadable(doc.location) /\ NotificationReadable(doc.notification)
  /\ \A p \in Prayers : PrayerReadable(doc.prayers[p])

FileOK == file \notin {NoFile, Broken} => Readable(file)

\* A command that is past its load has a handle in normal form, and one that
\* looks for a place is one that may.
HandleInv ==
  /\ group \in Groups
  /\ pc # "idle" => command \in Commands[group]
  /\ pc \in {"idle", "load"} => cfg = Nil /\ base = Nil
  /\ pc \notin {"idle", "load"} => Good(cfg) /\ Good(base) /\ ~Refused(command)
  /\ pc = "lookup" => LooksUp(command, cfg)
  /\ pc \notin {"save", "fail"} => report = Nil

IInv == TypeOK /\ FileOK /\ HandleInv /\ ReportsTrue

LEMMA GoodIsNormal == ASSUME NEW c, Good(c) PROVE Normal(c)
<1>1. c.location.use_gps => c.location.auto_detect
  BY DEF Good, PlaceGood
<1>2. c.location.refresh_interval \notin 1..(MinRefresh - 1)
  BY DEF Good, PlaceGood
<1>3. c.notification.sound \in {"adhan", "default", "off"} /\ c.display.time_format \in {12, 24}
  BY DEF Good, NotificationGood, FormatGood
<1>4. ASSUME NEW p \in Prayers
      PROVE  RemindersGood(c.prayers[p].reminders) /\ OffsetGood(c.prayers[p].offset)
  BY DEF Good, PrayersGood
<1> QED BY <1>1, <1>2, <1>3, <1>4 DEF Normal, Validates, RemindersGood, OffsetGood

-----------------------------------------------------------------------------
\* Positions in an array: the n-th of a set of them exists.
Less == {ss \in Nat \X Nat : ss[1] < ss[2]}

LEMMA SomeLeast ==
  ASSUME NEW S, S \subseteq Nat, S # {}
  PROVE  \E m \in S : \A k \in S : m <= k
<1>1. OpToRel(<, Nat) = Less
  BY Zenon DEF OpToRel, Less
<1>2. IsWellFoundedOn(Less, Nat)
  BY <1>1, NatLessThanWellFounded, Zenon
<1>3. PICK m \in S : \A k \in S : <<k, m>> \notin Less
  BY <1>2, WFMin
<1>4. ASSUME NEW k \in S PROVE m <= k
  <2>1. m \in Nat /\ k \in Nat /\ <<k, m>> \notin Less
    BY <1>3
  <2>2. ~(k < m)
    BY <2>1 DEF Less
  <2> QED BY <2>1, <2>2
<1> QED BY <1>4

LEMMA NthIsThere ==
  ASSUME NEW len \in Nat, NEW S, S \subseteq 1..len, NEW n \in 1..Cardinality(S)
  PROVE  Nth(S, n) \in S
<1> DEFINE UpTo(i) == {j \in S : j <= i}
           Enough  == {i \in 0..len : Cardinality(UpTo(i)) >= n}
<1>0. \A j \in S : j \in Nat /\ 1 <= j /\ j <= len
  OBVIOUS
<1>1. \A i \in Nat : IsFiniteSet(UpTo(i)) /\ Cardinality(UpTo(i)) \in Nat
  <2>1. IsFiniteSet(1..len)
    BY FS_Interval
  <2> QED BY <2>1, FS_Subset, FS_CardinalityType
<1>2. Enough # {}
  <2>1. UpTo(len) = S
    BY <1>0, Zenon
  <2>2. Cardinality(S) \in Nat
    BY <1>1, <2>1
  <2> QED BY <2>1, <2>2
<1>3. PICK m \in Enough : \A k \in Enough : m <= k
  <2>1. Enough \subseteq Nat
    OBVIOUS
  <2> HIDE DEF Enough
  <2> QED BY <1>2, <2>1, SomeLeast
<1>4. m \in 1..len
  <2>1. \A j \in S : ~(j <= 0)
    BY <1>0
  <2>2. UpTo(0) = {}
    BY <2>1, Zenon
  <2>3. Cardinality(UpTo(0)) = 0
    BY <2>2, FS_EmptySet
  <2> QED BY <2>3
<1>5. Cardinality(UpTo(m - 1)) < n
  <2>1. m - 1 \in 0..len /\ m - 1 \in Nat /\ ~(m <= m - 1)
    BY <1>4
  <2>2. m - 1 \notin Enough
    BY <1>3, <2>1
  <2> HIDE DEF UpTo
  <2> QED BY <1>1, <2>1, <2>2
<1>6. m \in S
  <2>1. CASE m \notin S
    <3>0. \A j \in S : j <= m <=> j <= m - 1
      BY <1>0, <1>4, <2>1
    <3>1. UpTo(m) = UpTo(m - 1)
      BY <3>0, Zenon
    <3>2. Cardinality(UpTo(m)) \in Nat /\ Cardinality(UpTo(m)) >= n
      BY <1>1, <1>4
    <3> HIDE DEF UpTo
    <3> QED BY <1>5, <3>1, <3>2
  <2> QED BY <2>1
<1>7. Cardinality(UpTo(m)) = n
  <2>0. /\ \A j \in S : j <= m <=> j <= m - 1 \/ j = m
        /\ m \in S /\ ~(m <= m - 1)
    BY <1>0, <1>4, <1>6
  <2>1. UpTo(m) = UpTo(m - 1) \cup {m} /\ m \notin UpTo(m - 1)
    BY <2>0, Zenon
  <2>2. IsFiniteSet(UpTo(m - 1)) /\ Cardinality(UpTo(m - 1)) \in Nat
    <3>1. m - 1 \in Nat
      BY <1>4
    <3> HIDE DEF UpTo
    <3> QED BY <1>1, <3>1
  <2>3. Cardinality(UpTo(m)) = Cardinality(UpTo(m - 1)) + 1
    BY <2>1, <2>2, FS_AddElement
  <2>4. Cardinality(UpTo(m)) >= n
    OBVIOUS
  <2> HIDE DEF UpTo
  <2> QED BY <1>5, <2>2, <2>3, <2>4
<1>8. \E i \in S : Cardinality({j \in S : j <= i}) = n
  BY <1>6, <1>7
<1> QED BY <1>8 DEF Nth

\* An array is read as numbers a prayer may have, no more than fit.
LEMMA RemindersRead ==
  ASSUME NEW items \in Seq(Int)
  PROVE  RemindersGood(ReadReminders(items))
<1> DEFINE read == {i \in DOMAIN items : \A j \in 1..i : items[j] >= 0}
           taken == {i \in read : items[i] \in 1..1440}
           k == Clamped(Cardinality(taken), 0, MaxReminders)
<1>1. taken \subseteq 1..Len(items) /\ Len(items) \in Nat
  OBVIOUS
<1>2. Cardinality(taken) \in Nat
  <2>1. IsFiniteSet(1..Len(items))
    BY <1>1, FS_Interval
  <2> HIDE DEF taken
  <2> QED BY <1>1, <2>1, FS_Subset, FS_CardinalityType
<1>3. \A i \in taken : items[i] \in Int /\ items[i] >= 1 /\ items[i] <= 1440
  <2> SUFFICES ASSUME NEW i \in taken
               PROVE  items[i] \in Int /\ items[i] >= 1 /\ items[i] <= 1440
    OBVIOUS
  <2>1. items[i] \in 1..1440
    OBVIOUS
  <2> HIDE DEF taken
  <2>2. PICK x \in 1..1440 : items[i] = x
    BY <2>1
  <2> QED BY <2>2
<1> HIDE DEF taken
<1>4. k \in Nat /\ k <= Cardinality(taken) /\ k <= MaxReminders
  BY <1>2 DEF Clamped, MaxReminders
<1> HIDE DEF k
<1>5. \A n \in 1..k : LET x == items[Nth(taken, n)] IN x \in Int /\ x >= 1 /\ x <= 1440
  <2> SUFFICES ASSUME NEW n \in 1..k PROVE Nth(taken, n) \in taken
    BY <1>3
  <2>1. n \in 1..Cardinality(taken)
    BY <1>2, <1>4
  <2> QED BY <1>1, <2>1, NthIsThere
<1>6. ReadReminders(items) = [n \in 1..k |-> items[Nth(taken, n)]]
  BY DEF ReadReminders, taken, k
<1> DEFINE r == [n \in 1..k |-> items[Nth(taken, n)]]
<1>7. r = [n \in 1..k |-> r[n]]
  BY Zenon
<1>8. \A n \in 1..k : r[n] \in Int /\ r[n] >= 1 /\ r[n] <= 1440
  <2> SUFFICES ASSUME NEW n \in 1..k PROVE r[n] \in Int /\ r[n] >= 1 /\ r[n] <= 1440
    OBVIOUS
  <2>1. r[n] = items[Nth(taken, n)]
    BY Zenon
  <2> HIDE DEF r
  <2> QED BY <1>5, <2>1
<1> HIDE DEF r
<1>9. r \in Seq(Int) /\ Len(r) = k /\ DOMAIN r = 1..k
  <2>1. r \in [1..k -> Int]
    BY <1>7, <1>8
  <2> QED BY <1>4, <2>1
<1>10. RemindersGood(r)
  <2>1. \A i \in 1..k : r[i] >= 1 /\ r[i] <= 1440
    BY <1>8
  <2>2. Len(r) <= MaxReminders
    BY <1>4, <1>9
  <2> QED BY <1>9, <2>1, <2>2 DEF RemindersGood
<1> QED BY <1>6, <1>10 DEF r

-----------------------------------------------------------------------------
\* Loading and saving.
LEMMA LocationRead ==
  ASSUME NEW text, PlaceReadable(text) PROVE PlaceGood(ReadLocation(text))
<1> DEFINE read == Read(DefaultLocation, text, LocationValue)
<1>1. DOMAIN read = DOMAIN DefaultLocation
  BY DEF Read
<1>2. /\ {"latitude", "longitude", "use_gps", "auto_detect", "refresh_interval"}
             \subseteq DOMAIN DefaultLocation
      /\ DefaultLocation.auto_detect \in BOOLEAN /\ DefaultLocation.use_gps \in BOOLEAN
      /\ DefaultLocation.refresh_interval = 43200
  BY DEF DefaultLocation
<1>3. \A key \in DOMAIN DefaultLocation :
        read[key] = IF key \in DOMAIN text THEN LocationValue(key, text[key])
                    ELSE DefaultLocation[key]
  BY DEF Read
<1>4. \A x : /\ LocationValue("auto_detect", x) \in BOOLEAN
             /\ LocationValue("use_gps", x) \in BOOLEAN
             /\ LocationValue("refresh_interval", x) = x
  BY DEF LocationValue, Flags
<1>5. {"latitude", "longitude", "use_gps", "auto_detect", "refresh_interval"} \subseteq DOMAIN read
  BY <1>2, <1>1
<1> HIDE DEF read
<1>6. read.auto_detect \in BOOLEAN /\ read.use_gps \in BOOLEAN
  <2>1. read["auto_detect"] \in BOOLEAN
    <3>1. CASE "auto_detect" \in DOMAIN text
      BY <1>2, <1>3, <1>4, <3>1
    <3>2. CASE "auto_detect" \notin DOMAIN text
      BY <1>2, <1>3, <3>2
    <3> QED BY <3>1, <3>2
  <2>2. read["use_gps"] \in BOOLEAN
    <3>1. CASE "use_gps" \in DOMAIN text
      BY <1>2, <1>3, <1>4, <3>1
    <3>2. CASE "use_gps" \notin DOMAIN text
      BY <1>2, <1>3, <3>2
    <3> QED BY <3>1, <3>2
  <2> QED BY <2>1, <2>2
<1>7. read.refresh_interval \in Int
  BY <1>2, <1>3, <1>4 DEF PlaceReadable
<1> DEFINE n == IF read.refresh_interval > 0 /\ read.refresh_interval < MinRefresh
                THEN MinRefresh ELSE read.refresh_interval
<1>8. ReadLocation(text) = [read EXCEPT !.use_gps = @ /\ read.auto_detect, !.refresh_interval = n]
  BY DEF ReadLocation, read
<1>9. n \in Int /\ n \notin 1..(MinRefresh - 1)
  <2>1. PICK seconds \in Int : seconds = read.refresh_interval
    BY <1>7
  <2>2. MinRefresh = 3600
    BY DEF MinRefresh
  <2>3. n = IF seconds > 0 /\ seconds < 3600 THEN 3600 ELSE seconds
    BY <2>1, <2>2
  <2> HIDE DEF n
  <2>4. PICK m \in Int : m = n
    BY <2>3
  <2>5. ~(1 <= m /\ m <= 3599)
    BY <2>3, <2>4
  <2>6. ASSUME NEW b \in Int, ~(1 <= m /\ m <= b) PROVE m \notin 1..b
    BY <2>6
  <2>7. MinRefresh - 1 \in Int /\ ~(1 <= m /\ m <= MinRefresh - 1)
    BY <2>2, <2>5
  <2> QED BY <2>4, <2>6, <2>7
<1> HIDE DEF read, n
<1> QED BY <1>6, <1>5, <1>8, <1>9 DEF PlaceGood

LEMMA DefaultsGood ==
  /\ RemindersGood(DefaultPrayer.reminders) /\ OffsetGood(DefaultPrayer.offset)
  /\ {"reminders", "offset"} \subseteq DOMAIN DefaultPrayer
<1>1. DefaultPrayer.reminders = <<30, 15, 5>> /\ DefaultPrayer.offset = 0
  BY DEF DefaultPrayer
<1>2. RemindersGood(<<30, 15, 5>>)
  BY DEF RemindersGood, MaxReminders
<1>3. OffsetGood(0)
  BY DEF OffsetGood, OffsetMin, OffsetMax
<1>4. {"reminders", "offset"} \subseteq DOMAIN DefaultPrayer
  BY DEF DefaultPrayer
<1> QED BY <1>1, <1>2, <1>3, <1>4

LEMMA PrayerRead ==
  ASSUME NEW text, PrayerReadable(text)
  PROVE  LET q == Read(DefaultPrayer, text, PrayerValue)
         IN  /\ {"reminders", "offset"} \subseteq DOMAIN q
             /\ RemindersGood(q.reminders) /\ OffsetGood(q.offset)
<1> DEFINE q == Read(DefaultPrayer, text, PrayerValue)
<1>1. DOMAIN q = DOMAIN DefaultPrayer
  BY DEF Read
<1>2. q.reminders = IF "reminders" \in DOMAIN text THEN PrayerValue("reminders", text.reminders)
                    ELSE DefaultPrayer.reminders
  BY DEF Read, DefaultPrayer
<1>3. q.offset = IF "offset" \in DOMAIN text THEN PrayerValue("offset", text.offset)
                 ELSE DefaultPrayer.offset
  BY DEF Read, DefaultPrayer
<1>4. \A x : PrayerValue("reminders", x) =
               IF x = NotArray THEN DefaultPrayer.reminders ELSE ReadReminders(x)
  BY DEF PrayerValue, Flags
<1>5. \A x : PrayerValue("offset", x) = Clamped(x, OffsetMin, OffsetMax)
  BY DEF PrayerValue, Flags
<1>7. ASSUME NEW x \in Int PROVE OffsetGood(Clamped(x, OffsetMin, OffsetMax))
  BY DEF Clamped, OffsetGood, OffsetMin, OffsetMax
<1> HIDE DEF q
<1>8. RemindersGood(q.reminders)
  BY <1>2, <1>4, RemindersRead, DefaultsGood DEF PrayerReadable
<1>9. OffsetGood(q.offset)
  BY <1>3, <1>5, <1>7, DefaultsGood DEF PrayerReadable
<1> QED BY <1>1, <1>8, <1>9, DefaultsGood DEF q

LEMMA NotificationRead ==
  ASSUME NEW text, NotificationReadable(text)
  PROVE  LET n == Read(DefaultRest.notification, text, NotificationValue)
         IN  /\ NotificationGood(n)
             /\ n.timeout >= -IntMax - 1 /\ n.timeout <= IntMax
<1> DEFINE n == Read(DefaultRest.notification, text, NotificationValue)
<1>1. {"timeout", "sound"} \subseteq DOMAIN n
  BY DEF Read, DefaultRest
<1>2. n.timeout = IF "timeout" \in DOMAIN text THEN Clamped(text.timeout, -IntMax - 1, IntMax) ELSE 5000
  BY DEF Read, DefaultRest, NotificationValue
<1>3. n.sound = IF "sound" \in DOMAIN text THEN SoundMode(text.sound) ELSE "adhan"
  BY DEF Read, DefaultRest, NotificationValue
<1>4. \A x : SoundMode(x) \in {"adhan", "default", "off"}
  BY DEF SoundMode
<1>5. ASSUME NEW x \in Int
      PROVE  LET y == Clamped(x, -IntMax - 1, IntMax)
             IN  y \in Int /\ y >= -IntMax - 1 /\ y <= IntMax
  BY ConfigFileAssumption DEF Clamped
<1> HIDE DEF n
<1>6. n.timeout \in Int /\ n.timeout >= -IntMax - 1 /\ n.timeout <= IntMax
  BY <1>2, <1>5, ConfigFileAssumption DEF NotificationReadable
<1>7. n.sound \in {"adhan", "default", "off"}
  BY <1>3, <1>4
<1> QED BY <1>1, <1>6, <1>7 DEF NotificationGood, n

LEMMA LoadGood ==
  ASSUME FileOK, Loads(file) PROVE Good(Load(file))
<1>1. CASE file = NoFile
  <2>1. Load(file) = Default
    BY <1>1 DEF Load
  <2>2. /\ DOMAIN Default = Sections /\ Default.location = DefaultLocation
        /\ Default.prayers = [p \in Prayers |-> DefaultPrayer]
        /\ Default.notification = DefaultRest.notification
        /\ Default.display = DefaultRest.display
    BY DEF Default, Sections
  <2>3. PlaceGood(DefaultLocation)
    BY DEF PlaceGood, DefaultLocation, MinRefresh
  <2>4. PrayersGood([p \in Prayers |-> DefaultPrayer])
    BY DefaultsGood DEF PrayersGood
  <2>5. NotificationGood(DefaultRest.notification) /\ FormatGood(DefaultRest.display)
    BY DEF DefaultRest, NotificationGood, FormatGood
  <2> QED BY <2>1, <2>2, <2>3, <2>4, <2>5 DEF Good
<1>2. CASE file # NoFile
  <2>1. Readable(file)
    BY <1>2 DEF FileOK, Loads
  <2> DEFINE prayers == [p \in Prayers |-> Read(DefaultPrayer, file.prayers[p], PrayerValue)]
             notification == Read(DefaultRest.notification, file.notification, NotificationValue)
             display == Read(DefaultRest.display, file.display, DisplayValue)
             calculation == Read(DefaultRest.calculation, file.calculation, CalculationValue)
  <2>2. Load(file) = [location |-> ReadLocation(file.location), prayers |-> prayers,
                      notification |-> notification, calculation |-> calculation,
                      display |-> display]
    BY <1>2 DEF Load
  <2>3. PlaceGood(ReadLocation(file.location))
    BY <2>1, LocationRead DEF Readable
  <2>4. PrayersGood(prayers)
    BY <2>1, PrayerRead DEF Readable, PrayersGood
  <2>5. NotificationGood(notification)
    BY <2>1, NotificationRead DEF Readable
  <2>6. FormatGood(display)
    BY DEF Read, DisplayValue, FormatGood, DefaultRest
  <2> HIDE DEF prayers, notification, display, calculation
  <2> QED BY <2>2, <2>3, <2>4, <2>5, <2>6 DEF Good, Sections
<1> QED BY <1>1, <1>2

LEMMA DocumentReadable ==
  ASSUME NEW c, Good(c) PROVE Readable(Document(c))
<1>1. /\ DOMAIN Document(c) = Sections
      /\ Document(c).location = SectionText(c.location)
      /\ Document(c).prayers = [p \in Prayers |-> SectionText(c.prayers[p])]
  BY DEF Document, Sections
<1>2. PlaceReadable(SectionText(c.location))
  BY DEF Good, PlaceGood, PlaceReadable, SectionText, Text, Decimals, Flags
<1>3. ASSUME NEW p \in Prayers PROVE PrayerReadable(SectionText(c.prayers[p]))
  BY DEF Good, PrayersGood, RemindersGood, OffsetGood, PrayerReadable, SectionText, Text,
     Decimals, Flags
<1>4. NotificationReadable(Document(c).notification)
  BY DEF Document, Good, NotificationGood, NotificationReadable, SectionText, Text, Decimals, Flags
<1> QED BY <1>1, <1>2, <1>3, <1>4 DEF Readable

-----------------------------------------------------------------------------
\* The setters: each changes one section, or none when it fails.
LEMMA PlaceSet ==
  ASSUME NEW c, Good(c), NEW d, DOMAIN d = Sections, PlaceGood(d.location),
         d.prayers = c.prayers, d.notification = c.notification, d.display = c.display
  PROVE  Good(d)
BY DEF Good

LEMMA CoordinatesSet ==
  ASSUME NEW c, Good(c), NEW lat, NEW lon
  PROVE  Good(SetCoordinates(c, lat, lon).cfg)
<1> DEFINE l == [c.location EXCEPT
                   !.latitude = lat, !.longitude = lon, !.auto_detect = FALSE, !.use_gps = FALSE,
                   !.city = "", !.country = "", !.timezone = SystemTimezone(host),
                   !.timezone_offset = ZoneOffset(SystemTimezone(host))]
           d == [c EXCEPT !.location = l]
<1>1. SetCoordinates(c, lat, lon).cfg \in {c, d}
  BY DEF SetCoordinates, Ok, Fail
<1>2. PlaceGood(l)
  BY DEF Good, PlaceGood
<1> HIDE DEF l
<1>3. DOMAIN d = Sections /\ d.location = l /\ d.prayers = c.prayers
      /\ d.notification = c.notification /\ d.display = c.display
  BY DEF Good, Sections
<1> QED BY <1>1, <1>2, <1>3, PlaceSet

LEMMA LabelsSet ==
  ASSUME NEW c, Good(c), NEW x
  PROVE  Good(SetCity(c, x).cfg) /\ Good(SetCountry(c, x).cfg) /\ Good(SetTimezone(c, x).cfg)
<1>1. \A d : /\ DOMAIN d = Sections /\ d.prayers = c.prayers
             /\ d.notification = c.notification /\ d.display = c.display
             /\ PlaceGood(d.location)
             => Good(d)
  BY PlaceSet
<1>2. ASSUME NEW y PROVE Good([c EXCEPT !.location.city = y]) /\ Good([c EXCEPT !.location.country = y])
  BY <1>1 DEF Good, PlaceGood, Sections
<1>3. ASSUME NEW y, NEW z PROVE Good([c EXCEPT !.location.timezone = y, !.location.timezone_offset = z])
  BY <1>1 DEF Good, PlaceGood, Sections
<1> QED BY <1>2, <1>3 DEF SetCity, SetCountry, SetTimezone, Ok, Fail

LEMMA RefreshSet ==
  ASSUME NEW c, Good(c), NEW n \in Int
  PROVE  Good(SetRefreshInterval(c, n).cfg)
<1> DEFINE d == [c EXCEPT !.location.refresh_interval = n]
<1>1. IF n = 0 \/ n >= MinRefresh THEN SetRefreshInterval(c, n).cfg = d
      ELSE SetRefreshInterval(c, n).cfg = c
  <2>1. CASE n = 0 \/ n >= MinRefresh
    BY <2>1 DEF SetRefreshInterval, Ok
  <2>2. CASE ~(n = 0 \/ n >= MinRefresh)
    BY <2>2 DEF SetRefreshInterval, Fail
  <2> QED BY <2>1, <2>2
<1>2. ASSUME n = 0 \/ n >= MinRefresh PROVE Good(d)
  <2>1. n \notin 1..(MinRefresh - 1)
    <3>1. MinRefresh = 3600
      BY DEF MinRefresh
    <3>2. ~(1 <= n /\ n <= MinRefresh - 1)
      BY <1>2, <3>1
    <3>3. ASSUME NEW b \in Int, ~(1 <= n /\ n <= b) PROVE n \notin 1..b
      BY <3>3
    <3>4. MinRefresh - 1 \in Int
      BY <3>1
    <3> QED BY <3>2, <3>3, <3>4
  <2>2. PlaceGood([c.location EXCEPT !.refresh_interval = n])
    BY <2>1 DEF Good, PlaceGood
  <2>3. DOMAIN d = Sections /\ d.location = [c.location EXCEPT !.refresh_interval = n]
        /\ d.prayers = c.prayers /\ d.notification = c.notification /\ d.display = c.display
    BY DEF Good, Sections
  <2> QED BY <2>2, <2>3, PlaceSet
<1> QED BY <1>1, <1>2

LEMMA OthersSet ==
  ASSUME NEW c, Good(c), NEW key
  PROVE  /\ Good(SetMethod(c, key).cfg) /\ Good(SetMethodFromCountry(c).cfg)
         /\ Good(SetMadhab(c, key).cfg) /\ Good(SetTimeFormat(c, key).cfg)
         /\ Good(SetUrgency(c, key).cfg) /\ Good(SetSoundMode(c, key).cfg)
<1>1. ASSUME NEW y PROVE Good([c EXCEPT !.calculation.method = y]) /\ Good([c EXCEPT !.calculation.madhab = y])
  BY DEF Good, Sections
<1>2. ASSUME NEW y PROVE Good([c EXCEPT !.notification.urgency = y])
  BY DEF Good, Sections, NotificationGood
<1>3. ASSUME NEW y \in {"adhan", "default", "off"} PROVE Good([c EXCEPT !.notification.sound = y])
  BY DEF Good, Sections, NotificationGood
<1>4. ASSUME NEW y \in {12, 24} PROVE Good([c EXCEPT !.display.time_format = y])
  BY DEF Good, Sections, FormatGood
<1>5. Good(SetMethod(c, key).cfg) /\ Good(SetMethodFromCountry(c).cfg) /\ Good(SetMadhab(c, key).cfg)
  BY <1>1 DEF SetMethod, SetMethodFromCountry, SetMadhab, Ok, Fail
<1>6. Good(SetUrgency(c, key).cfg) /\ Good(SetSoundMode(c, key).cfg)
  BY <1>2, <1>3 DEF SetUrgency, SetSoundMode, Ok, Fail
<1>7. Good(SetTimeFormat(c, key).cfg)
  BY <1>4 DEF SetTimeFormat, Ok, Fail
<1> QED BY <1>5, <1>6, <1>7

LEMMA PrayersSet ==
  ASSUME NEW c, Good(c), NEW targets, NEW key, NEW value,
         key = "reminders" => RemindersGood(value),
         key = "offset" => OffsetGood(value)
  PROVE  Good(SetPrayers(c, targets, key, value).cfg)
<1> DEFINE q(p) == IF p \in targets THEN [c.prayers[p] EXCEPT ![key] = value] ELSE c.prayers[p]
           all == [p \in Prayers |-> q(p)]
           d == [c EXCEPT !.prayers = all]
<1>1. SetPrayers(c, targets, key, value).cfg \in {c, d}
  BY DEF SetPrayers, Ok, Fail
<1>2. ASSUME NEW p \in Prayers
      PROVE  /\ {"reminders", "offset"} \subseteq DOMAIN q(p)
             /\ RemindersGood(q(p).reminders) /\ OffsetGood(q(p).offset)
  <2>1. /\ {"reminders", "offset"} \subseteq DOMAIN c.prayers[p]
        /\ RemindersGood(c.prayers[p].reminders) /\ OffsetGood(c.prayers[p].offset)
    BY DEF Good, PrayersGood
  <2> QED BY <2>1
<1>3. PrayersGood(all)
  BY <1>2 DEF PrayersGood
<1> HIDE DEF all
<1>4. DOMAIN d = Sections /\ d.prayers = all /\ d.location = c.location
      /\ d.notification = c.notification /\ d.display = c.display
  BY DEF Good, Sections
<1>5. Good(d)
  BY <1>3, <1>4 DEF Good
<1> QED BY <1>1, <1>5

-----------------------------------------------------------------------------
\* The commands: rows of setters, of which the first that fails ends the row.
LEMMA LabelsGood ==
  ASSUME NEW a, NEW c, Good(c) PROVE Good(SetLabels(a, c).cfg)
<1> DEFINE first == IF a.city # Nil THEN SetCity(c, a.city) ELSE Ok(c)
           second == IF a.country # Nil THEN SetCountry(first.cfg, a.country) ELSE Ok(first.cfg)
<1>1. SetLabels(a, c) = IF first.ok THEN second ELSE first
  BY DEF SetLabels, Then, If
<1>2. Good(first.cfg)
  BY LabelsSet DEF Ok
<1> HIDE DEF first
<1>3. Good(second.cfg)
  BY <1>2, LabelsSet DEF Ok
<1> QED BY <1>1, <1>2, <1>3

LEMMA MoveGood ==
  ASSUME NEW a, NEW c, Good(c) PROVE Good(MoveTo(a, c).cfg)
BY CoordinatesSet DEF MoveTo, Fail

LEMMA LocationSetGood ==
  ASSUME NEW a, NEW c, Good(c), a.refresh = Nil \/ a.refresh \in Int
  PROVE  Good(LocationSet(a, c).cfg)
<1> DEFINE moved == IF a.lat # Nil \/ a.lon # Nil THEN MoveTo(a, c) ELSE Ok(c)
           labels == IF moved.ok THEN SetLabels(a, moved.cfg) ELSE moved
           refresh == IF labels.ok
                      THEN IF a.refresh # Nil THEN SetRefreshInterval(labels.cfg, a.refresh)
                           ELSE Ok(labels.cfg)
                      ELSE labels
           zone == IF refresh.ok
                   THEN IF a.timezone # Nil THEN SetTimezone(refresh.cfg, a.timezone)
                        ELSE Ok(refresh.cfg)
                   ELSE refresh
<1>1. LocationSet(a, c) = zone
  BY DEF LocationSet, Then, If
<1>2. \A k : Ok(k).cfg = k
  BY DEF Ok
<1>3. Good(moved.cfg)
  BY <1>2, MoveGood
<1> HIDE DEF moved
<1>4. Good(labels.cfg)
  BY <1>3, LabelsGood
<1> HIDE DEF labels
<1>5. Good(refresh.cfg)
  BY <1>2, <1>4, RefreshSet
<1> HIDE DEF refresh
<1>6. Good(zone.cfg)
  BY <1>2, <1>5, LabelsSet
<1> QED BY <1>1, <1>6

LEMMA RemindersSet ==
  ASSUME NEW a, NEW c, Good(c), a.minutes # Nil => a.minutes \in Seq(Int \cup {Junk})
  PROVE  Good(ReminderCommand(a, c).cfg)
<1>1. CASE BadMinutes(a.minutes) \/ \E i \in DOMAIN a.minutes : a.minutes[i] < 1 \/ a.minutes[i] > 1440
  BY <1>1 DEF ReminderCommand, SetReminders, Fail
<1>2. CASE ~(BadMinutes(a.minutes) \/ \E i \in DOMAIN a.minutes : a.minutes[i] < 1 \/ a.minutes[i] > 1440)
  <2>1. PICK m : m = a.minutes
    OBVIOUS
  <2>2. ReminderCommand(a, c) = SetPrayers(c, Targets(a.who), "reminders", m)
    BY <1>2, <2>1 DEF ReminderCommand, SetReminders
  <2>3. m \in Seq(Int \cup {Junk}) /\ Len(m) <= MaxReminders
    BY <1>2, <2>1 DEF BadMinutes, MaxReminders
  <2>4. \A i \in DOMAIN m : m[i] # Junk /\ ~(m[i] < 1 \/ m[i] > 1440)
    BY <1>2, <2>1 DEF BadMinutes
  <2>5. m \in Seq(Int)
    BY <2>3, <2>4
  <2>6. RemindersGood(m)
    BY <2>3, <2>4, <2>5 DEF RemindersGood
  <2>7. Good(SetPrayers(c, Targets(a.who), "reminders", m).cfg)
    BY <2>6, PrayersSet
  <2> QED BY <2>2, <2>7
<1> QED BY <1>1, <1>2

LEMMA OffsetSet ==
  ASSUME NEW a, NEW c, Good(c), a.minutes = Junk \/ a.minutes \in Int
  PROVE  Good(OffsetCommand(a, c).cfg)
<1>1. CASE a.minutes = Junk
  BY <1>1 DEF OffsetCommand, Fail
<1>2. CASE a.minutes # Junk
  <2>1. PICK m \in Int : m = a.minutes
    BY <1>2
  <2>2. CASE m < OffsetMin \/ m > OffsetMax
    BY <1>2, <2>1, <2>2 DEF OffsetCommand, SetOffset, Fail
  <2>3. CASE ~(m < OffsetMin \/ m > OffsetMax)
    <3>1. OffsetGood(m)
      BY <2>3 DEF OffsetGood, OffsetMin, OffsetMax
    <3>2. OffsetCommand(a, c) = SetPrayers(c, Targets(a.who), "offset", m)
      BY <1>2, <2>1, <2>3 DEF OffsetCommand, SetOffset
    <3>3. Good(SetPrayers(c, Targets(a.who), "offset", m).cfg)
      BY <3>1, PrayersSet
    <3> QED BY <3>2, <3>3
  <2> QED BY <2>2, <2>3
<1> QED BY <1>1, <1>2

LEMMA ReceiverOff ==
  ASSUME NEW c, Good(c) PROVE Good(SwitchGpsOff(c).cfg)
<1> DEFINE l == [c.location EXCEPT !.use_gps = FALSE]
           d == [c EXCEPT !.location = l]
<1>1. SwitchGpsOff(c).cfg = d
  BY DEF SwitchGpsOff
<1>2. PlaceGood(l)
  BY DEF Good, PlaceGood
<1> HIDE DEF l
<1>3. DOMAIN d = Sections /\ d.location = l /\ d.prayers = c.prayers
      /\ d.notification = c.notification /\ d.display = c.display
  BY DEF Good, Sections
<1> QED BY <1>1, <1>2, <1>3, PlaceSet

LEMMA EditGood ==
  ASSUME NEW g \in Groups, NEW a \in Commands[g], ~Refused(a), NEW c, Good(c)
  PROVE  Good(Edit(a, c).cfg)
<1>1. CASE a.name = "location" /\ a.auto
  <2>1. Edit(a, c) = SetLabels(a, c)
    BY <1>1 DEF Edit, LocationAuto
  <2> QED BY <2>1, LabelsGood
<1>2. CASE a.name = "location" /\ ~a.auto
  <2>1. Edit(a, c) = LocationSet(a, c)
    BY <1>2 DEF Edit
  <2>2. a.refresh = Nil \/ a.refresh \in Int
    BY <1>2, ArgumentsAssumption DEF Refused, BadLocation
  <2> QED BY <2>1, <2>2, LocationSetGood
<1>3. CASE a.name = "gps_off"
  <2>1. Edit(a, c) = SwitchGpsOff(c)
    BY <1>3 DEF Edit, GpsOff
  <2> QED BY <2>1, ReceiverOff
<1>4. CASE a.name = "enable"
  <2>1. Edit(a, c) = SetPrayers(c, Targets(a.who), "enabled", a.on)
    BY <1>4 DEF Edit, EnableCommand, SetEnabled
  <2> QED BY <2>1, PrayersSet
<1>5. CASE a.name = "urgency"
  BY <1>5, OthersSet DEF Edit, UrgencyCommand
<1>6. CASE a.name = "reminder"
  <2>1. Edit(a, c) = ReminderCommand(a, c)
    BY <1>6 DEF Edit
  <2> QED BY <1>6, <2>1, RemindersSet, ArgumentsAssumption
<1>7. CASE a.name = "adhan"
  <2>1. Edit(a, c) = SetPrayers(c, ParsePrayer(a.who), "adhan_enabled", a.on)
    BY <1>7 DEF Edit, AdhanCommand, SetAdhan
  <2> QED BY <2>1, PrayersSet
<1>8. CASE a.name = "adhan_file"
  <2>1. Edit(a, c) = IF Resolves(a.path) THEN SetPrayers(c, Prayers, "adhan", Paths[a.path].canonical)
                     ELSE Fail(c)
    BY <1>8 DEF Edit, AdhanFileCommand, SetAdhanFile
  <2>2. Good(SetPrayers(c, Prayers, "adhan", Paths[a.path].canonical).cfg)
    BY PrayersSet
  <2> QED BY <2>1, <2>2 DEF Fail
<1>9. CASE a.name = "sound"
  BY <1>9, OthersSet DEF Edit, SoundCommand
<1>10. CASE a.name = "method"
  BY <1>10, OthersSet DEF Edit, MethodCommand
<1>11. CASE a.name \in {"method_auto", "install"}
  BY <1>11, OthersSet DEF Edit, MethodAuto, InstallSetUp
<1>12. CASE a.name = "madhab"
  BY <1>12, OthersSet DEF Edit, MadhabCommand
<1>13. CASE a.name = "offset"
  <2>1. Edit(a, c) = OffsetCommand(a, c)
    BY <1>13 DEF Edit
  <2> QED BY <1>13, <2>1, OffsetSet, ArgumentsAssumption
<1>14. CASE a.name = "timeformat"
  BY <1>14, OthersSet DEF Edit, TimeFormatCommand
<1>15. CASE a.name \notin {"location", "gps_off", "enable", "urgency", "reminder", "adhan", "adhan_file",
                          "sound", "method", "method_auto", "install", "madhab", "offset", "timeformat"}
  BY <1>15 DEF Edit, Ok
<1> QED BY <1>1, <1>2, <1>3, <1>4, <1>5, <1>6, <1>7, <1>8, <1>9, <1>10, <1>11, <1>12, <1>13,
           <1>14, <1>15

-----------------------------------------------------------------------------
\* Detection: what it does to a handle, and what it tells of that.
LEMMA Fetched ==
  ASSUME NEW c, Good(c), NEW answer
  PROVE  LET d == FetchGps(c, answer, host)
         IN  /\ Good(d) /\ d.location.use_gps = c.location.use_gps
             /\ d.location.latitude = answer.lat /\ d.location.longitude = answer.lon
<1> DEFINE l == [c.location EXCEPT
                   !.latitude = answer.lat, !.longitude = answer.lon,
                   !.timezone = SystemTimezone(host),
                   !.timezone_offset = ZoneOffset(SystemTimezone(host)), !.updated_at = Now]
           d == [c EXCEPT !.location = l]
<1>1. FetchGps(c, answer, host) = d
  BY DEF FetchGps
<1>2. PlaceGood(l) /\ l.latitude = answer.lat /\ l.longitude = answer.lon
      /\ l.use_gps = c.location.use_gps
  BY DEF Good, PlaceGood
<1> HIDE DEF l
<1>3. DOMAIN d = Sections /\ d.location = l /\ d.prayers = c.prayers
      /\ d.notification = c.notification /\ d.display = c.display
  BY DEF Good, Sections
<1> QED BY <1>1, <1>2, <1>3, PlaceSet

LEMMA LookedUp ==
  ASSUME NEW c, Good(c), NEW r
  PROVE  LET d == FetchIp(c, r)
         IN  /\ Good(d) /\ d.location.use_gps = c.location.use_gps
             /\ d.location.latitude = r.loc[1] /\ d.location.longitude = r.loc[2]
<1> DEFINE zone == IF TimezoneExists(r.timezone) THEN r.timezone ELSE c.location.timezone
           offset == IF TimezoneExists(r.timezone) THEN ZoneOffset(r.timezone)
                     ELSE c.location.timezone_offset
           country == IF r.country # Nil /\ CountryIsValid(r.country) THEN r.country
                      ELSE c.location.country
           l == [c.location EXCEPT
                   !.latitude = r.loc[1], !.longitude = r.loc[2], !.timezone = zone,
                   !.timezone_offset = offset, !.country = country, !.updated_at = Now]
           d == [c EXCEPT !.location = l]
<1>1. FetchIp(c, r) = d
  BY DEF FetchIp
<1> HIDE DEF zone, offset, country
<1>2. PlaceGood(l) /\ l.latitude = r.loc[1] /\ l.longitude = r.loc[2]
      /\ l.use_gps = c.location.use_gps
  BY DEF Good, PlaceGood
<1> HIDE DEF l
<1>3. DOMAIN d = Sections /\ d.location = l /\ d.prayers = c.prayers
      /\ d.notification = c.notification /\ d.display = c.display
  BY DEF Good, Sections
<1> QED BY <1>1, <1>2, <1>3, PlaceSet

LEMMA FlagsSet ==
  ASSUME NEW c, Good(c), NEW on \in BOOLEAN
  PROVE  /\ Good([c EXCEPT !.location.use_gps = @ /\ on])
         /\ Good([c EXCEPT !.location.auto_detect = TRUE])
         /\ Good([c EXCEPT !.location.use_gps = TRUE, !.location.auto_detect = TRUE])
<1>1. \A d : /\ DOMAIN d = Sections /\ d.prayers = c.prayers
             /\ d.notification = c.notification /\ d.display = c.display
             /\ PlaceGood(d.location)
             => Good(d)
  BY PlaceSet
<1> QED BY <1>1 DEF Good, PlaceGood, Sections

\* What a report says of the place it was made with.
Told(was_on, answer, r, out, place) ==
  /\ out.source = "GPS" =>
       was_on /\ answer.status = "OK"
       /\ place.latitude = answer.lat /\ place.longitude = answer.lon
  /\ out.source = "IP" => r # Nil /\ <<place.latitude, place.longitude>> = r.loc
  /\ out.gps_disabled = (was_on /\ ~place.use_gps)
  /\ out.gps_disabled => out.gps \in Structural
  /\ was_on /\ answer.status \in {"NO_FIX", "NO_PERMISSION"} => place.use_gps

LEMMA DetectTells ==
  ASSUME NEW c, Good(c), NEW answer, NEW r \in Replies
  PROVE  LET d == Detect(c, answer, r, host)
         IN  /\ Good(d.cfg)
             /\ d.ok => Told(c.location.use_gps, answer, r, d.out, d.cfg.location)
<1> DEFINE on == c.location.use_gps
           gps == on /\ answer.status = "OK"
           kept == [c EXCEPT !.location.use_gps = @ /\ answer.status \notin Structural]
           f == FetchCore(c, answer, r, host)
           d == Detect(c, answer, r, host)
           out == [source |-> Source(c, answer), gps |-> GpsError(GpsStatus(c, answer)),
                   gps_disabled |-> on /\ ~f.cfg.location.use_gps]
<1>1. on \in BOOLEAN
  BY DEF Good, PlaceGood
<1>2. IF f.ok THEN d = [ok |-> TRUE, cfg |-> [f.cfg EXCEPT !.location.auto_detect = TRUE], out |-> out]
      ELSE d = [ok |-> FALSE, cfg |-> c, out |-> Nil]
  BY DEF Detect
<1>3. ASSUME NEW k, Good(k)
      PROVE  LET e == [k EXCEPT !.location.auto_detect = TRUE]
             IN  /\ Good(e) /\ e.location.use_gps = k.location.use_gps
                 /\ e.location.latitude = k.location.latitude
                 /\ e.location.longitude = k.location.longitude
  BY <1>3, FlagsSet DEF Good, PlaceGood, Sections
<1>4. CASE gps
  <2>1. f = [ok |-> TRUE, cfg |-> FetchGps(c, answer, host)]
    BY <1>4 DEF FetchCore
  <2>2. PICK k : k = FetchGps(c, answer, host)
    OBVIOUS
  <2>3. /\ Good(k) /\ k.location.use_gps = on
        /\ k.location.latitude = answer.lat /\ k.location.longitude = answer.lon
    BY <2>2, Fetched
  <2>4. PICK e : e = [k EXCEPT !.location.auto_detect = TRUE]
    OBVIOUS
  <2>5. /\ Good(e) /\ e.location.use_gps = on
        /\ e.location.latitude = answer.lat /\ e.location.longitude = answer.lon
    BY <1>3, <2>3, <2>4
  <2>6. f.ok = TRUE /\ f.cfg = k
    BY <2>1, <2>2
  <2>7. out.source = "GPS" /\ out.gps_disabled = FALSE
    BY <1>1, <1>4, <2>3, <2>6 DEF Source, GpsStatus
  <2> HIDE DEF d, f, out
  <2>8. d.cfg = e /\ d.out = out
    <3>1. d = [ok |-> TRUE, cfg |-> [f.cfg EXCEPT !.location.auto_detect = TRUE], out |-> out]
      BY <1>2, <2>6
    <3>2. [f.cfg EXCEPT !.location.auto_detect = TRUE] = e
      BY <2>4, <2>6, Zenon
    <3> QED BY <3>1, <3>2
  <2>9. Told(on, answer, r, out, e.location)
    BY <1>1, <1>4, <2>5, <2>7 DEF Told, Structural
  <2> QED BY <2>5, <2>8, <2>9 DEF d
<1>5. CASE ~gps /\ Usable(r)
  <2>1. Good(kept) /\ kept.location.use_gps = (on /\ answer.status \notin Structural)
    BY <1>1, FlagsSet DEF Good, PlaceGood, Sections
  <2>2. PICK k : k = FetchIp(kept, r)
    OBVIOUS
  <2>3. /\ Good(k) /\ k.location.use_gps = (on /\ answer.status \notin Structural)
        /\ k.location.latitude = r.loc[1] /\ k.location.longitude = r.loc[2]
    <3> HIDE DEF kept
    <3>1. LET w == FetchIp(kept, r)
          IN  /\ Good(w) /\ w.location.use_gps = kept.location.use_gps
              /\ w.location.latitude = r.loc[1] /\ w.location.longitude = r.loc[2]
      BY <2>1, LookedUp
    <3> QED BY <2>1, <2>2, <3>1
  <2>4. PICK e : e = [k EXCEPT !.location.auto_detect = TRUE]
    OBVIOUS
  <2>5. /\ Good(e) /\ e.location.use_gps = (on /\ answer.status \notin Structural)
        /\ e.location.latitude = r.loc[1] /\ e.location.longitude = r.loc[2]
    BY <1>3, <2>3, <2>4
  <2>6. f.ok = TRUE /\ f.cfg = k
    BY <1>5, <2>2 DEF FetchCore
  <2>7. /\ out.source = "IP" /\ out.gps_disabled = (on /\ ~k.location.use_gps)
        /\ out.gps = GpsError(GpsStatus(c, answer))
    BY <1>5, <2>6 DEF Source, GpsStatus
  <2> HIDE DEF d, f, out
  <2>8. d.cfg = e /\ d.out = out
    <3>1. d = [ok |-> TRUE, cfg |-> [f.cfg EXCEPT !.location.auto_detect = TRUE], out |-> out]
      BY <1>2, <2>6
    <3>2. [f.cfg EXCEPT !.location.auto_detect = TRUE] = e
      BY <2>4, <2>6, Zenon
    <3> QED BY <3>1, <3>2
  <2>9. on /\ answer.status \in Structural => GpsError(GpsStatus(c, answer)) = answer.status
    BY DEF GpsError, GpsStatus, Structural
  <2>10. r # Nil /\ r.loc = <<r.loc[1], r.loc[2]>>
    BY <1>5, RepliesAssumption DEF Usable
  <2>11. Told(on, answer, r, out, e.location)
    <3>1. out.gps_disabled = (on /\ answer.status \in Structural)
      BY <1>1, <2>3, <2>7
    <3>2. out.gps_disabled => out.gps \in Structural
      BY <1>1, <2>7, <2>9, <3>1
    <3>3. out.gps_disabled = (on /\ ~e.location.use_gps)
      BY <1>1, <2>5, <3>1
    <3>4. on /\ answer.status \in {"NO_FIX", "NO_PERMISSION"} => e.location.use_gps
      BY <1>1, <2>5 DEF Structural
    <3> QED BY <2>5, <2>7, <2>10, <3>2, <3>3, <3>4 DEF Told
  <2> QED BY <2>5, <2>8, <2>11 DEF d
<1>6. CASE ~gps /\ ~Usable(r)
  <2>1. f = [ok |-> FALSE, cfg |-> kept]
    BY <1>6 DEF FetchCore
  <2> QED BY <1>2, <2>1
<1> QED BY <1>4, <1>5, <1>6

LEMMA ReceiverOn ==
  ASSUME NEW c, Good(c), NEW answer
  PROVE  Good(SwitchGpsOn(c, answer, host).cfg)
<1>1. Good([c EXCEPT !.location.use_gps = TRUE, !.location.auto_detect = TRUE])
  BY FlagsSet
<1>2. PICK k : k = FetchGps(c, answer, host) /\ Good(k)
  BY Fetched
<1>3. Good([k EXCEPT !.location.use_gps = TRUE, !.location.auto_detect = TRUE])
  BY <1>2, FlagsSet
<1>4. CASE answer.status = "OK"
  BY <1>2, <1>3, <1>4 DEF SwitchGpsOn
<1>5. CASE answer.status = "NO_FIX"
  BY <1>1, <1>5 DEF SwitchGpsOn
<1>6. CASE answer.status \notin {"OK", "NO_FIX"}
  BY <1>6 DEF SwitchGpsOn
<1> QED BY <1>4, <1>5, <1>6

\* What a command does after a lookup leaves the found place alone.
LEMMA PlaceStays ==
  ASSUME NEW g \in Groups, NEW a \in Commands[g], NEW b, LooksUp(a, b), NEW c, Good(c)
  PROVE  LET d == Edit(a, c).cfg
         IN  /\ d.location.use_gps = c.location.use_gps
             /\ d.location.latitude = c.location.latitude
             /\ d.location.longitude = c.location.longitude
<1> DEFINE Same(d) == /\ Good(d) /\ d.location.use_gps = c.location.use_gps
                      /\ d.location.latitude = c.location.latitude
                      /\ d.location.longitude = c.location.longitude
<1>1. CASE a.name = "location"
  <2>1. Edit(a, c) = SetLabels(a, c)
    BY <1>1 DEF Edit, LocationAuto, LooksUp, IfUnset
  <2>2. \A k, x : Same(k) => Same(SetCity(k, x).cfg) /\ Same(SetCountry(k, x).cfg)
    <3> SUFFICES ASSUME NEW k, NEW x, Same(k) PROVE Same(SetCity(k, x).cfg) /\ Same(SetCountry(k, x).cfg)
      OBVIOUS
    <3>1. Good(SetCity(k, x).cfg) /\ Good(SetCountry(k, x).cfg)
      BY LabelsSet
    <3>2. ASSUME NEW y
          PROVE  /\ LET d == [k EXCEPT !.location.city = y]
                    IN  /\ d.location.use_gps = k.location.use_gps
                        /\ d.location.latitude = k.location.latitude
                        /\ d.location.longitude = k.location.longitude
                 /\ LET d == [k EXCEPT !.location.country = y]
                    IN  /\ d.location.use_gps = k.location.use_gps
                        /\ d.location.latitude = k.location.latitude
                        /\ d.location.longitude = k.location.longitude
      BY DEF Good, PlaceGood, Sections
    <3> QED BY <3>1, <3>2 DEF SetCity, SetCountry, Ok, Fail
  <2>3. Same(c)
    OBVIOUS
  <2> DEFINE first == IF a.city # Nil THEN SetCity(c, a.city) ELSE Ok(c)
             second == IF a.country # Nil THEN SetCountry(first.cfg, a.country) ELSE Ok(first.cfg)
  <2>4. SetLabels(a, c) = IF first.ok THEN second ELSE first
    BY DEF SetLabels, Then, If
  <2> HIDE DEF Same
  <2>5. Same(first.cfg)
    BY <2>2, <2>3 DEF Ok
  <2> HIDE DEF first
  <2>6. Same(second.cfg)
    BY <2>2, <2>5 DEF Ok
  <2>7. Same(SetLabels(a, c).cfg)
    BY <2>4, <2>5, <2>6
  <2> QED BY <2>1, <2>7 DEF Same
<1>2. CASE a.name \in {"method_auto", "install"}
  <2>1. Edit(a, c).cfg = [c EXCEPT !.calculation.method = CountryMethod(c.location.country)]
    BY <1>2 DEF Edit, MethodAuto, InstallSetUp, SetMethodFromCountry, Ok
  <2>2. Edit(a, c).cfg.location = c.location
    BY <2>1 DEF Good, Sections
  <2> QED BY <2>2
<1>3. CASE a.name \in {"show", "cycle"}
  BY <1>3 DEF Edit, Ok
<1> QED BY <1>1, <1>2, <1>3 DEF LooksUp, IfUnset

-----------------------------------------------------------------------------
LEMMA InitInv == Init => IInv
<1> SUFFICES ASSUME Init PROVE IInv
  OBVIOUS
<1>1. TypeOK
  BY SettingsAssumption DEF Init, TypeOK
<1>2. FileOK /\ HandleInv /\ ReportsTrue
  BY DEF Init, FileOK, HandleInv, ReportsTrue
<1> QED BY <1>1, <1>2 DEF IInv

\* Whoever writes the file, a save or the user, leaves numbers where a load
\* expects numbers.
LEMMA FileStep ==
  ASSUME IInv, [Next]_vars PROVE FileOK'
<1>0. FileOK /\ HandleInv
  BY DEF IInv
<1>1. CASE UNCHANGED file
  BY <1>0, <1>1 DEF FileOK
<1>2. CASE Save
  <2>1. Good(cfg) /\ file' = Document(cfg)
    BY <1>0, <1>2 DEF HandleInv, Save
  <2>2. Readable(file')
    BY <2>1, DocumentReadable
  <2> QED BY <2>2 DEF FileOK
<1>3. CASE HandEdit
  <2>0. PICK doc : doc = IF file = NoFile THEN Empty ELSE file
    OBVIOUS
  <2>1. PICK e \in HandEdits[group] :
          file' = IF e.prayer = Nil
                  THEN [doc EXCEPT ![e.section] = Written(@, e.key, e.text)]
                  ELSE [doc EXCEPT !.prayers[e.prayer] = Written(@, e.key, e.text)]
    BY <1>3, <2>0 DEF HandEdit
  <2>2. Readable(doc)
    <3>1. CASE file = NoFile
      <4>1. doc = [section \in Sections |->
                     IF section = "prayers" THEN [p \in Prayers |-> <<>>] ELSE <<>>]
        BY <2>0, <3>1 DEF Empty, Default, Sections
      <4> QED BY <4>1 DEF Readable, Sections, PlaceReadable, PrayerReadable, NotificationReadable
    <3>2. CASE file # NoFile
      BY <1>0, <1>3, <2>0, <3>2 DEF FileOK, HandEdit
    <3> QED BY <3>1, <3>2
  <2>3. /\ e.section = "prayers" <=> e.prayer # Nil
        /\ e.key \in {"refresh_interval", "offset", "timeout"} => e.text \in Int
        /\ e.key = "reminders" /\ e.text # NotArray => e.text \in Seq(Int)
    BY <1>0, <2>1, ArgumentsAssumption DEF HandleInv
  <2>4. CASE e.prayer = Nil
    <3>1. file' = [doc EXCEPT ![e.section] = Written(@, e.key, e.text)] /\ e.section # "prayers"
      BY <2>1, <2>3, <2>4
    <3>2. DOMAIN file' = Sections /\ file'.prayers = doc.prayers
      BY <2>2, <3>1 DEF Readable, Sections
    <3>3. file'.location \in {doc.location, Written(doc.location, e.key, e.text)}
      BY <2>2, <3>1 DEF Readable, Sections
    <3>4. PlaceReadable(Written(doc.location, e.key, e.text))
      BY <2>2, <2>3 DEF Readable, PlaceReadable, Written
    <3>5. file'.notification \in {doc.notification, Written(doc.notification, e.key, e.text)}
      BY <2>2, <3>1 DEF Readable, Sections
    <3>6. NotificationReadable(Written(doc.notification, e.key, e.text))
      BY <2>2, <2>3 DEF Readable, NotificationReadable, Written
    <3> QED BY <2>2, <3>2, <3>3, <3>4, <3>5, <3>6 DEF FileOK, Readable
  <2>5. CASE e.prayer # Nil
    <3>1. file' = [doc EXCEPT !.prayers[e.prayer] = Written(@, e.key, e.text)]
      BY <2>1, <2>5
    <3>2. /\ DOMAIN file' = Sections /\ file'.location = doc.location
          /\ file'.notification = doc.notification
          /\ file'.prayers = [doc.prayers EXCEPT ![e.prayer] = Written(@, e.key, e.text)]
      BY <2>2, <3>1 DEF Readable, Sections
    <3>3. ASSUME NEW p \in Prayers PROVE PrayerReadable(file'.prayers[p])
      <4>1. file'.prayers[p] \in {doc.prayers[p], Written(doc.prayers[p], e.key, e.text)}
        BY <2>2, <3>2 DEF Readable
      <4>2. PrayerReadable(Written(doc.prayers[p], e.key, e.text))
        BY <2>2, <2>3 DEF Readable, PrayerReadable, Written
      <4> QED BY <2>2, <4>1, <4>2 DEF Readable
    <3> QED BY <2>2, <3>2, <3>3 DEF FileOK, Readable
  <2> QED BY <2>4, <2>5
<1>4. CASE FileLost
  BY <1>4 DEF FileLost, FileOK
<1> QED BY <1>1, <1>2, <1>3, <1>4
        DEF Next, Start, Refuse, Open, LookUp, Probe, Failure, Finish, vars

\* Every handle is in normal form at every place in a command.
LEMMA HandleStep ==
  ASSUME IInv, [Next]_vars PROVE HandleInv'
<1>0. FileOK /\ HandleInv
  BY DEF IInv
<1>1. ASSUME NEW a \in Commands[group], Start(a) PROVE HandleInv'
  BY <1>0, <1>1 DEF Start, HandleInv
<1>2. CASE Refuse \/ Save \/ Failure \/ Finish
  BY <1>0, <1>2 DEF Refuse, Save, Failure, Finish, End, HandleInv
<1>3. CASE Open
  <2>1. PICK c : c = Load(file)
    OBVIOUS
  <2>2. /\ pc = "load" /\ ~Refused(command) /\ base' = c /\ report = Nil
        /\ UNCHANGED <<group, command, report>> /\ group \in Groups /\ command \in Commands[group]
    BY <1>0, <1>3, <2>1 DEF Open, HandleInv
  <2>3. Good(c)
    BY <1>0, <1>3, <2>1, LoadGood DEF Open
  <2>4. \/ LooksUp(command, c) /\ pc' = "lookup" /\ cfg' = c
        \/ pc' = "probe" /\ cfg' = c
        \/ pc' \in {"save", "fail"} /\ cfg' = Edit(command, c).cfg
        \/ pc' = "done" /\ cfg' = c
    BY <1>3, <2>1 DEF Open
  <2>5. Good(Edit(command, c).cfg)
    BY <2>2, <2>3, EditGood
  <2>6. Good(cfg')
    BY <2>3, <2>4, <2>5
  <2>7. pc' = "lookup" => LooksUp(command', cfg')
    BY <2>2, <2>4
  <2>8. ~Refused(command')
    BY <2>2
  <2>9. pc' \in {"lookup", "probe", "save", "fail", "done"}
    BY <2>4
  <2> QED BY <2>2, <2>3, <2>6, <2>7, <2>8, <2>9 DEF HandleInv
<1>4. CASE LookUp
  <2>1. /\ pc = "lookup" /\ Good(cfg) /\ Good(base) /\ ~Refused(command) /\ group \in Groups
        /\ command \in Commands[group] /\ UNCHANGED <<group, command, base>>
    BY <1>0, <1>4 DEF LookUp, HandleInv
  <2>2. PICK answer \in Answers(host), r \in Replies :
          LET d == Detect(cfg, answer, r, host)
          IN  \/ pc' = "fail" /\ UNCHANGED <<cfg, report>>
              \/ pc' \in {"save", "fail"} /\ cfg' = Edit(command, d.cfg).cfg
    BY <1>4 DEF LookUp
  <2>3. PICK k : k = Detect(cfg, answer, r, host).cfg /\ Good(k)
    BY <2>1, DetectTells
  <2>4. Good(Edit(command, k).cfg)
    BY <2>1, <2>3, EditGood
  <2>5. Good(cfg') /\ pc' \in {"save", "fail"}
    BY <2>1, <2>2, <2>3, <2>4
  <2> QED BY <2>1, <2>5 DEF HandleInv
<1>5. CASE Probe
  <2>1. /\ pc = "probe" /\ Good(cfg) /\ Good(base) /\ ~Refused(command) /\ group \in Groups
        /\ command \in Commands[group] /\ UNCHANGED <<group, command, base>>
    BY <1>0, <1>5 DEF Probe, HandleInv
  <2>2. PICK answer \in Answers(host) :
          cfg' = SwitchGpsOn(cfg, answer, host).cfg /\ pc' \in {"save", "fail"}
    BY <1>5 DEF Probe
  <2>3. Good(cfg')
    BY <2>1, <2>2, ReceiverOn
  <2> QED BY <2>1, <2>2, <2>3 DEF HandleInv
<1>6. CASE HandEdit \/ FileLost \/ UNCHANGED vars
  <2>1. UNCHANGED <<group, pc, command, base, cfg, report>>
    BY <1>6 DEF HandEdit, FileLost, vars
  <2> QED BY <1>0, <2>1 DEF HandleInv
<1> QED BY <1>0, <1>1, <1>2, <1>3, <1>4, <1>5, <1>6 DEF Next

LEMMA TypeStep ==
  ASSUME IInv, HandleInv', [Next]_vars PROVE TypeOK'
<1>0. TypeOK /\ HandleInv
  BY DEF IInv
<1>1. (cfg # Nil => Normal(cfg))' /\ (base # Nil => Normal(base))'
  <2>1. (pc \in {"idle", "load"} => cfg = Nil /\ base = Nil)'
    BY DEF HandleInv
  <2>2. (pc \notin {"idle", "load"} => Good(cfg) /\ Good(base))'
    BY DEF HandleInv
  <2>3. \A c : Good(c) => Normal(c)
    BY GoodIsNormal
  <2> QED BY <2>1, <2>2, <2>3
<1>2. pc' \in {"idle", "load", "lookup", "probe", "save", "fail", "done"}
  BY <1>0 DEF TypeOK, Next, Start, Refuse, Open, LookUp, Probe, Save, Failure, Finish, End,
     HandEdit, FileLost, vars
<1>3. ((pc = "idle") = (command = Nil))'
  <2>1. (pc # "idle" => command \in Commands[group] /\ group \in Groups)'
    BY DEF HandleInv
  <2>2. pc' = "idle" => command' = Nil
    BY <1>0 DEF TypeOK, Next, Start, Refuse, Open, LookUp, Probe, Save, Failure, Finish, End,
       HandEdit, FileLost, vars
  <2> QED BY <2>1, <2>2, SettingsAssumption
<1>4. reply' \in {"none", "ok", "failed"}
  BY <1>0 DEF TypeOK, Next, Start, Refuse, Open, LookUp, Probe, Save, Failure, Finish, End,
     HandEdit, FileLost, vars
<1>5. commands' \in 0..MaxCommands
  BY <1>0, SettingsAssumption DEF TypeOK, Next, Start, Refuse, Open, LookUp, Probe, Save, Failure,
     Finish, End, HandEdit, FileLost, vars
<1>6. edits' \in 0..MaxEdits
  BY <1>0, SettingsAssumption DEF TypeOK, Next, Start, Refuse, Open, LookUp, Probe, Save, Failure,
     Finish, End, HandEdit, FileLost, vars
<1> QED BY <1>1, <1>2, <1>3, <1>4, <1>5, <1>6 DEF TypeOK

LEMMA ReportIs ==
  ReportsTrue <=> (pc = "save" /\ report # Nil =>
                     Told(report.was_on, report.answer, report.reply, report.out, cfg.location))
BY DEF ReportsTrue, Told

\* Only a lookup makes a report, and its command saves the place it is about.
LEMMA ReportStep ==
  ASSUME IInv, [Next]_vars PROVE ReportsTrue'
<1>0. HandleInv /\ ReportsTrue
  BY DEF IInv
<1>1. CASE LookUp
  <2> SUFFICES ASSUME pc' = "save", report' # Nil
               PROVE  Told(report'.was_on, report'.answer, report'.reply, report'.out, cfg'.location)
    BY DEF ReportsTrue, Told
  <2>1. /\ pc = "lookup" /\ Good(cfg) /\ LooksUp(command, cfg) /\ group \in Groups
        /\ command \in Commands[group]
    BY <1>0, <1>1 DEF LookUp, HandleInv
  <2>2. PICK answer \in Answers(host), r \in Replies :
          LET d == Detect(cfg, answer, r, host)
          IN  /\ d.ok /\ cfg' = Edit(command, d.cfg).cfg
              /\ report' = [was_on |-> cfg.location.use_gps, answer |-> answer,
                            reply |-> r, out |-> d.out]
    BY <1>1 DEF LookUp
  <2>3. PICK d : d = Detect(cfg, answer, r, host)
    OBVIOUS
  <2>4. Good(d.cfg) /\ Told(cfg.location.use_gps, answer, r, d.out, d.cfg.location)
    BY <2>1, <2>2, <2>3, DetectTells
  <2>5. /\ cfg'.location.use_gps = d.cfg.location.use_gps
        /\ cfg'.location.latitude = d.cfg.location.latitude
        /\ cfg'.location.longitude = d.cfg.location.longitude
    BY <2>1, <2>2, <2>3, <2>4, PlaceStays
  <2>6. /\ report'.was_on = cfg.location.use_gps /\ report'.answer = answer
        /\ report'.reply = r /\ report'.out = d.out
    BY <2>2, <2>3
  <2>7. Told(cfg.location.use_gps, answer, r, d.out, cfg'.location)
    BY <2>4, <2>5 DEF Told
  <2> QED BY <2>6, <2>7
<1>2. CASE Open \/ Probe
  BY <1>0, <1>2 DEF Open, Probe, HandleInv, ReportsTrue
<1>3. CASE Refuse \/ Save \/ Failure \/ Finish \/ \E a \in Commands[group] : Start(a)
  BY <1>3 DEF Refuse, Save, Failure, Finish, End, Start, ReportsTrue
<1>4. CASE HandEdit \/ FileLost \/ UNCHANGED vars
  <2>1. UNCHANGED <<pc, report, cfg>>
    BY <1>4 DEF HandEdit, FileLost, vars
  <2> QED BY <1>0, <2>1 DEF ReportsTrue
<1> QED BY <1>1, <1>2, <1>3, <1>4 DEF Next

-----------------------------------------------------------------------------
\* The invariant from which the theorems follow.
THEOREM Inductive == Spec => []IInv
<1>1. IInv /\ [Next]_vars => IInv'
  <2> SUFFICES ASSUME IInv, [Next]_vars PROVE IInv'
    OBVIOUS
  <2>1. FileOK' /\ HandleInv' /\ ReportsTrue'
    BY FileStep, HandleStep, ReportStep
  <2>2. TypeOK'
    BY <2>1, TypeStep
  <2> QED BY <2>1, <2>2 DEF IInv
<1> QED BY InitInv, <1>1, PTL DEF Spec

\* Every handle is in normal form, whatever was written into the file by hand
\* and whichever commands ran on it: no receiver without detection, no refresh
\* below an hour, a known sound mode, at most ten reminders and all of them in
\* range, offsets in range (config.c:449-471, muslimtify_settings.c:248-251).
THEOREM TypeCorrect == Spec => []TypeOK
<1>1. IInv => TypeOK
  BY DEF IInv
<1> QED BY <1>1, Inductive, PTL

\* What a detection reports of the place's source and of the receiver is so, in
\* the handle that is saved, for every answer of receiver and lookup and every
\* command that looks a place up (location.c:319-341,
\* muslimtify_location.c:45-59).
THEOREM DetectionReportsTruly == Spec => []ReportsTrue
<1>1. IInv => ReportsTrue
  BY DEF IInv
<1> QED BY <1>1, Inductive, PTL

-----------------------------------------------------------------------------
\* A config as a load makes it has every field, and every name fits its own.
Fits(name) == name \notin DOMAIN Cut

PlaceLoaded(l) ==
  /\ PlaceGood(l) /\ DOMAIN l = DOMAIN DefaultLocation
  /\ Fits(l.timezone) /\ Fits(l.city) /\ Fits(l.country)

PrayerLoaded(q) ==
  /\ DOMAIN q = DOMAIN DefaultPrayer
  /\ q.enabled \in BOOLEAN /\ q.adhan_enabled \in BOOLEAN /\ Fits(q.adhan)
  /\ RemindersGood(q.reminders) /\ OffsetGood(q.offset)

NotificationLoaded(n) ==
  /\ NotificationGood(n) /\ DOMAIN n = DOMAIN DefaultRest.notification
  /\ n.timeout >= -IntMax - 1 /\ n.timeout <= IntMax
  /\ \A key \in DOMAIN n \ {"timeout", "sound"} : Fits(n[key])

CalculationLoaded(k) ==
  DOMAIN k = DOMAIN DefaultRest.calculation /\ Fits(k.method) /\ Fits(k.madhab)

DisplayLoaded(d) == DOMAIN d = {"time_format"} /\ d.time_format \in {12, 24}

Loaded(c) ==
  /\ DOMAIN c = Sections
  /\ PlaceLoaded(c.location)
  /\ DOMAIN c.prayers = Prayers /\ \A p \in Prayers : PrayerLoaded(c.prayers[p])
  /\ NotificationLoaded(c.notification) /\ CalculationLoaded(c.calculation)
  /\ DisplayLoaded(c.display)

LEMMA FitFits == \A name : Fits(Fit(name)) /\ (Fits(name) => Fit(name) = name)
BY NamesAssumption DEF Fits, Fit

\* What a load makes of what a save has written of a section.
LEMMA PlaceBack ==
  ASSUME NEW l, PlaceGood(l), DOMAIN l = DOMAIN DefaultLocation
  PROVE  ReadLocation(SectionText(l)) =
           [key \in DOMAIN DefaultLocation |->
              IF key \in Decimals THEN SixDecimals(l[key])
              ELSE IF key \in {"timezone", "city", "country"} THEN Fit(l[key]) ELSE l[key]]
<1> DEFINE back == [key \in DOMAIN DefaultLocation |->
              IF key \in Decimals THEN SixDecimals(l[key])
              ELSE IF key \in {"timezone", "city", "country"} THEN Fit(l[key]) ELSE l[key]]
           read == Read(DefaultLocation, SectionText(l), LocationValue)
<1>1. \A key \in DOMAIN DefaultLocation :
        read[key] = LocationValue(key, Text(key, l[key]))
  BY DEF Read, SectionText
<1>2. \A key : key \in Flags => key \notin Decimals /\ key \notin {"timezone", "city", "country"}
  BY DEF Flags, Decimals
<1>3. \A key : key \in Decimals => key \notin {"timezone", "city", "country"}
  BY DEF Decimals
<1>4. \A key \in DOMAIN DefaultLocation : key \in Flags => l[key] \in BOOLEAN
  BY DEF DefaultLocation, Flags, PlaceGood
<1>5. \A b \in BOOLEAN : (FlagText(b) = "true") = b
  BY DEF FlagText
<1>6. \A key \in DOMAIN DefaultLocation : read[key] = back[key]
  BY <1>1, <1>2, <1>3, <1>4, <1>5 DEF LocationValue, Text
<1>7. read = back
  BY <1>6 DEF Read
<1>8. back.use_gps = l.use_gps /\ back.auto_detect = l.auto_detect
      /\ back.refresh_interval = l.refresh_interval
  BY DEF DefaultLocation, Decimals
<1>9. ReadLocation(SectionText(l)) =
        [read EXCEPT !.use_gps = @ /\ read.auto_detect,
                     !.refresh_interval = IF @ > 0 /\ @ < MinRefresh THEN MinRefresh ELSE @]
  BY DEF ReadLocation
<1>10. back.use_gps = (back.use_gps /\ back.auto_detect)
  BY <1>8 DEF PlaceGood
<1>11. ~(back.refresh_interval > 0 /\ back.refresh_interval < MinRefresh)
  <2>1. PICK n \in Int : n = l.refresh_interval /\ n \notin 1..(MinRefresh - 1)
    BY DEF PlaceGood
  <2>2. MinRefresh \in Nat
    BY DEF MinRefresh
  <2>3. ~(n > 0 /\ n < MinRefresh)
    BY <2>1, <2>2
  <2> HIDE DEF back
  <2> QED BY <1>8, <2>1, <2>3
<1> HIDE DEF back, read
<1>12. ReadLocation(SectionText(l)) =
        [back EXCEPT !.use_gps = back.use_gps /\ back.auto_detect,
                     !.refresh_interval = IF back.refresh_interval > 0 /\ back.refresh_interval < MinRefresh
                                          THEN MinRefresh ELSE back.refresh_interval]
  BY <1>7, <1>9
<1>13. [back EXCEPT !.use_gps = back.use_gps, !.refresh_interval = back.refresh_interval] = back
  BY DEF back
<1> QED BY <1>10, <1>11, <1>12, <1>13 DEF back

\* An array within the bounds is read as it is.
LEMMA NthOfAll == ASSUME NEW len \in Nat, NEW n \in 1..len PROVE Nth(1..len, n) = n
<1>1. \A i \in 1..len : {j \in 1..len : j <= i} = 1..i
  OBVIOUS
<1>2. \A i \in 1..len : Cardinality(1..i) = i
  BY FS_Interval
<1>3. \A i \in 1..len : Cardinality({j \in 1..len : j <= i}) = i
  BY <1>1, <1>2
<1>4. \E i \in 1..len : Cardinality({j \in 1..len : j <= i}) = n
  BY <1>3
<1> QED BY <1>3, <1>4 DEF Nth

LEMMA RemindersBack ==
  ASSUME NEW r, RemindersGood(r) PROVE ReadReminders(r) = r
<1> DEFINE read == {i \in DOMAIN r : \A j \in 1..i : r[j] >= 0}
           taken == {i \in read : r[i] \in 1..1440}
           len == Len(r)
<1>1. /\ r \in Seq(Int) /\ len \in Nat /\ len <= 10 /\ DOMAIN r = 1..len
      /\ \A i \in 1..len : r[i] \in Int /\ r[i] >= 1 /\ r[i] <= 1440
  BY DEF RemindersGood, MaxReminders
<1> HIDE DEF len
<1>2. \A i \in 1..len : \A j \in 1..i : r[j] >= 0
  BY <1>1
<1>3. \A i \in 1..len : r[i] \in 1..1440
  <2> SUFFICES ASSUME NEW i \in 1..len PROVE r[i] \in 1..1440
    OBVIOUS
  <2>1. PICK x : x \in Int /\ x = r[i] /\ x >= 1 /\ x <= 1440
    BY <1>1
  <2>2. x \in 1..1440
    BY ONLY <2>1, SMTT(30)
  <2> QED BY ONLY <2>1, <2>2
<1>4. taken = 1..len
  <2>1. \A i : i \in read <=> i \in 1..len
    BY <1>1, <1>2
  <2> HIDE DEF read
  <2>2. \A i \in taken : i \in 1..len
    BY <2>1
  <2>3. \A i \in 1..len : i \in taken
    <3> SUFFICES ASSUME NEW i \in 1..len PROVE i \in taken
      OBVIOUS
    <3>1. i \in read /\ r[i] \in 1..1440
      BY <1>3, <2>1
    <3> QED BY <3>1
  <2> HIDE DEF taken
  <2> QED BY ONLY <2>2, <2>3
<1>5. Cardinality(1..len) = len
  <2>1. CASE len = 0
    BY <2>1, FS_Interval
  <2>2. CASE len >= 1
    BY <1>1, <2>2, FS_Interval
  <2> QED BY <1>1, <2>1, <2>2
<1>6. Clamped(len, 0, MaxReminders) = len
  BY <1>1 DEF Clamped, MaxReminders
<1>7. ReadReminders(r) = [n \in 1..Clamped(Cardinality(taken), 0, MaxReminders) |-> r[Nth(taken, n)]]
  BY DEF ReadReminders
<1> HIDE DEF taken
<1>8. ReadReminders(r) = [n \in 1..len |-> r[Nth(1..len, n)]]
  BY <1>4, <1>5, <1>6, <1>7
<1>9. [n \in 1..len |-> r[Nth(1..len, n)]] = [n \in 1..len |-> r[n]]
  BY <1>1, NthOfAll
<1>10. r = [n \in 1..len |-> r[n]]
  BY <1>1
<1> QED BY <1>8, <1>9, <1>10

LEMMA PrayerBack ==
  ASSUME NEW q, DOMAIN q = DOMAIN DefaultPrayer,
         q.enabled \in BOOLEAN, q.adhan_enabled \in BOOLEAN,
         RemindersGood(q.reminders), OffsetGood(q.offset)
  PROVE  Read(DefaultPrayer, SectionText(q), PrayerValue) =
           [key \in DOMAIN DefaultPrayer |-> IF key = "adhan" THEN Fit(q[key]) ELSE q[key]]
<1> DEFINE read == Read(DefaultPrayer, SectionText(q), PrayerValue)
<1>1. \A key \in DOMAIN DefaultPrayer : read[key] = PrayerValue(key, Text(key, q[key]))
  BY DEF Read, SectionText
<1>2. DOMAIN DefaultPrayer = {"enabled", "adhan", "adhan_enabled", "reminders", "offset"}
  BY DEF DefaultPrayer
<1>3. \A b \in BOOLEAN : (FlagText(b) = "true") = b
  BY DEF FlagText
<1>4. read["enabled"] = q.enabled /\ read["adhan_enabled"] = q.adhan_enabled
  <2>1. /\ \A x : Text("enabled", x) = FlagText(x) /\ Text("adhan_enabled", x) = FlagText(x)
        /\ \A x : PrayerValue("enabled", x) = (x = "true")
        /\ \A x : PrayerValue("adhan_enabled", x) = (x = "true")
    BY DEF PrayerValue, Text, Flags, Decimals
  <2> HIDE DEF read
  <2> QED BY <1>1, <1>2, <1>3, <2>1
<1>5. read["adhan"] = Fit(q.adhan)
  BY <1>1, <1>2 DEF PrayerValue, Text, Flags, Decimals
<1>6. read["reminders"] = q.reminders
  <2>1. read["reminders"] = PrayerValue("reminders", q.reminders)
    BY <1>1, <1>2 DEF Text, Flags, Decimals
  <2>2. \A x : x # NotArray => PrayerValue("reminders", x) = ReadReminders(x)
    BY DEF PrayerValue, Flags
  <2>3. q.reminders # NotArray
    <3>1. q.reminders \in Seq(Int)
      BY DEF RemindersGood
    <3>2. NotArray \notin Seq(Int)
      BY NamesAssumption, Zenon
    <3> QED BY ONLY <3>1, <3>2
  <2> HIDE DEF read
  <2> QED BY <2>1, <2>2, <2>3, RemindersBack
<1>7. read["offset"] = q.offset
  <2>1. read["offset"] = Clamped(q.offset, OffsetMin, OffsetMax)
    BY <1>1, <1>2 DEF PrayerValue, Text, Flags, Decimals
  <2> HIDE DEF read
  <2> QED BY <2>1 DEF Clamped, OffsetGood, OffsetMin, OffsetMax
<1>8. \A key \in DOMAIN DefaultPrayer : read[key] = IF key = "adhan" THEN Fit(q[key]) ELSE q[key]
  <2> HIDE DEF read
  <2> QED BY <1>2, <1>4, <1>5, <1>6, <1>7
<1>9. read = [key \in DOMAIN DefaultPrayer |-> read[key]]
  BY DEF Read
<1> HIDE DEF read
<1> QED BY <1>8, <1>9 DEF read

LEMMA NotificationBack ==
  ASSUME NEW n, NotificationGood(n), DOMAIN n = DOMAIN DefaultRest.notification,
         n.timeout >= -IntMax - 1, n.timeout <= IntMax
  PROVE  Read(DefaultRest.notification, SectionText(n), NotificationValue) =
           [key \in DOMAIN DefaultRest.notification |->
              IF key \in {"timeout", "sound"} THEN n[key] ELSE Fit(n[key])]
<1> DEFINE read == Read(DefaultRest.notification, SectionText(n), NotificationValue)
<1>1. \A key \in DOMAIN DefaultRest.notification :
        read[key] = NotificationValue(key, Text(key, n[key]))
  BY DEF Read, SectionText
<1>2. DOMAIN DefaultRest.notification =
        {"timeout", "urgency", "sound", "sound_alarm", "sound_reminder", "icon"}
  BY DEF DefaultRest
<1>3. \A key \in DOMAIN DefaultRest.notification : \A x : Text(key, x) = x
  BY <1>2 DEF Text, Decimals, Flags
<1>4. NotificationValue("timeout", n.timeout) = n.timeout
  BY ConfigFileAssumption DEF NotificationValue, Clamped, NotificationGood
<1>5. NotificationValue("sound", n.sound) = n.sound
  BY DEF NotificationValue, SoundMode, NotificationGood
<1>6. \A key, x : key \notin {"timeout", "sound"} => NotificationValue(key, x) = Fit(x)
  BY DEF NotificationValue
<1> HIDE DEF read
<1>7. \A key \in DOMAIN DefaultRest.notification :
        read[key] = IF key \in {"timeout", "sound"} THEN n[key] ELSE Fit(n[key])
  BY <1>1, <1>2, <1>3, <1>4, <1>5, <1>6
<1>8. read = [key \in DOMAIN DefaultRest.notification |-> read[key]]
  BY DEF Read, read
<1> QED BY <1>7, <1>8 DEF read

\* The angles come back for the method "custom".
LEMMA CalculationBack ==
  ASSUME NEW k, DOMAIN k = DOMAIN DefaultRest.calculation
  PROVE  LET back == Read(DefaultRest.calculation, CalculationText(k), CalculationValue)
         IN  /\ back.method = Fit(k.method) /\ back.madhab = Fit(k.madhab)
             /\ k.method = "custom" => /\ back.fajr_angle = SixDecimals(k.fajr_angle)
                                       /\ back.isha_angle = SixDecimals(k.isha_angle)
<1> DEFINE back == Read(DefaultRest.calculation, CalculationText(k), CalculationValue)
           text == CalculationText(k)
<1>1. DOMAIN k = {"method", "madhab", "fajr_angle", "isha_angle"}
  BY DEF DefaultRest
<1>2. /\ "method" \in DOMAIN text /\ text["method"] = k.method
      /\ "madhab" \in DOMAIN text /\ text["madhab"] = k.madhab
      /\ k.method = "custom" =>
           /\ "fajr_angle" \in DOMAIN text /\ text["fajr_angle"] = SixDecimals(k.fajr_angle)
           /\ "isha_angle" \in DOMAIN text /\ text["isha_angle"] = SixDecimals(k.isha_angle)
  BY <1>1 DEF CalculationText, SectionText, Restrict, Text, Decimals, Flags
<1>3. \A key \in DOMAIN k : key \in DOMAIN text => back[key] = CalculationValue(key, text[key])
  BY DEF Read
<1> HIDE DEF back, text
<1>4. back.method = Fit(k.method) /\ back.madhab = Fit(k.madhab)
  BY <1>1, <1>2, <1>3 DEF CalculationValue
<1>5. k.method = "custom" => /\ back.fajr_angle = SixDecimals(k.fajr_angle)
                             /\ back.isha_angle = SixDecimals(k.isha_angle)
  BY <1>1, <1>2, <1>3 DEF CalculationValue
<1> QED BY <1>4, <1>5 DEF back

LEMMA DisplayBack ==
  ASSUME NEW d, DisplayLoaded(d)
  PROVE  Read(DefaultRest.display, SectionText(d), DisplayValue).time_format = d.time_format
BY DEF DisplayLoaded, Read, SectionText, DefaultRest, DisplayValue, Text, Decimals, Flags

\* What a load makes of the file has every field, and every name fits.
LEMMA PlaceLoads ==
  ASSUME NEW text, PlaceReadable(text) PROVE PlaceLoaded(ReadLocation(text))
<1> DEFINE read == Read(DefaultLocation, text, LocationValue)
           l == ReadLocation(text)
<1>1. DOMAIN l = DOMAIN DefaultLocation
  BY DEF ReadLocation, Read
<1>2. l.timezone = read.timezone /\ l.city = read.city /\ l.country = read.country
  BY DEF ReadLocation, Read, DefaultLocation
<1>3. /\ read.timezone = IF "timezone" \in DOMAIN text THEN Fit(text["timezone"]) ELSE "UTC"
      /\ read.city = IF "city" \in DOMAIN text THEN Fit(text["city"]) ELSE ""
      /\ read.country = IF "country" \in DOMAIN text THEN Fit(text["country"]) ELSE ""
  <2>1. \A key \in DOMAIN DefaultLocation :
          read[key] = IF key \in DOMAIN text THEN LocationValue(key, text[key]) ELSE DefaultLocation[key]
    BY DEF Read
  <2>2. \A key \in {"timezone", "city", "country"} :
          \A x : LocationValue(key, x) = Fit(x)
    BY DEF LocationValue, Flags
  <2>3. /\ {"timezone", "city", "country"} \subseteq DOMAIN DefaultLocation
        /\ DefaultLocation.timezone = "UTC" /\ DefaultLocation.city = "" /\ DefaultLocation.country = ""
    BY DEF DefaultLocation
  <2> HIDE DEF read
  <2> QED BY <2>1, <2>2, <2>3
<1>4. Fits("UTC") /\ Fits("")
  BY NamesAssumption DEF Fits
<1> HIDE DEF read
<1>6. Fits(l.timezone) /\ Fits(l.city) /\ Fits(l.country)
  <2>1. Fits(read.timezone) /\ Fits(read.city) /\ Fits(read.country)
    <3>1. \A name : Fits(Fit(name))
      BY FitFits
    <3>2. Fits(read.timezone)
      BY <1>3, <1>4, <3>1
    <3>3. Fits(read.city)
      BY <1>3, <1>4, <3>1
    <3>4. Fits(read.country)
      BY <1>3, <1>4, <3>1
    <3> QED BY <3>2, <3>3, <3>4
  <2> HIDE DEF l
  <2> QED BY <1>2, <2>1, Zenon
<1> HIDE DEF l
<1>7. PlaceGood(l)
  BY LocationRead DEF l
<1> QED BY <1>1, <1>6, <1>7 DEF PlaceLoaded, l

LEMMA PrayerLoads ==
  ASSUME NEW text, PrayerReadable(text)
  PROVE  PrayerLoaded(Read(DefaultPrayer, text, PrayerValue))
<1> DEFINE q == Read(DefaultPrayer, text, PrayerValue)
<1>1. DOMAIN q = DOMAIN DefaultPrayer
  BY DEF Read
<1>2. \A key \in DOMAIN DefaultPrayer :
        q[key] = IF key \in DOMAIN text THEN PrayerValue(key, text[key]) ELSE DefaultPrayer[key]
  BY DEF Read
<1>3. /\ \A x : PrayerValue("enabled", x) = (x = "true")
      /\ \A x : PrayerValue("adhan_enabled", x) = (x = "true")
      /\ \A x : PrayerValue("adhan", x) = Fit(x)
  BY DEF PrayerValue, Flags
<1>4. /\ {"enabled", "adhan_enabled", "adhan"} \subseteq DOMAIN DefaultPrayer
      /\ DefaultPrayer.enabled = TRUE /\ DefaultPrayer.adhan_enabled = TRUE
      /\ DefaultPrayer.adhan = "bundled"
  BY DEF DefaultPrayer
<1>5. Fits("bundled")
  BY NamesAssumption DEF Fits
<1> HIDE DEF q
<1>6. q.enabled = IF "enabled" \in DOMAIN text THEN text["enabled"] = "true" ELSE TRUE
  BY <1>2, <1>3, <1>4, Zenon
<1>7. q.adhan_enabled = IF "adhan_enabled" \in DOMAIN text THEN text["adhan_enabled"] = "true" ELSE TRUE
  BY <1>2, <1>3, <1>4, Zenon
<1>8. q.enabled \in BOOLEAN /\ q.adhan_enabled \in BOOLEAN
  BY <1>6, <1>7
<1>9. Fits(q.adhan)
  BY <1>2, <1>3, <1>4, <1>5, FitFits
<1>10. RemindersGood(q.reminders) /\ OffsetGood(q.offset)
  BY PrayerRead DEF q
<1> QED BY <1>1, <1>8, <1>9, <1>10 DEF PrayerLoaded, q

LEMMA RestLoads ==
  /\ \A text : NotificationReadable(text) =>
       NotificationLoaded(Read(DefaultRest.notification, text, NotificationValue))
  /\ \A text : CalculationLoaded(Read(DefaultRest.calculation, text, CalculationValue))
  /\ \A text : DisplayLoaded(Read(DefaultRest.display, text, DisplayValue))
<1>1. ASSUME NEW text, NotificationReadable(text)
      PROVE  NotificationLoaded(Read(DefaultRest.notification, text, NotificationValue))
  <2> DEFINE n == Read(DefaultRest.notification, text, NotificationValue)
             names == DOMAIN DefaultRest.notification \ {"timeout", "sound"}
  <2>1. DOMAIN n = DOMAIN DefaultRest.notification
    BY DEF Read
  <2>2. \A key \in names :
          n[key] = IF key \in DOMAIN text THEN Fit(text[key]) ELSE DefaultRest.notification[key]
    BY DEF Read, NotificationValue
  <2>3. \A key \in names : DefaultRest.notification[key] \in {"critical", "alarm", "reminder", "muslimtify"}
    BY DEF DefaultRest
  <2>4. \A name \in {"critical", "alarm", "reminder", "muslimtify"} : Fits(name)
    BY NamesAssumption DEF Fits
  <2> HIDE DEF n
  <2>5. \A key \in names : Fits(n[key])
    <3> HIDE DEF names
    <3> QED BY <2>2, <2>3, <2>4, FitFits
  <2>6. NotificationGood(n) /\ n.timeout >= -IntMax - 1 /\ n.timeout <= IntMax
    BY <1>1, NotificationRead DEF n
  <2> QED BY <2>1, <2>5, <2>6 DEF NotificationLoaded, n
<1>2. ASSUME NEW text
      PROVE  CalculationLoaded(Read(DefaultRest.calculation, text, CalculationValue))
  <2> DEFINE k == Read(DefaultRest.calculation, text, CalculationValue)
  <2>1. DOMAIN k = DOMAIN DefaultRest.calculation
    BY DEF Read
  <2>2. k.method = IF "method" \in DOMAIN text THEN Fit(text["method"]) ELSE "kemenag"
    BY DEF Read, DefaultRest, CalculationValue
  <2>3. k.madhab = IF "madhab" \in DOMAIN text THEN Fit(text["madhab"]) ELSE "shafi"
    BY DEF Read, DefaultRest, CalculationValue
  <2>4. Fits("kemenag") /\ Fits("shafi")
    BY NamesAssumption DEF Fits
  <2> HIDE DEF k
  <2>5. Fits(k.method) /\ Fits(k.madhab)
    BY <2>2, <2>3, <2>4, FitFits
  <2> QED BY <2>1, <2>5 DEF CalculationLoaded, k
<1>3. ASSUME NEW text
      PROVE  DisplayLoaded(Read(DefaultRest.display, text, DisplayValue))
  BY DEF Read, DefaultRest, DisplayValue, DisplayLoaded
<1> QED BY <1>1, <1>2, <1>3

LEMMA LoadLoaded ==
  ASSUME FileOK, Loads(file) PROVE Loaded(Load(file))
<1>1. CASE file = NoFile
  <2>1. /\ Load(file) = Default
        /\ DOMAIN Default = Sections /\ Default.location = DefaultLocation
        /\ Default.prayers = [p \in Prayers |-> DefaultPrayer]
        /\ Default.notification = DefaultRest.notification
        /\ Default.calculation = DefaultRest.calculation
        /\ Default.display = DefaultRest.display
    BY <1>1 DEF Load, Default, Sections
  <2>2. \A name \in {"UTC", "", "bundled", "critical", "alarm", "reminder", "muslimtify",
                     "kemenag", "shafi"} : Fits(name)
    BY NamesAssumption DEF Fits
  <2>3. PlaceLoaded(DefaultLocation)
    <3>1. PlaceGood(DefaultLocation)
      BY DEF PlaceGood, DefaultLocation, MinRefresh
    <3>2. DefaultLocation.timezone = "UTC" /\ DefaultLocation.city = "" /\ DefaultLocation.country = ""
      BY DEF DefaultLocation
    <3> QED BY <2>2, <3>1, <3>2 DEF PlaceLoaded
  <2>4. PrayerLoaded(DefaultPrayer)
    <3>1. /\ DefaultPrayer.enabled \in BOOLEAN /\ DefaultPrayer.adhan_enabled \in BOOLEAN
          /\ Fits(DefaultPrayer.adhan)
      BY <2>2 DEF DefaultPrayer
    <3> QED BY <3>1, DefaultsGood DEF PrayerLoaded
  <2>5. NotificationLoaded(DefaultRest.notification)
    <3>1. /\ NotificationGood(DefaultRest.notification)
          /\ DefaultRest.notification.timeout >= -IntMax - 1
          /\ DefaultRest.notification.timeout <= IntMax
      BY ConfigFileAssumption DEF NotificationGood, DefaultRest
    <3>2. \A key \in DOMAIN DefaultRest.notification \ {"timeout", "sound"} :
            DefaultRest.notification[key] \in {"critical", "alarm", "reminder", "muslimtify"}
      BY DEF DefaultRest
    <3>3. \A key \in DOMAIN DefaultRest.notification \ {"timeout", "sound"} :
            Fits(DefaultRest.notification[key])
      BY <2>2, <3>2
    <3> QED BY <3>1, <3>3 DEF NotificationLoaded
  <2>6. CalculationLoaded(DefaultRest.calculation) /\ DisplayLoaded(DefaultRest.display)
    <3>1. DefaultRest.calculation.method = "kemenag" /\ DefaultRest.calculation.madhab = "shafi"
      BY DEF DefaultRest
    <3>2. CalculationLoaded(DefaultRest.calculation)
      BY <2>2, <3>1 DEF CalculationLoaded
    <3>3. DisplayLoaded(DefaultRest.display)
      BY DEF DisplayLoaded, DefaultRest
    <3> QED BY <3>2, <3>3
  <2>7. \A p \in Prayers : Default.prayers[p] = DefaultPrayer
    BY <2>1
  <2> QED BY <2>1, <2>3, <2>4, <2>5, <2>6, <2>7 DEF Loaded
<1>2. CASE file # NoFile
  <2>1. Readable(file)
    BY <1>2 DEF FileOK, Loads
  <2> DEFINE prayers == [p \in Prayers |-> Read(DefaultPrayer, file.prayers[p], PrayerValue)]
             notification == Read(DefaultRest.notification, file.notification, NotificationValue)
             display == Read(DefaultRest.display, file.display, DisplayValue)
             calculation == Read(DefaultRest.calculation, file.calculation, CalculationValue)
  <2>2. Load(file) = [location |-> ReadLocation(file.location), prayers |-> prayers,
                      notification |-> notification, calculation |-> calculation,
                      display |-> display]
    BY <1>2 DEF Load
  <2>3. PlaceLoaded(ReadLocation(file.location))
    BY <2>1, PlaceLoads DEF Readable
  <2>4. DOMAIN prayers = Prayers /\ \A p \in Prayers : PrayerLoaded(prayers[p])
    BY <2>1, PrayerLoads DEF Readable
  <2>5. NotificationLoaded(notification)
    BY <2>1, RestLoads DEF Readable
  <2>6. CalculationLoaded(calculation) /\ DisplayLoaded(display)
    BY RestLoads
  <2> HIDE DEF prayers, notification, display, calculation
  <2> QED BY <2>2, <2>3, <2>4, <2>5, <2>6 DEF Loaded, Sections
<1> QED BY <1>1, <1>2

-----------------------------------------------------------------------------
\* A field, and a field as it comes back when the handle was saved.
LEMMA Tuples ==
  /\ \A c, s, k : /\ At(c, <<s, k>>) = c[s][k]
                  /\ Kept(c, <<s, k>>) = IF k \in Decimals THEN SixDecimals(c[s][k]) ELSE c[s][k]
  /\ \A c, s, p, k : At(c, <<s, p, k>>) = c.prayers[p][k]
BY DEF At, Kept

LEMMA Saved ==
  ASSUME NEW c
  PROVE  LET d == Load(Document(c))
         IN  /\ d.location = ReadLocation(SectionText(c.location))
             /\ \A p \in Prayers :
                  d.prayers[p] = Read(DefaultPrayer, SectionText(c.prayers[p]), PrayerValue)
             /\ d.notification = Read(DefaultRest.notification, SectionText(c.notification),
                                      NotificationValue)
             /\ d.calculation = Read(DefaultRest.calculation, CalculationText(c.calculation),
                                     CalculationValue)
             /\ d.display = Read(DefaultRest.display, SectionText(c.display), DisplayValue)
<1>1. "location" \in DOMAIN Document(c) /\ "location" \notin DOMAIN NoFile
  BY DEF Document, NoFile
<1>2. Document(c) # NoFile
  BY <1>1
<1>3. /\ Document(c).location = SectionText(c.location)
      /\ Document(c).prayers = [p \in Prayers |-> SectionText(c.prayers[p])]
      /\ Document(c).notification = SectionText(c.notification)
      /\ Document(c).calculation = CalculationText(c.calculation)
      /\ Document(c).display = SectionText(c.display)
  BY DEF Document
<1> QED BY <1>2, <1>3 DEF Load

LEMMA PlaceSaved ==
  ASSUME NEW c, PlaceGood(c.location), DOMAIN c.location = DOMAIN DefaultLocation,
         NEW key \in DOMAIN DefaultLocation
  PROVE  At(Load(Document(c)), <<"location", key>>) =
           IF key \in Decimals THEN SixDecimals(c.location[key])
           ELSE IF key \in {"timezone", "city", "country"} THEN Fit(c.location[key])
                ELSE c.location[key]
<1>1. At(Load(Document(c)), <<"location", key>>) = ReadLocation(SectionText(c.location))[key]
  BY Tuples, Saved
<1> QED BY <1>1, PlaceBack

LEMMA PlaceKept ==
  ASSUME NEW b, Loaded(b), NEW c, PlaceGood(c.location),
         DOMAIN c.location = DOMAIN DefaultLocation,
         NEW key \in DOMAIN DefaultLocation, c.location[key] = b.location[key]
  PROVE  At(Load(Document(c)), <<"location", key>>) = Kept(b, <<"location", key>>)
<1>1. PICK x : x = b.location[key]
  OBVIOUS
<1>2. key \in {"timezone", "city", "country"} => Fits(x)
  BY <1>1 DEF Loaded, PlaceLoaded
<1>3. Kept(b, <<"location", key>>) = IF key \in Decimals THEN SixDecimals(x) ELSE x
  BY <1>1, Tuples
<1>4. At(Load(Document(c)), <<"location", key>>) =
        IF key \in Decimals THEN SixDecimals(x)
        ELSE IF key \in {"timezone", "city", "country"} THEN Fit(x) ELSE x
  BY <1>1, PlaceSaved
<1> QED BY <1>2, <1>3, <1>4, FitFits

LEMMA PrayerSaved ==
  ASSUME NEW c, NEW p \in Prayers, NEW key \in DOMAIN DefaultPrayer,
         DOMAIN c.prayers[p] = DOMAIN DefaultPrayer,
         c.prayers[p].enabled \in BOOLEAN, c.prayers[p].adhan_enabled \in BOOLEAN,
         RemindersGood(c.prayers[p].reminders), OffsetGood(c.prayers[p].offset)
  PROVE  At(Load(Document(c)), <<"prayers", p, key>>) =
           IF key = "adhan" THEN Fit(c.prayers[p][key]) ELSE c.prayers[p][key]
<1>1. PICK q : q = c.prayers[p]
  OBVIOUS
<1>2. At(Load(Document(c)), <<"prayers", p, key>>) =
        Read(DefaultPrayer, SectionText(q), PrayerValue)[key]
  BY <1>1, Tuples, Saved
<1>3. Read(DefaultPrayer, SectionText(q), PrayerValue) =
        [k \in DOMAIN DefaultPrayer |-> IF k = "adhan" THEN Fit(q[k]) ELSE q[k]]
  BY <1>1, PrayerBack
<1> QED BY <1>1, <1>2, <1>3

LEMMA NotificationSaved ==
  ASSUME NEW c, NEW key \in DOMAIN DefaultRest.notification,
         NotificationGood(c.notification),
         DOMAIN c.notification = DOMAIN DefaultRest.notification,
         c.notification.timeout >= -IntMax - 1, c.notification.timeout <= IntMax
  PROVE  At(Load(Document(c)), <<"notification", key>>) =
           IF key \in {"timeout", "sound"} THEN c.notification[key] ELSE Fit(c.notification[key])
<1>1. At(Load(Document(c)), <<"notification", key>>) =
        Read(DefaultRest.notification, SectionText(c.notification), NotificationValue)[key]
  BY Tuples, Saved
<1> QED BY <1>1, NotificationBack

LEMMA CalculationSaved ==
  ASSUME NEW c, DOMAIN c.calculation = DOMAIN DefaultRest.calculation
  PROVE  LET d == Load(Document(c))
         IN  /\ At(d, <<"calculation", "method">>) = Fit(c.calculation.method)
             /\ At(d, <<"calculation", "madhab">>) = Fit(c.calculation.madhab)
             /\ c.calculation.method = "custom" =>
                  \A key \in {"fajr_angle", "isha_angle"} :
                    At(d, <<"calculation", key>>) = SixDecimals(c.calculation[key])
<1>1. \A key : At(Load(Document(c)), <<"calculation", key>>) =
        Read(DefaultRest.calculation, CalculationText(c.calculation), CalculationValue)[key]
  BY Tuples, Saved
<1> QED BY <1>1, CalculationBack

LEMMA DisplaySaved ==
  ASSUME NEW c, DisplayLoaded(c.display)
  PROVE  At(Load(Document(c)), <<"display", "time_format">>) = c.display.time_format
<1>1. At(Load(Document(c)), <<"display", "time_format">>) =
        Read(DefaultRest.display, SectionText(c.display), DisplayValue)["time_format"]
  BY Tuples, Saved
<1> QED BY <1>1, DisplayBack

\* Load, save and load again lose nothing: of a config that was loaded, every
\* field comes back from the file a save writes, the decimals to six places and
\* the angles where the method is "custom" (config.c:148-234, 382-589).
THEOREM SaveLosesNothing ==
  ASSUME NEW b, Loaded(b), NEW f \in Fields,
         f \in {<<"calculation", "fajr_angle">>, <<"calculation", "isha_angle">>} =>
           b.calculation.method = "custom"
  PROVE  At(Load(Document(b)), f) = Kept(b, f)
<1>1. ASSUME NEW key \in DOMAIN DefaultLocation, f = <<"location", key>>
      PROVE  At(Load(Document(b)), f) = Kept(b, f)
  BY <1>1, PlaceKept DEF Loaded, PlaceLoaded
<1>2. ASSUME NEW key \in DOMAIN DefaultRest.notification, f = <<"notification", key>>
      PROVE  At(Load(Document(b)), f) = Kept(b, f)
  <2>1. NotificationLoaded(b.notification)
    BY DEF Loaded
  <2>2. At(Load(Document(b)), f) =
          IF key \in {"timeout", "sound"} THEN b.notification[key] ELSE Fit(b.notification[key])
    BY <1>2, <2>1, NotificationSaved DEF NotificationLoaded
  <2>3. At(Load(Document(b)), f) = b.notification[key]
    BY <2>1, <2>2, FitFits DEF NotificationLoaded
  <2>4. key \notin Decimals
    BY DEF DefaultRest, Decimals
  <2> QED BY <1>2, <2>3, <2>4, Tuples
<1>3. ASSUME NEW key \in DOMAIN DefaultRest.calculation, f = <<"calculation", key>>
      PROVE  At(Load(Document(b)), f) = Kept(b, f)
  <2>1. PICK k : k = b.calculation
    OBVIOUS
  <2>2. CalculationLoaded(k)
    BY <2>1 DEF Loaded
  <2>3. LET d == Load(Document(b))
        IN  /\ At(d, <<"calculation", "method">>) = k.method
            /\ At(d, <<"calculation", "madhab">>) = k.madhab
            /\ k.method = "custom" => \A angle \in {"fajr_angle", "isha_angle"} :
                 At(d, <<"calculation", angle>>) = SixDecimals(k[angle])
    BY <2>1, <2>2, CalculationSaved, FitFits DEF CalculationLoaded
  <2>4. key \in {"method", "madhab", "fajr_angle", "isha_angle"}
    BY DEF DefaultRest
  <2>5. Kept(b, f) = IF key \in {"fajr_angle", "isha_angle"} THEN SixDecimals(k[key]) ELSE k[key]
    BY <1>3, <2>1, <2>4, Tuples DEF Decimals
  <2>6. key \in {"fajr_angle", "isha_angle"} => k.method = "custom"
    BY <1>3, <2>1
  <2> QED BY <1>3, <2>3, <2>4, <2>5, <2>6
<1>4. ASSUME f = <<"display", "time_format">>
      PROVE  At(Load(Document(b)), f) = Kept(b, f)
  <2>1. Kept(b, f) = b.display.time_format
    BY <1>4, Tuples DEF Decimals
  <2> QED BY <1>4, <2>1, DisplaySaved DEF Loaded
<1>5. ASSUME NEW p \in Prayers, NEW key \in DOMAIN DefaultPrayer, f = <<"prayers", p, key>>
      PROVE  At(Load(Document(b)), f) = Kept(b, f)
  <2>1. PICK q : q = b.prayers[p]
    OBVIOUS
  <2>2. PrayerLoaded(q)
    BY <2>1 DEF Loaded
  <2>3. At(Load(Document(b)), f) = IF key = "adhan" THEN Fit(q[key]) ELSE q[key]
    BY <1>5, <2>1, <2>2, PrayerSaved DEF PrayerLoaded
  <2>4. At(Load(Document(b)), f) = q[key]
    BY <2>2, <2>3, FitFits DEF PrayerLoaded
  <2>5. At(b, f) = q[key]
    BY <1>5, <2>1, Tuples
  <2>6. key \notin Decimals /\ f[Len(f)] = key
    BY <1>5 DEF DefaultPrayer, Decimals
  <2> QED BY <2>4, <2>5, <2>6 DEF Kept
<1> QED BY <1>1, <1>2, <1>3, <1>4, <1>5 DEF Fields

-----------------------------------------------------------------------------
\* A handle with every field of a place, and one that is another but for some
\* of these fields.
Full(c) == DOMAIN c = Sections /\ DOMAIN c.location = DOMAIN DefaultLocation

Elsewhere(d, c) ==
  /\ DOMAIN d = Sections
  /\ d.prayers = c.prayers /\ d.notification = c.notification
  /\ d.calculation = c.calculation /\ d.display = c.display

Alike(d, c, keys) ==
  /\ Full(d) /\ Elsewhere(d, c)
  /\ \A key \in DOMAIN DefaultLocation \ keys : d.location[key] = c.location[key]

LEMMA AlikeSame == ASSUME NEW c, Full(c) PROVE Alike(c, c, {})
BY DEF Alike, Full, Elsewhere

LEMMA AlikeMore ==
  ASSUME NEW c, NEW d, NEW e, NEW K, NEW L, Alike(d, c, K), Alike(e, d, L)
  PROVE  Alike(e, c, K \cup L)
BY DEF Alike, Elsewhere

LEMMA AlikeMoved ==
  ASSUME NEW c, Full(c), NEW l, DOMAIN l = DOMAIN DefaultLocation, NEW K,
         \A key \in DOMAIN DefaultLocation \ K : l[key] = c.location[key]
  PROVE  /\ Alike([c EXCEPT !.location = l], c, K)
         /\ [c EXCEPT !.location = l].location = l
BY DEF Alike, Full, Elsewhere, Sections

-----------------------------------------------------------------------------
\* What each setter of the place does when it succeeds.
LEMMA CityDoes ==
  ASSUME NEW c, Full(c), NEW x
  PROVE  LET s == SetCity(c, x)
         IN  s.ok /\ Alike(s.cfg, c, {"city"}) /\ s.cfg.location.city = Fit(x)
<1> DEFINE l == [c.location EXCEPT !.city = Fit(x)]
<1>1. SetCity(c, x) = [ok |-> TRUE, cfg |-> [c EXCEPT !.location = l]]
  BY DEF SetCity, Ok
<1>2. SetCity(c, x).ok /\ SetCity(c, x).cfg = [c EXCEPT !.location = l]
  BY <1>1
<1>3. DOMAIN l = DOMAIN DefaultLocation /\ l.city = Fit(x)
      /\ \A key \in DOMAIN DefaultLocation \ {"city"} : l[key] = c.location[key]
  BY DEF Full, DefaultLocation
<1> HIDE DEF l
<1> QED BY <1>2, <1>3, AlikeMoved

LEMMA CountryDoes ==
  ASSUME NEW c, Full(c), NEW x, SetCountry(c, x).ok
  PROVE  LET d == SetCountry(c, x).cfg
         IN  /\ CountryIsValid(x) /\ Alike(d, c, {"country"})
             /\ d.location.country = UpperCase(x)
<1> DEFINE l == [c.location EXCEPT !.country = UpperCase(x)]
<1>1. CountryIsValid(x)
  BY DEF SetCountry, Fail
<1>2. SetCountry(c, x).cfg = [c EXCEPT !.location = l]
  BY <1>1 DEF SetCountry, Ok
<1>3. DOMAIN l = DOMAIN DefaultLocation /\ l.country = UpperCase(x)
      /\ \A key \in DOMAIN DefaultLocation \ {"country"} : l[key] = c.location[key]
  BY DEF Full, DefaultLocation
<1> HIDE DEF l
<1> QED BY <1>1, <1>2, <1>3, AlikeMoved

LEMMA RefreshDoes ==
  ASSUME NEW c, Full(c), NEW x, SetRefreshInterval(c, x).ok
  PROVE  LET d == SetRefreshInterval(c, x).cfg
         IN  Alike(d, c, {"refresh_interval"}) /\ d.location.refresh_interval = x
<1> DEFINE l == [c.location EXCEPT !.refresh_interval = x]
<1>1. SetRefreshInterval(c, x).cfg = [c EXCEPT !.location = l]
  BY DEF SetRefreshInterval, Ok, Fail
<1>2. DOMAIN l = DOMAIN DefaultLocation /\ l.refresh_interval = x
      /\ \A key \in DOMAIN DefaultLocation \ {"refresh_interval"} : l[key] = c.location[key]
  BY DEF Full, DefaultLocation
<1> HIDE DEF l
<1> QED BY <1>1, <1>2, AlikeMoved

LEMMA ZoneDoes ==
  ASSUME NEW c, Full(c), NEW x, SetTimezone(c, x).ok
  PROVE  LET d == SetTimezone(c, x).cfg
         IN  /\ Fits(x) /\ Alike(d, c, {"timezone", "timezone_offset"})
             /\ d.location.timezone = x
<1> DEFINE l == [c.location EXCEPT !.timezone = x, !.timezone_offset = ZoneOffset(x)]
<1>1. TimezoneExists(x) /\ x \notin DOMAIN Cut
  BY DEF SetTimezone, Fail
<1>2. SetTimezone(c, x).cfg = [c EXCEPT !.location = l]
  BY <1>1 DEF SetTimezone, Ok
<1>3. DOMAIN l = DOMAIN DefaultLocation /\ l.timezone = x
      /\ \A key \in DOMAIN DefaultLocation \ {"timezone", "timezone_offset"} :
           l[key] = c.location[key]
  <2>1. PICK offset : offset = ZoneOffset(x)
    OBVIOUS
  <2>2. l = [c.location EXCEPT !.timezone = x, !.timezone_offset = offset]
    BY <2>1
  <2> HIDE DEF l
  <2>3. DOMAIN l = DOMAIN DefaultLocation
        /\ \A key \in DOMAIN DefaultLocation \ {"timezone", "timezone_offset"} :
             l[key] = c.location[key]
    BY <2>2 DEF Full
  <2>4. l.timezone = x
    BY <2>2 DEF Full, DefaultLocation
  <2> QED BY <2>3, <2>4
<1> HIDE DEF l
<1> QED BY <1>1, <1>2, <1>3, AlikeMoved DEF Fits

OfPlace == {"latitude", "longitude", "timezone", "timezone_offset", "auto_detect", "use_gps",
            "city", "country"}

LEMMA MoveDoes ==
  ASSUME NEW a, NEW c, Full(c), MoveTo(a, c).ok
  PROVE  LET d == MoveTo(a, c).cfg
         IN  /\ Alike(d, c, OfPlace)
             /\ d.location.latitude = IF a.lat = Nil THEN c.location.latitude ELSE a.lat
             /\ d.location.longitude = IF a.lon = Nil THEN c.location.longitude ELSE a.lon
             /\ d.location.auto_detect = FALSE /\ d.location.use_gps = FALSE
             /\ d.location.city = "" /\ d.location.country = ""
<1> DEFINE lat == IF a.lat = Nil THEN c.location.latitude ELSE a.lat
           lon == IF a.lon = Nil THEN c.location.longitude ELSE a.lon
           l == [c.location EXCEPT
                   !.latitude = lat, !.longitude = lon, !.auto_detect = FALSE, !.use_gps = FALSE,
                   !.city = "", !.country = "", !.timezone = SystemTimezone(host),
                   !.timezone_offset = ZoneOffset(SystemTimezone(host))]
<1>1. MoveTo(a, c) = SetCoordinates(c, lat, lon)
  BY DEF MoveTo, Fail
<1> HIDE DEF lat, lon
<1>2. SetCoordinates(c, lat, lon).ok
  BY <1>1
<1>3. MoveTo(a, c).cfg = [c EXCEPT !.location = l]
  <2>1. LatitudeIsValid(lat) /\ LongitudeIsValid(lon)
    BY <1>2 DEF SetCoordinates, Fail
  <2>2. SetCoordinates(c, lat, lon).cfg = [c EXCEPT !.location = l]
    BY <2>1 DEF SetCoordinates, Ok
  <2> QED BY <1>1, <2>2
<1>4. /\ DOMAIN l = DOMAIN DefaultLocation
      /\ \A key \in DOMAIN DefaultLocation \ OfPlace : l[key] = c.location[key]
      /\ l.latitude = lat /\ l.longitude = lon /\ l.auto_detect = FALSE /\ l.use_gps = FALSE
      /\ l.city = "" /\ l.country = ""
  <2>1. PICK zone, offset : zone = SystemTimezone(host) /\ offset = ZoneOffset(SystemTimezone(host))
    OBVIOUS
  <2>2. l = [c.location EXCEPT
               !.latitude = lat, !.longitude = lon, !.auto_detect = FALSE, !.use_gps = FALSE,
               !.city = "", !.country = "", !.timezone = zone, !.timezone_offset = offset]
    BY <2>1
  <2> HIDE DEF l
  <2>3. DOMAIN l = DOMAIN DefaultLocation
        /\ \A key \in DOMAIN DefaultLocation \ OfPlace : l[key] = c.location[key]
    BY <2>2 DEF Full, OfPlace
  <2>4. l.latitude = lat /\ l.longitude = lon /\ l.auto_detect = FALSE /\ l.use_gps = FALSE
        /\ l.city = "" /\ l.country = ""
    BY <2>2 DEF Full, DefaultLocation
  <2> QED BY <2>3, <2>4
<1> HIDE DEF l
<1>5. Alike(MoveTo(a, c).cfg, c, OfPlace) /\ MoveTo(a, c).cfg.location = l
  <2>1. /\ Alike([c EXCEPT !.location = l], c, OfPlace)
        /\ [c EXCEPT !.location = l].location = l
    BY <1>4, AlikeMoved
  <2> QED BY <1>3, <2>1
<1> QED BY <1>4, <1>5 DEF lat, lon

LEMMA LabelsDo ==
  ASSUME NEW a, NEW c, Full(c), SetLabels(a, c).ok
  PROVE  LET d == SetLabels(a, c).cfg
         IN  /\ Alike(d, c, {"city", "country"})
             /\ d.location.city = IF a.city # Nil THEN Fit(a.city) ELSE c.location.city
             /\ d.location.country = IF a.country # Nil THEN UpperCase(a.country)
                                     ELSE c.location.country
             /\ a.country # Nil => CountryIsValid(a.country)
<1> DEFINE first == IF a.city # Nil THEN SetCity(c, a.city) ELSE Ok(c)
           second == IF a.country # Nil THEN SetCountry(first.cfg, a.country) ELSE Ok(first.cfg)
<1>1. SetLabels(a, c) = IF first.ok THEN second ELSE first
  BY DEF SetLabels, Then, If
<1>2. first.ok /\ Alike(first.cfg, c, {"city"})
      /\ first.cfg.location.city = IF a.city # Nil THEN Fit(a.city) ELSE c.location.city
  <2>1. CASE a.city # Nil
    BY <2>1, CityDoes
  <2>2. CASE a.city = Nil
    BY <2>2 DEF Ok, Alike, Full, Elsewhere
  <2> QED BY <2>1, <2>2
<1> HIDE DEF first
<1>3. SetLabels(a, c) = second /\ second.ok /\ Full(first.cfg)
  BY <1>1, <1>2 DEF Alike
<1>4. /\ Alike(second.cfg, first.cfg, {"country"})
      /\ second.cfg.location.country = IF a.country # Nil THEN UpperCase(a.country)
                                       ELSE first.cfg.location.country
      /\ a.country # Nil => CountryIsValid(a.country)
  <2>1. CASE a.country # Nil
    BY <1>3, <2>1, CountryDoes
  <2>2. CASE a.country = Nil
    BY <1>3, <2>2 DEF Ok, Alike, Full, Elsewhere
  <2> QED BY <2>1, <2>2
<1> HIDE DEF second
<1>5. "city" \in DOMAIN DefaultLocation /\ "country" \in DOMAIN DefaultLocation
  BY DEF DefaultLocation
<1>6. second.cfg.location.city = first.cfg.location.city
      /\ first.cfg.location.country = c.location.country
  BY <1>2, <1>4, <1>5 DEF Alike
<1>7. Alike(second.cfg, c, {"city", "country"})
  <2>1. Alike(second.cfg, c, {"city"} \cup {"country"})
    BY <1>2, <1>4, AlikeMore
  <2> QED BY <2>1
<1> QED BY <1>2, <1>3, <1>4, <1>6, <1>7

-----------------------------------------------------------------------------
\* What each command does to the place when it succeeds.
\* The place l after location set, which was old.
SetAs(a, old, l) ==
  LET moved == a.lat # Nil \/ a.lon # Nil
  IN  /\ l.latitude = IF a.lat = Nil THEN old.latitude ELSE a.lat
      /\ l.longitude = IF a.lon = Nil THEN old.longitude ELSE a.lon
      /\ a.timezone # Nil => Fits(a.timezone) /\ l.timezone = a.timezone
      /\ a.timezone = Nil /\ ~moved => /\ l.timezone = old.timezone
                                       /\ l.timezone_offset = old.timezone_offset
      /\ l.city = IF a.city # Nil THEN Fit(a.city) ELSE IF moved THEN "" ELSE old.city
      /\ l.country = IF a.country # Nil THEN UpperCase(a.country)
                     ELSE IF moved THEN "" ELSE old.country
      /\ a.country # Nil => CountryIsValid(a.country)
      /\ l.refresh_interval = IF a.refresh # Nil THEN a.refresh ELSE old.refresh_interval
      /\ moved => l.auto_detect = FALSE /\ l.use_gps = FALSE
      /\ ~moved => l.auto_detect = old.auto_detect /\ l.use_gps = old.use_gps
      /\ l.updated_at = old.updated_at

LEMMA LocationSetDoes ==
  ASSUME NEW a, NEW c, Full(c), LocationSet(a, c).ok
  PROVE  LET d == LocationSet(a, c).cfg
         IN  Full(d) /\ Elsewhere(d, c) /\ SetAs(a, c.location, d.location)
<1> DEFINE m == a.lat # Nil \/ a.lon # Nil
           moved == IF m THEN MoveTo(a, c) ELSE Ok(c)
           labels == IF moved.ok THEN SetLabels(a, moved.cfg) ELSE moved
           refresh == IF labels.ok
                      THEN IF a.refresh # Nil THEN SetRefreshInterval(labels.cfg, a.refresh)
                           ELSE Ok(labels.cfg)
                      ELSE labels
           zone == IF refresh.ok
                   THEN IF a.timezone # Nil THEN SetTimezone(refresh.cfg, a.timezone)
                        ELSE Ok(refresh.cfg)
                   ELSE refresh
           old == c.location
           Place == {"latitude", "longitude", "auto_detect", "use_gps", "updated_at"}
<1>1. LocationSet(a, c) = zone
  BY DEF LocationSet, Then, If
<1>2. \A k : Ok(k).cfg = k /\ Ok(k).ok
  BY DEF Ok
<1>3. moved.ok /\ labels.ok /\ refresh.ok /\ zone.ok
  <2>1. zone.ok
    BY <1>1
  <2>2. refresh.ok
    BY <2>1
  <2>3. labels.ok
    <3> HIDE DEF labels
    <3> QED BY <2>2
  <2>4. moved.ok
    <3> HIDE DEF moved
    <3> QED BY <2>3
  <2> QED BY <2>1, <2>2, <2>3, <2>4
<1>4. /\ Full(moved.cfg) /\ Elsewhere(moved.cfg, c)
      /\ m => /\ Alike(moved.cfg, c, OfPlace)
              /\ moved.cfg.location.latitude = IF a.lat = Nil THEN old.latitude ELSE a.lat
              /\ moved.cfg.location.longitude = IF a.lon = Nil THEN old.longitude ELSE a.lon
              /\ moved.cfg.location.auto_detect = FALSE /\ moved.cfg.location.use_gps = FALSE
              /\ moved.cfg.location.city = "" /\ moved.cfg.location.country = ""
      /\ ~m => moved.cfg = c
  <2>1. CASE m
    <3>1. moved = MoveTo(a, c)
      BY <2>1
    <3>2. MoveTo(a, c).ok
      BY <1>3, <3>1
    <3>3. LET d == MoveTo(a, c).cfg
          IN  /\ Alike(d, c, OfPlace)
              /\ d.location.latitude = IF a.lat = Nil THEN c.location.latitude ELSE a.lat
              /\ d.location.longitude = IF a.lon = Nil THEN c.location.longitude ELSE a.lon
              /\ d.location.auto_detect = FALSE /\ d.location.use_gps = FALSE
              /\ d.location.city = "" /\ d.location.country = ""
      BY <3>2, MoveDoes
    <3> HIDE DEF m, moved
    <3>4. Full(moved.cfg) /\ Elsewhere(moved.cfg, c)
      BY <3>1, <3>3 DEF Alike
    <3> QED BY <2>1, <3>1, <3>3, <3>4
  <2>2. CASE ~m
    BY <1>2, <2>2 DEF Full, Elsewhere
  <2> QED BY <2>1, <2>2
<1>5. labels = SetLabels(a, moved.cfg)
  BY <1>3
<1> HIDE DEF m, moved
<1>6. /\ Alike(labels.cfg, moved.cfg, {"city", "country"})
      /\ labels.cfg.location.city = IF a.city # Nil THEN Fit(a.city) ELSE moved.cfg.location.city
      /\ labels.cfg.location.country = IF a.country # Nil THEN UpperCase(a.country)
                                       ELSE moved.cfg.location.country
      /\ a.country # Nil => CountryIsValid(a.country)
  <2> HIDE DEF labels
  <2>1. PICK k : k = moved.cfg
    OBVIOUS
  <2>2. Full(k) /\ labels = SetLabels(a, k) /\ SetLabels(a, k).ok
    BY <1>3, <1>4, <1>5, <2>1
  <2>3. LET d == SetLabels(a, k).cfg
        IN  /\ Alike(d, k, {"city", "country"})
            /\ d.location.city = IF a.city # Nil THEN Fit(a.city) ELSE k.location.city
            /\ d.location.country = IF a.country # Nil THEN UpperCase(a.country)
                                    ELSE k.location.country
            /\ a.country # Nil => CountryIsValid(a.country)
    BY <2>2, LabelsDo
  <2> QED BY <2>1, <2>2, <2>3
<1> HIDE DEF labels
<1>7. /\ Alike(refresh.cfg, labels.cfg, {"refresh_interval"})
      /\ refresh.cfg.location.refresh_interval =
           IF a.refresh # Nil THEN a.refresh ELSE labels.cfg.location.refresh_interval
  <2>0. Full(labels.cfg)
    BY <1>6 DEF Alike
  <2>1. CASE a.refresh # Nil
    <3>1. refresh = SetRefreshInterval(labels.cfg, a.refresh)
      BY <1>3, <2>1
    <3> HIDE DEF refresh
    <3>2. SetRefreshInterval(labels.cfg, a.refresh).ok
      BY <1>3, <3>1
    <3> QED BY <2>0, <2>1, <3>1, <3>2, RefreshDoes
  <2>2. CASE a.refresh = Nil
    <3>1. refresh.cfg = labels.cfg
      BY <1>2, <1>3, <2>2
    <3> HIDE DEF refresh
    <3> QED BY <2>0, <2>2, <3>1 DEF Alike, Elsewhere, Full
  <2> QED BY <2>1, <2>2
<1> HIDE DEF refresh
<1>8. /\ Alike(zone.cfg, refresh.cfg, {"timezone", "timezone_offset"})
      /\ a.timezone # Nil => Fits(a.timezone) /\ zone.cfg.location.timezone = a.timezone
      /\ a.timezone = Nil => zone.cfg = refresh.cfg
  <2>0. Full(refresh.cfg)
    BY <1>7 DEF Alike
  <2>1. CASE a.timezone # Nil
    <3>1. zone = SetTimezone(refresh.cfg, a.timezone)
      BY <1>3, <2>1
    <3> HIDE DEF zone
    <3>2. SetTimezone(refresh.cfg, a.timezone).ok
      BY <1>3, <3>1
    <3> QED BY <2>0, <2>1, <3>1, <3>2, ZoneDoes
  <2>2. CASE a.timezone = Nil
    <3>1. zone.cfg = refresh.cfg
      BY <1>2, <1>3, <2>2
    <3> HIDE DEF zone
    <3> QED BY <2>0, <2>2, <3>1 DEF Alike, Elsewhere, Full
  <2> QED BY <2>1, <2>2
<1> HIDE DEF zone
<1> DEFINE l == zone.cfg.location
<1>9. Full(zone.cfg) /\ Elsewhere(zone.cfg, c)
  <2>1. /\ Full(zone.cfg) /\ Elsewhere(zone.cfg, refresh.cfg)
        /\ Elsewhere(refresh.cfg, labels.cfg) /\ Elsewhere(labels.cfg, moved.cfg)
    BY <1>6, <1>7, <1>8 DEF Alike
  <2>2. \A d, e, k : Elsewhere(d, e) /\ Elsewhere(e, k) => Elsewhere(d, k)
    BY DEF Elsewhere
  <2> QED BY <1>4, <2>1, <2>2
<1>10. DOMAIN DefaultLocation = OfPlace \cup {"updated_at", "refresh_interval"}
  BY DEF DefaultLocation, OfPlace
<1>11. \A key \in Place : l[key] = moved.cfg.location[key]
  BY <1>6, <1>7, <1>8, <1>10 DEF Alike, OfPlace
<1>12. /\ l.city = labels.cfg.location.city /\ l.country = labels.cfg.location.country
       /\ l.refresh_interval = refresh.cfg.location.refresh_interval
       /\ labels.cfg.location.refresh_interval = moved.cfg.location.refresh_interval
       /\ moved.cfg.location.refresh_interval = old.refresh_interval
       /\ moved.cfg.location.updated_at = old.updated_at
  <2>1. l.city = labels.cfg.location.city /\ l.country = labels.cfg.location.country
    BY <1>7, <1>8, <1>10 DEF Alike, OfPlace
  <2>2. l.refresh_interval = refresh.cfg.location.refresh_interval
        /\ labels.cfg.location.refresh_interval = moved.cfg.location.refresh_interval
    BY <1>6, <1>8, <1>10 DEF Alike, OfPlace
  <2>3. moved.cfg.location.refresh_interval = old.refresh_interval
        /\ moved.cfg.location.updated_at = old.updated_at
    BY <1>4, <1>10 DEF Alike, OfPlace
  <2> QED BY <2>1, <2>2, <2>3
<1>13. a.timezone = Nil => /\ l.timezone = moved.cfg.location.timezone
                           /\ l.timezone_offset = moved.cfg.location.timezone_offset
  BY <1>6, <1>7, <1>8, <1>10 DEF Alike, OfPlace
<1>14. /\ l.latitude = moved.cfg.location.latitude /\ l.longitude = moved.cfg.location.longitude
       /\ l.auto_detect = moved.cfg.location.auto_detect
       /\ l.use_gps = moved.cfg.location.use_gps /\ l.updated_at = moved.cfg.location.updated_at
  BY <1>11
<1>15. ~m => a.lat = Nil /\ a.lon = Nil
  BY DEF m
<1> HIDE DEF l
<1>16. /\ l.latitude = IF a.lat = Nil THEN old.latitude ELSE a.lat
       /\ l.longitude = IF a.lon = Nil THEN old.longitude ELSE a.lon
       /\ l.city = IF a.city # Nil THEN Fit(a.city) ELSE IF m THEN "" ELSE old.city
       /\ l.country = IF a.country # Nil THEN UpperCase(a.country) ELSE IF m THEN "" ELSE old.country
       /\ l.refresh_interval = IF a.refresh # Nil THEN a.refresh ELSE old.refresh_interval
       /\ m => l.auto_detect = FALSE /\ l.use_gps = FALSE
       /\ ~m => l.auto_detect = old.auto_detect /\ l.use_gps = old.use_gps
       /\ l.updated_at = old.updated_at
  <2>1. CASE m
    BY <1>4, <1>6, <1>7, <1>12, <1>14, <2>1
  <2>2. CASE ~m
    BY <1>4, <1>6, <1>7, <1>12, <1>14, <1>15, <2>2
  <2> QED BY <2>1, <2>2
<1>17. /\ a.timezone # Nil => Fits(a.timezone) /\ l.timezone = a.timezone
       /\ a.timezone = Nil /\ ~m => l.timezone = old.timezone /\ l.timezone_offset = old.timezone_offset
  BY <1>4, <1>8, <1>13 DEF l
<1>18. m = (a.lat # Nil \/ a.lon # Nil)
  BY DEF m
<1>19. SetAs(a, old, l)
  BY <1>6, <1>16, <1>17, <1>18 DEF SetAs
<1> QED BY <1>1, <1>9, <1>19 DEF l

GpsFlags == {"auto_detect", "use_gps"}

LEMMA FetchGpsDoes ==
  ASSUME NEW c, Full(c), NEW answer
  PROVE  Alike(FetchGps(c, answer, host), c, PlaceKeys)
<1> PICK zone, offset : zone = SystemTimezone(host) /\ offset = ZoneOffset(SystemTimezone(host))
  OBVIOUS
<1> DEFINE l == [c.location EXCEPT
                   !.latitude = answer.lat, !.longitude = answer.lon, !.timezone = zone,
                   !.timezone_offset = offset, !.updated_at = Now]
<1>1. FetchGps(c, answer, host) = [c EXCEPT !.location = l]
  BY DEF FetchGps
<1>2. DOMAIN l = DOMAIN DefaultLocation
      /\ \A key \in DOMAIN DefaultLocation \ PlaceKeys : l[key] = c.location[key]
  BY DEF Full, PlaceKeys
<1> HIDE DEF l
<1>3. Alike([c EXCEPT !.location = l], c, PlaceKeys)
  BY <1>2, AlikeMoved
<1> QED BY <1>1, <1>3

LEMMA FetchIpDoes ==
  ASSUME NEW c, Full(c), NEW r
  PROVE  Alike(FetchIp(c, r), c, PlaceKeys \cup {"country"})
<1> DEFINE zone == IF TimezoneExists(r.timezone) THEN r.timezone ELSE c.location.timezone
           offset == IF TimezoneExists(r.timezone) THEN ZoneOffset(r.timezone)
                     ELSE c.location.timezone_offset
           country == IF r.country # Nil /\ CountryIsValid(r.country) THEN r.country
                      ELSE c.location.country
           l == [c.location EXCEPT
                   !.latitude = r.loc[1], !.longitude = r.loc[2], !.timezone = zone,
                   !.timezone_offset = offset, !.country = country, !.updated_at = Now]
<1>1. FetchIp(c, r) = [c EXCEPT !.location = l]
  BY DEF FetchIp
<1> HIDE DEF zone, offset, country
<1>2. DOMAIN l = DOMAIN DefaultLocation
      /\ \A key \in DOMAIN DefaultLocation \ (PlaceKeys \cup {"country"}) : l[key] = c.location[key]
  BY DEF Full, PlaceKeys
<1> HIDE DEF l
<1>3. Alike([c EXCEPT !.location = l], c, PlaceKeys \cup {"country"})
  BY <1>2, AlikeMoved
<1> QED BY <1>1, <1>3

LEMMA ReceiverSet ==
  ASSUME NEW c, Full(c), NEW on, NEW d, d = [c EXCEPT !.location.use_gps = on]
  PROVE  Alike(d, c, {"use_gps"}) /\ d.location.use_gps = on
<1> DEFINE l == [c.location EXCEPT !.use_gps = on]
<1>1. d = [c EXCEPT !.location = l]
  OBVIOUS
<1>2. DOMAIN l = DOMAIN DefaultLocation
      /\ \A key \in DOMAIN DefaultLocation \ {"use_gps"} : l[key] = c.location[key]
  BY DEF Full, GpsFlags
<1>3. l.use_gps = on
  BY DEF Full, DefaultLocation
<1> HIDE DEF l
<1>4. Alike([c EXCEPT !.location = l], c, {"use_gps"}) /\ [c EXCEPT !.location = l].location = l
  BY ONLY Full(c), <1>2, AlikeMoved
<1> QED BY ONLY <1>1, <1>3, <1>4

LEMMA DetectionOn ==
  ASSUME NEW c, Full(c), NEW d, d = [c EXCEPT !.location.auto_detect = TRUE]
  PROVE  Alike(d, c, GpsFlags) /\ d.location.auto_detect = TRUE
<1> DEFINE l == [c.location EXCEPT !.auto_detect = TRUE]
<1>1. d = [c EXCEPT !.location = l]
  OBVIOUS
<1>2. DOMAIN l = DOMAIN DefaultLocation
      /\ \A key \in DOMAIN DefaultLocation \ GpsFlags : l[key] = c.location[key]
  BY DEF Full, GpsFlags
<1>3. l.auto_detect = TRUE
  BY DEF Full, DefaultLocation
<1> HIDE DEF l
<1>4. Alike([c EXCEPT !.location = l], c, GpsFlags) /\ [c EXCEPT !.location = l].location = l
  BY ONLY Full(c), <1>2, AlikeMoved
<1> QED BY ONLY <1>1, <1>3, <1>4

LEMMA BothOn ==
  ASSUME NEW c, Full(c), NEW d, d = [c EXCEPT !.location.use_gps = TRUE, !.location.auto_detect = TRUE]
  PROVE  Alike(d, c, GpsFlags) /\ d.location.auto_detect = TRUE /\ d.location.use_gps = TRUE
<1> DEFINE l == [c.location EXCEPT !.use_gps = TRUE, !.auto_detect = TRUE]
<1>1. d = [c EXCEPT !.location = l]
  OBVIOUS
<1>2. DOMAIN l = DOMAIN DefaultLocation
      /\ \A key \in DOMAIN DefaultLocation \ GpsFlags : l[key] = c.location[key]
  BY DEF Full, GpsFlags
<1>3. l.auto_detect = TRUE /\ l.use_gps = TRUE
  BY DEF Full, DefaultLocation
<1> HIDE DEF l
<1>4. Alike([c EXCEPT !.location = l], c, GpsFlags) /\ [c EXCEPT !.location = l].location = l
  BY ONLY Full(c), <1>2, AlikeMoved
<1> QED BY ONLY <1>1, <1>3, <1>4

Found == PlaceKeys \cup GpsFlags \cup {"country"}

LEMMA DetectDoes ==
  ASSUME NEW c, Full(c), NEW answer, NEW r, Detect(c, answer, r, host).ok
  PROVE  LET d == Detect(c, answer, r, host).cfg
         IN  Alike(d, c, Found) /\ d.location.auto_detect = TRUE
<1> DEFINE kept == [c EXCEPT !.location.use_gps = @ /\ answer.status \notin Structural]
           f == FetchCore(c, answer, r, host)
<1>1. f.ok /\ Detect(c, answer, r, host).cfg = [f.cfg EXCEPT !.location.auto_detect = TRUE]
  BY DEF Detect
<1>2. Alike(kept, c, {"use_gps"})
  BY ReceiverSet
<1>3. \A k, K : Alike(k, c, K) /\ K \subseteq Found => Alike(k, c, Found)
  BY DEF Alike
<1>4. Alike(f.cfg, c, Found)
  <2>1. f.cfg = FetchGps(c, answer, host) \/ f.cfg = FetchIp(kept, r)
    BY <1>1 DEF FetchCore
  <2>2. Alike(FetchGps(c, answer, host), c, Found)
    BY <1>3, FetchGpsDoes DEF Found
  <2>3. Alike(FetchIp(kept, r), c, Found)
    <3> HIDE DEF kept
    <3>1. Alike(FetchIp(kept, r), kept, PlaceKeys \cup {"country"})
      BY <1>2, FetchIpDoes DEF Alike
    <3>2. Alike(FetchIp(kept, r), c, {"use_gps"} \cup (PlaceKeys \cup {"country"}))
      BY <1>2, <3>1, AlikeMore
    <3> QED BY <1>3, <3>2 DEF Found, GpsFlags
  <2> HIDE DEF f, kept
  <2> QED BY <2>1, <2>2, <2>3
<1> HIDE DEF f
<1> PICK k : k = f.cfg
  OBVIOUS
<1>5. LET d == [k EXCEPT !.location.auto_detect = TRUE]
      IN  Alike(d, k, GpsFlags) /\ d.location.auto_detect = TRUE
  <2>1. Full(k)
    BY <1>4 DEF Alike
  <2> QED BY <2>1, DetectionOn
<1>6. Alike([k EXCEPT !.location.auto_detect = TRUE], c, Found \cup GpsFlags)
  BY <1>4, <1>5, AlikeMore
<1>7. Found \cup GpsFlags = Found
  BY DEF Found
<1> QED BY <1>1, <1>5, <1>6, <1>7

LEMMA GpsOnDoes ==
  ASSUME NEW c, Full(c), NEW answer, SwitchGpsOn(c, answer, host).ok
  PROVE  LET d == SwitchGpsOn(c, answer, host).cfg
         IN  /\ Alike(d, c, PlaceKeys \cup GpsFlags)
             /\ d.location.auto_detect = TRUE /\ d.location.use_gps = TRUE
<1>1. PICK k : /\ k \in {c, FetchGps(c, answer, host)}
               /\ SwitchGpsOn(c, answer, host).cfg =
                    [k EXCEPT !.location.use_gps = TRUE, !.location.auto_detect = TRUE]
  BY DEF SwitchGpsOn
<1>2. Alike(k, c, PlaceKeys)
  BY <1>1, FetchGpsDoes DEF Alike, Full, Elsewhere
<1>3. LET d == [k EXCEPT !.location.use_gps = TRUE, !.location.auto_detect = TRUE]
      IN  /\ Alike(d, k, GpsFlags)
          /\ d.location.auto_detect = TRUE /\ d.location.use_gps = TRUE
  <2>1. Full(k)
    BY <1>2 DEF Alike
  <2> QED BY <2>1, BothOn
<1> QED BY <1>1, <1>2, <1>3, AlikeMore

LEMMA GpsOffDoes ==
  ASSUME NEW c, Full(c)
  PROVE  LET d == SwitchGpsOff(c).cfg
         IN  Alike(d, c, {"use_gps"}) /\ d.location.use_gps = FALSE
<1>1. SwitchGpsOff(c).cfg = [c EXCEPT !.location.use_gps = FALSE]
  BY DEF SwitchGpsOff
<1> QED BY <1>1, ReceiverSet

-----------------------------------------------------------------------------
\* The section a command is about, and what it does there when it succeeds.
SectionOf(a) ==
  CASE a.name \in {"location", "gps_off"} -> "location"
    [] a.name \in {"enable", "adhan", "adhan_file", "offset", "reminder"} -> "prayers"
    [] a.name \in {"urgency", "sound"} -> "notification"
    [] a.name \in {"method", "method_auto", "install", "madhab"} -> "calculation"
    [] a.name = "timeformat" -> "display"
    [] OTHER -> "none"

Others(d, c, s) == DOMAIN d = Sections /\ \A t \in Sections \ {s} : d[t] = c[t]

LEMMA SectionSet ==
  ASSUME NEW c, DOMAIN c = Sections, NEW s \in Sections, NEW x
  PROVE  Others([c EXCEPT ![s] = x], c, s) /\ [c EXCEPT ![s] = x][s] = x
BY DEF Others

LEMMA PrayersDo ==
  ASSUME NEW c, DOMAIN c = Sections, NEW T, NEW key, NEW value, SetPrayers(c, T, key, value).ok
  PROVE  LET d == SetPrayers(c, T, key, value).cfg
         IN  /\ Others(d, c, "prayers") /\ T # {} /\ DOMAIN d.prayers = Prayers
             /\ \A p \in Prayers : d.prayers[p] = IF p \in T THEN [c.prayers[p] EXCEPT ![key] = value]
                                                 ELSE c.prayers[p]
<1> DEFINE all == [p \in Prayers |->
                     IF p \in T THEN [c.prayers[p] EXCEPT ![key] = value] ELSE c.prayers[p]]
<1>1. T # {}
  BY DEF SetPrayers, Fail
<1>2. SetPrayers(c, T, key, value).cfg = [c EXCEPT !["prayers"] = all]
  BY <1>1 DEF SetPrayers, Ok
<1>3. /\ DOMAIN all = Prayers
      /\ \A p \in Prayers : all[p] = IF p \in T THEN [c.prayers[p] EXCEPT ![key] = value]
                                     ELSE c.prayers[p]
  OBVIOUS
<1> HIDE DEF all
<1>4. Others([c EXCEPT !["prayers"] = all], c, "prayers") /\ [c EXCEPT !["prayers"] = all]["prayers"] = all
  BY SectionSet DEF Sections
<1> QED BY <1>1, <1>2, <1>3, <1>4

PrayerNamed == {"enable", "adhan", "adhan_file", "offset", "reminder"}

LEMMA EditPrayers ==
  ASSUME NEW g \in Groups, NEW a \in Commands[g], NEW c, DOMAIN c = Sections,
         a.name \in PrayerNamed, Edit(a, c).ok
  PROVE  \E T, key, value :
           /\ Edit(a, c) = SetPrayers(c, T, key, value)
           /\ \/ a.name = "enable" /\ key = "enabled" /\ value = a.on /\ T = Targets(a.who)
              \/ a.name = "adhan" /\ key = "adhan_enabled" /\ value = a.on /\ T = Targets(a.who)
              \/ /\ a.name = "adhan_file" /\ key = "adhan" /\ value = Paths[a.path].canonical
                 /\ Fits(value) /\ T = Prayers
              \/ a.name = "offset" /\ key = "offset" /\ value = a.minutes /\ T = Targets(a.who)
              \/ a.name = "reminder" /\ key = "reminders" /\ value = a.minutes /\ T = Targets(a.who)
<1>0. \A k : Fail(k).ok = FALSE
  BY DEF Fail
<1>1. CASE a.name = "enable"
  <2>1. Edit(a, c) = SetPrayers(c, Targets(a.who), "enabled", a.on)
    BY <1>1 DEF Edit, EnableCommand, SetEnabled
  <2> QED BY <1>1, <2>1
<1>2. CASE a.name = "adhan"
  <2>1. Edit(a, c) = SetPrayers(c, ParsePrayer(a.who), "adhan_enabled", a.on)
    BY <1>2 DEF Edit, AdhanCommand, SetAdhan
  <2>2. ParsePrayer(a.who) # {}
    BY <2>1, PrayersDo
  <2>3. a.who # "all"
    BY <2>2, SettingsAssumption DEF ParsePrayer
  <2>4. ParsePrayer(a.who) = Targets(a.who)
    BY <2>3 DEF Targets
  <2> QED BY <1>2, <2>1, <2>4
<1>3. CASE a.name = "adhan_file"
  <2>1. Edit(a, c) = SetAdhanFile(c, a.path)
    BY <1>3 DEF Edit, AdhanFileCommand
  <2>2. Resolves(a.path)
    BY <1>0, <2>1 DEF SetAdhanFile
  <2>3. Edit(a, c) = SetPrayers(c, Prayers, "adhan", Paths[a.path].canonical)
    BY <2>1, <2>2 DEF SetAdhanFile
  <2>4. Fits(Paths[a.path].canonical)
    BY <2>2 DEF Resolves, WindowsResolves, PosixResolves, Fits
  <2> QED BY <1>3, <2>3, <2>4
<1>4. CASE a.name = "offset"
  <2>1. Edit(a, c) = OffsetCommand(a, c)
    BY <1>4 DEF Edit
  <2>2. Edit(a, c) = SetPrayers(c, Targets(a.who), "offset", a.minutes)
    BY <1>0, <2>1 DEF OffsetCommand, SetOffset
  <2> QED BY <1>4, <2>2
<1>5. CASE a.name = "reminder"
  <2>1. Edit(a, c) = ReminderCommand(a, c)
    BY <1>5 DEF Edit
  <2>2. Edit(a, c) = SetPrayers(c, Targets(a.who), "reminders", a.minutes)
    BY <1>0, <2>1 DEF ReminderCommand, SetReminders
  <2> QED BY <1>5, <2>2
<1> QED BY <1>1, <1>2, <1>3, <1>4, <1>5 DEF PrayerNamed

LEMMA EditRest ==
  ASSUME NEW a, NEW c, DOMAIN c = Sections, Edit(a, c).ok
  PROVE  LET d == Edit(a, c).cfg
         IN  /\ SectionOf(a) \in {"notification", "calculation", "display"} =>
                  Others(d, c, SectionOf(a))
             /\ a.name = "urgency" => /\ a.key \in {"low", "normal", "critical"}
                                      /\ d.notification = [c.notification EXCEPT !.urgency = a.key]
             /\ a.name = "sound" => /\ a.key \in {"adhan", "default", "off"}
                                    /\ d.notification = [c.notification EXCEPT !.sound = a.key]
             /\ a.name = "method" => /\ a.key \in Methods
                                     /\ d.calculation = [c.calculation EXCEPT !.method = a.key]
             /\ a.name \in {"method_auto", "install"} =>
                  d.calculation = [c.calculation EXCEPT !.method = CountryMethod(c.location.country)]
             /\ a.name = "madhab" => /\ a.key \in {"shafi", "hanafi"}
                                     /\ d.calculation = [c.calculation EXCEPT !.madhab = a.key]
             /\ a.name = "timeformat" =>
                  /\ a.format \in {12, 24}
                  /\ d.display = [c.display EXCEPT !.time_format = a.format]
<1> DEFINE d == Edit(a, c).cfg
<1>0. (\A k : Fail(k).ok = FALSE) /\ (\A k : Ok(k).cfg = k)
  BY DEF Fail, Ok
<1>1. CASE a.name = "urgency"
  <2>1. Edit(a, c) = SetUrgency(c, a.key)
    BY <1>1 DEF Edit, UrgencyCommand
  <2>2. a.key \in {"low", "normal", "critical"}
        /\ d = [c EXCEPT !["notification"] = [c.notification EXCEPT !.urgency = a.key]]
    BY <1>0, <2>1 DEF SetUrgency
  <2>3. SectionOf(a) = "notification"
    BY <1>1 DEF SectionOf
  <2> HIDE DEF d
  <2>4. Others(d, c, "notification") /\ d.notification = [c.notification EXCEPT !.urgency = a.key]
    BY <2>2, SectionSet DEF Sections
  <2> QED BY <1>1, <2>2, <2>3, <2>4 DEF d
<1>2. CASE a.name = "sound"
  <2>1. Edit(a, c) = SetSoundMode(c, a.key)
    BY <1>2 DEF Edit, SoundCommand
  <2>2. a.key \in {"adhan", "default", "off"}
        /\ d = [c EXCEPT !["notification"] = [c.notification EXCEPT !.sound = a.key]]
    BY <1>0, <2>1 DEF SetSoundMode
  <2>3. SectionOf(a) = "notification"
    BY <1>2 DEF SectionOf
  <2> HIDE DEF d
  <2>4. Others(d, c, "notification") /\ d.notification = [c.notification EXCEPT !.sound = a.key]
    BY <2>2, SectionSet DEF Sections
  <2> QED BY <1>2, <2>2, <2>3, <2>4 DEF d
<1>3. CASE a.name = "method"
  <2>1. Edit(a, c) = SetMethod(c, a.key)
    BY <1>3 DEF Edit, MethodCommand
  <2>2. a.key \in Methods
        /\ d = [c EXCEPT !["calculation"] = [c.calculation EXCEPT !.method = a.key]]
    BY <1>0, <2>1 DEF SetMethod
  <2>3. SectionOf(a) = "calculation"
    BY <1>3 DEF SectionOf
  <2> HIDE DEF d
  <2>4. Others(d, c, "calculation") /\ d.calculation = [c.calculation EXCEPT !.method = a.key]
    BY <2>2, SectionSet DEF Sections
  <2> QED BY <1>3, <2>2, <2>3, <2>4 DEF d
<1>4. CASE a.name \in {"method_auto", "install"}
  <2> PICK m : m = CountryMethod(c.location.country)
    OBVIOUS
  <2>1. Edit(a, c) = SetMethodFromCountry(c)
    BY <1>4 DEF Edit, MethodAuto, InstallSetUp
  <2>2. d = [c EXCEPT !["calculation"] = [c.calculation EXCEPT !.method = m]]
    BY <1>0, <2>1 DEF SetMethodFromCountry
  <2>3. SectionOf(a) = "calculation"
    BY <1>4 DEF SectionOf
  <2> HIDE DEF d
  <2>4. Others(d, c, "calculation") /\ d.calculation = [c.calculation EXCEPT !.method = m]
    BY <2>2, SectionSet DEF Sections
  <2> QED BY <1>4, <2>2, <2>3, <2>4 DEF d
<1>5. CASE a.name = "madhab"
  <2>1. Edit(a, c) = SetMadhab(c, a.key)
    BY <1>5 DEF Edit, MadhabCommand
  <2>2. a.key \in {"shafi", "hanafi"}
        /\ d = [c EXCEPT !["calculation"] = [c.calculation EXCEPT !.madhab = a.key]]
    BY <1>0, <2>1 DEF SetMadhab
  <2>3. SectionOf(a) = "calculation"
    BY <1>5 DEF SectionOf
  <2> HIDE DEF d
  <2>4. Others(d, c, "calculation") /\ d.calculation = [c.calculation EXCEPT !.madhab = a.key]
    BY <2>2, SectionSet DEF Sections
  <2> QED BY <1>5, <2>2, <2>3, <2>4 DEF d
<1>6. CASE a.name = "timeformat"
  <2>1. Edit(a, c) = SetTimeFormat(c, a.format)
    BY <1>6 DEF Edit, TimeFormatCommand
  <2>2. a.format \in {12, 24}
        /\ d = [c EXCEPT !["display"] = [c.display EXCEPT !.time_format = a.format]]
    BY <1>0, <2>1 DEF SetTimeFormat
  <2>3. SectionOf(a) = "display"
    BY <1>6 DEF SectionOf
  <2> HIDE DEF d
  <2>4. Others(d, c, "display") /\ d.display = [c.display EXCEPT !.time_format = a.format]
    BY <2>2, SectionSet DEF Sections
  <2> QED BY <1>6, <2>2, <2>3, <2>4 DEF d
<1>7. CASE a.name \notin {"urgency", "sound", "method", "method_auto", "install", "madhab", "timeformat"}
  BY <1>7 DEF SectionOf
<1> QED BY <1>1, <1>2, <1>3, <1>4, <1>5, <1>6, <1>7

LEMMA EditElsewhere ==
  ASSUME NEW g \in Groups, NEW a \in Commands[g], NEW c, Full(c), Edit(a, c).ok
  PROVE  Others(Edit(a, c).cfg, c, SectionOf(a))
<1>0. \A d : Elsewhere(d, c) => Others(d, c, "location")
  BY DEF Elsewhere, Others, Sections
<1>1. CASE a.name = "location"
  <2>1. SectionOf(a) = "location"
    BY <1>1 DEF SectionOf
  <2>2. Elsewhere(Edit(a, c).cfg, c)
    <3>1. CASE a.auto
      <4>1. Edit(a, c) = SetLabels(a, c)
        BY <1>1, <3>1 DEF Edit, LocationAuto
      <4> QED BY <4>1, LabelsDo DEF Alike
    <3>2. CASE ~a.auto
      <4>1. Edit(a, c) = LocationSet(a, c)
        BY <1>1, <3>2 DEF Edit
      <4> QED BY <4>1, LocationSetDoes
    <3> QED BY <3>1, <3>2
  <2> QED BY <1>0, <2>1, <2>2
<1>2. CASE a.name = "gps_off"
  <2>1. SectionOf(a) = "location" /\ Edit(a, c) = SwitchGpsOff(c)
    BY <1>2 DEF SectionOf, Edit, GpsOff
  <2> QED BY <1>0, <2>1, GpsOffDoes DEF Alike
<1>3. CASE a.name \in PrayerNamed
  <2>1. SectionOf(a) = "prayers"
    BY <1>3 DEF SectionOf, PrayerNamed
  <2>2. PICK T, key, value : Edit(a, c) = SetPrayers(c, T, key, value)
    BY <1>3, EditPrayers DEF Full
  <2> QED BY <2>1, <2>2, PrayersDo DEF Full
<1>4. CASE SectionOf(a) \in {"notification", "calculation", "display"}
  BY <1>4, EditRest DEF Full
<1>5. CASE a.name \notin {"location", "gps_off", "urgency", "sound", "method", "method_auto",
                          "install", "madhab", "timeformat"} \cup PrayerNamed
  <2>1. Edit(a, c).cfg = c
    BY <1>5 DEF Edit, Ok, PrayerNamed
  <2> QED BY <2>1 DEF Others, Full
<1>6. a.name \in {"urgency", "sound", "method", "method_auto", "install", "madhab", "timeformat"} =>
        SectionOf(a) \in {"notification", "calculation", "display"}
  BY DEF SectionOf
<1> QED BY <1>1, <1>2, <1>3, <1>4, <1>5, <1>6

-----------------------------------------------------------------------------
\* How the handle a command saves was made from what it loaded.
Made(a, b, c) ==
  \/ /\ LooksUp(a, b)
     /\ \E answer \in Answers(host), r \in Replies :
          LET d == Detect(b, answer, r, host)
          IN  d.ok /\ Edit(a, d.cfg).ok /\ c = Edit(a, d.cfg).cfg
  \/ /\ a.name = "gps_on"
     /\ \E answer \in Answers(host) :
          LET s == SwitchGpsOn(b, answer, host) IN s.ok /\ c = s.cfg
  \/ /\ ~LooksUp(a, b) /\ a.name # "gps_on" /\ ~NothingToDo(a, b)
     /\ Edit(a, b).ok /\ c = Edit(a, b).cfg

\* A command is past its load with a handle that is whole, and saves what its
\* setters made of it.
Provenance ==
  /\ pc \in {"lookup", "probe"} => cfg = base
  /\ pc = "lookup" => LooksUp(command, base)
  /\ pc = "probe" => command.name = "gps_on"
  /\ pc \notin {"idle", "load"} => Loaded(base)
  /\ pc = "save" => Made(command, base, cfg)

LEMMA MadeFrom ==
  ASSUME NEW a, NEW b, Loaded(b), NEW c, Made(a, b, c)
  PROVE  \E k : /\ Full(k) /\ Elsewhere(k, b) /\ Edit(a, k).ok /\ c = Edit(a, k).cfg
                /\ \/ ~LooksUp(a, b) /\ a.name # "gps_on" /\ k = b
                   \/ /\ LooksUp(a, b)
                      /\ Alike(k, b, Found) /\ k.location.auto_detect = TRUE
                   \/ /\ a.name = "gps_on" /\ Alike(k, b, PlaceKeys \cup GpsFlags)
                      /\ k.location.auto_detect = TRUE /\ k.location.use_gps = TRUE
<1>0. Full(b) /\ Elsewhere(b, b)
  BY DEF Loaded, PlaceLoaded, Full, Elsewhere
<1>1. CASE /\ LooksUp(a, b)
           /\ \E answer \in Answers(host), r \in Replies :
                LET d == Detect(b, answer, r, host)
                IN  d.ok /\ Edit(a, d.cfg).ok /\ c = Edit(a, d.cfg).cfg
  <2>1. PICK answer \in Answers(host), r \in Replies :
          LET d == Detect(b, answer, r, host)
          IN  d.ok /\ Edit(a, d.cfg).ok /\ c = Edit(a, d.cfg).cfg
    BY <1>1
  <2>2. PICK k : k = Detect(b, answer, r, host).cfg
    OBVIOUS
  <2>3. Alike(k, b, Found) /\ k.location.auto_detect = TRUE
    BY <1>0, <2>1, <2>2, DetectDoes
  <2>4. Full(k) /\ Elsewhere(k, b) /\ Edit(a, k).ok /\ c = Edit(a, k).cfg
    BY <2>1, <2>2, <2>3 DEF Alike
  <2> QED BY <1>1, <2>3, <2>4
<1>2. CASE /\ a.name = "gps_on"
           /\ \E answer \in Answers(host) :
                LET s == SwitchGpsOn(b, answer, host) IN s.ok /\ c = s.cfg
  <2>1. PICK answer \in Answers(host) :
          SwitchGpsOn(b, answer, host).ok /\ c = SwitchGpsOn(b, answer, host).cfg
    BY <1>2
  <2>2. /\ Alike(c, b, PlaceKeys \cup GpsFlags)
        /\ c.location.auto_detect = TRUE /\ c.location.use_gps = TRUE
    BY <1>0, <2>1, GpsOnDoes
  <2>3. Full(c) /\ Elsewhere(c, b)
    BY <2>2 DEF Alike
  <2>4. Edit(a, c).ok /\ c = Edit(a, c).cfg
    BY <1>2 DEF Edit, Ok
  <2> QED BY <1>2, <2>2, <2>3, <2>4
<1>3. CASE ~LooksUp(a, b) /\ a.name # "gps_on" /\ Edit(a, b).ok /\ c = Edit(a, b).cfg
  BY <1>0, <1>3
<1> QED BY <1>1, <1>2, <1>3 DEF Made

LEMMA MadeWith ==
  ASSUME NEW a, NEW b, Loaded(b), NEW c, Made(a, b, c)
  PROVE  \E k : Full(k) /\ Elsewhere(k, b) /\ Edit(a, k).ok /\ c = Edit(a, k).cfg
<1> PICK k : /\ Full(k) /\ Elsewhere(k, b) /\ Edit(a, k).ok /\ c = Edit(a, k).cfg
             /\ \/ ~LooksUp(a, b) /\ a.name # "gps_on" /\ k = b
                \/ /\ LooksUp(a, b)
                   /\ Alike(k, b, Found) /\ k.location.auto_detect = TRUE
                \/ /\ a.name = "gps_on" /\ Alike(k, b, PlaceKeys \cup GpsFlags)
                   /\ k.location.auto_detect = TRUE /\ k.location.use_gps = TRUE
  BY MadeFrom, Zenon
<1> QED OBVIOUS

-----------------------------------------------------------------------------
\* Field by field: the file a save leaves has what is wanted of it.
LEMMA PrayersServed ==
  ASSUME NEW g \in Groups, NEW a \in Commands[g], NEW b, Loaded(b), NEW c, Good(c),
         Made(a, b, c), NEW p \in Prayers, NEW key \in DOMAIN DefaultPrayer
  PROVE  Wanted(a, b, <<"prayers", p, key>>) = At(Load(Document(c)), <<"prayers", p, key>>)
<1> DEFINE f == <<"prayers", p, key>>
<1>1. PICK k : Full(k) /\ Elsewhere(k, b) /\ Edit(a, k).ok /\ c = Edit(a, k).cfg
  BY MadeWith
<1>2. PICK q, old : q = c.prayers[p] /\ old = b.prayers[p]
  OBVIOUS
<1>3. PrayerLoaded(old) /\ k.prayers[p] = old
  BY <1>1, <1>2 DEF Loaded, Elsewhere
<1>4. RemindersGood(q.reminders) /\ OffsetGood(q.offset)
  BY <1>2 DEF Good, PrayersGood
<1>5. At(b, f) = old[key]
  BY <1>2, Tuples
<1>6. Wanted(a, b, f) = WantedOfPrayer(a, b, f)
  BY DEF Wanted
<1>7. f[2] = p /\ f[3] = key
  OBVIOUS
<1> HIDE DEF f
<1>8. CASE a.name \notin PrayerNamed
  <2>1. q = old
    <3>1. Others(c, k, SectionOf(a)) /\ SectionOf(a) # "prayers"
      BY <1>1, <1>8, EditElsewhere DEF SectionOf, PrayerNamed
    <3> QED BY <1>2, <1>3, <3>1 DEF Others, Sections
  <2>2. Wanted(a, b, f) = old[key]
    BY <1>5, <1>6, <1>8 DEF WantedOfPrayer, PrayerNamed
  <2>3. At(Load(Document(c)), f) = IF key = "adhan" THEN Fit(q[key]) ELSE q[key]
    <3>1. DOMAIN q = DOMAIN DefaultPrayer /\ q.enabled \in BOOLEAN /\ q.adhan_enabled \in BOOLEAN
      BY <1>3, <2>1 DEF PrayerLoaded
    <3> QED BY <1>2, <1>4, <3>1, PrayerSaved DEF f
  <2> QED BY <1>3, <2>1, <2>2, <2>3, FitFits DEF PrayerLoaded, f
<1>9. CASE a.name \in PrayerNamed
  <2>1. PICK T, field, value :
           /\ Edit(a, k) = SetPrayers(k, T, field, value)
           /\ \/ a.name = "enable" /\ field = "enabled" /\ value = a.on /\ T = Targets(a.who)
              \/ a.name = "adhan" /\ field = "adhan_enabled" /\ value = a.on /\ T = Targets(a.who)
              \/ /\ a.name = "adhan_file" /\ field = "adhan" /\ value = Paths[a.path].canonical
                 /\ Fits(value) /\ T = Prayers
              \/ a.name = "offset" /\ field = "offset" /\ value = a.minutes /\ T = Targets(a.who)
              \/ a.name = "reminder" /\ field = "reminders" /\ value = a.minutes /\ T = Targets(a.who)
    BY <1>1, <1>9, EditPrayers DEF Full
  <2>2. q = IF p \in T THEN [old EXCEPT ![field] = value] ELSE old
    BY <1>1, <1>2, <1>3, <2>1, PrayersDo DEF Full
  <2>3. field \in {"enabled", "adhan_enabled"} => value \in BOOLEAN
    BY <2>1, ArgumentsAssumption
  <2>4. field \in {"enabled", "adhan_enabled", "adhan", "offset", "reminders"}
    BY <2>1
  <2>5. DOMAIN q = DOMAIN DefaultPrayer /\ q.enabled \in BOOLEAN /\ q.adhan_enabled \in BOOLEAN
    <3>1. DOMAIN old = DOMAIN DefaultPrayer /\ old.enabled \in BOOLEAN /\ old.adhan_enabled \in BOOLEAN
      BY <1>3 DEF PrayerLoaded
    <3>2. "enabled" \in DOMAIN old /\ "adhan_enabled" \in DOMAIN old
      BY <3>1 DEF DefaultPrayer
    <3>3. DOMAIN q = DOMAIN old
      BY <2>2
    <3>4. q.enabled \in {old.enabled, value} /\ (q.enabled = old.enabled \/ field = "enabled")
      BY <2>2, <3>2
    <3>5. q.adhan_enabled \in {old.adhan_enabled, value}
          /\ (q.adhan_enabled = old.adhan_enabled \/ field = "adhan_enabled")
      BY <2>2, <3>2
    <3> QED BY <2>3, <3>1, <3>3, <3>4, <3>5
  <2>6. At(Load(Document(c)), f) = IF key = "adhan" THEN Fit(q[key]) ELSE q[key]
    BY <1>2, <1>4, <2>5, PrayerSaved DEF f
  <2>7. q[key] = IF p \in T /\ key = field THEN value ELSE old[key]
    BY <1>3, <2>2 DEF PrayerLoaded
  <2>8. Wanted(a, b, f) = IF p \in T /\ key = field THEN value ELSE old[key]
    BY <1>5, <1>6, <1>7, <2>1 DEF WantedOfPrayer
  <2>9. key = "adhan" => Fits(q[key])
    <3>1. field = "adhan" => Fits(value)
      BY <2>1
    <3> QED BY <1>3, <2>7, <3>1 DEF PrayerLoaded
  <2>10. key = "adhan" => Fit(q[key]) = q[key]
    BY <2>9, FitFits
  <2> QED BY <2>6, <2>7, <2>8, <2>10 DEF f
<1> QED BY <1>8, <1>9 DEF f

LEMMA NotificationServed ==
  ASSUME NEW g \in Groups, NEW a \in Commands[g], NEW b, Loaded(b), NEW c, Good(c),
         Made(a, b, c), NEW key \in DOMAIN DefaultRest.notification
  PROVE  Wanted(a, b, <<"notification", key>>) = At(Load(Document(c)), <<"notification", key>>)
<1> DEFINE f == <<"notification", key>>
           names == DOMAIN DefaultRest.notification
<1>1. PICK k : Full(k) /\ Elsewhere(k, b) /\ Edit(a, k).ok /\ c = Edit(a, k).cfg
  BY MadeWith
<1>2. PICK n, old : n = c.notification /\ old = b.notification
  OBVIOUS
<1>3. NotificationLoaded(old) /\ k.notification = old
  BY <1>1, <1>2 DEF Loaded, Elsewhere
<1>4. NotificationGood(n)
  BY <1>2 DEF Good
<1>5. names = {"timeout", "urgency", "sound", "sound_alarm", "sound_reminder", "icon"}
  BY DEF DefaultRest
<1>6. Kept(b, f) = old[key]
  BY <1>2, <1>5, Tuples DEF Decimals
<1>7. /\ a.name = "urgency" => /\ a.key \in {"low", "normal", "critical"}
                               /\ n = [old EXCEPT !.urgency = a.key]
      /\ a.name = "sound" => /\ a.key \in {"adhan", "default", "off"}
                             /\ n = [old EXCEPT !.sound = a.key]
  <2>1. LET d == Edit(a, k).cfg
        IN  /\ a.name = "urgency" => /\ a.key \in {"low", "normal", "critical"}
                                     /\ d.notification = [k.notification EXCEPT !.urgency = a.key]
            /\ a.name = "sound" => /\ a.key \in {"adhan", "default", "off"}
                                   /\ d.notification = [k.notification EXCEPT !.sound = a.key]
    <3>1. DOMAIN k = Sections /\ Edit(a, k).ok
      BY <1>1 DEF Full
    <3> QED BY <3>1, EditRest
  <2> QED BY <1>1, <1>2, <1>3, <2>1
<1>8. a.name \notin {"urgency", "sound"} => n = old
  <2>1. ASSUME a.name \notin {"urgency", "sound"} PROVE n = old
    <3>1. SectionOf(a) # "notification"
      BY <2>1 DEF SectionOf
    <3>2. Others(c, k, SectionOf(a))
      BY <1>1, EditElsewhere
    <3> QED BY <1>2, <1>3, <3>1, <3>2 DEF Others, Sections
  <2> QED BY <2>1
<1> DEFINE field == IF a.name = "urgency" THEN "urgency"
                    ELSE IF a.name = "sound" THEN "sound" ELSE "none"
<1>9. /\ DOMAIN n = names /\ n.timeout = old.timeout
      /\ n[key] = IF key = field THEN a.key ELSE old[key]
  <2>1. DOMAIN old = names
    BY <1>3 DEF NotificationLoaded
  <2>2. CASE a.name = "urgency"
    BY <1>5, <1>7, <2>1, <2>2
  <2>3. CASE a.name = "sound"
    BY <1>5, <1>7, <2>1, <2>3
  <2>4. CASE a.name \notin {"urgency", "sound"}
    BY <1>5, <1>8, <2>1, <2>4
  <2> QED BY <2>2, <2>3, <2>4
<1>10. At(Load(Document(c)), f) = IF key \in {"timeout", "sound"} THEN n[key] ELSE Fit(n[key])
  BY <1>2, <1>3, <1>4, <1>9, NotificationSaved DEF NotificationLoaded
<1>11. Wanted(a, b, f) = IF key = field THEN a.key ELSE old[key]
  <2>1. Wanted(a, b, f) = WantedOfRest(a, b, f) /\ f[2] = key
    BY DEF Wanted
  <2>2. key \notin {"method", "madhab", "fajr_angle", "isha_angle", "time_format"}
    BY <1>5
  <2> HIDE DEF f
  <2>3. CASE key = "urgency"
    BY <1>6, <2>1, <2>2, <2>3 DEF WantedOfRest
  <2>4. CASE key = "sound"
    BY <1>6, <2>1, <2>2, <2>4 DEF WantedOfRest
  <2>5. CASE key \notin {"urgency", "sound"}
    <3>1. WantedOfRest(a, b, f) = Kept(b, f)
      BY <2>1, <2>2, <2>5 DEF WantedOfRest
    <3>2. field \in {"urgency", "sound", "none"} /\ (key = field => key = "none")
      BY <2>5
    <3>3. key # "none"
      BY <1>5
    <3> HIDE DEF field
    <3> QED BY <1>6, <2>1, <3>1, <3>2, <3>3
  <2> QED BY <2>3, <2>4, <2>5
<1>12. key \notin {"timeout", "sound"} => Fits(n[key])
  <2>1. Fits("low") /\ Fits("normal") /\ Fits("critical")
    BY NamesAssumption DEF Fits
  <2>2. key \notin {"timeout", "sound"} => Fits(old[key])
    BY <1>3 DEF NotificationLoaded
  <2>3. key = "urgency" /\ a.name = "urgency" => Fits(a.key)
    BY <1>7, <2>1
  <2>4. field = "urgency" => a.name = "urgency"
    OBVIOUS
  <2>5. field \in {"urgency", "sound", "none"} /\ key # "none"
    BY <1>5
  <2> HIDE DEF field
  <2> QED BY <1>9, <2>2, <2>3, <2>4, <2>5
<1> QED BY <1>9, <1>10, <1>11, <1>12, FitFits

LEMMA CalculationServed ==
  ASSUME NEW g \in Groups, NEW a \in Commands[g], NEW b, Loaded(b), NEW c, Good(c),
         Made(a, b, c), NEW key \in DOMAIN DefaultRest.calculation
  PROVE  Wanted(a, b, <<"calculation", key>>)
           \in {Free, At(Load(Document(c)), <<"calculation", key>>)}
<1> DEFINE f == <<"calculation", key>>
           ByCountry == {"method_auto", "install"}
<1>1. PICK k : Full(k) /\ Elsewhere(k, b) /\ Edit(a, k).ok /\ c = Edit(a, k).cfg
  BY MadeWith
<1>2. PICK n, old : n = c.calculation /\ old = b.calculation
  OBVIOUS
<1>3. CalculationLoaded(old) /\ k.calculation = old
  BY <1>1, <1>2 DEF Loaded, Elsewhere
<1>4. DOMAIN old = {"method", "madhab", "fajr_angle", "isha_angle"}
  BY <1>3 DEF CalculationLoaded, DefaultRest
<1>5. Kept(b, f) = IF key \in {"fajr_angle", "isha_angle"} THEN SixDecimals(old[key]) ELSE old[key]
  <2>1. key \in {"method", "madhab", "fajr_angle", "isha_angle"}
    BY DEF DefaultRest
  <2> QED BY <1>2, <2>1, Tuples DEF Decimals
<1>6. PICK m : /\ a.name = "method" => a.key \in Methods /\ n = [old EXCEPT !.method = a.key]
               /\ a.name \in ByCountry => n = [old EXCEPT !.method = m]
               /\ a.name = "madhab" => /\ a.key \in {"shafi", "hanafi"}
                                       /\ n = [old EXCEPT !.madhab = a.key]
  <2> PICK m : m = CountryMethod(k.location.country)
    OBVIOUS
  <2>1. LET d == Edit(a, k).cfg
        IN  /\ a.name = "method" => /\ a.key \in Methods
                                    /\ d.calculation = [k.calculation EXCEPT !.method = a.key]
            /\ a.name \in ByCountry => d.calculation = [k.calculation EXCEPT !.method = m]
            /\ a.name = "madhab" => /\ a.key \in {"shafi", "hanafi"}
                                    /\ d.calculation = [k.calculation EXCEPT !.madhab = a.key]
    <3>1. DOMAIN k = Sections /\ Edit(a, k).ok
      BY <1>1 DEF Full
    <3>2. PICK d : d = Edit(a, k).cfg
      OBVIOUS
    <3>3. a.name = "method" => /\ a.key \in Methods
                               /\ d.calculation = [k.calculation EXCEPT !.method = a.key]
      BY <3>1, <3>2, EditRest
    <3>4. a.name \in ByCountry => d.calculation = [k.calculation EXCEPT !.method = m]
      <4>1. a.name \in ByCountry => Edit(a, k).cfg.calculation =
              [k.calculation EXCEPT !.method = CountryMethod(k.location.country)]
        BY <3>1, EditRest, ZenonT(30)
      <4> QED BY <3>2, <4>1
    <3>5. a.name = "madhab" => /\ a.key \in {"shafi", "hanafi"}
                               /\ d.calculation = [k.calculation EXCEPT !.madhab = a.key]
      BY <3>1, <3>2, EditRest
    <3> QED BY <3>2, <3>3, <3>4, <3>5
  <2> QED BY <1>1, <1>2, <1>3, <2>1
<1>7. a.name \notin {"method", "madhab"} \cup ByCountry => n = old
  <2>1. ASSUME a.name \notin {"method", "madhab"} \cup ByCountry PROVE n = old
    <3>1. SectionOf(a) # "calculation"
      BY <2>1 DEF SectionOf
    <3>2. Others(c, k, SectionOf(a))
      BY <1>1, EditElsewhere
    <3> QED BY <1>2, <1>3, <3>1, <3>2 DEF Others, Sections
  <2> QED BY <2>1
<1>8. /\ DOMAIN n = DOMAIN old
      /\ a.name = "method" => n.method = a.key
      /\ a.name \notin {"method"} \cup ByCountry => n.method = old.method
      /\ n.madhab = IF a.name = "madhab" THEN a.key ELSE old.madhab
      /\ n.fajr_angle = old.fajr_angle /\ n.isha_angle = old.isha_angle
  <2>1. CASE a.name = "method"
    BY <1>4, <1>6, <2>1
  <2>2. CASE a.name \in ByCountry
    BY <1>4, <1>6, <2>2
  <2>3. CASE a.name = "madhab"
    BY <1>4, <1>6, <2>3
  <2>4. CASE a.name \notin {"method", "madhab"} \cup ByCountry
    BY <1>7, <2>4
  <2> QED BY <2>1, <2>2, <2>3, <2>4
<1>9. LET d == Load(Document(c))
      IN  /\ At(d, <<"calculation", "method">>) = Fit(n.method)
          /\ At(d, <<"calculation", "madhab">>) = Fit(n.madhab)
          /\ n.method = "custom" => \A angle \in {"fajr_angle", "isha_angle"} :
               At(d, <<"calculation", angle>>) = SixDecimals(n[angle])
  BY <1>2, <1>3, <1>8, CalculationSaved DEF CalculationLoaded
<1>10. Wanted(a, b, f) = WantedOfRest(a, b, f) /\ f[2] = key
  BY DEF Wanted
<1>11. CASE key = "method"
  <2> DEFINE got == At(Load(Document(c)), <<"calculation", "method">>)
  <2>1. Wanted(a, b, f) = IF a.name = "method" THEN a.key
                          ELSE IF a.name \in ByCountry THEN Free ELSE old.method
    <3> HIDE DEF f
    <3> QED BY <1>5, <1>10, <1>11 DEF WantedOfRest
  <2>2. \A x \in Methods : Fits(x)
    BY NamesAssumption DEF Fits
  <2>3. a.name = "method" => Fits(n.method)
    BY <1>6, <1>8, <2>2
  <2>4. a.name \notin {"method"} \cup ByCountry => Fits(n.method)
    BY <1>3, <1>8 DEF CalculationLoaded
  <2>5. got = Fit(n.method)
    BY <1>9
  <2> HIDE DEF got, f
  <2>6. Wanted(a, b, f) \in {Free, got}
    BY <1>8, <2>1, <2>3, <2>4, <2>5, FitFits
  <2> QED BY <1>11, <2>6 DEF got, f
<1>12. CASE key = "madhab"
  <2> DEFINE got == At(Load(Document(c)), <<"calculation", "madhab">>)
  <2>1. Wanted(a, b, f) = IF a.name = "madhab" THEN a.key ELSE old.madhab
    <3> HIDE DEF f
    <3> QED BY <1>5, <1>10, <1>12 DEF WantedOfRest
  <2>2. Fits("shafi") /\ Fits("hanafi")
    BY NamesAssumption DEF Fits
  <2>3. Fits(n.madhab)
    BY <1>3, <1>6, <1>8, <2>2 DEF CalculationLoaded
  <2>4. got = Fit(n.madhab)
    BY <1>9
  <2> HIDE DEF got, f
  <2>5. Wanted(a, b, f) = got
    BY <1>8, <2>1, <2>3, <2>4, FitFits
  <2> QED BY <1>12, <2>5 DEF got, f
<1>13. CASE key \in {"fajr_angle", "isha_angle"}
  <2>1. Wanted(a, b, f) =
          IF b.calculation.method = "custom" /\ a.name \notin {"method", "method_auto", "install"}
          THEN Kept(b, f) ELSE Free
    <3> HIDE DEF f
    <3> QED BY <1>10, <1>13 DEF WantedOfRest
  <2>2. CASE b.calculation.method = "custom" /\ a.name \notin {"method", "method_auto", "install"}
    <3>1. n.method = "custom" /\ n[key] = old[key]
      BY <1>2, <1>8, <1>13, <2>2
    <3>2. At(Load(Document(c)), f) = SixDecimals(old[key])
      BY <1>9, <1>13, <3>1
    <3> QED BY <1>5, <1>13, <2>1, <2>2, <3>2
  <2> QED BY <2>1, <2>2
<1> QED BY <1>11, <1>12, <1>13 DEF DefaultRest

LEMMA DisplayServed ==
  ASSUME NEW g \in Groups, NEW a \in Commands[g], NEW b, Loaded(b), NEW c, Made(a, b, c)
  PROVE  Wanted(a, b, <<"display", "time_format">>) =
           At(Load(Document(c)), <<"display", "time_format">>)
<1> DEFINE f == <<"display", "time_format">>
<1>1. PICK k : Full(k) /\ Elsewhere(k, b) /\ Edit(a, k).ok /\ c = Edit(a, k).cfg
  BY MadeWith
<1>2. PICK n, old : n = c.display /\ old = b.display
  OBVIOUS
<1>3. DisplayLoaded(old) /\ k.display = old
  BY <1>1, <1>2 DEF Loaded, Elsewhere
<1>4. a.name = "timeformat" => /\ a.format \in {12, 24}
                               /\ n = [old EXCEPT !.time_format = a.format]
  <2>1. a.name = "timeformat" => /\ a.format \in {12, 24}
                                 /\ Edit(a, k).cfg.display = [k.display EXCEPT !.time_format = a.format]
    <3>1. DOMAIN k = Sections /\ Edit(a, k).ok
      BY <1>1 DEF Full
    <3> QED BY <3>1, EditRest
  <2> QED BY <1>1, <1>2, <1>3, <2>1
<1>5. a.name # "timeformat" => n = old
  <2>1. ASSUME a.name # "timeformat" PROVE n = old
    <3>1. SectionOf(a) # "display"
      BY <2>1 DEF SectionOf
    <3>2. Others(c, k, SectionOf(a))
      BY <1>1, EditElsewhere
    <3> QED BY <1>2, <1>3, <3>1, <3>2 DEF Others, Sections
  <2> QED BY <2>1
<1>6. DisplayLoaded(n)
      /\ n.time_format = IF a.name = "timeformat" THEN a.format ELSE old.time_format
  BY <1>3, <1>4, <1>5 DEF DisplayLoaded
<1>7. Kept(b, f) = old.time_format
  BY <1>2, Tuples DEF Decimals
<1>8. Wanted(a, b, f) = IF a.name = "timeformat" THEN a.format ELSE old.time_format
  <2>1. Wanted(a, b, f) = WantedOfRest(a, b, f) /\ f[2] = "time_format"
    BY DEF Wanted
  <2> HIDE DEF f
  <2> QED BY <1>7, <2>1 DEF WantedOfRest
<1> QED BY <1>2, <1>6, <1>8, DisplaySaved

-----------------------------------------------------------------------------
LEMMA WantedFound ==
  ASSUME NEW a, NEW b, NEW f, LooksUp(a, b), a.name # "location"
  PROVE  WantedOfLocation(a, b, f) =
           IF f[2] = "auto_detect" THEN TRUE
           ELSE IF f[2] \in {"city", "refresh_interval"} THEN Kept(b, f) ELSE Free
BY DEF WantedOfLocation, LooksUp, IfUnset

LEMMA WantedSet ==
  ASSUME NEW a, NEW b, NEW f, a.name = "location", ~a.auto
  PROVE  LET moved == a.lat # Nil \/ a.lon # Nil
             Arg(v, otherwise) == IF v = Nil THEN otherwise ELSE v
             w == WantedOfLocation(a, b, f)
         IN  /\ f[2] = "latitude" => w = SixDecimals(Arg(a.lat, At(b, f)))
             /\ f[2] = "longitude" => w = SixDecimals(Arg(a.lon, At(b, f)))
             /\ f[2] = "timezone" => w = Arg(a.timezone, IF moved THEN Free ELSE At(b, f))
             /\ f[2] = "timezone_offset" =>
                  w = IF moved \/ a.timezone # Nil THEN Free ELSE Kept(b, f)
             /\ f[2] = "city" => w = Fit(Arg(a.city, IF moved THEN "" ELSE At(b, f)))
             /\ f[2] = "country" => w = IF a.country # Nil THEN UpperCase(a.country)
                                        ELSE IF moved THEN "" ELSE At(b, f)
             /\ f[2] = "refresh_interval" => w = Arg(a.refresh, At(b, f))
             /\ f[2] \in Flags => w = (~moved /\ At(b, f))
             /\ f[2] = "updated_at" => w = Kept(b, f)
<1>1. ~LooksUp(a, b)
  BY DEF LooksUp, IfUnset
<1> QED BY <1>1 DEF WantedOfLocation, Flags

\* The place: a command that is not about it keeps it, but for what it looked up.
LEMMA OtherPlaceServed ==
  ASSUME NEW g \in Groups, NEW a \in Commands[g], NEW b, Loaded(b), NEW c, Good(c),
         Made(a, b, c), NEW key \in DOMAIN DefaultLocation,
         a.name \notin {"location", "gps_off"}
  PROVE  Wanted(a, b, <<"location", key>>)
           \in {Free, At(Load(Document(c)), <<"location", key>>)}
<1> DEFINE f == <<"location", key>>
           got == At(Load(Document(c)), f)
<1>1. PICK k : /\ Full(k) /\ Elsewhere(k, b) /\ Edit(a, k).ok /\ c = Edit(a, k).cfg
               /\ \/ ~LooksUp(a, b) /\ a.name # "gps_on" /\ k = b
                  \/ /\ LooksUp(a, b)
                     /\ Alike(k, b, Found) /\ k.location.auto_detect = TRUE
                  \/ /\ a.name = "gps_on" /\ Alike(k, b, PlaceKeys \cup GpsFlags)
                     /\ k.location.auto_detect = TRUE /\ k.location.use_gps = TRUE
  BY MadeFrom
<1>2. c.location = k.location
  <2>1. SectionOf(a) # "location"
    BY DEF SectionOf
  <2>2. Others(c, k, SectionOf(a))
    BY <1>1, EditElsewhere
  <2> QED BY <2>1, <2>2 DEF Others, Sections
<1>3. PlaceGood(c.location) /\ DOMAIN c.location = DOMAIN DefaultLocation
  BY <1>1, <1>2 DEF Good, Full
<1>4. c.location[key] = b.location[key] => got = Kept(b, f)
  BY <1>3, PlaceKept
<1>5. key \in GpsFlags => got = c.location[key]
  BY <1>3, PlaceSaved DEF GpsFlags, Decimals
<1>6. Wanted(a, b, f) = WantedOfLocation(a, b, f) /\ f[2] = key
  BY DEF Wanted
<1> HIDE DEF f, got
<1>7. CASE ~LooksUp(a, b) /\ a.name # "gps_on" /\ k = b
  <2>1. Wanted(a, b, f) = Kept(b, f)
    BY <1>6, <1>7 DEF WantedOfLocation
  <2>2. got = Kept(b, f)
    BY <1>2, <1>4, <1>7
  <2> QED BY <2>1, <2>2 DEF f, got
<1>8. CASE LooksUp(a, b) /\ Alike(k, b, Found) /\ k.location.auto_detect = TRUE
  <2>1. Wanted(a, b, f) = IF key = "auto_detect" THEN TRUE
                          ELSE IF key \in {"city", "refresh_interval"} THEN Kept(b, f) ELSE Free
    BY <1>6, <1>8, WantedFound
  <2>2. key = "auto_detect" => got = TRUE
    BY <1>2, <1>5, <1>8 DEF GpsFlags
  <2>3. key \in {"city", "refresh_interval"} => c.location[key] = b.location[key]
    BY <1>2, <1>8 DEF Alike, Found, PlaceKeys, GpsFlags
  <2>4. Wanted(a, b, f) \in {Free, got}
    BY <1>4, <2>1, <2>2, <2>3
  <2> QED BY <2>4 DEF f, got
<1>9. CASE /\ a.name = "gps_on" /\ Alike(k, b, PlaceKeys \cup GpsFlags)
           /\ k.location.auto_detect = TRUE /\ k.location.use_gps = TRUE
  <2>1. ~LooksUp(a, b)
    BY <1>9 DEF LooksUp, IfUnset
  <2>2. Wanted(a, b, f) = IF key \in {"auto_detect", "use_gps"} THEN TRUE
                          ELSE IF key \in PlaceKeys THEN Free ELSE Kept(b, f)
    BY <1>6, <1>9, <2>1 DEF WantedOfLocation
  <2>3. key \in {"auto_detect", "use_gps"} => got = TRUE
    BY <1>2, <1>5, <1>9 DEF GpsFlags
  <2>4. key \notin PlaceKeys \cup GpsFlags => c.location[key] = b.location[key]
    BY <1>2, <1>9 DEF Alike
  <2>5. Wanted(a, b, f) \in {Free, got}
    BY <1>4, <2>2, <2>3, <2>4 DEF GpsFlags
  <2> QED BY <2>5 DEF f, got
<1> QED BY <1>1, <1>7, <1>8, <1>9

LEMMA GpsOffServed ==
  ASSUME NEW a, NEW b, Loaded(b), NEW c, Good(c), Made(a, b, c),
         NEW key \in DOMAIN DefaultLocation, a.name = "gps_off"
  PROVE  Wanted(a, b, <<"location", key>>) = At(Load(Document(c)), <<"location", key>>)
<1> DEFINE f == <<"location", key>>
           got == At(Load(Document(c)), f)
<1>1. ~LooksUp(a, b) /\ Full(b)
  BY DEF LooksUp, IfUnset, Loaded, PlaceLoaded, Full
<1>2. c = SwitchGpsOff(b).cfg
  BY <1>1 DEF Made, Edit, GpsOff
<1>3. Alike(c, b, {"use_gps"}) /\ c.location.use_gps = FALSE
  BY <1>1, <1>2, GpsOffDoes
<1>4. PlaceGood(c.location) /\ DOMAIN c.location = DOMAIN DefaultLocation
  BY <1>3 DEF Good, Alike, Full
<1>5. key # "use_gps" => got = Kept(b, f)
  BY <1>3, <1>4, PlaceKept DEF Alike
<1>6. key = "use_gps" => got = FALSE
  BY <1>3, <1>4, PlaceSaved DEF Decimals
<1>7. Wanted(a, b, f) = WantedOfLocation(a, b, f) /\ f[2] = key
  BY DEF Wanted
<1> HIDE DEF f, got
<1>8. Wanted(a, b, f) = IF key = "use_gps" THEN FALSE ELSE Kept(b, f)
  BY <1>1, <1>7 DEF WantedOfLocation
<1>9. Wanted(a, b, f) = got
  BY <1>5, <1>6, <1>8
<1> QED BY <1>9 DEF f, got

LEMMA AutoServed ==
  ASSUME NEW a, NEW b, Loaded(b), NEW c, Good(c), Made(a, b, c),
         NEW key \in DOMAIN DefaultLocation, a.name = "location", a.auto
  PROVE  Wanted(a, b, <<"location", key>>)
           \in {Free, At(Load(Document(c)), <<"location", key>>)}
<1> DEFINE f == <<"location", key>>
           got == At(Load(Document(c)), f)
<1>1. LooksUp(a, b)
  BY DEF LooksUp
<1>2. PICK k : /\ Full(k) /\ Edit(a, k).ok /\ c = Edit(a, k).cfg
               /\ Alike(k, b, Found) /\ k.location.auto_detect = TRUE
  BY <1>1, MadeFrom
<1>3. Edit(a, k) = SetLabels(a, k)
  BY DEF Edit, LocationAuto
<1>4. /\ Alike(c, k, {"city", "country"})
      /\ c.location.city = IF a.city # Nil THEN Fit(a.city) ELSE k.location.city
      /\ a.country # Nil => CountryIsValid(a.country) /\ c.location.country = UpperCase(a.country)
  BY <1>2, <1>3, LabelsDo
<1>5. PlaceGood(c.location) /\ DOMAIN c.location = DOMAIN DefaultLocation
  BY <1>4 DEF Good, Alike, Full
<1>6. Wanted(a, b, f) = WantedOfLocation(a, b, f) /\ f[2] = key
  BY DEF Wanted
<1>7. {"city", "country", "auto_detect", "refresh_interval"} \subseteq DOMAIN DefaultLocation
  BY DEF DefaultLocation
<1>8. k.location.city = b.location.city /\ k.location.refresh_interval = b.location.refresh_interval
  BY <1>2, <1>7 DEF Alike, Found, PlaceKeys, GpsFlags
<1>9. c.location.auto_detect = TRUE /\ c.location.refresh_interval = b.location.refresh_interval
  BY <1>2, <1>4, <1>7, <1>8 DEF Alike
<1>10. At(b, f) = b.location[key]
  BY Tuples
<1>11. CASE key = "auto_detect"
  <2>1. got = TRUE
    BY <1>5, <1>9, <1>11, PlaceSaved DEF Decimals
  <2> HIDE DEF f, got
  <2>2. Wanted(a, b, f) = TRUE
    BY <1>6, <1>11 DEF WantedOfLocation
  <2>3. Wanted(a, b, f) \in {Free, got}
    BY <2>1, <2>2
  <2> QED BY <2>3 DEF f, got
<1>12. CASE key = "city"
  <2>1. got = Fit(c.location.city)
    BY <1>5, <1>12, PlaceSaved DEF Decimals
  <2>2. Fits(b.location.city)
    BY DEF Loaded, PlaceLoaded
  <2> HIDE DEF f, got
  <2>3. Wanted(a, b, f) = Fit(IF a.city = Nil THEN b.location.city ELSE a.city)
    BY <1>6, <1>10, <1>12 DEF WantedOfLocation
  <2>4. Wanted(a, b, f) = got
    BY <1>4, <1>8, <2>1, <2>2, <2>3, FitFits
  <2> QED BY <2>4 DEF f, got
<1>13. CASE key = "country"
  <2>1. got = Fit(c.location.country)
    BY <1>5, <1>13, PlaceSaved DEF Decimals
  <2> HIDE DEF f, got
  <2>2. Wanted(a, b, f) = IF a.country = Nil THEN Free ELSE UpperCase(a.country)
    BY <1>6, <1>13 DEF WantedOfLocation
  <2>3. CASE a.country # Nil
    <3>1. Fits(UpperCase(a.country))
      BY <1>4, <2>3, LocationAssumption DEF CountryIsValid, Fits
    <3>2. Wanted(a, b, f) = got
      BY <1>4, <2>1, <2>2, <2>3, <3>1, FitFits
    <3> QED BY <3>2 DEF f, got
  <2> QED BY <2>2, <2>3 DEF f
<1>14. CASE key = "refresh_interval"
  <2>1. got = Kept(b, f)
    BY <1>5, <1>9, <1>14, PlaceKept
  <2> HIDE DEF f, got
  <2>2. Wanted(a, b, f) = Kept(b, f)
    BY <1>6, <1>14 DEF WantedOfLocation
  <2> QED BY <2>1, <2>2 DEF f, got
<1>15. CASE key \notin {"city", "country", "auto_detect", "refresh_interval"}
  <2> HIDE DEF f
  <2>1. Wanted(a, b, f) = Free
    BY <1>6, <1>15 DEF WantedOfLocation
  <2> QED BY <2>1 DEF f
<1> QED BY <1>11, <1>12, <1>13, <1>14, <1>15

LEMMA SetServed ==
  ASSUME NEW a, NEW b, Loaded(b), NEW c, Good(c), Made(a, b, c),
         NEW key \in DOMAIN DefaultLocation, a.name = "location", ~a.auto
  PROVE  Wanted(a, b, <<"location", key>>)
           \in {Free, At(Load(Document(c)), <<"location", key>>)}
<1> DEFINE f == <<"location", key>>
           got == At(Load(Document(c)), f)
           moved == a.lat # Nil \/ a.lon # Nil
           old == b.location
           l == c.location
<1>1. ~LooksUp(a, b) /\ Full(b)
  BY DEF LooksUp, IfUnset, Loaded, PlaceLoaded, Full
<1>2. LocationSet(a, b).ok /\ c = LocationSet(a, b).cfg
  BY <1>1 DEF Made, Edit
<1>3. /\ Full(c)
      /\ l.latitude = IF a.lat = Nil THEN old.latitude ELSE a.lat
      /\ l.longitude = IF a.lon = Nil THEN old.longitude ELSE a.lon
      /\ a.timezone # Nil => Fits(a.timezone) /\ l.timezone = a.timezone
      /\ a.timezone = Nil /\ ~moved => /\ l.timezone = old.timezone
                                       /\ l.timezone_offset = old.timezone_offset
      /\ l.city = IF a.city # Nil THEN Fit(a.city) ELSE IF moved THEN "" ELSE old.city
      /\ l.country = IF a.country # Nil THEN UpperCase(a.country)
                     ELSE IF moved THEN "" ELSE old.country
      /\ a.country # Nil => CountryIsValid(a.country)
      /\ l.refresh_interval = IF a.refresh # Nil THEN a.refresh ELSE old.refresh_interval
      /\ moved => l.auto_detect = FALSE /\ l.use_gps = FALSE
      /\ ~moved => l.auto_detect = old.auto_detect /\ l.use_gps = old.use_gps
      /\ l.updated_at = old.updated_at
  <2>1. Full(c) /\ SetAs(a, old, l)
    BY <1>1, <1>2, LocationSetDoes
  <2> HIDE DEF l, old
  <2> QED BY <2>1 DEF SetAs
<1>4. got = IF key \in Decimals THEN SixDecimals(l[key])
            ELSE IF key \in {"timezone", "city", "country"} THEN Fit(l[key]) ELSE l[key]
  BY <1>3, PlaceSaved DEF Good, Full
<1>5. At(b, f) = old[key]
      /\ Kept(b, f) = IF key \in Decimals THEN SixDecimals(old[key]) ELSE old[key]
  BY Tuples
<1>6. Wanted(a, b, f) = WantedOfLocation(a, b, f) /\ f[2] = key
  BY DEF Wanted
<1>7. Fits(old.timezone) /\ Fits(old.city) /\ Fits(old.country) /\ Fits("")
  BY NamesAssumption DEF Loaded, PlaceLoaded, Fits
<1>8. old.auto_detect \in BOOLEAN /\ old.use_gps \in BOOLEAN
  BY DEF Loaded, PlaceLoaded, PlaceGood
<1> HIDE DEF f, got, l, old, moved
<1>9. CASE key \in {"latitude", "longitude"}
  <2>0. At(b, f) = old[key]
    BY <1>5
  <2>1. /\ key = "latitude" => Wanted(a, b, f) = SixDecimals(IF a.lat = Nil THEN At(b, f) ELSE a.lat)
        /\ key = "longitude" => Wanted(a, b, f) = SixDecimals(IF a.lon = Nil THEN At(b, f) ELSE a.lon)
    BY <1>6, <1>9, WantedSet DEF Flags
  <2>2. got = SixDecimals(l[key])
    BY <1>4, <1>9 DEF Decimals
  <2>3. Wanted(a, b, f) = got
    BY <1>3, <1>9, <2>0, <2>1, <2>2
  <2> QED BY <2>3 DEF f, got
<1>10. CASE key = "timezone"
  <2>1. Wanted(a, b, f) = IF a.timezone = Nil THEN IF moved THEN Free ELSE At(b, f)
                          ELSE a.timezone
    BY <1>6, <1>10, WantedSet DEF moved, Flags
  <2>2. got = Fit(l.timezone)
    BY <1>4, <1>10 DEF Decimals
  <2>3. Fit(old.timezone) = old.timezone /\ (a.timezone # Nil => Fit(a.timezone) = a.timezone)
    BY <1>3, <1>7, FitFits
  <2>4. At(b, f) = old.timezone
    BY <1>5, <1>10
  <2>5. CASE a.timezone # Nil
    BY <1>3, <2>1, <2>2, <2>3, <2>5 DEF f, got
  <2>6. CASE a.timezone = Nil
    BY <1>3, <2>1, <2>2, <2>3, <2>4, <2>6 DEF f, got
  <2> QED BY <2>5, <2>6
<1>11. CASE key = "timezone_offset"
  <2>1. Wanted(a, b, f) = IF moved \/ a.timezone # Nil THEN Free ELSE Kept(b, f)
    BY <1>1, <1>6, <1>11, WantedSet DEF moved, Flags
  <2>2. got = SixDecimals(l.timezone_offset) /\ Kept(b, f) = SixDecimals(old.timezone_offset)
    BY <1>4, <1>5, <1>11 DEF Decimals
  <2>3. Wanted(a, b, f) \in {Free, got}
    BY <1>3, <2>1, <2>2
  <2> QED BY <2>3 DEF f, got
<1>12. CASE key = "city"
  <2>1. Wanted(a, b, f) = Fit(IF a.city = Nil THEN IF moved THEN "" ELSE At(b, f) ELSE a.city)
    BY <1>6, <1>12, WantedSet DEF moved, Flags
  <2>2. got = Fit(l.city)
    BY <1>4, <1>12 DEF Decimals
  <2>3. Fit("") = "" /\ Fit(old.city) = old.city
    BY <1>7, FitFits
  <2>4. \A x : Fit(Fit(x)) = Fit(x)
    BY FitFits
  <2>5. Wanted(a, b, f) = got
    BY <1>3, <1>5, <1>12, <2>1, <2>2, <2>3, <2>4
  <2> QED BY <2>5 DEF f, got
<1>13. CASE key = "country"
  <2>1. Wanted(a, b, f) = IF a.country # Nil THEN UpperCase(a.country)
                          ELSE IF moved THEN "" ELSE At(b, f)
    BY <1>6, <1>13, WantedSet DEF moved, Flags
  <2>2. got = Fit(l.country)
    BY <1>4, <1>13 DEF Decimals
  <2>3. a.country # Nil => Fits(UpperCase(a.country))
    BY <1>3, LocationAssumption DEF CountryIsValid, Fits
  <2>4. /\ Fit(old.country) = old.country /\ Fit("") = ""
        /\ a.country # Nil => Fit(UpperCase(a.country)) = UpperCase(a.country)
    BY <1>7, <2>3, FitFits
  <2>5. At(b, f) = old.country
    BY <1>5, <1>13
  <2>6. Wanted(a, b, f) = got
    BY <1>3, <2>1, <2>2, <2>4, <2>5
  <2> QED BY <2>6 DEF f, got
<1>14. CASE key = "refresh_interval"
  <2>1. Wanted(a, b, f) = IF a.refresh = Nil THEN old.refresh_interval ELSE a.refresh
    BY <1>1, <1>5, <1>6, <1>14, WantedSet DEF Flags
  <2>2. got = l.refresh_interval
    BY <1>4, <1>14 DEF Decimals
  <2>3. Wanted(a, b, f) = got
    BY <1>3, <2>1, <2>2
  <2> QED BY <2>3 DEF f, got
<1>15. CASE key \in {"auto_detect", "use_gps"}
  <2>1. Wanted(a, b, f) = (~moved /\ old[key])
    <3>1. key \in Flags /\ f[2] = key
      BY <1>6, <1>15 DEF Flags
    <3>2. Wanted(a, b, f) = (~moved /\ At(b, f))
      BY <1>6, <3>1, WantedSet DEF moved
    <3> QED BY <1>5, <3>2
  <2>2. got = l[key]
    BY <1>4, <1>15 DEF Decimals
  <2>3. Wanted(a, b, f) = got
    BY <1>3, <1>8, <1>15, <2>1, <2>2
  <2> QED BY <2>3 DEF f, got
<1>16. CASE key = "updated_at"
  <2>1. Wanted(a, b, f) = Kept(b, f)
    BY <1>1, <1>6, <1>16, WantedSet DEF Flags
  <2>2. got = l.updated_at /\ Kept(b, f) = old.updated_at
    BY <1>4, <1>5, <1>16 DEF Decimals
  <2>3. Wanted(a, b, f) = got
    BY <1>3, <2>1, <2>2
  <2> QED BY <2>3 DEF f, got
<1>17. key \in {"latitude", "longitude", "timezone", "timezone_offset", "auto_detect", "use_gps",
                "updated_at", "refresh_interval", "city", "country"}
  BY DEF DefaultLocation
<1> QED BY <1>9, <1>10, <1>11, <1>12, <1>13, <1>14, <1>15, <1>16, <1>17

-----------------------------------------------------------------------------
LEMMA AllServed ==
  ASSUME NEW g \in Groups, NEW a \in Commands[g], NEW b, Loaded(b), NEW c, Good(c),
         Made(a, b, c), NEW f \in Fields
  PROVE  Wanted(a, b, f) \in {Free, At(Load(Document(c)), f)}
<1>1. CASE \E key \in DOMAIN DefaultLocation : f = <<"location", key>>
  <2>1. PICK key \in DOMAIN DefaultLocation : f = <<"location", key>>
    BY <1>1
  <2>2. CASE a.name \notin {"location", "gps_off"}
    BY <2>1, <2>2, OtherPlaceServed
  <2>3. CASE a.name = "gps_off"
    BY <2>1, <2>3, GpsOffServed
  <2>4. CASE a.name = "location" /\ a.auto
    BY <2>1, <2>4, AutoServed
  <2>5. CASE a.name = "location" /\ ~a.auto
    BY <2>1, <2>5, SetServed
  <2> QED BY <2>2, <2>3, <2>4, <2>5
<1>2. CASE \E key \in DOMAIN DefaultRest.notification : f = <<"notification", key>>
  BY <1>2, NotificationServed
<1>3. CASE \E key \in DOMAIN DefaultRest.calculation : f = <<"calculation", key>>
  BY <1>3, CalculationServed
<1>4. CASE f = <<"display", "time_format">>
  BY <1>4, DisplayServed
<1>5. CASE \E p \in Prayers, key \in DOMAIN DefaultPrayer : f = <<"prayers", p, key>>
  BY <1>5, PrayersServed
<1>6. \/ \E key \in DOMAIN DefaultLocation : f = <<"location", key>>
      \/ \E key \in DOMAIN DefaultRest.notification : f = <<"notification", key>>
      \/ \E key \in DOMAIN DefaultRest.calculation : f = <<"calculation", key>>
      \/ f = <<"display", "time_format">>
      \/ \E p \in Prayers, key \in DOMAIN DefaultPrayer : f = <<"prayers", p, key>>
  BY DEF Fields
<1> QED BY <1>1, <1>2, <1>3, <1>4, <1>5, <1>6

\* What the setters make of a handle depends on the machine alone.
LEMMA SameHost ==
  ASSUME host' = host, NEW a, NEW c PROVE Edit(a, c)' = Edit(a, c)
<1>1. \A k, lat, lon : SetCoordinates(k, lat, lon)' = SetCoordinates(k, lat, lon)
  BY DEF SetCoordinates, Ok, Fail
<1>2. \A k : MoveTo(a, k)' = MoveTo(a, k)
  BY <1>1 DEF MoveTo, Fail
<1>3. LocationSet(a, c)' = LocationSet(a, c)
  <2>1. MoveTo(a, c)' = MoveTo(a, c)
    BY <1>2
  <2> QED BY ONLY <2>1 DEF LocationSet, If, Then
<1>4. SetAdhanFile(c, a.path)' = SetAdhanFile(c, a.path)
  BY DEF SetAdhanFile, Resolves
<1> QED BY <1>3, <1>4 DEF Edit, AdhanFileCommand

-----------------------------------------------------------------------------
\* Provenance is inductive, given the invariant of the first part.
LEMMA ProvenanceInit == Init => Provenance
BY DEF Init, Provenance

\* A handle stays made as it was while nothing changes.
LEMMA MadeStays ==
  ASSUME host' = host, NEW a, NEW b, NEW c, Made(a, b, c) PROVE Made(a, b, c)'
<1>1. \A k : Edit(a, k)' = Edit(a, k)
  BY SameHost
<1>2. /\ \A answer, r : Detect(b, answer, r, host)' = Detect(b, answer, r, host)
      /\ \A answer : SwitchGpsOn(b, answer, host)' = SwitchGpsOn(b, answer, host)
      /\ Answers(host)' = Answers(host)
  OBVIOUS
<1> QED BY <1>1, <1>2 DEF Made

LEMMA ProvenanceStep ==
  ASSUME IInv, Provenance, [Next]_vars PROVE Provenance'
<1>0. FileOK /\ HandleInv /\ TypeOK
  BY DEF IInv
<1>1. CASE Refuse \/ Save \/ Failure \/ Finish \/ \E a \in Commands[group] : Start(a)
  BY <1>1 DEF Refuse, Save, Failure, Finish, End, Start, Provenance
<1>2. CASE Open
  <2>1. PICK c : c = Load(file)
    OBVIOUS
  <2>2. base' = c /\ command' = command /\ host' = host
    BY <1>2, <2>1 DEF Open
  <2>3. Loaded(c)
    BY <1>0, <1>2, <2>1, LoadLoaded DEF Open
  <2>4. \/ LooksUp(command, c) /\ pc' = "lookup" /\ cfg' = c
        \/ command.name = "gps_on" /\ pc' = "probe" /\ cfg' = c
        \/ /\ ~LooksUp(command, c) /\ command.name # "gps_on" /\ ~NothingToDo(command, c)
           /\ cfg' = Edit(command, c).cfg
           /\ pc' = (IF Edit(command, c).ok THEN "save" ELSE "fail")
        \/ pc' = "done" /\ cfg' = c
    BY <1>2, <2>1 DEF Open
  <2>5. pc' = "save" => Made(command, c, cfg')
    BY <2>4 DEF Made
  <2>6. PICK a, n : a = command /\ n = cfg'
    OBVIOUS
  <2>7. pc' = "save" => Made(command, base, cfg)'
    <3>1. Made(a, c, n) => Made(a, c, n)'
      BY <2>2, MadeStays
    <3> QED BY <2>2, <2>5, <2>6, <3>1
  <2> QED BY <2>2, <2>3, <2>4, <2>7 DEF Provenance
<1>3. CASE LookUp
  <2>1. /\ pc = "lookup" /\ cfg = base /\ LooksUp(command, base) /\ Loaded(base)
        /\ UNCHANGED <<host, command, base>>
    BY <1>3 DEF LookUp, Provenance
  <2>2. PICK answer \in Answers(host), r \in Replies :
          LET d == Detect(cfg, answer, r, host)
          IN  \/ pc' = "fail"
              \/ /\ d.ok /\ cfg' = Edit(command, d.cfg).cfg
                 /\ pc' = (IF Edit(command, d.cfg).ok THEN "save" ELSE "fail")
    BY <1>3 DEF LookUp
  <2>3. pc' \in {"save", "fail"}
    BY <2>2
  <2>4. pc' = "save" => Made(command, base, cfg')
    BY <2>1, <2>2 DEF Made
  <2>5. PICK a, b, n : a = command /\ b = base /\ n = cfg'
    OBVIOUS
  <2>6. pc' = "save" => Made(command, base, cfg)'
    <3>1. Made(a, b, n) => Made(a, b, n)'
      BY <2>1, MadeStays
    <3> QED BY <2>1, <2>4, <2>5, <3>1
  <2> QED BY <2>1, <2>3, <2>6 DEF Provenance
<1>4. CASE Probe
  <2>1. /\ pc = "probe" /\ cfg = base /\ command.name = "gps_on" /\ Loaded(base)
        /\ UNCHANGED <<host, command, base>>
    BY <1>4 DEF Probe, Provenance
  <2>2. PICK answer \in Answers(host) :
          LET s == SwitchGpsOn(cfg, answer, host)
          IN  cfg' = s.cfg /\ pc' = (IF s.ok THEN "save" ELSE "fail")
    BY <1>4 DEF Probe
  <2>3. pc' \in {"save", "fail"}
    BY <2>2
  <2>4. pc' = "save" => Made(command, base, cfg')
    BY <2>1, <2>2 DEF Made
  <2>5. PICK a, b, n : a = command /\ b = base /\ n = cfg'
    OBVIOUS
  <2>6. pc' = "save" => Made(command, base, cfg)'
    <3>1. Made(a, b, n) => Made(a, b, n)'
      BY <2>1, MadeStays
    <3> QED BY <2>1, <2>4, <2>5, <3>1
  <2> QED BY <2>1, <2>3, <2>6 DEF Provenance
<1>5. CASE HandEdit \/ FileLost \/ UNCHANGED vars
  <2>1. UNCHANGED <<host, pc, command, base, cfg>>
    BY <1>5 DEF HandEdit, FileLost, vars
  <2>2. PICK a, b, n : a = command /\ b = base /\ n = cfg
    OBVIOUS
  <2>3. Made(command, base, cfg) => Made(command, base, cfg)'
    <3>1. Made(a, b, n) => Made(a, b, n)'
      BY <2>1, MadeStays
    <3> QED BY <2>1, <2>2, <3>1
  <2> QED BY <2>1, <2>3 DEF Provenance
<1> QED BY <1>1, <1>2, <1>3, <1>4, <1>5 DEF Next

\* What a command is about to save is its own: its setters, applied to the
\* handle it loaded or to that handle as a lookup or a receiver changed it, and
\* nothing that was half done (cmd_location.c:62-105, cmd_notification.c:71-90,
\* muslimtify_location.c:20-66).
THEOREM HandlesAreMade == Spec => []Provenance
<1>1. IInv /\ Provenance /\ [Next]_vars => Provenance'
  BY ProvenanceStep
<1> QED BY ProvenanceInit, <1>1, Inductive, PTL DEF Spec

\* A save of a handle made this way leaves a file that serves; a command that
\* fails has not come to its save.
LEMMA SavedServes ==
  ASSUME IInv, Provenance, [Next]_vars, Save PROVE Serves(file')
<1>1. /\ group \in Groups /\ command \in Commands[group] /\ Loaded(base) /\ Good(cfg)
      /\ Made(command, base, cfg) /\ file' = Document(cfg)
  BY DEF IInv, HandleInv, Provenance, Save
<1>2. ASSUME NEW f \in Fields
      PROVE  Wanted(command, base, f) \in {Free, At(Load(Document(cfg)), f)}
  BY <1>1, AllServed
<1> QED BY <1>1, <1>2 DEF Serves

LEMMA FailedLeaves ==
  ASSUME [Next]_vars, reply # "failed", reply' = "failed" PROVE file' = file
BY DEF Next, Start, Refuse, Open, LookUp, Probe, Save, Failure, Finish, End, HandEdit, FileLost, vars

\* A command that succeeds leaves a file that, loaded again, has exactly what
\* its arguments ask for with every other field as it was loaded; one that fails
\* leaves the file alone. It holds for every set of commands and arguments,
\* every answer of receiver and lookup and every file of a hand, and for a file
\* that is changed or lost while the command runs (cmd_location.c:62-105,
\* cmd_notification.c:71-90, config.c:148-234).
THEOREM DoesAsAsked == Spec => DoesWhatWasAsked
<1>1. IInv /\ Provenance /\ [Next]_vars =>
        [/\ Save => Serves(file')
         /\ reply # "failed" /\ reply' = "failed" => file' = file]_vars
  BY SavedServes, FailedLeaves
<1> QED BY <1>1, Inductive, HandlesAreMade, PTL DEF Spec, DoesWhatWasAsked

-----------------------------------------------------------------------------
\* The position of a receiver. The read loop of gpsd's lines is a recursive
\* function; Reads says it without LET, and that there is one such function is
\* proved by the least length that has none.
Unread == [scan |-> NothingSeen, lines_seen |-> 0]

Reads(lines, len, after) ==
  after = [n \in 0..len |-> IF n = 0 THEN Unread ELSE ReadLine(after[n - 1], lines[n])]

LEMMA ReadsLonger ==
  ASSUME NEW lines, NEW len \in Nat, NEW after, Reads(lines, len, after)
  PROVE  \E longer : Reads(lines, len + 1, longer)
<1> DEFINE longer == [n \in 0..(len + 1) |->
                        IF n = len + 1 THEN ReadLine(after[len], lines[len + 1]) ELSE after[n]]
<1>1. \A n \in 0..len : after[n] = IF n = 0 THEN Unread ELSE ReadLine(after[n - 1], lines[n])
  BY DEF Reads
<1>2. ASSUME NEW n \in 0..(len + 1)
      PROVE  longer[n] = IF n = 0 THEN Unread ELSE ReadLine(longer[n - 1], lines[n])
  <2>1. CASE n = len + 1
    <3>1. n # 0 /\ n - 1 = len /\ len \in 0..(len + 1) /\ len # len + 1
      BY <2>1
    <3>2. longer[n - 1] = after[len] /\ longer[n] = ReadLine(after[len], lines[len + 1])
      BY <2>1, <3>1
    <3> QED BY <2>1, <3>1, <3>2
  <2>2. CASE n # len + 1
    <3>1. n \in 0..len /\ longer[n] = after[n]
      BY <2>2
    <3>2. CASE n = 0
      BY <1>1, <3>1, <3>2
    <3>3. CASE n # 0
      <4>1. n - 1 \in 0..(len + 1) /\ n - 1 # len + 1
        BY <3>1, <3>3
      <4>2. longer[n - 1] = after[n - 1]
        BY <4>1
      <4> QED BY <1>1, <3>1, <3>3, <4>2
    <3> QED BY <3>2, <3>3
  <2> QED BY <2>1, <2>2
<1>3. longer = [n \in 0..(len + 1) |-> longer[n]]
  OBVIOUS
<1> HIDE DEF longer
<1>4. longer = [n \in 0..(len + 1) |->
                  IF n = 0 THEN Unread ELSE ReadLine(longer[n - 1], lines[n])]
  BY <1>2, <1>3
<1> QED BY <1>4 DEF Reads

LEMMA ReadsExists ==
  ASSUME NEW lines, NEW len \in Nat PROVE \E after : Reads(lines, len, after)
<1> DEFINE Unreadable == {n \in Nat : ~\E after : Reads(lines, n, after)}
<1>1. ASSUME Unreadable # {} PROVE FALSE
  <2>1. PICK m \in Unreadable : \A k \in Unreadable : m <= k
    BY <1>1, SomeLeast
  <2>2. m \in Nat /\ ~\E after : Reads(lines, m, after)
    BY <2>1
  <2>3. CASE m = 0
    <3> DEFINE first == [n \in 0..0 |-> Unread]
    <3>1. \A n \in 0..0 : n = 0
      OBVIOUS
    <3>2. first = [n \in 0..0 |-> IF n = 0 THEN Unread ELSE ReadLine(first[n - 1], lines[n])]
      BY <3>1
    <3>3. Reads(lines, 0, first)
      BY <3>2 DEF Reads
    <3> QED BY <2>2, <2>3, <3>3
  <2>4. CASE m # 0
    <3>1. m - 1 \in Nat /\ (m - 1) + 1 = m /\ ~(m <= m - 1)
      BY <2>2, <2>4
    <3>2. \E after : Reads(lines, m - 1, after)
      BY <2>1, <3>1
    <3>3. \E after : Reads(lines, m, after)
      BY <3>1, <3>2, ReadsLonger
    <3> QED BY <2>2, <3>3
  <2> QED BY <2>3, <2>4
<1> QED BY <1>1

\* GpsdRead is what the loop knows after the last line.
LEMMA GpsdReads ==
  ASSUME NEW lines, Len(lines) \in Nat
  PROVE  \E after : Reads(lines, Len(lines), after) /\ GpsdRead(lines) = after[Len(lines)].scan
<1> DEFINE after[n \in 0..Len(lines)] ==
             IF n = 0 THEN [scan |-> NothingSeen, lines_seen |-> 0]
             ELSE ReadLine(after[n - 1], lines[n])
<1>1. GpsdRead(lines) = after[Len(lines)].scan
  BY DEF GpsdRead
<1>2. \E f : f = [n \in 0..Len(lines) |->
               IF n = 0 THEN [scan |-> NothingSeen, lines_seen |-> 0]
               ELSE ReadLine(f[n - 1], lines[n])]
  BY ReadsExists DEF Reads, Unread
<1>3. after = [n \in 0..Len(lines) |->
               IF n = 0 THEN [scan |-> NothingSeen, lines_seen |-> 0]
               ELSE ReadLine(after[n - 1], lines[n])]
  BY <1>2
<1>4. Reads(lines, Len(lines), after)
  BY <1>3 DEF Reads, Unread
<1> QED BY <1>1, <1>4

-----------------------------------------------------------------------------
\* The lines of gpsd that are whole, those of them the loop may take, and what
\* is a fix among these, up to the n-th line.
Whole(lines, n) == {i \in 1..n : ~lines[i].overlong}
Allowed(lines, n) == {i \in Whole(lines, n) : Cardinality(Whole(lines, i)) <= GpsdMaxLines}
Fixes(lines, n) == {i \in Allowed(lines, n) : IsFix(lines[i])}

LEMMA WholeFinite ==
  ASSUME NEW lines, NEW n \in Nat
  PROVE  IsFiniteSet(Whole(lines, n)) /\ Cardinality(Whole(lines, n)) \in Nat
<1>1. IsFiniteSet(1..n)
  BY FS_Interval
<1>2. Whole(lines, n) \subseteq 1..n
  BY DEF Whole
<1> QED BY <1>1, <1>2, FS_Subset, FS_CardinalityType

\* The next line is overlong, or one more is whole.
LEMMA WholeNext ==
  ASSUME NEW lines, NEW n \in Nat
  PROVE  /\ lines[n + 1].overlong => Whole(lines, n + 1) = Whole(lines, n)
         /\ ~lines[n + 1].overlong =>
              /\ Whole(lines, n + 1) = Whole(lines, n) \cup {n + 1}
              /\ Cardinality(Whole(lines, n + 1)) = Cardinality(Whole(lines, n)) + 1
<1>0. \A i : i \in 1..(n + 1) <=> (i \in 1..n \/ i = n + 1)
  OBVIOUS
<1>1. ASSUME lines[n + 1].overlong PROVE Whole(lines, n + 1) = Whole(lines, n)
  BY <1>0, <1>1 DEF Whole
<1>2. ASSUME ~lines[n + 1].overlong
      PROVE  /\ Whole(lines, n + 1) = Whole(lines, n) \cup {n + 1}
             /\ Cardinality(Whole(lines, n + 1)) = Cardinality(Whole(lines, n)) + 1
  <2>1. Whole(lines, n + 1) = Whole(lines, n) \cup {n + 1}
    BY <1>0, <1>2 DEF Whole
  <2>2. n + 1 \notin Whole(lines, n)
    BY DEF Whole
  <2> QED BY <2>1, <2>2, WholeFinite, FS_AddElement
<1> QED BY <1>1, <1>2

\* It is allowed if it is whole and fewer than the last allowed one were before.
LEMMA AllowedNext ==
  ASSUME NEW lines, NEW n \in Nat
  PROVE  LET taken == ~lines[n + 1].overlong /\ Cardinality(Whole(lines, n)) < GpsdMaxLines
         IN  /\ Allowed(lines, n + 1) = IF taken THEN Allowed(lines, n) \cup {n + 1}
                                        ELSE Allowed(lines, n)
             /\ n + 1 \notin Allowed(lines, n)
             /\ \A i \in Allowed(lines, n) : i \in Nat /\ i < n + 1
<1>1. GpsdMaxLines \in Nat /\ Cardinality(Whole(lines, n)) \in Nat
  BY LocationAssumption, WholeFinite
<1>2. n + 1 \notin Allowed(lines, n) /\ \A i \in Allowed(lines, n) : i \in Nat /\ i < n + 1
  BY DEF Allowed, Whole
<1>3. CASE lines[n + 1].overlong
  <2>1. Whole(lines, n + 1) = Whole(lines, n)
    BY <1>3, WholeNext
  <2> QED BY <1>2, <1>3, <2>1 DEF Allowed
<1>4. CASE ~lines[n + 1].overlong
  <2>1. /\ Whole(lines, n + 1) = Whole(lines, n) \cup {n + 1}
        /\ Cardinality(Whole(lines, n + 1)) = Cardinality(Whole(lines, n)) + 1
    BY <1>4, WholeNext
  <2>2. Cardinality(Whole(lines, n + 1)) <= GpsdMaxLines <=> Cardinality(Whole(lines, n)) < GpsdMaxLines
    BY <1>1, <2>1
  <2>3. \A i : i \in Allowed(lines, n + 1) <=>
          \/ i \in Allowed(lines, n)
          \/ i = n + 1 /\ Cardinality(Whole(lines, n + 1)) <= GpsdMaxLines
    BY <2>1 DEF Allowed
  <2> QED BY <1>2, <1>4, <2>2, <2>3
<1> QED BY <1>3, <1>4

\* What the loop knows after n lines.
ReadSoFar(lines, n, read) ==
  /\ read.scan.have_fix <=> Fixes(lines, n) # {}
  /\ \A i \in Fixes(lines, n) : (\A j \in Fixes(lines, n) : i <= j) =>
       read.scan.lat = lines[i].lat /\ read.scan.lon = lines[i].lon
  /\ Fixes(lines, n) = {} =>
       /\ read.lines_seen = Cardinality(Allowed(lines, n))
       /\ read.scan.saw_device <=> \E i \in Allowed(lines, n) : OfDevice(lines[i])

\* Of the whole lines the allowed ones are the first.
LEMMA AllowedCount ==
  ASSUME NEW lines, NEW n \in Nat
  PROVE  LET whole == Cardinality(Whole(lines, n))
             allowed == Cardinality(Allowed(lines, n))
         IN  allowed = IF whole <= GpsdMaxLines THEN whole ELSE GpsdMaxLines
<1> DEFINE Count(k) == LET whole == Cardinality(Whole(lines, k))
                       IN  IF whole <= GpsdMaxLines THEN whole ELSE GpsdMaxLines
           Wrong == {k \in Nat : Cardinality(Allowed(lines, k)) # Count(k)}
<1>0. GpsdMaxLines \in Nat
  BY LocationAssumption
<1>1. ASSUME Wrong # {} PROVE FALSE
  <2>1. PICK m \in Wrong : \A k \in Wrong : m <= k
    <3> HIDE DEF Count
    <3> QED BY <1>1, SomeLeast
  <2>2. m \in Nat /\ Cardinality(Allowed(lines, m)) # Count(m)
    OBVIOUS
  <2>3. CASE m = 0
    <3>1. Whole(lines, 0) = {} /\ Allowed(lines, 0) = {}
      BY DEF Whole, Allowed
    <3>2. Cardinality({}) = 0
      BY FS_EmptySet
    <3> QED BY <1>0, <2>2, <2>3, <3>1, <3>2
  <2>4. CASE m # 0
    <3>1. PICK k \in Nat : m = k + 1
      BY <2>2, <2>4
    <3>2. Cardinality(Allowed(lines, k)) = Count(k)
      <4>1. ~(m <= k)
        BY <3>1
      <4> HIDE DEF Count
      <4> QED BY <2>1, <4>1
    <3>3. /\ Cardinality(Whole(lines, k)) \in Nat /\ IsFiniteSet(Allowed(lines, k))
      <4>1. Allowed(lines, k) \subseteq Whole(lines, k)
        BY DEF Allowed
      <4> QED BY <4>1, WholeFinite, FS_Subset
    <3>4. CASE lines[m].overlong
      <4>1. Whole(lines, m) = Whole(lines, k) /\ Allowed(lines, m) = Allowed(lines, k)
        BY <3>1, <3>4, WholeNext, AllowedNext
      <4> QED BY <2>2, <3>2, <4>1
    <3>5. CASE ~lines[m].overlong
      <4>1. Cardinality(Whole(lines, m)) = Cardinality(Whole(lines, k)) + 1
        BY <3>1, <3>5, WholeNext
      <4>2. CASE Cardinality(Whole(lines, k)) < GpsdMaxLines
        <5>1. Allowed(lines, m) = Allowed(lines, k) \cup {m} /\ m \notin Allowed(lines, k)
          BY <3>1, <3>5, <4>2, AllowedNext
        <5>2. Cardinality(Allowed(lines, m)) = Cardinality(Allowed(lines, k)) + 1
          BY <3>3, <5>1, FS_AddElement
        <5> QED BY <1>0, <2>2, <3>2, <3>3, <4>1, <4>2, <5>2
      <4>3. CASE ~(Cardinality(Whole(lines, k)) < GpsdMaxLines)
        <5>1. Allowed(lines, m) = Allowed(lines, k)
          BY <3>1, <3>5, <4>3, AllowedNext
        <5> QED BY <1>0, <2>2, <3>2, <3>3, <4>1, <4>3, <5>1
      <4> QED BY <4>2, <4>3
    <3> QED BY <3>4, <3>5
  <2> QED BY <2>3, <2>4
<1> QED BY <1>1

-----------------------------------------------------------------------------
\* A line that the loop takes makes a fix the first one, or makes none.
LEMMA TakesALine ==
  ASSUME NEW lines, NEW n \in Nat, NEW read, ReadSoFar(lines, n, read), Fixes(lines, n) = {},
         ~lines[n + 1].overlong, read.lines_seen < GpsdMaxLines
  PROVE  ReadSoFar(lines, n + 1, ReadLine(read, lines[n + 1]))
<1> DEFINE line == lines[n + 1]
<1>1. /\ GpsdMaxLines \in Nat /\ Cardinality(Whole(lines, n)) \in Nat
      /\ IsFiniteSet(Allowed(lines, n)) /\ Cardinality(Allowed(lines, n)) \in Nat
  <2>1. Allowed(lines, n) \subseteq Whole(lines, n)
    BY DEF Allowed
  <2> QED BY <2>1, LocationAssumption, WholeFinite, FS_Subset, FS_CardinalityType
<1>2. read.lines_seen = Cardinality(Allowed(lines, n)) /\ ~read.scan.have_fix
  BY DEF ReadSoFar
<1>3. Cardinality(Whole(lines, n)) < GpsdMaxLines
  BY <1>1, <1>2, AllowedCount
<1>4. Allowed(lines, n + 1) = Allowed(lines, n) \cup {n + 1} /\ n + 1 \notin Allowed(lines, n)
  BY <1>3, AllowedNext
<1>5. Cardinality(Allowed(lines, n + 1)) = Cardinality(Allowed(lines, n)) + 1
  BY <1>1, <1>4, FS_AddElement
<1>6. Fixes(lines, n + 1) = IF IsFix(line) THEN {n + 1} ELSE {}
  <2>1. \A i \in Allowed(lines, n) : ~IsFix(lines[i])
    BY DEF Fixes
  <2>2. \A i : i \in Fixes(lines, n + 1) <=> i = n + 1 /\ IsFix(line)
    BY <1>4, <2>1, Zenon DEF Fixes
  <2>3. CASE IsFix(line)
    <3>1. \A i : i \in Fixes(lines, n + 1) <=> i \in {n + 1}
      BY <2>2, <2>3, Zenon
    <3>2. Fixes(lines, n + 1) = {n + 1}
      BY ONLY <3>1
    <3> QED BY <2>3, <3>2, Zenon
  <2>4. CASE ~IsFix(line)
    <3>1. Fixes(lines, n + 1) = {}
      BY <2>2, <2>4, Zenon
    <3> QED BY <2>4, <3>1, Zenon
  <2> QED BY <2>3, <2>4
<1>7. ReadLine(read, line) = [scan |-> ScanLine(read.scan, line), lines_seen |-> read.lines_seen + 1]
  <2>1. ~(read.lines_seen >= GpsdMaxLines)
    BY <1>1, <1>2
  <2> QED BY <1>2, <2>1 DEF ReadLine
<1>8. PICK next : next = ReadLine(read, line)
  OBVIOUS
<1>9. /\ next.lines_seen = Cardinality(Allowed(lines, n + 1))
      /\ next.scan.have_fix <=> IsFix(line)
      /\ next.scan.saw_device <=> (read.scan.saw_device \/ OfDevice(line))
      /\ IsFix(line) => next.scan.lat = line.lat /\ next.scan.lon = line.lon
  <2>1. /\ next.lines_seen = read.lines_seen + 1
        /\ next.scan = ScanLine(read.scan, line)
    BY <1>7, <1>8
  <2>2. PICK old : old = read.scan
    OBVIOUS
  <2>3. PICK scan : scan = ScanLine(old, line)
    OBVIOUS
  <2>4. scan = [have_fix   |-> old.have_fix \/ IsFix(line),
                saw_device |-> old.saw_device \/ OfDevice(line),
                lat        |-> IF IsFix(line) THEN line.lat ELSE old.lat,
                lon        |-> IF IsFix(line) THEN line.lon ELSE old.lon]
    BY <2>3 DEF ScanLine
  <2>5. /\ scan.have_fix <=> (old.have_fix \/ IsFix(line))
        /\ scan.saw_device <=> (old.saw_device \/ OfDevice(line))
    BY <2>4, Zenon
  <2>6. IsFix(line) => scan.lat = line.lat /\ scan.lon = line.lon
    BY <2>4
  <2>7. next.scan = scan /\ read.scan = old
    BY <2>1, <2>2, <2>3
  <2>8. next.lines_seen = Cardinality(Allowed(lines, n + 1))
    BY <1>2, <1>5, <2>1
  <2> QED BY <1>2, <2>5, <2>6, <2>7, <2>8, Zenon
<1>10. read.scan.saw_device <=> \E i \in Allowed(lines, n) : OfDevice(lines[i])
  BY DEF ReadSoFar
<1>11. next.scan.saw_device <=> \E i \in Allowed(lines, n + 1) : OfDevice(lines[i])
  BY <1>4, <1>9, <1>10
<1>12. ReadSoFar(lines, n + 1, next)
  BY <1>6, <1>9, <1>11 DEF ReadSoFar
<1> QED BY <1>8, <1>12

\* What the loop knows stays true from one line to the next.
LEMMA ReadsOn ==
  ASSUME NEW lines, NEW n \in Nat, NEW read, ReadSoFar(lines, n, read)
  PROVE  ReadSoFar(lines, n + 1, ReadLine(read, lines[n + 1]))
<1>1. GpsdMaxLines \in Nat /\ Cardinality(Whole(lines, n)) \in Nat
  BY LocationAssumption, WholeFinite
<1>2. CASE Fixes(lines, n) # {}
  <2>1. ReadLine(read, lines[n + 1]) = read
    BY <1>2 DEF ReadSoFar, ReadLine
  <2>2. /\ Allowed(lines, n) \subseteq Allowed(lines, n + 1)
        /\ Allowed(lines, n + 1) \subseteq Allowed(lines, n) \cup {n + 1}
        /\ \A i \in Allowed(lines, n) : i \in Nat /\ i < n + 1
    BY AllowedNext
  <2>3. /\ Fixes(lines, n) \subseteq Fixes(lines, n + 1)
        /\ Fixes(lines, n + 1) \subseteq Fixes(lines, n) \cup {n + 1}
        /\ \A i \in Fixes(lines, n) : i \in Nat /\ i < n + 1
    BY <2>2 DEF Fixes
  <2>4. ASSUME NEW i \in Fixes(lines, n + 1), \A j \in Fixes(lines, n + 1) : i <= j
        PROVE  read.scan.lat = lines[i].lat /\ read.scan.lon = lines[i].lon
    <3>1. i \in Fixes(lines, n)
      <4>1. PICK j \in Fixes(lines, n) : TRUE
        BY <1>2
      <4>2. i <= j /\ j < n + 1 /\ j \in Nat
        BY <2>3, <2>4, <4>1
      <4>3. i # n + 1
        BY <4>2
      <4> QED BY <2>3, <2>4, <4>3
    <3>2. \A j \in Fixes(lines, n) : i <= j
      BY <2>3, <2>4
    <3> QED BY <3>1, <3>2 DEF ReadSoFar
  <2>5. Fixes(lines, n + 1) # {} /\ read.scan.have_fix
    BY <1>2, <2>3 DEF ReadSoFar
  <2> QED BY <2>1, <2>4, <2>5 DEF ReadSoFar
<1>3. CASE Fixes(lines, n) = {} /\ ~lines[n + 1].overlong /\ read.lines_seen < GpsdMaxLines
  BY <1>3, TakesALine
<1>4. CASE Fixes(lines, n) = {} /\ (lines[n + 1].overlong \/ ~(read.lines_seen < GpsdMaxLines))
  <2>1. read.lines_seen = Cardinality(Allowed(lines, n))
    BY <1>4 DEF ReadSoFar
  <2>2. Cardinality(Allowed(lines, n)) \in Nat
    BY <1>1, AllowedCount
  <2>3. ReadLine(read, lines[n + 1]) = read
    <3>1. lines[n + 1].overlong \/ read.lines_seen >= GpsdMaxLines
      BY <1>1, <1>4, <2>1, <2>2
    <3> QED BY <3>1 DEF ReadLine
  <2>4. lines[n + 1].overlong \/ ~(Cardinality(Whole(lines, n)) < GpsdMaxLines)
    BY <1>1, <1>4, <2>1, AllowedCount
  <2>5. Allowed(lines, n + 1) = Allowed(lines, n)
    BY <2>4, AllowedNext
  <2>6. Fixes(lines, n + 1) = Fixes(lines, n)
    BY <2>5 DEF Fixes
  <2> QED BY <2>3, <2>5, <2>6 DEF ReadSoFar
<1> QED BY <1>2, <1>3, <1>4, <1>1, AllowedCount DEF ReadSoFar

\* By the least line after which it is not.
LEMMA ReadsAll ==
  ASSUME NEW lines, NEW len \in Nat, NEW after, Reads(lines, len, after)
  PROVE  ReadSoFar(lines, len, after[len])
<1> DEFINE Wrong == {k \in Nat : k <= len /\ ~ReadSoFar(lines, k, after[k])}
<1>1. \A k \in 0..len : after[k] = IF k = 0 THEN Unread ELSE ReadLine(after[k - 1], lines[k])
  BY DEF Reads
<1>2. ASSUME Wrong # {} PROVE FALSE
  <2>1. PICK m \in Wrong : \A k \in Wrong : m <= k
    BY <1>2, SomeLeast
  <2>2. m \in 0..len /\ ~ReadSoFar(lines, m, after[m])
    OBVIOUS
  <2>3. CASE m = 0
    <3>1. Allowed(lines, 0) = {} /\ Fixes(lines, 0) = {}
      BY DEF Whole, Allowed, Fixes
    <3>2. after[0] = [scan |-> [have_fix |-> FALSE, saw_device |-> FALSE, lat |-> 0, lon |-> 0], lines_seen |-> 0]
      BY <1>1, <2>2, <2>3 DEF Unread, NothingSeen
    <3>3. after[0].lines_seen = 0 /\ after[0].scan.have_fix = FALSE /\ after[0].scan.saw_device = FALSE
      BY <3>2
    <3>4. ReadSoFar(lines, 0, after[0])
      BY <3>1, <3>3, FS_EmptySet DEF ReadSoFar
    <3> QED BY <2>2, <2>3, <3>4
  <2>4. CASE m # 0
    <3>1. PICK k \in Nat : m = k + 1
      BY <2>2, <2>4
    <3>2. ~(m <= k) /\ k <= len /\ m - 1 = k
      BY <2>2, <3>1
    <3>3. ReadSoFar(lines, k, after[k])
      BY <2>1, <3>1, <3>2
    <3>4. after[m] = ReadLine(after[k], lines[m])
      BY <1>1, <2>2, <2>4, <3>2
    <3>5. ReadSoFar(lines, m, after[m])
      BY <3>1, <3>3, <3>4, ReadsOn
    <3> QED BY <2>2, <3>5
  <2> QED BY <2>3, <2>4
<1> QED BY <1>2

\* gpsd's answer is the first fix among the lines the loop may take, for lines of
\* any number and order: a position is believed only from a report with mode,
\* latitude and longitude in range, no later report replaces it, an overlong
\* line neither counts nor is read, and without a fix a device is there exactly
\* when a line that was taken reports one (gpsd_client.c:33-76, 149-203).
THEOREM GpsdReadsFirstFix ==
  ASSUME NEW lines, Len(lines) \in Nat
  PROVE  LET n == Len(lines)
             scan == GpsdRead(lines)
         IN  /\ scan.have_fix <=> Fixes(lines, n) # {}
             /\ \A i \in Fixes(lines, n) : (\A j \in Fixes(lines, n) : i <= j) =>
                  scan.lat = lines[i].lat /\ scan.lon = lines[i].lon
             /\ Fixes(lines, n) = {} =>
                  (scan.saw_device <=> \E i \in Allowed(lines, n) : OfDevice(lines[i]))
<1>1. PICK after : Reads(lines, Len(lines), after) /\ GpsdRead(lines) = after[Len(lines)].scan
  BY GpsdReads
<1>2. ReadSoFar(lines, Len(lines), after[Len(lines)])
  BY <1>1, ReadsAll
<1> QED BY <1>1, <1>2 DEF ReadSoFar

-----------------------------------------------------------------------------
\* A position the host's receiver can have had, and one of the lookup.
OfReceiver(lat, lon) ==
  IF host.system = "windows"
  THEN \E q \in WindowsRequests :
         q.supported /\ q.ends = "completed" /\ lat = q.lat /\ lon = q.lon
  ELSE \E line \in GpsdLines :
         IsFix(line) /\ ~line.overlong /\ lat = line.lat /\ lon = line.lon

OfLookup(lat, lon) == \E r \in Replies : r # Nil /\ r.loc = <<lat, lon>>

OnEarth(lat, lon) == LatitudeIsValid(lat) /\ LongitudeIsValid(lon)

\* The place a command saves after it looked for one, or switched the receiver
\* on: it is the receiver's or the lookup's, or stays where there was no fix.
PlaceFound ==
  LET l == cfg.location
  IN  pc = "save" /\ (LooksUp(command, base) \/ command.name = "gps_on") =>
        \/ /\ OnEarth(l.latitude, l.longitude)
           /\ \/ OfReceiver(l.latitude, l.longitude)
              \/ LooksUp(command, base) /\ OfLookup(l.latitude, l.longitude)
        \/ /\ command.name = "gps_on"
           /\ l.latitude = base.location.latitude /\ l.longitude = base.location.longitude

\* A sequence of gpsd's lines has a length and is made of them.
LEMMA LinesOfGpsd ==
  ASSUME NEW lines \in SeqOf(GpsdLines, GpsdMaxLines + 1)
  PROVE  Len(lines) \in Nat /\ \A i \in 1..Len(lines) : lines[i] \in GpsdLines
<1>1. PICK m \in 0..(GpsdMaxLines + 1) : lines \in [1..m -> GpsdLines]
  BY DEF SeqOf
<1>2. m \in Nat
  BY LocationAssumption
<1>3. lines \in Seq(GpsdLines)
  BY <1>1, <1>2, SeqDef
<1> QED BY <1>3

\* gpsd's answer with a position has that of a fix it sent.
LEMMA GpsdFix ==
  ASSUME NEW answer \in GpsdAnswers, answer.status = "OK"
  PROVE  \E line \in GpsdLines :
           IsFix(line) /\ ~line.overlong /\ answer.lat = line.lat /\ answer.lon = line.lon
<1>1. PICK connected \in BOOLEAN, sent \in BOOLEAN, lines \in SeqOf(GpsdLines, GpsdMaxLines + 1) :
        answer = GpsdAnswer(connected, sent, lines)
  BY DEF GpsdAnswers
<1>2. PICK scan : scan = GpsdRead(lines)
  OBVIOUS
<1>3. scan.have_fix /\ answer.lat = scan.lat /\ answer.lon = scan.lon
  <2>1. \A status : status # "OK" => answer # NoPosition(status)
    BY DEF NoPosition
  <2>2. \/ scan.have_fix /\ answer = Position(scan.lat, scan.lon)
        \/ answer \in {NoPosition("NO_DAEMON"), NoPosition("NO_FIX"), NoPosition("NO_DEVICE")}
    BY <1>1, <1>2, Zenon DEF GpsdAnswer
  <2>3. scan.have_fix /\ answer = Position(scan.lat, scan.lon)
    BY <2>1, <2>2
  <2> QED BY <2>3 DEF Position
<1>4. /\ Len(lines) \in Nat /\ \A i \in 1..Len(lines) : lines[i] \in GpsdLines
  BY LinesOfGpsd
<1>5. Fixes(lines, Len(lines)) # {} /\ Fixes(lines, Len(lines)) \subseteq Nat
  <2>1. scan.have_fix <=> Fixes(lines, Len(lines)) # {}
    BY <1>2, <1>4, GpsdReadsFirstFix
  <2>2. Fixes(lines, Len(lines)) \subseteq 1..Len(lines)
    BY DEF Fixes, Allowed, Whole
  <2> QED BY <1>3, <1>4, <2>1, <2>2
<1>6. PICK i \in Fixes(lines, Len(lines)) : \A j \in Fixes(lines, Len(lines)) : i <= j
  BY <1>5, SomeLeast
<1>7. scan.lat = lines[i].lat /\ scan.lon = lines[i].lon
  BY <1>2, <1>4, <1>6, GpsdReadsFirstFix
<1>8. lines[i] \in GpsdLines /\ IsFix(lines[i]) /\ ~lines[i].overlong
  BY <1>4, <1>6 DEF Fixes, Allowed, Whole
<1> QED BY <1>3, <1>7, <1>8

\* An answer with a position is that of a fix, on every host.
LEMMA ReceiverFinds ==
  ASSUME NEW answer \in Answers(host), answer.status = "OK"
  PROVE  OnEarth(answer.lat, answer.lon) /\ OfReceiver(answer.lat, answer.lon)
<1>1. CASE host.system = "windows"
  <2>1. PICK q \in WindowsRequests : answer = WindowsAnswer(q)
    BY <1>1 DEF Answers, WindowsAnswers
  <2>2. /\ q.supported /\ q.ends = "completed"
        /\ LatitudeIsValid(q.lat) /\ LongitudeIsValid(q.lon)
    BY <2>1 DEF WindowsAnswer, NoPosition, Position
  <2>3. answer = Position(q.lat, q.lon)
    BY <2>1, <2>2 DEF WindowsAnswer
  <2>4. answer.lat = q.lat /\ answer.lon = q.lon
    BY <2>3 DEF Position
  <2> QED BY <1>1, <2>2, <2>4 DEF OfReceiver, OnEarth
<1>2. CASE host.system # "windows"
  <2>1. answer \in GpsdAnswers
    BY <1>2 DEF Answers
  <2>2. PICK line \in GpsdLines :
          IsFix(line) /\ ~line.overlong /\ answer.lat = line.lat /\ answer.lon = line.lon
    BY <2>1, GpsdFix
  <2>3. LatitudeIsValid(line.lat) /\ LongitudeIsValid(line.lon)
    BY <2>2 DEF IsFix
  <2> QED BY <1>2, <2>2, <2>3 DEF OfReceiver, OnEarth
<1> QED BY <1>1, <1>2

\* A detection that succeeds found the place one way or the other.
LEMMA DetectFinds ==
  ASSUME NEW c, Good(c), NEW answer \in Answers(host), NEW r \in Replies,
         NEW d, d = Detect(c, answer, r, host), d.ok
  PROVE  LET l == d.cfg.location
         IN  /\ Good(d.cfg) /\ OnEarth(l.latitude, l.longitude)
             /\ OfReceiver(l.latitude, l.longitude) \/ OfLookup(l.latitude, l.longitude)
<1>1. Good(d.cfg) /\ Told(c.location.use_gps, answer, r, d.out, d.cfg.location)
  BY DetectTells
<1>2. PICK l : l = d.cfg.location
  OBVIOUS
<1>3. FetchCore(c, answer, r, host).ok /\ d.out.source = Source(c, answer)
  BY DEF Detect
<1>4. CASE c.location.use_gps /\ answer.status = "OK"
  <2>1. d.out.source = "GPS"
    BY <1>3, <1>4 DEF Source, GpsStatus
  <2>2. l.latitude = answer.lat /\ l.longitude = answer.lon
    BY <1>1, <1>2, <2>1 DEF Told
  <2> QED BY <1>1, <1>2, <1>4, <2>2, ReceiverFinds
<1>5. CASE ~(c.location.use_gps /\ answer.status = "OK")
  <2>1. d.out.source = "IP" /\ Usable(r)
    <3>1. d.out.source = "IP"
      BY <1>3, <1>5 DEF Source, GpsStatus
    <3>2. Usable(r)
      BY <1>3, <1>5 DEF FetchCore
    <3> QED BY <3>1, <3>2
  <2>2. r # Nil /\ <<l.latitude, l.longitude>> = r.loc
    BY <1>1, <1>2, <2>1 DEF Told
  <2>3. OnEarth(l.latitude, l.longitude)
    <3>1. LatitudeIsValid(r.loc[1]) /\ LongitudeIsValid(r.loc[2])
      BY <2>1 DEF Usable
    <3>2. r.loc[1] = l.latitude /\ r.loc[2] = l.longitude
      BY <2>2
    <3> QED BY <3>1, <3>2 DEF OnEarth
  <2> QED BY <1>1, <1>2, <2>2, <2>3 DEF OfLookup
<1> QED BY <1>4, <1>5

\* Switching on moves the place to a fix or leaves it.
LEMMA SwitchFinds ==
  ASSUME NEW c, Good(c), NEW answer \in Answers(host),
         NEW s, s = SwitchGpsOn(c, answer, host), s.ok, NEW l, l = s.cfg.location
  PROVE  \/ OnEarth(l.latitude, l.longitude) /\ OfReceiver(l.latitude, l.longitude)
         \/ l.latitude = c.location.latitude /\ l.longitude = c.location.longitude
<1>1. ASSUME NEW k, Good(k), NEW e, e = [k EXCEPT !.location.use_gps = TRUE, !.location.auto_detect = TRUE]
      PROVE  /\ e.location.latitude = k.location.latitude
             /\ e.location.longitude = k.location.longitude
  BY <1>1 DEF Good, PlaceGood, Sections
<1>2. CASE answer.status = "OK"
  <2>1. PICK k : k = FetchGps(c, answer, host)
    OBVIOUS
  <2>2. Good(k) /\ k.location.latitude = answer.lat /\ k.location.longitude = answer.lon
    BY <2>1, Fetched
  <2>3. s.cfg = [k EXCEPT !.location.use_gps = TRUE, !.location.auto_detect = TRUE]
    BY <1>2, <2>1 DEF SwitchGpsOn
  <2>4. l.latitude = answer.lat /\ l.longitude = answer.lon
    BY <1>1, <2>2, <2>3
  <2> QED BY <1>2, <2>4, ReceiverFinds
<1>3. CASE answer.status # "OK"
  <2>1. s.cfg = [c EXCEPT !.location.use_gps = TRUE, !.location.auto_detect = TRUE]
    BY <1>3 DEF SwitchGpsOn
  <2> QED BY <1>1, <2>1
<1> QED BY <1>2, <1>3

\* No command saves a place nobody reported: what is saved after a lookup has
\* both coordinates in range and was sent as a fix by the receiver or as the
\* position of the IP lookup, whatever was in the file before; switching the
\* receiver on moves the place only to a fix (location.c:293-345,
\* gpsd_client.c:33-76, muslimtify_location.c:20-66).
THEOREM PlacesAreFound == Spec => []PlaceFound
<1>1. IInv /\ Provenance => PlaceFound
  <2> SUFFICES ASSUME IInv, Provenance, pc = "save",
                      LooksUp(command, base) \/ command.name = "gps_on",
                      NEW l, l = cfg.location
               PROVE  \/ /\ OnEarth(l.latitude, l.longitude)
                         /\ \/ OfReceiver(l.latitude, l.longitude)
                            \/ LooksUp(command, base) /\ OfLookup(l.latitude, l.longitude)
                      \/ /\ command.name = "gps_on"
                         /\ l.latitude = base.location.latitude
                         /\ l.longitude = base.location.longitude
    BY DEF PlaceFound
  <2>1. group \in Groups /\ command \in Commands[group] /\ Made(command, base, cfg)
    BY DEF IInv, HandleInv, Provenance
  <2>2. Good(base)
    BY DEF IInv, HandleInv
  <2>3. CASE LooksUp(command, base)
    <3>1. PICK answer \in Answers(host), r \in Replies :
            LET d == Detect(base, answer, r, host)
            IN  d.ok /\ cfg = Edit(command, d.cfg).cfg
      BY <2>1, <2>3 DEF Made, LooksUp, IfUnset
    <3>2. PICK d : d = Detect(base, answer, r, host)
      OBVIOUS
    <3>3. PICK m : m = d.cfg.location
      OBVIOUS
    <3>4. /\ Good(d.cfg) /\ OnEarth(m.latitude, m.longitude)
          /\ OfReceiver(m.latitude, m.longitude) \/ OfLookup(m.latitude, m.longitude)
      BY <2>2, <3>1, <3>2, <3>3, DetectFinds
    <3>5. l.latitude = m.latitude /\ l.longitude = m.longitude
      BY <2>1, <2>3, <3>1, <3>2, <3>3, <3>4, PlaceStays
    <3> QED BY <2>3, <3>4, <3>5
  <2>4. CASE ~LooksUp(command, base)
    <3>1. PICK answer \in Answers(host) :
            LET s == SwitchGpsOn(base, answer, host) IN s.ok /\ cfg = s.cfg
      BY <2>1, <2>4 DEF Made
    <3> QED BY <2>2, <2>4, <3>1, SwitchFinds
  <2> QED BY <2>3, <2>4
<1> QED BY <1>1, Inductive, HandlesAreMade, PTL
=============================================================================
