----------------------------- MODULE ConfigFile -----------------------------
(***************************************************************************)
(* What the config file means (src/core/config.c): the defaults, the       *)
(* document a save writes, and the config a load makes of a document that  *)
(* a save or a user with an editor left behind.                            *)
(*                                                                         *)
(* A document has, per section, the text of some of its keys.  The text of *)
(* a number is the number strtol or strtod reads from it (0 where the text *)
(* holds none), that of an array the numbers of its entries, a negative    *)
(* one standing for an entry that does not start with a digit.  How the    *)
(* text is found in the file is module JsonScan.  Degrees, hours and       *)
(* angles are in units of 10^-7, because the file keeps six decimals.      *)
(***************************************************************************)
EXTENDS Integers, Sequences, FiniteSets, Functions

CONSTANTS
  Prayers,     \* the prayers, PRAYER_COUNT of them
  Methods,     \* the names method_from_string knows, without "custom"
  Cut,         \* names longer than their field, and what is left of each
  NotArray,    \* the text of a "reminders" key that is no array
  IntMax       \* INT_MAX

ASSUME ConfigFileAssumption ==
  /\ Prayers # {} /\ "custom" \notin Methods /\ "kemenag" \in Methods
  /\ IntMax \in Nat /\ IntMax >= 5000

\* What is left of a name fits, and so does every name the program knows.
ASSUME NamesAssumption ==
  /\ \A name \in DOMAIN Cut : Cut[name] \notin DOMAIN Cut
  /\ DOMAIN Cut \cap Methods = {}
  /\ DOMAIN Cut \cap {"", "UTC", "bundled", "alarm", "reminder", "muslimtify", "kemenag",
                      "shafi", "hanafi", "low", "normal", "critical"} = {}
  /\ NotArray \notin Seq(Int)

\* What stands for a document where there is no config file, or one that cannot
\* be read or is not one JSON object.
NoFile == [no |-> "file"]
Broken == [no |-> "document"]

Degree == 10000000
MaxReminders == 10
OffsetMin == -60
OffsetMax == 60
MinRefresh == 3600

\* copy_string: what fits of a name.
Fit(name) == IF name \in DOMAIN Cut THEN Cut[name] ELSE name

Clamped(n, low, high) == IF n < low THEN low ELSE IF n > high THEN high ELSE n

-----------------------------------------------------------------------------
DefaultLocation ==
  [latitude |-> 0, longitude |-> 0, timezone |-> "UTC", timezone_offset |-> 0,
   auto_detect |-> TRUE, use_gps |-> FALSE, updated_at |-> 0,
   refresh_interval |-> 43200, city |-> "", country |-> ""]

DefaultPrayer ==
  [enabled |-> TRUE, adhan |-> "bundled", adhan_enabled |-> TRUE,
   reminders |-> <<30, 15, 5>>, offset |-> 0]

DefaultRest ==
  [notification |-> [timeout |-> 5000, urgency |-> "critical", sound |-> "adhan",
                     sound_alarm |-> "alarm", sound_reminder |-> "reminder",
                     icon |-> "muslimtify"],
   calculation |-> [method |-> "kemenag", madhab |-> "shafi",
                    fajr_angle |-> 0, isha_angle |-> 0],
   display |-> [time_format |-> 24]]

Default ==
  [location     |-> DefaultLocation,
   prayers      |-> [p \in Prayers |-> DefaultPrayer],
   notification |-> DefaultRest.notification,
   calculation  |-> DefaultRest.calculation,
   display      |-> DefaultRest.display]

-----------------------------------------------------------------------------
\* %.6f: the nearest millionth.
SixDecimals(x) ==
  IF x < 0 THEN -(((5 - x) \div 10) * 10) ELSE ((x + 5) \div 10) * 10

FlagText(b) == IF b THEN "true" ELSE "false"

Decimals == {"latitude", "longitude", "timezone_offset", "fajr_angle", "isha_angle"}
Flags    == {"auto_detect", "use_gps", "enabled", "adhan_enabled"}

Text(key, value) ==
  IF key \in Decimals THEN SixDecimals(value)
  ELSE IF key \in Flags THEN FlagText(value) ELSE value

SectionText(section) == [key \in DOMAIN section |-> Text(key, section[key])]

\* The angles are written for the method "custom" only.
CalculationText(calculation) ==
  LET keys == IF calculation.method = "custom" THEN DOMAIN calculation
              ELSE DOMAIN calculation \ {"fajr_angle", "isha_angle"}
  IN  Restrict(SectionText(calculation), keys)

\* The document a save writes.
Document(c) ==
  [location     |-> SectionText(c.location),
   prayers      |-> [p \in Prayers |-> SectionText(c.prayers[p])],
   notification |-> SectionText(c.notification),
   calculation  |-> CalculationText(c.calculation),
   display      |-> SectionText(c.display)]

-----------------------------------------------------------------------------
\* A section as read: a key the text does not have keeps its default.
Read(default, text, Value(_, _)) ==
  [key \in DOMAIN default |->
     IF key \in DOMAIN text THEN Value(key, text[key]) ELSE default[key]]

LocationValue(key, text) ==
  IF key \in Flags THEN text = "true"
  ELSE IF key \in {"timezone", "city", "country"} THEN Fit(text) ELSE text

\* GPS means nothing without auto-detect, and a refresh is at most hourly.
ReadLocation(text) ==
  LET read == Read(DefaultLocation, text, LocationValue)
  IN  [read EXCEPT
         !.use_gps = @ /\ read.auto_detect,
         !.refresh_interval = IF @ > 0 /\ @ < MinRefresh THEN MinRefresh ELSE @]

\* The n-th number of a set.
Nth(S, n) == CHOOSE i \in S : Cardinality({j \in S : j <= i}) = n

\* The array up to its first entry that is no number, without the numbers out
\* of range, and no more of them than there is room for.
ReadReminders(items) ==
  LET read   == {i \in DOMAIN items : \A j \in 1..i : items[j] >= 0}
      taken  == {i \in read : items[i] \in 1..1440}
  IN  [n \in 1..Clamped(Cardinality(taken), 0, MaxReminders) |-> items[Nth(taken, n)]]

PrayerValue(key, text) ==
  CASE key \in Flags     -> text = "true"
    [] key = "adhan"     -> Fit(text)
    [] key = "reminders" -> IF text = NotArray THEN DefaultPrayer.reminders
                            ELSE ReadReminders(text)
    [] key = "offset"    -> Clamped(text, OffsetMin, OffsetMax)

\* The legacy boolean is migrated and an unknown mode is the default one.
SoundMode(text) ==
  CASE text = "true"  -> "default"
    [] text = "false" -> "off"
    [] text \in {"adhan", "default", "off"} -> text
    [] OTHER -> "adhan"

NotificationValue(key, text) ==
  CASE key = "timeout" -> Clamped(text, -IntMax - 1, IntMax)
    [] key = "sound"   -> SoundMode(text)
    [] OTHER           -> Fit(text)

CalculationValue(key, text) ==
  IF key \in {"method", "madhab"} THEN Fit(text) ELSE text

DisplayValue(key, text) == IF text = 12 THEN 12 ELSE 24

Loads(file) == file # Broken

Load(file) ==
  IF file = NoFile THEN Default
  ELSE
    [location     |-> ReadLocation(file.location),
     prayers      |-> [p \in Prayers |->
                         Read(DefaultPrayer, file.prayers[p], PrayerValue)],
     notification |-> Read(DefaultRest.notification, file.notification, NotificationValue),
     calculation  |-> Read(DefaultRest.calculation, file.calculation, CalculationValue),
     display      |-> Read(DefaultRest.display, file.display, DisplayValue)]

-----------------------------------------------------------------------------
LatitudeIsValid(lat)  == lat >= -90 * Degree /\ lat <= 90 * Degree
LongitudeIsValid(lon) == lon >= -180 * Degree /\ lon <= 180 * Degree

Near0(x) == x < 10 /\ x > -10

NeedsDetect(c) ==
  /\ c.location.auto_detect
  /\ \/ ~LatitudeIsValid(c.location.latitude)
     \/ ~LongitudeIsValid(c.location.longitude)
     \/ Near0(c.location.latitude) /\ Near0(c.location.longitude)

HasLocation(c) ==
  /\ ~NeedsDetect(c)
  /\ LatitudeIsValid(c.location.latitude) /\ LongitudeIsValid(c.location.longitude)

\* What config_validate asks of the part of a config that is not a place: the
\* load path does not call it and coerces instead.
Validates(c) ==
  /\ \A p \in Prayers :
       /\ Len(c.prayers[p].reminders) <= MaxReminders
       /\ \A i \in DOMAIN c.prayers[p].reminders :
            c.prayers[p].reminders[i] >= 0 /\ c.prayers[p].reminders[i] <= 1440
       /\ c.prayers[p].offset >= OffsetMin /\ c.prayers[p].offset <= OffsetMax
  /\ c.display.time_format \in {12, 24}
=============================================================================
