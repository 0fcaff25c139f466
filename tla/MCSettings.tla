----------------------------- MODULE MCSettings -----------------------------
(***************************************************************************)
(* A small instance of Settings: two prayers, two hosts, and three groups  *)
(* of commands with the hand edits that can matter to them.                *)
(***************************************************************************)
EXTENDS Settings, TLC

MCPrayers == {"fajr", "isha"}
MCPrayerNames == [fajr |-> "fajr", Isha |-> "isha"]
MCMethods == {"kemenag", "mwl", "isna"}
MCCut == [Long |-> "Lon"]

LinuxHost   == [system |-> "linux", localtime |-> Nil, timezone |-> "Local/Odd"]
WindowsHost == [system |-> "windows", key |-> "SE Asia Standard Time"]
MCHosts     == {LinuxHost, WindowsHost}
MCZones     == [UTC |-> 0, Jakarta |-> 70000000, Delhi |-> 55000000]
MCWindowsZones == ("SE Asia Standard Time" :> "Jakarta") @@ ("Other" :> "UTC")
MCCountryTable == [ID |-> "kemenag", US |-> "isna", FR |-> "mwl"]
MCUpper == [us |-> "US"]

Line(class, mode, lat, lon, overlong) ==
  [class |-> class, mode |-> mode, lat |-> lat, lon |-> lon, overlong |-> overlong]
MCGpsdLines ==
  {Line("TPV", 3, 10 * Degree, 20 * Degree, FALSE), Line("TPV", 2, 91 * Degree, 0, FALSE),
   Line("TPV", 1, Nil, Nil, FALSE), Line("VERSION", 0, Nil, Nil, FALSE),
   Line("SKY", 0, Nil, Nil, TRUE)}
MCWindowsRequests ==
  {[supported |-> s, ends |-> e, lat |-> lat, lon |-> 20 * Degree] :
     s \in BOOLEAN, e \in {"denied", "timeout", "completed"}, lat \in {10 * Degree, 91 * Degree}}
MCReplies ==
  {Nil, [loc |-> Nil, timezone |-> Nil, country |-> "ID"],
   [loc |-> <<30 * Degree, 181 * Degree>>, timezone |-> "Delhi", country |-> "ID"],
   [loc |-> <<30 * Degree, 40 * Degree>>, timezone |-> "Delhi", country |-> "us"],
   [loc |-> <<30 * Degree, 40 * Degree>>, timezone |-> "Nowhere", country |-> "Atlantis"]}

Regular(canonical, readable) ==
  [kind |-> "regular", readable |-> readable, canonical |-> canonical]
MCPaths == [sound |-> Regular("/a/sound", TRUE), secret |-> Regular("/a/secret", FALSE),
            deep |-> Regular("Long", TRUE), gone |-> Regular(Nil, TRUE),
            link |-> [kind |-> "link", readable |-> TRUE, canonical |-> "/a/sound"]]

LocationCommand(auto, lat, lon, zone, city, country, refresh) ==
  [name |-> "location", auto |-> auto, lat |-> lat, lon |-> lon, timezone |-> zone,
   city |-> city, country |-> country, refresh |-> refresh]

Named(names) == {[name |-> n] : n \in names}

LocationCommands ==
  {LocationCommand(FALSE, lat, 5 * Degree, zone, Nil, "us", Nil) :
     lat \in {Nil, 3, 91 * Degree}, zone \in {Nil, "Delhi", "Nowhere"}}
  \cup {LocationCommand(FALSE, lat, Nil, Nil, "Long", Nil, Nil) : lat \in {Nil, 3}}
  \cup {LocationCommand(FALSE, Nil, Nil, Nil, "Paris", country, Nil) :
     country \in {"FR", "Atlantis"}}
  \cup {LocationCommand(FALSE, Nil, Nil, Nil, "Paris", Nil, refresh) :
     refresh \in {60, 7200, -1, Junk}}
  \cup {LocationCommand(FALSE, Nil, Nil, Nil, Nil, Nil, Nil),
        LocationCommand(FALSE, Junk, 0, Nil, Nil, Nil, Nil),
        LocationCommand(TRUE, 3, Nil, Nil, Nil, Nil, Nil)}
  \cup {LocationCommand(TRUE, Nil, Nil, Nil, city, country, Nil) :
     city \in {Nil, "Paris"}, country \in {Nil, "FR", "Atlantis"}}
  \cup Named({"gps_on", "gps_off", "show", "cycle", "install"})

PrayerCommands ==
  {[name |-> n, who |-> w, on |-> FALSE] :
     n \in {"enable", "adhan"}, w \in {"all", "Isha", "lunch"}}
  \cup {[name |-> "offset", who |-> w, minutes |-> m] :
     w \in {"all", "fajr", "lunch"}, m \in {4, -61, Junk}}
  \cup {[name |-> "reminder", who |-> w, minutes |-> m] :
     w \in {"all", "fajr"},
     m \in {Nil, <<>>, <<60, 10>>, <<10, 0>>, <<10, Junk>>, [i \in 1..11 |-> i]}}
  \cup {[name |-> "adhan_file", path |-> p] : p \in DOMAIN MCPaths \cup {"missing"}}

OtherCommands ==
  {[name |-> "method", key |-> k] : k \in {"mwl", "custom", "Long"}}
  \cup {[name |-> "madhab", key |-> k] : k \in {"hanafi", "maliki"}}
  \cup {[name |-> "urgency", key |-> k] : k \in {"low", "shrill"}}
  \cup {[name |-> "sound", key |-> k] : k \in {"off", "loud"}}
  \cup {[name |-> "timeformat", format |-> f] : f \in {12, 13}}
  \cup Named({"method_auto", "install"})

MCGroups == {"location", "prayers", "other"}
MCCommands == [location |-> LocationCommands, prayers |-> PrayerCommands,
               other |-> OtherCommands]

Entry(section, prayer, key, text) ==
  [section |-> section, prayer |-> prayer, key |-> key, text |-> text]
Entries(section, prayer, key, texts) == {Entry(section, prayer, key, t) : t \in texts}

LocationEdits ==
  Entries("location", Nil, "latitude", {7, 10 * Degree, 91 * Degree})
  \cup Entries("location", Nil, "auto_detect", {"false"})
  \cup Entries("location", Nil, "use_gps", {"true"})
  \cup Entries("location", Nil, "refresh_interval", {60})
  \cup Entries("location", Nil, "updated_at", {1})
  \cup Entries("location", Nil, "timezone", {"Long"})
PrayerEdits ==
  Entries("prayers", "fajr", "reminders",
          {<<5, 1441, 0, 20>>, <<5, -1, 20>>, [i \in 1..12 |-> i], NotArray})
  \cup Entries("prayers", "fajr", "offset", {99, -99})
  \cup Entries("prayers", "isha", "enabled", {"TRUE"})
  \cup Entries("prayers", "isha", "adhan", {"Long"})
OtherEdits ==
  Entries("calculation", Nil, "method", {"custom", "Long"})
  \cup Entries("calculation", Nil, "fajr_angle", {180000003})
  \cup Entries("calculation", Nil, "madhab", {"maliki"})
  \cup Entries("notification", Nil, "sound", {"true", "false", "loud"})
  \cup Entries("notification", Nil, "timeout", {20000})
  \cup Entries("display", Nil, "time_format", {0})

MCHandEdits == [location |-> LocationEdits, prayers |-> PrayerEdits, other |-> OtherEdits]
=============================================================================
