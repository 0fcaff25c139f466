------------------------------ MODULE Location ------------------------------
(***************************************************************************)
(* Where a place comes from: the receiver (gpsd or Windows), the IP        *)
(* lookup, and the order in which a detection asks them                    *)
(* (platform/linux/gpsd_client.c, platform/windows/geolocation_win.c,      *)
(* core/location.c, lib/muslimtify_location.c).                            *)
(***************************************************************************)
EXTENDS ConfigFile, SequencesExt

CONSTANTS
  Nil,            \* a key that is not there, a step that did not happen
  Hosts,          \* the machines: their system and how they keep the timezone
  Zones,          \* the timezones that exist, and their offset from UTC
  WindowsZones,   \* IANA names of the Windows zone keys
  CountryTable,   \* the countries of ISO 3166-1 and their methods
  Upper,          \* codes that are not in upper case, in upper case
  GpsdLines,      \* the lines gpsd may send
  GpsdMaxLines,   \* GPSD_MAX_LINES
  WindowsRequests,\* the courses a Windows position request may take
  Replies,        \* the answers of the IP lookup
  Now             \* the time of every detection

ASSUME LocationAssumption ==
  /\ GpsdMaxLines \in Nat \ {0} /\ Now \in Nat \ {0} /\ Nil \in Replies
  /\ "UTC" \in DOMAIN Zones
  /\ DOMAIN CountryTable \cap DOMAIN Cut = {}

\* "loc" is two numbers or it was not understood.
ASSUME RepliesAssumption ==
  \A r \in Replies \ {Nil} : r.loc # Nil => r.loc = <<r.loc[1], r.loc[2]>>

TimezoneExists(zone) == zone \in DOMAIN Zones

\* parse_timezone_offset answers 0 for a zone that does not exist.
ZoneOffset(zone) == IF zone \in DOMAIN Zones THEN Zones[zone] ELSE 0

\* The zone the symbolic link /etc/localtime names, else the one of
\* /etc/timezone, which nothing checks, else UTC.
PosixTimezone(host) ==
  IF host.localtime # Nil THEN host.localtime
  ELSE IF host.timezone # Nil THEN host.timezone ELSE "UTC"

\* The IANA name of the zone's key, UTC for a key the table lacks.
WindowsTimezone(host) ==
  IF host.key \in DOMAIN WindowsZones THEN WindowsZones[host.key] ELSE "UTC"

SystemTimezone(host) ==
  IF host.system = "windows" THEN WindowsTimezone(host) ELSE PosixTimezone(host)

UpperCase(code) == IF code \in DOMAIN Upper THEN Upper[code] ELSE code

CountryIsValid(code) == UpperCase(code) \in DOMAIN CountryTable

CountryMethod(code) ==
  IF CountryIsValid(code) THEN CountryTable[UpperCase(code)] ELSE "mwl"

-----------------------------------------------------------------------------
\* The receiver's answer: a status, and a position with status OK.
NoPosition(status) == [status |-> status, lat |-> 0, lon |-> 0]
Position(lat, lon) == [status |-> "OK", lat |-> lat, lon |-> lon]

NothingSeen == [have_fix |-> FALSE, saw_device |-> FALSE, lat |-> 0, lon |-> 0]

\* Only a TPV of mode 2 or more with a position in range is a fix.
IsFix(line) ==
  /\ line.class = "TPV" /\ line.mode >= 2 /\ line.lat # Nil /\ line.lon # Nil
  /\ LatitudeIsValid(line.lat) /\ LongitudeIsValid(line.lon)

\* A report of any device shows that there is one.
OfDevice(line) == line.class \in {"TPV", "SKY", "DEVICE"}

ScanLine(scan, line) ==
  [have_fix   |-> scan.have_fix \/ IsFix(line),
   saw_device |-> scan.saw_device \/ OfDevice(line),
   lat        |-> IF IsFix(line) THEN line.lat ELSE scan.lat,
   lon        |-> IF IsFix(line) THEN line.lon ELSE scan.lon]

\* A turn of the read loop: nothing is taken after the first fix or the last
\* allowed line, and an overlong line does not count.
ReadLine(read, line) ==
  IF read.scan.have_fix \/ read.lines_seen >= GpsdMaxLines \/ line.overlong THEN read
  ELSE [scan |-> ScanLine(read.scan, line), lines_seen |-> read.lines_seen + 1]

\* The lines that came before gpsd fell silent for five seconds or closed.
GpsdRead(lines) ==
  LET after[n \in 0..Len(lines)] ==
        IF n = 0 THEN [scan |-> NothingSeen, lines_seen |-> 0]
        ELSE ReadLine(after[n - 1], lines[n])
  IN  after[Len(lines)].scan

GpsdAnswer(connected, sent, lines) ==
  LET scan == GpsdRead(lines)
  IN  IF ~connected \/ ~sent THEN NoPosition("NO_DAEMON")
      ELSE IF scan.have_fix THEN Position(scan.lat, scan.lon)
      ELSE NoPosition(IF scan.saw_device THEN "NO_FIX" ELSE "NO_DEVICE")

GpsdAnswers ==
  {GpsdAnswer(connected, sent, lines) :
     connected \in BOOLEAN, sent \in BOOLEAN, lines \in SeqOf(GpsdLines, GpsdMaxLines + 1)}

\* A Windows request: the runtime may be missing, the position refused, late,
\* failed, denied, or out of range.
WindowsAnswer(request) ==
  CASE ~request.supported -> NoPosition("UNAVAILABLE")
    [] request.supported /\ request.ends = "denied" -> NoPosition("NO_PERMISSION")
    [] /\ request.supported /\ request.ends = "completed"
       /\ LatitudeIsValid(request.lat) /\ LongitudeIsValid(request.lon) ->
         Position(request.lat, request.lon)
    [] OTHER -> NoPosition("NO_FIX")

WindowsAnswers == {WindowsAnswer(r) : r \in WindowsRequests}

Answers(host) == IF host.system = "windows" THEN WindowsAnswers ELSE GpsdAnswers

-----------------------------------------------------------------------------
\* location_fetch_gps with a fix: the zone is the host's, the country stays.
FetchGps(c, answer, host) ==
  [c EXCEPT !.location.latitude = answer.lat, !.location.longitude = answer.lon,
            !.location.timezone = SystemTimezone(host),
            !.location.timezone_offset = ZoneOffset(SystemTimezone(host)),
            !.location.updated_at = Now]

Usable(reply) ==
  /\ reply # Nil /\ reply.loc # Nil
  /\ LatitudeIsValid(reply.loc[1]) /\ LongitudeIsValid(reply.loc[2])

\* location_parse_ipinfo of a usable reply: a zone that does not exist and a
\* country that is none are ignored, the old ones stay.
FetchIp(c, reply) ==
  LET zone    == IF TimezoneExists(reply.timezone) THEN reply.timezone
                 ELSE c.location.timezone
      offset  == IF TimezoneExists(reply.timezone) THEN ZoneOffset(reply.timezone)
                 ELSE c.location.timezone_offset
      country == IF reply.country # Nil /\ CountryIsValid(reply.country) THEN reply.country
                 ELSE c.location.country
  IN  [c EXCEPT !.location.latitude = reply.loc[1], !.location.longitude = reply.loc[2],
                !.location.timezone = zone, !.location.timezone_offset = offset,
                !.location.country = country, !.location.updated_at = Now]

\* Failures that switch the receiver off.
Structural == {"NO_DAEMON", "NO_DEVICE", "UNAVAILABLE"}

\* The status of the receiver, OK also when it was not asked.
GpsStatus(c, answer) == IF c.location.use_gps THEN answer.status ELSE "OK"

\* The receiver first, if it is on; then the IP lookup.
FetchCore(c, answer, reply, host) ==
  LET kept == [c EXCEPT !.location.use_gps = @ /\ answer.status \notin Structural]
  IN  CASE c.location.use_gps /\ answer.status = "OK" ->
             [ok |-> TRUE, cfg |-> FetchGps(c, answer, host)]
        [] ~(c.location.use_gps /\ answer.status = "OK") /\ Usable(reply) ->
             [ok |-> TRUE, cfg |-> FetchIp(kept, reply)]
        [] OTHER -> [ok |-> FALSE, cfg |-> kept]

\* What the caller is told of a receiver: a fix and a lack of one are no error.
GpsError(status) == IF status \in {"OK", "NO_FIX"} THEN "OK" ELSE status

\* Mutant: a receiver that was never asked counts as one that answered.
SourceByStatus(c, answer) == IF GpsStatus(c, answer) = "OK" THEN "GPS" ELSE "IP"

\* Where a detection says the place is from.
Source(c, answer) ==
  IF c.location.use_gps /\ GpsStatus(c, answer) = "OK" THEN "GPS" ELSE "IP"

\* Detection into a copy, and what it reports.
Detect(c, answer, reply, host) ==
  LET fetched == FetchCore(c, answer, reply, host)
  IN  IF ~fetched.ok
      THEN [ok |-> FALSE, cfg |-> c, out |-> Nil]
      ELSE [ok  |-> TRUE,
            cfg |-> [fetched.cfg EXCEPT !.location.auto_detect = TRUE],
            out |-> [source |-> Source(c, answer),
                     gps |-> GpsError(GpsStatus(c, answer)),
                     gps_disabled |-> c.location.use_gps /\ ~fetched.cfg.location.use_gps]]

\* Switching the receiver on asks it first: only a fix moves the place, and one
\* that is there without a fix is switched on as well.
SwitchGpsOn(c, answer, host) ==
  LET On(k) == [k EXCEPT !.location.use_gps = TRUE, !.location.auto_detect = TRUE]
  IN  CASE answer.status = "OK"     -> [ok |-> TRUE, cfg |-> On(FetchGps(c, answer, host))]
        [] answer.status = "NO_FIX" -> [ok |-> TRUE, cfg |-> On(c)]
        [] OTHER                    -> [ok |-> FALSE, cfg |-> c]

SwitchGpsOff(c) == [ok |-> TRUE, cfg |-> [c EXCEPT !.location.use_gps = FALSE]]

IsStale(c) ==
  /\ c.location.auto_detect /\ c.location.refresh_interval > 0
  /\ Now - c.location.updated_at >= c.location.refresh_interval
=============================================================================
