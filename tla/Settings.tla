------------------------------ MODULE Settings ------------------------------
(***************************************************************************)
(* The settings of the user: the setters of the library                    *)
(* (lib/muslimtify_settings.c, lib/muslimtify_location.c) and the commands *)
(* that load the config file, set, and save it (cli/cmd_*.c).  A command   *)
(* runs in steps, load, lookup and save, between which the file can be     *)
(* changed by an editor or another process.  What the file means is module *)
(* ConfigFile, how a place is found is module Location; that the file is   *)
(* replaced whole or not at all is module FileStore.                       *)
(***************************************************************************)
EXTENDS Location

CONSTANTS
  Groups,       \* groups of commands; a behaviour stays in one of them
  Commands,     \* the commands of each group
  HandEdits,    \* per group, what a user may write into the file
  PrayerNames,  \* the spellings of the prayers
  Paths,        \* the sound files of the user, and what they are
  Junk,         \* text that is not a number
  Free,         \* in a specification: a field set to what was found
  MaxCommands,  \* bound: commands in a behaviour
  MaxEdits      \* bound: changes of the file by others

ASSUME SettingsAssumption ==
  /\ MaxCommands \in Nat /\ MaxEdits \in Nat
  /\ \A g \in Groups : Nil \notin Commands[g]
  /\ "all" \notin DOMAIN PrayerNames

\* Arguments are numbers where a command reads numbers, or Junk; the text of a
\* number in the file is one, and that of an array is its numbers.
ASSUME ArgumentsAssumption ==
  \A g \in Groups :
    /\ \A a \in Commands[g] :
         /\ a.name = "location" => a.auto \in BOOLEAN
         /\ a.name \in {"enable", "adhan"} => a.on \in BOOLEAN
         /\ a.name = "location" /\ a.refresh \notin {Nil, Junk} => a.refresh \in Int
         /\ a.name = "offset" /\ a.minutes # Junk => a.minutes \in Int
         /\ a.name = "reminder" /\ a.minutes # Nil => a.minutes \in Seq(Int \cup {Junk})
    /\ \A e \in HandEdits[g] :
         /\ e.section = "prayers" <=> e.prayer # Nil
         /\ e.key \in {"refresh_interval", "offset", "timeout"} => e.text \in Int
         /\ e.key = "reminders" /\ e.text # NotArray => e.text \in Seq(Int)

VARIABLES
  host, group,     \* chosen at the start
  file,            \* the config file: a document, NoFile or Broken
  pc, command,     \* where the running command is, and which it is
  base,            \* history: the config the command loaded
  cfg,             \* the command's handle
  report,          \* what its detection reported, of what answers
  reply,           \* how the last command ended
  commands, edits  \* bounds used up

vars == <<host, group, file, pc, command, base, cfg, report, reply, commands, edits>>

-----------------------------------------------------------------------------
\* A setter answers the changed config, or that it failed with the old one.
Ok(c)   == [ok |-> TRUE, cfg |-> c]
Fail(c) == [ok |-> FALSE, cfg |-> c]

\* The next setter runs on the result of one that succeeded.
Then(result, Set(_)) == IF result.ok THEN Set(result.cfg) ELSE result

\* A setter that is not asked for.
If(asked, Set(_), c) == IF asked THEN Set(c) ELSE Ok(c)

\* Mutant: the flag of the receiver is forgotten.
SetCoordinatesGpsOn(c, lat, lon) ==
  IF LatitudeIsValid(lat) /\ LongitudeIsValid(lon)
  THEN Ok([c EXCEPT !.location.latitude = lat, !.location.longitude = lon,
                    !.location.auto_detect = FALSE])
  ELSE Fail(c)

\* Coordinates set by hand switch detection and the receiver off, and what
\* described the old place goes: labels, and the zone, now the host's.
SetCoordinates(c, lat, lon) ==
  IF LatitudeIsValid(lat) /\ LongitudeIsValid(lon)
  THEN Ok([c EXCEPT !.location.latitude = lat, !.location.longitude = lon,
                    !.location.auto_detect = FALSE, !.location.use_gps = FALSE,
                    !.location.city = "", !.location.country = "",
                    !.location.timezone = SystemTimezone(host),
                    !.location.timezone_offset = ZoneOffset(SystemTimezone(host))])
  ELSE Fail(c)

SetTimezone(c, zone) ==
  IF TimezoneExists(zone) /\ zone \notin DOMAIN Cut
  THEN Ok([c EXCEPT !.location.timezone = zone,
                    !.location.timezone_offset = ZoneOffset(zone)])
  ELSE Fail(c)

SetCity(c, city) == Ok([c EXCEPT !.location.city = Fit(city)])

SetCountry(c, code) ==
  IF CountryIsValid(code) THEN Ok([c EXCEPT !.location.country = UpperCase(code)])
  ELSE Fail(c)

SetRefreshInterval(c, seconds) ==
  IF seconds = 0 \/ seconds >= MinRefresh
  THEN Ok([c EXCEPT !.location.refresh_interval = seconds]) ELSE Fail(c)

\* "custom" cannot be chosen, it needs angles in the file.
SetMethod(c, key) ==
  IF key \in Methods THEN Ok([c EXCEPT !.calculation.method = key]) ELSE Fail(c)

SetMethodFromCountry(c) ==
  Ok([c EXCEPT !.calculation.method = CountryMethod(c.location.country)])

SetMadhab(c, key) ==
  IF key \in {"shafi", "hanafi"} THEN Ok([c EXCEPT !.calculation.madhab = key]) ELSE Fail(c)

SetTimeFormat(c, format) ==
  IF format \in {12, 24} THEN Ok([c EXCEPT !.display.time_format = format]) ELSE Fail(c)

SetUrgency(c, key) ==
  IF key \in {"low", "normal", "critical"}
  THEN Ok([c EXCEPT !.notification.urgency = key]) ELSE Fail(c)

SetSoundMode(c, key) ==
  IF key \in {"adhan", "default", "off"}
  THEN Ok([c EXCEPT !.notification.sound = key]) ELSE Fail(c)

\* muslimtify_parse_prayer: the prayers a name stands for.
ParsePrayer(name) == IF name \in DOMAIN PrayerNames THEN {PrayerNames[name]} ELSE {}

\* The one prayer named, or every one.
Targets(who) == IF who = "all" THEN Prayers ELSE ParsePrayer(who)

\* Set a field of some prayers, none when there are none.
SetPrayers(c, targets, key, value) ==
  IF targets = {} THEN Fail(c)
  ELSE Ok([c EXCEPT !.prayers = [p \in Prayers |->
             IF p \in targets THEN [c.prayers[p] EXCEPT ![key] = value] ELSE c.prayers[p]]])

SetEnabled(c, who, on) == SetPrayers(c, Targets(who), "enabled", on)

SetAdhan(c, who, on) == SetPrayers(c, ParsePrayer(who), "adhan_enabled", on)

SetOffset(c, who, minutes) ==
  IF minutes < OffsetMin \/ minutes > OffsetMax THEN Fail(c)
  ELSE SetPrayers(c, Targets(who), "offset", minutes)

SetReminders(c, who, minutes) ==
  IF \E i \in DOMAIN minutes : minutes[i] < 1 \/ minutes[i] > 1440 THEN Fail(c)
  ELSE SetPrayers(c, Targets(who), "reminders", minutes)

\* A regular file, not a link to one, whose canonical path can be had and
\* fits; on Windows nobody asks whether it can be read.
WindowsResolves(path) ==
  /\ path \in DOMAIN Paths /\ Paths[path].kind = "regular"
  /\ Paths[path].canonical \notin {Nil} \cup DOMAIN Cut

PosixResolves(path) ==
  /\ path \in DOMAIN Paths /\ Paths[path].kind = "regular" /\ Paths[path].readable
  /\ Paths[path].canonical \notin {Nil} \cup DOMAIN Cut

Resolves(path) ==
  IF host.system = "windows" THEN WindowsResolves(path) ELSE PosixResolves(path)

SetAdhanFile(c, path) ==
  IF Resolves(path) THEN SetPrayers(c, Prayers, "adhan", Paths[path].canonical) ELSE Fail(c)

-----------------------------------------------------------------------------
\* The arguments location set refuses before it loads anything.
BadLocation(a) ==
  \/ a.auto /\ (a.lat # Nil \/ a.lon # Nil \/ a.timezone # Nil \/ a.refresh # Nil)
  \/ a.auto /\ a.country # Nil /\ ~CountryIsValid(a.country)
  \/ ~a.auto /\ \A k \in {"lat", "lon", "timezone", "city", "country", "refresh"} : a[k] = Nil
  \/ a.lat = Junk \/ a.lon = Junk \/ a.refresh = Junk
  \/ a.refresh \notin {Nil, Junk} /\ a.refresh < 0

Refused(a) == a.name = "location" /\ BadLocation(a)

-----------------------------------------------------------------------------
\* The first of these to fail ends the command: it saves only if all succeed.
SetLabels(a, c) ==
  Then(If(a.city # Nil, LAMBDA k : SetCity(k, a.city), c),
       LAMBDA d : If(a.country # Nil, LAMBDA k : SetCountry(k, a.country), d))

MoveTo(a, c) ==
  LET lat == IF a.lat = Nil THEN c.location.latitude ELSE a.lat
      lon == IF a.lon = Nil THEN c.location.longitude ELSE a.lon
  IN  IF ~HasLocation(c) /\ (a.lat = Nil \/ a.lon = Nil)
      THEN Fail(c) ELSE SetCoordinates(c, lat, lon)

\* Mutant: the labels first, which moving then wipes.
LocationSetLabelsFirst(a, c) ==
  Then(SetLabels(a, c), LAMBDA d : If(a.lat # Nil \/ a.lon # Nil, LAMBDA k : MoveTo(a, k), d))

\* location set: the coordinates first, because they reset what follows.
LocationSet(a, c) ==
  LET moved   == If(a.lat # Nil \/ a.lon # Nil, LAMBDA k : MoveTo(a, k), c)
      labels  == Then(moved, LAMBDA d : SetLabels(a, d))
      refresh == Then(labels, LAMBDA d : If(a.refresh # Nil,
                                            LAMBDA k : SetRefreshInterval(k, a.refresh), d))
  IN  Then(refresh, LAMBDA d : If(a.timezone # Nil, LAMBDA k : SetTimezone(k, a.timezone), d))

\* The other commands: what each does to the config between its load and its
\* save.  One whose arguments are unusable does not load the file either; that
\* it fails is all there is to see of it.
LocationAuto(a, c) == SetLabels(a, c)

GpsOff(c) == SwitchGpsOff(c)

EnableCommand(a, c) == SetEnabled(c, a.who, a.on)

UrgencyCommand(a, c) == SetUrgency(c, a.key)

\* No reminder at all, more than there is room for, or one that is no number.
BadMinutes(minutes) ==
  \/ minutes = Nil
  \/ Len(minutes) > MaxReminders
  \/ \E i \in DOMAIN minutes : minutes[i] = Junk

ReminderCommand(a, c) ==
  IF BadMinutes(a.minutes) THEN Fail(c) ELSE SetReminders(c, a.who, a.minutes)

AdhanCommand(a, c) == SetAdhan(c, a.who, a.on)

AdhanFileCommand(a, c) == SetAdhanFile(c, a.path)

SoundCommand(a, c) == SetSoundMode(c, a.key)

MethodCommand(a, c) == SetMethod(c, a.key)

\* method --auto and the set-up of an install, after the lookup if there was one.
MethodAuto(c) == SetMethodFromCountry(c)

InstallSetUp(c) == SetMethodFromCountry(c)

MadhabCommand(a, c) == SetMadhab(c, a.key)

OffsetCommand(a, c) ==
  IF a.minutes = Junk THEN Fail(c) ELSE SetOffset(c, a.who, a.minutes)

TimeFormatCommand(a, c) == SetTimeFormat(c, a.format)

Edit(a, c) ==
  CASE a.name = "location" /\ a.auto  -> LocationAuto(a, c)
    [] a.name = "location" /\ ~a.auto -> LocationSet(a, c)
    [] a.name = "gps_off"     -> GpsOff(c)
    [] a.name = "enable"      -> EnableCommand(a, c)
    [] a.name = "urgency"     -> UrgencyCommand(a, c)
    [] a.name = "reminder"    -> ReminderCommand(a, c)
    [] a.name = "adhan"       -> AdhanCommand(a, c)
    [] a.name = "adhan_file"  -> AdhanFileCommand(a, c)
    [] a.name = "sound"       -> SoundCommand(a, c)
    [] a.name = "method"      -> MethodCommand(a, c)
    [] a.name = "method_auto" -> MethodAuto(c)
    [] a.name = "install"     -> InstallSetUp(c)
    [] a.name = "madhab"      -> MadhabCommand(a, c)
    [] a.name = "offset"      -> OffsetCommand(a, c)
    [] a.name = "timeformat"  -> TimeFormatCommand(a, c)
    [] OTHER                  -> Ok(c)

\* The commands that look a place up if there is none, the check cycle also if
\* it is old.  They save only after a lookup, but for method --auto.
IfUnset == {"show", "install", "cycle", "method_auto"}

LooksUp(a, c) ==
  \/ a.name = "location" /\ a.auto
  \/ a.name \in IfUnset /\ NeedsDetect(c)
  \/ a.name = "cycle" /\ IsStale(c)

NothingToDo(a, c) == a.name \in IfUnset \ {"method_auto"} /\ ~LooksUp(a, c)
-----------------------------------------------------------------------------
Init ==
  /\ host \in Hosts /\ group \in Groups
  /\ file = NoFile
  /\ pc = "idle" /\ command = Nil /\ base = Nil /\ cfg = Nil
  /\ report = Nil /\ reply = "none"
  /\ commands = 0 /\ edits = 0

\* The command ends: its handle is closed and what was not saved is gone.
End(answer) ==
  /\ pc' = "idle" /\ command' = Nil /\ base' = Nil /\ cfg' = Nil /\ report' = Nil
  /\ reply' = answer
  /\ UNCHANGED <<host, group, commands, edits>>

Start(a) ==
  /\ pc = "idle" /\ commands < MaxCommands
  /\ commands' = commands + 1 /\ reply' = "none"
  /\ command' = a /\ pc' = "load"
  /\ UNCHANGED <<host, group, file, base, cfg, report, edits>>

\* Unusable arguments, or a file that does not load.
Refuse ==
  /\ pc = "load" /\ ~(Loads(file) /\ ~Refused(command))
  /\ End("failed") /\ UNCHANGED file

\* The load, and the setters of a command that needs no lookup first.
Open ==
  /\ pc = "load" /\ ~Refused(command) /\ Loads(file)
  /\ base' = Load(file)
  /\ LET c == Load(file) IN
       \/ /\ LooksUp(command, c) \/ command.name = "gps_on"
          /\ pc' = (IF LooksUp(command, c) THEN "lookup" ELSE "probe") /\ cfg' = c
       \/ /\ ~LooksUp(command, c) /\ command.name # "gps_on" /\ ~NothingToDo(command, c)
          /\ cfg' = Edit(command, c).cfg
          /\ pc' = (IF Edit(command, c).ok THEN "save" ELSE "fail")
       \/ /\ NothingToDo(command, c)
          /\ pc' = "done" /\ cfg' = c
  /\ UNCHANGED <<host, group, file, command, report, reply, commands, edits>>

\* A detection: the receiver and the lookup answer what they may.
LookUp ==
  /\ pc = "lookup"
  /\ \E answer \in Answers(host), r \in Replies :
       LET d == Detect(cfg, answer, r, host) IN
         IF ~d.ok THEN pc' = "fail" /\ UNCHANGED <<cfg, report>>
         ELSE /\ cfg' = Edit(command, d.cfg).cfg
              /\ pc' = (IF Edit(command, d.cfg).ok THEN "save" ELSE "fail")
              /\ report' = [was_on |-> cfg.location.use_gps, answer |-> answer,
                            reply |-> r, out |-> d.out]
  /\ UNCHANGED <<host, group, file, command, base, reply, commands, edits>>

\* gps on asks the receiver before anything is changed.
Probe ==
  /\ pc = "probe"
  /\ \E answer \in Answers(host) :
       LET s == SwitchGpsOn(cfg, answer, host) IN
         cfg' = s.cfg /\ pc' = (IF s.ok THEN "save" ELSE "fail")
  /\ UNCHANGED <<host, group, file, command, base, report, reply, commands, edits>>

Save == pc = "save" /\ file' = Document(cfg) /\ End("ok")

\* A setter, a lookup or the save failed.
Failure == pc \in {"save", "fail"} /\ End("failed") /\ UNCHANGED file

Finish == pc = "done" /\ End("ok") /\ UNCHANGED file

Empty == [section \in DOMAIN Default |->
            IF section = "prayers" THEN [p \in Prayers |-> <<>>] ELSE <<>>]

\* A section in which a key has this text.
Written(section, key, text) ==
  [k \in DOMAIN section \cup {key} |-> IF k = key THEN text ELSE section[k]]

\* The user writes one key into the file, or a first file with it.
HandEdit ==
  /\ edits < MaxEdits /\ edits' = edits + 1 /\ file # Broken
  /\ LET doc == IF file = NoFile THEN Empty ELSE file IN
       \E e \in HandEdits[group] :
         file' = IF e.prayer = Nil
                 THEN [doc EXCEPT ![e.section] = Written(@, e.key, e.text)]
                 ELSE [doc EXCEPT !.prayers[e.prayer] = Written(@, e.key, e.text)]
  /\ UNCHANGED <<host, group, pc, command, base, cfg, report, reply, commands>>

\* The file is spoilt, or removed.
FileLost ==
  /\ edits < MaxEdits /\ edits' = edits + 1
  /\ file' \in {Broken, NoFile} \ {file}
  /\ UNCHANGED <<host, group, pc, command, base, cfg, report, reply, commands>>

Next ==
  \/ \E a \in Commands[group] : Start(a)
  \/ Refuse \/ Open \/ LookUp \/ Probe \/ Save \/ Failure \/ Finish
  \/ HandEdit \/ FileLost

Spec == Init /\ [][Next]_vars

-----------------------------------------------------------------------------
\* The normal form a load and every setter keep: no receiver without
\* detection, a refresh at most hourly, a known sound mode, and prayers that
\* config_validate accepts although the load path never calls it.
Normal(c) ==
  /\ c.location.use_gps => c.location.auto_detect
  /\ c.location.refresh_interval \notin 1..(MinRefresh - 1)
  /\ c.notification.sound \in {"adhan", "default", "off"}
  /\ Validates(c)

\* Every handle is in normal form, whatever was written into the file by hand
\* and whichever setters ran (config.c:449-471, 371-378, 585-588;
\* muslimtify_settings.c:248-251).
TypeOK ==
  /\ pc \in {"idle", "load", "lookup", "probe", "save", "fail", "done"}
  /\ (pc = "idle") = (command = Nil)
  /\ reply \in {"none", "ok", "failed"}
  /\ cfg # Nil => Normal(cfg)
  /\ base # Nil => Normal(base)
  /\ commands \in 0..MaxCommands /\ edits \in 0..MaxEdits

\* A field of a config.
Fields ==
  {<<s, k>> : s \in {"location"}, k \in DOMAIN DefaultLocation}
  \cup {<<s, k>> : s \in {"notification"}, k \in DOMAIN DefaultRest.notification}
  \cup {<<s, k>> : s \in {"calculation"}, k \in DOMAIN DefaultRest.calculation}
  \cup {<<"display", "time_format">>}
  \cup {<<"prayers", p, k>> : p \in Prayers, k \in DOMAIN DefaultPrayer}

At(c, f) == IF Len(f) = 3 THEN c.prayers[f[2]][f[3]] ELSE c[f[1]][f[2]]

\* A field a command is not about: as it was loaded, to six decimals.
Kept(b, f) == IF f[Len(f)] \in Decimals THEN SixDecimals(At(b, f)) ELSE At(b, f)

PlaceKeys == {"latitude", "longitude", "timezone", "timezone_offset", "updated_at"}

\* What the location fields should be after a command, from its arguments and
\* what it loaded, in no order.
WantedOfLocation(a, b, f) ==
  LET key   == f[2]
      moved == a.name = "location" /\ ~a.auto /\ (a.lat # Nil \/ a.lon # Nil)
      Arg(v, otherwise) == IF v = Nil THEN otherwise ELSE v
  IN  CASE LooksUp(a, b) /\ a.name # "location" ->
             IF key = "auto_detect" THEN TRUE
             ELSE IF key \in {"city", "refresh_interval"} THEN Kept(b, f) ELSE Free
        [] a.name = "location" /\ a.auto ->
             CASE key = "auto_detect"      -> TRUE
               [] key = "city"             -> Fit(Arg(a.city, At(b, f)))
               [] key = "country"          -> IF a.country = Nil THEN Free ELSE UpperCase(a.country)
               [] key = "refresh_interval" -> Kept(b, f)
               [] OTHER                    -> Free
        [] a.name = "location" /\ ~a.auto ->
             CASE key = "latitude"         -> SixDecimals(Arg(a.lat, At(b, f)))
               [] key = "longitude"        -> SixDecimals(Arg(a.lon, At(b, f)))
               [] key = "timezone"         -> Arg(a.timezone, IF moved THEN Free ELSE At(b, f))
               [] key = "timezone_offset"  -> IF moved \/ a.timezone # Nil THEN Free ELSE Kept(b, f)
               [] key = "city"             -> Fit(Arg(a.city, IF moved THEN "" ELSE At(b, f)))
               [] key = "country"          -> IF a.country # Nil THEN UpperCase(a.country)
                                              ELSE IF moved THEN "" ELSE At(b, f)
               [] key = "refresh_interval" -> Arg(a.refresh, At(b, f))
               [] key \in Flags            -> ~moved /\ At(b, f)
               [] OTHER                    -> Kept(b, f)
        [] a.name = "gps_on" ->
             IF key \in {"auto_detect", "use_gps"} THEN TRUE
             ELSE IF key \in PlaceKeys THEN Free ELSE Kept(b, f)
        [] a.name = "gps_off" -> IF key = "use_gps" THEN FALSE ELSE Kept(b, f)
        [] OTHER -> Kept(b, f)

WantedOfPrayer(a, b, f) ==
  CASE a.name = "enable" /\ f[3] = "enabled" /\ f[2] \in Targets(a.who)           -> a.on
    [] a.name = "adhan" /\ f[3] = "adhan_enabled" /\ f[2] \in Targets(a.who)      -> a.on
    [] a.name = "adhan_file" /\ f[3] = "adhan"                                     -> Paths[a.path].canonical
    [] a.name = "offset" /\ f[3] = "offset" /\ f[2] \in Targets(a.who)            -> a.minutes
    [] a.name = "reminder" /\ f[3] = "reminders" /\ f[2] \in Targets(a.who)       -> a.minutes
    [] OTHER -> At(b, f)

\* The angles of a method other than "custom" are not in the file.  A scheduled
\* cycle keeps the method, as the code does; cmd_daemon_win.c:10 says that it is
\* detected then (README, smaller disagreements).
WantedOfRest(a, b, f) ==
  CASE a.name = "method" /\ f[2] = "method"                     -> a.key
    [] a.name \in {"method_auto", "install"} /\ f[2] = "method" -> Free
    [] f[2] \in {"fajr_angle", "isha_angle"} ->
         IF b.calculation.method = "custom" /\ a.name \notin {"method", "method_auto", "install"}
         THEN Kept(b, f) ELSE Free
    [] a.name = "madhab" /\ f[2] = "madhab"          -> a.key
    [] a.name = "urgency" /\ f[2] = "urgency"        -> a.key
    [] a.name = "sound" /\ f[2] = "sound"            -> a.key
    [] a.name = "timeformat" /\ f[2] = "time_format" -> a.format
    [] OTHER -> Kept(b, f)

Wanted(a, b, f) ==
  CASE f[1] = "location" -> WantedOfLocation(a, b, f)
    [] f[1] = "prayers"  -> WantedOfPrayer(a, b, f)
    [] OTHER             -> WantedOfRest(a, b, f)

\* The file, loaded again, has what the command was to set and all else as the
\* command found it.
Serves(doc) ==
  \A f \in Fields :
    Wanted(command, base, f) \in {Free, At(Load(doc), f)}

\* A command that succeeds leaves a file that, loaded again, has exactly what
\* its arguments ask for, with every other field as it was loaded; one that
\* fails leaves the file alone, however many of its setters succeeded
\* (cmd_location.c:62-105, cmd_notification.c:71-90, config.c:148-234).  For the
\* scheduled cycle this means a place that is detected and a method that is
\* kept, which is not what cmd_daemon_win.c:10-12 says of it.
DoesWhatWasAsked ==
  [][/\ Save => Serves(file')
     /\ reply # "failed" /\ reply' = "failed" => file' = file]_vars

\* What a detection reports is so: it names the receiver as the source exactly
\* when the position is the receiver's, the receiver is switched off only for
\* a failure the user is told of, and then it is reported as switched off; for
\* want of a fix or a permission it stays on (location.c:319-341,
\* muslimtify_location.c:45-59).
ReportsTrue ==
  pc = "save" /\ report # Nil =>
    /\ report.out.source = "GPS" =>
         report.was_on /\ report.answer.status = "OK"
         /\ cfg.location.latitude = report.answer.lat
         /\ cfg.location.longitude = report.answer.lon
    /\ report.out.source = "IP" =>
         report.reply # Nil /\ <<cfg.location.latitude, cfg.location.longitude>> = report.reply.loc
    /\ report.out.gps_disabled = (report.was_on /\ ~cfg.location.use_gps)
    /\ report.out.gps_disabled => report.out.gps \in Structural
    /\ report.was_on /\ report.answer.status \in {"NO_FIX", "NO_PERMISSION"} =>
         cfg.location.use_gps
=============================================================================
