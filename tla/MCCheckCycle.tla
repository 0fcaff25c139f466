---------------------------- MODULE MCCheckCycle ----------------------------
(***************************************************************************)
(* Days of 3 to 5 minutes, a catch-up window of 1 or 2,                    *)
(* two prayers, one of them recited, with a reminder each.  At "home" a    *)
(* reminder and a prayer share a minute; "away" lies to the east of it,    *)
(* its first prayer comes earlier and its second falls on the last minute  *)
(* of a day of 4; in the "west" the recited prayer is directly followed    *)
(* by that minute; at 0,0 a prayer runs over midnight.                     *)
(***************************************************************************)
EXTENDS CheckCycle

MCEnabled == [f \in Prefs |-> IF f = "both" THEN {1, 2} ELSE {2}]
MCAdhanOn == [f \in Prefs |-> {1}]
MCReminders == [f \in Prefs |-> IF f = "both" THEN <<<<1>>, <<1>>>> ELSE <<<<>>, <<>>>>]

Every(m, n) == [s \in SourceDays |-> [p \in {1, 2} |-> IF p = 1 THEN m ELSE n]]

MCPrayerMinute ==
  [f \in Prefs |-> [l \in Locations |->
     CASE l = "unset" -> Every(0, 4)
       [] l = "home"  -> Every(1, 2)
       [] l = "away"  -> Every(0, 3)
       [] l = "west"  -> Every(2, 3)]]

Config(l, auto) == [prefs |-> "both", loc |-> l, auto |-> auto, updated |-> 0]

MCWest     == {Config("west", FALSE)}
MCManual   == {Config("home", FALSE)}
MCDetected == {Config("home", TRUE)}
MCFresh    == {Config("unset", TRUE)}
=============================================================================
