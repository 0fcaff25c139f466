--------------------------- MODULE MCTriggerArray ---------------------------
(***************************************************************************)
(* A day of 8 minutes, a catch-up window of 2, two prayers and at most two *)
(* reminders each.  "plain" has one prayer running over midnight on some   *)
(* days and not on others (so one day holds it twice, the next not at      *)
(* all), a prayer that does not occur, and two prayers in one minute;      *)
(* "full" asks for more triggers than the 6 the array holds.               *)
(***************************************************************************)
EXTENDS TriggerArray

MCEnabled == [f \in Prefs |-> IF f = "one" THEN {2} ELSE {1, 2}]
MCAdhanOn == [f \in Prefs |-> IF f = "plain" THEN {1} ELSE {1, 2}]

MCReminders ==
  [f \in Prefs |-> CASE f = "plain" -> <<<<2>>, <<>>>>
                     [] f = "one"   -> <<<<1>>, <<3, 1>>>>
                     [] f = "full"  -> <<<<3, 1>>, <<2, 2>>>>]

\* day -1, 0, 1 and 2 of each place
Times(a, b, c, d) == [s \in SourceDays |-> <<a, b, c, d>>[s + 2]]
Both(m, n) == [p \in {1, 2} |-> IF p = 1 THEN m ELSE n]
Only(p, m) == [q \in {p} |-> m]

MCPrayerMinute ==
  [f \in Prefs |-> [l \in Locations |->
     CASE l = "spill" -> Times(Both(3, 8), Both(3, 7), Both(3, 9), Both(4, 7))
       [] l = "early" -> Times(Both(2, 5), Both(0, 5), Both(-1, 5), Both(-2, 6))
       [] l = "polar" -> Times(Both(3, 15), Only(2, 4), Only(1, 4), Both(4, 4))]]
=============================================================================
