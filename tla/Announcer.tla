------------------------------ MODULE Announcer ------------------------------
(***************************************************************************)
(* What the daemon promises the user (muslimtify_run_cycle_at,             *)
(* check_cycle.h).  It works through an agenda: what some schedule of the  *)
(* day holds and what has not been told, unless the record of the telling  *)
(* was lost.  It tells an item in its minute or within the catch-up window *)
(* after it, never a reminder whose prayer has come, and no item leaves    *)
(* the agenda otherwise but for a reason, or with the agenda as a whole.   *)
(* Of files and commands the promise knows nothing.                        *)
(***************************************************************************)
EXTENDS Integers

CONSTANTS
  Schedules,   \* for each day, the sets of triggers it may hold
  Window,      \* CATCHUP_MAX_MIN
  TooLong      \* the sets that are larger than MAX_TRIGGERS

VARIABLES
  now,         \* the minute at which the daemon last read the clock
  moved,       \* it has just found itself at a new place
  agenda,      \* what it is about to tell
  told,        \* what the user has been told
  unsure,      \* what of it the daemon may no longer know
  givenUp      \* what it will not tell any more

vars == <<now, moved, agenda, told, unsure, givenUp>>

\* A reminder is worth nothing once its prayer's minute has come.
Useless(o) == o.trig.before > 0 /\ o.trig.minute + o.trig.before <= now.minute

Planned(o) == \E S \in Schedules[o.day] : o.trig \in S

InTime(o) ==
  o.day = now.day /\ o.trig.minute <= now.minute /\ now.minute <= o.trig.minute + Window

\* A reminder of a day that holds more than there is room for.
Crowded(o) ==
  o.trig.before > 0 /\ \E S \in Schedules[o.day] \cap TooLong : o.trig \in S

Excuse(o) ==
  \/ o.day < now.day
  \/ /\ o.day = now.day
     /\ \/ now.minute > o.trig.minute + Window
        \/ Useless(o)
        \/ moved /\ o.trig.minute < now.minute
        \/ Crowded(o)

\* Nothing is on the agenda a second time of which the record was kept.
Sound == \A o \in agenda : Planned(o) /\ (o \in told => o \in unsure)

\* Records may be lost with any step but a telling.
Forget == unsure \subseteq unsure' /\ unsure' \subseteq told

Tell(o) ==
  /\ o \in agenda /\ InTime(o) /\ ~Useless(o)
  /\ agenda' = agenda \ {o}
  /\ told' = told \cup {o}
  /\ unsure' = unsure \ {o}
  /\ UNCHANGED <<now, moved, givenUp>>

\* From the agenda, or in setting up a new one.
GiveUp ==
  /\ givenUp \subseteq givenUp'
  /\ \A o \in givenUp' \ givenUp : Planned(o) /\ o \notin told /\ Excuse(o)
  /\ \/ agenda = {}
     \/ /\ agenda' \subseteq agenda
        /\ \A o \in agenda \ agenda' : Excuse(o) /\ o \in told \cup givenUp'
  /\ Forget
  /\ UNCHANGED <<now, moved, told>>

\* The clock is read again, the place found or taken for known, an agenda
\* begun or dropped.
Proceed ==
  /\ now.day < now'.day \/ (now.day = now'.day /\ now.minute <= now'.minute)
  /\ moved' \in BOOLEAN
  /\ agenda' = agenda \/ agenda = {} \/ agenda' = {}
  /\ Forget
  /\ UNCHANGED <<told, givenUp>>

Init ==
  /\ now = [day |-> 0, minute |-> 0] /\ moved = FALSE
  /\ agenda = {} /\ told = {} /\ unsure = {} /\ givenUp = {}

Next == (GiveUp \/ Proceed \/ \E o \in agenda : Tell(o)) /\ Sound'

Spec == Init /\ [][Next]_vars
=============================================================================
