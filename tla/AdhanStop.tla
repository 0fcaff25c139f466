------------------------------ MODULE AdhanStop ------------------------------
(***************************************************************************)
(* Playing and stopping the adhan on Windows                               *)
(* (src/platform/windows/notification_win.c, toast_activator_win.c).  A    *)
(* player is a process that calls notify_adhan: the minute's task, or a    *)
(* command that tests the adhan.  A stopper calls notify_adhan_stop: the   *)
(* command "--adhan stop", a thread of the player that serves the toast's  *)
(* Stop button, or a process Windows starts to serve it.  They meet in one *)
(* named event, which the system keeps as long as somebody holds it.       *)
(***************************************************************************)
EXTENDS Naturals, FiniteSets

CONSTANTS
  Players, Stoppers,
  MaxAdhans,    \* bound: calls of notify_adhan
  MaxStops,     \* bound: calls of notify_adhan_stop
  MaxFaults     \* bound: failing calls of Windows, and kills

ASSUME StopAssumption ==
  /\ Players \cap Stoppers = {}
  /\ MaxAdhans \in Nat /\ MaxStops \in Nat /\ MaxFaults \in Nat

VARIABLES
  at,         \* where each player is
  holds,      \* what each player has acquired
  deaf,       \* history: players that Windows refused the event
  sounding,   \* players whose recitation has not come to its end
  doing,      \* where each stopper is
  opened,     \* stoppers with a handle of the event
  signaled,   \* the state of the event
  told,       \* what each stopper last reported
  adhans, stops, faults

vars == <<at, holds, deaf, sounding, doing, opened, signaled, told, adhans, stops, faults>>

\* RoInitialize, the notifier, the toast factory; the class object that serves
\* the button, the event's handle, the toast, the audio engine with its sound.
Resources == {"ro", "notifier", "factory", "class", "event", "toast", "audio"}

Initialized(p) == {"ro", "notifier", "factory"} \subseteq holds[p]
WithEvent == {p \in Players : "event" \in holds[p]} \cup opened
EventExists == WithEvent # {}

Fault == faults < MaxFaults /\ faults' = faults + 1
Take(p, r) == holds' = [holds EXCEPT ![p] = @ \cup r]
Goto(p, l) == at' = [at EXCEPT ![p] = l]

\* The event is gone, and with it its state, when its last handle is closed.
EventAfter(state) == signaled' = (state /\ EventExists')

-----------------------------------------------------------------------------
\* notify_init_once; what it holds after failing in one of its steps.
InitLeaky(failing) ==
  CASE failing = "none" -> {"ro", "notifier", "factory"}
    [] failing = "ro" -> {}
    [] failing = "notifier" -> {}
    [] failing = "factory" -> {"notifier"}

InitHolds(failing) == IF failing = "none" THEN {"ro", "notifier", "factory"} ELSE {}

NotifyInit(p) ==
  /\ at[p] = "out"
  /\ \/ Take(p, InitHolds("none")) /\ Goto(p, "ready") /\ UNCHANGED faults
     \/ \E failing \in {"ro", "notifier", "factory"} :
          Fault /\ Take(p, InitHolds(failing)) /\ UNCHANGED at
  /\ UNCHANGED <<deaf, sounding, doing, opened, signaled, told, adhans, stops>>

NotifyCleanup(p) ==
  /\ at[p] = "ready"
  /\ holds' = [holds EXCEPT ![p] = @ \ {"ro", "notifier", "factory"}]
  /\ Goto(p, "out")
  /\ UNCHANGED <<deaf, sounding, doing, opened, signaled, told, adhans, stops, faults>>

\* notify_adhan prepares its toast, which may fail, and the stop event; an event
\* of that name that exists already is opened as it is.
CreateEventIfNew(p) ==
  /\ at[p] = "ready" /\ adhans < MaxAdhans
  /\ adhans' = adhans + 1
  /\ Take(p, IF EventExists THEN {"toast"} ELSE {"toast", "event"})
  /\ deaf' = deaf \ {p}
  /\ UNCHANGED opened /\ EventAfter(signaled)
  /\ Goto(p, "created")
  /\ UNCHANGED <<sounding, doing, told, stops, faults>>

CreateEvent(p) ==
  /\ at[p] = "ready" /\ adhans < MaxAdhans
  /\ adhans' = adhans + 1
  /\ \E got \in {{"toast", "event"}, {"event"}, {"toast"}, {}} :
       /\ Take(p, got)
       /\ deaf' = IF "event" \in got THEN deaf \ {p} ELSE deaf \cup {p}
       /\ IF got = {"toast", "event"} THEN UNCHANGED faults ELSE Fault
  /\ UNCHANGED opened /\ EventAfter(signaled)
  /\ Goto(p, "created")
  /\ UNCHANGED <<sounding, doing, told, stops>>

\* The button is served from here on; then the toast is shown.
Register(p) ==
  /\ at[p] = "created"
  /\ \/ Take(p, {"class"}) /\ UNCHANGED faults
     \/ Fault /\ UNCHANGED holds
  /\ Goto(p, "registered")
  /\ UNCHANGED <<deaf, sounding, doing, opened, signaled, told, adhans, stops>>

AudioStarts(p) ==
  /\ at[p] = "registered"
  /\ Take(p, {"audio"}) /\ sounding' = sounding \cup {p}
  /\ Goto(p, "playing")
  /\ UNCHANGED <<deaf, doing, opened, signaled, told, adhans, stops, faults>>

\* No file was found, or audio_start fails.
AudioFails(p) ==
  /\ at[p] = "registered" /\ Fault
  /\ Goto(p, "stopped")
  /\ UNCHANGED <<deaf, holds, sounding, doing, opened, signaled, told, adhans, stops>>

RecitationEnds(p) ==
  /\ p \in sounding
  /\ sounding' = sounding \ {p}
  /\ UNCHANGED <<deaf, at, holds, doing, opened, signaled, told, adhans, stops, faults>>

Stopped(p) == "event" \in holds[p] /\ signaled

\* A wait of the loop, 100 ms at most, that ends the loop.
PollAutoReset(p) ==
  /\ at[p] = "playing" /\ (p \notin sounding \/ Stopped(p))
  /\ holds' = [holds EXCEPT ![p] = @ \ {"audio"}]
  /\ sounding' = sounding \ {p}
  /\ signaled' = (signaled /\ p \notin sounding)
  /\ Goto(p, "stopped")
  /\ UNCHANGED <<deaf, doing, opened, told, adhans, stops, faults>>

Poll(p) ==
  /\ at[p] = "playing" /\ (p \notin sounding \/ Stopped(p))
  /\ holds' = [holds EXCEPT ![p] = @ \ {"audio"}]
  /\ sounding' = sounding \ {p}
  /\ Goto(p, "stopped")
  /\ UNCHANGED <<deaf, doing, opened, signaled, told, adhans, stops, faults>>

\* The activator is revoked, then the event closed and the toast released.
CloseKeepsEvent(p) ==
  /\ at[p] = "stopped"
  /\ holds' = [holds EXCEPT ![p] = @ \ {"class", "toast"}]
  /\ UNCHANGED opened /\ EventAfter(signaled)
  /\ Goto(p, "ready")
  /\ UNCHANGED <<deaf, sounding, doing, told, adhans, stops, faults>>

Close(p) ==
  /\ at[p] = "stopped"
  /\ holds' = [holds EXCEPT ![p] = @ \ {"class", "event", "toast"}]
  /\ UNCHANGED opened /\ EventAfter(signaled)
  /\ Goto(p, "ready")
  /\ UNCHANGED <<deaf, sounding, doing, told, adhans, stops, faults>>

\* The system takes back all a killed process held.
Kill(p) ==
  /\ at[p] # "out" /\ Fault
  /\ holds' = [holds EXCEPT ![p] = {}]
  /\ sounding' = sounding \ {p}
  /\ UNCHANGED opened /\ EventAfter(signaled)
  /\ Goto(p, "out")
  /\ UNCHANGED <<deaf, doing, told, adhans, stops>>

-----------------------------------------------------------------------------
\* notify_adhan_stop, by a command or by cb_Activate.  Whatever keeps it from
\* opening the event, it answers that no adhan plays.
StopOpens(s) ==
  /\ doing[s] = "idle" /\ stops < MaxStops
  /\ stops' = stops + 1
  /\ \/ /\ EventExists
        /\ doing' = [doing EXCEPT ![s] = "opened"] /\ opened' = opened \cup {s}
        /\ UNCHANGED <<told, faults>>
     \/ /\ IF EventExists THEN Fault ELSE UNCHANGED faults
        /\ told' = [told EXCEPT ![s] = "none_playing"]
        /\ UNCHANGED <<doing, opened>>
  /\ UNCHANGED <<deaf, at, holds, sounding, signaled, adhans>>

\* SetEvent does not fail on a handle that was opened to set it.
StopSets(s) ==
  /\ doing[s] = "opened"
  /\ signaled' = TRUE
  /\ doing' = [doing EXCEPT ![s] = "set"]
  /\ UNCHANGED <<deaf, at, holds, sounding, opened, told, adhans, stops, faults>>

StopKeepsHandle(s) ==
  /\ doing[s] = "set"
  /\ doing' = [doing EXCEPT ![s] = "idle"]
  /\ told' = [told EXCEPT ![s] = "stopped"]
  /\ UNCHANGED <<deaf, at, holds, sounding, opened, signaled, adhans, stops, faults>>

StopCloses(s) ==
  /\ doing[s] = "set"
  /\ opened' = opened \ {s} /\ UNCHANGED holds
  /\ EventAfter(signaled)
  /\ doing' = [doing EXCEPT ![s] = "idle"]
  /\ told' = [told EXCEPT ![s] = "stopped"]
  /\ UNCHANGED <<deaf, at, sounding, adhans, stops, faults>>

-----------------------------------------------------------------------------
Init ==
  /\ at = [p \in Players |-> "out"] /\ holds = [p \in Players |-> {}] /\ deaf = {}
  /\ sounding = {}
  /\ doing = [s \in Stoppers |-> "idle"] /\ opened = {} /\ signaled = FALSE
  /\ told = [s \in Stoppers |-> "nothing"]
  /\ adhans = 0 /\ stops = 0 /\ faults = 0

\* A process that has begun an adhan carries it through.
Player(p) ==
  NotifyInit(p) \/ NotifyCleanup(p) \/ CreateEvent(p) \/ Register(p)
    \/ AudioStarts(p) \/ AudioFails(p) \/ Poll(p) \/ Close(p)

Stopper(s) == StopOpens(s) \/ StopSets(s) \/ StopCloses(s)

Next ==
  \/ \E p \in Players : Player(p) \/ RecitationEnds(p) \/ Kill(p)
  \/ \E s \in Stoppers : Stopper(s)

(***************************************************************************)
(* Processes are scheduled.  Nothing is assumed of the recitation, which   *)
(* may outlast everything.                                                 *)
(***************************************************************************)
Spec ==
  /\ Init /\ [][Next]_vars
  /\ \A p \in Players : WF_vars(Poll(p)) /\ WF_vars(Close(p))
  /\ \A s \in Stoppers : WF_vars(StopSets(s)) /\ WF_vars(StopCloses(s))

-----------------------------------------------------------------------------
InAdhan(p) == at[p] \in {"created", "registered", "playing", "stopped"}

\* Types; the event is signaled only while somebody keeps it.
TypeOK ==
  /\ at \in [Players -> {"out", "ready", "created", "registered", "playing", "stopped"}]
  /\ holds \in [Players -> SUBSET Resources]
  /\ deaf \subseteq Players
  /\ sounding \subseteq {p \in Players : "audio" \in holds[p]}
  /\ doing \in [Stoppers -> {"idle", "opened", "set"}]
  /\ opened = {s \in Stoppers : doing[s] # "idle"}
  /\ signaled => EventExists
  /\ told \in [Stoppers -> {"nothing", "none_playing", "stopped"}]

(***************************************************************************)
(* Nothing outlives its call, whichever step fails: outside notify_adhan   *)
(* no process sounds, advertises an adhan by the event or serves the       *)
(* button, and a failed or undone initialisation holds nothing.            *)
(***************************************************************************)
LeavesNothing ==
  \A p \in Players :
    /\ ~InAdhan(p) => holds[p] \cap {"class", "event", "toast", "audio"} = {}
    /\ IF at[p] = "out" THEN holds[p] = {} ELSE Initialized(p)
    /\ "audio" \in holds[p] <=> at[p] = "playing"

(***************************************************************************)
(* Who asks for an adhan to be stopped is told that there is none only if  *)
(* none plays ("event absent => no adhan currently playing"), the first    *)
(* time and every other.  Two exceptions: a player that Windows refused    *)
(* the event, and an OpenEventW that fails on an event that is there       *)
(* (access denied, say), which the code takes for an absent one.           *)
(***************************************************************************)
ToldTruly ==
  [][stops' > stops /\ doing' = doing /\ faults' = faults =>
       \A p \in Players : at[p] = "playing" => p \in deaf]_vars

(***************************************************************************)
(* A stop that finds the event ends every adhan that plays at that time,   *)
(* those of two processes at once included, however long the recitations   *)
(* are; again but for a player that was refused the event.                 *)
(***************************************************************************)
StopEndsAll ==
  \A p \in Players, s \in Stoppers :
    (doing[s] = "opened" /\ at[p] = "playing" /\ p \notin deaf) ~> at[p] # "playing"
=============================================================================
