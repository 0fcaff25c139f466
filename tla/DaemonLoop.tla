----------------------------- MODULE DaemonLoop -----------------------------
(***************************************************************************)
(* The daemon process on Linux: the loop of src/cli/daemon_loop.c with its *)
(* stop signals, the nap to the next minute, and the adhan a cycle plays   *)
(* in src/platform/linux/notification.c through src/core/audio.c.  What a  *)
(* cycle decides is in CheckCycle; here it is a list of announcements.     *)
(*                                                                         *)
(* Time runs in ticks, several to a second, and seconds in short minutes.  *)
(***************************************************************************)
EXTENDS Naturals, Sequences, FiniteSetsExt

CONSTANTS
  TicksPerSec,   \* resolution of the clock
  MinuteSecs,    \* 60
  Places,        \* where get_adhan_path looks, in this order: 1, 2, ...
  MaxDue,        \* bound: announcements of one cycle
  MaxSignals     \* bound: stop signals sent

ASSUME LoopAssumption ==
  /\ TicksPerSec \in Nat \ {0} /\ MinuteSecs \in Nat \ {0}
  /\ Places \subseteq Nat \ {0} /\ MaxDue \in Nat /\ MaxSignals \in Nat

NoFile == 0
OwnFile == 100
MinuteTicks == MinuteSecs * TicksPerSec

VARIABLES
  pc,          \* where the main thread is
  stop,        \* g_stop
  interrupt,   \* g_adhan_interrupt
  masked,      \* the stop signals are blocked
  pending,     \* a stop signal was sent and not yet delivered
  asked,       \* history: a stop signal reached an installed handler
  left,        \* announcements the cycle has still to make
  audio,       \* audio.c: engine and sound allocated, g_is_playing, still sounding
  shown,       \* the adhan's notification is on the screen
  unsaved,     \* announcements made that the cache file does not know of
  phase,       \* ticks since the minute began
  nap,         \* ticks of sleep left
  crossed,     \* history: minutes begun since the last cycle began
  held,        \* history: time passed outside the nap since then
  signals

adhanVars == <<audio, shown>>
timeVars == <<phase, nap, crossed, held>>
flagVars == <<stop, interrupt, masked, pending, asked, signals>>
vars == <<pc, flagVars, left, adhanVars, unsaved, timeVars>>

Silent == [engine |-> FALSE, sound |-> FALSE, playing |-> FALSE, sounding |-> FALSE]
Playing == [engine |-> TRUE, sound |-> TRUE, playing |-> TRUE, sounding |-> TRUE]

Alive == pc \notin {"stopped", "killed"}
Second == phase \div TicksPerSec

-----------------------------------------------------------------------------
\* Signals.
Send ==
  /\ Alive /\ signals < MaxSignals
  /\ pending' = TRUE /\ signals' = signals + 1
  /\ UNCHANGED <<pc, stop, interrupt, masked, asked, left, adhanVars, unsaved, timeVars>>

\* The default action: no handler yet.
DeliverEarly ==
  /\ pc = "starting" /\ pending
  /\ pc' = "killed" /\ pending' = FALSE
  /\ UNCHANGED <<stop, interrupt, masked, asked, left, adhanVars, unsaved, timeVars, signals>>

HandleFlagOnly ==
  /\ stop' = TRUE /\ interrupt' = interrupt

\* handle_stop_signal; it runs to its end before the main thread goes on.
Handle == stop' = TRUE /\ interrupt' = TRUE

Deliver ==
  /\ Alive /\ pc # "starting" /\ pending /\ ~masked
  /\ Handle
  /\ pending' = FALSE /\ asked' = TRUE
  /\ IF pc = "pselect" THEN pc' = "unmask" /\ masked' = TRUE ELSE UNCHANGED <<pc, masked>>
  /\ UNCHANGED <<left, adhanVars, unsaved, timeVars, signals>>

-----------------------------------------------------------------------------
\* The loop of run_daemon_loop.
Install ==
  /\ pc = "starting"
  /\ pc' = "test"
  /\ UNCHANGED <<flagVars, left, adhanVars, unsaved, timeVars>>

BeginCycle ==
  /\ pc = "test" /\ ~stop
  /\ pc' = "cycle"
  /\ \E n \in 0..MaxDue : left' \in [1..n -> {"adhan", "note"}]
  /\ crossed' = 0 /\ held' = FALSE
  /\ UNCHANGED <<flagVars, adhanVars, unsaved, phase, nap>>

Leave ==
  /\ pc = "test" /\ stop
  /\ pc' = "stopped"
  /\ UNCHANGED <<flagVars, left, adhanVars, unsaved, timeVars>>

\* An error ends the cycle before its first announcement.
CycleFails ==
  /\ pc = "cycle" /\ ~unsaved
  /\ pc' = "mask" /\ left' = <<>>
  /\ UNCHANGED <<flagVars, adhanVars, unsaved, timeVars>>

\* notify_prayer returns at once.
Note ==
  /\ pc = "cycle" /\ left # <<>> /\ Head(left) = "note"
  /\ left' = Tail(left) /\ unsaved' = TRUE
  /\ UNCHANGED <<pc, flagVars, adhanVars, timeVars>>

\* The list is written back, or that fails, which only costs a repetition.
FinishCycle ==
  /\ pc = "cycle" /\ left = <<>>
  /\ pc' = "mask" /\ unsaved' = FALSE
  /\ UNCHANGED <<flagVars, left, adhanVars, timeVars>>

MaskNothing ==
  /\ pc = "mask"
  /\ pc' = "recheck"
  /\ UNCHANGED <<flagVars, left, adhanVars, unsaved, timeVars>>

Mask ==
  /\ pc = "mask"
  /\ pc' = "recheck" /\ masked' = TRUE
  /\ UNCHANGED <<stop, interrupt, pending, asked, signals, left, adhanVars, unsaved, timeVars>>

SecondsToNextMinuteMinusOne == MinuteSecs - 1 - Second

\* seconds_until_next_minute
SecondsToNextMinute == MinuteSecs - Second

Recheck ==
  /\ pc = "recheck"
  /\ IF stop THEN pc' = "unmask" /\ UNCHANGED nap
             ELSE pc' = "doze" /\ nap' = SecondsToNextMinute * TicksPerSec
  /\ UNCHANGED <<flagVars, left, adhanVars, unsaved, phase, crossed, held>>

\* pselect unblocks the signals and sleeps in one step.
Pselect ==
  /\ pc = "doze"
  /\ pc' = "pselect" /\ masked' = FALSE
  /\ UNCHANGED <<stop, interrupt, pending, asked, signals, left, adhanVars, unsaved, timeVars>>

Wake ==
  /\ pc = "pselect" /\ nap = 0
  /\ pc' = "unmask" /\ masked' = TRUE
  /\ UNCHANGED <<stop, interrupt, pending, asked, signals, left, adhanVars, unsaved, timeVars>>

Unmask ==
  /\ pc = "unmask"
  /\ pc' = "test" /\ masked' = FALSE
  /\ UNCHANGED <<stop, interrupt, pending, asked, signals, left, adhanVars, unsaved, timeVars>>

-----------------------------------------------------------------------------
\* get_adhan_path: the configured file, else the first that exists.
AdhanFile(configured, present) ==
  IF configured # NoFile THEN configured
  ELSE IF present = {} THEN NoFile ELSE Min(present)

\* What audio_start leaves behind, by the first of its calls that fails.
AudioLeaky(failing) ==
  IF failing = "none" THEN Playing
  ELSE IF failing = "file" THEN [Silent EXCEPT !.engine = TRUE]
  ELSE Silent

AudioStart(failing) == IF failing = "none" THEN Playing ELSE Silent

AudioStop == IF audio.playing THEN Silent ELSE audio

AudioIsPlaying == audio.playing /\ audio.sounding

\* notify_adhan up to its main loop; without sound it shows and returns.
StartAdhan ==
  /\ pc = "cycle" /\ left # <<>> /\ Head(left) = "adhan"
  /\ \E configured \in {NoFile, OwnFile}, present \in SUBSET Places,
        failing \in {"none", "engine", "file", "start"} :
       LET file == AdhanFile(configured, present) IN
       /\ file = NoFile => failing \in {"engine", "file"}
       /\ audio' = AudioStart(failing)
       /\ IF failing = "none"
          THEN pc' = "poll" /\ shown' = TRUE /\ UNCHANGED <<left, unsaved>>
          ELSE UNCHANGED <<pc, shown>> /\ left' = Tail(left) /\ unsaved' = TRUE
  /\ UNCHANGED <<flagVars, timeVars>>

RecitationEnds ==
  /\ audio.sounding
  /\ audio' = [audio EXCEPT !.sounding = FALSE]
  /\ UNCHANGED <<pc, flagVars, left, shown, unsaved, timeVars>>

\* adhan_poll_cb, every 200 ms.
PollIgnoringInterrupt ==
  /\ pc = "poll" /\ ~AudioIsPlaying
  /\ pc' = "close" /\ UNCHANGED audio
  /\ UNCHANGED <<flagVars, left, shown, unsaved, timeVars>>

Poll ==
  /\ pc = "poll"
  /\ \/ interrupt /\ audio' = AudioStop
     \/ ~interrupt /\ ~AudioIsPlaying /\ UNCHANGED audio
  /\ pc' = "close"
  /\ UNCHANGED <<flagVars, left, shown, unsaved, timeVars>>

\* adhan_stop_cb, adhan_closed_cb: Stop is clicked, or the bubble closed.
UserEnds ==
  /\ pc = "poll"
  /\ audio' = AudioStop
  /\ shown' \in BOOLEAN
  /\ pc' = "close"
  /\ UNCHANGED <<flagVars, left, unsaved, timeVars>>

\* The rest of notify_adhan; the cycle then takes the trigger off its list.
CloseKeepsPlayer ==
  /\ pc = "close"
  /\ shown' = FALSE
  /\ pc' = "cycle" /\ left' = Tail(left) /\ unsaved' = TRUE
  /\ UNCHANGED <<audio, flagVars, timeVars>>

Close ==
  /\ pc = "close"
  /\ audio' = AudioStop /\ shown' = FALSE
  /\ pc' = "cycle" /\ left' = Tail(left) /\ unsaved' = TRUE
  /\ UNCHANGED <<flagVars, timeVars>>

-----------------------------------------------------------------------------
Tick ==
  /\ Alive /\ (pc = "pselect" => nap > 0)
  /\ phase' = (phase + 1) % MinuteTicks
  /\ crossed' = IF phase' = 0 /\ crossed < 2 THEN crossed + 1 ELSE crossed
  /\ IF pc = "pselect" THEN nap' = nap - 1 /\ UNCHANGED held
                       ELSE held' = TRUE /\ UNCHANGED nap
  /\ UNCHANGED <<pc, flagVars, left, adhanVars, unsaved>>

Init ==
  /\ pc = "starting"
  /\ stop = FALSE /\ interrupt = FALSE /\ masked = FALSE
  /\ pending = FALSE /\ asked = FALSE /\ signals = 0
  /\ left = <<>> /\ audio = Silent /\ shown = FALSE /\ unsaved = FALSE
  /\ phase \in 0..(MinuteTicks - 1) /\ nap = 0
  /\ crossed = 1 /\ held = FALSE

\* What the process does of itself; Poll by its 200 ms timer.
Process ==
  \/ Install \/ BeginCycle \/ Leave \/ CycleFails \/ Note \/ FinishCycle
  \/ Mask \/ Recheck \/ Pselect \/ Unmask
  \/ StartAdhan \/ Poll \/ Close

Next ==
  \/ Send \/ DeliverEarly \/ Deliver
  \/ Process \/ Wake
  \/ RecitationEnds \/ UserEnds
  \/ Tick

(***************************************************************************)
(* The process is scheduled, and a signal is delivered at the latest when  *)
(* the process passes through the kernel once more with it unblocked.      *)
(* Nothing is assumed of the clock, so a nap may never end, nor of the     *)
(* recitation or the user.                                                 *)
(***************************************************************************)
Spec == Init /\ [][Next]_vars /\ WF_vars(Process) /\ SF_vars(Deliver)

-----------------------------------------------------------------------------
InAdhan == pc \in {"poll", "close"}

\* Types; the signal mask and the notification by program point.
TypeOK ==
  /\ pc \in {"starting", "test", "cycle", "poll", "close", "mask", "recheck", "doze",
             "pselect", "unmask", "stopped", "killed"}
  /\ stop \in BOOLEAN /\ pending \in BOOLEAN
  /\ interrupt = stop /\ asked = stop
  /\ masked = (pc \in {"recheck", "doze", "unmask"})
  /\ signals \in 0..MaxSignals
  /\ Len(left) <= MaxDue
  /\ shown \in BOOLEAN /\ unsaved \in BOOLEAN /\ held \in BOOLEAN
  /\ phase \in 0..(MinuteTicks - 1) /\ nap \in 0..MinuteTicks /\ crossed \in 0..2

(***************************************************************************)
(* A stop signal is never slept through: whenever it comes, also between   *)
(* the test of g_stop and the sleep, the daemon does not sleep with g_stop *)
(* set.                                                                    *)
(***************************************************************************)
NeverAsleepWithStop == pc = "pselect" => ~stop

(***************************************************************************)
(* Once a stop signal has been sent to a running daemon it stops, without  *)
(* waiting for the nap or for a recitation to end, and with it goes the    *)
(* rest of the cycle: an adhan that plays is ended, later ones at once.    *)
(***************************************************************************)
StopHonoured == (pending /\ pc # "starting") ~> pc \in {"stopped", "killed"}

(***************************************************************************)
(* Audio engine, decoder and notification live exactly as long as          *)
(* notify_adhan: whichever call of audio_start fails and whoever ends the  *)
(* adhan, nothing stays allocated, and a daemon that stopped has told the  *)
(* cache file what it announced.                                           *)
(***************************************************************************)
LeavesNothing ==
  /\ ~InAdhan => audio = Silent /\ ~shown
  /\ audio.playing = (audio.engine /\ audio.sound) /\ (audio.engine <=> audio.sound)
  /\ pc = "stopped" => ~unsaved

(***************************************************************************)
(* One cycle in a minute: a nap never ends within the minute it began in,  *)
(* and skips no minute, if no time passes outside the nap.                 *)
(***************************************************************************)
MinuteByMinute ==
  [][pc = "test" /\ pc' = "cycle" => crossed >= 1 /\ (~held => crossed = 1)]_vars
=============================================================================
