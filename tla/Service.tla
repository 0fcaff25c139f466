------------------------------- MODULE Service -------------------------------
(***************************************************************************)
(* Installing, removing and asking after the background service: a systemd *)
(* user service on Linux (src/platform/linux/daemon.c), a scheduled task   *)
(* with the notification's Stop button on Windows (daemon_win.c,           *)
(* toast_activator_win.c), behind the same three calls (muslimtify_daemon.c,*)
(* cmd_daemon.c, cmd_daemon_win.c).  A command is a row of calls to the    *)
(* service manager; any of them may fail, a command may be killed between  *)
(* two of them, and programs, sessions and services come and go.           *)
(***************************************************************************)
EXTENDS Naturals, FiniteSetsExt

CONSTANTS
  Places,      \* where the program is looked for, in this order: 1, 2, ...
  MaxFaults    \* bound: failing calls and kills

NoProgram == 0
TornUnit == 100

ASSUME PlacesAssumption ==
  /\ Places \subseteq Nat \ {NoProgram, TornUnit} /\ Places # {}
  /\ MaxFaults \in Nat

NoJob == [op |-> "none", pc |-> "idle", prog |-> NoProgram]

VARIABLES
  windows, home, packaged,   \* the platform; a home directory; a distribution's unit
  bins,        \* places that hold the program
  unit,        \* program the user's unit or the scheduled task names
  link,        \* the unit or task is enabled
  active,      \* program the running service runs
  timer,       \* of the old muslimtify.timer: "file", "enabled"
  keys,        \* registry keys of the Stop button: "clsid", "aumid"
  job,         \* the command at work
  did,         \* its *out: steps it says it made
  real,        \* history: steps that had their effect
  clean,       \* history: none of its calls failed
  installs,    \* how the last install ended
  faults

machineVars == <<windows, home, packaged, bins>>
stateVars == <<unit, link, active, timer, keys>>
vars == <<machineVars, stateVars, job, did, real, clean, installs, faults>>

UnitFound == unit # NoProgram \/ packaged
TimerEnabled == {"file", "enabled"} \subseteq timer

\* What is-enabled may answer; for a unit cut short before its [Install]
\* section it may be "static", which counts as enabled.
IsEnabled == IF unit = TornUnit /\ ~link THEN BOOLEAN ELSE {link /\ UnitFound}

\* What systemd starts; the user's unit hides the distribution's.
Startable ==
  LET p == IF unit # NoProgram THEN unit ELSE IF packaged THEN Max(Places) ELSE NoProgram
  IN IF p \in bins THEN p ELSE NoProgram

-----------------------------------------------------------------------------
At(op, pc) == job.op = op /\ job.pc = pc
Goto(pc) == job' = [job EXCEPT !.pc = pc]
Says(step) == did' = did \cup step
Does(step) == real' = real \cup step
Works == UNCHANGED <<faults, clean>>
Fault == faults < MaxFaults /\ faults' = faults + 1 /\ clean' = FALSE

Return(err) ==
  /\ job' = NoJob
  /\ installs' = IF job.op = "install" THEN err ELSE installs

Call(op, pc) ==
  /\ job.op = "none"
  /\ job' = [op |-> op, pc |-> pc, prog |-> NoProgram]
  /\ did' = {} /\ real' = {} /\ clean' = TRUE
  /\ UNCHANGED <<machineVars, stateVars, installs, faults>>

Install == Call("install", "resolve")

\* The first candidate that is an executable file.
FindBinary == IF bins = {} THEN NoProgram ELSE Min(bins)

ResolveAnyway ==
  /\ At("install", "resolve")
  /\ IF bins = {} THEN Return("no_binary")
     ELSE /\ job' = [job EXCEPT !.prog = FindBinary,
                                !.pc = IF windows THEN "create" ELSE "write"]
          /\ UNCHANGED installs
  /\ UNCHANGED <<machineVars, stateVars, did, real, clean, faults>>

\* The start of an installation; without a program or a home nothing is done.
Resolve ==
  /\ At("install", "resolve")
  /\ IF bins = {} THEN Return("no_binary")
     ELSE IF ~home THEN Return("no_home")
     ELSE /\ job' = [job EXCEPT !.prog = FindBinary,
                                !.pc = IF windows THEN "create" ELSE "write"]
          /\ UNCHANGED installs
  /\ UNCHANGED <<machineVars, stateVars, did, real, clean, faults>>

-----------------------------------------------------------------------------
\* Linux.
UninstallOnLinux == ~windows /\ Call("uninstall", "active?")
StatusOnLinux == ~windows /\ Call("status", "installed?")

WriteUnitUnchecked ==
  /\ At("install", "write")
  /\ \/ unit' = job.prog /\ Does({"created"}) /\ Works
     \/ unit' = TornUnit /\ UNCHANGED real /\ Fault
  /\ Says({"created"}) /\ Goto("timer?")
  /\ UNCHANGED <<machineVars, link, active, timer, keys, installs>>

\* The unit is written in place.
WriteUnit ==
  /\ At("install", "write")
  /\ \/ /\ unit' = job.prog /\ Does({"created"}) /\ Works
        /\ Says({"created"}) /\ Goto("timer?") /\ UNCHANGED installs
     \/ /\ unit' \in {unit, TornUnit} /\ Fault
        /\ Return("unit") /\ UNCHANGED <<did, real>>
  /\ UNCHANGED <<machineVars, link, active, timer, keys>>

\* is-enabled, then disable --now, of the timer; the latter is not checked.
DisableTimer(op, next) ==
  /\ At(op, "timer?")
  /\ \/ ~TimerEnabled /\ Works /\ UNCHANGED <<timer, did, real>>
     \/ TimerEnabled /\ Fault /\ UNCHANGED <<timer, did, real>>
     \/ TimerEnabled /\ Works /\ timer' = timer \ {"enabled"} /\ Says({"timer"}) /\ Does({"timer"})
     \/ TimerEnabled /\ Fault /\ UNCHANGED <<timer, real>> /\ Says({"timer"})
  /\ Goto(next)
  /\ UNCHANGED <<machineVars, unit, link, active, keys, installs>>

RemoveTimer ==
  /\ At("install", "timer_file")
  /\ \/ timer' = timer \ {"file"} /\ Works
     \/ UNCHANGED timer /\ Fault
  /\ Goto("reload")
  /\ UNCHANGED <<machineVars, unit, link, active, keys, did, real, installs>>

Reload ==
  /\ At("install", "reload")
  /\ \/ Goto("enable") /\ Does({"reloaded"}) /\ Works /\ UNCHANGED installs
     \/ Return("reload") /\ Fault /\ UNCHANGED real
  /\ UNCHANGED <<machineVars, stateVars, did>>

EnableOnly ==
  /\ At("install", "enable")
  /\ \/ /\ link' = TRUE /\ UNCHANGED active
        /\ Works /\ Does({"enabled"}) /\ Return("ok")
     \/ Fault /\ UNCHANGED <<link, active, real>> /\ Return("enable")
  /\ UNCHANGED <<machineVars, unit, timer, keys, did>>

\* enable --now: the link, then the start, which a running service ignores.
Enable ==
  /\ At("install", "enable")
  /\ \/ /\ link' = TRUE /\ active' = IF active = NoProgram THEN Startable ELSE active
        /\ Works /\ Does({"enabled"}) /\ Return("ok")
     \/ Fault /\ link' \in {link, TRUE} /\ UNCHANGED <<active, real>> /\ Return("enable")
  /\ UNCHANGED <<machineVars, unit, timer, keys, did>>

StopInstalled ==
  /\ At("uninstall", "active?")
  /\ LET found == UnitFound /\ active # NoProgram IN
     \/ ~found /\ Works /\ UNCHANGED <<active, did, real>>
     \/ found /\ Works /\ active' = NoProgram /\ Says({"stopped"}) /\ Does({"stopped"})
     \/ found /\ Fault /\ UNCHANGED <<active, real>> /\ Says({"stopped"})
  /\ Goto("enabled?")
  /\ UNCHANGED <<machineVars, unit, link, timer, keys, installs>>

\* is-active and stop; a failing question reads as "no", a failing stop is ignored.
Stop ==
  /\ At("uninstall", "active?")
  /\ \/ active = NoProgram /\ Works /\ UNCHANGED <<active, did, real>>
     \/ active # NoProgram /\ Fault /\ UNCHANGED <<active, did, real>>
     \/ active # NoProgram /\ Works /\ active' = NoProgram /\ Says({"stopped"}) /\ Does({"stopped"})
     \/ active # NoProgram /\ Fault /\ UNCHANGED <<active, real>> /\ Says({"stopped"})
  /\ Goto("enabled?")
  /\ UNCHANGED <<machineVars, unit, link, timer, keys, installs>>

Disable ==
  /\ At("uninstall", "enabled?")
  /\ \E yes \in IsEnabled :
       \/ ~yes /\ Works /\ UNCHANGED <<link, did, real>>
       \/ yes /\ Fault /\ UNCHANGED <<link, did, real>>
       \/ yes /\ Works /\ link' = FALSE /\ Says({"disabled"}) /\ Does({"disabled"})
       \/ yes /\ Fault /\ UNCHANGED <<link, real>> /\ Says({"disabled"})
  /\ Goto("timer?")
  /\ UNCHANGED <<machineVars, unit, active, timer, keys, installs>>

\* Both files; the reload that follows is not checked.
RemoveFiles ==
  /\ At("uninstall", "files")
  /\ IF ~home THEN Return("no_home") /\ Works /\ UNCHANGED <<unit, timer, did, real>>
     ELSE /\ Return("ok")
          /\ \/ unit' = NoProgram /\ timer' = timer \ {"file"} /\ Works
             \/ unit' \in {unit, NoProgram} /\ timer' \in {timer, timer \ {"file"}} /\ Fault
          /\ LET gone == (IF unit' # unit THEN {"removed"} ELSE {})
                           \cup (IF timer' # timer THEN {"timer_file"} ELSE {})
             IN Says(gone) /\ Does(gone)
  /\ UNCHANGED <<machineVars, link, active, keys>>

StatusFiles ==
  /\ At("status", "installed?")
  /\ Says(IF UnitFound THEN {"installed"} ELSE {})
  /\ Goto("enabled?")
  /\ UNCHANGED <<machineVars, stateVars, real, clean, installs, faults>>

StatusEnabled ==
  /\ At("status", "enabled?")
  /\ \/ \E yes \in IsEnabled : Says(IF yes THEN {"enabled"} ELSE {}) /\ Works
     \/ Fault /\ UNCHANGED did
  /\ Goto("active?")
  /\ UNCHANGED <<machineVars, stateVars, real, installs>>

StatusActiveAlone ==
  /\ At("status", "active?")
  /\ \/ Says(IF active # NoProgram THEN {"running"} ELSE {}) /\ Works
     \/ Fault /\ UNCHANGED did
  /\ Return("ok")
  /\ UNCHANGED <<machineVars, stateVars, real>>

\* What is enabled or active exists, wherever its unit lies.
StatusActive ==
  /\ At("status", "active?")
  /\ \E now \in {{}, {"running"}} :
       /\ IF (now # {}) = (active # NoProgram) THEN Works ELSE now = {} /\ Fault
       /\ Says(IF did \cup now \subseteq {"installed"} THEN now ELSE now \cup {"installed"})
  /\ Return("ok")
  /\ UNCHANGED <<machineVars, stateVars, real>>

-----------------------------------------------------------------------------
\* Windows.  schtasks answers 0, or 1 when it failed, or -1 when it could not
\* be run or was terminated after a minute, whatever it had done by then.
CreateTask ==
  /\ At("install", "create")
  /\ \/ /\ unit' = job.prog /\ link' = TRUE /\ Works
        /\ Does({"created"}) /\ Goto("clsid") /\ UNCHANGED installs
     \/ /\ \/ UNCHANGED <<unit, link>>
           \/ unit' = job.prog /\ link' = TRUE
        /\ Fault /\ UNCHANGED real /\ Return("manager")
  /\ UNCHANGED <<machineVars, active, timer, keys, did>>

\* register_toast_activator, also the command "daemon register"; a failure is
\* a warning of an installation and an error of the command.
RegisterKey(op, pc, key, next) ==
  /\ At(op, pc)
  /\ \/ /\ keys' = keys \cup {key} /\ Works
        /\ IF next = "end" THEN Return("ok") ELSE Goto(next) /\ UNCHANGED installs
     \/ /\ UNCHANGED keys /\ Fault
        /\ Return(IF op = "install" THEN "ok" ELSE "failed")
  /\ UNCHANGED <<machineVars, unit, link, active, timer, did, real>>

RegisterCommand == windows /\ Call("register", "clsid")
UnregisterCommand == windows /\ Call("unregister", "unregister")

UninstallOnWindows == windows /\ Call("uninstall", "query")

QueryTask ==
  /\ At("uninstall", "query")
  /\ \/ Works /\ Goto(IF unit = NoProgram THEN "unregister" ELSE "delete") /\ UNCHANGED installs
     \/ Fault /\ Goto("unregister") /\ UNCHANGED installs
     \/ Fault /\ Return("manager")
  /\ UNCHANGED <<machineVars, stateVars, did, real>>

\* A failure is kept for the end and does not stop the unregistration.
DeleteTask ==
  /\ At("uninstall", "delete")
  /\ \/ unit' = NoProgram /\ link' = FALSE /\ Works
        /\ Says({"removed"}) /\ Does({"removed"}) /\ Goto("unregister")
     \/ /\ Fault /\ UNCHANGED <<did, real>> /\ Goto("unregister_failed")
        /\ \/ UNCHANGED <<unit, link>>
           \/ unit' = NoProgram /\ link' = FALSE
  /\ UNCHANGED <<machineVars, active, timer, keys, installs>>

\* Whether the keys went away is not looked at.
Unregister ==
  /\ job.op \in {"uninstall", "unregister"} /\ job.pc \in {"unregister", "unregister_failed"}
  /\ \/ keys' = {} /\ Works
     \/ keys' \in SUBSET keys /\ Fault
  /\ Return(IF job.pc = "unregister" THEN "ok" ELSE "manager")
  /\ UNCHANGED <<machineVars, unit, link, active, timer, did, real>>

StatusOnWindows == windows /\ Call("status", "query")

\* One query tells all: the task's XML says whether it is enabled.
StatusTask ==
  /\ At("status", "query")
  /\ \/ /\ Works /\ Return("ok")
        /\ Says(IF unit = NoProgram THEN {}
                ELSE IF link THEN {"installed", "enabled", "running"} ELSE {"installed"})
     \/ Fault /\ UNCHANGED did /\ Return("ok")
     \/ Fault /\ UNCHANGED did /\ Return("manager")
  /\ UNCHANGED <<machineVars, stateVars, real>>

-----------------------------------------------------------------------------
LinuxSaysTooSoon(err) ==
  did' \cup (IF err \in {"ok", "enable", "reload"} THEN {"reloaded"} ELSE {})
       \cup (IF err = "ok" THEN {"enabled"} ELSE {})

\* The steps an installation prints when it has ended with err.
LinuxSays(err) ==
  did' \cup (IF err \in {"ok", "enable"} THEN {"reloaded"} ELSE {})
       \cup (IF err = "ok" THEN {"enabled"} ELSE {})

WindowsSays(err) == IF err = "ok" THEN {"created"} ELSE {}

-----------------------------------------------------------------------------
\* Around the commands.
Kill ==
  /\ job.op # "none" /\ Fault
  /\ unit' \in (IF job.pc = "write" THEN {unit, TornUnit} ELSE {unit})
  /\ Return("killed")
  /\ UNCHANGED <<machineVars, link, active, timer, keys, did, real>>

ServiceEnds ==
  /\ active # NoProgram
  /\ active' = NoProgram
  /\ UNCHANGED <<machineVars, unit, link, timer, keys, job, did, real, clean, installs, faults>>

\* The manager starts what is enabled.
Login ==
  /\ ~windows /\ job.op = "none"
  /\ active' = IF link THEN Startable ELSE NoProgram
  /\ UNCHANGED <<machineVars, unit, link, timer, keys, job, did, real, clean, installs, faults>>

ProgramsChange ==
  /\ job.op = "none"
  /\ bins' \in SUBSET Places
  /\ UNCHANGED <<windows, home, packaged, stateVars, job, did, real, clean, installs, faults>>

UserDisablesTask ==
  /\ windows /\ link /\ job.op = "none"
  /\ link' = FALSE
  /\ UNCHANGED <<machineVars, unit, active, timer, keys, job, did, real, clean, installs, faults>>

\* A machine that never had this version; perhaps the one of the timer.
Init ==
  /\ windows \in BOOLEAN /\ home \in BOOLEAN /\ packaged \in BOOLEAN
  /\ windows => home /\ ~packaged
  /\ bins \in SUBSET Places
  /\ unit = NoProgram /\ link = FALSE /\ active = NoProgram /\ keys = {}
  /\ timer \in IF windows \/ ~home THEN {{}} ELSE {{}, {"file"}, {"file", "enabled"}}
  /\ job = NoJob /\ did = {} /\ real = {} /\ clean = TRUE
  /\ installs = "none" /\ faults = 0

Begin ==
  \/ Install \/ UninstallOnLinux \/ StatusOnLinux
  \/ UninstallOnWindows \/ StatusOnWindows \/ RegisterCommand \/ UnregisterCommand

Linux ==
  \/ WriteUnit \/ RemoveTimer \/ Reload \/ Enable
  \/ DisableTimer("install", "timer_file") \/ DisableTimer("uninstall", "files")
  \/ Stop \/ Disable \/ RemoveFiles
  \/ StatusFiles \/ StatusEnabled \/ StatusActive

Windows ==
  \/ CreateTask \/ QueryTask \/ DeleteTask \/ Unregister \/ StatusTask
  \/ \E op \in {"install", "register"} :
       RegisterKey(op, "clsid", "clsid", "aumid") \/ RegisterKey(op, "aumid", "aumid", "end")

Next ==
  \/ Begin \/ Resolve \/ Linux \/ Windows
  \/ Kill \/ ServiceEnds \/ Login \/ ProgramsChange \/ UserDisablesTask

Spec == Init /\ [][Next]_vars

-----------------------------------------------------------------------------
Finished(op) == job.op = op /\ job' = NoJob

\* Types; on Windows nothing of systemd, elsewhere nothing of the registry,
\* and without a home nothing of the user's.
TypeOK ==
  /\ bins \subseteq Places /\ {unit, active} \subseteq Places \cup {NoProgram, TornUnit}
  /\ active # TornUnit /\ link \in BOOLEAN
  /\ IF windows THEN timer = {} /\ active = NoProgram /\ unit # TornUnit ELSE keys = {}
  /\ ~home => unit = NoProgram /\ ~link /\ timer = {}
  /\ timer \subseteq {"file", "enabled"} /\ keys \subseteq {"clsid", "aumid"}
  /\ job.op = "none" => job = NoJob

(***************************************************************************)
(* An installation that reports success has registered the program it      *)
(* found, enabled, and the service runs; whatever earlier commands left    *)
(* half done.  The old timer, which would announce everything a second     *)
(* time, is still on, or the Stop button not served, only if a call to     *)
(* that end failed.                                                        *)
(***************************************************************************)
InstallWorks ==
  [][Finished("install") /\ installs' = "ok" =>
       /\ unit' = job.prog /\ unit' \in bins /\ link'
       /\ windows \/ active' # NoProgram
       /\ clean' => ~TimerEnabled' /\ (windows => keys' = {"clsid", "aumid"})]_vars

(***************************************************************************)
(* An uninstallation none of whose calls fails removes everything an       *)
(* installation, or part of one, or part of an uninstallation can have     *)
(* left: nothing runs, nothing starts at the next login.  A distribution's *)
(* own unit stays, stopped and disabled.                                   *)
(***************************************************************************)
UninstallRemoves ==
  [][Finished("uninstall") /\ clean' =>
       /\ unit' = NoProgram /\ active' = NoProgram /\ ~(link /\ UnitFound)'
       /\ "file" \notin timer' /\ keys' = {}]_vars

(***************************************************************************)
(* The unit is not replaced atomically, but one cut short is never left    *)
(* unnoticed: the last installation failed there or was killed.            *)
(***************************************************************************)
TornUnitNoticed ==
  unit = TornUnit /\ job.op # "install" => installs \in {"unit", "killed", "no_binary"}

Printed == IF windows THEN WindowsSays(installs') ELSE LinuxSays(installs')

(***************************************************************************)
(* What an installation prints and returns is what has happened, also when *)
(* it ends half way ("shows how far the call got"); an uninstallation is   *)
(* right about the files, and about stopping and disabling if no call      *)
(* failed.  The timer is reported off when disabling it was tried.         *)
(***************************************************************************)
ReportsTrue ==
  [][/\ Finished("install") /\ installs' # "killed" =>
          /\ Printed \subseteq real' \cup (IF clean' THEN {} ELSE {"timer"})
          /\ windows \/ real' \subseteq Printed
     /\ Finished("uninstall") =>
          did' \subseteq real' \cup (IF clean' THEN {} ELSE {"timer", "stopped", "disabled"})]_vars

(***************************************************************************)
(* The three answers of "daemon status" never contradict each other, nor,  *)
(* if all its questions were answered, is a service denied that is there:  *)
(* wherever its unit lies, and if it runs on without one.                  *)
(***************************************************************************)
StatusConsistent ==
  [][Finished("status") /\ "installed" \notin did' =>
       did' = {} /\ (clean' => ~UnitFound' /\ active' = NoProgram)]_vars
=============================================================================
