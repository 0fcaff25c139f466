---------------------------- MODULE ServiceProofs ----------------------------
(***************************************************************************)
(* Theorems about installing, removing and asking after the service, for   *)
(* any places of the program and any number of faults.                     *)
(***************************************************************************)
EXTENDS Service, WellFoundedInduction, TLAPS

\* What TypeOK leaves out: the machine, the command at work, ...
MachineOK == windows => home /\ ~packaged

Stages ==
  {"idle", "resolve", "create", "clsid", "aumid", "write", "timer?", "timer_file", "reload", "enable",
   "query", "delete", "unregister", "unregister_failed", "active?", "enabled?", "files", "installed?"}

JobOK ==
  job \in [op : {"none", "install", "uninstall", "status", "register", "unregister"},
           pc : Stages, prog : Places \cup {NoProgram}]

\* ... and the stages it goes through, by platform.
StagesOK ==
  /\ job.op = "install" /\ windows => job.pc \in {"resolve", "create", "clsid", "aumid"}
  /\ job.op = "install" /\ ~windows =>
       job.pc \in {"resolve", "write", "timer?", "timer_file", "reload", "enable"}
  /\ job.op = "uninstall" /\ windows =>
       job.pc \in {"query", "delete", "unregister", "unregister_failed"}
  /\ job.op = "uninstall" /\ ~windows => job.pc \in {"active?", "enabled?", "timer?", "files"}
  /\ job.op = "status" /\ windows => job.pc = "query"
  /\ job.op = "status" /\ ~windows => job.pc \in {"installed?", "enabled?", "active?"}
  /\ job.op = "register" => windows /\ job.pc \in {"clsid", "aumid"}
  /\ job.op = "unregister" => windows /\ job.pc = "unregister"

\* How far an installation has come: the program is there, the unit or task
\* names it, and unless a call failed the old timer is off and the keys set.
InstallInv ==
  job.op = "install" /\ job.pc # "resolve" =>
    /\ home /\ job.prog \in bins
    /\ job.pc \notin {"write", "create"} => unit = job.prog
    /\ job.pc \in {"clsid", "aumid"} => link
    /\ clean /\ job.pc \in {"timer_file", "reload", "enable"} => ~TimerEnabled
    /\ clean /\ job.pc = "aumid" => "clsid" \in keys

\* How far an uninstallation has come, unless a call failed.
UninstallInv ==
  job.op = "uninstall" /\ clean =>
    /\ job.pc \in {"enabled?", "timer?", "files"} => active = NoProgram
    /\ job.pc \in {"timer?", "files"} => ~(link /\ UnitFound)
    /\ job.pc = "unregister" => unit = NoProgram
    /\ job.pc # "unregister_failed"

\* The steps a command may say it made and has not.
Doubt(steps) == IF clean THEN {} ELSE steps

\* What is said against what was done, stage by stage.
SaysInv ==
  /\ job.op = "install" /\ job.pc \in {"resolve", "write", "create"} => did = {} /\ real = {}
  /\ job.op = "install" /\ job.pc \in {"clsid", "aumid"} => did = {} /\ real = {"created"}
  /\ job.op = "install" /\ job.pc = "timer?" => did = real
  /\ job.op = "install" /\ job.pc \in {"timer_file", "reload"} =>
       did \subseteq real \cup Doubt({"timer"}) /\ real \subseteq did
  /\ job.op = "install" /\ job.pc = "enable" =>
       /\ did \cup {"reloaded"} \subseteq real \cup Doubt({"timer"})
       /\ real \subseteq did \cup {"reloaded"}
  /\ job.op = "uninstall" => did \subseteq real \cup Doubt({"timer", "stopped", "disabled"})
  /\ job.op = "status" =>
       /\ job.pc \in {"query", "installed?"} => did = {}
       /\ job.pc \in {"enabled?", "active?"} =>
            /\ did \subseteq {"installed", "enabled"}
            /\ "installed" \in did <=> UnitFound
            /\ "enabled" \in did => "installed" \in did

IInv ==
  /\ TypeOK /\ MachineOK /\ JobOK /\ StagesOK
  /\ InstallInv /\ UninstallInv /\ SaysInv /\ TornUnitNoticed




-----------------------------------------------------------------------------
\* The first candidate is a candidate: a set of numbers has a least one.
Less == {ss \in Nat \X Nat : ss[1] < ss[2]}

LEMMA LessWellFounded == IsWellFoundedOn(Less, Nat)
<1>1. OpToRel(<, Nat) = Less
  BY Zenon DEF OpToRel, Less
<1> QED BY <1>1, NatLessThanWellFounded, Zenon

LEMMA FirstFound == bins \subseteq Places /\ bins # {} => FindBinary \in bins
<1> SUFFICES ASSUME bins \subseteq Places, bins # {} PROVE FindBinary \in bins
  OBVIOUS
<1>1. bins \subseteq Nat
  BY PlacesAssumption
<1>2. PICK x \in bins : \A y \in bins : <<y, x>> \notin Less
  BY <1>1, LessWellFounded, WFMin
<1>3. ASSUME NEW y \in bins PROVE x <= y
  <2>1. x \in Nat /\ y \in Nat /\ <<y, x>> \notin Less
    BY <1>1, <1>2
  <2>2. ~(y < x)
    BY <2>1 DEF Less
  <2> QED BY <2>1, <2>2
<1> QED BY <1>3 DEF FindBinary, Min

\* What systemd starts is a program that is there, or nothing.
LEMMA Starts == Startable \in bins \cup {NoProgram}
BY DEF Startable

\* The tags of the model are no places.
LEMMA Tags == NoProgram \notin Places /\ TornUnit \notin Places /\ NoProgram # TornUnit
BY PlacesAssumption DEF NoProgram, TornUnit

LEMMA InitInv == Init => IInv
<1> SUFFICES ASSUME Init PROVE IInv
  OBVIOUS
<1> USE Tags DEF Init, NoJob
<1>1. TypeOK /\ MachineOK /\ TornUnitNoticed
  BY DEF TypeOK, MachineOK, TornUnitNoticed
<1>2. JobOK /\ StagesOK
  BY DEF JobOK, StagesOK, Stages
<1>3. InstallInv /\ UninstallInv /\ SaysInv
  BY DEF InstallInv, UninstallInv, SaysInv
<1> QED BY <1>1, <1>2, <1>3 DEF IInv

\* An installation that finds no program or no home has ended; the others
\* go on with a program that is there.
LEMMA ResolveMoves ==
  ASSUME TypeOK, JobOK, Resolve
  PROVE  /\ UNCHANGED <<machineVars, stateVars, did, real, clean, faults>>
         /\ \/ job' = NoJob
            \/ /\ home /\ FindBinary \in bins
               /\ job'.op = "install" /\ job'.prog = FindBinary
               /\ job'.pc = IF windows THEN "create" ELSE "write"
<1>1. UNCHANGED <<machineVars, stateVars, did, real, clean, faults>>
  BY DEF Resolve
<1>2. CASE bins = {} \/ ~home
  BY <1>2 DEF Resolve, Return
<1>3. CASE bins # {} /\ home
  <2>1. FindBinary \in bins
    BY <1>3, FirstFound DEF TypeOK
  <2>2. job' = [job EXCEPT !.prog = FindBinary, !.pc = IF windows THEN "create" ELSE "write"]
    BY <1>3 DEF Resolve
  <2>3. job.op = "install"
    BY DEF Resolve, At
  <2> HIDE DEF FindBinary
  <2>4. /\ job'.op = "install" /\ job'.prog = FindBinary
        /\ job'.pc = IF windows THEN "create" ELSE "write"
    <3>1. CASE windows
      <4>1. job' = [job EXCEPT !.prog = FindBinary, !.pc = "create"]
        BY <2>2, <3>1
      <4>2. job'.op = job.op /\ job'.pc = "create" /\ job'.prog = FindBinary
        BY <4>1 DEF JobOK
      <4> QED BY <4>2, <2>3, <3>1
    <3>2. CASE ~windows
      <4>1. job' = [job EXCEPT !.prog = FindBinary, !.pc = "write"]
        BY <2>2, <3>2
      <4>2. job'.op = job.op /\ job'.pc = "write" /\ job'.prog = FindBinary
        BY <4>1 DEF JobOK
      <4> QED BY <4>2, <2>3, <3>2
    <3> QED BY <3>1, <3>2
  <2> QED BY <1>1, <1>3, <2>1, <2>4
<1> QED BY <1>1, <1>2, <1>3

\* Enabling is the last stage, whatever comes of it.
LEMMA EnableEnds == Enable => job' = NoJob /\ job.op = "install"
BY DEF Enable, Return, At

LEMMA TypeStep ==
  ASSUME TypeOK, MachineOK, JobOK, StagesOK, InstallInv, [Next]_vars
  PROVE  TypeOK'
<1> USE Tags DEF TypeOK, MachineOK, JobOK, StagesOK, InstallInv, At, Goto, Says, Does, Works, Fault, Return, Call, NoJob, machineVars, stateVars
<1>1. CASE Install
  BY <1>1 DEF Install
<1>2. CASE UninstallOnLinux
  BY <1>2 DEF UninstallOnLinux
<1>3. CASE StatusOnLinux
  BY <1>3 DEF StatusOnLinux
<1>4. CASE UninstallOnWindows
  BY <1>4 DEF UninstallOnWindows
<1>5. CASE StatusOnWindows
  BY <1>5 DEF StatusOnWindows
<1>6. CASE RegisterCommand
  BY <1>6 DEF RegisterCommand
<1>7. CASE UnregisterCommand
  BY <1>7 DEF UnregisterCommand
<1>8. CASE Resolve
  BY <1>8, FirstFound DEF Resolve
<1>9. CASE WriteUnit
  BY <1>9 DEF WriteUnit
<1>10. CASE RemoveTimer
  BY <1>10 DEF RemoveTimer
<1>11. CASE Reload
  BY <1>11 DEF Reload
<1>12. CASE Enable
  BY <1>12, Starts DEF Enable
<1>13. CASE DisableTimer("install", "timer_file")
  BY <1>13 DEF DisableTimer
<1>14. CASE DisableTimer("uninstall", "files")
  BY <1>14 DEF DisableTimer
<1>15. CASE Stop
  BY <1>15 DEF Stop
<1>16. CASE Disable
  <2>1. link' = link \/ link' = FALSE
    BY <1>16 DEF Disable
  <2>2. UNCHANGED <<windows, home, packaged, bins, unit, active, timer, keys>> /\ job'.op = "uninstall"
    BY <1>16 DEF Disable
  <2>3. job.op = "uninstall"
    BY <1>16 DEF Disable
  <2>4. job'.op # "none" /\ link' \in BOOLEAN
    BY <2>1, <2>2
  <2> QED BY <2>1, <2>2, <2>3, <2>4
<1>17. CASE RemoveFiles
  BY <1>17 DEF RemoveFiles
<1>18. CASE StatusFiles
  BY <1>18 DEF StatusFiles
<1>19. CASE StatusEnabled
  BY <1>19 DEF StatusEnabled
<1>20. CASE StatusActive
  BY <1>20 DEF StatusActive
<1>21. CASE CreateTask
  BY <1>21 DEF CreateTask
<1>22. CASE QueryTask
  BY <1>22 DEF QueryTask
<1>23. CASE DeleteTask
  BY <1>23 DEF DeleteTask
<1>24. CASE Unregister
  BY <1>24 DEF Unregister
<1>25. CASE StatusTask
  BY <1>25 DEF StatusTask
<1>26. CASE \E op \in {"install", "register"} : RegisterKey(op, "clsid", "clsid", "aumid")
  BY <1>26 DEF RegisterKey
<1>27. CASE \E op \in {"install", "register"} : RegisterKey(op, "aumid", "aumid", "end")
  BY <1>27 DEF RegisterKey
<1>28. CASE Kill
  BY <1>28 DEF Kill
<1>29. CASE ServiceEnds
  BY <1>29 DEF ServiceEnds
<1>30. CASE Login
  BY <1>30, Starts DEF Login
<1>31. CASE ProgramsChange
  BY <1>31 DEF ProgramsChange
<1>32. CASE UserDisablesTask
  BY <1>32 DEF UserDisablesTask
<1>33. CASE UNCHANGED vars
  BY <1>33 DEF vars
<1> QED
  BY <1>1, <1>2, <1>3, <1>4, <1>5, <1>6, <1>7, <1>8, <1>9, <1>10, <1>11, <1>12, <1>13, <1>14,
     <1>15, <1>16, <1>17, <1>18, <1>19, <1>20, <1>21, <1>22, <1>23, <1>24, <1>25, <1>26, <1>27, <1>28,
     <1>29, <1>30, <1>31, <1>32, <1>33
     DEF Next, Begin, Linux, Windows

LEMMA MachineStep ==
  ASSUME MachineOK, [Next]_vars
  PROVE  MachineOK'
<1>1. UNCHANGED <<windows, home, packaged>>
  BY DEF Next, Begin, Linux, Windows, Install, UninstallOnLinux, StatusOnLinux, UninstallOnWindows,
    StatusOnWindows, RegisterCommand, UnregisterCommand, Call, Resolve, WriteUnit, RemoveTimer, Reload,
    Enable, DisableTimer, Stop, Disable, RemoveFiles, StatusFiles, StatusEnabled, StatusActive,
    CreateTask, QueryTask, DeleteTask, Unregister, StatusTask, RegisterKey, Kill, ServiceEnds, Login,
    ProgramsChange, UserDisablesTask, vars, machineVars
<1> QED BY <1>1 DEF MachineOK

LEMMA JobStep ==
  ASSUME TypeOK, JobOK, [Next]_vars
  PROVE  JobOK'
<1> USE DEF TypeOK, JobOK, Stages, At, Goto, Says, Does, Works, Fault, Return, Call, NoJob, machineVars, stateVars
<1>1. CASE Install
  BY <1>1 DEF Install
<1>2. CASE UninstallOnLinux
  BY <1>2 DEF UninstallOnLinux
<1>3. CASE StatusOnLinux
  BY <1>3 DEF StatusOnLinux
<1>4. CASE UninstallOnWindows
  BY <1>4 DEF UninstallOnWindows
<1>5. CASE StatusOnWindows
  BY <1>5 DEF StatusOnWindows
<1>6. CASE RegisterCommand
  BY <1>6 DEF RegisterCommand
<1>7. CASE UnregisterCommand
  BY <1>7 DEF UnregisterCommand
<1>8. CASE Resolve
  <2>1. bins # {} /\ home => FindBinary \in Places
    BY <1>8, FirstFound DEF TypeOK
  <2>2. job' = NoJob \/ \E q \in Places, c \in {"create", "write"} : job' = [job EXCEPT !.prog = q, !.pc = c]
    BY <1>8, <2>1 DEF Resolve
  <2>3. ASSUME NEW q \in Places, NEW c \in {"create", "write"}, job' = [job EXCEPT !.prog = q, !.pc = c]
        PROVE  JobOK'
    BY <2>3
  <2>4. CASE job' = NoJob
    BY <2>4
  <2> QED BY <2>2, <2>3, <2>4
<1>9. CASE WriteUnit
  BY <1>9 DEF WriteUnit
<1>10. CASE RemoveTimer
  BY <1>10 DEF RemoveTimer
<1>11. CASE Reload
  BY <1>11 DEF Reload
<1>12. CASE Enable
  <2>1. job' = NoJob
    BY <1>12 DEF Enable
  <2> QED BY <2>1
<1>13. CASE DisableTimer("install", "timer_file")
  BY <1>13 DEF DisableTimer
<1>14. CASE DisableTimer("uninstall", "files")
  BY <1>14 DEF DisableTimer
<1>15. CASE Stop
  BY <1>15 DEF Stop
<1>16. CASE Disable
  BY <1>16 DEF Disable
<1>17. CASE RemoveFiles
  BY <1>17 DEF RemoveFiles
<1>18. CASE StatusFiles
  BY <1>18 DEF StatusFiles
<1>19. CASE StatusEnabled
  BY <1>19 DEF StatusEnabled
<1>20. CASE StatusActive
  BY <1>20 DEF StatusActive
<1>21. CASE CreateTask
  BY <1>21 DEF CreateTask
<1>22. CASE QueryTask
  BY <1>22 DEF QueryTask
<1>23. CASE DeleteTask
  BY <1>23 DEF DeleteTask
<1>24. CASE Unregister
  BY <1>24 DEF Unregister
<1>25. CASE StatusTask
  BY <1>25 DEF StatusTask
<1>26. CASE \E op \in {"install", "register"} : RegisterKey(op, "clsid", "clsid", "aumid")
  BY <1>26 DEF RegisterKey
<1>27. CASE \E op \in {"install", "register"} : RegisterKey(op, "aumid", "aumid", "end")
  BY <1>27 DEF RegisterKey
<1>28. CASE Kill
  BY <1>28 DEF Kill
<1>29. CASE ServiceEnds
  BY <1>29 DEF ServiceEnds
<1>30. CASE Login
  BY <1>30 DEF Login
<1>31. CASE ProgramsChange
  BY <1>31 DEF ProgramsChange
<1>32. CASE UserDisablesTask
  BY <1>32 DEF UserDisablesTask
<1>33. CASE UNCHANGED vars
  BY <1>33 DEF vars
<1> QED
  BY <1>1, <1>2, <1>3, <1>4, <1>5, <1>6, <1>7, <1>8, <1>9, <1>10, <1>11, <1>12, <1>13, <1>14,
     <1>15, <1>16, <1>17, <1>18, <1>19, <1>20, <1>21, <1>22, <1>23, <1>24, <1>25, <1>26, <1>27, <1>28,
     <1>29, <1>30, <1>31, <1>32, <1>33
     DEF Next, Begin, Linux, Windows

LEMMA StagesStep ==
  ASSUME JobOK, StagesOK, [Next]_vars
  PROVE  StagesOK'
<1> USE DEF JobOK, StagesOK, At, Goto, Says, Does, Works, Fault, Return, Call, NoJob, machineVars, stateVars
<1>1. CASE Install
  BY <1>1 DEF Install
<1>2. CASE UninstallOnLinux
  BY <1>2 DEF UninstallOnLinux
<1>3. CASE StatusOnLinux
  BY <1>3 DEF StatusOnLinux
<1>4. CASE UninstallOnWindows
  BY <1>4 DEF UninstallOnWindows
<1>5. CASE StatusOnWindows
  BY <1>5 DEF StatusOnWindows
<1>6. CASE RegisterCommand
  BY <1>6 DEF RegisterCommand
<1>7. CASE UnregisterCommand
  BY <1>7 DEF UnregisterCommand
<1>8. CASE Resolve
  <2>1. /\ job.op = "install" /\ windows' = windows
        /\ \/ job' = NoJob
           \/ /\ job'.op = job.op
              /\ job'.pc = IF windows THEN "create" ELSE "write"
    BY <1>8 DEF Resolve
  <2> QED BY <2>1
<1>9. CASE WriteUnit
  BY <1>9 DEF WriteUnit
<1>10. CASE RemoveTimer
  BY <1>10 DEF RemoveTimer
<1>11. CASE Reload
  BY <1>11 DEF Reload
<1>12. CASE Enable
  <2>1. job' = NoJob
    BY <1>12 DEF Enable
  <2> QED BY <2>1
<1>13. CASE DisableTimer("install", "timer_file")
  BY <1>13 DEF DisableTimer
<1>14. CASE DisableTimer("uninstall", "files")
  BY <1>14 DEF DisableTimer
<1>15. CASE Stop
  BY <1>15 DEF Stop
<1>16. CASE Disable
  BY <1>16 DEF Disable
<1>17. CASE RemoveFiles
  BY <1>17 DEF RemoveFiles
<1>18. CASE StatusFiles
  BY <1>18 DEF StatusFiles
<1>19. CASE StatusEnabled
  BY <1>19 DEF StatusEnabled
<1>20. CASE StatusActive
  BY <1>20 DEF StatusActive
<1>21. CASE CreateTask
  BY <1>21 DEF CreateTask
<1>22. CASE QueryTask
  BY <1>22 DEF QueryTask
<1>23. CASE DeleteTask
  BY <1>23 DEF DeleteTask
<1>24. CASE Unregister
  BY <1>24 DEF Unregister
<1>25. CASE StatusTask
  BY <1>25 DEF StatusTask
<1>26. CASE \E op \in {"install", "register"} : RegisterKey(op, "clsid", "clsid", "aumid")
  BY <1>26 DEF RegisterKey
<1>27. CASE \E op \in {"install", "register"} : RegisterKey(op, "aumid", "aumid", "end")
  BY <1>27 DEF RegisterKey
<1>28. CASE Kill
  BY <1>28 DEF Kill
<1>29. CASE ServiceEnds
  BY <1>29 DEF ServiceEnds
<1>30. CASE Login
  BY <1>30 DEF Login
<1>31. CASE ProgramsChange
  BY <1>31 DEF ProgramsChange
<1>32. CASE UserDisablesTask
  BY <1>32 DEF UserDisablesTask
<1>33. CASE UNCHANGED vars
  BY <1>33 DEF vars
<1> QED
  BY <1>1, <1>2, <1>3, <1>4, <1>5, <1>6, <1>7, <1>8, <1>9, <1>10, <1>11, <1>12, <1>13, <1>14,
     <1>15, <1>16, <1>17, <1>18, <1>19, <1>20, <1>21, <1>22, <1>23, <1>24, <1>25, <1>26, <1>27, <1>28,
     <1>29, <1>30, <1>31, <1>32, <1>33
     DEF Next, Begin, Linux, Windows

LEMMA TornStep ==
  ASSUME TypeOK, MachineOK, JobOK, StagesOK, InstallInv, TornUnitNoticed, [Next]_vars
  PROVE  TornUnitNoticed'
<1> USE Tags DEF TypeOK, JobOK, StagesOK, InstallInv, TornUnitNoticed, At, Goto, Says, Does, Works, Fault, Return, Call, NoJob, machineVars, stateVars
<1>1. CASE Install
  BY <1>1 DEF Install
<1>2. CASE UninstallOnLinux
  BY <1>2 DEF UninstallOnLinux
<1>3. CASE StatusOnLinux
  BY <1>3 DEF StatusOnLinux
<1>4. CASE UninstallOnWindows
  BY <1>4 DEF UninstallOnWindows
<1>5. CASE StatusOnWindows
  BY <1>5 DEF StatusOnWindows
<1>6. CASE RegisterCommand
  BY <1>6 DEF RegisterCommand
<1>7. CASE UnregisterCommand
  BY <1>7 DEF UnregisterCommand
<1>8. CASE Resolve
  BY <1>8 DEF Resolve
<1>9. CASE WriteUnit
  BY <1>9 DEF WriteUnit
<1>10. CASE RemoveTimer
  BY <1>10 DEF RemoveTimer
<1>11. CASE Reload
  BY <1>11 DEF Reload
<1>12. CASE Enable
  BY <1>12 DEF Enable
<1>13. CASE DisableTimer("install", "timer_file")
  BY <1>13 DEF DisableTimer
<1>14. CASE DisableTimer("uninstall", "files")
  BY <1>14 DEF DisableTimer
<1>15. CASE Stop
  BY <1>15 DEF Stop
<1>16. CASE Disable
  BY <1>16 DEF Disable
<1>17. CASE RemoveFiles
  BY <1>17 DEF RemoveFiles
<1>18. CASE StatusFiles
  BY <1>18 DEF StatusFiles
<1>19. CASE StatusEnabled
  BY <1>19 DEF StatusEnabled
<1>20. CASE StatusActive
  BY <1>20 DEF StatusActive
<1>21. CASE CreateTask
  BY <1>21 DEF CreateTask
<1>22. CASE QueryTask
  BY <1>22 DEF QueryTask
<1>23. CASE DeleteTask
  BY <1>23 DEF DeleteTask
<1>24. CASE Unregister
  BY <1>24 DEF Unregister
<1>25. CASE StatusTask
  BY <1>25 DEF StatusTask
<1>26. CASE \E op \in {"install", "register"} : RegisterKey(op, "clsid", "clsid", "aumid")
  BY <1>26 DEF RegisterKey
<1>27. CASE \E op \in {"install", "register"} : RegisterKey(op, "aumid", "aumid", "end")
  BY <1>27 DEF RegisterKey
<1>28. CASE Kill
  BY <1>28 DEF Kill
<1>29. CASE ServiceEnds
  BY <1>29 DEF ServiceEnds
<1>30. CASE Login
  BY <1>30 DEF Login
<1>31. CASE ProgramsChange
  BY <1>31 DEF ProgramsChange
<1>32. CASE UserDisablesTask
  BY <1>32 DEF UserDisablesTask
<1>33. CASE UNCHANGED vars
  BY <1>33 DEF vars
<1> QED
  BY <1>1, <1>2, <1>3, <1>4, <1>5, <1>6, <1>7, <1>8, <1>9, <1>10, <1>11, <1>12, <1>13, <1>14,
     <1>15, <1>16, <1>17, <1>18, <1>19, <1>20, <1>21, <1>22, <1>23, <1>24, <1>25, <1>26, <1>27, <1>28,
     <1>29, <1>30, <1>31, <1>32, <1>33
     DEF Next, Begin, Linux, Windows

LEMMA InstallStep ==
  ASSUME TypeOK, MachineOK, JobOK, StagesOK, InstallInv, [Next]_vars
  PROVE  InstallInv'
<1> USE DEF TypeOK, MachineOK, JobOK, StagesOK, InstallInv, TimerEnabled, At, Goto, Says, Does, Works, Fault, Return, Call, NoJob, machineVars, stateVars
<1>1. CASE Install
  BY <1>1 DEF Install
<1>2. CASE UninstallOnLinux
  BY <1>2 DEF UninstallOnLinux
<1>3. CASE StatusOnLinux
  BY <1>3 DEF StatusOnLinux
<1>4. CASE UninstallOnWindows
  BY <1>4 DEF UninstallOnWindows
<1>5. CASE StatusOnWindows
  BY <1>5 DEF StatusOnWindows
<1>6. CASE RegisterCommand
  BY <1>6 DEF RegisterCommand
<1>7. CASE UnregisterCommand
  BY <1>7 DEF UnregisterCommand
<1>8. CASE Resolve
  BY <1>8, ResolveMoves
<1>9. CASE WriteUnit
  BY <1>9 DEF WriteUnit
<1>10. CASE RemoveTimer
  BY <1>10 DEF RemoveTimer
<1>11. CASE Reload
  BY <1>11 DEF Reload
<1>12. CASE Enable
  BY <1>12, EnableEnds
<1>13. CASE DisableTimer("install", "timer_file")
  BY <1>13 DEF DisableTimer
<1>14. CASE DisableTimer("uninstall", "files")
  BY <1>14 DEF DisableTimer
<1>15. CASE Stop
  BY <1>15 DEF Stop
<1>16. CASE Disable
  BY <1>16 DEF Disable
<1>17. CASE RemoveFiles
  BY <1>17 DEF RemoveFiles
<1>18. CASE StatusFiles
  BY <1>18 DEF StatusFiles
<1>19. CASE StatusEnabled
  BY <1>19 DEF StatusEnabled
<1>20. CASE StatusActive
  BY <1>20 DEF StatusActive
<1>21. CASE CreateTask
  BY <1>21 DEF CreateTask
<1>22. CASE QueryTask
  BY <1>22 DEF QueryTask
<1>23. CASE DeleteTask
  BY <1>23 DEF DeleteTask
<1>24. CASE Unregister
  BY <1>24 DEF Unregister
<1>25. CASE StatusTask
  BY <1>25 DEF StatusTask
<1>26. CASE \E op \in {"install", "register"} : RegisterKey(op, "clsid", "clsid", "aumid")
  BY <1>26 DEF RegisterKey
<1>27. CASE \E op \in {"install", "register"} : RegisterKey(op, "aumid", "aumid", "end")
  BY <1>27 DEF RegisterKey
<1>28. CASE Kill
  BY <1>28 DEF Kill
<1>29. CASE ServiceEnds
  BY <1>29 DEF ServiceEnds
<1>30. CASE Login
  BY <1>30 DEF Login
<1>31. CASE ProgramsChange
  BY <1>31 DEF ProgramsChange
<1>32. CASE UserDisablesTask
  BY <1>32 DEF UserDisablesTask
<1>33. CASE UNCHANGED vars
  BY <1>33 DEF vars
<1> QED
  BY <1>1, <1>2, <1>3, <1>4, <1>5, <1>6, <1>7, <1>8, <1>9, <1>10, <1>11, <1>12, <1>13, <1>14,
     <1>15, <1>16, <1>17, <1>18, <1>19, <1>20, <1>21, <1>22, <1>23, <1>24, <1>25, <1>26, <1>27, <1>28,
     <1>29, <1>30, <1>31, <1>32, <1>33
     DEF Next, Begin, Linux, Windows

LEMMA UninstallStep ==
  ASSUME TypeOK, MachineOK, JobOK, StagesOK, UninstallInv, [Next]_vars
  PROVE  UninstallInv'
<1> USE DEF TypeOK, MachineOK, JobOK, StagesOK, UninstallInv, UnitFound, At, Goto, Says, Does, Works, Fault, Return, Call, NoJob, machineVars, stateVars
<1>1. CASE Install
  BY <1>1 DEF Install
<1>2. CASE UninstallOnLinux
  BY <1>2 DEF UninstallOnLinux
<1>3. CASE StatusOnLinux
  BY <1>3 DEF StatusOnLinux
<1>4. CASE UninstallOnWindows
  BY <1>4 DEF UninstallOnWindows
<1>5. CASE StatusOnWindows
  BY <1>5 DEF StatusOnWindows
<1>6. CASE RegisterCommand
  BY <1>6 DEF RegisterCommand
<1>7. CASE UnregisterCommand
  BY <1>7 DEF UnregisterCommand
<1>8. CASE Resolve
  <2>1. job'.op # "uninstall"
    BY <1>8, ResolveMoves DEF NoJob
  <2> QED BY <2>1
<1>9. CASE WriteUnit
  BY <1>9 DEF WriteUnit
<1>10. CASE RemoveTimer
  BY <1>10 DEF RemoveTimer
<1>11. CASE Reload
  BY <1>11 DEF Reload
<1>12. CASE Enable
  BY <1>12, EnableEnds
<1>13. CASE DisableTimer("install", "timer_file")
  BY <1>13 DEF DisableTimer
<1>14. CASE DisableTimer("uninstall", "files")
  BY <1>14 DEF DisableTimer
<1>15. CASE Stop
  BY <1>15 DEF Stop
<1>16. CASE Disable
  BY <1>16 DEF Disable, IsEnabled
<1>17. CASE RemoveFiles
  <2>1. job' = NoJob
    BY <1>17 DEF RemoveFiles
  <2> QED BY <2>1
<1>18. CASE StatusFiles
  BY <1>18 DEF StatusFiles
<1>19. CASE StatusEnabled
  BY <1>19 DEF StatusEnabled
<1>20. CASE StatusActive
  BY <1>20 DEF StatusActive
<1>21. CASE CreateTask
  BY <1>21 DEF CreateTask
<1>22. CASE QueryTask
  BY <1>22 DEF QueryTask
<1>23. CASE DeleteTask
  BY <1>23 DEF DeleteTask
<1>24. CASE Unregister
  BY <1>24 DEF Unregister
<1>25. CASE StatusTask
  BY <1>25 DEF StatusTask
<1>26. CASE \E op \in {"install", "register"} : RegisterKey(op, "clsid", "clsid", "aumid")
  BY <1>26 DEF RegisterKey
<1>27. CASE \E op \in {"install", "register"} : RegisterKey(op, "aumid", "aumid", "end")
  BY <1>27 DEF RegisterKey
<1>28. CASE Kill
  BY <1>28 DEF Kill
<1>29. CASE ServiceEnds
  BY <1>29 DEF ServiceEnds
<1>30. CASE Login
  BY <1>30 DEF Login
<1>31. CASE ProgramsChange
  BY <1>31 DEF ProgramsChange
<1>32. CASE UserDisablesTask
  BY <1>32 DEF UserDisablesTask
<1>33. CASE UNCHANGED vars
  BY <1>33 DEF vars
<1> QED
  BY <1>1, <1>2, <1>3, <1>4, <1>5, <1>6, <1>7, <1>8, <1>9, <1>10, <1>11, <1>12, <1>13, <1>14,
     <1>15, <1>16, <1>17, <1>18, <1>19, <1>20, <1>21, <1>22, <1>23, <1>24, <1>25, <1>26, <1>27, <1>28,
     <1>29, <1>30, <1>31, <1>32, <1>33
     DEF Next, Begin, Linux, Windows

LEMMA SaysStep ==
  ASSUME TypeOK, JobOK, StagesOK, SaysInv, [Next]_vars
  PROVE  SaysInv'
<1> USE DEF TypeOK, JobOK, StagesOK, SaysInv, Doubt, UnitFound, At, Goto, Says, Does, Works, Fault, Return, Call, NoJob, machineVars, stateVars
<1>1. CASE Install
  BY <1>1 DEF Install
<1>2. CASE UninstallOnLinux
  BY <1>2 DEF UninstallOnLinux
<1>3. CASE StatusOnLinux
  BY <1>3 DEF StatusOnLinux
<1>4. CASE UninstallOnWindows
  BY <1>4 DEF UninstallOnWindows
<1>5. CASE StatusOnWindows
  BY <1>5 DEF StatusOnWindows
<1>6. CASE RegisterCommand
  BY <1>6 DEF RegisterCommand
<1>7. CASE UnregisterCommand
  BY <1>7 DEF UnregisterCommand
<1>8. CASE Resolve
  <2>1. did = {} /\ real = {} /\ did' = did /\ real' = real
    BY <1>8, ResolveMoves DEF Resolve
  <2>2. \/ job'.op = "none"
        \/ job'.op = "install" /\ job'.pc \in {"create", "write"}
    BY <1>8, ResolveMoves DEF NoJob
  <2> QED BY <2>1, <2>2
<1>9. CASE WriteUnit
  BY <1>9 DEF WriteUnit
<1>10. CASE RemoveTimer
  BY <1>10 DEF RemoveTimer
<1>11. CASE Reload
  BY <1>11 DEF Reload
<1>12. CASE Enable
  BY <1>12, EnableEnds
<1>13. CASE DisableTimer("install", "timer_file")
  BY <1>13 DEF DisableTimer
<1>14. CASE DisableTimer("uninstall", "files")
  BY <1>14 DEF DisableTimer
<1>15. CASE Stop
  BY <1>15 DEF Stop
<1>16. CASE Disable
  BY <1>16 DEF Disable
<1>17. CASE RemoveFiles
  BY <1>17 DEF RemoveFiles
<1>18. CASE StatusFiles
  BY <1>18 DEF StatusFiles
<1>19. CASE StatusEnabled
  <2>1. /\ job.op = "status" /\ job.pc = "enabled?" /\ job'.op = "status" /\ job'.pc = "active?"
        /\ UNCHANGED <<machineVars, stateVars>>
    BY <1>19 DEF StatusEnabled
  <2>2. did' = did \/ (did' = did \cup {"enabled"} /\ UnitFound)
    <3>1. ASSUME NEW yes \in IsEnabled, yes
          PROVE  UnitFound
      <4>1. CASE unit = TornUnit
        BY <4>1, Tags
      <4>2. CASE unit # TornUnit
        BY <3>1, <4>2, Zenon DEF IsEnabled
      <4> QED BY <4>1, <4>2
    <3>2. \/ \E yes \in IsEnabled : did' = did \cup (IF yes THEN {"enabled"} ELSE {})
          \/ did' = did
      BY <1>19 DEF StatusEnabled
    <3> QED BY <3>1, <3>2
  <2> QED BY <2>1, <2>2
<1>20. CASE StatusActive
  BY <1>20 DEF StatusActive
<1>21. CASE CreateTask
  BY <1>21 DEF CreateTask
<1>22. CASE QueryTask
  BY <1>22 DEF QueryTask
<1>23. CASE DeleteTask
  BY <1>23 DEF DeleteTask
<1>24. CASE Unregister
  BY <1>24 DEF Unregister
<1>25. CASE StatusTask
  BY <1>25 DEF StatusTask
<1>26. CASE \E op \in {"install", "register"} : RegisterKey(op, "clsid", "clsid", "aumid")
  BY <1>26 DEF RegisterKey
<1>27. CASE \E op \in {"install", "register"} : RegisterKey(op, "aumid", "aumid", "end")
  BY <1>27 DEF RegisterKey
<1>28. CASE Kill
  BY <1>28 DEF Kill
<1>29. CASE ServiceEnds
  BY <1>29 DEF ServiceEnds
<1>30. CASE Login
  BY <1>30 DEF Login
<1>31. CASE ProgramsChange
  BY <1>31 DEF ProgramsChange
<1>32. CASE UserDisablesTask
  BY <1>32 DEF UserDisablesTask
<1>33. CASE UNCHANGED vars
  BY <1>33 DEF vars
<1> QED
  BY <1>1, <1>2, <1>3, <1>4, <1>5, <1>6, <1>7, <1>8, <1>9, <1>10, <1>11, <1>12, <1>13, <1>14,
     <1>15, <1>16, <1>17, <1>18, <1>19, <1>20, <1>21, <1>22, <1>23, <1>24, <1>25, <1>26, <1>27, <1>28,
     <1>29, <1>30, <1>31, <1>32, <1>33
     DEF Next, Begin, Linux, Windows

-----------------------------------------------------------------------------
(***************************************************************************)
(* The inductive invariant: types, the command at work and its stages, how *)
(* far it has come, what it has said and done, and the torn unit.          *)
(***************************************************************************)
THEOREM Inductive == Spec => []IInv
<1>1. Init => IInv
  BY InitInv
<1>2. IInv /\ [Next]_vars => IInv'
  BY TypeStep, MachineStep, JobStep, StagesStep, InstallStep, UninstallStep, SaysStep, TornStep
     DEF IInv
<1> QED BY <1>1, <1>2, PTL DEF Spec

(***************************************************************************)
(* Types; on Windows nothing of systemd, elsewhere nothing of the registry,*)
(* and without a home nothing of the user's.                               *)
(***************************************************************************)
THEOREM TypeCorrect == Spec => []TypeOK
<1>1. IInv => TypeOK
  BY DEF IInv
<1> QED BY <1>1, Inductive, PTL

(***************************************************************************)
(* A unit cut short is never left unnoticed, by any row of installations   *)
(* and uninstallations, failing calls and kills.                           *)
(***************************************************************************)
THEOREM NoTornUnitUnnoticed == Spec => []TornUnitNoticed
<1>1. IInv => TornUnitNoticed
  BY DEF IInv
<1> QED BY <1>1, Inductive, PTL

\* The steps with which a command comes to its end.
LEMMA Ends ==
  ASSUME JobOK, [Next]_vars, job.op # "none", job' = NoJob
  PROVE  \/ Resolve \/ WriteUnit \/ Reload \/ Enable \/ RemoveFiles \/ StatusActive
         \/ CreateTask \/ QueryTask \/ Unregister \/ StatusTask \/ Kill
         \/ \E op \in {"install", "register"} :
              \/ RegisterKey(op, "clsid", "clsid", "aumid")
              \/ RegisterKey(op, "aumid", "aumid", "end")
<1>1. job'.op # job.op
  BY DEF NoJob
<1>2. ~Begin
  BY DEF Begin, Install, UninstallOnLinux, StatusOnLinux, UninstallOnWindows, StatusOnWindows,
         RegisterCommand, UnregisterCommand, Call
<1>3. ~(RemoveTimer \/ Stop \/ Disable \/ StatusFiles \/ StatusEnabled \/ DeleteTask)
  BY <1>1 DEF JobOK, Goto, RemoveTimer, Stop, Disable, StatusFiles, StatusEnabled, DeleteTask
<1>4. ~(DisableTimer("install", "timer_file") \/ DisableTimer("uninstall", "files"))
  BY <1>1 DEF JobOK, Goto, DisableTimer
<1>5. ~(ServiceEnds \/ Login \/ ProgramsChange \/ UserDisablesTask \/ UNCHANGED vars)
  BY <1>1 DEF ServiceEnds, Login, ProgramsChange, UserDisablesTask, vars
<1> HIDE DEF NoJob
<1> QED BY <1>2, <1>3, <1>4, <1>5 DEF Next, Linux, Windows

LEMMA InstallsOK ==
  ASSUME IInv, [Next]_vars, Finished("install"), installs' = "ok"
  PROVE  /\ unit' = job.prog /\ unit' \in bins /\ link'
         /\ windows \/ active' # NoProgram
         /\ clean' => ~TimerEnabled' /\ (windows => keys' = {"clsid", "aumid"})
<1> USE DEF Finished
<1>1. job.op = "install" /\ job' = NoJob
  OBVIOUS
<1>2. CASE Enable
  <2>1. /\ job.pc = "enable" /\ link' = TRUE /\ unit' = unit /\ timer' = timer /\ clean' = clean
        /\ active' = IF active = NoProgram THEN Startable ELSE active
    BY <1>1, <1>2 DEF Enable, Return, Works, At
  <2>2. ~windows /\ unit = job.prog /\ job.prog \in bins /\ (clean => ~TimerEnabled)
    BY <1>1, <2>1 DEF IInv, StagesOK, InstallInv
  <2>3. job.prog \in Places
    BY <2>2 DEF IInv, TypeOK
  <2>4. Startable = unit /\ unit # NoProgram
    BY <2>2, <2>3, Tags DEF Startable
  <2> QED BY <2>1, <2>2, <2>4 DEF TimerEnabled
<1>3. CASE RegisterKey("install", "aumid", "aumid", "end")
  <2>1. /\ job.pc = "aumid" /\ link' = link /\ unit' = unit /\ timer' = timer
        /\ clean' => clean /\ keys' = keys \cup {"aumid"}
    BY <1>1, <1>3 DEF RegisterKey, Works, Fault, At
  <2>2. windows /\ unit = job.prog /\ job.prog \in bins /\ link /\ (clean => "clsid" \in keys)
    BY <1>1, <2>1 DEF IInv, StagesOK, InstallInv
  <2>3. timer = {} /\ keys \subseteq {"clsid", "aumid"}
    BY <2>2 DEF IInv, TypeOK
  <2> QED BY <2>1, <2>2, <2>3 DEF TimerEnabled
<1>4. CASE RegisterKey("install", "clsid", "clsid", "aumid")
  <2>1. /\ job.pc = "clsid" /\ link' = link /\ unit' = unit /\ timer' = timer /\ ~clean'
    <3>1. job'.op = "none"
      BY <1>1 DEF NoJob
    <3> QED BY <1>1, <1>4, <3>1 DEF RegisterKey, Works, Fault, At, Goto, IInv, JobOK
  <2>2. windows /\ unit = job.prog /\ job.prog \in bins /\ link
    BY <1>1, <2>1 DEF IInv, StagesOK, InstallInv
  <2> QED BY <2>1, <2>2
<1>5. ~(Resolve \/ WriteUnit \/ Reload \/ CreateTask \/ Kill)
  <2>1. job'.op # "install"
    BY <1>1 DEF NoJob
  <2>2. job \in [op : {"none", "install", "uninstall", "status", "register", "unregister"},
                 pc : Stages, prog : Places \cup {NoProgram}]
    BY DEF IInv, JobOK
  <2> QED BY <1>1, <2>1, <2>2 DEF Resolve, WriteUnit, Reload, CreateTask, Kill, Return, Goto
<1>6. ~(RemoveFiles \/ StatusActive \/ QueryTask \/ Unregister \/ StatusTask)
  BY <1>1 DEF RemoveFiles, StatusActive, QueryTask, Unregister, StatusTask, At
<1>7. ~\E op \in {"register"} :
        RegisterKey(op, "clsid", "clsid", "aumid") \/ RegisterKey(op, "aumid", "aumid", "end")
  BY <1>1 DEF RegisterKey, At
<1> QED BY <1>1, <1>2, <1>3, <1>4, <1>5, <1>6, <1>7, Ends DEF IInv

(***************************************************************************)
(* An installation that reports success has done its work, whatever the    *)
(* commands before it left half done and however often they failed.        *)
(***************************************************************************)
THEOREM InstallationWorks == Spec => InstallWorks
<1>1. IInv /\ [Next]_vars =>
        [Finished("install") /\ installs' = "ok" =>
           /\ unit' = job.prog /\ unit' \in bins /\ link'
           /\ windows \/ active' # NoProgram
           /\ clean' => ~TimerEnabled' /\ (windows => keys' = {"clsid", "aumid"})]_vars
  BY InstallsOK
<1> QED BY <1>1, Inductive, PTL DEF Spec, InstallWorks

\* A step that ends an uninstallation.
LEMMA UninstallEnds ==
  ASSUME IInv, [Next]_vars, Finished("uninstall")
  PROVE  RemoveFiles \/ Unregister \/ QueryTask \/ Kill
<1>1. job.op = "uninstall" /\ job' = NoJob
  BY DEF Finished
<1>2. ~(Resolve \/ WriteUnit \/ Reload \/ Enable \/ StatusActive \/ CreateTask \/ StatusTask)
  BY <1>1 DEF Resolve, WriteUnit, Reload, Enable, StatusActive, CreateTask, StatusTask, At
<1>3. ~\E op \in {"install", "register"} :
         RegisterKey(op, "clsid", "clsid", "aumid") \/ RegisterKey(op, "aumid", "aumid", "end")
  BY <1>1 DEF RegisterKey, At
<1> QED BY <1>1, <1>2, <1>3, Ends DEF IInv

LEMMA UninstallsClean ==
  ASSUME IInv, [Next]_vars, Finished("uninstall"), clean'
  PROVE  /\ unit' = NoProgram /\ active' = NoProgram /\ ~(link /\ UnitFound)'
         /\ "file" \notin timer' /\ keys' = {}
<1>1. job.op = "uninstall" /\ job' = NoJob
  BY DEF Finished
<1>2. CASE RemoveFiles
  <2>1. /\ job.pc = "files" /\ UNCHANGED <<link, active, keys, packaged>>
    BY <1>2 DEF RemoveFiles, At, machineVars
  <2>2. /\ clean /\ ~windows /\ keys = {}
        /\ active = NoProgram /\ ~(link /\ UnitFound)
    <3>1. clean
      BY <1>2 DEF RemoveFiles, Works, Fault
    <3> QED BY <1>1, <2>1, <3>1 DEF IInv, StagesOK, UninstallInv, TypeOK
  <2>3. CASE home
    <3>1. unit' = NoProgram /\ timer' = timer \ {"file"}
      BY <1>2, <2>3 DEF RemoveFiles, Fault
    <3> QED BY <2>1, <2>2, <3>1 DEF UnitFound
  <2>4. CASE ~home
    <3>1. unit' = unit /\ timer' = timer /\ unit = NoProgram /\ ~link /\ timer = {}
      BY <1>2, <2>4 DEF RemoveFiles, IInv, TypeOK
    <3> QED BY <2>1, <2>2, <3>1
  <2> QED BY <2>3, <2>4
<1>3. CASE Unregister
  <2>1. /\ clean /\ keys' = {} /\ UNCHANGED <<unit, link, active, timer, packaged>>
        /\ job.pc \in {"unregister", "unregister_failed"}
    BY <1>3 DEF Unregister, Works, Fault, machineVars
  <2>2. windows /\ unit = NoProgram /\ timer = {} /\ active = NoProgram /\ ~packaged
    BY <1>1, <2>1 DEF IInv, StagesOK, UninstallInv, TypeOK, MachineOK
  <2> QED BY <2>1, <2>2 DEF UnitFound
<1>4. CASE QueryTask
  <2>1. job' # [job EXCEPT !.pc = "unregister"] /\ job' # [job EXCEPT !.pc = "delete"]
    <3>1. job'.op # job.op
      BY <1>1 DEF NoJob
    <3> QED BY <3>1 DEF IInv, JobOK
  <2> QED BY <1>4, <2>1 DEF QueryTask, Fault, Goto
<1>5. ~Kill
  BY DEF Kill, Fault
<1> QED BY <1>2, <1>3, <1>4, <1>5, UninstallEnds

(***************************************************************************)
(* An uninstallation none of whose calls fails leaves nothing behind of    *)
(* what any row of commands, whole or cut short, can have left.            *)
(***************************************************************************)
THEOREM UninstallationRemoves == Spec => UninstallRemoves
<1>1. IInv /\ [Next]_vars =>
        [Finished("uninstall") /\ clean' =>
           /\ unit' = NoProgram /\ active' = NoProgram /\ ~(link /\ UnitFound)'
           /\ "file" \notin timer' /\ keys' = {}]_vars
  BY UninstallsClean
<1> QED BY <1>1, Inductive, PTL DEF Spec, UninstallRemoves

LEMMA InstallPrints ==
  ASSUME IInv, [Next]_vars, Finished("install"), installs' # "killed"
  PROVE  /\ Printed \subseteq real' \cup (IF clean' THEN {} ELSE {"timer"})
         /\ windows \/ real' \subseteq Printed
<1>1. job.op = "install" /\ job' = NoJob /\ job'.op = "none"
  BY DEF Finished, NoJob
<1>2. job.pc # "idle" /\ StagesOK /\ SaysInv /\ JobOK
  BY <1>1 DEF IInv, StagesOK
<1>3. CASE windows
  <2>1. Printed \subseteq IF installs' = "ok" THEN {"created"} ELSE {}
    BY <1>3 DEF Printed, WindowsSays
  <2>2. ASSUME installs' = "ok" PROVE "created" \in real'
    <3>1. job.pc \in {"clsid", "aumid"} /\ real' = real
      <4>1. CASE \E op \in {"install", "register"} :
                   \/ RegisterKey(op, "clsid", "clsid", "aumid")
                   \/ RegisterKey(op, "aumid", "aumid", "end")
        BY <4>1 DEF RegisterKey, At
      <4>2. ~(Resolve \/ WriteUnit \/ Reload \/ CreateTask \/ Kill)
        BY <1>1, <1>2, <2>2 DEF Resolve, WriteUnit, Reload, CreateTask, Kill, Return, Goto, JobOK
      <4>3. ~(RemoveFiles \/ StatusActive \/ QueryTask \/ Unregister \/ StatusTask)
        BY <1>1 DEF RemoveFiles, StatusActive, QueryTask, Unregister, StatusTask, At
      <4>4. ~Enable
        BY <1>1, <1>2, <1>3 DEF Enable, At, StagesOK
      <4> QED BY <1>1, <4>1, <4>2, <4>3, <4>4, Ends DEF IInv
    <3> QED BY <1>1, <1>2, <3>1 DEF SaysInv
  <2> QED BY <1>3, <2>1, <2>2
<1>4. CASE ~windows
  <2>1. Printed = LinuxSays(installs')
    BY <1>4 DEF Printed
  <2>2. CASE Resolve
    <3>1. did' = {} /\ real' = {} /\ installs' \in {"no_binary", "no_home"}
      BY <1>1, <1>2, <2>2 DEF Resolve, At, Return, SaysInv, JobOK
    <3> QED BY <2>1, <3>1 DEF LinuxSays
  <2>3. CASE WriteUnit
    <3>1. did' = {} /\ real' = {} /\ installs' = "unit"
      BY <1>1, <1>2, <2>3 DEF WriteUnit, At, Goto, Return, SaysInv, JobOK
    <3> QED BY <2>1, <3>1 DEF LinuxSays
  <2>4. CASE Reload
    <3>1. job.pc = "reload" /\ did' = did /\ real' = real /\ installs' = "reload" /\ clean' = FALSE
      BY <1>1, <1>2, <2>4 DEF Reload, At, Goto, Return, Fault, JobOK
    <3>2. did \subseteq real \cup {"timer"} /\ real \subseteq did
      BY <1>1, <1>2, <3>1 DEF SaysInv, Doubt
    <3> QED BY <2>1, <3>1, <3>2 DEF LinuxSays
  <2>5. CASE Enable
    <3>1. /\ job.pc = "enable" /\ did' = did
          /\ \/ installs' = "ok" /\ real' = real \cup {"enabled"} /\ clean' = clean
             \/ installs' = "enable" /\ real' = real /\ clean' = FALSE
      BY <1>1, <2>5 DEF Enable, At, Return, Does, Works, Fault
    <3>2. /\ did \cup {"reloaded"} \subseteq real \cup Doubt({"timer"})
          /\ real \subseteq did \cup {"reloaded"}
      BY <1>1, <1>2, <3>1 DEF SaysInv
    <3> QED BY <2>1, <3>1, <3>2 DEF LinuxSays, Doubt
  <2>6. ~(CreateTask \/ Kill)
    BY <1>1, <1>2, <1>4 DEF CreateTask, Kill, Return, At, StagesOK
  <2>7. ~(RemoveFiles \/ StatusActive \/ QueryTask \/ Unregister \/ StatusTask)
    BY <1>1 DEF RemoveFiles, StatusActive, QueryTask, Unregister, StatusTask, At
  <2>8. ~\E op \in {"install", "register"} :
           RegisterKey(op, "clsid", "clsid", "aumid") \/ RegisterKey(op, "aumid", "aumid", "end")
    BY <1>1, <1>2, <1>4 DEF RegisterKey, At, StagesOK
  <2> QED BY <1>1, <2>2, <2>3, <2>4, <2>5, <2>6, <2>7, <2>8, Ends DEF IInv
<1> QED BY <1>3, <1>4

LEMMA UninstallSays ==
  ASSUME IInv, [Next]_vars, Finished("uninstall")
  PROVE  did' \subseteq real' \cup (IF clean' THEN {} ELSE {"timer", "stopped", "disabled"})
<1>1. did \subseteq real \cup Doubt({"timer", "stopped", "disabled"})
  BY DEF IInv, SaysInv, Finished
<1>2. clean' => clean
  BY UninstallEnds DEF RemoveFiles, Unregister, QueryTask, Kill, Works, Fault
<1>3. \/ did' = did /\ real' = real
      \/ \E gone : did' = did \cup gone /\ real' = real \cup gone
  BY UninstallEnds DEF RemoveFiles, Unregister, QueryTask, Kill, Says, Does
<1> QED BY <1>1, <1>2, <1>3 DEF Doubt

(***************************************************************************)
(* What "daemon install" and "daemon uninstall" print is what happened,    *)
(* wherever they stop; the exceptions are the unchecked calls.             *)
(***************************************************************************)
THEOREM ReportsAreTrue == Spec => ReportsTrue
<1>1. IInv /\ [Next]_vars =>
        [/\ Finished("install") /\ installs' # "killed" =>
              /\ Printed \subseteq real' \cup (IF clean' THEN {} ELSE {"timer"})
              /\ windows \/ real' \subseteq Printed
         /\ Finished("uninstall") =>
              did' \subseteq real' \cup (IF clean' THEN {} ELSE {"timer", "stopped", "disabled"})]_vars
  BY InstallPrints, UninstallSays
<1> QED BY <1>1, Inductive, PTL DEF Spec, ReportsTrue

LEMMA StatusAnswers ==
  ASSUME IInv, [Next]_vars, Finished("status"), "installed" \notin did'
  PROVE  did' = {} /\ (clean' => ~UnitFound' /\ active' = NoProgram)
<1>1. job.op = "status" /\ job' = NoJob
  BY DEF Finished
<1>2. CASE StatusActive
  <2>1. /\ job.pc = "active?" /\ unit' = unit /\ packaged' = packaged /\ active' = active
        /\ \E now \in {{}, {"running"}} :
             /\ (clean' => now # {} <=> active # NoProgram)
             /\ did' = did \cup
                  IF did \cup now \subseteq {"installed"} THEN now ELSE now \cup {"installed"}
    BY <1>1, <1>2 DEF StatusActive, At, Says, Works, Fault, stateVars, machineVars
  <2>2. did \subseteq {"installed", "enabled"} /\ ("installed" \in did <=> UnitFound)
    BY <1>1, <2>1 DEF IInv, SaysInv
  <2>3. PICK now \in {{}, {"running"}} :
             /\ (clean' => now # {} <=> active # NoProgram)
             /\ did' = did \cup
                  IF did \cup now \subseteq {"installed"} THEN now ELSE now \cup {"installed"}
    BY <2>1
  <2>4. did = {} /\ now = {} /\ did' = {}
    BY <2>2, <2>3
  <2> QED BY <2>1, <2>2, <2>3, <2>4 DEF UnitFound
<1>3. CASE StatusTask
  <2>1. /\ job.pc = "query" /\ unit' = unit /\ packaged' = packaged /\ active' = active
        /\ \/ clean' = FALSE /\ did' = did
           \/ did' = did \cup (IF unit = NoProgram THEN {}
                ELSE IF link THEN {"installed", "enabled", "running"} ELSE {"installed"})
    BY <1>3 DEF StatusTask, At, Says, Works, Fault, stateVars, machineVars
  <2>2. did = {} /\ windows /\ ~packaged /\ active = NoProgram
    BY <1>1, <2>1 DEF IInv, SaysInv, StagesOK, MachineOK, TypeOK
  <2>3. CASE clean' = FALSE /\ did' = did
    BY <2>2, <2>3
  <2>4. CASE did' = did \cup (IF unit = NoProgram THEN {}
                ELSE IF link THEN {"installed", "enabled", "running"} ELSE {"installed"})
    <3>1. unit = NoProgram
      BY <2>4
    <3> QED BY <2>1, <2>2, <2>4, <3>1 DEF UnitFound
  <2> QED BY <2>1, <2>3, <2>4
<1>4. CASE Kill
  <2>1. clean' = FALSE /\ did' = did
    BY <1>4 DEF Kill, Fault
  <2>2. did = {}
    BY <1>1, <2>1 DEF IInv, SaysInv, StagesOK
  <2> QED BY <2>1, <2>2
<1>5. ~(Resolve \/ WriteUnit \/ Reload \/ Enable \/ RemoveFiles \/ CreateTask \/ QueryTask \/ Unregister)
  BY <1>1 DEF Resolve, WriteUnit, Reload, Enable, RemoveFiles, CreateTask, QueryTask, Unregister, At
<1>6. ~\E op \in {"install", "register"} :
         RegisterKey(op, "clsid", "clsid", "aumid") \/ RegisterKey(op, "aumid", "aumid", "end")
  BY <1>1 DEF RegisterKey, At
<1> QED BY <1>1, <1>2, <1>3, <1>4, <1>5, <1>6, Ends DEF IInv

(***************************************************************************)
(* The answers of "daemon status" never contradict each other, and with    *)
(* all its questions answered it denies no service that is there.          *)
(***************************************************************************)
THEOREM StatusIsConsistent == Spec => StatusConsistent
<1>1. IInv /\ [Next]_vars =>
        [Finished("status") /\ "installed" \notin did' =>
           did' = {} /\ (clean' => ~UnitFound' /\ active' = NoProgram)]_vars
  BY StatusAnswers
<1> QED BY <1>1, Inductive, PTL DEF Spec, StatusConsistent
=============================================================================
