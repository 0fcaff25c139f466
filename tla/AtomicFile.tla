------------------------------ MODULE AtomicFile ------------------------------
(***************************************************************************)
(* What saving a file promises (config_save, cache_save): the file is at   *)
(* every moment the whole of one saved value, on disk as well as to a      *)
(* reader; a save that reports success has installed its value, and one    *)
(* that reports failure has changed nothing.  The promise holds for savers *)
(* that take turns; while two overlap ("clash") anything may happen to the *)
(* file.                                                                   *)
(***************************************************************************)
CONSTANTS
  Savers,   \* processes that save the file
  Values,   \* what they save
  Absent,   \* no file, nobody saving
  Torn      \* content that is no saved value

Contents == Values \cup {Absent, Torn}

VARIABLES
  file,     \* what a reader finds
  safe,     \* what a power cut would leave
  saving,   \* the value each saver is busy with
  last,     \* what its last save reported
  clash     \* savers overlap, or the disk has not settled since

vars == <<file, safe, saving, last, clash>>

Others(p) == {q \in Savers \ {p} : saving[q] # Absent}

Begin(p, v) ==
  /\ saving[p] = Absent
  /\ saving' = [saving EXCEPT ![p] = v]
  /\ clash' = (clash \/ Others(p) # {})
  /\ UNCHANGED <<file, safe, last>>

End(p, report) ==
  /\ saving[p] # Absent /\ ~clash
  /\ saving' = [saving EXCEPT ![p] = Absent]
  /\ last' = [last EXCEPT ![p] = report]
  /\ UNCHANGED <<safe, clash>>

Install(p) == End(p, "ok") /\ file' = saving[p]

Fail(p) == End(p, "failed") /\ UNCHANGED file

\* The saver is killed.
Abandon(p) == End(p, "none") /\ UNCHANGED file

\* It could not begin, which another saver may or may not notice.
Decline(p) ==
  /\ saving[p] = Absent
  /\ last' = [last EXCEPT ![p] = "failed"]
  /\ clash' \in {clash, clash \/ Others(p) # {}}
  /\ UNCHANGED <<file, safe, saving>>

Remove == file' = Absent /\ UNCHANGED <<safe, saving, last, clash>>

Flush == safe' = file /\ UNCHANGED <<file, saving, last, clash>>

PowerCut ==
  /\ file' = safe
  /\ saving' = [p \in Savers |-> Absent]
  /\ last' = [p \in Savers |-> "none"]
  /\ clash' = FALSE
  /\ UNCHANGED safe

Muddle ==
  /\ clash
  /\ file' \in Contents /\ safe' \in Contents
  /\ \E ended \in SUBSET Savers :
       /\ saving' = [p \in Savers |-> IF p \in ended THEN Absent ELSE saving[p]]
       /\ last' \in [Savers -> {"none", "ok", "failed"}]
       /\ \A p \in Savers \ ended : last'[p] = last[p]
  /\ clash' \in BOOLEAN
  /\ ~clash' => saving' = [p \in Savers |-> Absent]

Init ==
  /\ file = Absent /\ safe = Absent
  /\ saving = [p \in Savers |-> Absent]
  /\ last = [p \in Savers |-> "none"]
  /\ clash = FALSE

Next ==
  \/ \E p \in Savers, v \in Values : Begin(p, v)
  \/ \E p \in Savers : Install(p) \/ Fail(p) \/ Abandon(p) \/ Decline(p)
  \/ Remove \/ Flush \/ PowerCut \/ Muddle

Spec == Init /\ [][Next]_vars
=============================================================================
