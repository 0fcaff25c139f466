---------------------------- MODULE MCDaemonLoop ----------------------------
(* A minute of three seconds of two ticks; two announcements, two signals. *)
EXTENDS DaemonLoop
=============================================================================
