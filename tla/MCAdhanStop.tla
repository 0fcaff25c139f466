----------------------------- MODULE MCAdhanStop -----------------------------
(* The minute's task and a test play, a command and the toast stop. *)
EXTENDS AdhanStop
=============================================================================
