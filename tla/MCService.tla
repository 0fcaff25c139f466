------------------------------ MODULE MCService ------------------------------
(* Two places for the program, two faults. *)
EXTENDS Service
=============================================================================
