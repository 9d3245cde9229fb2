---------------------------- MODULE SessionDrainMC ----------------------------
(* A session for TLC. *)
EXTENDS SessionDrain
===============================================================================
