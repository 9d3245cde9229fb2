------------------------------ MODULE FileLockMC ------------------------------
(* Processes that contend for one key, for TLC. *)
EXTENDS FileLock, TLC

Symmetry == Permutations(Procs)
===============================================================================
