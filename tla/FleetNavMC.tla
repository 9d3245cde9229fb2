----------------------------- MODULE FleetNavMC -----------------------------
(* Instances of FleetNav: what the command line names.                     *)
EXTENDS FleetNav, TLC

CONSTANTS d1, d2

OneArg == <<d1>>

\* Launches are alike, and so are directories the command line does not name.
Same == Permutations(Procs) \cup Permutations(Dirs \ {d1})
=============================================================================
