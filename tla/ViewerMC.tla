------------------------------- MODULE ViewerMC -------------------------------
(* Instances of Viewer: two cases and up to two draws in progress.          *)
EXTENDS Viewer, TLC

FewItems == [findings |-> 2, timeline |-> 1, coverage |-> 0]

\* Draws are alike.
SameDraws == Permutations(Slots)
=============================================================================
