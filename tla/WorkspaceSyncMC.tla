--------------------------- MODULE WorkspaceSyncMC ---------------------------
(* The sites of a session for TLC. *)
EXTENDS WorkspaceSync

(* Only sessions that the control plane created: whose events it ignores is  *)
(* then a matter of warps alone.                                             *)
SpecAtHome == Init /\ log[Here] # <<>> /\ [][Next]_vars
==============================================================================
