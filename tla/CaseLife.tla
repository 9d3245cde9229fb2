------------------------------- MODULE CaseLife -------------------------------
(***************************************************************************)
(* What a case directory goes through, whoever writes it: a caseforge run, *)
(* its agent and its engine, or another run that finishes it.  This is the *)
(* promise alone; Investigate keeps to it.                                 *)
(*                                                                         *)
(* A directory is made, audited, sealed by a manifest and attested by      *)
(* manifest_verify.json, or its log claims to be verified.  None of it is  *)
(* removed again.  What an attestation says is not promised: two runs that *)
(* verify one directory may write one answer over the other.               *)
(***************************************************************************)

CONSTANT Dirs

VARIABLE life        \* what there is in each directory

Artifacts == {"directory", "audit", "manifest", "attested", "claim"}

\* Each artifact is about an earlier one.
Founded(c) ==
  /\ "audit" \in c => "directory" \in c
  /\ "manifest" \in c => "audit" \in c
  /\ "attested" \in c => "manifest" \in c
  /\ "claim" \in c => "audit" \in c

Cases == {c \in SUBSET Artifacts : Founded(c)}

Init == life \in [Dirs -> Cases]

Next ==
  /\ life' \in [Dirs -> Cases]
  /\ \A d \in Dirs : life[d] \subseteq life'[d]

Spec == Init /\ [][Next]_life
=============================================================================
