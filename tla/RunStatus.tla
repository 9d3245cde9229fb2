----------------------------- MODULE RunStatus -----------------------------
(***************************************************************************)
(* How the fleet derives the status of an investigation from its run       *)
(* directory (crates/caseforge-fleet/src/status.rs).                       *)
(*                                                                         *)
(* A run directory is reduced to what the derivation tells apart.  Its     *)
(* audit log is append-only, so the number of complete records stands for  *)
(* the file's (mtime, size); `last' is the kind of the last record and     *)
(* `sealed' says whether some record is a manifest_verify call whose       *)
(* output.overall is true.  `hot' says whether the last write is at most   *)
(* WORKING_WINDOW_SECS old.  A size of 0 is a missing audit.jsonl.         *)
(* `passed' is history: a manifest_verify.json that said pass has been     *)
(* overwritten.                                                            *)
(***************************************************************************)
EXTENDS Naturals

Kinds == {"work", "heartbeat", "seal"}
NoKind == "none"

\* What manifest_verify.json says, or "none" when it is missing.
Verdicts == {"none", "fail", "pass"}

CaseDisk == [made: BOOLEAN, size: Nat, last: Kinds \cup {NoKind},
             sealed: BOOLEAN, hot: BOOLEAN, manifest: BOOLEAN,
             verify: Verdicts, passed: BOOLEAN]

Absent == [made |-> FALSE, size |-> 0, last |-> NoKind, sealed |-> FALSE,
           hot |-> FALSE, manifest |-> FALSE, verify |-> "none", passed |-> FALSE]

RunState == {"Idle", "Working", "Blocked", "Done"}
Custody == {"Incomplete", "CustodyInvalid", "Complete"}

-----------------------------------------------------------------------------
(* The record the audit parse leaves behind, and the reads of it.          *)

Parsed == [size: Nat, last: Kinds \cup {NoKind}, sealed: BOOLEAN]

ParseAudit(c) == [size |-> c.size, last |-> c.last, sealed |-> c.sealed]

HasAudit(c) == c.size > 0

\* audit_age_secs(dir, now) <= WORKING_WINDOW_SECS, None being old.
Recent(c) == HasAudit(c) /\ c.hot

BlockedKinds == {"heartbeat"}

\* Mutant: any manifest_verify.json counts, whatever it says.
VerifyFilePresent(c, audit) == c.verify # "none" \/ audit.sealed

ManifestVerified(c, audit) == c.verify = "pass" \/ audit.sealed

\* Mutant: a recent write outranks the manifest.
DecideRecentFirst(last, hasManifest, recent) ==
  IF last \in BlockedKinds THEN "Blocked"
  ELSE IF recent THEN "Working"
  ELSE IF hasManifest THEN "Done"
  ELSE "Idle"

DecideState(last, hasManifest, recent) ==
  IF last \in BlockedKinds THEN "Blocked"
  ELSE IF hasManifest THEN "Done"
  ELSE IF recent THEN "Working"
  ELSE "Idle"

DeriveCustody(c, audit) ==
  IF ~c.manifest \/ ~HasAudit(c) THEN "Incomplete"
  ELSE IF ManifestVerified(c, audit) THEN "Complete"
  ELSE "CustodyInvalid"

-----------------------------------------------------------------------------
(* The three entry points: the change-detection key, the cheap refresh     *)
(* that keeps the parsed facts, and the full derivation.                   *)

\* Mutant: only the audit log is watched.
AuditFingerprint(c) == <<c.size, FALSE>>

Fingerprint(c) == <<c.size, c.manifest>>

Fingerprints == Nat \X BOOLEAN

RefreshStatus(c, cached) ==
  [cached EXCEPT !.state = DecideState(cached.last, c.manifest, Recent(c))]

DeriveStatus(d, c, audit, recent) ==
  [dir     |-> d,
   state   |-> DecideState(audit.last, c.manifest, recent),
   custody |-> DeriveCustody(c, audit),
   records |-> audit.size,
   last    |-> audit.last]
=============================================================================
