------------------------------ MODULE CaseRules ------------------------------
(***************************************************************************)
(* What the SDK concludes from a case directory: validateRun of            *)
(* artifacts.ts, the verdict of verify.ts and the run record of            *)
(* runrecord.ts.                                                           *)
(*                                                                         *)
(* A directory is reduced to its artifacts.  `manifest' says whether the   *)
(* signed manifest would pass the offline verifier; `claim' whether the    *)
(* audit log holds a manifest_verify record with overall true; `report'    *)
(* whether verdict.json passes the findings check; `result' and `record'   *)
(* the used_fallback of run_result.json and of caseforge_run.json.         *)
(***************************************************************************)

Reports == {"none", "ok", "failed"}
Tri == {"yes", "no", "unknown"}

Cases == [made: BOOLEAN, audit: BOOLEAN, claim: BOOLEAN,
          manifest: {"none", "bad", "good"}, verify: {"none", "fail", "pass"},
          report: Reports, byToolkit: BOOLEAN, result: Tri,
          record: {"none", "yes", "no"}]

NoCase == [made |-> FALSE, audit |-> FALSE, claim |-> FALSE,
           manifest |-> "none", verify |-> "none", report |-> "none",
           byToolkit |-> FALSE, result |-> "unknown", record |-> "none"]

CaseIsSealed(c) == c.manifest # "none" /\ c.audit

\* Mutant: that there is a verification is enough, whatever it says.
AttestationThere(c) == c.verify # "none" \/ c.claim

CustodyValid(c) == c.verify = "pass" \/ c.claim

\* validateRun; verdict.json, coverage_manifest.json and a missing
\* manifest_verify.json do not matter to it.
ValidateRun(c) ==
  IF ~CaseIsSealed(c) THEN "incomplete"
  ELSE IF CustodyValid(c) THEN "complete" ELSE "custody-invalid"

\* The exit code of `caseforge verify'.
Verify(c) == IF ValidateRun(c) = "complete" /\ c.report # "failed" THEN 0 ELSE 1

\* Mutant: only the runtime's word counts.
RuntimeWord(c, engineUsedFallback) == c.result

\* assembleRunRecord, with caseforge's own knowledge as a Boolean.
UsedFallback(c, engineUsedFallback) ==
  IF c.result # "unknown" THEN c.result
  ELSE IF engineUsedFallback THEN "yes" ELSE "no"
=============================================================================
