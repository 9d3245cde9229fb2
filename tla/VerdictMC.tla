------------------------------- MODULE VerdictMC -------------------------------
(* Instances of Verdict: the records of a small audit log.                 *)
EXTENDS Verdict, TLC

CONSTANTS f1, f2

Interchangeable == Permutations(Finalizers)

Rec == [said |-> {}, parts |-> <<>>, rows |-> <<>>]
Part(x, f) == [id |-> x, f |-> f]
Says(words) == [Rec EXCEPT !.said = words]
Holds(parts) == [Rec EXCEPT !.parts = parts]

Called == [NoFields EXCEPT !.tool = "call", !.confidence = "INFERRED"]

AuditRecords ==
  {Says({"NO_EVIL"}), Says({"SUSPICIOUS", "NO_EVIL"}),
   \* a copy that only names the finding, with a blank tool_call_id
   Holds(<<Part(f1, [NoFields EXCEPT !.tool = "blank", !.confidence = "INFERRED"])>>),
   \* a rich copy; and one within a report beside another finding
   Holds(<<Part(f1, [Called EXCEPT !.verdict = "SUSPICIOUS"])>>),
   Holds(<<Part(f2, Called), Part(f1, [NoFields EXCEPT !.kind = "audit_record", !.seq = 1])>>),
   \* what the verifier's replay adds
   Holds(<<Part(f1, [NoFields EXCEPT !.replay = "yes", !.sha = 1])>>),
   Holds(<<Part(f1, [NoFields EXCEPT !.replay = "no"])>>),
   \* rows of an evtx_query, one of them without a record_id
   [Rec EXCEPT !.rows = <<0, 1>>]}
=============================================================================
