-------------------------------- MODULE Verdict --------------------------------
(***************************************************************************)
(* The report caseforge derives from an audit log, and the custody check   *)
(* of its findings (caseforge-sdk/verdict.ts), with finalizeVerdictJson of *)
(* investigate.ts.  Several runs may finish one directory: each looks at   *)
(* the report in place, reads the log, asks the evidence again for up to   *)
(* two minutes and writes, while agents still append to the log and the    *)
(* other finalizers and the toolkit's own runner write the same file.      *)
(*                                                                         *)
(* A record of the log is reduced to what the derivation reads: the scoped *)
(* words of an agent message, the objects with a finding_id in the order   *)
(* walk meets them, and the Event ID 1102 rows of an evtx_query.  Every    *)
(* record carries its seq.                                                 *)
(***************************************************************************)
EXTENDS Naturals, SequencesExt

CONSTANTS
  FindingIds,    \* the finding_ids agents and tools use
  Records,       \* the records an audit log may hold
  Finalizers,    \* the runs that finish the directory
  Absent,        \* undefined and null: `??' passes over both
  MaxLog         \* bound: records of a log

Words == {"SUSPICIOUS", "INDETERMINATE", "NO_EVIL"}

\* A blank tool_call_id is a string, and no citation.
Fields == [tool: {Absent, "blank", "call"},
           confidence: {Absent, "HYPOTHESIS", "INFERRED"},
           replay: {Absent, "no", "yes"},
           kind: {Absent, "other", "audit_record"},
           seq: Nat \cup {Absent},
           sha: Nat \cup {Absent},
           verdict: {Absent, "SUSPICIOUS"}]
Merging == {"tool", "confidence", "replay", "kind", "seq", "sha"}

NoFields == [tool |-> Absent, confidence |-> Absent, replay |-> Absent,
             kind |-> Absent, seq |-> Absent, sha |-> Absent, verdict |-> Absent]

\* rows holds the record_id of each row, 0 for a row without.
RecordType == [said: SUBSET Words, parts: Seq([id: FindingIds, f: Fields]),
               rows: Seq(Nat)]

ASSUME VerdictAssumption ==
  /\ Records \subseteq RecordType
  /\ MaxLog \in Nat
  /\ Absent \notin Nat \cup {"call", "audit_record", "yes", "no"}

VARIABLES
  log,        \* audit.jsonl
  doc,        \* verdict.json
  pc,         \* how far each finalizer has come
  read,       \* how many records it has read
  basis       \* history: how many the report in place was made of

finalizers == <<pc, read>>
vars == <<log, doc, finalizers, basis>>

\* caseforge's own ids for 1102 rows.
OwnIds == {"evtx-1102", "evtx-1102-probe"} \X Nat \X Nat

NoDoc == [by |-> "nobody", verdict |-> Absent, findings |-> <<>>]

TypeOK ==
  /\ log \in Seq(Records)
  /\ doc.by \in {"nobody", "caseforge", "toolkit"}
  /\ doc.verdict \in IF doc.by = "nobody" THEN {Absent} ELSE Words
  /\ DOMAIN doc.findings \subseteq FindingIds \cup OwnIds
  /\ \A x \in DOMAIN doc.findings : doc.findings[x] \in Fields
  /\ pc \in [Finalizers -> {"away", "looked", "probing"}]
  /\ read \in [Finalizers -> 0..Len(log)] /\ basis \in 0..Len(log)

-----------------------------------------------------------------------------
(* Citations.                                                              *)

HasToolCitation(f) == f.tool = "call"

HasAuditRecordCitation(f) ==
  f.kind = "audit_record" /\ f.seq # Absent /\ f.sha # Absent

CitationKind(f) ==
  CASE HasToolCitation(f)                               -> "tool_call"
    [] ~HasToolCitation(f) /\ HasAuditRecordCitation(f) -> "audit_record"
    [] OTHER                                            -> "none"

\* Mutant: any tool_call_id will do for the report.
AnyCallOrRecord(f) == f.tool # Absent \/ HasAuditRecordCitation(f)

AcceptedCitation(f) == CitationKind(f) # "none"

IsAnchored(f) == f.confidence = "INFERRED"

\* checkFindingsCustody(doc).ok, over the findings by id.
CustodyOk(fs) ==
  \A x \in DOMAIN fs :
    /\ IsAnchored(fs[x]) => CitationKind(fs[x]) # "none"
    /\ fs[x].replay # "no"

-----------------------------------------------------------------------------
(* assembleVerdictFromAudit                                                *)

\* Mutant: the latest value of a field counts.
MergeLatest(old, f) ==
  [k \in DOMAIN old |-> IF k \in Merging /\ f[k] # Absent THEN f[k] ELSE old[k]]

\* Each field by itself: p.x ?? r.x.  The verdict of a finding is dropped.
MergeFields(old, f) ==
  [k \in DOMAIN old |-> IF k \in Merging /\ old[k] = Absent THEN f[k] ELSE old[k]]

MergePart(merged, part) ==
  LET old == IF part.id \in DOMAIN merged THEN merged[part.id] ELSE NoFields
  IN  [x \in DOMAIN merged \cup {part.id} |->
         IF x = part.id THEN MergeFields(old, part.f) ELSE merged[x]]

\* Both walks are recursive functions of how far they have come.
Parts(l) ==
  LET walk[n \in 0..Len(l)] == IF n = 0 THEN <<>> ELSE walk[n - 1] \o l[n].parts
  IN  walk[Len(l)]

Merged(l) ==
  LET ps == Parts(l)
      merged[n \in 0..Len(ps)] ==
        IF n = 0 THEN <<>> ELSE MergePart(merged[n - 1], ps[n])
  IN  merged[Len(ps)]

\* The suffix of a row's finding: its record_id, or its place among the rows.
Suffix(rows, i) == IF rows[i] = 0 THEN i ELSE rows[i]

\* deriveEvtxFindings: the finding cites the record's line.
RowIds(l) ==
  UNION {{<<"evtx-1102", n, Suffix(l[n].rows, i)>> : i \in DOMAIN l[n].rows} :
           n \in DOMAIN l}

RowFinding(x) ==
  [NoFields EXCEPT !.confidence = "INFERRED", !.kind = "audit_record",
                   !.seq = x[2], !.sha = x[2], !.verdict = "SUSPICIOUS"]

WithRows(merged, l) ==
  [x \in DOMAIN merged \cup RowIds(l) |->
     IF x \in DOMAIN merged THEN merged[x] ELSE RowFinding(x)]

Cited(fs) == Restrict(fs, {x \in DOMAIN fs : AcceptedCitation(fs[x])})

\* The first of the words, in their order, of the last message with any.
FirstWord(said) ==
  CASE "SUSPICIOUS" \in said -> "SUSPICIOUS"
    [] "SUSPICIOUS" \notin said /\ "INDETERMINATE" \in said -> "INDETERMINATE"
    [] OTHER -> "NO_EVIL"

LastWord(l) ==
  LET said == SelectSeq(l, LAMBDA e : e.said # {})
  IN  IF said = <<>> THEN Absent ELSE FirstWord(Last(said).said)

\* Mutant: no word without a message.
WordSaid(l, fs) == LastWord(l)

\* The verdict a finding was reported with is not merged: only the findings
\* of 1102 rows have one.
WordFor(l, fs) ==
  CASE LastWord(l) # Absent -> LastWord(l)
    [] LastWord(l) = Absent /\ \E x \in DOMAIN fs : fs[x].verdict = "SUSPICIOUS"
                            -> "SUSPICIOUS"
    [] OTHER -> IF DOMAIN fs = {} THEN "NO_EVIL" ELSE "INDETERMINATE"

Assemble(l) ==
  LET fs == Cited(WithRows(Merged(l), l))
  IN  [by |-> "caseforge", verdict |-> WordFor(l, fs), findings |-> fs]

ProbeFindings(rows) ==
  [x \in {<<"evtx-1102-probe", 0, Suffix(rows, i)>> : i \in DOMAIN rows} |->
     [NoFields EXCEPT !.confidence = "HYPOTHESIS", !.verdict = "SUSPICIOUS"]]

\* Mutant: the rows of the probe replace what is reported.
EnrichAlways(d, rows) ==
  IF rows = <<>> THEN d
  ELSE [d EXCEPT !.verdict = "SUSPICIOUS", !.findings = ProbeFindings(rows)]

\* enrichVerdictWithEvtx1102Probe: the evidence is asked again, but only
\* when nothing is reported; what comes back is a hypothesis.
Enrich(d, rows) ==
  IF DOMAIN d.findings # {} \/ rows = <<>> THEN d
  ELSE [d EXCEPT !.verdict = "SUSPICIOUS", !.findings = ProbeFindings(rows)]

-----------------------------------------------------------------------------
Init ==
  /\ log = <<>> /\ doc = NoDoc /\ basis = 0
  /\ pc = [q \in Finalizers |-> "away"]
  /\ read = [q \in Finalizers |-> 0]

AppendRecord(e) ==
  /\ Len(log) < MaxLog
  /\ log' = Append(log, e)
  /\ UNCHANGED <<doc, finalizers, basis>>

\* The toolkit's own runner writes its report, over any other.
ToolkitReports ==
  /\ doc.by # "toolkit"
  /\ doc' = [NoDoc EXCEPT !.by = "toolkit", !.verdict = "INDETERMINATE"]
  /\ basis' = 0
  /\ UNCHANGED <<log, finalizers>>

\* finalizeVerdictJson: only a report of caseforge's own is written again.
LookForReport(q) ==
  /\ pc[q] = "away" /\ doc.by # "toolkit"
  /\ pc' = [pc EXCEPT ![q] = "looked"]
  /\ UNCHANGED <<log, doc, read, basis>>

ReadLog(q) ==
  /\ pc[q] = "looked" /\ log # <<>>
  /\ pc' = [pc EXCEPT ![q] = "probing"]
  /\ read' = [read EXCEPT ![q] = Len(log)]
  /\ UNCHANGED <<log, doc, basis>>

Leave(q) ==
  /\ pc' = [pc EXCEPT ![q] = "away"]
  /\ read' = [read EXCEPT ![q] = 0]

\* There is no log yet, or the run ends.
GiveUp(q) ==
  /\ pc[q] # "away" /\ Leave(q)
  /\ UNCHANGED <<log, doc, basis>>

\* Whatever has come in place of the report meanwhile is written over.
WriteReport(q, rows) ==
  /\ pc[q] = "probing" /\ Leave(q)
  /\ doc' = Enrich(Assemble(SubSeq(log, 1, read[q])), rows)
  /\ basis' = read[q]
  /\ UNCHANGED log

\* What the probe may return.
ProbeRows == {<<>>, <<0>>, <<1, 0>>}

Next ==
  \/ \E e \in Records : AppendRecord(e)
  \/ ToolkitReports
  \/ \E q \in Finalizers : LookForReport(q) \/ ReadLog(q) \/ GiveUp(q)
  \/ \E q \in Finalizers, rows \in ProbeRows : WriteReport(q, rows)

Spec == Init /\ [][Next]_vars

-----------------------------------------------------------------------------
\* The first value the chain gives to a field of a finding.
FirstValue(l, x, k) ==
  LET ps    == Parts(l)
      given == {i \in DOMAIN ps : ps[i].id = x /\ ps[i].f[k] # Absent}
  IN  IF given = {} THEN Absent ELSE ps[Min(given)].f[k]

\* What is merged of a finding is, field by field, the first value that any
\* copy of it in the chain gives, and the findings are those of the chain.
MergeIsFirstWins ==
  LET m == Merged(log)
  IN  /\ DOMAIN m = {p.id : p \in ToSet(Parts(log))}
      /\ \A x \in DOMAIN m, k \in Merging : m[x][k] = FirstValue(log, x, k)

\* A report written anew retracts nothing that an older reading of the log had
\* reported: every cited finding is still there, a tool citation and a replay
\* result stay.  Only a finalizer that read less of the log than the one it
\* overwrites - it began earlier and its probe took longer - takes findings
\* back.
NothingRetracted ==
  [][doc.by = "caseforge" /\ doc'.by = "caseforge" /\ basis' >= basis =>
       \A x \in DOMAIN Cited(doc.findings) :
         LET old == doc.findings[x]
             new == doc'.findings[x]
         IN  /\ x \in DOMAIN doc'.findings
             /\ HasToolCitation(old) => HasToolCitation(new)
             /\ old.replay # Absent => new.replay = old.replay]_vars

\* A report of caseforge's own fails its own custody check for one reason
\* only, a replay that the chain records as failed - with the rows of the
\* probe in it too, which cite nothing.
FailsOnReplayOnly ==
  doc.by = "caseforge" /\ ~CustodyOk(doc.findings) =>
    \E p \in ToSet(Parts(log)) : p.f.replay = "no"
=============================================================================
