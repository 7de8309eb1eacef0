----------------------------- MODULE ComputeDesk -----------------------------
(***************************************************************************)
(* The administrator's confidential compute page (ComputeDashboard.tsx):   *)
(* validation reports looked up by question or by report, over             *)
(* compute.service.ts and the report route (validation.routes.ts), while   *)
(* the pipeline writes reports.                                            *)
(*                                                                         *)
(* A question has at most one report (questionId is unique), so a report's *)
(* id is written as its question.  Of a report's fields those that prove   *)
(* it, which the attestation endpoint returns, are told apart from those   *)
(* that were measured, which it does not.                                  *)
(***************************************************************************)
EXTENDS Integers, FiniteSets

CONSTANTS
  Ids,         \* questions, and their reports
  MaxLookups,  \* bound: lookups made
  None

Lookups == 1..MaxLookups

VARIABLES
  validating, reported,  \* the questions under validation; those with a report
  audited,               \* those with an AI_VALIDATION entry
  queue, trail,          \* the page's lists: the rows it got, None before
  questionId, reportId,  \* the two fields
  lookups,               \* the lookups made
  report, failed, busy,  \* the panel
  overlapped             \* history: a lookup was made while one was under way

server == <<validating, reported, audited>>
lists  == <<queue, trail>>
form   == <<questionId, reportId>>
detail == <<report, failed, busy>>
vars == <<server, lists, form, lookups, detail, overlapped>>

Lookup(at, by, id) == [at |-> at, by |-> by, id |-> id]
NoLookup == Lookup("none", None, None)
NoReport == [proof |-> None, measured |-> None]

Init ==
  /\ validating \in SUBSET Ids /\ reported = {} /\ audited = {}
  /\ queue = None /\ trail = None
  /\ questionId = None /\ reportId = None
  /\ lookups = [i \in Lookups |-> NoLookup]
  /\ report = NoReport /\ failed = FALSE /\ busy = FALSE /\ overlapped = FALSE

-----------------------------------------------------------------------------
(* The pipeline                                                            *)

\* validationReportRepository.upsert, then the audit entry.
Report(q) ==
  /\ q \in validating /\ reported' = reported \cup {q}
  /\ UNCHANGED <<validating, audited, lists, form, lookups, detail, overlapped>>
Audit(q) ==
  /\ q \in reported \ audited /\ audited' = audited \cup {q}
  /\ UNCHANGED <<validating, reported, lists, form, lookups, detail, overlapped>>

\* markAccepted or markRejected.
Decide(q) ==
  /\ q \in validating \cap audited /\ validating' = validating \ {q}
  /\ UNCHANGED <<reported, audited, lists, form, lookups, detail, overlapped>>

-----------------------------------------------------------------------------
(* The lists                                                               *)

\* useEffect: getQueue and getComputeAuditLog; without an answer the tables
\* keep their skeletons.
ListQueue ==
  /\ queue = None /\ queue' = validating
  /\ UNCHANGED <<server, trail, form, lookups, detail, overlapped>>
ListTrail ==
  /\ trail = None /\ trail' = audited
  /\ UNCHANGED <<server, queue, form, lookups, detail, overlapped>>

Rows == (IF queue = None THEN {} ELSE queue) \cup (IF trail = None THEN {} ELSE trail)

-----------------------------------------------------------------------------
(* The lookup                                                              *)

TypeQuestion(q) ==
  /\ questionId' = q /\ questionId # q
  /\ UNCHANGED <<server, lists, reportId, lookups, detail, overlapped>>
TypeReport(r) ==
  /\ reportId' = r /\ reportId # r
  /\ UNCHANGED <<server, lists, questionId, lookups, detail, overlapped>>

UnderWay == {i \in Lookups : lookups[i].at \in {"asked", "served", "missing"}}
Latest == {i \in Lookups : lookups[i].at # "none"}

\* lookupByQuestion and lookupByReport, up to the await.
Begin(by, id) ==
  /\ \E i \in Lookups :
       /\ Latest = 1..(i - 1)
       /\ lookups' = [lookups EXCEPT ![i] = Lookup("asked", by, id)]
  /\ busy' = TRUE /\ failed' = FALSE
  /\ overlapped' = (overlapped \/ UnderWay # {})

ByQuestion(id) ==
  /\ id # None /\ Begin("question", id) /\ questionId' = id
  /\ UNCHANGED <<server, lists, reportId, report>>
ByReport(id) ==
  /\ id # None /\ Begin("report", id) /\ reportId' = id
  /\ UNCHANGED <<server, lists, questionId, report>>

\* The two buttons, which wait for the last lookup, and a row of a table,
\* which does not.
LookUp == ~busy /\ ByQuestion(questionId)
Verify == ~busy /\ ByReport(reportId)
ClickRow(q) == q \in Rows /\ ByQuestion(q)

\* The routes: the report, or 404.
Serve(i) ==
  /\ lookups[i].at = "asked"
  /\ lookups' = [lookups EXCEPT ![i].at = IF lookups[i].id \in reported THEN "served" ELSE "missing"]
  /\ UNCHANGED <<server, lists, form, detail, overlapped>>

\* await returned: the whole report, or the attestation laid over what is
\* there; finally.
Found(i) ==
  /\ lookups[i].at = "served" /\ lookups' = [lookups EXCEPT ![i].at = "done"]
  /\ report' = IF lookups[i].by = "question"
               THEN [proof |-> lookups[i].id, measured |-> lookups[i].id]
               ELSE [report EXCEPT !.proof = lookups[i].id]
  /\ busy' = FALSE
  /\ UNCHANGED <<server, lists, form, failed, overlapped>>

\* Fault: the failure does not end the wait.
NotFoundBusy(i) ==
  /\ lookups[i].at \in {"asked", "missing"} /\ lookups' = [lookups EXCEPT ![i].at = "done"]
  /\ report' = NoReport /\ failed' = TRUE
  /\ UNCHANGED <<server, lists, form, busy, overlapped>>

\* catch, for a 404 or a call that failed; finally.
NotFound(i) ==
  /\ lookups[i].at \in {"asked", "missing"} /\ lookups' = [lookups EXCEPT ![i].at = "done"]
  /\ report' = NoReport /\ failed' = TRUE /\ busy' = FALSE
  /\ UNCHANGED <<server, lists, form, overlapped>>

Next ==
  \/ ListQueue \/ ListTrail \/ LookUp \/ Verify
  \/ \E q \in Ids : Report(q) \/ Audit(q) \/ Decide(q) \/ TypeQuestion(q) \/ TypeReport(q) \/ ClickRow(q)
  \/ \E i \in Lookups : Serve(i) \/ Found(i) \/ NotFound(i)

Spec == Init /\ [][Next]_vars

\* What the panel shows.
Panel ==
  IF busy                     THEN "fetching"
  ELSE IF failed              THEN "error"
  ELSE IF report.proof = None THEN "nothing"
                              ELSE "report"

-----------------------------------------------------------------------------
(* Properties                                                              *)

TypeOK ==
  /\ validating \subseteq Ids /\ reported \subseteq Ids /\ audited \subseteq reported
  /\ questionId \in Ids \cup {None} /\ reportId \in Ids \cup {None}
  /\ \A i \in Lookups : lookups[i] \in
       [at : {"none", "asked", "served", "missing", "done"}, by : {"question", "report", None}, id : Ids \cup {None}]
  /\ report \in [proof : Ids \cup {None}, measured : Ids \cup {None}]
  /\ failed \in BOOLEAN /\ busy \in BOOLEAN /\ overlapped \in BOOLEAN

\* Lookups one after the other: the panel shows the proof of the question or
\* report asked for last, or that there is none; and the page never waits for
\* an answer that has come.
LastLookupIsShown ==
  /\ Panel = "fetching" => UnderWay # {}
  /\ ~overlapped /\ UnderWay = {} /\ Latest # {} =>
       \/ Panel = "error"
       \/ Panel = "report" /\ report.proof = lookups[Cardinality(Latest)].id /\ report.proof \in reported

\* (Not so.)  What is measured under a proof is "the same report"'s.
ReportIsOfOne == Panel = "report" => report.measured \in {report.proof, None}

\* (Not so.)  With lookups that overlap, the last one asked for is shown.
OverlapIsOrdered ==
  UnderWay = {} /\ Panel = "report" => report.proof = lookups[Cardinality(Latest)].id
=============================================================================
