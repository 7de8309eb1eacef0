-------------------------- MODULE QuestionPipeline --------------------------
(***************************************************************************)
(* One question, from a teacher's draft to the question bank:              *)
(* teacher.service.ts submits it and enqueues a job, BullMQ delivers the   *)
(* job to a worker up to MaxAttempts times, and every delivery runs        *)
(* questionPipeline.service.ts from the top: AI validation on 0G Compute,  *)
(* encryption, upload to 0G Storage, anchor in QuestionRegistry.           *)
(*                                                                         *)
(* A run is named by its job and its number.  It names the AI report, the  *)
(* storage root and the transaction the run produced, which no other run   *)
(* shares; the content hash is the same for every run of a question.       *)
(***************************************************************************)
EXTENDS Integers, FiniteSets

CONSTANTS
  Submits,      \* submit requests of the teacher; each enqueues at most one job
  MaxAttempts,  \* defaultJobOptions.attempts of the queue
  MaxStalls,    \* BullMQ maxStalledCount: redeliveries after a worker died
  FaultStages,  \* bound: the steps at which a call may throw or the process die
  None          \* a null column, an empty contract slot

Runs == Submits \X (1..(MaxAttempts + MaxStalls))

ASSUME LimitsAssumption ==
  MaxAttempts \in Nat \ {0} /\ MaxStalls \in Nat

ASSUME NullAssumption == None \notin Runs

VARIABLES
  status,   \* Question.status
  draft,    \* Question.draftPayload is still there
  row,      \* the run whose root, hash and transaction the row names
  report,   \* AIValidationReport: the run that made it and its verdict
  blobs,    \* the runs whose ciphertext is in 0G Storage
  anchor,   \* QuestionRegistry.anchors[questionId], by the run that wrote it
  mirror,   \* the runs with a ChainAnchor row
  audit,    \* the kinds of audit log rows written for the question
  pc,       \* where each submit request is
  job,      \* the state of each submit's job in the queue
  fails,    \* its failed attempts
  stalls,   \* its deliveries lost to a crash
  stage,    \* where the run of an active job is
  read,     \* the row the run read had a draft payload
  passed,   \* the verdict the run got from 0G Compute
  faults,   \* history: calls of a run that threw
  crashes   \* history: times the process died

vars == <<status, draft, row, report, blobs, anchor, mirror, audit, pc, job,
          fails, stalls, stage, read, passed, faults, crashes>>

question == <<status, draft, row>>
ledger   == <<blobs, anchor, mirror>>
queue    == <<job, fails, stalls>>
local    == <<read, passed>>

RunStages   == {"markValidating", "validate", "saveReport", "auditReport", "markRejected",
                "auditEncryption", "upload", "auditUpload", "anchor", "recordAnchor",
                "auditAnchor", "markAccepted", "finish"}
AuditKinds  == {"TEACHER_SUBMISSION", "AI_VALIDATION", "ENCRYPTION", "STORAGE_UPLOAD", "CHAIN_ANCHOR"}
TeacherSteps == {"markSubmitted", "auditSubmission", "enqueue"}

\* The run a job is on, or will be on when delivered again.
Run(j) == <<j, fails[j] + stalls[j] + 1>>

Goto(r, from, to) == pc[r] = from /\ pc' = [pc EXCEPT ![r] = to]

Advance(j, from, to) ==
  /\ job[j] = "active" /\ stage[j] = from
  /\ stage' = [stage EXCEPT ![j] = to]

\* The attempt throws: BullMQ counts it and delivers the job again after the
\* backoff, until its attempts are used up.
AttemptFails(j) ==
  /\ fails' = [fails EXCEPT ![j] = @ + 1]
  /\ job'   = [job EXCEPT ![j] = IF fails[j] + 1 < MaxAttempts THEN "waiting" ELSE "failed"]
  /\ stage' = [stage EXCEPT ![j] = "finish"]
  /\ UNCHANGED stalls

\* A draft just created: questionRepository.createDraft.
Init ==
  /\ status = "DRAFT" /\ draft = TRUE /\ row = None /\ report = None
  /\ blobs = {} /\ anchor = None /\ mirror = {} /\ audit = {}
  /\ pc = [r \in Submits |-> "idle"]
  /\ job = [r \in Submits |-> "none"]
  /\ fails = [r \in Submits |-> 0] /\ stalls = [r \in Submits |-> 0]
  /\ stage = [r \in Submits |-> "finish"]
  /\ read = [r \in Submits |-> FALSE]
  /\ passed = [r \in Submits |-> FALSE]
  /\ faults = 0 /\ crashes = 0

-----------------------------------------------------------------------------
(* teacher.service.ts submitQuestion                                       *)

SubmitCheck(r) ==
  /\ status = "DRAFT"
  /\ Goto(r, "idle", "markSubmitted")
  /\ UNCHANGED <<question, report, ledger, audit, queue, stage, local, faults, crashes>>

\* An update by id, whatever the status is by now.
SubmitMark(r) ==
  /\ Goto(r, "markSubmitted", "auditSubmission")
  /\ status' = "SUBMITTED"
  /\ UNCHANGED <<draft, row, report, ledger, audit, queue, stage, local, faults, crashes>>

SubmitAudit(r) ==
  /\ Goto(r, "auditSubmission", "enqueue")
  /\ audit' = audit \cup {"TEACHER_SUBMISSION"}
  /\ UNCHANGED <<question, report, ledger, queue, stage, local, faults, crashes>>

SubmitEnqueue(r) ==
  /\ Goto(r, "enqueue", "done")
  /\ job' = [job EXCEPT ![r] = "waiting"]
  /\ UNCHANGED <<question, report, ledger, audit, fails, stalls, stage, local, faults, crashes>>

\* A call of the request throws, or the API process died: see Crash.
SubmitAborts(r) ==
  /\ pc[r] \in TeacherSteps \cap FaultStages
  /\ pc' = [pc EXCEPT ![r] = "failed"]
  /\ UNCHANGED <<question, report, ledger, audit, queue, stage, local, faults, crashes>>

-----------------------------------------------------------------------------
(* questionPipeline.service.ts runQuestionPipeline                         *)

\* Fault: only a question no run has touched.
RunnableOnce == status = "SUBMITTED"

\* VALIDATING is accepted so that an attempt can follow one that failed.
Runnable == status \in {"SUBMITTED", "VALIDATING"}

\* A worker takes the job and reads the question.
JobBegins(j) ==
  /\ job[j] = "waiting"
  /\ Runnable
  /\ job' = [job EXCEPT ![j] = "active"]
  /\ stage' = [stage EXCEPT ![j] = IF status = "SUBMITTED" THEN "markValidating" ELSE "validate"]
  /\ read' = [read EXCEPT ![j] = draft]
  /\ UNCHANGED <<question, report, ledger, audit, pc, fails, stalls, passed, faults, crashes>>

\* Any other status is a 409, which fails the attempt.
JobRefused(j) ==
  /\ job[j] = "waiting"
  /\ ~Runnable
  /\ AttemptFails(j)
  /\ UNCHANGED <<question, report, ledger, audit, pc, local, faults, crashes>>

\* Fault: the plaintext is cleared on the transition out of SUBMITTED.
MarkValidatingClearing(j) ==
  /\ Advance(j, "markValidating", "validate")
  /\ status' = "VALIDATING" /\ draft' = FALSE
  /\ UNCHANGED <<row, report, ledger, audit, pc, queue, local, faults, crashes>>

MarkValidating(j) ==
  /\ Advance(j, "markValidating", "validate")
  /\ status' = "VALIDATING"
  /\ UNCHANGED <<draft, row, report, ledger, audit, pc, queue, local, faults, crashes>>

\* 0G Compute answers, and passesThresholds decides; the model is free to
\* answer differently to every run.
Validate(j) ==
  /\ read[j]
  /\ Advance(j, "validate", "saveReport")
  /\ \E verdict \in BOOLEAN : passed' = [passed EXCEPT ![j] = verdict]
  /\ UNCHANGED <<question, report, ledger, audit, pc, queue, read, faults, crashes>>

\* draft.text on a payload already cleared: a TypeError.
ValidateNothing(j) ==
  /\ job[j] = "active" /\ stage[j] = "validate" /\ ~read[j]
  /\ AttemptFails(j)
  /\ UNCHANGED <<question, report, ledger, audit, pc, local, faults, crashes>>

\* Fault: a create that leaves the report of an earlier run in place.
SaveReportOnce(j) ==
  /\ Advance(j, "saveReport", "auditReport")
  /\ report' = IF report = None THEN [run |-> Run(j), passed |-> passed[j]] ELSE report
  /\ UNCHANGED <<question, ledger, audit, pc, queue, local, faults, crashes>>

\* validationReportRepository.upsert. The update branch renews the verdict and
\* the model's findings; the model name, the provider's address, the trust mode
\* and the attestation's reference stay those of the first run. They are no part
\* of report: no property is about them.
SaveReport(j) ==
  /\ Advance(j, "saveReport", "auditReport")
  /\ report' = [run |-> Run(j), passed |-> passed[j]]
  /\ UNCHANGED <<question, ledger, audit, pc, queue, local, faults, crashes>>

AuditReport(j) ==
  /\ Advance(j, "auditReport", IF passed[j] THEN "auditEncryption" ELSE "markRejected")
  /\ audit' = audit \cup {"AI_VALIDATION"}
  /\ UNCHANGED <<question, report, ledger, pc, queue, local, faults, crashes>>

\* markRejected sets the status and nothing else.
MarkRejected(j) ==
  /\ Advance(j, "markRejected", "finish")
  /\ status' = "REJECTED"
  /\ UNCHANGED <<draft, row, report, ledger, audit, pc, queue, local, faults, crashes>>

AuditEncryption(j) ==
  /\ Advance(j, "auditEncryption", "upload")
  /\ audit' = audit \cup {"ENCRYPTION"}
  /\ UNCHANGED <<question, report, ledger, pc, queue, local, faults, crashes>>

Upload(j) ==
  /\ Advance(j, "upload", "auditUpload")
  /\ blobs' = blobs \cup {Run(j)}
  /\ UNCHANGED <<question, report, anchor, mirror, audit, pc, queue, local, faults, crashes>>

AuditUpload(j) ==
  /\ Advance(j, "auditUpload", "anchor")
  /\ audit' = audit \cup {"STORAGE_UPLOAD"}
  /\ UNCHANGED <<question, report, ledger, pc, queue, local, faults, crashes>>

\* Fault: the contract without its require.
AnchorQuestionUnguarded(j) ==
  /\ Advance(j, "anchor", "recordAnchor")
  /\ anchor' = Run(j)
  /\ UNCHANGED <<question, report, blobs, mirror, audit, pc, queue, local, faults, crashes>>

\* Mined: the slot of the question was empty.
AnchorQuestion(j) ==
  /\ anchor = None
  /\ Advance(j, "anchor", "recordAnchor")
  /\ anchor' = Run(j)
  /\ UNCHANGED <<question, report, blobs, mirror, audit, pc, queue, local, faults, crashes>>

\* require(anchors[questionId].blockTimestamp == 0, "already anchored")
AnchorReverts(j) ==
  /\ job[j] = "active" /\ stage[j] = "anchor" /\ anchor # None
  /\ AttemptFails(j)
  /\ UNCHANGED <<question, report, ledger, audit, pc, local, faults, crashes>>

\* Fault: the anchor is not mirrored.
RecordAnchorForgotten(j) ==
  /\ Advance(j, "recordAnchor", "auditAnchor")
  /\ UNCHANGED <<question, report, ledger, audit, pc, queue, local, faults, crashes>>

RecordAnchor(j) ==
  /\ Advance(j, "recordAnchor", "auditAnchor")
  /\ mirror' = mirror \cup {Run(j)}
  /\ UNCHANGED <<question, report, blobs, anchor, audit, pc, queue, local, faults, crashes>>

AuditAnchor(j) ==
  /\ Advance(j, "auditAnchor", "markAccepted")
  /\ audit' = audit \cup {"CHAIN_ANCHOR"}
  /\ UNCHANGED <<question, report, ledger, pc, queue, local, faults, crashes>>

\* One update: the status, the proof, and the plaintext set to null.
MarkAccepted(j) ==
  /\ Advance(j, "markAccepted", "finish")
  /\ status' = "ACCEPTED" /\ draft' = FALSE /\ row' = Run(j)
  /\ UNCHANGED <<report, ledger, audit, pc, queue, local, faults, crashes>>

\* The worker reports the job done to BullMQ.
JobCompletes(j) ==
  /\ job[j] = "active" /\ stage[j] = "finish"
  /\ job' = [job EXCEPT ![j] = "completed"]
  /\ UNCHANGED <<question, report, ledger, audit, pc, fails, stalls, stage, local, faults, crashes>>

-----------------------------------------------------------------------------
(* Failures                                                                *)

\* An awaited call throws: 0G Compute unreachable, an upload that fails, a
\* transaction dropped or mined while tx.wait() throws (the latter is
\* AnchorQuestion and then this at recordAnchor), a database error.
CallThrows(j) ==
  /\ job[j] = "active" /\ stage[j] \in FaultStages
  /\ AttemptFails(j)
  /\ faults' = faults + 1
  /\ UNCHANGED <<question, report, ledger, audit, pc, local, crashes>>

\* The process, which serves requests and runs workers, dies and restarts.
\* BullMQ finds the active jobs stalled and delivers them again, MaxStalls
\* times at most.
Crash ==
  /\ \E r \in Submits : pc[r] \in TeacherSteps \/ job[r] = "active"
  /\ \A r \in Submits :
       /\ pc[r] \in TeacherSteps => pc[r] \in FaultStages
       /\ job[r] = "active" => stage[r] \in FaultStages
  /\ pc' = [r \in Submits |-> IF pc[r] \in TeacherSteps THEN "failed" ELSE pc[r]]
  /\ job' = [r \in Submits |->
               IF job[r] # "active" THEN job[r]
               ELSE IF stalls[r] < MaxStalls THEN "waiting" ELSE "failed"]
  /\ stalls' = [r \in Submits |->
               IF job[r] = "active" /\ stalls[r] < MaxStalls THEN stalls[r] + 1 ELSE stalls[r]]
  /\ crashes' = crashes + 1
  /\ UNCHANGED <<question, report, ledger, audit, fails, stage, local, faults>>

-----------------------------------------------------------------------------
Request(r) == SubmitMark(r) \/ SubmitAudit(r) \/ SubmitEnqueue(r)

Work(j) ==
  \/ JobBegins(j) \/ JobRefused(j) \/ MarkValidating(j) \/ Validate(j) \/ ValidateNothing(j)
  \/ SaveReport(j) \/ AuditReport(j) \/ MarkRejected(j) \/ AuditEncryption(j)
  \/ Upload(j) \/ AuditUpload(j) \/ AnchorQuestion(j) \/ AnchorReverts(j)
  \/ RecordAnchor(j) \/ AuditAnchor(j) \/ MarkAccepted(j) \/ JobCompletes(j)

Next ==
  \/ \E r \in Submits : SubmitCheck(r) \/ Request(r) \/ SubmitAborts(r)
  \/ \E j \in Submits : Work(j) \/ CallThrows(j)
  \/ Crash

Spec == Init /\ [][Next]_vars

\* The event loop gets back to every handler in flight, and a worker to every
\* waiting job and to a run it has begun; new requests and failures are under
\* nobody's control.
FairSpec == Spec /\ \A j \in Submits : WF_vars(Request(j)) /\ WF_vars(Work(j))

-----------------------------------------------------------------------------
(* Correctness                                                             *)

\* Every variable holds a value of its kind; a job exists once its request has
\* enqueued it, and has attempts left while it may run.
TypeOK ==
  /\ status \in {"DRAFT", "SUBMITTED", "VALIDATING", "ACCEPTED", "REJECTED"}
  /\ draft \in BOOLEAN /\ row \in Runs \cup {None}
  /\ report \in [run: Runs, passed: BOOLEAN] \cup {None}
  /\ blobs \subseteq Runs /\ anchor \in Runs \cup {None} /\ mirror \subseteq Runs
  /\ audit \subseteq AuditKinds
  /\ pc \in [Submits -> TeacherSteps \cup {"idle", "done", "failed"}]
  /\ job \in [Submits -> {"none", "waiting", "active", "completed", "failed"}]
  /\ fails \in [Submits -> 0..MaxAttempts] /\ stalls \in [Submits -> 0..MaxStalls]
  /\ \A j \in Submits : pc[j] # "done" => job[j] = "none"
  /\ \A j \in Submits : job[j] \in {"none", "waiting", "active"} => fails[j] < MaxAttempts
  /\ stage \in [Submits -> RunStages]
  /\ read \in [Submits -> BOOLEAN]
  /\ passed \in [Submits -> BOOLEAN]
  /\ faults \in Nat /\ crashes \in Nat

\* A question with a proof has the whole of it, whichever of several jobs and
\* redeliveries wrote it: the row names the anchored run, whose ciphertext is
\* stored and mirrored, the audit trail has every stage, and the plaintext is
\* gone from Postgres.
AcceptedIsProven ==
  row # None =>
    /\ row = anchor /\ row \in blobs /\ row \in mirror
    /\ audit = AuditKinds
    /\ ~draft

\* The plaintext is dropped only once the encrypted question is stored and
\* anchored: no crash or race loses a question.
ContentNotLost == draft \/ (row # None /\ row \in blobs)

\* What is anchored was validated, encrypted, stored and audited first.
AnchorBacked ==
  anchor # None =>
    anchor \in blobs /\ {"AI_VALIDATION", "ENCRYPTION", "STORAGE_UPLOAD"} \subseteq audit

\* Redelivered runs, and rival jobs, never replace an anchor or a proof.
ProofIsFinal ==
  [][/\ anchor # None => anchor' = anchor
     /\ row # None => row' = row]_vars

\* No two submit requests found the question a draft.
Once == \E r \in Submits : \A o \in Submits \ {r} : pc[o] = "idle"

\* With a question submitted once, the report shown for an accepted question is
\* the one whose hash is on chain, although every delivery asks the model anew.
ReportMatchesChain ==
  Once /\ status = "ACCEPTED" => report.run = anchor /\ report.passed

Survivable == faults < MaxAttempts /\ crashes <= MaxStalls

\* The run that anchored the question did not get to the end.
CutShort == anchor # None /\ \A j \in Submits : job[j] = "active" => Run(j) # anchor

\* A question submitted once is decided, if fewer calls throw than the job has
\* attempts and the process dies no oftener than BullMQ redelivers, unless the
\* request died before it queued the job or a failure came after the anchor.
SubmittedIsDecided ==
  status = "SUBMITTED" ~>
    \/ status \in {"ACCEPTED", "REJECTED"}
    \/ ~Once \/ ~Survivable \/ CutShort \/ \E r \in Submits : pc[r] = "failed"

-----------------------------------------------------------------------------
(* The inductive invariant behind the safety properties.                   *)

AtOrAfter(j, stages) == job[j] = "active" /\ stage[j] \in stages

Accepting == {"markAccepted"}
Mirrored  == {"auditAnchor"} \cup Accepting
Anchored  == {"recordAnchor"} \cup Mirrored
Anchoring == {"anchor"} \cup Anchored
Uploaded  == {"auditUpload"} \cup Anchoring
Encrypted == {"upload"} \cup Uploaded
Passed    == {"auditEncryption"} \cup Encrypted

\* What job j, or its request, has already left behind it, stage by stage.
Progress(j) ==
  /\ job[j] # "none" \/ pc[j] = "enqueue" => "TEACHER_SUBMISSION" \in audit
  /\ AtOrAfter(j, Passed) => "AI_VALIDATION" \in audit
  /\ AtOrAfter(j, Encrypted) => "ENCRYPTION" \in audit
  /\ AtOrAfter(j, Uploaded) => Run(j) \in blobs
  /\ AtOrAfter(j, Anchoring) => "STORAGE_UPLOAD" \in audit
  /\ AtOrAfter(j, Anchored) => anchor = Run(j)
  /\ AtOrAfter(j, Mirrored) => Run(j) \in mirror
  /\ AtOrAfter(j, Accepting) => "CHAIN_ANCHOR" \in audit

\* The strengthening that every step preserves.
IInv ==
  /\ \A j \in Submits : Progress(j)
  /\ AcceptedIsProven /\ ContentNotLost /\ AnchorBacked

-----------------------------------------------------------------------------
(* What the documentation says and the code does not keep.                 *)

\* "rejecting that as an invalid state would turn every transient failure into
\* a permanent stuck state instead of a real retry" (questionPipeline.service.ts):
\* a job does not end undecided for want of attempts that nothing made fail.
\* False once the failure comes after the anchor.
TransientFailureRecovers ==
  \A j \in Submits : job[j] = "failed" /\ Survivable => status \in {"ACCEPTED", "REJECTED"}

\* "Anchors a hash of each accepted question's encrypted content and its AI
\* validation report" (QuestionRegistry.sol): a rejected question is not in the
\* registry.  False: a retry after the anchor may be rejected.
RejectedNotAnchored == status = "REJECTED" => anchor = None

\* "Cleared on the transition out of SUBMITTED" (DATABASE.md), "cleared once
\* ACCEPTED/REJECTED" (schema.prisma).  False of REJECTED.
DraftCleared == status \in {"ACCEPTED", "REJECTED"} => ~draft

=============================================================================
