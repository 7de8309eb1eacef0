----------------------------- MODULE Verification -----------------------------
(***************************************************************************)
(* The public check of a result: the Verify page (Verify.tsx) over         *)
(* verify.service.ts, which derives every hash again from 0G Storage, the  *)
(* database and 0G Chain, while sessions are submitted and evaluated.      *)
(*                                                                         *)
(* A candidate's sessions are for different papers.  Each has one set of   *)
(* answers and so one score, and a hash is written as the session it is    *)
(* of.  submitExam is taken whole (ExamSession has its steps); of the      *)
(* evaluation of a session the steps are kept whose order a check that     *)
(* runs meanwhile can see (Evaluation has its jobs).                       *)
(***************************************************************************)
EXTENDS Integers, Sequences

CONSTANTS
  Sessions,     \* the sessions of one candidate
  MaxChecks,    \* bound: how often Verify is clicked
  MaxOutages,   \* bound: how many calls fail
  None

Checks == 1..MaxChecks

VARIABLES
  submitted,   \* the sessions in the order of submittedAt
  kept,      \* the sessions whose answers 0G Storage has
  commitments, \* SubmissionRegistry, keyed by session
  registry,    \* ResultRegistry, keyed by candidate: the session in the slot
  mined,       \* the sessions with a ResultRegistry transaction
  anchors,     \* the ResultRegistry rows of ChainAnchor
  results,     \* the EvaluationResult rows
  evaluated,   \* the sessions whose status is EVALUATED
  marking,     \* where the evaluation of each session is
  checks,      \* the calls of verifyStudentResult
  outcome,     \* what the page shows: the number of a check, 0 for nothing
  verified,    \* the VERIFICATION_CHECK rows
  outages      \* bound: calls that failed

exams  == <<submitted, kept, commitments>>
scores == <<registry, mined, anchors, results, evaluated, marking>>
vars == <<exams, scores, checks, outcome, verified, outages>>

\* A check, with the session it read and the fields of its reply so far; slot
\* is a history: what the ResultRegistry held when the result was checked.
NoCheck == [at |-> "none", known |-> FALSE, session |-> None, clean |-> TRUE,
            storage |-> FALSE, submission |-> FALSE, answer |-> FALSE, commitment |-> FALSE,
            result |-> FALSE, tx |-> FALSE, slot |-> None]

Init ==
  /\ submitted = <<>> /\ kept = {} /\ commitments = {}
  /\ registry = None /\ mined = {} /\ anchors = {} /\ results = {} /\ evaluated = {}
  /\ marking = [s \in Sessions |-> "none"]
  /\ checks = [c \in Checks |-> NoCheck] /\ outcome = 0 /\ verified = {} /\ outages = 0

Fails == outages < MaxOutages /\ outages' = outages + 1

-----------------------------------------------------------------------------
(* Sessions are submitted and evaluated                                    *)

Position(s) == CHOOSE i \in DOMAIN submitted : submitted[i] = s
IsSubmitted(s) == \E i \in DOMAIN submitted : submitted[i] = s

\* submitExam
Submit(s) ==
  /\ ~IsSubmitted(s) /\ submitted' = submitted \o <<s>>
  /\ kept' = kept \cup {s} /\ commitments' = commitments \cup {s}
  /\ UNCHANGED <<scores, checks, outcome, verified, outages>>

\* runEvaluationPipeline lists the session: it is SUBMITTED.
Evaluate(s) ==
  /\ IsSubmitted(s) /\ s \notin evaluated /\ marking[s] = "none"
  /\ marking' = [marking EXCEPT ![s] = "scored"]
  /\ UNCHANGED <<exams, registry, mined, anchors, results, evaluated, checks, outcome, verified, outages>>

Step(s, from, to) == marking[s] = from /\ marking' = [marking EXCEPT ![s] = to]

\* ResultRegistry.anchorResult: the candidate's one slot.
AnchorResult(s) ==
  /\ Step(s, "scored", "anchored") /\ registry' = s /\ mined' = mined \cup {s}
  /\ UNCHANGED <<exams, anchors, results, evaluated, checks, outcome, verified, outages>>

\* Fault: the mirror's row is left out.
RecordNothing(s) ==
  /\ Step(s, "anchored", "recorded")
  /\ UNCHANGED <<exams, registry, mined, anchors, results, evaluated, checks, outcome, verified, outages>>

\* chainAnchorRepository.record
RecordAnchor(s) ==
  /\ Step(s, "anchored", "recorded") /\ anchors' = anchors \cup {s}
  /\ UNCHANGED <<exams, registry, mined, results, evaluated, checks, outcome, verified, outages>>

\* evaluationResultRepository.create; a second one is refused.
CreateResult(s) ==
  /\ s \notin results /\ Step(s, "recorded", "created") /\ results' = results \cup {s}
  /\ UNCHANGED <<exams, registry, mined, anchors, evaluated, checks, outcome, verified, outages>>

\* markEvaluated
MarkEvaluated(s) ==
  /\ Step(s, "created", "none") /\ evaluated' = evaluated \cup {s}
  /\ UNCHANGED <<exams, registry, mined, anchors, results, checks, outcome, verified, outages>>

\* A step throws, or the process dies; another run starts over.
EvaluationStops(s) ==
  /\ marking[s] # "none" /\ Fails /\ marking' = [marking EXCEPT ![s] = "none"]
  /\ UNCHANGED <<exams, registry, mined, anchors, results, evaluated, checks, outcome, verified>>

-----------------------------------------------------------------------------
(* verifyStudentResult                                                     *)

World == <<exams, scores>>
At(c, from) == checks[c].at = from

\* The candidate by applicationId and date of birth: one answer for an
\* unknown id and for a wrong date.  The photo is best effort.
Identify(c) ==
  /\ At(c, "sent") /\ checks' = [checks EXCEPT ![c].at = IF checks[c].known THEN "known" ELSE "audit"]
  /\ UNCHANGED <<World, outcome, verified, outages>>

\* findLatestEvaluatedForStudent, by submittedAt; without a session only the
\* identity matches.
ReadSession(c) ==
  /\ At(c, "known")
  /\ \/ /\ evaluated = {} /\ checks' = [checks EXCEPT ![c].at = "audit"]
     \/ \E s \in evaluated :
          /\ \A o \in evaluated : Position(o) <= Position(s)
          /\ checks' = [checks EXCEPT ![c].at = IF s \in results THEN "storage" ELSE "audit",
                                      ![c].session = IF s \in results THEN s ELSE None]
  /\ UNCHANGED <<World, outcome, verified, outages>>

\* downloadVerified, decrypt, hash; the mirror's row; the contract.  What
\* throws leaves the fields after it false.
CheckSubmission(c) ==
  LET s == checks[c].session IN
  /\ At(c, "storage") /\ checks' = [checks EXCEPT ![c].at = "result",
       ![c].storage = s \in kept, ![c].submission = s \in kept,
       ![c].answer = s \in commitments, ![c].commitment = s \in commitments]
  /\ UNCHANGED <<World, outcome, verified, outages>>

\* The catch: the download, the mirror or the contract.
CheckSubmissionFails(c) ==
  LET s == checks[c].session IN
  /\ At(c, "storage") /\ Fails
  /\ \E got \in {"nothing", "answers", "mirror"} :
       checks' = [checks EXCEPT ![c].at = "result", ![c].clean = FALSE,
         ![c].storage = got # "nothing", ![c].submission = got # "nothing", ![c].answer = got = "mirror"]
  /\ UNCHANGED <<World, outcome, verified>>

\* The result's hash again, and the ResultRegistry row of the session in the
\* mirror.
CheckResult(c) ==
  /\ At(c, "result")
  /\ checks' = [checks EXCEPT ![c].at = "tx", ![c].result = checks[c].session \in results \cap anchors, ![c].slot = registry]
  /\ UNCHANGED <<World, outcome, verified, outages>>

\* verifyTransaction, for both transactions.
CheckTx(c) ==
  LET s == checks[c].session IN
  /\ At(c, "tx") /\ checks' = [checks EXCEPT ![c].at = "audit", ![c].tx = s \in commitments \cap mined]
  /\ UNCHANGED <<World, outcome, verified, outages>>

\* The VERIFICATION_CHECK entry, in all three cases, and the reply.
AuditCheck(c) ==
  /\ At(c, "audit") /\ verified' = verified \cup {c} /\ checks' = [checks EXCEPT ![c].at = "replied"]
  /\ UNCHANGED <<World, outcome, outages>>

Overall(c) ==
  LET r == checks[c] IN r.submission /\ r.answer /\ r.result /\ r.storage /\ r.tx /\ r.commitment

-----------------------------------------------------------------------------
(* The page                                                                *)

InFlight == {c \in Checks : checks[c].at \notin {"none", "shown", "failed"}}

\* onSubmit, up to the await; the button waits for the last answer.
Click(c, known) ==
  /\ InFlight = {} /\ \A o \in Checks : (o < c) <=> ~At(o, "none")
  /\ checks' = [checks EXCEPT ![c] = [NoCheck EXCEPT !.at = "sent", !.known = known]] /\ outcome' = 0
  /\ UNCHANGED <<World, verified, outages>>

Show(c) ==
  /\ At(c, "replied") /\ checks' = [checks EXCEPT ![c].at = "shown"] /\ outcome' = c
  /\ UNCHANGED <<World, verified, outages>>

\* A read or a receipt fails, which nothing catches: 500; or no answer.
CheckFails(c) ==
  /\ c \in InFlight /\ Fails /\ checks' = [checks EXCEPT ![c].at = "failed"]
  /\ UNCHANGED <<World, outcome, verified>>

Next ==
  \/ \E s \in Sessions : \/ Submit(s) \/ Evaluate(s) \/ AnchorResult(s) \/ RecordAnchor(s)
                         \/ CreateResult(s) \/ MarkEvaluated(s) \/ EvaluationStops(s)
  \/ \E c \in Checks :
       \/ Identify(c) \/ ReadSession(c) \/ CheckSubmission(c) \/ CheckSubmissionFails(c)
       \/ CheckResult(c) \/ CheckTx(c) \/ AuditCheck(c)
       \/ Show(c) \/ CheckFails(c) \/ \E known \in BOOLEAN : Click(c, known)

Spec == Init /\ [][Next]_vars

\* The page's headline.
Headline ==
  IF outcome = 0 THEN "none"
  ELSE CASE Overall(outcome) -> "VERIFIED"
         [] ~Overall(outcome) /\ checks[outcome].known -> "PARTIALLY VERIFIED"
         [] OTHER -> "NOT FOUND"

-----------------------------------------------------------------------------
(* Properties                                                              *)

TypeOK ==
  /\ kept \subseteq Sessions /\ commitments \subseteq Sessions
  /\ \A i \in DOMAIN submitted : submitted[i] \in Sessions
  /\ registry \in Sessions \cup {None} /\ mined \subseteq Sessions /\ anchors \subseteq Sessions
  /\ results \subseteq Sessions /\ evaluated \subseteq Sessions
  /\ marking \in [Sessions -> {"none", "scored", "anchored", "recorded", "created"}]
  /\ \A c \in Checks : checks[c].at \in {"none", "sent", "known", "storage", "result", "tx", "audit", "replied", "shown", "failed"}
  /\ outcome \in 0..MaxChecks /\ verified \subseteq Checks /\ outages \in 0..MaxOutages

\* "VERIFIED" is shown of a session whose answers are kept and committed on
\* chain and whose result was anchored in a transaction of its own, and the
\* check that says so was recorded.
VerifiedIsBacked ==
  Headline = "VERIFIED" =>
    LET s == checks[outcome].session IN
    /\ s \in kept \cap commitments \cap mined \cap anchors \cap results \cap evaluated
    /\ outcome \in verified

\* A candidate with an evaluated result is never told less than "VERIFIED" by
\* a check in which every call was answered, however the check falls among
\* the steps of evaluations, or of runs that were tried again.
EvaluatedVerifies ==
  outcome # 0 /\ checks[outcome].clean /\ checks[outcome].session # None => Headline = "VERIFIED"

\* (Not so.)  The "Result hash" that is ticked "matches DB and 0G Chain's
\* ResultRegistry".
ResultIsInRegistry ==
  outcome # 0 /\ checks[outcome].result => checks[outcome].slot = checks[outcome].session
=============================================================================
