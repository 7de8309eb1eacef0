------------------------------ MODULE AuthorDesk ------------------------------
(***************************************************************************)
(* The author's two pages: the form that submits a question and polls it   *)
(* (SubmitQuestion.tsx) and the history with its reports                   *)
(* (QuestionHistory.tsx), over teacher.service.ts and the pipeline.  Of    *)
(* the pipeline only what the pages show is kept, one run of a question at *)
(* a time: QuestionPipeline has all of it, and the runs that overlap.      *)
(*                                                                         *)
(* The form is filled or not: whether the fields a submission needs hold   *)
(* an item.  A question has the number of the click that submitted it.     *)
(***************************************************************************)
EXTENDS Integers

CONSTANTS
  MaxSubmits,  \* bound: how often Submit is clicked
  MaxErrors    \* bound: how many calls fail

Questions == 1..MaxSubmits
Decisions == {"ACCEPTED", "REJECTED"}

VARIABLES
  questions,  \* the rows, with their AIValidationReport
  jobs,       \* where each question's run is
  path,       \* the page shown
  filled,     \* the form
  stage, status, verdict,  \* the panel: verdict is the report it shows
  submits,    \* the onSubmit calls
  list,       \* QuestionHistory: the rows it got
  selected, detail, loading, \* the question selected, the one whose report came, -1 once a call failed
  details,    \* the questions whose selectQuestion awaits its answer
  errors      \* bound: calls that failed

bank    == <<questions, jobs>>
panel   == <<stage, status, verdict>>
form    == <<filled, panel, submits>>
history == <<list, selected, detail, loading, details>>
vars == <<bank, path, form, history, errors>>

NoQuestion == [status |-> "none", report |-> "none"]
NoSubmit   == [at |-> "none", here |-> FALSE, status |-> "none", report |-> "none"]

Init ==
  /\ questions = [q \in Questions |-> NoQuestion] /\ jobs = [q \in Questions |-> "none"]
  /\ path = "submit" /\ filled = FALSE /\ stage = "idle" /\ status = "none" /\ verdict = "none"
  /\ submits = [q \in Questions |-> NoSubmit]
  /\ list = {} /\ selected = 0 /\ detail = 0 /\ loading = FALSE /\ details = {} /\ errors = 0

-----------------------------------------------------------------------------
(* The server: teacher.service.ts                                          *)

Goes(q, from, to) == submits[q].at = from /\ submits' = [submits EXCEPT ![q].at = to]
Fails == errors < MaxErrors /\ errors' = errors + 1

\* createDraft
ServeCreate(q) ==
  /\ Goes(q, "creating", "created") /\ questions' = [questions EXCEPT ![q].status = "DRAFT"]
  /\ UNCHANGED <<jobs, path, filled, panel, history, errors>>

\* submitQuestion: the question is a DRAFT, markSubmitted, the audit entry.
ServeSubmit(q) ==
  /\ Goes(q, "submitting", "marked") /\ questions' = [questions EXCEPT ![q].status = "SUBMITTED"]
  /\ UNCHANGED <<jobs, path, filled, panel, history, errors>>

\* submitQuestion: validationQueue.add, the reply.
ServeEnqueue(q) ==
  /\ Goes(q, "marked", "submitted") /\ jobs' = [jobs EXCEPT ![q] = "queued"]
  /\ UNCHANGED <<questions, path, filled, panel, history, errors>>

\* getQuestionDetail for the poll: Prisma reads the question, then its report.
ServeStatus(q) ==
  /\ submits[q].at = "ask"
  /\ submits' = [submits EXCEPT ![q].at = "half", ![q].status = questions[q].status]
  /\ UNCHANGED <<bank, path, filled, panel, history, errors>>
ServeReport(q) ==
  /\ submits[q].at = "half"
  /\ submits' = [submits EXCEPT ![q].at = "read", ![q].report = questions[q].report]
  /\ UNCHANGED <<bank, path, filled, panel, history, errors>>

-----------------------------------------------------------------------------
(* The server: runQuestionPipeline                                         *)

Judged(r) == IF r = "pass" THEN "ACCEPTED" ELSE "REJECTED"

Begin(q) ==
  /\ jobs[q] = "queued" /\ jobs' = [jobs EXCEPT ![q] = "begun"]
  /\ questions' = [questions EXCEPT ![q].status = "VALIDATING"]
  /\ UNCHANGED <<path, form, history, errors>>

\* Fault: the status is written before the report it rests on.
JudgeEarly(q, r) ==
  /\ jobs[q] = "begun" /\ jobs' = [jobs EXCEPT ![q] = "judged"]
  /\ questions' = [questions EXCEPT ![q].status = IF r = "fail" THEN Judged(r) ELSE @, ![q].report = IF r = "fail" THEN @ ELSE r]
  /\ UNCHANGED <<path, form, history, errors>>

\* validateQuestion and the report's upsert.
Judge(q, r) ==
  /\ jobs[q] = "begun" /\ jobs' = [jobs EXCEPT ![q] = "judged"]
  /\ questions' = [questions EXCEPT ![q].report = r]
  /\ UNCHANGED <<path, form, history, errors>>

\* markRejected, or markAccepted after encryption, upload and anchor.
Decide(q) ==
  /\ jobs[q] = "judged" /\ jobs' = [jobs EXCEPT ![q] = "over"]
  /\ questions' = [questions EXCEPT ![q].status = Judged(questions[q].report)]
  /\ UNCHANGED <<path, form, history, errors>>

\* A run fails and is tried again, or was the last attempt.
Retry(q) ==
  /\ jobs[q] \in {"begun", "judged"} /\ Fails /\ \E j \in {"queued", "over"} : jobs' = [jobs EXCEPT ![q] = j]
  /\ UNCHANGED <<questions, path, form, history>>

-----------------------------------------------------------------------------
(* SubmitQuestion                                                          *)

\* Every field can be edited at any time, also while a submission is under way.
Type ==
  /\ path = "submit" /\ filled' = ~filled
  /\ UNCHANGED <<bank, path, panel, submits, history, errors>>

Busy == stage \in {"creating", "submitting", "pipeline"}

\* onSubmit, up to the first POST.  The last outcome's badge stays.
Submit(q) ==
  /\ path = "submit" /\ ~Busy /\ filled
  /\ \A o \in Questions : (o < q) <=> (submits[o].at # "none")
  /\ verdict' = "none" /\ stage' = "creating"
  /\ submits' = [submits EXCEPT ![q] = [NoSubmit EXCEPT !.at = "creating", !.here = TRUE]]
  /\ UNCHANGED <<bank, path, filled, status, history, errors>>

Stage(q, s) == stage' = IF submits[q].here THEN s ELSE stage

\* The draft's id has come: the second POST.
Created(q) ==
  /\ Goes(q, "created", "submitting") /\ Stage(q, "submitting")
  /\ UNCHANGED <<bank, path, filled, status, verdict, history, errors>>

\* pollStatus: the first poll.
Submitted(q) ==
  /\ Goes(q, "submitted", "ask") /\ Stage(q, "pipeline")
  /\ UNCHANGED <<bank, path, filled, status, verdict, history, errors>>

\* pollStatus: not decided; sleep, and ask again until the 120 seconds are
\* over, after which the stage stays "pipeline".
Undecided(q) ==
  /\ submits[q].at = "read" /\ submits[q].status \notin Decisions
  /\ \E to \in {"ask", "over"} : submits' = [submits EXCEPT ![q] = [NoSubmit EXCEPT !.at = to, !.here = submits[q].here]]
  /\ status' = IF submits[q].here THEN submits[q].status ELSE status
  /\ UNCHANGED <<bank, path, filled, stage, verdict, history, errors>>

\* resetForm
ResetForm == filled' = FALSE

\* pollStatus returns.
Over(q) == [submits EXCEPT ![q] = [NoSubmit EXCEPT !.at = "over", !.here = submits[q].here]]

\* pollStatus: the outcome, its report, and resetForm.
Decided(q) ==
  /\ submits[q].at = "read" /\ submits[q].status \in Decisions
  /\ submits' = Over(q) /\ Stage(q, "done")
  /\ IF submits[q].here
     THEN status' = submits[q].status /\ verdict' = submits[q].report /\ ResetForm
     ELSE UNCHANGED <<status, verdict, filled>>
  /\ UNCHANGED <<bank, path, history, errors>>

\* A call fails, before or after it was served: the catch.
SubmitFails(q) ==
  /\ submits[q].at \in {"creating", "created", "submitting", "marked", "submitted", "ask", "half", "read"} /\ Fails
  /\ submits' = Over(q) /\ Stage(q, "error")
  /\ UNCHANGED <<bank, path, filled, status, verdict, history>>

-----------------------------------------------------------------------------
(* QuestionHistory                                                         *)

\* What the page asked for goes on without it; its polls, which only read,
\* are left out from there on.
Away ==
  [q \in Questions |-> IF submits[q].at \in {"ask", "half", "read"} THEN [NoSubmit EXCEPT !.at = "over"]
                                                                   ELSE [submits[q] EXCEPT !.here = FALSE]]

\* The author goes to the other page.
GoTo(p) ==
  /\ path # p /\ path' = p
  /\ filled' = FALSE /\ stage' = "idle" /\ status' = "none" /\ verdict' = "none"
  /\ submits' = Away /\ details' = {}
  /\ list' = {} /\ selected' = 0 /\ detail' = 0 /\ loading' = FALSE
  /\ UNCHANGED <<bank, errors>>

\* listQuestions, newest first: the rows there are.
List ==
  /\ path = "history" /\ list = {}
  /\ list' = {q \in Questions : questions[q].status # "none"}
  /\ UNCHANGED <<bank, path, form, selected, detail, loading, details, errors>>

\* selectQuestion, up to the await.
Select(q) ==
  /\ path = "history" /\ q \in list \ details
  /\ selected' = q /\ detail' = 0 /\ loading' = TRUE /\ details' = details \cup {q}
  /\ UNCHANGED <<bank, path, form, list, errors>>

\* getQuestionDetail, setDetail, whatever is selected by now, and finally.
Detailed(q) ==
  /\ q \in details /\ detail' = (IF detail = -1 THEN -1 ELSE q) /\ loading' = FALSE /\ details' = details \ {q}
  /\ UNCHANGED <<bank, path, form, list, selected, errors>>

\* setDetailError, which hides any answer until the next click, and finally.
DetailFails(q) ==
  /\ q \in details /\ Fails /\ detail' = -1 /\ loading' = FALSE /\ details' = details \ {q}
  /\ UNCHANGED <<bank, path, form, list, selected>>

Next ==
  \/ List \/ Type
  \/ \E p \in {"submit", "history"} : GoTo(p)
  \/ \E q \in Questions :
       \/ ServeCreate(q) \/ ServeSubmit(q) \/ ServeEnqueue(q) \/ ServeStatus(q) \/ ServeReport(q)
       \/ Begin(q) \/ Decide(q) \/ Retry(q) \/ \E r \in {"pass", "fail"} : Judge(q, r)
       \/ Submit(q) \/ Created(q) \/ Submitted(q) \/ Undecided(q) \/ Decided(q) \/ SubmitFails(q)
       \/ Select(q) \/ Detailed(q) \/ DetailFails(q)

Spec == Init /\ [][Next]_vars

-----------------------------------------------------------------------------
(* What the page shows                                                     *)

\* The four steps of the panel.
StepState ==
  [draft |-> CASE stage = "idle" -> "pending" [] stage = "error" -> "failed" [] OTHER -> "done",
   submitted |-> CASE stage = "submitting" -> "active" [] stage \in {"pipeline", "done"} -> "done" [] OTHER -> "pending",
   validating |-> CASE stage = "pipeline" -> "active" [] stage = "done" -> "done" [] OTHER -> "pending",
   outcome |-> IF stage # "done" THEN "pending" ELSE IF status = "REJECTED" THEN "failed" ELSE "done"]

\* The history's card beside the list.
ReportCard ==
  IF selected = 0     THEN "Nothing selected"
  ELSE IF loading     THEN "Loading report"
  ELSE IF detail = -1 THEN "error"
                      ELSE "report"

\* The report under the steps: a threshold is marked as breached.
Breached == verdict = "fail"

-----------------------------------------------------------------------------
(* Properties                                                              *)

TypeOK ==
  /\ questions \in [Questions -> [report : {"none", "pass", "fail"}, status : {"none", "DRAFT", "SUBMITTED", "VALIDATING"} \cup Decisions]]
  /\ jobs \in [Questions -> {"none", "queued", "begun", "judged", "over"}]
  /\ path \in {"submit", "history"} /\ filled \in BOOLEAN
  /\ stage \in {"idle", "creating", "submitting", "pipeline", "done", "error"}
  /\ status \in {"none", "SUBMITTED", "VALIDATING"} \cup Decisions /\ verdict \in {"none", "pass", "fail"}
  /\ list \subseteq Questions /\ details \subseteq list
  /\ selected \in list \cup {0} /\ detail \in list \cup {0, -1} /\ loading \in BOOLEAN /\ errors \in 0..MaxErrors

\* The submission this page is following.
Followed == {q \in Questions : submits[q].here}
Latest == CHOOSE q \in Followed : \A o \in Followed : o <= q

\* The outcome shown is the question's, and the report under it is the one it
\* rests on: a rejection shows a report that fails, however the poll's two
\* reads fall among the steps of a run that may have been tried before.
OutcomeIsExplained ==
  stage = "done" =>
    /\ questions[Latest].status = status /\ questions[Latest].report = verdict
    /\ StepState.outcome = "failed" <=> Breached

\* (Not so.)  The step "Draft created: written to the question bank" is ticked
\* for a question that is there.
DraftStepIsSo == StepState.draft = "done" => questions[Latest].status # "none"

\* (Not so.)  "Submission failed": nothing was submitted.
FailureIsSo == stage = "error" => questions[Latest].status \in {"none", "DRAFT"}

\* (Not so.)  The report shown is of the question that is selected.
DetailIsOfSelected == ReportCard = "report" => detail = selected
=============================================================================
