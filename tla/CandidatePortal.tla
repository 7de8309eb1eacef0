--------------------------- MODULE CandidatePortal ---------------------------
(***************************************************************************)
(* One candidate's portal, from enrolment to the receipt: the exam client  *)
(* (StudentExamClient.tsx) with its camera, in one browser tab that may be *)
(* reloaded or left while a request is under way, and enrollSelf           *)
(* (exam.service.ts) step by step.  The other endpoints are one step each: *)
(* what races inside them is ExamSession's, which answer is saved when is  *)
(* AnswerSheet's.                                                          *)
(***************************************************************************)
EXTENDS Integers, Sequences

CONSTANTS
  Papers,     \* papers that exist
  Unknown,    \* what the candidate types when it is neither a paper nor his application id
  Questions,  \* how many questions a paper has
  MaxCalls,   \* bound: how many requests are under way at once
  MaxPrompts, \* bound: how often the camera is asked for
  None

ASSUME PapersAssumption == Unknown \notin Papers /\ None \notin Papers \cup {Unknown}
ASSUME BoundsAssumption ==
  Questions \in Nat \ {0} /\ MaxCalls \in Nat /\ MaxPrompts \in Nat

VARIABLES
  \* the page
  mounted, session, loaded, needs, error, receipt,
  photo, cameraActive,
  answers, current,
  awaits,      \* the slot of the request whose answer the page waits for, 0 when none
  \* the browser
  prompts,     \* camera permissions asked for and not answered yet
  streams,     \* camera streams that are running
  ref,         \* whether streamRef holds one of them
  \* the server
  calls,       \* the requests under way, in slots
  rows,        \* StudentExamSession, by paper
  created,     \* the papers in the order their sessions were created
  open,        \* the papers that are ready
  photoRoot,   \* the profile's photo: what became of the enrolment that brought it
  \* history
  disturbed,   \* two enrolments were under way at once, or a call inside one threw
  doubled      \* two camera prompts at once, or one answered after the page was left

form    == <<photo, cameraActive>>
exam    == <<answers, current>>
browser == <<prompts, streams, ref>>
server  == <<rows, created, open, photoRoot>>
history == <<disturbed, doubled>>
vars == <<mounted, session, loaded, needs, error, receipt, form, exam, awaits, browser, calls, server, history>>

Blank == [answered |-> FALSE, marked |-> FALSE, visited |-> FALSE]
Indices == 1..Questions
Slots == 1..MaxCalls

Request(kind, paper, withPhoto) ==
  [kind |-> kind, paper |-> paper, photo |-> withPhoto, stored |-> FALSE, reply |-> "none", view |-> None,
   at |-> CASE kind = "none" -> "free" [] kind = "enroll" -> "check" [] OTHER -> "serve"]
Free == Request("none", None, FALSE)

Init ==
  /\ mounted = FALSE /\ session = None /\ loaded = FALSE /\ needs = FALSE /\ error = FALSE
  /\ receipt = None /\ photo = FALSE /\ cameraActive = FALSE
  /\ answers = [i \in Indices |-> Blank] /\ current = 1 /\ awaits = 0
  /\ prompts = 0 /\ streams = 0 /\ ref = FALSE
  /\ calls = [i \in Slots |-> Free] /\ rows = [p \in Papers |-> "none"] /\ created = <<>>
  /\ open = {} /\ photoRoot = "none"
  /\ disturbed = FALSE /\ doubled = FALSE

-----------------------------------------------------------------------------
(* What the page shows                                                     *)

InExam == session # None /\ session.status = "IN_PROGRESS" /\ loaded

\* The first of the component's returns that applies.
Screen ==
  IF ~mounted            THEN "none"
  ELSE IF receipt # None THEN "submitted"
  ELSE IF needs          THEN "enrol"
  ELSE IF error          THEN "error"
  ELSE IF session = None THEN "loading"
  ELSE IF InExam         THEN "exam"
                         ELSE "assessment"

Idle == awaits = 0

\* The buttons that are there and not disabled.
CanEnrol  == Screen = "enrol" /\ Idle
CanStart  == Screen = "assessment" /\ session.ready /\ Idle
CanSubmit == Screen = "exam" /\ Idle
CanAskCamera == Screen = "enrol" /\ (photo \/ ~cameraActive)   \* Retake, Enable camera
CanCapture   == Screen = "enrol" /\ cameraActive /\ ~photo

-----------------------------------------------------------------------------
(* The page's requests                                                     *)

\* A request in a free slot; the answer that was awaited before has been consumed.
Consumed == IF awaits = 0 THEN calls ELSE [calls EXCEPT ![awaits] = Free]
Call(kind, paper, withPhoto) ==
  \E i \in Slots :
    /\ Consumed[i].at = "free"
    /\ \A j \in 1..(i - 1) : Consumed[j].at # "free"
    /\ calls' = [Consumed EXCEPT ![i] = Request(kind, paper, withPhoto)]
    /\ awaits' = i
Done == awaits' = 0 /\ calls' = Consumed

\* Nobody listens any more: an answer that came is dropped, a request goes on.
Abandoned == [i \in Slots |-> IF i = awaits /\ calls[i].at = "done" THEN Free ELSE calls[i]]

Fresh ==
  /\ session' = None /\ loaded' = FALSE /\ needs' = FALSE /\ error' = FALSE
  /\ receipt' = None /\ photo' = FALSE /\ cameraActive' = FALSE
  /\ answers' = [i \in Indices |-> Blank] /\ current' = 1

\* The component mounts with the state of a new one, and loads the session.
Open ==
  /\ ~mounted /\ mounted' = TRUE /\ Fresh
  /\ Call("session", None, FALSE)
  /\ UNCHANGED <<browser, server, history>>

\* Fault: nothing is released when the component unmounts.
LeaveRunning ==
  /\ mounted /\ mounted' = FALSE /\ Fresh
  /\ awaits' = 0 /\ calls' = Abandoned
  /\ ref' = FALSE
  /\ UNCHANGED <<prompts, streams, server, history>>

\* Sign out, or the link to the verification page: the effect's clean-up stops
\* the stream that streamRef holds.
Leave ==
  /\ mounted /\ mounted' = FALSE /\ Fresh
  /\ awaits' = 0 /\ calls' = Abandoned
  /\ ref' = FALSE /\ streams' = IF ref THEN streams - 1 ELSE streams
  /\ UNCHANGED <<prompts, server, history>>

\* A reload begins with the end of the document, its streams and prompts.
Unload ==
  /\ mounted /\ mounted' = FALSE /\ Fresh
  /\ awaits' = 0 /\ calls' = Abandoned
  /\ prompts' = 0 /\ streams' = 0 /\ ref' = FALSE /\ doubled' = FALSE
  /\ UNCHANGED <<server, disturbed>>

page == <<mounted, session, loaded, needs, error, receipt>>

EnrolPending == \E i \in Slots : calls[i].kind = "enroll"

\* onEnrollSubmit with whatever was typed.
Enrol(paper) ==
  /\ CanEnrol /\ Call("enroll", paper, photo)
  /\ disturbed' = (disturbed \/ EnrolPending)
  /\ UNCHANGED <<page, form, exam, browser, server, doubled>>

Start ==
  /\ CanStart /\ Call("start", session.paper, FALSE)
  /\ UNCHANGED <<page, form, exam, browser, server, history>>
Submit ==
  /\ CanSubmit /\ Call("submit", session.paper, FALSE)
  /\ UNCHANGED <<page, form, exam, browser, server, history>>

Came(kind) == awaits # 0 /\ calls[awaits].kind = kind /\ calls[awaits].at = "done"
Answered(kind, reply) == Came(kind) /\ calls[awaits].reply = reply
Refused(kind) == Came(kind) /\ calls[awaits].reply \in {"failed", "lost"}

\* loadSession's first answer: the session, and its questions when it is in progress.
SessionLoaded ==
  /\ Answered("session", "ok")
  /\ session' = calls[awaits].view /\ needs' = FALSE
  /\ IF session'.status = "IN_PROGRESS" THEN Call("questions", session'.paper, FALSE)
     ELSE Done
  /\ UNCHANGED <<mounted, loaded, error, receipt, form, exam, browser, server, history>>

NotEnrolled ==
  /\ Answered("session", "missing") /\ needs' = TRUE /\ Done
  /\ UNCHANGED <<mounted, session, loaded, error, receipt, form, exam, browser, server, history>>

\* The enrolment succeeded: load the session.
Enrolled ==
  /\ Answered("enroll", "ok") /\ Call("session", None, FALSE)
  /\ UNCHANGED <<page, form, exam, browser, server, history>>

\* enrollError is shown under the form.
EnrolRefused ==
  /\ Refused("enroll") /\ Done
  /\ UNCHANGED <<page, form, exam, browser, server, history>>

\* The questions of startExam or of a resumption: a sheet with nothing on it.
QuestionsShown(kind) ==
  /\ Answered(kind, "ok") /\ Done
  /\ loaded' = TRUE /\ answers' = [i \in Indices |-> Blank]
  /\ session' = [session EXCEPT !.status = "IN_PROGRESS"]
  /\ UNCHANGED <<mounted, needs, error, receipt, form, current, browser, server, history>>

Submitted ==
  /\ Answered("submit", "ok") /\ Done /\ receipt' = session.paper
  /\ UNCHANGED <<mounted, session, loaded, needs, error, form, exam, browser, server, history>>

\* Fault: the answer of a failed request is taken, and the page goes on waiting (no finally).
FailedBusy(kind) ==
  /\ Refused(kind) /\ error' = TRUE /\ ~error
  /\ UNCHANGED <<mounted, session, loaded, needs, receipt, form, exam, awaits, browser, calls, server, history>>

\* setError: from now on the error screen, until the page is loaded again.
Failed(kind) ==
  /\ Refused(kind) /\ error' = TRUE /\ Done
  /\ UNCHANGED <<mounted, session, loaded, needs, receipt, form, exam, browser, server, history>>

Receive ==
  \/ SessionLoaded \/ NotEnrolled \/ Enrolled \/ EnrolRefused \/ Submitted
  \/ \E kind \in {"questions", "start"} : QuestionsShown(kind)
  \/ \E kind \in {"session", "questions", "start", "submit"} : Failed(kind)

-----------------------------------------------------------------------------
(* The exam screen and the camera                                          *)

\* saveAnswer's patch of the sheet, and what the request asks of AnswerSheet.
Touch(patch) ==
  /\ Screen = "exam"
  /\ answers' = [answers EXCEPT ![current] = [patch EXCEPT !.visited = TRUE]]
  /\ UNCHANGED <<page, form, awaits, browser, calls, server, history>>

Choose == Touch([answers[current] EXCEPT !.answered = TRUE]) /\ UNCHANGED current
Clear  == Touch([answers[current] EXCEPT !.answered = FALSE]) /\ UNCHANGED current
Mark   == Touch([answers[current] EXCEPT !.marked = ~@]) /\ UNCHANGED current
SaveAndNext == current < Questions /\ Touch(answers[current]) /\ current' = current + 1

\* Previous, or a button of the palette.
GoTo(i) ==
  /\ Screen = "exam" /\ i # current /\ current' = i
  /\ UNCHANGED <<page, form, answers, awaits, browser, calls, server, history>>

\* startCamera, or retakePhoto, which drops the photo first.
AskCamera ==
  /\ CanAskCamera /\ prompts + streams < MaxPrompts
  /\ prompts' = prompts + 1 /\ photo' = FALSE
  /\ doubled' = (doubled \/ prompts > 0)
  /\ UNCHANGED <<page, cameraActive, exam, awaits, streams, ref, calls, server, disturbed>>

\* getUserMedia resolves; a stream that streamRef held before is forgotten, and
\* nobody looks whether the component is still there.
CameraStarts ==
  /\ prompts > 0 /\ prompts' = prompts - 1
  /\ streams' = streams + 1 /\ ref' = TRUE
  /\ cameraActive' = (mounted \/ cameraActive)
  /\ doubled' = (doubled \/ ~mounted \/ ref)
  /\ UNCHANGED <<page, photo, exam, awaits, calls, server, disturbed>>

CameraRefused ==
  /\ prompts > 0 /\ prompts' = prompts - 1
  /\ UNCHANGED <<page, form, exam, awaits, streams, ref, calls, server, history>>

Capture ==
  /\ CanCapture /\ photo' = TRUE /\ cameraActive' = FALSE
  /\ ref' = FALSE /\ streams' = IF ref THEN streams - 1 ELSE streams
  /\ UNCHANGED <<page, exam, awaits, prompts, calls, server, history>>

-----------------------------------------------------------------------------
(* The server                                                              *)

At(i, at) == calls[i].at = at
Ended(c, reply) == [c EXCEPT !.at = "done", !.reply = reply]
\* The answer; nobody keeps one that nobody waits for.
Answer(i, answer) == calls' = [calls EXCEPT ![i] = IF i = awaits THEN answer ELSE Free]
Finish(i, reply) == Answer(i, Ended(calls[i], reply))
Step(i, at) == calls' = [calls EXCEPT ![i].at = at]
client == <<page, form, exam, awaits, browser>>

\* Fault: whether the candidate is enrolled is only found out by the insert.
EnrolCheckLate(i) ==
  /\ At(i, "check")
  /\ IF calls[i].paper = Unknown THEN Finish(i, "failed")
     ELSE Step(i, IF calls[i].photo THEN "photo" ELSE "create")
  /\ UNCHANGED <<client, server, history>>

\* enrollSelf: the application id, the paper, no session of his for it.
EnrolCheck(i) ==
  /\ At(i, "check")
  /\ IF calls[i].paper = Unknown \/ rows[calls[i].paper] # "none"
     THEN Finish(i, "failed")
     ELSE Step(i, IF calls[i].photo THEN "photo" ELSE "create")
  /\ UNCHANGED <<client, server, history>>

\* The photo is encrypted, uploaded, and the profile names it instead of another.
EnrolPhoto(i) ==
  /\ At(i, "photo")
  /\ calls' = [j \in Slots |-> IF j = i THEN [calls[j] EXCEPT !.at = "create", !.stored = TRUE]
                              ELSE [calls[j] EXCEPT !.stored = FALSE]]
  /\ photoRoot' = "pending"
  /\ UNCHANGED <<client, rows, created, open, history>>

\* What becomes of the enrolment that brought the profile's photo.
PhotoFate(i, fate) == photoRoot' = IF calls[i].stored THEN fate ELSE photoRoot

\* session.create under the unique key (studentId, paperId), and the audit row.
EnrolCreate(i) ==
  /\ At(i, "create")
  /\ IF rows[calls[i].paper] = "none"
     THEN /\ rows' = [rows EXCEPT ![calls[i].paper] = "NOT_STARTED"]
          /\ created' = Append(created, calls[i].paper)
          /\ Finish(i, "ok") /\ PhotoFate(i, "accepted")
     ELSE Finish(i, "failed") /\ PhotoFate(i, "refused") /\ UNCHANGED <<rows, created>>
  /\ UNCHANGED <<client, open, history>>

\* A call inside enrollSelf throws: before any write of the step.
EnrolThrows(i) ==
  /\ At(i, "check") \/ At(i, "photo") \/ At(i, "create")
  /\ Finish(i, "failed") /\ PhotoFate(i, "refused") /\ disturbed' = TRUE
  /\ UNCHANGED <<client, rows, created, open, doubled>>

\* The sessions that are not over, in the order they were created.
Active == {n \in DOMAIN created : rows[created[n]] \in {"NOT_STARTED", "IN_PROGRESS"}}

View(p) == [paper |-> p, status |-> rows[p], ready |-> p \in open]

\* getSessionView: findCurrentForStudent takes the newest.
ViewSession(i) ==
  /\ At(i, "serve") /\ calls[i].kind = "session"
  /\ \/ Active = {} /\ Finish(i, "missing")
     \/ \E n \in Active :
          /\ \A m \in Active : m <= n
          /\ Answer(i, [Ended(calls[i], "ok") EXCEPT !.view = View(created[n])])
  /\ UNCHANGED <<client, server, history>>

\* Fault: the answer comes before the row is written.
ServeEarly(i, kind, from, to) ==
  /\ At(i, "serve") /\ calls[i].kind = kind
  /\ rows[calls[i].paper] = from
  /\ Finish(i, "ok")
  /\ UNCHANGED <<client, server, history>>

Serve(i, kind, from, to) ==
  /\ At(i, "serve") /\ calls[i].kind = kind
  /\ rows[calls[i].paper] = from
  /\ rows' = [rows EXCEPT ![calls[i].paper] = to]
  /\ Finish(i, "ok")
  /\ UNCHANGED <<client, created, open, photoRoot, history>>

\* startExam once the paper is ready and its window is open; the resumption; submitExam.
ServeStart(i) ==
  /\ At(i, "serve") /\ calls[i].kind = "start" /\ calls[i].paper \in open
  /\ Serve(i, "start", "NOT_STARTED", "IN_PROGRESS")
ServeQuestions(i) == Serve(i, "questions", "IN_PROGRESS", "IN_PROGRESS")
ServeSubmit(i) == Serve(i, "submit", "IN_PROGRESS", "SUBMITTED")

\* Any of them refuses or fails; also what a reload finds when the cache is gone.
ServeFails(i) ==
  /\ At(i, "serve") /\ Finish(i, "failed")
  /\ UNCHANGED <<client, server, history>>

\* The answer of a request that took effect is lost on the way.
Lose(i) ==
  /\ i = awaits /\ At(i, "done") /\ calls[i].reply = "ok"
  /\ calls' = [calls EXCEPT ![i].reply = "lost"]
  /\ UNCHANGED <<client, server, history>>

\* The paper is sealed; until its window opens, and after it, startExam refuses.
PaperReady(p) ==
  /\ p \notin open /\ open' = open \cup {p}
  /\ UNCHANGED <<client, calls, rows, created, photoRoot, history>>

-----------------------------------------------------------------------------
Handle(i) ==
  \/ EnrolCheck(i) \/ EnrolPhoto(i) \/ EnrolCreate(i)
  \/ ViewSession(i) \/ ServeStart(i) \/ ServeQuestions(i) \/ ServeSubmit(i) \/ ServeFails(i)

Next ==
  \/ Open \/ Leave \/ Unload \/ Receive
  \/ \E p \in Papers \cup {Unknown} : Enrol(p)
  \/ Start \/ Submit
  \/ Choose \/ Clear \/ Mark \/ SaveAndNext \/ \E i \in Indices : GoTo(i)
  \/ AskCamera \/ CameraStarts \/ CameraRefused \/ Capture
  \/ \E i \in Slots : Handle(i) \/ EnrolThrows(i) \/ Lose(i)
  \/ \E p \in Papers : PaperReady(p)

Spec == Init /\ [][Next]_vars

\* The server answers every request, and React renders every answer.
FairSpec == Spec /\ WF_vars(Receive) /\ \A i \in Slots : WF_vars(Handle(i))

-----------------------------------------------------------------------------
(* Correctness                                                             *)

Views == {None} \cup [paper: Papers, status: {"NOT_STARTED", "IN_PROGRESS"}, ready: BOOLEAN]

\* Every variable holds a value of its kind; the page waits for a request that
\* was sent, and shows the exam and the receipt of a session it was given.
TypeOK ==
  /\ mounted \in BOOLEAN /\ loaded \in BOOLEAN /\ needs \in BOOLEAN /\ error \in BOOLEAN
  /\ session \in Views
  /\ receipt \in Papers \cup {None}
  /\ photo \in BOOLEAN /\ cameraActive \in BOOLEAN
  /\ answers \in [Indices -> [answered: BOOLEAN, marked: BOOLEAN, visited: BOOLEAN]]
  /\ current \in Indices
  /\ calls \in [Slots -> [kind: {"none", "session", "questions", "enroll", "start", "submit"},
                          paper: Papers \cup {Unknown, None}, photo: BOOLEAN, stored: BOOLEAN,
                          at: {"free", "check", "photo", "create", "serve", "done"},
                          reply: {"none", "ok", "failed", "missing", "lost"}, view: Views]]
  /\ awaits \in Slots \cup {0} /\ photoRoot \in {"none", "pending", "accepted", "refused"}
  /\ \A i \in Slots : calls[i].at = "done" => i = awaits
  /\ awaits # 0 => mounted /\ calls[awaits].at # "free"
  /\ loaded \/ receipt # None => session # None
  /\ prompts \in 0..MaxPrompts /\ streams \in 0..MaxPrompts /\ ref \in BOOLEAN
  /\ rows \in [Papers -> {"none", "NOT_STARTED", "IN_PROGRESS", "SUBMITTED"}]
  /\ created \in Seq(Papers)
  /\ open \subseteq Papers
  /\ disturbed \in BOOLEAN /\ doubled \in BOOLEAN

\* The page never claims more than the server did, whatever answers were lost
\* or came after a reload: a receipt is of a submitted session, an exam screen
\* of one that was started, an assessment of one that exists.
ScreenIsEarned ==
  /\ Screen = "submitted" => rows[receipt] = "SUBMITTED"
  /\ Screen = "exam" => rows[session.paper] \in {"IN_PROGRESS", "SUBMITTED"}
  /\ Screen = "assessment" => rows[session.paper] # "none"

\* With enrolments one at a time the profile has the photo of one that was not
\* refused, whatever was typed, lost or tried again.  Only a request that
\* overlaps another, as after a reload, can be refused and leave its photo.
RefusedLeavesNoPhoto ==
  ~disturbed => photoRoot # "refused"

\* With one camera prompt at a time, answered while the page was there, the
\* camera is off once the page was left.
CameraIsReleased == ~doubled /\ ~mounted => streams = 0

\* The page does not wait for ever: not loading, not starting, not submitting.
PageStopsWaiting == awaits # 0 ~> awaits = 0

-----------------------------------------------------------------------------
(* What a comment says and the code does not keep.                         *)

\* "Release the camera on unmount regardless of which screen we leave from."
\* False when the camera is enabled twice, or the permission is given after the
\* page was left: only the last stream is in streamRef, and only at unmount.
CameraReleasedOnUnmount == ~mounted /\ prompts = 0 => streams = 0

=============================================================================
