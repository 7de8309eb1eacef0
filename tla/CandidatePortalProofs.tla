----------------------- MODULE CandidatePortalProofs -----------------------
(***************************************************************************)
(* What TLAPS proves of CandidatePortal, for any number of papers,         *)
(* questions, requests under way and camera prompts.                       *)
(***************************************************************************)
EXTENDS CandidatePortal, TLAPS

-----------------------------------------------------------------------------
(* The camera                                                              *)

\* Until two prompts overlap, one stream runs at most, and streamRef holds it;
\* a page that was left has let go of it.
CameraInv ==
  /\ mounted \in BOOLEAN /\ ref \in BOOLEAN /\ doubled \in BOOLEAN
  /\ ~doubled => /\ ref => streams = 1
                 /\ ~ref => streams = 0
                 /\ ~mounted => ~ref

lens == <<mounted, streams, ref, doubled>>

LEMMA ReceiveIsBlind == Receive => UNCHANGED lens
<1> USE DEF lens, browser, server, history, page
<1>1. SessionLoaded \/ NotEnrolled \/ Enrolled => UNCHANGED lens
  BY DEF SessionLoaded, NotEnrolled, Enrolled
<1>2. EnrolRefused \/ Submitted => UNCHANGED lens
  BY DEF EnrolRefused, Submitted
<1>3. ASSUME NEW kind, QuestionsShown(kind) \/ Failed(kind) PROVE UNCHANGED lens
  BY <1>3 DEF QuestionsShown, Failed
<1> QED
  BY <1>1, <1>2, <1>3 DEF Receive

LEMMA ServerIsBlind ==
  ASSUME NEW i \in Slots, Handle(i) \/ EnrolThrows(i) \/ Lose(i)
  PROVE  UNCHANGED lens
<1> USE DEF lens, browser, history, page, client
<1>1. CASE EnrolCheck(i) \/ EnrolPhoto(i) \/ EnrolCreate(i) \/ ViewSession(i) \/ ServeFails(i)
  BY <1>1 DEF EnrolCheck, EnrolPhoto, EnrolCreate, ViewSession, ServeFails
<1>2. CASE ServeStart(i) \/ ServeQuestions(i) \/ ServeSubmit(i)
  BY <1>2 DEF ServeStart, ServeQuestions, ServeSubmit, Serve
<1>3. CASE EnrolThrows(i) \/ Lose(i)
  BY <1>3 DEF EnrolThrows, Lose
<1> QED
  BY <1>1, <1>2, <1>3 DEF Handle

LEMMA CameraStep == CameraInv /\ [Next]_vars => CameraInv'
<1> SUFFICES ASSUME CameraInv, [Next]_vars PROVE CameraInv'
  OBVIOUS
<1> USE DEF CameraInv, form, exam, browser, server, history, page, client
<1>1. CASE Open
  BY <1>1 DEF Open
<1>2. CASE Leave \/ Unload
  <2>1. CASE Unload
    BY <2>1 DEF Unload
  <2>2. CASE Leave
    <3>1. mounted' = FALSE /\ ref' = FALSE /\ doubled' = doubled /\ streams' = IF ref THEN streams - 1 ELSE streams
      BY <2>2 DEF Leave
    <3>2. ~doubled => streams' = 0
      BY <3>1
    <3> QED
      BY <3>1, <3>2
  <2> QED
    BY <1>2, <2>1, <2>2
<1>3. CASE UNCHANGED lens
  BY <1>3 DEF lens
<1>4. CASE (\E p \in Papers \cup {Unknown} : Enrol(p)) \/ Start \/ Submit
  <2>1. UNCHANGED lens
    BY <1>4 DEF Enrol, Start, Submit, lens
  <2> QED
    BY <1>3, <2>1
<1>5. CASE Choose \/ Clear \/ Mark \/ SaveAndNext \/ \E i \in Indices : GoTo(i)
  BY <1>5 DEF Choose, Clear, Mark, SaveAndNext, GoTo, Touch
<1>6. CASE AskCamera
  <2>1. UNCHANGED <<mounted, streams, ref>> /\ doubled' = (doubled \/ prompts > 0)
    BY <1>6 DEF AskCamera
  <2>2. doubled' \in BOOLEAN /\ (doubled => doubled')
    BY <2>1, Zenon
  <2> QED
    BY <2>1, <2>2
<1>7. CASE CameraRefused
  BY <1>7 DEF CameraRefused
<1>8. CASE CameraStarts
  <2>1. mounted' = mounted /\ streams' = streams + 1 /\ ref' = TRUE /\ doubled' = (doubled \/ ~mounted \/ ref)
    BY <1>8 DEF CameraStarts
  <2>2. doubled' \in BOOLEAN /\ (~doubled' => ~doubled /\ mounted /\ ~ref)
    BY <2>1, Zenon
  <2> QED
    BY <2>1, <2>2
<1>9. CASE Capture
  <2>1. mounted' = mounted /\ ref' = FALSE /\ doubled' = doubled /\ streams' = IF ref THEN streams - 1 ELSE streams
    BY <1>9 DEF Capture
  <2>2. ~doubled => streams' = 0
    BY <2>1
  <2> QED
    BY <2>1, <2>2
<1>10. CASE \E p \in Papers : PaperReady(p)
  BY <1>10 DEF PaperReady
<1>11. CASE UNCHANGED vars
  BY <1>11 DEF vars
<1> QED
  BY <1>1, <1>2, <1>3, <1>4, <1>5, <1>6, <1>7, <1>8, <1>9, <1>10, <1>11, ReceiveIsBlind, ServerIsBlind DEF Next

\* A candidate who enabled the camera once at a time leaves with it off
\* (startCamera, capturePhoto, retakePhoto and the effect's clean-up).
THEOREM CameraGoesOff == Spec => []CameraIsReleased
<1>1. Init => CameraInv
  BY DEF Init, CameraInv
<1>2. CameraInv => CameraIsReleased
  BY DEF CameraInv, CameraIsReleased
<1> QED
  BY <1>1, <1>2, CameraStep, PTL DEF Spec

-----------------------------------------------------------------------------
(* Enrolments                                                              *)

\* A slot's request, whatever the paper it names and the session it answers.
Requesting(P, V) ==
  [kind: {"none", "session", "questions", "enroll", "start", "submit"},
   paper: P \cup {None}, photo: BOOLEAN, stored: BOOLEAN,
   at: {"free", "check", "photo", "create", "serve", "done"},
   reply: {"none", "ok", "failed", "missing", "lost"}, view: V \cup {None}]

Enrolling == {"check", "photo", "create"}

Shape ==
  /\ \E P, V : calls \in [Slots -> Requesting(P, V)]
  /\ awaits \in Slots \cup {0} /\ photo \in BOOLEAN /\ disturbed \in BOOLEAN
  /\ rows \in [Papers -> {"none", "NOT_STARTED", "IN_PROGRESS", "SUBMITTED"}]

\* The enrolment handlers, slot by slot: what enrollSelf has checked stays true
\* while no other enrolment is under way.
EnrolInv ==
  /\ Shape
  /\ \A i \in Slots :
       /\ calls[i].at \in Enrolling => calls[i].kind = "enroll"
       /\ calls[i].kind = "enroll" => calls[i].paper \in Papers \cup {Unknown}
  /\ ~disturbed =>
       /\ photoRoot # "refused"
       /\ \A i, j \in Slots : calls[i].kind = "enroll" /\ calls[j].kind = "enroll" => i = j
       /\ \A i \in Slots : calls[i].at \in {"photo", "create"} =>
            calls[i].paper \in Papers /\ rows[calls[i].paper] = "none"

\* A step that begins no enrolment and takes none further.
Tame ==
  /\ \E P, V : calls' \in [Slots -> Requesting(P, V)]
  /\ awaits' \in Slots \cup {0}
  /\ \A i \in Slots :
       /\ calls'[i].at \in Enrolling => calls'[i].at = calls[i].at /\ calls'[i].kind = calls[i].kind
       /\ calls'[i].kind = "enroll" => calls[i].kind = "enroll" /\ calls'[i].paper = calls[i].paper

LEMMA TameStep ==
  ASSUME EnrolInv, Tame, photo' \in BOOLEAN, UNCHANGED <<photoRoot, disturbed>>,
         rows' \in [Papers -> {"none", "NOT_STARTED", "IN_PROGRESS", "SUBMITTED"}],
         \A p \in Papers : rows[p] = "none" => rows'[p] = "none"
  PROVE  EnrolInv'
<1>1. Shape'
  BY DEF EnrolInv, Shape, Tame
<1>2. ASSUME NEW i \in Slots
      PROVE  /\ calls'[i].at \in Enrolling => calls'[i].kind = "enroll"
             /\ calls'[i].kind = "enroll" => calls'[i].paper \in Papers \cup {Unknown}
  BY DEF EnrolInv, Tame
<1>3. ASSUME ~disturbed'
      PROVE  /\ photoRoot' # "refused"
             /\ \A i, j \in Slots : calls'[i].kind = "enroll" /\ calls'[j].kind = "enroll" => i = j
  BY <1>3 DEF EnrolInv, Tame
<1>4. ASSUME ~disturbed', NEW i \in Slots, calls'[i].at \in {"photo", "create"}
      PROVE  calls'[i].paper \in Papers /\ rows'[calls'[i].paper] = "none"
  <2>1. calls[i].at = calls'[i].at /\ calls'[i].paper = calls[i].paper
    BY <1>4 DEF EnrolInv, Tame, Enrolling
  <2> QED
    BY <1>4, <2>1 DEF EnrolInv
<1> QED
  BY <1>1, <1>2, <1>3, <1>4 DEF EnrolInv

\* The answer that was awaited is dropped.
LEMMA ConsumedShape ==
  ASSUME EnrolInv, NEW P, NEW V, calls \in [Slots -> Requesting(P, V)]
  PROVE  /\ Consumed \in [Slots -> Requesting(P, V)]
         /\ \A i \in Slots : Consumed[i] = calls[i] \/ Consumed[i] = Free
         /\ Free \in Requesting(P, V) /\ Free.at = "free" /\ Free.kind = "none"
<1>1. Free \in Requesting(P, V) /\ Free.at = "free" /\ Free.kind = "none"
  BY DEF Free, Request, Requesting
<1> QED
  BY <1>1 DEF Consumed, EnrolInv, Shape

LEMMA CallIsTame ==
  ASSUME EnrolInv, NEW kind \in {"session", "questions", "start", "submit"}, NEW paper,
         Call(kind, paper, FALSE)
  PROVE  Tame
<1>1. PICK P, V : calls \in [Slots -> Requesting(P, V)]
  BY DEF EnrolInv, Shape
<1>2. PICK i \in Slots : calls' = [Consumed EXCEPT ![i] = Request(kind, paper, FALSE)] /\ awaits' = i
  BY DEF Call
<1>3. /\ Request(kind, paper, FALSE) \in Requesting(P \cup {paper}, V)
      /\ Request(kind, paper, FALSE).at = "serve" /\ Request(kind, paper, FALSE).kind = kind
  BY DEF Request, Requesting
<1>4. /\ Consumed \in [Slots -> Requesting(P, V)]
      /\ \A k \in Slots : Consumed[k] = calls[k] \/ (Consumed[k].at = "free" /\ Consumed[k].kind = "none")
  BY <1>1, ConsumedShape
<1>5. Requesting(P, V) \subseteq Requesting(P \cup {paper}, V)
  BY DEF Requesting
<1>6. calls' \in [Slots -> Requesting(P \cup {paper}, V)]
  BY <1>2, <1>3, <1>4, <1>5
<1>7. \A k \in Slots : calls'[k] = IF k = i THEN Request(kind, paper, FALSE) ELSE Consumed[k]
  BY <1>2, <1>4
<1> QED
  BY <1>2, <1>3, <1>4, <1>6, <1>7 DEF Tame, Enrolling

LEMMA DoneIsTame == ASSUME EnrolInv, Done PROVE Tame
<1>1. PICK P, V : calls \in [Slots -> Requesting(P, V)]
  BY DEF EnrolInv, Shape
<1> QED
  BY <1>1, ConsumedShape DEF Done, Tame, Enrolling

LEMMA AbandonIsTame == ASSUME EnrolInv, awaits' = 0, calls' = Abandoned PROVE Tame
<1>1. PICK P, V : calls \in [Slots -> Requesting(P, V)]
  BY DEF EnrolInv, Shape
<1>2. Free \in Requesting(P, V) /\ Free.at = "free" /\ Free.kind = "none"
  BY <1>1, ConsumedShape
<1>3. \A i \in Slots : calls'[i] = calls[i] \/ calls'[i] = Free
  BY DEF Abandoned
<1>4. calls' \in [Slots -> Requesting(P, V)]
  BY <1>1, <1>2 DEF Abandoned
<1> QED
  BY <1>2, <1>3, <1>4 DEF Tame, Enrolling

\* A handler that ends.
LEMMA FinishIsTame ==
  ASSUME EnrolInv, NEW i \in Slots, UNCHANGED awaits,
         \/ \E reply \in {"ok", "failed", "missing", "lost"} : Finish(i, reply)
         \/ \E view : Answer(i, [Ended(calls[i], "ok") EXCEPT !.view = view])
  PROVE  Tame
<1>1. PICK P, V : calls \in [Slots -> Requesting(P, V)]
  BY DEF EnrolInv, Shape
<1>2. Free \in Requesting(P, V) /\ Free.at = "free" /\ Free.kind = "none"
  BY <1>1, ConsumedShape
<1>3. PICK answer, view :
         /\ Answer(i, answer) /\ answer \in Requesting(P, V \cup {view})
         /\ answer.at = "done" /\ answer.kind = calls[i].kind /\ answer.paper = calls[i].paper
  <2>1. ASSUME NEW reply \in {"ok", "failed", "missing", "lost"}, Finish(i, reply)
        PROVE  /\ Answer(i, Ended(calls[i], reply)) /\ Ended(calls[i], reply) \in Requesting(P, V \cup {None})
               /\ Ended(calls[i], reply).at = "done" /\ Ended(calls[i], reply).kind = calls[i].kind
               /\ Ended(calls[i], reply).paper = calls[i].paper
    BY <1>1, <2>1 DEF Finish, Ended, Requesting
  <2>2. ASSUME NEW view, Answer(i, [Ended(calls[i], "ok") EXCEPT !.view = view])
        PROVE  /\ [Ended(calls[i], "ok") EXCEPT !.view = view] \in Requesting(P, V \cup {view})
               /\ [Ended(calls[i], "ok") EXCEPT !.view = view].at = "done"
               /\ [Ended(calls[i], "ok") EXCEPT !.view = view].kind = calls[i].kind
               /\ [Ended(calls[i], "ok") EXCEPT !.view = view].paper = calls[i].paper
    BY <1>1 DEF Ended, Requesting
  <2> QED
    BY <2>1, <2>2
<1>4. Requesting(P, V) \subseteq Requesting(P, V \cup {view})
  BY DEF Requesting
<1>5. calls' \in [Slots -> Requesting(P, V \cup {view})]
  BY <1>1, <1>2, <1>3, <1>4 DEF Answer
<1>6. \A k \in Slots : calls'[k] = calls[k] \/ (k = i /\ calls'[k] \in {answer, Free})
  BY <1>1, <1>3 DEF Answer
<1>7. awaits' \in Slots \cup {0}
  BY DEF EnrolInv, Shape
<1> QED
  BY <1>2, <1>3, <1>5, <1>6, <1>7 DEF Tame, Enrolling


\* The page and the camera: a call of another kind, an answer taken or dropped.
LEMMA PageKeepsEnrolments ==
  ASSUME EnrolInv, Open \/ Leave \/ Unload \/ Receive \/ Start \/ Submit
  PROVE  EnrolInv'
<1> USE DEF server, history
<1>0. rows \in [Papers -> {"none", "NOT_STARTED", "IN_PROGRESS", "SUBMITTED"}] /\ photo \in BOOLEAN
  BY DEF EnrolInv, Shape
<1>1. CASE Open \/ Start \/ Submit
  <2>1. \E paper : Call("session", paper, FALSE) \/ Call("start", paper, FALSE) \/ Call("submit", paper, FALSE)
    BY <1>1 DEF Open, Start, Submit
  <2>2. UNCHANGED <<rows, photoRoot, disturbed>> /\ photo' \in {photo, FALSE}
    BY <1>1 DEF Open, Start, Submit, Fresh, form
  <2> QED
    BY <1>0, <2>1, <2>2, CallIsTame, TameStep
<1>2. CASE Leave \/ Unload
  <2>1. awaits' = 0 /\ calls' = Abandoned /\ UNCHANGED <<rows, photoRoot, disturbed>> /\ photo' = FALSE
    BY <1>2 DEF Leave, Unload, Fresh
  <2> QED
    BY <1>0, <2>1, AbandonIsTame, TameStep
<1>3. CASE Receive
  <2>1. UNCHANGED <<rows, photoRoot, disturbed, photo>>
    BY <1>3 DEF Receive, SessionLoaded, NotEnrolled, Enrolled, EnrolRefused, Submitted, QuestionsShown, Failed, form
  <2>2. Done \/ \E paper : Call("session", paper, FALSE) \/ Call("questions", paper, FALSE)
    BY <1>3 DEF Receive, SessionLoaded, NotEnrolled, Enrolled, EnrolRefused, Submitted, QuestionsShown, Failed
  <2> QED
    BY <1>0, <2>1, <2>2, CallIsTame, DoneIsTame, TameStep
<1> QED
  BY <1>1, <1>2, <1>3

\* What touches neither the requests nor the rows.
LEMMA NothingSent ==
  ASSUME EnrolInv, photo' \in BOOLEAN, UNCHANGED <<calls, awaits, rows, photoRoot, disturbed>>
  PROVE  EnrolInv'
<1>1. Shape'
  BY DEF EnrolInv, Shape
<1> QED
  BY <1>1 DEF EnrolInv

\* A second enrolment while one is under way is what disturbed remembers.
LEMMA EnrolKept ==
  ASSUME EnrolInv, NEW p \in Papers \cup {Unknown}, Enrol(p)
  PROVE  EnrolInv'
<1> USE DEF server
<1>1. PICK P, V : calls \in [Slots -> Requesting(P, V)]
  BY DEF EnrolInv, Shape
<1>2. awaits = 0 /\ Consumed = calls
  BY DEF Enrol, CanEnrol, Idle, Consumed
<1>3. PICK i \in Slots : calls' = [calls EXCEPT ![i] = Request("enroll", p, photo)] /\ awaits' = i /\ calls[i].at = "free"
  BY <1>2 DEF Enrol, Call
<1>4. UNCHANGED <<rows, photoRoot, photo>> /\ disturbed' = (disturbed \/ EnrolPending)
  BY DEF Enrol, form
<1>5. disturbed' \in BOOLEAN /\ (~disturbed' => ~disturbed /\ ~EnrolPending)
  BY <1>4, Zenon
<1>6. /\ Request("enroll", p, photo).kind = "enroll" /\ Request("enroll", p, photo).paper = p
      /\ Request("enroll", p, photo).at = "check"
  BY DEF Request
<1>7. \A k \in Slots : calls'[k] = IF k = i THEN Request("enroll", p, photo) ELSE calls[k]
  BY <1>1, <1>3
<1>8. Shape'
  <2>1. Request("enroll", p, photo) \in Requesting(P \cup {p}, V)
    BY DEF Request, Requesting, EnrolInv, Shape
  <2>2. Requesting(P, V) \subseteq Requesting(P \cup {p}, V)
    BY DEF Requesting
  <2>3. calls' \in [Slots -> Requesting(P \cup {p}, V)]
    BY <1>1, <1>3, <2>1, <2>2
  <2> QED
    BY <1>3, <1>4, <1>5, <2>3 DEF EnrolInv, Shape
<1>9. ASSUME ~disturbed' PROVE \A k, l \in Slots : calls'[k].kind = "enroll" /\ calls'[l].kind = "enroll" => k = l
  BY <1>5, <1>6, <1>7, <1>9 DEF EnrolPending
<1>10. ASSUME ~disturbed', NEW k \in Slots, calls'[k].at \in {"photo", "create"}
       PROVE  calls'[k].paper \in Papers /\ rows'[calls'[k].paper] = "none"
  BY <1>4, <1>5, <1>6, <1>7, <1>10 DEF EnrolInv
<1> QED
  BY <1>4, <1>5, <1>6, <1>7, <1>8, <1>9, <1>10 DEF EnrolInv, Enrolling


\* enrollSelf: the check, the photo, the row.
LEMMA HandlerKeepsEnrolments ==
  ASSUME EnrolInv, NEW i \in Slots, EnrolCheck(i) \/ EnrolPhoto(i) \/ EnrolCreate(i)
  PROVE  EnrolInv'
<1> USE DEF client, server, history, form
<1>0. rows \in [Papers -> {"none", "NOT_STARTED", "IN_PROGRESS", "SUBMITTED"}] /\ photo \in BOOLEAN /\ disturbed \in BOOLEAN
  BY DEF EnrolInv, Shape
<1>1. PICK P, V : calls \in [Slots -> Requesting(P, V)]
  BY DEF EnrolInv, Shape
<1>2. UNCHANGED <<awaits, photo, disturbed>> /\ calls[i].kind = "enroll" /\ calls[i].paper \in Papers \cup {Unknown}
  BY DEF EnrolCheck, EnrolPhoto, EnrolCreate, At, EnrolInv, Enrolling
<1>3. CASE EnrolCheck(i) /\ \E reply \in {"ok", "failed"} : Finish(i, reply)
  <2>1. UNCHANGED <<rows, photoRoot>>
    BY <1>3 DEF EnrolCheck
  <2> QED
    BY <1>0, <1>2, <1>3, <2>1, FinishIsTame, TameStep
<1>4. CASE EnrolCheck(i) /\ ~(\E reply \in {"ok", "failed"} : Finish(i, reply))
  <2>1. /\ UNCHANGED <<rows, photoRoot>>
        /\ calls[i].paper \in Papers /\ rows[calls[i].paper] = "none"
    BY <1>2, <1>4 DEF EnrolCheck
  <2>2. PICK at \in {"photo", "create"} : calls' = [calls EXCEPT ![i].at = at]
    BY <1>4 DEF EnrolCheck, Step
  <2>3. calls' \in [Slots -> Requesting(P, V)]
    BY <1>1, <2>2 DEF Requesting
  <2>4. \A k \in Slots : calls'[k].kind = calls[k].kind /\ calls'[k].paper = calls[k].paper /\ (k # i => calls'[k].at = calls[k].at)
    BY <1>1, <2>2 DEF Requesting
  <2>5. Shape'
    BY <1>0, <1>2, <2>1, <2>3 DEF EnrolInv, Shape
  <2> QED
    BY <1>2, <2>1, <2>4, <2>5 DEF EnrolInv
<1>5. CASE EnrolPhoto(i)
  <2>1. /\ rows' = rows /\ photoRoot' = "pending" /\ calls[i].at = "photo"
        /\ calls' = [j \in Slots |-> IF j = i THEN [calls[j] EXCEPT !.at = "create", !.stored = TRUE]
                                     ELSE [calls[j] EXCEPT !.stored = FALSE]]
    BY <1>5 DEF EnrolPhoto, At
  <2>2. calls' \in [Slots -> Requesting(P, V)]
    <3>1. ASSUME NEW j \in Slots
          PROVE  /\ [calls[j] EXCEPT !.at = "create", !.stored = TRUE] \in Requesting(P, V)
                 /\ [calls[j] EXCEPT !.stored = FALSE] \in Requesting(P, V)
      <4>1. calls[j] \in Requesting(P, V)
        BY <1>1
      <4> QED
        BY <4>1 DEF Requesting
    <3> QED
      BY <2>1, <3>1
  <2>3. \A k \in Slots : /\ calls'[k].kind = calls[k].kind /\ calls'[k].paper = calls[k].paper
                         /\ calls'[k].at = IF k = i THEN "create" ELSE calls[k].at
    <3> SUFFICES ASSUME NEW k \in Slots
                 PROVE  /\ calls'[k].kind = calls[k].kind /\ calls'[k].paper = calls[k].paper
                        /\ calls'[k].at = IF k = i THEN "create" ELSE calls[k].at
      OBVIOUS
    <3>1. calls[k] \in Requesting(P, V)
      BY <1>1
    <3>2. CASE k = i
      <4>1. calls'[k] = [calls[k] EXCEPT !.at = "create", !.stored = TRUE]
        BY <2>1, <3>2
      <4> QED
        BY <3>1, <3>2, <4>1 DEF Requesting
    <3>3. CASE k # i
      <4>1. calls'[k] = [calls[k] EXCEPT !.stored = FALSE]
        BY <2>1, <3>3
      <4> QED
        BY <3>1, <3>3, <4>1 DEF Requesting
    <3> QED
      BY <3>2, <3>3
  <2>4. Shape'
    BY <1>0, <1>2, <2>1, <2>2 DEF EnrolInv, Shape
  <2>5. \A k \in Slots : /\ calls'[k].at \in Enrolling => calls[k].at \in Enrolling
                         /\ calls'[k].at \in {"photo", "create"} => calls[k].at \in {"photo", "create"}
    BY <2>1, <2>3 DEF Enrolling
  <2>6. ASSUME ~disturbed'
        PROVE  /\ \A k, l \in Slots : calls'[k].kind = "enroll" /\ calls'[l].kind = "enroll" => k = l
               /\ \A k \in Slots : calls'[k].at \in {"photo", "create"} =>
                    calls'[k].paper \in Papers /\ rows'[calls'[k].paper] = "none"
    <3>1. ~disturbed
      BY <1>2, <2>6
    <3>2. ASSUME NEW k \in Slots, NEW l \in Slots, calls'[k].kind = "enroll", calls'[l].kind = "enroll" PROVE k = l
      <4>1. calls[k].kind = "enroll" /\ calls[l].kind = "enroll"
        BY <2>3, <3>2
      <4> QED
        BY <3>1, <4>1 DEF EnrolInv
    <3>3. ASSUME NEW k \in Slots, calls'[k].at \in {"photo", "create"}
          PROVE  calls'[k].paper \in Papers /\ rows'[calls'[k].paper] = "none"
      <4>1. calls'[k].paper = calls[k].paper /\ calls[k].at \in {"photo", "create"}
        BY <2>3, <2>5, <3>3
      <4> QED
        BY <2>1, <3>1, <4>1 DEF EnrolInv
    <3> QED
      BY <3>2, <3>3
  <2>7. \A k \in Slots : /\ calls'[k].at \in Enrolling => calls'[k].kind = "enroll"
                         /\ calls'[k].kind = "enroll" => calls'[k].paper \in Papers \cup {Unknown}
    BY <2>3, <2>5 DEF EnrolInv
  <2> QED
    BY <2>1, <2>4, <2>6, <2>7 DEF EnrolInv
<1>6. CASE EnrolCreate(i)
  <2>1. Tame
    BY <1>2, <1>6, FinishIsTame DEF EnrolCreate
  <2>2. rows' \in [Papers -> {"none", "NOT_STARTED", "IN_PROGRESS", "SUBMITTED"}]
    BY <1>0, <1>6 DEF EnrolCreate
  <2>3. Shape'
    BY <1>0, <1>2, <2>1, <2>2 DEF Shape, Tame
  <2>4. ASSUME ~disturbed'
        PROVE  /\ photoRoot' # "refused"
               /\ \A k \in Slots : calls'[k].at \notin {"photo", "create"}
    <3>1. calls[i].at = "create" /\ rows[calls[i].paper] = "none" /\ photoRoot # "refused"
      BY <1>2, <1>6, <2>4 DEF EnrolCreate, At, EnrolInv
    <3>2. Finish(i, "ok") /\ PhotoFate(i, "accepted")
      BY <1>6, <3>1 DEF EnrolCreate
    <3>3. calls'[i].at \notin {"photo", "create"}
      BY <1>1, <3>2 DEF Finish, Answer, Ended, Requesting, Free, Request
    <3>4. \A k \in Slots \ {i} : calls[k].kind # "enroll"
      BY <1>2, <2>4 DEF EnrolInv
    <3>5. \A k \in Slots \ {i} : calls'[k].at \notin {"photo", "create"}
      BY <2>1, <3>4 DEF Tame, Enrolling, EnrolInv
    <3> QED
      BY <3>1, <3>2, <3>3, <3>5 DEF PhotoFate
  <2>5. \A k \in Slots : /\ calls'[k].at \in Enrolling => calls'[k].kind = "enroll"
                         /\ calls'[k].kind = "enroll" => calls'[k].paper \in Papers \cup {Unknown}
    BY <2>1 DEF Tame, EnrolInv
  <2>6. ASSUME ~disturbed' PROVE \A k, l \in Slots : calls'[k].kind = "enroll" /\ calls'[l].kind = "enroll" => k = l
    BY <1>2, <2>1, <2>6 DEF Tame, EnrolInv
  <2> QED
    BY <2>3, <2>4, <2>5, <2>6 DEF EnrolInv
<1> QED
  BY <1>3, <1>4, <1>5, <1>6

\* The other handlers, an enrolment that throws, an answer that is lost.
LEMMA ServerKeepsEnrolments ==
  ASSUME EnrolInv, NEW i \in Slots, Handle(i) \/ EnrolThrows(i) \/ Lose(i)
  PROVE  EnrolInv'
<1> USE DEF client, server, history, form
<1>0. rows \in [Papers -> {"none", "NOT_STARTED", "IN_PROGRESS", "SUBMITTED"}] /\ photo \in BOOLEAN
  BY DEF EnrolInv, Shape
<1>1. CASE EnrolCheck(i) \/ EnrolPhoto(i) \/ EnrolCreate(i)
  BY <1>1, HandlerKeepsEnrolments
<1>2. CASE ViewSession(i) \/ ServeFails(i)
  <2>1. UNCHANGED <<awaits, rows, photoRoot, disturbed, photo>>
    BY <1>2 DEF ViewSession, ServeFails
  <2>2. Tame
    BY <1>2, <2>1, FinishIsTame DEF ViewSession, ServeFails
  <2> QED
    BY <1>0, <2>1, <2>2, TameStep
<1>3. CASE ServeStart(i) \/ ServeQuestions(i) \/ ServeSubmit(i)
  <2>1. /\ UNCHANGED <<awaits, photoRoot, disturbed, photo>> /\ Finish(i, "ok")
        /\ \E from \in {"NOT_STARTED", "IN_PROGRESS"}, to \in {"IN_PROGRESS", "SUBMITTED"} :
             rows[calls[i].paper] = from /\ rows' = [rows EXCEPT ![calls[i].paper] = to]
    BY <1>3 DEF ServeStart, ServeQuestions, ServeSubmit, Serve
  <2>2. Tame
    BY <2>1, FinishIsTame
  <2>3. /\ rows' \in [Papers -> {"none", "NOT_STARTED", "IN_PROGRESS", "SUBMITTED"}]
        /\ \A p \in Papers : rows[p] = "none" => rows'[p] = "none"
    BY <1>0, <2>1
  <2> QED
    BY <1>0, <2>1, <2>2, <2>3, TameStep
<1>4. CASE EnrolThrows(i)
  <2>1. UNCHANGED <<awaits, rows, photo>> /\ Finish(i, "failed") /\ disturbed' = TRUE
    BY <1>4 DEF EnrolThrows
  <2>2. Tame
    BY <2>1, FinishIsTame
  <2>3. Shape'
    BY <1>0, <2>1, <2>2 DEF Shape, Tame
  <2> QED
    BY <2>1, <2>2, <2>3 DEF EnrolInv, Tame
<1>5. CASE Lose(i)
  <2>1. PICK P, V : calls \in [Slots -> Requesting(P, V)]
    BY DEF EnrolInv, Shape
  <2>2. UNCHANGED <<awaits, rows, photoRoot, disturbed, photo>> /\ calls' = [calls EXCEPT ![i].reply = "lost"]
    BY <1>5 DEF Lose
  <2>3. calls' \in [Slots -> Requesting(P, V)]
    BY <2>1, <2>2 DEF Requesting
  <2>4. \A k \in Slots : calls'[k].kind = calls[k].kind /\ calls'[k].paper = calls[k].paper /\ calls'[k].at = calls[k].at
    BY <2>1, <2>2 DEF Requesting
  <2>5. awaits' \in Slots \cup {0}
    BY <2>2 DEF EnrolInv, Shape
  <2>6. Tame
    BY <2>3, <2>4, <2>5 DEF Tame
  <2> QED
    BY <1>0, <2>2, <2>6, TameStep
<1> QED
  BY <1>1, <1>2, <1>3, <1>4, <1>5 DEF Handle

\* With enrolments one at a time, none is refused after its photo was stored.
THEOREM PhotoOfTheEnrolled == Spec => []RefusedLeavesNoPhoto
<1>1. Init => EnrolInv
  <2> SUFFICES ASSUME Init PROVE EnrolInv
    OBVIOUS
  <2>1. calls = [i \in Slots |-> Free] /\ Free \in Requesting({}, {}) /\ Free.at = "free" /\ Free.kind = "none"
    BY DEF Init, Free, Request, Requesting
  <2>2. calls \in [Slots -> Requesting({}, {})]
    BY <2>1
  <2>3. rows \in [Papers -> {"none", "NOT_STARTED", "IN_PROGRESS", "SUBMITTED"}]
    BY DEF Init
  <2>4. Shape
    BY <2>2, <2>3 DEF Init, Shape
  <2> QED
    BY <2>1, <2>4 DEF Init, EnrolInv, Enrolling
<1>2. EnrolInv /\ [Next]_vars => EnrolInv'
  <2> SUFFICES ASSUME EnrolInv, [Next]_vars PROVE EnrolInv'
    OBVIOUS
  <2> USE DEF form, exam, server, history, page, client
  <2>0. photo \in BOOLEAN
    BY DEF EnrolInv, Shape
  <2>1. CASE Choose \/ Clear \/ Mark \/ SaveAndNext \/ \E i \in Indices : GoTo(i)
    BY <2>0, <2>1, NothingSent DEF Choose, Clear, Mark, SaveAndNext, GoTo, Touch
  <2>2. CASE AskCamera \/ CameraStarts \/ CameraRefused \/ Capture
    BY <2>0, <2>2, NothingSent DEF AskCamera, CameraStarts, CameraRefused, Capture
  <2>3. CASE \E p \in Papers : PaperReady(p)
    BY <2>0, <2>3, NothingSent DEF PaperReady
  <2>4. CASE UNCHANGED vars
    BY <2>0, <2>4, NothingSent DEF vars
  <2> QED
    BY <2>1, <2>2, <2>3, <2>4, PageKeepsEnrolments, EnrolKept, ServerKeepsEnrolments DEF Next
<1>3. EnrolInv => RefusedLeavesNoPhoto
  BY DEF EnrolInv, RefusedLeavesNoPhoto
<1> QED
  BY <1>1, <1>2, <1>3, PTL DEF Spec

-----------------------------------------------------------------------------
(* What the screen shows                                                   *)

CallSet ==
  [kind: {"none", "session", "questions", "enroll", "start", "submit"}, paper: Papers \cup {Unknown, None},
   photo: BOOLEAN, stored: BOOLEAN, at: {"free", "check", "photo", "create", "serve", "done"},
   reply: {"none", "ok", "failed", "missing", "lost"}, view: Views]
RowSet == [Papers -> {"none", "NOT_STARTED", "IN_PROGRESS", "SUBMITTED"}]
SessionSet == [paper : Papers, status : {"NOT_STARTED", "IN_PROGRESS"}, ready : BOOLEAN]
OfPaper == {"questions", "start", "submit"}
Begun == {"IN_PROGRESS", "SUBMITTED"}

\* A session as it was read is behind its row, never ahead of it.
Held(R, v) == R[v.paper] # "none" /\ (v.status = "IN_PROGRESS" => R[v.paper] \in Begun)

\* A request names what it needs to, and an answer says what the server did.
Sound(R, c) ==
  /\ c \in CallSet
  /\ c.kind \in OfPaper => c.paper \in Papers
  /\ c.at = "check" => c.paper \in Papers \cup {Unknown}
  /\ c.at \in {"check", "photo", "create"} => c.kind = "enroll"
  /\ c.at \in {"photo", "create"} => c.paper \in Papers
  /\ c.reply = "ok" =>
       /\ c.kind = "session" => c.view \in SessionSet /\ Held(R, c.view)
       /\ c.kind \in {"questions", "start"} => R[c.paper] \in Begun
       /\ c.kind = "submit" => R[c.paper] = "SUBMITTED"

PortalTypes ==
  /\ session \in Views /\ receipt \in Papers \cup {None} /\ awaits \in Slots \cup {0} /\ photo \in BOOLEAN
  /\ rows \in RowSet /\ created \in Seq(Papers) /\ calls \in [Slots -> CallSet]
AwaitsItsOwn ==
  awaits # 0 /\ calls[awaits].kind \in OfPaper =>
    session \in SessionSet /\ Held(rows, session) /\ calls[awaits].paper = session.paper

EarnedInv ==
  /\ PortalTypes /\ AwaitsItsOwn
  /\ \A i \in Slots : Sound(rows, calls[i])
  /\ session # None => Held(rows, session)
  /\ receipt # None => rows[receipt] = "SUBMITTED"

\* Rows only go on.
Grows(R, S) ==
  \A p \in Papers :
    /\ R[p] # "none" => S[p] # "none"
    /\ R[p] \in Begun => S[p] \in Begun
    /\ R[p] = "SUBMITTED" => S[p] = "SUBMITTED"

LEMMA GrowKeepsHeld ==
  ASSUME NEW R, NEW S, Grows(R, S), NEW v \in SessionSet, Held(R, v)
  PROVE  Held(S, v)
  BY DEF Grows, Held, SessionSet

LEMMA GrowKeepsSound ==
  ASSUME NEW R, NEW S, Grows(R, S), NEW c, Sound(R, c)
  PROVE  Sound(S, c)
<1>1. c.reply = "ok" /\ c.kind = "session" => Held(S, c.view)
  BY GrowKeepsHeld DEF Sound, CallSet
<1> QED
  BY <1>1 DEF Sound, Grows, OfPaper

LEMMA FreeIsSound == Free \in CallSet /\ Free.kind = "none" /\ \A R : Sound(R, Free)
<1>1. Free = [kind |-> "none", paper |-> None, photo |-> FALSE, stored |-> FALSE, reply |-> "none", view |-> None, at |-> "free"]
  BY DEF Free, Request
<1>2. None \in Views
  BY DEF Views
<1> QED
  BY <1>1, <1>2 DEF Sound, CallSet, OfPaper

LEMMA RequestIsSound ==
  ASSUME NEW kind \in {"session", "questions", "enroll", "start", "submit"}, NEW paper \in Papers \cup {Unknown, None},
         kind \in OfPaper => paper \in Papers, kind = "enroll" => paper \in Papers \cup {Unknown},
         NEW withPhoto \in BOOLEAN, NEW R
  PROVE  /\ Sound(R, Request(kind, paper, withPhoto))
         /\ Request(kind, paper, withPhoto).kind = kind /\ Request(kind, paper, withPhoto).paper = paper
<1> DEFINE at == IF kind = "enroll" THEN "check" ELSE "serve"
<1>1. Request(kind, paper, withPhoto) =
        [kind |-> kind, paper |-> paper, photo |-> withPhoto, stored |-> FALSE, reply |-> "none", view |-> None, at |-> at]
  BY DEF Request
<1>2. None \in Views
  BY DEF Views
<1> QED
  BY <1>1, <1>2 DEF Sound, CallSet, OfPaper

LEMMA EarnedInit == Init => EarnedInv
<1> SUFFICES ASSUME Init PROVE EarnedInv
  OBVIOUS
<1>1. calls = [i \in Slots |-> Free] /\ rows = [p \in Papers |-> "none"] /\ created = <<>>
      /\ session = None /\ receipt = None /\ awaits = 0 /\ photo = FALSE
  BY DEF Init
<1>2. PortalTypes
  <2>1. rows \in RowSet /\ created \in Seq(Papers) /\ session \in Views
    BY <1>1 DEF RowSet, Views
  <2> QED
    BY <1>1, <2>1, FreeIsSound DEF PortalTypes
<1> QED
  BY <1>1, <1>2, FreeIsSound DEF EarnedInv, AwaitsItsOwn

\* The page drops answers, keeps requests, and sends one more at most.
Sent ==
  /\ calls' \in [Slots -> CallSet]
  /\ \A i \in Slots : Sound(rows, calls'[i])

LEMMA ConsumedSound ==
  ASSUME EarnedInv
  PROVE  /\ Consumed \in [Slots -> CallSet]
         /\ \A i \in Slots : Sound(rows, Consumed[i])
<1>1. CASE awaits = 0
  BY <1>1 DEF Consumed, EarnedInv, PortalTypes
<1>2. CASE awaits # 0
  <2>1. Consumed = [calls EXCEPT ![awaits] = Free] /\ awaits \in Slots
    BY <1>2 DEF Consumed, EarnedInv, PortalTypes
  <2> QED
    BY <2>1, FreeIsSound DEF EarnedInv, PortalTypes
<1> QED
  BY <1>1, <1>2

LEMMA CallSends ==
  ASSUME EarnedInv, NEW kind \in {"session", "questions", "enroll", "start", "submit"},
         NEW paper \in Papers \cup {Unknown, None}, NEW withPhoto \in BOOLEAN,
         kind \in OfPaper => paper \in Papers, kind = "enroll" => paper \in Papers \cup {Unknown},
         Call(kind, paper, withPhoto)
  PROVE  Sent /\ awaits' \in Slots /\ calls'[awaits'].kind = kind /\ calls'[awaits'].paper = paper
<1>1. PICK i \in Slots : calls' = [Consumed EXCEPT ![i] = Request(kind, paper, withPhoto)] /\ awaits' = i
  BY DEF Call
<1>2. /\ Sound(rows, Request(kind, paper, withPhoto)) /\ Request(kind, paper, withPhoto).kind = kind
      /\ Request(kind, paper, withPhoto).paper = paper /\ Request(kind, paper, withPhoto) \in CallSet
  BY RequestIsSound DEF Sound
<1> QED
  BY <1>1, <1>2, ConsumedSound DEF Sent

LEMMA DropSends ==
  ASSUME EarnedInv, Done \/ (awaits' = 0 /\ calls' = Abandoned)
  PROVE  Sent /\ awaits' = 0
<1>1. CASE Done
  BY <1>1, ConsumedSound DEF Done, Sent
<1>2. CASE awaits' = 0 /\ calls' = Abandoned
  <2>1. \A i \in Slots : calls'[i] \in {calls[i], Free}
    BY <1>2 DEF Abandoned
  <2>2. calls' = [i \in Slots |-> IF i = awaits /\ calls[i].at = "done" THEN Free ELSE calls[i]]
    BY <1>2 DEF Abandoned
  <2> QED
    BY <1>2, <2>1, <2>2, FreeIsSound DEF EarnedInv, PortalTypes, Sent
<1> QED
  BY <1>1, <1>2

\* What a step of the page comes to.
LEMMA PageStaysEarned ==
  ASSUME EarnedInv, Sent, UNCHANGED <<rows, created>>, session' \in Views, receipt' \in Papers \cup {None},
         awaits' \in Slots \cup {0}, photo' \in BOOLEAN,
         session' # None => Held(rows, session'),
         receipt' # None => rows[receipt'] = "SUBMITTED",
         awaits' # 0 /\ calls'[awaits'].kind \in OfPaper =>
           session' \in SessionSet /\ Held(rows, session') /\ calls'[awaits'].paper = session'.paper
  PROVE  EarnedInv'
  BY DEF EarnedInv, Sent, PortalTypes, AwaitsItsOwn

LEMMA PageStep ==
  ASSUME EarnedInv, Open \/ Leave \/ Unload \/ Receive \/ Start \/ Submit \/ \E p \in Papers \cup {Unknown} : Enrol(p)
  PROVE  EarnedInv'
<1> USE DEF server, history, page, form
<1>0. /\ session \in Views /\ receipt \in Papers \cup {None} /\ awaits \in Slots \cup {0} /\ photo \in BOOLEAN
      /\ session # None => session \in SessionSet /\ Held(rows, session) /\ session.paper \in Papers
      /\ receipt # None => rows[receipt] = "SUBMITTED"
      /\ None \in Views
      /\ awaits # 0 => Sound(rows, calls[awaits])
      /\ "session" \notin OfPaper /\ "enroll" \notin OfPaper
  <2>1. session # None => session \in SessionSet /\ session.paper \in Papers
    BY DEF EarnedInv, PortalTypes, Views, SessionSet
  <2> QED
    BY <2>1 DEF EarnedInv, PortalTypes, Views, OfPaper
<1>1. CASE Open
  <2>1. /\ session' = None /\ receipt' = None /\ photo' = FALSE /\ UNCHANGED <<rows, created>> /\ Call("session", None, FALSE)
    BY <1>1 DEF Open, Fresh
  <2>2. Sent /\ awaits' \in Slots /\ calls'[awaits'].kind = "session"
    BY <2>1, CallSends DEF OfPaper
  <2> QED
    BY <1>0, <2>1, <2>2, PageStaysEarned
<1>2. CASE Leave \/ Unload
  <2>1. /\ session' = None /\ receipt' = None /\ photo' = FALSE /\ UNCHANGED <<rows, created>>
        /\ awaits' = 0 /\ calls' = Abandoned
    BY <1>2 DEF Leave, Unload, Fresh
  <2>2. Sent
    BY <2>1, DropSends
  <2> QED
    BY <1>0, <2>1, <2>2, PageStaysEarned
<1>3. CASE Start \/ Submit
  <2>1. PICK kind \in {"start", "submit"} : Call(kind, session.paper, FALSE)
    BY <1>3 DEF Start, Submit
  <2>2. UNCHANGED <<session, receipt, photo, rows, created>> /\ session # None
    BY <1>3, <1>0 DEF Start, Submit, CanStart, CanSubmit, Screen, InExam
  <2>3. Sent /\ awaits' \in Slots /\ calls'[awaits'].paper = session.paper
    BY <1>0, <2>1, <2>2, CallSends
  <2> QED
    BY <1>0, <2>2, <2>3, PageStaysEarned
<1>4. ASSUME NEW p \in Papers \cup {Unknown}, Enrol(p) PROVE EarnedInv'
  <2>1. UNCHANGED <<session, receipt, photo, rows, created>> /\ Call("enroll", p, photo)
    BY <1>4 DEF Enrol
  <2>2. Sent /\ awaits' \in Slots /\ calls'[awaits'].kind = "enroll"
    BY <1>0, <2>1, CallSends
  <2> QED
    BY <1>0, <2>1, <2>2, PageStaysEarned
<1>5. CASE Receive
  <2>0. UNCHANGED <<photo, rows, created>> /\ awaits # 0 /\ Sound(rows, calls[awaits])
    <3>1. UNCHANGED <<photo, rows, created>> /\ awaits # 0
      BY <1>5 DEF Receive, SessionLoaded, NotEnrolled, Enrolled, EnrolRefused, Submitted, QuestionsShown, Failed,
         Answered, Refused, Came
    <3> QED
      BY <1>0, <3>1
  <2>1. CASE SessionLoaded
    <3>1. session' = calls[awaits].view /\ receipt' = receipt /\ calls[awaits].kind = "session" /\ calls[awaits].reply = "ok"
      BY <2>1 DEF SessionLoaded, Answered, Came
    <3>2. session' \in Views /\ session' \in SessionSet /\ Held(rows, session') /\ session'.paper \in Papers
      BY <1>0, <2>0, <3>1 DEF Sound, CallSet, SessionSet
    <3>3. CASE Call("questions", session'.paper, FALSE)
      <4>1. Sent /\ awaits' \in Slots /\ calls'[awaits'].paper = session'.paper
        <5>1. ASSUME NEW paper \in Papers, Call("questions", paper, FALSE)
              PROVE  Sent /\ awaits' \in Slots /\ calls'[awaits'].paper = paper
          <6>1. paper \in Papers \cup {Unknown, None} /\ FALSE \in BOOLEAN
            BY <5>1
          <6> QED
            BY <5>1, <6>1, CallSends
        <5>2. PICK paper \in Papers : paper = session'.paper
          BY <3>2
        <5>3. Call("questions", paper, FALSE)
          BY <3>3, <5>2 DEF Call
        <5> QED
          BY <5>1, <5>2, <5>3
      <4> QED
        BY <1>0, <2>0, <3>1, <3>2, <4>1, PageStaysEarned
    <3>4. CASE Done
      BY <1>0, <2>0, <3>1, <3>2, <3>4, DropSends, PageStaysEarned
    <3> QED
      BY <2>1, <3>3, <3>4 DEF SessionLoaded
  <2>2. CASE Enrolled
    <3>1. UNCHANGED <<session, receipt>> /\ Call("session", None, FALSE)
      BY <2>2 DEF Enrolled
    <3>2. Sent /\ awaits' \in Slots /\ calls'[awaits'].kind = "session"
      BY <3>1, CallSends DEF OfPaper
    <3> QED
      BY <1>0, <2>0, <3>1, <3>2, PageStaysEarned
  <2>3. CASE Submitted
    <3>1. Done /\ receipt' = session.paper /\ session' = session /\ calls[awaits].kind = "submit" /\ calls[awaits].reply = "ok"
      BY <2>3 DEF Submitted, Answered, Came
    <3>2. session \in SessionSet /\ session.paper \in Papers /\ calls[awaits].paper = session.paper
      BY <2>0, <3>1 DEF EarnedInv, AwaitsItsOwn, OfPaper, SessionSet
    <3>3. rows[session.paper] = "SUBMITTED"
      BY <2>0, <3>1, <3>2 DEF Sound
    <3> QED
      BY <1>0, <2>0, <3>1, <3>2, <3>3, DropSends, PageStaysEarned
  <2>4. ASSUME NEW kind \in {"questions", "start"}, QuestionsShown(kind) PROVE EarnedInv'
    <3>1. /\ Done /\ receipt' = receipt /\ session' = [session EXCEPT !.status = "IN_PROGRESS"]
          /\ calls[awaits].kind = kind /\ calls[awaits].reply = "ok"
      BY <2>4 DEF QuestionsShown, Answered, Came
    <3>2. session \in SessionSet /\ calls[awaits].paper = session.paper /\ session.paper \in Papers
      BY <1>0, <2>0, <2>4, <3>1 DEF EarnedInv, AwaitsItsOwn, OfPaper, SessionSet
    <3>3. rows[session.paper] \in Begun
      BY <2>0, <2>4, <3>1, <3>2 DEF Sound
    <3>5. session' \in Views /\ session' \in SessionSet /\ session'.paper = session.paper
      BY <3>1, <3>2 DEF Views, SessionSet
    <3>6. Held(rows, session')
      BY <3>3, <3>5 DEF Held, Begun
    <3> QED
      BY <1>0, <2>0, <3>1, <3>5, <3>6, DropSends, PageStaysEarned
  <2>5. CASE NotEnrolled \/ EnrolRefused \/ \E kind \in {"session", "questions", "start", "submit"} : Failed(kind)
    <3>1. UNCHANGED <<session, receipt>> /\ Done
      BY <2>5 DEF NotEnrolled, EnrolRefused, Failed
    <3> QED
      BY <1>0, <2>0, <3>1, DropSends, PageStaysEarned
  <2> QED
    BY <1>5, <2>1, <2>2, <2>3, <2>4, <2>5 DEF Receive
<1> QED
  BY <1>1, <1>2, <1>3, <1>4, <1>5

\* What a step of the server comes to: the page stands still, one request moves
\* on, and the rows grow.
LEMMA ServerStaysEarned ==
  ASSUME EarnedInv, UNCHANGED <<session, receipt, awaits, photo>>,
         rows' \in RowSet, created' \in Seq(Papers), Grows(rows, rows'),
         NEW i \in Slots, calls' \in [Slots -> CallSet], Sound(rows', calls'[i]), calls'[i] = Free \/ calls'[i].paper = calls[i].paper,
         \A k \in Slots \ {i} : Sound(rows, calls'[k]) /\ calls'[k].kind = calls[k].kind /\ calls'[k].paper = calls[k].paper,
         calls'[i] = Free \/ calls'[i].kind = calls[i].kind
  PROVE  EarnedInv'
<1>1. PortalTypes'
  BY DEF EarnedInv, PortalTypes
<1>2. \A k \in Slots : Sound(rows', calls'[k])
  BY GrowKeepsSound
<1>3. AwaitsItsOwn'
  <2>1. session \in SessionSet /\ Held(rows, session) => Held(rows', session)
    BY GrowKeepsHeld
  <2> QED
    BY <2>1, FreeIsSound DEF EarnedInv, AwaitsItsOwn, PortalTypes, OfPaper
<1>4. session # None => Held(rows', session)
  BY GrowKeepsHeld DEF EarnedInv, PortalTypes, Views, SessionSet
<1>5. receipt # None => rows'[receipt] = "SUBMITTED"
  BY DEF EarnedInv, PortalTypes, Grows
<1> QED
  BY <1>1, <1>2, <1>3, <1>4, <1>5 DEF EarnedInv

\* A request that ends with an answer, which only the page that waits gets.
LEMMA AnswerIsSound ==
  ASSUME EarnedInv, NEW i \in Slots, NEW R, NEW c, Answer(i, c), Sound(R, c),
         c.kind = calls[i].kind, c.paper = calls[i].paper
  PROVE  /\ calls' \in [Slots -> CallSet] /\ Sound(R, calls'[i])
         /\ calls'[i] = Free \/ (calls'[i].kind = calls[i].kind /\ calls'[i].paper = calls[i].paper)
         /\ \A k \in Slots \ {i} : calls'[k] = calls[k]
<1>1. calls' = [calls EXCEPT ![i] = IF i = awaits THEN c ELSE Free] /\ c \in CallSet
  BY DEF Answer, Sound
<1>2. CASE i = awaits
  <2>1. calls' = [calls EXCEPT ![i] = c]
    BY <1>1, <1>2
  <2> QED
    BY <1>1, <2>1 DEF EarnedInv, PortalTypes
<1>3. CASE i # awaits
  <2>1. calls' = [calls EXCEPT ![i] = Free]
    BY <1>1, <1>3
  <2> QED
    BY <2>1, FreeIsSound DEF EarnedInv, PortalTypes
<1> QED
  BY <1>2, <1>3

\* An answer that all is well says something of the row.
WellDone(S, c) ==
  /\ c.kind # "session"
  /\ c.kind \in {"questions", "start"} => S[c.paper] \in Begun
  /\ c.kind = "submit" => S[c.paper] = "SUBMITTED"

LEMMA EndedIsSound ==
  ASSUME NEW R, NEW S, NEW c, Sound(R, c), NEW reply \in {"ok", "failed", "missing"},
         reply = "ok" => WellDone(S, c)
  PROVE  /\ Sound(S, Ended(c, reply))
         /\ Ended(c, reply).kind = c.kind /\ Ended(c, reply).paper = c.paper
<1>1. /\ Ended(c, reply) \in CallSet /\ Ended(c, reply).kind = c.kind /\ Ended(c, reply).paper = c.paper
      /\ Ended(c, reply).at = "done" /\ Ended(c, reply).reply = reply
  BY DEF Ended, Sound, CallSet
<1> QED
  BY <1>1 DEF Sound, WellDone

\* A handler that refuses, or ends without a word about a session.
LEMMA FinishStaysEarned ==
  ASSUME EarnedInv, NEW i \in Slots, NEW reply \in {"ok", "failed", "missing"}, Finish(i, reply),
         UNCHANGED <<session, receipt, awaits, photo>>,
         rows' \in RowSet, created' \in Seq(Papers), Grows(rows, rows'),
         reply = "ok" => WellDone(rows', calls[i])
  PROVE  EarnedInv'
<1>1. Sound(rows, calls[i])
  BY DEF EarnedInv
<1>2. /\ Sound(rows', Ended(calls[i], reply))
      /\ Ended(calls[i], reply).kind = calls[i].kind /\ Ended(calls[i], reply).paper = calls[i].paper
  BY <1>1, EndedIsSound
<1>3. Answer(i, Ended(calls[i], reply))
  BY DEF Finish
<1>4. /\ calls' \in [Slots -> CallSet] /\ Sound(rows', calls'[i])
      /\ calls'[i] = Free \/ (calls'[i].kind = calls[i].kind /\ calls'[i].paper = calls[i].paper)
      /\ \A k \in Slots \ {i} : calls'[k] = calls[k]
  BY <1>2, <1>3, AnswerIsSound
<1> QED
  BY <1>4, ServerStaysEarned DEF EarnedInv

LEMMA RowsStay == Grows(rows, rows)
  BY DEF Grows

LEMMA HandlerStep ==
  ASSUME EarnedInv, NEW i \in Slots, Handle(i) \/ EnrolThrows(i) \/ Lose(i)
  PROVE  EarnedInv'
<1> USE DEF client, server, history, form, page
<1>0. Sound(rows, calls[i]) /\ rows \in RowSet /\ created \in Seq(Papers)
  BY DEF EarnedInv, PortalTypes
<1>1. UNCHANGED <<session, receipt, awaits, photo>>
  BY DEF Handle, EnrolCheck, EnrolPhoto, EnrolCreate, ViewSession, ServeStart, ServeQuestions, ServeSubmit, Serve,
     ServeFails, EnrolThrows, Lose
\* Nothing but the request changes, and it ends badly.
<1>2. ASSUME NEW reply \in {"failed", "missing"}, Finish(i, reply), UNCHANGED <<rows, created>> PROVE EarnedInv'
  BY <1>0, <1>1, <1>2, RowsStay, FinishStaysEarned
\* One request moves on, and says nothing yet.
<1>3. ASSUME calls' \in [Slots -> CallSet], UNCHANGED <<rows, created>>,
             \A k \in Slots : Sound(rows, calls'[k]) /\ calls'[k].kind = calls[k].kind /\ calls'[k].paper = calls[k].paper
      PROVE  EarnedInv'
  BY <1>0, <1>1, <1>3, RowsStay, ServerStaysEarned
<1>4. CASE EnrolCheck(i)
  <2>1. UNCHANGED <<rows, created>> /\ At(i, "check")
    BY <1>4 DEF EnrolCheck
  <2>2. CASE Finish(i, "failed")
    BY <1>2, <2>1, <2>2
  <2>3. CASE ~Finish(i, "failed")
    <3>1. PICK at \in {"photo", "create"} : calls' = [calls EXCEPT ![i].at = at]
      BY <1>4, <2>3 DEF EnrolCheck, Step
    <3>2. calls[i].paper \in Papers /\ calls[i].kind = "enroll"
      BY <1>0, <1>4, <2>1, <2>3 DEF EnrolCheck, Sound, At
    <3>3. calls' \in [Slots -> CallSet]
      BY <3>1 DEF EarnedInv, PortalTypes, CallSet
    <3>4. ASSUME NEW k \in Slots
          PROVE  Sound(rows, calls'[k]) /\ calls'[k].kind = calls[k].kind /\ calls'[k].paper = calls[k].paper
      <4>1. CASE k # i
        BY <3>1, <4>1 DEF EarnedInv, PortalTypes
      <4>2. CASE k = i
        <5>1. calls'[i] = [calls[i] EXCEPT !.at = at]
          BY <3>1 DEF EarnedInv, PortalTypes
        <5>2. /\ calls'[i].kind = calls[i].kind /\ calls'[i].paper = calls[i].paper /\ calls'[i].at = at
              /\ calls'[i].reply = calls[i].reply /\ calls'[i].view = calls[i].view
          BY <1>0, <5>1 DEF Sound, CallSet
        <5> QED
          BY <1>0, <3>2, <3>3, <4>2, <5>2 DEF Sound, OfPaper
      <4> QED
        BY <4>1, <4>2
    <3> QED
      BY <1>3, <2>1, <3>3, <3>4
  <2> QED
    BY <2>2, <2>3
<1>5. CASE EnrolPhoto(i)
  <2>1. /\ UNCHANGED <<rows, created>> /\ calls[i].at = "photo"
        /\ calls' = [j \in Slots |-> IF j = i THEN [calls[j] EXCEPT !.at = "create", !.stored = TRUE]
                                      ELSE [calls[j] EXCEPT !.stored = FALSE]]
    BY <1>5 DEF EnrolPhoto, At
  <2>2. ASSUME NEW k \in Slots
        PROVE  /\ calls'[k] \in CallSet /\ calls'[k].kind = calls[k].kind /\ calls'[k].paper = calls[k].paper
               /\ calls'[k].reply = calls[k].reply /\ calls'[k].view = calls[k].view
               /\ calls'[k].at = IF k = i THEN "create" ELSE calls[k].at
    <3>1. calls[k] \in CallSet
      BY DEF EarnedInv, PortalTypes
    <3>2. CASE k = i
      <4>1. calls'[k] = [calls[k] EXCEPT !.at = "create", !.stored = TRUE]
        BY <2>1, <3>2
      <4> QED
        BY <3>1, <3>2, <4>1 DEF CallSet
    <3>3. CASE k # i
      <4>1. calls'[k] = [calls[k] EXCEPT !.stored = FALSE]
        BY <2>1, <3>3
      <4> QED
        BY <3>1, <3>3, <4>1 DEF CallSet
    <3> QED
      BY <3>2, <3>3
  <2>3. ASSUME NEW k \in Slots PROVE Sound(rows, calls'[k])
    <3>1. Sound(rows, calls[k]) /\ (k = i => calls[k].at = "photo")
      BY <2>1 DEF EarnedInv
    <3> QED
      BY <2>2, <3>1 DEF Sound
  <2>4. calls' \in [Slots -> CallSet]
    BY <2>1, <2>2
  <2> QED
    BY <1>3, <2>1, <2>2, <2>3, <2>4
<1>6. CASE EnrolCreate(i)
  <2>1. calls[i].paper \in Papers /\ calls[i].kind = "enroll"
    BY <1>0, <1>6 DEF EnrolCreate, At, Sound
  <2>2. CASE rows[calls[i].paper] = "none"
    <3>1. /\ rows' = [rows EXCEPT ![calls[i].paper] = "NOT_STARTED"] /\ created' = Append(created, calls[i].paper)
          /\ Finish(i, "ok")
      BY <1>6, <2>2 DEF EnrolCreate
    <3>2. rows' \in RowSet /\ Grows(rows, rows') /\ created' \in Seq(Papers)
      BY <1>0, <2>1, <2>2, <3>1 DEF RowSet, Grows, Begun
    <3>3. WellDone(rows', calls[i])
      BY <2>1 DEF WellDone
    <3> QED
      BY <1>1, <3>1, <3>2, <3>3, FinishStaysEarned
  <2>3. CASE rows[calls[i].paper] # "none"
    BY <1>2, <1>6, <2>3 DEF EnrolCreate
  <2> QED
    BY <2>2, <2>3
<1>7. CASE ViewSession(i)
  <2>1. UNCHANGED <<rows, created>> /\ calls[i].kind = "session"
    BY <1>7 DEF ViewSession
  <2>2. CASE Finish(i, "missing")
    BY <1>2, <2>1, <2>2
  <2>3. ASSUME NEW n \in Active, Answer(i, [Ended(calls[i], "ok") EXCEPT !.view = View(created[n])]) PROVE EarnedInv'
    <3>1. created[n] \in Papers /\ rows[created[n]] \in {"NOT_STARTED", "IN_PROGRESS"}
      BY <1>0 DEF Active
    <3>2. View(created[n]) \in Views /\ View(created[n]) \in SessionSet /\ Held(rows, View(created[n]))
      <4>1. /\ View(created[n]) \in [paper : Papers, status : {"NOT_STARTED", "IN_PROGRESS"}, ready : BOOLEAN]
            /\ View(created[n]).paper = created[n] /\ View(created[n]).status = rows[created[n]]
        BY <3>1 DEF View
      <4> QED
        BY <3>1, <4>1 DEF Views, SessionSet, Held, Begun
    <3> DEFINE c == [Ended(calls[i], "ok") EXCEPT !.view = View(created[n])]
    <3>3. c \in CallSet /\ c.kind = "session" /\ c.paper = calls[i].paper /\ c.at = "done" /\ c.view = View(created[n])
      BY <1>0, <2>1, <3>2 DEF Sound, CallSet, Ended
    <3>4. Sound(rows, c)
      BY <3>2, <3>3 DEF Sound, OfPaper
    <3>5. Answer(i, c)
      BY <2>3
    <3> HIDE DEF c
    <3>6. /\ calls' \in [Slots -> CallSet] /\ Sound(rows, calls'[i])
          /\ calls'[i] = Free \/ (calls'[i].kind = calls[i].kind /\ calls'[i].paper = calls[i].paper)
          /\ \A k \in Slots \ {i} : calls'[k] = calls[k]
      BY <2>1, <3>3, <3>4, <3>5, AnswerIsSound
    <3> QED
      BY <1>0, <1>1, <2>1, <3>6, RowsStay, ServerStaysEarned DEF EarnedInv
  <2> QED
    BY <1>7, <2>2, <2>3 DEF ViewSession
<1>8. ASSUME NEW kind \in OfPaper, NEW from \in {"NOT_STARTED", "IN_PROGRESS"}, NEW to \in Begun, Serve(i, kind, from, to),
             kind = "submit" => to = "SUBMITTED", from = "NOT_STARTED" \/ from = "IN_PROGRESS"
      PROVE  EarnedInv'
  <2>1. /\ calls[i].kind = kind /\ rows[calls[i].paper] = from /\ rows' = [rows EXCEPT ![calls[i].paper] = to]
        /\ created' = created /\ Finish(i, "ok")
    BY <1>8 DEF Serve
  <2>2. calls[i].paper \in Papers
    BY <1>0, <1>8, <2>1 DEF Sound
  <2>3. rows' \in RowSet /\ Grows(rows, rows') /\ rows'[calls[i].paper] = to
    BY <1>0, <1>8, <2>1, <2>2 DEF RowSet, Grows, Begun
  <2>4. kind # "session"
    BY <1>8 DEF OfPaper
  <2>5. WellDone(rows', calls[i])
    BY <1>8, <2>1, <2>3, <2>4 DEF WellDone
  <2> QED
    BY <1>0, <1>1, <2>1, <2>3, <2>5, FinishStaysEarned
<1>9. CASE ServeStart(i) \/ ServeQuestions(i) \/ ServeSubmit(i)
  BY <1>8, <1>9 DEF ServeStart, ServeQuestions, ServeSubmit, OfPaper, Begun
<1>10. CASE ServeFails(i) \/ EnrolThrows(i)
  BY <1>2, <1>10 DEF ServeFails, EnrolThrows
<1>11. CASE Lose(i)
  <2>1. UNCHANGED <<rows, created>> /\ calls' = [calls EXCEPT ![i].reply = "lost"]
    BY <1>11 DEF Lose
  <2>2. calls' \in [Slots -> CallSet]
    BY <2>1 DEF EarnedInv, PortalTypes, CallSet
  <2>3. ASSUME NEW k \in Slots
        PROVE  Sound(rows, calls'[k]) /\ calls'[k].kind = calls[k].kind /\ calls'[k].paper = calls[k].paper
    <3>1. CASE k # i
      BY <2>1, <3>1 DEF EarnedInv, PortalTypes
    <3>2. CASE k = i
      <4>1. calls'[i] = [calls[i] EXCEPT !.reply = "lost"]
        BY <2>1 DEF EarnedInv, PortalTypes
      <4>2. /\ calls'[i].kind = calls[i].kind /\ calls'[i].paper = calls[i].paper /\ calls'[i].at = calls[i].at
            /\ calls'[i].reply = "lost"
        BY <1>0, <4>1 DEF Sound, CallSet
      <4> QED
        BY <1>0, <2>2, <3>2, <4>2 DEF Sound
    <3> QED
      BY <3>1, <3>2
  <2> QED
    BY <1>3, <2>1, <2>2, <2>3
<1> QED
  BY <1>4, <1>5, <1>6, <1>7, <1>9, <1>10, <1>11 DEF Handle

\* A receipt is of a submitted session, an exam screen of one that was started,
\* an assessment of one that exists, whatever answers were lost or came after a
\* reload (StudentExamClient.tsx over exam.service.ts).
THEOREM ScreenEarned == Spec => []ScreenIsEarned
<1>1. EarnedInv /\ [Next]_vars => EarnedInv'
  <2> SUFFICES ASSUME EarnedInv, [Next]_vars PROVE EarnedInv'
    OBVIOUS
  <2> USE DEF form, exam, browser, server, history, page, client
  <2>1. ASSUME photo' \in BOOLEAN, UNCHANGED <<session, receipt, awaits, calls, rows, created>> PROVE EarnedInv'
    BY <2>1 DEF EarnedInv, PortalTypes, AwaitsItsOwn
  <2>2. photo \in BOOLEAN
    BY DEF EarnedInv, PortalTypes
  <2>3. CASE Choose \/ Clear \/ Mark \/ SaveAndNext \/ \E i \in Indices : GoTo(i)
    BY <2>1, <2>2, <2>3 DEF Choose, Clear, Mark, SaveAndNext, GoTo, Touch
  <2>4. CASE AskCamera \/ CameraStarts \/ CameraRefused \/ Capture
    BY <2>1, <2>2, <2>4 DEF AskCamera, CameraStarts, CameraRefused, Capture
  <2>5. CASE (\E p \in Papers : PaperReady(p)) \/ UNCHANGED vars
    BY <2>1, <2>2, <2>5 DEF PaperReady, vars
  <2> QED
    BY <2>3, <2>4, <2>5, PageStep, HandlerStep DEF Next
<1>2. EarnedInv => ScreenIsEarned
  BY DEF EarnedInv, PortalTypes, ScreenIsEarned, Screen, InExam, Held, Begun
<1> QED
  BY <1>1, <1>2, EarnedInit, PTL DEF Spec
=============================================================================
