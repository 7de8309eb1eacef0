------------------------------ MODULE PaperDesk ------------------------------
(***************************************************************************)
(* The administrator's paper generation page (PaperGeneration.tsx), which  *)
(* asks for papers and polls them, over generatePaper and getPaper         *)
(* (blueprint.service.ts) and the pipeline that fills the rows.  Of the    *)
(* pipeline only the steps whose effect the page shows are kept:           *)
(* PaperGeneration has all of them, BlueprintDesk the selection.  As there, *)
(* a run that dies is delivered again, and starts from the top.            *)
(*                                                                         *)
(* The page offers published blueprints only, and publication is never     *)
(* taken back (BlueprintDesk).  A paper has the number of the click that   *)
(* asked for it.                                                           *)
(***************************************************************************)
EXTENDS Integers, FiniteSets

CONSTANTS
  MaxClicks,  \* bound: how often Generate is clicked
  MaxVisits,  \* bound: how often the page is opened
  MaxFaults   \* bound: how many calls fail

Clicks == 1..MaxClicks

VARIABLES
  \* the server
  papers,     \* the Paper rows, NoPaper where there is none
  runs,       \* where each paper's job is
  linked,     \* papers that have their PaperQuestion rows
  stored,     \* papers whose ciphertext is in 0G Storage
  anchored,   \* papers in the PaperRegistry
  \* the page
  visit,      \* the mounts of the page so far
  loops,      \* the onGenerate calls
  shown,      \* what it shows: a paper as it was read, or NoPaper
  polling, error,
  faults      \* bound: calls that failed

work == <<linked, stored, anchored>>
view == <<shown, polling, error>>
vars == <<papers, runs, work, visit, loops, view, faults>>

NoPaper == [id |-> 0, status |-> "none", questions |-> FALSE, root |-> FALSE, chain |-> FALSE, ref |-> FALSE]
NewPaper(p) == [NoPaper EXCEPT !.id = p, !.status = "ASSEMBLING"]

\* A loop is at a point of onGenerate, with the answer it is about to read.
Loop(at, v, answer) == [at |-> at, visit |-> v, answer |-> answer]
NoLoop == Loop("none", 0, NoPaper)

Init ==
  /\ papers = [p \in Clicks |-> NoPaper] /\ runs = [p \in Clicks |-> "none"]
  /\ linked = {} /\ stored = {} /\ anchored = {}
  /\ visit = 0 /\ loops = [p \in Clicks |-> NoLoop]
  /\ shown = NoPaper /\ polling = FALSE /\ error = FALSE /\ faults = 0

-----------------------------------------------------------------------------
(* The page                                                                *)

\* The page is opened, or left and opened again: its state starts anew, and
\* the loops of an earlier visit go on without it.
Open ==
  /\ visit < MaxVisits /\ visit' = visit + 1
  /\ shown' = NoPaper /\ polling' = FALSE /\ error' = FALSE
  /\ UNCHANGED <<papers, runs, work, loops, faults>>

\* The button, and onGenerate up to its first await.
Click(p) ==
  /\ visit > 0 /\ ~polling
  /\ loops[p].at = "none" /\ \A o \in Clicks : o < p => loops[o].at # "none"
  /\ error' = FALSE
  /\ loops' = [loops EXCEPT ![p] = Loop("create", visit, NoPaper)]
  /\ UNCHANGED <<papers, runs, work, visit, shown, polling, faults>>

Fault == faults < MaxFaults /\ faults' = faults + 1

Here(p) == loops[p].visit = visit
Goes(p, from, to) == loops[p].at = from /\ loops' = [loops EXCEPT ![p].at = to]

\* await api(...) returns the paperId: setPolling(true), and the first fetch.
Polls(p) ==
  /\ Goes(p, "answered", "ask")
  /\ polling' = (polling \/ Here(p))
  /\ UNCHANGED <<papers, runs, work, visit, shown, error, faults>>

\* setPaper(detail), and break or sleep.
Shows(p) ==
  LET a == loops[p].answer
      over == a.status \in {"READY", "FAILED"}
  IN
  /\ loops[p].at = "read"
  /\ loops' = [loops EXCEPT ![p] = Loop(IF over THEN "over" ELSE "sleep", @.visit, NoPaper)]
  /\ shown' = IF Here(p) THEN a ELSE shown
  /\ polling' = (polling /\ ~(Here(p) /\ over))
  /\ UNCHANGED <<papers, runs, work, visit, error, faults>>

\* 180 seconds have passed: the loop ends, and says nothing.
GivesUp(p) ==
  /\ Goes(p, "sleep", "over")
  /\ polling' = (polling /\ ~Here(p))
  /\ UNCHANGED <<papers, runs, work, visit, shown, error, faults>>

\* catch, finally: a call was refused or its answer was lost.
Fails(p) ==
  /\ Goes(p, "failed", "over")
  /\ error' = (error \/ Here(p))
  /\ polling' = (polling /\ ~Here(p))
  /\ UNCHANGED <<papers, runs, work, visit, shown, faults>>

-----------------------------------------------------------------------------
(* blueprint.service.ts                                                    *)

\* generatePaper: the guards, which a blueprint the page offers passes, and the
\* row.
Create(p) ==
  /\ Goes(p, "create", "queue")
  /\ papers' = [papers EXCEPT ![p] = NewPaper(p)]
  /\ UNCHANGED <<runs, work, visit, view, faults>>

\* generatePaper: paperGenerationQueue.add
Queue(p) ==
  /\ Goes(p, "queue", "answered")
  /\ runs' = [runs EXCEPT ![p] = "waiting"]
  /\ UNCHANGED <<papers, work, visit, view, faults>>

\* Postgres or Redis throws, the process dies, or the answer is lost.
CallFails(p) ==
  /\ Fault
  /\ loops[p].at \in {"create", "queue", "answered", "ask", "read"}
  /\ loops' = [loops EXCEPT ![p] = Loop("failed", @.visit, NoPaper)]
  /\ UNCHANGED <<papers, runs, work, visit, view>>

\* getPaper, asked for at once and then every three seconds; its answer is on
\* its way.
Read(p) ==
  /\ loops[p].at \in {"ask", "sleep"}
  /\ loops' = [loops EXCEPT ![p] = Loop("read", @.visit, [papers[p] EXCEPT !.questions = p \in linked])]
  /\ UNCHANGED <<papers, runs, work, visit, view, faults>>

-----------------------------------------------------------------------------
(* The pipeline                                                            *)

Runs(p, from, to) == runs[p] = from /\ runs' = [runs EXCEPT ![p] = to]

\* linkQuestions: for the rows of an earlier run there is no conflict if other
\* questions are selected now.
Link(p) ==
  /\ Runs(p, "waiting", "upload")
  /\ linked' = linked \cup {p}
  /\ UNCHANGED <<papers, stored, anchored, visit, loops, view, faults>>

\* uploadEncrypted
Upload(p) ==
  /\ Runs(p, "upload", "anchor")
  /\ stored' = stored \cup {p}
  /\ UNCHANGED <<papers, linked, anchored, visit, loops, view, faults>>

\* Fault: the transaction is not awaited, and may never be mined.
AnchorUnawaited(p) ==
  /\ p \notin anchored /\ Runs(p, "anchor", "record")
  /\ UNCHANGED <<papers, work, visit, loops, view, faults>>

\* anchorPaper, which the registry takes once.
Anchor(p) ==
  /\ p \notin anchored /\ Runs(p, "anchor", "record")
  /\ anchored' = anchored \cup {p}
  /\ UNCHANGED <<papers, linked, stored, visit, loops, view, faults>>

\* recordAssembly: root, hash and transaction in one update.
Record(p) ==
  /\ Runs(p, "record", "seal")
  /\ papers' = [papers EXCEPT ![p].root = TRUE, ![p].chain = TRUE]
  /\ UNCHANGED <<work, visit, loops, view, faults>>

\* sealContentKey, markReady
Seal(p) ==
  /\ Runs(p, "seal", "finish")
  /\ papers' = [papers EXCEPT ![p].status = "READY", ![p].ref = TRUE]
  /\ UNCHANGED <<work, visit, loops, view, faults>>

\* The seal's own catch: the paper keeps its status.
SealFails(p) ==
  /\ Fault
  /\ Runs(p, "seal", "finish")
  /\ UNCHANGED <<papers, work, visit, loops, view>>

\* The wrapper's catch: markFailed, unless that throws too.
MarkFailed(p) ==
  /\ runs' = [runs EXCEPT ![p] = "finish"]
  /\ \/ papers' = [papers EXCEPT ![p].status = "FAILED"]
     \/ papers' = papers
  /\ UNCHANGED <<work, visit, loops, view>>

\* Nothing was selected, or a call throws.
Throws(p) ==
  /\ Fault
  /\ runs[p] \in {"waiting", "upload", "anchor", "record"}
  /\ MarkFailed(p)

\* A run after one that died finds that one's rows, or its anchor.
Conflicts(p) ==
  /\ \/ runs[p] = "waiting" /\ p \in linked
     \/ runs[p] = "anchor" /\ p \in anchored
  /\ MarkFailed(p) /\ UNCHANGED faults

\* The queue is told that the run is over.
Acknowledge(p) ==
  /\ Runs(p, "finish", "done")
  /\ UNCHANGED <<papers, work, visit, loops, view, faults>>

\* The process dies under a run, or before the queue is told.
Redeliver(p) ==
  /\ Fault
  /\ runs[p] \in {"upload", "anchor", "record", "seal", "finish"}
  /\ runs' = [runs EXCEPT ![p] = "waiting"]
  /\ UNCHANGED <<papers, work, visit, loops, view>>

-----------------------------------------------------------------------------
Page(p) == Polls(p) \/ Shows(p) \/ GivesUp(p) \/ Fails(p)
Service(p) == Create(p) \/ Queue(p) \/ Read(p)
Pipeline(p) ==
  \/ Link(p) \/ Upload(p) \/ Anchor(p) \/ Record(p) \/ Seal(p) \/ SealFails(p)
  \/ Throws(p) \/ Conflicts(p) \/ Acknowledge(p) \/ Redeliver(p)

Next == Open \/ \E p \in Clicks : Click(p) \/ Page(p) \/ Service(p) \/ CallFails(p) \/ Pipeline(p)

Spec == Init /\ [][Next]_vars

-----------------------------------------------------------------------------
(* What the page shows                                                     *)

Failed(s) == s.status = "FAILED"

\* steps, without asFailedIfActive.
StepState(s) ==
  [select   |-> IF s.questions THEN "done" ELSE "active",
   storage  |-> IF s.root THEN "done" ELSE "active",
   anchor   |-> IF s.chain THEN "done" ELSE IF s.root THEN "active" ELSE "pending",
   timelock |-> IF s.ref THEN "done" ELSE IF s.chain THEN "active" ELSE "pending",
   ready    |-> IF s.status = "READY" THEN "done" ELSE "pending"]

ShownStep(s) ==
  [k \in DOMAIN StepState(s) |->
     IF Failed(s) /\ k # "ready" /\ StepState(s)[k] = "active" THEN "failed" ELSE StepState(s)[k]]

-----------------------------------------------------------------------------
(* Properties                                                              *)

PaperSet ==
  [id : 0..MaxClicks, status : {"none", "ASSEMBLING", "READY", "FAILED"},
   questions : BOOLEAN, root : BOOLEAN, chain : BOOLEAN, ref : BOOLEAN]
Points == {"none", "create", "queue", "answered", "ask", "read", "sleep", "failed", "over"}
Places == {"none", "waiting", "upload", "anchor", "record", "seal", "finish", "done"}

TypeOK ==
  /\ papers \in [Clicks -> PaperSet] /\ runs \in [Clicks -> Places]
  /\ linked \subseteq Clicks /\ stored \subseteq Clicks /\ anchored \subseteq Clicks
  /\ visit \in 0..MaxVisits
  /\ loops \in [Clicks -> [at : Points, visit : 0..MaxVisits, answer : PaperSet]]
  /\ shown \in PaperSet /\ polling \in BOOLEAN /\ error \in BOOLEAN
  /\ faults \in 0..MaxFaults

\* "each row below is only marked done once the backing artefact actually
\* exists" (PaperGeneration.tsx:170): what is shown as done is there, in the
\* database and outside, for the paper that is shown, whichever runs it had; and
\* a paper that is shown ready has all of it.
StepsAreBacked ==
  shown.id # 0 =>
    LET done(k) == ShownStep(shown)[k] = "done"
        p == papers[shown.id]
    IN  /\ done("select") => shown.id \in linked
        /\ done("storage") => p.root /\ shown.id \in stored
        /\ done("anchor") => p.chain /\ shown.id \in anchored
        /\ done("timelock") => p.ref
        /\ done("ready") => \A k \in DOMAIN ShownStep(shown) : done(k)

\* (Not so.)  A paper that is shown ready is ready: a run delivered again after
\* READY marks the paper FAILED, and the page has stopped polling.
ReadyIsReady == shown.status = "READY" => papers[shown.id].status = "READY"

\* The page says "Generating" only while one of its own loops is polling, even
\* when several were started by one impatient administrator.
PollingIsBacked ==
  polling => \E p \in Clicks : Here(p) /\ loops[p].at \in {"ask", "read", "sleep", "failed"}

\* "the step that was "active" is the one that actually failed; steps behind it
\* never started" (PaperGeneration.tsx:76).
FailedStepIsOne ==
  \A j, k \in DOMAIN ShownStep(shown) :
    ShownStep(shown)[j] = "failed" /\ ShownStep(shown)[k] = "failed" => j = k
=============================================================================
