--------------------------- MODULE PaperGeneration ---------------------------
(***************************************************************************)
(* One master paper, from the administrator's request to READY:            *)
(* blueprint.service.ts creates the row and enqueues the job, and          *)
(* paperGeneration.service.ts selects, links, assembles, encrypts, stores, *)
(* anchors and seals.  The job has one attempt, but BullMQ delivers it     *)
(* again when the process died under it, and a run starts from the top.    *)
(*                                                                         *)
(* A run is named by its number.  It names the content key the run drew,   *)
(* its storage root and its transaction.  The key is in memory only, until *)
(* it is sealed.                                                           *)
(***************************************************************************)
EXTENDS Integers, FiniteSets

CONSTANTS
  Questions,    \* the questions the blueprint's one band matches, numbered by createdAt
  Wanted,       \* how many of them the blueprint asks for
  MaxStalls,    \* BullMQ maxStalledCount: redeliveries after a worker died
  MaxCrashes,   \* bound: how often the process dies
  FaultStages,  \* bound: the steps at which a call may throw
  None          \* a null column, an empty contract slot

Runs == 1..(MaxStalls + 1)

ASSUME BlueprintAssumption == Questions \subseteq Nat /\ IsFiniteSet(Questions) /\ Wanted \in Nat
ASSUME LimitsAssumption == MaxStalls \in Nat /\ MaxCrashes \in Nat
ASSUME NullAssumption == None \notin Runs

VARIABLES
  pool,      \* the ACCEPTED questions
  status,    \* Paper.status, "none" before the row exists
  links,     \* the paper's PaperQuestion rows
  row,       \* the run whose root, hash and transaction the row names
  ref,       \* Paper.timelockRef: the run whose content key is sealed in it
  blobs,     \* 0G Storage: the questions of each run's master paper
  anchor,    \* PaperRegistry.anchors[paperId], by the run that wrote it
  mirror,    \* the runs with a ChainAnchor row
  audit,     \* the kinds of audit log rows written for the paper
  pc,        \* where the request is
  job,       \* the state of the job in the queue
  stalls,    \* its deliveries lost to a crash
  stage,     \* where the run of an active job is
  selected,  \* the questions the run selected
  crashes    \* bound: times the process died

vars == <<pool, status, links, row, ref, blobs, anchor, mirror, audit, pc, job,
          stalls, stage, selected, crashes>>

paper  == <<status, links, row, ref>>
ledger == <<blobs, anchor, mirror>>
queue  == <<job, stalls>>

\* The stages a throw leaves for the outer catch, and those inside the inner try.
Unguarded  == {"select", "link", "auditSelected", "assemble", "auditEncryption", "upload",
               "auditUpload", "anchor", "recordAnchor", "auditAnchor", "recordAssembly",
               "auditSealFailed"}
Guarded    == {"seal", "markReady"}
Catching   == {"markFailed", "auditFailed"}
Stages     == Unguarded \cup Guarded \cup Catching \cup {"rethrow", "finish"}
AuditKinds == {"SELECTED", "ENCRYPTION", "STORAGE_UPLOAD", "CHAIN_ANCHOR", "TLOCK_SEAL_FAILED",
               "FAILED"}

\* The run the job is on, or will be on when delivered again.
Run == stalls + 1

Advance(from, to) == job = "active" /\ stage = from /\ stage' = to

\* take: count, orderBy: createdAt asc.
Selection == {q \in pool : Cardinality({p \in pool : p < q}) < Wanted}

Init ==
  /\ pool \in SUBSET Questions
  /\ status = "none" /\ links = {} /\ row = None /\ ref = None
  /\ blobs = [r \in Runs |-> {}] /\ anchor = None /\ mirror = {} /\ audit = {}
  /\ pc = "create" /\ job = "none" /\ stalls = 0
  /\ stage = "select" /\ selected = {} /\ crashes = 0

\* A validation run accepts another question (QuestionPipeline).
Accept(q) ==
  /\ q \notin pool
  /\ pool' = pool \cup {q}
  /\ UNCHANGED <<paper, ledger, audit, pc, queue, stage, selected, crashes>>

-----------------------------------------------------------------------------
(* blueprint.service.ts generatePaper                                      *)

CreatePaper ==
  /\ pc = "create" /\ pc' = "enqueue"
  /\ status' = "ASSEMBLING"
  /\ UNCHANGED <<pool, links, row, ref, ledger, audit, queue, stage, selected, crashes>>

EnqueueJob ==
  /\ pc = "enqueue" /\ pc' = "done"
  /\ job' = "waiting"
  /\ UNCHANGED <<pool, paper, ledger, audit, stalls, stage, selected, crashes>>

RequestAborts ==
  /\ pc \in {"create", "enqueue"} \cap FaultStages
  /\ pc' = "failed"
  /\ UNCHANGED <<pool, paper, ledger, audit, queue, stage, selected, crashes>>

-----------------------------------------------------------------------------
(* paperGeneration.service.ts runPipeline                                  *)

JobBegins ==
  /\ job = "waiting"
  /\ job' = "active" /\ stage' = "select"
  /\ UNCHANGED <<pool, paper, ledger, audit, pc, stalls, selected, crashes>>

SelectQuestions ==
  /\ Selection # {}
  /\ Advance("select", "link")
  /\ selected' = Selection
  /\ UNCHANGED <<pool, paper, ledger, audit, pc, queue, crashes>>

SelectNothing ==
  /\ Selection = {}
  /\ Advance("select", "markFailed")
  /\ UNCHANGED <<pool, paper, ledger, audit, pc, queue, selected, crashes>>

\* One INSERT of all the rows; @@unique([paperId, questionId]).
LinkQuestions ==
  /\ selected \cap links = {}
  /\ Advance("link", "auditSelected")
  /\ links' = links \cup selected
  /\ UNCHANGED <<pool, status, row, ref, ledger, audit, pc, queue, selected, crashes>>

LinkConflicts ==
  /\ selected \cap links # {}
  /\ Advance("link", "markFailed")
  /\ UNCHANGED <<pool, paper, ledger, audit, pc, queue, selected, crashes>>

AuditSelected ==
  /\ Advance("auditSelected", "assemble")
  /\ audit' = audit \cup {"SELECTED"}
  /\ UNCHANGED <<pool, paper, ledger, pc, queue, selected, crashes>>

\* Download and decrypt every question, hash, draw a key, encrypt.
Assemble ==
  /\ Advance("assemble", "auditEncryption")
  /\ UNCHANGED <<pool, paper, ledger, audit, pc, queue, selected, crashes>>

AuditEncryption ==
  /\ Advance("auditEncryption", "upload")
  /\ audit' = audit \cup {"ENCRYPTION"}
  /\ UNCHANGED <<pool, paper, ledger, pc, queue, selected, crashes>>

\* Fault: the questions are selected a second time when the paper is assembled.
UploadReselecting ==
  /\ Advance("upload", "auditUpload")
  /\ blobs' = [blobs EXCEPT ![Run] = Selection]
  /\ UNCHANGED <<pool, paper, anchor, mirror, audit, pc, queue, selected, crashes>>

Upload ==
  /\ Advance("upload", "auditUpload")
  /\ blobs' = [blobs EXCEPT ![Run] = selected]
  /\ UNCHANGED <<pool, paper, anchor, mirror, audit, pc, queue, selected, crashes>>

AuditUpload ==
  /\ Advance("auditUpload", "anchor")
  /\ audit' = audit \cup {"STORAGE_UPLOAD"}
  /\ UNCHANGED <<pool, paper, ledger, pc, queue, selected, crashes>>

AnchorPaper ==
  /\ anchor = None
  /\ Advance("anchor", "recordAnchor")
  /\ anchor' = Run
  /\ UNCHANGED <<pool, paper, blobs, mirror, audit, pc, queue, selected, crashes>>

\* require(anchors[paperId].blockTimestamp == 0, "already anchored")
AnchorReverts ==
  /\ anchor # None
  /\ Advance("anchor", "markFailed")
  /\ UNCHANGED <<pool, paper, ledger, audit, pc, queue, selected, crashes>>

RecordAnchor ==
  /\ Advance("recordAnchor", "auditAnchor")
  /\ mirror' = mirror \cup {Run}
  /\ UNCHANGED <<pool, paper, blobs, anchor, audit, pc, queue, selected, crashes>>

AuditAnchor ==
  /\ Advance("auditAnchor", "recordAssembly")
  /\ audit' = audit \cup {"CHAIN_ANCHOR"}
  /\ UNCHANGED <<pool, paper, ledger, pc, queue, selected, crashes>>

\* Fault: the row is only written together with READY, and then forgotten.
RecordAssemblyForgotten ==
  /\ Advance("recordAssembly", "seal")
  /\ UNCHANGED <<pool, paper, ledger, audit, pc, queue, selected, crashes>>

RecordAssembly ==
  /\ Advance("recordAssembly", "seal")
  /\ row' = Run
  /\ UNCHANGED <<pool, status, links, ref, ledger, audit, pc, queue, selected, crashes>>

\* sealContentKey: the sealed key exists, and nothing but the run holds it.
SealKey ==
  /\ Advance("seal", "markReady")
  /\ UNCHANGED <<pool, paper, ledger, audit, pc, queue, selected, crashes>>

MarkReady ==
  /\ Advance("markReady", "finish")
  /\ status' = "READY" /\ ref' = Run
  /\ UNCHANGED <<pool, links, row, ledger, audit, pc, queue, selected, crashes>>

JobCompletes ==
  /\ job = "active" /\ stage = "finish"
  /\ job' = "completed"
  /\ UNCHANGED <<pool, paper, ledger, audit, pc, stalls, stage, selected, crashes>>

-----------------------------------------------------------------------------
(* Failures                                                                *)

\* Fault: a failed seal is logged and nothing else.
SealThrowsSilently ==
  /\ stage \in FaultStages /\ job = "active" /\ stage \in Guarded
  /\ stage' = "finish"
  /\ UNCHANGED <<pool, paper, ledger, audit, pc, queue, selected, crashes>>

\* The seal, or the update that stores it, throws: drand unreachable, Postgres
\* down.  The run only reports it; the content key is gone with the run.
SealThrows ==
  /\ stage \in FaultStages /\ job = "active" /\ stage \in Guarded
  /\ stage' = "auditSealFailed"
  /\ UNCHANGED <<pool, paper, ledger, audit, pc, queue, selected, crashes>>

AuditSealFailed ==
  /\ Advance("auditSealFailed", "finish")
  /\ audit' = audit \cup {"TLOCK_SEAL_FAILED"}
  /\ UNCHANGED <<pool, paper, ledger, pc, queue, selected, crashes>>

\* Fault: the error is rethrown without touching the paper.
CallThrowsOn ==
  /\ stage \in FaultStages /\ job = "active" /\ stage \in Unguarded
  /\ stage' = "rethrow"
  /\ UNCHANGED <<pool, paper, ledger, audit, pc, queue, selected, crashes>>

\* Any other awaited call throws, into the wrapper's catch.
CallThrows ==
  /\ stage \in FaultStages /\ job = "active" /\ stage \in Unguarded
  /\ stage' = "markFailed"
  /\ UNCHANGED <<pool, paper, ledger, audit, pc, queue, selected, crashes>>

MarkFailed ==
  /\ Advance("markFailed", "auditFailed")
  /\ status' = "FAILED"
  /\ UNCHANGED <<pool, links, row, ref, ledger, audit, pc, queue, selected, crashes>>

AuditFailed ==
  /\ Advance("auditFailed", "rethrow")
  /\ audit' = audit \cup {"FAILED"}
  /\ UNCHANGED <<pool, paper, ledger, pc, queue, selected, crashes>>

\* .catch(() => {}): a write of the wrapper that fails is passed over.
CatchThrows ==
  /\ stage \in FaultStages /\ job = "active" /\ stage \in Catching
  /\ stage' = IF stage = "markFailed" THEN "auditFailed" ELSE "rethrow"
  /\ UNCHANGED <<pool, paper, ledger, audit, pc, queue, selected, crashes>>

\* attempts: 1, so a throw is not retried.
JobFails ==
  /\ job = "active" /\ stage = "rethrow"
  /\ job' = "failed"
  /\ UNCHANGED <<pool, paper, ledger, audit, pc, stalls, stage, selected, crashes>>

\* The process dies and restarts.  BullMQ finds an active job stalled and
\* delivers it again, MaxStalls times at most.
Crash ==
  /\ crashes < MaxCrashes
  /\ pc = "enqueue" \/ job = "active"
  /\ pc' = IF pc = "enqueue" THEN "failed" ELSE pc
  /\ IF job = "active"
     THEN IF stalls < MaxStalls
          THEN job' = "waiting" /\ stalls' = stalls + 1
          ELSE job' = "failed" /\ UNCHANGED stalls
     ELSE UNCHANGED queue
  /\ crashes' = crashes + 1
  /\ UNCHANGED <<pool, paper, ledger, audit, stage, selected>>

-----------------------------------------------------------------------------
Pipeline ==
  \/ SelectQuestions \/ SelectNothing \/ LinkQuestions \/ LinkConflicts \/ AuditSelected
  \/ Assemble \/ AuditEncryption \/ Upload \/ AuditUpload \/ AnchorPaper \/ AnchorReverts
  \/ RecordAnchor \/ AuditAnchor \/ RecordAssembly \/ SealKey \/ MarkReady
  \/ AuditSealFailed \/ MarkFailed \/ AuditFailed

Work == JobBegins \/ Pipeline \/ JobCompletes \/ JobFails

Request == CreatePaper \/ EnqueueJob

Throws == SealThrows \/ CallThrows \/ CatchThrows

Next ==
  \/ \E q \in Questions : Accept(q)
  \/ Request \/ RequestAborts \/ Work \/ Throws \/ Crash

Spec == Init /\ [][Next]_vars

\* A worker always comes back to a waiting job and to a run it has begun.
FairSpec == Spec /\ WF_vars(Work)

-----------------------------------------------------------------------------
(* Correctness                                                             *)

\* Every variable holds a value of its kind; a job exists once its request has
\* enqueued it.
TypeOK ==
  /\ pool \subseteq Questions
  /\ status \in {"none", "ASSEMBLING", "READY", "FAILED"}
  /\ links \subseteq Questions /\ row \in Runs \cup {None} /\ ref \in Runs \cup {None}
  /\ blobs \in [Runs -> SUBSET Questions]
  /\ anchor \in Runs \cup {None} /\ mirror \subseteq Runs /\ audit \subseteq AuditKinds
  /\ pc \in {"create", "enqueue", "done", "failed"}
  /\ job \in {"none", "waiting", "active", "completed", "failed"}
  /\ pc # "done" => job = "none"
  /\ stalls \in 0..MaxStalls /\ stage \in Stages /\ selected \subseteq Questions
  /\ crashes \in Nat

\* A READY paper can be opened: the key sealed in its timelock is the one its
\* blob was encrypted under, the blob is in storage, and its hash is the one on
\* chain and in the mirror, whichever runs came before.
ReadyIsOpenable ==
  status = "READY" =>
    /\ ref # None /\ row = ref
    /\ anchor = row /\ row \in mirror /\ blobs[row] # {}

\* A paper's root, hash and transaction in Postgres are the anchored run's, and
\* nothing is anchored that was not linked and stored first.
AssemblyBacked ==
  /\ row # None => row = anchor /\ anchor \in mirror
  /\ anchor # None => blobs[anchor] # {} /\ blobs[anchor] \subseteq links

\* No second run replaces an anchor, a record of it or a sealed key.
AssemblyIsFinal ==
  [][/\ anchor # None => anchor' = anchor
     /\ row # None => row' = row
     /\ ref # None => ref' = ref]_vars

\* A job that ran to its end made the paper READY or wrote down that the seal
\* failed: nothing is passed over in silence.
CompletionExplained ==
  job = "completed" => status = "READY" \/ "TLOCK_SEAL_FAILED" \in audit

\* Every job ends, and says how: a paper that is READY or FAILED, or an audit row
\* that tells of the failure, unless the process died oftener than BullMQ
\* redelivers.
GenerationEnds ==
  job = "waiting" ~>
    \/ /\ job \in {"completed", "failed"}
       /\ status \in {"READY", "FAILED"} \/ audit \cap {"TLOCK_SEAL_FAILED", "FAILED"} # {}
    \/ crashes > MaxStalls

\* The PaperQuestion rows of a paper made in one delivery are the questions
\* sealed in it, although the question bank grows while it is made.
OneDeliveryLinksThePaper == status = "READY" /\ stalls = 0 => links = blobs[ref]

-----------------------------------------------------------------------------
(* The inductive invariant behind the safety properties.                   *)

AtOrAfter(stages) == job = "active" /\ stage \in stages

Recorded  == {"seal", "markReady"}
Mirrored  == {"auditAnchor", "recordAssembly"} \cup Recorded
Anchored  == {"recordAnchor"} \cup Mirrored
Uploaded  == {"auditUpload", "anchor"} \cup Anchored
Linked    == {"auditSelected", "assemble", "auditEncryption", "upload"} \cup Uploaded
Selected  == {"link"} \cup Linked

\* What the run has already left behind it, stage by stage.
Progress ==
  /\ AtOrAfter(Selected) => selected # {}
  /\ AtOrAfter(Linked) => selected \subseteq links
  /\ AtOrAfter(Uploaded) => blobs[Run] = selected
  /\ AtOrAfter(Anchored) => anchor = Run
  /\ AtOrAfter(Mirrored) => Run \in mirror
  /\ AtOrAfter(Recorded) => row = Run

\* What stays when the run is over: a sealed key is the recorded run's, and a
\* run at its end has an explanation.
Settled ==
  /\ ref # None => ref = row /\ row # None
  /\ AtOrAfter({"finish"}) => status = "READY" \/ "TLOCK_SEAL_FAILED" \in audit

\* The strengthening that every step preserves.
IInv ==
  /\ Progress /\ Settled
  /\ ReadyIsOpenable /\ AssemblyBacked /\ CompletionExplained

-----------------------------------------------------------------------------
(* What comments say and the code does not keep.                           *)

\* "saw it stuck at ASSEMBLING forever ... Recording the failure on the Paper
\* itself is what lets Paper Generation's polling loop show a real error"
\* (paperGeneration.service.ts): a job that has ended leaves no paper
\* ASSEMBLING.  False when the seal fails.
NotStuckAssembling == job \in {"completed", "failed"} => status # "ASSEMBLING"

\* "re-running would re-select/re-encrypt/re-anchor; retries need an explicit
\* admin action, not an automatic one" (queues.ts): no automatic run undoes a
\* paper that is READY.  False of a job redelivered after a crash.
ReadyStaysReady == [][status = "READY" => status' = "READY"]_vars

\* "Fixed composition of the master paper" (schema.prisma): the PaperQuestion
\* rows of a READY paper are the questions in its blob.  False once a run died
\* after linking and the next one selected others.
LinksAreThePaper == status = "READY" => links = blobs[ref]

=============================================================================
