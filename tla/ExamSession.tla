---------------------------- MODULE ExamSession ----------------------------
(***************************************************************************)
(* One candidate's exam session: apps/api/src/services/exam.service.ts.    *)
(*                                                                         *)
(* The session row lives in Postgres, the answers being written in Redis,  *)
(* the submitted answers in 0G Storage and their hash in the               *)
(* SubmissionRegistry contract.  A request handler is a chain of awaited   *)
(* calls on these four stores; the event loop may run another request      *)
(* between any two of them, any call may throw, and the process may die.   *)
(* Every action below is the code from one await to the next.              *)
(*                                                                         *)
(* A hash is modelled by the value hashed (SHA-256 is taken as injective), *)
(* and a storage root or transaction hash by the request that produced it: *)
(* answers are encrypted under a random IV, so no two uploads share a      *)
(* root, and no two transactions share a hash.                             *)
(***************************************************************************)
EXTENDS Integers, FiniteSets

CONSTANTS
  Requests,   \* HTTP requests the student's clients ever send for the session
  Questions,  \* the paper's questions
  Answers,    \* what an autosave can store: an option index, or null (cleared)
  NoAnswer,   \* the Redis hash has no field for the question
  None,       \* a database column that is null, a contract slot never written
  StartAt,    \* Paper.examStartAt
  CloseAt,    \* Paper.examWindowCloseAt
  LastTick    \* bound: the clock stops here

ASSUME NullAssumption ==
  /\ NoAnswer \notin Answers
  /\ None \notin [hash: [Questions -> Answers \cup {NoAnswer}], tx: Requests]
  /\ None \notin [root: Requests, hash: [Questions -> Answers \cup {NoAnswer}], tx: Requests]

ASSUME ClockAssumption ==
  /\ StartAt \in Nat /\ CloseAt \in Nat /\ LastTick \in Nat
  /\ StartAt <= CloseAt

VARIABLES
  clock,     \* the server's clock
  beacon,    \* drand has published the round the content key is sealed to
  paper,     \* Paper.status, set by the paper generation job
  status,    \* StudentExamSession.status
  record,    \* answerStorageRoot, submissionHash and chainTxHash of the row
  cache,     \* Redis exam:<id>:questions
  saved,     \* Redis exam:<id>:answers, a hash from question to answer
  blobs,     \* 0G Storage: the answers under each root
  anchor,    \* SubmissionRegistry.anchors[sessionId]
  mirror,    \* the session's ChainAnchor rows
  audit,     \* the requests that have written their audit log row
  pc,        \* where each request is
  snap,      \* the answers a submit request read from Redis
  acked,     \* history: questions with an answer the API confirmed as saved
  promised   \* history: acked, when each submit request was accepted

vars == <<clock, beacon, paper, status, record, cache, saved, blobs, anchor,
          mirror, audit, pc, snap, acked, promised>>

world   == <<clock, beacon, paper>>
redis   == <<cache, saved>>
ledger  == <<blobs, anchor, mirror>>
history == <<acked, promised>>

Payload    == [Questions -> Answers \cup {NoAnswer}]
Commitment == [hash: Payload, tx: Requests]
Record     == [root: Requests, hash: Payload, tx: Requests]
Empty      == [q \in Questions |-> NoAnswer]
Entries(p) == {q \in Questions : p[q] # NoAnswer}

StartStages  == {"openPaper", "cacheQuestions", "markInProgress", "auditLogin"}
SubmitStages == {"hgetall", "upload", "auditSubmission", "anchorSubmission",
                 "recordAnchor", "markSubmitted", "del"}
InFlight     == StartStages \cup SubmitStages \cup {"hset"}
Stages       == InFlight \cup {"idle", "done", "refused", "failed"}

Goto(r, from, to) == pc[r] = from /\ pc' = [pc EXCEPT ![r] = to]

\* A session just enrolled: sessionRepository.create with status NOT_STARTED.
Init ==
  /\ clock = 0 /\ beacon = FALSE /\ paper = "ASSEMBLING"
  /\ status = "NOT_STARTED" /\ record = None
  /\ cache = "none" /\ saved = Empty
  /\ blobs = [r \in Requests |-> None] /\ anchor = None /\ mirror = {}
  /\ audit = {}
  /\ pc = [r \in Requests |-> "idle"] /\ snap = [r \in Requests |-> Empty]
  /\ acked = {} /\ promised = [r \in Requests |-> {}]

-----------------------------------------------------------------------------
(* The world the handlers run in.                                          *)

Tick ==
  /\ clock < LastTick
  /\ clock' = clock + 1
  /\ UNCHANGED <<beacon, paper, status, record, redis, ledger, audit, pc, snap, history>>

\* Fault: sealed to roundAt(examStartAt), which may be emitted at examStartAt.
BeaconRoundEarly ==
  /\ ~beacon /\ clock >= StartAt
  /\ beacon' = TRUE
  /\ UNCHANGED <<clock, paper, status, record, redis, ledger, audit, pc, snap, history>>

\* The key is sealed to roundAt(examStartAt) + 1, a round emitted strictly
\* after examStartAt; when exactly is up to the drand network.
BeaconRound ==
  /\ ~beacon /\ clock > StartAt
  /\ beacon' = TRUE
  /\ UNCHANGED <<clock, paper, status, record, redis, ledger, audit, pc, snap, history>>

\* sealContentKey and markReady, the end of the generation job (PaperGeneration).
PaperReady ==
  /\ paper = "ASSEMBLING"
  /\ paper' = "READY"
  /\ UNCHANGED <<clock, beacon, status, record, redis, ledger, audit, pc, snap, history>>

\* The question cache is written with a seven-day expiry.
CacheExpires ==
  /\ cache = "live"
  /\ cache' = "expired"
  /\ UNCHANGED <<world, status, record, saved, ledger, audit, pc, snap, history>>

-----------------------------------------------------------------------------
(* startExam                                                               *)

\* The row is read once; every guard is on that copy.  A refused request
\* (409) changes nothing and is not an action.
StartCheck(r) ==
  /\ status = "NOT_STARTED" /\ paper = "READY"
  /\ StartAt <= clock /\ clock <= CloseAt
  /\ Goto(r, "idle", "openPaper")
  /\ UNCHANGED <<world, status, record, redis, ledger, audit, snap, history>>

\* Fault: the session is marked before its questions are cached.
StartOpenPaperMarking(r) ==
  /\ beacon
  /\ Goto(r, "openPaper", "cacheQuestions")
  /\ status' = "IN_PROGRESS"
  /\ UNCHANGED <<world, record, redis, ledger, audit, snap, history>>

\* unsealContentKey, downloadVerified, decrypt, shuffle and redact.
StartOpenPaper(r) ==
  /\ beacon
  /\ Goto(r, "openPaper", "cacheQuestions")
  /\ UNCHANGED <<world, status, record, redis, ledger, audit, snap, history>>

StartTooEarly(r) ==
  /\ ~beacon
  /\ Goto(r, "openPaper", "refused")
  /\ UNCHANGED <<world, status, record, redis, ledger, audit, snap, history>>

StartCache(r) ==
  /\ Goto(r, "cacheQuestions", "markInProgress")
  /\ cache' = "live"
  /\ UNCHANGED <<world, status, record, saved, ledger, audit, snap, history>>

\* An update by id: the status it was checked against is not checked again.
StartMark(r) ==
  /\ Goto(r, "markInProgress", "auditLogin")
  /\ status' = "IN_PROGRESS"
  /\ UNCHANGED <<world, record, redis, ledger, audit, snap, history>>

StartAudit(r) ==
  /\ Goto(r, "auditLogin", "done")
  /\ audit' = audit \cup {r}
  /\ UNCHANGED <<world, status, record, redis, ledger, snap, history>>

-----------------------------------------------------------------------------
(* autosaveAnswer                                                          *)

SaveCheck(r) ==
  /\ status = "IN_PROGRESS"
  /\ Goto(r, "idle", "hset")
  /\ UNCHANGED <<world, status, record, redis, ledger, audit, snap, history>>

SaveWrite(r) ==
  /\ Goto(r, "hset", "done")
  /\ \E q \in Questions, a \in Answers :
       /\ saved' = [saved EXCEPT ![q] = a]
       /\ acked' = acked \cup {q}
  /\ UNCHANGED <<world, status, record, cache, ledger, audit, snap, promised>>

-----------------------------------------------------------------------------
(* submitExam                                                              *)

SubmitCheck(r) ==
  /\ status = "IN_PROGRESS"
  /\ Goto(r, "idle", "hgetall")
  /\ promised' = [promised EXCEPT ![r] = acked]
  /\ UNCHANGED <<world, status, record, redis, ledger, audit, snap, acked>>

SubmitRead(r) ==
  /\ Goto(r, "hgetall", "upload")
  /\ snap' = [snap EXCEPT ![r] = saved]
  /\ UNCHANGED <<world, status, record, redis, ledger, audit, history>>

SubmitUpload(r) ==
  /\ Goto(r, "upload", "auditSubmission")
  /\ blobs' = [blobs EXCEPT ![r] = snap[r]]
  /\ UNCHANGED <<world, status, record, redis, anchor, mirror, audit, snap, history>>

\* Fault: the Redis answers are deleted once uploaded, before the anchor.
SubmitAuditDeleting(r) ==
  /\ Goto(r, "auditSubmission", "anchorSubmission")
  /\ audit' = audit \cup {r}
  /\ saved' = Empty
  /\ UNCHANGED <<world, status, record, cache, ledger, snap, history>>

SubmitAudit(r) ==
  /\ Goto(r, "auditSubmission", "anchorSubmission")
  /\ audit' = audit \cup {r}
  /\ UNCHANGED <<world, status, record, redis, ledger, snap, history>>

\* Fault: the contract without its require.
SubmitAnchorUnguarded(r) ==
  /\ Goto(r, "anchorSubmission", "recordAnchor")
  /\ anchor' = [hash |-> snap[r], tx |-> r]
  /\ UNCHANGED <<world, status, record, redis, blobs, mirror, audit, snap, history>>

\* Fault: two submits about to anchor wait for each other.
SubmitAnchorExclusive(r) ==
  /\ anchor = None
  /\ \A s \in Requests \ {r} : pc[s] # "anchorSubmission"
  /\ Goto(r, "anchorSubmission", "recordAnchor")
  /\ anchor' = [hash |-> snap[r], tx |-> r]
  /\ UNCHANGED <<world, status, record, redis, blobs, mirror, audit, snap, history>>

\* SubmissionRegistry.anchorSubmission, mined: the slot was empty.  A
\* transaction that is mined while tx.wait() throws is this step and Abort.
SubmitAnchor(r) ==
  /\ anchor = None
  /\ Goto(r, "anchorSubmission", "recordAnchor")
  /\ anchor' = [hash |-> snap[r], tx |-> r]
  /\ UNCHANGED <<world, status, record, redis, blobs, mirror, audit, snap, history>>

\* require(anchors[sessionId].blockTimestamp == 0, "already anchored")
SubmitReverts(r) ==
  /\ anchor # None
  /\ Goto(r, "anchorSubmission", "refused")
  /\ UNCHANGED <<world, status, record, redis, ledger, audit, snap, history>>

SubmitMirror(r) ==
  /\ Goto(r, "recordAnchor", "markSubmitted")
  /\ mirror' = mirror \cup {[hash |-> snap[r], tx |-> r]}
  /\ UNCHANGED <<world, status, record, redis, blobs, anchor, audit, snap, history>>

\* Fault: the hash is computed again from what Redis holds by now.
SubmitMarkRehashed(r) ==
  /\ Goto(r, "markSubmitted", "del")
  /\ status' = "SUBMITTED"
  /\ record' = [root |-> r, hash |-> saved, tx |-> r]
  /\ UNCHANGED <<world, redis, ledger, audit, snap, history>>

SubmitMark(r) ==
  /\ Goto(r, "markSubmitted", "del")
  /\ status' = "SUBMITTED"
  /\ record' = [root |-> r, hash |-> snap[r], tx |-> r]
  /\ UNCHANGED <<world, redis, ledger, audit, snap, history>>

SubmitDel(r) ==
  /\ Goto(r, "del", "done")
  /\ saved' = Empty
  /\ UNCHANGED <<world, status, record, cache, ledger, audit, snap, history>>

-----------------------------------------------------------------------------
(* Failures                                                                *)

\* An awaited call throws: the handler ends where it is, nothing is undone.
Abort(r) ==
  /\ pc[r] \in InFlight
  /\ pc' = [pc EXCEPT ![r] = "failed"]
  /\ UNCHANGED <<world, status, record, redis, ledger, audit, snap, history>>

\* The API process dies and restarts: every handler in flight is gone.
Crash ==
  /\ \E r \in Requests : pc[r] \in InFlight
  /\ pc' = [r \in Requests |-> IF pc[r] \in InFlight THEN "failed" ELSE pc[r]]
  /\ UNCHANGED <<world, status, record, redis, ledger, audit, snap, history>>

-----------------------------------------------------------------------------
Environment == Tick \/ BeaconRound \/ PaperReady \/ CacheExpires

Accept(r) == StartCheck(r) \/ SaveCheck(r) \/ SubmitCheck(r)

Proceed(r) ==
  \/ StartOpenPaper(r) \/ StartTooEarly(r) \/ StartCache(r) \/ StartMark(r)
  \/ StartAudit(r) \/ SaveWrite(r)
  \/ SubmitRead(r) \/ SubmitUpload(r) \/ SubmitAudit(r) \/ SubmitAnchor(r)
  \/ SubmitReverts(r) \/ SubmitMirror(r) \/ SubmitMark(r) \/ SubmitDel(r)

Next ==
  \/ Environment \/ Crash
  \/ \E r \in Requests : Accept(r) \/ Proceed(r) \/ Abort(r)

Spec == Init /\ [][Next]_vars

\* The event loop does not rest while a handler in flight can go on; which of
\* several it resumes is left open.
FairSpec == Spec /\ WF_vars(\E r \in Requests : Proceed(r))

-----------------------------------------------------------------------------
(* Correctness                                                             *)

\* Every variable holds a value of its kind.
TypeOK ==
  /\ clock \in 0..LastTick /\ beacon \in BOOLEAN
  /\ paper \in {"ASSEMBLING", "READY"}
  /\ status \in {"NOT_STARTED", "IN_PROGRESS", "SUBMITTED"}
  /\ record \in Record \cup {None}
  /\ cache \in {"none", "live", "expired"} /\ saved \in Payload
  /\ blobs \in [Requests -> Payload \cup {None}]
  /\ anchor \in Commitment \cup {None} /\ mirror \subseteq Commitment
  /\ audit \subseteq Requests
  /\ pc \in [Requests -> Stages] /\ snap \in [Requests -> Payload]
  /\ acked \subseteq Questions /\ promised \in [Requests -> SUBSET Questions]

\* The three records of a submission agree, whichever of several concurrent
\* submits got there first and wherever the others failed: the row names the
\* anchored hash and transaction, the root it names stores the answers hashed,
\* and the ChainAnchor rows mirror the chain.
RecordMatchesChain ==
  /\ record # None =>
       /\ anchor = [hash |-> record.hash, tx |-> record.tx]
       /\ blobs[record.root] = record.hash
       /\ anchor \in mirror
  /\ mirror \subseteq {anchor}

\* A commitment on chain is never hollow, even when the handler that made it
\* died at once: the answers it commits to are in storage and its
\* ANSWER_SUBMISSION audit row is written.
CommitmentBacked ==
  anchor # None => blobs[anchor.tx] = anchor.hash /\ anchor.tx \in audit

\* No answer is dropped: every question whose autosave had been confirmed when
\* the winning submit was accepted has an answer in the commitment, although
\* rival submits may have read the Redis hash after it, and cleared it.
AckedAnswersCommitted ==
  anchor # None => promised[anchor.tx] \subseteq Entries(anchor.hash)

\* A SUBMITTED session always has its proof (root, hash and transaction), and
\* a stale start that reopens the session never takes the proof away.
SubmittedHasRecord == status = "SUBMITTED" => record # None

\* Nothing is decrypted at or before examStartAt, however the clock, the
\* beacon and the start requests interleave.
KeyStaysSealed == cache # "none" => clock > StartAt

\* getActiveQuestions answers 410 for a session in progress.
Gone == status = "IN_PROGRESS" /\ cache # "live"

\* A candidate in progress can resume after a refresh, unless seven days have
\* passed: the questions are cached before the session is marked.
GoneOnlyByExpiry == Gone => cache = "expired"

Committed == INSTANCE SubmissionLedger WITH
  Commitments <- Commitment,
  None        <- None,
  committed   <- anchor,
  recorded    <- IF record = None THEN None
                 ELSE [hash |-> record.hash, tx |-> record.tx]

\* The session implements the ledger: one commitment, never replaced, and a
\* row that names it.
ImplementsLedger == Committed!Spec

\* Rival submits never defeat each other: once one was accepted, the row gets
\* its proof, unless a call threw or the process died.
SubmitCompletes ==
  (\E r \in Requests : pc[r] \in SubmitStages) ~>
    record # None \/ \E r \in Requests : pc[r] = "failed"

-----------------------------------------------------------------------------
(* The inductive invariant behind the safety properties.                   *)

Uploaded == {"auditSubmission", "anchorSubmission", "recordAnchor", "markSubmitted", "del"}
Anchored == {"recordAnchor", "markSubmitted", "del"}

\* What a submit in flight has already left behind it, stage by stage; and
\* the request that owns the commitment is past every stage that writes.
SubmitProgress ==
  /\ \A r \in Requests :
       /\ pc[r] \in Uploaded => blobs[r] = snap[r]
       /\ pc[r] \in Uploaded \ {"auditSubmission"} => r \in audit
       /\ pc[r] \in Anchored => anchor = [hash |-> snap[r], tx |-> r]
       /\ pc[r] \in {"markSubmitted", "del"} => [hash |-> snap[r], tx |-> r] \in mirror
  /\ anchor # None => pc[anchor.tx] \in Anchored \cup {"done", "failed"}
  /\ record # None => record.root = record.tx

\* Until something is anchored Redis keeps every confirmed answer, and so does
\* the copy of every submit that might still anchor.
PromiseKept ==
  /\ anchor = None => acked \subseteq Entries(saved)
  /\ \A r \in Requests :
       /\ promised[r] \subseteq acked
       /\ pc[r] \in {"upload", "auditSubmission", "anchorSubmission"} /\ anchor = None
            => promised[r] \subseteq Entries(snap[r])

\* The strengthening that every step preserves.
IInv ==
  /\ SubmitProgress /\ PromiseKept
  /\ RecordMatchesChain /\ CommitmentBacked /\ SubmittedHasRecord /\ AckedAnswersCommitted

\* "Submitting is final and anchored on-chain" (StudentExamClient.tsx): a
\* session that is SUBMITTED stays SUBMITTED.  The code does not keep this.
SubmitIsFinal == [][status = "SUBMITTED" => status' = "SUBMITTED"]_vars

=============================================================================
