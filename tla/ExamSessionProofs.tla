------------------------- MODULE ExamSessionProofs -------------------------
(***************************************************************************)
(* What TLAPS proves of ExamSession, for any number of requests, questions *)
(* and answers, and any exam window.                                       *)
(***************************************************************************)
EXTENDS ExamSession, TLAPS

\* The actions of the handlers and of the world keep every variable in its
\* kind.
THEOREM TypeCorrect == Spec => []TypeOK
<1>1. Init => TypeOK
  <2> SUFFICES ASSUME Init PROVE TypeOK
    OBVIOUS
  <2> USE DEF Init
  <2>1. clock \in 0..LastTick
    BY ClockAssumption
  <2>2. Empty \in Payload
    BY DEF Empty, Payload
  <2>3. pc \in [Requests -> Stages] /\ snap \in [Requests -> Payload]
    BY <2>2 DEF Stages
  <2>4. blobs \in [Requests -> Payload \cup {None}] /\ promised \in [Requests -> SUBSET Questions]
    OBVIOUS
  <2> QED
    BY <2>1, <2>2, <2>3, <2>4 DEF TypeOK
<1>2. TypeOK /\ [Next]_vars => TypeOK'
  <2> SUFFICES ASSUME TypeOK, [Next]_vars PROVE TypeOK'
    OBVIOUS
  <2> USE DEF TypeOK, world, redis, ledger, history
  <2>1. CASE Environment
    <3>1. CASE Tick
      <4>1. clock' \in 0..LastTick
        BY <3>1, ClockAssumption DEF Tick
      <4> QED
        BY <3>1, <4>1 DEF Tick
    <3>2. CASE BeaconRound
      BY <3>2 DEF BeaconRound
    <3>3. CASE PaperReady
      BY <3>3 DEF PaperReady
    <3>4. CASE CacheExpires
      BY <3>4 DEF CacheExpires
    <3> QED
      BY <2>1, <3>1, <3>2, <3>3, <3>4 DEF Environment
  <2>2. ASSUME NEW r \in Requests, Accept(r) PROVE TypeOK'
    BY <2>2 DEF Accept, StartCheck, SaveCheck, SubmitCheck, Goto, Stages, InFlight,
                StartStages, SubmitStages
  <2>3. ASSUME NEW r \in Requests, Proceed(r) PROVE TypeOK'
    <3> USE DEF Goto, Stages, InFlight, StartStages, SubmitStages
    <3>1. CASE StartOpenPaper(r) \/ StartTooEarly(r) \/ StartCache(r) \/ StartMark(r)
      BY <3>1 DEF StartOpenPaper, StartTooEarly, StartCache, StartMark
    <3>2. CASE StartAudit(r) \/ SubmitAudit(r)
      BY <3>2 DEF StartAudit, SubmitAudit
    <3>3. CASE SaveWrite(r)
      BY <3>3 DEF SaveWrite, Payload
    <3>4. CASE SubmitRead(r)
      BY <3>4 DEF SubmitRead
    <3>5. CASE SubmitUpload(r)
      BY <3>5 DEF SubmitUpload
    <3>6. CASE SubmitAnchor(r)
      BY <3>6 DEF SubmitAnchor, Commitment
    <3>7. CASE SubmitReverts(r)
      BY <3>7 DEF SubmitReverts
    <3>8. CASE SubmitMirror(r)
      BY <3>8 DEF SubmitMirror, Commitment
    <3>9. CASE SubmitMark(r)
      BY <3>9 DEF SubmitMark, Record
    <3>10. CASE SubmitDel(r)
      BY <3>10 DEF SubmitDel, Empty, Payload
    <3> QED
      BY <2>3, <3>1, <3>2, <3>3, <3>4, <3>5, <3>6, <3>7, <3>8, <3>9, <3>10 DEF Proceed
  <2>4. CASE Crash
    BY <2>4 DEF Crash, Stages
  <2>5. ASSUME NEW r \in Requests, Abort(r) PROVE TypeOK'
    BY <2>5 DEF Abort, Stages
  <2>6. CASE UNCHANGED vars
    BY <2>6 DEF vars
  <2> QED
    BY <2>1, <2>2, <2>3, <2>4, <2>5, <2>6 DEF Next
<1> QED
  BY <1>1, <1>2, PTL DEF Spec

-----------------------------------------------------------------------------
(* A null column or an empty slot is no record, and no commitment.         *)

LEMMA NullIsNothing == None \notin Commitment /\ None \notin Record
  BY NullAssumption DEF Commitment, Record, Payload

\* Saving an answer gives its question an entry and takes none away.
LEMMA SaveAddsEntry ==
  ASSUME NEW p \in Payload, NEW q \in Questions, NEW a \in Answers
  PROVE  Entries([p EXCEPT ![q] = a]) = Entries(p) \cup {q}
  BY NullAssumption DEF Entries, Payload

\* Nothing the invariant speaks of changes in a step that touches neither the
\* ledger, the row, the answers, the audit log nor a request's copy, provided
\* the request that moves does not reach a stage that claims more.
Quiet == UNCHANGED <<record, blobs, anchor, mirror, audit, saved, snap, acked, promised>>

LEMMA QuietStep ==
  ASSUME TypeOK, IInv, Quiet,
         status' = status \/ status' = "IN_PROGRESS",
         \A s \in Requests :
           \/ pc'[s] = pc[s]
           \/ /\ pc'[s] \notin Uploaded \cup {"upload"}
              /\ pc[s] \in Anchored \cup {"done", "failed"} => pc'[s] \in {"done", "failed"}
  PROVE  IInv'
<1> USE DEF IInv, Quiet
<1>1. SubmitProgress'
  BY NullIsNothing DEF TypeOK, SubmitProgress, Uploaded, Anchored, Commitment
<1>2. PromiseKept'
  BY DEF PromiseKept, Entries, Uploaded
<1>3. RecordMatchesChain' /\ CommitmentBacked' /\ SubmittedHasRecord'
  BY DEF RecordMatchesChain, CommitmentBacked, SubmittedHasRecord
<1>4. AckedAnswersCommitted'
  BY DEF AckedAnswersCommitted, Entries
<1> QED
  BY <1>1, <1>2, <1>3, <1>4

\* The steps that touch none of what the invariant speaks of.
LEMMA QuietActions ==
  ASSUME TypeOK, IInv,
         \/ Environment
         \/ Crash
         \/ UNCHANGED vars
         \/ \E r \in Requests :
              \/ StartCheck(r) \/ SaveCheck(r) \/ StartOpenPaper(r) \/ StartTooEarly(r)
              \/ StartCache(r) \/ StartMark(r) \/ SubmitReverts(r) \/ Abort(r)
  PROVE  IInv'
<1> USE DEF world, redis, ledger, history, Quiet
<1>1. CASE Environment
  BY <1>1, QuietStep DEF Environment, Tick, BeaconRound, PaperReady, CacheExpires
<1>2. CASE Crash
  <2>1. \A s \in Requests : pc'[s] = pc[s] \/ pc'[s] = "failed"
    BY <1>2 DEF Crash, TypeOK
  <2> QED
    BY <1>2, <2>1, QuietStep DEF Crash, Uploaded
<1>3. CASE UNCHANGED vars
  BY <1>3, QuietStep DEF vars
<1>4. ASSUME NEW r \in Requests,
             \/ StartCheck(r) \/ SaveCheck(r) \/ StartOpenPaper(r) \/ StartTooEarly(r)
             \/ StartCache(r) \/ StartMark(r) \/ SubmitReverts(r) \/ Abort(r)
      PROVE  IInv'
  <2>1. Quiet /\ (status' = status \/ status' = "IN_PROGRESS")
    BY <1>4 DEF StartCheck, SaveCheck, StartOpenPaper, StartTooEarly, StartCache,
                StartMark, SubmitReverts, Abort
  <2>2. \A s \in Requests \ {r} : pc'[s] = pc[s]
    BY <1>4 DEF TypeOK, Goto, StartCheck, SaveCheck, StartOpenPaper, StartTooEarly,
                StartCache, StartMark, SubmitReverts, Abort
  <2>3. /\ pc'[r] \notin Uploaded \cup {"upload"}
        /\ pc[r] \in Anchored \cup {"done", "failed"} => pc'[r] \in {"done", "failed"}
    BY <1>4 DEF TypeOK, Goto, StartCheck, SaveCheck, StartOpenPaper, StartTooEarly,
                StartCache, StartMark, SubmitReverts, Abort, Uploaded, Anchored
  <2> QED
    BY <2>1, <2>2, <2>3, QuietStep
<1> QED
  BY <1>1, <1>2, <1>3, <1>4

\* Two audit rows, and the answers a submit reads, disturb no claim made so far.
LEMMA AuditAndReadActions ==
  ASSUME TypeOK, IInv, NEW r \in Requests,
         StartAudit(r) \/ SubmitAudit(r) \/ SubmitCheck(r) \/ SubmitRead(r)
  PROVE  IInv'
<1> USE DEF IInv, TypeOK, Goto, redis, ledger, history
<1>1. CASE StartAudit(r) \/ SubmitAudit(r)
  <2> USE <1>1 DEF StartAudit, SubmitAudit
  <2>1. SubmitProgress'
    BY NullIsNothing DEF SubmitProgress, Uploaded, Anchored, Commitment
  <2>2. PromiseKept'
    BY DEF PromiseKept, Entries
  <2>3. RecordMatchesChain' /\ CommitmentBacked' /\ SubmittedHasRecord'
    BY DEF RecordMatchesChain, CommitmentBacked, SubmittedHasRecord
  <2>4. AckedAnswersCommitted'
    BY DEF AckedAnswersCommitted, Entries
  <2> QED
    BY <2>1, <2>2, <2>3, <2>4
<1>2. CASE SubmitCheck(r)
  <2> USE <1>2 DEF SubmitCheck
  <2>1. SubmitProgress'
    BY NullIsNothing DEF SubmitProgress, Uploaded, Anchored, Commitment
  <2>2. PromiseKept'
    BY DEF PromiseKept, Entries
  <2>3. RecordMatchesChain' /\ CommitmentBacked' /\ SubmittedHasRecord'
    BY DEF RecordMatchesChain, CommitmentBacked, SubmittedHasRecord
  <2>4. ASSUME anchor # None PROVE anchor.tx # r
    BY <2>4 DEF SubmitProgress, Anchored
  <2>5. AckedAnswersCommitted'
    BY <2>4 DEF AckedAnswersCommitted, Entries
  <2> QED
    BY <2>1, <2>2, <2>3, <2>5
<1>3. CASE SubmitRead(r)
  <2> USE <1>3 DEF SubmitRead
  <2>1. SubmitProgress'
    BY NullIsNothing DEF SubmitProgress, Uploaded, Anchored, Commitment
  <2>2. PromiseKept'
    BY DEF PromiseKept, Entries
  <2>3. RecordMatchesChain' /\ CommitmentBacked' /\ SubmittedHasRecord'
    BY DEF RecordMatchesChain, CommitmentBacked, SubmittedHasRecord
  <2>4. AckedAnswersCommitted'
    BY DEF AckedAnswersCommitted, Entries
  <2> QED
    BY <2>1, <2>2, <2>3, <2>4
<1> QED
  BY <1>1, <1>2, <1>3

\* A confirmed answer is in Redis before it is confirmed.
LEMMA SaveAction ==
  ASSUME TypeOK, IInv, NEW r \in Requests, SaveWrite(r)
  PROVE  IInv'
<1> USE DEF IInv, TypeOK, Goto, SaveWrite, ledger
<1>1. PICK q \in Questions, a \in Answers :
        saved' = [saved EXCEPT ![q] = a] /\ acked' = acked \cup {q}
  OBVIOUS
<1>2. Entries(saved') = Entries(saved) \cup {q}
  BY <1>1, SaveAddsEntry
<1>3. SubmitProgress'
  BY NullIsNothing DEF SubmitProgress, Uploaded, Anchored, Commitment
<1>4. PromiseKept'
  <2>1. anchor' = None => acked' \subseteq Entries(saved')
    BY <1>1, <1>2 DEF PromiseKept
  <2>2. ASSUME NEW s \in Requests
        PROVE  /\ promised'[s] \subseteq acked'
               /\ pc'[s] \in {"upload", "auditSubmission", "anchorSubmission"} /\ anchor' = None
                    => promised'[s] \subseteq Entries(snap'[s])
    BY <1>1 DEF PromiseKept, Entries
  <2>3. Entries(saved)' = Entries(saved') /\ \A s \in Requests : Entries(snap[s])' = Entries(snap'[s])
    BY DEF Entries
  <2> QED
    BY <2>1, <2>2, <2>3 DEF PromiseKept
<1>5. RecordMatchesChain' /\ CommitmentBacked' /\ SubmittedHasRecord'
  BY DEF RecordMatchesChain, CommitmentBacked, SubmittedHasRecord
<1>6. AckedAnswersCommitted'
  BY DEF AckedAnswersCommitted, Entries
<1> QED
  BY <1>3, <1>4, <1>5, <1>6

\* The upload writes under a root of its own, which no commitment names yet.
LEMMA UploadAction ==
  ASSUME TypeOK, IInv, NEW r \in Requests, SubmitUpload(r)
  PROVE  IInv'
<1> USE DEF IInv, TypeOK, Goto, SubmitUpload, redis, history
<1>1. anchor # None => anchor.tx # r
  BY DEF SubmitProgress, Anchored
<1>2. SubmitProgress'
  BY <1>1, NullIsNothing DEF SubmitProgress, Uploaded, Anchored, Commitment
<1>3. PromiseKept'
  BY DEF PromiseKept, Entries
<1>4. RecordMatchesChain'
  <2>1. ASSUME record # None PROVE record.root # r
    <3>1. anchor = [hash |-> record.hash, tx |-> record.tx] /\ record.root = record.tx
      BY <2>1 DEF RecordMatchesChain, SubmitProgress
    <3>2. anchor # None /\ anchor.tx = record.root
      BY <2>1, <3>1, NullIsNothing DEF Record, Commitment
    <3> QED
      BY <1>1, <3>2
  <2> QED
    BY <2>1 DEF RecordMatchesChain, Record
<1>5. CommitmentBacked' /\ SubmittedHasRecord'
  BY <1>1, NullIsNothing DEF CommitmentBacked, SubmittedHasRecord, Commitment
<1>6. AckedAnswersCommitted'
  BY DEF AckedAnswersCommitted, Entries
<1> QED
  BY <1>2, <1>3, <1>4, <1>5, <1>6

\* The contract lets one submit through, and its copy keeps every promise.
LEMMA AnchorAction ==
  ASSUME TypeOK, IInv, NEW r \in Requests, SubmitAnchor(r)
  PROVE  IInv'
<1> USE DEF IInv, TypeOK, Goto, SubmitAnchor, redis, history
<1>1. anchor' \in Commitment /\ anchor' # None /\ anchor'.tx = r /\ anchor'.hash = snap[r]
  BY NullIsNothing DEF Commitment
<1>2. record = None /\ mirror = {}
  BY NullIsNothing DEF RecordMatchesChain, Commitment, Record
<1>3. SubmitProgress'
  BY <1>1, <1>2, NullIsNothing DEF SubmitProgress, Uploaded, Anchored, Commitment
<1>4. PromiseKept'
  BY <1>1 DEF PromiseKept, Entries
<1>5. RecordMatchesChain' /\ SubmittedHasRecord'
  BY <1>2 DEF RecordMatchesChain, SubmittedHasRecord
<1>6. CommitmentBacked'
  BY <1>1 DEF CommitmentBacked, SubmitProgress, Uploaded
<1>7. AckedAnswersCommitted'
  BY <1>1 DEF AckedAnswersCommitted, PromiseKept, Entries
<1> QED
  BY <1>3, <1>4, <1>5, <1>6, <1>7

\* Past the anchor the handler copies what is on chain into the database, and
\* only then clears Redis.
LEMMA RecordActions ==
  ASSUME TypeOK, IInv, NEW r \in Requests,
         SubmitMirror(r) \/ SubmitMark(r) \/ SubmitDel(r)
  PROVE  IInv'
<1> USE DEF IInv, TypeOK, Goto, redis, ledger, history
<1>1. anchor = [hash |-> snap[r], tx |-> r] /\ blobs[r] = snap[r] /\ anchor \in Commitment
  <2>1. pc[r] \in Anchored
    BY DEF SubmitMirror, SubmitMark, SubmitDel, Anchored
  <2>2. anchor = [hash |-> snap[r], tx |-> r] /\ blobs[r] = snap[r]
    BY <2>1 DEF SubmitProgress, Uploaded, Anchored
  <2>3. snap[r] \in Payload
    OBVIOUS
  <2> QED
    BY <2>2, <2>3 DEF Commitment
<1>2. anchor # None
  BY <1>1, NullIsNothing
<1>3. CASE SubmitMirror(r)
  <2> USE <1>3 DEF SubmitMirror
  <2>1. SubmitProgress'
    BY <1>1, NullIsNothing DEF SubmitProgress, Uploaded, Anchored, Commitment
  <2>2. PromiseKept' /\ AckedAnswersCommitted'
    BY DEF PromiseKept, AckedAnswersCommitted, Entries
  <2>3. RecordMatchesChain' /\ CommitmentBacked' /\ SubmittedHasRecord'
    BY <1>1 DEF RecordMatchesChain, CommitmentBacked, SubmittedHasRecord
  <2> QED
    BY <2>1, <2>2, <2>3
<1>4. CASE SubmitMark(r)
  <2> USE <1>4 DEF SubmitMark
  <2>1. anchor \in mirror
    BY <1>1 DEF SubmitProgress
  <2>2. record' \in Record /\ record' # None
    BY NullIsNothing DEF Record
  <2>3. SubmitProgress'
    BY <1>1, <2>2 DEF SubmitProgress, Uploaded, Anchored
  <2>4. PromiseKept' /\ AckedAnswersCommitted'
    BY DEF PromiseKept, AckedAnswersCommitted, Entries
  <2>5. RecordMatchesChain' /\ CommitmentBacked' /\ SubmittedHasRecord'
    BY <1>1, <2>1, <2>2 DEF RecordMatchesChain, CommitmentBacked, SubmittedHasRecord
  <2> QED
    BY <2>3, <2>4, <2>5
<1>5. CASE SubmitDel(r)
  <2> USE <1>5 DEF SubmitDel
  <2>1. SubmitProgress'
    BY <1>1, NullIsNothing DEF SubmitProgress, Uploaded, Anchored, Commitment
  <2>2. PromiseKept' /\ AckedAnswersCommitted'
    BY <1>2 DEF PromiseKept, AckedAnswersCommitted, Entries
  <2>3. RecordMatchesChain' /\ CommitmentBacked' /\ SubmittedHasRecord'
    BY DEF RecordMatchesChain, CommitmentBacked, SubmittedHasRecord
  <2> QED
    BY <2>1, <2>2, <2>3
<1> QED
  BY <1>3, <1>4, <1>5

-----------------------------------------------------------------------------
\* The strengthened invariant, and with it every safety property it names,
\* holds of every behaviour.
THEOREM Inductive == Spec => []IInv
<1>1. Init => IInv
  BY NullAssumption
  DEF Init, IInv, SubmitProgress, PromiseKept, RecordMatchesChain, CommitmentBacked,
      SubmittedHasRecord, AckedAnswersCommitted, Uploaded, Anchored
<1>2. TypeOK /\ IInv /\ [Next]_vars => IInv'
  <2> SUFFICES ASSUME TypeOK, IInv, [Next]_vars PROVE IInv'
    OBVIOUS
  <2>1. CASE Environment \/ Crash \/ UNCHANGED vars
    BY <2>1, QuietActions
  <2>2. ASSUME NEW r \in Requests, Accept(r) \/ Proceed(r) \/ Abort(r) PROVE IInv'
    BY <2>2, QuietActions, AuditAndReadActions, SaveAction, UploadAction, AnchorAction,
       RecordActions DEF Accept, Proceed
  <2> QED
    BY <2>1, <2>2 DEF Next
<1> QED
  BY <1>1, <1>2, TypeCorrect, PTL DEF Spec

\* The row, the chain, the ChainAnchor mirror and storage agree on the
\* submission, for any number of racing and failing requests.
THEOREM RecordIsTrue == Spec => []RecordMatchesChain
<1>1. IInv => RecordMatchesChain
  BY DEF IInv
<1> QED
  BY <1>1, Inductive, PTL

\* What is committed on chain is stored, and audited.
THEOREM NoHollowCommitment == Spec => []CommitmentBacked
<1>1. IInv => CommitmentBacked
  BY DEF IInv
<1> QED
  BY <1>1, Inductive, PTL

\* A confirmed answer is in the commitment of every submit accepted after it.
THEOREM NoAnswerDropped == Spec => []AckedAnswersCommitted
<1>1. IInv => AckedAnswersCommitted
  BY DEF IInv
<1> QED
  BY <1>1, Inductive, PTL

-----------------------------------------------------------------------------
(* The session implements the submission ledger.                           *)

\* Only two steps touch the chain's slot or the row.
LEMMA LedgerUntouched ==
  ASSUME [Next]_vars, \A r \in Requests : ~SubmitAnchor(r) /\ ~SubmitMark(r)
  PROVE  anchor' = anchor /\ record' = record
<1> USE DEF world, redis, ledger, history
<1>1. CASE Environment \/ Crash \/ UNCHANGED vars
  BY <1>1 DEF Environment, Tick, BeaconRound, PaperReady, CacheExpires, Crash, vars
<1>2. ASSUME NEW r \in Requests, Accept(r) \/ Abort(r)
      PROVE  anchor' = anchor /\ record' = record
  BY <1>2 DEF Accept, StartCheck, SaveCheck, SubmitCheck, Abort
<1>3. ASSUME NEW r \in Requests, Proceed(r)
      PROVE  anchor' = anchor /\ record' = record
  BY <1>3 DEF Proceed, StartOpenPaper, StartTooEarly, StartCache, StartMark, StartAudit,
              SaveWrite, SubmitRead, SubmitUpload, SubmitAudit, SubmitReverts,
              SubmitMirror, SubmitDel
<1> QED
  BY <1>1, <1>2, <1>3 DEF Next

\* A submission is committed to once, the commitment is never replaced, and
\* the row names it: every step of the code is a step of SubmissionLedger.
THEOREM LedgerImplemented == Spec => ImplementsLedger
<1> USE DEF Committed!Next, Committed!Commit, Committed!RecordIt, Committed!ledger
<1>1. Init => Committed!Init
  BY DEF Init, Committed!Init
<1>2. TypeOK /\ IInv /\ IInv' /\ [Next]_vars => [Committed!Next]_(Committed!ledger)
  <2> SUFFICES ASSUME TypeOK, IInv, IInv', [Next]_vars
               PROVE  [Committed!Next]_(Committed!ledger)
    OBVIOUS
  <2>1. ASSUME NEW r \in Requests, SubmitAnchor(r) PROVE Committed!Commit
    <3>1. anchor = None /\ anchor' \in Commitment /\ record' = record
      BY <2>1 DEF SubmitAnchor, TypeOK, Commitment
    <3> QED
      BY <3>1
  <2>2. ASSUME NEW r \in Requests, SubmitMark(r) PROVE Committed!RecordIt
    <3>1. anchor = [hash |-> snap[r], tx |-> r] /\ anchor \in Commitment
      BY <2>2 DEF IInv, SubmitProgress, SubmitMark, Goto, TypeOK, Anchored, Commitment
    <3>2. record' # None /\ record'.hash = snap[r] /\ record'.tx = r /\ anchor' = anchor
      BY <2>2, NullIsNothing DEF SubmitMark, TypeOK, Record, ledger
    <3> QED
      BY <3>1, <3>2, NullIsNothing
  <2>3. CASE \A r \in Requests : ~SubmitAnchor(r) /\ ~SubmitMark(r)
    BY <2>3, LedgerUntouched
  <2> QED
    BY <2>1, <2>2, <2>3
<1> QED
  BY <1>1, <1>2, TypeCorrect, Inductive, PTL DEF Spec, Committed!Spec, ImplementsLedger

-----------------------------------------------------------------------------
(* The key and the question cache.                                         *)

\* What opened the paper happened after examStartAt, and whoever marks the
\* session has cached its questions.
SealInv ==
  /\ beacon \/ cache # "none" => clock > StartAt
  /\ status = "IN_PROGRESS" => cache # "none"
  /\ \A r \in Requests :
       /\ pc[r] = "cacheQuestions" => clock > StartAt
       /\ pc[r] = "markInProgress" => cache # "none"

\* The steps that open, cache, mark or move the clock.
LEMMA SealKeptByTheOpening ==
  ASSUME TypeOK, SealInv,
         \/ Environment
         \/ \E r \in Requests : StartOpenPaper(r) \/ StartCache(r) \/ StartMark(r)
  PROVE  SealInv'
<1> USE DEF TypeOK, SealInv, world, redis, ledger, history, Goto
<1>1. CASE Environment
  <2>1. CASE Tick
    <3>1. clock' > clock /\ clock' \in Int /\ clock \in Int
      BY <2>1, ClockAssumption DEF Tick
    <3>2. clock > StartAt => clock' > StartAt
      BY <3>1, ClockAssumption
    <3> QED
      BY <2>1, <3>2 DEF Tick
  <2>2. CASE BeaconRound
    BY <2>2 DEF BeaconRound
  <2>3. CASE PaperReady \/ CacheExpires
    BY <2>3 DEF PaperReady, CacheExpires
  <2> QED
    BY <1>1, <2>1, <2>2, <2>3 DEF Environment
<1>2. ASSUME NEW r \in Requests, StartOpenPaper(r) PROVE SealInv'
  BY <1>2 DEF StartOpenPaper
<1>3. ASSUME NEW r \in Requests, StartCache(r) PROVE SealInv'
  BY <1>3 DEF StartCache
<1>4. ASSUME NEW r \in Requests, StartMark(r) PROVE SealInv'
  BY <1>4 DEF StartMark
<1> QED
  BY <1>1, <1>2, <1>3, <1>4

\* No other step brings a session into progress, or a request to the cache.
LEMMA SealKeptByTheRest ==
  ASSUME TypeOK, SealInv, UNCHANGED <<world, cache>>, status' # "IN_PROGRESS" \/ status' = status,
         \A r \in Requests : pc'[r] = pc[r] \/ pc'[r] \notin {"cacheQuestions", "markInProgress"}
  PROVE  SealInv'
BY DEF SealInv, world

\* The two facts the safety properties need hold in every reachable state.
THEOREM Sealing == Spec => []SealInv
<1>1. Init => SealInv
  BY DEF Init, SealInv
<1>2. TypeOK /\ SealInv /\ [Next]_vars => SealInv'
  <2> SUFFICES ASSUME TypeOK, SealInv, [Next]_vars PROVE SealInv'
    OBVIOUS
  <2> USE DEF redis, ledger, history
  <2>1. CASE Environment
    BY <2>1, SealKeptByTheOpening
  <2>2. CASE Crash
    BY <2>2, SealKeptByTheRest DEF Crash, TypeOK
  <2>3. CASE UNCHANGED vars
    BY <2>3, SealKeptByTheRest DEF vars, world
  <2>4. ASSUME NEW r \in Requests, Accept(r) \/ Abort(r) PROVE SealInv'
    BY <2>4, SealKeptByTheRest DEF Accept, StartCheck, SaveCheck, SubmitCheck, Abort, Goto, TypeOK
  <2>5. ASSUME NEW r \in Requests, Proceed(r) PROVE SealInv'
    <3>1. CASE StartOpenPaper(r) \/ StartCache(r) \/ StartMark(r)
      BY <3>1, SealKeptByTheOpening
    <3>2. CASE StartTooEarly(r) \/ StartAudit(r) \/ SaveWrite(r)
      BY <3>2, SealKeptByTheRest DEF StartTooEarly, StartAudit, SaveWrite, Goto, TypeOK
    <3>3. CASE \/ SubmitRead(r) \/ SubmitUpload(r) \/ SubmitAudit(r) \/ SubmitAnchor(r)
               \/ SubmitReverts(r) \/ SubmitMirror(r) \/ SubmitMark(r) \/ SubmitDel(r)
      BY <3>3, SealKeptByTheRest DEF SubmitRead, SubmitUpload, SubmitAudit, SubmitAnchor,
         SubmitReverts, SubmitMirror, SubmitMark, SubmitDel, Goto, TypeOK
    <3> QED
      BY <2>5, <3>1, <3>2, <3>3 DEF Proceed
  <2> QED
    BY <2>1, <2>2, <2>3, <2>4, <2>5 DEF Next
<1> QED
  BY <1>1, <1>2, TypeCorrect, PTL DEF Spec

\* The questions are never decrypted, let alone cached, at or before
\* examStartAt, whatever the window, the clock and the number of requests.
THEOREM PaperStaysSealed == Spec => []KeyStaysSealed
<1>1. SealInv => KeyStaysSealed
  BY DEF SealInv, KeyStaysSealed
<1> QED
  BY <1>1, Sealing, PTL

\* The 410 of getActiveQuestions for a session in progress means that the
\* cache expired, never that it was not written yet.
THEOREM OnlyExpiryIsGone == Spec => []GoneOnlyByExpiry
<1>1. TypeOK /\ SealInv => GoneOnlyByExpiry
  BY DEF TypeOK, SealInv, GoneOnlyByExpiry, Gone
<1> QED
  BY <1>1, TypeCorrect, Sealing, PTL
=============================================================================
