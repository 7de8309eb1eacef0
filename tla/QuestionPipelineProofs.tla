----------------------- MODULE QuestionPipelineProofs -----------------------
(***************************************************************************)
(* What TLAPS proves of QuestionPipeline, for any number of submit         *)
(* requests, attempts and redeliveries, and failures at any step.          *)
(***************************************************************************)
EXTENDS QuestionPipeline, TLAPS

\* A job that may still run is on a run within the bounds.
LEMMA RunIsRun ==
  ASSUME TypeOK, NEW j \in Submits, job[j] \in {"none", "waiting", "active"}
  PROVE  Run(j) \in Runs
<1>1. fails[j] \in Nat /\ fails[j] < MaxAttempts
  BY LimitsAssumption DEF TypeOK
<1>2. stalls[j] \in 0..MaxStalls
  BY DEF TypeOK
<1>3. fails[j] + stalls[j] + 1 \in 1..(MaxAttempts + MaxStalls)
  BY <1>1, <1>2, LimitsAssumption
<1> QED
  BY <1>3 DEF Run, Runs

\* What a failed attempt does to the queue keeps its variables in their kinds.
LEMMA FailedAttemptTyped ==
  ASSUME TypeOK, NEW j \in Submits, job[j] \in {"waiting", "active"}, AttemptFails(j)
  PROVE  /\ job' \in [Submits -> {"none", "waiting", "active", "completed", "failed"}]
         /\ fails' \in [Submits -> 0..MaxAttempts] /\ stalls' \in [Submits -> 0..MaxStalls]
         /\ \A k \in Submits : job'[k] \in {"none", "waiting", "active"} => fails'[k] < MaxAttempts
         /\ \A k \in Submits : job[k] = "none" => job'[k] = "none"
         /\ stage' \in [Submits -> RunStages]
<1> USE DEF TypeOK, AttemptFails
<1>1. job' \in [Submits -> {"none", "waiting", "active", "completed", "failed"}]
  OBVIOUS
<1>2. stage' \in [Submits -> RunStages] /\ stalls' \in [Submits -> 0..MaxStalls]
  BY DEF RunStages
<1>3. fails[j] \in 0..MaxAttempts /\ fails[j] < MaxAttempts
  OBVIOUS
<1>4. fails[j] + 1 \in 0..MaxAttempts
  BY <1>3, LimitsAssumption
<1>5. fails' \in [Submits -> 0..MaxAttempts]
  BY <1>4
<1>6. ASSUME NEW k \in Submits, job'[k] \in {"none", "waiting", "active"}
      PROVE  fails'[k] < MaxAttempts
  <2>1. CASE k = j
    <3>1. fails[j] + 1 < MaxAttempts
      BY <2>1, <1>6
    <3> QED
      BY <2>1, <3>1
  <2>2. CASE k # j
    BY <2>2, <1>6
  <2> QED
    BY <2>1, <2>2
<1> QED
  BY <1>1, <1>2, <1>5, <1>6

\* Requests, runs and failures keep every variable in its kind.
THEOREM TypeCorrect == Spec => []TypeOK
<1>1. Init => TypeOK
  <2> SUFFICES ASSUME Init PROVE TypeOK
    OBVIOUS
  <2>1. /\ \A j \in Submits : fails[j] = 0
        /\ fails \in [Submits -> 0..MaxAttempts] /\ stalls \in [Submits -> 0..MaxStalls]
        /\ \A j \in Submits : fails[j] < MaxAttempts
        /\ faults \in Nat /\ crashes \in Nat
    BY LimitsAssumption DEF Init
  <2> QED
    BY <2>1 DEF Init, TypeOK, AuditKinds, TeacherSteps, RunStages
<1>2. TypeOK /\ [Next]_vars => TypeOK'
  <2> SUFFICES ASSUME TypeOK, [Next]_vars PROVE TypeOK'
    OBVIOUS
  <2> USE DEF question, ledger, queue, local
  <2>1. ASSUME NEW r \in Submits, SubmitCheck(r) \/ Request(r) \/ SubmitAborts(r)
        PROVE  TypeOK'
    BY <2>1
       DEF TypeOK, SubmitCheck, Request, SubmitMark, SubmitAudit, SubmitEnqueue, SubmitAborts,
           Goto, TeacherSteps, AuditKinds
  <2>2. ASSUME NEW j \in Submits, Work(j) PROVE TypeOK'
    <3>1. CASE JobBegins(j)
      BY <3>1 DEF TypeOK, JobBegins, RunStages
    <3>2. CASE JobRefused(j) \/ ValidateNothing(j) \/ AnchorReverts(j)
      <4>1. job[j] \in {"waiting", "active"} /\ AttemptFails(j)
        BY <3>2 DEF JobRefused, ValidateNothing, AnchorReverts
      <4>2. UNCHANGED <<question, report, ledger, audit, pc, local, faults, crashes>>
        BY <3>2 DEF JobRefused, ValidateNothing, AnchorReverts
      <4> QED
        BY <4>1, <4>2, FailedAttemptTyped DEF TypeOK
    <3>3. CASE MarkValidating(j) \/ MarkRejected(j)
      BY <3>3 DEF TypeOK, MarkValidating, MarkRejected, Advance, RunStages
    <3>4. CASE Validate(j)
      BY <3>4 DEF TypeOK, Validate, Advance, RunStages
    <3>5. CASE SaveReport(j)
      <4>1. Run(j) \in Runs
        BY <3>5, RunIsRun DEF SaveReport, Advance
      <4> QED
        BY <4>1, <3>5 DEF TypeOK, SaveReport, Advance, RunStages
    <3>6. CASE AuditReport(j)
      <4>1. stage' \in [Submits -> RunStages]
        BY <3>6 DEF TypeOK, AuditReport, Advance, RunStages
      <4> QED
        BY <4>1, <3>6 DEF TypeOK, AuditReport, AuditKinds
    <3>7. CASE AuditEncryption(j) \/ AuditUpload(j) \/ AuditAnchor(j)
      BY <3>7 DEF TypeOK, AuditEncryption, AuditUpload, AuditAnchor, Advance, RunStages,
                  AuditKinds
    <3>8. CASE Upload(j) \/ AnchorQuestion(j) \/ RecordAnchor(j) \/ MarkAccepted(j)
      <4>1. Run(j) \in Runs
        BY <3>8, RunIsRun DEF Upload, AnchorQuestion, RecordAnchor, MarkAccepted, Advance
      <4> QED
        BY <4>1, <3>8 DEF TypeOK, Upload, AnchorQuestion, RecordAnchor, MarkAccepted, Advance,
                          RunStages
    <3>9. CASE JobCompletes(j)
      BY <3>9 DEF TypeOK, JobCompletes
    <3> QED
      BY <2>2, <3>1, <3>2, <3>3, <3>4, <3>5, <3>6, <3>7, <3>8, <3>9 DEF Work
  <2>3. ASSUME NEW j \in Submits, CallThrows(j) PROVE TypeOK'
    <3>1. faults' \in Nat
      BY <2>3 DEF TypeOK, CallThrows
    <3>2. job[j] = "active" /\ AttemptFails(j)
      BY <2>3 DEF CallThrows
    <3> QED
      BY <2>3, <3>1, <3>2, FailedAttemptTyped DEF TypeOK, CallThrows
  <2>4. CASE Crash
    <3>1. crashes' \in Nat
      BY <2>4 DEF TypeOK, Crash
    <3>2. stalls' \in [Submits -> 0..MaxStalls]
      BY <2>4, LimitsAssumption DEF TypeOK, Crash
    <3>3. /\ pc' \in [Submits -> TeacherSteps \cup {"idle", "done", "failed"}]
          /\ job' \in [Submits -> {"none", "waiting", "active", "completed", "failed"}]
      BY <2>4 DEF TypeOK, Crash
    <3>4. \A j \in Submits :
            /\ job'[j] \in {"none", "waiting", "active"} => fails'[j] < MaxAttempts
            /\ pc'[j] # "done" => job'[j] = "none"
      BY <2>4 DEF TypeOK, Crash, TeacherSteps
    <3> QED
      BY <2>4, <3>1, <3>2, <3>3, <3>4 DEF TypeOK, Crash
  <2>5. CASE UNCHANGED vars
    BY <2>5 DEF TypeOK, vars
  <2> QED
    BY <2>1, <2>2, <2>3, <2>4, <2>5 DEF Next
<1> QED
  BY <1>1, <1>2, PTL DEF Spec

\* What is written for good: the audit trail, the storage network, the
\* ChainAnchor table, and the contract's slot once it is filled.
Kept ==
  /\ audit \subseteq audit' /\ blobs \subseteq blobs' /\ mirror \subseteq mirror'
  /\ anchor # None => anchor' = anchor

LEMMA NothingUnwritten == [Next]_vars => Kept
<1> SUFFICES ASSUME [Next]_vars PROVE Kept
  OBVIOUS
<1> USE DEF Kept, question, ledger, queue, local
<1>1. ASSUME NEW r \in Submits, SubmitCheck(r) \/ Request(r) \/ SubmitAborts(r) PROVE Kept
  BY <1>1 DEF SubmitCheck, Request, SubmitMark, SubmitAudit, SubmitEnqueue, SubmitAborts
<1>2. ASSUME NEW j \in Submits, Work(j) PROVE Kept
  <2>1. CASE JobBegins(j) \/ JobRefused(j) \/ ValidateNothing(j) \/ AnchorReverts(j) \/ JobCompletes(j)
    BY <2>1 DEF JobBegins, JobRefused, ValidateNothing, AnchorReverts, JobCompletes
  <2>2. CASE MarkValidating(j) \/ Validate(j) \/ SaveReport(j) \/ MarkRejected(j) \/ MarkAccepted(j)
    BY <2>2 DEF MarkValidating, Validate, SaveReport, MarkRejected, MarkAccepted
  <2>3. CASE AuditReport(j) \/ AuditEncryption(j) \/ AuditUpload(j) \/ AuditAnchor(j)
    BY <2>3 DEF AuditReport, AuditEncryption, AuditUpload, AuditAnchor
  <2>4. CASE Upload(j) \/ AnchorQuestion(j) \/ RecordAnchor(j)
    BY <2>4 DEF Upload, AnchorQuestion, RecordAnchor
  <2> QED
    BY <1>2, <2>1, <2>2, <2>3, <2>4 DEF Work
<1>3. CASE \E j \in Submits : CallThrows(j)
  BY <1>3 DEF CallThrows
<1>4. CASE Crash
  BY <1>4 DEF Crash
<1>5. CASE UNCHANGED vars
  BY <1>5 DEF vars
<1> QED
  BY <1>1, <1>2, <1>3, <1>4, <1>5 DEF Next

\* A step that does not move job k forward leaves what k relies on.
LEMMA ProgressKept ==
  ASSUME TypeOK, Kept, NEW k \in Submits, Progress(k),
         job[k] = "none" => job'[k] = "none",
         pc'[k] = "enqueue" => pc[k] = "enqueue",
         job'[k] = "active" => /\ job[k] = "active" /\ stage'[k] = stage[k]
                               /\ fails'[k] = fails[k] /\ stalls'[k] = stalls[k]
  PROVE  Progress(k)'
<1>1. AtOrAfter(k, Anchored) => anchor # None
  BY RunIsRun, NullAssumption DEF Progress, AtOrAfter
<1> QED
  BY <1>1 DEF Progress, AtOrAfter, Kept, Run, Passed, Encrypted, Uploaded, Anchoring, Anchored,
              Mirrored, Accepting

\* The four parts of the invariant, through the steps of a teacher's request.
LEMMA RequestKeeps ==
  ASSUME TypeOK, IInv, Kept, NEW r \in Submits, SubmitCheck(r) \/ Request(r) \/ SubmitAborts(r)
  PROVE  IInv'
<1> USE DEF question, ledger, queue, local
<1>1. AcceptedIsProven' /\ ContentNotLost' /\ AnchorBacked'
  BY DEF IInv, AcceptedIsProven, ContentNotLost, AnchorBacked, AuditKinds, SubmitCheck, Request,
         SubmitMark, SubmitAudit, SubmitEnqueue, SubmitAborts
<1>2. ASSUME NEW k \in Submits PROVE Progress(k)'
  <2>1. CASE SubmitAudit(r) /\ k = r
    BY <2>1 DEF SubmitAudit, IInv, Progress, AtOrAfter, Run
  <2>2. CASE SubmitEnqueue(r) /\ k = r
    BY <2>2 DEF SubmitEnqueue, Goto, TypeOK, IInv, Progress, AtOrAfter
  <2>3. CASE ~(SubmitAudit(r) /\ k = r) /\ ~(SubmitEnqueue(r) /\ k = r)
    <3>1. /\ job[k] = "none" => job'[k] = "none"
          /\ pc'[k] = "enqueue" => pc[k] = "enqueue"
          /\ job'[k] = "active" => job[k] = "active"
          /\ UNCHANGED <<stage, fails, stalls>>
      BY <2>3 DEF TypeOK, SubmitCheck, Request, SubmitMark, SubmitAudit, SubmitEnqueue,
                  SubmitAborts, Goto
    <3> QED
      BY <3>1, ProgressKept DEF IInv
  <2> QED
    BY <2>1, <2>2, <2>3
<1> QED
  BY <1>1, <1>2 DEF IInv

\* A step of job j leaves every other job and request alone.
OnlyJob(j) ==
  \A k \in Submits \ {j} :
    /\ job'[k] = job[k] /\ pc'[k] = pc[k] /\ stage'[k] = stage[k]
    /\ fails'[k] = fails[k] /\ stalls'[k] = stalls[k]

LEMMA OthersKeep ==
  ASSUME TypeOK, IInv, Kept, NEW j \in Submits, OnlyJob(j), Progress(j)'
  PROVE  \A k \in Submits : Progress(k)'
<1> SUFFICES ASSUME NEW k \in Submits \ {j} PROVE Progress(k)'
  OBVIOUS
<1>1. /\ job'[k] = job[k] /\ pc'[k] = pc[k] /\ stage'[k] = stage[k]
      /\ fails'[k] = fails[k] /\ stalls'[k] = stalls[k]
  BY DEF OnlyJob
<1> QED
  BY <1>1, ProgressKept DEF IInv

\* The steps that only read, decide, or set the status of the question.
LEMMA DecidingKeeps ==
  ASSUME TypeOK, IInv, Kept, NEW j \in Submits,
         \/ JobBegins(j) \/ MarkValidating(j) \/ Validate(j) \/ SaveReport(j)
         \/ MarkRejected(j) \/ JobCompletes(j)
  PROVE  IInv'
<1> USE DEF JobBegins, MarkValidating, Validate, SaveReport, MarkRejected, JobCompletes
<1> USE DEF question, ledger, queue, local, Advance
<1>1. AcceptedIsProven' /\ ContentNotLost' /\ AnchorBacked'
  BY DEF IInv, AcceptedIsProven, ContentNotLost, AnchorBacked
<1>2. OnlyJob(j)
  BY DEF OnlyJob, TypeOK
<1>3. job[j] # "none" /\ job'[j] # "none" /\ UNCHANGED <<audit, pc, fails, stalls>>
  BY DEF TypeOK
<1>4. Progress(j)'
  <2>1. ~AtOrAfter(j, Passed)'
    BY DEF TypeOK, AtOrAfter, Passed, Encrypted, Uploaded, Anchoring, Anchored, Mirrored, Accepting
  <2>2. "TEACHER_SUBMISSION" \in audit'
    BY <1>3 DEF IInv, Progress
  <2> QED
    BY <2>1, <2>2 DEF Progress, AtOrAfter, Passed, Encrypted, Uploaded, Anchoring, Anchored,
                      Mirrored, Accepting
<1> QED
  BY <1>1, <1>2, <1>4, OthersKeep DEF IInv

\* An attempt that fails takes its run with it.
LEMMA FailureKeeps ==
  ASSUME TypeOK, IInv, Kept, NEW j \in Submits, job[j] \in {"waiting", "active"}, AttemptFails(j),
         UNCHANGED <<question, ledger, audit, pc>>
  PROVE  IInv'
<1> USE DEF question, ledger
<1>1. AcceptedIsProven' /\ ContentNotLost' /\ AnchorBacked'
  BY DEF IInv, AcceptedIsProven, ContentNotLost, AnchorBacked
<1>2. OnlyJob(j)
  BY DEF OnlyJob, TypeOK, AttemptFails
<1>3. Progress(j)'
  <2>1. job'[j] # "active"
    BY DEF TypeOK, AttemptFails
  <2> QED
    BY <2>1, ProgressKept DEF IInv
<1> QED
  BY <1>1, <1>2, <1>3, OthersKeep DEF IInv

\* The steps that leave something behind: audit rows, the blob, the anchor, its
\* mirror, and at last the proof in the row.
LEMMA WritingKeeps ==
  ASSUME TypeOK, IInv, Kept, NEW j \in Submits,
         \/ AuditReport(j) \/ AuditEncryption(j) \/ Upload(j) \/ AuditUpload(j)
         \/ AnchorQuestion(j) \/ RecordAnchor(j) \/ AuditAnchor(j) \/ MarkAccepted(j)
  PROVE  IInv'
<1> USE DEF AuditReport, AuditEncryption, Upload, AuditUpload, AnchorQuestion, RecordAnchor,
            AuditAnchor, MarkAccepted
<1> USE DEF question, ledger, queue, local, Advance
<1>1. OnlyJob(j)
  BY DEF OnlyJob, TypeOK
<1>2. /\ job[j] = "active" /\ "TEACHER_SUBMISSION" \in audit /\ "TEACHER_SUBMISSION" \in audit'
      /\ Run(j)' = Run(j) /\ Progress(j)
  BY DEF IInv, Progress, Run
<1>3. Progress(j)'
  BY <1>2 DEF TypeOK, IInv, Progress, AtOrAfter, Passed, Encrypted, Uploaded, Anchoring,
              Anchored, Mirrored, Accepting, Kept
<1>4. AnchorBacked'
  <2>1. CASE AnchorQuestion(j)
    BY <2>1, <1>2 DEF Progress, AtOrAfter, Passed, Encrypted, Uploaded, Anchoring, AnchorBacked
  <2>2. CASE ~AnchorQuestion(j)
    BY <2>2 DEF IInv, AnchorBacked
  <2> QED
    BY <2>1, <2>2
<1>5. AcceptedIsProven' /\ ContentNotLost'
  <2>1. CASE MarkAccepted(j)
    <3>1. /\ {"AI_VALIDATION", "ENCRYPTION", "STORAGE_UPLOAD", "CHAIN_ANCHOR"} \subseteq audit
          /\ Run(j) \in blobs /\ anchor = Run(j) /\ Run(j) \in mirror
      BY <2>1, <1>2 DEF Progress, AtOrAfter, Passed, Encrypted, Uploaded, Anchoring, Anchored,
                        Mirrored, Accepting
    <3>2. audit = AuditKinds
      <4>1. audit \subseteq AuditKinds
        BY DEF TypeOK
      <4>2. AuditKinds \subseteq audit
        BY <1>2, <3>1 DEF AuditKinds
      <4> QED
        BY <4>1, <4>2
    <3>3. row' = Run(j) /\ ~draft' /\ UNCHANGED <<blobs, anchor, mirror, audit>>
      BY <2>1
    <3>4. Run(j) # None
      BY <1>2, RunIsRun, NullAssumption
    <3> QED
      BY <3>1, <3>2, <3>3, <3>4 DEF AcceptedIsProven, ContentNotLost
  <2>2. CASE \/ AuditReport(j) \/ AuditEncryption(j) \/ Upload(j) \/ AuditUpload(j)
             \/ AnchorQuestion(j) \/ RecordAnchor(j) \/ AuditAnchor(j)
    <3>1. UNCHANGED <<row, draft>>
      BY <2>2
    <3>2. row # None => anchor # None /\ audit = AuditKinds
      BY DEF IInv, AcceptedIsProven
    <3>3. audit' \subseteq AuditKinds
      <4>1. audit \subseteq AuditKinds
        BY DEF TypeOK
      <4>2. \E k \in AuditKinds : audit' \subseteq audit \cup {k}
        <5>1. CASE AuditReport(j) \/ AuditEncryption(j) \/ AuditUpload(j) \/ AuditAnchor(j)
          BY <5>1 DEF AuditKinds
        <5>2. CASE Upload(j) \/ AnchorQuestion(j) \/ RecordAnchor(j)
          BY <5>2 DEF AuditKinds
        <5> QED
          BY <2>2, <5>1, <5>2
      <4> QED
        BY <4>1, <4>2
    <3>4. ContentNotLost'
      BY <3>1 DEF IInv, ContentNotLost, Kept
    <3>5. row # None => anchor' = anchor /\ audit' = AuditKinds
      BY <3>2, <3>3, Zenon DEF Kept
    <3>6. AcceptedIsProven'
      BY <3>1, <3>5 DEF IInv, AcceptedIsProven, Kept
    <3> QED
      BY <3>4, <3>6
  <2> QED
    BY <2>1, <2>2
<1> QED
  BY <1>1, <1>3, <1>4, <1>5, OthersKeep DEF IInv

\* Requests, runs, failed calls and crashes keep the invariant.
THEOREM Inductive == Spec => []IInv
<1>1. Init => IInv
  BY DEF Init, IInv, Progress, AtOrAfter, AcceptedIsProven, ContentNotLost, AnchorBacked
<1>2. TypeOK /\ IInv /\ [Next]_vars => IInv'
  <2> SUFFICES ASSUME TypeOK, IInv, [Next]_vars PROVE IInv'
    OBVIOUS
  <2>1. Kept
    BY NothingUnwritten
  <2>2. ASSUME NEW r \in Submits, SubmitCheck(r) \/ Request(r) \/ SubmitAborts(r) PROVE IInv'
    BY <2>1, <2>2, RequestKeeps
  <2>3. ASSUME NEW j \in Submits, Work(j) PROVE IInv'
    <3>1. CASE JobRefused(j) \/ ValidateNothing(j) \/ AnchorReverts(j)
      <4>1. /\ job[j] \in {"waiting", "active"} /\ AttemptFails(j)
            /\ UNCHANGED <<question, ledger, audit, pc>>
        BY <3>1 DEF JobRefused, ValidateNothing, AnchorReverts
      <4> QED
        BY <2>1, <4>1, FailureKeeps
    <3>2. CASE \/ JobBegins(j) \/ MarkValidating(j) \/ Validate(j) \/ SaveReport(j)
               \/ MarkRejected(j) \/ JobCompletes(j)
      BY <2>1, <3>2, DecidingKeeps
    <3>3. CASE \/ AuditReport(j) \/ AuditEncryption(j) \/ Upload(j) \/ AuditUpload(j)
               \/ AnchorQuestion(j) \/ RecordAnchor(j) \/ AuditAnchor(j) \/ MarkAccepted(j)
      BY <2>1, <3>3, WritingKeeps
    <3> QED
      BY <2>3, <3>1, <3>2, <3>3 DEF Work
  <2>4. ASSUME NEW j \in Submits, CallThrows(j) PROVE IInv'
    <3>1. /\ job[j] \in {"waiting", "active"} /\ AttemptFails(j)
          /\ UNCHANGED <<question, ledger, audit, pc>>
      BY <2>4 DEF CallThrows
    <3> QED
      BY <2>1, <3>1, FailureKeeps
  <2>5. CASE Crash
    <3>1. AcceptedIsProven' /\ ContentNotLost' /\ AnchorBacked'
      BY <2>5 DEF Crash, question, ledger, IInv, AcceptedIsProven, ContentNotLost, AnchorBacked
    <3>2. ASSUME NEW k \in Submits PROVE Progress(k)'
      <4>1. /\ job[k] = "none" => job'[k] = "none"
            /\ pc'[k] = "enqueue" => pc[k] = "enqueue"
            /\ job'[k] # "active"
        BY <2>5 DEF Crash, TypeOK
      <4> QED
        BY <2>1, <4>1, ProgressKept DEF IInv
    <3> QED
      BY <3>1, <3>2 DEF IInv
  <2>6. CASE UNCHANGED vars
    BY <2>6 DEF vars, question, ledger, IInv, Progress, AtOrAfter, Run, AcceptedIsProven,
                ContentNotLost, AnchorBacked
  <2> QED
    BY <2>2, <2>3, <2>4, <2>5, <2>6 DEF Next
<1> QED
  BY <1>1, <1>2, TypeCorrect, PTL DEF Spec

\* A row with a proof has all of it, on chain, in storage and in the audit log.
THEOREM ProofIsWhole == Spec => []AcceptedIsProven
<1>1. IInv => AcceptedIsProven
  BY DEF IInv
<1> QED
  BY <1>1, Inductive, PTL

\* The question is in Postgres or, encrypted, in storage.
THEOREM QuestionIsSomewhere == Spec => []ContentNotLost
<1>1. IInv => ContentNotLost
  BY DEF IInv
<1> QED
  BY <1>1, Inductive, PTL

\* Nothing is anchored that was not validated, encrypted and stored.
THEOREM NoHollowAnchor == Spec => []AnchorBacked
<1>1. IInv => AnchorBacked
  BY DEF IInv
<1> QED
  BY <1>1, Inductive, PTL

\* The anchor and the proof are written once, by however many rival runs.
THEOREM ProofWrittenOnce == Spec => ProofIsFinal
<1>1. TypeOK /\ IInv /\ [Next]_vars =>
        [/\ anchor # None => anchor' = anchor
         /\ row # None => row' = row]_vars
  <2> SUFFICES ASSUME TypeOK, IInv, [Next]_vars
               PROVE (anchor # None => anchor' = anchor) /\ (row # None => row' = row)
    OBVIOUS
  <2>1. anchor # None => anchor' = anchor
    BY NothingUnwritten DEF Kept
  <2>2. ASSUME row # None PROVE row' = row
    <3>1. row = anchor
      BY <2>2 DEF IInv, AcceptedIsProven
    <3>2. ASSUME NEW j \in Submits, MarkAccepted(j) PROVE row' = row
      <4>1. Run(j) = anchor
        BY <3>2 DEF MarkAccepted, Advance, IInv, Progress, AtOrAfter, Anchored, Mirrored, Accepting
      <4> QED
        BY <3>1, <3>2, <4>1 DEF MarkAccepted
    <3>3. CASE ~\E j \in Submits : MarkAccepted(j)
      BY <3>3 DEF Next, vars, question, Crash, CallThrows, SubmitCheck, Request, SubmitMark,
                  SubmitAudit, SubmitEnqueue, SubmitAborts, Work, JobBegins, JobRefused,
                  MarkValidating, Validate, ValidateNothing, SaveReport, AuditReport,
                  MarkRejected, AuditEncryption, Upload, AuditUpload, AnchorQuestion,
                  AnchorReverts, RecordAnchor, AuditAnchor, JobCompletes
    <3> QED
      BY <3>2, <3>3
  <2> QED
    BY <2>1, <2>2
<1> QED
  BY <1>1, TypeCorrect, Inductive, PTL DEF Spec, ProofIsFinal

-----------------------------------------------------------------------------
(* The report of a question submitted once.                                *)

\* The stages of a run whose own report is the one in the row.
Reported == {"auditReport"} \cup Passed

\* With one submit request, a run that has saved its report still finds it
\* there; a run past the decision passed; and once the question is accepted no
\* job has anything left to write.
ReportInv ==
  /\ \A j \in Submits : AtOrAfter(j, Passed) => passed[j]
  /\ Once =>
       /\ \A j \in Submits : AtOrAfter(j, Reported) => report = [run |-> Run(j), passed |-> passed[j]]
       /\ status = "ACCEPTED" =>
            /\ report.run = anchor /\ report.passed
            /\ \E j \in Submits : pc[j] = "done"
            /\ \A j \in Submits : job[j] = "active" => stage[j] = "finish"

\* A request that has begun stays begun, and one that is done stays done.
LEMMA RequestsGoOn ==
  ASSUME TypeOK, [Next]_vars
  PROVE  /\ Once' => Once
         /\ \A r \in Submits : pc[r] = "done" => pc'[r] = "done"
<1>1. \A r \in Submits : (pc'[r] = "idle" => pc[r] = "idle") /\ (pc[r] = "done" => pc'[r] = "done")
  <2>1. CASE UNCHANGED pc
    BY <2>1
  <2>2. CASE Crash
    BY <2>2 DEF Crash, TypeOK, TeacherSteps
  <2>3. ASSUME NEW r \in Submits, SubmitCheck(r) \/ Request(r) \/ SubmitAborts(r)
        PROVE  \A s \in Submits : (pc'[s] = "idle" => pc[s] = "idle") /\ (pc[s] = "done" => pc'[s] = "done")
    BY <2>3 DEF SubmitCheck, Request, SubmitMark, SubmitAudit, SubmitEnqueue, SubmitAborts, Goto, TypeOK, TeacherSteps
  <2>4. ASSUME NEW j \in Submits, Work(j) \/ CallThrows(j) PROVE UNCHANGED pc
    BY <2>4 DEF Work, CallThrows, JobBegins, JobRefused, MarkValidating, Validate, ValidateNothing,
       SaveReport, AuditReport, MarkRejected, AuditEncryption, Upload, AuditUpload, AnchorQuestion,
       AnchorReverts, RecordAnchor, AuditAnchor, MarkAccepted, JobCompletes
  <2>5. CASE UNCHANGED vars
    BY <2>5 DEF vars
  <2> QED
    BY <2>1, <2>2, <2>3, <2>4, <2>5 DEF Next
<1> QED
  BY <1>1 DEF Once

\* Of two requests one is idle, and an idle request has no job.
LEMMA RivalsAreIdle ==
  TypeOK /\ Once => \A j, k \in Submits : pc[j] # "idle" /\ k # j => job[k] = "none"
<1> SUFFICES ASSUME TypeOK, Once, NEW j \in Submits, NEW k \in Submits, pc[j] # "idle", k # j
             PROVE  job[k] = "none"
  OBVIOUS
<1>1. pc[k] = "idle"
  BY DEF Once
<1>2. pc[k] # "done" => job[k] = "none"
  BY DEF TypeOK
<1> QED
  BY <1>1, <1>2

\* A step about job j that leaves its report and its verdict alone: the run
\* ends, or goes on to a stage that claims no more than the one it was at.
LEMMA ReportStep ==
  ASSUME TypeOK, ReportInv, [Next]_vars, NEW j \in Submits,
         UNCHANGED <<report, passed>>,
         status' = status \/ status' # "ACCEPTED",
         anchor' = anchor \/ (job[j] = "active" /\ stage[j] # "finish" /\ status' = status),
         \A k \in Submits \ {j} : job'[k] = job[k] /\ stage'[k] = stage[k] /\ Run(k)' = Run(k),
         \/ job'[j] # "active"
         \/ /\ job'[j] = "active" /\ Run(j)' = Run(j)
            /\ stage'[j] \in Passed => passed[j]
            /\ stage'[j] \in Reported => job[j] = "active" /\ stage[j] \in Reported
            /\ status' # "ACCEPTED" \/ (job[j] = "active" /\ stage[j] # "finish" /\ status' = status)
  PROVE  ReportInv'
<1> USE DEF ReportInv, AtOrAfter
<1>1. \A k \in Submits : AtOrAfter(k, Passed)' => passed'[k]
  OBVIOUS
<1>2. ASSUME Once' PROVE \A k \in Submits : AtOrAfter(k, Reported)' => report' = [run |-> Run(k)', passed |-> passed'[k]]
  BY <1>2, RequestsGoOn
<1>3. ASSUME Once', status' = "ACCEPTED"
      PROVE  /\ report'.run = anchor' /\ report'.passed
             /\ \E k \in Submits : pc'[k] = "done"
             /\ \A k \in Submits : job'[k] = "active" => stage'[k] = "finish"
  <2>1. Once /\ status = "ACCEPTED"
    BY <1>3, RequestsGoOn
  <2>2. job[j] = "active" => stage[j] = "finish"
    BY <2>1
  <2>3. anchor' = anchor /\ \A k \in Submits : job'[k] = "active" => stage'[k] = "finish"
    BY <1>3, <2>1, <2>2
  <2> QED
    BY <2>1, <2>3, RequestsGoOn
<1> QED
  BY <1>1, <1>2, <1>3

\* Requests: none of them has a job yet.
LEMMA ReportKeptByRequests ==
  ASSUME TypeOK, ReportInv, [Next]_vars, NEW r \in Submits,
         SubmitCheck(r) \/ Request(r) \/ SubmitAborts(r)
  PROVE  ReportInv'
<1> USE DEF SubmitCheck, Request, SubmitMark, SubmitAudit, SubmitEnqueue, SubmitAborts,
            Goto, TypeOK, TeacherSteps, question, ledger, queue, local
<1>1. UNCHANGED <<report, passed, anchor, stage, fails, stalls>> /\ job'[r] # "active"
  OBVIOUS
<1>2. \A k \in Submits \ {r} : job'[k] = job[k]
  OBVIOUS
<1>3. status' = status \/ status' # "ACCEPTED"
  OBVIOUS
<1> HIDE DEF SubmitCheck, Request, SubmitMark, SubmitAudit, SubmitEnqueue, SubmitAborts, TypeOK
<1> QED
  BY <1>1, <1>2, <1>3, ReportStep DEF Run

\* An attempt that throws leaves no run active.
LEMMA ReportKeptByFailures ==
  ASSUME TypeOK, ReportInv, [Next]_vars, NEW j \in Submits, AttemptFails(j),
         UNCHANGED <<question, report, ledger, local>>
  PROVE  ReportInv'
<1>1. job'[j] # "active" /\ \A k \in Submits \ {j} : job'[k] = job[k] /\ stage'[k] = stage[k] /\ Run(k)' = Run(k)
  BY DEF AttemptFails, TypeOK, Run
<1> QED
  BY <1>1, ReportStep DEF question, ledger, local

\* The steps of a run that neither ask the model, nor save the report, nor accept.
LEMMA ReportKeptByRuns ==
  ASSUME TypeOK, ReportInv, [Next]_vars, NEW j \in Submits,
         \/ JobBegins(j) \/ MarkValidating(j) \/ AuditReport(j) \/ MarkRejected(j)
         \/ AuditEncryption(j) \/ Upload(j) \/ AuditUpload(j) \/ AnchorQuestion(j)
         \/ RecordAnchor(j) \/ AuditAnchor(j) \/ JobCompletes(j)
  PROVE  ReportInv'
<1> USE DEF TypeOK, question, ledger, queue, local, Advance, Reported, Passed, Encrypted,
            Uploaded, Anchoring, Anchored, Mirrored, Accepting
<1>1. CASE JobBegins(j) \/ JobCompletes(j)
  <2>1. UNCHANGED <<report, passed, status, anchor, fails, stalls>>
    BY <1>1 DEF JobBegins, JobCompletes
  <2>2. \A k \in Submits \ {j} : job'[k] = job[k] /\ stage'[k] = stage[k]
    BY <1>1 DEF JobBegins, JobCompletes
  <2>3. job'[j] # "active" \/ (job'[j] = "active" /\ stage'[j] \in {"markValidating", "validate"} /\ status' # "ACCEPTED")
    BY <1>1 DEF JobBegins, JobCompletes, Runnable
  <2> QED
    BY <2>1, <2>2, <2>3, ReportStep DEF Run
<1>2. CASE MarkValidating(j) \/ MarkRejected(j)
  <2>1. UNCHANGED <<report, passed, anchor, job, fails, stalls>> /\ status' # "ACCEPTED"
    BY <1>2 DEF MarkValidating, MarkRejected
  <2>2. stage'[j] \in {"validate", "finish"} /\ job[j] = "active"
    BY <1>2 DEF MarkValidating, MarkRejected
  <2>3. \A k \in Submits \ {j} : stage'[k] = stage[k]
    BY <1>2 DEF MarkValidating, MarkRejected
  <2> QED
    BY <2>1, <2>2, <2>3, ReportStep DEF Run
<1>3. CASE \/ AuditReport(j) \/ AuditEncryption(j) \/ Upload(j) \/ AuditUpload(j)
           \/ AnchorQuestion(j) \/ RecordAnchor(j) \/ AuditAnchor(j)
  <2> USE <1>3 DEF AuditReport, AuditEncryption, Upload, AuditUpload, AnchorQuestion, RecordAnchor, AuditAnchor
  <2>1. UNCHANGED <<report, passed, status, job, fails, stalls>> /\ job[j] = "active" /\ stage[j] # "finish"
    OBVIOUS
  <2>2. stage[j] \in Reported
    OBVIOUS
  <2>3. stage'[j] \in Passed => passed[j]
    BY DEF ReportInv, AtOrAfter
  <2>4. \A k \in Submits \ {j} : stage'[k] = stage[k]
    OBVIOUS
  <2> HIDE <1>3 DEF Reported, Passed, TypeOK
  <2> QED
    BY <2>1, <2>2, <2>3, <2>4, ReportStep DEF Run
<1> QED
  BY <1>1, <1>2, <1>3

\* The model answers, the report is saved, the question is accepted.
LEMMA ReportKeptByDeciding ==
  ASSUME TypeOK, IInv, ReportInv, [Next]_vars, NEW j \in Submits,
         Validate(j) \/ SaveReport(j) \/ MarkAccepted(j)
  PROVE  ReportInv'
<1>1. /\ job[j] = "active" /\ stage[j] \in {"validate", "saveReport", "markAccepted"} /\ pc[j] = "done"
      /\ UNCHANGED <<job, fails, stalls, anchor, pc>>
      /\ stage'[j] \in {"saveReport", "auditReport", "finish"}
      /\ \A k \in Submits \ {j} : stage'[k] = stage[k]
  BY DEF Validate, SaveReport, MarkAccepted, Advance, TypeOK, ledger, queue
<1>2. ASSUME Once PROVE \A k \in Submits : k # j => job[k] = "none"
  <2>1. pc[j] # "idle"
    BY <1>1
  <2> QED
    BY <1>2, <2>1, RivalsAreIdle
<1>3. Once' => Once
  BY RequestsGoOn
<1>4. Once => status # "ACCEPTED"
  BY <1>1 DEF ReportInv
<1>5. \A k \in Submits : AtOrAfter(k, Passed)' => passed'[k]
  <2>1. stage'[j] \notin Passed
    BY <1>1 DEF Passed, Encrypted, Uploaded, Anchoring, Anchored, Mirrored, Accepting
  <2>2. \A k \in Submits \ {j} : passed'[k] = passed[k]
    BY DEF Validate, SaveReport, MarkAccepted, local, TypeOK
  <2> QED
    BY <1>1, <2>1, <2>2 DEF ReportInv, AtOrAfter
<1>6. ASSUME Once', NEW k \in Submits, AtOrAfter(k, Reported)'
      PROVE  report' = [run |-> Run(k)', passed |-> passed'[k]]
  <2>1. k = j
    BY <1>1, <1>2, <1>3, <1>6 DEF AtOrAfter
  <2>2. stage'[j] \in Reported
    BY <1>6, <2>1 DEF AtOrAfter
  <2>3. SaveReport(j)
    BY <2>2 DEF Validate, MarkAccepted, Advance, TypeOK, Reported, Passed, Encrypted, Uploaded,
       Anchoring, Anchored, Mirrored, Accepting
  <2> QED
    BY <2>1, <2>3 DEF SaveReport, Run, queue, local
<1>7. ASSUME Once', status' = "ACCEPTED"
      PROVE  /\ report'.run = anchor' /\ report'.passed
             /\ \E k \in Submits : pc'[k] = "done"
             /\ \A k \in Submits : job'[k] = "active" => stage'[k] = "finish"
  <2>1. MarkAccepted(j)
    BY <1>3, <1>4, <1>7 DEF Validate, SaveReport, question
  <2>2. report = [run |-> Run(j), passed |-> passed[j]] /\ passed[j]
    BY <1>1, <1>3, <1>7, <2>1 DEF MarkAccepted, Advance, ReportInv, AtOrAfter, Reported, Passed,
       Encrypted, Uploaded, Anchoring, Anchored, Mirrored, Accepting
  <2>3. anchor = Run(j)
    BY <2>1 DEF MarkAccepted, Advance, IInv, Progress, AtOrAfter, Anchored, Mirrored, Accepting
  <2>4. stage'[j] = "finish" /\ report' = report
    BY <2>1 DEF MarkAccepted, Advance, TypeOK
  <2> QED
    BY <1>1, <1>2, <1>3, <1>7, <2>2, <2>3, <2>4
<1> QED
  BY <1>5, <1>6, <1>7 DEF ReportInv

\* Requests, runs, failed calls and crashes keep the report with its run.
THEOREM ReportsStay == Spec => []ReportInv
<1>1. Init => ReportInv
  BY DEF Init, ReportInv, AtOrAfter
<1>2. TypeOK /\ IInv /\ ReportInv /\ [Next]_vars => ReportInv'
  <2> SUFFICES ASSUME TypeOK, IInv, ReportInv, [Next]_vars PROVE ReportInv'
    OBVIOUS
  <2>1. ASSUME NEW r \in Submits, SubmitCheck(r) \/ Request(r) \/ SubmitAborts(r) PROVE ReportInv'
    BY <2>1, ReportKeptByRequests
  <2>2. ASSUME NEW j \in Submits, Work(j) \/ CallThrows(j) PROVE ReportInv'
    <3>1. CASE JobRefused(j) \/ ValidateNothing(j) \/ AnchorReverts(j) \/ CallThrows(j)
      BY <3>1, ReportKeptByFailures DEF JobRefused, ValidateNothing, AnchorReverts, CallThrows
    <3>2. CASE Validate(j) \/ SaveReport(j) \/ MarkAccepted(j)
      BY <3>2, ReportKeptByDeciding
    <3> QED
      BY <2>2, <3>1, <3>2, ReportKeptByRuns DEF Work
  <2>3. CASE Crash
    <3>1. \A j \in Submits : job'[j] # "active"
      BY <2>3 DEF Crash, TypeOK
    <3>2. UNCHANGED <<status, anchor, report>>
      BY <2>3 DEF Crash, question, ledger
    <3> QED
      BY <3>1, <3>2, RequestsGoOn DEF ReportInv, AtOrAfter
  <2>4. CASE UNCHANGED vars
    BY <2>4 DEF vars, ReportInv, Once, AtOrAfter, Run
  <2> QED
    BY <2>1, <2>2, <2>3, <2>4 DEF Next
<1> QED
  BY <1>1, <1>2, TypeCorrect, Inductive, PTL DEF Spec

\* The report an accepted question shows is the one whose hash its anchor
\* holds, however many deliveries asked the model again.
THEOREM ReportIsAnchored == Spec => []ReportMatchesChain
<1>1. ReportInv => ReportMatchesChain
  BY DEF ReportInv, ReportMatchesChain
<1> QED
  BY <1>1, ReportsStay, PTL
=============================================================================
