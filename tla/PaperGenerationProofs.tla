----------------------- MODULE PaperGenerationProofs -----------------------
(***************************************************************************)
(* What TLAPS proves of PaperGeneration, for any question bank, any number *)
(* of redeliveries and crashes, and failures at any step.                  *)
(***************************************************************************)
EXTENDS PaperGeneration, TLAPS

\* The request, every run and every failure keep each variable in its kind.
THEOREM TypeCorrect == Spec => []TypeOK
<1>1. Init => TypeOK
  <2> SUFFICES ASSUME Init PROVE TypeOK
    OBVIOUS
  <2>1. stalls \in 0..MaxStalls /\ crashes \in Nat
    BY LimitsAssumption DEF Init
  <2> QED
    BY <2>1 DEF Init, TypeOK, Stages, Unguarded
<1>2. TypeOK /\ [Next]_vars => TypeOK'
  <2> SUFFICES ASSUME TypeOK, [Next]_vars PROVE TypeOK'
    OBVIOUS
  <2> USE DEF paper, ledger, queue, Advance
  <2> USE DEF Stages, Unguarded, Guarded, Catching
  <2>1. ASSUME NEW q \in Questions, Accept(q) PROVE TypeOK'
    BY <2>1 DEF TypeOK, Accept
  <2>2. CASE Request \/ RequestAborts \/ JobBegins \/ JobCompletes \/ JobFails
    BY <2>2 DEF TypeOK, Request, CreatePaper, EnqueueJob, RequestAborts, JobBegins, JobCompletes,
                JobFails
  <2>3. CASE Pipeline
    <3>1. Run \in Runs
      BY LimitsAssumption DEF TypeOK, Run, Runs
    <3>2. CASE SelectQuestions
      BY <3>2 DEF TypeOK, SelectQuestions, Selection
    <3>3. CASE SelectNothing \/ LinkQuestions \/ LinkConflicts \/ Assemble \/ AnchorReverts \/ SealKey
      BY <3>3 DEF TypeOK, SelectNothing, LinkQuestions, LinkConflicts, Assemble, AnchorReverts,
                  SealKey
    <3>4. CASE \/ AuditSelected \/ AuditEncryption \/ AuditUpload \/ AuditAnchor
               \/ AuditSealFailed \/ AuditFailed
      BY <3>4 DEF TypeOK, AuditSelected, AuditEncryption, AuditUpload, AuditAnchor,
                  AuditSealFailed, AuditFailed, AuditKinds
    <3>5. CASE Upload
      BY <3>1, <3>5 DEF TypeOK, Upload
    <3>6. CASE AnchorPaper \/ RecordAnchor \/ RecordAssembly \/ MarkReady \/ MarkFailed
      BY <3>1, <3>6 DEF TypeOK, AnchorPaper, RecordAnchor, RecordAssembly, MarkReady, MarkFailed
    <3> QED
      BY <2>3, <3>2, <3>3, <3>4, <3>5, <3>6 DEF Pipeline
  <2>4. CASE Throws
    BY <2>4 DEF TypeOK, Throws, SealThrows, CallThrows, CatchThrows
  <2>5. CASE Crash
    <3>1. crashes' \in Nat /\ stalls' \in 0..MaxStalls
      BY <2>5, LimitsAssumption DEF TypeOK, Crash
    <3> QED
      BY <2>5, <3>1 DEF TypeOK, Crash
  <2>6. CASE UNCHANGED vars
    BY <2>6 DEF TypeOK, vars
  <2> QED
    BY <2>1, <2>2, <2>3, <2>4, <2>5, <2>6 DEF Next, Work
<1> QED
  BY <1>1, <1>2, PTL DEF Spec

\* Every step of a run makes good what the next stage claims.
LEMMA PipelineKeeps ==
  ASSUME TypeOK, IInv, Pipeline
  PROVE  IInv'
<1> USE DEF paper, ledger, queue, Advance, AtOrAfter, Run
<1> USE DEF Selected, Linked, Uploaded, Anchored, Mirrored, Recorded
<1>0. Run \in Runs /\ None \notin Runs
  BY LimitsAssumption, NullAssumption DEF TypeOK, Runs
<1>1. CASE SelectQuestions \/ SelectNothing \/ LinkConflicts \/ Assemble
  BY <1>1 DEF SelectQuestions, SelectNothing, LinkConflicts, Assemble, IInv, Progress, Settled,
              ReadyIsOpenable, AssemblyBacked, CompletionExplained
<1>2. CASE LinkQuestions
  BY <1>2 DEF LinkQuestions, IInv, Progress, Settled, ReadyIsOpenable, AssemblyBacked,
              CompletionExplained
<1>3. CASE AuditSelected \/ AuditEncryption \/ AuditUpload \/ AuditAnchor
  BY <1>3 DEF AuditSelected, AuditEncryption, AuditUpload, AuditAnchor, IInv, Progress, Settled,
              ReadyIsOpenable, AssemblyBacked, CompletionExplained
<1>4. CASE Upload
  BY <1>0, <1>4 DEF Upload, TypeOK, IInv, Progress, Settled, ReadyIsOpenable, AssemblyBacked,
                    CompletionExplained
<1>5. CASE AnchorPaper \/ AnchorReverts
  BY <1>0, <1>5 DEF AnchorPaper, AnchorReverts, IInv, Progress, Settled, ReadyIsOpenable,
                    AssemblyBacked, CompletionExplained
<1>6. CASE RecordAnchor \/ RecordAssembly
  BY <1>0, <1>6 DEF RecordAnchor, RecordAssembly, IInv, Progress, Settled, ReadyIsOpenable,
                    AssemblyBacked, CompletionExplained
<1>7. CASE SealKey \/ MarkReady
  BY <1>0, <1>7 DEF SealKey, MarkReady, IInv, Progress, Settled, ReadyIsOpenable,
                    AssemblyBacked, CompletionExplained
<1>8. CASE AuditSealFailed \/ MarkFailed \/ AuditFailed
  BY <1>8 DEF AuditSealFailed, MarkFailed, AuditFailed, IInv, Progress, Settled,
              ReadyIsOpenable, AssemblyBacked, CompletionExplained
<1> QED
  BY <1>1, <1>2, <1>3, <1>4, <1>5, <1>6, <1>7, <1>8 DEF Pipeline

\* Runs, redelivered or not, and the failures between them keep the invariant.
THEOREM Inductive == Spec => []IInv
<1>1. Init => IInv
  BY DEF Init, IInv, Progress, Settled, AtOrAfter, ReadyIsOpenable, AssemblyBacked,
         CompletionExplained
<1>2. TypeOK /\ IInv /\ [Next]_vars => IInv'
  <2> SUFFICES ASSUME TypeOK, IInv, [Next]_vars PROVE IInv'
    OBVIOUS
  <2> USE DEF paper, ledger, queue, AtOrAfter, Run
  <2> USE DEF Selected, Linked, Uploaded, Anchored, Mirrored, Recorded
  <2> USE DEF IInv, Progress, Settled, ReadyIsOpenable, AssemblyBacked, CompletionExplained
  <2>1. CASE \E q \in Questions : Accept(q)
    BY <2>1 DEF Accept
  <2>2. CASE Request \/ RequestAborts
    BY <2>2 DEF TypeOK, Request, CreatePaper, EnqueueJob, RequestAborts
  <2>3. CASE JobBegins \/ JobCompletes \/ JobFails
    BY <2>3 DEF JobBegins, JobCompletes, JobFails
  <2>4. CASE Pipeline
    BY <2>4, PipelineKeeps
  <2>5. CASE Throws
    BY <2>5 DEF Throws, SealThrows, CallThrows, CatchThrows, Guarded, Unguarded, Catching
  <2>6. CASE Crash
    BY <2>6 DEF Crash
  <2>7. CASE UNCHANGED vars
    BY <2>7 DEF vars
  <2> QED
    BY <2>1, <2>2, <2>3, <2>4, <2>5, <2>6, <2>7 DEF Next, Work
<1> QED
  BY <1>1, <1>2, TypeCorrect, PTL DEF Spec

\* The sealed key opens the stored, anchored and recorded paper.
THEOREM ReadyCanBeOpened == Spec => []ReadyIsOpenable
<1>1. IInv => ReadyIsOpenable
  BY DEF IInv
<1> QED
  BY <1>1, Inductive, PTL

\* What Postgres says of the assembly is on chain, in storage and linked.
THEOREM AssemblyIsTrue == Spec => []AssemblyBacked
<1>1. IInv => AssemblyBacked
  BY DEF IInv
<1> QED
  BY <1>1, Inductive, PTL

\* A run is not passed over in silence.
THEOREM NoSilentEnd == Spec => []CompletionExplained
<1>1. IInv => CompletionExplained
  BY DEF IInv
<1> QED
  BY <1>1, Inductive, PTL

\* Anchor, record and sealed key are written once, whatever is run again.
THEOREM AssembledOnce == Spec => AssemblyIsFinal
<1>1. TypeOK /\ IInv /\ [Next]_vars =>
        [/\ anchor # None => anchor' = anchor
         /\ row # None => row' = row
         /\ ref # None => ref' = ref]_vars
  <2> SUFFICES ASSUME TypeOK, IInv, [Next]_vars
               PROVE  /\ anchor # None => anchor' = anchor
                      /\ row # None => row' = row
                      /\ ref # None => ref' = ref
    OBVIOUS
  <2> USE DEF paper, ledger
  <2>1. CASE Pipeline
    <3>1. CASE AnchorPaper
      BY <3>1 DEF AnchorPaper
    <3>2. CASE RecordAssembly
      BY <3>2 DEF RecordAssembly, Advance, IInv, Progress, AssemblyBacked, AtOrAfter, Anchored,
                  Mirrored
    <3>3. CASE MarkReady
      BY <3>3 DEF MarkReady, Advance, IInv, Progress, Settled, AtOrAfter, Recorded
    <3>4. CASE Pipeline /\ ~AnchorPaper /\ ~RecordAssembly /\ ~MarkReady
      BY <3>4 DEF Pipeline, SelectQuestions, SelectNothing, LinkQuestions, LinkConflicts,
                  AuditSelected, Assemble, AuditEncryption, Upload, AuditUpload, AnchorReverts,
                  RecordAnchor, AuditAnchor, SealKey, AuditSealFailed, MarkFailed, AuditFailed
    <3> QED
      BY <2>1, <3>1, <3>2, <3>3, <3>4
  <2>2. CASE \/ Request \/ RequestAborts \/ JobBegins \/ JobCompletes \/ JobFails
             \/ Throws \/ Crash \/ UNCHANGED vars \/ \E q \in Questions : Accept(q)
    BY <2>2 DEF Request, CreatePaper, EnqueueJob, RequestAborts, JobBegins, JobCompletes, JobFails,
                Throws, SealThrows, CallThrows, CatchThrows, Crash, vars, Accept
  <2> QED
    BY <2>1, <2>2 DEF Next, Work
<1> QED
  BY <1>1, TypeCorrect, Inductive, PTL DEF Spec, AssemblyIsFinal

-----------------------------------------------------------------------------
(* The questions of a paper made in one delivery.                          *)

\* While the first delivery lasts, what it linked is what it selected, and once
\* the paper is READY nothing links, selects or uploads any more.
DeliveryInv ==
  stalls = 0 =>
    /\ job \in {"none", "waiting"} \/ AtOrAfter({"select", "link"}) => links = {}
    /\ AtOrAfter(Linked) => links = selected
    /\ status = "READY" =>
         /\ links = blobs[ref]
         /\ job \notin {"none", "waiting"} /\ ~AtOrAfter({"select"} \cup Selected)

\* Requests, runs and failures keep the links of the first delivery.
THEOREM DeliveriesLink == Spec => []DeliveryInv
<1>1. Init => DeliveryInv
  BY DEF Init, DeliveryInv, AtOrAfter
<1>2. TypeOK /\ IInv /\ DeliveryInv /\ [Next]_vars => DeliveryInv'
  <2> SUFFICES ASSUME TypeOK, IInv, DeliveryInv, [Next]_vars PROVE DeliveryInv'
    OBVIOUS
  <2> USE DEF paper, ledger, queue, AtOrAfter, Run, Advance, DeliveryInv
  <2> USE DEF Selected, Linked, Uploaded, Anchored, Mirrored, Recorded
  <2>1. CASE \E q \in Questions : Accept(q)
    BY <2>1 DEF Accept
  <2>2. CASE Request \/ RequestAborts
    BY <2>2 DEF TypeOK, Request, CreatePaper, EnqueueJob, RequestAborts
  <2>3. CASE JobBegins \/ JobCompletes \/ JobFails
    BY <2>3 DEF JobBegins, JobCompletes, JobFails
  <2>4. CASE Pipeline
    <3>1. CASE SelectQuestions \/ SelectNothing \/ LinkQuestions \/ LinkConflicts
      BY <2>4, <3>1 DEF SelectQuestions, SelectNothing, LinkQuestions, LinkConflicts
    <3>2. CASE Upload
      BY <3>2 DEF Upload
    <3>3. CASE \/ AuditSelected \/ Assemble \/ AuditEncryption \/ AuditUpload
               \/ AnchorPaper \/ AnchorReverts \/ RecordAnchor \/ AuditAnchor \/ RecordAssembly
               \/ SealKey
      BY <3>3 DEF AuditSelected, Assemble, AuditEncryption, AuditUpload, AnchorPaper,
         AnchorReverts, RecordAnchor, AuditAnchor, RecordAssembly, SealKey
    <3>4. CASE MarkReady
      <4>1. blobs[Run] = selected
        BY <3>4 DEF MarkReady, IInv, Progress
      <4> QED
        BY <3>4, <4>1 DEF MarkReady
    <3>5. CASE AuditSealFailed \/ MarkFailed \/ AuditFailed
      BY <3>5 DEF AuditSealFailed, MarkFailed, AuditFailed
    <3> QED
      BY <2>4, <3>1, <3>2, <3>3, <3>4, <3>5 DEF Pipeline
  <2>5. CASE Throws
    BY <2>5 DEF Throws, SealThrows, CallThrows, CatchThrows, Guarded, Unguarded, Catching
  <2>6. CASE Crash
    <3>1. CASE job # "active"
      <4>1. pc = "enqueue" /\ job = "none"
        BY <2>6, <3>1 DEF Crash, TypeOK
      <4> QED
        BY <2>6, <3>1, <4>1 DEF Crash
    <3>2. CASE job = "active" /\ stalls < MaxStalls
      <4>1. stalls \in 0..MaxStalls /\ stalls' = stalls + 1
        BY <2>6, <3>2 DEF Crash, TypeOK
      <4>2. stalls' # 0
        BY <4>1, LimitsAssumption
      <4> QED
        BY <4>2
    <3>3. CASE job = "active" /\ ~(stalls < MaxStalls)
      BY <2>6, <3>3 DEF Crash
    <3> QED
      BY <3>1, <3>2, <3>3
  <2>7. CASE UNCHANGED vars
    BY <2>7 DEF vars
  <2> QED
    BY <2>1, <2>2, <2>3, <2>4, <2>5, <2>6, <2>7 DEF Next, Work
<1> QED
  BY <1>1, <1>2, TypeCorrect, Inductive, PTL DEF Spec

\* The PaperQuestion rows of a paper made in one delivery are the questions in
\* its blob, however the question bank grew meanwhile.
THEOREM LinkedIsSealed == Spec => []OneDeliveryLinksThePaper
<1>1. DeliveryInv => OneDeliveryLinksThePaper
  BY DEF DeliveryInv, OneDeliveryLinksThePaper
<1> QED
  BY <1>1, DeliveriesLink, PTL
=============================================================================
