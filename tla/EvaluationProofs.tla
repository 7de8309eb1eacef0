--------------------------- MODULE EvaluationProofs ---------------------------
(***************************************************************************)
(* What TLAPS proves of Evaluation, for any sessions, candidates, scores,  *)
(* runs and publish requests, and failures and crashes at any step.        *)
(***************************************************************************)
EXTENDS Evaluation, FiniteSetTheorems, TLAPS

\* The null of the columns is not a ranking row.
LEMMA RecordsAreNotNull ==
  ASSUME NEW n \in Nat, NEW r \in Publications
  PROVE  [rank |-> n, by |-> r] # None
  BY NullAssumption

\* The sorted order of a list gives each of its sessions a number.
LEMMA RanksAreNumbers ==
  ASSUME NEW S \in SUBSET Sessions, NEW rank \in Rankings(S), NEW s \in S
  PROVE  rank[s] \in Nat
<1>1. IsFiniteSet(S)
  BY SessionsAssumption, FS_Subset
<1>2. Cardinality(S) \in Nat
  BY <1>1, FS_CardinalityType
<1> QED
  BY <1>2 DEF Rankings

\* The exam, every run, every publication and every failure keep each variable
\* in its kind.
THEOREM TypeCorrect == Spec => []TypeOK
<1>1. Init => TypeOK
  <2> SUFFICES ASSUME Init PROVE TypeOK
    OBVIOUS
  <2>1. 0 \in 0..MaxStalls
    BY LimitsAssumption
  <2>2. late \subseteq Sessions /\ \A j \in Jobs : ~OnSession(j) /\ job[j] = "none"
    BY SessionsAssumption DEF Init, OnSession
  <2> QED
    BY <2>1, <2>2 DEF Init, TypeOK, Statuses, Stages
<1>2. TypeOK /\ [Next]_vars => TypeOK'
  <2> SUFFICES ASSUME TypeOK, [Next]_vars PROVE TypeOK'
    OBVIOUS
  <2> USE DEF exam, ledger, queue, run, requests
  <2> USE DEF At, Advance, Delivery, OnSession, InHand
  <2>1. CASE Exam
    <3>1. ASSUME NEW p \in Papers, PaperFails(p) PROVE TypeOK'
      BY <3>1 DEF TypeOK, PaperFails
    <3>2. ASSUME NEW s \in Sessions, LateStart(s) PROVE TypeOK'
      BY <3>2 DEF TypeOK, LateStart, Statuses
    <3>3. ASSUME NEW s \in Sessions, NEW t \in Times, Submit(s, t) PROVE TypeOK'
      BY <3>3 DEF TypeOK, Submit, Statuses
    <3> QED
      BY <2>1, <3>1, <3>2, <3>3 DEF Exam
  <2>2. ASSUME NEW j \in Jobs, NEW p \in Papers, RunRequest(j, p) PROVE TypeOK'
    BY <2>2 DEF TypeOK, RunRequest
  <2>3. ASSUME NEW j \in Jobs, Evaluate(j) PROVE TypeOK'
    <3>0. Delivery(j) \in Deliveries
      BY DEF TypeOK, Deliveries
    <3>1. CASE JobBegins(j) \/ CheckPaper(j)
      BY <3>1 DEF TypeOK, JobBegins, CheckPaper, Stages
    <3>2. CASE JobRefused(j) \/ ResultConflicts(j) \/ JobCompletes(j)
      BY <3>2 DEF TypeOK, JobRefused, ResultConflicts, JobCompletes
    <3>3. CASE ListSessions(j)
      BY <3>3 DEF TypeOK, ListSessions, Submitted, Stages
    <3>4. ASSUME NEW s \in Sessions, ScoreSession(j, s) PROVE TypeOK'
      BY <3>4 DEF TypeOK, ScoreSession, Stages
    <3>5. CASE AnchorResult(j)
      <4>1. current[j] \in Sessions /\ <<current[j], Delivery(j)>> \in Sessions \X Deliveries
        BY <3>0, <3>5 DEF TypeOK, AnchorResult
      <4>2. registry' \in [Students -> Sessions \cup {None}] /\ mined' \subseteq Sessions \X Deliveries
        BY <4>1, <3>5 DEF TypeOK, AnchorResult
      <4>3. stage' \in [Jobs -> Stages]
        BY <3>5 DEF TypeOK, AnchorResult, Stages
      <4>4. \A k \in Jobs : job'[k] = "active" /\ stage'[k] \in InHand => current'[k] \in Sessions
        BY <4>1, <3>5 DEF TypeOK, AnchorResult
      <4> QED
        BY <3>5, <4>2, <4>3, <4>4 DEF TypeOK, AnchorResult
    <3>6. CASE RecordAnchor(j)
      BY <3>0, <3>6 DEF TypeOK, RecordAnchor, Stages
    <3>7. CASE CreateResult(j)
      BY <3>0, <3>7 DEF TypeOK, CreateResult, Stages
    <3>8. CASE MarkEvaluated(j) \/ AuditEvaluation(j)
      BY <3>8 DEF TypeOK, MarkEvaluated, AuditEvaluation, Stages, Statuses, AuditRows
    <3> QED
      BY <2>3, <3>1, <3>2, <3>3, <3>4, <3>5, <3>6, <3>7, <3>8 DEF Evaluate
  <2>4. ASSUME NEW r \in Publications, Publish(r) PROVE TypeOK'
    <3>1. ASSUME NEW p \in Papers, ReadResults(r, p) PROVE TypeOK'
      BY <3>1 DEF TypeOK, ReadResults, Scored
    <3>2. CASE InsertRanking(r)
      <4>1. PICK rank \in Rankings(listed[r]) :
              ranking' = [s \in Sessions |-> IF s \in listed[r]
                                             THEN [rank |-> rank[s], by |-> r] ELSE ranking[s]]
        BY <3>2 DEF InsertRanking
      <4>2. ranking' \in [Sessions -> [rank : Nat, by : Publications] \cup {None}]
        BY <4>1, RanksAreNumbers DEF TypeOK
      <4> QED
        BY <3>2, <4>2 DEF TypeOK, InsertRanking
    <3>3. CASE RankingConflicts(r) \/ AuditRanking(r)
      BY <3>3 DEF TypeOK, RankingConflicts, AuditRanking, AuditRows
    <3> QED
      BY <2>4, <3>1, <3>2, <3>3 DEF Publish
  <2>5. ASSUME NEW j \in Jobs, CallThrows(j) PROVE TypeOK'
    BY <2>5 DEF TypeOK, CallThrows
  <2>6. ASSUME NEW r \in Publications, PublicationThrows(r) PROVE TypeOK'
    BY <2>6 DEF TypeOK, PublicationThrows
  <2>7. CASE Crash
    <3>1. stalls' \in [Jobs -> 0..MaxStalls]
      BY <2>7, LimitsAssumption DEF TypeOK, Crash
    <3> QED
      BY <2>7, <3>1 DEF TypeOK, Crash
  <2>8. CASE UNCHANGED vars
    BY <2>8 DEF TypeOK, vars
  <2> QED
    BY <2>1, <2>2, <2>3, <2>4, <2>5, <2>6, <2>7, <2>8 DEF Next, RunRequests
<1> QED
  BY <1>1, <1>2, PTL DEF Spec


\* What is neither read nor inserted by a publish request stays ranked as it is,
\* while results are only added and submission times never change.
LEMMA RankingUntouched ==
  ASSUME TypeOK, IInv,
         UNCHANGED <<listed, ranking>>,
         \A s \in Sessions : result[s] # None => result'[s] # None,
         \A s \in Sessions : submittedAt[s] # None => submittedAt'[s] = submittedAt[s],
         \A r \in Publications :
           pub'[r] = pub[r] \/ (pub'[r] \in {"failed", "conflict"} /\ pub[r] \in {"insert", "audit"}),
         \A r \in Publications :
           <<"RANKING_PUBLICATION", r>> \in audit' => <<"RANKING_PUBLICATION", r>> \in audit
  PROVE  ListsGrow' /\ RankedWhole'
<1>1. ListsGrow'
  BY DEF TypeOK, IInv, ListsGrow
<1>2. Ranked' = Ranked /\ Ranked \subseteq Sessions
  BY DEF Ranked
<1>3. \A s, t \in Ranked : Ahead(s, t)' <=> Ahead(s, t)
  <2> SUFFICES ASSUME NEW s \in Ranked, NEW t \in Ranked PROVE Ahead(s, t)' <=> Ahead(s, t)
    OBVIOUS
  <2>1. result[s] # None /\ result[t] # None
    BY <1>2 DEF TypeOK, IInv, RankedWhole, ListsGrow, Ranked
  <2>2. submittedAt'[s] = submittedAt[s] /\ submittedAt'[t] = submittedAt[t]
    BY <1>2, <2>1 DEF IInv, EvaluationIsProven
  <2> QED
    BY <2>2 DEF Ahead
<1>4. RankedWhole'
  <2>1. \A r \in Publications : pub'[r] \in {"audit", "done"} =>
          \A s \in listed'[r] : ranking'[s] # None /\ ranking'[s].by = r
    BY DEF IInv, RankedWhole
  <2>2. \A r \in Publications : pub'[r] = "read" => listed'[r] = {}
    BY DEF IInv, RankedWhole
  <2>3. \A r \in Publications : <<"RANKING_PUBLICATION", r>> \in audit' => pub'[r] = "done"
    BY DEF IInv, RankedWhole
  <2>4. \A s \in Ranked' :
          /\ s \in listed'[ranking'[s].by]
          /\ \A t \in listed'[ranking'[s].by] :
               /\ t \in Ranked' /\ ranking'[t].by = ranking'[s].by
               /\ s # t => ranking'[s].rank # ranking'[t].rank
               /\ s # t /\ Ahead(s, t)' => ranking'[s].rank < ranking'[t].rank
    BY <1>2, <1>3 DEF IInv, RankedWhole
  <2> QED
    BY <2>1, <2>2, <2>3, <2>4 DEF RankedWhole
<1> QED
  BY <1>1, <1>4

\* Runs, rival or redelivered, keep the invariant.
LEMMA RunKeeps ==
  ASSUME TypeOK, IInv, NEW j \in Jobs, Evaluate(j)
  PROVE  IInv'
<1> USE DEF exam, ledger, queue, run, requests, At, Advance, Delivery, OnSession, InHand
<1> DEFINE AuditsKept == \A s \in Sessions : <<"EVALUATION", s>> \in audit => result[s] # None
<1> DEFINE Half == SubmittedOnce /\ Progress /\ EvaluationIsProven /\ AuditsKept
<1>1. CASE JobBegins(j) \/ CheckPaper(j) \/ JobRefused(j) \/ ResultConflicts(j) \/ JobCompletes(j)
  <2>1. Half'
    BY <1>1 DEF TypeOK, JobBegins, CheckPaper, JobRefused, ResultConflicts, JobCompletes, IInv,
                SubmittedOnce, Progress, EvaluationIsProven
  <2>2. ListsGrow' /\ RankedWhole'
    BY <1>1, RankingUntouched DEF JobBegins, CheckPaper, JobRefused, ResultConflicts, JobCompletes
  <2> QED
    BY <2>1, <2>2 DEF IInv
<1>2. CASE ListSessions(j)
  <2>1. Half'
    BY <1>2 DEF TypeOK, ListSessions, Submitted, IInv, SubmittedOnce, Progress, EvaluationIsProven
  <2>2. ListsGrow' /\ RankedWhole'
    BY <1>2, RankingUntouched DEF ListSessions
  <2> QED
    BY <2>1, <2>2 DEF IInv
<1>3. ASSUME NEW s \in Sessions, ScoreSession(j, s) PROVE IInv'
  <2>1. Half'
    BY <1>3 DEF TypeOK, ScoreSession, IInv, SubmittedOnce, Progress, EvaluationIsProven
  <2>2. ListsGrow' /\ RankedWhole'
    BY <1>3, RankingUntouched DEF ScoreSession
  <2> QED
    BY <2>1, <2>2 DEF IInv
<1>4. CASE AnchorResult(j)
  <2>0. current[j] \in Sessions /\ StudentOf[current[j]] \in Students /\ current[j] # None
    BY <1>4, CandidatesAssumption, NullAssumption DEF TypeOK, AnchorResult
  <2>1. \A c \in Students : registry[c] # None => registry'[c] # None
    BY <1>4, <2>0 DEF TypeOK, AnchorResult
  <2>2. registry'[StudentOf[current[j]]] # None /\ <<current[j], Delivery(j)>> \in mined'
    BY <1>4, <2>0 DEF TypeOK, AnchorResult
  <2>3. SubmittedOnce'
    BY <1>4 DEF TypeOK, AnchorResult, IInv, SubmittedOnce
  <2>4. Progress'
    BY <1>4, <2>1, <2>2, CandidatesAssumption DEF TypeOK, AnchorResult, IInv, Progress
  <2>5. EvaluationIsProven'
    BY <1>4, <2>1, CandidatesAssumption DEF TypeOK, AnchorResult, IInv, EvaluationIsProven
  <2>6. ListsGrow' /\ RankedWhole'
    BY <1>4, RankingUntouched DEF AnchorResult
  <2> QED
    BY <1>4, <2>3, <2>4, <2>5, <2>6 DEF AnchorResult, IInv
<1>5. CASE RecordAnchor(j)
  <2>1. Half'
    BY <1>5 DEF TypeOK, RecordAnchor, IInv, SubmittedOnce, Progress, EvaluationIsProven
  <2>2. ListsGrow' /\ RankedWhole'
    BY <1>5, RankingUntouched DEF RecordAnchor
  <2> QED
    BY <2>1, <2>2 DEF IInv
<1>6. CASE CreateResult(j)
  <2>0. Delivery(j) # None /\ current[j] \in Sessions
    BY <1>6, NullAssumption DEF TypeOK, CreateResult, Deliveries
  <2>1. \A s \in Sessions : result[s] # None => result'[s] = result[s]
    BY <1>6 DEF TypeOK, CreateResult
  <2>2. result'[current[j]] = Delivery(j) /\ \A s \in Sessions \ {current[j]} : result'[s] = result[s]
    BY <1>6, <2>0 DEF TypeOK, CreateResult
  <2>3. SubmittedOnce' /\ AuditsKept'
    BY <1>6, <2>1 DEF TypeOK, CreateResult, IInv, SubmittedOnce
  <2>4. Progress'
    BY <1>6, <2>0, <2>1, <2>2 DEF TypeOK, CreateResult, IInv, Progress
  <2>5. EvaluationIsProven'
    <3>1. UNCHANGED <<status, submittedAt, mined, mirror, registry>>
      BY <1>6 DEF CreateResult
    <3>2. /\ submittedAt[current[j]] # None /\ <<current[j], Delivery(j)>> \in mined \cap mirror
          /\ registry[StudentOf[current[j]]] # None
      BY <1>6 DEF CreateResult, IInv, SubmittedOnce, Progress
    <3>3. \A s \in Sessions :
            /\ status[s] = "EVALUATED" => result[s] # None
            /\ result[s] # None => /\ submittedAt[s] # None /\ <<s, result[s]>> \in mined \cap mirror
                                   /\ registry[StudentOf[s]] # None
      BY DEF IInv, EvaluationIsProven
    <3> QED
      BY <2>0, <2>2, <3>1, <3>2, <3>3 DEF EvaluationIsProven
  <2>6. ListsGrow' /\ RankedWhole'
    BY <1>6, <2>1, RankingUntouched DEF CreateResult
  <2> QED
    BY <2>3, <2>4, <2>5, <2>6 DEF IInv
<1>7. CASE MarkEvaluated(j)
  <2>1. Half'
    <3>1. SubmittedOnce'
      BY <1>7 DEF TypeOK, MarkEvaluated, IInv, SubmittedOnce
    <3>2. Progress'
      BY <1>7 DEF TypeOK, MarkEvaluated, IInv, Progress
    <3>3. EvaluationIsProven'
      BY <1>7 DEF TypeOK, MarkEvaluated, IInv, Progress, EvaluationIsProven
    <3>4. AuditsKept'
      BY <1>7 DEF MarkEvaluated, IInv
    <3> QED
      BY <3>1, <3>2, <3>3, <3>4
  <2>2. ListsGrow' /\ RankedWhole'
    BY <1>7, RankingUntouched DEF MarkEvaluated
  <2> QED
    BY <2>1, <2>2 DEF IInv
<1>8. CASE AuditEvaluation(j)
  <2>1. result[current[j]] # None /\ current[j] \in Sessions
    BY <1>8 DEF TypeOK, AuditEvaluation, IInv, Progress
  <2>2. Half'
    BY <1>8, <2>1 DEF TypeOK, AuditEvaluation, IInv, SubmittedOnce, Progress, EvaluationIsProven
  <2>3. ListsGrow' /\ RankedWhole'
    BY <1>8, RankingUntouched DEF AuditEvaluation
  <2> QED
    BY <2>2, <2>3 DEF IInv
<1> QED
  BY <1>1, <1>2, <1>3, <1>4, <1>5, <1>6, <1>7, <1>8 DEF Evaluate


\* A list that was just read contains every earlier list of its paper.
LEMMA ReadKeeps ==
  ASSUME TypeOK, IInv, NEW r \in Publications, NEW p \in Papers, ReadResults(r, p)
  PROVE  IInv'
<1> USE DEF exam, ledger, queue, run, requests
<1> DEFINE List == {s \in Scored : PaperOf[s] = p}
<1>1. listed' = [listed EXCEPT ![r] = List] /\ pub' = [pub EXCEPT ![r] = "insert"]
  BY DEF ReadResults
<1>2. List # {} /\ List \subseteq Sessions /\ \A s \in List : result[s] # None /\ PaperOf[s] = p
  BY DEF ReadResults, Scored
<1>3. listed[r] = {} /\ pub[r] = "read"
  BY DEF ReadResults, IInv, RankedWhole
<1>4. \A q \in Publications : \A s \in listed[q] : PaperOf[s] = p => listed[q] \subseteq List
  <2> SUFFICES ASSUME NEW q \in Publications, NEW s \in listed[q], PaperOf[s] = p,
                      NEW t \in listed[q]
               PROVE  t \in List
    OBVIOUS
  <2>1. t \in Sessions /\ result[t] # None /\ PaperOf[t] = PaperOf[s]
    BY DEF TypeOK, IInv, ListsGrow
  <2> QED
    BY <2>1 DEF Scored
<1>5. listed'[r] = List /\ \A q \in Publications \ {r} : listed'[q] = listed[q] /\ pub'[q] = pub[q]
  BY <1>1 DEF TypeOK
<1>6. UNCHANGED <<result, ranking, audit, submittedAt>>
  BY DEF ReadResults
<1>7. ListsGrow'
  <2>1. ASSUME NEW q \in Publications
        PROVE  /\ pub'[q] \in {"insert", "audit"} => listed'[q] # {}
               /\ \A s \in listed'[q] : result'[s] # None
               /\ \A s, t \in listed'[q] : PaperOf[s] = PaperOf[t]
    BY <1>2, <1>5, <1>6 DEF IInv, ListsGrow
  <2>2. ASSUME NEW q \in Publications, NEW o \in Publications,
               NEW s \in listed'[q], NEW t \in listed'[o], PaperOf[s] = PaperOf[t]
        PROVE  listed'[q] \subseteq listed'[o] \/ listed'[o] \subseteq listed'[q]
    <3>1. CASE q = r
      BY <3>1, <2>2, <1>2, <1>4, <1>5
    <3>2. CASE o = r
      BY <3>2, <2>2, <1>2, <1>4, <1>5
    <3>3. CASE q # r /\ o # r
      BY <3>3, <2>2, <1>5 DEF IInv, ListsGrow
    <3> QED
      BY <3>1, <3>2, <3>3
  <2> QED
    BY <2>1, <2>2 DEF ListsGrow
<1>8. RankedWhole'
  <2>1. \A s \in Ranked : ranking[s].by \in Publications \ {r}
    BY <1>3 DEF TypeOK, IInv, RankedWhole, Ranked
  <2>2. Ranked' = Ranked /\ \A s, t \in Ranked : Ahead(s, t)' <=> Ahead(s, t)
    BY <1>6 DEF Ranked, Ahead
  <2>3. \A q \in Publications : pub'[q] \in {"audit", "done"} =>
          \A s \in listed'[q] : ranking'[s] # None /\ ranking'[s].by = q
    BY <1>1, <1>5, <1>6 DEF TypeOK, IInv, RankedWhole
  <2>4. \A q \in Publications : pub'[q] = "read" => listed'[q] = {}
    BY <1>1, <1>5 DEF TypeOK, IInv, RankedWhole
  <2>5. \A q \in Publications : <<"RANKING_PUBLICATION", q>> \in audit' => pub'[q] = "done"
    BY <1>3, <1>5, <1>6 DEF IInv, RankedWhole
  <2>6. \A s \in Ranked' :
          /\ s \in listed'[ranking'[s].by]
          /\ \A t \in listed'[ranking'[s].by] :
               /\ t \in Ranked' /\ ranking'[t].by = ranking'[s].by
               /\ s # t => ranking'[s].rank # ranking'[t].rank
               /\ s # t /\ Ahead(s, t)' => ranking'[s].rank < ranking'[t].rank
    BY <1>5, <1>6, <2>1, <2>2 DEF IInv, RankedWhole
  <2> QED
    BY <2>3, <2>4, <2>5, <2>6 DEF RankedWhole
<1> QED
  BY <1>6, <1>7, <1>8 DEF ReadResults, IInv, SubmittedOnce, Progress, OnSession, Delivery,
                          EvaluationIsProven

\* An insertion that meets no conflict ranks its whole list, in order.
LEMMA InsertKeeps ==
  ASSUME TypeOK, IInv, NEW r \in Publications, InsertRanking(r)
  PROVE  IInv'
<1> USE DEF exam, ledger, queue, run, requests
<1>1. PICK rank \in Rankings(listed[r]) :
        ranking' = [s \in Sessions |-> IF s \in listed[r]
                                       THEN [rank |-> rank[s], by |-> r] ELSE ranking[s]]
  BY DEF InsertRanking
<1>2. listed[r] \subseteq Sessions /\ listed[r] \cap Ranked = {}
  BY DEF TypeOK, InsertRanking
<1>3. \A s \in listed[r] : ranking'[s] = [rank |-> rank[s], by |-> r]
  BY <1>1, <1>2
<1>4. \A s \in Sessions \ listed[r] : ranking'[s] = ranking[s]
  BY <1>1
<1>5. \A s \in listed[r] : ranking'[s] # None /\ ranking'[s].by = r
  <2> SUFFICES ASSUME NEW s \in listed[r] PROVE ranking'[s] # None /\ ranking'[s].by = r
    OBVIOUS
  <2>1. rank[s] \in Nat
    BY <1>2, RanksAreNumbers
  <2>2. [rank |-> rank[s], by |-> r] # None
    BY <2>1, RecordsAreNotNull
  <2>3. ranking'[s] = [rank |-> rank[s], by |-> r]
    BY <1>3
  <2>4. ranking'[s].by = r
    BY <2>3
  <2> QED
    BY <2>2, <2>3, <2>4
<1>6. Ranked' = Ranked \cup listed[r]
  BY <1>2, <1>4, <1>5 DEF Ranked
<1>7. pub' = [pub EXCEPT ![r] = "audit"] /\ UNCHANGED <<listed, result, audit, submittedAt>>
  BY DEF InsertRanking
<1>8. ListsGrow'
  <2>1. \A q \in Publications : pub'[q] \in {"insert", "audit"} => pub[q] \in {"insert", "audit"}
    BY <1>7 DEF TypeOK, InsertRanking
  <2> QED
    BY <1>7, <2>1 DEF IInv, ListsGrow
<1>9. RankedWhole'
  <2>1. \A s \in Ranked : s \notin listed[r] /\ s \in listed[ranking[s].by]
    BY <1>2 DEF IInv, RankedWhole
  <2>2. \A s \in Ranked : \A t \in listed[ranking[s].by] :
          t \in Ranked /\ t \notin listed[r] /\ ranking'[t] = ranking[t]
    <3> SUFFICES ASSUME NEW s \in Ranked, NEW t \in listed[ranking[s].by]
                 PROVE  t \in Ranked /\ t \notin listed[r] /\ ranking'[t] = ranking[t]
      OBVIOUS
    <3>1. t \in Ranked
      BY DEF IInv, RankedWhole
    <3> QED
      BY <3>1, <1>2, <1>4 DEF Ranked
  <2>3. \A s, t \in Sessions : Ahead(s, t)' <=> Ahead(s, t)
    BY <1>7 DEF Ahead
  <2>4. \A s \in Ranked' :
          /\ s \in listed'[ranking'[s].by]
          /\ \A t \in listed'[ranking'[s].by] :
               /\ t \in Ranked' /\ ranking'[t].by = ranking'[s].by
               /\ s # t => ranking'[s].rank # ranking'[t].rank
               /\ s # t /\ Ahead(s, t)' => ranking'[s].rank < ranking'[t].rank
    <3> SUFFICES ASSUME NEW s \in Ranked'
                 PROVE  /\ s \in listed'[ranking'[s].by]
                        /\ \A t \in listed'[ranking'[s].by] :
                             /\ t \in Ranked' /\ ranking'[t].by = ranking'[s].by
                             /\ s # t => ranking'[s].rank # ranking'[t].rank
                             /\ s # t /\ Ahead(s, t)' => ranking'[s].rank < ranking'[t].rank
      OBVIOUS
    <3>1. CASE s \in listed[r]
      <4>1. ranking'[s].by = r /\ listed'[r] = listed[r]
        BY <3>1, <1>5, <1>7
      <4>2. ASSUME NEW t \in listed[r]
            PROVE  /\ t \in Ranked' /\ ranking'[t].by = r
                   /\ s # t => ranking'[s].rank # ranking'[t].rank
                   /\ s # t /\ Ahead(s, t)' => ranking'[s].rank < ranking'[t].rank
        <5>1. ranking'[s].rank = rank[s] /\ ranking'[t].rank = rank[t]
          <6>1. ranking'[s] = [rank |-> rank[s], by |-> r]
            BY <3>1, <1>3
          <6>2. ranking'[t] = [rank |-> rank[t], by |-> r]
            BY <1>3
          <6> QED
            BY <6>1, <6>2
        <5>2. s # t => rank[s] # rank[t] /\ (Ahead(s, t) => rank[s] < rank[t])
          BY <3>1 DEF Rankings
        <5>3. t \in Ranked' /\ ranking'[t].by = r
          BY <1>5, <1>6
        <5>4. Ahead(s, t)' => Ahead(s, t)
          BY <3>1, <1>2, <2>3
        <5> QED
          BY <5>1, <5>2, <5>3, <5>4
      <4> QED
        BY <3>1, <4>1, <4>2
    <3>2. CASE s \in Ranked
      <4>1. ranking'[s] = ranking[s] /\ listed' = listed /\ s \in listed[ranking[s].by]
        BY <3>2, <2>1, <2>2, <1>7
      <4>2. ASSUME NEW t \in listed[ranking[s].by]
            PROVE  /\ t \in Ranked' /\ ranking'[t].by = ranking'[s].by
                   /\ s # t => ranking'[s].rank # ranking'[t].rank
                   /\ s # t /\ Ahead(s, t)' => ranking'[s].rank < ranking'[t].rank
        <5>1. t \in Ranked /\ ranking'[t] = ranking[t]
          BY <3>2, <2>2
        <5>2. s \in Sessions /\ t \in Sessions
          BY <3>2, <5>1 DEF Ranked
        <5> QED
          BY <3>2, <4>1, <5>1, <5>2, <1>6, <2>3 DEF IInv, RankedWhole
      <4> QED
        BY <4>1, <4>2
    <3> QED
      BY <3>1, <3>2, <1>6
  <2>5. \A q \in Publications : pub'[q] \in {"audit", "done"} =>
          \A s \in listed'[q] : ranking'[s] # None /\ ranking'[s].by = q
    <3> SUFFICES ASSUME NEW q \in Publications, pub'[q] \in {"audit", "done"}, NEW s \in listed'[q]
                 PROVE  ranking'[s] # None /\ ranking'[s].by = q
      OBVIOUS
    <3>1. CASE q = r
      BY <3>1, <1>5, <1>7
    <3>2. CASE q # r
      <4>1. pub[q] \in {"audit", "done"} /\ s \in listed[q]
        BY <3>2, <1>7 DEF TypeOK
      <4>2. ranking[s] # None /\ ranking[s].by = q /\ s \in Sessions
        BY <4>1 DEF TypeOK, IInv, RankedWhole
      <4> QED
        BY <4>2, <1>2, <1>4 DEF Ranked
    <3> QED
      BY <3>1, <3>2
  <2>6. \A q \in Publications : pub'[q] = "read" => listed'[q] = {}
    BY <1>7 DEF TypeOK, IInv, RankedWhole
  <2>7. \A q \in Publications : <<"RANKING_PUBLICATION", q>> \in audit' => pub'[q] = "done"
    BY <1>7 DEF InsertRanking, TypeOK, IInv, RankedWhole
  <2> QED
    BY <2>4, <2>5, <2>6, <2>7 DEF RankedWhole
<1> QED
  BY <1>7, <1>8, <1>9 DEF InsertRanking, IInv, SubmittedOnce, Progress, OnSession, Delivery,
                          EvaluationIsProven


\* Evaluation and publication, however they interleave, fail or are cut short,
\* leave what the next step relies on.
THEOREM Inductive == Spec => []IInv
<1>1. Init => IInv
  <2> SUFFICES ASSUME Init PROVE IInv
    OBVIOUS
  <2>1. SubmittedOnce /\ Progress
    BY DEF Init, SubmittedOnce, Progress, OnSession
  <2>2. ListsGrow /\ RankedWhole
    BY DEF Init, ListsGrow, RankedWhole, Ranked
  <2> QED
    BY <2>1, <2>2 DEF Init, IInv, EvaluationIsProven
<1>2. TypeOK /\ IInv /\ [Next]_vars => IInv'
  <2> SUFFICES ASSUME TypeOK, IInv, [Next]_vars PROVE IInv'
    OBVIOUS
  <2> USE DEF exam, ledger, queue, run, requests, OnSession, Delivery
  <2>1. CASE Exam
    <3>1. ASSUME NEW p \in Papers, PaperFails(p) PROVE IInv'
      <4>1. ListsGrow' /\ RankedWhole'
        BY <3>1, RankingUntouched DEF PaperFails
      <4> QED
        BY <3>1, <4>1 DEF PaperFails, IInv, SubmittedOnce, Progress, EvaluationIsProven
    <3>2. ASSUME NEW s \in Sessions, LateStart(s) PROVE IInv'
      <4>1. ListsGrow' /\ RankedWhole'
        BY <3>2, RankingUntouched DEF LateStart
      <4> QED
        BY <3>2, <4>1 DEF TypeOK, LateStart, IInv, SubmittedOnce, Progress, EvaluationIsProven
    <3>3. ASSUME NEW s \in Sessions, NEW t \in Times, Submit(s, t) PROVE IInv'
      <4>1. t # None
        BY NullAssumption
      <4>2. /\ submittedAt'[s] # None
            /\ \A x \in Sessions : submittedAt[x] # None => submittedAt'[x] = submittedAt[x]
        BY <3>3, <4>1 DEF TypeOK, Submit
      <4>3. ListsGrow' /\ RankedWhole'
        BY <3>3, <4>2, RankingUntouched DEF Submit
      <4>4. SubmittedOnce'
        BY <3>3, <4>2 DEF TypeOK, Submit, IInv, SubmittedOnce
      <4>5. EvaluationIsProven'
        BY <3>3, <4>2 DEF TypeOK, Submit, IInv, EvaluationIsProven
      <4> QED
        BY <3>3, <4>3, <4>4, <4>5 DEF Submit, IInv, Progress
    <3> QED
      BY <2>1, <3>1, <3>2, <3>3 DEF Exam
  <2>2. ASSUME NEW j \in Jobs, NEW p \in Papers, RunRequest(j, p) PROVE IInv'
    <3>1. ListsGrow' /\ RankedWhole'
      BY <2>2, RankingUntouched DEF RunRequest
    <3> QED
      BY <2>2, <3>1 DEF TypeOK, RunRequest, IInv, SubmittedOnce, Progress, EvaluationIsProven
  <2>3. ASSUME NEW j \in Jobs, Evaluate(j) PROVE IInv'
    BY <2>3, RunKeeps
  <2>4. ASSUME NEW r \in Publications, Publish(r) PROVE IInv'
    <3>1. CASE RankingConflicts(r)
      <4>1. ListsGrow' /\ RankedWhole'
        BY <3>1, RankingUntouched DEF TypeOK, RankingConflicts
      <4> QED
        BY <3>1, <4>1 DEF RankingConflicts, IInv, SubmittedOnce, Progress, EvaluationIsProven
    <3>2. CASE AuditRanking(r)
      <4>1. ListsGrow' /\ RankedWhole'
        BY <3>2 DEF TypeOK, AuditRanking, IInv, ListsGrow, RankedWhole, Ranked, Ahead
      <4> QED
        BY <3>2, <4>1 DEF AuditRanking, IInv, SubmittedOnce, Progress, EvaluationIsProven
    <3> QED
      BY <2>4, <3>1, <3>2, ReadKeeps, InsertKeeps DEF Publish
  <2>5. ASSUME NEW j \in Jobs, CallThrows(j) PROVE IInv'
    <3>1. ListsGrow' /\ RankedWhole'
      BY <2>5, RankingUntouched DEF CallThrows
    <3> QED
      BY <2>5, <3>1 DEF TypeOK, CallThrows, IInv, SubmittedOnce, Progress, EvaluationIsProven
  <2>6. ASSUME NEW r \in Publications, PublicationThrows(r) PROVE IInv'
    <3>1. ListsGrow' /\ RankedWhole'
      BY <2>6, RankingUntouched DEF TypeOK, PublicationThrows
    <3> QED
      BY <2>6, <3>1 DEF PublicationThrows, IInv, SubmittedOnce, Progress, EvaluationIsProven
  <2>7. CASE Crash
    <3>1. \A j \in Jobs : job'[j] # "active"
      BY <2>7 DEF TypeOK, Crash
    <3>2. ListsGrow' /\ RankedWhole'
      BY <2>7, RankingUntouched DEF Crash
    <3> QED
      BY <2>7, <3>1, <3>2 DEF Crash, IInv, SubmittedOnce, Progress, EvaluationIsProven
  <2>8. CASE UNCHANGED vars
    <3>1. ListsGrow' /\ RankedWhole'
      BY <2>8, RankingUntouched DEF vars
    <3> QED
      BY <2>8, <3>1 DEF vars, IInv, SubmittedOnce, Progress, EvaluationIsProven
  <2> QED
    BY <2>1, <2>2, <2>3, <2>4, <2>5, <2>6, <2>7, <2>8 DEF Next, RunRequests
<1> QED
  BY <1>1, <1>2, TypeCorrect, PTL DEF Spec

\* All that /verify compares a result with exists as soon as the session is
\* EVALUATED, whatever runs raced, failed or were cut short.
THEOREM ResultsAreProven == Spec => []EvaluationIsProven
<1>1. IInv => EvaluationIsProven
  BY DEF IInv
<1> QED
  BY <1>1, Inductive, PTL

\* The published ranks of a paper are those of one sorted list.
THEOREM RanksAreOfOneList == Spec => []RankingAgrees
<1>1. TypeOK /\ IInv => RankingAgrees
  <2> SUFFICES ASSUME TypeOK, IInv, NEW s \in Ranked, NEW t \in Ranked,
                      PaperOf[s] = PaperOf[t], s # t
               PROVE  /\ ranking[s].by = ranking[t].by
                      /\ ranking[s].rank # ranking[t].rank
                      /\ Ahead(s, t) => ranking[s].rank < ranking[t].rank
    BY DEF RankingAgrees
  <2> DEFINE q == ranking[s].by
             r == ranking[t].by
  <2>1. s \in Sessions /\ t \in Sessions /\ ranking[s] # None /\ ranking[t] # None
    BY DEF Ranked
  <2>2. ranking[s] \in [rank : Nat, by : Publications] /\ ranking[t] \in [rank : Nat, by : Publications]
    BY <2>1 DEF TypeOK
  <2>3. q \in Publications /\ r \in Publications
    BY <2>2
  <2>4. s \in listed[q] /\ t \in listed[r]
    BY DEF IInv, RankedWhole
  <2>5. listed[q] \subseteq listed[r] \/ listed[r] \subseteq listed[q]
    BY <2>3, <2>4 DEF IInv, ListsGrow
  <2>6. s \in listed[r] \/ t \in listed[q]
    BY <2>4, <2>5
  <2>7. q = r
    BY <2>6 DEF IInv, RankedWhole
  <2> QED
    BY <2>4, <2>7 DEF IInv, RankedWhole
<1> QED
  BY <1>1, TypeCorrect, Inductive, PTL

\* Audit rows tell what happened.
THEOREM AuditsAreTrue == Spec => []AuditIsTrue
<1>1. IInv => AuditIsTrue
  BY DEF IInv, RankedWhole, AuditIsTrue
<1> QED
  BY <1>1, Inductive, PTL

\* Neither a rival run nor a later publication replaces a result or a rank.
THEOREM ResultsWrittenOnce == Spec => WrittenOnce
<1> DEFINE Kept == \A s \in Sessions :
                     /\ result[s] # None => result'[s] = result[s]
                     /\ ranking[s] # None => ranking'[s] = ranking[s]
<1>1. TypeOK /\ [Next]_vars => [Kept]_vars
  <2> SUFFICES ASSUME TypeOK, Next PROVE Kept
    OBVIOUS
  <2> USE DEF exam, ledger, queue, run, requests
  <2>1. CASE Exam \/ RunRequests \/ Crash
    BY <2>1 DEF Exam, PaperFails, LateStart, Submit, RunRequests, RunRequest, Crash
  <2>2. ASSUME NEW j \in Jobs, Evaluate(j) PROVE Kept
    <3>1. CASE CreateResult(j)
      BY <3>1 DEF TypeOK, CreateResult
    <3> QED
      BY <2>2, <3>1 DEF Evaluate, JobBegins, CheckPaper, JobRefused, ListSessions, ScoreSession,
                        AnchorResult, RecordAnchor, ResultConflicts, MarkEvaluated,
                        AuditEvaluation, JobCompletes
  <2>3. ASSUME NEW r \in Publications, Publish(r) PROVE Kept
    <3>1. CASE InsertRanking(r)
      BY <3>1 DEF TypeOK, InsertRanking, Ranked
    <3> QED
      BY <2>3, <3>1 DEF Publish, ReadResults, RankingConflicts, AuditRanking
  <2>4. CASE \/ \E j \in Jobs : CallThrows(j)
             \/ \E r \in Publications : PublicationThrows(r)
    BY <2>4 DEF CallThrows, PublicationThrows
  <2> QED
    BY <2>1, <2>2, <2>3, <2>4 DEF Next
<1> QED
  BY <1>1, TypeCorrect, PTL DEF Spec, WrittenOnce

=============================================================================
