------------------------------ MODULE Evaluation ------------------------------
(***************************************************************************)
(* From submitted sessions to a published ranking: evaluation.service.ts   *)
(* run as a BullMQ job, ResultRegistry.sol, and ranking.service.ts run in  *)
(* an administrator's request.                                             *)
(*                                                                         *)
(* A delivery of a job is the pair of the job and its number of stalls; it *)
(* names the ResultRegistry transactions the delivery sent.  A session is  *)
(* submitted once, with its answers, so its score never varies, and its    *)
(* result hash is named by the session.                                    *)
(***************************************************************************)
EXTENDS Integers, FiniteSets

CONSTANTS
  Sessions,     \* the exam sessions
  Students,     \* the candidates
  Papers,       \* the papers sat
  StudentOf,    \* the candidate of a session
  PaperOf,      \* the paper of a session
  Score,        \* what scoreAnswers makes of a session's answers
  Late,         \* the sessions with a second start request that has passed its check
  Times,        \* bound: the instants of the clock
  Jobs,         \* bound: the runs the administrator asks for
  Publications, \* bound: the publish requests
  MaxStalls,    \* BullMQ maxStalledCount: redeliveries after a worker died
  MaxFaults,    \* bound: how often a call throws or the process dies
  FaultStages,  \* bound: the steps at which a call may throw
  MayCrash,     \* bound: whether the process may die
  None          \* a null column, an empty contract slot

Deliveries == Jobs \X (0..MaxStalls)

ASSUME CandidatesAssumption == StudentOf \in [Sessions -> Students] /\ PaperOf \in [Sessions -> Papers]
ASSUME SessionsAssumption == IsFiniteSet(Sessions) /\ Late \subseteq Sessions
ASSUME NumbersAssumption == Score \in [Sessions -> Int] /\ Times \subseteq Nat
ASSUME LimitsAssumption == MaxStalls \in Nat /\ MaxFaults \in Nat
ASSUME NullAssumption ==
  /\ None \notin Deliveries \cup Times \cup Sessions \cup Papers
  /\ None \notin [rank : Nat, by : Publications]

VARIABLES
  paper,        \* Paper.status
  status,       \* StudentExamSession.status
  submittedAt,  \* StudentExamSession.submittedAt
  late,         \* those of Late whose request has not marked the session yet
  registry,     \* ResultRegistry.anchors: the session in each candidate's slot
  mined,        \* the ResultRegistry transactions: session and delivery
  mirror,       \* the ResultRegistry rows of ChainAnchor: session and delivery
  result,       \* EvaluationResult: the delivery that created a session's row
  ranking,      \* RankingEntry: rank and publication (which fixes hash and percentile)
  audit,        \* the EVALUATION and RANKING_PUBLICATION audit rows
  job,          \* the state of each job in the queue
  asked,        \* the paper it is for
  stalls,       \* its deliveries lost to a crash
  stage,        \* where its run is
  todo,         \* the sessions its run listed and has not come to
  current,      \* the session its run is on
  pub,          \* where each publish request is
  listed,       \* the sessions whose results it read
  faults        \* bound: calls thrown and crashes so far

vars == <<paper, status, submittedAt, late, registry, mined, mirror, result, ranking, audit,
          job, asked, stalls, stage, todo, current, pub, listed, faults>>

exam     == <<paper, status, submittedAt, late>>
ledger   == <<registry, mined, mirror>>
queue    == <<job, asked, stalls>>
run      == <<stage, todo, current>>
requests == <<pub, listed>>

Statuses  == {"IN_PROGRESS", "SUBMITTED", "EVALUATED"}
Stages    == {"check", "list", "next", "anchor", "record", "create", "mark", "audit"}
AuditRows == ({"EVALUATION"} \X Sessions) \cup ({"RANKING_PUBLICATION"} \X Publications)

Delivery(j) == <<j, stalls[j]>>
Scored == {s \in Sessions : result[s] # None}
Ranked == {s \in Sessions : ranking[s] # None}
Live(j) == job[j] \in {"waiting", "active"}

\* The papers are READY and their sessions started.
Init ==
  /\ paper = [p \in Papers |-> "READY"]
  /\ status = [s \in Sessions |-> "IN_PROGRESS"]
  /\ submittedAt = [s \in Sessions |-> None]
  /\ late = Late
  /\ registry = [c \in Students |-> None] /\ mined = {} /\ mirror = {}
  /\ result = [s \in Sessions |-> None] /\ ranking = [s \in Sessions |-> None] /\ audit = {}
  /\ job = [j \in Jobs |-> "none"] /\ asked = [j \in Jobs |-> None]
  /\ stalls = [j \in Jobs |-> 0]
  /\ stage = [j \in Jobs |-> "check"]
  /\ todo = [j \in Jobs |-> {}] /\ current = [j \in Jobs |-> None]
  /\ pub = [r \in Publications |-> "read"] /\ listed = [r \in Publications |-> {}]
  /\ faults = 0

-----------------------------------------------------------------------------
(* What PaperGeneration and ExamSession do meanwhile to the rows read here. *)

\* markFailed, in a later delivery of the generation job.
PaperFails(p) ==
  /\ paper[p] = "READY"
  /\ paper' = [paper EXCEPT ![p] = "FAILED"]
  /\ UNCHANGED <<status, submittedAt, late, ledger, result, ranking, audit, queue, run,
                 requests, faults>>

\* submitExam's mark.  The clock does not go back; two candidates may share an instant.
Submit(s, t) ==
  /\ status[s] = "IN_PROGRESS" /\ submittedAt[s] = None
  /\ \A x \in Sessions : submittedAt[x] # None => submittedAt[x] <= t
  /\ status' = [status EXCEPT ![s] = "SUBMITTED"]
  /\ submittedAt' = [submittedAt EXCEPT ![s] = t]
  /\ UNCHANGED <<paper, late, ledger, result, ranking, audit, queue, run, requests, faults>>

\* The mark of a start request that passed its check before the first one's mark.
LateStart(s) ==
  /\ s \in late
  /\ late' = late \ {s}
  /\ status' = [status EXCEPT ![s] = "IN_PROGRESS"]
  /\ UNCHANGED <<paper, submittedAt, ledger, result, ranking, audit, queue, run, requests,
                 faults>>

-----------------------------------------------------------------------------
(* evaluation.service.ts runEvaluationPipeline                             *)

\* POST /admin/evaluation/run: no check, any number of jobs.
RunRequest(j, p) ==
  /\ job[j] = "none"
  /\ job' = [job EXCEPT ![j] = "waiting"]
  /\ asked' = [asked EXCEPT ![j] = p]
  /\ UNCHANGED <<exam, ledger, result, ranking, audit, stalls, run, requests, faults>>

JobBegins(j) ==
  /\ job[j] = "waiting"
  /\ job' = [job EXCEPT ![j] = "active"]
  /\ stage' = [stage EXCEPT ![j] = "check"]
  /\ UNCHANGED <<exam, ledger, result, ranking, audit, asked, stalls, todo, current, requests,
                 faults>>

At(j, from) == job[j] = "active" /\ stage[j] = from
Advance(j, from, to) == At(j, from) /\ stage' = [stage EXCEPT ![j] = to]

CheckPaper(j) ==
  /\ Advance(j, "check", "list")
  /\ paper[asked[j]] = "READY"
  /\ UNCHANGED <<exam, ledger, result, ranking, audit, queue, todo, current, requests, faults>>

\* The paper is not READY: the run throws, and the job has one attempt.
JobRefused(j) ==
  /\ At(j, "check") /\ paper[asked[j]] # "READY"
  /\ job' = [job EXCEPT ![j] = "failed"]
  /\ UNCHANGED <<exam, ledger, result, ranking, audit, asked, stalls, run, requests, faults>>

Submitted(p) == {s \in Sessions : PaperOf[s] = p /\ status[s] = "SUBMITTED"}

\* listSubmittedForPaper, read once; then the master paper is unsealed and
\* opened.  Neither the paper nor a session's status is looked at again.
ListSessions(j) ==
  /\ Advance(j, "list", "next")
  /\ todo' = [todo EXCEPT ![j] = Submitted(asked[j])]
  /\ UNCHANGED <<exam, ledger, result, ranking, audit, queue, current, requests, faults>>

\* The next session of the list, in whatever order Postgres returned it: its
\* answers are downloaded, decrypted, scored, and the result hashed.
ScoreSession(j, s) ==
  /\ s \in todo[j]
  /\ Advance(j, "next", "anchor")
  /\ current' = [current EXCEPT ![j] = s]
  /\ todo' = [todo EXCEPT ![j] = @ \ {s}]
  /\ UNCHANGED <<exam, ledger, result, ranking, audit, queue, requests, faults>>

\* Fault: a contract that refuses a second result for a candidate, as its siblings do.
AnchorResultOnce(j) ==
  /\ Advance(j, "anchor", "record")
  /\ registry[StudentOf[current[j]]] = None
  /\ registry' = [registry EXCEPT ![StudentOf[current[j]]] = current[j]]
  /\ mined' = mined \cup {<<current[j], Delivery(j)>>}
  /\ UNCHANGED <<exam, mirror, result, ranking, audit, queue, todo, current, requests, faults>>

\* ResultRegistry.anchorResult has no require: a second anchor replaces the first.
AnchorResult(j) ==
  /\ Advance(j, "anchor", "record")
  /\ registry' = [registry EXCEPT ![StudentOf[current[j]]] = current[j]]
  /\ mined' = mined \cup {<<current[j], Delivery(j)>>}
  /\ UNCHANGED <<exam, mirror, result, ranking, audit, queue, todo, current, requests, faults>>

\* Fault: the mirror row is left for later.
RecordAnchorLater(j) ==
  /\ Advance(j, "record", "create")
  /\ UNCHANGED <<exam, ledger, result, ranking, audit, queue, todo, current, requests, faults>>

RecordAnchor(j) ==
  /\ Advance(j, "record", "create")
  /\ mirror' = mirror \cup {<<current[j], Delivery(j)>>}
  /\ UNCHANGED <<exam, registry, mined, result, ranking, audit, queue, todo, current, requests,
                 faults>>

CreateResult(j) ==
  /\ Advance(j, "create", "mark")
  /\ result[current[j]] = None
  /\ result' = [result EXCEPT ![current[j]] = Delivery(j)]
  /\ UNCHANGED <<exam, ledger, ranking, audit, queue, todo, current, requests, faults>>

\* sessionId @unique: the run throws, and the sessions left in its list wait.
ResultConflicts(j) ==
  /\ At(j, "create") /\ result[current[j]] # None
  /\ job' = [job EXCEPT ![j] = "failed"]
  /\ UNCHANGED <<exam, ledger, result, ranking, audit, asked, stalls, run, requests, faults>>

\* An update by id, whatever the status has become.
MarkEvaluated(j) ==
  /\ Advance(j, "mark", "audit")
  /\ status' = [status EXCEPT ![current[j]] = "EVALUATED"]
  /\ UNCHANGED <<paper, submittedAt, late, ledger, result, ranking, audit, queue, todo, current,
                 requests, faults>>

AuditEvaluation(j) ==
  /\ Advance(j, "audit", "next")
  /\ audit' = audit \cup {<<"EVALUATION", current[j]>>}
  /\ UNCHANGED <<exam, ledger, result, ranking, queue, todo, current, requests, faults>>

\* The list is done, or was empty: then nothing was unsealed.
JobCompletes(j) ==
  /\ At(j, "next") /\ todo[j] = {}
  /\ job' = [job EXCEPT ![j] = "completed"]
  /\ UNCHANGED <<exam, ledger, result, ranking, audit, asked, stalls, run, requests, faults>>

-----------------------------------------------------------------------------
(* ranking.service.ts publishRanking                                       *)

\* listForPaper; without results the request is refused (409) and nothing changes.
ReadResults(r, p) ==
  /\ pub[r] = "read"
  /\ \E s \in Scored : PaperOf[s] = p
  /\ pub' = [pub EXCEPT ![r] = "insert"]
  /\ listed' = [listed EXCEPT ![r] = {s \in Scored : PaperOf[s] = p}]
  /\ UNCHANGED <<exam, ledger, result, ranking, audit, queue, run, faults>>

\* rawScore desc, then submittedAt asc.
Ahead(s, t) ==
  \/ Score[s] > Score[t]
  \/ Score[s] = Score[t] /\ submittedAt[s] < submittedAt[t]

\* The sorted orders of S: a full tie is left as Postgres returned it.
Rankings(S) ==
  {rank \in [S -> 1..Cardinality(S)] :
     \A s, t \in S : s # t => rank[s] # rank[t] /\ (Ahead(s, t) => rank[s] < rank[t])}

\* Fault: skipDuplicates, so that only the sessions not ranked yet get a row.
InsertRankingSkipping(r) ==
  /\ pub[r] = "insert"
  /\ pub' = [pub EXCEPT ![r] = "audit"]
  /\ \E rank \in Rankings(listed[r]) :
       ranking' = [s \in Sessions |-> IF s \in listed[r] \ Ranked
                                      THEN [rank |-> rank[s], by |-> r] ELSE ranking[s]]
  /\ UNCHANGED <<exam, ledger, result, audit, queue, run, listed, faults>>

\* createMany: one INSERT of all the rows.
InsertRanking(r) ==
  /\ pub[r] = "insert" /\ listed[r] \cap Ranked = {}
  /\ pub' = [pub EXCEPT ![r] = "audit"]
  /\ \E rank \in Rankings(listed[r]) :
       ranking' = [s \in Sessions |-> IF s \in listed[r]
                                      THEN [rank |-> rank[s], by |-> r] ELSE ranking[s]]
  /\ UNCHANGED <<exam, ledger, result, audit, queue, run, listed, faults>>

\* Fault: a conflict is taken for a publication that was already made.
RankingConflictsPassedOver(r) ==
  /\ pub[r] = "insert" /\ listed[r] \cap Ranked # {}
  /\ pub' = [pub EXCEPT ![r] = "audit"]
  /\ UNCHANGED <<exam, ledger, result, ranking, audit, queue, run, listed, faults>>

\* resultId @unique: no row of the INSERT stays.
RankingConflicts(r) ==
  /\ pub[r] = "insert" /\ listed[r] \cap Ranked # {}
  /\ pub' = [pub EXCEPT ![r] = "conflict"]
  /\ UNCHANGED <<exam, ledger, result, ranking, audit, queue, run, listed, faults>>

AuditRanking(r) ==
  /\ pub[r] = "audit"
  /\ pub' = [pub EXCEPT ![r] = "done"]
  /\ audit' = audit \cup {<<"RANKING_PUBLICATION", r>>}
  /\ UNCHANGED <<exam, ledger, result, ranking, queue, run, listed, faults>>

-----------------------------------------------------------------------------
(* Failures                                                                *)

\* Any awaited call of a run throws; a transaction may have been mined before
\* its wait() does.  The job has one attempt.
CallThrows(j) ==
  /\ faults < MaxFaults
  /\ job[j] = "active" /\ stage[j] \in FaultStages
  /\ job' = [job EXCEPT ![j] = "failed"]
  /\ faults' = faults + 1
  /\ UNCHANGED <<exam, ledger, result, ranking, audit, asked, stalls, run, requests>>

PublicationThrows(r) ==
  /\ faults < MaxFaults
  /\ pub[r] \in {"insert", "audit"} \cap FaultStages
  /\ pub' = [pub EXCEPT ![r] = "failed"]
  /\ faults' = faults + 1
  /\ UNCHANGED <<exam, ledger, result, ranking, audit, queue, run, listed>>

\* The process dies and restarts: requests under way are lost, active jobs are
\* found stalled and delivered again, MaxStalls times at most.
Crash ==
  /\ MayCrash /\ faults < MaxFaults
  /\ \/ \E j \in Jobs : job[j] = "active"
     \/ \E r \in Publications : pub[r] \in {"insert", "audit"}
  /\ job' = [j \in Jobs |-> IF job[j] # "active" THEN job[j]
                            ELSE IF stalls[j] < MaxStalls THEN "waiting" ELSE "failed"]
  /\ stalls' = [j \in Jobs |-> IF job[j] = "active" /\ stalls[j] < MaxStalls
                               THEN stalls[j] + 1 ELSE stalls[j]]
  /\ pub' = [r \in Publications |-> IF pub[r] \in {"insert", "audit"} THEN "failed" ELSE pub[r]]
  /\ faults' = faults + 1
  /\ UNCHANGED <<exam, ledger, result, ranking, audit, asked, run, listed>>

-----------------------------------------------------------------------------
Exam ==
  \/ \E p \in Papers : PaperFails(p)
  \/ \E s \in Sessions : LateStart(s) \/ \E t \in Times : Submit(s, t)

Evaluate(j) ==
  \/ JobBegins(j) \/ CheckPaper(j) \/ JobRefused(j) \/ ListSessions(j)
  \/ \E s \in Sessions : ScoreSession(j, s)
  \/ AnchorResult(j) \/ RecordAnchor(j) \/ CreateResult(j)
  \/ ResultConflicts(j) \/ MarkEvaluated(j) \/ AuditEvaluation(j) \/ JobCompletes(j)

Publish(r) ==
  \/ \E p \in Papers : ReadResults(r, p)
  \/ InsertRanking(r) \/ RankingConflicts(r) \/ AuditRanking(r)

RunRequests == \E j \in Jobs, p \in Papers : RunRequest(j, p)

Next ==
  \/ Exam \/ RunRequests
  \/ \E j \in Jobs : Evaluate(j) \/ CallThrows(j)
  \/ \E r \in Publications : Publish(r) \/ PublicationThrows(r)
  \/ Crash

Spec == Init /\ [][Next]_vars

\* A worker comes back to its job, and the administrator asks again while runs fail.
FairSpec == Spec /\ WF_vars(RunRequests) /\ \A j \in Jobs : WF_vars(Evaluate(j))

-----------------------------------------------------------------------------
(* Correctness                                                             *)

InHand == {"anchor", "record", "create", "mark", "audit"}
OnSession(j) == job[j] = "active" /\ stage[j] \in InHand

\* Every variable holds a value of its kind; a run that has a session in hand
\* has one, and a job is for a paper.
TypeOK ==
  /\ paper \in [Papers -> {"READY", "FAILED"}]
  /\ status \in [Sessions -> Statuses]
  /\ submittedAt \in [Sessions -> Times \cup {None}] /\ late \subseteq Sessions
  /\ registry \in [Students -> Sessions \cup {None}]
  /\ mined \subseteq Sessions \X Deliveries /\ mirror \subseteq Sessions \X Deliveries
  /\ result \in [Sessions -> Deliveries \cup {None}]
  /\ ranking \in [Sessions -> [rank : Nat, by : Publications] \cup {None}]
  /\ audit \subseteq AuditRows
  /\ job \in [Jobs -> {"none", "waiting", "active", "completed", "failed"}]
  /\ asked \in [Jobs -> Papers \cup {None}] /\ stalls \in [Jobs -> 0..MaxStalls]
  /\ stage \in [Jobs -> Stages] /\ todo \in [Jobs -> SUBSET Sessions]
  /\ current \in [Jobs -> Sessions \cup {None}]
  /\ \A j \in Jobs : job[j] # "none" => asked[j] \in Papers
  /\ \A j \in Jobs : OnSession(j) => current[j] \in Sessions
  /\ pub \in [Publications -> {"read", "insert", "audit", "done", "conflict", "failed"}]
  /\ listed \in [Publications -> SUBSET Sessions]
  /\ faults \in Nat

\* An EVALUATED session has its result, and a result is a submitted session's,
\* with its own transaction mined and mirrored: all that /verify compares a
\* result with exists, however many runs raced, failed or were cut short.
EvaluationIsProven ==
  \A s \in Sessions :
    /\ status[s] = "EVALUATED" => result[s] # None
    /\ result[s] # None => /\ submittedAt[s] # None
                           /\ <<s, result[s]>> \in mined \cap mirror
                           /\ registry[StudentOf[s]] # None

\* Neither a rival run nor a later publication replaces a result or a rank.
WrittenOnce ==
  [][\A s \in Sessions :
       /\ result[s] # None => result'[s] = result[s]
       /\ ranking[s] # None => ranking'[s] = ranking[s]]_vars

\* The ranks of a paper come from one list: no two candidates share one, and a
\* better score, or the same score submitted earlier, is ahead, although
\* publish requests read the results at different times.
RankingAgrees ==
  \A s, t \in Ranked :
    PaperOf[s] = PaperOf[t] /\ s # t =>
      /\ ranking[s].by = ranking[t].by
      /\ ranking[s].rank # ranking[t].rank
      /\ Ahead(s, t) => ranking[s].rank < ranking[t].rank

\* An audit row tells of something that happened, and that stays so.
AuditIsTrue ==
  /\ \A s \in Sessions : <<"EVALUATION", s>> \in audit => result[s] # None
  /\ \A r \in Publications :
       <<"RANKING_PUBLICATION", r>> \in audit =>
         \A s \in listed[r] : ranking[s] # None /\ ranking[s].by = r

\* "re-running would re-score/re-anchor already-evaluated sessions" is left to
\* "an explicit admin action" (queues.ts): a session that a new run would list has
\* no result to conflict with.  False once a run stopped between the result and
\* the mark; every later run then stops there too, whatever else it had to evaluate.
RerunIsClean ==
  (\A j \in Jobs : ~Live(j)) =>
    \A s \in Sessions : status[s] = "SUBMITTED" => result[s] = None

Rivals == \E j, k \in Jobs : j # k /\ Live(j) /\ Live(k)

\* With one run more than there are failures, and no two runs at once, every
\* session submitted before the first run is evaluated, unless its paper is marked
\* FAILED or a run stopped where RerunIsClean says.
SubmittedIsEvaluated ==
  \A s \in Sessions :
    status[s] = "SUBMITTED" /\ s \notin Late /\ (\A j \in Jobs : job[j] = "none") ~>
      \/ status[s] = "EVALUATED"
      \/ paper[PaperOf[s]] = "FAILED" \/ ~RerunIsClean \/ Rivals

-----------------------------------------------------------------------------
(* The inductive invariant behind the safety properties.                   *)

\* Sessions were submitted once; what is listed or in hand was submitted.
SubmittedOnce ==
  /\ \A s \in Sessions : status[s] \in {"SUBMITTED", "EVALUATED"} => submittedAt[s] # None
  /\ \A j \in Jobs : job[j] = "active" /\ stage[j] \notin {"check", "list"} =>
       \A s \in todo[j] : submittedAt[s] # None
  /\ \A j \in Jobs : OnSession(j) => submittedAt[current[j]] # None

\* What each run has left behind it for the session in hand.
Progress ==
  \A j \in Jobs : job[j] = "active" =>
    /\ stage[j] \in {"record", "create", "mark", "audit"} =>
         /\ <<current[j], Delivery(j)>> \in mined
         /\ registry[StudentOf[current[j]]] # None
    /\ stage[j] \in {"create", "mark", "audit"} => <<current[j], Delivery(j)>> \in mirror
    /\ stage[j] \in {"mark", "audit"} => result[current[j]] # None

\* A publish request holds the results of one paper; of two lists of a paper,
\* one contains the other, because results are never taken away.
ListsGrow ==
  /\ \A r \in Publications :
       /\ pub[r] \in {"insert", "audit"} => listed[r] # {}
       /\ \A s \in listed[r] : result[s] # None
       /\ \A s, t \in listed[r] : PaperOf[s] = PaperOf[t]
  /\ \A q, r \in Publications : \A s \in listed[q], t \in listed[r] :
       PaperOf[s] = PaperOf[t] => listed[q] \subseteq listed[r] \/ listed[r] \subseteq listed[q]

\* A list is ranked whole, in order, or not at all.
RankedWhole ==
  /\ \A r \in Publications : pub[r] \in {"audit", "done"} =>
       \A s \in listed[r] : ranking[s] # None /\ ranking[s].by = r
  /\ \A r \in Publications : pub[r] = "read" => listed[r] = {}
  /\ \A r \in Publications : <<"RANKING_PUBLICATION", r>> \in audit => pub[r] = "done"
  /\ \A s \in Ranked :
       /\ s \in listed[ranking[s].by]
       /\ \A t \in listed[ranking[s].by] :
            /\ t \in Ranked /\ ranking[t].by = ranking[s].by
            /\ s # t => ranking[s].rank # ranking[t].rank
            /\ s # t /\ Ahead(s, t) => ranking[s].rank < ranking[t].rank

\* The strengthening that every step preserves.
IInv ==
  /\ SubmittedOnce /\ Progress /\ ListsGrow /\ RankedWhole
  /\ EvaluationIsProven
  /\ \A s \in Sessions : <<"EVALUATION", s>> \in audit => result[s] # None

-----------------------------------------------------------------------------
(* What docs and comments say and the code does not keep.                  *)

\* "All contracts are append-only registries" (SMART_CONTRACTS.md): a candidate's
\* result stays in its slot.  False: the slot is the candidate's, not the
\* session's, and the second paper evaluated replaces the first.
ResultsAreAppendOnly ==
  [][\A c \in Students : registry[c] # None => registry'[c] = registry[c]]_vars

\* "re-running would re-score/re-anchor already-evaluated sessions: an explicit
\* admin action, not automatic" (queues.ts): one requested run anchors a session
\* at most once.  False of a job delivered again after a crash.
RerunsAreAsked ==
  \A s \in Sessions, j \in Jobs, m, n \in 0..MaxStalls :
    {<<s, <<j, m>>>>, <<s, <<j, n>>>>} \subseteq mined => m = n

\* "all scored candidates sorted, ranked" (USER_MANUAL.md): a publish request
\* conflicts only when there is nobody left to rank.  False: a candidate scored
\* after the first publication can never be ranked.
ConflictMeansRanked ==
  \A r \in Publications : pub[r] = "conflict" => listed[r] \subseteq Ranked

=============================================================================
