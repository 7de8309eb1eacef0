----------------------------- MODULE RankingDesk -----------------------------
(***************************************************************************)
(* The administrator's evaluation and ranking page                         *)
(* (EvaluationRanking.tsx) over the routes that queue an evaluation,       *)
(* publish a ranking and read it, while evaluations go on and another      *)
(* administrator may publish.                                              *)
(*                                                                         *)
(* What Evaluation has in full is counted here: a paper's results, and the *)
(* rows of its ranking, 0 before it is published.  The text of the         *)
(* tie-break rule is stored and nothing reads it.                          *)
(***************************************************************************)
EXTENDS Integers, FiniteSets

CONSTANTS
  Exams,       \* the papers; what the Paper ID field may hold
  MaxResults,  \* bound: results of a paper
  MaxLoads,    \* bound: loads of a ranking
  None

Loads == 1..MaxLoads

VARIABLES
  queued, scored, ranked,  \* papers with an evaluation job; results; ranking rows
  call,                    \* the run or publish request under way
  loads,                   \* the loads made
  rows, status, busy,      \* what the page shows
  raced                    \* history: a load was made while one was under way

server == <<queued, scored, ranked>>
screen == <<rows, status, busy>>
vars == <<server, call, loads, screen, raced>>

Call(kind, paper, at, count) == [kind |-> kind, paper |-> paper, at |-> at, count |-> count]
NoCall == Call("none", None, "none", 0)
NoLoad == [at |-> "none", paper |-> None, count |-> 0]
Status(says, paper, count) == [says |-> says, paper |-> paper, count |-> count]
NoStatus == Status("nothing", None, 0)
Failed == Status("error", None, 0)

\* A row as the table has it; percentiles in whole percents.
Row(i, n) == [rank |-> i, percentile |-> ((n - i) * 100) \div n]
\* The rows of a ranking of n results, best first.
Ranking(n) == [i \in 1..n |-> Row(i, n)]

Init ==
  /\ queued \in SUBSET Exams /\ scored = [e \in Exams |-> 0] /\ ranked = [e \in Exams |-> 0]
  /\ call = NoCall /\ loads = [i \in Loads |-> NoLoad]
  /\ rows = None /\ status = NoStatus /\ busy = FALSE /\ raced = FALSE

-----------------------------------------------------------------------------
(* Elsewhere                                                               *)

\* A job of evaluationQueue creates a result.
Evaluate(e) ==
  /\ e \in queued /\ scored[e] < MaxResults /\ scored' = [scored EXCEPT ![e] = @ + 1]
  /\ UNCHANGED <<queued, ranked, call, loads, screen, raced>>

\* Another administrator publishes the results read before.
PublishElsewhere(e, n) ==
  /\ ranked[e] = 0 /\ n \in 1..scored[e] /\ ranked' = [ranked EXCEPT ![e] = n]
  /\ UNCHANGED <<queued, scored, call, loads, screen, raced>>

-----------------------------------------------------------------------------
(* The two requests                                                        *)

Made == {i \in Loads : loads[i].at # "none"}
UnderWay == {i \in Loads : loads[i].at \in {"asked", "served"}}

\* onRunEvaluation and onPublishRanking, up to the await.
Begin(kind, e) ==
  /\ ~busy /\ busy' = TRUE /\ status' = NoStatus
  /\ call' = Call(kind, e, "asked", 0)
  /\ UNCHANGED <<server, loads, rows, raced>>
RunEvaluation(e) == Begin("evaluate", e)
PublishRanking(e) == Made # Loads /\ Begin("publish", e)

\* evaluationQueue.add.
ServeRun ==
  /\ call.kind = "evaluate" /\ call.at = "asked"
  /\ queued' = queued \cup {call.paper} /\ call' = [call EXCEPT !.at = "answered"]
  /\ UNCHANGED <<scored, ranked, loads, screen, raced>>

\* publishRanking: listForPaper, or 409.
ReadResults ==
  /\ call.kind = "publish" /\ call.at = "asked"
  /\ call' = IF scored[call.paper] = 0 THEN [call EXCEPT !.at = "refused"]
             ELSE [call EXCEPT !.at = "read", !.count = scored[call.paper]]
  /\ UNCHANGED <<server, loads, screen, raced>>

\* publishRanking: createMany, all or none; a result is ranked once.
Insert ==
  /\ call.at = "read"
  /\ IF ranked[call.paper] = 0
     THEN ranked' = [ranked EXCEPT ![call.paper] = call.count] /\ call' = [call EXCEPT !.at = "inserted"]
     ELSE ranked' = ranked /\ call' = [call EXCEPT !.at = "refused"]
  /\ UNCHANGED <<queued, scored, loads, screen, raced>>

\* publishRanking: auditLogRepository.write, and the reply.
Audit ==
  /\ call.at = "inserted" /\ call' = [call EXCEPT !.at = "answered"]
  /\ UNCHANGED <<server, loads, screen, raced>>

\* A step of the request throws, or its answer is lost.
CallFails ==
  /\ call.at \in {"asked", "read", "inserted", "answered"} /\ call' = [call EXCEPT !.at = "refused"]
  /\ UNCHANGED <<server, loads, screen, raced>>

-----------------------------------------------------------------------------
(* The page                                                                *)

\* onLoadRanking, up to the await: it does not set busy.
Ask(e) ==
  /\ \E i \in Loads : Made = 1..(i - 1) /\ loads' = [loads EXCEPT ![i] = [at |-> "asked", paper |-> e, count |-> 0]]
  /\ raced' = (raced \/ UnderWay # {})

LoadRanking(e) ==
  /\ ~busy /\ Ask(e)
  /\ UNCHANGED <<server, call, screen>>

\* onRunEvaluation: report, finally.
Queued ==
  /\ call.kind = "evaluate" /\ call.at = "answered"
  /\ status' = Status("queued", call.paper, 0) /\ busy' = FALSE /\ call' = NoCall
  /\ UNCHANGED <<server, loads, rows, raced>>

\* onPublishRanking: report, and the ranking is loaded before finally.
Published ==
  /\ call.kind = "publish" /\ call.at = "answered"
  /\ status' = Status("published", call.paper, call.count)
  /\ Ask(call.paper) /\ call' = [call EXCEPT !.at = "loading"]
  /\ UNCHANGED <<server, rows, busy>>

\* catch, finally.
Refused ==
  /\ call.at = "refused" /\ status' = Failed /\ busy' = FALSE /\ call' = NoCall
  /\ UNCHANGED <<server, loads, rows, raced>>

\* getRanking.
Serve(i) ==
  /\ loads[i].at = "asked" /\ loads' = [loads EXCEPT ![i].at = "served", ![i].count = ranked[loads[i].paper]]
  /\ UNCHANGED <<server, call, screen, raced>>

\* A load is over; the publication that made it ends with it.
Over(i, at) ==
  /\ loads' = [loads EXCEPT ![i].at = at]
  /\ IF call.at = "loading" /\ Made = 1..i THEN busy' = FALSE /\ call' = NoCall ELSE UNCHANGED <<busy, call>>

\* onLoadRanking: setRows.
Loaded(i) ==
  /\ loads[i].at = "served" /\ Over(i, "done")
  /\ rows' = [paper |-> loads[i].paper, list |-> Ranking(loads[i].count)]
  /\ UNCHANGED <<server, status, raced>>

\* onLoadRanking: catch, which reports over what was reported.
LoadFails(i) ==
  /\ i \in UnderWay /\ Over(i, "failed") /\ status' = Failed
  /\ UNCHANGED <<server, rows, raced>>

Next ==
  \/ ServeRun \/ ReadResults \/ Insert \/ Audit \/ CallFails \/ Queued \/ Published \/ Refused
  \/ \E e \in Exams :
       \/ Evaluate(e) \/ RunEvaluation(e) \/ PublishRanking(e) \/ LoadRanking(e)
       \/ \E n \in 1..MaxResults : PublishElsewhere(e, n)
  \/ \E i \in Loads : Serve(i) \/ Loaded(i) \/ LoadFails(i)

Spec == Init /\ [][Next]_vars

\* What the card of the ranking shows.
Table ==
  IF rows = None          THEN "Enter a paper ID and load its ranking."
  ELSE IF rows.list = <<>> THEN "No ranking published for this paper yet"
                          ELSE "ranking"

-----------------------------------------------------------------------------
(* Properties                                                              *)

TypeOK ==
  /\ queued \subseteq Exams /\ scored \in [Exams -> 0..MaxResults] /\ ranked \in [Exams -> 0..MaxResults]
  /\ call \in [kind : {"none", "evaluate", "publish"}, paper : Exams \cup {None}, count : 0..MaxResults,
               at : {"none", "asked", "read", "inserted", "answered", "refused", "loading"}]
  /\ loads \in [Loads -> [at : {"none", "asked", "served", "done", "failed"}, paper : Exams \cup {None},
                          count : 0..MaxResults]]
  /\ rows = None \/ \E e \in Exams, n \in 0..MaxResults : rows = [paper |-> e, list |-> Ranking(n)]
  /\ status \in [says : {"nothing", "queued", "published", "error"}, paper : Exams \cup {None}, count : 0..MaxResults]
  /\ busy \in BOOLEAN /\ raced \in BOOLEAN

\* A ranking is final once anyone has seen it: the table of a paper, if it
\* has rows, has all the rows its ranking will ever have, and "Published the
\* final ranking for n candidates" has the n of that ranking, whoever else
\* publishes and whatever is evaluated meanwhile.
SeenIsFinal ==
  /\ Table = "ranking" => rows.list = Ranking(ranked[rows.paper])
  /\ status.says = "published" => status.count > 0 /\ status.count = ranked[status.paper]

\* The page waits only for a request that is under way, and rankings loaded
\* one after the other end with the one asked for last, also when the load is
\* the one a publication makes.
LastLoadIsShown ==
  /\ busy <=> call.at # "none"
  /\ call.at = "loading" => UnderWay # {}
  /\ ~raced /\ UnderWay = {} /\ Made # {} =>
       LET last == loads[Cardinality(Made)]
       IN  last.at = "done" => rows = [paper |-> last.paper, list |-> Ranking(last.count)]
=============================================================================
