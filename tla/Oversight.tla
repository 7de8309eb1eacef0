------------------------------ MODULE Oversight ------------------------------
(***************************************************************************)
(* The pages that only read: the administrator's overview                  *)
(* (AdminOverview.tsx), the observer's page (ObserverHome.tsx) and the     *)
(* chain badge of the shell (network-badge.tsx), over observer.service.ts  *)
(* and admin.service.ts.                                                   *)
(*                                                                         *)
(* A page's panels share nothing, so a behaviour follows one of them:      *)
(* the request that fills it, which reads its figures one by one while     *)
(* the pipelines move them, and what the panel then says.  The live log,   *)
(* which is pushed, is LiveLog's.                                          *)
(***************************************************************************)
EXTENDS Integers, FiniteSets, FiniteSetsExt

CONSTANTS
  Kinds,      \* kinds of record that are anchored, as "questions"
  Papers,     \* the one whose rows exist before their anchors
  MaxRecords, \* bound: records and anchors of each kind, other rows, and blocks
  MaxPolls    \* bound: polls of the badge

Db    == <<"service", "db">>
Redis == <<"service", "redis">>
Chain == <<"service", "chain">>
Services == {Db, Redis, Chain}
Recorded(k) == <<"recorded", k>>
Anchored(k) == <<"anchored", k>>
Other == <<"other", "rows">>   \* accounts, centers, security events, audit rows
Figures == {Recorded(k) : k \in Kinds} \cup {Anchored(k) : k \in Kinds} \cup {Other}

VARIABLES
  panel,    \* the panel followed
  truth,    \* the figures, as a query would count them now
  up,       \* the services that can be reached
  request,  \* where its request is
  asked,    \* history: the figures when it was made
  reading,  \* what it has read so far
  answer,   \* what the page got, Nothing before
  tip, polls, badge

server == <<truth, up, tip>>
fetch  == <<request, asked, reading, answer>>
chrome == <<polls, badge>>
vars == <<panel, server, fetch, chrome>>

Nothing == <<>>
NoBlock == -1

-----------------------------------------------------------------------------
(* What each panel reads                                                   *)

\* getIntegritySummary: ten counts (those of READY papers and of all
\* sessions are hints only), each by a query of its own.
Summary == Figures \ {Other}

\* chainAnchorRepository.listPage: the anchors of every registry.
AnchorList == {Anchored(k) : k \in Kinds}

\* getOverview: six groupings and counts.
OverviewFigures == {Recorded(k) : k \in Kinds \ {Papers}} \cup {Other}

\* The observer's panels, each with the figures of its endpoint.
ObserverReads ==
  [coverage |-> Summary, anchors |-> AnchorList, security |-> {Other}, audit |-> {Other}]

\* The administrator's.
OverviewReads ==
  [tiles |-> OverviewFigures, bySubject |-> OverviewFigures, byDifficulty |-> OverviewFigures,
   activity |-> OverviewFigures, anchors |-> AnchorList, security |-> {Other}, centers |-> {Other},
   schedule |-> {Recorded(Papers)}]

ObserverPanels == {<<"observer", p>> : p \in DOMAIN ObserverReads}
OverviewPanels == {<<"overview", p>> : p \in DOMAIN OverviewReads}
HealthPanels   == {<<"observer", "health">>, <<"overview", "health">>}
Badge          == <<"shell", "badge">>

Reads ==
  CASE panel \in ObserverPanels -> ObserverReads[panel[2]]
    [] panel \in OverviewPanels -> OverviewReads[panel[2]]
    [] panel \in HealthPanels   -> Services
    [] OTHER                    -> {}

Init ==
  /\ panel \in ObserverPanels \cup OverviewPanels \cup HealthPanels \cup {Badge}
  /\ truth = [f \in Figures |-> 0] /\ up = Services /\ tip = 0
  /\ request = "none" /\ asked = truth /\ reading = Nothing /\ answer = Nothing
  /\ polls = [i \in 1..MaxPolls |-> [at |-> "none", block |-> NoBlock]]
  /\ badge = [block |-> NoBlock, failed |-> FALSE, heard |-> FALSE]

-----------------------------------------------------------------------------
(* The system that is read                                                 *)

\* Only what the panel can show moves: the rest makes no difference to it.
Grow(f) ==
  /\ f \in Reads /\ truth[f] < MaxRecords /\ truth' = [truth EXCEPT ![f] = @ + 1]

\* chainAnchorRepository.record: before the record's status is set, except
\* that a paper's row is there from the start; an attempt that failed after
\* it is anchored again.
Anchor(k) ==
  /\ k = Papers /\ Recorded(k) \in Reads => truth[Recorded(k)] > 0
  /\ Grow(Anchored(k))
  /\ UNCHANGED <<panel, up, fetch, tip, chrome>>

\* Fault: a record has its status before its anchor is recorded.
RecordEarly(k) ==
  /\ Grow(Recorded(k)) /\ UNCHANGED <<panel, up, fetch, tip, chrome>>

\* A question is accepted, a session submitted, a result stored; or a paper
\* is begun.
Record(k) ==
  /\ k # Papers /\ Anchored(k) \in Reads => truth[Recorded(k)] < truth[Anchored(k)]
  /\ Grow(Recorded(k))
  /\ UNCHANGED <<panel, up, fetch, tip, chrome>>

Write == Grow(Other) /\ UNCHANGED <<panel, up, fetch, tip, chrome>>

\* A service goes down, or comes back.
Turn(s) ==
  /\ panel \in HealthPanels \cup {Badge}
  /\ up' = IF s \in up THEN up \ {s} ELSE up \cup {s}
  /\ UNCHANGED <<panel, truth, fetch, tip, chrome>>

Block ==
  /\ panel = Badge /\ Chain \in up /\ tip < MaxRecords /\ tip' = tip + 1
  /\ UNCHANGED <<panel, truth, up, fetch, chrome>>

-----------------------------------------------------------------------------
(* A panel's request                                                       *)

\* useEffect: the page is opened.
Ask ==
  /\ panel # Badge /\ request = "none"
  /\ request' = "asked" /\ asked' = truth
  /\ UNCHANGED <<panel, server, reading, answer, chrome>>

\* One of the queries under Promise.all.
Count(f) ==
  /\ request = "asked" /\ f \in Reads \ DOMAIN reading /\ panel \notin HealthPanels
  /\ reading' = [g \in DOMAIN reading \cup {f} |-> IF g = f THEN truth[f] ELSE reading[g]]
  /\ UNCHANGED <<panel, server, request, asked, answer, chrome>>

\* getSystemHealth: one of its checks.  Those of Postgres and of the chain
\* turn a failure into an answer; the ping and the job counts go through a
\* connection that waits for Redis as long as it takes (queues.ts).
Check(s) ==
  /\ request = "asked" /\ panel \in HealthPanels /\ s \in Services \ DOMAIN reading
  /\ s = Redis => s \in up
  /\ reading' = [t \in DOMAIN reading \cup {s} |-> IF t = s THEN s \in up ELSE reading[t]]
  /\ UNCHANGED <<panel, server, request, asked, answer, chrome>>

\* .then(set...)
Answered ==
  /\ request = "asked" /\ DOMAIN reading = Reads
  /\ request' = "answered" /\ answer' = reading
  /\ UNCHANGED <<panel, server, asked, reading, chrome>>

\* The request is lost, or the query fails: the promise has no catch, and the
\* panel stays as it is.
Lost ==
  /\ request = "asked" /\ request' = "failed"
  /\ UNCHANGED <<panel, server, asked, reading, answer, chrome>>

-----------------------------------------------------------------------------
(* The badge                                                               *)

Poll(i, from, to) == polls[i].at \in from /\ polls' = [polls EXCEPT ![i].at = to]

\* load, now and every 30 seconds, whether or not the last one was answered.
Load(i) ==
  /\ panel = Badge /\ Poll(i, {"none"}, "asked") /\ \A j \in 1..MaxPolls : j < i => polls[j].at # "none"
  /\ UNCHANGED <<panel, server, fetch, badge>>

\* getSystemHealth's answer, as far as the badge reads it.
Serve(i) ==
  /\ polls[i].at = "asked" /\ Redis \in up
  /\ polls' = [polls EXCEPT ![i] = [at |-> "served", block |-> IF Chain \in up THEN tip ELSE NoBlock]]
  /\ UNCHANGED <<panel, server, fetch, badge>>

\* .then: setHealth, setFailed(false).
Heard(i) ==
  /\ Poll(i, {"served"}, "done")
  /\ badge' = [block |-> polls[i].block, failed |-> FALSE, heard |-> TRUE]
  /\ UNCHANGED <<panel, server, fetch>>

\* .catch: setFailed(true).
Unheard(i) ==
  /\ Poll(i, {"asked", "served"}, "done")
  /\ badge' = [badge EXCEPT !.failed = TRUE]
  /\ UNCHANGED <<panel, server, fetch>>

BadgeOk == ~badge.failed /\ badge.block # NoBlock
BadgeLabel ==
  IF BadgeOk           THEN "block"
  ELSE IF badge.failed THEN "unreachable"
                       ELSE "connecting"

Next ==
  \/ Write \/ Block \/ Ask \/ Answered \/ Lost
  \/ \E k \in Kinds : Anchor(k) \/ Record(k)
  \/ \E s \in Services : Turn(s) \/ Check(s)
  \/ \E f \in Figures : Count(f)
  \/ \E i \in 1..MaxPolls : Load(i) \/ Serve(i) \/ Heard(i) \/ Unheard(i)

Spec == Init /\ [][Next]_vars

-----------------------------------------------------------------------------
(* What the panel says                                                     *)

Charts == {<<"overview", "bySubject">>, <<"overview", "byDifficulty">>}

\* A table or a tile has a skeleton until it has data, the authors' activity
\* is left out; a chart has no bars.
Says ==
  IF answer = Nothing           THEN IF panel \in Charts THEN "empty" ELSE "skeleton"
  ELSE IF panel \in HealthPanels THEN "rows"
  ELSE IF \A f \in DOMAIN answer : answer[f] = 0 THEN "empty"
                                 ELSE "rows"

\* The observer's "Anchoring coverage": all kinds together.
Coverage ==
  [anchored |-> MapThenSumSet(LAMBDA k : answer[Anchored(k)], Kinds),
   total    |-> MapThenSumSet(LAMBDA k : answer[Recorded(k)], Kinds)]

\* The tile of it is green, at 100 %.
Full == Coverage.anchored >= Coverage.total

\* Meter: records that have no anchor, as the figures have it.
Shortfall(k) == answer[Recorded(k)] > answer[Anchored(k)]

-----------------------------------------------------------------------------
(* Properties                                                              *)

TypeOK ==
  /\ panel \in ObserverPanels \cup OverviewPanels \cup HealthPanels \cup {Badge}
  /\ truth \in [Figures -> 0..MaxRecords] /\ asked \in [Figures -> 0..MaxRecords]
  /\ up \subseteq Services /\ tip \in 0..MaxRecords
  /\ request \in {"none", "asked", "answered", "failed"}
  /\ DOMAIN reading \subseteq Reads /\ DOMAIN answer \in {{}, Reads}
  /\ polls \in [1..MaxPolls -> [at : {"none", "asked", "served", "done"}, block : -1..MaxRecords]]
  /\ badge \in [block : -1..MaxRecords, failed : BOOLEAN, heard : BOOLEAN]

\* A shortfall of anchors is never older than the page: what the observer
\* sees without an anchor, papers apart, was recorded while the page's counts
\* were being read.
ShortfallIsNews ==
  panel = <<"observer", "coverage">> /\ answer # Nothing =>
    \A k \in Kinds \ {Papers} : Shortfall(k) => asked[Recorded(k)] < answer[Recorded(k)]

\* (Not so.)  An overall coverage of all records leaves no kind short.
CoverageIsFull ==
  panel = <<"observer", "coverage">> /\ answer # Nothing /\ Full =>
    \A k \in Kinds : ~Shortfall(k)

\* (Not so.)  "A shortfall here is the single most useful signal": that
\* something was asserted and not anchored.
ShortfallIsReal ==
  panel = <<"observer", "coverage">> /\ answer # Nothing =>
    \A k \in Kinds \ {Papers} : ~Shortfall(k)

\* (Not so.)  An unreachable node shows as such, and no stale value.
UnreachableShows == badge.heard /\ badge.block = NoBlock => BadgeLabel = "unreachable"

\* (Not so.)  A skeleton is of a request under way.
SkeletonIsLoading == Says = "skeleton" => request # "failed"

\* (Not so.)  The badge's block number never goes back.
BadgeMovesOn ==
  [][badge'.block # NoBlock => badge'.block >= badge.block]_vars
=============================================================================
