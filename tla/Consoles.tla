------------------------------- MODULE Consoles -------------------------------
(***************************************************************************)
(* The web application as App.tsx routes it: one page is open, with the    *)
(* part of the server it talks to.  In the browser the pages share nothing *)
(* but the session, which is Access's, so a behaviour follows one of them  *)
(* from the moment it is opened, and everything of the others stands       *)
(* still.  (The candidate's page, the largest, is a module by itself:        *)
(* CandidatePortal.)                                                       *)
(***************************************************************************)
EXTENDS Integers, FiniteSets

CONSTANTS
  Pages,                                 \* the pages followed
  MaxRows, MaxSockets, MaxShown,         \* LiveLog
  Kinds, Papers, MaxRecords, MaxPolls,   \* Oversight
  Ids, MaxLookups,                       \* ComputeDesk
  Machines, Exams, StartAt, CloseAt, LastHour,  \* CenterDesk
  Tabs, Roles, MaxLogins, Nobody,        \* Access
  MaxSubmits, MaxErrors,                 \* AuthorDesk
  Sessions, MaxChecks, MaxOutages,       \* Verification
  MaxClicks, MaxVisits, MaxFaults,       \* PaperDesk
  Bank, Chapter, SubjectOf, FirstReport, Rewrites, MaxTouched,  \* BlueprintDesk
  SubjectRows, ChapterRows, MaxSubjects, MaxChapters, MaxBlueprints, MaxPublishes, MaxLosses,
  MaxResults, MaxLoads,                  \* RankingDesk, of the Exams
  Records, KindOf, Take, MaxWrites,      \* StorageDesk
  None

VARIABLES
  page,  \* the page that is followed
  rows, unpublished, published, sockets, links, frames, wire, subscribers, since, watcher, entries,
  panel, truth, up, request, asked, reading, answer, tip, polls, badge,
  validating, reported, audited, queue, trail, questionId, reportId, lookups, report, failed, busy, overlapped,
  hour, ready, pcs, dashboard, loadError, machineCode, paperId, auth, authError, waiting, call, told, missed,
  store, expired, recorded, logins, tabs,
  questions, jobs, path, filled, stage, status, verdict, submits, list, selected, detail, loading, details, errors,
  submitted, kept, commitments, registry, mined, anchors, results, evaluated, marking, checks, outcome, verified, outages,
  papers, runs, linked, stored, anchored, visit, loops, shown, polling, error, faults,
  title, subjectRows, chapterRows, saving, refused, listed, creating, publishing, listing, lists, blueprints,
  accepted, reports, run, drawn, known, rewritten, retracted, losses,
  queued, scored, ranked, order, loads, ranking, notice, ordering, raced,
  uploaded, updatedAt, clock, opened, reads, objects, proofs, checked, query, manual

Log     == INSTANCE LiveLog
Watch   == INSTANCE Oversight
Compute == INSTANCE ComputeDesk
Center  == INSTANCE CenterDesk
Login   == INSTANCE Access
Author  == INSTANCE AuthorDesk
Verify  == INSTANCE Verification
Paper   == INSTANCE PaperDesk
Draft   == INSTANCE BlueprintDesk WITH
             MaxRows <- MaxChapters, busy <- saving, error <- refused, asked <- listing, answers <- lists
Rank    == INSTANCE RankingDesk WITH call <- order, rows <- ranking, status <- notice, busy <- ordering
Store   == INSTANCE StorageDesk WITH since <- opened, request <- query

logVars     == <<rows, unpublished, published, sockets, links, frames, wire, subscribers, since, watcher, entries>>
watchVars   == <<panel, truth, up, request, asked, reading, answer, tip, polls, badge>>
computeVars == <<validating, reported, audited, queue, trail, questionId, reportId, lookups, report, failed, busy, overlapped>>
centerVars  == <<hour, ready, pcs, dashboard, loadError, machineCode, paperId, auth, authError, waiting, call, told, missed>>
loginVars   == <<store, expired, recorded, logins, tabs>>
authorVars  == <<questions, jobs, path, filled, stage, status, verdict, submits, list, selected, detail, loading, details, errors>>
verifyVars  == <<submitted, kept, commitments, registry, mined, anchors, results, evaluated, marking, checks, outcome, verified, outages>>
paperVars   == <<papers, runs, linked, stored, anchored, visit, loops, shown, polling, error, faults>>
draftVars   == <<title, subjectRows, chapterRows, saving, refused, listed, creating, publishing, listing, lists,
                 blueprints, accepted, reports, run, drawn, known, rewritten, retracted, losses>>
rankVars    == <<queued, scored, ranked, order, loads, ranking, notice, ordering, raced>>
storeVars   == <<uploaded, updatedAt, clock, opened, reads, objects, proofs, checked, query, manual>>
vars == <<page, logVars, watchVars, computeVars, centerVars, loginVars, authorVars, verifyVars, paperVars,
          draftVars, rankVars, storeVars>>

ASSUME BoundsAssumption ==
  /\ {MaxRows, MaxSockets, MaxRecords, MaxPolls, MaxLookups, MaxLogins, MaxSubmits, MaxErrors,
      MaxChecks, MaxOutages, MaxClicks, MaxVisits, MaxFaults} \subseteq Nat
  /\ MaxShown \in Nat \ {0}
ASSUME ConstantsAssumption ==
  /\ Papers \in Kinds /\ Nobody \notin Roles \cup {"login", "site"}
  /\ None \notin Ids \cup Sessions \cup Machines \cup Exams
ASSUME WindowsAssumption ==
  /\ LastHour \in Nat /\ StartAt \in [Exams -> Nat] /\ CloseAt \in [Exams -> Nat]
ASSUME BankAssumption ==
  /\ Bank \subseteq Nat /\ IsFiniteSet(Bank) /\ DOMAIN Chapter = Bank
  /\ FirstReport \in [Bank -> Draft!Reports] /\ Rewrites \subseteq Draft!Reports /\ MaxTouched \in Nat
ASSUME FormAssumption ==
  /\ {MaxSubjects, MaxChapters, MaxBlueprints, MaxPublishes, MaxLosses} \subseteq Nat
  /\ \A r \in ChapterRows : r.count \in Int /\ r.easy \in Int /\ r.medium \in Int /\ r.level \in Draft!Levels
  /\ \A r \in SubjectRows : r.count \in Int /\ r.marks \in Int
ASSUME RankingAssumption ==
  MaxResults \in Nat /\ MaxLoads \in Nat
ASSUME StorageAssumption ==
  /\ IsFiniteSet(Records) /\ KindOf \in [Records -> Store!ObjectKinds] /\ None \notin Records
  /\ Take \in Nat /\ MaxWrites \in Nat
ASSUME PagesAssumption ==
  Pages \subseteq {"log", "watch", "compute", "center", "login", "author", "verify", "papers", "blueprint",
                    "ranking", "storage"}

\* What is not followed starts in one state, whichever.
Init ==
  /\ page \in Pages
  /\ Log!Init /\ Watch!Init /\ Compute!Init /\ Center!Init
  /\ Login!Init /\ Author!Init /\ Verify!Init /\ Paper!Init /\ Draft!Init
  /\ Rank!Init /\ Store!Init
  /\ page # "watch" => panel = Watch!Badge
  /\ page # "compute" => validating = {}
  /\ page # "ranking" => queued = {}
  /\ page # "center" => machineCode = CHOOSE m \in Machines : TRUE

Next ==
  /\ page' = page
  /\ IF page = "log"       THEN Log!Next     ELSE UNCHANGED logVars
  /\ IF page = "watch"     THEN Watch!Next   ELSE UNCHANGED watchVars
  /\ IF page = "compute"   THEN Compute!Next ELSE UNCHANGED computeVars
  /\ IF page = "center"    THEN Center!Next  ELSE UNCHANGED centerVars
  /\ IF page = "login"     THEN Login!Next   ELSE UNCHANGED loginVars
  /\ IF page = "author"    THEN Author!Next  ELSE UNCHANGED authorVars
  /\ IF page = "verify"    THEN Verify!Next  ELSE UNCHANGED verifyVars
  /\ IF page = "papers"    THEN Paper!Next   ELSE UNCHANGED paperVars
  /\ IF page = "blueprint" THEN Draft!Next   ELSE UNCHANGED draftVars
  /\ IF page = "ranking"   THEN Rank!Next    ELSE UNCHANGED rankVars
  /\ IF page = "storage"   THEN Store!Next   ELSE UNCHANGED storeVars

Spec == Init /\ [][Next]_vars

-----------------------------------------------------------------------------
(* Properties                                                              *)

\* Every page keeps its types.
TypeOK ==
  CASE page = "log"       -> Log!TypeOK
    [] page = "watch"     -> Watch!TypeOK
    [] page = "compute"   -> Compute!TypeOK
    [] page = "center"    -> Center!TypeOK
    [] page = "login"     -> Login!TypeOK
    [] page = "author"    -> Author!TypeOK
    [] page = "verify"    -> Verify!TypeOK
    [] page = "papers"    -> Paper!TypeOK
    [] page = "blueprint" -> Draft!TypeOK
    [] page = "ranking"   -> Rank!TypeOK
    [] page = "storage"   -> Store!TypeOK

\* What an open live log shows is an unbroken run of what was published; and
\* what the storage explorer lists leaves out nothing newer.
FeedIsUnbroken ==
  /\ page = "log" => Log!FeedIsUnbroken
  /\ page = "storage" => Store!ListIsNewest

\* The hub keeps no socket that the server has seen close.
HubForgetsTheGone == page = "log" => Log!HubForgetsTheGone

\* A shortfall of anchors that is shown arose while the page was loading.
ShortfallIsNews == page = "watch" => Watch!ShortfallIsNews

\* Lookups of reports, and loads of rankings, made one after the other end with
\* the last one's answer; the proofs of storage roots, asked for in any order,
\* each with its own.
LastLookupIsShown ==
  /\ page = "compute" => Compute!LastLookupIsShown
  /\ page = "ranking" => Rank!LastLoadIsShown
  /\ page = "storage" => Store!EachProofIsShown

\* A machine whose heartbeat was answered is in the list the center sees.
HeartbeatIsSeen == page = "center" => Center!HeartbeatIsSeen

\* The token a browser keeps is of a recorded login, and the role beside it of
\* some recorded login.
SessionIsRecorded == page = "login" => Login!SessionIsRecorded

\* The outcome an author sees is final and rests on the report under it.
OutcomeIsExplained == page = "author" => Author!OutcomeIsExplained

\* "VERIFIED" is what a check says when nothing in it failed, and only of a
\* result that has all its proofs; a storage root that is "Verified" is stored.
VerdictIsRight ==
  /\ page = "verify" => Verify!VerifiedIsBacked /\ Verify!EvaluatedVerifies
  /\ page = "storage" => Store!ProvedIsStored

\* What the page says of a paper's progress is so: each step that is done has
\* its artefact, and "Generating" has a loop that polls; a ranking that is seen,
\* or said to be published, is final.
ProgressIsSo ==
  /\ page = "papers" => Paper!StepsAreBacked /\ Paper!PollingIsBacked
  /\ page = "ranking" => Rank!SeenIsFinal

\* A selection draws a question twice only when its report was written again
\* while the bands were being read.
SelectedOnce == page = "blueprint" => Draft!SelectedOnce

\* A paper's questions are what its blueprint allows, as many as it asks for or
\* as there were, but for those a rival touched during the run.
SelectionFits == page = "blueprint" => Draft!SelectionFits

\* What was written into the form is thrown away only when it is stored.
ClearedIsStored == Draft!ClearedIsStored
=============================================================================
