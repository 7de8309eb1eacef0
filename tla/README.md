# Verification of teaOS / NVEI

teaOS runs public examinations whose every step leaves evidence: questions are
validated by a model in a TEE, encrypted, stored in 0G Storage and anchored on
0G Chain; papers are sealed behind a drand time lock; candidates' answers and
results are committed on chain. This directory holds TLA+ models of that
backend, of the pages in front of it and of its Miden sidecar, the TLC runs
that check them on small instances, and TLAPS proofs for every size of them.

The backend's promises are all of one shape: *several stores that share no
transaction (Postgres, Redis, 0G Storage, four contracts, a BullMQ queue) must
agree, whatever fails between two writes and whoever else is writing.* That is
what the models keep: every `await` of a handler is the end of an action, so
between any two of them another request runs, a call throws, or the process
dies.

The pages have a promise of their own: *what is on the screen is what the server
holds, or held when it was asked*, although answers come late, twice or never,
tabs share a browser, and sockets break.

## 1. Inventory

Paths are below `src/apps/api/src/` unless they begin with `src/`, `pages/` or
`lib/*.tsx` (then below `src/apps/web/src/`), `contracts/` or `miden/`.

| Part | State it keeps | Operations | Hard because |
| --- | --- | --- | --- |
| Exam session (`services/exam.service.ts`, `repositories/session.repository.ts`) | `StudentExamSession` row (status, root, hash, tx); Redis `exam:<id>:questions` and `exam:<id>:answers`; `SubmissionRegistry.anchors` | startExam, getActiveQuestions, autosaveAnswer, submitExam | guards are read long before the writes they guard; rival requests; a transaction mined although `wait()` threw |
| Question pipeline (`services/teacher.service.ts`, `questionPipeline.service.ts`, `workers/validation.worker.ts`) | `Question` row (status, draft, proof), `AIValidationReport`, blob, `QuestionRegistry.anchors`, `ChainAnchor`, audit rows, the job | createDraft, submitQuestion, runQuestionPipeline | three attempts and a redelivery of a function that is not idempotent; the model's answer differs from run to run |
| Paper generation (`services/blueprint.service.ts`, `paperGeneration.service.ts`) | `Paper` row, `PaperQuestion` rows, blob, `PaperRegistry.anchors`, the content key (memory only), the job | generatePaper, runPaperGenerationPipeline, getPaper | a key that exists in one stack frame; redelivery against rows of the run before |
| Evaluation and ranking (`services/evaluation.service.ts`, `ranking.service.ts`, `pages/admin/EvaluationRanking.tsx`) | `EvaluationResult`, `RankingEntry`, `ResultRegistry.anchors` (by candidate), `ChainAnchor` rows, the job; the table and the status line of the page | runEvaluationPipeline, publishRanking, getRanking | several runs at once over a list read at the start; unique keys as the only lock; loads that overlap |
| Answer sheet and scoring (`pages/student/StudentExamClient.tsx`, `lib/scoring.ts`, `lib/shuffle.ts`) | the client's answers, requests under way, the saved hash, the shuffled order | choose, clear, mark, save & next, reload, submit; scoreAnswers | one unanswered PUT per click; a position that means two things |
| Enrolment and candidate portal (`exam.service.ts` enrollSelf and getSession, `StudentExamClient.tsx`) | session rows, the profile's photo; the page's screens, camera and current question | enroll, loadSession, start, submit; startCamera, capture, retake | check, upload, update and create without a transaction; answers that come after a reload |
| Blueprint and selection (`pages/admin/BlueprintGenerator.tsx`, `blueprint.service.ts`, `questionSelection.service.ts`) | `Blueprint` rows; the form | create, publish, list; selectQuestionsForBlueprint, linkQuestions | rounding per band, overlapping chapters, a bank that grows between two reads |
| Paper desk (`pages/admin/PaperGeneration.tsx`) | the paper shown, the polling loops | onGenerate, polling | a loop that outlives the page and a second one beside it |
| Author's desk (`pages/teacher/SubmitQuestion.tsx`, `QuestionHistory.tsx`) | the form, the step panel, the selected report | onSubmit with its poll, selectQuestion | three calls in a row, each of which may be the one that fails |
| Exam center (`services/center.service.ts`, `pages/center/CenterHome.tsx`) | `ExamPC` rows; what the page was told | heartbeat, dashboard, checkAuthorization | a yes that was true at another hour |
| Public verification (`services/verify.service.ts`, `pages/Verify.tsx`) | `VERIFICATION_CHECK` rows | verifyStudentResult | compares seven things written at seven times |
| WebSocket hub and live log (`ws/hub.ts`, `src/apps/web/src/lib/live-logs.ts`) | a map of channels; the entries shown | subscribe, unsubscribe, close, publish | bookkeeping over a long life; sockets half closed |
| Dashboards (`pages/admin/AdminOverview.tsx`, `pages/observer/ObserverHome.tsx`, `network-badge.tsx`, `pages/admin/ComputeDashboard.tsx`, `pages/admin/StorageExplorer.tsx` with `services/storage.service.ts`) | the figures, the list and the proofs each page got | ten counts, health, polling the chain head, lookups, listObjects, getProof | figures and lists read by as many queries while the rows move |
| Accounts and access (`services/auth.service.ts`, `middleware/auth.middleware.ts`, `pages/Login.tsx`, `lib/auth-context.tsx`) | localStorage, each tab's role, login rows | login, logout, guards | two tabs over one token |
| Miden bridge (`contracts/miden/bridge/src/main.rs`, `miden.rs`, `lib/miden-bridge.ts`) | store, keystore, marker file, the accounts' notes | start-up, create, status | a process that may die between any two of six writes |
| Contracts (`contracts/evm/contracts/*.sol`) | one slot per key | anchor* | append-only, except results |
| Chain, storage, compute clients (`lib/zg-*.ts`) | one wallet's nonce | anchor, upload, validate | shared by all handlers |
| Audit batches, configuration, seed, deployment | – | never called, or run once | – |

How they interact: routes call services; services call repositories (Postgres),
`redisConnection`, the `zg-*` clients and the queues; the three workers run in
the same process as the routes (`index.ts`) and call the pipelines; pipelines
publish progress to the hub, which keeps nothing. A paper generated is what
sessions start on; sessions submitted are what evaluation lists; results are
what rankings list and what verification checks. The pages call the routes and
share nothing in the browser but the stored token. `PROJECT.json` names each
part's status, and under `hazards` every place where this goes wrong in a way a
test would hardly reach.

What makes each part correct, in a sentence:

- *session*: one commitment, recorded truly, that holds all answers confirmed before;
- *question*: an accepted question has its whole proof; its text is never lost and never proved twice;
- *paper*: a READY paper can be opened with the key that was sealed for it, and holds the questions its rows say;
- *evaluation*: a result is written once, with its own transaction mined and mirrored; ranks come from one list;
- *answer sheet*: nothing is committed that was not chosen; a score is what the key says;
- *portal*: no screen claims what the server did not do; a refused enrolment changes nothing; the camera goes off;
- *blueprint*: a question is drawn twice only when a rival rewrote its report between two readings, and every draw nobody touched fits the allocation it was drawn for;
- *desks*: each verdict, badge and list rests on what the server held when it was asked;
- *hub*: whoever subscribed gets every row from then on, and sockets that are gone are forgotten;
- *Miden*: a funded account is found again after any death; a key goes early only when blocks come faster than the bridge assumes.

## 2. Modules

| Module | Models | Built on |
| --- | --- | --- |
| `ExamSession` | one session: start, resume, autosave, submit, clock, beacon, cache, registry, failures, crash | – |
| `SubmissionLedger` | abstract: one commitment, never replaced, and a row that names it | implemented by `ExamSession` |
| `QuestionPipeline` | one question: submit requests, jobs with attempts and redelivery, all stages | – |
| `PaperGeneration` | one paper: request, job, wrapper, seal, question bank | – |
| `Evaluation` | sessions of several candidates and papers: runs, result registry, publish requests | what `ExamSession` and `PaperGeneration` do to shared rows: `Submit`, `LateStart`, `PaperFails` |
| `AnswerSheet` | one candidate's sheet, its requests, the saved answers, the score | – |
| `CandidatePortal` | one candidate: enrolment step by step, the page's screens, its camera, reload and leaving | – |
| `MidenBridge` | the sidecar: start-up with deaths, notes, the actor, the TypeScript client | – |
| `Blueprint` | operators: the blueprint schema and the greedy selection | – |
| `BlueprintDesk` | the form, create, publish, list; the selection read by read | `Blueprint` |
| `PaperDesk` | the paper generation page and its polling loops | – |
| `AuthorDesk` | the author's form, its poll, the history page | – |
| `CenterDesk` | a center's machines and the authorization check | – |
| `ComputeDesk` | lookups of validation reports | – |
| `Oversight` | overview, observer page, health, network badge | – |
| `LiveLog` | rows, hub, sockets and the live audit log | – |
| `Access` | login, stored token, tabs, route guards, expiry | – |
| `Verification` | the public check, step by step, beside submission and evaluation | – |
| `RankingDesk` | the evaluation and ranking page: run, publish, load, beside another administrator | – |
| `StorageDesk` | the storage explorer: the list read kind by kind, the proofs of its roots, the form | – |
| `Consoles` | the web application: one page open, with the service behind it | `INSTANCE` of the eleven desks above |
| `MC*` | values of the constants and symmetry for TLC | each its module |
| `*Proofs` | TLAPS proofs | each its module |

`Consoles` composes `LiveLog`, `Oversight`, `ComputeDesk`, `CenterDesk`,
`Access`, `AuthorDesk`, `Verification`, `PaperDesk`, `BlueprintDesk`,
`RankingDesk` and `StorageDesk`. Pages of the application
share no state of the browser but the session, and `Access` has that; so a
behaviour of `Consoles` chooses a page and follows it, everything else stands
still, and a property of a page is a property of the whole. The constant `Pages`
says which pages may be chosen: two runs divide them, `blueprint_and_login`
and `consoles` with the nine others, and the theorems take any.

Conventions common to all of them:

- A `stage` or `pc` value names the call a handler does *next*; an action is
  the code from one `await` to the next. `Goto` moves it.
- A **hash** is the value hashed, or the run that produced it: SHA-256 is taken
  as injective, and ciphertexts differ by their random IV. A **storage root** or
  **transaction** is named by the run or request that made it.
- A **throw** (`Abort`, `CallThrows`, `Throws`) may happen at any awaited call. A
  transaction mined whose `tx.wait()` throws is the anchor action followed by the
  throw. A Postgres write that throws is taken as not committed.
- A **crash** drops every handler in flight and everything in memory. A job that
  was active is delivered again by BullMQ's stalled check, `MaxStalls` times
  (BullMQ's `maxStalledCount`, 1 unless a worker sets it: none does).
- Refused requests (404, 409) change nothing: they are stuttering steps.
- History variables (`acked`, `promised`, `faults`, `crashes`, `chosen`,
  `muddled`, `disturbed`, `doubled`, `overlapped`, `raced`, `known`, `rewritten`, `retracted`, and what a
  key's note remembers) are read by no action's guard except as a named bound; `retracted` apart, since a
  question taken back is not accepted again (the registry refuses its second anchor) and may be judged anew.
- Operators commented `Fault:` are plausible bugs of the definition they stand
  next to. Nothing in the model uses them; each is what the property listed with
  it in `PROJECT.json` must catch when it takes that definition's place.

### ExamSession

`status`, `record` are the row; `cache`, `saved` are Redis; `blobs`, `anchor`,
`mirror` are storage, contract and `ChainAnchor`. `StartCheck … StartAudit`,
`SaveCheck, SaveWrite`, `SubmitCheck … SubmitDel` are the three handlers cut at
their awaits; the `require` of `SubmissionRegistry.sol` is the guard of
`SubmitAnchor`, its failure is `SubmitReverts`. `BeaconRound` is the round number
that `sealContentKey` computes, one past the round at `examStartAt`. Left out:
`startedAt` and `submittedAt`, the unreachable "READY but missing its timelock
ref" branch, EVALUATED (`Evaluation` has it). `enrollSelf` is the initial state (`CandidatePortal` has its steps).

### QuestionPipeline

A run is a job with its numbers of failed attempts and stalls. `Submits` are
requests that may all read DRAFT before the first one marks it: each then enqueues
a job. `Validate` asks the model again in every run and may answer either way.
`Runnable` is the status guard that lets a retry in. `SaveReport` replaces the report,
as the upsert does with the verdict and the model's findings; that its update branch
leaves the model's name, the provider's address, the trust mode and the
attestation's reference of the first run (`validationReport.repository.ts:35-46`) is left
out, and no property depends on those.

### PaperGeneration

`selected` is the run's choice: the `Wanted` oldest of the accepted questions, so
the composition can change between two deliveries when the bank does (`Accept`).
`blobs` remembers which questions each run's ciphertext contains, `ref` whose key
was sealed. `SealThrows` is the inner catch, `Throws` the wrapper of
`runPaperGenerationPipeline`, whose own two writes are attempted and their
failures dropped. One difficulty band is modelled; what several do is selection
(`BlueprintDesk`), not generation. `markReady` that throws is taken as not committed.

### Evaluation

`registry` is keyed by candidate (`StudentOf`) as in `ResultRegistry.sol`;
`mined` and `mirror` hold every transaction. `todo` is the list a run took at its
beginning, `current` the session in hand. A late start request that has passed
its check (`Late`) may reopen a submitted or evaluated session. Publications are
requests: read, insert (all rows or none: `createMany` is one statement, and
`resultId` is unique), audit. Scores are a constant: they are a function of what
was committed. The "no answerStorageRoot" skip cannot be reached (proved in
`ExamSession`: SUBMITTED has its record) and is left out, like the 404 and 500
branches. Unsealing, downloading and decrypting change nothing and are part of
the step they precede.

### AnswerSheet

`sheet` is the client's state, `wire` the PUT requests nobody awaits, numbered in
the order of sending; `saved` is the Redis hash and, once `submitted`, the
committed answers. An option is a position: on the screen in `sheet`, `wire` and
`saved`, in the master paper in `Key`; `order` relates the two. The session's
seed makes the shuffle a fixed unknown permutation per question. Scores are in
the unit of `Marks`; `Penalty` is `marks * negativeMarking`. The races inside
`autosaveAnswer` and `submitExam` are `ExamSession`'s; here each is one step. The
network may deliver in any order and lose any request; `muddled` remembers the
questions whose *last* request was lost, or delivered before an earlier one of
the same question, until they are saved again. Only for those does the code
promise nothing. `CorrectIsRewarded`, which the run `answer_shuffled` refutes, counts
the questions whose correct option was committed at the place it was shown in: with
`order = <<2, 1>>` and the key at 1, the candidate who chooses position 2 chose the
correct option, and `scoring.ts:43` finds a wrong one there. The other way round, a wrong
option that the shuffle put at the correct position is rewarded.

### CandidatePortal

`session`, `loaded`, `answers`, `current`, `photo`, `cameraActive`, `error`,
`receipt` are the React state; `awaits` is the request whose answer the page waits
for (`busy`), `calls` every request under way, also of a page that was reloaded.
`EnrolCheck`, `EnrolPhoto`, `EnrolCreate` are `enrollSelf` cut at its awaits; the
other routes are one step (`Serve`), since `ExamSession` has what happens inside.
`streams` are camera streams running, `ref` is `streamRef`, `prompts` permissions
not answered. `disturbed` and `doubled` are the histories that say when nothing
is promised: enrolments that overlapped or threw, prompts that overlapped or were
answered after the page was left.

What the code does there, and the properties therefore exempt: the loser of two
enrolments, or one that fails after its upload, has replaced the profile's photo;
an enrolment whose answer was lost, or whose `loadSession` failed, leaves the page
at the enrolment screen, where a second one opens a second session for another
paper; the error screen of a failed load offers no way on; after the submission a
reload invites to enrol again; and the camera stays on when it was enabled twice,
or when permission was given after the page was left (line 71 can only stop the
stream it knows).

### MidenBridge

`pc` is where the process is: the start-up (`Provision`, the marker, the top-up,
the wait for the mint, the consumption), then `"serving"`, where one command is
served at a time. `held` is store and keystore, `marker` the accounts file, which
a death can leave cut short (`Torn`). A pair's notes carry who made them and from
which block they may be consumed.

Blocks (`height`) and the wall clock (`now`) advance by themselves (`Block`, `Tick`),
in no fixed ratio: `PerBlock` is what the bridge *assumes* of a block
(`APPROX_SECONDS_PER_BLOCK`), not what the chain keeps to. `Sync` and `Create` are two
steps: `approximate_block_at` adds blocks counted from the clock it reads itself to a height
that was synced before, while time and chain went on. A key's note remembers both
readings (`height`, `clock`) as history. So no bound on how early a key may go can be
stated without the chain's pace, and `docs/MIDEN_INTEGRATION.md:11`, "cannot be obtained
before exam start", is not true of it (`NotReleasedEarly`, refuted below; `miden.rs:472-477`
says itself that the height is an approximation). What is true is
`EarlyOnlyWhenBlocksAreFast`: a key consumed a block's time or more before the time asked
for was so because the chain made more blocks since the synced height than the bridge
assumed for the time since its clock was read. An old sync is in that: its blocks count as fast ones.

The client's reading of an answer (`lib/miden-bridge.ts`) is part of
the answer: `noteStatusSchema` fits no answer of the sidecar, so every status
query throws, and no false success is possible there. A marker cut short stops
every later start until somebody deletes it (`miden.rs:370-374`); but the marker
is written before its pair is funded, so no funded wallet is orphaned by it, which
is `FundedPairIsKept`. A start takes any note its wallet may consume for the mint
it waits for, a sealed key's too (`miden.rs:439`). Not modelled: a keystore
that is lost while the store is not. No service imports the bridge at present.

### Blueprint and BlueprintDesk

`Blueprint` has the zod schema as predicates and the selection as operators:
bands with `Math.round`, the greedy draw by `createdAt`. `BlueprintDesk` has the
form (every edit is a step), the POST and its lost answer, `publishing` clicks,
lists that come back in any order, and `run`, a selection that reads one band per
step while the bank changes under it: `Accept` adds to it; `Revalidate` is the upsert
of a rival validation job (`questionPipeline.service.ts:68`, four run at once), which gives
an accepted question another report; `TakeBack` is the late `markSubmitted` of a second
submit (`teacher.service.ts:59`), or a rival's `markValidating`. `rewritten` and `retracted` are
the histories of what was touched since the run began. A question rewritten between two
readings may be drawn by both, and `linkQuestions` then fails the paper; one taken back after it was drawn is linked
all the same. `SelectedOnce` and `SelectionFits` therefore promise nothing of the
predicted difficulty of a question that was rewritten, nor that one that was taken back
is accepted, and are about all others; the chapter, and one question too many at most, hold for
every one. What the code does beyond the properties: the
page shows totals and compares them with nothing; percentages may be negative or fractional
as long as they sum to 100; an edit made while the POST is under way is cleared
with the rest; after a lost answer the form is kept and the second click stores a
second blueprint; two publish clicks race and the second is refused with a 409
nobody catches; lists that come out of order show a published blueprint as a
draft; a chapter whose subject has no allocation weighs one mark; a count of one
split 34/33/33 asks for no question at all.

### PaperDesk

A loop of `onGenerate` is a record: its point, the visit of the page it began in,
the answer it is about to read. Two clicks make two papers and two loops that
overwrite one `paper`; `ProgressIsSo` says that every step shown as done is
nevertheless backed, for the paper shown, by row, blob and anchor, and that
"Generating" is shown only while a loop of the page is polling. Jobs are delivered
again here too (`Redeliver`): a second run meets the rows or the anchor of the first
(`Conflicts`), or goes on when other questions are selected, and its failure marks the paper FAILED, a READY one too. The page,
whose loop ended at READY, goes on showing "Paper READY"; so what is promised of it is
that a paper shown ready has its row, blob, anchor and key, and not that its status
is still READY (`ReadyIsReady`, refuted below). How often a job may be redelivered is
bounded by `MaxFaults` only. A crash between the
row and the queue leaves a paper ASSEMBLING for ever, and so does a seal that
failed, under a notice that it "hasn't succeeded yet" though nothing tries again;
the deadline of 180 s ends a loop without a word.

### AuthorDesk

`submits` are the `onSubmit` calls, each with three requests in a row and a poll
whose answer is put together from two reads. `OutcomeIsExplained` relates the
panel to the question: a decision shown is the question's, the report under it is
the one it rests on, and a rejection shows a report that fails. "Submission
failed" may still be shown of a question that was submitted, and the next click
submits the same item as a second question; the draft step is ticked before there
is a row. The form can be edited while it is busy and
is emptied by `resetForm` with what was typed; the poll ends after 120 s with the
page still busy; an error of the report (`detailError`) stays over the next answer
until the next click; a duplication of 35 % and more is shown as danger
(`QuestionHistory.tsx:64`) although the threshold is another.

### CenterDesk, ComputeDesk, Oversight, LiveLog

`CenterDesk`: the authorization's answer keeps the hour it was true at. A machine is ONLINE
for good: nothing takes it back, and heartbeats come from the page's button only,
though line 154 says the status is "not a manually set flag". `loadError` is never
cleared. `ComputeDesk`: a lookup by question brings the whole report, one by
report lays the attestation over whatever is shown; `overlapped` is the history under which nothing is promised. A
failed list of models is shown as an empty one; that list is left out.
`Oversight`: a request reads its figures one by one (`reading`) while `truth`
moves; `asked` remembers the figures at the beginning. A panel whose fetch has no
`catch` keeps its skeleton for ever. With Redis down system health never answers
(`admin.service.ts:67`), so "Redis unreachable" is never seen.
"Accepted question-bank composition" counts all questions and the difficulty chart
all reports. Rounding shows 100 % at 199.5 of 200. `LiveLog`: `links` is the
server's end of a socket, `sockets` the page's; a row is created, and later
published when its writer resumes.

### Access

`store` is localStorage, shared; `tabs` each tab's path, role and what it waits
for. `Allowed` are the `requireRole` lists. A token of another role, or one that
expired, leaves the tab at its console saying "Signed in", with an error where its
data would be; and a login whose answer comes after its page was left signs the
browser in. `login()` and `logout()` write the token first and the role then, in two
steps (`KeepToken`, `SignedIn`; `SignOut`, `SignedOut`). Between them nothing else of
the same tab runs (`Writing`), but the other tab may write or read, and the browser may refuse
the second write (`LoginFails`); so a token may stand beside the role of another login,
or of none (`TokenAndRoleAreOne`, refuted below). What holds is `SessionIsRecorded`: the
stored token is of a login whose audit row was written before, and so is the role,
each for itself.

### Verification

A check reads the session, the row, the mirror, storage and the chain, one per
step. `VerdictIsRight` has two halves: "VERIFIED" is backed by blob, commitment, row,
mirror and mined transaction of the session it read; and a check in which every
call was answered never says less of an evaluated session, however it falls among
the steps of evaluations tried again. A late start that reopens an evaluated
session is `Evaluation`'s. The contract `ResultRegistry` itself is never read (the mirror row is). A failed
`verifyTransaction` is a 500, a failed download a partial answer.

### RankingDesk

`order` is the run or the publication under way (`busy` waits for it), `loads`
the loads of a ranking, of which any number may overlap: `onLoadRanking` does not
set `busy`, and a publication ends with a load of its own. `raced` is the history
under which nothing is promised of which load ends up on the screen. The server's
part is what `Evaluation` has in full, counted: results of a paper, rows of its
ranking. `SeenIsFinal`, a part of `ProgressIsSo`, says that a table with rows is the
table there will ever be, and that "Published the final ranking for n" has its n,
although another administrator publishes between the read and the insert: the
unique `resultId` refuses the second. What the code does beyond that: a load that
fails after a publication reports its error over the publication's message; a
load started before the publication may end after it and empty the table again;
the table stays while another paper id is typed; and who asks for a run is told
that it is queued, never how it ended.

### StorageDesk

The list is three queries, each cut to `Take` rows, merged, sorted and cut again
(`ReadKind`, `Listed`), while rows are written. `ListIsNewest`, a part of
`FeedIsUnbroken`, says that nothing that was there when the list was asked for is
left out for something older. A row's time moves with every update, so `clock`
counts writes and no two rows share a time; the arrival of two rows in one
millisecond is left out. `EachProofIsShown` (in `LastLookupIsShown`) and
`ProvedIsStored` (in `VerdictIsRight`) are about the proofs: many at once from the
list, one at a time from the form, each read in two steps, the owner and the
download. A record has one root, because its row names the root after the anchor
and the registries take one anchor for a record. An indexer that cannot be reached
is answered as "Proof failed", like a proof that does not hold
(`storage.service.ts:72-75`), which is why "Verified" is promised to be so and "Proof
failed" is not; and the request for the list has no `catch`, so when it fails the
skeleton stays.

## 3. What the runs check

Passing runs (each property also has a faulty variant of the code that it catches):

| Run | Bounds | What it shows |
| --- | --- | --- |
| `exam_session` | four requests of any kind, one question, one answer, window of two ticks, failures and crashes anywhere | the record is what is on chain; confirmed answers are committed; nothing is decrypted before the exam; resumption fails only by expiry; the session implements `SubmissionLedger`; an accepted submission ends in a record or a failed request |
| `question` | two submit requests, two attempts, one redelivery; a call throws wherever a step has left something behind | proof whole and final; content never lost; for a question submitted once, the report shown is the one anchored and it is decided, unless cut short after the anchor or failed more often than tried |
| `paper_generation` | three questions, three deliveries, three crashes, failures | a READY paper opens; a completed job explains itself; a paper made in one delivery contains what it links; every job ends and says how |
| `evaluation` | two sessions of two candidates with equal scores, two runs at once, two publications, one late start, two instants, one failure, crashes | an evaluated session has its whole proof; ranks of a paper come from one list; audit rows are true |
| `evaluation_ends` | two runs, one redelivery each, one failure, crashes | submitted sessions are evaluated, unless rival runs or a run that stopped half way are in the way |
| `answer_sheet` | two questions, two options shuffled, three clicks, losses, overtaking, reloads | nothing is saved that was not chosen; the server has the sheet when all is quiet |
| `candidate_portal` | one paper of two questions, two requests at once, one camera prompt; reloads, losses, throws | no screen claims what the server did not do; a refused enrolment leaves no photo; the camera goes off; the page never waits for ever |
| `miden_bridge` | three starts with a death anywhere, one reset of the store, two keys for two times, one query, one stub, four instants, two blocks that come when they like | a funded pair is taken up again; an answer is a real note; a key's note goes early only on a chain faster than the estimate |
| `blueprint_and_login` | three questions in two chapters, one subject row, two chapter rows (one whose bands round up, one with a percentage below zero and one above 100), one blueprint, one publication, one loss, one question that rivals rewrite (to another difficulty or a worse duplication) or take back; two tabs, two roles, two logins | what rivals left alone is drawn once, fits, and is not left out; the form forgets only what is stored; token and role in the browser are of recorded logins |
| `consoles` | three rows, two sockets, a list of two; two records of a kind, three polls; two lookups, machines, exams, submissions, checks, clicks and visits; one error, one outage, one fault, three hours; two results and loads; three records of two kinds, of which a list takes two, three writes | the eight properties of the nine pages |

In `paper_generation` a call may throw at every step but one: of the wrapper's
two writes, `markFailed` and the FAILED audit row, the second does not throw.
When both do, the failure is told by nobody, and `GenerationEnds` says nothing.
In `question` a throw where no step has left anything behind since the one before
differs from that one in nothing but its place, so only the others are taken.

The eight of `consoles`:

| Property | Desk | Says |
| --- | --- | --- |
| `FeedIsUnbroken` | `LiveLog`, `StorageDesk` | while a page is connected, its list with what is on the way is the newest of what was published since it subscribed, without a gap; the storage list leaves nothing out for something older |
| `HubForgetsTheGone` | `LiveLog` | the hub's channel has only sockets the server holds open |
| `ShortfallIsNews` | `Oversight` | records shown without an anchor, papers apart, were made while the counts were being read |
| `LastLookupIsShown` | `ComputeDesk`, `RankingDesk`, `StorageDesk` | of lookups, and of loads, one after the other, the last is the one on the screen; each root keeps the answer to its own request; a page waits only for what is under way |
| `HeartbeatIsSeen` | `CenterDesk` | a machine reported is in the list once the page waits for nothing; none is there that never reported |
| `OutcomeIsExplained` | `AuthorDesk` | the decision and the report under it are the question's and agree |
| `VerdictIsRight` | `Verification`, `StorageDesk` | "VERIFIED" is backed, and an evaluated session is not told less; a root shown as verified is stored, and a record's |
| `ProgressIsSo` | `PaperDesk`, `RankingDesk` | steps shown as done are done, whatever a second run did to the status; "Generating" has a loop behind it; a ranking seen, or reported as published, is final |

`blueprint_and_login` has a constraint, `RunFromEmptyForm`: a selection is followed only where
the form is empty. A run reads what is stored and nothing of the form, whose text after
a lost answer would only multiply each run by what may stand in it. The form's own
property loses nothing: each of its steps is also taken where no run has begun, and a
run changes nothing that the form reads.

Why the bounds are enough. In each model the actors that interfere do so in
pairs (two submits, two jobs, two runs, two tabs, a run and a publication, a check
and an evaluation), and a third adds nothing a second does not already do, because
each shared slot (registry slot, unique row, stored token, panel) is written at
most once or by the last one; the session run nevertheless has four
requests, so that a start, an autosave and rival submits meet, and the sidecar
three starts, so that a death meets what an earlier death left. One question and
one answer suffice in `ExamSession`, where only whether an answer is there
matters; two questions are used in `AnswerSheet`, where mixing them up does.
In `blueprint_and_login` one question touched by rivals is enough, since each conjunct is about
single questions, and about counts that one question changes; in `consoles` one fault per paper is a throw, a failed seal or a
redelivery, and two clicks of one page make two papers. Two blocks and four instants let the chain
be faster and slower than `PerBlock = 2` between every two steps of the bridge.
Every run is at rest when its requests are used up, hence `CHECK_DEADLOCK FALSE`.
Nothing in the proofs depends on these bounds.

Runs that end in a counterexample: the code does other than a comment, a test or
a document says. Each is quoted in `PROJECT.json` under `findings`.

| Run | What happens |
| --- | --- |
| `exam_session_final` | a slow second start request reopens a submitted session |
| `answer_shuffled` | the correct option, chosen where it is shown (position 2 of `<<2, 1>>`), is scored as wrong: -1, no question correct |

Further statements of comments, documents and labels are written down in the
modules and refuted by TLC when named as an INVARIANT or PROPERTY in the
configuration given (those of a desk by way of a definition `X == Watch!X` in
`MCConsoles`):

| Statement | Said by | What happens instead | Configuration |
| --- | --- | --- | --- |
| `TransientFailureRecovers` | `questionPipeline.service.ts:45-46`: rejecting VALIDATING "would turn every transient failure into a permanent stuck state instead of a real retry" | one failure after the anchor uses up all attempts, since every retry reverts; the question stays VALIDATING | `Question.cfg` |
| `RejectedNotAnchored` | `QuestionRegistry.sol:6`: "each accepted question's" hash | a retry after the anchor asks the model again and may reject a question that is in the registry | `Question.cfg` |
| `DraftCleared` | `docs/DATABASE.md:7`, `schema.prisma:175`: "cleared once ACCEPTED/REJECTED" | `markRejected` sets the status only; the plaintext stays | `Question.cfg` |
| `ReadyStaysReady` | `queues.ts:28`: "retries need an explicit admin action, not an automatic one" | a job redelivered after a crash marks a READY paper FAILED | `PaperGeneration.cfg` |
| `NotStuckAssembling` | `paperGeneration.service.ts:22-26`: no paper "stuck at ASSEMBLING forever" | a failed seal is swallowed (line 116); its key is lost with the run | `PaperGeneration.cfg` |
| `LinksAreThePaper` | `schema.prisma:295`: "Fixed composition of the master paper" | rows linked by a run that died stay beside those of the next | `PaperGeneration.cfg` |
| `RerunIsClean` | `queues.ts:41`: re-running is left to "an explicit admin action" | a failure between result and mark (`evaluation.service.ts:87`) stops every later run at that session | `EvaluationEnds.cfg` |
| `RerunsAreAsked` | `queues.ts:41`: re-anchoring only by "an explicit admin action" | a redelivered run anchors a session a second time | `EvaluationEnds.cfg` |
| `ConflictMeansRanked` | `docs/USER_MANUAL.md:84`: "all scored candidates sorted, ranked" | nobody scored after the first publication is ever ranked | `Evaluation.cfg` |
| `ResultsAreAppendOnly` | `docs/SMART_CONTRACTS.md:5`: "append-only registries" | a candidate's second paper replaces the first result on chain | `Evaluation.cfg` with `Sessions = {ann1, ann2}`, `Papers = {maths, physics}`, no symmetry |
| `CommittedIsShown` | `docs/USER_MANUAL.md:127`: "autosave running continuously" | the submission waits for no request under way and commits less than the sheet shows | `AnswerSheet.cfg` |
| `CameraReleasedOnUnmount` | `StudentExamClient.tsx:71`: release the camera "regardless of which screen we leave from" | a stream enabled twice, or after the page was left, stays on | `CandidatePortal.cfg` |
| `SignedInIsSo`, `LeftIsLeft` | the console's "Signed in"; leaving the login page | another tab's login replaces the token under a console; a late answer signs in a browser that went on | `BlueprintLogin.cfg` |
| `TokenAndRoleAreOne` | `auth-context.tsx:18-21`: login keeps a token and its role | another tab writes between the two writes, or the second is refused | `BlueprintLogin.cfg` |
| `NothingTwice` | `schema.prisma:295`: "Fixed composition of the master paper"; one row for a question and paper (`PaperQuestion`) | a rival job's report moves a question to the next band between two readings; it is drawn twice, and `linkQuestions` fails the paper | `BlueprintLogin.cfg` |
| `LinkedIsAccepted` | `questionSelection.service.ts:10`: "from the ACCEPTED pool" | a question drawn is taken back to SUBMITTED before, or after, it is linked | `BlueprintLogin.cfg` |
| `ReadyIsReady` | the page's step "Paper READY" (`PaperGeneration.tsx:110`) | a run delivered again marks the paper FAILED after the page stopped polling | `Consoles.cfg` |
| `NotReleasedEarly` | `docs/MIDEN_INTEGRATION.md:11`: the key "cannot be obtained before exam start" | the lock is a height: a chain faster than `APPROX_SECONDS_PER_BLOCK`, or a height synced long before, opens it early | `MidenBridge.cfg` |
| `DraftStepIsSo`, `FailureIsSo`, `DetailIsOfSelected` | the author's step panel, "Submission failed", the report card | the step is ticked before the row; the question was submitted; an answer comes after another question was selected | `Consoles.cfg` |
| `AuthorizationIsOfPaper`, `AuthorizationIsNow` | the center's "Authorized to start" | it stays while another paper id is typed, and when the window is over | `Consoles.cfg` |
| `ReportIsOfOne`, `OverlapIsOrdered` | the compute panel | an attestation is laid over the measurements of another report; the later answer wins, not the later question | `Consoles.cfg` |
| `StreamingIsLive`, `NewestFirst` | the live log's badge and order | a socket that broke leaves the badge; rows are published in the order their writers resume | `Consoles.cfg` |
| `CoverageIsFull`, `ShortfallIsReal`, `UnreachableShows`, `SkeletonIsLoading`, `BadgeMovesOn` | the observer's coverage, the badge, the skeletons | one registry's surplus hides another's shortfall; a record is counted before its anchor exists; the last block, and the skeleton, outlive the failure; polls overtake each other | `Consoles.cfg` |
| `ResultIsInRegistry` | `Verify.tsx:27`: the result hash "matches DB and 0G Chain's ResultRegistry" | the contract is not read; the slot may hold another paper's result | `Consoles.cfg` |
| `FailedStepIsOne` | `PaperGeneration.tsx:76-77`: the active step "is the one that actually failed; steps behind it never started" | every step after the last one done is shown as failed | `Consoles.cfg` |

One more is not stated as a formula: `exam.service.ts:192` calls the resume
"Refresh-resilient", but `loadSession` sets every answer of the sheet to null
(`StudentExamClient.tsx:83-90`), and Save & next or Mark for review (`SaveAgain`
after `Reload`) sends that null over the answer saved before.

Two divergences are known to the authors and are not findings: a ranked list is
not anchored (the header of `ranking.service.ts` says so, against
`docs/USER_MANUAL.md:84`), and a session whose anchor was mined but whose row was
not written has no way on.

### Fairness

- `ExamSession`: weak fairness of the event loop as a whole: while some handler can
  go on, some handler does. That is less than fairness to each handler; it is enough
  because handlers are finite. Failures and crashes may happen at any step. Nothing is
  assumed of new requests, the clock or the beacon.
- `QuestionPipeline`: weak fairness of the handler of each submit request and of
  each job (a worker polls its queue; a retry is due after its backoff). Failures
  are not fair; the property exempts behaviours with more of them than attempts.
- `PaperGeneration`: weak fairness of the worker; failures and crashes included.
- `Evaluation`: weak fairness of each run, and of the administrator's asking again
  while a run is left to ask for. The last is an assumption on a person: it is what
  `queues.ts` relies on when it sets `attempts: 1`.
- `CandidatePortal`: weak fairness of each handler and of the page's taking up an
  answer that has come. A lost answer reaches the page as a failed call, as `fetch` has it. Nothing is
  assumed of the candidate.

The desks state no fairness; nothing is claimed to happen eventually there.
Liveness is checked by TLC only.

## 4. What is proved

The proofs hold for all values of the constants that satisfy the named
assumptions: any number of requests, jobs, sessions, papers, candidates, clicks,
sockets, tabs, starts, redeliveries and failures. The assumptions say that numbers
are numbers, that `None` is not a value of anything else, and that each session has
one candidate and one paper; for the pages, that the bank and the set of records are finite,
that windows begin and end at an hour, and that rows of a form hold integers.

| Module | Theorems | Argument |
| --- | --- | --- |
| `ExamSessionProofs` | `TypeOK`, `IInv`, and with them `RecordMatchesChain`, `CommitmentBacked`, `AckedAnswersCommitted`; `KeyStaysSealed`, `GoneOnlyByExpiry`; the session implements `SubmissionLedger` | `SubmitProgress`: what a submit in flight has left behind at each stage. `PromiseKept`: until something is anchored, the hash and the copy of every submit that may still anchor contain every confirmed answer. `SealInv`: whoever is about to cache has seen the beacon, whoever is about to mark has cached. The safety properties alone are not inductive: they say nothing of a handler halfway |
| `QuestionPipelineProofs` | `TypeOK`, `IInv`, `AcceptedIsProven`, `ContentNotLost`, `AnchorBacked`, `ProofIsFinal`, `ReportMatchesChain` | `Progress(j)` per job: blobs, audit rows, anchor and mirror at each stage. A run past `anchor` *is* the anchored run, so two can never write different proofs. `ReportInv`: with one submit request, a run past its report still finds it there, and nothing runs after acceptance |
| `PaperGenerationProofs` | `TypeOK`, `IInv`, `ReadyIsOpenable`, `AssemblyBacked`, `CompletionExplained`, `AssemblyIsFinal`, `OneDeliveryLinksThePaper` | `Progress` of the one run, and `Settled`: a sealed key is the recorded run's. `DeliveryInv`: within the first delivery what is linked is what was selected, and a READY paper is not run again |
| `EvaluationProofs` | `TypeOK`, `IInv`, `EvaluationIsProven`, `RankingAgrees`, `AuditIsTrue`, `WrittenOnce` | `Progress` per run; `ListsGrow`: of two lists of one paper one contains the other, because results are never removed; with `RankedWhole` the second insertion of overlapping lists must conflict |
| `AnswerSheetProofs` | `TypeOK`, `OnlyChosen`, `QuietIsSaved` | `LastIsSheet`: for a question that is not muddled, the last request under way carries the sheet's answer, or the answer is saved. A request that is not its question's last leaves the last one on the wire; the last one, delivered when no other of the question is left, leaves the answer saved |
| `CandidatePortalProofs` | `ScreenIsEarned`, `RefusedLeavesNoPhoto`, `CameraIsReleased` | `EarnedInv`: every answer the page may still be given, those of requests it abandoned included, was true of the server when it was made, and what it says (a row, a receipt, a list of questions, answers taken) the server never takes back; so a screen drawn from the last answer is earned whenever it is looked at. `EnrolInv`: until something disturbed them, at most one enrolment is under way, and one past its check found no row, so the photo it brought is not refused. `CameraInv`: until two prompts overlap, one stream runs at most and `streamRef` holds it |
| `MidenBridgeProofs` | `FundedPairIsKept`, `AnsweredNoteIsReal`, `EarlyOnlyWhenBlocksAreFast` | `PairInv`: a pair is funded only after its marker names it, and a start makes a new pair only when none that was funded is held. `AnswerInv`: a reply in hand is of a sealed note. `LockInv`: a key's note is locked to the height it was computed from and the blocks assumed until its time, and what is spent was unlocked at a height the chain had reached. Nothing is assumed of how blocks and clock relate |
| `ConsolesProofs` | `SessionIsRecorded`, `HubForgetsTheGone`, `HeartbeatIsSeen`, `ShortfallIsNews`, `VerdictIsRight`, `FeedIsUnbroken`, `LastLookupIsShown`, `OutcomeIsExplained`, `ProgressIsSo`, `SelectedOnce`, `SelectionFits`, `ClearedIsStored` | one invariant per page, kept by its steps because the others stand still. See below |

The pages, one by one:

- *log*: `FeedInv`, the longest: what was sent to a socket is what was published
  since it subscribed, cut in two between wire and page, and the page is the newest
  part of its share turned round.
- *verify*: `VerdictInv`: what a check has ticked was true and stays true, as only
  `registry` is ever overwritten.
- *watch*: `WatchInv`: counts only grow, and but for papers the anchor comes before
  the row, so anchors can lag only behind rows made since the page asked.
- *compute*: `LookupInv`: while no two lookups overlap, whatever is under way is the
  last one asked, so its answer cannot be overtaken.
- *author*: `AuthorInv`: a decision is made once and its report before it; a poll
  reads the status before the report, so a decision it has read has its report.
- *login*: `SessionInv`: the two writes of a login are made one after the other, each of
  what an accepted, hence recorded, login holds; nothing is said of the two together.
- *papers*: `PaperInv`: each loop holds an answer whose artefacts were there, and links, blobs,
  anchors and what a row names are never taken back, by a redelivered run either; only the status
  is. A loop that is polling belongs to the visit that shows it.
- *blueprint*: `DraftInv`: what is stored passed the schema, so two rows have two
  chapters and the bands of one chapter are of different difficulties. `RunInv`: a band
  that was read has the oldest of *some* set (`SeenBy`) that held every question of the band
  that was known at the beginning and has been left alone, and none from outside the band
  but rewritten ones. `BankKeepsRun`: whatever happens to the bank, as long as the
  histories tell of it, keeps that. And an answer that empties the form is of a stored row.
- *ranking*: `RankInv`: a ranking that is not empty is never changed, so what a load
  or a publication has read stays so.
- *storage*: `StoreInv`. What a cut to `Take` leaves out, `Take` newer ones outweigh
  (`NewestKeeps`); hence cutting each kind, merging, and cutting again keeps the
  newest, though each kind is read at another moment.

`OldestSize` and `NewestSize`, that a `take: n` of enough rows has exactly `n`, are
proved without an induction over sets: the rank of an element (how many are before it)
grows with it, so it maps the set one to one onto `0..(size - 1)`, and those below `n`
are what is taken.

The inductive invariants were checked by TLC on the instances above before they
were proved, and are not part of the runs, being theorems. For the five backend
modules type correctness is a theorem of its own; for the others the types a proof
needs are in its invariant, and each module's `TypeOK` was checked by TLC with its
run's configuration.

Only model-checked: `SubmitCompletes`, `SubmittedIsDecided`, `GenerationEnds`,
`SubmittedIsEvaluated` and `PageStopsWaiting`, which are liveness under fairness
and beyond this prover. Every invariant and every action property of the passing
runs is a theorem, and so is the refinement of `SubmissionLedger`. Of data, the sums of scores and what `Math.round` does to
a band are not proved about: they would need induction over data.

## 5. Not modelled

- Cryptographic primitives: injective functions here. Password hashing and a
  token's signature are a yes or no.
- The chain client's nonce: one wallet serves all handlers (`zg-chain.ts:89`), and
  ethers and the node assign the nonce, outside this repository. Seen from each
  pipeline a clash is a call that throws, before or after the transaction was
  mined; every model has that.
- `AuditLogRegistry` and `anchorAuditBatch`: nothing calls them.
- The author's dashboard, which shows one request's counts by status (`TeacherDashboard.tsx`).
- The drawing of charts, the landing page, animation, layout
  and the component library: presentation, with no state but what was fetched.
- The pipelines' own progress channels of the hub: published, but no page listens.
- Start-up configuration, seed data, migrations, deployment scripts: run once.
- That nothing looks for SUBMITTED questions without a job (a crash between
  `markSubmitted` and `validationQueue.add`): `SubmittedIsDecided` is about
  questions whose job was queued.
