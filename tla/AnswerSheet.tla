------------------------------ MODULE AnswerSheet ------------------------------
(***************************************************************************)
(* A candidate's answers, from the click to the score: the exam client     *)
(* (StudentExamClient.tsx), the autosave endpoint, the submission and      *)
(* scoreAnswers (lib/scoring.ts).                                          *)
(*                                                                         *)
(* startExam shows each question's options in an order of the session's    *)
(* own.  An option is named here by its position: the position on the      *)
(* screen in a click, a request or a saved answer, the position in the     *)
(* master paper in the key.  The exam is in progress from the start; what  *)
(* races inside one handler is ExamSession's.                              *)
(***************************************************************************)
EXTENDS Integers, FiniteSets, FiniteSetsExt

CONSTANTS
  Questions,  \* the questions of the paper
  Options,    \* how many options each has
  Key,        \* the position of the correct option in the master paper
  Marks,      \* what a question is worth
  Penalty,    \* what a wrong answer costs: marks * negativeMarking, in the unit of Marks
  Orders,     \* the orders seededShuffle may give: screen position to master position
  MaxClicks,  \* bound: how often the candidate clicks
  None        \* no answer

Positions == 1..Options
Answers == Positions \cup {None}

ASSUME OptionsAssumption == Options \in Nat /\ MaxClicks \in Nat /\ IsFiniteSet(Questions)
ASSUME OrdersAssumption == Orders \subseteq [Positions -> Positions]
ASSUME KeyAssumption ==
  /\ Key \in [Questions -> Positions]
  /\ Marks \in [Questions -> Nat] /\ Penalty \in [Questions -> Nat]
ASSUME NullAssumption == None \notin Positions \cup Questions

VARIABLES
  order,      \* the order in which each question's options are shown
  sheet,      \* the client's answers: the option shown as selected
  visited,    \* the questions the client has touched since the page was loaded
  wire,       \* the PUT requests under way
  clicks,     \* how many were sent
  saved,      \* the session's Redis hash; only the fields that were set
  submitted,  \* whether the session was submitted; then saved is what it committed
  score,      \* EvaluationResult: raw score and the three counts
  chosen,     \* history: the options ever clicked
  muddled     \* history: the questions whose last request was lost or overtook another

vars == <<order, sheet, visited, wire, clicks, saved, submitted, score, chosen, muddled>>

client  == <<sheet, visited>>
server  == <<saved, submitted, score>>
history == <<chosen, muddled>>

Empty == [q \in {} |-> None]

Init ==
  /\ order \in [Questions -> Orders]
  /\ sheet = [q \in Questions |-> None] /\ visited = {}
  /\ wire = {} /\ clicks = 0
  /\ saved = Empty /\ submitted = FALSE /\ score = None
  /\ chosen = {} /\ muddled = {}

-----------------------------------------------------------------------------
(* The exam client                                                         *)

\* saveAnswer: the sheet first, then a request that nobody waits for.  What is
\* clicked after the submission is answered 409 and left out.
Save(q, option) ==
  /\ ~submitted /\ clicks < MaxClicks
  /\ sheet' = [sheet EXCEPT ![q] = option] /\ visited' = visited \cup {q}
  /\ clicks' = clicks + 1
  /\ wire' = wire \cup {[seq |-> clicks + 1, question |-> q, option |-> option]}
  /\ muddled' = muddled \ {q}
  /\ UNCHANGED <<order, server>>

Choose(q, option) ==
  /\ Save(q, option)
  /\ chosen' = chosen \cup {<<q, option>>}

Clear(q) == Save(q, None) /\ UNCHANGED chosen

\* Fault: a question without an answer is sent with its first option.
SaveFirst(q) ==
  /\ Save(q, IF sheet[q] = None THEN 1 ELSE sheet[q])
  /\ UNCHANGED chosen

\* Mark for review, or Save & next: the request carries the option on the sheet.
SaveAgain(q) == Save(q, sheet[q]) /\ UNCHANGED chosen

\* loadSession: the questions come back from the cache in the same order, the
\* answers start over.  Requests under way may still arrive.
Reload ==
  /\ ~submitted /\ visited # {}
  /\ sheet' = [q \in Questions |-> None] /\ visited' = {}
  /\ UNCHANGED <<order, wire, clicks, server, history>>

-----------------------------------------------------------------------------
(* The network and exam.service.ts                                         *)

Rivals(m) == {n \in wire : n # m /\ n.question = m.question}
IsLast(m) == \A n \in Rivals(m) : n.seq < m.seq

\* Fault: an answer saved before is kept (hsetnx).
DeliverFirst(m) ==
  /\ m \in wire
  /\ wire' = wire \ {m}
  /\ saved' = IF submitted THEN saved
              ELSE [q \in DOMAIN saved \cup {m.question} |->
                      IF q \in DOMAIN saved THEN saved[q] ELSE m.option]
  /\ muddled' = IF IsLast(m) /\ Rivals(m) # {} THEN muddled \cup {m.question} ELSE muddled
  /\ UNCHANGED <<order, client, clicks, submitted, score, chosen>>

\* autosaveAnswer, in any order: hset of the question's field, or 409, which the
\* client ignores.
Deliver(m) ==
  /\ m \in wire
  /\ wire' = wire \ {m}
  /\ saved' = IF submitted THEN saved
              ELSE [q \in DOMAIN saved \cup {m.question} |->
                      IF q = m.question THEN m.option ELSE saved[q]]
  /\ muddled' = IF IsLast(m) /\ Rivals(m) # {} THEN muddled \cup {m.question} ELSE muddled
  /\ UNCHANGED <<order, client, clicks, submitted, score, chosen>>

\* .catch(() => void 0)
Lose(m) ==
  /\ m \in wire
  /\ wire' = wire \ {m}
  /\ muddled' = IF IsLast(m) THEN muddled \cup {m.question} ELSE muddled
  /\ UNCHANGED <<order, client, clicks, server, chosen>>

\* submitExam commits what is saved, without waiting for requests under way.
Submit ==
  /\ ~submitted /\ submitted' = TRUE
  /\ UNCHANGED <<order, client, wire, clicks, saved, score, history>>

-----------------------------------------------------------------------------
(* lib/scoring.ts scoreAnswers                                             *)

\* An answer is compared with the options in the master paper's order.
Correct(answers)   == {q \in DOMAIN answers : answers[q] = Key[q]}
Blank(answers)     == {q \in DOMAIN answers : answers[q] = None}
Incorrect(answers) == DOMAIN answers \ (Correct(answers) \cup Blank(answers))
Total(worth, questions) == MapThenSumSet(LAMBDA q : worth[q], questions)

ScoreAnswers(answers) ==
  [raw |-> Total(Marks, Correct(answers)) - Total(Penalty, Incorrect(answers)),
   correct |-> Cardinality(Correct(answers)),
   incorrect |-> Cardinality(Incorrect(answers)),
   unattempted |-> Cardinality(Blank(answers))]

\* The evaluation of the submitted session.
Evaluate ==
  /\ submitted /\ score = None
  /\ score' = ScoreAnswers(saved)
  /\ UNCHANGED <<order, client, wire, clicks, saved, submitted, history>>

-----------------------------------------------------------------------------
Next ==
  \/ \E q \in Questions : Clear(q) \/ SaveAgain(q) \/ \E o \in Positions : Choose(q, o)
  \/ Reload
  \/ \E m \in wire : Deliver(m) \/ Lose(m)
  \/ Submit \/ Evaluate

Spec == Init /\ [][Next]_vars

-----------------------------------------------------------------------------
(* Correctness                                                             *)

Requests == [seq : 1..MaxClicks, question : Questions, option : Answers]

\* Every variable holds a value of its kind, and no two requests have the same number.
TypeOK ==
  /\ order \in [Questions -> Orders]
  /\ sheet \in [Questions -> Answers] /\ visited \subseteq Questions
  /\ wire \subseteq Requests /\ clicks \in 0..MaxClicks
  /\ \A m \in wire : m.seq <= clicks
  /\ \A m, n \in wire : m.seq = n.seq => m = n
  /\ DOMAIN saved \subseteq Questions /\ \A q \in DOMAIN saved : saved[q] \in Answers
  /\ submitted \in BOOLEAN
  /\ chosen \subseteq Questions \X Positions /\ muddled \subseteq Questions

\* Whatever is reordered, lost or reloaded, no answer is saved, shown or
\* committed that the candidate did not choose for that question.
OnlyChosen ==
  /\ \A q \in DOMAIN saved : saved[q] # None => <<q, saved[q]>> \in chosen
  /\ \A q \in Questions : sheet[q] # None => <<q, sheet[q]>> \in chosen
  /\ \A m \in wire : m.option # None => <<m.question, m.option>> \in chosen

\* As soon as no request is under way the server has what the sheet shows, for
\* every question whose last request was neither lost nor before an earlier one:
\* an earlier loss, or disorder across questions, is made good.
QuietIsSaved ==
  wire = {} /\ ~submitted =>
    \A q \in visited \ muddled : q \in DOMAIN saved /\ saved[q] = sheet[q]

\* Why: the last request under way for a question carries the sheet's answer, and
\* where none is under way the answer is saved.
LastIsSheet ==
  \A q \in visited \ muddled :
    \/ \E m \in wire : m.question = q /\ m.option = sheet[q] /\ IsLast(m)
    \/ /\ \A n \in wire : n.question # q
       /\ submitted \/ (q \in DOMAIN saved /\ saved[q] = sheet[q])

-----------------------------------------------------------------------------
(* What docs and tests say and the code does not keep.                     *)

\* "awards full marks for a correct answer" (scoring.test.ts): a candidate who
\* committed the correct option, as it was shown, has it counted as correct.
\* False as soon as the options are shuffled.  (A wrong option shown at the
\* correct one's position counts as correct then; that is another statement.)
CorrectIsRewarded ==
  score # None =>
    Cardinality({q \in DOMAIN saved : saved[q] # None /\ order[q][saved[q]] = Key[q]}) <= score.correct

\* "autosave running continuously in the background" (USER_MANUAL.md): what is
\* committed is what the sheet showed.  False: submitExam waits for no request
\* under way, and a lost or overtaken one is not sent again.
CommittedIsShown ==
  submitted => \A q \in visited : q \in DOMAIN saved /\ saved[q] = sheet[q]

=============================================================================
