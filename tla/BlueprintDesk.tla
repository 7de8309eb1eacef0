---------------------------- MODULE BlueprintDesk ----------------------------
(***************************************************************************)
(* From the blueprint form to the questions it draws: the administrator's  *)
(* page (BlueprintGenerator.tsx), createBlueprint, publishBlueprint and    *)
(* listBlueprints (blueprint.service.ts), and the selection of a paper     *)
(* (selectQuestionsForBlueprint, linkQuestions) read by read, while the    *)
(* questions are still worked on: more are accepted, and a rival job or a  *)
(* second submit of an accepted one rewrites its report or takes it back.  *)
(*                                                                         *)
(* A blueprint has the number of its row.  What the page only displays     *)
(* (the allocated totals, which nothing compares with anything) is left    *)
(* out.                                                                    *)
(***************************************************************************)
EXTENDS Blueprint, Sequences, SequencesExt

CONSTANTS
  FirstReport,   \* the report of each question when it is accepted
  Rewrites,      \* what a rival job may write in its place
  MaxTouched,    \* bound: the questions rivals touch during a run
  SubjectRows,   \* what may be written into a subject row
  ChapterRows,   \* what may be written into a chapter row: easy and medium, not yet hard
  MaxSubjects, MaxRows, \* bounds: the rows of the two sections
  MaxBlueprints, \* bound: the form is used until there are so many blueprints
  MaxPublishes,  \* bound: how often Publish is clicked
  MaxLosses      \* bound: how many calls fail or lose their answer

Clicks == 1..MaxPublishes

VARIABLES
  \* the page
  title, subjectRows, chapterRows, busy, error,
  listed,      \* the blueprints as they were listed last: whether each is published; <<>> before
  \* under way
  creating,    \* the POST of the form, and its answer
  publishing,  \* the clicks on Publish
  asked,       \* lists asked for
  answers,     \* lists on their way to the page
  \* the server
  blueprints,  \* the Blueprint rows: draft, published, and the log entries of that
  accepted,    \* the ACCEPTED questions
  reports,     \* their reports
  run,         \* a selection: the blueprint, where it is, and the band it reads next
  drawn,       \* what it has drawn
  known,       \* history: the questions accepted when it began
  rewritten,   \* history: those whose report was written again since
  retracted,   \* history: those taken back since
  losses       \* bound: calls that failed

form  == <<title, subjectRows, chapterRows>>
lists == <<listed, asked, answers>>
bank  == <<accepted, reports, rewritten, retracted>>
draws == <<bank, run, drawn, known>>
vars  == <<form, busy, error, lists, creating, publishing, blueprints, draws, losses>>

Hard(r) == 100 - r.easy - r.medium
Written == [title |-> title, subjects |-> subjectRows,
            chapters |-> [i \in DOMAIN chapterRows |->
              LET r == chapterRows[i] IN
              [chapter |-> r.chapter, count |-> r.count, level |-> r.level,
               pct |-> [d \in Difficulties |->
                          CASE d = "EASY" -> r.easy [] d = "MEDIUM" -> r.medium [] OTHER -> Hard(r)]]]]

NoDraft == [title |-> "", subjects |-> <<>>, chapters |-> <<>>]
NoCall  == [at |-> "none", draft |-> NoDraft]
Idle    == [of |-> 0, at |-> "idle", band |-> <<0, 0>>]

Init ==
  /\ title = "" /\ subjectRows = <<>> /\ chapterRows = <<>> /\ busy = FALSE /\ error = FALSE
  /\ listed = <<>> /\ creating = NoCall /\ publishing = [c \in Clicks |-> [at |-> "none", id |-> 0]]
  /\ asked = 1 /\ answers = {} /\ blueprints = <<>>
  /\ accepted = {} /\ reports = FirstReport /\ rewritten = {} /\ retracted = {}
  /\ run = Idle /\ drawn = {} /\ known = {} /\ losses = 0

Lost == losses < MaxLosses /\ losses' = losses + 1

-----------------------------------------------------------------------------
(* The form                                                                *)

Editing == Len(blueprints) < MaxBlueprints
Rest == <<busy, error, lists, creating, publishing, blueprints, draws, losses>>

SetTitle ==
  /\ Editing /\ title' \in {"", "valid"} \ {title}
  /\ UNCHANGED <<subjectRows, chapterRows, Rest>>

\* The rows of a section are added with defaults, changed and removed.
NewSubject == [subject |-> "", count |-> 10, marks |-> 4]
EditSubjects ==
  /\ Editing
  /\ \/ Len(subjectRows) < MaxSubjects /\ subjectRows' = Append(subjectRows, NewSubject)
     \/ \E i \in DOMAIN subjectRows, r \in SubjectRows : subjectRows' = [subjectRows EXCEPT ![i] = r]
     \/ \E i \in DOMAIN subjectRows : subjectRows' = RemoveAt(subjectRows, i)
  /\ UNCHANGED <<title, chapterRows, Rest>>

NewChapter == [chapter |-> "", count |-> 5, easy |-> 40, medium |-> 40, level |-> "HIGH"]
EditChapters ==
  /\ Editing
  /\ \/ Len(chapterRows) < MaxRows /\ chapterRows' = Append(chapterRows, NewChapter)
     \/ \E i \in DOMAIN chapterRows, r \in ChapterRows : chapterRows' = [chapterRows EXCEPT ![i] = r]
     \/ \E i \in DOMAIN chapterRows : chapterRows' = RemoveAt(chapterRows, i)
  /\ UNCHANGED <<title, subjectRows, Rest>>

\* The Create button: it looks at neither the totals nor the names.
CanCreate ==
  /\ ~busy /\ title # "" /\ subjectRows # <<>> /\ chapterRows # <<>>
  /\ \A i \in DOMAIN chapterRows : Hard(chapterRows[i]) >= 0

\* onCreate, up to the POST.
Create ==
  /\ Editing /\ CanCreate
  /\ busy' = TRUE /\ error' = FALSE
  /\ creating' = [at |-> "sent", draft |-> Written]
  /\ UNCHANGED <<form, lists, publishing, blueprints, draws, losses>>

\* onCreate: the title and the rows are cleared, the list is asked for again.
Created ==
  /\ creating.at = "stored"
  /\ title' = "" /\ subjectRows' = <<>> /\ chapterRows' = <<>> /\ busy' = FALSE
  /\ asked' = asked + 1 /\ creating' = NoCall
  /\ UNCHANGED <<error, listed, answers, publishing, blueprints, draws, losses>>

\* Fault: the form is cleared in the finally.
CreateFailsCleared ==
  /\ creating.at = "refused"
  /\ title' = "" /\ subjectRows' = <<>> /\ chapterRows' = <<>> /\ busy' = FALSE
  /\ error' = TRUE /\ creating' = NoCall
  /\ UNCHANGED <<lists, publishing, blueprints, draws, losses>>

\* onCreate: catch, finally.
CreateFails ==
  /\ creating.at = "refused"
  /\ error' = TRUE /\ busy' = FALSE /\ creating' = NoCall
  /\ UNCHANGED <<form, lists, publishing, blueprints, draws, losses>>

\* POST /admin/blueprints: the schema, and one nested insert.
Store ==
  /\ creating.at = "sent"
  /\ IF Storable(creating.draft)
       THEN /\ blueprints' = Append(blueprints, [draft |-> creating.draft, published |-> FALSE, logged |-> 0])
            /\ creating' = [creating EXCEPT !.at = "stored"]
       ELSE /\ creating' = [creating EXCEPT !.at = "refused"]
            /\ UNCHANGED blueprints
  /\ UNCHANGED <<form, busy, error, lists, publishing, draws, losses>>

\* The request or its answer is lost.
CreateLost ==
  /\ Lost
  /\ creating.at \in {"sent", "stored"}
  /\ creating' = [creating EXCEPT !.at = "refused"]
  /\ UNCHANGED <<form, busy, error, lists, publishing, blueprints, draws>>

-----------------------------------------------------------------------------
(* Publish, and the list                                                   *)

\* The button of an unpublished row; onPublish has no busy state.
Publish(c, i) ==
  /\ publishing[c].at = "none" /\ \A o \in Clicks : o < c => publishing[o].at # "none"
  /\ i \in DOMAIN listed /\ ~listed[i]
  /\ publishing' = [publishing EXCEPT ![c] = [at |-> "check", id |-> i]]
  /\ UNCHANGED <<form, busy, error, lists, creating, blueprints, draws, losses>>

Moves(c, from, to) == publishing[c].at = from /\ publishing' = [publishing EXCEPT ![c].at = to]

\* publishBlueprint: findById, 409; the page does not catch the refusal.
PublishCheck(c) ==
  /\ Moves(c, "check", IF blueprints[publishing[c].id].published THEN "over" ELSE "update")
  /\ UNCHANGED <<form, busy, error, lists, creating, blueprints, draws, losses>>

PublishUpdate(c) ==
  /\ Moves(c, "update", "audit")
  /\ blueprints' = [blueprints EXCEPT ![publishing[c].id].published = TRUE]
  /\ UNCHANGED <<form, busy, error, lists, creating, draws, losses>>

PublishAudit(c) ==
  /\ Moves(c, "audit", "answered")
  /\ blueprints' = [blueprints EXCEPT ![publishing[c].id].logged = @ + 1]
  /\ UNCHANGED <<form, busy, error, lists, creating, draws, losses>>

\* onPublish: refresh
Published(c) ==
  /\ Moves(c, "answered", "over")
  /\ asked' = asked + 1
  /\ UNCHANGED <<form, busy, error, listed, answers, creating, blueprints, draws, losses>>

\* A call throws or its answer is lost: nothing is shown, nothing refreshed.
PublishLost(c) ==
  /\ Lost
  /\ publishing[c].at \in {"check", "update", "audit", "answered"}
  /\ publishing' = [publishing EXCEPT ![c].at = "over"]
  /\ UNCHANGED <<form, busy, error, lists, creating, blueprints, draws>>

\* listBlueprints
ServeList ==
  /\ asked > 0 /\ asked' = asked - 1
  /\ answers' = answers \cup {[i \in DOMAIN blueprints |-> blueprints[i].published]}
  /\ UNCHANGED <<form, busy, error, listed, creating, publishing, blueprints, draws, losses>>

\* setBlueprints, in the order the answers arrive in; or none arrives.
ListArrives ==
  /\ \E a \in answers : answers' = answers \ {a} /\ listed' = a
  /\ UNCHANGED <<form, busy, error, asked, creating, publishing, blueprints, draws, losses>>

ListLost ==
  /\ Lost
  /\ \E a \in answers : answers' = answers \ {a}
  /\ UNCHANGED <<form, busy, error, listed, asked, creating, publishing, blueprints, draws>>

-----------------------------------------------------------------------------
(* The selection of a paper                                                *)

BandName == <<"EASY", "MEDIUM", "HARD">>
Reads(d) == {b \in (DOMAIN d.chapters) \X (1..3) : Band(d.chapters[b[1]], BandName[b[2]]) > 0}
Before(b, c) == b[1] < c[1] \/ (b[1] = c[1] /\ b[2] < c[2])
Least(S) == CHOOSE b \in S : \A c \in S \ {b} : Before(b, c)
Next1(i, S) == IF S = {} THEN [of |-> i, at |-> "link", band |-> <<0, 0>>]
                         ELSE [of |-> i, at |-> "select", band |-> Least(S)]

\* The bank while a paper is drawn from it.  Before that nobody looks, and
\* Begin makes up for it; nor does anybody look again once it is linked.
BeingRead ==
  /\ run.at \in {"select", "link"} /\ Cardinality(rewritten' \cup retracted') <= MaxTouched
  /\ UNCHANGED <<form, busy, error, lists, creating, publishing, blueprints, run, drawn, known, losses>>

\* markAccepted, which one job of a question reaches: the registry refuses the
\* others.
Accept(q) ==
  /\ q \notin accepted \cup retracted /\ accepted' = accepted \cup {q}
  /\ UNCHANGED <<reports, rewritten, retracted>>
  /\ BeingRead

\* runQuestionPipeline: a rival job that had found the question SUBMITTED or
\* VALIDATING, or one that was taken back, upserts its own report.
Revalidate(q) ==
  /\ q \in accepted \cup retracted
  /\ \E r \in Rewrites : reports' = [reports EXCEPT ![q] = r]
  /\ rewritten' = rewritten \cup {q}
  /\ UNCHANGED <<accepted, retracted>>
  /\ BeingRead

\* The markSubmitted of a second submit that had found the question a DRAFT, or
\* a rival job's markValidating or markRejected.
TakeBack(q) ==
  /\ q \in accepted /\ accepted' = accepted \ {q}
  /\ retracted' = retracted \cup {q}
  /\ UNCHANGED <<reports, rewritten>>
  /\ BeingRead

\* PaperDesk: generatePaper, and the worker takes the job.
Begin(i) ==
  /\ run = Idle /\ blueprints[i].published
  /\ run' = Next1(i, Reads(blueprints[i].draft))
  /\ accepted' \in SUBSET Bank /\ known' = accepted'
  /\ UNCHANGED <<form, busy, error, lists, creating, publishing, blueprints, reports, rewritten, retracted, drawn, losses>>

\* Fault: a reading forgets the difficulty.
DrawAnyDifficulty ==
  LET b == run.band
      d == blueprints[run.of].draft
      a == d.chapters[b[1]]
  IN
  /\ run.at = "select"
  /\ drawn' = drawn \cup
       {[row |-> b[1], difficulty |-> BandName[b[2]], question |-> q, marks |-> Marks(d, a)] :
          q \in Oldest({q \in accepted : Chapter[q] = a.chapter}, Band(a, BandName[b[2]]))}
  /\ run' = Next1(run.of, {c \in Reads(d) : Before(b, c)})
  /\ UNCHANGED <<form, busy, error, lists, creating, publishing, blueprints, bank, known, losses>>

\* One findMany of selectQuestionsForBlueprint.
Draw ==
  LET b == run.band
      d == blueprints[run.of].draft
      a == d.chapters[b[1]]
  IN
  /\ run.at = "select"
  /\ drawn' = drawn \cup
       {[row |-> b[1], difficulty |-> BandName[b[2]], question |-> q, marks |-> Marks(d, a)] :
          q \in Picked(accepted, reports, a, BandName[b[2]])}
  /\ run' = Next1(run.of, {c \in Reads(d) : Before(b, c)})
  /\ UNCHANGED <<form, busy, error, lists, creating, publishing, blueprints, bank, known, losses>>

\* linkQuestions: nothing selected, or a question selected twice, throws.
Repeats == \E x, y \in drawn : x # y /\ x.question = y.question
Link ==
  /\ run.at = "link"
  /\ run' = [run EXCEPT !.at = IF drawn = {} \/ Repeats THEN "failed" ELSE "linked"]
  /\ UNCHANGED <<form, busy, error, lists, creating, publishing, blueprints, bank, drawn, known, losses>>

-----------------------------------------------------------------------------
Form == SetTitle \/ EditSubjects \/ EditChapters \/ Create \/ Created \/ CreateFails
Next ==
  \/ Form \/ Store \/ CreateLost
  \/ \E c \in Clicks : \/ \E i \in DOMAIN listed : Publish(c, i)
                       \/ PublishCheck(c) \/ PublishUpdate(c) \/ PublishAudit(c)
                       \/ Published(c) \/ PublishLost(c)
  \/ ServeList \/ ListArrives \/ ListLost
  \/ \E q \in Bank : Accept(q) \/ Revalidate(q) \/ TakeBack(q)
  \/ \E i \in DOMAIN blueprints : Begin(i)
  \/ Draw \/ Link

Spec == Init /\ [][Next]_vars

-----------------------------------------------------------------------------
(* Properties                                                              *)

Steps == {"none", "check", "update", "audit", "answered", "over"}
TypeOK ==
  /\ title \in {"", "valid"} /\ busy \in BOOLEAN /\ error \in BOOLEAN
  /\ subjectRows \in Seq(SubjectRows \cup {NewSubject}) /\ chapterRows \in Seq(ChapterRows \cup {NewChapter})
  /\ listed \in Seq(BOOLEAN) /\ asked \in Nat /\ \A a \in answers : a \in Seq(BOOLEAN)
  /\ creating.at \in {"none", "sent", "stored", "refused"} /\ (busy <=> creating.at # "none")
  /\ publishing \in [Clicks -> [at : Steps, id : Nat]]
  /\ \A i \in DOMAIN blueprints : blueprints[i].published \in BOOLEAN /\ blueprints[i].logged \in Nat
  /\ accepted \subseteq Bank /\ known \subseteq Bank /\ losses \in 0..MaxLosses
  /\ reports \in [Bank -> Reports] /\ rewritten \subseteq Bank /\ retracted \subseteq Bank
  /\ run.at \in {"idle", "select", "link", "linked", "failed"} /\ run.of \in 0..Len(blueprints)
  /\ \A x \in drawn : x.question \in Bank /\ x.difficulty \in Difficulties /\ x.marks \in Int

\* A selection draws a question twice only when a rival wrote its report again
\* while the bands were being read, one by one: else the bands of a chapter are
\* disjoint, and a blueprint names a chapter once, which the form does not see
\* to but the database does (schema.prisma:262).
SelectedOnce ==
  \A x, y \in drawn : x # y /\ x.question = y.question => x.question \in rewritten

\* Every question of a paper is of the chapter it was drawn for, accepted unless
\* it was taken back during the run, and as difficult and as new as the band
\* allows unless its report was written again; a chapter gives at most one
\* question more than it was asked for, which the rounding may add, as long as
\* no percentage is negative; and no band leaves out a question it had room for,
\* that was accepted before the run began and left alone since
\* (questionSelection.service.ts).
SelectionFits ==
  run.at = "linked" =>
    LET d == blueprints[run.of].draft IN
    \A i \in DOMAIN d.chapters :
      LET a == d.chapters[i]
          of(x) == {e \in drawn : e.row = i /\ e.difficulty = x}
          had(x) == {q \in known \ (rewritten \cup retracted) : Matches(q, reports[q], a, x)}
      IN  /\ \A x \in Difficulties :
               /\ \A e \in of(x) :
                    /\ Chapter[e.question] = a.chapter
                    /\ e.question \notin retracted => e.question \in accepted
                    /\ e.question \notin rewritten => Matches(e.question, reports[e.question], a, x)
               /\ Cardinality(of(x)) >= Band(a, x) \/ Cardinality(of(x)) >= Cardinality(had(x))
          /\ (\A x \in Difficulties : a.pct[x] >= 0)
               => Cardinality({e \in drawn : e.row = i}) <= a.count + 1

\* Refuted, and so in no configuration: a selection draws no question twice, and
\* what is linked is accepted.  The upsert of a rival job between two readings
\* moves a question from one band to the next, and linkQuestions then fails the
\* paper; a late markSubmitted takes back what was drawn.
NothingTwice == ~Repeats
LinkedIsAccepted == run.at = "linked" => \A e \in drawn : e.question \in accepted

\* The page throws away what was written only when the blueprint it sent is
\* stored (BlueprintGenerator.tsx onCreate).
ClearedIsStored ==
  [][busy /\ ~busy' /\ chapterRows' = <<>> /\ chapterRows # <<>>
       => \E i \in DOMAIN blueprints : blueprints[i].draft = creating.draft]_vars
=============================================================================
