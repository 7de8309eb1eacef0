------------------------------ MODULE Blueprint ------------------------------
(***************************************************************************)
(* What a blueprint is and which questions it draws: the schema the API    *)
(* checks (blueprint.schema.ts), the keys Postgres adds, and the greedy    *)
(* selection of questionSelection.service.ts.  Operators only; the two     *)
(* pages that use them are BlueprintDesk and PaperDesk.                    *)
(*                                                                         *)
(* Percentages are integers here.  The form and the schema also take       *)
(* fractions, and percentages below zero.                                  *)
(***************************************************************************)
EXTENDS Integers, FiniteSets

CONSTANTS
  Bank,       \* the questions, numbered in the order of createdAt
  Chapter,    \* the chapter of each
  SubjectOf   \* the subject of each chapter

Difficulties == {"EASY", "MEDIUM", "HARD"}
Levels == {"LOW", "MEDIUM", "HIGH"}

\* Of an AIValidationReport: difficultyPredicted and duplicatePct.
Reports == [difficulty : Difficulties, duplicate : 0..100]

DUPLICATION_LEVEL_MAX_PCT(level) == CASE level = "LOW" -> 30 [] level = "MEDIUM" -> 60 [] OTHER -> 80

-----------------------------------------------------------------------------
(* An allocation is [chapter, count, pct, level], a draft                  *)
(* [title, subjects, chapters].                                            *)

ValidChapter(a) ==
  /\ a.chapter # ""
  /\ a.count > 0
  /\ a.pct["EASY"] + a.pct["MEDIUM"] + a.pct["HARD"] = 100

ValidSubject(s) == s.subject # "" /\ s.count > 0 /\ s.marks > 0

\* createBlueprintSchema; a valid title has three characters.
ValidDraft(d) ==
  /\ d.title = "valid"
  /\ d.subjects # <<>> /\ \A i \in DOMAIN d.subjects : ValidSubject(d.subjects[i])
  /\ d.chapters # <<>> /\ \A i \in DOMAIN d.chapters : ValidChapter(d.chapters[i])

\* Fault: only the subjects have a unique key.
DistinctSubjects(d) ==
  \A i, j \in DOMAIN d.subjects : i # j => d.subjects[i].subject # d.subjects[j].subject

\* @@unique([blueprintId, subjectId]), @@unique([blueprintId, chapterId])
DistinctKeys(d) ==
  /\ \A i, j \in DOMAIN d.subjects : i # j => d.subjects[i].subject # d.subjects[j].subject
  /\ \A i, j \in DOMAIN d.chapters : i # j => d.chapters[i].chapter # d.chapters[j].chapter

Storable(d) == ValidDraft(d) /\ DistinctKeys(d)

-----------------------------------------------------------------------------
(* The selection                                                           *)

\* Math.round of a number of hundredths: the nearest integer, halves up.
Round(hundredths) == (hundredths + 50) \div 100

Band(a, difficulty) == Round(a.count * a.pct[difficulty])

Matches(q, report, a, difficulty) ==
  /\ Chapter[q] = a.chapter
  /\ report.difficulty = difficulty
  /\ report.duplicate <= DUPLICATION_LEVEL_MAX_PCT(a.level)

\* take: n, orderBy: createdAt asc; nothing when n is not positive.
Oldest(S, n) == {q \in S : Cardinality({p \in S : p < q}) < n}

Picked(accepted, reports, a, difficulty) ==
  Oldest({q \in accepted : Matches(q, reports[q], a, difficulty)}, Band(a, difficulty))

\* The marks of a chapter's subject; 1 when the blueprint does not allocate it.
Marks(d, a) ==
  LET rows == {i \in DOMAIN d.subjects : d.subjects[i].subject = SubjectOf[a.chapter]}
  IN  IF rows = {} THEN 1 ELSE d.subjects[CHOOSE i \in rows : TRUE].marks
=============================================================================
