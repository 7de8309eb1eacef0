----------------------------- MODULE MCConsoles -----------------------------
(***************************************************************************)
(* A small instance of Consoles for TLC: every page with the bounds at     *)
(* which each of its operations, and two of each kind at once, happen.     *)
(***************************************************************************)
EXTENDS Consoles

\* The kinds of record; the two exams' windows, one of which closes early.
MCKinds == {"papers", "questions"}
MCPapers == "papers"
MCStartAt == [e \in Exams |-> IF e = "p1" THEN 1 ELSE 2]
MCCloseAt == [e \in Exams |-> IF e = "p1" THEN 1 ELSE 3]

\* Three questions of two chapters; a row whose bands round up and give a
\* question more than the row asks for, and one that asks for more than there
\* is, and for less than nothing.
MCBank == 1..3
MCChapter == <<"optics", "optics", "waves">>
Report(x, p) == [difficulty |-> x, duplicate |-> p]
MCFirstReport == <<Report("EASY", 10), Report("MEDIUM", 40), Report("MEDIUM", 20)>>
MCRewrites == {Report("MEDIUM", 10), Report("EASY", 90)}
MCSubjectOf == [c \in {"optics", "waves"} |-> IF c = "optics" THEN "physics" ELSE "acoustics"]

Row(c, n, e, m, l) == [chapter |-> c, count |-> n, easy |-> e, medium |-> m, level |-> l]
MCSubjectRows == {[subject |-> "physics", count |-> 2, marks |-> 4]}
MCChapterRows == {Row("optics", 1, 50, 50, "HIGH"), Row("waves", 1, -100, 200, "LOW")}

\* A run reads what is stored and nothing of the form: it is followed only where
\* the form is empty, and not again for each text a lost answer may leave there.
RunFromEmptyForm == run # Draft!Idle => title = "" /\ subjectRows = <<>> /\ chapterRows = <<>>

\* Two questions and an answer sheet, of which a list has room for two.
MCKindOf == [x \in Records |-> IF x = "s1" THEN "StudentExamSession" ELSE "Question"]
=============================================================================
