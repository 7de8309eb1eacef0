--------------------------- MODULE MCExamSession ---------------------------
(***************************************************************************)
(* Small instances of ExamSession for TLC.                                 *)
(***************************************************************************)
EXTENDS ExamSession, TLC

Symmetry == Permutations(Requests) \cup Permutations(Questions)
=============================================================================
