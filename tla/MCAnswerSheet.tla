---------------------------- MODULE MCAnswerSheet ----------------------------
(***************************************************************************)
(* Small instances of AnswerSheet for TLC.                                 *)
(***************************************************************************)
EXTENDS AnswerSheet, TLC

CONSTANTS q1, q2

\* As in scoring.test.ts: four marks each, a quarter of them off for a wrong answer.
FourEach == [q \in Questions |-> 4]
OneOff   == [q \in Questions |-> 1]
FirstIsRight == [q \in Questions |-> IF q = q1 THEN 1 ELSE 2]

Shuffles == Permutations(Positions)
=============================================================================
