---------------------------- MODULE MCEvaluation ----------------------------
(***************************************************************************)
(* Small instances of Evaluation for TLC.                                  *)
(***************************************************************************)
EXTENDS Evaluation, TLC

CONSTANTS run1, run2, pub1, pub2, ann, bob, ann1, ann2, bob1, maths, physics

\* Two papers, one candidate in both; the two sittings of maths have the same score.
StudentOfSession == [s \in Sessions |-> IF s = bob1 THEN bob ELSE ann]
PaperOfSession   == [s \in Sessions |-> IF s = ann2 THEN physics ELSE maths]
SameScore        == [s \in Sessions |-> IF s = ann2 THEN 3 ELSE -1]

\* Runs and publish requests differ in nothing but their name.
Alike == Permutations({run1, run2}) \cup Permutations({pub1, pub2})

\* A call may throw at any step.
Everywhere == Stages \cup {"insert"}
=============================================================================
