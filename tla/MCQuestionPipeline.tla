------------------------ MODULE MCQuestionPipeline ------------------------
(***************************************************************************)
(* Small instances of QuestionPipeline for TLC.                            *)
(***************************************************************************)
EXTENDS QuestionPipeline

\* A call may throw wherever a step before it has left something behind; where
\* none has, the throw differs from the one before in nothing but its place.
\* The process may die anywhere.
Torn == {"auditSubmission", "enqueue", "validate", "auditReport", "auditUpload",
         "recordAnchor", "markAccepted"}
=============================================================================
