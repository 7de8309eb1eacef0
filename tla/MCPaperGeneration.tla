------------------------- MODULE MCPaperGeneration -------------------------
(***************************************************************************)
(* Small instances of PaperGeneration for TLC.                             *)
(***************************************************************************)
EXTENDS PaperGeneration

\* A call may throw at any step.
Everywhere == Stages \cup {"create", "enqueue"}

\* The wrapper's two writes do not both fail.
Reported == Everywhere \ {"auditFailed"}
=============================================================================
