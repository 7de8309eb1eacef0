---------------------------- MODULE MCMidenBridge ----------------------------
(***************************************************************************)
(* A small instance of MidenBridge for TLC.                                *)
(***************************************************************************)
EXTENDS MidenBridge

CONSTANTS r1, r2

\* Both locks lie ahead of the first start, by one block and by two.
SoonAndLater == [r \in Creates |-> IF r = r1 THEN 2 ELSE 4]
=============================================================================
