-------------------------- MODULE MCCandidatePortal --------------------------
(***************************************************************************)
(* A small instance of CandidatePortal for TLC.                            *)
(***************************************************************************)
EXTENDS CandidatePortal

CONSTANT maths
=============================================================================
