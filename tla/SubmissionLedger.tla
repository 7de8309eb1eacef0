-------------------------- MODULE SubmissionLedger --------------------------
(***************************************************************************)
(* What submission promises to everyone outside the API: the answers of a  *)
(* session are committed to at most once, the commitment never changes,    *)
(* and the session's row, once filled in, names that commitment for ever.  *)
(* The session's status is deliberately absent (see SubmitIsFinal).        *)
(***************************************************************************)
CONSTANTS Commitments, None

VARIABLES
  committed,  \* the commitment anyone can read from the chain
  recorded    \* the commitment the row names

ledger == <<committed, recorded>>

Init == committed = None /\ recorded = None

Commit ==
  /\ committed = None
  /\ committed' \in Commitments
  /\ UNCHANGED recorded

RecordIt ==
  /\ committed # None
  /\ recorded' = committed
  /\ UNCHANGED committed

Next == Commit \/ RecordIt

Spec == Init /\ [][Next]_ledger
=============================================================================
