----------------------------- MODULE StorageDesk -----------------------------
(***************************************************************************)
(* The administrator's storage explorer (StorageExplorer.tsx) over         *)
(* storage.service.ts and the client of 0G Storage (zg-storage.ts), while  *)
(* questions, papers and answer sheets are stored.                         *)
(*                                                                         *)
(* A record gets one storage root, since its row names it after the        *)
(* anchor, of which the registries take one for a record; the root is      *)
(* written as the record, and the blobs of attempts that came to nothing   *)
(* have roots that no row names.                                           *)
(* The clock counts the writes that move a row's time, so no two rows have *)
(* the same, and a row has its time when it is written.                    *)
(***************************************************************************)
EXTENDS Integers, FiniteSets

CONSTANTS
  Records,   \* questions, papers and exam sessions
  KindOf,    \* which of the three a record is
  Take,      \* ?take=
  MaxWrites, \* bound: the writes that move a row's time
  None

ObjectKinds == {"Question", "Paper", "StudentExamSession"}

VARIABLES
  uploaded,        \* the roots 0G Storage has
  updatedAt,       \* a record's updatedAt, or submittedAt; 0 without a root
  clock,
  since,           \* when the list was asked for, -1 before
  reads, objects,  \* what listObjects has read of each kind; the page's list
  proofs,          \* the requests for a proof made from the list, by their root
  checked,         \* what the list shows beside a root
  request,         \* the request the form makes
  manual           \* what the form shows: busy, error, and the last answer

server == <<uploaded, updatedAt, clock>>
list   == <<since, reads, objects>>
table  == <<proofs, checked>>
form   == <<request, manual>>
vars == <<server, list, table, form>>

NoRequest == [root |-> None, at |-> "none"]
Nothing == [busy |-> FALSE, error |-> FALSE, root |-> None, valid |-> FALSE]

Init ==
  /\ uploaded = {} /\ updatedAt = [x \in Records |-> 0] /\ clock = 0
  /\ since = -1 /\ reads = [k \in ObjectKinds |-> None] /\ objects = None
  /\ proofs = [x \in Records |-> "none"] /\ checked = [x \in Records |-> "none"]
  /\ request = NoRequest /\ manual = Nothing

-----------------------------------------------------------------------------
(* The records                                                             *)

\* uploadEncrypted.
Upload(x) ==
  /\ x \notin uploaded /\ uploaded' = uploaded \cup {x}
  /\ UNCHANGED <<updatedAt, clock, list, table, form>>

\* A row is written, and its time with it.
Write(x) ==
  /\ clock < MaxWrites /\ clock' = clock + 1
  /\ updatedAt' = [updatedAt EXCEPT ![x] = clock + 1]
  /\ UNCHANGED <<uploaded, list, table, form>>

\* markAccepted, recordAssembly, markSubmitted: the root of what was uploaded.
RecordRoot(x) == x \in uploaded /\ updatedAt[x] = 0 /\ Write(x)

\* Any later update of a question or a paper; a session is listed by its
\* submittedAt.
Touch(x) == KindOf[x] # "StudentExamSession" /\ updatedAt[x] # 0 /\ Write(x)

-----------------------------------------------------------------------------
(* The list                                                                *)

Object(x) == [root |-> x, at |-> updatedAt[x]]
Objects(k) == {Object(x) : x \in {y \in Records : KindOf[y] = k /\ updatedAt[y] # 0}}

Newer(S, t) == {o \in S : o.at > t}
Newest(S) == {o \in S : Cardinality(Newer(S, o.at)) < Take}

\* useEffect.
AskList ==
  /\ since = -1 /\ since' = clock
  /\ UNCHANGED <<server, reads, objects, table, form>>

\* listObjects: findMany of one kind, newest first, take.
ReadKind(k) ==
  /\ since # -1 /\ reads[k] = None /\ reads' = [reads EXCEPT ![k] = Newest(Objects(k))]
  /\ UNCHANGED <<server, since, objects, table, form>>

\* listObjects: sort and slice; setObjects.
Listed ==
  /\ \A k \in ObjectKinds : reads[k] # None
  /\ objects = None /\ objects' = Newest(UNION {reads[k] : k \in ObjectKinds})
  /\ UNCHANGED <<server, since, reads, table, form>>

Rows == IF objects = None THEN {} ELSE {o.root : o \in objects}

-----------------------------------------------------------------------------
(* The proof of a root                                                     *)

\* getProof: who has the root, or 404; downloadVerified, which may not reach
\* the indexer.
Owner(root) == IF updatedAt[root] # 0 THEN "owned" ELSE "missing"
Outcomes(root) == {"invalid"} \cup IF root \in uploaded THEN {"valid"} ELSE {}

\* What the row of a root shows.
Cell(x) ==
  IF checked[x] = "pending"      THEN "Verifying"
  ELSE IF checked[x] = "error"   THEN "Request failed"
  ELSE IF checked[x] = "valid"   THEN "Verified"
  ELSE IF checked[x] = "invalid" THEN "Proof failed"
                                 ELSE "Verify"

\* verifyRoot: the button is there until it is clicked.
VerifyRoot(x) ==
  /\ x \in Rows /\ Cell(x) = "Verify"
  /\ checked' = [checked EXCEPT ![x] = "pending"] /\ proofs' = [proofs EXCEPT ![x] = "asked"]
  /\ UNCHANGED <<server, list, form>>

FindOwner(x) ==
  /\ proofs[x] = "asked" /\ proofs' = [proofs EXCEPT ![x] = Owner(x)]
  /\ UNCHANGED <<server, list, checked, form>>
Download(x) ==
  /\ proofs[x] = "owned" /\ \E o \in Outcomes(x) : proofs' = [proofs EXCEPT ![x] = o]
  /\ UNCHANGED <<server, list, checked, form>>

\* setChecked over what the others have set.
Proved(x) ==
  /\ checked[x] = "pending" /\ proofs[x] \in {"valid", "invalid"}
  /\ checked' = [checked EXCEPT ![x] = proofs[x]]
  /\ UNCHANGED <<server, list, proofs, form>>

\* catch: a 404, or a call that failed.
ProofFails(x) ==
  /\ checked[x] = "pending"
  /\ checked' = [checked EXCEPT ![x] = "error"] /\ proofs' = [proofs EXCEPT ![x] = IF @ = "missing" THEN @ ELSE "lost"]
  /\ UNCHANGED <<server, list, form>>

\* verifyManual, of whatever root the field holds.
VerifyManual(x) ==
  /\ ~manual.busy /\ manual' = [Nothing EXCEPT !.busy = TRUE] /\ request' = [root |-> x, at |-> "asked"]
  /\ UNCHANGED <<server, list, table>>

FindManual ==
  /\ request.at = "asked" /\ request' = [request EXCEPT !.at = Owner(request.root)]
  /\ UNCHANGED <<server, list, table, manual>>
DownloadManual ==
  /\ request.at = "owned" /\ \E o \in Outcomes(request.root) : request' = [request EXCEPT !.at = o]
  /\ UNCHANGED <<server, list, table, manual>>

\* setManualResult, finally.
ManualProved ==
  /\ request.at \in {"valid", "invalid"} /\ request' = NoRequest
  /\ manual' = [Nothing EXCEPT !.root = request.root, !.valid = (request.at = "valid")]
  /\ UNCHANGED <<server, list, table>>

\* catch, finally.
ManualFails ==
  /\ manual.busy /\ manual' = [Nothing EXCEPT !.error = TRUE] /\ request' = NoRequest
  /\ UNCHANGED <<server, list, table>>

Next ==
  \/ AskList \/ Listed \/ FindManual \/ DownloadManual \/ ManualProved \/ ManualFails
  \/ \E k \in ObjectKinds : ReadKind(k)
  \/ \E x \in Records :
       \/ Upload(x) \/ RecordRoot(x) \/ Touch(x)
       \/ VerifyRoot(x) \/ FindOwner(x) \/ Download(x) \/ Proved(x) \/ ProofFails(x) \/ VerifyManual(x)

Spec == Init /\ [][Next]_vars

\* What the form shows.
Panel ==
  IF manual.busy             THEN "Downloading and verifying the Merkle proof"
  ELSE IF manual.error       THEN "error"
  ELSE IF manual.root = None THEN "Nothing checked yet"
  ELSE IF manual.valid       THEN "Verified"
                             ELSE "Failed"

-----------------------------------------------------------------------------
(* Properties                                                              *)

States == {"none", "asked", "owned", "missing", "valid", "invalid", "lost"}

TypeOK ==
  /\ uploaded \subseteq Records /\ clock \in 0..MaxWrites /\ updatedAt \in [Records -> 0..clock]
  /\ since \in -1..clock
  /\ \A k \in ObjectKinds : reads[k] = None \/ reads[k] \subseteq [root : Records, at : 1..clock]
  /\ objects = None \/ objects \subseteq [root : Records, at : 1..clock]
  /\ proofs \in [Records -> States]
  /\ checked \in [Records -> {"none", "pending", "valid", "invalid", "error"}]
  /\ request \in [root : Records \cup {None}, at : States]
  /\ manual \in [busy : BOOLEAN, error : BOOLEAN, root : Records \cup {None}, valid : BOOLEAN]

\* Nothing older is listed in place of something newer: a root that was there
\* when the list was asked for, and not written since, is in the list unless
\* the list is full of newer ones, though the three kinds are read one by one
\* while rows are being written, and cut before they are merged.
ListIsNewest ==
  objects # None =>
    /\ Cardinality(objects) <= Take
    /\ \A x \in Records : updatedAt[x] \in 1..since =>
         \/ x \in Rows
         \/ Cardinality(objects) = Take /\ \A o \in objects : o.at > updatedAt[x]

\* Whatever order the answers come in, each root keeps the answer to its own
\* request, a root that is listed is never said to be unknown, and the form
\* waits only for a request that is under way.
EachProofIsShown ==
  /\ \A x \in Records :
       /\ checked[x] = "none" <=> proofs[x] = "none"
       /\ checked[x] \in {"valid", "invalid"} => proofs[x] = checked[x]
       /\ checked[x] = "error" => proofs[x] = "lost"
  /\ manual.busy <=> request.at # "none"

\* What is shown as verified is on 0G Storage, as the blob of a record.
ProvedIsStored ==
  /\ \A x \in Records : Cell(x) = "Verified" => x \in uploaded /\ updatedAt[x] # 0
  /\ Panel \in {"Verified", "Failed"} => updatedAt[manual.root] # 0
  /\ Panel = "Verified" => manual.root \in uploaded
=============================================================================
