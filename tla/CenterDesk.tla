----------------------------- MODULE CenterDesk -----------------------------
(***************************************************************************)
(* An examination center's page (CenterHome.tsx) over center.service.ts    *)
(* and examPC.repository.ts: machines that report themselves, and the      *)
(* question whether the center may start a paper.  Papers become ready as  *)
(* time passes (PaperGeneration says how).                                 *)
(***************************************************************************)
EXTENDS Integers

CONSTANTS
  Machines,   \* machine codes
  Exams,      \* papers
  StartAt, CloseAt, \* their windows
  LastHour,   \* bound: the time
  None

VARIABLES
  hour, ready,               \* the time; the papers that are READY
  pcs,                       \* ExamPC: the machines, all ONLINE
  dashboard, loadError,      \* what the page got of the center
  machineCode, paperId,      \* the two fields
  auth, authError, waiting,  \* the authorization shown; busy
  call,                      \* the call under way
  told,                      \* history: the machines this page has reported
  missed                     \* history: a call of its last report failed

world  == <<hour, ready>>
center == <<dashboard, loadError>>
check  == <<auth, authError>>
history == <<told, missed>>
vars == <<world, pcs, center, machineCode, paperId, check, waiting, call, history>>

NoAuth == [paper |-> None, authorized |-> FALSE, at |-> 0]
Call(at, of) == [at |-> at, of |-> of, answer |-> NoAuth, pcs |-> {}]
Idle == Call("idle", None)

Init ==
  /\ hour = 0 /\ ready = {} /\ pcs = {}
  /\ dashboard = None /\ loadError = FALSE
  /\ machineCode \in Machines /\ paperId = None
  /\ auth = NoAuth /\ authError = FALSE /\ waiting = FALSE
  /\ call = Call("dashboard", None) /\ told = {} /\ missed = FALSE

-----------------------------------------------------------------------------
(* The server                                                              *)

Tick ==
  /\ hour < LastHour /\ hour' = hour + 1
  /\ UNCHANGED <<ready, pcs, center, machineCode, paperId, check, waiting, call, history>>

\* paperRepository.markReady
MakeReady(p) ==
  /\ p \notin ready /\ ready' = ready \cup {p}
  /\ UNCHANGED <<hour, pcs, center, machineCode, paperId, check, waiting, call, history>>

\* getDashboard: the machines, and those of them that are ONLINE, which no
\* code ever takes back.
ServeDashboard ==
  /\ call.at = "dashboard" /\ call' = [call EXCEPT !.at = "listed", !.pcs = pcs]
  /\ UNCHANGED <<world, pcs, center, machineCode, paperId, check, waiting, history>>

\* heartbeat: upsertHeartbeat.
ServeHeartbeat ==
  /\ call.at = "heartbeat" /\ pcs' = pcs \cup {call.of} /\ call' = [call EXCEPT !.at = "beaten"]
  /\ UNCHANGED <<world, center, machineCode, paperId, check, waiting, history>>

\* The same, from another of the center's windows.
ElsewhereHeartbeat(m) ==
  /\ m \notin pcs /\ pcs' = pcs \cup {m}
  /\ UNCHANGED <<world, center, machineCode, paperId, check, waiting, call, history>>

Authorized(p) == p \in ready /\ StartAt[p] <= hour /\ hour <= CloseAt[p]

\* checkAuthorization
ServeCheck ==
  /\ call.at = "check"
  /\ call' = [call EXCEPT !.at = "checked", !.answer = [paper |-> call.of, authorized |-> Authorized(call.of), at |-> hour]]
  /\ UNCHANGED <<world, pcs, center, machineCode, paperId, check, waiting, history>>

-----------------------------------------------------------------------------
(* The page                                                                *)

\* refresh: setDashboard; when onHeartbeat awaits it, finally.
Refreshed ==
  /\ call.at = "listed" /\ dashboard' = call.pcs /\ call' = Idle /\ waiting' = FALSE
  /\ UNCHANGED <<world, pcs, loadError, machineCode, paperId, check, history>>

\* refresh: its catch, which nothing takes back.
RefreshFails ==
  /\ call.at = "dashboard" /\ loadError' = TRUE /\ call' = Idle /\ waiting' = FALSE /\ missed' = TRUE
  /\ UNCHANGED <<told, world, pcs, dashboard, machineCode, paperId, check>>

\* The fields; a new paper id takes the last answer away, but not a check
\* that is under way.
TypeMachine(m) ==
  /\ dashboard # None /\ machineCode # m /\ machineCode' = m
  /\ UNCHANGED <<world, pcs, center, paperId, check, waiting, call, history>>
TypePaper(p) ==
  /\ dashboard # None /\ paperId # p /\ paperId' = p /\ auth' = NoAuth /\ authError' = FALSE
  /\ UNCHANGED <<world, pcs, center, machineCode, waiting, call, history>>

\* onHeartbeat
Heartbeat ==
  /\ dashboard # None /\ ~waiting /\ call = Idle
  /\ waiting' = TRUE /\ call' = Call("heartbeat", machineCode) /\ missed' = FALSE
  /\ UNCHANGED <<told, world, pcs, center, machineCode, paperId, check>>

\* Fault: the list is not fetched again.
BeatenOnly ==
  /\ call.at = "beaten" /\ call' = Idle /\ waiting' = FALSE /\ told' = told \cup {call.of}
  /\ UNCHANGED <<world, pcs, center, machineCode, paperId, check, missed>>

\* onHeartbeat, after the first await: refresh.
Beaten ==
  /\ call.at = "beaten" /\ call' = [call EXCEPT !.at = "dashboard"] /\ told' = told \cup {call.of}
  /\ UNCHANGED <<world, pcs, center, machineCode, paperId, check, waiting, missed>>

\* The POST fails, before or after it was served; nothing says so.
HeartbeatFails ==
  /\ call.at \in {"heartbeat", "beaten"} /\ call' = Idle /\ waiting' = FALSE /\ missed' = TRUE
  /\ UNCHANGED <<told, world, pcs, center, machineCode, paperId, check>>

\* onCheckAuth
Check ==
  /\ dashboard # None /\ ~waiting /\ call = Idle /\ paperId # None
  /\ waiting' = TRUE /\ authError' = FALSE /\ call' = Call("check", paperId)
  /\ UNCHANGED <<world, pcs, center, machineCode, paperId, auth, history>>

\* setAuth, finally.
Checked ==
  /\ call.at = "checked" /\ auth' = call.answer /\ call' = Idle /\ waiting' = FALSE
  /\ UNCHANGED <<world, pcs, center, machineCode, paperId, authError, history>>

\* catch, finally.
CheckFails ==
  /\ call.at = "check" /\ auth' = NoAuth /\ authError' = TRUE /\ call' = Idle /\ waiting' = FALSE
  /\ UNCHANGED <<world, pcs, center, machineCode, paperId, history>>

Next ==
  \/ Tick \/ ServeDashboard \/ ServeHeartbeat \/ ServeCheck
  \/ Refreshed \/ RefreshFails \/ Heartbeat \/ Beaten \/ HeartbeatFails \/ Check \/ Checked \/ CheckFails
  \/ \E m \in Machines : TypeMachine(m) \/ ElsewhereHeartbeat(m)
  \/ \E p \in Exams : MakeReady(p) \/ TypePaper(p)

Spec == Init /\ [][Next]_vars

\* What the page says of the paper.
Release ==
  IF authError            THEN "error"
  ELSE IF auth = NoAuth   THEN "nothing"
  ELSE IF auth.authorized THEN "Authorized to start"
                          ELSE "Not authorized"

-----------------------------------------------------------------------------
(* Properties                                                              *)

TypeOK ==
  /\ hour \in 0..LastHour /\ ready \subseteq Exams /\ pcs \subseteq Machines
  /\ dashboard \in SUBSET Machines \cup {None} /\ machineCode \in Machines /\ paperId \in Exams \cup {None}
  /\ auth \in [paper : Exams \cup {None}, authorized : BOOLEAN, at : 0..LastHour]
  /\ call.at \in {"idle", "dashboard", "listed", "heartbeat", "beaten", "check", "checked"}
  /\ loadError \in BOOLEAN /\ authError \in BOOLEAN /\ waiting \in BOOLEAN /\ missed \in BOOLEAN
  /\ told \subseteq pcs

\* Once the page waits for nothing, every machine it reported is in its list,
\* unless a call of the last report failed; and the list has no machine that
\* never reported itself.
HeartbeatIsSeen ==
  dashboard # None =>
    /\ dashboard \subseteq pcs
    /\ call = Idle /\ ~missed => told \subseteq dashboard

\* (Not so.)  The authorization shown is that of the paper id above it.
AuthorizationIsOfPaper == auth # NoAuth => auth.paper = paperId

\* (Not so.)  "Authorized to start": now.
AuthorizationIsNow == Release = "Authorized to start" => Authorized(auth.paper)
=============================================================================
