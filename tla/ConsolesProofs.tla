---------------------------- MODULE ConsolesProofs ----------------------------
(***************************************************************************)
(* Proofs about the pages.                                                 *)
(***************************************************************************)
EXTENDS Consoles, SequenceTheorems, FiniteSetTheorems, WellFoundedInduction, TLAPS

-----------------------------------------------------------------------------
(* Signing in                                                              *)

\* Every login has an account; a login whose reply is on its way, or is being
\* stored, has its row, and so has the login of the stored token; the stored role
\* is that of some login that has a row.
LoginRecords ==
  [at : {"none", "sent", "valid", "invalid", "accepted", "keeping", "refused", "done"},
   tab : Tabs \cup {Nobody}, account : Roles \cup {Nobody}, mounted : BOOLEAN]
LoginTypes ==
  /\ logins \in [Login!Logins -> LoginRecords]
  /\ store \in [token : Login!Logins \cup {0}, role : Roles \cup {Nobody}]
AcceptedIsRecorded == \A n \in Login!Logins : logins[n].at \in {"accepted", "keeping"} => n \in recorded
RecordedIsSent == recorded \subseteq Login!Logins /\ \A n \in recorded : logins[n].at # "none"
StoreIsRecorded ==
  /\ store.token # 0 => store.token \in recorded
  /\ store.role # Nobody => \E n \in recorded : logins[n].account = store.role
SessionInv == LoginTypes /\ AcceptedIsRecorded /\ RecordedIsSent /\ StoreIsRecorded

LEMMA SessionInit == Init => SessionInv
  BY BoundsAssumption DEF Init, Login!Init, Login!NoLogin, Login!NoStore, Login!Logins,
     SessionInv, LoginTypes, LoginRecords, AcceptedIsRecorded, RecordedIsSent, StoreIsRecorded

\* What a page that goes does to its logins is nothing to their state or account.
LEMMA LeavingKeepsLogins ==
  ASSUME LoginTypes, NEW t \in Tabs, NEW n \in Login!Logins
  PROVE  /\ Login!Leaves(t)[n].at = logins[n].at /\ Login!Leaves(t)[n].account = logins[n].account
         /\ Login!Forgets(t)[n].at = logins[n].at /\ Login!Forgets(t)[n].account = logins[n].account
  BY DEF LoginTypes, LoginRecords, Login!Leaves, Login!Forgets

LEMMA LeavingKeepsTypes ==
  ASSUME LoginTypes, NEW t \in Tabs
  PROVE  /\ Login!Leaves(t) \in [Login!Logins -> LoginRecords]
         /\ Login!Forgets(t) \in [Login!Logins -> LoginRecords]
<1>1. \A n \in Login!Logins : logins[n] \in LoginRecords
  BY DEF LoginTypes
<1>2. Login!Leaves(t) \in [Login!Logins -> LoginRecords]
  BY <1>1 DEF LoginRecords, Login!Leaves
<1>3. Login!Forgets(t) \in [Login!Logins -> LoginRecords]
  <2>1. ASSUME NEW n \in Login!Logins PROVE Login!Forgets(t)[n] \in LoginRecords
    <3>1. Login!Leaves(t)[n] \in LoginRecords
      BY <1>2, <2>1
    <3>2. [Login!Leaves(t)[n] EXCEPT !.tab = Nobody] \in LoginRecords
      BY <3>1 DEF LoginRecords
    <3> QED
      BY <1>1, <2>1, <3>2 DEF Login!Forgets
  <2> QED
    BY <2>1 DEF Login!Forgets
<1> QED
  BY <1>2, <1>3

\* Rows are only added, and a login that has one keeps its account.
LEMMA RecordedStaysSo ==
  ASSUME SessionInv, LoginTypes', recorded \subseteq recorded', recorded' \subseteq Login!Logins,
         \A n \in recorded' : logins'[n].at # "none",
         \A n \in Login!Logins : logins[n].at # "none" => logins'[n].account = logins[n].account,
         \A n \in Login!Logins : logins'[n].at \in {"accepted", "keeping"} => n \in recorded',
         store'.token \in recorded' \cup {0, store.token},
         store'.role # Nobody /\ store'.role # store.role => \E n \in recorded : logins[n].account = store'.role
  PROVE  SessionInv'
<1>1. store'.role # Nobody => \E n \in recorded' : logins'[n].account = store'.role
  <2> SUFFICES ASSUME store'.role # Nobody PROVE \E n \in recorded' : logins'[n].account = store'.role OBVIOUS
  <2>1. PICK n \in recorded : logins[n].account = store'.role BY DEF SessionInv, StoreIsRecorded
  <2> QED BY <2>1 DEF SessionInv, RecordedIsSent
<1> QED BY <1>1 DEF SessionInv, AcceptedIsRecorded, RecordedIsSent, StoreIsRecorded

LEMMA SessionStep == SessionInv /\ [Next]_vars => SessionInv'
<1> USE BoundsAssumption
<1>0. SUFFICES ASSUME SessionInv, page = "login", Login!Next PROVE SessionInv'
  <2>1. ASSUME SessionInv, UNCHANGED loginVars PROVE SessionInv'
    BY <2>1 DEF SessionInv, LoginTypes, AcceptedIsRecorded, RecordedIsSent, StoreIsRecorded, loginVars
  <2> QED BY <1>0, <2>1 DEF Next, vars
<1>a. LoginTypes /\ AcceptedIsRecorded /\ RecordedIsSent BY <1>0 DEF SessionInv
<1>1. CASE Login!Expire
  BY <1>0, <1>1 DEF Login!Expire, SessionInv, LoginTypes, AcceptedIsRecorded, RecordedIsSent, StoreIsRecorded
<1>2. ASSUME NEW n \in Login!Logins,
             Login!Lookup(n) \/ Login!Record(n) \/ Login!LoginFails(n)
      PROVE SessionInv'
  <2>1. PICK x \in {"valid", "invalid", "accepted", "refused"} : logins' = [logins EXCEPT ![n].at = x]
    BY <1>2 DEF Login!Lookup, Login!Record, Login!LoginFails
  <2>2. store' = store /\ (x = "accepted" => n \in recorded') /\ recorded' \in {recorded, recorded \cup {n}}
    BY <1>2, <1>a, <2>1 DEF Login!Lookup, Login!Record, Login!LoginFails, LoginTypes, LoginRecords
  <2>3. LoginTypes' BY <1>a, <2>1, <2>2 DEF LoginTypes, LoginRecords
  <2>4. \A o \in Login!Logins : /\ logins'[o].account = logins[o].account
                                /\ o # n => logins'[o].at = logins[o].at
                                /\ o = n => logins'[o].at = x
    BY <1>a, <2>1 DEF LoginTypes, LoginRecords
  <2>5. \A o \in recorded' : logins'[o].at # "none" BY <1>a, <2>1, <2>2, <2>4 DEF RecordedIsSent
  <2>6. \A o \in Login!Logins : logins'[o].at \in {"accepted", "keeping"} => o \in recorded'
    BY <1>a, <2>1, <2>2, <2>4 DEF AcceptedIsRecorded
  <2> QED BY <1>0, <1>2, <1>a, <2>2, <2>3, <2>4, <2>5, <2>6, RecordedStaysSo DEF RecordedIsSent
<1>3. ASSUME NEW n \in Login!Logins, Login!KeepToken(n) PROVE SessionInv'
  <2>1. /\ n \in recorded /\ recorded' = recorded /\ store' = [store EXCEPT !.token = n]
        /\ logins' = [logins EXCEPT ![n].at = "keeping"]
    BY <1>3, <1>a DEF Login!KeepToken, AcceptedIsRecorded
  <2>2. LoginTypes' /\ store'.token = n /\ store'.role = store.role
    BY <1>a, <2>1 DEF LoginTypes, LoginRecords
  <2>3. \A o \in Login!Logins : /\ logins'[o].account = logins[o].account
                                /\ o # n => logins'[o].at = logins[o].at
                                /\ o = n => logins'[o].at = "keeping"
    BY <1>a, <2>1 DEF LoginTypes, LoginRecords
  <2> QED BY <1>0, <1>a, <2>1, <2>2, <2>3, RecordedStaysSo DEF RecordedIsSent, AcceptedIsRecorded
<1>4. ASSUME NEW n \in Login!Logins, Login!SignedIn(n) PROVE SessionInv'
  <2> DEFINE t == logins[n].tab
  <2>0. t \in Tabs BY <1>4 DEF Login!SignedIn
  <2>1. n \in recorded /\ recorded' = recorded /\ store' = [store EXCEPT !.role = logins[n].account]
    BY <1>4, <1>a DEF Login!SignedIn, AcceptedIsRecorded
  <2>2. logins' = [o \in Login!Logins |-> IF o = n THEN Login!Done(n)[n] ELSE Login!Leaves(t)[o]]
    BY <1>4 DEF Login!SignedIn
  <2>3. Login!Done(n)[n] = [at |-> "done", tab |-> Nobody, account |-> logins[n].account, mounted |-> FALSE]
    BY <1>a DEF Login!Done, Login!NoLogin, LoginTypes
  <2>4. logins' \in [Login!Logins -> LoginRecords]
    <3>1. Login!Leaves(t) \in [Login!Logins -> LoginRecords] BY <2>0, <1>a, LeavingKeepsTypes
    <3>2. logins[n].account \in Roles \cup {Nobody} BY <1>a DEF LoginTypes, LoginRecords
    <3>3. Login!Done(n)[n] \in LoginRecords BY <2>3, <3>2 DEF LoginRecords
    <3> QED BY <2>2, <3>1, <3>3
  <2>5. \A o \in Login!Logins : /\ logins'[o].account = logins[o].account
                                /\ o # n => logins'[o].at = logins[o].at
                                /\ o = n => logins'[o].at = "done"
    BY <2>0, <1>a, <2>2, <2>3, LeavingKeepsLogins
  <2>6. LoginTypes' /\ store'.token = store.token /\ store'.role = logins[n].account
    BY <1>a, <2>1, <2>4 DEF LoginTypes, LoginRecords
  <2> QED BY <1>0, <1>a, <2>1, <2>5, <2>6, RecordedStaysSo DEF RecordedIsSent, AcceptedIsRecorded
<1>5. ASSUME NEW n \in Login!Logins, Login!Refused(n) PROVE SessionInv'
  <2>1. logins' = Login!Done(n) /\ store' = store /\ recorded' = recorded BY <1>5 DEF Login!Refused
  <2>2. /\ logins'[n] = [at |-> "done", tab |-> Nobody, account |-> logins[n].account, mounted |-> FALSE]
        /\ \A o \in Login!Logins : o # n => logins'[o] = logins[o]
        /\ DOMAIN logins' = Login!Logins /\ logins' = [o \in Login!Logins |-> logins'[o]]
    BY <1>a, <2>1 DEF Login!Done, Login!NoLogin, LoginTypes
  <2>3. LoginTypes'
    <3>1. \A o \in Login!Logins : logins[o] \in LoginRecords BY <1>a DEF LoginTypes
    <3>2. logins[n].account \in Roles \cup {Nobody} BY <3>1 DEF LoginRecords
    <3>3. logins'[n] \in LoginRecords BY <2>2, <3>2 DEF LoginRecords
    <3> QED BY <1>a, <2>1, <2>2, <3>1, <3>3 DEF LoginTypes
  <2>4. \A o \in Login!Logins : /\ logins'[o].account = logins[o].account
                                /\ o # n => logins'[o].at = logins[o].at
                                /\ o = n => logins'[o].at = "done"
    BY <2>2
  <2> QED BY <1>0, <1>a, <2>1, <2>3, <2>4, RecordedStaysSo DEF RecordedIsSent, AcceptedIsRecorded
<1>6. ASSUME NEW t \in Tabs, Login!UseDemoAccount(t) \/ Login!Ask(t) \/ Login!Answer(t) PROVE SessionInv'
  BY <1>0, <1>6 DEF Login!UseDemoAccount, Login!Ask, Login!Answer, SessionInv, LoginTypes, AcceptedIsRecorded,
                    RecordedIsSent, StoreIsRecorded
<1>7. ASSUME NEW t \in Tabs, Login!SignOut(t) \/ Login!SignedOut(t) PROVE SessionInv'
  <2>1. /\ logins' = logins /\ recorded' = recorded
        /\ store' \in {[store EXCEPT !.token = 0], [store EXCEPT !.role = Nobody]}
    BY <1>7 DEF Login!SignOut, Login!SignedOut
  <2>2. LoginTypes' BY <1>a, <2>1 DEF LoginTypes
  <2>3. store'.token \in {0, store.token} /\ store'.role \in {Nobody, store.role} BY <1>a, <2>1 DEF LoginTypes
  <2> QED BY <1>0, <1>a, <2>1, <2>2, <2>3, RecordedStaysSo DEF RecordedIsSent, AcceptedIsRecorded
<1>8. ASSUME NEW t \in Tabs, NEW n \in Login!Logins, NEW a \in Roles \cup {Nobody}, Login!Submit(t, n, a)
      PROVE SessionInv'
  <2>1. /\ logins' = [logins EXCEPT ![n] = [at |-> "sent", tab |-> t, account |-> a, mounted |-> TRUE]]
        /\ store' = store /\ recorded' = recorded
    BY <1>8 DEF Login!Submit
  <2>2. logins[n].at = "none"
    <3>1. (n < n) <=> logins[n].at # "none" BY <1>8 DEF Login!Submit
    <3> QED BY <3>1 DEF Login!Logins
  <2>3. LoginTypes' BY <1>a, <2>1 DEF LoginTypes, LoginRecords
  <2>4. \A o \in Login!Logins : /\ o # n => logins'[o] = logins[o]
                                /\ o = n => logins'[o].at = "sent"
    BY <1>a, <2>1 DEF LoginTypes
  <2> QED BY <1>0, <1>a, <2>1, <2>2, <2>3, <2>4, RecordedStaysSo DEF RecordedIsSent, AcceptedIsRecorded
<1>9. ASSUME NEW t \in Tabs, NEW p \in {"login", "site"} \cup Roles, Login!Follow(t, p) \/ Login!Load(t, p)
      PROVE SessionInv'
  <2>1. logins' \in {Login!Leaves(t), Login!Forgets(t)} /\ store' = store /\ recorded' = recorded
    BY <1>9 DEF Login!Follow, Login!Load
  <2>2. \A o \in Login!Logins : logins'[o].at = logins[o].at /\ logins'[o].account = logins[o].account
    BY <1>a, <2>1, LeavingKeepsLogins
  <2>3. LoginTypes' BY <1>a, <2>1, LeavingKeepsTypes DEF LoginTypes
  <2> QED BY <1>0, <1>a, <2>1, <2>2, <2>3, RecordedStaysSo DEF RecordedIsSent, AcceptedIsRecorded
<1> QED BY <1>0, <1>1, <1>2, <1>3, <1>4, <1>5, <1>6, <1>7, <1>8, <1>9 DEF Login!Next

\* The token and the role that a browser keeps are of logins whose rows were
\* written before their replies were sent.
THEOREM SessionRecorded == Spec => []SessionIsRecorded
<1>1. SessionInv => SessionIsRecorded BY DEF SessionInv, StoreIsRecorded, SessionIsRecorded, Login!SessionIsRecorded
<1> QED BY SessionInit, SessionStep, <1>1, PTL DEF Spec

-----------------------------------------------------------------------------
(* The live log                                                            *)

HubInv ==
  /\ links \in [Log!Connections -> {"none", "open", "closed"}]
  /\ subscribers \subseteq Log!Connections /\ Log!HubForgetsTheGone

\* No socket that the server has seen close is in the hub's channel.
THEOREM HubForgets == Spec => []HubForgetsTheGone
<1> USE DEF HubInv, Log!HubForgetsTheGone, Log!database, Log!network, Log!hub, Log!view
<1>1. Init => HubInv BY DEF Init, Log!Init
<1>2. HubInv /\ [Next]_vars => HubInv'
  <2>0. SUFFICES ASSUME HubInv, page = "log", Log!Next PROVE HubInv'
    <3>1. ASSUME HubInv, UNCHANGED logVars PROVE HubInv' BY <3>1 DEF logVars
    <3> QED BY <2>0, <3>1 DEF Next, vars
  <2>1. CASE Log!Create \/ Log!Unmount BY <2>0, <2>1 DEF Log!Create, Log!Unmount
  <2>2. CASE Log!Restart BY <2>0, <2>2 DEF Log!Restart
  <2>3. ASSUME NEW r \in 1..MaxRows, Log!Publish(r) PROVE HubInv' BY <2>0, <2>3 DEF Log!Publish
  <2>4. ASSUME NEW s \in Log!Connections, Log!Subscribe(s) PROVE HubInv' BY <2>0, <2>4 DEF Log!Subscribe
  <2>5. ASSUME NEW s \in Log!Connections, Log!Forget(s) PROVE HubInv' BY <2>0, <2>5 DEF Log!Forget
  <2>6. ASSUME NEW s \in Log!Connections, Log!Connected(s) PROVE HubInv' BY <2>0, <2>6 DEF Log!Connected
  <2>7. ASSUME NEW s \in Log!Connections, Log!Mount(s) \/ Log!Message(s) \/ Log!Break(s) PROVE HubInv'
    BY <2>0, <2>7 DEF Log!Mount, Log!Message, Log!Break
  <2> QED BY <2>0, <2>1, <2>2, <2>3, <2>4, <2>5, <2>6, <2>7 DEF Log!Next
<1>3. HubInv => HubForgetsTheGone BY DEF HubForgetsTheGone
<1> QED BY <1>1, <1>2, <1>3, PTL DEF Spec

-----------------------------------------------------------------------------
(* The examination center                                                  *)

\* Up to a report's second answer the list may miss the machine reported; the
\* list that is on its way does not, nor does one that no failure left behind.
CenterTypes ==
  /\ DOMAIN call = {"at", "of", "answer", "pcs"}
  /\ pcs \subseteq Machines /\ machineCode \in Machines
ReportsAreKept ==
  /\ told \subseteq pcs /\ call.pcs \subseteq pcs
  /\ call.at = "heartbeat" => call.of \in Machines
  /\ call.at = "beaten" => call.of \in pcs
  /\ call.at = "listed" => told \subseteq call.pcs
  /\ dashboard # None => dashboard \subseteq pcs
  /\ dashboard # None /\ ~missed /\ call.at \in {"idle", "check", "checked"} => told \subseteq dashboard
CenterInv == CenterTypes /\ ReportsAreKept

\* When the page waits for nothing, every machine that it reported is in its
\* list, unless a call of the last report failed.
THEOREM HeartbeatSeen == Spec => []HeartbeatIsSeen
<1> USE ConstantsAssumption, WindowsAssumption
    DEF CenterInv, ReportsAreKept, Center!world, Center!center, Center!check, Center!history, Center!Idle, Center!Call, Center!NoAuth
<1>1. Init => CenterInv BY DEF Init, Center!Init, CenterTypes
<1>2. CenterInv /\ [Next]_vars => CenterInv'
  <2>0. SUFFICES ASSUME CenterInv, page = "center", Center!Next PROVE CenterInv'
    <3>1. ASSUME CenterInv, UNCHANGED centerVars PROVE CenterInv' BY <3>1 DEF centerVars, CenterTypes
    <3> QED BY <2>0, <3>1 DEF Next, vars
  <2>1. CASE Center!Tick BY <2>0, <2>1 DEF Center!Tick, CenterTypes
  <2>2. CASE Center!ServeDashboard BY <2>0, <2>2 DEF Center!ServeDashboard, CenterTypes
  <2>3. CASE Center!ServeHeartbeat BY <2>0, <2>3 DEF Center!ServeHeartbeat, CenterTypes
  <2>4. CASE Center!ServeCheck BY <2>0, <2>4 DEF Center!ServeCheck, Center!Authorized, CenterTypes
  <2>5. CASE Center!Refreshed \/ Center!RefreshFails BY <2>0, <2>5 DEF Center!Refreshed, Center!RefreshFails, CenterTypes
  <2>6. CASE Center!Heartbeat \/ Center!HeartbeatFails BY <2>0, <2>6 DEF Center!Heartbeat, Center!HeartbeatFails, CenterTypes
  <2>7. CASE Center!Beaten BY <2>0, <2>7 DEF Center!Beaten, CenterTypes
  <2>8. CASE Center!Check BY <2>0, <2>8 DEF Center!Check, CenterTypes
  <2>9. CASE Center!Checked \/ Center!CheckFails BY <2>0, <2>9 DEF Center!Checked, Center!CheckFails, CenterTypes
  <2>10. ASSUME NEW m \in Machines, Center!TypeMachine(m) \/ Center!ElsewhereHeartbeat(m) PROVE CenterInv'
    BY <2>0, <2>10 DEF Center!TypeMachine, Center!ElsewhereHeartbeat, CenterTypes
  <2>11. ASSUME NEW p \in Exams, Center!MakeReady(p) \/ Center!TypePaper(p) PROVE CenterInv'
    BY <2>0, <2>11 DEF Center!MakeReady, Center!TypePaper, CenterTypes
  <2> QED BY <2>0, <2>1, <2>2, <2>3, <2>4, <2>5, <2>6, <2>7, <2>8, <2>9, <2>10, <2>11 DEF Center!Next
<1>3. CenterInv => HeartbeatIsSeen BY DEF HeartbeatIsSeen, Center!HeartbeatIsSeen
<1> QED BY <1>1, <1>2, <1>3, PTL DEF Spec

-----------------------------------------------------------------------------
(* The observer                                                            *)

Covers == panel = <<"observer", "coverage">>

\* The coverage panel reads every figure of every kind.
LEMMA CoverageReads ==
  ASSUME Covers PROVE Watch!Reads = Watch!Summary
<1>1. panel \in Watch!ObserverPanels /\ panel[2] = "coverage" BY DEF Covers, Watch!ObserverPanels, Watch!ObserverReads
<1>2. panel[1] = "observer" BY DEF Covers
<1>3. panel \notin Watch!OverviewPanels BY <1>2 DEF Watch!OverviewPanels
<1>4. panel \notin Watch!HealthPanels BY <1>1 DEF Watch!HealthPanels
<1>5. Watch!ObserverReads[panel[2]] = Watch!Summary BY <1>1 DEF Watch!ObserverReads
<1> QED BY <1>1, <1>3, <1>4, <1>5 DEF Watch!Reads

LEMMA FigureNames ==
  /\ \A k \in Kinds : Watch!Recorded(k) \in Watch!Figures /\ Watch!Anchored(k) \in Watch!Figures
  /\ \A k \in Kinds : Watch!Recorded(k) \in Watch!Summary /\ Watch!Anchored(k) \in Watch!Summary
  /\ \A k, l \in Kinds : Watch!Recorded(k) # Watch!Anchored(l)
  /\ \A k, l \in Kinds : Watch!Recorded(k) = Watch!Recorded(l) => k = l
  /\ \A k \in Kinds : Watch!Recorded(k) # Watch!Other /\ Watch!Anchored(k) # Watch!Other
  BY DEF Watch!Figures, Watch!Summary, Watch!Recorded, Watch!Anchored, Watch!Other

\* The figures only grow, and no kind but papers has more records than
\* anchors: neither now nor when the page asked.
FiguresInv ==
  /\ truth \in [Watch!Figures -> Nat] /\ asked \in [Watch!Figures -> Nat]
  /\ \A f \in Watch!Figures : asked[f] <= truth[f]
  /\ \A k \in Kinds \ {Papers} :
       /\ truth[Watch!Recorded(k)] <= truth[Watch!Anchored(k)]
       /\ asked[Watch!Recorded(k)] <= asked[Watch!Anchored(k)]

\* What was read was read after the page asked.
ReadingInv ==
  /\ \A f \in DOMAIN reading : f \in Watch!Figures /\ reading[f] \in Nat /\ asked[f] <= reading[f]
  /\ request = "none" => DOMAIN reading = {}
  /\ answer # Watch!Nothing => request = "answered" /\ answer = reading /\ DOMAIN reading = Watch!Summary
WatchInv == Covers => FiguresInv /\ ReadingInv

LEMMA WatchInit == Init => WatchInv
<1> SUFFICES ASSUME Init, Covers PROVE FiguresInv /\ ReadingInv BY DEF WatchInv
<1>1. truth = [f \in Watch!Figures |-> 0] /\ asked = truth /\ request = "none" /\ answer = Watch!Nothing
      /\ reading = Watch!Nothing
  BY DEF Init, Watch!Init
<1>2. DOMAIN Watch!Nothing = {} BY DEF Watch!Nothing
<1>3. FiguresInv BY <1>1, FigureNames DEF FiguresInv
<1>4. ReadingInv BY <1>1, <1>2 DEF ReadingInv
<1> QED BY <1>3, <1>4

LEMMA WatchStep == WatchInv /\ [Next]_vars => WatchInv'
<1> USE DEF Watch!server, Watch!fetch, Watch!chrome
<1>0. SUFFICES ASSUME Covers, FiguresInv, ReadingInv, page = "watch", Watch!Next, panel' = panel
               PROVE  FiguresInv' /\ ReadingInv'
  <2>1. ASSUME WatchInv, UNCHANGED watchVars PROVE WatchInv'
    BY <2>1 DEF WatchInv, FiguresInv, ReadingInv, Covers, watchVars
  <2>2. Watch!Next => panel' = panel
    BY DEF Watch!Next, Watch!Anchor, Watch!Record, Watch!Write, Watch!Turn, Watch!Block, Watch!Ask, Watch!Count, Watch!Check,
           Watch!Answered, Watch!Lost, Watch!Load, Watch!Serve, Watch!Heard, Watch!Unheard
  <2> QED BY <1>0, <2>1, <2>2 DEF Next, vars, WatchInv, Covers
<1>1. Watch!Reads = Watch!Summary BY <1>0, CoverageReads
<1>2. panel \notin Watch!HealthPanels /\ panel # Watch!Badge
  <2>1. panel[1] = "observer" /\ panel[2] = "coverage" BY <1>0 DEF Covers
  <2> QED BY <2>1 DEF Watch!HealthPanels, Watch!Badge
<1>3. ASSUME NEW k \in Kinds, Watch!Anchor(k) PROVE FiguresInv' /\ ReadingInv'
  <2>1. truth' = [truth EXCEPT ![Watch!Anchored(k)] = @ + 1] /\ UNCHANGED <<request, asked, reading, answer>>
    BY <1>3 DEF Watch!Anchor, Watch!Grow
  <2>2. FiguresInv' BY <1>0, <2>1, FigureNames DEF FiguresInv
  <2> QED BY <1>0, <2>1, <2>2 DEF ReadingInv
<1>4. ASSUME NEW k \in Kinds, Watch!Record(k) PROVE FiguresInv' /\ ReadingInv'
  <2>1. truth' = [truth EXCEPT ![Watch!Recorded(k)] = @ + 1] /\ UNCHANGED <<request, asked, reading, answer>>
    BY <1>4 DEF Watch!Record, Watch!Grow
  <2>2. k # Papers => truth[Watch!Recorded(k)] < truth[Watch!Anchored(k)]
    BY <1>1, <1>4, FigureNames DEF Watch!Record
  <2>3. FiguresInv' BY <1>0, <2>1, <2>2, FigureNames DEF FiguresInv
  <2> QED BY <1>0, <2>1, <2>3 DEF ReadingInv
<1>5. CASE Watch!Ask
  <2>1. request = "none" /\ request' = "asked" /\ asked' = truth /\ UNCHANGED <<truth, reading, answer>>
    BY <1>5 DEF Watch!Ask
  <2> QED BY <1>0, <2>1 DEF FiguresInv, ReadingInv
<1>6. ASSUME NEW f \in Watch!Figures, Watch!Count(f) PROVE FiguresInv' /\ ReadingInv'
  <2>1. request = "asked" /\ UNCHANGED <<truth, request, asked, answer>>
        /\ reading' = [g \in DOMAIN reading \cup {f} |-> IF g = f THEN truth[f] ELSE reading[g]]
    BY <1>6 DEF Watch!Count
  <2>2. FiguresInv' BY <1>0, <2>1 DEF FiguresInv
  <2>3. answer = Watch!Nothing BY <1>0, <2>1 DEF ReadingInv
  <2> QED BY <1>0, <2>1, <2>2, <2>3 DEF FiguresInv, ReadingInv, Watch!Nothing
<1>7. CASE Watch!Answered
  <2>1. request = "asked" /\ request' = "answered" /\ answer' = reading /\ DOMAIN reading = Watch!Summary
        /\ UNCHANGED <<truth, asked, reading>>
    BY <1>1, <1>7 DEF Watch!Answered
  <2> QED BY <1>0, <2>1 DEF FiguresInv, ReadingInv
<1>8. CASE Watch!Write
  BY <1>1, <1>8 DEF Watch!Write, Watch!Grow, Watch!Summary
<1>9. CASE Watch!Lost
  <2>1. request = "asked" /\ request' = "failed" /\ UNCHANGED <<truth, asked, reading, answer>>
    BY <1>9 DEF Watch!Lost
  <2> QED BY <1>0, <2>1 DEF FiguresInv, ReadingInv, Watch!Nothing
<1>10. ASSUME NEW i \in 1..MaxPolls, Watch!Serve(i) \/ Watch!Heard(i) \/ Watch!Unheard(i)
       PROVE FiguresInv' /\ ReadingInv'
  <2>1. UNCHANGED <<truth, request, asked, reading, answer>> BY <1>10 DEF Watch!Serve, Watch!Heard, Watch!Unheard
  <2> QED BY <1>0, <2>1 DEF FiguresInv, ReadingInv, Watch!Nothing
<1>11. ~Watch!Block /\ (\A s \in Watch!Services : ~Watch!Turn(s) /\ ~Watch!Check(s)) /\ \A i \in 1..MaxPolls : ~Watch!Load(i)
  BY <1>2 DEF Watch!Block, Watch!Turn, Watch!Check, Watch!Load
<1> QED BY <1>0, <1>3, <1>4, <1>5, <1>6, <1>7, <1>8, <1>9, <1>10, <1>11 DEF Watch!Next

\* A shortfall of anchors that the observer sees was recorded while the page
\* was reading: the anchors were counted no earlier than the page asked, when
\* they were as many as the records.
THEOREM ShortfallNews == Spec => []ShortfallIsNews
<1>1. WatchInv => ShortfallIsNews
  <2> SUFFICES ASSUME WatchInv, Covers, answer # Watch!Nothing, NEW k \in Kinds \ {Papers}, Watch!Shortfall(k)
               PROVE  asked[Watch!Recorded(k)] < answer[Watch!Recorded(k)]
    BY DEF ShortfallIsNews, Watch!ShortfallIsNews, Covers
  <2>1. answer = reading /\ {Watch!Recorded(k), Watch!Anchored(k)} \subseteq DOMAIN reading
    BY FigureNames DEF WatchInv, ReadingInv
  <2>2. /\ asked[Watch!Recorded(k)] <= asked[Watch!Anchored(k)]
        /\ asked[Watch!Anchored(k)] <= reading[Watch!Anchored(k)]
        /\ reading[Watch!Anchored(k)] < reading[Watch!Recorded(k)]
        /\ asked[Watch!Recorded(k)] \in Nat /\ asked[Watch!Anchored(k)] \in Nat
        /\ reading[Watch!Recorded(k)] \in Nat /\ reading[Watch!Anchored(k)] \in Nat
    BY <2>1, FigureNames DEF WatchInv, ReadingInv, FiguresInv, Watch!Shortfall
  <2> QED BY <2>1, <2>2
<1> QED BY WatchInit, WatchStep, <1>1, PTL DEF Spec

-----------------------------------------------------------------------------
(* The public check of a result                                            *)

CheckFields ==
  {"at", "known", "session", "clean", "storage", "submission", "answer", "commitment", "result", "tx", "slot"}
VerifyTypes ==
  /\ DOMAIN checks = Verify!Checks /\ \A c \in Verify!Checks : DOMAIN checks[c] = CheckFields
  /\ marking \in [Sessions -> {"none", "scored", "anchored", "recorded", "created"}]
  /\ registry \in Sessions \cup {None} /\ outcome \in Verify!Checks \cup {0}
  /\ evaluated \subseteq Sessions

\* What evaluations leave behind, also those that stopped on their way: each
\* step's traces stay, and a result has those of all the steps before it.
TracesStay ==
  /\ \A s \in Sessions :
       /\ Verify!IsSubmitted(s) \/ marking[s] # "none" => s \in kept \cap commitments
       /\ marking[s] \in {"anchored", "recorded", "created"} => s \in mined
       /\ marking[s] \in {"recorded", "created"} => s \in anchors
       /\ marking[s] = "created" => s \in results
  /\ results \cap Sessions \subseteq kept \cap commitments \cap mined \cap anchors
  /\ evaluated \subseteq results

\* How far a check has come, and what it must have found if every call of it
\* was answered.
CheckIsAhead(c) ==
  LET r == checks[c] IN
  /\ r.session # None => r.session \in evaluated
  /\ r.session = None => ~r.submission
  /\ r.at \in {"none", "sent", "known"} => r.session = None
  /\ r.at \in {"storage", "result", "tx"} => r.session # None
  /\ r.session # None /\ r.clean /\ r.at \in {"result", "tx", "audit", "replied", "shown"} =>
       r.storage /\ r.submission /\ r.answer /\ r.commitment
  /\ r.session # None /\ r.at \in {"tx", "audit", "replied", "shown"} => r.result
  /\ r.session # None /\ r.at \in {"audit", "replied", "shown"} => r.tx
  /\ r.at \in {"replied", "shown"} => c \in verified
VerdictInv ==
  /\ VerifyTypes /\ TracesStay
  /\ \A c \in Verify!Checks : CheckIsAhead(c)
  /\ outcome # 0 => checks[outcome].at = "shown"

LEMMA VerdictInit == Init => VerdictInv
  BY BoundsAssumption, ConstantsAssumption
  DEF Init, Verify!Init, Verify!NoCheck, Verify!Checks, Verify!IsSubmitted, VerdictInv, VerifyTypes, CheckFields, TracesStay, CheckIsAhead

\* A step of one check leaves the others alone.
LEMMA OneCheckMoves ==
  ASSUME VerdictInv, NEW c \in Verify!Checks, checks[c].at # "shown",
         DOMAIN checks' = Verify!Checks, DOMAIN checks'[c] = CheckFields, \A d \in Verify!Checks \ {c} : checks'[d] = checks[d],
         CheckIsAhead(c)', verified \subseteq verified',
         UNCHANGED <<submitted, kept, commitments, registry, mined, anchors, results, evaluated, marking>>,
         outcome' = outcome \/ outcome' = 0 \/ (outcome' = c /\ checks'[c].at = "shown")
  PROVE  VerdictInv'
<1>1. VerifyTypes' BY DEF VerdictInv, VerifyTypes
<1>2. TracesStay' BY DEF VerdictInv, TracesStay, Verify!IsSubmitted
<1>3. \A d \in Verify!Checks \ {c} : CheckIsAhead(d)'
  BY DEF VerdictInv, CheckIsAhead
<1>4. outcome' # 0 => checks'[outcome'].at = "shown"
  <2>1. CASE outcome' = outcome /\ outcome # 0
    <3>1. outcome \in Verify!Checks \ {c} BY <2>1 DEF VerdictInv, VerifyTypes
    <3> QED BY <2>1, <3>1 DEF VerdictInv
  <2> QED BY <2>1
<1> QED BY <1>1, <1>2, <1>3, <1>4 DEF VerdictInv

\* A step of an evaluation takes nothing back.
LEMMA EvaluationMoves ==
  ASSUME VerdictInv, VerifyTypes', TracesStay', UNCHANGED <<checks, outcome, verified>>, evaluated \subseteq evaluated'
  PROVE  VerdictInv'
  BY DEF VerdictInv, CheckIsAhead

LEMMA VerdictStep == VerdictInv /\ [Next]_vars => VerdictInv'
<1> USE DEF Verify!exams, Verify!scores, Verify!World
<1>0. SUFFICES ASSUME VerdictInv, page = "verify", Verify!Next PROVE VerdictInv'
  <2>1. ASSUME VerdictInv, UNCHANGED verifyVars PROVE VerdictInv'
    BY <2>1 DEF VerdictInv, VerifyTypes, TracesStay, CheckIsAhead, Verify!IsSubmitted, verifyVars
  <2> QED BY <1>0, <2>1 DEF Next, vars
<1>1. ASSUME NEW s \in Sessions, Verify!Submit(s) PROVE VerdictInv'
  <2>1. VerifyTypes' BY <1>0, <1>1 DEF Verify!Submit, VerdictInv, VerifyTypes
  <2>2. TracesStay' BY <1>0, <1>1 DEF Verify!Submit, Verify!IsSubmitted, VerdictInv, TracesStay
  <2> QED BY <1>0, <1>1, <2>1, <2>2, EvaluationMoves DEF Verify!Submit
<1>2. ASSUME NEW s \in Sessions,
             \/ Verify!Evaluate(s) \/ Verify!AnchorResult(s) \/ Verify!RecordAnchor(s)
             \/ Verify!CreateResult(s) \/ Verify!MarkEvaluated(s) \/ Verify!EvaluationStops(s)
      PROVE VerdictInv'
  <2> USE <1>0, <1>2 DEF Verify!Evaluate, Verify!AnchorResult, Verify!RecordAnchor, Verify!CreateResult,
          Verify!MarkEvaluated, Verify!EvaluationStops, Verify!Step
  <2>1. VerifyTypes' BY DEF VerdictInv, VerifyTypes
  <2>2. submitted' = submitted /\ TracesStay'
    BY DEF Verify!IsSubmitted, VerdictInv, VerifyTypes, TracesStay
  <2> QED BY <2>1, <2>2, EvaluationMoves
<1>3. ASSUME NEW c \in Verify!Checks, Verify!Identify(c) PROVE VerdictInv'
  <2> USE <1>0, <1>3 DEF Verify!Identify, Verify!At, VerdictInv
  <2>1. DOMAIN checks[c] = CheckFields /\ CheckIsAhead(c) BY DEF VerifyTypes
  <2>2. DOMAIN checks' = Verify!Checks /\ DOMAIN checks'[c] = CheckFields /\ \A d \in Verify!Checks \ {c} : checks'[d] = checks[d]
    BY <2>1 DEF VerifyTypes, CheckFields
  <2>3. CheckIsAhead(c)' BY <2>1, <2>2 DEF VerifyTypes, CheckFields, CheckIsAhead, TracesStay
  <2> HIDE DEF VerdictInv
  <2> QED BY <2>2, <2>3, OneCheckMoves
<1>4. ASSUME NEW c \in Verify!Checks, Verify!ReadSession(c) PROVE VerdictInv'
  <2> USE <1>0, <1>4 DEF Verify!ReadSession, Verify!At, VerdictInv
  <2>1. DOMAIN checks[c] = CheckFields /\ CheckIsAhead(c) BY DEF VerifyTypes
  <2>2. DOMAIN checks' = Verify!Checks /\ DOMAIN checks'[c] = CheckFields /\ \A d \in Verify!Checks \ {c} : checks'[d] = checks[d]
    BY <2>1 DEF VerifyTypes, CheckFields
  <2>3. CheckIsAhead(c)'
    <3>1. /\ checks[c].session = None /\ ~checks[c].submission
      BY <2>1 DEF CheckIsAhead
    <3>2. evaluated' = evaluated /\ None \notin evaluated BY ConstantsAssumption DEF VerifyTypes
    <3>3. CASE checks' = [checks EXCEPT ![c].at = "audit"]
      <4>1. checks'[c].at = "audit" /\ checks'[c].session = None /\ ~checks'[c].submission
        BY <2>1, <3>1, <3>3 DEF VerifyTypes, CheckFields
      <4> QED BY <4>1 DEF CheckIsAhead
    <3>4. ASSUME NEW s \in evaluated, checks' = [checks EXCEPT ![c].at = "storage", ![c].session = s]
          PROVE  CheckIsAhead(c)'
      <4>1. checks'[c].at = "storage" /\ checks'[c].session = s /\ ~checks'[c].submission
        BY <2>1, <3>1, <3>4 DEF VerifyTypes, CheckFields
      <4> HIDE <1>4 DEF Verify!ReadSession
      <4> QED BY <3>2, <3>4, <4>1 DEF CheckIsAhead
    <3>5. \A s \in evaluated : s \in results BY DEF TracesStay
    <3> QED BY <3>3, <3>4, <3>5
  <2> HIDE DEF VerdictInv
  <2> QED BY <2>2, <2>3, OneCheckMoves
<1>5. ASSUME NEW c \in Verify!Checks, Verify!CheckSubmission(c) PROVE VerdictInv'
  <2> USE <1>0, <1>5 DEF Verify!CheckSubmission, Verify!At, VerdictInv
  <2>1. DOMAIN checks[c] = CheckFields /\ CheckIsAhead(c) BY DEF VerifyTypes
  <2>2. DOMAIN checks' = Verify!Checks /\ DOMAIN checks'[c] = CheckFields /\ \A d \in Verify!Checks \ {c} : checks'[d] = checks[d]
    BY <2>1 DEF VerifyTypes, CheckFields
  <2>3. CheckIsAhead(c)'
    <3>1. checks[c].session # None /\ checks[c].session \in evaluated BY <2>1 DEF CheckIsAhead
    <3>2. checks[c].session \in kept \cap commitments BY <3>1 DEF TracesStay, VerifyTypes
    <3>3. /\ checks'[c].at = "result" /\ checks'[c].session = checks[c].session
          /\ checks'[c].storage /\ checks'[c].submission /\ checks'[c].answer /\ checks'[c].commitment
      BY <2>1, <3>2 DEF VerifyTypes, CheckFields
    <3> QED BY <3>1, <3>2, <3>3 DEF CheckIsAhead
  <2> HIDE DEF VerdictInv
  <2> QED BY <2>2, <2>3, OneCheckMoves
<1>6. ASSUME NEW c \in Verify!Checks, Verify!CheckSubmissionFails(c) PROVE VerdictInv'
  <2> USE <1>0, <1>6 DEF Verify!CheckSubmissionFails, Verify!At, VerdictInv
  <2>1. DOMAIN checks[c] = CheckFields /\ CheckIsAhead(c) BY DEF VerifyTypes
  <2>2. DOMAIN checks' = Verify!Checks /\ DOMAIN checks'[c] = CheckFields /\ \A d \in Verify!Checks \ {c} : checks'[d] = checks[d]
    BY <2>1 DEF VerifyTypes, CheckFields
  <2>3. CheckIsAhead(c)' BY <2>1, <2>2 DEF VerifyTypes, CheckFields, CheckIsAhead, TracesStay
  <2> HIDE DEF VerdictInv
  <2> QED BY <2>2, <2>3, OneCheckMoves
<1>7. ASSUME NEW c \in Verify!Checks, Verify!CheckResult(c) PROVE VerdictInv'
  <2> USE <1>0, <1>7 DEF Verify!CheckResult, Verify!At, VerdictInv
  <2>1. DOMAIN checks[c] = CheckFields /\ CheckIsAhead(c) BY DEF VerifyTypes
  <2>2. DOMAIN checks' = Verify!Checks /\ DOMAIN checks'[c] = CheckFields /\ \A d \in Verify!Checks \ {c} : checks'[d] = checks[d]
    BY <2>1 DEF VerifyTypes, CheckFields
  <2>3. CheckIsAhead(c)' BY <2>1, <2>2 DEF VerifyTypes, CheckFields, CheckIsAhead, TracesStay
  <2> HIDE DEF VerdictInv
  <2> QED BY <2>2, <2>3, OneCheckMoves
<1>8. ASSUME NEW c \in Verify!Checks, Verify!CheckTx(c) PROVE VerdictInv'
  <2> USE <1>0, <1>8 DEF Verify!CheckTx, Verify!At, VerdictInv
  <2>1. DOMAIN checks[c] = CheckFields /\ CheckIsAhead(c) BY DEF VerifyTypes
  <2>2. DOMAIN checks' = Verify!Checks /\ DOMAIN checks'[c] = CheckFields /\ \A d \in Verify!Checks \ {c} : checks'[d] = checks[d]
    BY <2>1 DEF VerifyTypes, CheckFields
  <2>3. CheckIsAhead(c)' BY <2>1, <2>2 DEF VerifyTypes, CheckFields, CheckIsAhead, TracesStay
  <2> HIDE DEF VerdictInv
  <2> QED BY <2>2, <2>3, OneCheckMoves
<1>9. ASSUME NEW c \in Verify!Checks, Verify!AuditCheck(c) PROVE VerdictInv'
  <2> USE <1>0, <1>9 DEF Verify!AuditCheck, Verify!At, VerdictInv
  <2>1. DOMAIN checks[c] = CheckFields /\ CheckIsAhead(c) BY DEF VerifyTypes
  <2>2. DOMAIN checks' = Verify!Checks /\ DOMAIN checks'[c] = CheckFields /\ \A d \in Verify!Checks \ {c} : checks'[d] = checks[d]
    BY <2>1 DEF VerifyTypes, CheckFields
  <2>3. CheckIsAhead(c)' BY <2>1, <2>2 DEF VerifyTypes, CheckFields, CheckIsAhead, TracesStay
  <2> HIDE DEF VerdictInv
  <2> QED BY <2>2, <2>3, OneCheckMoves
<1>10. ASSUME NEW c \in Verify!Checks, Verify!Show(c) PROVE VerdictInv'
  <2> USE <1>0, <1>10 DEF Verify!Show, Verify!At, VerdictInv
  <2>1. DOMAIN checks[c] = CheckFields /\ CheckIsAhead(c) BY DEF VerifyTypes
  <2>2. DOMAIN checks' = Verify!Checks /\ DOMAIN checks'[c] = CheckFields /\ \A d \in Verify!Checks \ {c} : checks'[d] = checks[d]
    BY <2>1 DEF VerifyTypes, CheckFields
  <2>3. CheckIsAhead(c)' BY <2>1, <2>2 DEF VerifyTypes, CheckFields, CheckIsAhead, TracesStay
  <2> HIDE DEF VerdictInv
  <2> QED BY <2>2, <2>3, OneCheckMoves
<1>11. ASSUME NEW c \in Verify!Checks, Verify!CheckFails(c) PROVE VerdictInv'
  <2> USE <1>0, <1>11 DEF Verify!CheckFails, Verify!InFlight, Verify!At, VerdictInv
  <2>1. DOMAIN checks[c] = CheckFields /\ CheckIsAhead(c) BY DEF VerifyTypes
  <2>2. DOMAIN checks' = Verify!Checks /\ DOMAIN checks'[c] = CheckFields /\ \A d \in Verify!Checks \ {c} : checks'[d] = checks[d]
    BY <2>1 DEF VerifyTypes, CheckFields
  <2>3. CheckIsAhead(c)' BY <2>1, <2>2 DEF VerifyTypes, CheckFields, CheckIsAhead, TracesStay
  <2> HIDE DEF VerdictInv
  <2> QED BY <2>2, <2>3, OneCheckMoves
<1>12. ASSUME NEW c \in Verify!Checks, NEW found \in BOOLEAN, Verify!Click(c, found) PROVE VerdictInv'
  <2> USE <1>0, <1>12 DEF Verify!Click, Verify!NoCheck, Verify!At, VerdictInv
  <2>1. DOMAIN checks[c] = CheckFields /\ CheckIsAhead(c) BY DEF VerifyTypes
  <2>2. DOMAIN checks' = Verify!Checks /\ DOMAIN checks'[c] = CheckFields /\ \A d \in Verify!Checks \ {c} : checks'[d] = checks[d]
    BY <2>1 DEF VerifyTypes, CheckFields
  <2>3. CheckIsAhead(c)' BY <2>1, <2>2 DEF VerifyTypes, CheckFields, CheckIsAhead, TracesStay
  <2> HIDE DEF VerdictInv
  <2>4. checks[c].at = "none" BY DEF Verify!Checks
  <2> QED BY <2>2, <2>3, <2>4, OneCheckMoves
<1> QED BY <1>0, <1>1, <1>2, <1>3, <1>4, <1>5, <1>6, <1>7, <1>8, <1>9, <1>10, <1>11, <1>12 DEF Verify!Next

\* "VERIFIED" is shown of a result that has all its proofs by a check that was
\* recorded, and of every evaluated result when each call was answered.
LEMMA VerdictBacked == VerdictInv => Verify!VerifiedIsBacked /\ Verify!EvaluatedVerifies
<1>1. ASSUME VerdictInv, outcome # 0 PROVE CheckIsAhead(outcome) /\ checks[outcome].at = "shown"
  BY <1>1 DEF VerdictInv, VerifyTypes
<1>2. VerdictInv => Verify!VerifiedIsBacked
  <2> SUFFICES ASSUME VerdictInv, outcome # 0, Verify!Overall(outcome), NEW s, s = checks[outcome].session
               PROVE  s \in kept \cap commitments \cap mined \cap anchors \cap results \cap evaluated /\ outcome \in verified
    BY DEF Verify!VerifiedIsBacked, Verify!Headline
  <2>1. s \in evaluated /\ outcome \in verified BY <1>1 DEF CheckIsAhead, Verify!Overall
  <2> QED BY <2>1 DEF VerdictInv, VerifyTypes, TracesStay
<1>3. VerdictInv => Verify!EvaluatedVerifies
  BY <1>1 DEF CheckIsAhead, Verify!EvaluatedVerifies, Verify!Headline, Verify!Overall
<1> QED BY <1>2, <1>3

-----------------------------------------------------------------------------
(* What the live log shows                                                 *)

LogTypes ==
  /\ sockets \in [Log!Connections -> {"none", "connecting", "open", "closed"}]
  /\ links \in [Log!Connections -> {"none", "open", "closed"}]
  /\ frames \subseteq Log!Connections /\ subscribers \subseteq Log!Connections
  /\ wire \in [Log!Connections -> Seq(Nat)] /\ since \in [Log!Connections -> Nat]
  /\ published \in Seq(Nat) /\ entries \in Seq(Nat) /\ watcher \in Log!Connections \cup {0}
  /\ rows \in Nat /\ unpublished \subseteq Nat

\* A connection that has not been subscribed yet has nothing to show.
ConnectionInv ==
  \A s \in Log!Connections :
    /\ sockets[s] = "open" => links[s] = "open"
    /\ s \in frames \cup subscribers => sockets[s] \in {"open", "closed"}
    /\ s \in frames => s \notin subscribers
    /\ s \notin subscribers /\ sockets[s] # "closed" => wire[s] = <<>> /\ (watcher = s => entries = <<>>)

\* What is on its way, w, is the end of what was published, p, since the
\* page subscribed after a; and what is shown, e, is what comes before that,
\* newest first.
OnWire(w, p, a) ==
  /\ a + Len(w) <= Len(p)
  /\ \A i \in 1..Len(w) : w[i] = p[Len(p) - Len(w) + i]
OnPage(e, w, p, a) ==
  /\ Len(e) = IF Len(p) - a - Len(w) < MaxShown THEN Len(p) - a - Len(w) ELSE MaxShown
  /\ \A i \in 1..Len(e) : e[i] = p[Len(p) - Len(w) + 1 - i]
FeedInv ==
  /\ LogTypes /\ ConnectionInv
  /\ \A s \in Log!Connections : Log!Listening(s) => 
       /\ OnWire(wire[s], published, since[s])
       /\ watcher = s => OnPage(entries, wire[s], published, since[s])

\* Sequences that grow at their end, or shrink at their front.
Extends(t, s, x) ==
  /\ Len(s) \in Nat /\ Len(t) = Len(s) + 1 /\ t[Len(s) + 1] = x
  /\ \A i \in 1..Len(s) : t[i] = s[i]
Drops(t, s) ==
  /\ Len(t) \in Nat /\ Len(t) + 1 = Len(s)
  /\ \A i \in 1..Len(t) : t[i] = s[i + 1]

LEMMA AppendExtends ==
  ASSUME NEW s \in Seq(Nat), NEW x \in Nat PROVE Append(s, x) \in Seq(Nat) /\ Extends(Append(s, x), s, x)
  BY AppendProperties, LenProperties DEF Extends

LEMMA TailDrops ==
  ASSUME NEW s \in Seq(Nat), s # <<>>
  PROVE  Tail(s) \in Seq(Nat) /\ Drops(Tail(s), s) /\ Head(s) = s[1] /\ Head(s) \in Nat
<1>1. Tail(s) \in Seq(Nat) /\ Len(Tail(s)) = Len(s) - 1 /\ (\A i \in 1..Len(Tail(s)) : Tail(s)[i] = s[i + 1]) /\ Head(s) \in Nat
  BY HeadTailProperties
<1>2. Len(s) \in Nat /\ Len(Tail(s)) \in Nat BY <1>1, LenProperties
<1>3. \A n, m \in Nat : m = n - 1 => m + 1 = n OBVIOUS
<1> QED BY <1>1, <1>2, <1>3 DEF Drops

LEMMA SubscribedNow ==
  ASSUME NEW e, NEW w, NEW p, Len(p) \in Nat, Len(w) = 0, Len(e) = 0
  PROVE  OnWire(w, p, Len(p)) /\ OnPage(e, w, p, Len(p))
  BY BoundsAssumption DEF OnWire, OnPage

LEMMA PublishKeepsWire ==
  ASSUME NEW p, NEW q, NEW w, NEW v, NEW a \in Nat, NEW x, Extends(q, p, x), Extends(v, w, x), OnWire(w, p, a)
  PROVE  OnWire(v, q, a)
<1>1. /\ Len(p) \in Nat /\ Len(w) \in Nat /\ Len(q) = Len(p) + 1 /\ Len(v) = Len(w) + 1 /\ a + Len(w) <= Len(p)
      /\ q[Len(p) + 1] = x /\ v[Len(w) + 1] = x
  BY DEF Extends, OnWire
<1>2. ASSUME NEW i \in 1..Len(v) PROVE v[i] = q[Len(q) - Len(v) + i]
  <2>1. CASE i = Len(v)
    <3>1. Len(q) - Len(v) + i = Len(p) + 1 /\ i = Len(w) + 1 BY <1>1, <2>1
    <3> QED BY <1>1, <3>1
  <2>2. CASE i # Len(v)
    <3>1. i \in 1..Len(w) /\ Len(q) - Len(v) + i = Len(p) - Len(w) + i /\ Len(p) - Len(w) + i \in 1..Len(p) BY <1>1, <2>2
    <3> QED BY <3>1 DEF Extends, OnWire
  <2> QED BY <2>1, <2>2
<1> QED BY <1>1, <1>2 DEF OnWire

LEMMA PublishKeepsPage ==
  ASSUME NEW p, NEW q, NEW w, NEW v, NEW a \in Nat, NEW x, NEW e, Len(e) \in Nat,
         Extends(q, p, x), Extends(v, w, x), OnWire(w, p, a), OnPage(e, w, p, a)
  PROVE  OnPage(e, v, q, a)
<1>1. /\ Len(p) \in Nat /\ Len(w) \in Nat /\ MaxShown \in Nat /\ a + Len(w) <= Len(p)
      /\ Len(q) = Len(p) + 1 /\ Len(v) = Len(w) + 1
  BY BoundsAssumption DEF Extends, OnWire
<1>2. Len(q) - a - Len(v) = Len(p) - a - Len(w) BY <1>1
<1>3. Len(e) <= Len(p) - a - Len(w) BY <1>1 DEF OnPage
<1>4. ASSUME NEW i \in 1..Len(e) PROVE e[i] = q[Len(q) - Len(v) + 1 - i]
  <2>1. Len(p) - Len(w) + 1 - i \in 1..Len(p) /\ Len(q) - Len(v) + 1 - i = Len(p) - Len(w) + 1 - i
    BY <1>1, <1>3
  <2> QED BY <2>1 DEF OnPage, Extends
<1> QED BY <1>2, <1>4 DEF OnPage

LEMMA MessageKeepsWire ==
  ASSUME NEW p, NEW w, NEW v, NEW a \in Nat, Len(p) \in Nat, Drops(v, w), OnWire(w, p, a)
  PROVE  OnWire(v, p, a)
<1>1. Len(v) \in Nat /\ Len(v) + 1 = Len(w) /\ a + Len(w) <= Len(p) BY DEF Drops, OnWire
<1>2. ASSUME NEW i \in 1..Len(v) PROVE v[i] = p[Len(p) - Len(v) + i]
  <2>1. i + 1 \in 1..Len(w) /\ Len(p) - Len(v) + i = Len(p) - Len(w) + (i + 1) BY <1>1
  <2> QED BY <2>1 DEF Drops, OnWire
<1> QED BY <1>1, <1>2 DEF OnWire

\* slice(0, max) of an entry before the others.
Sliced(f, x, e) ==
  /\ Len(f) = IF Len(e) + 1 < MaxShown THEN Len(e) + 1 ELSE MaxShown
  /\ f[1] = x /\ \A i \in 2..Len(f) : f[i] = e[i - 1]

LEMMA SliceIs ==
  ASSUME NEW x \in Nat, NEW e \in Seq(Nat), NEW f, f = Log!Slice(<<x>> \o e, MaxShown)
  PROVE  f \in Seq(Nat) /\ Sliced(f, x, e)
<1>1. Len(e) \in Nat /\ MaxShown \in Nat \ {0} BY LenProperties, BoundsAssumption
<1>2. PICK q : q = <<x>> \o e OBVIOUS
<1>3. q \in Seq(Nat) /\ Len(q) = Len(e) + 1 /\ q[1] = x /\ \A i \in 2..Len(e) + 1 : q[i] = e[i - 1]
  <2>1. PICK u : u = <<x>> OBVIOUS
  <2>2. u \in Seq(Nat) /\ Len(u) = 1 /\ u[1] = x BY <2>1
  <2>3. /\ u \o e \in Seq(Nat) /\ Len(u \o e) = Len(u) + Len(e)
        /\ \A i \in 1..Len(u) + Len(e) : (u \o e)[i] = IF i <= Len(u) THEN u[i] ELSE e[i - Len(u)]
    BY <2>2, ConcatProperties
  <2>4. q = u \o e BY <1>2, <2>1
  <2>5. /\ q \in Seq(Nat) /\ Len(q) = Len(u) + Len(e)
        /\ \A i \in 1..Len(u) + Len(e) : q[i] = IF i <= Len(u) THEN u[i] ELSE e[i - Len(u)]
    BY <2>3, <2>4
  <2> QED BY <1>1, <2>2, <2>5
<1>4. PICK k \in Nat : k = IF Len(q) < MaxShown THEN Len(q) ELSE MaxShown BY <1>1, <1>3
<1>5. k \in Nat \ {0} /\ k <= Len(q) BY <1>1, <1>3, <1>4
<1>6. f = SubSeq(q, 1, k) BY <1>2, <1>4 DEF Log!Slice
<1>7. \A i \in 1..k : q[i] \in Nat BY <1>1, <1>3, <1>5, ElementOfSeq
<1>8. /\ SubSeq(q, 1, k) \in Seq(Nat) /\ Len(SubSeq(q, 1, k)) = IF 1 <= k THEN k - 1 + 1 ELSE 0
      /\ \A i \in 1..k - 1 + 1 : SubSeq(q, 1, k)[i] = q[1 + i - 1]
  BY <1>5, <1>7, SubSeqProperties
<1>9. /\ f \in Seq(Nat) /\ Len(f) = (IF 1 <= k THEN k - 1 + 1 ELSE 0) /\ \A i \in 1..k - 1 + 1 : f[i] = q[1 + i - 1]
  BY <1>6, <1>8
<1>10. /\ Len(f) = k /\ \A i \in 1..k : f[i] = q[i]
  <2>1. \A j \in Nat \ {0} : (IF 1 <= j THEN j - 1 + 1 ELSE 0) = j /\ j - 1 + 1 = j OBVIOUS
  <2>2. \A j \in Int : 1 + j - 1 = j OBVIOUS
  <2> QED BY <1>5, <1>9, <2>1, <2>2
<1>11. Sliced(f, x, e)
  <2>1. k = IF Len(e) + 1 < MaxShown THEN Len(e) + 1 ELSE MaxShown BY <1>3, <1>4
  <2>2. k <= Len(e) + 1 BY <1>3, <1>5
  <2>3. f[1] = x
    <3>1. 1 \in 1..k BY <1>5
    <3>2. q[1] = x BY <1>3
    <3> QED BY <1>10, <3>1, <3>2
  <2>4. ASSUME NEW i \in 2..k PROVE f[i] = e[i - 1]
    <3>1. i \in 1..k /\ i \in 2..Len(e) + 1 BY <1>1, <1>5, <2>2
    <3> QED BY <1>3, <1>10, <3>1
  <2> QED BY <1>10, <2>1, <2>3, <2>4 DEF Sliced
<1> QED BY <1>9, <1>11

LEMMA MessageKeepsPage ==
  ASSUME NEW p, NEW w, NEW v, NEW a \in Nat, NEW e, NEW f, Len(p) \in Nat, Len(e) \in Nat,
         Drops(v, w), OnWire(w, p, a), OnPage(e, w, p, a), Sliced(f, w[1], e)
  PROVE  OnPage(f, v, p, a)
<1>1. /\ Len(v) \in Nat /\ MaxShown \in Nat \ {0} /\ Len(v) + 1 = Len(w) /\ a + Len(w) <= Len(p)
  BY BoundsAssumption DEF Drops, OnWire
<1>2. /\ Len(f) = (IF Len(e) + 1 < MaxShown THEN Len(e) + 1 ELSE MaxShown)
      /\ f[1] = w[1] /\ \A i \in 2..Len(f) : f[i] = e[i - 1]
  BY DEF Sliced
<1>3. Len(f) = IF Len(p) - a - Len(v) < MaxShown THEN Len(p) - a - Len(v) ELSE MaxShown
  BY <1>1, <1>2 DEF OnPage
<1>4. ASSUME NEW i \in 1..Len(f) PROVE f[i] = p[Len(p) - Len(v) + 1 - i]
  <2>1. CASE i = 1
    <3>1. w[1] = p[Len(p) - Len(w) + 1] BY <1>1 DEF OnWire
    <3>2. Len(p) - Len(w) + 1 = Len(p) - Len(v) + 1 - i BY <1>1, <2>1
    <3> QED BY <1>2, <2>1, <3>1, <3>2
  <2>2. CASE i # 1
    <3>1. i \in 2..Len(f) /\ i - 1 \in 1..Len(e) BY <1>1, <1>2, <2>2
    <3>2. e[i - 1] = p[Len(p) - Len(w) + 1 - (i - 1)] BY <3>1 DEF OnPage
    <3>3. Len(p) - Len(w) + 1 - (i - 1) = Len(p) - Len(v) + 1 - i BY <1>1
    <3> QED BY <1>2, <3>1, <3>2, <3>3
  <2> QED BY <2>1, <2>2
<1> QED BY <1>3, <1>4 DEF OnPage

LEMMA FeedInit == Init => FeedInv
  BY BoundsAssumption, EmptySeq DEF Init, Log!Init, Log!Connections, FeedInv, LogTypes, ConnectionInv, Log!Listening

\* A step that touches no listening connection keeps what is said of it.
LEMMA FeedKept ==
  ASSUME FeedInv, LogTypes', ConnectionInv', published' = published,
         \A o \in Log!Connections : Log!Listening(o)' =>
           /\ Log!Listening(o) /\ wire'[o] = wire[o] /\ since'[o] = since[o]
           /\ watcher' = o => watcher = o /\ entries' = entries
  PROVE  FeedInv'
  BY DEF FeedInv

LEMMA FeedStep == FeedInv /\ [Next]_vars => FeedInv'
<1> USE BoundsAssumption DEF Log!database, Log!network, Log!hub, Log!view, Log!Listening
<1>0. SUFFICES ASSUME FeedInv, page = "log", Log!Next PROVE FeedInv'
  <2>1. ASSUME FeedInv, UNCHANGED logVars PROVE FeedInv'
    BY <2>1 DEF FeedInv, LogTypes, ConnectionInv, logVars
  <2> QED BY <1>0, <2>1 DEF Next, vars
<1>1. CASE Log!Create
  <2>1. UNCHANGED <<published, sockets, links, frames, wire, subscribers, since, watcher, entries>> /\ rows' = rows + 1
        /\ unpublished' = unpublished \cup {rows + 1}
    BY <1>1 DEF Log!Create
  <2>2. LogTypes'
    <3>1. rows \in Nat /\ unpublished \subseteq Nat BY <1>0 DEF FeedInv, LogTypes
    <3>2. \A n \in Nat : n + 1 \in Nat OBVIOUS
    <3>3. rows' \in Nat /\ unpublished' \subseteq Nat BY <2>1, <3>1, <3>2
    <3> QED BY <1>0, <2>1, <3>3 DEF FeedInv, LogTypes
  <2>3. ConnectionInv' BY <1>0, <2>1 DEF FeedInv, ConnectionInv
  <2> QED BY <1>0, <2>1, <2>2, <2>3, FeedKept
<1>2. CASE Log!Restart
  <2>1. LogTypes' BY <1>0, <1>2, EmptySeq DEF Log!Restart, FeedInv, LogTypes
  <2>2. \A s \in Log!Connections : sockets'[s] \in {"none", "closed"} BY <1>2 DEF Log!Restart
  <2>3. ConnectionInv'
    BY <1>0, <1>2, <2>2 DEF Log!Restart, FeedInv, LogTypes, ConnectionInv
  <2> QED BY <2>1, <2>2, <2>3 DEF FeedInv
<1>3. CASE Log!Unmount
  <2>1. LogTypes' BY <1>0, <1>3, EmptySeq DEF Log!Unmount, FeedInv, LogTypes
  <2>2. ConnectionInv' BY <1>0, <1>3 DEF Log!Unmount, FeedInv, LogTypes, ConnectionInv
  <2>3. published' = published /\ since' = since /\ watcher' = 0 /\ 0 \notin Log!Connections
    BY <1>3 DEF Log!Unmount, Log!Connections
  <2>4. \A o \in Log!Connections : Log!Listening(o)' => Log!Listening(o) /\ wire'[o] = wire[o]
    BY <1>0, <1>3 DEF Log!Unmount, FeedInv, LogTypes
  <2> QED BY <1>0, <2>1, <2>2, <2>3, <2>4, FeedKept
<1>4. ASSUME NEW r \in 1..MaxRows, Log!Publish(r) PROVE FeedInv'
  <2>1. r \in Nat /\ published' \in Seq(Nat) /\ Extends(published', published, r)
    BY <1>0, <1>4, AppendExtends DEF Log!Publish, FeedInv, LogTypes
  <2>2. \A s \in Log!Connections :
          \/ wire'[s] = wire[s] /\ ~Log!Listening(s)
          \/ s \in subscribers /\ wire'[s] \in Seq(Nat) /\ Extends(wire'[s], wire[s], r)
    <3> TAKE s \in Log!Connections
    <3>1. wire[s] \in Seq(Nat) /\ (sockets[s] = "open" => links[s] = "open") BY <1>0 DEF FeedInv, LogTypes, ConnectionInv
    <3>2. CASE s \in subscribers /\ links[s] = "open"
      <4>1. wire'[s] = Append(wire[s], r) BY <1>4, <3>2 DEF Log!Publish
      <4> QED BY <3>1, <3>2, <2>1, <4>1, AppendExtends
    <3>3. CASE ~(s \in subscribers /\ links[s] = "open")
      BY <1>4, <3>1, <3>3 DEF Log!Publish
    <3> QED BY <3>2, <3>3
  <2>3. UNCHANGED <<rows, sockets, links, frames, subscribers, since, watcher, entries>> /\ unpublished' = unpublished \ {r}
    BY <1>4 DEF Log!Publish
  <2>4. LogTypes'
    <3>1. wire' \in [Log!Connections -> Seq(Nat)]
      <4>1. \A s \in Log!Connections : wire'[s] \in Seq(Nat) BY <1>0, <2>2 DEF FeedInv, LogTypes
      <4>2. wire' = [s \in Log!Connections |-> wire'[s]] BY <1>4 DEF Log!Publish
      <4> QED BY <4>1, <4>2
    <3>2. published' \in Seq(Nat) BY <2>1
    <3> QED BY <1>0, <2>3, <3>1, <3>2 DEF FeedInv, LogTypes
  <2>5. ConnectionInv'
    <3>1. \A s \in Log!Connections \ subscribers : wire'[s] = wire[s] BY <2>2
    <3> QED BY <1>0, <2>3, <3>1 DEF FeedInv, ConnectionInv
  <2>6. ASSUME NEW s \in Log!Connections, Log!Listening(s)'
        PROVE  OnWire(wire[s], published, since[s])' /\ (watcher' = s => OnPage(entries, wire[s], published, since[s])')
    <3>1. /\ Log!Listening(s) /\ OnWire(wire[s], published, since[s])
          /\ watcher = s => OnPage(entries, wire[s], published, since[s])
          /\ published \in Seq(Nat) /\ wire[s] \in Seq(Nat) /\ since[s] \in Nat /\ entries \in Seq(Nat)
      BY <1>0, <2>3, <2>6 DEF FeedInv, LogTypes
    <3>2. Extends(wire'[s], wire[s], r) BY <2>2, <3>1
    <3>3. Len(entries) \in Nat BY <3>1, LenProperties
    <3> QED BY <2>1, <2>3, <3>1, <3>2, <3>3, PublishKeepsWire, PublishKeepsPage
  <2> QED BY <2>4, <2>5, <2>6 DEF FeedInv
<1>5. ASSUME NEW s \in Log!Connections, Log!Subscribe(s) PROVE FeedInv'
  <2>1. LogTypes' BY <1>0, <1>5, LenProperties DEF Log!Subscribe, FeedInv, LogTypes
  <2>2. ConnectionInv' BY <1>0, <1>5 DEF Log!Subscribe, FeedInv, LogTypes, ConnectionInv
  <2>3. ASSUME sockets[s] = "open"
        PROVE  OnWire(wire[s], published, since[s])' /\ (watcher' = s => OnPage(entries, wire[s], published, since[s])')
    <3>1. wire'[s] = <<>> /\ (watcher' = s => entries' = <<>>)
      BY <1>0, <1>5, <2>3 DEF Log!Subscribe, FeedInv, LogTypes, ConnectionInv
    <3>2. published' = published /\ published \in Seq(Nat) /\ since'[s] = Len(published)
      BY <1>0, <1>5 DEF Log!Subscribe, FeedInv, LogTypes
    <3>3. Len(published) \in Nat BY <3>2, LenProperties
    <3>4. Len(<<>>) = 0 OBVIOUS
    <3> QED BY <3>1, <3>2, <3>3, <3>4, SubscribedNow
  <2>4. \A o \in Log!Connections \ {s} :
          Log!Listening(o)' =>
            /\ OnWire(wire[o], published, since[o])'
            /\ watcher' = o => OnPage(entries, wire[o], published, since[o])'
    BY <1>0, <1>5 DEF Log!Subscribe, FeedInv, LogTypes
  <2> QED BY <1>5, <2>1, <2>2, <2>3, <2>4 DEF FeedInv, Log!Subscribe
<1>6. ASSUME NEW s \in Log!Connections, Log!Forget(s) PROVE FeedInv'
  <2>1. LogTypes' BY <1>0, <1>6 DEF Log!Forget, FeedInv, LogTypes
  <2>2. ConnectionInv' BY <1>0, <1>6 DEF Log!Forget, FeedInv, LogTypes, ConnectionInv
  <2>3. UNCHANGED <<published, sockets, wire, since, watcher, entries>> /\ subscribers' = subscribers \ {s}
    BY <1>6 DEF Log!Forget
  <2> QED BY <1>0, <2>1, <2>2, <2>3, FeedKept
<1>10. ASSUME NEW s \in Log!Connections, Log!Break(s) PROVE FeedInv'
  <2>1. LogTypes' BY <1>0, <1>10, EmptySeq DEF Log!Break, FeedInv, LogTypes
  <2>2. ConnectionInv' BY <1>0, <1>10 DEF Log!Break, FeedInv, LogTypes, ConnectionInv
  <2>3. UNCHANGED <<published, subscribers, since, watcher, entries>> BY <1>10 DEF Log!Break
  <2>4. \A o \in Log!Connections : Log!Listening(o)' => Log!Listening(o) /\ wire'[o] = wire[o]
    BY <1>0, <1>10 DEF Log!Break, FeedInv, LogTypes
  <2> QED BY <1>0, <2>1, <2>2, <2>3, <2>4, FeedKept
<1>7. ASSUME NEW s \in Log!Connections, Log!Mount(s) PROVE FeedInv'
  <2>1. LogTypes' BY <1>0, <1>7, EmptySeq DEF Log!Mount, FeedInv, LogTypes
  <2>2. ConnectionInv' BY <1>0, <1>7 DEF Log!Mount, FeedInv, LogTypes, ConnectionInv
  <2>3. \A o \in Log!Connections : Log!Listening(o)' => Log!Listening(o) /\ o # s
    BY <1>0, <1>7 DEF Log!Mount, FeedInv, LogTypes, ConnectionInv
  <2> QED BY <1>0, <1>7, <2>1, <2>2, <2>3 DEF Log!Mount, FeedInv
<1>8. ASSUME NEW s \in Log!Connections, Log!Connected(s) PROVE FeedInv'
  <2>1. LogTypes' BY <1>0, <1>8 DEF Log!Connected, FeedInv, LogTypes
  <2>2. ConnectionInv' BY <1>0, <1>8 DEF Log!Connected, FeedInv, LogTypes, ConnectionInv
  <2>3. \A o \in Log!Connections : Log!Listening(o)' => Log!Listening(o)
    BY <1>0, <1>8 DEF Log!Connected, FeedInv, LogTypes, ConnectionInv
  <2> QED BY <1>0, <1>8, <2>1, <2>2, <2>3 DEF Log!Connected, FeedInv
<1>9. ASSUME NEW s \in Log!Connections, Log!Message(s) PROVE FeedInv'
  <2>1. /\ wire[s] \in Seq(Nat) /\ wire[s] # <<>> /\ entries \in Seq(Nat) /\ published \in Seq(Nat) /\ since[s] \in Nat
        /\ s = watcher /\ Log!Listening(s)
        /\ OnWire(wire[s], published, since[s]) /\ OnPage(entries, wire[s], published, since[s])
    BY <1>0, <1>9 DEF Log!Message, FeedInv, LogTypes, ConnectionInv
  <2>2. Tail(wire[s]) \in Seq(Nat) /\ Drops(Tail(wire[s]), wire[s]) /\ Head(wire[s]) = wire[s][1] /\ Head(wire[s]) \in Nat BY <2>1, TailDrops
  <2>3. PICK v : v = Tail(wire[s]) OBVIOUS
  <2>4. /\ wire' = [wire EXCEPT ![s] = v]
        /\ entries' = Log!Slice(<<wire[s][1]>> \o entries, MaxShown)
        /\ UNCHANGED <<rows, unpublished, published, sockets, links, frames, subscribers, since, watcher>>
    BY <1>9, <2>2, <2>3 DEF Log!Message
  <2>5. v \in Seq(Nat) /\ Drops(v, wire[s]) /\ wire[s][1] \in Nat BY <2>2, <2>3
  <2>6. wire'[s] = v /\ (\A o \in Log!Connections \ {s} : wire'[o] = wire[o]) /\ wire' \in [Log!Connections -> Seq(Nat)]
    BY <1>0, <2>4, <2>5 DEF FeedInv, LogTypes
  <2>7. entries' \in Seq(Nat) /\ Sliced(entries', wire[s][1], entries) BY <2>1, <2>4, <2>5, SliceIs
  <2>8. LogTypes' BY <1>0, <2>4, <2>6, <2>7 DEF FeedInv, LogTypes
  <2>9. ConnectionInv' BY <1>0, <2>1, <2>4, <2>6 DEF FeedInv, LogTypes, ConnectionInv
  <2>13. Len(published) \in Nat /\ Len(entries) \in Nat BY <2>1, LenProperties
  <2>10. OnWire(wire[s], published, since[s])' BY <2>1, <2>4, <2>5, <2>6, <2>13, MessageKeepsWire
  <2>11. OnPage(entries, wire[s], published, since[s])' BY <2>1, <2>4, <2>5, <2>6, <2>7, <2>13, MessageKeepsPage
  <2>12. ASSUME NEW o \in Log!Connections \ {s}, Log!Listening(o)' PROVE OnWire(wire[o], published, since[o])' /\ watcher' # o
    BY <1>0, <2>1, <2>4, <2>6, <2>12 DEF FeedInv
  <2> QED BY <2>8, <2>9, <2>10, <2>11, <2>12 DEF FeedInv
<1> QED BY <1>0, <1>1, <1>2, <1>3, <1>4, <1>5, <1>6, <1>7, <1>8, <1>9, <1>10 DEF Log!Next

Least(l, n) == IF l < n THEN l ELSE n

\* Where the last k = min(l, n) of l begin.
LEMMA StartOfEnd ==
  ASSUME NEW l \in Nat, NEW n \in Nat
  PROVE  \E m \in Nat \ {0}, k \in Nat :
           /\ m = (IF l < n THEN 1 ELSE l - n + 1) /\ k = Least(l, n)
           /\ m = l - k + 1 /\ k <= l /\ (IF m <= l THEN l - m + 1 ELSE 0) = k /\ l - m + 1 = k
           /\ \A i \in 1..k : m + i - 1 = l - k + i
<1>1. CASE l < n
  <2>1. WITNESS 1 \in Nat \ {0}, l \in Nat
  <2> QED BY <1>1 DEF Least
<1>2. CASE ~(l < n)
  <2>0. l - n + 1 \in Nat \ {0} BY <1>2
  <2>1. WITNESS l - n + 1 \in Nat \ {0}, n \in Nat
  <2> QED BY <1>2 DEF Least
<1> QED BY <1>1, <1>2

\* The end of a list.
LEMMA NewestIs ==
  ASSUME NEW p \in Seq(Nat), NEW n \in Nat
  PROVE  /\ Log!Newest(p, n) \in Seq(Nat) /\ Len(Log!Newest(p, n)) = Least(Len(p), n)
         /\ \A i \in 1..Least(Len(p), n) : Log!Newest(p, n)[i] = p[Len(p) - Least(Len(p), n) + i]
<1>1. Len(p) \in Nat BY LenProperties
<1>2. PICK m \in Nat \ {0}, k \in Nat :
        /\ m = (IF Len(p) < n THEN 1 ELSE Len(p) - n + 1) /\ k = Least(Len(p), n)
        /\ m = Len(p) - k + 1 /\ k <= Len(p) /\ (IF m <= Len(p) THEN Len(p) - m + 1 ELSE 0) = k /\ Len(p) - m + 1 = k
        /\ \A i \in 1..k : m + i - 1 = Len(p) - k + i
  BY ONLY StartOfEnd, <1>1, n \in Nat, Zenon
<1>3. Log!Newest(p, n) = SubSeq(p, m, Len(p)) BY <1>2 DEF Log!Newest
<1>4. \A i \in 1..Len(p) : p[i] \in Nat BY ElementOfSeq
<1>5. \A i \in m..Len(p) : p[i] \in Nat
  <2>1. \A l, i \in Nat : m <= i /\ i <= l => 1 <= i OBVIOUS
  <2> QED BY <1>1, <1>4, <2>1
<1>6. /\ SubSeq(p, m, Len(p)) \in Seq(Nat)
      /\ Len(SubSeq(p, m, Len(p))) = IF m <= Len(p) THEN Len(p) - m + 1 ELSE 0
      /\ \A i \in 1..Len(p) - m + 1 : SubSeq(p, m, Len(p))[i] = p[m + i - 1]
  BY <1>1, <1>2, <1>5, SubSeqProperties
<1>7. PICK q : q = SubSeq(p, m, Len(p)) OBVIOUS
<1>8. /\ q \in Seq(Nat) /\ Len(q) = IF m <= Len(p) THEN Len(p) - m + 1 ELSE 0
      /\ \A i \in 1..Len(p) - m + 1 : q[i] = p[m + i - 1]
  BY <1>6, <1>7
<1>9. Len(q) = k BY <1>2, <1>8, Zenon
<1>10. ASSUME NEW i \in 1..k PROVE q[i] = p[Len(p) - k + i]
  <2>1. i \in 1..Len(p) - m + 1 /\ m + i - 1 = Len(p) - k + i BY <1>2, Zenon
  <2> QED BY <1>8, <2>1, Zenon
<1>11. Log!Newest(p, n) = q /\ Least(Len(p), n) = k BY <1>2, <1>3, <1>7, Zenon
<1> QED BY <1>8, <1>9, <1>10, <1>11, Zenon

\* The middle of a list.
LEMMA PartIs ==
  ASSUME NEW p \in Seq(Nat), NEW a \in Nat, NEW k \in Nat, a + k <= Len(p)
  PROVE  /\ SubSeq(p, a + 1, a + k) \in Seq(Nat) /\ Len(SubSeq(p, a + 1, a + k)) = k
         /\ \A i \in 1..k : SubSeq(p, a + 1, a + k)[i] = p[a + i]
<1>1. PICK m \in Nat \ {0}, b \in Nat : m = a + 1 /\ b = a + k OBVIOUS
<1>2. \A i \in 1..Len(p) : p[i] \in Nat BY ElementOfSeq
<1>3. Len(p) \in Nat BY LenProperties
<1>4. \A i \in m..b : p[i] \in Nat BY <1>1, <1>2, <1>3
<1>5. /\ SubSeq(p, m, b) \in Seq(Nat) /\ Len(SubSeq(p, m, b)) = IF m <= b THEN b - m + 1 ELSE 0
      /\ \A i \in 1..b - m + 1 : SubSeq(p, m, b)[i] = p[m + i - 1]
  BY <1>1, <1>4, SubSeqProperties
<1>6. (IF m <= b THEN b - m + 1 ELSE 0) = k /\ b - m + 1 = k /\ \A i \in 1..k : m + i - 1 = a + i
  BY <1>1
<1>7. PICK q : q = SubSeq(p, m, b) OBVIOUS
<1>8. Len(q) = k /\ \A i \in 1..k : q[i] = p[a + i] BY <1>5, <1>6, <1>7
<1>9. q \in Seq(Nat) BY <1>5, <1>7
<1> QED BY <1>1, <1>7, <1>8, <1>9

\* What is said with lengths and places is what is said with parts of lists.
LEMMA FeedIs ==
  ASSUME NEW p \in Seq(Nat), NEW w \in Seq(Nat), NEW e \in Seq(Nat), NEW a \in Nat,
         OnWire(w, p, a), OnPage(e, w, p, a)
  PROVE  LET sent      == SubSeq(p, a + 1, Len(p))
             delivered == SubSeq(sent, 1, Len(sent) - Len(w))
         IN w = Log!Newest(sent, Len(w)) /\ e = Log!Reverse(Log!Newest(delivered, MaxShown))
<1>0. SUFFICES ASSUME NEW sent, NEW delivered,
                      sent = SubSeq(p, a + 1, Len(p)), delivered = SubSeq(sent, 1, Len(sent) - Len(w))
               PROVE  w = Log!Newest(sent, Len(w)) /\ e = Log!Reverse(Log!Newest(delivered, MaxShown))
  OBVIOUS
<1>1. PICK n \in Nat, m \in Nat : n = Len(p) /\ m = Len(w) BY LenProperties
<1>2. a + m <= n /\ MaxShown \in Nat BY <1>1, BoundsAssumption DEF OnWire
<1>3. PICK s \in Nat, d \in Nat : s = n - a /\ d = n - a - m BY <1>2
<1>4. s = d + m /\ n = a + s /\ d <= s /\ m <= s /\ s - m = d BY <1>2, <1>3
<1>5. sent \in Seq(Nat) /\ Len(sent) = s /\ \A i \in 1..s : sent[i] = p[a + i]
  <2>1. a + s <= Len(p) BY <1>1, <1>4
  <2>2. sent = SubSeq(p, a + 1, a + s) BY <1>0, <1>1, <1>4
  <2> QED BY <2>1, <2>2, PartIs
<1>6. delivered \in Seq(Nat) /\ Len(delivered) = d /\ \A i \in 1..d : delivered[i] = sent[i]
  <2>1. 0 \in Nat /\ 0 + d = d /\ 0 + 1 = 1 /\ \A i \in 1..d : 0 + i = i OBVIOUS
  <2>2. Len(sent) - Len(w) = d BY <1>1, <1>4, <1>5
  <2>3. delivered = SubSeq(sent, 0 + 1, 0 + d) BY <1>0, <2>1, <2>2
  <2>4. 0 + d <= Len(sent) BY <1>4, <1>5, <2>1
  <2>5. sent \in Seq(Nat) BY <1>5
  <2>6. /\ SubSeq(sent, 0 + 1, 0 + d) \in Seq(Nat) /\ Len(SubSeq(sent, 0 + 1, 0 + d)) = d
        /\ \A i \in 1..d : SubSeq(sent, 0 + 1, 0 + d)[i] = sent[0 + i]
    BY <2>1, <2>4, <2>5, PartIs, Zenon
  <2> QED BY <2>1, <2>3, <2>6, Zenon
<1>7. w = Log!Newest(sent, m)
  <2>1. Least(Len(sent), m) = m BY <1>4, <1>5 DEF Least
  <2>2. PICK q : q = Log!Newest(sent, m) OBVIOUS
  <2>3. q \in Seq(Nat) /\ Len(q) = m /\ \A i \in 1..m : q[i] = sent[s - m + i]
    <3>1. /\ Log!Newest(sent, m) \in Seq(Nat) /\ Len(Log!Newest(sent, m)) = Least(Len(sent), m)
          /\ \A i \in 1..Least(Len(sent), m) : Log!Newest(sent, m)[i] = sent[Len(sent) - Least(Len(sent), m) + i]
      BY <1>5, NewestIs, Zenon
    <3>2. Len(sent) = s BY <1>5
    <3> QED BY <2>1, <2>2, <3>1, <3>2, Zenon
  <2>4. ASSUME NEW i \in 1..m PROVE w[i] = q[i]
    <3>1. s - m + i \in 1..s /\ a + (s - m + i) = n - m + i BY <1>4
    <3>2. w[i] = p[n - m + i] BY <1>1 DEF OnWire
    <3> QED BY <1>5, <2>3, <3>1, <3>2
  <2> QED BY <1>1, <2>2, <2>3, <2>4, SeqEqual
<1>8. e = Log!Reverse(Log!Newest(delivered, MaxShown))
  <2>1. PICK k \in Nat : k = Least(d, MaxShown) BY <1>2 DEF Least
  <2>2. PICK q : q = Log!Newest(delivered, MaxShown) OBVIOUS
  <2>3. q \in Seq(Nat) /\ Len(q) = k /\ \A i \in 1..k : q[i] = delivered[d - k + i]
    <3>1. delivered \in Seq(Nat) /\ Len(delivered) = d BY <1>6
    <3>2. MaxShown \in Nat BY <1>2
    <3>3. ASSUME NEW x \in Nat
          PROVE  /\ Log!Newest(delivered, x) \in Seq(Nat) /\ Len(Log!Newest(delivered, x)) = Least(Len(delivered), x)
                 /\ \A i \in 1..Least(Len(delivered), x) :
                      Log!Newest(delivered, x)[i] = delivered[Len(delivered) - Least(Len(delivered), x) + i]
      BY <3>1, NewestIs, Zenon
    <3>4. PICK x \in Nat : x = MaxShown BY <3>2
    <3>5. q \in Seq(Nat) /\ Len(q) = k /\ \A i \in 1..k : q[i] = delivered[d - k + i]
      BY <2>1, <2>2, <3>1, <3>3, <3>4, Zenon
    <3> QED BY <3>5
  <2>4. Len(e) = k /\ \A i \in 1..k : e[i] = p[n - m + 1 - i]
    <3>1. /\ Len(e) = IF n - a - m < MaxShown THEN n - a - m ELSE MaxShown
          /\ \A i \in 1..Len(e) : e[i] = p[n - m + 1 - i]
      BY <1>1 DEF OnPage
    <3> QED BY <1>3, <2>1, <3>1 DEF Least
  <2>5. ASSUME NEW i \in 1..k PROVE e[i] = q[k - i + 1]
    <3>1. k - i + 1 \in 1..k /\ d - k + (k - i + 1) = d - i + 1 /\ d - i + 1 \in 1..d /\ d - i + 1 \in 1..s
          /\ a + (d - i + 1) = n - m + 1 - i
      <4>1. k <= d BY <1>2, <2>1 DEF Least
      <4> QED BY <1>4, <4>1
    <3>2. q[k - i + 1] = delivered[d - i + 1] BY <2>3, <3>1
    <3>3. delivered[d - i + 1] = p[n - m + 1 - i] BY <1>5, <1>6, <3>1
    <3> QED BY <2>4, <3>2, <3>3
  <2>6. Log!Reverse(q) = [i \in 1..Len(q) |-> q[Len(q) - i + 1]] BY DEF Log!Reverse
  <2>7. Log!Reverse(q) = [i \in 1..k |-> q[k - i + 1]] BY <2>3, <2>6
  <2>8. e = [i \in 1..Len(e) |-> e[i]] BY LenProperties
  <2> QED BY <2>2, <2>4, <2>5, <2>7, <2>8
<1> QED BY <1>1, <1>7, <1>8

\* What an open live log shows, with what is on its way to it.
LEMMA FeedUnbrokenSince == FeedInv => Log!FeedIsUnbroken
<1> SUFFICES ASSUME FeedInv, watcher # 0, Log!Listening(watcher) PROVE Log!FeedIsUnbroken
  BY DEF Log!FeedIsUnbroken
<1>1. /\ watcher \in Log!Connections
      /\ OnWire(wire[watcher], published, since[watcher]) /\ OnPage(entries, wire[watcher], published, since[watcher])
      /\ published \in Seq(Nat) /\ entries \in Seq(Nat) /\ wire[watcher] \in Seq(Nat) /\ since[watcher] \in Nat
  BY DEF FeedInv, LogTypes
<1>2. PICK w, a : w = wire[watcher] /\ a = since[watcher] OBVIOUS
<1>3. LET sent      == SubSeq(published, a + 1, Len(published))
          delivered == SubSeq(sent, 1, Len(sent) - Len(w))
      IN w = Log!Newest(sent, Len(w)) /\ entries = Log!Reverse(Log!Newest(delivered, MaxShown))
  BY <1>1, <1>2, FeedIs
<1> QED BY <1>2, <1>3 DEF Log!FeedIsUnbroken

-----------------------------------------------------------------------------
(* Lookups of reports                                                      *)

\* Lookups are numbered as they are made and ask for something; what is served
\* is there.  Until two overlap the one under way is the newest, and once it is
\* over the panel shows its answer.  The page waits only for one under way.
LookupRecords ==
  [at : {"none", "asked", "served", "missing", "done"}, by : {"question", "report", None}, id : Ids \cup {None}]
LookupTypes ==
  /\ lookups \in [Compute!Lookups -> LookupRecords]
  /\ report \in [proof : Ids \cup {None}, measured : Ids \cup {None}]
  /\ questionId \in Ids \cup {None} /\ reportId \in Ids \cup {None}
  /\ busy \in BOOLEAN /\ failed \in BOOLEAN /\ overlapped \in BOOLEAN
LookupsNumbered == \E n \in 0..MaxLookups : Compute!Latest = 1..n
LookupsAsk ==
  \A i \in Compute!Lookups :
    /\ lookups[i].at # "none" => lookups[i].id \in Ids
    /\ lookups[i].at = "served" => lookups[i].id \in reported
OneAtATime == ~overlapped => \A i \in Compute!UnderWay, j \in Compute!Latest : j <= i
NewestIsShown ==
  ~overlapped /\ Compute!UnderWay = {} =>
    \A i \in Compute!Latest :
      (\A j \in Compute!Latest : j <= i)
        => failed \/ (report.proof = lookups[i].id /\ lookups[i].id \in reported)
WaitIsBacked == busy => Compute!UnderWay # {}
LookupInv ==
  LookupTypes /\ LookupsNumbered /\ LookupsAsk /\ OneAtATime /\ NewestIsShown /\ WaitIsBacked

LEMMA LookupInit == Init => LookupInv
<1> SUFFICES ASSUME Init PROVE LookupInv
  OBVIOUS
<1>1. /\ lookups = [i \in Compute!Lookups |-> Compute!NoLookup] /\ report = Compute!NoReport
      /\ questionId = None /\ reportId = None /\ busy = FALSE /\ failed = FALSE /\ overlapped = FALSE
  BY DEF Init, Compute!Init
<1>2. Compute!Latest = {} /\ Compute!UnderWay = {}
  BY <1>1 DEF Compute!Latest, Compute!UnderWay, Compute!NoLookup, Compute!Lookup
<1>3. LookupsNumbered
  BY <1>2, BoundsAssumption DEF LookupsNumbered
<1> QED
  BY <1>1, <1>2, <1>3 DEF LookupInv, LookupTypes, LookupRecords, LookupsAsk, OneAtATime, NewestIsShown, WaitIsBacked,
     Compute!NoLookup, Compute!NoReport, Compute!Lookup

\* A lookup begins.
LEMMA BeginKeepsLookups ==
  ASSUME LookupInv, NEW by \in {"question", "report"}, NEW id \in Ids,
         Compute!Begin(by, id), UNCHANGED <<reported, report>>,
         questionId' \in Ids \cup {None}, reportId' \in Ids \cup {None}
  PROVE  LookupInv'
<1> DEFINE new == [at |-> "asked", by |-> by, id |-> id]
<1>1. PICK i \in Compute!Lookups : Compute!Latest = 1..(i - 1) /\ lookups' = [lookups EXCEPT ![i] = new]
  BY DEF Compute!Begin, Compute!Lookup
<1>2. busy' = TRUE /\ failed' = FALSE /\ overlapped' = (overlapped \/ Compute!UnderWay # {})
  BY DEF Compute!Begin
<1>3. overlapped' \in BOOLEAN /\ (~overlapped' => ~overlapped /\ Compute!UnderWay = {})
  BY <1>2, Zenon DEF LookupInv, LookupTypes
<1>4. new \in LookupRecords /\ i \in Nat /\ i >= 1 /\ i <= MaxLookups
  BY BoundsAssumption DEF LookupRecords, Compute!Lookups
<1>5. \A j \in Compute!Lookups : lookups'[j] = IF j = i THEN new ELSE lookups[j]
  BY <1>1 DEF LookupInv, LookupTypes
<1>6. Compute!Latest' = 1..i
  <2>1. \A j \in Compute!Lookups : lookups'[j].at # "none" <=> j = i \/ j \in 1..(i - 1)
    BY <1>1, <1>5 DEF Compute!Latest
  <2> QED
    BY <1>4, <2>1, BoundsAssumption DEF Compute!Latest, Compute!Lookups
<1>7. Compute!UnderWay' = Compute!UnderWay \cup {i}
  BY <1>5 DEF Compute!UnderWay
<1>8. LookupTypes'
  BY <1>1, <1>2, <1>3, <1>4 DEF LookupInv, LookupTypes
<1>9. LookupsNumbered'
  BY <1>4, <1>6, BoundsAssumption DEF LookupsNumbered
<1>10. LookupsAsk'
  BY <1>5 DEF LookupInv, LookupsAsk
<1>11. OneAtATime'
  BY <1>3, <1>4, <1>6, <1>7 DEF OneAtATime
<1> QED
  BY <1>7, <1>8, <1>9, <1>10, <1>11 DEF LookupInv, NewestIsShown, WaitIsBacked

\* A lookup goes on, or is over.
LEMMA LookupMoves ==
  ASSUME LookupInv, NEW i \in Compute!Lookups, NEW at \in {"served", "missing", "done"},
         lookups[i].at \in {"asked", "served", "missing"}, lookups' = [lookups EXCEPT ![i].at = at]
  PROVE  /\ lookups' \in [Compute!Lookups -> LookupRecords]
         /\ \A j \in Compute!Lookups : lookups'[j].id = lookups[j].id /\ lookups'[j].at = IF j = i THEN at ELSE lookups[j].at
         /\ Compute!Latest' = Compute!Latest
         /\ Compute!UnderWay' = IF at = "done" THEN Compute!UnderWay \ {i} ELSE Compute!UnderWay
         /\ i \in Compute!UnderWay /\ Compute!UnderWay \subseteq Compute!Latest
<1>1. /\ lookups' \in [Compute!Lookups -> LookupRecords]
      /\ \A j \in Compute!Lookups : lookups'[j].id = lookups[j].id /\ lookups'[j].at = IF j = i THEN at ELSE lookups[j].at
  BY DEF LookupInv, LookupTypes, LookupRecords
<1> QED
  BY <1>1 DEF Compute!Latest, Compute!UnderWay

LEMMA LookupStep == LookupInv /\ [Next]_vars => LookupInv'
<1> USE DEF Compute!server, Compute!lists, Compute!form, Compute!detail
<1>0. SUFFICES ASSUME LookupInv, page = "compute", Compute!Next PROVE LookupInv'
  <2>1. ASSUME LookupInv, UNCHANGED computeVars PROVE LookupInv'
    BY <2>1 DEF LookupInv, LookupTypes, LookupsNumbered, LookupsAsk, OneAtATime, NewestIsShown, WaitIsBacked,
       Compute!Latest, Compute!UnderWay, computeVars
  <2> QED
    BY <1>0, <2>1 DEF Next, vars
\* What changes neither the lookups nor the panel.
<1>1. ASSUME UNCHANGED <<lookups, report, failed, busy, overlapped>>, reported \subseteq reported',
             questionId' \in Ids \cup {None}, reportId' \in Ids \cup {None}
      PROVE  LookupInv'
  <2>1. Compute!Latest' = Compute!Latest /\ Compute!UnderWay' = Compute!UnderWay
    BY <1>1 DEF Compute!Latest, Compute!UnderWay
  <2> QED
    BY <1>0, <1>1, <2>1 DEF LookupInv, LookupTypes, LookupsNumbered, LookupsAsk, OneAtATime, NewestIsShown, WaitIsBacked
<1>2. questionId \in Ids \cup {None} /\ reportId \in Ids \cup {None}
  BY <1>0 DEF LookupInv, LookupTypes
<1>3. CASE Compute!ListQueue \/ Compute!ListTrail
  BY <1>1, <1>2, <1>3 DEF Compute!ListQueue, Compute!ListTrail
<1>4. ASSUME NEW q \in Ids,
             Compute!Report(q) \/ Compute!Audit(q) \/ Compute!Decide(q) \/ Compute!TypeQuestion(q) \/ Compute!TypeReport(q)
      PROVE  LookupInv'
  BY <1>1, <1>2, <1>4 DEF Compute!Report, Compute!Audit, Compute!Decide, Compute!TypeQuestion, Compute!TypeReport
<1>5. CASE Compute!LookUp \/ Compute!Verify \/ \E q \in Ids : Compute!ClickRow(q)
  <2>1. \E by \in {"question", "report"}, id \in Ids :
          /\ Compute!Begin(by, id) /\ UNCHANGED <<reported, report>>
          /\ questionId' \in Ids \cup {None} /\ reportId' \in Ids \cup {None}
    BY <1>2, <1>5 DEF Compute!LookUp, Compute!Verify, Compute!ClickRow, Compute!ByQuestion, Compute!ByReport
  <2> QED
    BY <1>0, <2>1, BeginKeepsLookups
<1>6. ASSUME NEW i \in Compute!Lookups, Compute!Serve(i) PROVE LookupInv'
  <2>1. PICK at \in {"served", "missing"} :
          /\ lookups' = [lookups EXCEPT ![i].at = at] /\ lookups[i].at = "asked"
          /\ at = "served" => lookups[i].id \in reported
    BY <1>6 DEF Compute!Serve
  <2>2. UNCHANGED <<reported, report, failed, busy, overlapped, questionId, reportId>>
    BY <1>6 DEF Compute!Serve
  <2>3. /\ lookups' \in [Compute!Lookups -> LookupRecords]
        /\ \A j \in Compute!Lookups : lookups'[j].id = lookups[j].id /\ lookups'[j].at = IF j = i THEN at ELSE lookups[j].at
        /\ Compute!Latest' = Compute!Latest /\ Compute!UnderWay' = Compute!UnderWay
    BY <1>0, <2>1, LookupMoves
  <2>4. LookupsAsk' /\ LookupsNumbered' /\ OneAtATime'
    BY <1>0, <2>1, <2>2, <2>3 DEF LookupInv, LookupsNumbered, LookupsAsk, OneAtATime
  <2>5. LookupTypes' /\ WaitIsBacked'
    BY <1>0, <2>2, <2>3 DEF LookupInv, LookupTypes, WaitIsBacked
  <2>6. NewestIsShown'
    BY <1>0, <2>2, <2>3 DEF LookupInv, NewestIsShown, Compute!Latest
  <2> QED
    BY <2>4, <2>5, <2>6 DEF LookupInv
<1>7. ASSUME NEW i \in Compute!Lookups, Compute!Found(i) \/ Compute!NotFound(i) PROVE LookupInv'
  <2>1. /\ lookups' = [lookups EXCEPT ![i].at = "done"] /\ lookups[i].at \in {"asked", "served", "missing"}
        /\ busy' = FALSE /\ UNCHANGED <<reported, overlapped, questionId, reportId>>
    BY <1>7 DEF Compute!Found, Compute!NotFound
  <2>2. /\ report' \in [proof : Ids \cup {None}, measured : Ids \cup {None}] /\ failed' \in BOOLEAN
        /\ failed' \/ (report'.proof = lookups[i].id /\ lookups[i].id \in reported)
    <3>1. lookups[i].id \in Ids /\ (lookups[i].at = "served" => lookups[i].id \in reported)
      BY <1>0, <2>1 DEF LookupInv, LookupsAsk
    <3>2. CASE Compute!NotFound(i)
      BY <3>2 DEF Compute!NotFound, Compute!NoReport
    <3>3. CASE Compute!Found(i)
      <4>1. lookups[i].at = "served" /\ UNCHANGED failed
        BY <3>3 DEF Compute!Found
      <4>2. report' = IF lookups[i].by = "question"
                      THEN [proof |-> lookups[i].id, measured |-> lookups[i].id]
                      ELSE [report EXCEPT !.proof = lookups[i].id]
        BY <3>3 DEF Compute!Found
      <4> QED
        BY <1>0, <3>1, <4>1, <4>2 DEF LookupInv, LookupTypes
    <3> QED
      BY <1>7, <3>2, <3>3
  <2>3. /\ lookups' \in [Compute!Lookups -> LookupRecords]
        /\ \A j \in Compute!Lookups : lookups'[j].id = lookups[j].id /\ lookups'[j].at = IF j = i THEN "done" ELSE lookups[j].at
        /\ Compute!Latest' = Compute!Latest /\ Compute!UnderWay' = Compute!UnderWay \ {i}
        /\ i \in Compute!UnderWay /\ Compute!UnderWay \subseteq Compute!Latest
    BY <1>0, <2>1, LookupMoves
  <2>4. NewestIsShown'
    <3> SUFFICES ASSUME ~overlapped, NEW j \in Compute!Latest, \A k \in Compute!Latest : k <= j
                 PROVE  failed' \/ (report'.proof = lookups'[j].id /\ lookups'[j].id \in reported')
      BY <2>1, <2>3 DEF NewestIsShown
    <3>1. j = i
      BY <1>0, <2>3 DEF LookupInv, OneAtATime, Compute!Latest, Compute!Lookups
    <3> QED
      BY <2>1, <2>2, <2>3, <3>1
  <2>5. LookupsAsk' /\ LookupsNumbered' /\ OneAtATime'
    BY <1>0, <2>1, <2>3 DEF LookupInv, LookupsNumbered, LookupsAsk, OneAtATime
  <2>6. LookupTypes' /\ WaitIsBacked'
    BY <1>0, <2>1, <2>2, <2>3 DEF LookupInv, LookupTypes, WaitIsBacked
  <2> QED
    BY <2>4, <2>5, <2>6 DEF LookupInv
<1> QED
  BY <1>0, <1>3, <1>4, <1>5, <1>6, <1>7 DEF Compute!Next

\* Lookups one after the other end with the last one's answer.
LEMMA LastLookupOf == LookupInv => Compute!LastLookupIsShown
<1> SUFFICES ASSUME LookupInv PROVE Compute!LastLookupIsShown
  OBVIOUS
<1>1. Compute!Panel = "fetching" => Compute!UnderWay # {}
  BY DEF Compute!Panel, LookupInv, WaitIsBacked
<1>2. ASSUME ~overlapped, Compute!UnderWay = {}, Compute!Latest # {}
      PROVE  \/ Compute!Panel = "error"
             \/ /\ Compute!Panel = "report"
                /\ report.proof = lookups[Cardinality(Compute!Latest)].id /\ report.proof \in reported
  <2>1. PICK n \in 0..MaxLookups : Compute!Latest = 1..n
    BY DEF LookupInv, LookupsNumbered
  <2>2. n \in Nat /\ n >= 1 /\ n \in Compute!Latest
    BY <1>2, <2>1, BoundsAssumption
  <2>3. Cardinality(Compute!Latest) = n
    BY <2>1, <2>2, FS_Interval
  <2>4. failed \/ (report.proof = lookups[n].id /\ lookups[n].id \in reported)
    BY <1>2, <2>1, <2>2 DEF LookupInv, NewestIsShown
  <2>5. ~busy
    BY <1>2 DEF LookupInv, WaitIsBacked
  <2>6. lookups[n].id # None
    BY <2>2, ConstantsAssumption DEF LookupInv, LookupsAsk, Compute!Latest
  <2>7. CASE failed
    <3>1. Compute!Panel = "error"
      BY <2>5, <2>7 DEF Compute!Panel
    <3> QED
      BY <3>1
  <2>8. CASE ~failed
    BY <2>3, <2>4, <2>5, <2>6, <2>8 DEF Compute!Panel
  <2> QED
    BY <2>7, <2>8
<1>3. Compute!Cardinality(Compute!Latest) = Cardinality(Compute!Latest)
  BY Zenon DEF Compute!Cardinality, Cardinality
<1> QED
  BY <1>1, <1>2, <1>3 DEF Compute!LastLookupIsShown

-----------------------------------------------------------------------------
(* The outcome of a submission                                             *)

SubmitPoints == {"none", "creating", "created", "submitting", "marked", "submitted", "ask", "half", "read", "over"}
Unqueued == {"none", "creating", "created", "submitting", "marked"}
SubmitRecords ==
  [at : SubmitPoints, here : BOOLEAN, status : {"none", "DRAFT", "SUBMITTED", "VALIDATING"} \cup Author!Decisions,
   report : {"none", "pass", "fail"}]
QuestionRecords ==
  [report : {"none", "pass", "fail"}, status : {"none", "DRAFT", "SUBMITTED", "VALIDATING"} \cup Author!Decisions]
AuthorTypes ==
  /\ questions \in [Author!Questions -> QuestionRecords]
  /\ jobs \in [Author!Questions -> {"none", "queued", "begun", "judged", "over"}]
  /\ submits \in [Author!Questions -> SubmitRecords]

\* No job before the submission queued it; a decided question's run is over
\* and rests on its report.
Rests(q) ==
  /\ submits[q].at \in Unqueued => jobs[q] = "none"
  /\ jobs[q] = "judged" => questions[q].report # "none"
  /\ questions[q].status \in Author!Decisions =>
       /\ jobs[q] = "over" /\ questions[q].report # "none"
       /\ questions[q].status = Author!Judged(questions[q].report)

\* What a poll has read of a decision is so.
ReadIsSo(q) ==
  submits[q].status \in Author!Decisions =>
    /\ submits[q].at \in {"half", "read"} => questions[q].status = submits[q].status
    /\ submits[q].at = "read" => questions[q].report = submits[q].report

\* The page follows the newest submission: the others are behind it.
IsNewest(q) == \A o \in Author!Questions : o > q => submits[o].at = "none"
Follows(q) ==
  /\ submits[q].here => submits[q].at # "none"
  /\ submits[q].here /\ submits[q].at # "over" => Author!Busy /\ IsNewest(q)

OutcomeIsSo ==
  stage = "done" =>
    \E q \in Author!Questions :
      /\ submits[q].here /\ \A o \in Author!Questions : submits[o].here => o <= q
      /\ status \in Author!Decisions /\ questions[q].status = status /\ questions[q].report = verdict

AuthorInv ==
  /\ AuthorTypes /\ OutcomeIsSo
  /\ \A q \in Author!Questions : Rests(q) /\ ReadIsSo(q) /\ Follows(q)

LEMMA AuthorInit == Init => AuthorInv
  BY DEF Init, Author!Init, AuthorInv, AuthorTypes, QuestionRecords, SubmitRecords, SubmitPoints, Author!NoQuestion,
     Author!NoSubmit, Rests, ReadIsSo, Follows, OutcomeIsSo, Author!Decisions

\* A run of a question, or a call of a submission that is not decided yet,
\* changes no decided question.
LEMMA RunKeepsOutcome ==
  ASSUME AuthorInv, NEW q \in Author!Questions, UNCHANGED <<submits, stage, status, verdict>>,
         AuthorTypes', Rests(q)', questions[q].status \notin Author!Decisions,
         \A o \in Author!Questions \ {q} : questions'[o] = questions[o] /\ jobs'[o] = jobs[o]
  PROVE  AuthorInv'
<1> USE DEF Author!Questions
<1>1. OutcomeIsSo'
  BY DEF AuthorInv, OutcomeIsSo
<1>2. ASSUME NEW o \in Author!Questions PROVE Rests(o)' /\ ReadIsSo(o)' /\ Follows(o)'
  BY DEF AuthorInv, Rests, ReadIsSo, Follows, IsNewest, Author!Busy
<1> QED
  BY <1>1, <1>2 DEF AuthorInv

\* A submission goes on.  It may have written its row, which was not decided.
LEMMA SubmissionKeepsOutcome ==
  ASSUME AuthorInv, NEW q \in Author!Questions, NEW r \in SubmitRecords,
         submits' = [submits EXCEPT ![q] = r], r.here = submits[q].here,
         submits[q].at \notin {"none", "over"}, r.at # "none",
         AuthorTypes', Rests(q)', ReadIsSo(q)',
         questions'[q] = questions[q] \/ questions[q].status \notin Author!Decisions,
         \A o \in Author!Questions \ {q} : questions'[o] = questions[o] /\ jobs'[o] = jobs[o],
         \/ UNCHANGED <<stage, status, verdict>>
         \/ submits[q].here /\ r.at = "over" /\ stage' = "error"
         \/ submits[q].here /\ stage' \in {"creating", "submitting", "pipeline"}
  PROVE  AuthorInv'
<1> USE DEF Author!Questions
<1>1. \A o \in Author!Questions : submits'[o] = IF o = q THEN r ELSE submits[o]
  BY DEF AuthorInv, AuthorTypes
<1>2. ASSUME NEW o \in Author!Questions PROVE Rests(o)' /\ ReadIsSo(o)'
  BY <1>1 DEF AuthorInv, Rests, ReadIsSo
<1>3. ASSUME NEW o \in Author!Questions PROVE Follows(o)'
  BY <1>1 DEF AuthorInv, Follows, IsNewest, Author!Busy
<1>4. OutcomeIsSo'
  BY <1>1 DEF AuthorInv, OutcomeIsSo, Follows, Author!Busy
<1> QED
  BY <1>2, <1>3, <1>4 DEF AuthorInv

LEMMA AuthorStep == AuthorInv /\ [Next]_vars => AuthorInv'
<1> USE DEF Author!bank, Author!panel, Author!form, Author!history
<1>0. SUFFICES ASSUME AuthorInv, page = "author", Author!Next PROVE AuthorInv'
  <2>1. ASSUME AuthorInv, UNCHANGED authorVars PROVE AuthorInv'
    BY <2>1 DEF AuthorInv, AuthorTypes, Rests, ReadIsSo, Follows, IsNewest, OutcomeIsSo, Author!Busy, authorVars
  <2> QED
    BY <1>0, <2>1 DEF Next, vars
<1>1. CASE Author!List \/ Author!Type
  <2>1. UNCHANGED <<questions, jobs, submits, stage, status, verdict>>
    BY <1>1 DEF Author!List, Author!Type
  <2> QED
    BY <1>0, <2>1 DEF AuthorInv, AuthorTypes, Rests, ReadIsSo, Follows, IsNewest, OutcomeIsSo, Author!Busy
<1>2. ASSUME NEW p, Author!GoTo(p) PROVE AuthorInv'
  <2>1. /\ stage' = "idle" /\ UNCHANGED <<questions, jobs>>
        /\ submits' = [q \in Author!Questions |->
                         IF submits[q].at \in {"ask", "half", "read"} THEN [Author!NoSubmit EXCEPT !.at = "over"]
                                                                    ELSE [submits[q] EXCEPT !.here = FALSE]]
    BY <1>2 DEF Author!GoTo, Author!Away
  <2>2. ASSUME NEW q \in Author!Questions
        PROVE  /\ submits'[q] \in SubmitRecords /\ ~submits'[q].here
               /\ submits'[q].at = submits[q].at \/ (submits[q].at \notin Unqueued /\ submits'[q].at = "over")
               /\ submits'[q].at = submits[q].at => submits'[q].status = submits[q].status /\ submits'[q].report = submits[q].report
    BY <1>0, <2>1 DEF AuthorInv, AuthorTypes, SubmitRecords, SubmitPoints, Unqueued, Author!NoSubmit
  <2>3. AuthorTypes' /\ OutcomeIsSo'
    BY <1>0, <2>1, <2>2 DEF AuthorInv, AuthorTypes, OutcomeIsSo
  <2>4. ASSUME NEW q \in Author!Questions PROVE Rests(q)' /\ ReadIsSo(q)' /\ Follows(q)'
    BY <1>0, <2>1, <2>2 DEF AuthorInv, Rests, ReadIsSo, Follows, Unqueued
  <2> QED
    BY <2>3, <2>4 DEF AuthorInv
<1>3. ASSUME NEW q \in Author!Questions,
             \/ Author!Begin(q) \/ Author!Decide(q) \/ Author!Retry(q)
             \/ \E r \in {"pass", "fail"} : Author!Judge(q, r)
      PROVE  AuthorInv'
  <2>1. UNCHANGED <<submits, stage, status, verdict>> /\ jobs[q] \notin {"none", "over"}
    BY <1>3 DEF Author!Begin, Author!Decide, Author!Retry, Author!Judge
  <2>2. questions[q].status \notin Author!Decisions /\ submits[q].at \notin Unqueued
    BY <1>0, <2>1 DEF AuthorInv, Rests
  <2>3. /\ AuthorTypes'
        /\ \A o \in Author!Questions \ {q} : questions'[o] = questions[o] /\ jobs'[o] = jobs[o]
    <3> USE <1>0 DEF AuthorInv, AuthorTypes, QuestionRecords, Author!Decisions
    <3>1. CASE Author!Begin(q) \/ Author!Retry(q)
      BY <2>1, <3>1 DEF Author!Begin, Author!Retry
    <3>2. CASE Author!Decide(q)
      BY <2>1, <3>2 DEF Author!Decide, Author!Judged
    <3>3. ASSUME NEW r \in {"pass", "fail"}, Author!Judge(q, r) PROVE AuthorTypes' /\ \A o \in Author!Questions \ {q} : questions'[o] = questions[o] /\ jobs'[o] = jobs[o]
      BY <2>1, <3>3 DEF Author!Judge
    <3> QED
      BY <1>3, <3>1, <3>2, <3>3
  <2>4. Rests(q)'
    <3>1. CASE Author!Begin(q) \/ Author!Retry(q)
      BY <1>0, <2>1, <2>2, <3>1 DEF AuthorInv, AuthorTypes, QuestionRecords, Rests, Author!Begin, Author!Retry, Author!Decisions
    <3>2. CASE Author!Decide(q)
      BY <1>0, <2>1, <2>2, <3>2 DEF AuthorInv, AuthorTypes, QuestionRecords, Rests, Author!Decide
    <3>3. ASSUME NEW r \in {"pass", "fail"}, Author!Judge(q, r) PROVE Rests(q)'
      BY <1>0, <2>1, <2>2, <3>3 DEF AuthorInv, AuthorTypes, QuestionRecords, Rests, Author!Judge
    <3> QED
      BY <1>3, <3>1, <3>2, <3>3
  <2> QED
    BY <1>0, <2>1, <2>2, <2>3, <2>4, RunKeepsOutcome
<1>4. ASSUME NEW q \in Author!Questions,
             Author!ServeCreate(q) \/ Author!ServeSubmit(q) \/ Author!ServeEnqueue(q)
      PROVE  AuthorInv'
  <2>1. PICK at \in {"created", "marked", "submitted"} :
          /\ submits' = [submits EXCEPT ![q].at = at] /\ submits[q].at \in {"creating", "submitting", "marked"}
          /\ at \in Unqueued => jobs' = jobs
    BY <1>4 DEF Author!ServeCreate, Author!ServeSubmit, Author!ServeEnqueue, Author!Goes, Unqueued
  <2>2. jobs[q] = "none" /\ questions[q].status \notin Author!Decisions
    BY <1>0, <2>1 DEF AuthorInv, Rests, Unqueued
  <2>3. /\ UNCHANGED <<stage, status, verdict>> /\ jobs'[q] \in {"none", "queued"}
        /\ jobs' \in [Author!Questions -> {"none", "queued", "begun", "judged", "over"}]
        /\ questions' \in [Author!Questions -> QuestionRecords] /\ questions'[q].status \notin Author!Decisions
        /\ \A o \in Author!Questions \ {q} : questions'[o] = questions[o] /\ jobs'[o] = jobs[o]
    BY <1>0, <1>4, <2>2 DEF AuthorInv, AuthorTypes, QuestionRecords, Author!ServeCreate, Author!ServeSubmit,
       Author!ServeEnqueue, Author!Decisions
  <2> DEFINE r == [submits[q] EXCEPT !.at = at]
  <2>4. /\ r \in SubmitRecords /\ r.at = at /\ r.here = submits[q].here /\ submits' = [submits EXCEPT ![q] = r]
        /\ submits'[q] = r
    BY <1>0, <2>1 DEF AuthorInv, AuthorTypes, SubmitRecords, SubmitPoints
  <2>5. AuthorTypes'
    BY <1>0, <2>3, <2>4 DEF AuthorInv, AuthorTypes
  <2>6. Rests(q)' /\ ReadIsSo(q)'
    BY <2>1, <2>2, <2>3, <2>4 DEF Rests, ReadIsSo
  <2> HIDE DEF r
  <2> QED
    BY <1>0, <2>1, <2>2, <2>3, <2>4, <2>5, <2>6, SubmissionKeepsOutcome
<1>5. ASSUME NEW q \in Author!Questions, Author!ServeStatus(q) \/ Author!ServeReport(q) PROVE AuthorInv'
  <2>1. UNCHANGED <<questions, jobs, stage, status, verdict>> /\ submits[q].at \in {"ask", "half"}
    BY <1>5 DEF Author!ServeStatus, Author!ServeReport
  <2>2. PICK r : /\ r \in SubmitRecords /\ r.here = submits[q].here /\ r.at \in {"half", "read"}
                 /\ submits' = [submits EXCEPT ![q] = r]
                 /\ r.status = questions[q].status \/ (r.status = submits[q].status /\ submits[q].at = "half")
                 /\ r.at = "read" => r.report = questions[q].report
    <3>1. CASE Author!ServeStatus(q)
      <4> DEFINE r == [submits[q] EXCEPT !.at = "half", !.status = questions[q].status]
      <4>1. r \in SubmitRecords /\ r.at = "half" /\ r.status = questions[q].status /\ r.here = submits[q].here
        BY <1>0 DEF AuthorInv, AuthorTypes, SubmitRecords, QuestionRecords, SubmitPoints
      <4>2. submits' = [submits EXCEPT ![q] = r]
        BY <1>0, <3>1 DEF Author!ServeStatus, AuthorInv, AuthorTypes, SubmitRecords
      <4> HIDE DEF r
      <4> QED
        BY <4>1, <4>2
    <3>2. CASE Author!ServeReport(q)
      <4> DEFINE r == [submits[q] EXCEPT !.at = "read", !.report = questions[q].report]
      <4>1. /\ r \in SubmitRecords /\ r.at = "read" /\ r.report = questions[q].report /\ r.here = submits[q].here
            /\ r.status = submits[q].status
        BY <1>0 DEF AuthorInv, AuthorTypes, SubmitRecords, QuestionRecords, SubmitPoints
      <4>2. submits' = [submits EXCEPT ![q] = r] /\ submits[q].at = "half"
        BY <1>0, <3>2 DEF Author!ServeReport, AuthorInv, AuthorTypes, SubmitRecords
      <4> HIDE DEF r
      <4> QED
        BY <4>1, <4>2
    <3> QED
      BY <1>5, <3>1, <3>2
  <2>3. submits'[q] = r /\ AuthorTypes'
    BY <1>0, <2>1, <2>2 DEF AuthorInv, AuthorTypes
  <2>4. Rests(q)' /\ ReadIsSo(q)'
    BY <1>0, <2>1, <2>2, <2>3 DEF AuthorInv, Rests, ReadIsSo, Unqueued
  <2> QED
    BY <1>0, <2>1, <2>2, <2>3, <2>4, SubmissionKeepsOutcome
<1>6. ASSUME NEW q \in Author!Questions, Author!Submit(q) PROVE AuthorInv'
  <2> DEFINE r == [Author!NoSubmit EXCEPT !.at = "creating", !.here = TRUE]
  <2>1. /\ submits' = [submits EXCEPT ![q] = r] /\ stage' = "creating" /\ ~Author!Busy
        /\ \A o \in Author!Questions : (o < q) <=> (submits[o].at # "none")
        /\ UNCHANGED <<questions, jobs>>
    BY <1>6 DEF Author!Submit
  <2>2. /\ r \in SubmitRecords /\ r.at = "creating" /\ r.here /\ r.status = "none"
        /\ \A o \in Author!Questions : submits'[o] = IF o = q THEN r ELSE submits[o]
    BY <1>0, <2>1 DEF AuthorInv, AuthorTypes, SubmitRecords, SubmitPoints, Author!NoSubmit
  <2>3. jobs[q] = "none" /\ "none" \notin Author!Decisions
    BY <1>0, <2>1 DEF AuthorInv, Rests, Unqueued, Author!Questions, Author!Decisions
  <2>4. AuthorTypes' /\ OutcomeIsSo'
    BY <1>0, <2>1, <2>2 DEF AuthorInv, AuthorTypes, OutcomeIsSo
  <2>5. ASSUME NEW o \in Author!Questions PROVE Rests(o)' /\ ReadIsSo(o)'
    BY <1>0, <2>1, <2>2, <2>3 DEF AuthorInv, Rests, ReadIsSo
  <2>6. ASSUME NEW o \in Author!Questions PROVE Follows(o)'
    <3>1. Author!Busy'
      BY <2>1 DEF Author!Busy
    <3> QED
      BY <1>0, <2>1, <2>2, <3>1 DEF AuthorInv, Follows, IsNewest, Author!Questions
  <2> QED
    BY <2>4, <2>5, <2>6 DEF AuthorInv
<1>7. ASSUME NEW q \in Author!Questions, Author!Created(q) \/ Author!Submitted(q) PROVE AuthorInv'
  <2>1. PICK at \in {"submitting", "ask"} :
          /\ submits' = [submits EXCEPT ![q].at = at] /\ UNCHANGED <<questions, jobs, status, verdict>>
          /\ at = "submitting" => submits[q].at = "created"
          /\ at = "ask" => submits[q].at = "submitted"
          /\ stage' = IF submits[q].here THEN stage' ELSE stage
          /\ submits[q].here => stage' \in {"submitting", "pipeline"}
    BY <1>7 DEF Author!Created, Author!Submitted, Author!Goes, Author!Stage
  <2> DEFINE r == [submits[q] EXCEPT !.at = at]
  <2>2. /\ r \in SubmitRecords /\ r.at = at /\ r.here = submits[q].here /\ submits' = [submits EXCEPT ![q] = r]
        /\ submits'[q] = r
    BY <1>0, <2>1 DEF AuthorInv, AuthorTypes, SubmitRecords, SubmitPoints
  <2>3. AuthorTypes'
    BY <1>0, <2>1, <2>2 DEF AuthorInv, AuthorTypes
  <2>4. Rests(q)' /\ ReadIsSo(q)'
    BY <1>0, <2>1, <2>2 DEF AuthorInv, Rests, ReadIsSo, Unqueued
  <2>5. submits[q].here \/ UNCHANGED <<stage, status, verdict>>
    BY <2>1
  <2> HIDE DEF r
  <2> QED
    BY <1>0, <2>1, <2>2, <2>3, <2>4, <2>5, SubmissionKeepsOutcome
<1>8. ASSUME NEW q \in Author!Questions, Author!Undecided(q) PROVE AuthorInv'
  <2>1. PICK to \in {"ask", "over"} : submits' = [submits EXCEPT ![q] = [Author!NoSubmit EXCEPT !.at = to, !.here = submits[q].here]]
    BY <1>8 DEF Author!Undecided
  <2>2. /\ submits[q].at = "read" /\ UNCHANGED <<questions, jobs, stage, verdict>>
        /\ ~submits[q].here => status' = status
    BY <1>8 DEF Author!Undecided
  <2> DEFINE r == [Author!NoSubmit EXCEPT !.at = to, !.here = submits[q].here]
  <2>3. r \in SubmitRecords /\ r.at = to /\ r.here = submits[q].here /\ submits'[q] = r
    BY <1>0, <2>1 DEF AuthorInv, AuthorTypes, SubmitRecords, SubmitPoints, Author!NoSubmit
  <2>4. AuthorTypes'
    BY <1>0, <2>1, <2>2, <2>3 DEF AuthorInv, AuthorTypes
  <2>5. Rests(q)' /\ ReadIsSo(q)'
    BY <1>0, <2>1, <2>2, <2>3 DEF AuthorInv, Rests, ReadIsSo, Unqueued
  <2>6. CASE submits[q].here
    <3>1. stage' \in {"creating", "submitting", "pipeline"}
      BY <1>0, <2>2, <2>6 DEF AuthorInv, Follows, Author!Busy
    <3> HIDE DEF r
    <3> QED
      BY <1>0, <2>1, <2>2, <2>3, <2>4, <2>5, <2>6, <3>1, SubmissionKeepsOutcome DEF r
  <2>7. CASE ~submits[q].here
    BY <1>0, <2>1, <2>2, <2>3, <2>4, <2>5, <2>7, SubmissionKeepsOutcome
  <2> QED
    BY <2>6, <2>7
<1>9. ASSUME NEW q \in Author!Questions, Author!Decided(q) \/ Author!SubmitFails(q) PROVE AuthorInv'
  <2> DEFINE r == [Author!NoSubmit EXCEPT !.at = "over", !.here = submits[q].here]
  <2>1. /\ submits' = [submits EXCEPT ![q] = r] /\ submits[q].at \notin {"none", "over"} /\ UNCHANGED <<questions, jobs>>
        /\ stage' = IF submits[q].here THEN stage' ELSE stage
    BY <1>9 DEF Author!Decided, Author!SubmitFails, Author!Over, Author!Stage
  <2>2. r \in SubmitRecords /\ r.at = "over" /\ r.here = submits[q].here /\ submits'[q] = r
    BY <1>0, <2>1 DEF AuthorInv, AuthorTypes, SubmitRecords, SubmitPoints, Author!NoSubmit
  <2>3. AuthorTypes'
    BY <1>0, <2>1, <2>2 DEF AuthorInv, AuthorTypes
  <2>4. Rests(q)' /\ ReadIsSo(q)'
    BY <1>0, <2>1, <2>2 DEF AuthorInv, Rests, ReadIsSo, Unqueued
  <2>5. CASE Author!SubmitFails(q) \/ ~submits[q].here
    <3>1. (submits[q].here /\ stage' = "error") \/ UNCHANGED <<stage, status, verdict>>
      BY <1>9, <2>1, <2>5 DEF Author!SubmitFails, Author!Decided, Author!Stage
    <3> HIDE DEF r
    <3> QED
      BY <1>0, <2>1, <2>2, <2>3, <2>4, <3>1, SubmissionKeepsOutcome
  <2>6. CASE Author!Decided(q) /\ submits[q].here
    <3>1. /\ submits[q].at = "read" /\ submits[q].status \in Author!Decisions
          /\ stage' = "done" /\ status' = submits[q].status /\ verdict' = submits[q].report
      BY <2>6 DEF Author!Decided, Author!Stage
    <3>2. questions[q].status = status' /\ questions[q].report = verdict' /\ IsNewest(q)
      BY <1>0, <2>6, <3>1 DEF AuthorInv, ReadIsSo, Follows
    <3>3. \A o \in Author!Questions : submits'[o] = IF o = q THEN r ELSE submits[o]
      BY <1>0, <2>1 DEF AuthorInv, AuthorTypes
    <3>4. OutcomeIsSo'
      <4>1. \A o \in Author!Questions : submits'[o].here => o <= q
        BY <1>0, <3>2, <3>3 DEF AuthorInv, Follows, IsNewest, Author!Questions
      <4> QED
        BY <2>1, <2>2, <2>6, <3>1, <3>2, <4>1 DEF OutcomeIsSo
    <3>5. ASSUME NEW o \in Author!Questions PROVE Rests(o)' /\ ReadIsSo(o)'
      BY <1>0, <2>1, <2>4, <3>3 DEF AuthorInv, Rests, ReadIsSo
    <3>6. ASSUME NEW o \in Author!Questions PROVE Follows(o)'
      <4>1. submits[o].here /\ o # q => submits[o].at = "over"
        BY <1>0, <2>1, <3>2 DEF AuthorInv, Follows, IsNewest, Author!Questions
      <4> QED
        BY <1>0, <2>2, <3>3, <4>1 DEF AuthorInv, Follows
    <3> QED
      BY <2>3, <3>4, <3>5, <3>6 DEF AuthorInv
  <2> QED
    BY <1>9, <2>5, <2>6
<1>10. ASSUME NEW q \in Author!Questions, Author!Select(q) \/ Author!Detailed(q) \/ Author!DetailFails(q) PROVE AuthorInv'
  <2>1. UNCHANGED <<questions, jobs, submits, stage, status, verdict>>
    BY <1>10 DEF Author!Select, Author!Detailed, Author!DetailFails
  <2> QED
    BY <1>0, <2>1 DEF AuthorInv, AuthorTypes, Rests, ReadIsSo, Follows, IsNewest, OutcomeIsSo, Author!Busy
<1> QED
  <2>1. CASE \E p \in {"submit", "history"} : Author!GoTo(p)
    BY <1>2, <2>1
  <2>2. CASE \E q \in Author!Questions :
               \/ Author!ServeCreate(q) \/ Author!ServeSubmit(q) \/ Author!ServeEnqueue(q)
               \/ Author!ServeStatus(q) \/ Author!ServeReport(q)
               \/ Author!Begin(q) \/ Author!Decide(q) \/ Author!Retry(q)
               \/ \E r \in {"pass", "fail"} : Author!Judge(q, r)
    BY <1>3, <1>4, <1>5, <2>2
  <2>3. CASE \E q \in Author!Questions :
               \/ Author!Submit(q) \/ Author!Created(q) \/ Author!Submitted(q) \/ Author!Undecided(q)
               \/ Author!Decided(q) \/ Author!SubmitFails(q)
    BY <1>6, <1>7, <1>8, <1>9, <2>3
  <2>4. CASE \E q \in Author!Questions : Author!Select(q) \/ Author!Detailed(q) \/ Author!DetailFails(q)
    BY <1>10, <2>4
  <2> QED
    BY <1>0, <1>1, <2>1, <2>2, <2>3, <2>4 DEF Author!Next

\* The outcome an author sees is final and rests on the report under it,
\* however the polls of his submissions fall among the pipeline's steps, its
\* retries and his going to and fro between the pages (SubmitQuestion.tsx).
THEOREM OutcomeExplained == Spec => []OutcomeIsExplained
<1>1. AuthorInv => OutcomeIsExplained
  <2> SUFFICES ASSUME AuthorInv, stage = "done"
               PROVE  /\ questions[Author!Latest].status = status /\ questions[Author!Latest].report = verdict
                      /\ Author!StepState.outcome = "failed" <=> Author!Breached
    BY DEF OutcomeIsExplained, Author!OutcomeIsExplained
  <2>1. PICK q \in Author!Questions :
          /\ submits[q].here /\ \A o \in Author!Questions : submits[o].here => o <= q
          /\ status \in Author!Decisions /\ questions[q].status = status /\ questions[q].report = verdict
    BY DEF AuthorInv, OutcomeIsSo
  <2>2. Author!Latest = q
    <3>1. \A x \in Author!Followed : (\A o \in Author!Followed : o <= x) => x = q
      BY <2>1 DEF Author!Followed, Author!Questions
    <3> QED
      BY <2>1, <3>1 DEF Author!Latest, Author!Followed
  <2>3. verdict \in {"pass", "fail"} /\ status = Author!Judged(verdict)
    BY <2>1 DEF AuthorInv, Rests, AuthorTypes, QuestionRecords
  <2> QED
    BY <2>1, <2>2, <2>3 DEF Author!StepState, Author!Breached, Author!Judged
<1> QED
  BY <1>1, AuthorInit, AuthorStep, PTL DEF Spec

-----------------------------------------------------------------------------
(* What the page says of a paper                                           *)

PaperTypes ==
  /\ papers \in [Paper!Clicks -> Paper!PaperSet]
  /\ loops \in [Paper!Clicks -> [at : Paper!Points, visit : 0..MaxVisits, answer : Paper!PaperSet]]
  /\ runs \in [Paper!Clicks -> Paper!Places]
  /\ shown \in Paper!PaperSet /\ polling \in BOOLEAN /\ visit \in 0..MaxVisits

\* What was read of a paper stays so, but for its status: no artefact is taken
\* back, whichever run wrote it.
IsSo(a) ==
  a.id # 0 =>
    /\ papers[a.id].id = a.id
    /\ a.questions => a.id \in linked
    /\ a.root => papers[a.id].root
    /\ a.chain => papers[a.id].chain
    /\ a.ref => papers[a.id].ref
    /\ a.status = "READY" => a.questions /\ a.root /\ a.chain /\ a.ref

\* A paper's row and its artefacts, by the place its click and its job are at.
Exists(p) ==
  /\ papers[p].id \in {0, p}
  /\ loops[p].at \in {"none", "create"} => papers[p].id = 0
  /\ loops[p].at \in {"none", "create", "queue"} => runs[p] = "none"
  /\ loops[p].at \in {"queue", "answered", "ask", "read", "sleep"} => papers[p].id = p
Backed(p) ==
  /\ papers[p].root => p \in stored
  /\ papers[p].chain => p \in anchored
  /\ runs[p] \in {"upload", "anchor", "record", "seal"} => p \in linked
  /\ runs[p] \in {"anchor", "record", "seal"} => p \in stored
  /\ runs[p] \in {"record", "seal"} => p \in anchored
  /\ runs[p] = "seal" => papers[p].root /\ papers[p].chain
  /\ papers[p].status = "READY" => p \in linked /\ papers[p].root /\ papers[p].chain /\ papers[p].ref

PaperInv ==
  /\ PaperTypes /\ Paper!PollingIsBacked
  /\ IsSo(shown) /\ \A p \in Paper!Clicks : IsSo(loops[p].answer)
  /\ \A p \in Paper!Clicks : Exists(p) /\ Backed(p)

LEMMA PaperInit == Init => PaperInv
<1> USE BoundsAssumption DEF Paper!Clicks
<1> SUFFICES ASSUME Init PROVE PaperInv
  OBVIOUS
<1>1. /\ papers = [p \in Paper!Clicks |-> Paper!NoPaper] /\ runs = [p \in Paper!Clicks |-> "none"]
      /\ loops = [p \in Paper!Clicks |-> [at |-> "none", visit |-> 0, answer |-> Paper!NoPaper]]
      /\ shown = Paper!NoPaper /\ polling = FALSE /\ visit = 0
  BY DEF Init, Paper!Init, Paper!NoLoop, Paper!Loop
<1>2. Paper!NoPaper \in Paper!PaperSet /\ Paper!NoPaper.id = 0 /\ ~Paper!NoPaper.root /\ ~Paper!NoPaper.chain /\ Paper!NoPaper.status = "none"
  BY DEF Paper!NoPaper, Paper!PaperSet
<1>3. PaperTypes
  <2>1. 0 \in 0..MaxVisits
    BY BoundsAssumption
  <2> QED
    BY <1>1, <1>2, <2>1 DEF PaperTypes, Paper!Points, Paper!Places
<1> QED
  BY <1>1, <1>2, <1>3 DEF PaperInv, IsSo, Exists, Backed, Paper!PollingIsBacked

\* A step that takes nothing back keeps what was read.
LEMMA StillSo ==
  ASSUME NEW a, IsSo(a), a.id # 0 => a.id \in Paper!Clicks,
         \A p \in Paper!Clicks :
           papers[p].id = p =>
             /\ papers'[p].id = p
             /\ papers[p].root => papers'[p].root
             /\ papers[p].chain => papers'[p].chain
             /\ papers[p].ref => papers'[p].ref,
         linked \subseteq linked'
  PROVE  a.id # 0 =>
           /\ papers'[a.id].id = a.id
           /\ a.questions => a.id \in linked'
           /\ a.root => papers'[a.id].root
           /\ a.chain => papers'[a.id].chain
           /\ a.ref => papers'[a.id].ref
           /\ a.status = "READY" => a.questions /\ a.root /\ a.chain /\ a.ref
  BY DEF IsSo

\* A step of the pipeline: the page and its calls are not touched.
LEMMA PipelineKeepsPaper ==
  ASSUME PaperInv, NEW p \in Paper!Clicks, UNCHANGED <<visit, loops, shown, polling>>,
         papers' \in [Paper!Clicks -> Paper!PaperSet], runs' \in [Paper!Clicks -> Paper!Places],
         runs[p] # "none", runs'[p] # "none",
         \A o \in Paper!Clicks \ {p} : papers'[o] = papers[o] /\ runs'[o] = runs[o],
         linked \subseteq linked', stored \subseteq stored', anchored \subseteq anchored',
         papers'[p].id = papers[p].id, Backed(p)',
         papers[p].root => papers'[p].root,
         papers[p].chain => papers'[p].chain,
         papers[p].ref => papers'[p].ref
  PROVE  PaperInv'
<1>1. PaperTypes'
  BY DEF PaperInv, PaperTypes
<1>2. Paper!PollingIsBacked'
  BY DEF PaperInv, Paper!PollingIsBacked, Paper!Here
<1>3. ASSUME NEW a \in Paper!PaperSet, IsSo(a)
      PROVE  a.id # 0 =>
               /\ papers'[a.id].id = a.id
               /\ a.questions => a.id \in linked'
               /\ a.root => papers'[a.id].root
               /\ a.chain => papers'[a.id].chain
               /\ a.ref => papers'[a.id].ref
               /\ a.status = "READY" => a.questions /\ a.root /\ a.chain /\ a.ref
  <2>1. a.id # 0 => a.id \in Paper!Clicks
    BY BoundsAssumption DEF Paper!PaperSet, Paper!Clicks
  <2> QED
    BY <1>3, <2>1, StillSo
<1>4. IsSo(shown)' /\ \A o \in Paper!Clicks : IsSo(loops[o].answer)'
  BY <1>3 DEF PaperInv, PaperTypes, IsSo
<1>5. ASSUME NEW o \in Paper!Clicks PROVE Exists(o)' /\ Backed(o)'
  <2>1. Exists(o)'
    BY DEF PaperInv, Exists
  <2>2. Backed(o)'
    BY DEF PaperInv, Backed
  <2> QED
    BY <2>1, <2>2
<1> QED
  BY <1>1, <1>2, <1>4, <1>5 DEF PaperInv

\* A call of the page goes on, and may change what the page shows.
LoopRecords == [at : Paper!Points, visit : 0..MaxVisits, answer : Paper!PaperSet]

LEMMA LoopKeepsPaper ==
  ASSUME PaperInv, NEW p \in Paper!Clicks, NEW l \in LoopRecords, loops' = [loops EXCEPT ![p] = l],
         UNCHANGED <<papers, runs, linked, stored, anchored, visit>>,
         IsSo(l.answer), shown' \in {shown, loops[p].answer}, polling' \in BOOLEAN,
         Exists(p)', Paper!PollingIsBacked'
  PROVE  PaperInv'
<1>1. \A o \in Paper!Clicks : loops'[o] = IF o = p THEN l ELSE loops[o]
  BY DEF PaperInv, PaperTypes
<1>2. PaperTypes'
  BY DEF PaperInv, PaperTypes, LoopRecords
<1>3. IsSo(shown)' /\ \A o \in Paper!Clicks : IsSo(loops[o].answer)'
  BY <1>1 DEF PaperInv, IsSo
<1>4. ASSUME NEW o \in Paper!Clicks PROVE Exists(o)' /\ Backed(o)'
  <2>1. Backed(o)'
    BY DEF PaperInv, Backed
  <2>2. o # p => Exists(o)'
    BY <1>1 DEF PaperInv, Exists
  <2> QED
    BY <2>1, <2>2
<1> QED
  BY <1>2, <1>3, <1>4 DEF PaperInv

\* Somebody polls, as long as the one that moves still does or the page stops
\* saying so.
LEMMA StillPolls ==
  ASSUME PaperInv, NEW p \in Paper!Clicks, NEW l \in LoopRecords, loops' = [loops EXCEPT ![p] = l],
         visit' = visit, l.visit = loops[p].visit,
         polling' => polling \/ (Paper!Here(p) /\ l.at \in {"ask", "read", "sleep", "failed"}),
         polling' /\ Paper!Here(p) /\ loops[p].at \in {"ask", "read", "sleep", "failed"} => l.at \in {"ask", "read", "sleep", "failed"}
  PROVE  Paper!PollingIsBacked'
<1>1. \A o \in Paper!Clicks : loops'[o] = IF o = p THEN l ELSE loops[o]
  BY DEF PaperInv, PaperTypes
<1> QED
  BY <1>1 DEF PaperInv, Paper!PollingIsBacked, Paper!Here

LEMMA PaperPageStep ==
  ASSUME PaperInv, NEW p \in Paper!Clicks,
         Paper!Click(p) \/ Paper!Page(p) \/ Paper!Read(p) \/ Paper!CallFails(p)
  PROVE  PaperInv'
<1> USE DEF Paper!work, Paper!view
<1>0. /\ loops[p] \in LoopRecords /\ visit \in 0..MaxVisits /\ papers[p] \in Paper!PaperSet
      /\ polling \in BOOLEAN /\ IsSo(loops[p].answer) /\ Exists(p)
  BY DEF PaperInv, PaperTypes, LoopRecords
<1>1. IsSo(Paper!NoPaper) /\ Paper!NoPaper \in Paper!PaperSet /\ Paper!NoPaper.id = 0
  <2>1. 0 \in 0..MaxClicks
    BY BoundsAssumption
  <2> QED
    BY <2>1 DEF IsSo, Paper!NoPaper, Paper!PaperSet
<1>2. UNCHANGED <<papers, runs, linked, stored, anchored, visit>>
  BY DEF Paper!Click, Paper!Page, Paper!Polls, Paper!Shows, Paper!GivesUp, Paper!Fails, Paper!Read, Paper!CallFails
<1>3. CASE Paper!Click(p)
  <2> DEFINE l == [at |-> "create", visit |-> visit, answer |-> Paper!NoPaper]
  <2>1. /\ loops' = [loops EXCEPT ![p] = l] /\ loops[p].at = "none" /\ ~polling /\ UNCHANGED <<shown, polling>>
        /\ l \in LoopRecords
    BY <1>0, <1>1, <1>3 DEF Paper!Click, Paper!Loop, LoopRecords, Paper!Points
  <2>2. loops'[p] = l
    BY <2>1 DEF PaperInv, PaperTypes
  <2>3. Exists(p)' /\ Paper!PollingIsBacked'
    BY <1>0, <1>2, <2>1, <2>2 DEF Exists, Paper!PollingIsBacked
  <2> QED
    BY <1>0, <1>1, <1>2, <2>1, <2>3, LoopKeepsPaper
<1>4. ASSUME NEW at \in Paper!Points, NEW a \in {loops[p].answer, Paper!NoPaper, [papers[p] EXCEPT !.questions = p \in linked]},
             loops' = [loops EXCEPT ![p] = [at |-> at, visit |-> loops[p].visit, answer |-> a]],
             IsSo(a), shown' \in {shown, loops[p].answer}, polling' \in BOOLEAN,
             at \in {"none", "create"} => loops[p].at = at,
             at \in {"none", "create", "queue"} => loops[p].at = at,
             at \in {"queue", "answered", "ask", "read", "sleep"} => loops[p].at \in {"queue", "answered", "ask", "read", "sleep"},
             polling' => polling \/ (Paper!Here(p) /\ at = "ask"),
             polling' /\ Paper!Here(p) /\ loops[p].at \in {"ask", "read", "sleep", "failed"} => at \in {"ask", "read", "sleep", "failed"}
      PROVE  PaperInv'
  <2> DEFINE l == [at |-> at, visit |-> loops[p].visit, answer |-> a]
  <2>1. a \in Paper!PaperSet
    <3>1. (p \in linked) \in BOOLEAN
      OBVIOUS
    <3>2. [papers[p] EXCEPT !.questions = p \in linked] \in Paper!PaperSet
      BY <1>0, <3>1 DEF Paper!PaperSet
    <3>3. loops[p].answer \in Paper!PaperSet
      BY <1>0 DEF LoopRecords
    <3> QED
      BY <1>1, <3>2, <3>3
  <2>2. l \in LoopRecords /\ l.at = at /\ l.visit = loops[p].visit /\ l.answer = a
    BY <1>0, <2>1 DEF LoopRecords
  <2>3. loops'[p] = l
    BY <1>4 DEF PaperInv, PaperTypes
  <2>4. Exists(p)'
    BY <1>0, <1>2, <1>4, <2>2, <2>3 DEF Exists
  <2> HIDE DEF l
  <2>5. loops' = [loops EXCEPT ![p] = l]
    BY <1>4 DEF l
  <2>6. Paper!PollingIsBacked'
    BY <1>2, <1>4, <2>2, <2>5, StillPolls
  <2> QED
    BY <1>2, <1>4, <2>2, <2>4, <2>5, <2>6, LoopKeepsPaper
<1>5. CASE Paper!Polls(p) \/ Paper!GivesUp(p) \/ Paper!Fails(p)
  <2>1. PICK at \in {"ask", "over"} :
          /\ loops' = [loops EXCEPT ![p] = [at |-> at, visit |-> loops[p].visit, answer |-> loops[p].answer]]
          /\ shown' = shown
          /\ at = "ask" => loops[p].at = "answered" /\ polling' = (polling \/ Paper!Here(p))
          /\ at = "over" => polling' = (polling /\ ~Paper!Here(p))
    BY <1>0, <1>5 DEF Paper!Polls, Paper!GivesUp, Paper!Fails, Paper!Goes, LoopRecords, PaperInv, PaperTypes
  <2>2. at = "ask" => polling' \in BOOLEAN /\ (polling' => polling \/ Paper!Here(p))
    BY <2>1, Zenon
  <2>3. at = "over" => polling' \in BOOLEAN /\ (polling' => polling /\ ~Paper!Here(p))
    BY <2>1, Zenon
  <2> QED
    BY <1>0, <1>4, <2>1, <2>2, <2>3 DEF Paper!Points
<1>6. CASE Paper!Shows(p)
  <2>1. PICK at \in {"over", "sleep"} :
          /\ loops' = [loops EXCEPT ![p] = [at |-> at, visit |-> loops[p].visit, answer |-> Paper!NoPaper]]
          /\ loops[p].at = "read" /\ shown' \in {shown, loops[p].answer}
          /\ polling' = (polling /\ ~(Paper!Here(p) /\ at = "over"))
    <3>1. CASE loops[p].answer.status \in {"READY", "FAILED"}
      BY <1>6, <3>1 DEF Paper!Shows, Paper!Loop
    <3>2. CASE loops[p].answer.status \notin {"READY", "FAILED"}
      BY <1>6, <3>2 DEF Paper!Shows, Paper!Loop
    <3> QED
      BY <3>1, <3>2
  <2>2. polling' \in BOOLEAN /\ (polling' => polling /\ ~(Paper!Here(p) /\ at = "over"))
    BY <2>1, Zenon
  <2> QED
    BY <1>0, <1>1, <1>4, <2>1, <2>2 DEF Paper!Points
<1>7. CASE Paper!Read(p)
  <2> DEFINE a == [papers[p] EXCEPT !.questions = p \in linked]
  <2>1. /\ loops' = [loops EXCEPT ![p] = [at |-> "read", visit |-> loops[p].visit, answer |-> a]]
        /\ loops[p].at \in {"ask", "sleep"} /\ UNCHANGED <<shown, polling>>
    BY <1>7 DEF Paper!Read, Paper!Loop
  <2>2. /\ a.id = papers[p].id /\ a.status = papers[p].status /\ a.root = papers[p].root /\ a.chain = papers[p].chain
        /\ a.ref = papers[p].ref /\ a.questions = (p \in linked)
    BY <1>0 DEF Paper!PaperSet
  <2>3. papers[p].id = p /\ Backed(p)
    BY <1>0, <2>1 DEF Exists, PaperInv
  <2>4. IsSo(a)
    BY <2>2, <2>3 DEF IsSo, Backed
  <2> HIDE DEF a
  <2>5. a \in {loops[p].answer, Paper!NoPaper, [papers[p] EXCEPT !.questions = p \in linked]}
    BY DEF a
  <2> QED
    BY <1>0, <1>4, <2>1, <2>4, <2>5 DEF Paper!Points
<1>8. CASE Paper!CallFails(p)
  <2>1. /\ loops' = [loops EXCEPT ![p] = [at |-> "failed", visit |-> loops[p].visit, answer |-> Paper!NoPaper]]
        /\ UNCHANGED <<shown, polling>>
    BY <1>8 DEF Paper!CallFails, Paper!Loop
  <2> QED
    BY <1>0, <1>1, <1>4, <2>1 DEF Paper!Points
<1> QED
  BY <1>3, <1>5, <1>6, <1>7, <1>8 DEF Paper!Page

\* generatePaper: the row, which nobody has read yet, and the job.
LEMMA PaperCreated ==
  ASSUME PaperInv, NEW p \in Paper!Clicks, Paper!Create(p) \/ Paper!Queue(p)
  PROVE  PaperInv'
<1> USE DEF Paper!work, Paper!view
<1> DEFINE at == IF loops[p].at = "create" THEN "queue" ELSE "answered"
           l == [loops[p] EXCEPT !.at = at]
<1>0. /\ loops[p] \in LoopRecords /\ Exists(p) /\ IsSo(loops[p].answer) /\ p # 0 /\ loops[p].at \in {"create", "queue"}
      /\ loops' = [loops EXCEPT ![p] = l] /\ UNCHANGED <<linked, stored, anchored, visit, shown, polling>>
  <2>1. loops[p] \in LoopRecords /\ Exists(p) /\ IsSo(loops[p].answer)
    BY DEF PaperInv, PaperTypes, LoopRecords
  <2>2. p # 0
    BY BoundsAssumption DEF Paper!Clicks
  <2>3. CASE Paper!Create(p)
    <3>1. loops[p].at = "create" /\ UNCHANGED <<linked, stored, anchored, visit, shown, polling>>
      BY <2>3 DEF Paper!Create, Paper!Goes
    <3>2. loops' = [loops EXCEPT ![p].at = "queue"]
      BY <2>3 DEF Paper!Create, Paper!Goes
    <3> QED
      BY <2>1, <2>2, <3>1, <3>2
  <2>4. CASE Paper!Queue(p)
    <3>1. loops[p].at = "queue" /\ UNCHANGED <<linked, stored, anchored, visit, shown, polling>>
      BY <2>4 DEF Paper!Queue, Paper!Goes
    <3>2. loops' = [loops EXCEPT ![p].at = "answered"]
      BY <2>4 DEF Paper!Queue, Paper!Goes
    <3> QED
      BY <2>1, <2>2, <3>1, <3>2
  <2> QED
    BY <2>3, <2>4
<1>1. /\ l \in LoopRecords /\ l.at = at /\ l.visit = loops[p].visit /\ l.answer = loops[p].answer
      /\ \A o \in Paper!Clicks : loops'[o] = IF o = p THEN l ELSE loops[o]
  BY <1>0 DEF LoopRecords, Paper!Points, PaperInv, PaperTypes
<1>2. runs[p] = "none" /\ (loops[p].at = "create" => papers[p].id = 0) /\ (loops[p].at = "queue" => papers[p].id = p)
  BY <1>0 DEF Exists
<1>3. /\ papers' \in [Paper!Clicks -> Paper!PaperSet] /\ runs' \in [Paper!Clicks -> Paper!Places]
      /\ papers'[p].id = p
      /\ loops[p].at = "queue" => papers' = papers /\ runs'[p] = "waiting"
      /\ loops[p].at = "create" => runs' = runs /\ ~papers'[p].root /\ ~papers'[p].chain /\ papers'[p].status = "ASSEMBLING"
      /\ \A o \in Paper!Clicks \ {p} : papers'[o] = papers[o] /\ runs'[o] = runs[o]
  <2>1. CASE Paper!Create(p)
    <3>1. papers' = [papers EXCEPT ![p] = Paper!NewPaper(p)] /\ runs' = runs /\ loops[p].at = "create"
      BY <2>1 DEF Paper!Create, Paper!Goes
    <3>2. /\ Paper!NewPaper(p) \in Paper!PaperSet /\ Paper!NewPaper(p).id = p /\ ~Paper!NewPaper(p).root
          /\ ~Paper!NewPaper(p).chain /\ Paper!NewPaper(p).status = "ASSEMBLING"
      <4>1. 0 \in 0..MaxClicks /\ p \in 0..MaxClicks
        BY BoundsAssumption DEF Paper!Clicks
      <4> QED
        BY <4>1 DEF Paper!NewPaper, Paper!NoPaper, Paper!PaperSet
    <3> QED
      BY <3>1, <3>2 DEF PaperInv, PaperTypes
  <2>2. CASE Paper!Queue(p)
    <3>1. runs' = [runs EXCEPT ![p] = "waiting"] /\ papers' = papers /\ loops[p].at = "queue"
      BY <2>2 DEF Paper!Queue, Paper!Goes
    <3> QED
      BY <1>2, <3>1 DEF PaperInv, PaperTypes, Paper!Places
  <2> QED
    BY <2>1, <2>2
<1> HIDE DEF l
<1>4. PaperTypes'
  BY <1>0, <1>1, <1>3 DEF PaperInv, PaperTypes, LoopRecords
<1>5. Paper!PollingIsBacked'
  BY <1>0, <1>1, StillPolls
<1>6. ASSUME NEW a \in Paper!PaperSet, IsSo(a)
      PROVE  a.id # 0 =>
               /\ papers'[a.id].id = a.id
               /\ a.questions => a.id \in linked'
               /\ a.root => papers'[a.id].root
               /\ a.chain => papers'[a.id].chain
               /\ a.ref => papers'[a.id].ref
               /\ a.status = "READY" => a.questions /\ a.root /\ a.chain /\ a.ref
  <2>1. a.id # 0 => a.id \in Paper!Clicks
    BY BoundsAssumption DEF Paper!PaperSet, Paper!Clicks
  <2> QED
    BY <1>0, <1>2, <1>3, <1>6, <2>1, StillSo
<1>7. IsSo(shown)' /\ \A o \in Paper!Clicks : IsSo(loops[o].answer)'
  <2>1. /\ shown \in Paper!PaperSet /\ IsSo(shown)
        /\ \A o \in Paper!Clicks : loops[o].answer \in Paper!PaperSet /\ IsSo(loops[o].answer)
    BY DEF PaperInv, PaperTypes
  <2>2. \A o \in Paper!Clicks : loops'[o].answer = loops[o].answer
    BY <1>1
  <2>3. ASSUME NEW a \in Paper!PaperSet, IsSo(a) PROVE IsSo(a)'
    BY <1>6, <2>3 DEF IsSo
  <2>4. IsSo(shown)'
    BY <1>0, <2>1, <2>3 DEF IsSo
  <2>5. ASSUME NEW o \in Paper!Clicks PROVE IsSo(loops[o].answer)'
    BY <2>1, <2>2, <2>3 DEF IsSo
  <2> QED
    BY <2>4, <2>5
<1>8. ASSUME NEW o \in Paper!Clicks PROVE Exists(o)' /\ Backed(o)'
  <2>1. CASE o = p
    BY <1>0, <1>1, <1>2, <1>3, <2>1 DEF PaperInv, Exists, Backed
  <2>2. CASE o # p
    BY <1>0, <1>1, <1>3, <2>2 DEF PaperInv, Exists, Backed
  <2> QED
    BY <2>1, <2>2
<1> QED
  BY <1>4, <1>5, <1>7, <1>8 DEF PaperInv

\* The pipeline writes a paper's artefacts before it names them.
LEMMA PipelineStep ==
  ASSUME PaperInv, NEW p \in Paper!Clicks, Paper!Pipeline(p)
  PROVE  PaperInv'
<1> USE DEF Paper!work, Paper!view
<1>0. Exists(p) /\ Backed(p) /\ papers[p] \in Paper!PaperSet /\ runs[p] \in Paper!Places
  BY DEF PaperInv, PaperTypes
<1>1. /\ UNCHANGED <<visit, loops, shown, polling>> /\ runs[p] # "none"
      /\ \E to \in Paper!Places \ {"none"} : runs' = [runs EXCEPT ![p] = to]
  BY DEF Paper!Pipeline, Paper!Link, Paper!Upload, Paper!Anchor, Paper!Record, Paper!Seal, Paper!SealFails, Paper!Throws,
     Paper!Conflicts, Paper!MarkFailed, Paper!Acknowledge, Paper!Redeliver, Paper!Runs, Paper!Places
<1>3. /\ papers' \in [Paper!Clicks -> Paper!PaperSet]
      /\ \A o \in Paper!Clicks \ {p} : papers'[o] = papers[o]
      /\ papers'[p].id = papers[p].id
      /\ papers[p].root => papers'[p].root
      /\ papers[p].chain => papers'[p].chain
      /\ papers[p].ref => papers'[p].ref
      /\ linked \subseteq linked' /\ stored \subseteq stored' /\ anchored \subseteq anchored'
  <2> USE <1>0 DEF PaperInv, PaperTypes, Paper!PaperSet
  <2>1. CASE Paper!Link(p) \/ Paper!Upload(p) \/ Paper!Anchor(p) \/ Paper!SealFails(p) \/ Paper!Acknowledge(p) \/ Paper!Redeliver(p)
    BY <2>1 DEF Paper!Link, Paper!Upload, Paper!Anchor, Paper!SealFails, Paper!Acknowledge, Paper!Redeliver
  <2>2. CASE Paper!Record(p)
    BY <2>2 DEF Paper!Record
  <2>3. CASE Paper!Seal(p)
    BY <2>3 DEF Paper!Seal
  <2>4. CASE Paper!Throws(p) \/ Paper!Conflicts(p)
    <3>1. UNCHANGED <<linked, stored, anchored>>
      BY <2>4 DEF Paper!Throws, Paper!Conflicts, Paper!MarkFailed
    <3>2. CASE papers' = papers
      BY <3>1, <3>2
    <3>3. CASE papers' = [papers EXCEPT ![p].status = "FAILED"]
      BY <3>1, <3>3
    <3> QED
      BY <2>4, <3>2, <3>3 DEF Paper!Throws, Paper!Conflicts, Paper!MarkFailed
  <2> QED
    BY <2>1, <2>2, <2>3, <2>4 DEF Paper!Pipeline
<1>4. Backed(p)'
  <2> USE <1>0, <1>3 DEF PaperInv, PaperTypes, Backed, Paper!PaperSet, Paper!Runs
  <2>1. CASE Paper!Link(p)
    BY <2>1 DEF Paper!Link
  <2>2. CASE Paper!Upload(p)
    BY <2>2 DEF Paper!Upload
  <2>3. CASE Paper!Anchor(p)
    BY <2>3 DEF Paper!Anchor
  <2>4. CASE Paper!SealFails(p)
    BY <2>4 DEF Paper!SealFails
  <2>5. CASE Paper!Record(p)
    BY <2>5 DEF Paper!Record
  <2>6. CASE Paper!Seal(p)
    BY <2>6 DEF Paper!Seal
  <2>7. CASE Paper!Throws(p) \/ Paper!Conflicts(p)
    <3>1. UNCHANGED <<linked, stored, anchored>> /\ runs'[p] = "finish"
      BY <2>7 DEF Paper!Throws, Paper!Conflicts, Paper!MarkFailed
    <3>2. /\ papers'[p].root = papers[p].root /\ papers'[p].chain = papers[p].chain /\ papers'[p].ref = papers[p].ref
          /\ papers'[p].status \in {papers[p].status, "FAILED"}
      BY <2>7 DEF Paper!Throws, Paper!Conflicts, Paper!MarkFailed
    <3> QED
      BY <3>1, <3>2
  <2>8. CASE Paper!Acknowledge(p) \/ Paper!Redeliver(p)
    BY <2>8 DEF Paper!Acknowledge, Paper!Redeliver
  <2> QED
    BY <2>1, <2>2, <2>3, <2>4, <2>5, <2>6, <2>7, <2>8 DEF Paper!Pipeline
<1>5. /\ runs' \in [Paper!Clicks -> Paper!Places] /\ runs'[p] # "none"
      /\ \A o \in Paper!Clicks \ {p} : runs'[o] = runs[o]
  BY <1>1 DEF PaperInv, PaperTypes
<1> QED
  BY <1>1, <1>3, <1>4, <1>5, PipelineKeepsPaper

LEMMA PaperStep == PaperInv /\ [Next]_vars => PaperInv'
<1> USE DEF Paper!work, Paper!view
<1>0. SUFFICES ASSUME PaperInv, page = "papers", Paper!Next PROVE PaperInv'
  <2>1. ASSUME PaperInv, UNCHANGED paperVars PROVE PaperInv'
    BY <2>1 DEF PaperInv, PaperTypes, IsSo, Exists, Backed, Paper!PollingIsBacked, Paper!Here, paperVars
  <2> QED
    BY <1>0, <2>1 DEF Next, vars
<1>1. CASE Paper!Open
  <2>1. /\ shown' = Paper!NoPaper /\ polling' = FALSE /\ visit' = visit + 1 /\ visit < MaxVisits
        /\ UNCHANGED <<papers, runs, linked, stored, anchored, loops>>
    BY <1>1 DEF Paper!Open
  <2>2. Paper!NoPaper \in Paper!PaperSet /\ Paper!NoPaper.id = 0
    <3>1. 0 \in 0..MaxClicks
      BY BoundsAssumption
    <3> QED
      BY <3>1 DEF Paper!NoPaper, Paper!PaperSet
  <2>3. visit' \in 0..MaxVisits
    <3>1. MaxVisits \in Nat
      BY BoundsAssumption
    <3> QED
      BY <1>0, <2>1, <3>1 DEF PaperInv, PaperTypes
  <2>4. PaperTypes' /\ Paper!PollingIsBacked' /\ IsSo(shown)'
    BY <1>0, <2>1, <2>2, <2>3 DEF PaperInv, PaperTypes, Paper!PollingIsBacked, IsSo
  <2>5. \A p \in Paper!Clicks : IsSo(loops[p].answer)' /\ Exists(p)' /\ Backed(p)'
    BY <1>0, <2>1 DEF PaperInv, IsSo, Exists, Backed
  <2> QED
    BY <2>4, <2>5 DEF PaperInv
<1>2. ASSUME NEW p \in Paper!Clicks,
             Paper!Click(p) \/ Paper!Page(p) \/ Paper!Service(p) \/ Paper!CallFails(p) \/ Paper!Pipeline(p)
      PROVE  PaperInv'
  BY <1>0, <1>2, PaperPageStep, PaperCreated, PipelineStep DEF Paper!Service
<1> QED
  BY <1>0, <1>1, <1>2 DEF Paper!Next

\* What the page says of a paper's progress is so: a step it marks as done has
\* its artefact, in the database and outside, and "Generating" has a call that
\* polls (PaperGeneration.tsx, over blueprint.service.ts and the pipeline).
LEMMA StepsBacked == PaperInv => Paper!StepsAreBacked /\ Paper!PollingIsBacked
<1>1. PaperInv => Paper!StepsAreBacked
  <2> SUFFICES ASSUME PaperInv, shown.id # 0
               PROVE  LET done(k) == Paper!ShownStep(shown)[k] = "done"
                          p == papers[shown.id]
                      IN  /\ done("select") => shown.id \in linked
                          /\ done("storage") => p.root /\ shown.id \in stored
                          /\ done("anchor") => p.chain /\ shown.id \in anchored
                          /\ done("timelock") => p.ref
                          /\ done("ready") => \A k \in DOMAIN Paper!ShownStep(shown) : done(k)
    BY DEF Paper!StepsAreBacked
  <2>1. shown.id \in Paper!Clicks /\ Backed(shown.id) /\ IsSo(shown)
    BY BoundsAssumption DEF PaperInv, PaperTypes, Paper!PaperSet, Paper!Clicks
  <2> DEFINE S == Paper!StepState(shown)
  <2>2. /\ DOMAIN S = {"select", "storage", "anchor", "timelock", "ready"}
        /\ S["select"] = "done" <=> shown.questions
        /\ S["storage"] = "done" <=> shown.root
        /\ S["anchor"] = "done" <=> shown.chain
        /\ S["timelock"] = "done" <=> shown.ref
        /\ S["ready"] = "done" <=> shown.status = "READY"
    BY DEF Paper!StepState
  <2>3. /\ DOMAIN Paper!ShownStep(shown) = DOMAIN S
        /\ \A k \in DOMAIN S : Paper!ShownStep(shown)[k] = "done" <=> S[k] = "done"
    BY DEF Paper!ShownStep
  <2> HIDE DEF S
  <2> QED
    BY <2>1, <2>2, <2>3 DEF IsSo, Backed
<1>2. PaperInv => Paper!PollingIsBacked
  BY DEF PaperInv
<1> QED
  BY <1>1, <1>2

-----------------------------------------------------------------------------
(* The selection's operators                                               *)

LEMMA SameCardinality == \A S : Draft!Cardinality(S) = Cardinality(S)
  BY Zenon DEF Draft!Cardinality, Cardinality, Draft!IsFiniteSet, IsFiniteSet

\* Of finitely many bands, one is read first.
LEMMA FirstBand ==
  ASSUME NEW S, IsFiniteSet(S), S \subseteq Nat \X Nat, S # {}
  PROVE  /\ Draft!Least(S) \in S
         /\ \A c \in S \ {Draft!Least(S)} : Draft!Before(Draft!Least(S), c)
<1> DEFINE D(b) == {c \in S : Draft!Before(c, b)}
           T == {D(b) : b \in S}
<1>1. T \subseteq FiniteSubsetsOf(S) /\ T # {}
  <2>1. FiniteSubsetsOf(S) = SUBSET S
    BY FS_FiniteSubsetsOfFinite
  <2>2. \A b \in S : D(b) \in SUBSET S
    OBVIOUS
  <2>3. PICK b \in S : TRUE
    OBVIOUS
  <2>4. D(b) \in T
    BY <2>3
  <2> HIDE DEF D
  <2> QED
    BY <2>1, <2>2, <2>4
<1>2. IsWellFoundedOn(StrictSubsetOrdering(S), FiniteSubsetsOf(S))
  BY FS_StrictSubsetOrderingWellFounded
<1>3. \E x \in T : \A y \in T : ~(<<y, x>> \in StrictSubsetOrdering(S))
  <2> HIDE DEF T
  <2> QED
    BY <1>1, <1>2, WFMin
<1>4. PICK b \in S : \A c \in S : ~(<<D(c), D(b)>> \in StrictSubsetOrdering(S))
  BY <1>3
<1>5. ASSUME NEW c \in S, c # b PROVE Draft!Before(b, c)
  <2>1. b = <<b[1], b[2]>> /\ b[1] \in Nat /\ b[2] \in Nat /\ c = <<c[1], c[2]>> /\ c[1] \in Nat /\ c[2] \in Nat
    OBVIOUS
  <2>2. Draft!Before(b, c) \/ Draft!Before(c, b)
    BY <1>5, <2>1 DEF Draft!Before
  <2>3. ASSUME Draft!Before(c, b) PROVE FALSE
    <3>1. \A e \in S : Draft!Before(e, c) => Draft!Before(e, b)
      <4> TAKE e \in S
      <4>1. e = <<e[1], e[2]>> /\ e[1] \in Nat /\ e[2] \in Nat
        OBVIOUS
      <4> QED
        BY <2>1, <2>3, <4>1 DEF Draft!Before
    <3>2. ~Draft!Before(c, c)
      BY <2>1 DEF Draft!Before
    <3>3. D(c) \subseteq D(b) /\ D(c) # D(b)
      BY <2>3, <3>1, <3>2
    <3>4. <<D(c), D(b)>> \in StrictSubsetOrdering(S)
      BY <3>3 DEF StrictSubsetOrdering
    <3> QED
      BY <1>4, <3>4
  <2> QED
    BY <2>2, <2>3
<1> QED
  BY <1>5 DEF Draft!Least

\* take: n gives n questions, or all when there are not so many.
LEMMA OldestSize ==
  ASSUME NEW S, IsFiniteSet(S), S \subseteq Nat, NEW n \in Nat
  PROVE  /\ IsFiniteSet(Draft!Oldest(S, n)) /\ Draft!Oldest(S, n) \subseteq S
         /\ Cardinality(Draft!Oldest(S, n)) <= n
         /\ Cardinality(Draft!Oldest(S, n)) = n \/ Draft!Oldest(S, n) = S
<1> DEFINE Below(q) == {p \in S : p < q}
           r == [q \in S |-> Cardinality(Below(q))]
           O == Draft!Oldest(S, n)
<1>1. O = {q \in S : r[q] < n}
  BY SameCardinality DEF Draft!Oldest
<1>2. \A q \in S : IsFiniteSet(Below(q)) /\ r[q] \in Nat
  BY FS_Subset, FS_CardinalityType
<1>3. ASSUME NEW p \in S, NEW q \in S, p < q PROVE r[p] < r[q]
  <2>1. IsFiniteSet(Below(p) \cup {p}) /\ Cardinality(Below(p) \cup {p}) = r[p] + 1
    <3>1. p \notin Below(p)
      OBVIOUS
    <3> QED
      BY <1>2, <3>1, FS_AddElement
  <2>2. Below(p) \cup {p} \subseteq Below(q)
    <3>1. \A x \in S : x \in Nat /\ (x < p => x < q)
      BY <1>3
    <3> QED
      BY <1>3, <3>1
  <2>3. Cardinality(Below(p) \cup {p}) <= r[q]
    <3> HIDE DEF Below
    <3>1. Below(p) \cup {p} \in SUBSET Below(q)
      BY <2>2
    <3> QED
      BY <1>2, <3>1, FS_Subset
  <2> QED
    BY <1>2, <2>1, <2>3
<1>4. \A q \in S : r[q] \in 0..(Cardinality(S) - 1)
  <2> TAKE q \in S
  <2>1. Below(q) \in SUBSET S /\ Below(q) # S
    OBVIOUS
  <2>2. r[q] <= Cardinality(S) /\ r[q] # Cardinality(S)
    BY <2>1, FS_Subset
  <2> QED
    BY <1>2, <2>2, FS_CardinalityType
<1>5. \A p, q \in S : r[p] = r[q] => p = q
  <2> TAKE p, q \in S
  <2>1. p < q \/ q < p \/ p = q
    OBVIOUS
  <2> QED
    BY <1>2, <1>3, <2>1
<1>6. r \in Injection(S, 0..(Cardinality(S) - 1))
  <2>1. r \in [S -> 0..(Cardinality(S) - 1)]
    BY <1>4
  <2>2. IsInjective(r)
    BY <1>5 DEF IsInjective
  <2> QED
    BY <2>1, <2>2 DEF Injection
<1>7. Cardinality(S) \in Nat /\ DOMAIN r = S
  BY FS_CardinalityType
<1> HIDE DEF r
<1>8. \A k \in 0..(Cardinality(S) - 1) : \E q \in S : r[q] = k
  <2>1. IsFiniteSet(0..(Cardinality(S) - 1)) /\ Cardinality(0..(Cardinality(S) - 1)) = Cardinality(S)
    <3> DEFINE top == Cardinality(S) - 1
    <3>1. top \in Int /\ (0 > top => Cardinality(S) = 0) /\ (~(0 > top) => top - 0 + 1 = Cardinality(S))
      BY <1>7
    <3> HIDE DEF top
    <3>2. IsFiniteSet(0..top) /\ Cardinality(0..top) = IF 0 > top THEN 0 ELSE top - 0 + 1
      BY <3>1, FS_Interval
    <3>3. Cardinality(0..top) = Cardinality(S)
      BY <3>1, <3>2
    <3> QED
      BY <3>2, <3>3 DEF top
  <2>2. r \in Surjection(S, 0..(Cardinality(S) - 1))
    BY <1>6, <2>1, FS_Injection
  <2> QED
    BY <2>2 DEF Surjection
<1>9. IsFiniteSet(O) /\ O \subseteq S
  BY <1>1, FS_Subset
<1>10. CASE Cardinality(S) <= n
  <2>1. O = S
    <3>1. \A q \in S : r[q] < n
      BY <1>4, <1>7, <1>10
    <3> HIDE DEF O
    <3> QED
      BY <1>1, <3>1
  <2> QED
    BY <1>9, <1>10, <2>1
<1>11. CASE n < Cardinality(S)
  <2> DEFINE g == [q \in O |-> r[q]]
  <2>1. g \in [O -> 0..(n - 1)]
    <3> HIDE DEF O
    <3>1. \A q \in O : r[q] \in 0..(n - 1)
      <4> TAKE q \in O
      <4>1. q \in S /\ r[q] < n
        BY <1>1
      <4>2. r[q] \in Nat
        BY <1>2, <4>1
      <4> QED
        BY <4>1, <4>2
    <3> QED
      BY <3>1
  <2>2. IsInjective(g)
    BY <1>5, <1>9 DEF IsInjective
  <2>3. \A k \in 0..(n - 1) : \E q \in O : g[q] = k
    <3> TAKE k \in 0..(n - 1)
    <3>1. k \in 0..(Cardinality(S) - 1) /\ k < n
      BY <1>7, <1>11
    <3>2. PICK q \in S : r[q] = k
      BY <1>8, <3>1
    <3>3. q \in O
      BY <1>1, <3>1, <3>2
    <3> HIDE DEF O
    <3> QED
      BY <3>2, <3>3
  <2>4. g \in Bijection(O, 0..(n - 1))
    BY <2>1, <2>2, <2>3 DEF Bijection, Injection, Surjection
  <2>5. Cardinality(0..(n - 1)) = Cardinality(O)
    BY <1>9, <2>4, FS_Bijection DEF ExistsBijection
  <2>6. Cardinality(0..(n - 1)) = n
    BY FS_Interval
  <2> QED
    BY <1>9, <2>5, <2>6
<1> QED
  BY <1>7, <1>10, <1>11

-----------------------------------------------------------------------------
(* The blueprint page                                                      *)

ChapterLines == ChapterRows \cup {Draft!NewChapter}
SubjectLines == SubjectRows \cup {Draft!NewSubject}
Allocations ==
  [chapter : {r.chapter : r \in ChapterLines}, count : Int, level : Draft!Levels, pct : [Draft!Difficulties -> Int]]
Drafts == [title : {"", "valid"}, subjects : Seq(SubjectLines), chapters : Seq(Allocations)]

DraftTypes ==
  /\ title \in {"", "valid"} /\ subjectRows \in Seq(SubjectLines) /\ chapterRows \in Seq(ChapterLines)
  /\ creating \in [at : {"none", "sent", "stored", "refused"}, draft : Drafts]
  /\ blueprints \in Seq([draft : Drafts, published : BOOLEAN, logged : Nat])

\* What is stored passed the schema and has its keys, and what was answered for
\* is stored.
StoredInv ==
  /\ \A i \in DOMAIN blueprints : Draft!Storable(blueprints[i].draft)
  /\ creating.at = "stored" => \E i \in DOMAIN blueprints : blueprints[i].draft = creating.draft

FormInv == DraftTypes /\ StoredInv

\* What one reading adds for a band.
Entries(d, b, Q) ==
  {[row |-> b[1], difficulty |-> Draft!BandName[b[2]], question |-> q, marks |-> Draft!Marks(d, d.chapters[b[1]])] : q \in Q}
Drawn(b) == {e \in drawn : e.row = b[1] /\ e.difficulty = Draft!BandName[b[2]]}

\* What a reading of a band saw: of what nobody has touched since the run began,
\* all of the band that was there then; and nothing but questions of the chapter,
\* accepted and of the band as far as nobody touched them.
OfBand(d, b, q) == Draft!Matches(q, reports[q], d.chapters[b[1]], Draft!BandName[b[2]])
SeenBy(d, b, S) ==
  /\ {q \in known \ (rewritten \cup retracted) : OfBand(d, b, q)} \subseteq S
  /\ \A q \in S : /\ Chapter[q] = d.chapters[b[1]].chapter
                  /\ q \notin retracted => q \in accepted
                  /\ q \notin rewritten => OfBand(d, b, q)

\* The bands read so far.
IsRead(d, b) == b \in Draft!Reads(d) /\ (run.at = "select" => Draft!Before(b, run.band))

BandInv(d, b) ==
  IF IsRead(d, b)
    THEN \E S \in SUBSET Bank :
           /\ SeenBy(d, b, S)
           /\ Drawn(b) = Entries(d, b, Draft!Oldest(S, Draft!Band(d.chapters[b[1]], Draft!BandName[b[2]])))
    ELSE Drawn(b) = {}

Bands(d) == (DOMAIN d.chapters) \X (1..3)
RunInv ==
  /\ accepted \subseteq Bank /\ known \subseteq Bank /\ known \ retracted \subseteq accepted
  /\ reports \in [Bank -> Draft!Reports]
  /\ run \in [of : Nat, at : {"idle", "select", "link", "linked", "failed"}, band : Nat \X Nat]
  /\ run.at = "idle" => run = Draft!Idle /\ drawn = {}
  /\ run.at # "idle" =>
       LET d == blueprints[run.of].draft IN
       /\ run.of \in DOMAIN blueprints
       /\ run.at = "select" => run.band \in Draft!Reads(d)
       /\ \A e \in drawn : \E b \in Bands(d) : e \in Drawn(b)
       /\ \A b \in Bands(d) : BandInv(d, b)

DraftInv == FormInv /\ RunInv

\* A sequence with an element removed holds nothing new.
LEMMA RemovalKeepsElements ==
  ASSUME NEW S, NEW s \in Seq(S), NEW i \in DOMAIN s
  PROVE  Draft!RemoveAt(s, i) \in Seq(S)
<1>1. Len(s) \in Nat /\ i \in 1..Len(s)
  OBVIOUS
<1>2. SubSeq(s, 1, i - 1) \in Seq(S)
  BY <1>1
<1>3. SubSeq(s, i + 1, Len(s)) \in Seq(S)
  BY <1>1
<1> QED
  BY <1>2, <1>3 DEF Draft!RemoveAt

LEMMA SeqElements ==
  ASSUME NEW S, NEW s \in Seq(S)
  PROVE  Len(s) \in Nat /\ DOMAIN s = 1..Len(s) /\ \A i \in DOMAIN s : s[i] \in S
  BY LenProperties, ElementOfSeq

LEMMA EditedIsTyped ==
  ASSUME NEW S, NEW s \in Seq(S), NEW i \in DOMAIN s, NEW r \in S
  PROVE  [s EXCEPT ![i] = r] \in Seq(S)
  OBVIOUS

\* The allocation a line of the form is sent as.
PercentOf(r) ==
  [d \in Draft!Difficulties |->
     CASE d = "EASY" -> r.easy [] d = "MEDIUM" -> r.medium [] OTHER -> Draft!Hard(r)]
AllocationOf(r) == [chapter |-> r.chapter, count |-> r.count, level |-> r.level, pct |-> PercentOf(r)]

LEMMA LineIsAllocation == \A r \in ChapterLines : AllocationOf(r) \in Allocations
<1> SUFFICES ASSUME NEW r \in ChapterLines PROVE AllocationOf(r) \in Allocations
  OBVIOUS
<1>1. CASE r = Draft!NewChapter
  <2>1. r.count = 5 /\ r.easy = 40 /\ r.medium = 40 /\ r.level = "HIGH"
    BY <1>1 DEF Draft!NewChapter
  <2>2. Draft!Hard(r) \in Int
    BY <2>1 DEF Draft!Hard
  <2>3. PercentOf(r) \in [Draft!Difficulties -> Int]
    BY <2>1, <2>2 DEF PercentOf
  <2> QED
    BY <2>1, <2>3 DEF AllocationOf, Allocations, Draft!Levels
<1>2. CASE r \in ChapterRows
  <2>1. r.count \in Int /\ r.easy \in Int /\ r.medium \in Int /\ r.level \in Draft!Levels
    BY <1>2, Zenon, FormAssumption
  <2>2. Draft!Hard(r) \in Int
    BY <2>1 DEF Draft!Hard
  <2>3. PercentOf(r) \in [Draft!Difficulties -> Int]
    BY <2>1, <2>2 DEF PercentOf
  <2> QED
    BY <2>1, <2>3 DEF AllocationOf, Allocations
<1> QED
  BY <1>1, <1>2 DEF ChapterLines

LEMMA WrittenIsDraft ==
  ASSUME title \in {"", "valid"}, subjectRows \in Seq(SubjectLines), chapterRows \in Seq(ChapterLines)
  PROVE  Draft!Written \in Drafts
<1>1. [i \in DOMAIN chapterRows |-> AllocationOf(chapterRows[i])] \in [1..Len(chapterRows) -> Allocations]
  <2>1. \A i \in DOMAIN chapterRows : chapterRows[i] \in ChapterLines
    BY SeqElements
  <2>2. DOMAIN chapterRows = 1..Len(chapterRows)
    BY SeqElements
  <2> QED
    BY <2>1, <2>2, LineIsAllocation
<1>2. [i \in DOMAIN chapterRows |-> AllocationOf(chapterRows[i])] \in Seq(Allocations)
  <2>1. Len(chapterRows) \in Nat
    BY SeqElements
  <2> QED
    BY <1>1, <2>1, SeqDef
<1>3. Draft!Written = [title |-> title, subjects |-> subjectRows,
                       chapters |-> [i \in DOMAIN chapterRows |-> AllocationOf(chapterRows[i])]]
  BY DEF Draft!Written, AllocationOf, PercentOf
<1> QED
  BY <1>2, <1>3 DEF Drafts

LEMMA FormInit == Init => FormInv
<1> SUFFICES ASSUME Init PROVE FormInv
  OBVIOUS
<1>0. /\ title = "" /\ subjectRows = <<>> /\ chapterRows = <<>> /\ creating = Draft!NoCall /\ blueprints = <<>>
  BY DEF Init, Draft!Init
<1>1. <<>> \in Seq(SubjectLines) /\ <<>> \in Seq(ChapterLines) /\ <<>> \in Seq(Allocations)
  BY EmptySeq
<1>2. <<>> \in Seq([draft : Drafts, published : BOOLEAN, logged : Nat])
  BY EmptySeq
<1>3. Draft!NoDraft \in Drafts
  BY <1>1 DEF Draft!NoDraft, Drafts
<1>4. creating \in [at : {"none", "sent", "stored", "refused"}, draft : Drafts] /\ creating.at = "none"
  BY <1>0, <1>3 DEF Draft!NoCall
<1>5. DraftTypes
  BY <1>0, <1>1, <1>2, <1>4 DEF DraftTypes
<1>6. DOMAIN blueprints = {}
  <2>1. DOMAIN blueprints = 1..Len(blueprints) /\ Len(blueprints) = 0
    BY <1>0, <1>2, SeqElements, EmptySeq
  <2> QED
    BY <2>1
<1> QED
  BY <1>4, <1>5, <1>6 DEF FormInv, StoredInv

\* Publishing, listing and drawing leave the drafts alone.
DraftsStay ==
  /\ DOMAIN blueprints' = DOMAIN blueprints
  /\ \A i \in DOMAIN blueprints : blueprints'[i].draft = blueprints[i].draft
LEMMA TypedDrafts ==
  ASSUME DraftTypes, NEW i \in DOMAIN blueprints
  PROVE  /\ blueprints[i] \in [draft : Drafts, published : BOOLEAN, logged : Nat]
         /\ blueprints[i].draft \in Drafts
<1>1. blueprints \in Seq([draft : Drafts, published : BOOLEAN, logged : Nat])
  BY DEF DraftTypes
<1>2. blueprints[i] \in [draft : Drafts, published : BOOLEAN, logged : Nat]
  BY <1>1, SeqElements
<1> QED
  BY <1>2

\* A blueprint that is published keeps its draft and its number.
LEMMA PublishingKeepsDrafts ==
  ASSUME DraftTypes, NEW k, NEW p \in BOOLEAN, NEW l \in Nat,
         \/ blueprints' = [blueprints EXCEPT ![k].published = p]
         \/ blueprints' = [blueprints EXCEPT ![k].logged = @ + 1]
  PROVE  DraftsStay /\ blueprints' \in Seq([draft : Drafts, published : BOOLEAN, logged : Nat])
<1> DEFINE Row == [draft : Drafts, published : BOOLEAN, logged : Nat]
<1>1. blueprints \in Seq(Row)
  BY DEF DraftTypes
<1>2. Len(blueprints) \in Nat /\ DOMAIN blueprints = 1..Len(blueprints) /\ \A i \in DOMAIN blueprints : blueprints[i] \in Row
  BY <1>1, SeqElements
<1>3. DOMAIN blueprints' = DOMAIN blueprints
  OBVIOUS
<1>4. \A i \in DOMAIN blueprints : blueprints'[i] \in Row /\ blueprints'[i].draft = blueprints[i].draft
  BY <1>2
<1>5. blueprints' = [i \in 1..Len(blueprints) |-> blueprints'[i]]
  BY <1>2
<1>6. blueprints' \in [1..Len(blueprints) -> Row]
  BY <1>2, <1>4, <1>5
<1>7. blueprints' \in Seq(Row)
  <2> HIDE DEF Row
  <2> QED
    BY <1>2, <1>6, SeqDef
<1> QED
  BY <1>3, <1>4, <1>7 DEF DraftsStay
LEMMA FormStep == FormInv /\ [Next]_vars => FormInv'
<1> SUFFICES ASSUME FormInv, [Next]_vars PROVE FormInv'
  OBVIOUS
<1> USE DEF Draft!form, Draft!lists, Draft!bank, Draft!draws, Draft!Rest
<1>1. ASSUME UNCHANGED <<title, subjectRows, chapterRows, creating, blueprints>> PROVE FormInv'
  BY <1>1 DEF FormInv, DraftTypes, StoredInv
\* The form changes, and nothing is sent or stored.
<1>2. ASSUME title' \in {"", "valid"}, subjectRows' \in Seq(SubjectLines), chapterRows' \in Seq(ChapterLines),
             UNCHANGED <<creating, blueprints>>
      PROVE  FormInv'
  BY <1>2 DEF FormInv, DraftTypes, StoredInv
\* The request moves on.
<1>3. ASSUME UNCHANGED <<title, subjectRows, chapterRows, blueprints>>,
             creating' \in [at : {"none", "sent", "refused"}, draft : Drafts]
      PROVE  FormInv'
  <2>1. creating'.at # "stored" /\ creating' \in [at : {"none", "sent", "stored", "refused"}, draft : Drafts]
    BY <1>3
  <2> QED
    BY <1>3, <2>1 DEF FormInv, DraftTypes, StoredInv
<1>4. ASSUME UNCHANGED <<title, subjectRows, chapterRows, creating>>, DraftsStay,
             blueprints' \in Seq([draft : Drafts, published : BOOLEAN, logged : Nat])
      PROVE  FormInv'
  BY <1>4 DEF FormInv, DraftTypes, StoredInv, DraftsStay
<1>5. Draft!NoCall \in [at : {"none", "sent", "refused"}, draft : Drafts]
  <2>1. Draft!NoDraft \in Drafts
    BY EmptySeq DEF Draft!NoDraft, Drafts
  <2> QED
    BY <2>1 DEF Draft!NoCall
<1>6. /\ title \in {"", "valid"} /\ subjectRows \in Seq(SubjectLines) /\ chapterRows \in Seq(ChapterLines)
      /\ creating \in [at : {"none", "sent", "stored", "refused"}, draft : Drafts]
      /\ "" \in {"", "valid"} /\ <<>> \in Seq(SubjectLines) /\ <<>> \in Seq(ChapterLines)
  BY EmptySeq DEF FormInv, DraftTypes
<1>7. CASE Draft!SetTitle
  BY <1>2, <1>6, <1>7 DEF Draft!SetTitle
<1>8. CASE Draft!EditSubjects
  <2>1. subjectRows' \in Seq(SubjectLines)
    <3>1. CASE subjectRows' = Append(subjectRows, Draft!NewSubject)
      BY <1>6, <3>1, AppendProperties DEF SubjectLines
    <3>2. ASSUME NEW i \in DOMAIN subjectRows, NEW r \in SubjectRows, subjectRows' = [subjectRows EXCEPT ![i] = r]
          PROVE  subjectRows' \in Seq(SubjectLines)
      <4>1. r \in SubjectLines
        BY DEF SubjectLines
      <4> QED
        BY <1>6, <3>2, <4>1, EditedIsTyped
    <3>3. ASSUME NEW i \in DOMAIN subjectRows, subjectRows' = Draft!RemoveAt(subjectRows, i)
          PROVE  subjectRows' \in Seq(SubjectLines)
      BY <1>6, <3>3, RemovalKeepsElements
    <3> QED
      BY <1>8, <3>1, <3>2, <3>3 DEF Draft!EditSubjects
  <2> QED
    BY <1>2, <1>6, <1>8, <2>1 DEF Draft!EditSubjects
<1>9. CASE Draft!EditChapters
  <2>1. chapterRows' \in Seq(ChapterLines)
    <3>1. CASE chapterRows' = Append(chapterRows, Draft!NewChapter)
      BY <1>6, <3>1, AppendProperties DEF ChapterLines
    <3>2. ASSUME NEW i \in DOMAIN chapterRows, NEW r \in ChapterRows, chapterRows' = [chapterRows EXCEPT ![i] = r]
          PROVE  chapterRows' \in Seq(ChapterLines)
      <4>1. r \in ChapterLines
        BY DEF ChapterLines
      <4> QED
        BY <1>6, <3>2, <4>1, EditedIsTyped
    <3>3. ASSUME NEW i \in DOMAIN chapterRows, chapterRows' = Draft!RemoveAt(chapterRows, i)
          PROVE  chapterRows' \in Seq(ChapterLines)
      BY <1>6, <3>3, RemovalKeepsElements
    <3> QED
      BY <1>9, <3>1, <3>2, <3>3 DEF Draft!EditChapters
  <2> QED
    BY <1>2, <1>6, <1>9, <2>1 DEF Draft!EditChapters
<1>10. CASE Draft!Create
  <2>1. creating' = [at |-> "sent", draft |-> Draft!Written] /\ UNCHANGED <<title, subjectRows, chapterRows, blueprints>>
    BY <1>10 DEF Draft!Create
  <2>2. Draft!Written \in Drafts
    BY <1>6, WrittenIsDraft
  <2>3. creating' \in [at : {"none", "sent", "refused"}, draft : Drafts]
    BY <2>1, <2>2
  <2> QED
    BY <1>3, <2>1, <2>3
<1>11. CASE Draft!Created
  <2>1. title' = "" /\ subjectRows' = <<>> /\ chapterRows' = <<>> /\ blueprints' = blueprints /\ creating' = Draft!NoCall
    BY <1>11 DEF Draft!Created
  <2>2. creating'.at = "none"
    BY <2>1 DEF Draft!NoCall
  <2>3. creating' \in [at : {"none", "sent", "stored", "refused"}, draft : Drafts]
    BY <1>5, <2>1
  <2>4. DraftTypes'
    BY <1>6, <2>1, <2>3 DEF FormInv, DraftTypes
  <2> QED
    BY <2>1, <2>2, <2>4 DEF FormInv, StoredInv
<1>12. CASE Draft!CreateFails
  BY <1>3, <1>5, <1>12 DEF Draft!CreateFails
<1>13. CASE Draft!CreateLost
  BY <1>3, <1>6, <1>13 DEF Draft!CreateLost
<1>14. CASE Draft!Store
  <2>1. UNCHANGED <<title, subjectRows, chapterRows>> /\ creating.draft \in Drafts
    BY <1>6, <1>14 DEF Draft!Store
  <2>2. CASE ~Draft!Storable(creating.draft)
    BY <1>3, <1>6, <1>14, <2>1, <2>2 DEF Draft!Store
  <2>3. CASE Draft!Storable(creating.draft)
    <3> DEFINE row == [draft |-> creating.draft, published |-> FALSE, logged |-> 0]
               Row == [draft : Drafts, published : BOOLEAN, logged : Nat]
    <3>1. blueprints' = Append(blueprints, row) /\ creating' = [creating EXCEPT !.at = "stored"]
      BY <1>14, <2>3 DEF Draft!Store
    <3>2. row \in Row /\ blueprints \in Seq(Row) /\ row.draft = creating.draft
      BY <2>1 DEF FormInv, DraftTypes
    <3> HIDE DEF row, Row
    <3>3. /\ blueprints' \in Seq(Row) /\ Len(blueprints') = Len(blueprints) + 1
          /\ \A i \in 1..Len(blueprints) : blueprints'[i] = blueprints[i]
          /\ blueprints'[Len(blueprints) + 1] = row
      BY <3>1, <3>2, AppendProperties
    <3>4. /\ Len(blueprints) \in Nat /\ DOMAIN blueprints = 1..Len(blueprints)
          /\ DOMAIN blueprints' = 1..(Len(blueprints) + 1)
      BY <3>2, <3>3, SeqElements
    <3>5. creating' \in [at : {"none", "sent", "stored", "refused"}, draft : Drafts] /\ creating'.draft = creating.draft
      BY <1>6, <3>1
    <3>6. DraftTypes'
      BY <1>6, <2>1, <3>3, <3>5 DEF DraftTypes, Row
    <3>7. \A i \in DOMAIN blueprints' : Draft!Storable(blueprints'[i].draft)
      <4> TAKE i \in DOMAIN blueprints'
      <4>1. CASE i \in 1..Len(blueprints)
        BY <3>3, <3>4, <4>1 DEF FormInv, StoredInv
      <4>2. CASE i = Len(blueprints) + 1
        BY <2>3, <3>2, <3>3, <4>2
      <4> QED
        BY <3>4, <4>1, <4>2
    <3>8. \E i \in DOMAIN blueprints' : blueprints'[i].draft = creating'.draft
      <4>1. Len(blueprints) + 1 \in DOMAIN blueprints'
        BY <3>4
      <4> QED
        BY <3>2, <3>3, <3>5, <4>1
    <3> QED
      BY <3>6, <3>7, <3>8 DEF FormInv, StoredInv
  <2> QED
    BY <2>2, <2>3
<1>15. ASSUME NEW c \in Draft!Clicks, Draft!PublishUpdate(c) PROVE FormInv'
  <2>1. UNCHANGED <<title, subjectRows, chapterRows, creating>>
        /\ blueprints' = [blueprints EXCEPT ![publishing[c].id].published = TRUE]
    BY <1>15 DEF Draft!PublishUpdate
  <2>2. DraftsStay /\ blueprints' \in Seq([draft : Drafts, published : BOOLEAN, logged : Nat])
    <3>1. TRUE \in BOOLEAN /\ 0 \in Nat /\ DraftTypes
      BY DEF FormInv
    <3> QED
      BY <2>1, <3>1, PublishingKeepsDrafts
  <2> QED
    BY <1>4, <2>1, <2>2
<1>16. ASSUME NEW c \in Draft!Clicks, Draft!PublishAudit(c) PROVE FormInv'
  <2>1. UNCHANGED <<title, subjectRows, chapterRows, creating>>
        /\ blueprints' = [blueprints EXCEPT ![publishing[c].id].logged = @ + 1]
    BY <1>16 DEF Draft!PublishAudit
  <2>2. DraftsStay /\ blueprints' \in Seq([draft : Drafts, published : BOOLEAN, logged : Nat])
    <3>1. TRUE \in BOOLEAN /\ 0 \in Nat /\ DraftTypes
      BY DEF FormInv
    <3> QED
      BY <2>1, <3>1, PublishingKeepsDrafts
  <2> QED
    BY <1>4, <2>1, <2>2
<1>17. ASSUME NEW c \in Draft!Clicks,
              \/ \E i \in DOMAIN listed : Draft!Publish(c, i)
              \/ Draft!PublishCheck(c) \/ Draft!Published(c) \/ Draft!PublishLost(c)
       PROVE  FormInv'
  BY <1>1, <1>17 DEF Draft!Publish, Draft!PublishCheck, Draft!Published, Draft!PublishLost
<1>18. CASE Draft!ServeList \/ Draft!ListArrives \/ Draft!ListLost
  BY <1>1, <1>18 DEF Draft!ServeList, Draft!ListArrives, Draft!ListLost
<1>19. CASE (\E q \in Bank : Draft!Accept(q) \/ Draft!Revalidate(q) \/ Draft!TakeBack(q)) \/ (\E i \in DOMAIN blueprints : Draft!Begin(i)) \/ Draft!Draw \/ Draft!Link
  BY <1>1, <1>19 DEF Draft!Accept, Draft!Revalidate, Draft!TakeBack, Draft!BeingRead, Draft!Begin, Draft!Draw, Draft!Link
<1>20. CASE UNCHANGED draftVars
  BY <1>1, <1>20 DEF draftVars
<1>21. CASE Draft!Next
  BY <1>7, <1>8, <1>9, <1>10, <1>11, <1>12, <1>13, <1>14, <1>15, <1>16, <1>17, <1>18, <1>19, <1>21
     DEF Draft!Next, Draft!Form
<1> QED
  BY <1>20, <1>21 DEF Next, vars
\* The page throws away what was written only when the blueprint it sent is
\* stored (BlueprintGenerator.tsx onCreate).
THEOREM ClearedStored == Spec => ClearedIsStored
<1>1. FormInv /\ [Next]_vars =>
        [saving /\ ~saving' /\ chapterRows' = <<>> /\ chapterRows # <<>>
           => \E i \in DOMAIN blueprints : blueprints[i].draft = creating.draft]_(Draft!vars)
  <2> SUFFICES ASSUME FormInv, Next, saving, ~saving', chapterRows' = <<>>, chapterRows # <<>>
               PROVE  \E i \in DOMAIN blueprints : blueprints[i].draft = creating.draft
    BY DEF vars, draftVars, Draft!vars, Draft!form, Draft!lists, Draft!bank, Draft!draws
  <2>1. Draft!Next
    BY DEF Next, draftVars
  <2>2. Draft!Created
    BY <2>1 DEF Draft!Next, Draft!Form, Draft!SetTitle, Draft!EditSubjects, Draft!EditChapters, Draft!Create,
       Draft!CreateFails, Draft!Store, Draft!CreateLost, Draft!Publish, Draft!PublishCheck, Draft!PublishUpdate,
       Draft!PublishAudit, Draft!Published, Draft!PublishLost, Draft!ServeList, Draft!ListArrives, Draft!ListLost,
       Draft!Accept, Draft!Revalidate, Draft!TakeBack, Draft!BeingRead, Draft!Begin, Draft!Draw, Draft!Link,
       Draft!form, Draft!lists, Draft!bank, Draft!draws, Draft!Rest
  <2> QED
    BY <2>2 DEF Draft!Created, FormInv, StoredInv
<1> QED
  BY <1>1, FormInit, FormStep, PTL DEF Spec, ClearedIsStored, Draft!ClearedIsStored
-----------------------------------------------------------------------------
(* The run that selects                                                    *)

LEMMA ReadsAreBands ==
  ASSUME NEW d \in Drafts
  PROVE  /\ Draft!Reads(d) \subseteq Bands(d) /\ Bands(d) \subseteq Nat \X Nat
         /\ IsFiniteSet(Draft!Reads(d))
<1>1. d.chapters \in Seq(Allocations)
  BY DEF Drafts
<1>2. Len(d.chapters) \in Nat /\ DOMAIN d.chapters = 1..Len(d.chapters)
  BY <1>1, SeqElements
<1>3. Draft!Reads(d) \subseteq Bands(d)
  BY DEF Draft!Reads, Bands
<1>4. Bands(d) \subseteq Nat \X Nat
  BY <1>2 DEF Bands
<1>5. IsFiniteSet(1..Len(d.chapters)) /\ IsFiniteSet(1..3)
  <2>1. \A n \in Nat : IsFiniteSet(1..n)
    BY FS_Interval
  <2> QED
    BY <1>2, <2>1
<1>6. IsFiniteSet(Bands(d))
  BY <1>2, <1>5, FS_Product DEF Bands
<1> QED
  BY <1>3, <1>4, <1>6, FS_Subset

LEMMA NextBand ==
  ASSUME NEW d \in Drafts, NEW S \in SUBSET Draft!Reads(d), NEW i \in Nat
  PROVE  /\ Draft!Next1(i, S) \in [of : Nat, at : {"select", "link"}, band : Nat \X Nat]
         /\ Draft!Next1(i, S).of = i
         /\ Draft!Next1(i, S).at = "link" <=> S = {}
         /\ S # {} => /\ Draft!Next1(i, S).band \in S
                      /\ \A c \in S \ {Draft!Next1(i, S).band} : Draft!Before(Draft!Next1(i, S).band, c)
<1>1. S \subseteq Nat \X Nat /\ IsFiniteSet(S)
  BY ReadsAreBands, FS_Subset
<1>2. CASE S = {}
  BY <1>2 DEF Draft!Next1
<1>3. CASE S # {}
  <2>1. /\ Draft!Least(S) \in S
        /\ \A c \in S \ {Draft!Least(S)} : Draft!Before(Draft!Least(S), c)
    BY <1>1, <1>3, FirstBand
  <2>2. Draft!Next1(i, S) = [of |-> i, at |-> "select", band |-> Draft!Least(S)]
    BY <1>3 DEF Draft!Next1
  <2> QED
    BY <1>1, <1>3, <2>1, <2>2
<1> QED
  BY <1>2, <1>3

\* Reading goes in one order.
LEMMA BeforeOrders ==
  /\ \A a, b \in Nat \X Nat : Draft!Before(a, b) \/ Draft!Before(b, a) \/ a = b
  /\ \A a, b \in Nat \X Nat : ~(Draft!Before(a, b) /\ Draft!Before(b, a))
  /\ \A a, b, c \in Nat \X Nat : Draft!Before(a, b) /\ Draft!Before(b, c) => Draft!Before(a, c)
<1>1. \A a \in Nat \X Nat : a = <<a[1], a[2]>> /\ a[1] \in Nat /\ a[2] \in Nat
  OBVIOUS
<1> QED
  BY <1>1 DEF Draft!Before

\* What draws nothing and keeps the draft keeps the run.
LEMMA RunKept ==
  ASSUME RunInv, UNCHANGED <<accepted, reports, rewritten, retracted, run, drawn, known>>,
         run.at # "idle" => run.of \in DOMAIN blueprints' /\ blueprints'[run.of].draft = blueprints[run.of].draft
  PROVE  RunInv'
<1>1. CASE run.at = "idle"
  BY <1>1 DEF RunInv
<1>2. CASE run.at # "idle"
  <2> DEFINE d == blueprints[run.of].draft
  <2>1. d' = d /\ run.of \in DOMAIN blueprints'
    BY <1>2
  <2>2. \A b \in Bands(d) : BandInv(d, b)' = BandInv(d, b)
    BY <2>1 DEF BandInv, IsRead, SeenBy, OfBand, Drawn, Entries
  <2>3. \A e \in drawn : \A b \in Bands(d) : Drawn(b)' = Drawn(b)
    BY DEF Drawn
  <2> QED
    BY <1>2, <2>1, <2>2, <2>3 DEF RunInv
<1> QED
  BY <1>1, <1>2

\* Nothing is drawn before a run begins.
LEMMA RunInit == Init => RunInv
<1> SUFFICES ASSUME Init PROVE RunInv
  OBVIOUS
<1>1. run = Draft!Idle /\ drawn = {} /\ accepted = {} /\ known = {} /\ reports = FirstReport
  BY DEF Init, Draft!Init
<1>2. <<0, 0>> \in Nat \X Nat
  OBVIOUS
<1>3. run.at = "idle" /\ run \in [of : Nat, at : {"idle", "select", "link", "linked", "failed"}, band : Nat \X Nat]
  BY <1>1, <1>2 DEF Draft!Idle
<1> QED
  BY <1>1, <1>3, BankAssumption DEF RunInv

\* What is done to the bank and told in the histories changes nothing of what
\* was seen.
LEMMA BankKeepsRun ==
  ASSUME RunInv, run.at # "idle", UNCHANGED <<run, drawn, known, blueprints>>,
         accepted' \subseteq Bank, \A q \in accepted : q \notin retracted' => q \in accepted',
         reports' \in [Bank -> Draft!Reports], \A q \in Bank : q \notin rewritten' => reports'[q] = reports[q],
         rewritten \subseteq rewritten', retracted \subseteq retracted'
  PROVE  RunInv'
<1> DEFINE d == blueprints[run.of].draft
<1>1. run.of \in DOMAIN blueprints /\ known \subseteq Bank /\ known \ retracted \subseteq accepted
  BY DEF RunInv
<1>2. \A b, q : q \in Bank /\ q \notin rewritten' => OfBand(d, b, q)' = OfBand(d, b, q)
  BY DEF OfBand
<1>3. \A b \in Bands(d) : BandInv(d, b) => BandInv(d, b)'
  <2> SUFFICES ASSUME NEW b \in Bands(d), BandInv(d, b) PROVE BandInv(d, b)'
    OBVIOUS
  <2>1. IsRead(d, b)' = IsRead(d, b) /\ Drawn(b)' = Drawn(b)
    BY DEF IsRead, Drawn
  <2>2. ASSUME NEW S \in SUBSET Bank, SeenBy(d, b, S) PROVE SeenBy(d, b, S)'
    <3>1. \A q \in known \ (rewritten' \cup retracted') : OfBand(d, b, q)' => q \in S
      BY <1>1, <1>2, <2>2 DEF SeenBy
    <3>2. \A q \in S : q \notin rewritten' => OfBand(d, b, q)'
      BY <1>2, <2>2 DEF SeenBy
    <3>3. \A q \in S : Chapter[q] = d.chapters[b[1]].chapter /\ (q \notin retracted' => q \in accepted')
      BY <2>2 DEF SeenBy
    <3> QED
      BY <3>1, <3>2, <3>3 DEF SeenBy
  <2> QED
    BY <2>1, <2>2 DEF BandInv, Entries
<1>4. d' = d /\ \A b : Drawn(b)' = Drawn(b)
  BY DEF Drawn
<1>5. known \ retracted' \subseteq accepted'
  BY <1>1
<1> QED
  BY <1>1, <1>3, <1>4, <1>5 DEF RunInv

LEMMA AcceptKeepsRun ==
  ASSUME RunInv, NEW q \in Bank, Draft!Accept(q) \/ Draft!Revalidate(q) \/ Draft!TakeBack(q)
  PROVE  RunInv'
<1>1. run.at # "idle" /\ UNCHANGED <<run, drawn, known, blueprints>>
  BY DEF Draft!Accept, Draft!Revalidate, Draft!TakeBack, Draft!BeingRead
<1>2. accepted \subseteq Bank /\ reports \in [Bank -> Draft!Reports]
  BY DEF RunInv
<1>3. CASE Draft!Accept(q)
  <2>1. accepted' = accepted \cup {q} /\ UNCHANGED <<reports, rewritten, retracted>>
    BY <1>3 DEF Draft!Accept
  <2> QED
    BY <1>1, <1>2, <2>1, BankKeepsRun
<1>4. CASE Draft!Revalidate(q)
  <2>1. PICK r \in Rewrites : reports' = [reports EXCEPT ![q] = r]
    BY <1>4 DEF Draft!Revalidate
  <2>2. rewritten' = rewritten \cup {q} /\ UNCHANGED <<accepted, retracted>>
    BY <1>4 DEF Draft!Revalidate
  <2>3. reports' \in [Bank -> Draft!Reports] /\ \A p \in Bank : p # q => reports'[p] = reports[p]
    BY <1>2, <2>1, BankAssumption
  <2> QED
    BY <1>1, <1>2, <2>2, <2>3, BankKeepsRun
<1>5. CASE Draft!TakeBack(q)
  <2>1. accepted' = accepted \ {q} /\ retracted' = retracted \cup {q} /\ UNCHANGED <<reports, rewritten>>
    BY <1>5 DEF Draft!TakeBack
  <2> QED
    BY <1>1, <1>2, <2>1, BankKeepsRun
<1> QED
  BY <1>3, <1>4, <1>5

LEMMA BeginStartsRun ==
  ASSUME FormInv, RunInv, NEW i \in DOMAIN blueprints, Draft!Begin(i)
  PROVE  RunInv'
<1> DEFINE d == blueprints[i].draft
<1>1. /\ run = Draft!Idle /\ run' = Draft!Next1(i, Draft!Reads(d)) /\ accepted' \subseteq Bank /\ known' = accepted'
      /\ UNCHANGED <<blueprints, drawn, reports, retracted>>
  BY DEF Draft!Begin
<1>2. drawn = {}
  BY <1>1 DEF RunInv, Draft!Idle
<1>3. d \in Drafts /\ i \in Nat
  <2>1. DraftTypes
    BY DEF FormInv
  <2>2. blueprints \in Seq([draft : Drafts, published : BOOLEAN, logged : Nat])
    BY <2>1 DEF DraftTypes
  <2>3. DOMAIN blueprints = 1..Len(blueprints) /\ Len(blueprints) \in Nat
    BY <2>2, SeqElements
  <2> QED
    BY <2>1, <2>3, TypedDrafts
<1>4. /\ run' \in [of : Nat, at : {"select", "link"}, band : Nat \X Nat] /\ run'.of = i
      /\ run'.at = "link" <=> Draft!Reads(d) = {}
      /\ Draft!Reads(d) # {} =>
           run'.band \in Draft!Reads(d) /\ \A c \in Draft!Reads(d) \ {run'.band} : Draft!Before(run'.band, c)
  <2>1. Draft!Reads(d) \in SUBSET Draft!Reads(d)
    OBVIOUS
  <2> HIDE DEF d
  <2> QED
    BY <1>1, <1>3, <2>1, NextBand
<1>5. \A b \in Bands(d) : ~IsRead(d, b)'
  <2> SUFFICES ASSUME NEW b \in Bands(d), b \in Draft!Reads(d), run'.at = "select" => Draft!Before(b, run'.band) PROVE FALSE
    BY <1>1 DEF IsRead
  <2> HIDE DEF d
  <2>1. run'.at = "select" /\ run'.band \in Draft!Reads(d)
    BY <1>4
  <2>2. Draft!Before(b, run'.band) /\ (b # run'.band => Draft!Before(run'.band, b))
    BY <1>4, <2>1
  <2>3. b \in Nat \X Nat /\ run'.band \in Nat \X Nat
    BY <1>3, <2>1, ReadsAreBands
  <2> QED
    BY <2>2, <2>3, BeforeOrders
<1>6. \A b : Drawn(b)' = {}
  BY <1>1, <1>2 DEF Drawn
<1>7. \A b \in Bands(d) : BandInv(d, b)'
  BY <1>5, <1>6 DEF BandInv
<1>8. run'.at # "idle" /\ run' \in [of : Nat, at : {"idle", "select", "link", "linked", "failed"}, band : Nat \X Nat]
  BY <1>4
<1>9. d' = d /\ blueprints'[run'.of].draft = d /\ run'.of \in DOMAIN blueprints'
  BY <1>1, <1>4
<1>10. run'.at = "select" => run'.band \in Draft!Reads(d)
  BY <1>4
<1>11. known' \ retracted' \subseteq accepted' /\ known' \subseteq Bank /\ reports' \in [Bank -> Draft!Reports]
  BY <1>1 DEF RunInv
<1> HIDE DEF d
<1> QED
  BY <1>1, <1>2, <1>7, <1>8, <1>9, <1>10, <1>11 DEF RunInv
LEMMA NamesOfBands == \A j, k \in 1..3 : Draft!BandName[j] = Draft!BandName[k] => j = k
<1>1. Draft!BandName[1] = "EASY" /\ Draft!BandName[2] = "MEDIUM" /\ Draft!BandName[3] = "HARD"
  BY DEF Draft!BandName
<1>2. \A j \in 1..3 : j = 1 \/ j = 2 \/ j = 3
  OBVIOUS
<1> QED
  BY <1>1, <1>2

\* One reading: the band's questions as they are now, and no other band's.
LEMMA DrawKeepsRun ==
  ASSUME FormInv, RunInv, Draft!Draw
  PROVE  RunInv'
<1> SUFFICES ASSUME NEW d, d = blueprints[run.of].draft, NEW b, b = run.band PROVE RunInv'
  OBVIOUS
<1> DEFINE Later == {c \in Draft!Reads(d) : Draft!Before(b, c)}
           Got == Draft!Picked(accepted, reports, d.chapters[b[1]], Draft!BandName[b[2]])
<1>1. /\ run.at = "select" /\ drawn' = drawn \cup Entries(d, b, Got) /\ run' = Draft!Next1(run.of, Later)
      /\ UNCHANGED <<blueprints, accepted, reports, rewritten, retracted, known>>
  BY DEF Draft!Draw, Draft!bank, Entries
<1>2. run.of \in DOMAIN blueprints /\ b \in Draft!Reads(d) /\ (\A c \in Bands(d) : BandInv(d, c))
      /\ run.of \in Nat
  BY <1>1 DEF RunInv
<1>3. d \in Drafts
  BY <1>2, TypedDrafts DEF FormInv
<1>4. \A e \in drawn : \E c \in Bands(d) : e \in Drawn(c)
  BY <1>1 DEF RunInv
<1>5. /\ accepted' \subseteq Bank /\ known' \subseteq Bank /\ known' \ retracted' \subseteq accepted'
      /\ reports' \in [Bank -> Draft!Reports]
  BY <1>1 DEF RunInv
<1>7. Draft!Reads(d) \subseteq Bands(d) /\ Bands(d) \subseteq Nat \X Nat
  BY <1>3, ReadsAreBands
<1>8. /\ run' \in [of : Nat, at : {"select", "link"}, band : Nat \X Nat] /\ run'.of = run.of
      /\ run'.at = "link" <=> Later = {}
      /\ Later # {} => run'.band \in Later /\ \A c \in Later \ {run'.band} : Draft!Before(run'.band, c)
  <2>1. Later \in SUBSET Draft!Reads(d)
    OBVIOUS
  <2> HIDE DEF Later
  <2> QED
    BY <1>1, <1>2, <1>3, <2>1, NextBand
<1>9. \A c \in Bands(d) : IsRead(d, c)' <=> (IsRead(d, c) \/ c = b)
  <2> SUFFICES ASSUME NEW c \in Draft!Reads(d)
               PROVE  (run'.at = "select" => Draft!Before(c, run'.band)) <=> (Draft!Before(c, b) \/ c = b)
    BY <1>1, <1>2 DEF IsRead
  <2>1. c \in Nat \X Nat /\ b \in Nat \X Nat
    BY <1>2, <1>7
  <2>2. Draft!Before(c, b) \/ c = b \/ c \in Later
    BY <2>1, BeforeOrders
  <2>3. CASE Later = {}
    BY <1>8, <2>2, <2>3
  <2>4. CASE Later # {}
    <3>1. run'.at = "select" /\ run'.band \in Later /\ run'.band \in Nat \X Nat /\ Draft!Before(b, run'.band)
      BY <1>7, <1>8, <2>4
    <3>2. c \in Later => ~Draft!Before(c, run'.band)
      BY <1>8, <2>1, <3>1, BeforeOrders
    <3>3. c \in Later => ~(Draft!Before(c, b) \/ c = b)
      BY <2>1, BeforeOrders
    <3>4. c \notin Later => Draft!Before(c, run'.band)
      BY <2>1, <2>2, <3>1, BeforeOrders
    <3> QED
      BY <2>2, <3>1, <3>2, <3>3, <3>4
  <2> QED
    BY <2>3, <2>4
<1>10. ~IsRead(d, b)
  <2>1. b \in Nat \X Nat
    BY <1>2, <1>7
  <2> QED
    BY <1>1, <2>1, BeforeOrders DEF IsRead
<1>11. \A e \in Entries(d, b, Got) : e.row = b[1] /\ e.difficulty = Draft!BandName[b[2]]
  BY DEF Entries
<1>12. \A c \in Bands(d) : c # b => Drawn(c)' = Drawn(c)
  <2> SUFFICES ASSUME NEW c \in Bands(d), c # b PROVE Drawn(c)' = Drawn(c)
    OBVIOUS
  <2>1. b \in Bands(d)
    BY <1>2, <1>7
  <2>2. c = <<c[1], c[2]>> /\ c[2] \in 1..3 /\ b = <<b[1], b[2]>> /\ b[2] \in 1..3
    BY <2>1 DEF Bands
  <2>3. c[1] # b[1] \/ Draft!BandName[c[2]] # Draft!BandName[b[2]]
    BY <2>2, NamesOfBands
  <2> QED
    BY <1>1, <1>11, <2>3 DEF Drawn
<1>13. Drawn(b)' = Entries(d, b, Got)
  <2>1. Drawn(b) = {}
    BY <1>2, <1>7, <1>10 DEF BandInv
  <2> QED
    BY <1>1, <1>11, <2>1 DEF Drawn
<1>14. BandInv(d, b)'
  <2> DEFINE S == {q \in accepted : Draft!Matches(q, reports[q], d.chapters[b[1]], Draft!BandName[b[2]])}
  <2>1. S \in SUBSET Bank /\ SeenBy(d, b, S)'
    <3>1. known \ retracted \subseteq accepted /\ accepted \subseteq Bank
      BY DEF RunInv
    <3>2. \A q \in S : Chapter[q] = d.chapters[b[1]].chapter
      BY DEF Draft!Matches
    <3> QED
      BY <1>1, <3>1, <3>2 DEF SeenBy, OfBand
  <2>2. Got = Draft!Oldest(S, Draft!Band(d.chapters[b[1]], Draft!BandName[b[2]]))
    BY DEF Draft!Picked
  <2>3. Drawn(b)' = Entries(d, b, Draft!Oldest(S, Draft!Band(d.chapters[b[1]], Draft!BandName[b[2]])))
    BY <1>13, <2>2
  <2>4. IsRead(d, b)'
    BY <1>2, <1>7, <1>9
  <2> QED
    BY <1>1, <2>1, <2>3, <2>4 DEF BandInv
<1>15. \A c \in Bands(d) : BandInv(d, c)'
  <2> SUFFICES ASSUME NEW c \in Bands(d), c # b PROVE BandInv(d, c)'
    BY <1>14
  <2>1. Drawn(c)' = Drawn(c) /\ (IsRead(d, c)' <=> IsRead(d, c))
    BY <1>9, <1>12
  <2>2. \A S : SeenBy(d, c, S)' = SeenBy(d, c, S)
    BY <1>1 DEF SeenBy, OfBand
  <2>3. BandInv(d, c)
    BY <1>2
  <2> QED
    BY <1>1, <2>1, <2>2, <2>3 DEF BandInv, Entries
<1>16. \A e \in drawn' : \E c \in Bands(d) : (e \in Drawn(c))'
  <2>1. b \in Bands(d)
    BY <1>2, <1>7
  <2>2. \A c : drawn \subseteq drawn' /\ Drawn(c) \subseteq Drawn(c)'
    BY <1>1 DEF Drawn
  <2>3. \A e \in Entries(d, b, Got) : e \in Drawn(b)'
    BY <1>13
  <2> QED
    BY <1>1, <1>4, <2>1, <2>2, <2>3
<1>17. run' \in [of : Nat, at : {"idle", "select", "link", "linked", "failed"}, band : Nat \X Nat] /\ run'.at # "idle"
  BY <1>8
<1>18. run'.of \in DOMAIN blueprints' /\ blueprints'[run'.of].draft = d
  BY <1>1, <1>2, <1>8
<1>19. run'.at = "select" => run'.band \in Draft!Reads(d)
  BY <1>8
<1> QED
  BY <1>5, <1>15, <1>16, <1>17, <1>18, <1>19 DEF RunInv

LEMMA LinkKeepsRun ==
  ASSUME RunInv, Draft!Link
  PROVE  RunInv'
<1>1. /\ run.at = "link" /\ UNCHANGED <<blueprints, accepted, reports, rewritten, retracted, known, drawn>>
      /\ run' = [run EXCEPT !.at = IF drawn = {} \/ Draft!Repeats THEN "failed" ELSE "linked"]
  BY DEF Draft!Link, Draft!bank
<1>2. /\ run' \in [of : Nat, at : {"idle", "select", "link", "linked", "failed"}, band : Nat \X Nat]
      /\ run'.at \in {"failed", "linked"} /\ run'.of = run.of
  BY <1>1 DEF RunInv
<1> SUFFICES ASSUME NEW d, d = blueprints[run.of].draft PROVE RunInv'
  OBVIOUS
<1>3. d = blueprints'[run'.of].draft
  BY <1>1, <1>2
<1>4. \A b \in Bands(d) : BandInv(d, b)' = BandInv(d, b) /\ Drawn(b)' = Drawn(b)
  BY <1>1, <1>2 DEF BandInv, IsRead, SeenBy, OfBand, Drawn, Entries
<1> QED
  BY <1>1, <1>2, <1>3, <1>4 DEF RunInv

LEMMA RunStep == DraftInv /\ [Next]_vars => RunInv'
<1> SUFFICES ASSUME FormInv, RunInv, [Next]_vars PROVE RunInv'
  BY DEF DraftInv
<1> USE DEF Draft!form, Draft!lists, Draft!bank, Draft!draws, Draft!Rest
<1>1. ASSUME UNCHANGED <<accepted, reports, rewritten, retracted, run, drawn, known, blueprints>> PROVE RunInv'
  BY <1>1, RunKept DEF RunInv
<1>2. ASSUME UNCHANGED <<accepted, reports, rewritten, retracted, run, drawn, known>>, DraftsStay PROVE RunInv'
  BY <1>2, RunKept DEF RunInv, DraftsStay
<1>3. CASE Draft!Store
  <2>1. UNCHANGED <<accepted, reports, rewritten, retracted, run, drawn, known>>
    BY <1>3 DEF Draft!Store
  <2>2. CASE blueprints' = blueprints
    BY <1>1, <2>1, <2>2
  <2>3. CASE blueprints' = Append(blueprints, [draft |-> creating.draft, published |-> FALSE, logged |-> 0])
    <3> DEFINE row == [draft |-> creating.draft, published |-> FALSE, logged |-> 0]
               Row == [draft : Drafts, published : BOOLEAN, logged : Nat]
    <3>1. row \in Row /\ blueprints \in Seq(Row)
      BY DEF FormInv, DraftTypes
    <3>2. blueprints' = Append(blueprints, row)
      BY <2>3
    <3> HIDE DEF row, Row
    <3>3. /\ blueprints' \in Seq(Row) /\ Len(blueprints') = Len(blueprints) + 1
          /\ \A i \in 1..Len(blueprints) : blueprints'[i] = blueprints[i]
      BY <3>1, <3>2, AppendProperties
    <3>4. /\ Len(blueprints) \in Nat /\ DOMAIN blueprints = 1..Len(blueprints)
          /\ DOMAIN blueprints' = 1..(Len(blueprints) + 1)
      BY <3>1, <3>3, SeqElements
    <3>5. run.at # "idle" => run.of \in DOMAIN blueprints
      BY DEF RunInv
    <3>6. run.at # "idle" => run.of \in DOMAIN blueprints' /\ blueprints'[run.of].draft = blueprints[run.of].draft
      BY <3>3, <3>4, <3>5
    <3> QED
      BY <2>1, <3>6, RunKept
  <2> QED
    BY <1>3, <2>2, <2>3 DEF Draft!Store
<1>4. ASSUME NEW c \in Draft!Clicks, Draft!PublishUpdate(c) \/ Draft!PublishAudit(c) PROVE RunInv'
  <2>1. TRUE \in BOOLEAN /\ 0 \in Nat /\ DraftTypes
    BY DEF FormInv
  <2>2. \/ blueprints' = [blueprints EXCEPT ![publishing[c].id].published = TRUE]
        \/ blueprints' = [blueprints EXCEPT ![publishing[c].id].logged = @ + 1]
    BY <1>4 DEF Draft!PublishUpdate, Draft!PublishAudit
  <2>3. DraftsStay
    BY <2>1, <2>2, PublishingKeepsDrafts
  <2> QED
    BY <1>2, <1>4, <2>3 DEF Draft!PublishUpdate, Draft!PublishAudit
<1>5. CASE Draft!SetTitle \/ Draft!EditSubjects \/ Draft!EditChapters \/ Draft!Create \/ Draft!Created \/ Draft!CreateFails
           \/ Draft!CreateLost
  BY <1>1, <1>5 DEF Draft!SetTitle, Draft!EditSubjects, Draft!EditChapters, Draft!Create, Draft!Created,
     Draft!CreateFails, Draft!CreateLost
<1>6. ASSUME NEW c \in Draft!Clicks,
             \/ \E i \in DOMAIN listed : Draft!Publish(c, i)
             \/ Draft!PublishCheck(c) \/ Draft!Published(c) \/ Draft!PublishLost(c)
      PROVE  RunInv'
  BY <1>1, <1>6 DEF Draft!Publish, Draft!PublishCheck, Draft!Published, Draft!PublishLost
<1>7. CASE Draft!ServeList \/ Draft!ListArrives \/ Draft!ListLost
  BY <1>1, <1>7 DEF Draft!ServeList, Draft!ListArrives, Draft!ListLost
<1>8. CASE UNCHANGED draftVars
  BY <1>1, <1>8 DEF draftVars
<1>9. CASE Draft!Next
  BY <1>3, <1>4, <1>5, <1>6, <1>7, <1>9, AcceptKeepsRun, BeginStartsRun, DrawKeepsRun, LinkKeepsRun
     DEF Draft!Next, Draft!Form
<1> QED
  BY <1>8, <1>9 DEF Next, vars

LEMMA DraftsSelect == Spec => []DraftInv
<1>1. Init => DraftInv
  BY FormInit, RunInit DEF DraftInv
<1>2. DraftInv /\ [Next]_vars => DraftInv'
  BY FormStep, RunStep DEF DraftInv
<1> QED
  BY <1>1, <1>2, PTL DEF Spec
\* Whatever was drawn for a band is a question of the band, as far as nobody
\* touched it.
LEMMA DrawnFits ==
  ASSUME RunInv, NEW d, d = blueprints[run.of].draft, run.at # "idle", NEW b \in Bands(d), NEW e \in Drawn(b)
  PROVE  /\ Chapter[e.question] = d.chapters[b[1]].chapter
         /\ e.question \notin retracted => e.question \in accepted
         /\ e.question \notin rewritten => OfBand(d, b, e.question)
         /\ e = [row |-> b[1], difficulty |-> Draft!BandName[b[2]], question |-> e.question,
                 marks |-> Draft!Marks(d, d.chapters[b[1]])]
<1> DEFINE n == Draft!Band(d.chapters[b[1]], Draft!BandName[b[2]])
<1>1. BandInv(d, b)
  BY DEF RunInv
<1>2. PICK S \in SUBSET Bank : SeenBy(d, b, S) /\ Drawn(b) = Entries(d, b, Draft!Oldest(S, n))
  BY <1>1 DEF BandInv
<1>3. PICK q \in Draft!Oldest(S, n) :
        e = [row |-> b[1], difficulty |-> Draft!BandName[b[2]], question |-> q, marks |-> Draft!Marks(d, d.chapters[b[1]])]
  BY <1>2 DEF Entries
<1>4. q \in S
  BY DEF Draft!Oldest
<1> QED
  BY <1>2, <1>3, <1>4 DEF SeenBy

\* A selection draws a question twice only when its report was written again
\* since the run began: else the bands of a chapter are disjoint, and a stored
\* blueprint names a chapter once (questionSelection.service.ts, schema.prisma).
THEOREM DrawnOnce == Spec => []SelectedOnce
<1>1. DraftInv => SelectedOnce
  <2> SUFFICES ASSUME DraftInv, NEW x \in drawn, NEW y \in drawn, x.question = y.question,
                      x.question \notin rewritten
               PROVE  x = y
    BY DEF SelectedOnce, Draft!SelectedOnce
  <2> SUFFICES ASSUME NEW d, d = blueprints[run.of].draft PROVE x = y
    OBVIOUS
  <2>1. run.at # "idle" /\ run.of \in DOMAIN blueprints
    BY DEF DraftInv, RunInv
  <2>2. PICK b \in Bands(d), c \in Bands(d) : x \in Drawn(b) /\ y \in Drawn(c)
    BY <2>1 DEF DraftInv, RunInv
  <2>3. RunInv
    BY DEF DraftInv
  <2>4. /\ OfBand(d, b, x.question)
        /\ x = [row |-> b[1], difficulty |-> Draft!BandName[b[2]], question |-> x.question,
                marks |-> Draft!Marks(d, d.chapters[b[1]])]
    BY <2>1, <2>2, <2>3, DrawnFits
  <2>5. /\ OfBand(d, c, y.question)
        /\ y = [row |-> c[1], difficulty |-> Draft!BandName[c[2]], question |-> y.question,
                marks |-> Draft!Marks(d, d.chapters[c[1]])]
    BY <2>1, <2>2, <2>3, DrawnFits
  <2>6. d.chapters[b[1]].chapter = d.chapters[c[1]].chapter /\ Draft!BandName[b[2]] = Draft!BandName[c[2]]
    BY <2>4, <2>5 DEF OfBand, Draft!Matches
  <2>7. Draft!DistinctKeys(d)
    BY <2>1 DEF DraftInv, FormInv, StoredInv, Draft!Storable
  <2>8. b[1] \in DOMAIN d.chapters /\ c[1] \in DOMAIN d.chapters
    BY DEF Bands
  <2>9. b[1] = c[1]
    BY <2>6, <2>7, <2>8 DEF Draft!DistinctKeys
  <2> QED
    BY <2>4, <2>5, <2>6, <2>9
<1> QED
  BY <1>1, DraftsSelect, PTL
LEMMA EntriesSize ==
  ASSUME NEW d, NEW b, NEW Q, IsFiniteSet(Q)
  PROVE  IsFiniteSet(Entries(d, b, Q)) /\ Cardinality(Entries(d, b, Q)) = Cardinality(Q)
<1> DEFINE entry(q) == [row |-> b[1], difficulty |-> Draft!BandName[b[2]], question |-> q,
                        marks |-> Draft!Marks(d, d.chapters[b[1]])]
           f == [q \in Q |-> entry(q)]
<1>1. \A q \in Q : entry(q).question = q
  OBVIOUS
<1>2. Entries(d, b, Q) = {entry(q) : q \in Q}
  BY DEF Entries
<1> HIDE DEF entry
<1>3. f \in [Q -> Entries(d, b, Q)]
  BY <1>2
<1>4. IsInjective(f)
  BY <1>1 DEF IsInjective
<1>5. \A e \in Entries(d, b, Q) : \E q \in Q : f[q] = e
  BY <1>2
<1>6. f \in Bijection(Q, Entries(d, b, Q))
  BY <1>3, <1>4, <1>5 DEF Bijection, Injection, Surjection
<1> QED
  BY <1>6, FS_Bijection DEF ExistsBijection

LEMMA RoundIsNear ==
  /\ \A x \in Int : Draft!Round(x) \in Int
  /\ \A x \in Nat : Draft!Round(x) \in Nat
  /\ \A x, y, z \in Nat, c \in Nat :
       x + y + z = 100 * c => Draft!Round(x) + Draft!Round(y) + Draft!Round(z) <= c + 1
  BY DEF Draft!Round

\* The three bands of a chapter ask for one question too many at most.
LEMMA BandsOfAChapter ==
  ASSUME NEW a \in Allocations, Draft!ValidChapter(a), \A x \in Draft!Difficulties : a.pct[x] >= 0
  PROVE  /\ \A x \in Draft!Difficulties : Draft!Band(a, x) \in Nat
         /\ Draft!Band(a, "EASY") + Draft!Band(a, "MEDIUM") + Draft!Band(a, "HARD") <= a.count + 1
<1> DEFINE e == a.pct["EASY"]
           m == a.pct["MEDIUM"]
           h == a.pct["HARD"]
<1>1. "EASY" \in Draft!Difficulties /\ "MEDIUM" \in Draft!Difficulties /\ "HARD" \in Draft!Difficulties
  BY DEF Draft!Difficulties
<1>2. a.count \in Int /\ a.count > 0 /\ e + m + h = 100
  BY DEF Allocations, Draft!ValidChapter
<1>3. a.pct \in [Draft!Difficulties -> Int]
  BY DEF Allocations
<1>4. \A x \in Draft!Difficulties : a.pct[x] \in Nat
  <2> TAKE x \in Draft!Difficulties
  <2>1. a.pct[x] \in Int /\ a.pct[x] >= 0
    BY <1>3
  <2> QED
    BY <2>1
<1>5. e \in Nat /\ m \in Nat /\ h \in Nat /\ a.count \in Nat
  BY <1>1, <1>2, <1>4
<1> DEFINE c == a.count
<1> HIDE DEF e, m, h, c
<1>6. c * e \in Nat /\ c * m \in Nat /\ c * h \in Nat /\ c \in Nat
  BY <1>5 DEF c
<1>7. c * e + c * m + c * h = 100 * c
  <2>1. c * e + c * m + c * h = c * (e + m + h)
    BY <1>5, <1>6
  <2> QED
    BY <1>2, <1>6, <2>1
<1>8. Draft!Round(c * e) + Draft!Round(c * m) + Draft!Round(c * h) <= c + 1
  BY <1>6, <1>7, RoundIsNear
<1>9. ASSUME NEW x \in Draft!Difficulties PROVE Draft!Band(a, x) \in Nat
  <2>1. a.pct[x] \in {e, m, h} /\ Draft!Band(a, x) = Draft!Round(c * a.pct[x])
    BY DEF Draft!Difficulties, Draft!Band, c, e, m, h
  <2> QED
    BY <1>6, <2>1, RoundIsNear
<1> QED
  BY <1>8, <1>9 DEF Draft!Band, c, e, m, h

LEMMA BandSize ==
  ASSUME RunInv, NEW d \in Drafts, d = blueprints[run.of].draft, run.at = "linked", NEW b \in Bands(d)
  PROVE  LET n == Draft!Band(d.chapters[b[1]], Draft!BandName[b[2]])
             had == {q \in known \ (rewritten \cup retracted) : OfBand(d, b, q)}
         IN  /\ IsFiniteSet(Drawn(b)) /\ n \in Int
             /\ n \in Nat => Cardinality(Drawn(b)) <= n
             /\ Cardinality(Drawn(b)) >= n \/ Cardinality(Drawn(b)) >= Cardinality(had)
<1> DEFINE n == Draft!Band(d.chapters[b[1]], Draft!BandName[b[2]])
           had == {q \in known \ (rewritten \cup retracted) : OfBand(d, b, q)}
<1>1. n \in Int
  <2>1. b[1] \in DOMAIN d.chapters /\ b[2] \in 1..3
    BY DEF Bands
  <2>2. d.chapters[b[1]] \in Allocations
    <3>1. d.chapters \in Seq(Allocations)
      BY DEF Drafts
    <3> QED
      BY <2>1, <3>1, SeqElements
  <2>3. Draft!BandName[b[2]] \in Draft!Difficulties
    BY <2>1 DEF Draft!BandName, Draft!Difficulties
  <2>4. d.chapters[b[1]].count \in Int /\ d.chapters[b[1]].pct[Draft!BandName[b[2]]] \in Int
    BY <2>2, <2>3 DEF Allocations
  <2>5. \A x, y \in Int : x * y \in Int
    OBVIOUS
  <2> QED
    BY <2>4, <2>5, RoundIsNear DEF Draft!Band
<1>2. IsRead(d, b) <=> n > 0
  BY DEF IsRead, Draft!Reads, Bands
<1>3. BandInv(d, b)
  BY DEF RunInv
<1>4. CASE ~(n > 0)
  <2>1. Drawn(b) = {}
    BY <1>2, <1>3, <1>4 DEF BandInv
  <2>2. IsFiniteSet(Drawn(b)) /\ Cardinality(Drawn(b)) = 0
    BY <2>1, FS_EmptySet
  <2> QED
    BY <1>1, <1>4, <2>2
<1>5. CASE n > 0
  <2>1. PICK S \in SUBSET Bank : SeenBy(d, b, S) /\ Drawn(b) = Entries(d, b, Draft!Oldest(S, n))
    BY <1>2, <1>3, <1>5 DEF BandInv
  <2>2. S \subseteq Nat /\ IsFiniteSet(S)
    <3>1. S \in SUBSET Bank /\ Bank \subseteq Nat /\ IsFiniteSet(Bank)
      BY BankAssumption
    <3> QED
      BY <3>1, FS_Subset
  <2>3. n \in Nat
    BY <1>1, <1>5
  <2> HIDE DEF n
  <2>4. /\ IsFiniteSet(Draft!Oldest(S, n)) /\ Cardinality(Draft!Oldest(S, n)) <= n
        /\ Cardinality(Draft!Oldest(S, n)) = n \/ Draft!Oldest(S, n) = S
    BY <2>2, <2>3, OldestSize
  <2>5. IsFiniteSet(Drawn(b)) /\ Cardinality(Drawn(b)) = Cardinality(Draft!Oldest(S, n))
    BY <2>1, <2>4, EntriesSize
  <2>6. Cardinality(had) <= Cardinality(S)
    <3>1. had \in SUBSET S
      BY <2>1 DEF SeenBy
    <3> QED
      BY <2>2, <3>1, FS_Subset
  <2>7. Cardinality(S) \in Nat /\ Cardinality(had) \in Nat
    <3>1. had \in SUBSET S
      BY <2>1 DEF SeenBy
    <3>2. IsFiniteSet(had)
      BY <2>2, <3>1, FS_Subset
    <3> QED
      BY <2>2, <3>2, FS_CardinalityType
  <2>8. Cardinality(Drawn(b)) >= n \/ Cardinality(Drawn(b)) >= Cardinality(had)
    BY <2>3, <2>4, <2>5, <2>6, <2>7
  <2> QED
    BY <1>1, <2>4, <2>5, <2>8 DEF n
<1> QED
  BY <1>4, <1>5
\* But for the questions a rival touched during the run: every question of a
\* paper is an accepted one that its blueprint allows, and no band leaves out a
\* question it had room for and that was there when the run began.  A chapter
\* gives one too many at most (questionSelection.service.ts).
THEOREM DrawnFitsBlueprint == Spec => []SelectionFits
<1>1. DraftInv => SelectionFits
  <2> SUFFICES ASSUME DraftInv, run.at = "linked", NEW d, d = blueprints[run.of].draft, NEW i \in DOMAIN d.chapters
               PROVE
        LET a == d.chapters[i]
            of(x) == {e \in drawn : e.row = i /\ e.difficulty = x}
            had(x) == {q \in known \ (rewritten \cup retracted) : Draft!Matches(q, reports[q], a, x)}
        IN  /\ \A x \in Draft!Difficulties :
                 /\ \A e \in of(x) :
                      /\ Chapter[e.question] = a.chapter
                      /\ e.question \notin retracted => e.question \in accepted
                      /\ e.question \notin rewritten => Draft!Matches(e.question, reports[e.question], a, x)
                 /\ Draft!Cardinality(of(x)) >= Draft!Band(a, x) \/ Draft!Cardinality(of(x)) >= Draft!Cardinality(had(x))
            /\ (\A x \in Draft!Difficulties : a.pct[x] >= 0)
                 => Draft!Cardinality({e \in drawn : e.row = i}) <= a.count + 1
    BY DEF SelectionFits, Draft!SelectionFits
  <2> DEFINE a == d.chapters[i]
             b(k) == <<i, k>>
             fits(e, x) ==
               /\ Chapter[e.question] = a.chapter
               /\ e.question \notin retracted => e.question \in accepted
               /\ e.question \notin rewritten => Draft!Matches(e.question, reports[e.question], a, x)
             untouched(x) == {q \in known \ (rewritten \cup retracted) : Draft!Matches(q, reports[q], a, x)}
  <2>1. RunInv /\ FormInv /\ run.at # "idle" /\ run.of \in DOMAIN blueprints
    BY DEF DraftInv, RunInv
  <2>2. d \in Drafts /\ Draft!ValidDraft(d)
    BY <2>1, TypedDrafts DEF FormInv, StoredInv, Draft!Storable
  <2>3. a \in Allocations /\ Draft!ValidChapter(a)
    <3>1. d.chapters \in Seq(Allocations)
      BY <2>2 DEF Drafts
    <3> QED
      BY <2>2, <3>1, SeqElements DEF Draft!ValidDraft
  <2>4. Draft!BandName[1] = "EASY" /\ Draft!BandName[2] = "MEDIUM" /\ Draft!BandName[3] = "HARD"
    BY DEF Draft!BandName
  <2>5. \A k \in 1..3 : b(k) \in Bands(d) /\ b(k)[1] = i /\ b(k)[2] = k
    BY DEF Bands
  <2>6. \A k \in 1..3 : Drawn(b(k)) = {e \in drawn : e.row = i /\ e.difficulty = Draft!BandName[k]}
    BY <2>5 DEF Drawn
  <2>7. ASSUME NEW k \in 1..3
        PROVE  LET n == Draft!Band(a, Draft!BandName[k])
                   had == untouched(Draft!BandName[k])
               IN  /\ \A e \in Drawn(b(k)) : fits(e, Draft!BandName[k])
                   /\ IsFiniteSet(Drawn(b(k)))
                   /\ n \in Nat => Cardinality(Drawn(b(k))) <= n
                   /\ Cardinality(Drawn(b(k))) >= n \/ Cardinality(Drawn(b(k))) >= Cardinality(had)
    <3> PICK c \in Bands(d) : c = b(k)
      BY <2>5
    <3>1. c[1] = i /\ c[2] = k
      OBVIOUS
    <3>2. \A e \in Drawn(c) : fits(e, Draft!BandName[c[2]])
      BY <2>1, <3>1, DrawnFits DEF OfBand
    <3>3. LET n == Draft!Band(d.chapters[c[1]], Draft!BandName[c[2]])
              had == {q \in known \ (rewritten \cup retracted) : OfBand(d, c, q)}
          IN  /\ IsFiniteSet(Drawn(c)) /\ n \in Int
              /\ n \in Nat => Cardinality(Drawn(c)) <= n
              /\ Cardinality(Drawn(c)) >= n \/ Cardinality(Drawn(c)) >= Cardinality(had)
      BY <2>1, <2>2, BandSize
    <3> QED
      BY <3>1, <3>2, <3>3 DEF OfBand
  <2>8. \A x \in Draft!Difficulties : \E k \in 1..3 : x = Draft!BandName[k]
    BY <2>4 DEF Draft!Difficulties
  <2>9. ASSUME \A x \in Draft!Difficulties : a.pct[x] >= 0
        PROVE  Draft!Cardinality({e \in drawn : e.row = i}) <= a.count + 1
    <3> DEFINE X == Drawn(b(1))
               Y == Drawn(b(2))
               Z == Drawn(b(3))
    <3>1. {e \in drawn : e.row = i} = (X \cup Y) \cup Z
      <4>1. ASSUME NEW e \in drawn, e.row = i PROVE e \in (X \cup Y) \cup Z
        <5>1. PICK c \in Bands(d) : e \in Drawn(c)
          BY <2>1 DEF RunInv
        <5>2. c[1] = i /\ c[2] \in 1..3 /\ c = <<c[1], c[2]>>
          BY <4>1, <5>1 DEF Drawn, Bands
        <5>3. c = b(1) \/ c = b(2) \/ c = b(3)
          BY <5>2
        <5> QED
          BY <5>1, <5>3
      <4>2. X \subseteq {e \in drawn : e.row = i} /\ Y \subseteq {e \in drawn : e.row = i} /\ Z \subseteq {e \in drawn : e.row = i}
        BY <2>6
      <4> HIDE DEF X, Y, Z
      <4> QED
        BY <4>1, <4>2
    <3>2. /\ Draft!Band(a, "EASY") \in Nat /\ Draft!Band(a, "MEDIUM") \in Nat /\ Draft!Band(a, "HARD") \in Nat
          /\ Draft!Band(a, "EASY") + Draft!Band(a, "MEDIUM") + Draft!Band(a, "HARD") <= a.count + 1
      <4> HIDE DEF a
      <4> QED
        BY <2>3, <2>9, BandsOfAChapter DEF Draft!Difficulties
    <3>3. /\ IsFiniteSet(X) /\ Cardinality(X) <= Draft!Band(a, "EASY")
          /\ IsFiniteSet(Y) /\ Cardinality(Y) <= Draft!Band(a, "MEDIUM")
          /\ IsFiniteSet(Z) /\ Cardinality(Z) <= Draft!Band(a, "HARD")
      <4>1. 1 \in 1..3 /\ 2 \in 1..3 /\ 3 \in 1..3
        OBVIOUS
      <4> HIDE DEF b, a
      <4> QED
        BY <2>4, <2>7, <3>2, <4>1
    <3>4. a.count \in Int
      BY <2>3 DEF Allocations
    <3> HIDE DEF X, Y, Z, a
    <3>5. /\ IsFiniteSet(X \cup Y) /\ Cardinality(X) \in Nat /\ Cardinality(Y) \in Nat /\ Cardinality(Z) \in Nat
          /\ Cardinality(X \cup Y) = Cardinality(X) + Cardinality(Y) - Cardinality(X \cap Y)
          /\ Cardinality(X \cap Y) \in Nat /\ Cardinality(X \cup Y) \in Nat
      BY <3>3, FS_Union, FS_CardinalityType, FS_Intersection
    <3>6. /\ Cardinality((X \cup Y) \cup Z) = Cardinality(X \cup Y) + Cardinality(Z) - Cardinality((X \cup Y) \cap Z)
          /\ Cardinality((X \cup Y) \cap Z) \in Nat
      BY <3>3, <3>5, FS_Union, FS_CardinalityType, FS_Intersection
    <3>7. Cardinality((X \cup Y) \cup Z) <= Cardinality(X) + Cardinality(Y) + Cardinality(Z)
      BY <3>5, <3>6
    <3> QED
      <4>1. Cardinality((X \cup Y) \cup Z) <= a.count + 1
        BY <3>2, <3>3, <3>4, <3>5, <3>6, <3>7
      <4> QED
        BY <3>1, <4>1, SameCardinality
  <2>10. ASSUME NEW x \in Draft!Difficulties
         PROVE  LET of == {e \in drawn : e.row = i /\ e.difficulty = x}
                    had == untouched(x)
                IN  /\ \A e \in of : fits(e, x)
                    /\ \/ Draft!Cardinality(of) >= Draft!Band(a, x)
                       \/ Draft!Cardinality(of) >= Draft!Cardinality(had)
    <3>1. PICK k \in 1..3 : x = Draft!BandName[k]
      BY <2>8
    <3>2. Drawn(b(k)) = {e \in drawn : e.row = i /\ e.difficulty = x}
      BY <2>6, <3>1
    <3> QED
      BY <2>7, <3>1, <3>2, SameCardinality
  <2> QED
    BY <2>9, <2>10
<1> QED
  BY <1>1, DraftsSelect, PTL

-----------------------------------------------------------------------------
(* Rankings that are published and loaded                                  *)

RankTypes ==
  /\ scored \in [Exams -> Nat] /\ ranked \in [Exams -> Nat]
  /\ order \in [kind : {"none", "evaluate", "publish"}, paper : Exams \cup {None}, count : Nat,
                at : {"none", "asked", "read", "inserted", "answered", "refused", "loading"}]
  /\ loads \in [Rank!Loads -> [at : {"none", "asked", "served", "done", "failed"}, paper : Exams \cup {None}, count : Nat]]
  /\ ordering \in BOOLEAN /\ raced \in BOOLEAN

\* A request that is under way is of a paper; once it has published, its count
\* is the ranking's.
OrderIs ==
  /\ ordering <=> order.at # "none"
  /\ order.at # "none" => order.paper \in Exams
  /\ order.at \in {"read", "inserted", "loading"} => order.kind = "publish"
  /\ order.kind = "publish" /\ order.at \in {"read", "inserted", "answered", "loading"} => order.count > 0
  /\ order.kind = "publish" /\ order.at \in {"inserted", "answered", "loading"} => order.count = ranked[order.paper]

\* Loads are numbered as they are made; what one has read stays so.
LoadsNumbered == \E n \in 0..MaxLoads : Rank!Made = 1..n
LoadsAre ==
  \A i \in Rank!Loads :
    /\ loads[i].at # "none" => loads[i].paper \in Exams
    /\ loads[i].at # "none" /\ loads[i].count # 0 => loads[i].count = ranked[loads[i].paper]
LoadingIs == order.at = "loading" => \E n \in Rank!UnderWay : Rank!Made = 1..n
RowsAre ==
  ranking # None =>
    \E e \in Exams, n \in Nat :
      ranking = [paper |-> e, list |-> Rank!Ranking(n)] /\ (n # 0 => n = ranked[e])
NoticeIs ==
  notice.says = "published" => notice.paper \in Exams /\ notice.count > 0 /\ notice.count = ranked[notice.paper]

\* Until two overlap the load under way is the newest, and once it is over the
\* table has its answer.
OneLoad == ~raced => \A i \in Rank!UnderWay, j \in Rank!Made : j <= i
NewestLoad ==
  ~raced /\ Rank!UnderWay = {} =>
    \A i \in Rank!Made :
      (\A j \in Rank!Made : j <= i) /\ loads[i].at = "done"
        => ranking = [paper |-> loads[i].paper, list |-> Rank!Ranking(loads[i].count)]

RankInv ==
  /\ RankTypes /\ OrderIs /\ LoadsNumbered /\ LoadsAre /\ LoadingIs /\ RowsAre /\ NoticeIs /\ OneLoad /\ NewestLoad

LEMMA RankInit == Init => RankInv
<1> SUFFICES ASSUME Init PROVE RankInv
  OBVIOUS
<1>1. /\ scored = [e \in Exams |-> 0] /\ ranked = [e \in Exams |-> 0] /\ order = Rank!NoCall
      /\ loads = [i \in Rank!Loads |-> Rank!NoLoad]
      /\ ranking = None /\ notice = Rank!NoStatus /\ ordering = FALSE /\ raced = FALSE
  BY DEF Init, Rank!Init
<1>2. Rank!Made = {} /\ Rank!UnderWay = {}
  BY <1>1 DEF Rank!Made, Rank!UnderWay, Rank!NoLoad
<1>3. LoadsNumbered
  BY <1>2, RankingAssumption DEF LoadsNumbered
<1>4. RankTypes
  BY <1>1 DEF RankTypes, Rank!NoCall, Rank!Call, Rank!NoLoad
<1>5. OrderIs /\ LoadsAre /\ LoadingIs /\ NoticeIs
  BY <1>1, <1>2 DEF OrderIs, LoadsAre, LoadingIs, NoticeIs, Rank!NoCall, Rank!Call, Rank!NoLoad, Rank!NoStatus, Rank!Status
<1> QED
  BY <1>1, <1>2, <1>3, <1>4, <1>5 DEF RankInv, RowsAre, OneLoad, NewestLoad

\* A ranking that is there is not changed: what was read of it is still so.
LEMMA RankedGrows ==
  ASSUME RankInv, ranked' \in [Exams -> Nat], \A e \in Exams : ranked[e] # 0 => ranked'[e] = ranked[e],
         UNCHANGED <<loads, ranking, notice, raced>>
  PROVE  LoadsAre' /\ RowsAre' /\ NoticeIs' /\ LoadsNumbered' /\ OneLoad' /\ NewestLoad'
<1>1. Rank!Made' = Rank!Made /\ Rank!UnderWay' = Rank!UnderWay
  BY DEF Rank!Made, Rank!UnderWay
<1>2. LoadsAre'
  BY DEF RankInv, LoadsAre
<1>3. RowsAre'
  BY DEF RankInv, RowsAre
<1>4. NoticeIs'
  BY DEF RankInv, NoticeIs
<1> QED
  BY <1>1, <1>2, <1>3, <1>4 DEF RankInv, LoadsNumbered, OneLoad, NewestLoad

\* A load is begun.
LEMMA AskKeepsLoads ==
  ASSUME RankInv, NEW e \in Exams, Rank!Ask(e), UNCHANGED <<ranked, ranking>>
  PROVE  /\ loads' \in [Rank!Loads -> [at : {"none", "asked", "served", "done", "failed"}, paper : Exams \cup {None}, count : Nat]]
         /\ raced' \in BOOLEAN
         /\ LoadsNumbered' /\ LoadsAre' /\ OneLoad' /\ NewestLoad'
         /\ \E n \in Rank!UnderWay' : Rank!Made' = 1..n
<1> DEFINE new == [at |-> "asked", paper |-> e, count |-> 0]
<1>1. PICK i \in Rank!Loads : Rank!Made = 1..(i - 1) /\ loads' = [loads EXCEPT ![i] = new]
  BY DEF Rank!Ask
<1>2. raced' = (raced \/ Rank!UnderWay # {})
  BY DEF Rank!Ask
<1>3. raced' \in BOOLEAN /\ (~raced' => ~raced /\ Rank!UnderWay = {})
  BY <1>2, Zenon DEF RankInv, RankTypes
<1>4. i \in Nat /\ i >= 1 /\ i <= MaxLoads
  BY RankingAssumption DEF Rank!Loads
<1>5. \A j \in Rank!Loads : loads'[j] = IF j = i THEN new ELSE loads[j]
  BY <1>1 DEF RankInv, RankTypes
<1>6. Rank!Made' = 1..i
  <2>1. \A j \in Rank!Loads : loads'[j].at # "none" <=> j = i \/ j \in 1..(i - 1)
    BY <1>1, <1>5 DEF Rank!Made
  <2> QED
    BY <1>4, <2>1, RankingAssumption DEF Rank!Made, Rank!Loads
<1>7. Rank!UnderWay' = Rank!UnderWay \cup {i}
  BY <1>5 DEF Rank!UnderWay
<1>8. loads' \in [Rank!Loads -> [at : {"none", "asked", "served", "done", "failed"}, paper : Exams \cup {None}, count : Nat]]
  BY <1>1 DEF RankInv, RankTypes
<1>9. LoadsNumbered'
  BY <1>4, <1>6, RankingAssumption DEF LoadsNumbered
<1>10. LoadsAre'
  BY <1>5 DEF RankInv, LoadsAre
<1>11. OneLoad'
  BY <1>3, <1>4, <1>6, <1>7 DEF OneLoad
<1> QED
  BY <1>3, <1>6, <1>7, <1>8, <1>9, <1>10, <1>11 DEF NewestLoad

\* A load goes on, or is over.
LEMMA LoadMoves ==
  ASSUME RankInv, NEW i \in Rank!UnderWay, NEW at \in {"served", "done", "failed"}, NEW n \in Nat,
         n # 0 => n = ranked[loads[i].paper],
         loads' = [loads EXCEPT ![i].at = at, ![i].count = n], UNCHANGED <<ranked, raced>>
  PROVE  /\ loads' \in [Rank!Loads -> [at : {"none", "asked", "served", "done", "failed"}, paper : Exams \cup {None}, count : Nat]]
         /\ \A j \in Rank!Loads : j # i => loads'[j] = loads[j]
         /\ loads'[i] = [at |-> at, paper |-> loads[i].paper, count |-> n]
         /\ Rank!Made' = Rank!Made
         /\ Rank!UnderWay' = IF at = "served" THEN Rank!UnderWay ELSE Rank!UnderWay \ {i}
         /\ Rank!UnderWay \subseteq Rank!Made /\ Rank!Made \subseteq Rank!Loads
         /\ LoadsNumbered' /\ LoadsAre' /\ OneLoad'
<1>1. i \in Rank!Loads /\ loads[i].at \in {"asked", "served"}
  BY DEF Rank!UnderWay
<1>2. /\ loads' \in [Rank!Loads -> [at : {"none", "asked", "served", "done", "failed"}, paper : Exams \cup {None}, count : Nat]]
      /\ \A j \in Rank!Loads : j # i => loads'[j] = loads[j]
      /\ loads'[i] = [at |-> at, paper |-> loads[i].paper, count |-> n]
  BY <1>1 DEF RankInv, RankTypes
<1>3. /\ Rank!Made' = Rank!Made /\ Rank!UnderWay \subseteq Rank!Made /\ Rank!Made \subseteq Rank!Loads
      /\ Rank!UnderWay' = IF at = "served" THEN Rank!UnderWay ELSE Rank!UnderWay \ {i}
  BY <1>1, <1>2 DEF Rank!Made, Rank!UnderWay
<1>4. LoadsAre'
  BY <1>1, <1>2 DEF RankInv, LoadsAre
<1> QED
  BY <1>2, <1>3, <1>4 DEF RankInv, LoadsNumbered, OneLoad

\* A load that is over: its answer is shown, or its failure is told.
LEMMA LoadEnds ==
  ASSUME RankInv, NEW i \in Rank!UnderWay, Rank!Loaded(i) \/ Rank!LoadFails(i)
  PROVE  RankInv'
<1>1. PICK at \in {"done", "failed"} : Rank!Over(i, at) /\ (at = "done" <=> Rank!Loaded(i))
  BY DEF Rank!Loaded, Rank!LoadFails, Rank!UnderWay
<1>2. UNCHANGED <<scored, ranked, raced>>
  BY DEF Rank!Loaded, Rank!LoadFails, Rank!server
<1>3. loads[i].count \in Nat /\ loads[i].paper \in Exams /\ i \in Rank!Loads
      /\ (loads[i].count # 0 => loads[i].count = ranked[loads[i].paper])
  BY DEF RankInv, RankTypes, LoadsAre, Rank!UnderWay
<1>4. loads' = [loads EXCEPT ![i].at = at, ![i].count = loads[i].count]
  <2>1. loads' = [loads EXCEPT ![i].at = at]
    BY <1>1 DEF Rank!Over
  <2> QED
    BY <1>3, <2>1 DEF RankInv, RankTypes
<1>5. /\ loads' \in [Rank!Loads -> [at : {"none", "asked", "served", "done", "failed"}, paper : Exams \cup {None}, count : Nat]]
      /\ \A j \in Rank!Loads : j # i => loads'[j] = loads[j]
      /\ loads'[i] = [at |-> at, paper |-> loads[i].paper, count |-> loads[i].count]
      /\ Rank!Made' = Rank!Made /\ Rank!UnderWay' = Rank!UnderWay \ {i}
      /\ Rank!UnderWay \subseteq Rank!Made /\ Rank!Made \subseteq Rank!Loads
      /\ LoadsNumbered' /\ LoadsAre' /\ OneLoad'
  <2>1. PICK n \in Nat : n = loads[i].count
    BY <1>3
  <2>2. n # 0 => n = ranked[loads[i].paper]
    BY <1>3, <2>1
  <2>3. loads' = [loads EXCEPT ![i].at = at, ![i].count = n] /\ UNCHANGED <<ranked, raced>>
    BY <1>2, <1>4, <2>1
  <2>4. at \in {"served", "done", "failed"} /\ at # "served"
    OBVIOUS
  <2>5. /\ loads' \in [Rank!Loads -> [at : {"none", "asked", "served", "done", "failed"}, paper : Exams \cup {None}, count : Nat]]
        /\ \A j \in Rank!Loads : j # i => loads'[j] = loads[j]
        /\ loads'[i] = [at |-> at, paper |-> loads[i].paper, count |-> n]
        /\ Rank!Made' = Rank!Made
        /\ Rank!UnderWay' = IF at = "served" THEN Rank!UnderWay ELSE Rank!UnderWay \ {i}
        /\ Rank!UnderWay \subseteq Rank!Made /\ Rank!Made \subseteq Rank!Loads
        /\ LoadsNumbered' /\ LoadsAre' /\ OneLoad'
    <3>1. CASE at = "done"
      <4>1. loads' = [loads EXCEPT ![i].at = "done", ![i].count = n]
        BY <2>3, <3>1
      <4> QED
        BY <2>2, <2>3, <3>1, <4>1, LoadMoves
    <3>2. CASE at = "failed"
      <4>1. loads' = [loads EXCEPT ![i].at = "failed", ![i].count = n]
        BY <2>3, <3>2
      <4> QED
        BY <2>2, <2>3, <3>2, <4>1, LoadMoves
    <3> QED
      BY <3>1, <3>2
  <2> QED
    BY <2>1, <2>4, <2>5
<1>6. /\ OrderIs' /\ LoadingIs' /\ ordering' \in BOOLEAN
      /\ order' \in [kind : {"none", "evaluate", "publish"}, paper : Exams \cup {None}, count : Nat,
                     at : {"none", "asked", "read", "inserted", "answered", "refused", "loading"}]
  <2>1. CASE order.at = "loading" /\ Rank!Made = 1..i
    <3>1. ordering' = FALSE /\ order' = Rank!NoCall
      BY <1>1, <2>1 DEF Rank!Over
    <3> QED
      BY <3>1 DEF OrderIs, LoadingIs, Rank!NoCall, Rank!Call
  <2>2. CASE ~(order.at = "loading" /\ Rank!Made = 1..i)
    <3>1. UNCHANGED <<ordering, order>>
      BY <1>1, <2>2 DEF Rank!Over
    <3>2. LoadingIs'
      BY <1>5, <2>2, <3>1 DEF RankInv, LoadingIs
    <3> QED
      BY <1>2, <3>1, <3>2 DEF RankInv, RankTypes, OrderIs
  <2> QED
    BY <2>1, <2>2
<1>7. RankTypes'
  BY <1>2, <1>5, <1>6 DEF RankInv, RankTypes
<1>8. RowsAre' /\ NoticeIs'
  <2>1. CASE Rank!Loaded(i)
    <3>1. ranking' = [paper |-> loads[i].paper, list |-> Rank!Ranking(loads[i].count)] /\ UNCHANGED notice
      BY <2>1 DEF Rank!Loaded
    <3> QED
      BY <1>2, <1>3, <3>1 DEF RankInv, RowsAre, NoticeIs, Rank!Ranking, Rank!Row
  <2>2. CASE Rank!LoadFails(i)
    BY <1>2, <2>2 DEF Rank!LoadFails, Rank!Failed, Rank!Status, RankInv, RowsAre, NoticeIs, Rank!Ranking, Rank!Row
  <2> QED
    BY <2>1, <2>2
<1>9. NewestLoad'
  <2> SUFFICES ASSUME ~raced, NEW j \in Rank!Made, \A k \in Rank!Made : k <= j, loads'[j].at = "done"
               PROVE  ranking' = [paper |-> loads'[j].paper, list |-> Rank!Ranking(loads'[j].count)]
    BY <1>2, <1>5 DEF NewestLoad, Rank!Ranking, Rank!Row
  <2>1. j = i
    <3>1. j <= i /\ i <= j
      BY <1>5 DEF RankInv, OneLoad
    <3>2. i \in 1..MaxLoads /\ j \in 1..MaxLoads
      BY <1>5 DEF Rank!Loads
    <3> QED
      BY <3>1, <3>2, RankingAssumption
  <2> QED
    BY <1>1, <1>5, <2>1 DEF Rank!Loaded
<1> QED
  BY <1>5, <1>6, <1>7, <1>8, <1>9 DEF RankInv

LEMMA RankStep == RankInv /\ [Next]_vars => RankInv'
<1> USE DEF Rank!server, Rank!screen
<1>0. SUFFICES ASSUME RankInv, page = "ranking", Rank!Next PROVE RankInv'
  <2>1. ASSUME RankInv, UNCHANGED rankVars PROVE RankInv'
    <3>1. UNCHANGED <<scored, ranked, order, loads, ranking, notice, ordering, raced>>
      BY <2>1 DEF rankVars
    <3>2. LoadsAre' /\ RowsAre' /\ NoticeIs' /\ LoadsNumbered' /\ OneLoad' /\ NewestLoad'
      BY <2>1, <3>1, RankedGrows DEF RankInv, RankTypes
    <3> QED
      BY <2>1, <3>1, <3>2 DEF RankInv, RankTypes, OrderIs, LoadingIs, Rank!Made, Rank!UnderWay
  <2> QED
    BY <1>0, <2>1 DEF Next, vars
<1>1. RankTypes /\ OrderIs /\ LoadingIs
  BY <1>0 DEF RankInv
\* What changes neither the loads nor the page.
<1>2. ASSUME UNCHANGED <<loads, ranking, notice, raced>>, ranked' \in [Exams -> Nat],
             \A e \in Exams : ranked[e] # 0 => ranked'[e] = ranked[e]
      PROVE  /\ LoadsAre' /\ RowsAre' /\ NoticeIs' /\ LoadsNumbered' /\ OneLoad' /\ NewestLoad'
             /\ (order'.at # "loading" \/ order' = order) => LoadingIs'
  BY <1>0, <1>1, <1>2, RankedGrows DEF LoadingIs, Rank!Made, Rank!UnderWay
<1>3. ASSUME NEW e \in Exams, Rank!Evaluate(e) \/ \E n \in 1..MaxResults : Rank!PublishElsewhere(e, n) PROVE RankInv'
  <2>1. UNCHANGED <<order, loads, ranking, notice, ordering, raced>>
    BY <1>3 DEF Rank!Evaluate, Rank!PublishElsewhere
  <2>2. /\ ranked' \in [Exams -> Nat] /\ scored' \in [Exams -> Nat]
        /\ \A f \in Exams : ranked[f] # 0 => ranked'[f] = ranked[f]
    BY <1>1, <1>3 DEF RankTypes, Rank!Evaluate, Rank!PublishElsewhere
  <2>3. RankTypes' /\ OrderIs'
    BY <1>1, <2>1, <2>2 DEF RankTypes, OrderIs
  <2> QED
    BY <1>2, <2>1, <2>2, <2>3 DEF RankInv
<1>4. ASSUME NEW e \in Exams, Rank!RunEvaluation(e) \/ Rank!PublishRanking(e) PROVE RankInv'
  <2>1. PICK k \in {"evaluate", "publish"} : Rank!Begin(k, e)
    BY <1>4 DEF Rank!RunEvaluation, Rank!PublishRanking
  <2>2. /\ ordering' = TRUE /\ notice' = Rank!NoStatus /\ order' = Rank!Call(k, e, "asked", 0)
        /\ UNCHANGED <<scored, ranked, loads, ranking, raced>>
    BY <2>1 DEF Rank!Begin
  <2>3. RankTypes' /\ OrderIs' /\ LoadingIs' /\ NoticeIs'
    BY <1>1, <2>2 DEF RankTypes, OrderIs, LoadingIs, NoticeIs, Rank!Call, Rank!NoStatus, Rank!Status
  <2>4. LoadsAre' /\ RowsAre' /\ LoadsNumbered' /\ OneLoad' /\ NewestLoad'
    BY <1>0, <2>2 DEF RankInv, LoadsAre, RowsAre, LoadsNumbered, OneLoad, NewestLoad, Rank!Made, Rank!UnderWay, Rank!Ranking, Rank!Row
  <2> QED
    BY <2>3, <2>4 DEF RankInv
<1>5. CASE Rank!ServeRun \/ Rank!ReadResults \/ Rank!Insert \/ Rank!Audit \/ Rank!CallFails
  <2>1. UNCHANGED <<loads, ranking, notice, ordering, raced, scored>>
    BY <1>5 DEF Rank!ServeRun, Rank!ReadResults, Rank!Insert, Rank!Audit, Rank!CallFails
  <2>2. ranked' \in [Exams -> Nat] /\ \A f \in Exams : ranked[f] # 0 => ranked'[f] = ranked[f]
    BY <1>1, <1>5 DEF RankTypes, OrderIs, Rank!ServeRun, Rank!ReadResults, Rank!Insert, Rank!Audit, Rank!CallFails
  <2>3. /\ order' \in [kind : {"none", "evaluate", "publish"}, paper : Exams \cup {None}, count : Nat,
                       at : {"none", "asked", "read", "inserted", "answered", "refused", "loading"}]
        /\ OrderIs' /\ order'.at # "loading"
    <3>1. CASE Rank!ServeRun
      BY <1>1, <2>1, <3>1 DEF RankTypes, OrderIs, Rank!ServeRun
    <3>2. CASE Rank!ReadResults
      <4>1. order.kind = "publish" /\ order.at = "asked" /\ order.paper \in Exams /\ scored[order.paper] \in Nat
        BY <1>1, <3>2 DEF RankTypes, OrderIs, Rank!ReadResults
      <4>2. order' = IF scored[order.paper] = 0 THEN [order EXCEPT !.at = "refused"]
                     ELSE [order EXCEPT !.at = "read", !.count = scored[order.paper]]
        BY <3>2 DEF Rank!ReadResults
      <4>3. PICK n \in Nat : n = scored[order.paper]
        BY <4>1
      <4> QED
        <5>1. CASE n = 0
          <6>1. order' = [order EXCEPT !.at = "refused"]
            BY <4>2, <4>3, <5>1
          <6> QED
            BY <1>1, <2>1, <4>1, <6>1 DEF RankTypes, OrderIs
        <5>2. CASE n > 0
          <6>1. order' = [order EXCEPT !.at = "read", !.count = n]
            BY <4>2, <4>3, <5>2
          <6> QED
            BY <1>1, <2>1, <4>1, <5>2, <6>1 DEF RankTypes, OrderIs
        <5> QED
          BY <5>1, <5>2
    <3>3. CASE Rank!Insert
      BY <1>1, <2>1, <3>3 DEF RankTypes, OrderIs, Rank!Insert
    <3>4. CASE Rank!Audit
      BY <1>1, <2>1, <3>4 DEF RankTypes, OrderIs, Rank!Audit
    <3>5. CASE Rank!CallFails
      BY <1>1, <2>1, <3>5 DEF RankTypes, OrderIs, Rank!CallFails
    <3> QED
      BY <1>5, <3>1, <3>2, <3>3, <3>4, <3>5
  <2>4. RankTypes'
    BY <1>1, <2>1, <2>2, <2>3 DEF RankTypes
  <2> QED
    BY <1>2, <2>1, <2>2, <2>3, <2>4 DEF RankInv
<1>6. CASE Rank!Queued \/ Rank!Refused
  <2>1. /\ ordering' = FALSE /\ order' = Rank!NoCall /\ notice'.says # "published"
        /\ UNCHANGED <<scored, ranked, loads, ranking, raced>>
    BY <1>6 DEF Rank!Queued, Rank!Refused, Rank!Failed, Rank!Status
  <2>2. RankTypes' /\ OrderIs' /\ LoadingIs' /\ NoticeIs'
    BY <1>1, <2>1 DEF RankTypes, OrderIs, LoadingIs, NoticeIs, Rank!NoCall, Rank!Call
  <2>3. LoadsAre' /\ RowsAre' /\ LoadsNumbered' /\ OneLoad' /\ NewestLoad'
    BY <1>0, <2>1 DEF RankInv, LoadsAre, RowsAre, LoadsNumbered, OneLoad, NewestLoad, Rank!Made, Rank!UnderWay, Rank!Ranking, Rank!Row
  <2> QED
    BY <2>2, <2>3 DEF RankInv
<1>7. CASE Rank!Published
  <2>1. /\ order.kind = "publish" /\ order.at = "answered" /\ order.paper \in Exams
        /\ order.count > 0 /\ order.count = ranked[order.paper]
    BY <1>1, <1>7 DEF OrderIs, Rank!Published
  <2>2. /\ notice' = Rank!Status("published", order.paper, order.count) /\ Rank!Ask(order.paper)
        /\ order' = [order EXCEPT !.at = "loading"] /\ UNCHANGED <<scored, ranked, ranking, ordering>>
    BY <1>7 DEF Rank!Published
  <2>3. /\ loads' \in [Rank!Loads -> [at : {"none", "asked", "served", "done", "failed"}, paper : Exams \cup {None}, count : Nat]]
        /\ raced' \in BOOLEAN
        /\ LoadsNumbered' /\ LoadsAre' /\ OneLoad' /\ NewestLoad'
        /\ \E n \in Rank!UnderWay' : Rank!Made' = 1..n
    BY <1>0, <2>1, <2>2, AskKeepsLoads
  <2>4. RankTypes' /\ OrderIs' /\ NoticeIs'
    BY <1>1, <2>1, <2>2, <2>3 DEF RankTypes, OrderIs, NoticeIs, Rank!Status
  <2>5. LoadingIs'
    BY <2>3 DEF LoadingIs
  <2>6. RowsAre'
    BY <1>0, <2>2 DEF RankInv, RowsAre, Rank!Ranking, Rank!Row
  <2> QED
    BY <2>3, <2>4, <2>5, <2>6 DEF RankInv
<1>8. ASSUME NEW e \in Exams, Rank!LoadRanking(e) PROVE RankInv'
  <2>1. Rank!Ask(e) /\ ~ordering /\ UNCHANGED <<scored, ranked, order, ranking, notice, ordering>>
    BY <1>8 DEF Rank!LoadRanking
  <2>2. /\ loads' \in [Rank!Loads -> [at : {"none", "asked", "served", "done", "failed"}, paper : Exams \cup {None}, count : Nat]]
        /\ raced' \in BOOLEAN
        /\ LoadsNumbered' /\ LoadsAre' /\ OneLoad' /\ NewestLoad'
    BY <1>0, <2>1, AskKeepsLoads
  <2>3. RankTypes' /\ OrderIs' /\ NoticeIs' /\ LoadingIs' /\ RowsAre'
    BY <1>0, <1>1, <2>1, <2>2 DEF RankInv, RankTypes, OrderIs, NoticeIs, LoadingIs, RowsAre, Rank!Ranking, Rank!Row
  <2> QED
    BY <2>2, <2>3 DEF RankInv
<1>9. ASSUME NEW i \in Rank!Loads, Rank!Serve(i) PROVE RankInv'
  <2>1. /\ i \in Rank!UnderWay /\ ranked[loads[i].paper] \in Nat
        /\ loads' = [loads EXCEPT ![i].at = "served", ![i].count = ranked[loads[i].paper]]
        /\ UNCHANGED <<scored, ranked, order, ranking, notice, ordering, raced>>
    BY <1>0, <1>9 DEF RankInv, RankTypes, LoadsAre, Rank!Serve, Rank!UnderWay
  <2>2. /\ loads' \in [Rank!Loads -> [at : {"none", "asked", "served", "done", "failed"}, paper : Exams \cup {None}, count : Nat]]
        /\ Rank!Made' = Rank!Made /\ Rank!UnderWay' = Rank!UnderWay
        /\ LoadsNumbered' /\ LoadsAre' /\ OneLoad'
    BY <1>0, <2>1, LoadMoves
  <2>3. NewestLoad'
    BY <2>1, <2>2 DEF NewestLoad
  <2>4. RankTypes' /\ OrderIs' /\ NoticeIs' /\ LoadingIs' /\ RowsAre'
    BY <1>0, <1>1, <2>1, <2>2 DEF RankInv, RankTypes, OrderIs, NoticeIs, LoadingIs, RowsAre, Rank!Ranking, Rank!Row
  <2> QED
    BY <2>2, <2>3, <2>4 DEF RankInv
<1>10. ASSUME NEW i \in Rank!Loads, Rank!Loaded(i) \/ Rank!LoadFails(i) PROVE RankInv'
  <2>1. i \in Rank!UnderWay
    BY <1>10 DEF Rank!Loaded, Rank!LoadFails, Rank!UnderWay
  <2> QED
    BY <1>0, <1>10, <2>1, LoadEnds
<1> QED
  BY <1>0, <1>3, <1>4, <1>5, <1>6, <1>7, <1>8, <1>9, <1>10 DEF Rank!Next

LEMMA EmptyRanking == Rank!Ranking(0) = <<>>
  BY DEF Rank!Ranking, Rank!Row

\* Rankings loaded one after the other end with the last one's rows.
LEMMA LastLoadShown == RankInv => Rank!LastLoadIsShown
<1> SUFFICES ASSUME RankInv PROVE Rank!LastLoadIsShown
  OBVIOUS
<1>1. (ordering <=> order.at # "none") /\ (order.at = "loading" => Rank!UnderWay # {})
  BY DEF RankInv, OrderIs, LoadingIs
<1>2. ASSUME ~raced, Rank!UnderWay = {}, Rank!Made # {}
      PROVE  LET last == loads[Cardinality(Rank!Made)]
             IN  last.at = "done" => ranking = [paper |-> last.paper, list |-> Rank!Ranking(last.count)]
  <2>1. PICK n \in 0..MaxLoads : Rank!Made = 1..n
    BY DEF RankInv, LoadsNumbered
  <2>2. n \in Nat /\ n >= 1 /\ n \in Rank!Made
    BY <1>2, <2>1, RankingAssumption
  <2>3. Cardinality(Rank!Made) = n
    BY <2>1, <2>2, FS_Interval
  <2> QED
    BY <1>2, <2>1, <2>2, <2>3 DEF RankInv, NewestLoad
<1>3. \A S : Rank!Cardinality(S) = Cardinality(S)
  BY Zenon DEF Rank!Cardinality, Cardinality, Rank!IsFiniteSet, IsFiniteSet
<1> QED
  BY <1>1, <1>2, <1>3 DEF Rank!LastLoadIsShown

\* A ranking that is seen, or said to be published, has all its rows.
LEMMA SeenFinal == RankInv => Rank!SeenIsFinal
<1> SUFFICES ASSUME RankInv PROVE Rank!SeenIsFinal
  OBVIOUS
<1>1. ASSUME Rank!Table = "ranking" PROVE ranking.list = Rank!Ranking(ranked[ranking.paper])
  <2>1. ranking # None /\ ranking.list # <<>>
    BY <1>1 DEF Rank!Table
  <2>2. PICK e \in Exams, n \in Nat : ranking = [paper |-> e, list |-> Rank!Ranking(n)] /\ (n # 0 => n = ranked[e])
    BY <2>1 DEF RankInv, RowsAre
  <2> QED
    BY <2>1, <2>2, EmptyRanking
<1> QED
  BY <1>1 DEF Rank!SeenIsFinal, RankInv, NoticeIs

-----------------------------------------------------------------------------
(* The list of what is stored                                              *)

LEMMA StoreCardinality == \A S : Store!Cardinality(S) = Cardinality(S)
  BY Zenon DEF Store!Cardinality, Cardinality, Store!IsFiniteSet, IsFiniteSet

\* Rows whose times tell them apart.
Timed(S) ==
  /\ IsFiniteSet(S) /\ \A o \in S : o.at \in Nat
  /\ \A o, p \in S : o.at = p.at => o = p

\* Times counted backwards from an instant.
Back(S, c) == {c - o.at : o \in S}

LEMMA BackSize ==
  ASSUME NEW S, Timed(S), NEW c \in Nat, \A o \in S : o.at <= c
  PROVE  /\ IsFiniteSet(Back(S, c)) /\ Back(S, c) \subseteq Nat
         /\ Cardinality(Back(S, c)) = Cardinality(S)
<1> DEFINE f == [o \in S |-> c - o.at]
<1>1. f \in Bijection(S, Back(S, c))
  <2>1. \A o, p \in S : c - o.at = c - p.at => o = p
    <3> TAKE o, p \in S
    <3>1. o.at \in Nat /\ p.at \in Nat
      BY DEF Timed
    <3> QED
      BY <3>1 DEF Timed
  <2>2. f \in [S -> Back(S, c)] /\ \A t \in Back(S, c) : \E o \in S : f[o] = t
    BY DEF Back
  <2>3. IsInjective(f)
    BY <2>1 DEF IsInjective
  <2> QED
    BY <2>2, <2>3 DEF Bijection, Injection, Surjection
<1>2. \A o \in S : c - o.at \in Nat
  BY DEF Timed
<1> QED
  BY <1>1, <1>2, FS_Bijection DEF Timed, ExistsBijection, Back

\* take: n gives n rows, or all when there are not so many: the newest n are
\* the oldest n with the times counted backwards.
LEMMA NewestSize ==
  ASSUME NEW S, Timed(S), NEW c \in Nat, \A o \in S : o.at <= c
  PROVE  /\ Store!Newest(S) \subseteq S /\ Timed(Store!Newest(S))
         /\ Cardinality(Store!Newest(S)) <= Take
         /\ Cardinality(Store!Newest(S)) = Take \/ Store!Newest(S) = S
<1> DEFINE N == Store!Newest(S)
           T == Back(S, c)
<1>1. N = {o \in S : Cardinality(Store!Newer(S, o.at)) < Take}
  BY StoreCardinality DEF Store!Newest
<1>2. IsFiniteSet(T) /\ T \subseteq Nat
  BY BackSize
<1>3. ASSUME NEW R, R \subseteq S PROVE Timed(R) /\ Cardinality(Back(R, c)) = Cardinality(R)
  <2>1. Timed(R) /\ \A o \in R : o.at <= c
    <3>1. IsFiniteSet(R)
      BY <1>3, FS_Subset DEF Timed
    <3> QED
      BY <1>3, <3>1 DEF Timed
  <2> QED
    BY <2>1, BackSize
<1>4. ASSUME NEW o \in S PROVE {t \in T : t < c - o.at} = Back(Store!Newer(S, o.at), c)
  <2>1. \A p \in S : p.at \in Nat /\ p.at <= c
    BY DEF Timed
  <2>2. \A p \in S : c - p.at < c - o.at <=> p.at > o.at
    BY <2>1
  <2> QED
    BY <2>2 DEF Back, Store!Newer
<1>5. Draft!Oldest(T, Take) = Back(N, c)
  <2>1. Draft!Oldest(T, Take) = {t \in T : Cardinality({u \in T : u < t}) < Take}
    BY SameCardinality DEF Draft!Oldest
  <2>2. ASSUME NEW o \in S PROVE Cardinality({t \in T : t < c - o.at}) = Cardinality(Store!Newer(S, o.at))
    <3>1. Store!Newer(S, o.at) \subseteq S
      BY DEF Store!Newer
    <3> QED
      BY <1>3, <1>4, <3>1
  <2>3. \A t : t \in Draft!Oldest(T, Take) <=> \E o \in S : t = c - o.at /\ Cardinality({u \in T : u < t}) < Take
    BY <2>1 DEF Back
  <2>4. \A t : t \in Back(N, c) <=> \E o \in S : t = c - o.at /\ Cardinality(Store!Newer(S, o.at)) < Take
    BY <1>1 DEF Back
  <2> HIDE DEF T, N
  <2> QED
    BY <2>2, <2>3, <2>4
<1>6. /\ Cardinality(Draft!Oldest(T, Take)) <= Take
      /\ Cardinality(Draft!Oldest(T, Take)) = Take \/ Draft!Oldest(T, Take) = T
  BY <1>2, StorageAssumption, OldestSize
<1>7. N \subseteq S
  BY <1>1
<1>8. Cardinality(Back(N, c)) = Cardinality(N) /\ Timed(N)
  BY <1>3, <1>7
<1>9. ASSUME Back(N, c) = T PROVE N = S
  <2>1. \A o \in S : \E p \in N : c - o.at = c - p.at
    BY <1>9 DEF Back
  <2>2. \A o, p \in S : c - o.at = c - p.at => o = p
    <3> TAKE o, p \in S
    <3>1. o.at \in Nat /\ p.at \in Nat
      BY DEF Timed
    <3> QED
      BY <3>1 DEF Timed
  <2> HIDE DEF N
  <2> QED
    BY <1>7, <2>1, <2>2
<1> HIDE DEF N, T
<1> QED
  BY <1>5, <1>6, <1>7, <1>8, <1>9 DEF N

\* Whatever the cut leaves out, as many as it keeps are newer.
LEMMA NewestKeeps ==
  ASSUME NEW S, Timed(S), NEW c \in Nat, \A o \in S : o.at <= c, NEW t \in Nat,
         Cardinality(Store!Newer(S, t)) >= Take
  PROVE  Cardinality(Store!Newer(Store!Newest(S), t)) >= Take
<1> DEFINE R == Store!Newer(S, t)
<1>1. R \subseteq S /\ Timed(R) /\ \A o \in R : o.at <= c
  <2>1. R \subseteq S
    BY DEF Store!Newer
  <2>2. IsFiniteSet(R)
    BY <2>1, FS_Subset DEF Timed
  <2> HIDE DEF R
  <2> QED
    BY <2>1, <2>2 DEF Timed
<1>2. /\ Store!Newest(R) \subseteq R /\ IsFiniteSet(Store!Newest(R))
      /\ Cardinality(Store!Newest(R)) >= Take
  <2>1. /\ Store!Newest(R) \subseteq R /\ Timed(Store!Newest(R))
        /\ Cardinality(Store!Newest(R)) = Take \/ Store!Newest(R) = R
    BY <1>1, NewestSize
  <2>2. Cardinality(R) >= Take
    OBVIOUS
  <2> HIDE DEF R
  <2> QED
    BY <2>1, <2>2, StorageAssumption DEF Timed
<1>3. \A o \in R : Store!Newer(R, o.at) = Store!Newer(S, o.at)
  <2> TAKE o \in R
  <2>1. \A p \in S : p.at \in Nat
    BY DEF Timed
  <2> QED
    BY <1>1, <2>1 DEF Store!Newer
<1>4. Store!Newest(R) \subseteq Store!Newer(Store!Newest(S), t)
  <2> SUFFICES ASSUME NEW o \in Store!Newest(R) PROVE o \in Store!Newest(S) /\ o.at > t
    BY DEF Store!Newer
  <2>1. o \in R /\ Store!Cardinality(Store!Newer(R, o.at)) < Take
    BY <1>2 DEF Store!Newest
  <2> QED
    BY <1>1, <1>3, <2>1 DEF Store!Newest, Store!Newer
<1>5. IsFiniteSet(Store!Newer(Store!Newest(S), t))
  <2>1. Store!Newer(Store!Newest(S), t) \subseteq S
    BY DEF Store!Newer, Store!Newest
  <2> QED
    BY <2>1, FS_Subset DEF Timed
<1>6. Cardinality(Store!Newest(R)) <= Cardinality(Store!Newer(Store!Newest(S), t))
  BY <1>4, <1>5, FS_Subset
<1>7. Cardinality(Store!Newest(R)) \in Nat /\ Cardinality(Store!Newer(Store!Newest(S), t)) \in Nat
  BY <1>2, <1>5, FS_CardinalityType
<1> QED
  BY <1>2, <1>6, <1>7, StorageAssumption

\* What is asked of a record as it is listed.
RowOf(o) ==
  /\ o \in [root : Records, at : Nat] /\ o.at # 0 /\ o.at <= updatedAt[o.root]
  /\ \A y \in Records : updatedAt[y] = o.at => y = o.root

\* A list of records of R that leaves out none for something older.
LeavesNoneOut(S, R) ==
  /\ IsFiniteSet(S) /\ \A o \in S : RowOf(o)
  /\ \A x \in R : updatedAt[x] \in 1..opened =>
       Store!Object(x) \in S \/ Cardinality(Store!Newer(S, updatedAt[x])) >= Take

StoreTypes ==
  /\ uploaded \subseteq Records /\ clock \in Nat /\ updatedAt \in [Records -> Nat]
  /\ opened \in Int /\ opened <= clock
  /\ reads = [k \in Store!ObjectKinds |-> reads[k]]
TimesDiffer ==
  /\ \A x \in Records : updatedAt[x] <= clock
  /\ \A x, y \in Records : updatedAt[x] = updatedAt[y] /\ updatedAt[x] # 0 => x = y
NotAsked == opened = -1 => objects = None /\ \A k \in Store!ObjectKinds : reads[k] = None
ReadInv ==
  /\ \A k \in Store!ObjectKinds : reads[k] # None => LeavesNoneOut(reads[k], {x \in Records : KindOf[x] = k})
  /\ \A k, l \in Store!ObjectKinds : reads[k] # None /\ reads[l] # None =>
       \A o \in reads[k], p \in reads[l] : o.at = p.at => o = p
ListInv == objects # None => LeavesNoneOut(objects, Records) /\ Cardinality(objects) <= Take
ProofInv ==
  /\ proofs \in [Records -> Store!States]
  /\ checked \in [Records -> {"none", "pending", "valid", "invalid", "error"}]
  /\ \A x \in Records :
       /\ checked[x] = "none" <=> proofs[x] = "none"
       /\ checked[x] # "none" => updatedAt[x] # 0
       /\ checked[x] = "pending" => proofs[x] \in {"asked", "owned", "valid", "invalid"}
       /\ checked[x] \in {"valid", "invalid"} => proofs[x] = checked[x]
       /\ checked[x] = "error" => proofs[x] = "lost"
       /\ proofs[x] = "valid" => x \in uploaded
ManualInv ==
  /\ query \in [root : Records \cup {None}, at : Store!States]
  /\ manual \in [busy : BOOLEAN, error : BOOLEAN, root : Records \cup {None}, valid : BOOLEAN]
  /\ manual.busy <=> query.at # "none"
  /\ query.at # "none" => query.root \in Records
  /\ query.at \in {"owned", "valid", "invalid"} => updatedAt[query.root] # 0
  /\ query.at = "valid" => query.root \in uploaded
  /\ manual.root # None => updatedAt[manual.root] # 0
  /\ manual.valid => manual.root \in uploaded
StoreInv == StoreTypes /\ TimesDiffer /\ NotAsked /\ ReadInv /\ ListInv /\ ProofInv /\ ManualInv

\* The image of a finite set.
LEMMA Picked ==
  ASSUME NEW S, IsFiniteSet(S), NEW f, DOMAIN f = S
  PROVE  IsFiniteSet({f[x] : x \in S})
<1> DEFINE T == {f[x] : x \in S}
           g == [x \in S |-> f[x]]
<1>1. g \in Surjection(S, T)
  BY DEF Surjection
<1> HIDE DEF g, T
<1>2. IsFiniteSet(T)
  BY <1>1, FS_Surjection
<1> QED
  BY <1>2 DEF T

LEMMA StoreInit == Init => StoreInv
<1> SUFFICES ASSUME Init PROVE StoreInv
  OBVIOUS
<1>1. /\ uploaded = {} /\ updatedAt = [x \in Records |-> 0] /\ clock = 0
      /\ opened = -1 /\ reads = [k \in Store!ObjectKinds |-> None] /\ objects = None
      /\ proofs = [x \in Records |-> "none"] /\ checked = [x \in Records |-> "none"]
      /\ query = Store!NoRequest /\ manual = Store!Nothing
  BY DEF Init, Store!Init
<1>2. StoreTypes /\ TimesDiffer /\ NotAsked
  BY <1>1 DEF StoreTypes, TimesDiffer, NotAsked
<1>3. ReadInv /\ ListInv
  BY <1>1 DEF ReadInv, ListInv
<1>4. ProofInv /\ ManualInv
  BY <1>1, StorageAssumption DEF ProofInv, ManualInv, Store!NoRequest, Store!Nothing, Store!States
<1> QED
  BY <1>2, <1>3, <1>4 DEF StoreInv

\* The rows of a kind tell themselves apart, and their cut leaves out none for
\* something older.
LEMMA CutCovers ==
  ASSUME StoreTypes, TimesDiffer, NEW S, NEW R, Timed(S), \A o \in S : RowOf(o), R \subseteq Records,
         \A x \in R : updatedAt[x] \in 1..opened =>
           Store!Object(x) \in S \/ Cardinality(Store!Newer(S, updatedAt[x])) >= Take
  PROVE  /\ LeavesNoneOut(Store!Newest(S), R) /\ Store!Newest(S) \subseteq S
         /\ Cardinality(Store!Newest(S)) <= Take
<1>1. \A o \in S : o.at \in Nat /\ o.at <= clock
  <2> TAKE o \in S
  <2>1. o.at \in Nat /\ o.root \in Records /\ o.at <= updatedAt[o.root]
    BY DEF RowOf
  <2> QED
    BY <2>1 DEF StoreTypes, TimesDiffer
<1>2. clock \in Nat
  BY DEF StoreTypes
<1>3. /\ Store!Newest(S) \subseteq S /\ Timed(Store!Newest(S))
      /\ Cardinality(Store!Newest(S)) <= Take
  BY <1>1, <1>2, NewestSize
<1>4. ASSUME NEW x \in R, updatedAt[x] \in 1..opened
      PROVE  Store!Object(x) \in Store!Newest(S) \/ Cardinality(Store!Newer(Store!Newest(S), updatedAt[x])) >= Take
  <2> DEFINE t == updatedAt[x]
  <2>1. t \in Nat
    BY DEF StoreTypes
  <2>2. CASE Cardinality(Store!Newer(S, t)) >= Take
    BY <1>1, <1>2, <2>1, <2>2, NewestKeeps
  <2>3. CASE Store!Object(x) \in S /\ ~(Cardinality(Store!Newer(S, t)) >= Take)
    <3>1. Store!Object(x).at = t
      BY DEF Store!Object
    <3>2. Cardinality(Store!Newer(S, t)) \in Nat
      <4>1. Store!Newer(S, t) \subseteq S /\ IsFiniteSet(S)
        BY DEF Store!Newer, Timed
      <4> QED
        BY <4>1, FS_Subset, FS_CardinalityType
    <3>3. Cardinality(Store!Newer(S, t)) < Take
      BY <2>3, <3>2, StorageAssumption
    <3>4. Store!Cardinality(Store!Newer(S, Store!Object(x).at)) < Take
      BY <3>1, <3>3, StoreCardinality
    <3> QED
      BY <2>3, <3>4 DEF Store!Newest
  <2> QED
    BY <1>4, <2>2, <2>3
<1> QED
  BY <1>3, <1>4 DEF LeavesNoneOut, Timed

\* What was listed stays listed when a row is written: the row's new time is
\* later than the list was asked for.
LEMMA WriteCovers ==
  ASSUME StoreTypes, TimesDiffer, NEW x \in Records, Store!Write(x), NEW S, NEW R, R \subseteq Records, LeavesNoneOut(S, R)
  PROVE  LeavesNoneOut(S, R)'
<1>1. /\ clock' = clock + 1 /\ updatedAt' = [updatedAt EXCEPT ![x] = clock + 1] /\ opened' = opened
      /\ updatedAt \in [Records -> Nat] /\ clock \in Nat /\ opened \in Int /\ opened <= clock
      /\ \A y \in Records : updatedAt[y] <= clock
  BY DEF Store!Write, Store!list, StoreTypes, TimesDiffer
<1>2. \A y \in Records : updatedAt'[y] = IF y = x THEN clock + 1 ELSE updatedAt[y]
  BY <1>1
<1>3. ASSUME NEW o \in S PROVE RowOf(o)'
  <2>1. RowOf(o) /\ o.root \in Records /\ o.at \in Nat
    BY DEF LeavesNoneOut, RowOf
  <2>2. updatedAt[o.root] \in Nat /\ updatedAt[o.root] <= clock
    BY <1>1, <2>1
  <2>3. o.at <= updatedAt'[o.root]
    BY <1>1, <1>2, <2>1, <2>2 DEF RowOf
  <2>4. \A y \in Records : updatedAt'[y] = o.at => y = o.root
    BY <1>1, <1>2, <2>1, <2>2 DEF RowOf
  <2> QED
    BY <2>1, <2>3, <2>4 DEF RowOf
<1>4. ASSUME NEW y \in R, updatedAt'[y] \in 1..opened'
      PROVE  updatedAt'[y] = updatedAt[y] /\ Store!Object(y)' = Store!Object(y)
  <2>1. y # x
    BY <1>1, <1>2, <1>4
  <2> QED
    BY <1>2, <2>1 DEF Store!Object
<1>5. \A t : Store!Newer(S, t)' = Store!Newer(S, t)
  BY DEF Store!Newer
<1>6. ASSUME NEW y \in R, updatedAt'[y] \in 1..opened'
      PROVE  Store!Object(y)' \in S \/ Cardinality(Store!Newer(S, updatedAt'[y])) >= Take
  BY <1>1, <1>4, <1>6 DEF LeavesNoneOut
<1> QED
  BY <1>3, <1>6 DEF LeavesNoneOut, Store!Newer

\* What there is of a kind, before the cut.
LEMMA ObjectsAre ==
  ASSUME StoreTypes, TimesDiffer, NEW k
  PROVE  /\ Timed(Store!Objects(k)) /\ \A o \in Store!Objects(k) : RowOf(o) /\ o = Store!Object(o.root)
         /\ \A x \in Records : KindOf[x] = k /\ updatedAt[x] # 0 => Store!Object(x) \in Store!Objects(k)
<1> DEFINE X == {y \in Records : KindOf[y] = k /\ updatedAt[y] # 0}
<1>1. Store!Objects(k) = {Store!Object(x) : x \in X}
  BY DEF Store!Objects
<1>2. X \subseteq Records /\ IsFiniteSet(X)
  <2>1. X \subseteq Records
    OBVIOUS
  <2> QED
    BY <2>1, FS_Subset, StorageAssumption
<1>3. IsFiniteSet(Store!Objects(k))
  <2> DEFINE f == [x \in X |-> Store!Object(x)]
  <2>1. Store!Objects(k) = {f[x] : x \in X}
    BY <1>1
  <2>2. DOMAIN f = X
    OBVIOUS
  <2> HIDE DEF f, X
  <2> QED
    BY <1>2, <2>1, <2>2, Picked
<1>4. \A x \in X : /\ Store!Object(x) = [root |-> x, at |-> updatedAt[x]]
                   /\ updatedAt[x] \in Nat /\ updatedAt[x] # 0 /\ x \in Records
  BY DEF Store!Object, StoreTypes
<1> HIDE DEF X
<1>5. \A x \in X : RowOf(Store!Object(x)) /\ Store!Object(x) = Store!Object(Store!Object(x).root)
  BY <1>4 DEF RowOf, TimesDiffer
<1>6. \A x, y \in X : Store!Object(x).at = Store!Object(y).at => x = y
  BY <1>4 DEF TimesDiffer
<1> QED
  BY <1>1, <1>3, <1>4, <1>5, <1>6 DEF Timed, X

\* The three kinds together.
LEMMA TogetherCover ==
  ASSUME StoreInv, \A k \in Store!ObjectKinds : reads[k] # None, NEW S, S = UNION {reads[k] : k \in Store!ObjectKinds}
  PROVE  /\ Timed(S) /\ \A o \in S : RowOf(o)
         /\ \A x \in Records : updatedAt[x] \in 1..opened =>
              Store!Object(x) \in S \/ Cardinality(Store!Newer(S, updatedAt[x])) >= Take
<1>0. DOMAIN reads = Store!ObjectKinds
  BY DEF StoreInv, StoreTypes
<1>1. \A k \in Store!ObjectKinds : LeavesNoneOut(reads[k], {x \in Records : KindOf[x] = k}) /\ reads[k] \subseteq S
  BY DEF StoreInv, ReadInv
<1>2. \A o \in S : \E k \in Store!ObjectKinds : o \in reads[k]
  OBVIOUS
<1>3. IsFiniteSet(S)
  <2>1. IsFiniteSet(Store!ObjectKinds)
    <3>1. IsFiniteSet({"Question"}) /\ IsFiniteSet({"Paper"}) /\ IsFiniteSet({"StudentExamSession"})
      BY FS_Singleton
    <3>2. Store!ObjectKinds = ({"Question"} \cup {"Paper"}) \cup {"StudentExamSession"}
      BY DEF Store!ObjectKinds
    <3> QED
      BY <3>1, <3>2, FS_Union
  <2>2. IsFiniteSet({reads[k] : k \in Store!ObjectKinds})
    BY <1>0, <2>1, Picked
  <2>3. \A T \in {reads[k] : k \in Store!ObjectKinds} : IsFiniteSet(T)
    BY <1>1 DEF LeavesNoneOut
  <2> QED
    BY <2>2, <2>3, FS_UNION
<1>4. \A o \in S : RowOf(o)
  BY <1>1, <1>2 DEF LeavesNoneOut
<1>5. Timed(S)
  <2>1. \A o \in S : o.at \in Nat
    BY <1>4 DEF RowOf
  <2>2. \A o, p \in S : o.at = p.at => o = p
    BY <1>2 DEF StoreInv, ReadInv
  <2> QED
    BY <1>3, <2>1, <2>2 DEF Timed
<1>6. ASSUME NEW x \in Records, updatedAt[x] \in 1..opened
      PROVE  Store!Object(x) \in S \/ Cardinality(Store!Newer(S, updatedAt[x])) >= Take
  <2> DEFINE k == KindOf[x]
             t == updatedAt[x]
  <2>1. k \in Store!ObjectKinds
    BY StorageAssumption
  <2>2. Store!Object(x) \in reads[k] \/ Cardinality(Store!Newer(reads[k], t)) >= Take
    BY <1>1, <1>6, <2>1 DEF LeavesNoneOut
  <2>3. Store!Newer(reads[k], t) \subseteq Store!Newer(S, t) /\ Store!Newer(S, t) \subseteq S
    BY <1>1, <2>1 DEF Store!Newer
  <2>4. IsFiniteSet(Store!Newer(S, t)) /\ IsFiniteSet(Store!Newer(reads[k], t))
    BY <1>3, <2>3, FS_Subset
  <2>5. /\ Cardinality(Store!Newer(reads[k], t)) <= Cardinality(Store!Newer(S, t))
        /\ Cardinality(Store!Newer(reads[k], t)) \in Nat /\ Cardinality(Store!Newer(S, t)) \in Nat
    BY <2>3, <2>4, FS_Subset, FS_CardinalityType
  <2> HIDE DEF k, t
  <2>6. Store!Object(x) \in S \/ Cardinality(Store!Newer(S, t)) >= Take
    BY <1>1, <2>1, <2>2, <2>5, StorageAssumption
  <2> QED
    BY <2>6 DEF t
<1> QED
  BY <1>4, <1>5, <1>6

LEMMA StoreStep ==
  ASSUME StoreInv, Store!Next
  PROVE  StoreInv'
<1> USE DEF Store!server, Store!list, Store!table, Store!form
<1>1. StoreTypes /\ TimesDiffer /\ NotAsked /\ ReadInv /\ ListInv /\ ProofInv /\ ManualInv
  BY DEF StoreInv
<1>2. ASSUME UNCHANGED <<updatedAt, clock, opened, reads, objects>>, uploaded' \subseteq Records, ProofInv', ManualInv' PROVE StoreInv'
  <2>1. StoreTypes' /\ TimesDiffer' /\ NotAsked'
    BY <1>1, <1>2 DEF StoreTypes, TimesDiffer, NotAsked
  <2>2. ReadInv' /\ ListInv'
    BY <1>1, <1>2 DEF ReadInv, ListInv, LeavesNoneOut, RowOf, Store!Object, Store!Newer
  <2> QED
    BY <1>2, <2>1, <2>2 DEF StoreInv
<1>3. ASSUME UNCHANGED <<uploaded, updatedAt, clock, proofs, checked, query, manual>>,
             StoreTypes', NotAsked', ReadInv', ListInv'
      PROVE  StoreInv'
  <2>1. TimesDiffer' /\ ProofInv' /\ ManualInv'
    BY <1>1, <1>3 DEF TimesDiffer, ProofInv, ManualInv
  <2> QED
    BY <1>3, <2>1 DEF StoreInv
<1>4. ASSUME NEW x \in Records, Store!Upload(x) PROVE StoreInv'
  <2>1. /\ uploaded' = uploaded \cup {x}
        /\ UNCHANGED <<updatedAt, clock, opened, reads, objects, proofs, checked, query, manual>>
    BY <1>4 DEF Store!Upload
  <2>2. ProofInv' /\ ManualInv' /\ uploaded' \subseteq Records
    BY <1>1, <2>1 DEF ProofInv, ManualInv, StoreTypes
  <2> QED
    BY <1>2, <2>1, <2>2
<1>5. ASSUME NEW x \in Records, Store!Write(x) PROVE StoreInv'
  <2>1. /\ clock' = clock + 1 /\ updatedAt' = [updatedAt EXCEPT ![x] = clock + 1]
        /\ UNCHANGED <<uploaded, opened, reads, objects, proofs, checked, query, manual>>
        /\ updatedAt \in [Records -> Nat] /\ clock \in Nat
    BY <1>1, <1>5 DEF Store!Write, StoreTypes
  <2>2. \A y \in Records : updatedAt'[y] = IF y = x THEN clock + 1 ELSE updatedAt[y]
    BY <2>1
  <2>3. StoreTypes' /\ TimesDiffer' /\ NotAsked'
    <3>1. StoreTypes'
      BY <1>1, <2>1 DEF StoreTypes
    <3>2. TimesDiffer'
      BY <1>1, <2>1, <2>2 DEF TimesDiffer
    <3> QED
      BY <1>1, <2>1, <3>1, <3>2 DEF NotAsked
  <2>4. ReadInv'
    <3>1. ASSUME NEW k \in Store!ObjectKinds, reads[k] # None
          PROVE  LeavesNoneOut(reads[k], {y \in Records : KindOf[y] = k})'
      <4> DEFINE R == {y \in Records : KindOf[y] = k}
      <4>1. R \subseteq Records /\ LeavesNoneOut(reads[k], R)
        BY <1>1, <3>1 DEF ReadInv
      <4> SUFFICES ASSUME NEW S, S = reads[k] PROVE LeavesNoneOut(S, R)'
        BY <2>1 DEF LeavesNoneOut, RowOf
      <4> HIDE DEF R
      <4> QED
        BY <1>1, <1>5, <4>1, WriteCovers
    <3> QED
      BY <1>1, <2>1, <3>1 DEF ReadInv
  <2>5. ListInv'
    <3>1. ASSUME objects # None PROVE LeavesNoneOut(objects, Records)'
      <4>1. LeavesNoneOut(objects, Records)
        BY <1>1, <3>1 DEF ListInv
      <4> SUFFICES ASSUME NEW S, S = objects PROVE LeavesNoneOut(S, Records)'
        BY <2>1 DEF LeavesNoneOut, RowOf
      <4> QED
        BY <1>1, <1>5, <4>1, WriteCovers
    <3> QED
      BY <1>1, <2>1, <3>1 DEF ListInv
  <2>6. ProofInv' /\ ManualInv'
    <3>1. \A y \in Records : updatedAt[y] # 0 => updatedAt'[y] # 0
      BY <2>1, <2>2
    <3>2. ProofInv'
      BY <1>1, <2>1, <3>1 DEF ProofInv
    <3>3. manual.root # None => manual.root \in Records
      BY <1>1 DEF ManualInv
    <3> QED
      BY <1>1, <2>1, <3>1, <3>2, <3>3 DEF ManualInv
  <2> QED
    BY <2>3, <2>4, <2>5, <2>6 DEF StoreInv
<1>6. CASE Store!AskList
  <2>1. opened = -1 /\ opened' = clock /\ UNCHANGED <<uploaded, updatedAt, clock, reads, objects, proofs, checked, query, manual>>
    BY <1>6 DEF Store!AskList
  <2>2. StoreTypes' /\ NotAsked' /\ ReadInv' /\ ListInv'
    BY <1>1, <2>1 DEF StoreTypes, NotAsked, ReadInv, ListInv
  <2> QED
    BY <1>3, <2>1, <2>2
<1>7. ASSUME NEW k \in Store!ObjectKinds, Store!ReadKind(k) PROVE StoreInv'
  <2>1. /\ opened # -1 /\ reads' = [reads EXCEPT ![k] = Store!Newest(Store!Objects(k))]
        /\ UNCHANGED <<uploaded, updatedAt, clock, opened, objects, proofs, checked, query, manual>>
    BY <1>7 DEF Store!ReadKind
  <2> DEFINE new == Store!Newest(Store!Objects(k))
  <2>2. LeavesNoneOut(new, {x \in Records : KindOf[x] = k}) /\ new \subseteq Store!Objects(k)
    <3> DEFINE R == {x \in Records : KindOf[x] = k}
    <3>1. R \subseteq Records
      OBVIOUS
    <3>2. /\ Timed(Store!Objects(k)) /\ \A o \in Store!Objects(k) : RowOf(o)
          /\ \A x \in R : updatedAt[x] \in 1..opened => Store!Object(x) \in Store!Objects(k)
      BY <1>1, ObjectsAre
    <3> HIDE DEF R
    <3>3. LeavesNoneOut(new, R) /\ new \subseteq Store!Objects(k)
      BY <1>1, <3>1, <3>2, CutCovers
    <3> QED
      BY <3>3 DEF R
  <2>3. \A o \in new : o = Store!Object(o.root) /\ o.root \in Records /\ o.at = updatedAt[o.root]
    BY <1>1, <2>2, ObjectsAre DEF RowOf, Store!Object
  <2> HIDE DEF new
  <2>4. \A l \in Store!ObjectKinds : reads'[l] = IF l = k THEN new ELSE reads[l]
    BY <1>1, <2>1 DEF StoreTypes, new
  <2>5. \A l \in Store!ObjectKinds : reads[l] # None => \A o \in reads[l], p \in new : o.at = p.at => o = p
    <3> SUFFICES ASSUME NEW l \in Store!ObjectKinds, reads[l] # None, NEW o \in reads[l], NEW p \in new, o.at = p.at
                 PROVE  o = p
      OBVIOUS
    <3>1. RowOf(o)
      BY <1>1 DEF ReadInv, LeavesNoneOut
    <3>2. p.root = o.root
      BY <2>3, <3>1 DEF RowOf
    <3> QED
      BY <2>3, <3>1, <3>2 DEF RowOf, Store!Object
  <2>6. \A o, p \in new : o.at = p.at => o = p
    <3> SUFFICES ASSUME NEW o \in new, NEW p \in new, o.at = p.at PROVE o = p
      OBVIOUS
    <3>1. o.root = p.root
      BY <1>1, <2>2, <2>3 DEF LeavesNoneOut, RowOf
    <3> QED
      BY <2>3, <3>1
  <2>7. ReadInv'
    <3>1. ASSUME NEW l \in Store!ObjectKinds, reads'[l] # None
          PROVE  LeavesNoneOut(reads'[l], {x \in Records : KindOf[x] = l})
      <4>1. CASE l = k
        BY <2>2, <2>4, <4>1
      <4>2. CASE l # k
        BY <1>1, <2>4, <3>1, <4>2 DEF ReadInv
      <4> QED
        BY <4>1, <4>2
    <3>2. ASSUME NEW l \in Store!ObjectKinds, NEW m \in Store!ObjectKinds, reads'[l] # None, reads'[m] # None,
                 NEW o \in reads'[l], NEW p \in reads'[m], o.at = p.at
          PROVE  o = p
      <4>1. CASE l = k /\ m = k
        BY <2>4, <2>6, <3>2, <4>1
      <4>2. CASE l = k /\ m # k
        BY <2>4, <2>5, <3>2, <4>2
      <4>3. CASE l # k /\ m = k
        BY <2>4, <2>5, <3>2, <4>3
      <4>4. CASE l # k /\ m # k
        BY <1>1, <2>4, <3>2, <4>4 DEF ReadInv
      <4> QED
        BY <4>1, <4>2, <4>3, <4>4
    <3>3. ASSUME NEW l \in Store!ObjectKinds, reads'[l] # None
          PROVE  LeavesNoneOut(reads[l], {x \in Records : KindOf[x] = l})'
      <4>1. PICK S : S = reads'[l]
        OBVIOUS
      <4>2. LeavesNoneOut(S, {x \in Records : KindOf[x] = l})
        BY <3>1, <3>3, <4>1
      <4> QED
        BY <2>1, <4>1, <4>2 DEF LeavesNoneOut, RowOf, Store!Object, Store!Newer
    <3> QED
      BY <3>2, <3>3 DEF ReadInv
  <2>8. StoreTypes' /\ NotAsked' /\ ListInv'
    <3>1. ListInv'
      BY <1>1, <2>1 DEF ListInv, LeavesNoneOut, RowOf, Store!Object, Store!Newer
    <3>2. NotAsked'
      BY <2>1 DEF NotAsked
    <3>3. StoreTypes'
      BY <1>1, <2>1 DEF StoreTypes
    <3> QED
      BY <3>1, <3>2, <3>3
  <2> QED
    BY <1>3, <2>1, <2>7, <2>8
<1>8. CASE Store!Listed
  <2> DEFINE all == UNION {reads[k] : k \in Store!ObjectKinds}
  <2>1. /\ \A k \in Store!ObjectKinds : reads[k] # None
        /\ objects' = Store!Newest(all)
        /\ UNCHANGED <<uploaded, updatedAt, clock, opened, reads, proofs, checked, query, manual>>
    BY <1>8 DEF Store!Listed
  <2>2. LeavesNoneOut(Store!Newest(all), Records) /\ Cardinality(Store!Newest(all)) <= Take
    <3>1. /\ Timed(all) /\ \A o \in all : RowOf(o)
          /\ \A x \in Records : updatedAt[x] \in 1..opened =>
               Store!Object(x) \in all \/ Cardinality(Store!Newer(all, updatedAt[x])) >= Take
      BY <2>1, TogetherCover
    <3> HIDE DEF all
    <3> QED
      BY <1>1, <3>1, CutCovers
  <2> HIDE DEF all
  <2>3. ListInv'
    BY <2>1, <2>2 DEF ListInv, LeavesNoneOut, RowOf, Store!Object, Store!Newer
  <2>4. StoreTypes' /\ ReadInv'
    BY <1>1, <2>1 DEF StoreTypes, ReadInv, LeavesNoneOut, RowOf, Store!Object, Store!Newer
  <2>5. NotAsked'
    <3>1. "Paper" \in Store!ObjectKinds
      BY DEF Store!ObjectKinds
    <3> QED
      BY <1>1, <2>1, <3>1 DEF NotAsked
  <2> QED
    BY <1>3, <2>1, <2>3, <2>4, <2>5
<1>9. ASSUME NEW x \in Records,
             Store!VerifyRoot(x) \/ Store!FindOwner(x) \/ Store!Download(x) \/ Store!Proved(x) \/ Store!ProofFails(x)
      PROVE  StoreInv'
  <2>1. UNCHANGED <<uploaded, updatedAt, clock, opened, reads, objects, query, manual>>
    BY <1>9 DEF Store!VerifyRoot, Store!FindOwner, Store!Download, Store!Proved, Store!ProofFails
  <2>2. ManualInv' /\ uploaded' \subseteq Records
    BY <1>1, <2>1 DEF ManualInv, StoreTypes
  <2>3. CASE Store!VerifyRoot(x)
    <3>1. updatedAt[x] # 0
      <4>1. objects # None /\ \E o \in objects : o.root = x
        BY <2>3 DEF Store!VerifyRoot, Store!Rows
      <4>2. PICK o \in objects : o.root = x
        BY <4>1
      <4>3. RowOf(o) /\ updatedAt[x] \in Nat
        BY <1>1, <4>1 DEF ListInv, LeavesNoneOut, StoreTypes
      <4> QED
        BY <4>2, <4>3 DEF RowOf
    <3>2. ProofInv'
      BY <1>1, <2>1, <2>3, <3>1 DEF ProofInv, Store!VerifyRoot, Store!Cell, Store!States
    <3> QED
      BY <1>2, <2>1, <2>2, <3>2
  <2>4. CASE Store!FindOwner(x)
    <3>1. ProofInv'
      BY <1>1, <2>1, <2>4 DEF ProofInv, Store!FindOwner, Store!Owner, Store!States
    <3> QED
      BY <1>2, <2>1, <2>2, <3>1
  <2>5. CASE Store!Download(x)
    <3>1. ProofInv'
      BY <1>1, <2>1, <2>5 DEF ProofInv, Store!Download, Store!Outcomes, Store!States
    <3> QED
      BY <1>2, <2>1, <2>2, <3>1
  <2>6. CASE Store!Proved(x)
    <3>1. ProofInv'
      BY <1>1, <2>1, <2>6 DEF ProofInv, Store!Proved
    <3> QED
      BY <1>2, <2>1, <2>2, <3>1
  <2>7. CASE Store!ProofFails(x)
    <3>1. ProofInv'
      BY <1>1, <2>1, <2>7 DEF ProofInv, Store!ProofFails, Store!States
    <3> QED
      BY <1>2, <2>1, <2>2, <3>1
  <2> QED
    BY <1>9, <2>3, <2>4, <2>5, <2>6, <2>7
<1>10. ASSUME (\E x \in Records : Store!VerifyManual(x)) \/ Store!FindManual \/ Store!DownloadManual
              \/ Store!ManualProved \/ Store!ManualFails
       PROVE  StoreInv'
  <2>1. UNCHANGED <<uploaded, updatedAt, clock, opened, reads, objects, proofs, checked>>
    BY <1>10 DEF Store!VerifyManual, Store!FindManual, Store!DownloadManual, Store!ManualProved, Store!ManualFails
  <2>2. ProofInv' /\ uploaded' \subseteq Records
    BY <1>1, <2>1 DEF ProofInv, StoreTypes
  <2>3. CASE \E x \in Records : Store!VerifyManual(x)
    <3>1. PICK x \in Records : query' = [root |-> x, at |-> "asked"] /\ manual' = [Store!Nothing EXCEPT !.busy = TRUE]
      BY <2>3 DEF Store!VerifyManual
    <3>2. query' \in [root : Records \cup {None}, at : Store!States]
      BY <3>1 DEF Store!States
    <3>3. manual' = [busy |-> TRUE, error |-> FALSE, root |-> None, valid |-> FALSE]
      BY <3>1 DEF Store!Nothing
    <3>4. /\ manual' \in [busy : BOOLEAN, error : BOOLEAN, root : Records \cup {None}, valid : BOOLEAN]
          /\ manual'.busy /\ ~manual'.valid /\ manual'.root = None
      BY <3>3
    <3>5. query'.at = "asked" /\ query'.root \in Records
      BY <3>1
    <3>6. ManualInv'
      BY <3>2, <3>4, <3>5 DEF ManualInv
    <3> QED
      BY <1>2, <2>1, <2>2, <3>6
  <2>4. CASE Store!FindManual
    <3>1. ManualInv'
      BY <1>1, <2>1, <2>4 DEF ManualInv, Store!FindManual, Store!Owner, Store!States
    <3> QED
      BY <1>2, <2>1, <2>2, <3>1
  <2>5. CASE Store!DownloadManual
    <3>1. ManualInv'
      BY <1>1, <2>1, <2>5 DEF ManualInv, Store!DownloadManual, Store!Outcomes, Store!States
    <3> QED
      BY <1>2, <2>1, <2>2, <3>1
  <2>6. CASE Store!ManualProved
    <3>1. ManualInv'
      BY <1>1, <2>1, <2>6 DEF ManualInv, Store!ManualProved, Store!Nothing, Store!NoRequest, Store!States
    <3> QED
      BY <1>2, <2>1, <2>2, <3>1
  <2>7. CASE Store!ManualFails
    <3>1. ManualInv'
      BY <1>1, <2>1, <2>7 DEF ManualInv, Store!ManualFails, Store!Nothing, Store!NoRequest, Store!States
    <3> QED
      BY <1>2, <2>1, <2>2, <3>1
  <2> QED
    BY <1>10, <2>3, <2>4, <2>5, <2>6, <2>7
<1> QED
  <2>1. ASSUME NEW x \in Records, Store!RecordRoot(x) \/ Store!Touch(x) PROVE StoreInv'
    BY <1>5, <2>1 DEF Store!RecordRoot, Store!Touch
  <2> QED
    BY <1>4, <1>6, <1>7, <1>8, <1>9, <1>10, <2>1, Zenon DEF Store!Next

\* Nothing older is listed in place of something newer.
LEMMA ListNewest == StoreInv => Store!ListIsNewest
<1> SUFFICES ASSUME StoreInv, objects # None PROVE Store!ListIsNewest
  BY DEF Store!ListIsNewest
<1>1. LeavesNoneOut(objects, Records) /\ Cardinality(objects) <= Take
  BY DEF StoreInv, ListInv
<1>2. Cardinality(objects) \in Nat
  BY <1>1, FS_CardinalityType DEF LeavesNoneOut
<1>3. ASSUME NEW x \in Records, updatedAt[x] \in 1..opened, x \notin Store!Rows
      PROVE  Cardinality(objects) = Take /\ \A o \in objects : o.at > updatedAt[x]
  <2> DEFINE N == Store!Newer(objects, updatedAt[x])
  <2>1. Store!Object(x) \notin objects
    BY <1>3 DEF Store!Rows, Store!Object
  <2>2. Cardinality(N) >= Take
    BY <1>1, <1>3, <2>1 DEF LeavesNoneOut
  <2>3. N \subseteq objects
    BY DEF Store!Newer
  <2>4. IsFiniteSet(N) /\ Cardinality(N) <= Cardinality(objects) /\ (Cardinality(objects) = Cardinality(N) => objects = N)
    BY <1>1, <2>3, FS_Subset DEF LeavesNoneOut
  <2>5. Cardinality(N) \in Nat
    BY <2>4, FS_CardinalityType
  <2> HIDE DEF N
  <2>6. Cardinality(objects) = Take /\ objects = N
    BY <1>1, <1>2, <2>2, <2>4, <2>5, StorageAssumption
  <2> QED
    BY <2>6 DEF N, Store!Newer
<1> QED
  BY <1>1, <1>3, StoreCardinality DEF Store!ListIsNewest

\* Each root keeps the answer to its own request.
LEMMA EachProofShown == StoreInv => Store!EachProofIsShown
  BY DEF StoreInv, ProofInv, ManualInv, Store!EachProofIsShown

\* What is shown as verified is stored, as the blob of a record.
LEMMA ProvedStored == StoreInv => Store!ProvedIsStored
<1> SUFFICES ASSUME StoreInv PROVE Store!ProvedIsStored
  OBVIOUS
<1>1. \A x \in Records : Store!Cell(x) = "Verified" => x \in uploaded /\ updatedAt[x] # 0
  BY DEF StoreInv, ProofInv, Store!Cell
<1>2. Store!Panel \in {"Verified", "Failed"} => manual.root # None
  BY DEF Store!Panel
<1>3. Store!Panel = "Verified" => manual.valid
  BY DEF Store!Panel
<1> QED
  BY <1>1, <1>2, <1>3 DEF StoreInv, ManualInv, Store!ProvedIsStored

-----------------------------------------------------------------------------
(* What several pages promise                                              *)

LEMMA RankKept == RankInv /\ [Next]_vars => RankInv'
<1> SUFFICES ASSUME RankInv, [Next]_vars PROVE RankInv'
  OBVIOUS
<1>1. Rank!Next \/ UNCHANGED rankVars
  BY DEF Next, vars
<1>2. CASE UNCHANGED rankVars
  <2>1. /\ Rank!Made' = Rank!Made /\ Rank!UnderWay' = Rank!UnderWay
    BY <1>2 DEF rankVars, Rank!Made, Rank!UnderWay
  <2>2. RankTypes' /\ OrderIs' /\ LoadsAre' /\ NoticeIs'
    BY <1>2 DEF rankVars, RankInv, RankTypes, OrderIs, LoadsAre, NoticeIs
  <2>3. LoadsNumbered' /\ LoadingIs' /\ OneLoad'
    BY <1>2, <2>1 DEF rankVars, RankInv, LoadsNumbered, LoadingIs, OneLoad
  <2>4. RowsAre' /\ NewestLoad'
    BY <1>2, <2>1 DEF rankVars, RankInv, RowsAre, NewestLoad, Rank!Ranking, Rank!Row
  <2> QED
    BY <2>2, <2>3, <2>4 DEF RankInv
<1> QED
  BY <1>1, <1>2, RankStep

LEMMA StoreKept == StoreInv /\ [Next]_vars => StoreInv'
<1> SUFFICES ASSUME StoreInv, [Next]_vars PROVE StoreInv'
  OBVIOUS
<1>1. Store!Next \/ UNCHANGED storeVars
  BY DEF Next, vars
<1>2. CASE UNCHANGED storeVars
  <2>1. StoreTypes' /\ TimesDiffer' /\ NotAsked' /\ ProofInv' /\ ManualInv'
    BY <1>2 DEF storeVars, StoreInv, StoreTypes, TimesDiffer, NotAsked, ProofInv, ManualInv
  <2>2. ReadInv' /\ ListInv'
    BY <1>2 DEF storeVars, StoreInv, ReadInv, ListInv, LeavesNoneOut, RowOf, Store!Object, Store!Newer
  <2> QED
    BY <2>1, <2>2 DEF StoreInv
<1> QED
  BY <1>1, <1>2, StoreStep

\* What an open live log shows, with what is on its way to it, is an unbroken
\* run of what was published since the page subscribed (live-logs.ts, hub.ts);
\* and the storage explorer lists nothing older in place of something newer,
\* however many records there are, though storage.service.ts reads the three
\* kinds one by one and cuts each before it merges them.
THEOREM FeedUnbroken == Spec => []FeedIsUnbroken
<1>1. FeedInv /\ StoreInv => FeedIsUnbroken
  BY FeedUnbrokenSince, ListNewest DEF FeedIsUnbroken
<1> QED
  BY FeedInit, FeedStep, StoreInit, StoreKept, <1>1, PTL DEF Spec

\* Lookups of reports, and loads of rankings, one after the other end with the
\* last one's answer, whatever else the pages do and the server goes on to do
\* (ComputeDashboard.tsx lookupByQuestion, lookupByReport; EvaluationRanking.tsx
\* loadRanking); each proof of a storage root stays with its root
\* (StorageExplorer.tsx verifyRoot).
THEOREM LastLookupShown == Spec => []LastLookupIsShown
<1>1. LookupInv /\ RankInv /\ StoreInv => LastLookupIsShown
  BY LastLookupOf, LastLoadShown, EachProofShown DEF LastLookupIsShown
<1> QED
  BY LookupInit, LookupStep, RankInit, RankKept, StoreInit, StoreKept, <1>1, PTL DEF Spec

\* "VERIFIED" is shown of a result that has all its proofs by a check that was
\* recorded, and of every evaluated result when each call was answered; a
\* storage root is "Verified" only when a record's blob is stored under it.
THEOREM VerdictRight == Spec => []VerdictIsRight
<1>1. VerdictInv /\ StoreInv => VerdictIsRight
  BY VerdictBacked, ProvedStored DEF VerdictIsRight
<1> QED
  BY VerdictInit, VerdictStep, StoreInit, StoreKept, <1>1, PTL DEF Spec

\* What the page says of a paper's progress is so: a step it marks as done has
\* its artefact, in the database and outside, and "Generating" has a call that
\* polls (PaperGeneration.tsx, over blueprint.service.ts and the pipeline); a
\* ranking that is seen, or said to be published, has all its rows
\* (EvaluationRanking.tsx, ranking.service.ts).
THEOREM ProgressSo == Spec => []ProgressIsSo
<1>1. PaperInv /\ RankInv => ProgressIsSo
  BY StepsBacked, SeenFinal DEF ProgressIsSo
<1> QED
  BY PaperInit, PaperStep, RankInit, RankKept, <1>1, PTL DEF Spec
=============================================================================
