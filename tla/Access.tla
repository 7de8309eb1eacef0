-------------------------------- MODULE Access --------------------------------
(***************************************************************************)
(* Signing in and out: the login page (Login.tsx), the session a browser   *)
(* keeps (auth-context.tsx, api.ts), the guard of every console            *)
(* (ProtectedRoute.tsx, App.tsx), the login service (auth.service.ts) and  *)
(* the middleware in front of every role's routes (auth.middleware.ts).    *)
(*                                                                         *)
(* The tabs of one browser share its localStorage, and each tab has a role *)
(* of its own in React's state.  A token is written as the number of the   *)
(* login that signed it, 0 for none.                                       *)
(***************************************************************************)
EXTENDS Integers

CONSTANTS
  Tabs,
  Roles,      \* the roles; one account for each, as the seed has it
  MaxLogins,  \* bound: how often Sign in is clicked
  Nobody      \* no role; an email without an account, or a wrong password

Logins == 1..MaxLogins

\* Who may read the data of a role's console: an administrator has the
\* observer's too.
Allowed(r) == IF r = "OBSERVER" THEN {r, "ADMIN"} ELSE {r}

VARIABLES
  store,     \* localStorage: nvei_token, nvei_role
  expired,   \* tokens older than JWT_EXPIRES_IN
  recorded,  \* the logins with a row: an AuditLog entry or a SecurityEvent
  logins,    \* the onSubmit calls
  tabs       \* what each tab holds

vars == <<store, expired, recorded, logins, tabs>>

NoLogin == [at |-> "none", tab |-> Nobody, account |-> Nobody, mounted |-> FALSE]
NoStore == [token |-> 0, role |-> Nobody]
NoData  == [at |-> "none", token |-> 0]

\* A page is freshly shown at a path; ProtectedRoute sends whoever has not
\* its role to the login page.
Page(path, role) ==
  [path |-> IF path \in Roles /\ path # role THEN "login" ELSE path, role |-> role,
   error |-> FALSE, loading |-> FALSE, leaving |-> FALSE, data |-> NoData]

Init ==
  /\ store = NoStore /\ expired = {} /\ recorded = {}
  /\ logins = [n \in Logins |-> NoLogin]
  /\ tabs = [t \in Tabs |-> Page("site", Nobody)]

RoleOf(n) == IF n = 0 THEN Nobody ELSE logins[n].account

\* The page of tab t goes: its logins go on without it, unless the document
\* itself goes and takes them along.
Leaves(t)  == [n \in Logins |-> IF logins[n].tab = t THEN [logins[n] EXCEPT !.mounted = FALSE] ELSE logins[n]]
Forgets(t) == [n \in Logins |-> IF logins[n].tab = t /\ logins[n].at # "none" THEN [Leaves(t)[n] EXCEPT !.tab = Nobody]
                                                                             ELSE logins[n]]

\* A handler of tab t is between its two writes to the storage: nothing else
\* of the tab runs meanwhile, but the storage is the other tabs' too.
Writing(t) == tabs[t].leaving \/ \E n \in Logins : logins[n].tab = t /\ logins[n].at = "keeping"

-----------------------------------------------------------------------------
(* The login service                                                       *)

\* findByEmail and bcrypt.compare.
Lookup(n) ==
  /\ logins[n].at = "sent"
  /\ logins' = [logins EXCEPT ![n].at = IF logins[n].account \in Roles THEN "valid" ELSE "invalid"]
  /\ UNCHANGED <<store, expired, recorded, tabs>>

\* Fault: the reply does not wait for the row.
RecordLater(n) ==
  \/ /\ logins[n].at \in {"valid", "invalid"}
     /\ logins' = [logins EXCEPT ![n].at = IF @ = "valid" THEN "accepted" ELSE "refused"]
     /\ UNCHANGED <<store, expired, recorded, tabs>>
  \/ /\ logins[n].at = "done" /\ n \notin recorded /\ recorded' = recorded \cup {n}
     /\ UNCHANGED <<store, expired, logins, tabs>>

\* auditLogRepository.write, or securityEventRepository.write and the 401.
Record(n) ==
  /\ logins[n].at \in {"valid", "invalid"} /\ recorded' = recorded \cup {n}
  /\ logins' = [logins EXCEPT ![n].at = IF @ = "valid" THEN "accepted" ELSE "refused"]
  /\ UNCHANGED <<store, expired, tabs>>

\* A write, Postgres or the network fails; 500, or no answer; or the browser
\* refuses one of login()'s two writes, which is caught all the same.
LoginFails(n) ==
  /\ logins[n].at \in {"sent", "valid", "invalid", "accepted", "keeping"} /\ logins' = [logins EXCEPT ![n].at = "refused"]
  /\ UNCHANGED <<store, expired, recorded, tabs>>

\* A token outlives JWT_EXPIRES_IN.
Expire ==
  /\ store.token \notin expired \cup {0} /\ expired' = expired \cup {store.token}
  /\ UNCHANGED <<store, recorded, logins, tabs>>

-----------------------------------------------------------------------------
(* The login page                                                          *)

\* useDemoAccount fills the form in, and takes the last error away.
UseDemoAccount(t) ==
  /\ tabs[t].path = "login" /\ tabs[t].error /\ tabs' = [tabs EXCEPT ![t].error = FALSE]
  /\ UNCHANGED <<store, expired, recorded, logins>>

\* onSubmit, up to the POST, with whatever the form holds by then.
Submit(t, n, account) ==
  /\ tabs[t].path = "login" /\ ~tabs[t].loading
  /\ \A o \in Logins : (o < n) <=> (logins[o].at # "none")
  /\ tabs' = [tabs EXCEPT ![t].error = FALSE, ![t].loading = TRUE]
  /\ logins' = [logins EXCEPT ![n] = [at |-> "sent", tab |-> t, account |-> account, mounted |-> TRUE]]
  /\ UNCHANGED <<store, expired, recorded>>

Done(n) == [logins EXCEPT ![n] = [NoLogin EXCEPT !.at = "done", !.account = logins[n].account]]

\* onSubmit, answered, also on a page that has gone: login() writes the token.
KeepToken(n) ==
  /\ logins[n].at = "accepted" /\ logins[n].tab \in Tabs /\ ~Writing(logins[n].tab)
  /\ store' = [store EXCEPT !.token = n]
  /\ logins' = [logins EXCEPT ![n].at = "keeping"]
  /\ UNCHANGED <<expired, recorded, tabs>>

\* Then the role, to the storage and to React's state, and navigates.
SignedIn(n) ==
  LET t == logins[n].tab
      r == logins[n].account
  IN
  /\ logins[n].at = "keeping" /\ t \in Tabs
  /\ store' = [store EXCEPT !.role = r]
  /\ tabs' = [tabs EXCEPT ![t] =
       IF tabs[t].path = r THEN [tabs[t] EXCEPT !.role = r] ELSE Page(r, r)]
  /\ logins' = [o \in Logins |-> IF o = n THEN Done(n)[n] ELSE Leaves(t)[o]]
  /\ UNCHANGED <<expired, recorded>>

\* onSubmit: catch, finally; nothing shows it on a page that has gone.
Refused(n) ==
  LET t == logins[n].tab IN
  /\ logins[n].at = "refused" /\ t \in Tabs /\ ~Writing(t)
  /\ tabs' = IF logins[n].mounted THEN [tabs EXCEPT ![t].error = TRUE, ![t].loading = FALSE] ELSE tabs
  /\ logins' = Done(n)
  /\ UNCHANGED <<store, expired, recorded>>

-----------------------------------------------------------------------------
(* The tabs                                                                *)

\* A link within the application: the role stays what React has.
Follow(t, path) ==
  /\ <<tabs[t].path, path>> \in {<<"login", "site">>, <<"site", "login">>} \cup {<<r, "site">> : r \in Roles}
  /\ tabs' = [tabs EXCEPT ![t] = Page(path, tabs[t].role)] /\ logins' = Leaves(t)
  /\ UNCHANGED <<store, expired, recorded>>

\* A URL is typed, or the page is loaded anew: the role is read again from
\* the storage.
Load(t, path) ==
  /\ tabs' = [tabs EXCEPT ![t] = Page(path, store.role)] /\ logins' = Forgets(t)
  /\ UNCHANGED <<store, expired, recorded>>

\* logout, of this tab and of the browser: clearToken, then the role; the
\* guard sends the tab to the login page.
SignOut(t) ==
  /\ tabs[t].path \in Roles
  /\ store' = [store EXCEPT !.token = 0] /\ tabs' = [tabs EXCEPT ![t].leaving = TRUE]
  /\ UNCHANGED <<expired, recorded, logins>>

SignedOut(t) ==
  /\ tabs[t].leaving
  /\ store' = [store EXCEPT !.role = Nobody] /\ tabs' = [tabs EXCEPT ![t] = Page(tabs[t].path, Nobody)]
  /\ UNCHANGED <<expired, recorded, logins>>

\* A console asks for its data, with the token that is stored now.
Ask(t) ==
  /\ tabs[t].path \in Roles /\ tabs[t].data.at = "none"
  /\ tabs' = [tabs EXCEPT ![t].data = [at |-> "asked", token |-> store.token]]
  /\ UNCHANGED <<store, expired, recorded, logins>>

\* requireAuth and requireRole, in front of the routes of a console.
Passes(n, path) == n # 0 /\ n \notin expired /\ RoleOf(n) \in Allowed(path)

Answer(t) ==
  /\ tabs[t].path \in Roles /\ tabs[t].data.at = "asked"
  /\ tabs' = [tabs EXCEPT ![t].data.at = IF Passes(tabs[t].data.token, tabs[t].path) THEN "shown" ELSE "error"]
  /\ UNCHANGED <<store, expired, recorded, logins>>

Next ==
  \/ Expire
  \/ \E n \in Logins : Lookup(n) \/ Record(n) \/ LoginFails(n) \/ KeepToken(n) \/ SignedIn(n) \/ Refused(n)
  \/ \E t \in Tabs : SignedOut(t)
  \/ \E t \in Tabs :
       /\ ~Writing(t)
       /\ \/ UseDemoAccount(t) \/ SignOut(t) \/ Ask(t) \/ Answer(t)
          \/ \E n \in Logins, a \in Roles \cup {Nobody} : Submit(t, n, a)
          \/ \E path \in {"login", "site"} \cup Roles : Follow(t, path) \/ Load(t, path)

Spec == Init /\ [][Next]_vars

-----------------------------------------------------------------------------
(* Properties                                                              *)

TypeOK ==
  /\ store \in [token : 0..MaxLogins, role : Roles \cup {Nobody}]
  /\ expired \subseteq Logins /\ recorded \subseteq Logins
  /\ logins \in [Logins -> [at : {"none", "sent", "valid", "invalid", "accepted", "keeping", "refused", "done"},
                            tab : Tabs \cup {Nobody}, account : Roles \cup {Nobody}, mounted : BOOLEAN]]
  /\ tabs \in [Tabs -> [path : {"login", "site"} \cup Roles, role : Roles \cup {Nobody},
                        error : BOOLEAN, loading : BOOLEAN, leaving : BOOLEAN,
                        data : [at : {"none", "asked", "shown", "error"}, token : 0..MaxLogins]]]

\* Whoever is signed in was recorded: the token a browser keeps is of a login
\* whose AuditLog row was written before, and so is the role, though the two
\* need not be of one login.
SessionIsRecorded ==
  /\ store.token # 0 => store.token \in recorded
  /\ store.role # Nobody => \E n \in recorded : logins[n].account = store.role

\* (Not so.)  Between two writes of one tab another tab writes; or the browser
\* refuses the second.
TokenAndRoleAreOne == (\A t \in Tabs : ~Writing(t)) => store.role = RoleOf(store.token)

\* (Not so.)  "Signed in" at a console: with a token of its role.
SignedInIsSo == \A t \in Tabs : tabs[t].path \in Roles => RoleOf(store.token) = tabs[t].path

\* (Not so.)  A sign-in that was left is not completed.
LeftIsLeft == [][\A n \in Logins : SignedIn(n) => logins[n].mounted]_vars
=============================================================================
