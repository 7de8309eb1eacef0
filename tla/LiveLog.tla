------------------------------- MODULE LiveLog -------------------------------
(***************************************************************************)
(* The live audit log of the administrator's overview: every service's     *)
(* audit and security writes (auditLog.repository.ts,                      *)
(* securityEvent.repository.ts), the WebSocket hub that pushes them        *)
(* (hub.ts), the sockets, and the hook and panel that show them            *)
(* (live-logs.ts, AdminOverview.tsx).                                      *)
(*                                                                         *)
(* A row has the number in which Postgres created it, audit and security   *)
(* rows alike.  A connection is one socket at both ends: the server may    *)
(* hold it as open long after the page's end is closed.                    *)
(***************************************************************************)
EXTENDS Integers, Sequences, SequencesExt, FiniteSets

CONSTANTS
  MaxRows,     \* bound: rows written
  MaxSockets,  \* bound: connections made
  MaxShown     \* the hook's max: how many entries it keeps

Connections == 1..MaxSockets

Slice(list, n) == SubSeq(list, 1, IF Len(list) < n THEN Len(list) ELSE n)
Newest(list, n) == SubSeq(list, IF Len(list) < n THEN 1 ELSE Len(list) - n + 1, Len(list))

VARIABLES
  rows,         \* rows there are
  unpublished,  \* rows whose write has not come to publish yet
  published,    \* the rows published, in that order
  sockets,      \* the page's end: readyState
  links,        \* the server's end: readyState
  frames,       \* sockets whose subscribe frame is on its way
  wire,         \* the entries on their way to each socket
  subscribers,  \* hub.ts: the sockets in the channel admin:live-logs
  since,        \* history: how much was published before each socket subscribed
  watcher,      \* the socket of the mounted page, 0 when none is
  entries       \* what the page shows, newest first

database == <<rows, unpublished>>
network  == <<sockets, links, frames, wire>>
hub      == <<subscribers, since>>
view     == <<watcher, entries>>
vars == <<database, published, network, hub, view>>

Init ==
  /\ rows = 0 /\ unpublished = {} /\ published = <<>>
  /\ sockets = [s \in Connections |-> "none"] /\ links = [s \in Connections |-> "none"]
  /\ frames = {} /\ wire = [s \in Connections |-> <<>>]
  /\ subscribers = {} /\ since = [s \in Connections |-> 0]
  /\ watcher = 0 /\ entries = <<>>

-----------------------------------------------------------------------------
(* The server                                                              *)

\* write: Postgres has created the row, its writer has still to hear of it.
Create ==
  /\ rows < MaxRows /\ rows' = rows + 1 /\ unpublished' = unpublished \cup {rows + 1}
  /\ UNCHANGED <<published, network, hub, view>>

\* write, resumed: publish sends to the channel's open sockets.
Publish(r) ==
  /\ r \in unpublished /\ unpublished' = unpublished \ {r}
  /\ published' = Append(published, r)
  /\ wire' = [s \in Connections |-> IF s \in subscribers /\ links[s] = "open" THEN Append(wire[s], r) ELSE wire[s]]
  /\ UNCHANGED <<rows, sockets, links, frames, hub, view>>

\* ws.on("message") with a subscribe frame.
Subscribe(s) ==
  /\ s \in frames /\ links[s] = "open" /\ frames' = frames \ {s}
  /\ subscribers' = subscribers \cup {s} /\ since' = [since EXCEPT ![s] = Len(published)]
  /\ UNCHANGED <<database, published, sockets, links, wire, view>>

\* Fault: the socket is left in its channels.
ForgetKeeps(s) ==
  /\ links[s] = "open" /\ sockets[s] = "closed" /\ links' = [links EXCEPT ![s] = "closed"]
  /\ frames' = frames \ {s}
  /\ UNCHANGED <<database, published, sockets, wire, hub, view>>

\* ws.on("close"): the server hears that the other end is gone.
Forget(s) ==
  /\ links[s] = "open" /\ sockets[s] = "closed" /\ links' = [links EXCEPT ![s] = "closed"]
  /\ subscribers' = subscribers \ {s} /\ frames' = frames \ {s}
  /\ UNCHANGED <<database, published, sockets, wire, since, view>>

\* The process is restarted: what was not published never will be, the hub's
\* map is empty and every connection is lost.
Restart ==
  /\ unpublished \cup subscribers # {}
  /\ unpublished' = {} /\ subscribers' = {} /\ frames' = {}
  /\ links' = [s \in Connections |-> IF links[s] = "none" THEN "none" ELSE "closed"]
  /\ sockets' = [s \in Connections |-> IF sockets[s] = "none" THEN "none" ELSE "closed"]
  /\ wire' = [s \in Connections |-> <<>>]
  /\ UNCHANGED <<rows, published, since, view>>

-----------------------------------------------------------------------------
(* The page                                                                *)

\* useLiveLogs: the overview is opened, with a new WebSocket.
Mount(s) ==
  /\ watcher = 0 /\ sockets[s] = "none" /\ \A o \in Connections : o < s => sockets[o] # "none"
  /\ watcher' = s /\ entries' = <<>> /\ sockets' = [sockets EXCEPT ![s] = "connecting"]
  /\ UNCHANGED <<database, published, links, frames, wire, hub>>

\* The "open" event: the page subscribes.
Connected(s) ==
  /\ sockets[s] = "connecting"
  /\ sockets' = [sockets EXCEPT ![s] = "open"] /\ links' = [links EXCEPT ![s] = "open"]
  /\ frames' = frames \cup {s}
  /\ UNCHANGED <<database, published, wire, hub, view>>

\* Fault: a new entry is dropped, not the oldest, once the list is full.
MessageKeepsOld(s) ==
  /\ s = watcher /\ sockets[s] = "open" /\ wire[s] # <<>>
  /\ entries' = IF Len(entries) < MaxShown THEN <<Head(wire[s])>> \o entries ELSE entries
  /\ wire' = [wire EXCEPT ![s] = Tail(@)]
  /\ UNCHANGED <<database, published, sockets, links, frames, hub, watcher>>

\* The "message" event: [msg.data, ...prev].slice(0, max).
Message(s) ==
  /\ s = watcher /\ sockets[s] = "open" /\ wire[s] # <<>>
  /\ entries' = Slice(<<Head(wire[s])>> \o entries, MaxShown)
  /\ wire' = [wire EXCEPT ![s] = Tail(@)]
  /\ UNCHANGED <<database, published, sockets, links, frames, hub, watcher>>

\* The cleanup: ws.close().
Unmount ==
  /\ watcher # 0 /\ watcher' = 0 /\ entries' = <<>>
  /\ sockets' = [sockets EXCEPT ![watcher] = "closed"] /\ wire' = [wire EXCEPT ![watcher] = <<>>]
  /\ UNCHANGED <<database, published, links, frames, hub>>

\* The connection breaks; the hook has no listener for it and does not
\* connect again.
Break(s) ==
  /\ sockets[s] \in {"connecting", "open"}
  /\ sockets' = [sockets EXCEPT ![s] = "closed"] /\ wire' = [wire EXCEPT ![s] = <<>>]
  /\ UNCHANGED <<database, published, links, frames, hub, view>>

Next ==
  \/ Create \/ Restart \/ Unmount
  \/ \E r \in 1..MaxRows : Publish(r)
  \/ \E s \in Connections : Subscribe(s) \/ Forget(s) \/ Mount(s) \/ Connected(s) \/ Message(s) \/ Break(s)

Spec == Init /\ [][Next]_vars

\* The card: its badge, and one line for each entry.
Card == [badge |-> IF entries = <<>> THEN "Idle" ELSE "Streaming", lines |-> entries]

-----------------------------------------------------------------------------
(* Properties                                                              *)

TypeOK ==
  /\ rows \in 0..MaxRows /\ unpublished \subseteq 1..rows /\ published \in Seq(1..rows)
  /\ sockets \in [Connections -> {"none", "connecting", "open", "closed"}]
  /\ links \in [Connections -> {"none", "open", "closed"}]
  /\ frames \subseteq Connections /\ subscribers \subseteq Connections
  /\ wire \in [Connections -> Seq(1..rows)] /\ since \in [Connections -> 0..MaxRows]
  /\ watcher \in 0..MaxSockets /\ entries \in Seq(1..rows)

Listening(s) == s \in subscribers /\ sockets[s] = "open"

\* What a page whose connection stands shows, with what is on its way to it,
\* is the newest run of what was published since it subscribed: nothing is
\* missing in the middle, shown twice or out of order.
FeedIsUnbroken ==
  watcher # 0 /\ Listening(watcher) =>
    LET sent      == SubSeq(published, since[watcher] + 1, Len(published))
        delivered == SubSeq(sent, 1, Len(sent) - Len(wire[watcher]))
    IN /\ wire[watcher] = Newest(sent, Len(wire[watcher]))
       /\ entries = Reverse(Newest(delivered, MaxShown))

\* A socket is in the channel only while the server holds it open: pages that
\* come and go, with subscriptions that arrive after they went, leave nothing
\* behind that every later publication would have to go through.
HubForgetsTheGone == \A s \in subscribers : links[s] = "open"

\* (Not so.)  "Streaming": the page has a connection.
StreamingIsLive == Card.badge = "Streaming" => sockets[watcher] = "open"

\* (Not so.)  The entries are in the order in which the rows were created.
NewestFirst == \A i, j \in DOMAIN entries : i < j => entries[i] > entries[j]

=============================================================================
