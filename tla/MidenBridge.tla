----------------------------- MODULE MidenBridge -----------------------------
(***************************************************************************)
(* The Miden sidecar (contracts/miden/bridge/src: main.rs and miden.rs) as *)
(* its TypeScript client (lib/miden-bridge.ts) sees it: the start-up that  *)
(* provisions and funds two accounts, the actor thread that serves one     *)
(* command at a time, and what survives when the process dies.             *)
(*                                                                         *)
(* The accounts provisioned by the n-th start are pair n.  Every note of a *)
(* pair is made by its wallet or faucet and consumed by its wallet.        *)
(***************************************************************************)
EXTENDS Integers, Sequences, FiniteSets

CONSTANTS
  Creates,    \* requests to seal a paper key in a note
  Queries,    \* requests for a note's status
  Stubs,      \* requests of the two flows that are not built
  TimelockAt, \* the time each create request asks for
  TopUp,      \* what a start mints (TOPUP_AMOUNT)
  PerBlock,   \* APPROX_SECONDS_PER_BLOCK, an estimate the chain need not keep to
  Polls,      \* SYNC_POLL_ATTEMPTS
  MaxStarts,  \* bound: how often the process is started
  MaxResets,  \* bound: how often the local store is lost while it is down
  MaxTime,    \* bound on the clock
  MaxHeight,  \* bound on the chain's blocks
  None

Requests == Creates \cup Queries \cup Stubs
Torn == -1     \* a marker file that was cut short
Pairs == 1..MaxStarts

ASSUME BoundsAssumption ==
  /\ TopUp \in Nat \ {0} /\ PerBlock \in Nat \ {0} /\ Polls \in Nat
  /\ MaxStarts \in Nat /\ MaxResets \in Nat /\ MaxTime \in Nat /\ MaxHeight \in Nat
ASSUME RequestAssumption ==
  /\ TimelockAt \in [Creates -> Nat]
  /\ Creates \cap Queries = {} /\ Creates \cap Stubs = {} /\ Queries \cap Stubs = {}
ASSUME NullAssumption == None \notin Requests /\ None \notin Int

VARIABLES
  pc,       \* what the process does next; "serving" once the port is open
  starts,   \* how many starts there were
  pair,     \* the pair the process uses
  polls,    \* syncs spent waiting for the mint
  held,     \* the accounts of the local store, and the keys of the keystore
  marker,   \* the accounts marker file: None, Torn or a pair
  vault,    \* the balance of each pair's wallet
  notes,    \* the notes on chain
  spent,    \* those of them that were consumed
  height,   \* the blocks the chain has made, at whatever pace
  now,      \* the wall clock
  queue,    \* the commands in the actor's channel
  synced,   \* the height the command being served has synced to, None before
  reply,    \* the request whose result the actor has in hand, None when idle
  answer,   \* what bridgeFetch gave its caller: "none", "note", "throws"
  resets

vars == <<pc, starts, pair, polls, held, marker, vault, notes, spent, height, now, queue, synced, reply, answer, resets>>
boot    == <<starts, pair, polls>>
disk    == <<held, marker, resets>>
chain   == <<vault, notes, spent, height>>
serving == <<queue, synced, reply, answer>>

Accounts(n) == {<<"wallet", n>>, <<"faucet", n>>}

MintNote(n, s) == [kind |-> "mint", pair |-> n, by |-> s, from |-> 0, amount |-> TopUp]

\* h is the height the note was computed from and t the clock when it was: the
\* note holds neither, they are kept to say what its lock is worth.
KeyNote(n, r, from, h, t) ==
  [kind |-> "key", pair |-> n, by |-> r, from |-> from, amount |-> 1, height |-> h, clock |-> t]

Init ==
  /\ pc = "down" /\ starts = 0 /\ pair = 0 /\ polls = 0
  /\ held = {} /\ marker = None /\ resets = 0
  /\ vault = [n \in Pairs |-> 0] /\ notes = {} /\ spent = {} /\ height = 0 /\ now = 0
  /\ queue = <<>> /\ synced = None /\ reply = None /\ answer = [r \in Requests |-> "none"]

-----------------------------------------------------------------------------
(* Start-up                                                                *)

\* main and build_client: open the store and the keystore, fetch the genesis header.
Boot ==
  /\ pc = "down" /\ starts < MaxStarts
  /\ pc' = "load" /\ starts' = starts + 1 /\ pair' = 0 /\ polls' = 0
  /\ UNCHANGED <<disk, chain, now, serving>>

\* Fault: a marker whose pair is known is not used again.
LoadFresh ==
  /\ pc = "load" /\ marker # Torn
  /\ pair' = starts /\ pc' = "wallet"
  /\ UNCHANGED <<starts, polls, disk, chain, now, serving>>

\* provision_or_load_accounts reuses the marker's pair when the store has both
\* accounts.  A marker that does not parse ends the start.
Load ==
  /\ pc = "load" /\ marker # Torn
  /\ IF marker # None /\ Accounts(marker) \subseteq held
     THEN pair' = marker /\ pc' = "fund"
     ELSE pair' = starts /\ pc' = "wallet"
  /\ UNCHANGED <<starts, polls, disk, chain, now, serving>>

\* Key first, then the account; the faucet after the wallet.
Provision(kind, before, after) ==
  /\ pc = before /\ pc' = after
  /\ held' = held \cup {<<kind, pair>>}
  /\ UNCHANGED <<boot, marker, resets, chain, now, serving>>

AddWallet == Provision("wallet", "wallet", "faucet")
AddFaucet == Provision("faucet", "faucet", "mark")

WriteMarker ==
  /\ pc = "mark" /\ pc' = "fund" /\ marker' = pair
  /\ UNCHANGED <<boot, held, resets, chain, now, serving>>

\* ensure_wallet_funded: nothing to do.
AlreadyFunded ==
  /\ pc = "fund" /\ vault[pair] >= 1 /\ pc' = "serving"
  /\ UNCHANGED <<boot, disk, chain, now, serving>>

\* The mint transaction is submitted.
Mint ==
  /\ pc = "fund" /\ vault[pair] < 1 /\ pc' = "poll"
  /\ notes' = notes \cup {MintNote(pair, starts)}
  /\ UNCHANGED <<boot, disk, vault, spent, height, now, serving>>

\* Fault: a note is consumable before its timelock height.
ConsumableAtOnce == {n \in notes \ spent : n.pair = pair}

\* get_consumable_notes(wallet): whatever the wallet may consume, not only the mint.
Consumable == {n \in notes \ spent : n.pair = pair /\ n.from <= height}

\* One more sync found nothing: the mint has not been committed yet.
Wait ==
  /\ pc = "poll" /\ polls < Polls
  /\ polls' = polls + 1
  /\ UNCHANGED <<pc, starts, pair, disk, chain, now, serving>>

\* The first consumable note is consumed.
Consume ==
  /\ pc = "poll" /\ polls < Polls
  /\ \E n \in Consumable :
       /\ spent' = spent \cup {n}
       /\ vault' = [vault EXCEPT ![pair] = @ + n.amount]
  /\ pc' = "serving"
  /\ UNCHANGED <<boot, disk, notes, height, now, serving>>

\* The marker does not parse, or the mint was not seen in time: main panics.
GiveUp ==
  /\ (pc = "load" /\ marker = Torn) \/ (pc = "poll" /\ polls = Polls)
  /\ pc' = "down"
  /\ UNCHANGED <<boot, disk, chain, now, serving>>

-----------------------------------------------------------------------------
(* The HTTP server and the actor thread                                    *)

\* Fault: the body is taken for a result whatever the status code (the bug that
\* the comments in main.rs and miden-bridge.ts tell of).
BridgeFetchTrusting(r, code) == IF r \in Creates \cup Stubs THEN "note" ELSE "throws"

\* bridgeFetch: an error code throws, and so does a body that is not of the
\* expected shape.  note_status sends {noteId, found, status}, which is never
\* what noteStatusSchema expects.
BridgeFetch(r, code) == IF code = 200 /\ r \in Creates THEN "note" ELSE "throws"

\* A command enters the channel.
Call(r) ==
  /\ pc = "serving" /\ answer[r] = "none" /\ r \notin Stubs
  /\ \A i \in 1..Len(queue) : queue[i] # r
  /\ queue' = Append(queue, r)
  /\ UNCHANGED <<pc, boot, disk, chain, now, synced, reply, answer>>

\* create_submission_note and consume_note answer 501 without the actor.
NotImplemented(r) ==
  /\ pc = "serving" /\ r \in Stubs /\ answer[r] = "none"
  /\ answer' = [answer EXCEPT ![r] = BridgeFetch(r, 501)]
  /\ UNCHANGED <<pc, boot, disk, chain, now, queue, synced, reply>>

Takes(r) == pc = "serving" /\ queue # <<>> /\ r = Head(queue) /\ reply = None /\ synced = None

\* create_paper_key_timelock syncs first.
Sync(r) ==
  /\ Takes(r) /\ r \in Creates
  /\ synced' = height
  /\ UNCHANGED <<pc, boot, disk, chain, now, queue, reply, answer>>

\* approximate_block_at: from the height it was given and the clock it reads
\* itself, the seconds left counted as blocks of PerBlock seconds.
ApproximateBlockAt(at) == synced + (IF at > now THEN (at - now) \div PerBlock ELSE 0)

\* The rest of it: one unit from the vault into a note, submitted.
Create(r) ==
  /\ pc = "serving" /\ queue # <<>> /\ r = Head(queue) /\ r \in Creates
  /\ synced # None /\ vault[pair] >= 1
  /\ notes' = notes \cup {KeyNote(pair, r, ApproximateBlockAt(TimelockAt[r]), synced, now)}
  /\ vault' = [vault EXCEPT ![pair] = @ - 1]
  /\ synced' = None /\ reply' = r
  /\ UNCHANGED <<pc, boot, disk, spent, height, now, queue, answer>>

Reply(r) ==
  /\ pc = "serving" /\ reply = r /\ r # None
  /\ reply' = None /\ queue' = Tail(queue)
  /\ answer' = [answer EXCEPT ![r] = BridgeFetch(r, 200)]
  /\ UNCHANGED <<pc, boot, disk, chain, now, synced>>

\* The command fails: sync, build or submit threw, or the vault is empty (no
\* top-up before the next start).  The handler answers 500.
Fail(r) ==
  /\ pc = "serving" /\ queue # <<>> /\ r = Head(queue) /\ r \in Creates
  /\ queue' = Tail(queue) /\ synced' = None /\ reply' = None
  /\ answer' = [answer EXCEPT ![r] = BridgeFetch(r, 500)]
  /\ UNCHANGED <<pc, boot, disk, chain, now>>

\* note_status reads the local store; found or not, or an error in a 200.
NoteStatus(r) ==
  /\ Takes(r) /\ r \in Queries
  /\ queue' = Tail(queue)
  /\ answer' = [answer EXCEPT ![r] = BridgeFetch(r, 200)]
  /\ UNCHANGED <<pc, boot, disk, chain, now, synced, reply>>

-----------------------------------------------------------------------------
(* What fails                                                              *)

\* The caller of a request whose server died.
Down(r) == IF \E i \in 1..Len(queue) : queue[i] = r THEN "throws" ELSE answer[r]

\* The process dies, or a start ends with an error (main panics): what was in
\* memory is gone, and a marker that was being written may be cut short.
Die ==
  /\ pc # "down" /\ pc' = "down"
  /\ queue' = <<>> /\ synced' = None /\ reply' = None
  /\ answer' = [r \in Requests |-> Down(r)]
  /\ marker' \in IF pc = "mark" THEN {marker, Torn} ELSE {marker}
  /\ UNCHANGED <<boot, held, resets, chain, now>>

\* Someone resets the local store while the bridge is down.
ResetStore ==
  /\ pc = "down" /\ resets < MaxResets
  /\ held' = {} /\ resets' = resets + 1
  /\ UNCHANGED <<pc, boot, marker, chain, now, serving>>

Tick ==
  /\ now < MaxTime /\ now' = now + 1
  /\ UNCHANGED <<pc, boot, disk, chain, serving>>

\* The chain makes a block, as soon or as late after the last as it may.
Block ==
  /\ height < MaxHeight /\ height' = height + 1
  /\ UNCHANGED <<pc, boot, disk, vault, notes, spent, now, serving>>

Start == Load \/ AddWallet \/ AddFaucet \/ WriteMarker \/ AlreadyFunded \/ Mint \/ Wait \/ Consume \/ GiveUp
Serve(r) == NotImplemented(r) \/ Sync(r) \/ Create(r) \/ Reply(r) \/ Fail(r) \/ NoteStatus(r)

Next ==
  \/ Boot \/ Start \/ Die \/ ResetStore \/ Tick \/ Block
  \/ \E r \in Requests : Call(r) \/ Serve(r)

Spec == Init /\ [][Next]_vars

-----------------------------------------------------------------------------
(* Correctness                                                             *)

NoteKinds ==
  [kind: {"mint"}, pair: Pairs, by: Pairs, from: {0}, amount: {TopUp}] \cup
  [kind: {"key"}, pair: Pairs, by: Creates, from: Nat, amount: {1}, height: Nat, clock: Nat]

\* Every variable holds a value of its kind; a process that has passed Load has
\* a pair, and a server a queue of commands it can answer.
TypeOK ==
  /\ pc \in {"down", "load", "wallet", "faucet", "mark", "fund", "poll", "serving"}
  /\ starts \in 0..MaxStarts /\ pair \in 0..MaxStarts /\ polls \in 0..Polls
  /\ pc = "load" => starts \in Pairs
  /\ pc \notin {"down", "load"} => pair \in Pairs /\ starts \in Pairs
  /\ held \subseteq UNION {Accounts(n) : n \in Pairs}
  /\ marker \in Pairs \cup {None, Torn}
  /\ vault \in [Pairs -> Nat] /\ notes \subseteq NoteKinds
  /\ height \in Nat /\ now \in Nat /\ resets \in Nat
  /\ queue \in Seq(Creates \cup Queries)
  /\ synced \in Nat \cup {None} /\ reply \in Creates \cup {None}
  /\ reply # None => queue # <<>> /\ Head(queue) = reply
  /\ answer \in [Requests -> {"none", "note", "throws"}]

Funded(n) == vault[n] > 0 \/ \E x \in notes : x.pair = n

\* A pair that was ever funded is the one the next start takes up: neither a
\* death during provisioning nor a marker cut short orphans a funded wallet.  Only
\* losing the local store does.
FundedPairIsKept ==
  \A n \in Pairs : Funded(n) /\ Accounts(n) \subseteq held => marker = n

\* The bridge serves only with accounts its local store has, and a result that
\* its client was given is that of a note that was submitted to the chain.
AnsweredNoteIsReal ==
  /\ pc = "serving" => Accounts(pair) \subseteq held
  /\ \A r \in Requests : answer[r] = "note" => \E x \in notes : x.kind = "key" /\ x.by = r

\* A start takes any note its wallet may consume for the mint, a paper key's
\* too.  A lock in blocks is no lock in time: what is true of it is that a key
\* goes a block's time or more before it should only when the chain has been
\* faster than the estimate, counting from the height the seal was computed from
\* (which a slow sync makes an old one) and from the clock read after it.
EarlyOnlyWhenBlocksAreFast ==
  \A x \in spent :
    x.kind = "key" /\ now <= TimelockAt[x.by] - PerBlock =>
      (height - x.height) * PerBlock > now - x.clock

\* Not true, by that: the key "cannot be obtained before exam start"
\* (docs/MIDEN_INTEGRATION.md).
NotReleasedEarly == \A x \in spent : x.kind = "key" => now >= TimelockAt[x.by]

=============================================================================
