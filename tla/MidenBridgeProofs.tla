-------------------------- MODULE MidenBridgeProofs --------------------------
(***************************************************************************)
(* Proofs about the Miden sidecar.                                         *)
(***************************************************************************)
EXTENDS MidenBridge, SequenceTheorems, TLAPS

-----------------------------------------------------------------------------
(* Pairs                                                                   *)

\* What the process remembers of the pair it makes or uses, and what that
\* leaves on disk and on chain: a pair that is being made is new, no other
\* pair that is still held was funded meanwhile, and whatever is funded is in
\* the marker.
Making == {"wallet", "faucet", "mark"}
Using  == {"fund", "poll", "serving"}

PairTypes ==
  /\ starts \in Nat /\ starts <= MaxStarts /\ pair \in Nat
  /\ vault \in [Pairs -> Nat] /\ marker \in Pairs \cup {None, Torn}
  /\ \A x \in notes : x.amount \in Nat
  /\ pc \in {"down", "load"} \cup Making \cup Using

PairInv ==
  /\ PairTypes
  /\ pc \in {"load"} \cup Making => starts \in Pairs /\ ~Funded(starts)
  /\ pc \in Making => pair = starts
  /\ pc \in Making => \A n \in Pairs \ {pair} : ~(Funded(n) /\ Accounts(n) \subseteq held)
  /\ pc \in {"faucet", "mark"} => <<"wallet", pair>> \in held
  /\ pc = "mark" => <<"faucet", pair>> \in held
  /\ pc \in Using => pair \in Pairs /\ marker = pair /\ Accounts(pair) \subseteq held
  /\ marker \in Pairs => marker <= starts
  /\ \A n \in Pairs : Funded(n) => n <= starts
  /\ FundedPairIsKept

LEMMA PairInit == Init => PairInv
  BY BoundsAssumption, NullAssumption DEF Init, PairInv, PairTypes, Making, Using, FundedPairIsKept, Funded, Pairs

LEMMA PairStep == PairInv /\ [Next]_vars => PairInv'
<1> USE BoundsAssumption
<1>0. SUFFICES ASSUME PairInv, Next PROVE PairInv'
  BY DEF vars, boot, disk, chain, PairInv, PairTypes, FundedPairIsKept, Funded
<1>1. CASE Boot
  <2>1. \A n \in Pairs : Funded(n)' <=> Funded(n) BY <1>1 DEF Boot, disk, chain, Funded
  <2>2. pc = "down" /\ pc' = "load" /\ starts' = starts + 1 /\ starts < MaxStarts /\ pair' = 0
        /\ UNCHANGED <<held, marker, vault, notes>>
    BY <1>1 DEF Boot, disk, chain
  <2>3. starts \in Nat /\ starts' \in Nat /\ starts' <= MaxStarts /\ starts' \in Pairs
    BY <1>0, <2>2 DEF PairInv, PairTypes, Pairs
  <2>4. \A n \in Pairs : Funded(n) => n <= starts /\ n <= starts' /\ n # starts'
    BY <1>0, <2>2, <2>3 DEF PairInv, Pairs
  <2>5. PairTypes' BY <1>0, <2>2, <2>3 DEF PairInv, PairTypes
  <2>6. marker' \in Pairs => marker' <= starts' BY <1>0, <2>2, <2>3 DEF PairInv, Pairs
  <2> QED BY <1>0, <2>1, <2>2, <2>3, <2>4, <2>5, <2>6 DEF PairInv, FundedPairIsKept, Making, Using
<1>2. CASE Load
  <2>1. \A n \in Pairs : Funded(n)' <=> Funded(n) BY <1>2 DEF Load, disk, chain, Funded
  <2>2. pc = "load" /\ marker # Torn /\ UNCHANGED <<starts, held, marker, vault, notes>> BY <1>2 DEF Load, disk, chain
  <2>3. starts \in Pairs /\ ~Funded(starts) BY <1>0, <2>2 DEF PairInv
  <2>4. CASE marker # None /\ Accounts(marker) \subseteq held
    <3>1. pair' = marker /\ pc' = "fund" /\ marker \in Pairs BY <1>0, <1>2, <2>2, <2>4 DEF Load, PairInv, PairTypes
    <3>2. PairTypes' BY <1>0, <2>2, <3>1 DEF PairInv, PairTypes, Pairs, Using
    <3> QED BY <1>0, <2>1, <2>2, <2>4, <3>1, <3>2 DEF PairInv, FundedPairIsKept, Making, Using
  <2>5. CASE ~(marker # None /\ Accounts(marker) \subseteq held)
    <3>1. pair' = starts /\ pc' = "wallet" BY <1>2, <2>5 DEF Load
    <3>2. PairTypes' BY <1>0, <2>2, <3>1 DEF PairInv, PairTypes, Making
    <3>3. \A n \in Pairs : ~(Funded(n) /\ Accounts(n) \subseteq held)
      <4>1. \A n \in Pairs : Funded(n) /\ Accounts(n) \subseteq held => marker = n BY <1>0 DEF PairInv, FundedPairIsKept
      <4>2. None \notin Pairs BY NullAssumption DEF Pairs
      <4> QED BY <2>5, <4>1, <4>2
    <3> QED BY <1>0, <2>1, <2>2, <2>3, <3>1, <3>2, <3>3 DEF PairInv, FundedPairIsKept, Making, Using
  <2> QED BY <2>4, <2>5
<1>3. CASE AddWallet \/ AddFaucet
  <2>1. \A n \in Pairs : Funded(n)' <=> Funded(n) BY <1>3 DEF AddWallet, AddFaucet, Provision, disk, chain, Funded
  <2>2. pc \in {"wallet", "faucet"} /\ held' \in {held \cup {<<"wallet", pair>>}, held \cup {<<"faucet", pair>>}}
        /\ UNCHANGED <<starts, pair, marker, vault, notes>>
    BY <1>3 DEF AddWallet, AddFaucet, Provision, boot, chain
  <2>3. \A n \in Pairs \ {pair} : Accounts(n) \subseteq held' => Accounts(n) \subseteq held BY <2>2 DEF Accounts
  <2> QED BY <1>0, <1>3, <2>1, <2>2, <2>3
       DEF AddWallet, AddFaucet, Provision, PairInv, PairTypes, FundedPairIsKept, Making, Using
<1>4. CASE WriteMarker
  <2>1. \A n \in Pairs : Funded(n)' <=> Funded(n) BY <1>4 DEF WriteMarker, chain, Funded
  <2> QED BY <1>0, <1>4, <2>1 DEF WriteMarker, boot, chain, PairInv, PairTypes, FundedPairIsKept, Making, Using, Accounts
<1>5. CASE AlreadyFunded \/ Wait \/ GiveUp \/ Tick \/ Block \/ \E r \in Requests : Sync(r) \/ Call(r) \/ NotImplemented(r) \/ Reply(r) \/ Fail(r) \/ NoteStatus(r)
  <2>1. UNCHANGED <<starts, pair, held, marker, vault, notes>> /\ pc' \in {pc, "down"} \cup (IF pc = "fund" THEN {"serving"} ELSE {})
    BY <1>5 DEF AlreadyFunded, Wait, GiveUp, Tick, Block, Sync, Call, NotImplemented, Reply, Fail, NoteStatus, Takes, boot, disk, chain
  <2>2. \A n \in Pairs : Funded(n)' <=> Funded(n) BY <2>1 DEF Funded
  <2> QED BY <1>0, <2>1, <2>2 DEF PairInv, PairTypes, FundedPairIsKept, Making, Using
<1>6. CASE Mint
  <2>1. \A n \in Pairs : Funded(n)' => Funded(n) \/ n = pair BY <1>6 DEF Mint, Funded, MintNote
  <2>2. PairTypes' BY <1>0, <1>6 DEF Mint, boot, disk, PairInv, PairTypes, Making, Using, MintNote
  <2>3. pair <= starts
    <3>1. pair \in Pairs /\ marker = pair BY <1>0, <1>6 DEF Mint, PairInv, Using
    <3> QED BY <1>0, <1>6, <3>1 DEF PairInv
  <2> QED BY <1>0, <1>6, <2>1, <2>2, <2>3 DEF Mint, boot, disk, PairInv, FundedPairIsKept, Making, Using
<1>7. CASE Consume
  <2>1. PICK n \in Consumable : vault' = [vault EXCEPT ![pair] = @ + n.amount] BY <1>7 DEF Consume
  <2>2. pc = "poll" /\ pc' = "serving" /\ UNCHANGED <<starts, pair, held, marker, notes>> BY <1>7 DEF Consume, boot, disk
  <2>3. \A m \in Pairs : Funded(m)' => Funded(m) \/ m = pair BY <1>0, <2>1, <2>2 DEF PairInv, PairTypes, Funded
  <2>4. pair \in Pairs /\ marker = pair /\ pair <= starts BY <1>0, <2>2 DEF PairInv, Using
  <2>5. n.amount \in Nat BY <1>0 DEF PairInv, PairTypes, Consumable
  <2>6. PairTypes' BY <1>0, <2>1, <2>2, <2>4, <2>5 DEF PairInv, PairTypes, Using
  <2> QED BY <1>0, <2>2, <2>3, <2>4, <2>6 DEF PairInv, FundedPairIsKept, Making, Using
<1>8. ASSUME NEW r \in Requests, Create(r) PROVE PairInv'
  <2>1. pc = "serving" /\ pc' = "serving" /\ vault[pair] >= 1 /\ vault' = [vault EXCEPT ![pair] = @ - 1]
        /\ UNCHANGED <<starts, pair, held, marker>>
        /\ notes' = notes \cup {KeyNote(pair, r, ApproximateBlockAt(TimelockAt[r]), synced, now)}
    BY <1>8 DEF Create, Takes, boot, disk
  <2>2. \A m \in Pairs : Funded(m)' => Funded(m) \/ m = pair
    BY <1>0, <2>1 DEF PairInv, PairTypes, Funded, KeyNote
  <2>3. pair \in Pairs /\ marker = pair /\ pair <= starts BY <1>0, <2>1 DEF PairInv, Using
  <2>4. PairTypes' BY <1>0, <2>1, <2>3 DEF PairInv, PairTypes, Using, KeyNote
  <2> QED BY <1>0, <2>1, <2>2, <2>3, <2>4 DEF PairInv, FundedPairIsKept, Making, Using
<1>9. CASE Die
  <2>1. pc' = "down" /\ UNCHANGED <<starts, pair, held, vault, notes>> /\ marker' \in IF pc = "mark" THEN {marker, Torn} ELSE {marker}
    BY <1>9 DEF Die, boot, chain
  <2>2. \A n \in Pairs : Funded(n)' <=> Funded(n) BY <2>1 DEF Funded
  <2>3. FundedPairIsKept'
    <3>1. CASE pc # "mark" BY <1>0, <2>1, <2>2, <3>1 DEF PairInv, FundedPairIsKept
    <3>2. CASE pc = "mark"
      <4>1. \A n \in Pairs : ~(Funded(n) /\ Accounts(n) \subseteq held) BY <1>0, <3>2 DEF PairInv, Making
      <4> QED BY <2>1, <2>2, <4>1 DEF FundedPairIsKept
    <3> QED BY <3>1, <3>2
  <2>4. Torn \notin Pairs BY DEF Torn, Pairs
  <2>5. PairTypes' BY <1>0, <2>1 DEF PairInv, PairTypes
  <2> QED BY <1>0, <2>1, <2>2, <2>3, <2>4, <2>5 DEF PairInv, Making, Using
<1>10. CASE ResetStore
  <2>1. pc = "down" /\ pc' = "down" /\ held' = {} /\ UNCHANGED <<starts, pair, marker, vault, notes>> BY <1>10 DEF ResetStore, boot, chain
  <2>2. \A n \in Pairs : Funded(n)' <=> Funded(n) BY <2>1 DEF Funded
  <2>3. PairTypes' BY <1>0, <2>1 DEF PairInv, PairTypes
  <2>4. FundedPairIsKept' BY <2>1 DEF FundedPairIsKept, Accounts
  <2> QED BY <1>0, <2>1, <2>2, <2>3, <2>4 DEF PairInv, Making, Using
<1> QED BY <1>0, <1>1, <1>2, <1>3, <1>4, <1>5, <1>6, <1>7, <1>8, <1>9, <1>10 DEF Next, Start, Serve

\* Every start takes up the pair that was funded, whatever died before
\* (provision_or_load_accounts, ensure_wallet_funded).
THEOREM FundedKept == Spec => []FundedPairIsKept
<1>1. PairInv => FundedPairIsKept BY DEF PairInv
<1> QED BY PairInit, PairStep, <1>1, PTL DEF Spec

-----------------------------------------------------------------------------
(* Answers                                                                 *)

Sealed(r) == \E x \in notes : x.kind = "key" /\ x.by = r

\* A result that is in hand, or was given, is that of a note that was made.
AnswerInv ==
  /\ answer \in [Requests -> {"none", "note", "throws"}]
  /\ reply # None => Sealed(reply)
  /\ \A r \in Requests : answer[r] = "note" => Sealed(r)

LEMMA AnswerInit == Init => AnswerInv
  BY DEF Init, AnswerInv

LEMMA AnswerStep == AnswerInv /\ [Next]_vars => AnswerInv'
<1>0. SUFFICES ASSUME AnswerInv, Next PROVE AnswerInv'
  BY DEF vars, serving, chain, AnswerInv, Sealed
<1>1. CASE Boot \/ Start \/ ResetStore \/ Tick \/ Block \/ \E r \in Requests : Sync(r) \/ Call(r)
  <2>1. UNCHANGED <<reply, answer>>
    BY <1>1 DEF Boot, Start, Load, AddWallet, AddFaucet, Provision, WriteMarker, AlreadyFunded, Mint, Wait, Consume, GiveUp,
                ResetStore, Tick, Block, Sync, Call, serving
  <2>2. notes \subseteq notes'
    BY <1>1 DEF Boot, Start, Load, AddWallet, AddFaucet, Provision, WriteMarker, AlreadyFunded, Mint, Wait, Consume, GiveUp,
                ResetStore, Tick, Block, Sync, Call, chain
  <2> QED BY <1>0, <2>1, <2>2 DEF AnswerInv, Sealed
<1>2. CASE Die
  <2>1. reply' = None /\ notes' = notes /\ answer' = [r \in Requests |-> Down(r)] BY <1>2 DEF Die, chain
  <2>2. \A r \in Requests : Down(r) \in {"throws", answer[r]} BY DEF Down
  <2> QED BY <1>0, <2>1, <2>2 DEF AnswerInv, Sealed
<1>3. ASSUME NEW r \in Requests, Create(r) PROVE AnswerInv'
  <2>1. reply' = r /\ answer' = answer /\ notes' = notes \cup {KeyNote(pair, r, ApproximateBlockAt(TimelockAt[r]), synced, now)}
    BY <1>3 DEF Create
  <2>2. Sealed(r)'
    <3>1. PICK x : x = KeyNote(pair, r, ApproximateBlockAt(TimelockAt[r]), synced, now) OBVIOUS
    <3>2. x.kind = "key" /\ x.by = r BY <3>1 DEF KeyNote
    <3> QED BY <2>1, <3>1, <3>2 DEF Sealed
  <2> QED BY <1>0, <2>1, <2>2 DEF AnswerInv, Sealed
<1>4. ASSUME NEW r \in Requests, Reply(r) PROVE AnswerInv'
  <2>1. reply = r /\ r # None /\ reply' = None /\ notes' = notes /\ answer' = [answer EXCEPT ![r] = BridgeFetch(r, 200)]
    BY <1>4 DEF Reply, chain
  <2>2. BridgeFetch(r, 200) \in {"note", "throws"} BY DEF BridgeFetch
  <2> QED BY <1>0, <2>1, <2>2 DEF AnswerInv, Sealed
<1>5. ASSUME NEW r \in Requests, NotImplemented(r) \/ Fail(r) \/ NoteStatus(r) PROVE AnswerInv'
  <2>1. reply' \in {reply, None} /\ notes' = notes /\ answer' = [answer EXCEPT ![r] = "throws"]
    BY <1>5, RequestAssumption DEF NotImplemented, Fail, NoteStatus, BridgeFetch, chain
  <2> QED BY <1>0, <2>1 DEF AnswerInv, Sealed
<1> QED BY <1>0, <1>1, <1>2, <1>3, <1>4, <1>5 DEF Next, Serve

\* No answer of the sidecar is taken for a note that was not made, and it
\* serves with accounts it has (main.rs, lib/miden-bridge.ts bridgeFetch).
THEOREM AnswersAreReal == Spec => []AnsweredNoteIsReal
<1>1. PairInv /\ AnswerInv => AnsweredNoteIsReal BY DEF PairInv, Using, AnswerInv, Sealed, AnsweredNoteIsReal
<1> QED BY PairInit, PairStep, AnswerInit, AnswerStep, <1>1, PTL DEF Spec

-----------------------------------------------------------------------------
(* The time lock                                                           *)

\* Rounding down to blocks loses less than a block.
LEMMA BlockOf ==
  ASSUME NEW t \in Nat
  PROVE  /\ t \div PerBlock \in Nat
         /\ (t \div PerBlock) * PerBlock <= t /\ t < (t \div PerBlock) * PerBlock + PerBlock
<1> PerBlock \in Nat \ {0} BY BoundsAssumption
<1> QED OBVIOUS

LEMMA MoreBlocksMoreTime ==
  ASSUME NEW a \in Int, NEW b \in Int, NEW p \in Nat, a <= b
  PROVE  a * p <= b * p
OBVIOUS

\* A key's note is locked to the height it was computed from and the seconds
\* that were left, in blocks; and what was consumed was unlocked by the height
\* of the chain.
Blocks(s) == IF s > 0 THEN s \div PerBlock ELSE 0

LockInv ==
  /\ now \in Nat /\ height \in Nat /\ synced \in Nat \cup {None}
  /\ \A x \in notes :
       /\ x.kind \in {"mint", "key"} /\ x.from \in Nat
       /\ x.kind = "key" => /\ x.by \in Creates /\ x.height \in Nat /\ x.clock \in 0..now
                            /\ x.from = x.height + Blocks(TimelockAt[x.by] - x.clock)
  /\ spent \subseteq notes
  /\ \A x \in spent : x.from <= height

LEMMA LockInit == Init => LockInv
  BY DEF Init, LockInv

LEMMA LockStep == LockInv /\ [Next]_vars => LockInv'
<1>0. SUFFICES ASSUME LockInv, Next PROVE LockInv'
  BY DEF vars, chain, LockInv, Blocks
<1> USE DEF Blocks
<1>1. CASE Boot \/ Load \/ AddWallet \/ AddFaucet \/ WriteMarker \/ AlreadyFunded \/ Wait \/ GiveUp \/ ResetStore
           \/ \E r \in Requests : Call(r) \/ NotImplemented(r) \/ Reply(r) \/ NoteStatus(r)
  <2>1. UNCHANGED <<now, height, synced, notes, spent>>
    BY <1>1 DEF Boot, Load, AddWallet, AddFaucet, Provision, WriteMarker, AlreadyFunded, Wait, GiveUp, ResetStore,
                Call, NotImplemented, Reply, NoteStatus, chain, serving
  <2> QED BY <1>0, <2>1 DEF LockInv
<1>2. CASE Tick
  <2>1. now' = now + 1 /\ UNCHANGED <<height, synced, notes, spent>> BY <1>2 DEF Tick, chain, serving
  <2>2. \A x \in notes : x.kind = "key" => x.clock \in 0..now' BY <1>0, <2>1 DEF LockInv
  <2> HIDE DEF Blocks
  <2> QED BY <1>0, <2>1, <2>2 DEF LockInv, Blocks
<1>3. CASE Block
  <2>1. height' = height + 1 /\ UNCHANGED <<now, synced, notes, spent>> BY <1>3 DEF Block, serving
  <2>2. \A x \in spent : x.from \in Nat /\ x.from <= height' BY <1>0, <2>1 DEF LockInv
  <2> QED BY <1>0, <2>1, <2>2 DEF LockInv
<1>4. CASE Mint
  <2>1. notes' = notes \cup {MintNote(pair, starts)} /\ UNCHANGED <<now, height, synced, spent>> BY <1>4 DEF Mint, serving
  <2>2. MintNote(pair, starts).kind = "mint" /\ MintNote(pair, starts).from = 0 BY DEF MintNote
  <2> QED BY <1>0, <2>1, <2>2 DEF LockInv
<1>5. CASE Consume
  <2>1. PICK n \in Consumable : spent' = spent \cup {n} BY <1>5 DEF Consume
  <2>2. n \in notes /\ n.from <= height /\ UNCHANGED <<now, height, synced, notes>> BY <1>5, <2>1 DEF Consume, Consumable, serving
  <2> QED BY <1>0, <2>1, <2>2 DEF LockInv
<1>6. ASSUME NEW r \in Requests, Sync(r) PROVE LockInv'
  <2>1. synced' = height /\ UNCHANGED <<now, height, notes, spent>> BY <1>6 DEF Sync, chain
  <2> QED BY <1>0, <2>1 DEF LockInv
<1>7. ASSUME NEW r \in Requests, Create(r) PROVE LockInv'
  <2> DEFINE x == KeyNote(pair, r, ApproximateBlockAt(TimelockAt[r]), synced, now)
  <2>1. r \in Creates /\ synced # None /\ notes' = notes \cup {x} /\ synced' = None /\ UNCHANGED <<now, height, spent>> BY <1>7 DEF Create
  <2>2. TimelockAt[r] \in Nat /\ now \in Nat /\ synced \in Nat /\ PerBlock \in Nat \ {0}
    BY <1>0, <2>1, BoundsAssumption, RequestAssumption DEF LockInv
  <2>3. /\ x.kind = "key" /\ x.by = r /\ x.height = synced /\ x.clock = now
        /\ x.from = ApproximateBlockAt(TimelockAt[r])
    BY DEF KeyNote
  <2>4. x.from = synced + Blocks(TimelockAt[r] - now)
    <3>1. TimelockAt[r] > now <=> TimelockAt[r] - now > 0 BY <2>2
    <3> QED BY <2>3, <3>1 DEF ApproximateBlockAt
  <2>5. x.from \in Nat
    <3>1. TimelockAt[r] - now > 0 => (TimelockAt[r] - now) \div PerBlock \in Nat BY <2>2, BlockOf
    <3> QED BY <2>2, <2>4, <3>1
  <2> HIDE DEF x
  <2> QED BY <1>0, <2>1, <2>2, <2>3, <2>4, <2>5 DEF LockInv
<1>8. ASSUME Die \/ \E r \in Requests : Fail(r) PROVE LockInv'
  <2>1. synced' = None /\ UNCHANGED <<now, height, notes, spent>> BY <1>8 DEF Die, Fail, chain
  <2> QED BY <1>0, <2>1 DEF LockInv
<1> QED BY <1>0, <1>1, <1>2, <1>3, <1>4, <1>5, <1>6, <1>7, <1>8 DEF Next, Start, Serve

\* A key's note is consumed a block's time before the time it is locked to, or
\* earlier, only if the chain was faster than APPROX_SECONDS_PER_BLOCK since the
\* note was computed (miden.rs approximate_block_at, ensure_wallet_funded).
THEOREM KeptLocked == Spec => []EarlyOnlyWhenBlocksAreFast
<1>1. LockInv => EarlyOnlyWhenBlocksAreFast
  <2> SUFFICES ASSUME LockInv, NEW x \in spent, x.kind = "key", now <= TimelockAt[x.by] - PerBlock
               PROVE  (height - x.height) * PerBlock > now - x.clock
    BY DEF EarlyOnlyWhenBlocksAreFast
  <2>1. /\ x.by \in Creates /\ x.height \in Nat /\ x.clock \in Nat /\ x.clock <= now /\ now \in Nat /\ height \in Nat
        /\ x.from = x.height + Blocks(TimelockAt[x.by] - x.clock) /\ x.from <= height
    BY DEF LockInv
  <2>2. PerBlock \in Nat \ {0} /\ TimelockAt[x.by] \in Nat BY <2>1, BoundsAssumption, RequestAssumption
  <2>3. TimelockAt[x.by] - x.clock \in Nat /\ TimelockAt[x.by] - x.clock > 0 BY <2>1, <2>2
  <2>4. PICK d \in Nat : /\ d = (TimelockAt[x.by] - x.clock) \div PerBlock
                         /\ TimelockAt[x.by] - x.clock < d * PerBlock + PerBlock
    BY <2>3, BlockOf
  <2>5. d <= height - x.height BY <2>1, <2>3, <2>4 DEF Blocks
  <2>6. d * PerBlock <= (height - x.height) * PerBlock BY <2>1, <2>2, <2>5, MoreBlocksMoreTime
  <2>7. d * PerBlock \in Int /\ (height - x.height) * PerBlock \in Int BY <2>1, <2>2
  <2>8. now - x.clock < d * PerBlock
    <3>1. now - x.clock <= TimelockAt[x.by] - PerBlock - x.clock BY <2>1, <2>2
    <3> QED BY <2>1, <2>2, <2>4, <2>7, <3>1
  <2> QED BY <2>1, <2>6, <2>7, <2>8
<1> QED BY LockInit, LockStep, <1>1, PTL DEF Spec
=============================================================================
