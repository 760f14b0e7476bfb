------------------------------ MODULE Account ------------------------------
(***************************************************************************)
(* src/src/IpseityAccount.sol: the account a token owns (its Reach), the   *)
(* seal it can put on what it holds, and the keys its holder hands out.    *)
(*                                                                         *)
(* A call out of the account is a frame in flight: it begins (execute,     *)
(* executeBatch or executeAsSession, with the first call made), the world  *)
(* acts, a batch makes its next call, and the frame finishes.  A frame     *)
(* that would revert never finishes, and says nothing about the states     *)
(* between transactions.  Only a holder that is a program can call the     *)
(* account from inside a frame.                                            *)
(*                                                                         *)
(* The token, the assets and the parties outside are external: the token   *)
(* is sold by anybody's step, an asset moves or trusts somebody when the   *)
(* account's call asks it to, parties once trusted help themselves, and an *)
(* asset can stop answering balanceOf and ownerOf and answer again at any  *)
(* time.                                                                   *)
(***************************************************************************)
EXTENDS Integers, Sequences, Clock

CONSTANTS
    Reach,        \* the account's own address
    Owners,       \* other addresses that may hold the token
    Programs,     \* those of them with code, which a call can call back
    Keys,         \* addresses a session is granted to
    Fungibles,    \* ERC-20 contracts
    Pieces,       \* NFTs, each the one token of its collection
    Ether,        \* the native coin
    Outsiders,    \* other contracts, called or trusted
    NoOne,
    MaxSeal,      \* MAX_SEAL
    MaxSession,   \* MAX_SESSION
    MaxManifest,  \* MAX_MANIFEST
    MaxPieces,    \* MAX_PIECES
    MaxBatch,     \* MAX_BATCH
    TargetLists,  \* bound: the target lists a grant names
    WordLists,    \* bound: the selector lists a grant names
    Caps,         \* bound: spend caps
    Values,       \* bound: ether sent with a call
    MaxHeld,      \* bound: what is delivered of one thing
    MaxEpoch,     \* bound: grants and revocations of one key
    MaxXfers      \* bound: sales, below the saturation of Stats.xfers

Assets == Fungibles \cup Pieces
Things == Assets \cup {Ether}
Targets == Assets \cup Outsiders
Words == {"transfer", "approve", "other"}

ASSUME AccountAssumption ==
    /\ Reach \notin Owners
    /\ NoOne \notin Owners \cup Keys \cup Targets \cup {Reach}
    /\ Ether \notin Assets
    /\ Fungibles \cap Pieces = {}
    /\ TargetLists \subseteq SUBSET Targets
    /\ WordLists \subseteq SUBSET Words
    /\ Caps \subseteq Nat
    /\ Values \subseteq Nat
    /\ {MaxSeal, MaxSession, MaxManifest, MaxPieces, MaxBatch} \subseteq Nat
    /\ {MaxHeld, MaxEpoch, MaxXfers} \subseteq Nat

VARIABLES
    holder,          \* ownerOf(tokenId)
    xfers,           \* statsOf(tokenId).xfers
    sealedUntil,
    manifest,        \* _manifest, whose order the measurements follow
    onManifest,
    pieces,          \* _pieces
    holds,           \* the account's balance of each thing
    readable,        \* the assets that answer about it
    granted,         \* <<asset, party>>: what the account's calls gave others
    sessionOf,
    sessionEpoch,
    sessionTarget,   \* _sessionTarget, as the <<key, epoch, target>> set to true
    sessionSelector, \* _sessionSelector, likewise
    frame,           \* the call in flight, _entered and _measuring with it
    allowed,         \* history: what the present holder allows each key
    floor            \* history: what the seal promises of each thing

tokenVars == <<holder, xfers>>
sealVars == <<sealedUntil, manifest, onManifest, pieces>>
worldVars == <<holds, readable, granted>>
sessionVars == <<sessionOf, sessionEpoch, sessionTarget, sessionSelector, allowed>>
accountVars == <<now, tokenVars, sealVars, worldVars, sessionVars, frame, floor>>

\* approve stands for the words that name a spender (approve,
\* increaseAllowance, setApprovalForAll, Permit2's approve), transfer for
\* transfer and transferFrom, other for every other selector.
Call ==
    [to : Targets, word : {"transfer", "other"}, value : Values, spender : {NoOne}]
    \cup [to : Targets, word : {"approve"}, value : Values, spender : Outsiders]

NoFrame == [entered |-> FALSE, locked |-> FALSE, key |-> NoOne, pre |-> <<>>,
            seen |-> <<>>, ether |-> 0, made |-> 0, to |-> NoOne, word |-> "other",
            spender |-> NoOne]

NoSession == [expires |-> 0, spendCap |-> 0, spent |-> 0, active |-> FALSE, mark |-> 0]

NothingAllowed == [live |-> FALSE, by |-> NoOne, expires |-> 0, cap |-> 0, out |-> 0,
                   targets |-> {}, words |-> {}]

-----------------------------------------------------------------------------
IsSealed == sealedUntil > now

\* The account calls nothing of its own, so an account that holds its own
\* token has no signer left.
IsSigner(c) == c = holder /\ (frame.entered => c \in Programs)

NotMeasuring == ~(frame.entered /\ frame.locked)

Listed(a) == \E i \in DOMAIN pieces : pieces[i] = a
Promised(a) == a \in onManifest \/ Listed(a)

-----------------------------------------------------------------------------
(* The seal, and the two lists under it.                                   *)

Seal(c, until) ==
    /\ IsSigner(c)
    /\ until > now
    /\ until > sealedUntil
    /\ until <= now + MaxSeal
    /\ sealedUntil' = until
    /\ UNCHANGED <<now, tokenVars, manifest, onManifest, pieces, worldVars, sessionVars, frame>>

Guard(c, a) ==
    /\ IsSigner(c)
    /\ NotMeasuring
    /\ a \notin onManifest
    /\ Len(manifest) < MaxManifest
    /\ onManifest' = onManifest \cup {a}
    /\ manifest' = Append(manifest, a)
    /\ UNCHANGED <<now, tokenVars, sealedUntil, pieces, worldVars, sessionVars, frame>>

\* The last entry takes the place of the one that leaves.
Without(s, i) == [j \in 1..Len(s) - 1 |-> IF j = i THEN s[Len(s)] ELSE s[j]]

MayLeave(a) == NotMeasuring /\ a \in onManifest /\ (IsSealed => a \notin readable)

Unguard(c, a) ==
    /\ IsSigner(c)
    /\ MayLeave(a)
    /\ \E i \in DOMAIN manifest :
          /\ manifest[i] = a
          /\ \A j \in 1..i - 1 : manifest[j] # a
          /\ manifest' = Without(manifest, i)
    /\ onManifest' = onManifest \ {a}
    /\ UNCHANGED <<now, tokenVars, sealedUntil, pieces, worldVars, sessionVars, frame>>

\* _ownerOfPiece answers the account.
Holding(p) == p \in readable /\ holds[p] > 0

GuardNFT(c, p) ==
    /\ IsSigner(c)
    /\ NotMeasuring
    /\ Len(pieces) < MaxPieces
    /\ Holding(p)
    /\ pieces' = Append(pieces, p)
    /\ UNCHANGED <<now, tokenVars, sealedUntil, manifest, onManifest, worldVars, sessionVars, frame>>

UnguardNFT(c, i) ==
    /\ IsSigner(c)
    /\ NotMeasuring
    /\ IsSealed => ~Holding(pieces[i])
    /\ pieces' = Without(pieces, i)
    /\ UNCHANGED <<now, tokenVars, sealedUntil, manifest, onManifest, worldVars, sessionVars, frame>>

-----------------------------------------------------------------------------
(* Keys.                                                                   *)

EpochAfter(k) == [sessionEpoch EXCEPT ![k] = @ + 1]

GrantSession(c, k, expires, cap, targets, words) ==
    /\ IsSigner(c)
    /\ k # Reach
    /\ expires <= now + MaxSession
    /\ sessionEpoch[k] < MaxEpoch
    /\ sessionEpoch' = EpochAfter(k)
    /\ sessionOf' = [sessionOf EXCEPT ![k] =
          [expires |-> expires, spendCap |-> cap, spent |-> 0, active |-> TRUE, mark |-> xfers]]
    /\ sessionTarget' = sessionTarget \cup {<<k, sessionEpoch'[k], t>> : t \in targets}
    /\ sessionSelector' = sessionSelector \cup {<<k, sessionEpoch'[k], w>> : w \in words}
    /\ allowed' = [allowed EXCEPT ![k] =
          [live |-> TRUE, by |-> c, expires |-> expires, cap |-> cap, out |-> 0,
           targets |-> targets, words |-> words]]
    /\ UNCHANGED <<now, tokenVars, sealVars, worldVars, frame>>

RevokeSession(c, k) ==
    /\ IsSigner(c)
    /\ sessionEpoch[k] < MaxEpoch
    /\ sessionEpoch' = EpochAfter(k)
    /\ sessionOf' = [sessionOf EXCEPT ![k] = NoSession]
    /\ allowed' = [allowed EXCEPT ![k] = NothingAllowed]
    /\ UNCHANGED <<now, tokenVars, sealVars, worldVars, sessionTarget, sessionSelector, frame>>

BadKeyIsCurrent(k) == sessionOf[k].active /\ sessionOf[k].expires >= now
KeyIsCurrent(k) ==
    /\ sessionOf[k].active
    /\ sessionOf[k].expires >= now
    /\ sessionOf[k].mark = xfers

OnTargets(k, t) == <<k, sessionEpoch[k], t>> \in sessionTarget
OnSelectors(k, w) == <<k, sessionEpoch[k], w>> \in sessionSelector

WithinTerms(k, call) ==
    /\ OnTargets(k, call.to)
    /\ OnSelectors(k, call.word)
    /\ call.word = "approve" => OnTargets(k, call.spender)
    /\ call.value # 0 => sessionOf[k].spent + call.value <= sessionOf[k].spendCap

-----------------------------------------------------------------------------
(* Acting.  A frame is locked, or not, for its whole length, by the seal   *)
(* at its beginning.                                                       *)

Seen == [i \in DOMAIN manifest |-> manifest[i] \in readable]
Measured == [i \in DOMAIN manifest |-> IF manifest[i] \in readable THEN holds[manifest[i]] ELSE 0]

BadSafe(call, seen) ==
    /\ call.value = 0
    /\ Promised(call.to) => call.word = "transfer"
Safe(call, seen) ==
    /\ call.value = 0
    /\ Promised(call.to) => call.word = "transfer"
    /\ \A i \in DOMAIN manifest : manifest[i] = call.to => seen[i]

Paid(call) == call.value <= holds[Ether]

SendValue(call) ==
    /\ Paid(call)
    /\ holds' = [holds EXCEPT ![Ether] = @ - call.value]

Enter(key, call) ==
    /\ ~frame.entered
    /\ IsSealed => Safe(call, Seen)
    /\ SendValue(call)
    /\ frame' = [entered |-> TRUE, locked |-> IsSealed, key |-> key,
                 pre |-> IF IsSealed THEN Measured ELSE <<>>,
                 seen |-> IF IsSealed THEN Seen ELSE <<>>,
                 ether |-> IF IsSealed THEN holds[Ether] ELSE 0,
                 made |-> 1, to |-> call.to, word |-> call.word, spender |-> call.spender]

ExecuteAsHolder(c, call) ==
    /\ IsSigner(c)
    /\ Enter(NoOne, call)
    /\ UNCHANGED <<now, tokenVars, sealVars, readable, granted, sessionVars>>

ExecuteAsSession(k, call) ==
    /\ holder # Reach
    /\ KeyIsCurrent(k)
    /\ WithinTerms(k, call)
    /\ sessionOf' = [sessionOf EXCEPT ![k].spent = @ + call.value]
    /\ Enter(k, call)
    /\ allowed' = [allowed EXCEPT ![k].out = @ + call.value]
    /\ UNCHANGED <<now, tokenVars, sealVars, readable, granted, sessionEpoch, sessionTarget,
                   sessionSelector>>

\* The next call of a batch: what has been measured is measured for all of it.
NextCall(call) ==
    /\ frame.entered
    /\ frame.key = NoOne
    /\ frame.made < MaxBatch
    /\ frame.locked => Safe(call, frame.seen)
    /\ SendValue(call)
    /\ frame' = [frame EXCEPT !.made = @ + 1, !.to = call.to, !.word = call.word,
                              !.spender = call.spender]
    /\ UNCHANGED <<now, tokenVars, sealVars, readable, granted, sessionVars>>

Verified ==
    /\ \A i \in DOMAIN manifest : frame.seen[i] =>
          manifest[i] \in readable /\ holds[manifest[i]] >= frame.pre[i]
    /\ holds[Ether] >= frame.ether
    /\ \A i \in DOMAIN pieces : Holding(pieces[i])

Finish ==
    /\ frame.entered
    /\ frame.locked => Verified
    /\ frame' = NoFrame
    /\ UNCHANGED <<now, tokenVars, sealVars, worldVars, sessionVars>>

-----------------------------------------------------------------------------
(* The world.                                                              *)

Asked(a) == frame.entered /\ frame.to = a

\* The asset that is being called pays out.
Leaves(a, n) ==
    /\ Asked(a)
    /\ frame.word \in {"transfer", "other"}
    /\ n <= holds[a]
    /\ holds' = [holds EXCEPT ![a] = @ - n]
    /\ UNCHANGED <<now, tokenVars, sealVars, readable, granted, sessionVars, frame>>

\* The asset that is being called trusts a party with it, or no longer does.
Trusts(a, p) ==
    /\ Asked(a)
    /\ \/ frame.word = "approve" /\ frame.spender = p
       \/ frame.word = "other"
    /\ \/ granted' = granted \cup {<<a, p>>}
       \/ granted' = granted \ {<<a, p>>}
    /\ UNCHANGED <<now, tokenVars, sealVars, holds, readable, sessionVars, frame>>

Helps(a, p, n) ==
    /\ <<a, p>> \in granted
    /\ n <= holds[a]
    /\ holds' = [holds EXCEPT ![a] = @ - n]
    /\ UNCHANGED <<now, tokenVars, sealVars, readable, granted, sessionVars, frame>>

Arrives(x, n) ==
    /\ holds[x] + n <= IF x \in Pieces THEN 1 ELSE MaxHeld
    /\ holds' = [holds EXCEPT ![x] = @ + n]
    /\ UNCHANGED <<now, tokenVars, sealVars, readable, granted, sessionVars, frame>>

Blinks(a) ==
    /\ readable' = IF a \in readable THEN readable \ {a} ELSE readable \cup {a}
    /\ UNCHANGED <<now, tokenVars, sealVars, holds, granted, sessionVars, frame>>

Sale(to) ==
    /\ xfers < MaxXfers
    /\ holder' = to
    /\ xfers' = xfers + 1
    /\ allowed' = [k \in Keys |-> NothingAllowed]
    /\ UNCHANGED <<now, sealVars, worldVars, sessionOf, sessionEpoch, sessionTarget,
                   sessionSelector, frame>>

AccountTick ==
    /\ ~frame.entered
    /\ Passes
    /\ UNCHANGED <<tokenVars, sealVars, worldVars, sessionVars, frame>>

-----------------------------------------------------------------------------
AccountDeployed ==
    /\ holder \in Owners
    /\ xfers = 0
    /\ sealedUntil = 0
    /\ manifest = <<>>
    /\ onManifest = {}
    /\ pieces = <<>>
    /\ holds = [x \in Things |-> 0]
    /\ readable = Assets
    /\ granted = {}
    /\ sessionOf = [k \in Keys |-> NoSession]
    /\ sessionEpoch = [k \in Keys |-> 0]
    /\ sessionTarget = {}
    /\ sessionSelector = {}
    /\ frame = NoFrame
    /\ allowed = [k \in Keys |-> NothingAllowed]
    /\ floor = [x \in Things |-> 0]

AccountInit == now = 0 /\ AccountDeployed

HolderStep(c) ==
    \/ \E until \in 0..MaxTime : Seal(c, until)
    \/ \E a \in Assets : Guard(c, a) \/ Unguard(c, a)
    \/ \E p \in Pieces : GuardNFT(c, p)
    \/ \E i \in DOMAIN pieces : UnguardNFT(c, i)
    \/ \E k \in Keys : RevokeSession(c, k)
    \/ \E k \in Keys, expires \in 0..MaxTime, cap \in Caps, ts \in TargetLists, ws \in WordLists :
          GrantSession(c, k, expires, cap, ts, ws)
    \/ \E call \in Call : ExecuteAsHolder(c, call)

FrameStep ==
    \/ \E call \in Call : NextCall(call)
    \/ \E k \in Keys, call \in Call : ExecuteAsSession(k, call)
    \/ Finish

WorldStep ==
    \/ \E a \in Assets, n \in 1..MaxHeld : Leaves(a, n)
    \/ \E a \in Assets, p \in Outsiders : Trusts(a, p)
    \/ \E a \in Assets, p \in Outsiders, n \in 1..MaxHeld : Helps(a, p, n)
    \/ \E x \in Things, n \in 1..MaxHeld : Arrives(x, n)
    \/ \E a \in Assets : Blinks(a)
    \/ \E to \in Owners \cup {Reach} : Sale(to)
    \/ AccountTick

\* What the seal stands for between transactions.  A thing is pledged once it
\* is under a running seal with nobody else able to take it; the pledge grows
\* with what arrives, and ends with the seal, or when the thing leaves the
\* lists between calls.
Covers(x) == x = Ether \/ Promised(x)
Alone(x) == \A p \in Outsiders : <<x, p>> \notin granted

Pledge(x) ==
    IF frame'.entered THEN floor[x]
    ELSE IF ~IsSealed' \/ (~Covers(x)' /\ ~frame.entered) THEN 0
    ELSE IF Covers(x)' /\ Alone(x)' /\ holds'[x] > floor[x] THEN holds'[x]
    ELSE floor[x]

AccountNext ==
    /\ (\E c \in Owners : HolderStep(c)) \/ FrameStep \/ WorldStep
    /\ floor' = [x \in Things |-> Pledge(x)]

AccountSpec == AccountInit /\ [][AccountNext]_accountVars

-----------------------------------------------------------------------------
(* Properties.                                                             *)

Frame == [entered : BOOLEAN, locked : BOOLEAN, key : Keys \cup {NoOne}, pre : Seq(Nat),
          seen : Seq(BOOLEAN), ether : Nat, made : Nat, to : Targets \cup {NoOne},
          word : Words, spender : Outsiders \cup {NoOne}]

Session == [expires : Nat, spendCap : Nat, spent : Nat, active : BOOLEAN, mark : Nat]

Grant == [live : BOOLEAN, by : Owners \cup {NoOne}, expires : Nat, cap : Nat, out : Nat,
          targets : SUBSET Targets, words : SUBSET Words]

AccountTypeOK ==
    /\ now \in 0..MaxTime
    /\ holder \in Owners \cup {Reach}
    /\ xfers \in 0..MaxXfers
    /\ sealedUntil \in Nat
    /\ manifest \in Seq(Assets)
    /\ onManifest \subseteq Assets
    /\ pieces \in Seq(Pieces)
    /\ holds \in [Things -> Nat]
    /\ readable \subseteq Assets
    /\ granted \subseteq Assets \X Outsiders
    /\ sessionOf \in [Keys -> Session]
    /\ sessionEpoch \in [Keys -> 0..MaxEpoch]
    /\ sessionTarget \subseteq Keys \X (0..MaxEpoch) \X Targets
    /\ sessionSelector \subseteq Keys \X (0..MaxEpoch) \X Words
    /\ frame \in Frame
    /\ allowed \in [Keys -> Grant]
    /\ floor \in [Things -> Nat]

\* Between transactions the account holds at least what its seal stands for:
\* through any number of calls, batches, calls from inside a call, sessions
\* and sales, and while assets stop answering and answer again.
TheFloorHolds == ~frame.entered => \A x \in Things : holds[x] >= floor[x]

\* The manifest's list and its map say the same, each asset once.
ManifestExact ==
    /\ onManifest = {manifest[i] : i \in DOMAIN manifest}
    /\ \A i, j \in DOMAIN manifest : manifest[i] = manifest[j] => i = j

\* A key acts only on the word of the one who holds the token now and has held
\* it ever since, within what that holder allowed it last: its targets, its
\* words, the spenders it may trust, its date and its ether.
KeysServeTheirGrantor ==
    [][\A k \in Keys : ~frame.entered /\ frame'.entered /\ frame'.key = k =>
          /\ allowed[k].live
          /\ allowed[k].by = holder
          /\ now <= allowed[k].expires
          /\ frame'.to \in allowed[k].targets
          /\ frame'.word \in allowed[k].words
          /\ frame'.word = "approve" => frame'.spender \in allowed[k].targets
          /\ allowed'[k].out <= allowed[k].cap]_accountVars

\* Inside a measured frame the lists stand still, what was measured is no less
\* than what the seal stands for, and what could not be measured is not called.
MeasureInv == frame.entered /\ frame.locked =>
    /\ Len(frame.pre) = Len(manifest)
    /\ Len(frame.seen) = Len(manifest)
    /\ Promised(frame.to) => frame.word = "transfer"
    /\ \A i \in DOMAIN manifest :
          /\ manifest[i] = frame.to => frame.seen[i]
          /\ frame.seen[i] => frame.pre[i] >= floor[manifest[i]]
          /\ ~frame.seen[i] => holds[manifest[i]] >= floor[manifest[i]]
    /\ frame.ether >= floor[Ether]

\* The seal stands for a thing only while it runs, for things on its lists
\* that nobody else can take, and only in frames that are measured.
FloorInv ==
    /\ \A p \in Pieces : holds[p] <= 1 /\ floor[p] <= 1
    /\ \A x \in Things : floor[x] > 0 =>
          /\ IsSealed
          /\ Covers(x)
          /\ Alone(x)
          /\ frame.entered => frame.locked

\* A session whose mark is the token's count of sales is what the present
\* holder allowed last, lists included.
KeyInv == \A k \in Keys :
    /\ sessionOf[k].mark <= xfers
    /\ sessionOf[k].active /\ sessionOf[k].mark = xfers =>
          /\ allowed[k].live
          /\ allowed[k].by = holder
          /\ allowed[k].expires = sessionOf[k].expires
          /\ allowed[k].cap = sessionOf[k].spendCap
          /\ allowed[k].out = sessionOf[k].spent
          /\ allowed[k].out <= allowed[k].cap
          /\ \A t \in Targets : OnTargets(k, t) => t \in allowed[k].targets
          /\ \A w \in Words : OnSelectors(k, w) => w \in allowed[k].words
    /\ \A e \in 0..MaxEpoch :
          /\ \A t \in Targets : <<k, e, t>> \in sessionTarget => e <= sessionEpoch[k]
          /\ \A w \in Words : <<k, e, w>> \in sessionSelector => e <= sessionEpoch[k]
=============================================================================
