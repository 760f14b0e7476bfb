# Ipseity in TLA+

A verification development for the contracts under `src/`, for the workbench in the
browser that signs transactions and runs modules (`web/modules/`,
`packages/modules/`), for the messaging client the pages carry (`src/DeskTalk.sol`),
and for the tool that deploys the contracts (`tools/deploy-sepolia.mjs`): TLA+ modules translated from the source, TLC
configurations that check them on small instances, and TLAPS proofs of what holds
for every instance. Paths are relative to the repository's root; a bare file name
with a number is a line of that file. PROJECT.json puts `src/` before each path.

## The system

Ipseity is an ERC-721 collection whose tokens are instruments. A token has a
*section* (the picture), an ERC-4907 user, an ERC-5192 bolt, an encrypted kernel
(ERC-7857), an account of its own (ERC-6551, the *Reach*) and a second one that
only receives (the *Grip*). Around the collection ("the hub") stand companion
contracts that own no privilege in it: they see the hub through its views and act
on it as ordinary callers, through an approval or an agency the holder gave them.

| component | state it keeps | operations |
|---|---|---|
| Hub, `src/Ipseity.sol` | owner, approvals, operators, user record and its epoch, lease agent, bolt; enumeration lists; section, instruments, statistics; kernel, usage rights, owner epoch; curator, prices, royalty | mint, approve, transfer, setUser, setUserVia, setLeaseAgent, lock, unlock; commit, openNode, setTrait, record, pin; sealKernel, transferWithKernel, cloneWithKernel, authorizeUsage; the curator's calls |
| Lease, `src/Lease.sol` | terms, the lease in the slot, rent earned and owed | list, delist, rent, settle, endLease, collect, claim, status |
| Consign, `src/Consign.sol` | the note, money owed | consign, ask, buy, reclaim, release, withdraw |
| Succession, `src/Succession.sol` | the plan and its two clocks, the heirs' lists | arrange, revoke, stillHere, summon, claim, wouldPass |
| Locker, `src/Locker.sol` | locks, an index of them, a total per coin | lock, lockWithPermit, claim, give, extend |
| Timelock, `src/lib/Timelock.sol` | admin, the queue | queue, execute, cancel, setAdmin |
| Pool, `src/Pool.sol`, `src/lib/Curve.sol` | one market per token: pair, reserves, curve offsets, bond; fees; the list of open markets; a pause and an allowlist | openMarket, closeMarket, setFee, bond, deposit, withdraw, swap, syncCurve, the admin's calls |
| IpseityAccount, `src/IpseityAccount.sol` | the seal, the manifest and the guarded pieces, sessions and their epochs, the attestation nonce | execute, executeBatch, executeAsSession, seal, guard, unguard, guardNFT, unguardNFT, grantSession, revokeSession |
| GripVault, `src/GripVault.sol` | none | receives only |
| Parley, Roster | rooms, membership, invitations, message chain, sealing keys | speak, whisper, found, invite, join, leave, evict, announce |
| Modules, `src/modules/` | releases, archives, per-token installations and state records | publish, createArchive, activate, writeState, disable, stageState |
| Kiln, Facet | coins launched, hooks deployed | launch, deployHook, hook call-backs |
| Site: pages, desks, renderer, premises | the renderer's parts | views |
| Talk, the script in `src/DeskTalk.sol` | the room, the newest message seen, a paint under way | become, paint, back, watch |
| Workbench, `web/modules/` | the wallet's link and the plan it holds; the review on display; selection, generation, frame and session; drafts in browser storage | connect, refresh, choose, launch, review, confirm, disconnect; a session's requests, heartbeat and time limit |
| Deployment, `tools/deploy-sepolia.mjs` | the output and the journal on disk; a process's nonce, step and receipts | preflight, open the files, check, sign, broadcast, poll, verify, read again |
| Client engine, console, other tools | browser state; none | rendering; building the contracts, driving them on a local chain |

How they interact. Lease calls `setUserVia` as the token's lease agent; Consign
takes title by a transfer and lends the use back with `setUser`; Succession moves
a token at the end of its clocks through a standing approval. None of the three is
told when the hub changes: each finds out when it is next called. Locker and Pool
call coins that may call anything back. The accounts ask the hub who holds their
token at every call.

Parley keeps no message in storage: a message is a log that points at the block of the
one before it, and a room remembers the block of its newest. The messaging client in
the pages reads a room by following those pointers, through a node.

The workbench reads the chain through a node, holds one plan at a time in its
wallet object, and asks the person's wallet to sign it; what is signed runs through
the token's account into the module registry, which applies it only under the root
and the epoch it was built on. A module runs in an isolated frame that reaches the
page through a session's requests alone. The deployment tool sends a fixed list of
transactions from one key and keeps a journal that outlives the process.

What is hard in the contracts is not a lock or a thread. Transactions are atomic
and come in one order; the difficulty is that nobody chooses the order. State one
contract keeps about another goes stale between two calls (a lease whose token was
sold, a plan whose holder came back); money moves between several ledgers of one
contract on calls that anybody may make late or never; foreign code runs inside a
call; and promises are kept by block times with boundaries to get wrong. A failed
call leaves no trace.

What is hard in the JavaScript is everything the chain spares the contracts. Every
`await` is a gap in which the person clicks again, the wallet changes account, the
token is sold, a session closes. Nothing serialises two clicks: the code tells a
late answer by a revision, a generation or a closed flag, and it matters which of
them is looked at and when. Calls are answered late, out of order or not at all;
the deployment tool may die at any line, and the chain it reads may forget what it
said.

## Plan

In order, the most important behaviour first. Done: 1 to 13, with the proofs of
all their safety properties.

1. `Custody`: the part of the hub the companions see. Everything else that
   composes with the hub extends it.
2. `Lease`, extends `Custody`.
3. `Succession`, extends `Custody`.
4. `Consign`, extends `Custody`.
5. `Timelock`: alone.
6. `Locker`: alone, with the coins' call-backs as steps.
7. `Collection`, extends `Custody`: enumeration by swap-and-pop, kernel and usage
   rights; proved to implement `HubSpec`.
8. `Review`, from a click to the registry; it implements `OneShot`.
9. `Workbench`: selection, launch and the frame's session.
10. `Deploy`: the public deployment over a chain that reorganises.
11. `Account`: the seal and the measured manifest with call-backs; sessions across
    sales.
12. `Archive` and `Parley`: the chain of messages, and the rooms that implement it.
13. `Talk`, extends `Archive`: reading a room while the chain goes on.

Not done, in the order they are worth doing:

14. `Pool`, with `Curve`'s amounts abstracted to what the properties tell apart and
    the coins' call-backs as steps; `Curve`'s arithmetic as a module of pure
    operators checked against the exact formula; the list of open markets refines a
    set, the deposits a ledger.
15. `Review` and `Workbench` as one model, with module proposals, the state journal
    and draft migration: what connects them today is only that a proposal closes
    the frame.
16. `Estate`: Lease, Consign and Succession together on one hub, for what one
    companion's transfer does to another's books (a leased token consigned, a
    consigned token with a plan).
17. The state store, releases and cartridges of the module platform; the rest of the
    hub (the curator's two-step handover and the renderer's seal).

Abstract specifications: `HubSpec`, which `Collection` implements, `OneShot`, which
`Review` implements, and `ArchiveSpec`, which `Parley` implements. All three
refinements are proved.

## Modules

Each `MC` module holds the model values of the instances; each `.cfg` is one run.
Definitions named `Bad...` are faulty variants of the definition they precede: no
specification uses them, and substituting one for the other shows that a property
can fail.

A specification that can stand beside others has its initial state in two parts:
`...Deployed` says how the contract's own storage begins, `...Init` adds the clock.

Two small modules are shared. `Clock` is block.timestamp for the contracts that do
not extend the hub (`Timelock`, `Locker`, `Account`), and the block's number for
`Archive`, whose block is one more than the clock; `Custody` has a clock of its own. `Totals`
defines `Total`, what a mapping's entries add up to (`Lease`, `Consign`, `Locker`).
No contract keeps that sum; `obligations` in Lease.sol adds up the entries it is
handed. It is what a balance has to cover. It is the number of units counted one by
one, and not a fold over the entries, so that what a write does to it follows from
the theorems about finite sets.

### Custody

State: `now` (block.timestamp), `ownerOf`, `getApproved`, `isApprovedForAll` (as
the set of grants in force), `users` (`_users`, kept after it expires),
`userEpoch`, `leaseAgentOf`, `locked`, and `batching`, the tokens whose account is
inside `executeBatch`. One action per call; the first parameter is `msg.sender`. The modifiers are the guards `IsOwner` and `IsHolder`. An address is
a person, a companion contract, a token's account or a token's grip; the accounts
and grips are distinct from the rest, as CREATE2 addresses are. `CanAct` says who
can originate a call: a person, or a token's account while somebody may sign for it
(`HasSignatory`) or while it is inside a batch. An owner that is the account of
another token counts as somebody even where nobody signs for that one, because the
session keys it gave out act on (`executeAsSession` asks the owner for nothing but not
to be the account itself). An account whose token sits in itself, a grip, a contract or
nowhere begins nothing.

A batch is the one call that is not a step. `executeBatch` asks `onlySigner` once,
before its loop, so `BeginBatch` opens it, the account's calls follow one by one
whoever owns the token by then, and `EndBatch` closes it. Other callers' steps may
fall in between; the code allows that as far as the called contracts make the calls,
so the model has every order of the code and some more. A mint goes to any address, as `mintTo` does;
prices and the supply limit do not matter to custody and are left out.

Overflow is out of reach for the counters (a uint256 of transfers), so epochs are
bounded by `MaxEpoch` and not wrapped.

### Collection

The calls `Custody` only half describes, whole. `Issue` numbers a token and puts
it in its owner's list; `Transfer` is `TransferFrom` with the two list operations
and the owner epoch; `MintTo`, `CloneWithKernel` and `TransferWithKernel` are built
from them as in the code. `owned` holds `_ownedTokens`, `_ownedIndex` and
`_balanceOf`; `Added` and `Removed` are `_add` and `_remove` as operators on it, so
that a lemma can be stated about each. A list is a function on positions with 0 past
its end, which is what a Solidity mapping is.

The chain knows a kernel's payload by hashes alone and cannot say what they stand
for. The model can: a payload is a content sealed to somebody, a holder's own
sealing is any of them, and the verifier (external) accepts exactly a proof that
the payload named in it was sealed again, unread, to the recipient. `hasVerifier`
says whether the curator has appointed one. `granted` is a history: the rights of
use given in the present tenure.

### Lease, Succession, Consign

Each extends `Custody`, adds its contract's state, and interleaves its own calls
with every hub call (`HubStep`). Its calls into the hub use the hub's operators
with the contract's address as the caller, so the hub's guards apply to it: a
plan's claim fails on a bolted token because `TransferFrom` does.

A call that sends ether is one step. In all three contracts every write precedes
the sending (`collect`, `claim`, `buy`, `withdraw`), and the calls that move money
share a lock, so whatever the receiver does inside its call-back is what it could
have done right after. The model therefore allows those calls as later steps.

`Lease` adds a history variable no action reads, `brokeAt`: when the user record a
lease installed was first written over. `Succession` adds `spokeAt`, when the owner
last called it. They exist to state what the code is supposed to achieve without
referring to how it tries.

In `Consign`, a buyer names the price they agreed to, which is any price: they may have
read it under an earlier ask or an earlier note (`PriceStands` is the PriceMoved check).
The hub's royalty answer is any of a small set at each sale, because
the curator may change it between sales.

### Locker

`lock` and `claim` call the coin, and the coin may call back. A call is therefore
two steps, `Begin...` and `Finish...`, and `calls` is the stack of calls in flight
with what each holds in memory: `before` is the balance measured before the pull.
Between the two any unguarded call can be made (`Give`, `Extend`: neither has the
`nonReentrant` modifier) and coins may arrive (`Deliver`). `lock` and `claim` are
guarded by `Entered`, so the stack is never deeper than one unless that guard is
lost. `lockWithPermit` is `lock` with one more foreign call before it, which finds
the state a call made just before would find. Coins are external: they may deliver
anything at any time, and take only what is sent. A failed call has no step at
all, so an unfinished call is simply one the traces never finish.

### Timelock

An operation is a model value standing for `opHash`. `Rotates` gives the argument
of those that call `setAdmin` on the timelock: a person, the timelock itself
(after which nobody can be admin), or zero, which `setAdmin` refuses and so undoes
the execution. Histories: `announcedAt`, `announced`, `ran`.

### Account

State: the token's holder and its count of sales (`holder`, `xfers`, external), the
seal (`sealedUntil`), its two lists (`manifest` with the map `onManifest`, `pieces`),
the sessions with their epochs, targets and selectors, and `frame`, the call in
flight with `_entered`, `_measuring` and what was measured before it. `holds`,
`readable` and `granted` are the world: the account's balances, which assets answer
when asked, and whom the account's own calls made an asset trust.

A call out of the account begins (`ExecuteAsHolder`, `ExecuteAsSession`), a batch
makes its next call (`NextCall`), and it is verified and over (`Finish`). Between
those steps the called asset pays out or trusts somebody (`Leaves`, `Trusts`), a
trusted party helps itself (`Helps`), things arrive, assets stop answering and answer
again (`Blinks`), the token is sold (`Sale`), and a holder that is a program calls the
account back. A frame that would revert never finishes: `TheFloorHolds` speaks of the
states between transactions, and what happened in such a frame is in none of them.

Selectors are three words, which is what `_refuseUnlessSafe` and the session's checks
tell apart. A piece is the one token of its collection. `allowed` and `floor` are
histories: what the present holder allows each key, and what the seal stands for of
each thing. `Pledge` defines the latter from what the header of the contract promises
and not from what the code measures.

### Archive and Parley

`Archive` is `_say`: the log, the room's head and count, the token's own head, over a
block number. `Parley` extends it with the rooms and their doors. `Speak` and
`Whisper` are who may say something, and reach the log only through `Say`; `Found`,
`Invite`, `Join`, `Leave` and `Evict` are the calls of those names, `EnterRoom`,
`Depart` and `Remembered` the internal functions `_enter`, the two lines `leave` and
`evict` share, and `_remember`. A room key is a hash of a kind and numbers, so here a
tuple of them; different rooms have different keys. `mayActAs` is the holder or the
token's account, never the renter, and the hub moves a token at any time and to any
address but its own account (`HubMoves`). `Announce` publishes a sealing key, which
`keyOf` hides as soon as the holder changes. Histories: `shownOut`, `published`.

### Talk

The part of the page's script that reads, on a page about one room (`TRoom`) or about
two tokens (a `/dm` page, whose room depends on which token is speaking). Every
await is a call in flight: `walk` is the walk of `back` with its local variables,
`asked` the calls of `pairKey` in `become`, `polled` those of `heads` in `watch`. An
answer is a step of its own (`HeadArrives`, `LogsArrive`, `PairArrives`,
`HeadsArrive`), and so is a failure. A read sees the mined blocks (`Mined`) and a node
gives all the logs of a mined block. `paint` does nothing while `BUSY`. Messages
are indices into the archive, and `shown` is the last walk that reached the screen.

### Review and OneShot

`Review` follows one action of the module registry from the click to the chain.
Its constants are the clicks: a *task* is one of them, and its plan bears its name.
Every `await` is two steps. `Answer` is the moment the node reads the chain (or the
call fails, or `wallet.assertOwner` finds another account selected and unlinks the
wallet); the action named for the stage is the moment the code goes on with that
answer. `run()` in app.mjs counts tasks and does not serialise them, so nothing
orders one task's steps and another's.

| variable | in the code |
|---|---|
| `chain` | what a coherent snapshot shows: owner, owner epoch, registry root, the account's action nonce |
| `wallet` | the account selected in the wallet; `address`, `revision` and `plan` of `IpseityWallet` |
| `desk` | app.mjs's `review` (`current`), its dialog and button, the page's `identity` |
| `task` | the stage, the answer in hand, the intent, the plan, the `ReviewedAction`'s revision and pending confirmation |
| `pool`, `fate` | transactions signed and waiting; what became of each |

`ReviewedAction` has a revision of its own; the model needs only whether it moved
since `review()` began, which is `live`. `begun`, `shown`, `since` and `fate` are
histories. A plan expires (`Age`) at any moment after it was made. `Mine` is
`IpseityAccount.execute` into the registry: the owner of the moment, then
`Authorize`.

`OneShot` says what a review promises of a plan and nothing of how: it is made,
held, taken against a confirmation, then signed or dropped; only one is held, a
confirmation lets at most one through, and no plan comes back. `Review` implements
it under the mapping `Stand`. Confirmations are counted and not matched with
plans, because the code does not match them: see *Divergences*.

### Workbench

The page around the reviews. Releases are model values, each of a module of its
own; `Html` are those whose source is reviewed before they run. `page` holds
`generation`, the adapter (`linked`), `identity`, `selected`, `state` and the launch
approval; `asked` is a history, the last choice made. `selected` and `state` are
kept apart, as in the code: between the recovery of a release and the answer about
its installation the one is new and the other is not. A session is named by the
click that opened it; its queue, its count of requests, its request in flight and
its heartbeat are its own, and a closed one is forgotten when nothing waits for it.
`beginReview`, reached from a frame's proposal, closes the frame and continues in
`Review`.

### Deploy

A run of `deploySepolia` is a process with a nonce and a place in the plan, a
sequence of kinds: a contract, an archive made by the first contract's factory, or
a call. Each stage between two answers of the node is an action. The two files are
one record, because they are created together and exclusively: that is why a run
never resumes, and why the model has no action that reads a journal back. The factory stands first in the model's plan, where the real list begins with Engine
(deploy-sepolia.mjs:163); the contracts before it are creations like any other, and
what matters of the factory is that it precedes its archives. With the factory
reorganised away the check before an archive fails, as in the code, where an address
with no contract has nonce 0 and the plan expects 1 or more. A mint
has the shape of an archive step (an address taken in turn), which is why the plan
needs no kind of its own for it. Every run crashes at any stage, and any call fails;
a failed broadcast says nothing about whether it arrived (`Deliver` then `Fail`).

Around the runs: the chain includes a waiting transaction, with success or without;
a reorganisation drops the last blocks, and what they held waits again or is
forgotten; a rival program uses the same key; anybody uses the public factory,
even to make the very archive the plan was about to make. A factory's nonce, from
which the next archive gets its address, is the number of archives the chain holds
(`ArchivesTo`).

## Runs

| run | what it shows |
|---|---|
| `collection` | `EnumerationExact`, `ProvedMeansOpenable`, `ContentIsCarried`, `UsageEndsWithTheTenure`: mints, clones, sales, an approved operator's sealings, proved transfers and buy-backs of two tokens |
| `lease` | `Solvent` (Lease.obligations is exact), `RenterNeverPaysForUndelivered`, `RunningLeaseEndsPaidToTheBlock`, `StatusTellsTheTruth`, and `EveryLeaseSettles` under fairness |
| `succession` | `PassesOnlyAfterBothSilences`, `WouldPassTellsTheTruth`, and `SilencePasses` under fairness, with an address or another token's holder as heir; the plans a batch can arrange for a token the contract was just given are among the states, and are the exception `WouldPassTellsTheTruth` names. To speak is to call `arrange` or `stillHere`, no more: weaker than the contract's header promises (see *Divergences*) |
| `consign` | `NoteIsHonourable`, `SoldAboveTheFloorOrHome` (at the ask of that moment, whatever price the buyer had in mind), `Solvent`, and `EveryConsignmentEnds` under fairness. A bolt drawn inside the batch that placed the token is among the states; the first and the last of these properties name it as the exception |
| `standalone` | the contracts that share nothing but the clock (below). Timelock: `OneEffectPerAnnouncement`, `EffectsWereAnnounced`. Locker, with one coin that misbehaves: `Covered`, `NothingLeavesEarly`. Account: `TheFloorHolds`, with a coin, a piece and ether under a seal, batches, call-backs, assets that stop answering, spenders approved before the seal, and a sale; `KeysServeTheirGrantor`, with a key granted, used and revoked across a sale and a buy-back, and a token that lands in its own account. Parley: `NothingSaidIsLost`, `ShownOutStaysOut`, `SaidWhereOneBelongs`, with two tokens in the commons, a group and a pair and several messages to a block; `KeyFollowsTheHolder` across sales and buy-backs |
| `talk` | `ScreenIsAStretch`, and `CatchesUp` under fairness: a `/dm` page of a wallet with one token, late answers, a failed call. Once its room is known such a page does all that a page about one room does, and can still ask for the room again |
| `review` | `EachPlanIsOneShot` (the refinement), `SignsUnderItsOwnLink`, `NothingMovedSinceReview`, `CommitsNeverShareARoot`: two overlapping reviews, two accounts, answers late and out of order |
| `workbench` | `OneFrame`, `ShownIsLastAsked`, `NothingAfterClose`, and `FramesEnd` under fairness |
| `deploy` | `EachStepIsSentOnce`, `JournalSettlesTheRest`, `VerifiedIsDeployed`, and `EveryRunEnds` under fairness: two runs, a crash anywhere, reorganisations, a rival and the public |
| `talk_dm` | a disagreement: `CatchesUp` fails on a `/dm` page of a wallet with two tokens |
| `review_shown` | a disagreement: `SignsWhatWasShown` fails |
| `workbench_launch` | a disagreement: `RunsWhatWasReviewed` fails |

The `standalone` run is one instance and not six. Timelock, Locker, Account and Parley
have no state in common, so nothing one of them does can matter to another, and
exploring their products would show nothing. `MCStandalone` conjoins their
specifications and lets each behaviour use one of them, chosen in its first state
(`used`), the account and the rooms in two ways: under a seal or through keys, by
talking or by publishing sealing keys. What each way leaves out is written above its
action.

What is proved and repeated by no run: every module's type invariant;
`EpochNamesTheAssignment` and `SaleClearsArrangements` (Custody), `KnockStands` and
`NamedListsEveryPlan` (Succession), `OwnerCanFindIt` and `PromisesOnlyLengthen`
(Locker), `PendingInv` and `AdminRotatesInPublic` (Timelock), `ManifestExact`
(Account), `OldestPointsBack`, `MembersCounted`, `RoomsRemembered` and `KeepsAnArchive`
(Archive and Parley), `SeenIsTheCount` (Talk).

## Divergences

Three runs look for a disagreement between the code and what it says of itself or
tells the person, and find one. All three are defects of the code.

- `talk_dm`: Parley.sol:401 says that a client compares the counts "against what it has
  already read". On a `/dm` page of a wallet with two tokens, `become` changes `ROOM`
  and then finds the paint of the first room still `BUSY`, so the second room is not
  painted; from then on `watch` compares the second room's count with the newest
  message of the first (DeskTalk.sol:225). If it is not larger, the page shows one
  conversation and speaks in the other, for good. Resetting `SEEN` where `ROOM`
  changes would close the gap.
- `review_shown`: app.mjs:74 promises "Signing submits only this action". A
  confirmed review checks that the wallet holds its plan, then awaits
  `assertCurrentContext` (adapter.mjs:121), then calls `wallet.send`, which takes
  whatever plan the wallet holds by then. A second click whose intent was answered
  late begins its own review in that gap, and its plan, never displayed, is the one
  the wallet is asked to sign. Handing the reviewed plan to `wallet.send` and
  comparing it there would close the gap.
- `workbench_launch`: app.mjs:90 asks to "Review the exact source and
  permissions" before a tool runs. `launchApproved` awaits the registry for the
  approved release and then mounts `selected`, guarded by the generation alone. A
  choice already under way when the launch was approved changes `selected` without
  a new generation. Mounting the release that was checked would close the gap.

Nine more are statements in the contracts' comments and documents that the code keeps only up to
a case; the models contain the case, and no property claims more than the code does.

| what is written | what the code does |
|---|---|
| Lease.sol:52, a lease that runs to its end belongs to the token in full | if the token changes hands after the end and before anybody settles, the lease reads as broken (Lease.sol:310), and the rent since the last settle goes back to the renter |
| Lease.sol:94, terms do not survive a sale | they do when the seller buys back and names the agent again: `by` is an address (Lease.sol:232) |
| Succession.sol:29 to 33, use the token and nothing happens, touch it and the knock is cancelled; Succession.sol:165, ordinary use of the instrument keeps it alive by itself, and this contract reads `lastOp` too | the clocks read `p.seen` alone (Succession.sol:208), which only `arrange` and `stillHere` write: a token in daily use passes to the heir if its owner calls neither. The comment at Succession.sol:181 says why the stamp was dropped; the header and the NatSpec still promise it. `SilencePasses` and `PassesOnlyAfterBothSilences` hold of what the code does |
| Succession.sol:310, wouldPass is what would happen if `claim` were called right now; its NO_STANDING means that the approval is missing | for a token the contract itself owns, `claim` needs no approval and works, while wouldPass says NO_STANDING. The token's account gets there with one batch: transfer the token to Succession, then arrange (Succession.sol:116 admits the account, IpseityAccount.sol:698 asked for the signer before). The token goes to the heir after the clocks and nobody can renew or revoke |
| Consign.sol:142, a bolted token cannot be delivered, and refusing here beats discovering it at the sale; Consign.sol:217, an agent who stops answering must not be able to keep a token | the bolt is looked at when the token is placed. A batch of the token's account can consign and then lock (Ipseity.sol:281 admits the account of a token the window owns by now); every sale, `release` and `reclaim` reverts from then on, and no second call can draw the bolt back, since nobody can begin another batch |
| Consign.sol:217, sent home after the term | home may be the window: a batch can transfer the token to the window, then consign it, so the consignor on the note is the contract itself. The token goes back to the contract, and the proceeds of a sale are credited to it, where nobody can withdraw them |
| Succession.sol:53, a plan does not survive a sale | it does when the seller buys back: `from` is an address (Succession.sol:256) |
| INVARIANTS.md:232 and IpseityAccount.sol:59, while sealed no approval executes | approvals are refused on the two lists' assets alone (IpseityAccount.sol:827), and a sealed account can approve a spender on any other; what the seal promises does not suffer, `TheFloorHolds` holds with those approvals |
| Consign.sol:292, the only door in writes the terms | `transferFrom` and `mintTo` are doors too, and a token through them has no note |

## Bounds

Every bound is a constant marked "bound" where it is declared.

- `MaxTime`: block times explored. Each instance leaves room for a whole term (or
  both clocks), a step beyond it and a second arrangement after the first. In the
  `standalone` run `LastTime` says where each use ends, within `MaxTime`: four for
  the timelock, with `DELAY = GRACE = 1`, so that an operation can be early, due, due
  for the last time and stale, and be announced again; three for the locker, a lock,
  its term and a lengthening; one for an account or for rooms, a moment inside a seal
  or a session and one after it; none for sealing keys, which no time passes for.
- `MaxEpoch`: user assignments and transfers per token. Three lets a lease be made,
  broken and another made; the buy-back runs need two transfers and an assignment.
- One token in the companions' runs: their books are per token, except `owed` and
  the balance, which are sums. Two where tokens meet: `succession`, where one token is heir to another, and
  `collection`, where two tokens are enough for a list to lose its first entry,
  its last and its only one. That lists of any length stay exact is proved.
- `Planned` (Succession): the tokens plans are made for; the other token is heir.
- `MaxSupply`, `Contents`, `Recipients`, `Sealers`, `KernelTokens`, `UsageGrants`
  (Collection): two tokens, two contents, two people; a kernel and a right of use
  start on token 1 and reach token 2 by cloning. `MaxEpoch = 2` is a sale and a
  buy-back.
- `Handled`: the tokens the hub's setters are called about and whose accounts open
  batches: the one token that is lent, placed, sealed or, in `succession`, planned. Every
  other token is still minted and moved by whoever may.
- `Spenders`, `OperatorGrants`, `Lenders`, `UserTerms`: the arguments explored for
  the hub's setters. They include the companion in each composed run.
- `Prices`, `Cuts`, `Royalties`, with `BPS = 4`: small enough to enumerate, with a
  floor that divides and one that does not, and a cut over the limit that the code
  must refuse.
- `RoomToComeHome` (Consign), `RoomFor` and `Horizon` (Succession): keep the clock
  and the epoch bound from cutting short what the code would still finish. Without
  them a bound, not the code, would strand a consignment or a plan.
- `MaxLocks`, `MaxBal`, `Amounts` (Locker): two locks, of one coin, with
  deliveries of one or two.
- `MaxAnnounced` (Timelock): two announcements of each operation.
- `Values`, `MaxHeld`, `MaxBatch = 2`, `MaxManifest = 2`, `MaxPieces = 1` (Account): one
  unit of each thing, a coin and a piece that can both be on the manifest, and a batch
  with a call that follows another. `Targets`, words and spenders are the arguments
  the checks tell apart: an asset on the lists, one that is not, and a contract that
  is no asset. `MaxXfers` stays below the saturation of `Stats.xfers`; one sale moves
  a sealed account, two bring a token back to whoever granted a key. `MaxEpoch = 2` is
  a grant and another one, or a revocation. The two uses share a module and no
  question: a session is measured like any other call, so under a seal there is no
  key, and with keys there is nothing to seal. Under a seal the token is sold once and
  not to itself, and of the assets only the coin may be made to trust somebody: the
  piece can leave in as many other ways.
- `MaxSaid = 3`, `MaxTime`, `MaxGroups = 1` (Parley): three messages are the fewest with
  a first, one that points at it and one of another room between, in one block or
  several; the last block explored stays empty so that every message gets mined.
  Among the rooms both tokens are one wallet's once issued, and no sealing key is
  published; where keys are published the tokens change hands and nobody talks. Everything about rooms is proved for any number of tokens,
  groups and messages.
- `Want = 3`, `MaxSteps = 2`, `MaxFails = 1`, four messages in four blocks (Talk): a walk
  can end because it is at the beginning, because it has what it wanted and because it
  has asked often enough. The page asks for 40 and 64. The disagreement needs two
  messages, two rooms and no failure.
- `Tasks`, `Accounts` (Review): two clicks are what it takes for reviews to overlap,
  two accounts for a sale and for the wallet to look at another one; tasks and
  accounts are interchangeable, and the instance uses that symmetry (it checks
  safety alone). `MaxMoves = 2` is one sale or use of the account elsewhere
  (the first owner's epoch counts as one) besides what the reviews do themselves. `MaxLinks = 3` is connected, unlinked, connected again: the shortest
  way for a wallet to look as it did before. It bounds the unlinking `Answer` too.
  The disagreement needs neither, so its instance has one account, which nothing else moves.
- `MaxClicks` (Workbench): connect, choose, launch and one more to get in their way;
  five for the disagreement, which needs a second choice. `Concurrent = 1`,
  `Requests = 1`: the code's limits are larger, and what counts is a frame at its
  limit. `MaxChanges = 1`: a sale or a release disabled.
- `MaxBlocks = 5`, `MaxForeign = 2`, the plan contract, archive, contract (Deploy): a
  whole plan is three blocks, and two are left for a reorganisation and a
  replacement or a stranger's archive. Two runs race, or the second starts after the
  first died. That no step is sent twice for any plan, any number of runs and any
  chain is proved.

Deadlock is not checked: every instance stops when its clock and counters run out,
or, in the programs, when the person has clicked everything.

## Fairness

Liveness is checked under weak fairness of the clock and of calls that are open to
anybody: `settle` (Lease), `reclaim` (Consign), `summon` and `claim` (Succession).
In each case somebody gains by making the call: the holder or renter, the
consignor, the heir. Nothing is assumed of the holder, the agent or any call that
needs a particular person. A batch needs no fairness of its own: it is part of one
transaction, so it is over when the clock moves (`Tick`).

`Workbench` assumes that a browser's timer fires (`Expire`: runtime.mjs ends a frame
after at most five minutes) and nothing of nodes, frames or people. `Deploy` assumes
that a process whose call was answered goes on, and that a broadcast is answered or
given up after sixty seconds (`broadcastOnce`); the chain owes nothing. A process may
crash instead. `Talk` assumes that blocks keep coming,
that the node answers and that the page polls (`setInterval` on a page that is not
hidden); nothing makes the person choose, send or press. `Review` is checked for
safety alone: the code promises no review an
end, since an unanswered call is waited for.

## Proofs

Each `..._proofs` module extends the modules it is about and proves, for any tokens,
addresses, prices, terms, clicks, plans and bounds that the modules' named
assumptions admit, the theorems below. `Inv` (or the name given) is the inductive
invariant, one lemma per action or group of actions shows it preserved, and each
theorem is one temporal step from it. Nothing else is assumed. The assumptions are
about constants and TLC evaluates them on every instance; besides their types they
say that tokens, addresses, coins and clicks are finitely many (a token id has 256
bits, an address 160, and a person clicks finitely often), because a sum over
infinitely many entries means nothing. A theorem named here without a run's
property states one of its own, in the component's module or in the proofs.

- `Custody_proofs`: `HubTypeCorrect`, `EpochIsContinuity`, `SalesClear`. The type
  invariant is inductive. `HubNextCases` reduces a step of the hub to one of three
  writes, and the modules below cite its lemmas about single calls, because a
  companion's call into the hub is such a call.
- `Collection_proofs`: `TypeCorrect`, `ListsAreExact`, `ProvedIsOpenable`,
  `UsageLapses`, `ContentCarried`, `CollectionIsAHub`. The two list operations are
  treated by themselves: `RemovedExact` and `AddedExact` say that each takes an exact
  set of lists to an exact one. The type is not inductive without them. That a
  balance never exceeds the supply is the pigeonhole principle applied to a list
  that holds each token once (`RoomForOneMore`). Usage needs that a mark is never
  ahead of the owner epoch and equals it only in the present tenure; a kernel
  that is `proved` is sealed to the owner it names. `CollectionIsAHub` carries the
  theorems about `HubSpec` over.
- `Totals_proofs`, lemmas only: a total is a natural number, and writing one entry
  moves it by the difference (`TotalWrite`). What the solvency of the three
  contracts that hold money rests on.
- `Lease_proofs`: `CounterIsSolvent`, `BooksAreTyped`, `RentersAreWhole`,
  `RunningLeasesEndFairly`, `ZeroIsWhatRentAsks`. The strengthening is that `seen`,
  the last moment the code saw the lease standing, is never later than `brokeAt`,
  the moment it really broke, and that a record that still carries the lease's epoch
  has not broken. The rest is arithmetic of a division that rounds down: the two
  parts of a split are never negative and add up to what was paid. That the balance
  is never negative follows from the solvency, and completes the type.
- `Companions_proofs`, Succession: `SuccessionTyped`, `EveryPlanIsListed`,
  `NobodyIsBuriedAlive`, `AKnockStands`, `OKIsWhatClaimAsks`. `ClocksInv`: `seen` is
  when the holder last spoke, and a knock came no sooner than the whole quiet after
  it. `OKIsWhatClaimAsks` says that OK is every condition of claim together with
  the contract not being the token's owner. It needs one more fact, `OwnUnapproved`: the
  hub lets an owner move its token without an approval, and wouldPass, which asks for
  one, never sees one on a token the contract owns, because nobody could have given
  it.
- `Companions_proofs`, Consign: `WindowIsSolvent`, `BooksAreTyped`,
  `NotesAreHonourable`, `LeavesSoldOrHome`. To be able to honour a note the contract
  must be the only one who can speak for its tokens. `NoGrant` (it approves nobody)
  and the absence of a lease agent close the doors through which the token or its use
  could go, to the token's account as well, inside a batch or not (`NoDoorOpens`). The
  bolt has one more door, the account: it is closed outside a batch, because an account
  whose token the contract owns has nobody to sign for it (`NoSignatory`,
  `HubLeavesBoltAlone`). A sale's three shares add up to its price
  whichever of their payees coincide.
- `Clock_proofs`, Timelock: `TimelockTyped`, `PendingCorrect`, `AtMostOneEffect`,
  `EffectsAnnounced`, `AnnouncementsAreFinal`, `AdminRotation`. `PendingInv`: an
  operation is pending exactly while an announcement is unspent, its date is `DELAY`
  after that announcement, and the effects so far are fewer than the announcements
  while one is pending. Without the last conjunct `ran <= announced` is not
  inductive: `Execute` needs the strict inequality. That a pending date is never
  moved (`AnnouncementsAreFinal`) no run checks.
- `Clock_proofs`, Locker: `LocksAreCovered`, `TypeCorrect`, `OwnersFindTheirLocks`,
  `NothingLeaves`, `PromisesHold`. The invariant is about what a call in flight still
  finds true when its coin returns: the stack is never deeper than one (`OneCall`), a
  payment under way is of a lock already taken, matured and the payee's
  (`PaymentIsDue`), which `Give` and `Extend` cannot change from inside the coin
  because they refuse a taken lock, and the balance a pull measured before it began
  already covered every lock (`MeasuredAbove`), so that what it records is covered
  by what arrived.
- `Clock_proofs`, Account: `AccountTyped`, `SealKeepsItsFloor`, `FramesAreMeasured`,
  `ManifestIsExact`, `KeysServe`. `ManifestExact` keeps the positions of the
  measurements meaningful; `MeasureInv` says what a measured frame may rely on while
  foreign code runs: the lists stand still, what was measured is no less than what
  the seal stands for, and what could not be measured is not called and so cannot
  have paid out. `FloorInv` says the seal stands for a thing only while it runs, for
  what is on the lists and what nobody else can take, and only in frames that are
  measured. `KeyInv`: a session whose mark is the token's count of sales is what the
  present holder allowed last, and no list of targets is ahead of its key's epoch,
  which is why a new grant inherits nothing.
- `Clock_proofs`, Archive and Parley: `NothingIsLost`, `WalksGoBack`,
  `MembersAreCounted`, `TheDoorHolds`, `ListsAreComplete`, `NobodySpeaksOutside`,
  `KeysFollow`, `ParleyKeepsAnArchive` and, for the types, `ParleyIsTyped`. The two
  chains, of a room and of a token, are inductive together with `InBlockOrder`, and `WalksGoBack` follows from
  them: the message before the oldest one of a block is the newest of those before
  it, so in an earlier block. The doors are invariants of their own, which the archive
  does not enter. That a set of messages has a newest is
  the induction such a proof cannot avoid; it is the library's theorem that the
  naturals are well-founded (`LeastNatural`).
- `Clock_proofs`, Talk: `TalkIsTyped`, `TheScreenIsAStretch`, `SeenCounts`. A walk under
  way holds the whole stretch of its room between its place and the head it began
  with, because there is nothing of the room between a block and the block its oldest
  message points at (`NextBlockDown`, from `RoomChain`). The archive grows under the
  walk, at a block that is not mined and so above every head the page has read
  (`FoundStill`). The count the page compares is the number of the newest message it
  found, and a room's messages are numbered by how many there are
  (`NewestIsTheCount`).
- `Client_proofs`, Review: `TypeCorrect`, `NothingMoves`, `CommitsNeverShare`,
  `SignsUnderLink`, `ImplementsOneShot`. The invariant has four parts. `LinkInv`: a
  live review is the page's current one and began under the wallet's present
  revision, and only an offered one waits for a confirmation. `PlanInv`: the plan the
  wallet holds was made under its own link, is unsigned and is being sent by nobody,
  and a plan being sent is being sent by one click. `FateInv`: a commit that was
  applied left the root past the one it was built on. `HeightInv`: owner epoch, root
  and nonce only rise, so their sum says whether the chain moved between a reading
  and the last check before signing. A step either gives things up (`Yields`), lets
  the chain move (`Grows`), or moves one click on (`StepCases`), and each of those
  maps to a step of `OneShot` or to none.
- `Client_proofs`, Workbench: `WorkbenchTyped`, `NeverTwoFrames`, `LastAskedIsShown`,
  `ClosedForGood`. `ClicksInv`: no click belongs to a later generation than the
  page's, and the one still recovering in the page's generation is the last one
  asked for. `SessionsInv`: at most one session is open, and one that serves a
  request still counts it in its queue.
- `Deploy_proofs`: `TypeCorrect`, `NothingIsSentTwice`, `JournalSuffices`,
  `VerifiedTellsTheTruth`. Only one run ever works, because the files are created
  exclusively and nobody removes them; `WorkInv` says where that run stands with the
  journal (before signing, every journalled step is behind it; from signing to the
  receipt its transaction is journalled and is the only one without a receipt).
  Whatever the chain does with a transaction, it was sent after it was journalled.
  `VerifiedTellsTheTruth` is about a chain that may shrink between any two readings.
  `ChainInv`: a block that was replaced never comes back, and a key's transactions
  stand in the order of their nonces. So a receipt that is on the chain has every
  earlier receipt before it, and everything up to it is as it was when it was read
  (`InPlace`, `ReadAgain`). An archive's address is right if as many archives precede
  it as were planned: the archive steps up to a step are found at different places of
  the chain up to its receipt, so there are enough of them (`EnoughArchives`), and
  the check of the address says there are not too many.

A note on the prover. This version takes two writes at one index within one EXCEPT
as made at once, where TLA+ makes them in turn. The modules therefore write
`[f EXCEPT ![a] = [@ EXCEPT !.x = ..., !.y = ...]]`, and the proofs name the
intermediate function, so that no theorem rests on that reading.

## Only model-checked

Every invariant and every action property that a run checks is proved, with these
exceptions.

- Liveness (`EveryLeaseSettles`, `SilencePasses`, `EveryConsignmentEnds`,
  `CatchesUp`, `FramesEnd`, `EveryRunEnds`): the prover has no rule for fairness.
- `StatusTellsTheTruth` and `WouldPassTellsTheTruth`, which mention ENABLED. What can
  be said without it is proved: `ZeroIsWhatRentAsks` and `OKIsWhatClaimAsks` set each answer against every
  condition the call meets, and `RentIsAskAndDo` and `ClaimIsAskAndDo` show that
  besides those conditions and the two bounds the call only assigns. That an action
  which only assigns can be taken is the step the prover cannot make.
- The three disagreements, which are counterexamples.

## Not modelled

Of the contracts: views that only format (pages, desks, renderer, sigil), events and
gas. Of the hub: the section and its instruments, the statistics, traits, the
pinned URI and the curator's calls but `setVerifier`; a clone's `parentOf` and a
kernel's version, which no call reads. A token that ends up owned by its own account
or grip (Ipseity.sol:351) stays there for good: `Custody` contains such states, since a
mint goes to any address, and `CanAct` gives them no caller once the batch that may
have led there is over. In a cycle of accounts (Ipseity.sol:698) nobody signs, and
only session keys given out before can still act; `Custody` lets such accounts make
any call, which is more than the code does. Of the account: signatures (ERC-1271) and
the nonce that retires them, the state counter and the receiving hooks. Of Parley:
rooms' names and the text of messages, and Roster, which only answers questions about
the hub and Parley. Pool and Curve, the state store and the other parts of the plan
are in PROJECT.json with their status, and the hazards they carry are there too.
A lease that ran its term and is settled only after the next sale (Lease.sol:315) is
modelled as the code has it; the code admits the outcome and no property forbids it.

Of the messaging client: drawing, sending and sealing, the choice it remembers in the
browser's storage, and the script of the door.

Of the workbench: rendering, the worker's program, the SDK's decoding of what the
chain answers, draft migration and restore, cartridges, local samples, encryption of
the journal, the standalone console. Of `Review`'s actions only those of the registry
(commits and staged migrations): module proposals and journal publications go the
same way from `beginReview` on, with recipes of their own. `Review` and `Workbench`
share no state. One hazard falls between the two: from the recovery of a release to
the answer about its installation, or for good if that call fails, `selected` is
new and `state` is the old module's (app.mjs:70), and saving then would publish one
module's draft under another. `Workbench` shows that state; the saving is a click of
`Review`. Two refreshes under way at once (app.mjs:58) may also answer out of order
and leave the older identity on the page; custody is verified again before anything
is signed, which `Review` contains, so the page is stale and no more.

Of the deployment tool: gas and fee checks, the preflight's reading of balances and
configuration, the contents of artifacts (their hashes are taken as compared),
`RpcChain.send`'s journal on local chains, and the reconciliation of a journal by hand.
The other scripts build the contracts and drive them on a local chain; they keep no
state that outlives a run.
