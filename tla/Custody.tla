------------------------------- MODULE Custody -------------------------------
(***************************************************************************)
(* The hub (src/src/Ipseity.sol) as its companion contracts see it: who    *)
(* holds each token, who may act for the holder, who is the ERC-4907 user, *)
(* who is the lease agent, whether the token is bolted, and the block      *)
(* clock.  Lease, Consign and Succession extend this module and add their  *)
(* own state; every call they make into the hub is one of the operators    *)
(* below with the companion's address as the caller.                       *)
(*                                                                         *)
(* A call is one step.  A batch of calls out of a token's account          *)
(* (IpseityAccount.executeBatch) is not: whether its signer may have it    *)
(* is asked once, and its calls follow one by one.                         *)
(*                                                                         *)
(* Left to other modules: enumeration lists, stats, sections, the kernel   *)
(* and the curator.                                                        *)
(***************************************************************************)
EXTENDS Naturals, FiniteSets

CONSTANTS
    Tokens,          \* token ids
    People,          \* externally owned addresses: they may call anything
    Contracts,       \* companion contracts: they act only through their code
    AccountOf,       \* token -> its ERC-6551 account (IpseityAccount)
    GripOf,          \* token -> its receive-only hand (GripVault)
    None,            \* address(0)
    MaxTime,         \* bound: the last block time explored
    MaxEpoch,        \* bound: user assignments and transfers per token
    Spenders,        \* bound: addresses a per-token approval is given to
    OperatorGrants,  \* bound: <<owner, operator>> pairs explored
    Lenders,         \* bound: addresses a holder names as lease agent
    Handled,         \* bound: tokens arranged about, and whose accounts batch
    UserTerms        \* bound: expiry times a holder writes with setUser

Accounts == {AccountOf[id] : id \in Tokens}
Grips == {GripOf[id] : id \in Tokens}
Address == People \cup Contracts \cup Accounts \cup Grips

\* Addresses are 160 bits and token ids 256: there are finitely many.
ASSUME CustodyAssumption ==
    /\ IsFiniteSet(Tokens)
    /\ IsFiniteSet(People)
    /\ IsFiniteSet(Contracts)
    /\ AccountOf \in [Tokens -> Accounts]
    /\ GripOf \in [Tokens -> Grips]
    /\ None \notin Address
    /\ People \cap (Accounts \cup Grips \cup Contracts) = {}
    /\ Contracts \cap (Accounts \cup Grips) = {}
    /\ Accounts \cap Grips = {}
    /\ \A id, other \in Tokens : AccountOf[id] = AccountOf[other] => id = other
    /\ MaxTime \in Nat
    /\ MaxEpoch \in Nat
    /\ Spenders \subseteq Address
    /\ OperatorGrants \subseteq Address \X Address
    /\ Lenders \subseteq Address
    /\ Handled \subseteq Tokens
    /\ UserTerms \subseteq Nat

VARIABLES
    now,              \* block.timestamp
    ownerOf,          \* _ownerOf; None until minted
    getApproved,      \* the single per-token approval
    isApprovedForAll, \* the set of <<owner, operator>> grants in force
    users,            \* _users: the ERC-4907 record, kept after it expires
    userEpoch,        \* version of the user record
    leaseAgentOf,     \* who may call setUserVia
    locked,           \* _locked: the ERC-5192 bolt
    batching          \* tokens whose account is inside executeBatch

hubVars == <<now, ownerOf, getApproved, isApprovedForAll,
             users, userEpoch, leaseAgentOf, locked, batching>>

UserInfo == [user : Address \cup {None}, expires : Nat]
NoUser == [user |-> None, expires |-> 0]

Minted(id) == ownerOf[id] # None

-----------------------------------------------------------------------------
(* Who can originate a call.  A person always can: here a person may be    *)
(* any contract that is not a companion.  A token's account can while      *)
(* somebody may sign for it, and in a batch begun while somebody could.    *)
(* An owner that is an account counts even when nobody is left to sign for *)
(* that one: the session keys it gave out act on.                          *)

HasSignatory(id) == ownerOf[id] \in People \cup (Accounts \ {AccountOf[id]})

CanAct(c) ==
    \/ c \in People
    \/ \E id \in Tokens : c = AccountOf[id] /\ (HasSignatory(id) \/ id \in batching)

-----------------------------------------------------------------------------
(* The doors (modifiers) of the hub.                                       *)

IsOwner(c, id) == Minted(id) /\ (c = ownerOf[id] \/ c = AccountOf[id])

IsHolder(c, id) ==
    /\ Minted(id)
    /\ \/ c = ownerOf[id]
       \/ <<ownerOf[id], c>> \in isApprovedForAll
       \/ c = getApproved[id]

isTransferable(id, to) ==
    /\ Minted(id)
    /\ to \notin {AccountOf[id], GripOf[id]}
    /\ ~locked[id]

\* The faulty variants used to show that the properties can fail are named
\* Bad...; no action of the specification refers to them.
UserRecord(user, expires) == [user |-> user, expires |-> expires]

EpochLeft(id) == userEpoch[id] < MaxEpoch

\* What every write of a user record does, whoever is admitted to make it.
WriteUser(id, user, expires) ==
    /\ EpochLeft(id)
    /\ users' = [users EXCEPT ![id] = UserRecord(user, expires)]
    /\ userEpoch' = [userEpoch EXCEPT ![id] = @ + 1]
    /\ UNCHANGED <<now, ownerOf, getApproved, isApprovedForAll, leaseAgentOf, locked,
                   batching>>

BumpEpoch(id) == [userEpoch EXCEPT ![id] = @ + 1]

ClearedAgent(id) == [leaseAgentOf EXCEPT ![id] = None]

-----------------------------------------------------------------------------
(* The calls.  The first parameter is msg.sender.                          *)

\* A batch is part of one transaction: none outlives its block.
Tick ==
    /\ now < MaxTime
    /\ now' = now + 1
    /\ batching' = {}
    /\ UNCHANGED <<ownerOf, getApproved, isApprovedForAll, users, userEpoch,
                   leaseAgentOf, locked>>

\* mintTo: _issue does not ask isTransferable where the token is going.
Mint(id, to) ==
    /\ ~Minted(id)
    /\ ownerOf' = [ownerOf EXCEPT ![id] = to]
    /\ UNCHANGED <<now, getApproved, isApprovedForAll, users, userEpoch,
                   leaseAgentOf, locked, batching>>

MayTransfer(c, from, to, id) ==
    /\ Minted(id)
    /\ from = ownerOf[id]
    /\ IsHolder(c, id)
    /\ isTransferable(id, to)

TransferFrom(c, from, to, id) ==
    /\ MayTransfer(c, from, to, id)
    /\ EpochLeft(id)
    /\ ownerOf' = [ownerOf EXCEPT ![id] = to]
    /\ getApproved' = [getApproved EXCEPT ![id] = None]
    /\ users' = [users EXCEPT ![id] = IF @.user # None THEN NoUser ELSE @]
    /\ userEpoch' = BumpEpoch(id)
    /\ leaseAgentOf' = ClearedAgent(id)
    /\ UNCHANGED <<now, isApprovedForAll, locked, batching>>

Approve(c, to, id) ==
    /\ Minted(id)
    /\ c = ownerOf[id] \/ <<ownerOf[id], c>> \in isApprovedForAll
    /\ getApproved' = [getApproved EXCEPT ![id] = to]
    /\ UNCHANGED <<now, ownerOf, isApprovedForAll, users, userEpoch,
                   leaseAgentOf, locked, batching>>

SetApprovalForAll(c, op, ok) ==
    /\ isApprovedForAll' = IF ok THEN isApprovedForAll \cup {<<c, op>>}
                                 ELSE isApprovedForAll \ {<<c, op>>}
    /\ UNCHANGED <<now, ownerOf, getApproved, users, userEpoch, leaseAgentOf, locked,
                   batching>>

SetUser(c, id, user, expires) == IsHolder(c, id) /\ WriteUser(id, user, expires)

SetUserVia(c, id, user, expires) ==
    /\ leaseAgentOf[id] # None
    /\ c = leaseAgentOf[id]
    /\ WriteUser(id, user, expires)

SetLeaseAgent(c, id, agent) ==
    /\ Minted(id)
    /\ c = ownerOf[id]
    /\ leaseAgentOf' = [leaseAgentOf EXCEPT ![id] = agent]
    /\ UNCHANGED <<now, ownerOf, getApproved, isApprovedForAll, users, userEpoch, locked,
                   batching>>

BadMayBolt(c, id) ==
    IsOwner(c, id) \/ (Minted(id) /\ users[id].user = c /\ users[id].expires >= now)
MayBolt(c, id) == IsOwner(c, id)

Lock(c, id) ==
    /\ MayBolt(c, id)
    /\ locked' = [locked EXCEPT ![id] = TRUE]
    /\ UNCHANGED <<now, ownerOf, getApproved, isApprovedForAll, users, userEpoch,
                   leaseAgentOf, batching>>

Unlock(c, id) ==
    /\ MayBolt(c, id)
    /\ locked' = [locked EXCEPT ![id] = FALSE]
    /\ UNCHANGED <<now, ownerOf, getApproved, isApprovedForAll, users, userEpoch,
                   leaseAgentOf, batching>>

\* executeBatch, up to its loop, called by the account's signer: onlySigner,
\* which refuses an account that owns its own token, and nonReentrant.  What
\* it calls from then on is any of the account's calls, and what those lead
\* to falls between them.
BeginBatch(c, id) ==
    /\ c = ownerOf[id]
    /\ c # AccountOf[id]
    /\ id \notin batching
    /\ batching' = batching \cup {id}
    /\ UNCHANGED <<now, ownerOf, getApproved, isApprovedForAll, users, userEpoch,
                   leaseAgentOf, locked>>

EndBatch(id) ==
    /\ id \in batching
    /\ batching' = batching \ {id}
    /\ UNCHANGED <<now, ownerOf, getApproved, isApprovedForAll, users, userEpoch,
                   leaseAgentOf, locked>>

-----------------------------------------------------------------------------
HubInit ==
    /\ now = 0
    /\ ownerOf = [id \in Tokens |-> None]
    /\ getApproved = [id \in Tokens |-> None]
    /\ isApprovedForAll = {}
    /\ users = [id \in Tokens |-> NoUser]
    /\ userEpoch = [id \in Tokens |-> 0]
    /\ leaseAgentOf = [id \in Tokens |-> None]
    /\ locked = [id \in Tokens |-> FALSE]
    /\ batching = {}

\* A call that moves no token: about a token or an operator, or the opening
\* of a batch.
ArrangementCall(c) ==
    \/ \E id \in Handled, to \in Spenders \cup {None} : Approve(c, to, id)
    \/ \E grant \in OperatorGrants, ok \in BOOLEAN :
          grant[1] = c /\ SetApprovalForAll(c, grant[2], ok)
    \/ \E id \in Handled, user \in People \cup {None}, expires \in UserTerms :
          \/ SetUser(c, id, user, expires)
          \/ SetUserVia(c, id, user, expires)
    \/ \E id \in Handled, agent \in Lenders \cup {None} : SetLeaseAgent(c, id, agent)
    \/ \E id \in Handled : Lock(c, id) \/ Unlock(c, id) \/ BeginBatch(c, id)

\* A call to the hub itself by anybody who can originate one.
HubCall(c) ==
    \/ \E id \in Tokens, to \in Address : TransferFrom(c, ownerOf[id], to, id)
    \/ ArrangementCall(c)

HubNext ==
    \/ Tick
    \/ \E id \in Tokens, to \in Address : Mint(id, to)
    \/ \E id \in Tokens : EndBatch(id)
    \/ \E c \in People \cup Accounts : CanAct(c) /\ HubCall(c)

HubSpec == HubInit /\ [][HubNext]_hubVars

-----------------------------------------------------------------------------
(* Properties.                                                             *)

HubTypeOK ==
    /\ now \in 0..MaxTime
    /\ ownerOf \in [Tokens -> Address \cup {None}]
    /\ getApproved \in [Tokens -> Address \cup {None}]
    /\ isApprovedForAll \subseteq Address \X Address
    /\ users \in [Tokens -> UserInfo]
    /\ userEpoch \in [Tokens -> 0..MaxEpoch]
    /\ leaseAgentOf \in [Tokens -> Address \cup {None}]
    /\ locked \in [Tokens -> BOOLEAN]
    /\ batching \subseteq Tokens

\* The user epoch tells continuity from restoration: whatever replaces a
\* token's user record, and every change of hands even of a token nobody is
\* renting, moves it, and nothing moves it back.  Lease reads breakage from it.
EpochNamesTheAssignment ==
    [][\A id \in Tokens :
          /\ userEpoch'[id] >= userEpoch[id]
          /\ (users'[id] # users[id] \/ (Minted(id) /\ ownerOf'[id] # ownerOf[id]))
                => userEpoch'[id] > userEpoch[id]]_hubVars

\* A buyer inherits the token and none of the seller's arrangements about
\* it: after a change of hands no approval, no user and no lease agent the
\* seller named still stands on the token.
SaleClearsArrangements ==
    [][\A id \in Tokens :
          (Minted(id) /\ ownerOf'[id] # ownerOf[id])
             => /\ getApproved'[id] = None
                /\ users'[id].user = None
                /\ leaseAgentOf'[id] = None]_hubVars
=============================================================================
