----------------------------- MODULE Collection -----------------------------
(***************************************************************************)
(* The rest of the hub (src/src/Ipseity.sol): the numbering of tokens, the *)
(* per-owner lists kept by swap-and-pop, the sealed kernel and the usage   *)
(* rights that lapse with a holder.  Composed with Custody, whose calls    *)
(* are the part of each call that its companions can see.                  *)
(*                                                                         *)
(* A kernel's payload is known on chain by its hashes alone.  Here it is   *)
(* what the hashes stand for: a content, sealed to somebody's key.         *)
(***************************************************************************)
EXTENDS Custody

CONSTANTS
    MaxSupply,     \* MAX_SUPPLY; the ids are 1..MaxSupply
    Contents,      \* what a kernel may hold
    NoPayload,     \* no hashes: no kernel
    Recipients,    \* bound: addresses a token is minted or sent to
    Sealers,       \* bound: addresses a payload is sealed to
    KernelTokens,  \* bound: tokens a holder seals a kernel into
    UsageGrants    \* bound: <<token, user>> pairs authorised

Payloads == [content : Contents, to : Sealers]

ASSUME CollectionAssumption ==
    /\ MaxSupply \in Nat
    /\ Tokens = 1..MaxSupply
    /\ NoPayload \notin Payloads
    /\ Recipients \subseteq Sealers
    /\ Sealers \subseteq Address
    /\ KernelTokens \subseteq Tokens
    /\ UsageGrants \subseteq Tokens \X Address

VARIABLES
    totalSupply,
    owned,        \* _balanceOf, _ownedTokens and _ownedIndex
    kernel,       \* _dataHashes and _kernel
    ownerEpoch,   \* _ownerEpoch
    usageMark,    \* _usageMark of the pairs in _usageAuthorised
    hasVerifier,  \* verifier # address(0)
    granted       \* history: <<token, user>> pairs authorised in this tenure

restVars == <<totalSupply, owned, kernel, ownerEpoch, usageMark, hasVerifier, granted>>
vars == <<hubVars, restVars>>

NoMark == MaxEpoch + 1
NoKernel == [data |-> NoPayload, sealedOwner |-> None, proved |-> FALSE]
Kernels == [data : Payloads \cup {NoPayload}, sealedOwner : Address \cup {None},
            proved : BOOLEAN]

Active(id) == kernel[id].data # NoPayload

-----------------------------------------------------------------------------
(* The per-owner lists.  A list is a function from positions; 0, which is  *)
(* no token's id, fills the positions past its length.                     *)

Added(o, to, id) ==
    LET n == o.balance[to] IN
    [list |-> [o.list EXCEPT ![to][n] = id],
     index |-> [o.index EXCEPT ![id] = n],
     balance |-> [o.balance EXCEPT ![to] = n + 1]]

\* The last entry takes the place of the one that leaves.
BadRemoved(o, from, id) ==
    LET n == o.balance[from] - 1
        i == o.index[id]
    IN [list |-> [o.list EXCEPT ![from][i] = o.list[from][n]],
        index |-> [o.index EXCEPT ![id] = 0],
        balance |-> [o.balance EXCEPT ![from] = n]]
Removed(o, from, id) ==
    LET n == o.balance[from] - 1
        i == o.index[id]
        moved == o.list[from][n]
    IN [list |-> [o.list EXCEPT ![from] = [@ EXCEPT ![i] = moved, ![n] = 0]],
        index |-> [o.index EXCEPT ![moved] = i, ![id] = 0],
        balance |-> [o.balance EXCEPT ![from] = n]]

-----------------------------------------------------------------------------
(* The calls.  The first parameter is msg.sender.                          *)

NextId == totalSupply + 1

\* _issue: the next number, whoever it is for.  Whether the collection has a
\* renderer, and what it charges, decide only if a mint happens.
Issue(to) ==
    /\ totalSupply < MaxSupply
    /\ totalSupply' = NextId
    /\ owned' = Added(owned, to, NextId)
    /\ Mint(NextId, to)

MintTo(to) ==
    /\ Issue(to)
    /\ UNCHANGED <<kernel, ownerEpoch, usageMark, hasVerifier, granted>>

BadBumpOwnerEpoch(id) ==
    IF Active(id) THEN [ownerEpoch EXCEPT ![id] = @ + 1] ELSE ownerEpoch
BumpOwnerEpoch(id) == [ownerEpoch EXCEPT ![id] = @ + 1]

\* transferFrom, whole; the kernel is its callers' business.
Transfer(c, from, to, id) ==
    /\ TransferFrom(c, from, to, id)
    /\ owned' = Added(Removed(owned, from, id), to, id)
    /\ ownerEpoch' = BumpOwnerEpoch(id)
    /\ granted' = IF to = from THEN granted ELSE {g \in granted : g[1] # id}
    /\ UNCHANGED <<totalSupply, usageMark, hasVerifier>>

BadSealed(id, data) == [kernel[id] EXCEPT !.data = data, !.sealedOwner = ownerOf[id]]
Sealed(id, data) == [data |-> data, sealedOwner |-> ownerOf[id], proved |-> FALSE]

SealKernel(c, id, data) ==
    /\ IsHolder(c, id)
    /\ kernel' = [kernel EXCEPT ![id] = Sealed(id, data)]
    /\ UNCHANGED <<hubVars, totalSupply, owned, ownerEpoch, usageMark, hasVerifier,
                   granted>>

\* What the verifier accepts a proof of: that the payload old was sealed
\* again, unread, to the recipient.
Resealed(old, to) == [content |-> old.content, to |-> to]

\* _check: there is a verifier, and the proof is about this token's payload.
BadCheck(id, old) == hasVerifier
Check(id, old) == hasVerifier /\ old = kernel[id].data

\* With no kernel the code makes this a plain Transfer, which CollectionCall has.
TransferWithKernel(c, to, id, old) ==
    /\ Active(id)
    /\ Check(id, old)
    /\ kernel' = [kernel EXCEPT ![id] =
          [data |-> Resealed(old, to), sealedOwner |-> to, proved |-> TRUE]]
    /\ Transfer(c, c, to, id)

CloneWithKernel(c, to, id, old) ==
    /\ c = ownerOf[id]
    /\ Active(id)
    /\ Check(id, old)
    /\ Issue(to)
    /\ kernel' = [kernel EXCEPT ![NextId] =
          [data |-> Resealed(old, to), sealedOwner |-> to, proved |-> TRUE]]
    /\ UNCHANGED <<ownerEpoch, usageMark, hasVerifier, granted>>

AuthorizeUsage(c, id, user) ==
    /\ Minted(id)
    /\ c = ownerOf[id]
    /\ usageMark' = [usageMark EXCEPT ![<<id, user>>] = ownerEpoch[id]]
    /\ granted' = granted \cup {<<id, user>>}
    /\ UNCHANGED <<hubVars, totalSupply, owned, kernel, ownerEpoch, hasVerifier>>

\* The curator's, once, and from then on nobody's.
SetVerifier ==
    /\ ~hasVerifier
    /\ hasVerifier' = TRUE
    /\ UNCHANGED <<hubVars, totalSupply, owned, kernel, ownerEpoch, usageMark, granted>>

-----------------------------------------------------------------------------
\* The views.
kernelStatus(id) ==
    IF ~Active(id) THEN "ABSENT"
    ELSE IF kernel[id].sealedOwner = ownerOf[id] THEN "CURRENT"
    ELSE "STALE"

kernelProved(id) == kernel[id].proved /\ kernelStatus(id) = "CURRENT"

usageAuthorised(id, user) == usageMark[<<id, user>>] = ownerEpoch[id]

-----------------------------------------------------------------------------
CollectionCall(c) ==
    \/ ArrangementCall(c) /\ UNCHANGED restVars
    \/ \E id \in Tokens, to \in Recipients :
          \/ Transfer(c, ownerOf[id], to, id) /\ UNCHANGED kernel
          \/ \E old \in Payloads :
                TransferWithKernel(c, to, id, old) \/ CloneWithKernel(c, to, id, old)
    \/ \E id \in KernelTokens, data \in Payloads \cup {NoPayload} : SealKernel(c, id, data)
    \/ \E g \in UsageGrants : AuthorizeUsage(c, g[1], g[2])

Init ==
    /\ HubInit
    /\ totalSupply = 0
    /\ owned = [list |-> [a \in Address |-> [i \in 0..MaxSupply |-> 0]],
                index |-> [id \in Tokens |-> 0],
                balance |-> [a \in Address |-> 0]]
    /\ kernel = [id \in Tokens |-> NoKernel]
    /\ ownerEpoch = [id \in Tokens |-> 0]
    /\ usageMark = [g \in Tokens \X Address |-> NoMark]
    /\ hasVerifier = FALSE
    /\ granted = {}

Next ==
    \/ (Tick \/ \E id \in Tokens : EndBatch(id)) /\ UNCHANGED restVars
    \/ \E to \in Recipients : MintTo(to)
    \/ SetVerifier
    \/ \E c \in People \cup Accounts : CanAct(c) /\ CollectionCall(c)

Spec == Init /\ [][Next]_vars

-----------------------------------------------------------------------------
(* Properties.                                                             *)

TypeOK ==
    /\ HubTypeOK
    /\ totalSupply \in 0..MaxSupply
    /\ owned \in [list : [Address -> [0..MaxSupply -> 0..MaxSupply]],
                  index : [Tokens -> 0..MaxSupply],
                  balance : [Address -> 0..MaxSupply]]
    /\ kernel \in [Tokens -> Kernels]
    /\ ownerEpoch \in [Tokens -> 0..MaxEpoch]
    /\ usageMark \in [Tokens \X Address -> 0..NoMark]
    /\ hasVerifier \in BOOLEAN
    /\ granted \subseteq Tokens \X Address

\* The lists say exactly who owns what: the ids in use are the first
\* totalSupply, each is where its index says in its owner's list and nowhere
\* else, and every entry of a list is a token of that owner, through any
\* sequence of mints, clones and transfers, to oneself included.
EnumerationExact ==
    /\ \A id \in Tokens : Minted(id) <=> id <= totalSupply
    /\ \A id \in Tokens : Minted(id) =>
          /\ owned.index[id] < owned.balance[ownerOf[id]]
          /\ owned.list[ownerOf[id]][owned.index[id]] = id
    /\ \A a \in Address : \A i \in 0..MaxSupply :
          LET id == owned.list[a][i] IN
          IF i < owned.balance[a]
          THEN id \in Tokens /\ ownerOf[id] = a /\ owned.index[id] = i
          ELSE id = 0

\* kernelProved is a fact about the holder's key: when it answers yes, the
\* payload is sealed to whoever holds the token now, through resealings by
\* the holder's operators, plain sales, proved sales, clones and buy-backs.
ProvedMeansOpenable ==
    \A id \in Tokens : kernelProved(id) => kernel[id].data.to = ownerOf[id]

\* A proved kernel is the same kernel: what a token carried into a proved
\* transfer it carries out, and a clone carries what some token carries.
ContentIsCarried ==
    [][\A id \in Tokens :
          (kernel'[id] # kernel[id] /\ kernel'[id].proved) =>
             IF Active(id) THEN kernel'[id].data.content = kernel[id].data.content
             ELSE \E parent \in Tokens :
                     /\ Active(parent)
                     /\ kernel'[id].data.content = kernel[parent].data.content]_vars

\* A right to use the kernel ends with the tenure of the holder who gave it,
\* and a sale back to them does not bring it back.
UsageEndsWithTheTenure ==
    \A id \in Tokens, user \in Address :
        usageAuthorised(id, user) => <<id, user>> \in granted
=============================================================================
