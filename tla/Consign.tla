------------------------------- MODULE Consign -------------------------------
(***************************************************************************)
(* src/src/Consign.sol: a token placed in an agent's window for a term.    *)
(* The contract owns the token while its note is open; it leaves for a     *)
(* buyer who paid the ask, or goes home.  Money is credited and pulled.    *)
(*                                                                         *)
(* Composed with the hub: a step is a call here, a call into the hub, or   *)
(* the passage of time.  The only ether pushed to a caller in the middle   *)
(* of a call (a buyer's change, a withdrawal) goes out after every write,  *)
(* so a call nested in it is a later step.                                 *)
(***************************************************************************)
EXTENDS Custody, Totals

CONSTANTS
    ConsignAddr,  \* this contract
    BPS,          \* basis points in one
    MaxCut,       \* MAX_CUT: half
    MinTerm,      \* MIN_TERM
    MaxTerm,      \* MAX_TERM
    Agents,       \* bound: addresses named as agent
    Prices,       \* bound: floors and asks
    Cuts,         \* bound: agent's shares asked for, legal or not
    Royalties     \* bound: [rcv, bps] the hub's royaltyInfo may answer with

ASSUME ConsignAssumption ==
    /\ ConsignAddr \in Contracts
    /\ BPS \in Nat \ {0}
    /\ MaxCut \in 0..BPS
    /\ MinTerm \in Nat \ {0}
    /\ MaxTerm \in Nat
    /\ Agents \subseteq Address
    /\ Prices \subseteq Nat
    /\ Cuts \subseteq Nat
    /\ Royalties \subseteq [rcv : Address \cup {None}, bps : 0..BPS]

VARIABLES
    note,   \* _note, NoNote when there is none
    owed,   \* credited, to be withdrawn
    ether   \* the contract's balance

consignVars == <<note, owed, ether>>
vars == <<hubVars, consignVars>>

NoNote == [seller |-> None, agent |-> None, floor |-> 0, ask |-> 0, until |-> 0,
           cut |-> 0]
Notes == [seller : Address \cup {None}, agent : Address \cup {None}, floor : Nat,
          ask : Nat, until : Nat, cut : 0..MaxCut]

Open(id) == note[id].seller # None

\* Bound: the hub can still count the consignment and the way home.
RoomToComeHome(id) == userEpoch[id] + 3 <= MaxEpoch

-----------------------------------------------------------------------------
(* Handing it over.                                                        *)

LegalTerms(floor, cut, until) ==
    /\ floor # 0
    /\ cut <= MaxCut
    /\ until >= now + MinTerm
    /\ until <= now + MaxTerm

\* The hub is called twice, transferFrom then setUser with the consignor as
\* the user for the term: both effects, and two versions of the user record.
Place(c, id, agent, floor, cut, until) ==
    LET o == ownerOf[id] IN
    /\ IsOwner(c, id)
    /\ ~Open(id)
    /\ LegalTerms(floor, cut, until)
    /\ ~locked[id]
    /\ MayTransfer(ConsignAddr, o, ConsignAddr, id)
    /\ RoomToComeHome(id)
    /\ until <= MaxTime
    /\ note' = [note EXCEPT ![id] =
          [seller |-> o, agent |-> agent, floor |-> floor, ask |-> 0,
           until |-> until, cut |-> cut]]
    /\ ownerOf' = [ownerOf EXCEPT ![id] = ConsignAddr]
    /\ getApproved' = [getApproved EXCEPT ![id] = None]
    /\ users' = [users EXCEPT ![id] = UserRecord(o, until)]
    /\ userEpoch' = [userEpoch EXCEPT ![id] = @ + 2]
    /\ leaseAgentOf' = ClearedAgent(id)
    /\ UNCHANGED <<now, isApprovedForAll, locked, batching, owed, ether>>

-----------------------------------------------------------------------------
(* The window.                                                             *)

BadMayAsk(id, price) == TRUE
MayAsk(id, price) == price >= note[id].floor

Ask(c, id, price) ==
    /\ Open(id)
    /\ c = note[id].agent
    /\ MayAsk(id, price)
    /\ note' = [note EXCEPT ![id].ask = price]
    /\ UNCHANGED <<hubVars, owed, ether>>

\* royaltyInfo's answer, ignored when there is nobody to pay it to or it
\* would eat the price.
Royalty(r, price) ==
    LET roy == (price * r.bps) \div BPS IN
    IF r.rcv \in {None, ConsignAddr} \/ roy >= price THEN 0 ELSE roy

AgentShare(n, rest) == (rest * n.cut) \div BPS

Credits(ledger, who, amount) == [ledger EXCEPT ![who] = @ + amount]

\* The three credits of a sale, in the order the code makes them: one
\* address may play several parts.
BadSplit(n, price, r) ==
    LET roy == Royalty(r, price)
        rest == price - roy
        paidRoyalty == IF roy # 0 THEN Credits(owed, r.rcv, roy) ELSE owed
    IN  Credits(Credits(paidRoyalty, n.agent, AgentShare(n, price)),
                n.seller, rest - AgentShare(n, rest))
Split(n, price, r) ==
    LET roy == Royalty(r, price)
        rest == price - roy
        paidRoyalty == IF roy # 0 THEN Credits(owed, r.rcv, roy) ELSE owed
    IN  Credits(Credits(paidRoyalty, n.agent, AgentShare(n, rest)),
                n.seller, rest - AgentShare(n, rest))

Sellable(id) == Open(id) /\ note[id].ask # 0 /\ now < note[id].until

BadPriceStands(id, agreed) == TRUE
PriceStands(id, agreed) == note[id].ask = agreed

\* The buyer names a price and pays it.  They may have read it long before,
\* under another ask or another note: it is any price.  Change is sent back
\* before the end.
Buy(c, id, agreed, r) ==
    /\ Sellable(id)
    /\ PriceStands(id, agreed)
    /\ note' = [note EXCEPT ![id] = NoNote]
    /\ owed' = Split(note[id], agreed, r)
    /\ ether' = ether + agreed
    /\ TransferFrom(ConsignAddr, ConsignAddr, c, id)

-----------------------------------------------------------------------------
(* Getting it back, and the money.                                         *)

SendHome(id) ==
    /\ note' = [note EXCEPT ![id] = NoNote]
    /\ TransferFrom(ConsignAddr, ConsignAddr, note[id].seller, id)
    /\ UNCHANGED <<owed, ether>>

BadOver(id) == now >= note[id].until /\ note[id].ask = 0
Over(id) == now >= note[id].until

Reclaim(id) == Open(id) /\ Over(id) /\ SendHome(id)

Release(c, id) == Open(id) /\ c = note[id].agent /\ SendHome(id)

Withdraw(c) ==
    /\ owed[c] # 0
    /\ ether' = ether - owed[c]
    /\ owed' = [owed EXCEPT ![c] = 0]
    /\ UNCHANGED <<hubVars, note>>

-----------------------------------------------------------------------------
ConsignCall(c) ==
    \/ \E id \in Tokens, agent \in Agents, floor \in Prices, cut \in Cuts,
          until \in 0..MaxTime : Place(c, id, agent, floor, cut, until)
    \/ \E id \in Tokens, price \in Prices : Ask(c, id, price)
    \/ \E id \in Tokens, agreed \in Prices, r \in Royalties : Buy(c, id, agreed, r)
    \/ \E id \in Tokens : Release(c, id)
    \/ Withdraw(c)

HubStep == HubNext /\ UNCHANGED consignVars

Init ==
    /\ HubInit
    /\ note = [id \in Tokens |-> NoNote]
    /\ owed = [a \in Address |-> 0]
    /\ ether = 0

Next ==
    \/ HubStep
    \/ \E c \in People \cup Accounts : CanAct(c) /\ ConsignCall(c)
    \/ \E id \in Tokens : Reclaim(id)

Spec == Init /\ [][Next]_vars

\* Reclaim is open to anybody, the consignor first of all; blocks keep coming.
FairSpec ==
    /\ Spec
    /\ WF_vars(Tick /\ UNCHANGED consignVars)
    /\ \A id \in Tokens : WF_vars(Reclaim(id))

-----------------------------------------------------------------------------
(* Properties.                                                             *)

TypeOK ==
    /\ HubTypeOK
    /\ note \in [Tokens -> Notes]
    /\ owed \in [Address -> Nat]
    /\ ether \in Nat

\* Every wei here is credited to some address: the balance is what
\* withdrawals still owe, through sales with a royalty, without one, and with
\* one address in several parts.
Solvent == ether = Total(owed)

\* While a note is open the contract holds the token, nobody has a standing
\* approval on it, and the consignor is its user until the term ends.
Honoured(id) ==
    Open(id) =>
        /\ ownerOf[id] = ConsignAddr
        /\ getApproved[id] = None
        /\ users[id] = UserRecord(note[id].seller, note[id].until)

\* A note is honoured for as long as it is open, and nobody else can bolt or
\* unbolt what was placed: not the consignor who is its user, nor anybody
\* through the token's account, unless the account is still inside the batch
\* in which the token was placed.  A bolt drawn there makes reclaim, release
\* and every sale impossible.
NoteIsHonourable ==
    /\ [](\A id \in Tokens : Honoured(id))
    /\ [][\A id \in Tokens :
             (Open(id) /\ id \notin batching) => locked'[id] = locked[id]]_vars

\* A token leaves the window home to the consignor, or to somebody who pays,
\* while the term still runs, the price the agent asks at that moment, which
\* is no less than the floor of that note.  A price agreed to under an
\* earlier ask or an earlier note buys nothing.
SoldAboveTheFloorOrHome ==
    [][\A id \in Tokens :
          (Open(id) /\ ownerOf'[id] # ConsignAddr /\ ownerOf'[id] # note[id].seller)
             => /\ ether' = ether + note[id].ask
                /\ note[id].ask >= note[id].floor
                /\ now < note[id].until]_vars

\* A dealer cannot keep a token by doing nothing: every consignment ends,
\* unless the token was bolted in the batch that placed it.
EveryConsignmentEnds ==
    \A id \in Tokens : (Open(id) /\ ~locked[id] /\ id \notin batching) ~> ~Open(id)
=============================================================================
