------------------------------- MODULE Lease -------------------------------
(***************************************************************************)
(* src/src/Lease.sol: the counter where a stranger rents a token.  Rent is *)
(* escrowed when it is paid and vests over the term; a lease the token has *)
(* stopped showing is split between the token and the renter at the last   *)
(* moment anybody saw it intact.                                           *)
(*                                                                         *)
(* Composed with the hub: a step is a call into the counter, a call into   *)
(* the hub the counter never hears of, or the passage of time.  A call     *)
(* that pays ether out is one step: the books are written before the       *)
(* ether leaves, so a call nested in the payment is a later step.          *)
(***************************************************************************)
EXTENDS Custody, Totals

CONSTANTS
    LeaseAddr,  \* this contract
    Day,        \* clock ticks in a day
    MaxDays,    \* MAX_DAYS: the longest term a holder may offer
    Prices      \* bound: the prices per day holders write

ASSUME LeaseAssumption ==
    /\ LeaseAddr \in Contracts
    /\ Day \in Nat \ {0}
    /\ MaxDays \in Nat \ {0}
    /\ Prices \subseteq Nat

VARIABLES
    termsOf,    \* what the holder offers, and who wrote it
    activeOf,   \* the lease occupying the slot, or NoLease
    earned,     \* vested rent: whoever holds the token may draw it
    owed,       \* unvested rent: the renter's to reclaim
    ether,      \* the contract's balance
    brokeAt     \* history: when the leased user record was written over

books == <<termsOf, activeOf, earned, owed, ether>>
leaseVars == <<termsOf, activeOf, earned, owed, ether, brokeAt>>
vars == <<hubVars, leaseVars>>

NoTerms == [perDay |-> 0, minDays |-> 0, maxDays |-> 0, open |-> FALSE, by |-> None]
NoLease == [renter |-> None, start |-> 0, until |-> 0, paid |-> 0, seen |-> 0,
            userEpoch |-> 0]
Never == MaxTime + 1

Terms == [perDay : Prices \cup {0}, minDays : 0..MaxDays, maxDays : 0..MaxDays,
          open : BOOLEAN, by : Address \cup {None}]
Leases == [renter : Address \cup {None}, start : Nat, until : Nat, paid : Nat,
           seen : Nat, userEpoch : 0..MaxEpoch]

-----------------------------------------------------------------------------
(* The books.                                                              *)

Intact(id, a) ==
    /\ userEpoch[id] = a.userEpoch
    /\ users[id].expires = a.until
    /\ users[id].user = a.renter

\* Floor of the elapsed share of the rent, to the moment given.
ElapsedShare(a, end) == (a.paid * (end - a.start)) \div (a.until - a.start)

LastSeen(a) == IF a.seen < a.until THEN a.seen ELSE a.until

BadEndShare(a) == ElapsedShare(a, a.seen)
EndShare(a) == ElapsedShare(a, now)

BadRunning(id) == Intact(id, activeOf[id])
Running(id) == Intact(id, activeOf[id]) /\ now < activeOf[id].until

\* What settling credits to the token: all of a lease that ran to term, the
\* elapsed share of one that broke, nothing while it runs or if there is none.
BadToToken(id) ==
    LET a == activeOf[id] IN
    IF a = NoLease \/ Running(id) THEN 0
    ELSE IF now >= a.until THEN a.paid
    ELSE ElapsedShare(a, LastSeen(a))
ToToken(id) ==
    LET a == activeOf[id] IN
    IF a = NoLease \/ Running(id) THEN 0
    ELSE IF Intact(id, a) THEN a.paid
    ELSE ElapsedShare(a, LastSeen(a))

\* What it returns to the renter: the rest of a lease that broke.
BadToRenter(id) ==
    LET a == activeOf[id] IN
    IF a = NoLease \/ Intact(id, a) THEN 0 ELSE a.paid - ElapsedShare(a, a.until)
ToRenter(id) ==
    LET a == activeOf[id] IN
    IF a = NoLease \/ Intact(id, a) THEN 0 ELSE a.paid - ToToken(id)

AfterSettle(id) ==
    IF activeOf[id] # NoLease /\ Running(id)
    THEN [activeOf[id] EXCEPT !.seen = now]
    ELSE NoLease

\* _settle's effect on the two ledgers (activeOf is left to the caller).
Credit(id) ==
    /\ earned' = [earned EXCEPT ![id] = @ + ToToken(id)]
    /\ owed' = [owed EXCEPT ![activeOf[id].renter] = @ + ToRenter(id)]

-----------------------------------------------------------------------------
(* The calls.  The first parameter is msg.sender.                          *)

List(c, id, perDay, minDays, maxDays) ==
    /\ Minted(id)
    /\ c = ownerOf[id]
    /\ leaseAgentOf[id] = LeaseAddr
    /\ minDays # 0 /\ minDays <= maxDays /\ maxDays <= MaxDays
    /\ termsOf' = [termsOf EXCEPT ![id] =
          [perDay |-> perDay, minDays |-> minDays, maxDays |-> maxDays,
           open |-> TRUE, by |-> c]]
    /\ UNCHANGED <<hubVars, activeOf, earned, owed, ether>>

Delist(c, id) ==
    /\ Minted(id)
    /\ c = ownerOf[id]
    /\ termsOf' = [termsOf EXCEPT ![id].open = FALSE]
    /\ UNCHANGED <<hubVars, activeOf, earned, owed, ether>>

Collect(c, id) ==
    /\ Minted(id)
    /\ c = ownerOf[id]
    /\ earned[id] + ToToken(id) # 0
    /\ activeOf' = [activeOf EXCEPT ![id] = AfterSettle(id)]
    /\ earned' = [earned EXCEPT ![id] = 0]
    /\ owed' = [owed EXCEPT ![activeOf[id].renter] = @ + ToRenter(id)]
    /\ ether' = ether - (earned[id] + ToToken(id))
    /\ UNCHANGED <<hubVars, termsOf>>

Offered(id) == termsOf[id].open /\ termsOf[id].by = ownerOf[id]

\* The new lease; the books of the one it replaces are settled first.  The
\* renter's maxPerDay and the exact-payment test admit only the price asked.
Rent(c, id, days) ==
    LET t == termsOf[id]
        due == t.perDay * days
        until == now + days * Day
    IN  /\ Offered(id)
        /\ AfterSettle(id) = NoLease
        /\ days >= t.minDays /\ days <= t.maxDays
        /\ until <= MaxTime
        /\ SetUserVia(LeaseAddr, id, c, until)
        /\ activeOf' = [activeOf EXCEPT ![id] =
              [renter |-> c, start |-> now, until |-> until, paid |-> due,
               seen |-> now, userEpoch |-> userEpoch'[id]]]
        /\ Credit(id)
        /\ ether' = ether + due
        /\ UNCHANGED termsOf

Settle(id) ==
    /\ activeOf' = [activeOf EXCEPT ![id] = AfterSettle(id)]
    /\ Credit(id)
    /\ UNCHANGED <<hubVars, termsOf, ether>>

\* A running lease is stamped with this block and taken down through the
\* hub, so the _settle that follows finds it broken now.
EndLease(c, id) ==
    LET a == activeOf[id]
        share == EndShare(a)
    IN  /\ Minted(id)
        /\ c = ownerOf[id]
        /\ a # NoLease
        /\ \/ /\ Running(id)
              /\ SetUserVia(LeaseAddr, id, None, 0)
              /\ activeOf' = [activeOf EXCEPT ![id] = NoLease]
              /\ earned' = [earned EXCEPT ![id] = @ + share]
              /\ owed' = [owed EXCEPT ![a.renter] = @ + (a.paid - share)]
              /\ UNCHANGED <<termsOf, ether>>
           \/ ~Running(id) /\ Settle(id)

Claim(c) ==
    /\ owed[c] # 0
    /\ ether' = ether - owed[c]
    /\ owed' = [owed EXCEPT ![c] = 0]
    /\ UNCHANGED <<hubVars, termsOf, activeOf, earned>>

-----------------------------------------------------------------------------
LeaseCall(c) ==
    \/ \E id \in Tokens, perDay \in Prices, minDays, maxDays \in 1..MaxDays :
          List(c, id, perDay, minDays, maxDays)
    \/ \E id \in Tokens : Delist(c, id) \/ Collect(c, id) \/ EndLease(c, id)
    \/ \E id \in Tokens, days \in 1..MaxDays : Rent(c, id, days)
    \/ Claim(c)

HubStep == HubNext /\ UNCHANGED books

CounterStep ==
    \/ \E id \in Tokens : Settle(id)
    \/ \E c \in People \cup Accounts : CanAct(c) /\ LeaseCall(c)

\* The history: when the user record the lease in the slot installed was
\* first written over, by anyone and with anything.
Record ==
    brokeAt' = [id \in Tokens |->
        IF activeOf'[id] = NoLease \/ userEpoch'[id] = activeOf'[id].userEpoch THEN Never
        ELSE IF brokeAt[id] = Never THEN now' ELSE brokeAt[id]]

LeaseInit ==
    /\ termsOf = [id \in Tokens |-> NoTerms]
    /\ activeOf = [id \in Tokens |-> NoLease]
    /\ earned = [id \in Tokens |-> 0]
    /\ owed = [a \in Address \cup {None} |-> 0]
    /\ ether = 0
    /\ brokeAt = [id \in Tokens |-> Never]

Init == HubInit /\ LeaseInit
Next == (HubStep \/ CounterStep) /\ Record
Spec == Init /\ [][Next]_vars

\* Settling needs nobody's leave and costs only gas, and one of the two
\* parties always gains by it; blocks keep coming.
FairSpec ==
    /\ Spec
    /\ WF_vars(Tick /\ UNCHANGED books /\ Record)
    /\ \A id \in Tokens : WF_vars(Settle(id) /\ Record)
-----------------------------------------------------------------------------
(* What the page is told: status(), whose reasons are 0 rentable, 1 not    *)
(* listed, 2 agent not named, 3 already rented.                            *)

BadStatus(id) ==
    IF ~Offered(id) THEN 1
    ELSE IF leaseAgentOf[id] # LeaseAddr THEN 2
    ELSE IF activeOf[id] # NoLease /\ now < activeOf[id].until THEN 3
    ELSE 0
Status(id) ==
    IF ~Offered(id) THEN 1
    ELSE IF leaseAgentOf[id] # LeaseAddr THEN 2
    ELSE IF activeOf[id] # NoLease /\ Running(id) THEN 3
    ELSE 0

-----------------------------------------------------------------------------
(* Properties.                                                             *)

LeaseTypeOK ==
    /\ HubTypeOK
    /\ termsOf \in [Tokens -> Terms]
    /\ activeOf \in [Tokens -> Leases]
    /\ earned \in [Tokens -> Nat]
    /\ owed \in [Address \cup {None} -> Nat]
    /\ ether \in Nat
    /\ brokeAt \in [Tokens -> 0..Never]

\* Lease.obligations: every wei the contract holds is spoken for by exactly
\* one of its three ledgers, whatever order leases are broken, settled,
\* collected and claimed in.
Solvent ==
    ether = Total(earned) + Total([id \in Tokens |-> activeOf[id].paid]) + Total(owed)

Closes(id) == activeOf[id] # NoLease /\ activeOf'[id].userEpoch # activeOf[id].userEpoch

\* How far into its term the lease in the slot was really delivered.
DeliveredTo(id) ==
    CHOOSE t \in {now, activeOf[id].until, brokeAt[id]} :
        t <= now /\ t <= activeOf[id].until /\ t <= brokeAt[id]

\* However late a broken lease is looked at, and whatever was written over
\* it in the meantime, its renter gets back at least the rent for the time
\* after it really broke (_settle credits the holder only to `seen`).
RenterNeverPaysForUndelivered ==
    [][\A id \in Tokens :
          LET a == activeOf[id] IN
          Closes(id) =>
             (owed'[a.renter] - owed[a.renter]) * (a.until - a.start)
                >= a.paid * (a.until - DeliveredTo(id))]_vars

\* A lease that is intact and running is taken down by endLease alone, and
\* then the token is credited to this very block: no stranger's settle or
\* rent, and no collect, displaces a paying renter.
RunningLeaseEndsPaidToTheBlock ==
    [][\A id \in Tokens :
          LET a == activeOf[id] IN
          (Closes(id) /\ Running(id)) =>
             /\ earned'[id] = earned[id] + ElapsedShare(a, now)
             /\ owed'[a.renter] = owed[a.renter] + a.paid - ElapsedShare(a, now)
             /\ users'[id] = NoUser]_vars

\* What status() tells a stranger is what rent() will do: it says rentable
\* exactly when somebody could rent for some term within the bounds, a dead
\* lease still in the slot included.
StatusTellsTheTruth ==
    \A id \in Tokens :
        Minted(id) /\ EpochLeft(id) /\ now + termsOf[id].minDays * Day <= MaxTime
           => (Status(id) = 0) <=> ENABLED (\E c \in People, days \in 1..MaxDays :
                                              Rent(c, id, days))

\* No rent stays in escrow for good: every lease is eventually settled, to
\* the token or back to its renter, even if its holder and renter never
\* speak to the contract again.
EveryLeaseSettles ==
    \A id \in Tokens : activeOf[id] # NoLease ~> activeOf[id] = NoLease
=============================================================================
