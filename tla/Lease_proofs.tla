---------------------------- MODULE Lease_proofs ----------------------------
(***************************************************************************)
(* Proofs about Lease, for any tokens, prices, terms and length of a day.  *)
(* The renter's guarantee rests on one number: `seen` never runs ahead of  *)
(* the moment the lease really broke, because only a lease the hub still   *)
(* shows is ever stamped.                                                  *)
(***************************************************************************)
EXTENDS Lease, Custody_proofs, Totals_proofs

\* LeaseTypeOK, but for the sign of the balance: that a payment is covered
\* follows from Solvent.
BooksTypeOK ==
    /\ HubTypeOK
    /\ termsOf \in [Tokens -> Terms]
    /\ activeOf \in [Tokens -> Leases]
    /\ earned \in [Tokens -> Nat]
    /\ owed \in [Address \cup {None} -> Nat]
    /\ ether \in Int
    /\ brokeAt \in [Tokens -> 0..Never]

LeaseInv(id) ==
    LET a == activeOf[id] IN
    /\ (a = NoLease \/ userEpoch[id] = a.userEpoch) => brokeAt[id] = Never
    /\ a # NoLease =>
          /\ a.renter \in Address
          /\ a.start < a.until
          /\ a.start <= a.seen
          /\ a.seen <= now
          /\ userEpoch[id] # a.userEpoch => a.seen <= brokeAt[id] /\ brokeAt[id] <= now

Inv == BooksTypeOK /\ \A id \in Tokens : LeaseInv(id)

-----------------------------------------------------------------------------
(* Arithmetic of a split.                                                  *)

LEMMA NoLeaseType == NoLease \in Leases
  BY CustodyAssumption DEF NoLease, Leases

\* Dividing rounds down.
LEMMA DivisionIsAFloor ==
  ASSUME NEW x \in Nat, NEW y \in Nat \ {0}
  PROVE  /\ x \div y \in Nat
         /\ (x \div y) * y <= x
  OBVIOUS

\* A share of the rent up to a moment of the term is a part of the rent, and
\* never more than that time is worth.
LEMMA ShareBound ==
  ASSUME NEW a \in Leases, a.start < a.until, NEW end \in Nat,
         a.start <= end, end <= a.until
  PROVE  /\ ElapsedShare(a, end) \in 0..a.paid
         /\ ElapsedShare(a, end) * (a.until - a.start) <= a.paid * (end - a.start)
<1> DEFINE term == a.until - a.start
           past == end - a.start
           share == (a.paid * past) \div term
<1>1. a.paid \in Nat /\ term \in Nat \ {0} /\ past \in Nat /\ past <= term
  BY DEF Leases
<1>2. a.paid * past \in Nat
  BY <1>1
<1> HIDE DEF term, past
<1>3. share \in Nat /\ share * term <= a.paid * past
  BY <1>1, <1>2, DivisionIsAFloor
<1>4. a.paid * past <= a.paid * term
  BY <1>1
<1>5. share <= a.paid
  BY <1>1, <1>3, <1>4
<1>6. QED
  BY <1>1, <1>3, <1>5 DEF ElapsedShare, term, past

LEMMA SettleAmounts ==
  ASSUME Inv, NEW id \in Tokens
  PROVE  ToToken(id) \in Nat /\ ToRenter(id) \in Nat
<1> DEFINE a == activeOf[id]
<1>1. a \in Leases /\ LeaseInv(id)
  BY DEF Inv, BooksTypeOK
<1>2. CASE a = NoLease \/ Running(id)
  BY <1>2 DEF ToToken, ToRenter, Running
<1>3. CASE a # NoLease /\ ~Running(id) /\ Intact(id, a)
  BY <1>1, <1>3 DEF ToToken, ToRenter, Leases
<1>4. CASE a # NoLease /\ ~Intact(id, a)
  <2>1. /\ LastSeen(a) \in Nat /\ a.start <= LastSeen(a) /\ LastSeen(a) <= a.until
        /\ a.start < a.until /\ a.paid \in Nat
    BY <1>1, <1>4 DEF LeaseInv, LastSeen, Leases
  <2>2. ElapsedShare(a, LastSeen(a)) \in 0..a.paid
    BY <1>1, <2>1, ShareBound
  <2>3. QED
    BY <1>4, <2>1, <2>2 DEF ToToken, ToRenter, Running
<1>5. QED
  BY <1>2, <1>3, <1>4

-----------------------------------------------------------------------------
(* What a step does to one token's lease and its history.                  *)

LEMMA LeaseKept ==
  ASSUME Inv, Record, NEW id \in Tokens, now' \in now..MaxTime,
         activeOf'[id] = activeOf[id]
  PROVE  LeaseInv(id)' /\ brokeAt'[id] \in 0..Never
<1>1. /\ LeaseInv(id)
      /\ activeOf[id] \in Leases /\ now \in Nat /\ MaxTime \in Nat /\ now <= MaxTime
      /\ brokeAt[id] \in 0..Never
  BY CustodyAssumption DEF Inv, BooksTypeOK, HubTypeOK
<1>2. brokeAt'[id] =
        IF activeOf[id] = NoLease \/ userEpoch'[id] = activeOf[id].userEpoch THEN Never
        ELSE IF brokeAt[id] = Never THEN now' ELSE brokeAt[id]
  BY DEF Record
<1>3. QED
  BY <1>1, <1>2 DEF LeaseInv, Never, Leases

LEMMA LeaseSettled ==
  ASSUME Inv, Record, NEW id \in Tokens, UNCHANGED hubVars,
         activeOf'[id] = AfterSettle(id)
  PROVE  /\ LeaseInv(id)' /\ brokeAt'[id] \in 0..Never
         /\ AfterSettle(id) \in Leases
<1>1. /\ LeaseInv(id) /\ Never \in Nat /\ now \in Nat
      /\ activeOf[id] \in Leases
  BY CustodyAssumption DEF Inv, BooksTypeOK, HubTypeOK, Never
<1>2. CASE activeOf[id] # NoLease /\ Running(id)
  <2>1. AfterSettle(id) = [activeOf[id] EXCEPT !.seen = now]
    BY <1>2 DEF AfterSettle
  <2>2. /\ AfterSettle(id) \in Leases
        /\ AfterSettle(id).seen = now
        /\ AfterSettle(id).renter = activeOf[id].renter
        /\ AfterSettle(id).start = activeOf[id].start
        /\ AfterSettle(id).until = activeOf[id].until
        /\ AfterSettle(id).userEpoch = userEpoch[id]
    BY <1>1, <1>2, <2>1 DEF Leases, Running, Intact
  <2>3. brokeAt'[id] = Never
    BY <2>2 DEF Record, hubVars
  <2>4. QED
    BY <1>1, <1>2, <2>2, <2>3 DEF LeaseInv, hubVars, Leases
<1>3. CASE ~(activeOf[id] # NoLease /\ Running(id))
  <2>1. AfterSettle(id) = NoLease
    BY <1>3 DEF AfterSettle
  <2>2. brokeAt'[id] = Never
    BY <2>1 DEF Record
  <2>3. QED
    BY <1>1, <2>1, <2>2, NoLeaseType DEF LeaseInv
<1>4. QED
  BY <1>2, <1>3

LEMMA LeaseEnded ==
  ASSUME Inv, Record, NEW id \in Tokens, activeOf'[id] = NoLease
  PROVE  LeaseInv(id)' /\ brokeAt'[id] \in 0..Never
<1>1. brokeAt'[id] = Never
  BY DEF Record
<1>2. Never \in Nat
  BY CustodyAssumption DEF Never
<1>3. QED
  BY <1>1, <1>2 DEF LeaseInv

-----------------------------------------------------------------------------
LEMMA InitInv == Init => Inv
<1> SUFFICES ASSUME Init PROVE Inv
  OBVIOUS
<1>1. NoTerms \in Terms
  BY LeaseAssumption DEF NoTerms, Terms
<1>2. BooksTypeOK
  BY <1>1, NoLeaseType, HubInitType, CustodyAssumption
     DEF Init, LeaseInit, BooksTypeOK, Never
<1>3. ASSUME NEW id \in Tokens
      PROVE  LeaseInv(id)
  BY DEF Init, LeaseInit, LeaseInv
<1>4. QED
  BY <1>2, <1>3 DEF Inv

\* The history of every token is typed and the leases a step does not touch
\* are kept: what is left are the tokens it does touch.
LEMMA StepInv ==
  ASSUME Inv, Record, NEW touched \in SUBSET Tokens, now' \in now..MaxTime, HubTypeOK',
         \A t \in Tokens \ touched : activeOf'[t] = activeOf[t],
         \A t \in touched : LeaseInv(t)' /\ brokeAt'[t] \in 0..Never,
         termsOf' \in [Tokens -> Terms], activeOf' \in [Tokens -> Leases],
         earned' \in [Tokens -> Nat], owed' \in [Address \cup {None} -> Nat],
         ether' \in Int
  PROVE  Inv'
<1>1. ASSUME NEW t \in Tokens
      PROVE  LeaseInv(t)' /\ brokeAt'[t] \in 0..Never
  BY LeaseKept
<1>2. brokeAt' \in [Tokens -> 0..Never]
  BY <1>1 DEF Record
<1>3. QED
  BY <1>1, <1>2 DEF Inv, BooksTypeOK

LEMMA SameBlock ==
  ASSUME Inv, now' = now
  PROVE  now' \in now..MaxTime
  BY CustodyAssumption DEF Inv, BooksTypeOK, HubTypeOK

LEMMA HubStepInv ==
  ASSUME Inv, HubStep, Record
  PROVE  Inv'
<1>1. HubTypeOK'
  BY HubNextType DEF Inv, BooksTypeOK, HubStep
<1>2. now' \in now..MaxTime
  <2>1. now' = now \/ now' = now + 1
    BY DEF HubStep, HubNext, Tick, Mint, HubCall, ArrangementCall, TransferFrom, Approve,
           SetApprovalForAll, SetUser, SetUserVia, WriteUser, SetLeaseAgent, Lock, Unlock,
           BeginBatch, EndBatch
  <2>2. QED
    BY <1>1, <2>1, CustodyAssumption DEF Inv, BooksTypeOK, HubTypeOK
<1>3. UNCHANGED books
  BY DEF HubStep
<1>4. QED
  BY <1>1, <1>2, <1>3, StepInv, {} \in SUBSET Tokens DEF Inv, BooksTypeOK, books

\* A call that leaves the hub and every lease alone.
LEMMA BookkeepingInv ==
  ASSUME Inv, Record, UNCHANGED hubVars, UNCHANGED activeOf,
         termsOf' \in [Tokens -> Terms], earned' \in [Tokens -> Nat],
         owed' \in [Address \cup {None} -> Nat], ether' \in Int
  PROVE  Inv'
<1>1. now' \in now..MaxTime
  BY SameBlock DEF hubVars
<1>2. HubTypeOK'
  BY HubStutterType DEF Inv, BooksTypeOK
<1>3. QED
  BY <1>1, <1>2, StepInv, {} \in SUBSET Tokens DEF Inv, BooksTypeOK

LEMMA ListInv ==
  ASSUME Inv, Record, NEW c, NEW id \in Tokens, NEW perDay \in Prices,
         NEW minDays \in 1..MaxDays, NEW maxDays \in 1..MaxDays,
         List(c, id, perDay, minDays, maxDays)
  PROVE  Inv'
<1>1. [perDay |-> perDay, minDays |-> minDays, maxDays |-> maxDays,
       open |-> TRUE, by |-> c] \in Terms
  BY LeaseAssumption DEF List, Minted, Terms, Inv, BooksTypeOK, HubTypeOK
<1>2. QED
  BY <1>1, BookkeepingInv DEF List, Inv, BooksTypeOK

LEMMA DelistInv ==
  ASSUME Inv, Record, NEW c, NEW id \in Tokens, Delist(c, id)
  PROVE  Inv'
<1>1. termsOf' \in [Tokens -> Terms]
  BY DEF Delist, Terms, Inv, BooksTypeOK
<1>2. QED
  BY <1>1, BookkeepingInv DEF Delist, Inv, BooksTypeOK

LEMMA ClaimInv ==
  ASSUME Inv, Record, NEW c \in Address, Claim(c)
  PROVE  Inv'
<1>1. owed' \in [Address \cup {None} -> Nat] /\ ether' \in Int
  BY DEF Claim, Inv, BooksTypeOK
<1>2. QED
  BY <1>1, BookkeepingInv DEF Claim, Inv, BooksTypeOK

\* The renter a settlement credits is an address, or nobody is owed.
LEMMA RenterIsPayable ==
  ASSUME Inv, NEW id \in Tokens
  PROVE  activeOf[id].renter \in Address \cup {None}
  BY DEF Inv, BooksTypeOK, Leases

\* settle, and collect, which settles first and draws what is earned.
LEMMA SettledInv ==
  ASSUME Inv, Record, NEW id \in Tokens, UNCHANGED <<hubVars, termsOf>>,
         activeOf' = [activeOf EXCEPT ![id] = AfterSettle(id)],
         owed' = [owed EXCEPT ![activeOf[id].renter] = @ + ToRenter(id)],
         earned' \in [Tokens -> Nat], ether' \in Int
  PROVE  Inv'
<1>1. activeOf'[id] = AfterSettle(id) /\ \A t \in Tokens \ {id} : activeOf'[t] = activeOf[t]
  BY DEF Inv, BooksTypeOK
<1>2. LeaseInv(id)' /\ brokeAt'[id] \in 0..Never /\ AfterSettle(id) \in Leases
  BY <1>1, LeaseSettled
<1>3. activeOf' \in [Tokens -> Leases]
  BY <1>2 DEF Inv, BooksTypeOK
<1>4. owed' \in [Address \cup {None} -> Nat]
  BY SettleAmounts, RenterIsPayable DEF Inv, BooksTypeOK
<1>5. now' \in now..MaxTime
  BY SameBlock DEF hubVars
<1>6. HubTypeOK'
  BY HubStutterType DEF Inv, BooksTypeOK
<1>7. {id} \in SUBSET Tokens
  OBVIOUS
<1>8. QED
  BY <1>1, <1>2, <1>3, <1>4, <1>5, <1>6, <1>7, StepInv DEF Inv, BooksTypeOK

LEMMA SettleInv ==
  ASSUME Inv, Record, NEW id \in Tokens, Settle(id)
  PROVE  Inv'
<1>1. earned' \in [Tokens -> Nat]
  BY SettleAmounts DEF Settle, Credit, Inv, BooksTypeOK
<1>2. QED
  BY <1>1, SettledInv DEF Settle, Credit, Inv, BooksTypeOK

LEMMA CollectInv ==
  ASSUME Inv, Record, NEW c, NEW id \in Tokens, Collect(c, id)
  PROVE  Inv'
<1>1. earned' \in [Tokens -> Nat]
  BY DEF Collect, Inv, BooksTypeOK
<1>2. ether' \in Int
  BY SettleAmounts DEF Collect, Inv, BooksTypeOK
<1>3. QED
  BY <1>1, <1>2, SettledInv DEF Collect

LEMMA RentInv ==
  ASSUME Inv, Record, NEW c \in Address, NEW id \in Tokens, NEW days \in 1..MaxDays,
         Rent(c, id, days)
  PROVE  Inv'
<1> DEFINE due == termsOf[id].perDay * days
           until == now + days * Day
           new == [renter |-> c, start |-> now, until |-> until, paid |-> due,
                   seen |-> now, userEpoch |-> userEpoch'[id]]
<1>1. due \in Nat
  <2>1. termsOf[id] \in Terms /\ days \in Nat
    BY LeaseAssumption DEF Inv, BooksTypeOK
  <2>2. termsOf[id].perDay \in Nat
    <3>1. termsOf[id].perDay \in Prices \cup {0}
      BY <2>1 DEF Terms
    <3>2. Prices \cup {0} \subseteq Nat
      BY LeaseAssumption
    <3>3. QED
      BY <3>1, <3>2
  <2>3. QED
    BY <2>1, <2>2
<1>2. until \in Nat /\ now < until /\ now \in Nat
  <2>1. now \in Nat /\ days \in Nat \ {0} /\ Day \in Nat \ {0}
    BY LeaseAssumption, CustodyAssumption DEF Inv, BooksTypeOK, HubTypeOK
  <2>2. days * Day \in Nat \ {0}
    BY <2>1
  <2>3. QED
    BY <2>1, <2>2
<1>3. WriteUser(id, c, until) /\ activeOf' = [activeOf EXCEPT ![id] = new]
  BY DEF Rent, SetUserVia
<1>4. HubTypeOK'
  BY <1>2, <1>3, WriteUserType DEF Inv, BooksTypeOK
<1>5. /\ new \in Leases /\ new.renter = c /\ new.start = now /\ new.until = until
      /\ new.seen = now /\ new.userEpoch = userEpoch'[id]
  BY <1>1, <1>2, <1>4 DEF HubTypeOK, Leases
<1> HIDE DEF new, due, until
<1>6. /\ activeOf'[id] = new /\ activeOf' \in [Tokens -> Leases]
      /\ \A t \in Tokens \ {id} : activeOf'[t] = activeOf[t]
  BY <1>3, <1>5 DEF Inv, BooksTypeOK
<1>7. LeaseInv(id)' /\ brokeAt'[id] \in 0..Never
  <2>1. brokeAt'[id] = Never /\ Never \in Nat
    BY <1>5, <1>6, CustodyAssumption DEF Record, Never
  <2>2. now' = now
    BY <1>3 DEF WriteUser
  <2>3. QED
    BY <1>2, <1>5, <1>6, <2>1, <2>2 DEF LeaseInv
<1>8. earned' \in [Tokens -> Nat] /\ owed' \in [Address \cup {None} -> Nat]
  BY SettleAmounts, RenterIsPayable DEF Rent, Credit, Inv, BooksTypeOK
<1>9. ether' \in Int
  BY <1>1 DEF Rent, Inv, BooksTypeOK, due
<1>10. now' \in now..MaxTime
  BY <1>3, SameBlock DEF WriteUser
<1>11. {id} \in SUBSET Tokens
  OBVIOUS
<1>12. QED
  BY <1>4, <1>6, <1>7, <1>8, <1>9, <1>10, <1>11, StepInv DEF Rent, Inv, BooksTypeOK

LEMMA RunningShare ==
  ASSUME Inv, NEW id \in Tokens, activeOf[id] # NoLease, Running(id)
  PROVE  EndShare(activeOf[id]) \in 0..activeOf[id].paid
<1>1. /\ activeOf[id] \in Leases /\ LeaseInv(id) /\ now \in Nat
  BY CustodyAssumption DEF Inv, BooksTypeOK, HubTypeOK
<1>2. activeOf[id].start <= now /\ now <= activeOf[id].until
  BY <1>1 DEF LeaseInv, Leases, Running
<1>3. QED
  BY <1>1, <1>2, ShareBound DEF EndShare, LeaseInv

LEMMA EndLeaseInv ==
  ASSUME Inv, Record, NEW c, NEW id \in Tokens, EndLease(c, id)
  PROVE  Inv'
<1>1. CASE ~Running(id)
  BY <1>1, SettleInv DEF EndLease
<1>2. CASE Running(id)
  <2> DEFINE a == activeOf[id]
             share == EndShare(a)
  <2>1. share \in 0..a.paid /\ a.paid \in Nat /\ a.renter \in Address \cup {None}
    BY <1>2, RunningShare, RenterIsPayable DEF EndLease, Inv, BooksTypeOK, Leases
  <2>2. /\ WriteUser(id, None, 0)
        /\ activeOf' = [activeOf EXCEPT ![id] = NoLease]
        /\ earned' = [earned EXCEPT ![id] = @ + share]
        /\ owed' = [owed EXCEPT ![a.renter] = @ + (a.paid - share)]
        /\ UNCHANGED <<termsOf, ether>>
    BY <1>2 DEF EndLease, SetUserVia
  <2> HIDE DEF a, share
  <2>3. earned' \in [Tokens -> Nat] /\ owed' \in [Address \cup {None} -> Nat]
    BY <2>1, <2>2 DEF Inv, BooksTypeOK
  <2>4. /\ activeOf'[id] = NoLease /\ activeOf' \in [Tokens -> Leases]
        /\ \A t \in Tokens \ {id} : activeOf'[t] = activeOf[t]
    BY <2>2, NoLeaseType DEF Inv, BooksTypeOK
  <2>5. LeaseInv(id)' /\ brokeAt'[id] \in 0..Never
    BY <2>4, LeaseEnded
  <2>6. HubTypeOK'
    BY <2>2, WriteUserType DEF Inv, BooksTypeOK
  <2>7. now' \in now..MaxTime
    BY <2>2, SameBlock DEF WriteUser
  <2>8. {id} \in SUBSET Tokens
    OBVIOUS
  <2>9. termsOf' \in [Tokens -> Terms] /\ ether' \in Int
    BY <2>2 DEF Inv, BooksTypeOK
  <2>10. QED
    BY <2>3, <2>4, <2>5, <2>6, <2>7, <2>8, <2>9, StepInv
<1>3. QED
  BY <1>1, <1>2

LEMMA NextInv == Inv /\ [Next]_vars => Inv'
<1> SUFFICES ASSUME Inv, [Next]_vars PROVE Inv'
  OBVIOUS
<1>1. CASE HubStep /\ Record
  BY <1>1, HubStepInv
<1>2. ASSUME NEW c \in People \cup Accounts, LeaseCall(c), Record
      PROVE  Inv'
  <2>1. c \in Address
    BY DEF Address
  <2>2. ASSUME NEW id \in Tokens, NEW perDay \in Prices, NEW minDays \in 1..MaxDays,
               NEW maxDays \in 1..MaxDays, List(c, id, perDay, minDays, maxDays)
        PROVE  Inv'
    BY <1>2, <2>2, ListInv
  <2>3. ASSUME NEW id \in Tokens, Delist(c, id) \/ Collect(c, id) \/ EndLease(c, id)
        PROVE  Inv'
    BY <1>2, <2>3, DelistInv, CollectInv, EndLeaseInv
  <2>4. ASSUME NEW id \in Tokens, NEW days \in 1..MaxDays, Rent(c, id, days)
        PROVE  Inv'
    BY <1>2, <2>1, <2>4, RentInv
  <2>5. CASE Claim(c)
    BY <1>2, <2>1, <2>5, ClaimInv
  <2>6. QED
    BY <1>2, <2>2, <2>3, <2>4, <2>5 DEF LeaseCall
<1>3. CASE (\E id \in Tokens : Settle(id)) /\ Record
  BY <1>3, SettleInv
<1>4. CASE UNCHANGED vars
  <2>1. HubTypeOK'
    BY <1>4, HubStutterType DEF Inv, BooksTypeOK, vars
  <2>2. QED
    BY <1>4, <2>1 DEF Inv, BooksTypeOK, LeaseInv, vars, hubVars, leaseVars
<1>5. QED
  BY <1>1, <1>2, <1>3, <1>4 DEF Next, CounterStep

-----------------------------------------------------------------------------
(* How a lease leaves the slot: settled once the token has stopped showing *)
(* it or its term has run, or taken down while it runs.                    *)

Settled(id) ==
    /\ ~Running(id)
    /\ owed'[activeOf[id].renter] = owed[activeOf[id].renter] + ToRenter(id)

TakenDown(id) ==
    LET a == activeOf[id] IN
    /\ Running(id)
    /\ earned'[id] = earned[id] + ElapsedShare(a, now)
    /\ owed'[a.renter] = owed[a.renter] + (a.paid - ElapsedShare(a, now))
    /\ users'[id] = NoUser

\* A running lease is not closed by settling it: it is stamped and stays.
LEMMA StampedStays ==
  ASSUME Inv, NEW id \in Tokens, activeOf[id] # NoLease, Running(id)
  PROVE  AfterSettle(id) # NoLease /\ AfterSettle(id).userEpoch = activeOf[id].userEpoch
<1>1. activeOf[id] \in Leases /\ activeOf[id].start < activeOf[id].until
  BY DEF Inv, BooksTypeOK, LeaseInv
<1>2. AfterSettle(id) = [activeOf[id] EXCEPT !.seen = now]
  BY DEF AfterSettle
<1>3. /\ AfterSettle(id).userEpoch = activeOf[id].userEpoch
      /\ AfterSettle(id).start = activeOf[id].start
      /\ AfterSettle(id).until = activeOf[id].until
  BY <1>1, <1>2 DEF Leases
<1>4. QED
  BY <1>1, <1>3 DEF NoLease, Leases

LEMMA SettlingCloses ==
  ASSUME Inv, NEW id \in Tokens, NEW t \in Tokens, Closes(id),
         owed' = [owed EXCEPT ![activeOf[t].renter] = @ + ToRenter(t)],
         activeOf' = [activeOf EXCEPT ![t] = AfterSettle(t)]
  PROVE  Settled(id)
<1>1. t = id /\ activeOf'[id] = AfterSettle(id)
  BY DEF Closes, Inv, BooksTypeOK
<1>2. ~Running(id)
  BY <1>1, StampedStays DEF Closes
<1>3. owed'[activeOf[id].renter] = owed[activeOf[id].renter] + ToRenter(id)
  BY <1>1, RenterIsPayable DEF Inv, BooksTypeOK
<1>4. QED
  BY <1>2, <1>3 DEF Settled

LEMMA RentingCloses ==
  ASSUME Inv, NEW id \in Tokens, NEW t \in Tokens, NEW c, NEW days, Closes(id),
         Rent(c, t, days)
  PROVE  Settled(id)
<1>1. t = id
  BY DEF Closes, Rent, Inv, BooksTypeOK
<1>2. ~Running(id)
  BY <1>1, StampedStays DEF Closes, Rent
<1>3. owed'[activeOf[id].renter] = owed[activeOf[id].renter] + ToRenter(id)
  BY <1>1, RenterIsPayable DEF Rent, Credit, Inv, BooksTypeOK
<1>4. QED
  BY <1>2, <1>3 DEF Settled

LEMMA EndingCloses ==
  ASSUME Inv, NEW id \in Tokens, NEW t \in Tokens, NEW c, Closes(id), EndLease(c, t)
  PROVE  Settled(id) \/ TakenDown(id)
<1>1. CASE ~Running(t)
  BY <1>1, SettlingCloses DEF EndLease, Settle, Credit
<1>2. CASE Running(t)
  <2>1. /\ users' = [users EXCEPT ![t] = UserRecord(None, 0)]
        /\ activeOf' = [activeOf EXCEPT ![t] = NoLease]
        /\ earned' = [earned EXCEPT ![t] = @ + EndShare(activeOf[t])]
        /\ owed' = [owed EXCEPT ![activeOf[t].renter] =
                      @ + (activeOf[t].paid - EndShare(activeOf[t]))]
    BY <1>2 DEF EndLease, SetUserVia, WriteUser
  <2>2. t = id
    BY <2>1 DEF Closes, Inv, BooksTypeOK
  <2>3. users'[id] = NoUser
    BY <2>1, <2>2 DEF UserRecord, NoUser, Inv, BooksTypeOK, HubTypeOK
  <2>4. QED
    BY <1>2, <2>1, <2>2, <2>3, RenterIsPayable
       DEF TakenDown, EndShare, Inv, BooksTypeOK
<1>3. QED
  BY <1>1, <1>2

LEMMA HowLeasesClose ==
  ASSUME Inv, Next, NEW id \in Tokens, Closes(id)
  PROVE  Settled(id) \/ TakenDown(id)
<1>1. CASE UNCHANGED activeOf
  BY <1>1 DEF Closes
<1>2. ASSUME NEW t \in Tokens, Settle(t)
      PROVE  Settled(id)
  BY <1>2, SettlingCloses DEF Settle, Credit
<1>3. ASSUME NEW t \in Tokens, NEW c, Collect(c, t)
      PROVE  Settled(id)
  BY <1>3, SettlingCloses DEF Collect
<1>4. ASSUME NEW c, LeaseCall(c)
      PROVE  Settled(id) \/ TakenDown(id)
  BY <1>1, <1>3, <1>4, RentingCloses, EndingCloses DEF LeaseCall, List, Delist, Claim
<1>5. QED
  BY <1>1, <1>2, <1>4 DEF Next, HubStep, books, CounterStep

-----------------------------------------------------------------------------
(* How much of its term a lease was delivered for.                         *)

LEMMA Delivered ==
  ASSUME Inv, NEW id \in Tokens
  PROVE  /\ DeliveredTo(id) \in {now, activeOf[id].until, brokeAt[id]}
         /\ DeliveredTo(id) <= now
         /\ DeliveredTo(id) <= activeOf[id].until
         /\ DeliveredTo(id) <= brokeAt[id]
<1>1. now \in Nat /\ activeOf[id].until \in Nat /\ brokeAt[id] \in Nat
  BY CustodyAssumption DEF Inv, BooksTypeOK, HubTypeOK, Leases, Never
<1>2. \E t \in {now, activeOf[id].until, brokeAt[id]} :
         t <= now /\ t <= activeOf[id].until /\ t <= brokeAt[id]
  BY <1>1
<1>3. QED
  BY <1>2 DEF DeliveredTo

\* The two sides of the guarantee, for a lease settled after the fact.
LEMMA SettledPaysBack ==
  ASSUME Inv, NEW id \in Tokens, activeOf[id] # NoLease, ~Running(id)
  PROVE  ToRenter(id) * (activeOf[id].until - activeOf[id].start)
            >= activeOf[id].paid * (activeOf[id].until - DeliveredTo(id))
<1> DEFINE a == activeOf[id]
           d == DeliveredTo(id)
<1>1. /\ a \in Leases /\ LeaseInv(id)
      /\ now \in 0..MaxTime /\ MaxTime \in Nat /\ brokeAt[id] \in Nat
  BY CustodyAssumption DEF Inv, BooksTypeOK, HubTypeOK, Never
<1>2. /\ a.start \in Nat /\ a.until \in Nat /\ a.seen \in Nat /\ a.paid \in Nat
      /\ a.start < a.until /\ a.start <= a.seen /\ a.seen <= now
  BY <1>1 DEF LeaseInv, Leases
<1>3. d \in {now, a.until, brokeAt[id]} /\ d <= now /\ d <= a.until /\ d <= brokeAt[id]
  BY Delivered
<1>4. CASE Intact(id, a)
  <2>1. ToRenter(id) = 0
    BY <1>4 DEF ToRenter
  <2>2. now >= a.until /\ brokeAt[id] = MaxTime + 1
    BY <1>1, <1>2, <1>4 DEF Running, Intact, LeaseInv, Never
  <2>3. d = a.until
    BY <1>1, <1>2, <1>3, <2>2
  <2>4. a.paid * (a.until - d) = 0 /\ ToRenter(id) * (a.until - a.start) = 0
    BY <1>2, <2>1, <2>3
  <2>5. QED
    BY <2>4
<1>5. CASE ~Intact(id, a)
  <2> DEFINE last == LastSeen(a)
             share == ElapsedShare(a, last)
             term == a.until - a.start
  <2>1. ToRenter(id) = a.paid - share
    BY <1>5 DEF ToRenter, ToToken, Running
  <2>2. last \in Nat /\ a.start <= last /\ last <= a.until /\ last <= a.seen
    BY <1>2 DEF LastSeen
  <2>3. share \in 0..a.paid /\ share * term <= a.paid * (last - a.start)
    BY <1>1, <1>2, <2>2, ShareBound
  <2>4. last <= d
    <3>1. a.seen <= brokeAt[id]
      BY <1>1, <1>2, <1>5 DEF LeaseInv, Never
    <3>2. QED
      BY <1>1, <1>2, <1>3, <2>2, <3>1
  <2>5. term \in Nat /\ last - a.start \in Nat /\ a.until - last = term - (last - a.start)
    BY <1>2, <2>2
  <2>6. d \in Nat
    BY <1>1, <1>2, <1>3
  <2>7. a.paid * (a.until - last) = a.paid * term - a.paid * (last - a.start)
    BY <1>2, <2>5
  <2>8. (a.paid - share) * term = a.paid * term - share * term
    BY <1>2, <2>3, <2>5
  <2>9. a.paid * (a.until - last) >= a.paid * (a.until - d)
    BY <1>2, <1>3, <2>2, <2>4, <2>6
  <2>10. /\ a.paid * term \in Int /\ share * term \in Int
         /\ a.paid * (last - a.start) \in Int /\ a.paid * (a.until - d) \in Int
    BY <1>2, <2>3, <2>5, <2>6
  <2> HIDE DEF last, share, term
  <2>11. (a.paid - share) * term >= a.paid * (a.until - d)
    BY <2>3, <2>7, <2>8, <2>9, <2>10
  <2>12. QED
    BY <2>1, <2>11 DEF term
<1>6. QED
  BY <1>4, <1>5

\* A running lease has been delivered up to this very block.
LEMMA RunningIsDelivered ==
  ASSUME Inv, NEW id \in Tokens, activeOf[id] # NoLease, Running(id)
  PROVE  DeliveredTo(id) = now
<1>1. /\ activeOf[id] \in Leases /\ LeaseInv(id)
      /\ now \in 0..MaxTime /\ MaxTime \in Nat
  BY CustodyAssumption DEF Inv, BooksTypeOK, HubTypeOK
<1>2. brokeAt[id] = MaxTime + 1 /\ now < activeOf[id].until
  BY <1>1 DEF LeaseInv, Running, Intact, Never
<1>3. QED
  BY <1>1, <1>2, Delivered DEF Leases

LEMMA TakenDownPaysBack ==
  ASSUME Inv, NEW id \in Tokens, activeOf[id] # NoLease, Running(id)
  PROVE  (activeOf[id].paid - ElapsedShare(activeOf[id], now))
            * (activeOf[id].until - activeOf[id].start)
            >= activeOf[id].paid * (activeOf[id].until - DeliveredTo(id))
<1> DEFINE a == activeOf[id]
           share == ElapsedShare(a, now)
           term == a.until - a.start
<1>1. /\ a \in Leases /\ LeaseInv(id) /\ now \in Nat
  BY CustodyAssumption DEF Inv, BooksTypeOK, HubTypeOK
<1>2. /\ a.start \in Nat /\ a.until \in Nat /\ a.paid \in Nat
      /\ a.start < a.until /\ a.start <= now /\ now <= a.until
  BY <1>1 DEF LeaseInv, Leases, Running
<1>3. share \in 0..a.paid /\ share * term <= a.paid * (now - a.start)
  BY <1>1, <1>2, ShareBound
<1>4. term \in Nat /\ now - a.start \in Nat /\ a.until - now = term - (now - a.start)
  BY <1>1, <1>2
<1>5. a.paid * (a.until - now) = a.paid * term - a.paid * (now - a.start)
  BY <1>2, <1>4
<1>6. (a.paid - share) * term = a.paid * term - share * term
  BY <1>2, <1>3, <1>4
<1>7. /\ a.paid * term \in Int /\ share * term \in Int /\ a.paid * (now - a.start) \in Int
  BY <1>2, <1>3, <1>4
<1>8. DeliveredTo(id) = now
  BY RunningIsDelivered
<1> HIDE DEF share, term
<1>9. (a.paid - share) * term >= a.paid * (a.until - now)
  BY <1>3, <1>5, <1>6, <1>7
<1>10. QED
  BY <1>8, <1>9 DEF share, term

-----------------------------------------------------------------------------
(* Solvency.  Every step that touches the books touches one entry of each  *)
(* ledger, and what it adds to one it takes from another, from the         *)
(* lease's escrow or from the balance.                                     *)

Escrow == [id \in Tokens |-> activeOf[id].paid]

LEMMA LedgersAreFinite == IsFiniteSet(Tokens) /\ IsFiniteSet(Address \cup {None})
<1>1. IsFiniteSet(Address)
  BY AddressFinite
<1>2. QED
  BY <1>1, CustodyAssumption, FS_AddElement

LEMMA BooksBalance ==
  ASSUME Inv, Solvent, NEW id \in Tokens, NEW who \in Address \cup {None},
         NEW e \in Nat, NEW o \in Nat, NEW a \in Leases,
         earned' = [earned EXCEPT ![id] = e],
         owed' = [owed EXCEPT ![who] = o],
         activeOf' = [activeOf EXCEPT ![id] = a],
         ether' = ether + (e - earned[id]) + (o - owed[who]) + (a.paid - activeOf[id].paid)
  PROVE  Solvent'
<1>1. /\ earned \in [Tokens -> Nat] /\ owed \in [Address \cup {None} -> Nat]
      /\ activeOf \in [Tokens -> Leases] /\ a.paid \in Nat /\ ether \in Int
  BY DEF Inv, BooksTypeOK, Leases
<1>2. Total(earned') = Total(earned) - earned[id] + e /\ Total(earned) \in Nat
  BY <1>1, LedgersAreFinite, TotalWrite
<1>3. Total(owed') = Total(owed) - owed[who] + o /\ Total(owed) \in Nat
  BY <1>1, LedgersAreFinite, TotalWrite
<1>4. Total(Escrow') = Total(Escrow) - activeOf[id].paid + a.paid /\ Total(Escrow) \in Nat
  <2>1. Escrow \in [Tokens -> Nat] /\ Escrow' = [Escrow EXCEPT ![id] = a.paid]
    BY <1>1 DEF Escrow, Leases
  <2>2. Escrow[id] = activeOf[id].paid
    BY DEF Escrow
  <2>3. Total([Escrow EXCEPT ![id] = a.paid]) = Total(Escrow) - Escrow[id] + a.paid
    BY <1>1, <2>1, LedgersAreFinite, TotalWrite
  <2>4. QED
    BY <2>1, <2>2, <2>3, LedgersAreFinite, TotalType
<1>5. ether = Total(earned) + Total(Escrow) + Total(owed)
  BY DEF Solvent, Escrow
<1>6. earned[id] \in Nat /\ owed[who] \in Nat /\ activeOf[id].paid \in Nat
  BY <1>1 DEF Leases
<1>7. ether' = Total(earned') + Total(Escrow') + Total(owed')
  BY <1>1, <1>2, <1>3, <1>4, <1>5, <1>6
<1>8. QED
  BY <1>7 DEF Solvent, Escrow

LEMMA NothingMoved ==
  ASSUME Solvent, UNCHANGED <<activeOf, earned, owed, ether>>
  PROVE  Solvent'
  BY DEF Solvent

\* What settling credits is what leaves escrow, to the wei.
LEMMA SettlingSplits ==
  ASSUME Inv, NEW id \in Tokens
  PROVE  /\ AfterSettle(id) \in Leases
         /\ ToToken(id) \in Nat
         /\ ToRenter(id) \in Nat
         /\ ToToken(id) + ToRenter(id) = activeOf[id].paid - AfterSettle(id).paid
<1> DEFINE a == activeOf[id]
<1>1. a \in Leases /\ a.paid \in Nat /\ now \in Nat
  BY CustodyAssumption DEF Inv, BooksTypeOK, Leases, HubTypeOK
<1>2. ToToken(id) \in Nat /\ ToRenter(id) \in Nat
  BY SettleAmounts
<1>3. CASE a # NoLease /\ Running(id)
  <2>1. AfterSettle(id) \in Leases /\ AfterSettle(id).paid = a.paid
    BY <1>1, <1>3 DEF AfterSettle, Leases
  <2>2. ToToken(id) = 0 /\ ToRenter(id) = 0
    BY <1>3 DEF ToToken, ToRenter, Running
  <2>3. QED
    BY <1>1, <2>1, <2>2
<1>4. CASE a = NoLease
  <2>1. AfterSettle(id) = NoLease /\ ToToken(id) = 0 /\ ToRenter(id) = 0
    BY <1>4 DEF AfterSettle, ToToken, ToRenter
  <2>2. QED
    BY <1>4, <2>1, NoLeaseType DEF NoLease
<1>5. CASE a # NoLease /\ ~Running(id)
  <2>1. AfterSettle(id) \in Leases /\ AfterSettle(id).paid = 0
    BY <1>5, NoLeaseType DEF AfterSettle, NoLease
  <2>2. ToToken(id) + ToRenter(id) = a.paid
    <3>1. CASE Intact(id, a)
      BY <1>1, <1>5, <3>1 DEF ToToken, ToRenter
    <3>2. CASE ~Intact(id, a)
      BY <1>1, <1>2, <1>5, <3>2 DEF ToRenter
    <3>3. QED
      BY <3>1, <3>2
  <2>3. QED
    BY <1>1, <1>2, <2>1, <2>2
<1>6. QED
  BY <1>3, <1>4, <1>5

LEMMA SettleSolvent ==
  ASSUME Inv, Solvent, NEW id \in Tokens, Credit(id), ether' = ether,
         activeOf' = [activeOf EXCEPT ![id] = AfterSettle(id)]
  PROVE  Solvent'
<1> DEFINE who == activeOf[id].renter
           e == earned[id] + ToToken(id)
           o == owed[who] + ToRenter(id)
<1>1. /\ who \in Address \cup {None} /\ earned[id] \in Nat /\ owed[who] \in Nat
      /\ ether \in Int /\ activeOf[id].paid \in Nat /\ AfterSettle(id).paid \in Nat
      /\ AfterSettle(id) \in Leases
  BY RenterIsPayable, SettlingSplits DEF Inv, BooksTypeOK, Leases
<1>2. /\ e \in Nat /\ o \in Nat
      /\ e - earned[id] = ToToken(id) /\ o - owed[who] = ToRenter(id)
  BY <1>1, SettlingSplits
<1>3. earned' = [earned EXCEPT ![id] = e] /\ owed' = [owed EXCEPT ![who] = o]
  BY DEF Credit
<1> HIDE DEF e, o
<1>4. ether' = ether + (e - earned[id]) + (o - owed[who])
                 + (AfterSettle(id).paid - activeOf[id].paid)
  BY <1>1, <1>2, SettlingSplits
<1>5. QED
  BY <1>1, <1>2, <1>3, <1>4, BooksBalance

LEMMA CollectSolvent ==
  ASSUME Inv, Solvent, NEW c, NEW id \in Tokens, Collect(c, id)
  PROVE  Solvent'
<1> DEFINE who == activeOf[id].renter
           e == 0
           o == owed[who] + ToRenter(id)
<1>1. /\ who \in Address \cup {None} /\ earned[id] \in Nat /\ owed[who] \in Nat
      /\ ether \in Int /\ activeOf[id].paid \in Nat /\ AfterSettle(id).paid \in Nat
      /\ AfterSettle(id) \in Leases
  BY RenterIsPayable, SettlingSplits DEF Inv, BooksTypeOK, Leases
<1>2. o \in Nat /\ o - owed[who] = ToRenter(id) /\ e \in Nat /\ e = 0
  BY <1>1, SettlingSplits
<1>3. /\ earned' = [earned EXCEPT ![id] = e] /\ owed' = [owed EXCEPT ![who] = o]
      /\ activeOf' = [activeOf EXCEPT ![id] = AfterSettle(id)]
      /\ ether' = ether - (earned[id] + ToToken(id))
  BY DEF Collect
<1> HIDE DEF e, o
<1>4. ether' = ether + (e - earned[id]) + (o - owed[who])
                 + (AfterSettle(id).paid - activeOf[id].paid)
  BY <1>1, <1>2, <1>3, SettlingSplits
<1>5. QED
  BY <1>1, <1>2, <1>3, <1>4, BooksBalance

LEMMA ClaimSolvent ==
  ASSUME Inv, Solvent, NEW c \in Address, Claim(c)
  PROVE  Solvent'
<1>1. /\ owed \in [Address \cup {None} -> Nat] /\ c \in Address \cup {None}
      /\ owed[c] \in Nat /\ earned \in [Tokens -> Nat] /\ ether \in Int
  BY DEF Inv, BooksTypeOK
<1>2. owed' = [owed EXCEPT ![c] = 0] /\ ether' = ether - owed[c]
  BY DEF Claim
<1>3. Total(owed') = Total(owed) - owed[c] /\ Total(owed) \in Nat
  <2>1. IsFiniteSet(Address \cup {None}) /\ 0 \in Nat
    BY LedgersAreFinite
  <2>2. Total(owed') = Total(owed) - owed[c] + 0 /\ Total(owed) \in Nat
    BY <1>1, <1>2, <2>1, TotalWrite
  <2>3. QED
    BY <1>1, <2>2
<1>4. Total(earned) \in Nat /\ Total(Escrow) \in Nat
  <2>1. Escrow \in [Tokens -> Nat]
    BY DEF Inv, BooksTypeOK, Escrow, Leases
  <2>2. QED
    BY <1>1, <2>1, LedgersAreFinite, TotalType
<1>5. UNCHANGED <<earned, Escrow>>
  BY DEF Claim, Escrow
<1>6. ether = Total(earned) + Total(Escrow) + Total(owed)
  BY DEF Solvent, Escrow
<1>7. ether' = Total(earned') + Total(Escrow') + Total(owed')
  BY <1>1, <1>2, <1>3, <1>4, <1>5, <1>6
<1>8. QED
  BY <1>7 DEF Solvent, Escrow

LEMMA RentSolvent ==
  ASSUME Inv, Inv', Solvent, NEW c \in Address, NEW id \in Tokens, NEW days \in 1..MaxDays,
         Rent(c, id, days)
  PROVE  Solvent'
<1> DEFINE who == activeOf[id].renter
           e == earned[id] + ToToken(id)
           o == owed[who] + ToRenter(id)
           a == activeOf'[id]
           due == termsOf[id].perDay * days
<1>1. /\ who \in Address \cup {None} /\ earned[id] \in Nat /\ owed[who] \in Nat
      /\ ether \in Int /\ activeOf[id].paid \in Nat
      /\ a \in Leases /\ a.paid \in Nat
  BY RenterIsPayable DEF Inv, BooksTypeOK, Leases
<1>2. /\ e \in Nat /\ o \in Nat
      /\ e - earned[id] = ToToken(id) /\ o - owed[who] = ToRenter(id)
  BY <1>1, SettlingSplits
<1>3. earned' = [earned EXCEPT ![id] = e] /\ owed' = [owed EXCEPT ![who] = o]
  BY DEF Rent, Credit
<1>4. /\ activeOf' = [activeOf EXCEPT ![id] = a]
      /\ a.paid = due /\ ether' = ether + due
  BY DEF Rent, Inv, BooksTypeOK
<1>5. ToToken(id) + ToRenter(id) = activeOf[id].paid
  BY <1>1, SettlingSplits DEF Rent, NoLease
<1> HIDE DEF e, o, a, due
<1>6. ether' = ether + (e - earned[id]) + (o - owed[who]) + (a.paid - activeOf[id].paid)
  BY <1>1, <1>2, <1>4, <1>5, SettlingSplits
<1>7. QED
  BY <1>1, <1>2, <1>3, <1>4, <1>6, BooksBalance

LEMMA EndLeaseSolvent ==
  ASSUME Inv, Solvent, NEW c, NEW id \in Tokens, EndLease(c, id)
  PROVE  Solvent'
<1>1. CASE ~Running(id)
  BY <1>1, SettleSolvent DEF EndLease, Settle
<1>2. CASE Running(id)
  <2> DEFINE who == activeOf[id].renter
             share == EndShare(activeOf[id])
             e == earned[id] + share
             o == owed[who] + (activeOf[id].paid - share)
  <2>1. share \in 0..activeOf[id].paid
    BY <1>2, RunningShare DEF EndLease
  <2>2. /\ who \in Address \cup {None} /\ earned[id] \in Nat /\ owed[who] \in Nat
        /\ ether \in Int /\ activeOf[id].paid \in Nat
    BY RenterIsPayable DEF Inv, BooksTypeOK, Leases
  <2>3. /\ earned' = [earned EXCEPT ![id] = e] /\ owed' = [owed EXCEPT ![who] = o]
        /\ activeOf' = [activeOf EXCEPT ![id] = NoLease] /\ ether' = ether
    BY <1>2 DEF EndLease
  <2> HIDE DEF share
  <2>4. /\ e \in Nat /\ o \in Nat
        /\ e - earned[id] = share /\ o - owed[who] = activeOf[id].paid - share
    BY <2>1, <2>2
  <2> HIDE DEF e, o
  <2>5. ether' = ether + (e - earned[id]) + (o - owed[who])
                   + (NoLease.paid - activeOf[id].paid)
    BY <2>1, <2>2, <2>3, <2>4 DEF NoLease
  <2>6. QED
    BY <2>2, <2>3, <2>4, <2>5, NoLeaseType, BooksBalance
<1>3. QED
  BY <1>1, <1>2

LEMMA NextSolvent == Inv /\ Inv' /\ Solvent /\ [Next]_vars => Solvent'
<1> SUFFICES ASSUME Inv, Inv', Solvent, [Next]_vars PROVE Solvent'
  OBVIOUS
<1>1. ASSUME NEW c \in People \cup Accounts, LeaseCall(c)
      PROVE  Solvent'
  <2>1. c \in Address
    BY DEF Address
  <2>2. QED
    BY <1>1, <2>1, NothingMoved, CollectSolvent, EndLeaseSolvent, RentSolvent, ClaimSolvent
       DEF LeaseCall, List, Delist
<1>2. ASSUME NEW id \in Tokens, Settle(id)
      PROVE  Solvent'
  BY <1>2, SettleSolvent DEF Settle
<1>3. CASE HubStep \/ UNCHANGED vars
  BY <1>3, NothingMoved DEF HubStep, books, vars, leaseVars
<1>4. QED
  BY <1>1, <1>2, <1>3 DEF Next, CounterStep

LEMMA InitSolvent == Init => Solvent
<1> SUFFICES ASSUME Init PROVE Solvent
  OBVIOUS
<1>1. /\ earned \in [Tokens -> Nat] /\ \A id \in Tokens : earned[id] = 0
      /\ owed \in [Address \cup {None} -> Nat]
      /\ \A a \in Address \cup {None} : owed[a] = 0
      /\ Escrow \in [Tokens -> Nat] /\ \A id \in Tokens : Escrow[id] = 0
      /\ ether = 0
  BY DEF Init, LeaseInit, Escrow, NoLease
<1>2. Total(earned) = 0 /\ Total(owed) = 0 /\ Total(Escrow) = 0
  BY <1>1, TotalZero
<1>3. QED
  BY <1>1, <1>2 DEF Solvent, Escrow

-----------------------------------------------------------------------------
\* The contract can always pay: its balance is what its three ledgers add
\* up to, to the wei, whatever order leases are broken, settled, collected
\* and claimed in, for any number of tokens and renters.
THEOREM CounterIsSolvent == Spec => []Solvent
  BY InitInv, NextInv, InitSolvent, NextSolvent, PTL DEF Spec

\* The books are well formed: no credit is ever negative, both halves of
\* every split being parts of what was paid, and neither is the balance.
THEOREM BooksAreTyped == Spec => []LeaseTypeOK
<1>1. Inv /\ Solvent => LeaseTypeOK
  <2> SUFFICES ASSUME Inv, Solvent PROVE LeaseTypeOK
    OBVIOUS
  <2>1. /\ earned \in [Tokens -> Nat] /\ owed \in [Address \cup {None} -> Nat]
        /\ Escrow \in [Tokens -> Nat]
    BY DEF Inv, BooksTypeOK, Escrow, Leases
  <2>2. Total(earned) \in Nat /\ Total(owed) \in Nat /\ Total(Escrow) \in Nat
    BY <2>1, LedgersAreFinite, TotalType
  <2>3. ether \in Nat
    BY <2>2 DEF Solvent, Escrow
  <2>4. QED
    BY <2>3 DEF Inv, BooksTypeOK, LeaseTypeOK
<1>2. QED
  BY InitInv, NextInv, InitSolvent, NextSolvent, <1>1, PTL DEF Spec

\* A renter gets back at least the rent for the time after the lease really
\* broke, for any rent, any term and however late anybody looks.
THEOREM RentersAreWhole == Spec => RenterNeverPaysForUndelivered
<1> DEFINE Back(id) ==
        (owed'[activeOf[id].renter] - owed[activeOf[id].renter])
           * (activeOf[id].until - activeOf[id].start)
           >= activeOf[id].paid * (activeOf[id].until - DeliveredTo(id))
<1>1. ASSUME Inv, NEW id \in Tokens, Next, Closes(id)
      PROVE  Back(id)
  <2>1. owed[activeOf[id].renter] \in Nat
    BY <1>1, RenterIsPayable DEF Inv, BooksTypeOK
  <2>2. CASE Settled(id)
    <3>1. owed'[activeOf[id].renter] - owed[activeOf[id].renter] = ToRenter(id)
      BY <1>1, <2>1, <2>2, SettleAmounts DEF Settled
    <3>2. QED
      BY <1>1, <2>2, <3>1, SettledPaysBack DEF Settled, Closes
  <2>3. CASE TakenDown(id)
    <3>1. activeOf[id].paid \in Nat /\ ElapsedShare(activeOf[id], now) \in Nat
      BY <1>1, <2>3, RunningShare DEF TakenDown, EndShare, Closes, Inv, BooksTypeOK, Leases
    <3>2. owed'[activeOf[id].renter] - owed[activeOf[id].renter]
             = activeOf[id].paid - ElapsedShare(activeOf[id], now)
      BY <2>1, <2>3, <3>1 DEF TakenDown
    <3>3. QED
      BY <1>1, <2>3, <3>2, TakenDownPaysBack DEF TakenDown, Closes
  <2>4. QED
    BY <1>1, <2>2, <2>3, HowLeasesClose
<1>2. Inv /\ [Next]_vars => [\A id \in Tokens : Closes(id) => Back(id)]_vars
  BY <1>1
<1>3. QED
  BY InitInv, NextInv, <1>2, PTL DEF Spec, RenterNeverPaysForUndelivered

\* Nobody displaces a paying renter: a running lease ends only at the
\* holder's call, with the token credited to that block and no further.
THEOREM RunningLeasesEndFairly == Spec => RunningLeaseEndsPaidToTheBlock
<1> DEFINE Fair(id) ==
        /\ earned'[id] = earned[id] + ElapsedShare(activeOf[id], now)
        /\ owed'[activeOf[id].renter] =
              owed[activeOf[id].renter] + activeOf[id].paid - ElapsedShare(activeOf[id], now)
        /\ users'[id] = NoUser
<1>1. ASSUME Inv, NEW id \in Tokens, Next, Closes(id), Running(id)
      PROVE  Fair(id)
  <2>1. TakenDown(id)
    BY <1>1, HowLeasesClose DEF Settled
  <2>2. /\ owed[activeOf[id].renter] \in Nat /\ activeOf[id].paid \in Nat
        /\ ElapsedShare(activeOf[id], now) \in Nat
    BY <1>1, RenterIsPayable, RunningShare DEF EndShare, Closes, Inv, BooksTypeOK, Leases
  <2>3. QED
    BY <2>1, <2>2 DEF TakenDown
<1>2. Inv /\ [Next]_vars => [\A id \in Tokens : (Closes(id) /\ Running(id)) => Fair(id)]_vars
  BY <1>1
<1>3. QED
  BY InitInv, NextInv, <1>2, PTL DEF Spec, RunningLeaseEndsPaidToTheBlock

-----------------------------------------------------------------------------
(* The answer "rentable".  RentAsks is every condition rent meets on its   *)
(* way, the hub's own included, and RentDoes what it then writes, which no *)
(* state refuses.                                                          *)

RentAsks(id, days) ==
    /\ Offered(id)
    /\ AfterSettle(id) = NoLease
    /\ days >= termsOf[id].minDays /\ days <= termsOf[id].maxDays
    /\ leaseAgentOf[id] # None /\ LeaseAddr = leaseAgentOf[id]

RentDoes(c, id, days) ==
    /\ users' = [users EXCEPT ![id] = UserRecord(c, now + days * Day)]
    /\ userEpoch' = [userEpoch EXCEPT ![id] = @ + 1]
    /\ activeOf' = [activeOf EXCEPT ![id] =
          [renter |-> c, start |-> now, until |-> now + days * Day,
           paid |-> termsOf[id].perDay * days, seen |-> now, userEpoch |-> userEpoch'[id]]]
    /\ Credit(id)
    /\ ether' = ether + termsOf[id].perDay * days
    /\ UNCHANGED <<now, ownerOf, getApproved, isApprovedForAll, leaseAgentOf, locked, batching,
                   termsOf>>

LEMMA RentIsAskAndDo ==
  ASSUME NEW c, NEW id \in Tokens, NEW days
  PROVE  Rent(c, id, days) <=>
            /\ RentAsks(id, days)
            /\ EpochLeft(id) /\ now + days * Day <= MaxTime
            /\ RentDoes(c, id, days)
  BY DEF Rent, RentAsks, RentDoes, SetUserVia, WriteUser

\* Terms on offer admit a term: List refuses any others.
TermsAreUsable ==
    \A id \in Tokens : termsOf[id].open =>
        termsOf[id].minDays # 0 /\ termsOf[id].minDays <= termsOf[id].maxDays

LEMMA TermsAreUsableNext ==
  ASSUME Inv, TermsAreUsable, [Next]_vars
  PROVE  TermsAreUsable'
<1>0. termsOf \in [Tokens -> Terms]
  BY DEF Inv, BooksTypeOK
<1>1. ASSUME NEW c, NEW id \in Tokens, NEW perDay, NEW minDays, NEW maxDays,
             List(c, id, perDay, minDays, maxDays)
      PROVE  TermsAreUsable'
  BY <1>0, <1>1 DEF TermsAreUsable, List
<1>2. ASSUME NEW c, NEW id \in Tokens, Delist(c, id)
      PROVE  TermsAreUsable'
  BY <1>0, <1>2 DEF TermsAreUsable, Terms, Delist
<1>3. CASE UNCHANGED termsOf
  BY <1>3 DEF TermsAreUsable
<1>4. ASSUME NEW c \in People \cup Accounts, LeaseCall(c)
      PROVE  TermsAreUsable'
  BY <1>1, <1>2, <1>3, <1>4 DEF LeaseCall, Collect, EndLease, Settle, Rent, Claim
<1>5. QED
  BY <1>3, <1>4 DEF Next, HubStep, CounterStep, Settle, books, vars, leaseVars

\* status answers 0 in exactly the states in which, for some term on offer,
\* every condition that rent meets is met, the hub's included.  It says so
\* of a token whose slot still holds a dead lease, and of no token that
\* somebody is still renting.
THEOREM ZeroIsWhatRentAsks ==
  Spec => [](\A id \in Tokens :
               Status(id) = 0 <=> \E days \in 1..MaxDays : RentAsks(id, days))
<1>1. Init => TermsAreUsable
  BY DEF Init, LeaseInit, TermsAreUsable, NoTerms
<1>2. ASSUME Inv, TermsAreUsable, NEW id \in Tokens
      PROVE  Status(id) = 0 <=> \E days \in 1..MaxDays : RentAsks(id, days)
  <2>1. AfterSettle(id) = NoLease <=> ~(activeOf[id] # NoLease /\ Running(id))
    <3>1. ASSUME activeOf[id] # NoLease, Running(id)
          PROVE  AfterSettle(id) # NoLease
      BY <1>2, <3>1, StampedStays
    <3>2. QED
      BY <3>1 DEF AfterSettle
  <2>2. LeaseAddr # None
    BY LeaseAssumption, CustodyAssumption DEF Address
  <2>3. ASSUME Offered(id)
        PROVE  \E days \in 1..MaxDays : days >= termsOf[id].minDays /\ days <= termsOf[id].maxDays
    <3>1. /\ termsOf[id].minDays \in 0..MaxDays /\ termsOf[id].maxDays \in 0..MaxDays
          /\ termsOf[id].minDays # 0 /\ termsOf[id].minDays <= termsOf[id].maxDays
      BY <1>2, <2>3 DEF Inv, BooksTypeOK, Terms, TermsAreUsable, Offered
    <3>2. /\ termsOf[id].minDays \in 1..MaxDays
          /\ termsOf[id].minDays >= termsOf[id].minDays
      BY <3>1, LeaseAssumption
    <3>3. QED
      BY <3>1, <3>2
  <2>4. Status(id) = 0 <=> Offered(id) /\ leaseAgentOf[id] = LeaseAddr /\ AfterSettle(id) = NoLease
    BY <2>1 DEF Status
  <2>5. QED
    BY <2>2, <2>3, <2>4 DEF RentAsks
<1>3. Inv /\ TermsAreUsable => \A id \in Tokens :
         Status(id) = 0 <=> \E days \in 1..MaxDays : RentAsks(id, days)
  BY <1>2
<1>4. QED
  BY InitInv, NextInv, <1>1, TermsAreUsableNext, <1>3, PTL DEF Spec
=============================================================================
