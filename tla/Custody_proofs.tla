--------------------------- MODULE Custody_proofs ---------------------------
(***************************************************************************)
(* Proofs about Custody, for any tokens, addresses and bounds.  The lemmas *)
(* are about single calls into the hub, so that the proofs of the          *)
(* companions, which make such calls, can cite them.                       *)
(***************************************************************************)
EXTENDS Custody, FiniteSetTheorems, TLAPS

\* A ledger with an entry for every address can be added up.
LEMMA AddressFinite == IsFiniteSet(Address)
<1>1. /\ AccountOf \in Surjection(Tokens, Accounts)
      /\ GripOf \in Surjection(Tokens, Grips)
  BY CustodyAssumption DEF Surjection, Accounts, Grips
<1>2. IsFiniteSet(Accounts) /\ IsFiniteSet(Grips)
  BY <1>1, CustodyAssumption, FS_Surjection
<1>3. IsFiniteSet(People \cup Contracts)
  BY CustodyAssumption, FS_Union
<1>4. IsFiniteSet(People \cup Contracts \cup Accounts)
  BY <1>2, <1>3, FS_Union
<1>5. QED
  BY <1>2, <1>4, FS_Union DEF Address

LEMMA HubInitType == HubInit => HubTypeOK
  BY CustodyAssumption DEF HubInit, HubTypeOK, UserInfo, NoUser

LEMMA HubStutterType == HubTypeOK /\ UNCHANGED hubVars => HubTypeOK'
  BY DEF HubTypeOK, hubVars

\* Every write of a user record, a companion's included, keeps the types.
LEMMA WriteUserType ==
  ASSUME HubTypeOK, NEW id \in Tokens, NEW user \in Address \cup {None},
         NEW expires \in Nat, WriteUser(id, user, expires)
  PROVE  HubTypeOK'
<1>1. users' \in [Tokens -> UserInfo]
  BY DEF HubTypeOK, WriteUser, UserRecord, UserInfo
<1>2. userEpoch' \in [Tokens -> 0..MaxEpoch]
  BY CustodyAssumption DEF HubTypeOK, WriteUser, EpochLeft
<1>3. QED
  BY <1>1, <1>2 DEF HubTypeOK, WriteUser

\* A transfer, a companion's included, keeps the types.
LEMMA TransferType ==
  ASSUME HubTypeOK, NEW id \in Tokens, NEW to \in Address, NEW c, NEW from,
         TransferFrom(c, from, to, id)
  PROVE  HubTypeOK'
<1>1. users' \in [Tokens -> UserInfo]
  BY DEF HubTypeOK, TransferFrom, NoUser, UserInfo
<1>2. userEpoch' \in [Tokens -> 0..MaxEpoch]
  BY CustodyAssumption DEF HubTypeOK, TransferFrom, BumpEpoch, EpochLeft
<1>3. QED
  BY <1>1, <1>2 DEF HubTypeOK, TransferFrom, ClearedAgent

LEMMA HubCallType ==
  ASSUME HubTypeOK, NEW c \in People \cup Accounts, HubCall(c)
  PROVE  HubTypeOK'
<1>1. ASSUME NEW id \in Tokens, NEW to \in Address, TransferFrom(c, ownerOf[id], to, id)
      PROVE  HubTypeOK'
  BY <1>1, TransferType
<1>2. ASSUME NEW id \in Tokens, NEW to \in Spenders \cup {None}, Approve(c, to, id)
      PROVE  HubTypeOK'
  BY <1>2, CustodyAssumption DEF HubTypeOK, Approve
<1>3. ASSUME NEW grant \in OperatorGrants, NEW ok \in BOOLEAN, grant[1] = c,
             SetApprovalForAll(c, grant[2], ok)
      PROVE  HubTypeOK'
  <2>1. <<c, grant[2]>> \in Address \X Address
    BY <1>3, CustodyAssumption DEF Address
  <2>2. QED
    BY <1>3, <2>1 DEF HubTypeOK, SetApprovalForAll
<1>4. ASSUME NEW id \in Tokens, NEW user \in People \cup {None},
             NEW expires \in UserTerms, WriteUser(id, user, expires)
      PROVE  HubTypeOK'
  BY <1>4, WriteUserType, CustodyAssumption DEF Address
<1>5. ASSUME NEW id \in Tokens, NEW agent \in Lenders \cup {None},
             SetLeaseAgent(c, id, agent)
      PROVE  HubTypeOK'
  BY <1>5, CustodyAssumption DEF HubTypeOK, SetLeaseAgent
<1>6. ASSUME NEW id \in Tokens, Lock(c, id) \/ Unlock(c, id) \/ BeginBatch(c, id)
      PROVE  HubTypeOK'
  BY <1>6 DEF HubTypeOK, Lock, Unlock, BeginBatch
<1>7. Handled \subseteq Tokens
  BY CustodyAssumption
<1>8. QED
  BY <1>1, <1>2, <1>3, <1>4, <1>5, <1>6, <1>7
     DEF HubCall, ArrangementCall, SetUser, SetUserVia

LEMMA HubNextType == HubTypeOK /\ HubNext => HubTypeOK'
<1> SUFFICES ASSUME HubTypeOK, HubNext PROVE HubTypeOK'
  OBVIOUS
<1>1. CASE Tick
  BY <1>1, CustodyAssumption DEF HubTypeOK, Tick
<1>2. ASSUME NEW id \in Tokens, NEW to \in Address, Mint(id, to)
      PROVE  HubTypeOK'
  BY <1>2 DEF HubTypeOK, Mint
<1>3. ASSUME NEW c \in People \cup Accounts, HubCall(c)
      PROVE  HubTypeOK'
  BY <1>3, HubCallType
<1>4. ASSUME NEW id \in Tokens, EndBatch(id)
      PROVE  HubTypeOK'
  BY <1>4 DEF HubTypeOK, EndBatch
<1>5. QED
  BY <1>1, <1>2, <1>3, <1>4 DEF HubNext

-----------------------------------------------------------------------------
(* What a step of the hub does to a token: either it leaves the holder and *)
(* the user record alone, or it is one of the three writes.                *)

LEMMA HubNextCases ==
  ASSUME HubNext
  PROVE  \/ UNCHANGED <<ownerOf, users, userEpoch>>
         \/ \E id \in Tokens, to \in Address : Mint(id, to)
         \/ \E id \in Tokens, to \in Address,
               c \in People \cup Accounts : TransferFrom(c, ownerOf[id], to, id)
         \/ \E id \in Tokens, user \in Address \cup {None}, expires \in Nat :
               WriteUser(id, user, expires)
<1>1. CASE Tick
  BY <1>1 DEF Tick
<1>2. CASE \E id \in Tokens, to \in Address : Mint(id, to)
  BY <1>2
<1>3. ASSUME NEW c \in People \cup Accounts, HubCall(c)
      PROVE  \/ UNCHANGED <<ownerOf, users, userEpoch>>
             \/ \E id \in Tokens, to \in Address : TransferFrom(c, ownerOf[id], to, id)
             \/ \E id \in Tokens, user \in People \cup {None}, expires \in UserTerms :
                   WriteUser(id, user, expires)
  BY <1>3, CustodyAssumption
     DEF HubCall, ArrangementCall, Approve, SetApprovalForAll, SetUser, SetUserVia,
         SetLeaseAgent, Lock, Unlock, BeginBatch
<1>4. People \subseteq Address /\ UserTerms \subseteq Nat
  BY CustodyAssumption DEF Address
<1>5. CASE \E id \in Tokens : EndBatch(id)
  BY <1>5 DEF EndBatch
<1>6. QED
  BY <1>1, <1>2, <1>3, <1>4, <1>5 DEF HubNext

\* A call to mint reaches a token nobody holds, and only that token.
LEMMA MintIsFresh ==
  ASSUME HubTypeOK, NEW id \in Tokens, NEW to \in Address, Mint(id, to),
         NEW other \in Tokens, Minted(other)
  PROVE  ownerOf'[other] = ownerOf[other]
  BY DEF HubTypeOK, Mint, Minted

LEMMA EpochStep ==
  ASSUME HubTypeOK, HubNext, NEW id \in Tokens
  PROVE  /\ userEpoch'[id] >= userEpoch[id]
         /\ (users'[id] # users[id] \/ (Minted(id) /\ ownerOf'[id] # ownerOf[id]))
               => userEpoch'[id] > userEpoch[id]
<1> DEFINE Moved == \/ users'[id] # users[id]
                    \/ Minted(id) /\ ownerOf'[id] # ownerOf[id]
           Advances == userEpoch'[id] = userEpoch[id] + 1
           Still == userEpoch'[id] = userEpoch[id] /\ ~Moved
<1>1. ASSUME UNCHANGED <<ownerOf, users, userEpoch>>
      PROVE  Still
  BY <1>1
<1>2. ASSUME NEW t \in Tokens, NEW to \in Address, Mint(t, to)
      PROVE  Still
  BY <1>2, MintIsFresh DEF Mint
<1>3. ASSUME NEW t \in Tokens, NEW to \in Address, NEW c,
             TransferFrom(c, ownerOf[t], to, t)
      PROVE  Advances \/ Still
  BY <1>3 DEF HubTypeOK, TransferFrom, BumpEpoch
<1>4. ASSUME NEW t \in Tokens, NEW user \in Address \cup {None}, NEW expires \in Nat,
             WriteUser(t, user, expires)
      PROVE  Advances \/ Still
  BY <1>4 DEF HubTypeOK, WriteUser
<1>5. Advances \/ Still
  BY <1>1, <1>2, <1>3, <1>4, HubNextCases
<1>6. userEpoch[id] \in Nat
  BY DEF HubTypeOK
<1>7. QED
  BY <1>5, <1>6

LEMMA ClearStep ==
  ASSUME HubTypeOK, HubNext, NEW id \in Tokens, Minted(id), ownerOf'[id] # ownerOf[id]
  PROVE  /\ getApproved'[id] = None
         /\ users'[id].user = None
         /\ leaseAgentOf'[id] = None
<1>1. ASSUME NEW t \in Tokens, NEW to \in Address, NEW c,
             TransferFrom(c, ownerOf[t], to, t)
      PROVE  /\ getApproved'[id] = None
             /\ users'[id].user = None
             /\ leaseAgentOf'[id] = None
  <2>1. t = id
    BY <1>1 DEF HubTypeOK, TransferFrom
  <2>2. users'[id] = IF users[id].user # None THEN NoUser ELSE users[id]
    BY <1>1, <2>1 DEF HubTypeOK, TransferFrom
  <2>3. QED
    BY <1>1, <2>1, <2>2 DEF HubTypeOK, TransferFrom, ClearedAgent, NoUser
<1>2. ~ UNCHANGED <<ownerOf, users, userEpoch>>
  OBVIOUS
<1>3. ~ \E t \in Tokens, to \in Address : Mint(t, to)
  BY MintIsFresh
<1>4. ~ \E t \in Tokens, user \in Address \cup {None}, expires \in Nat :
           WriteUser(t, user, expires)
  BY DEF WriteUser
<1>5. QED
  BY <1>1, <1>2, <1>3, <1>4, HubNextCases

-----------------------------------------------------------------------------
\* The hub's state has the types its declarations give it, address(0) and
\* the epoch counters included, under every order of calls.
THEOREM HubTypeCorrect == HubSpec => []HubTypeOK
<1>1. HubTypeOK /\ [HubNext]_hubVars => HubTypeOK'
  BY HubNextType, HubStutterType
<1>2. QED
  BY HubInitType, <1>1, PTL DEF HubSpec

\* The user epoch moves forward with every write of the user record and
\* every change of hands, and never back: what Lease reads breakage from.
THEOREM EpochIsContinuity == HubSpec => EpochNamesTheAssignment
<1>1. HubTypeOK /\ [HubNext]_hubVars =>
        [\A id \in Tokens :
           /\ userEpoch'[id] >= userEpoch[id]
           /\ (users'[id] # users[id] \/ (Minted(id) /\ ownerOf'[id] # ownerOf[id]))
                 => userEpoch'[id] > userEpoch[id]]_hubVars
  BY EpochStep
<1>2. QED
  BY HubTypeCorrect, <1>1, PTL DEF HubSpec, EpochNamesTheAssignment

\* A change of hands leaves none of the seller's approval, user or lease
\* agent on the token, whoever moved it and through whichever permission.
THEOREM SalesClear == HubSpec => SaleClearsArrangements
<1>1. HubTypeOK /\ [HubNext]_hubVars =>
        [\A id \in Tokens :
           (Minted(id) /\ ownerOf'[id] # ownerOf[id])
              => /\ getApproved'[id] = None
                 /\ users'[id].user = None
                 /\ leaseAgentOf'[id] = None]_hubVars
  BY ClearStep
<1>2. QED
  BY HubTypeCorrect, <1>1, PTL DEF HubSpec, SaleClearsArrangements
=============================================================================
