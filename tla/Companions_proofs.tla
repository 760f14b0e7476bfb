-------------------------- MODULE Companions_proofs --------------------------
(***************************************************************************)
(* Proofs about the two contracts a token is handed to: Succession, for    *)
(* any silences, notices and heirs, then Consign, for any tokens, agents,  *)
(* prices and terms.  Both rest on what Custody_proofs says of the hub     *)
(* they share.                                                             *)
(***************************************************************************)
EXTENDS Succession, Consign, Custody_proofs, Totals_proofs

-----------------------------------------------------------------------------
(* Succession.  Both silences are measured by two numbers the plan keeps,  *)
(* seen and called; ClocksInv says what they are worth: seen is the last   *)
(* time the holder spoke, and a knock came no sooner than the whole        *)
(* silence after it.                                                       *)

ClocksInv ==
    \A id \in Tokens : Exists(id) =>
        /\ plan[id].seen = spokeAt[id]
        /\ plan[id].called # 0 => plan[id].called >= knockableAt(id)

SuccessionInv == SuccessionTypeOK /\ ClocksInv /\ NamedListsEveryPlan

\* What an arrangement writes is a plan.
LEMMA NewPlanType ==
  ASSUME SuccessionTypeOK, NEW id \in Tokens, NEW to \in Heirs \cup {None},
         NEW toToken \in HeirTokens \cup {None}, NEW quiet \in Quiets,
         NEW notice \in Notices, Minted(id)
  PROVE  [from |-> ownerOf[id], to |-> to, toToken |-> toToken, quiet |-> quiet,
          notice |-> notice, seen |-> now, called |-> 0] \in Plans
  BY SuccessionAssumption, CustodyAssumption DEF SuccessionTypeOK, HubTypeOK, Plans, Minted

LEMMA NoPlanType == NoPlan \in Plans
  BY DEF NoPlan, Plans

-----------------------------------------------------------------------------
LEMMA SuccessionInitInv == SuccessionInit => SuccessionInv
<1> SUFFICES ASSUME SuccessionInit PROVE SuccessionInv
  OBVIOUS
<1>1. SuccessionTypeOK
  BY HubInitType, NoPlanType DEF SuccessionInit, SuccessionTypeOK
<1>2. ClocksInv
  BY DEF SuccessionInit, ClocksInv, Exists, NoPlan
<1>3. NamedListsEveryPlan
  BY DEF SuccessionInit, NamedListsEveryPlan, NoPlan
<1>4. QED
  BY <1>1, <1>2, <1>3 DEF SuccessionInv

LEMMA ArrangeInv ==
  ASSUME SuccessionInv, NEW c, NEW id \in Planned, NEW to \in Heirs \cup {None},
         NEW toToken \in HeirTokens \cup {None}, NEW quiet \in Quiets,
         NEW notice \in Notices, Arrange(c, id, to, toToken, quiet, notice)
  PROVE  SuccessionInv'
<1> DEFINE new == [from |-> ownerOf[id], to |-> to, toToken |-> toToken, quiet |-> quiet,
                   notice |-> notice, seen |-> now, called |-> 0]
<1>0. id \in Tokens
  BY SuccessionAssumption
<1>1. /\ new \in Plans
      /\ new.to = to /\ new.seen = now /\ new.called = 0
  BY <1>0, NewPlanType DEF SuccessionInv, Arrange, IsOwner
<1> HIDE DEF new
<1>2. /\ plan' = [plan EXCEPT ![id] = new]
      /\ spokeAt' = [spokeAt EXCEPT ![id] = now]
      /\ UNCHANGED hubVars
  BY DEF Arrange, new
<1>3. SuccessionTypeOK'
  <2>1. named' \subseteq Address \X Tokens
    BY <1>0, SuccessionAssumption DEF SuccessionInv, SuccessionTypeOK, Arrange, Lists
  <2>2. spokeAt' \in [Tokens -> Nat]
    <3>1. now \in Nat
      BY CustodyAssumption DEF SuccessionInv, SuccessionTypeOK, HubTypeOK
    <3>2. QED
      BY <1>2, <3>1 DEF SuccessionInv, SuccessionTypeOK
  <2>3. QED
    BY <1>1, <1>2, <2>1, <2>2, HubStutterType DEF SuccessionInv, SuccessionTypeOK
<1>4. ClocksInv'
  BY <1>1, <1>2 DEF SuccessionInv, SuccessionTypeOK, ClocksInv, Exists, knockableAt
<1>5. NamedListsEveryPlan'
  BY <1>0, <1>1, <1>2 DEF SuccessionInv, SuccessionTypeOK, NamedListsEveryPlan, Arrange, Lists, Exists
<1>6. QED
  BY <1>3, <1>4, <1>5 DEF SuccessionInv

\* Revoking and claiming both end with no plan for the token.
LEMMA PlanEndsInv ==
  ASSUME SuccessionInv, NEW id \in Tokens, plan' = [plan EXCEPT ![id] = NoPlan],
         UNCHANGED <<named, spokeAt>>, HubTypeOK'
  PROVE  SuccessionInv'
<1>1. SuccessionTypeOK'
  BY NoPlanType DEF SuccessionInv, SuccessionTypeOK
<1>2. ClocksInv'
  BY DEF SuccessionInv, SuccessionTypeOK, ClocksInv, Exists, knockableAt, NoPlan
<1>3. NamedListsEveryPlan'
  BY DEF SuccessionInv, SuccessionTypeOK, NamedListsEveryPlan, NoPlan
<1>4. QED
  BY <1>1, <1>2, <1>3 DEF SuccessionInv

LEMMA StillHereInv ==
  ASSUME SuccessionInv, NEW c, NEW id \in Planned, StillHere(c, id)
  PROVE  SuccessionInv'
<1>0. id \in Tokens
  BY SuccessionAssumption
<1>1. now \in Nat
  BY CustodyAssumption DEF SuccessionInv, SuccessionTypeOK, HubTypeOK
<1>2. SuccessionTypeOK'
  BY <1>0, <1>1, HubStutterType DEF SuccessionInv, SuccessionTypeOK, StillHere, Heard, Plans
<1>3. ClocksInv'
  BY <1>0 DEF SuccessionInv, SuccessionTypeOK, ClocksInv, Exists, knockableAt, StillHere, Heard, Plans
<1>4. NamedListsEveryPlan'
  BY DEF SuccessionInv, SuccessionTypeOK, NamedListsEveryPlan, StillHere, Heard, Plans
<1>5. QED
  BY <1>2, <1>3, <1>4 DEF SuccessionInv

LEMMA SummonInv ==
  ASSUME SuccessionInv, NEW id \in Tokens, Summon(id)
  PROVE  SuccessionInv'
<1>1. now \in Nat
  BY CustodyAssumption DEF SuccessionInv, SuccessionTypeOK, HubTypeOK
<1>2. SuccessionTypeOK'
  BY <1>1, HubStutterType DEF SuccessionInv, SuccessionTypeOK, Summon, Plans
<1>3. ClocksInv'
  BY DEF SuccessionInv, SuccessionTypeOK, ClocksInv, Exists, knockableAt, Summon, Knockable, Plans
<1>4. NamedListsEveryPlan'
  BY DEF SuccessionInv, SuccessionTypeOK, NamedListsEveryPlan, Summon, Plans
<1>5. QED
  BY <1>2, <1>3, <1>4 DEF SuccessionInv

\* The heir of a plan that can be claimed is an address, so the hub's part
\* of a claim is an ordinary transfer.
LEMMA ClaimInv ==
  ASSUME SuccessionInv, NEW id \in Tokens, Claim(id)
  PROVE  SuccessionInv'
<1>1. heirOf(id) \in Address
  BY SuccessionAssumption DEF SuccessionInv, SuccessionTypeOK, HubTypeOK, Claim, heirOf, Plans
<1>2. HubTypeOK'
  BY <1>1, TransferType DEF SuccessionInv, SuccessionTypeOK, Claim
<1>3. QED
  BY <1>2, PlanEndsInv DEF SuccessionInv, SuccessionTypeOK, Claim

LEMMA SuccessionHubStepInv == SuccessionInv /\ SuccessionHubStep => SuccessionInv'
<1> SUFFICES ASSUME SuccessionInv, SuccessionHubStep PROVE SuccessionInv'
  OBVIOUS
<1>1. SuccessionTypeOK'
  BY HubNextType DEF SuccessionInv, SuccessionTypeOK, SuccessionHubStep, planVars
<1>2. ClocksInv' /\ NamedListsEveryPlan'
  BY DEF SuccessionInv, ClocksInv, NamedListsEveryPlan, Exists, knockableAt, SuccessionHubStep, planVars
<1>3. QED
  BY <1>1, <1>2 DEF SuccessionInv

LEMMA SuccessionNextInv == SuccessionInv /\ [SuccessionNext]_successionVars => SuccessionInv'
<1> SUFFICES ASSUME SuccessionInv, [SuccessionNext]_successionVars PROVE SuccessionInv'
  OBVIOUS
<1>1. CASE SuccessionHubStep
  BY <1>1, SuccessionHubStepInv
<1>2. ASSUME NEW c \in People \cup Accounts, PlanCall(c)
      PROVE  SuccessionInv'
  <2>1. ASSUME NEW id \in Planned, Revoke(c, id)
        PROVE  SuccessionInv'
    BY <2>1, PlanEndsInv, HubStutterType, SuccessionAssumption DEF SuccessionInv, SuccessionTypeOK, Revoke
  <2>2. QED
    BY <1>2, <2>1, ArrangeInv, StillHereInv DEF PlanCall
<1>3. CASE \E id \in Tokens : Summon(id) \/ Claim(id)
  BY <1>3, SummonInv, ClaimInv
<1>4. CASE UNCHANGED successionVars
  BY <1>4, HubStutterType DEF SuccessionInv, SuccessionTypeOK, ClocksInv, NamedListsEveryPlan, Exists,
                              knockableAt, successionVars, planVars
<1>5. QED
  BY <1>1, <1>2, <1>3, <1>4 DEF SuccessionNext

-----------------------------------------------------------------------------
\* The plan's state and the hub's under it have their declared types.
THEOREM SuccessionTyped == SuccessionSpec => []SuccessionTypeOK
<1>1. SuccessionInv => SuccessionTypeOK
  BY DEF SuccessionInv
<1>2. QED
  BY SuccessionInitInv, SuccessionNextInv, <1>1, PTL DEF SuccessionSpec

\* Every live plan that names an address is listed under it, so an heir can
\* find what is coming through every rewrite, revocation and sale.
THEOREM EveryPlanIsListed == SuccessionSpec => []NamedListsEveryPlan
<1>1. SuccessionInv => NamedListsEveryPlan
  BY DEF SuccessionInv
<1>2. QED
  BY SuccessionInitInv, SuccessionNextInv, <1>1, PTL DEF SuccessionSpec

\* No token is handed over before its holder has been silent for the whole
\* silence and the whole notice, for any lengths of the two.
THEOREM NobodyIsBuriedAlive == SuccessionSpec => PassesOnlyAfterBothSilences
<1>1. ASSUME SuccessionInv, NEW id \in Tokens, Claim(id)
      PROVE  now >= spokeAt[id] + plan[id].quiet + plan[id].notice
  <2>1. /\ plan[id].called >= spokeAt[id] + plan[id].quiet
        /\ now >= plan[id].called + plan[id].notice
    BY <1>1 DEF SuccessionInv, ClocksInv, Claim, DoorOpen, opensAt, knockableAt
  <2>2. /\ now \in Nat /\ spokeAt[id] \in Nat
        /\ plan[id].quiet \in Nat /\ plan[id].notice \in Nat /\ plan[id].called \in Nat
    BY CustodyAssumption, <1>1 DEF SuccessionInv, SuccessionTypeOK, HubTypeOK, Plans
  <2>3. QED
    BY <2>1, <2>2
<1>2. SuccessionInv /\ [SuccessionNext]_successionVars =>
        [\A id \in Tokens : Claim(id) =>
            now >= spokeAt[id] + plan[id].quiet + plan[id].notice]_successionVars
  BY <1>1
<1>3. QED
  BY SuccessionInitInv, SuccessionNextInv, <1>2, PTL DEF SuccessionSpec, PassesOnlyAfterBothSilences

\* A knock stands until the owner answers it: no call moves the date at
\* which the heir's door opens, for nobody's benefit.
THEOREM AKnockStands == SuccessionSpec => KnockStands
<1> DEFINE Stands(id) == (plan[id].called # 0 /\ plan'[id].called # plan[id].called)
                            => plan'[id].called = 0
<1>1. ASSUME SuccessionTypeOK, NEW id \in Tokens, NEW t \in Tokens,
             plan' \in {[plan EXCEPT ![t] = NoPlan], Heard(t)}
      PROVE  Stands(id)
  <2>1. CASE plan' = [plan EXCEPT ![t] = NoPlan]
    BY <1>1, <2>1 DEF SuccessionTypeOK, Plans, NoPlan
  <2>2. CASE plan' = Heard(t)
    <3> DEFINE p == [plan[t] EXCEPT !.seen = now, !.called = 0]
    <3>1. p.called = 0
      BY <1>1 DEF SuccessionTypeOK, Plans
    <3>2. plan' = [plan EXCEPT ![t] = p]
      BY <2>2 DEF Heard
    <3> HIDE DEF p
    <3>3. QED
      BY <1>1, <3>1, <3>2 DEF SuccessionTypeOK, Plans
  <2>3. QED
    BY <1>1, <2>1, <2>2
<1>2. ASSUME SuccessionTypeOK, NEW id \in Tokens, NEW t \in Tokens, Summon(t)
      PROVE  Stands(id)
  BY <1>2 DEF SuccessionTypeOK, Plans, Summon, Knockable
<1>3. ASSUME SuccessionTypeOK, NEW id \in Tokens, NEW c, NEW t \in Planned, NEW to, NEW toToken,
             NEW quiet, NEW notice, Arrange(c, t, to, toToken, quiet, notice)
      PROVE  Stands(id)
  BY <1>3 DEF SuccessionTypeOK, Arrange
<1>4. ASSUME SuccessionTypeOK, NEW id \in Tokens, SuccessionNext
      PROVE  Stands(id)
  <2>1. CASE SuccessionHubStep
    BY <2>1 DEF SuccessionHubStep, planVars
  <2>2. ASSUME NEW c \in People \cup Accounts, PlanCall(c)
        PROVE  Stands(id)
    BY <1>1, <1>3, <1>4, <2>2, SuccessionAssumption DEF PlanCall, Revoke, StillHere
  <2>3. ASSUME NEW t \in Tokens, Summon(t) \/ Claim(t)
        PROVE  Stands(id)
    BY <1>1, <1>2, <1>4, <2>3 DEF Claim
  <2>4. QED
    BY <1>4, <2>1, <2>2, <2>3 DEF SuccessionNext
<1>5. SuccessionTypeOK /\ [SuccessionNext]_successionVars => [\A id \in Tokens : Stands(id)]_successionVars
  BY <1>4
<1>6. QED
  BY SuccessionTyped, <1>5, PTL DEF SuccessionSpec, KnockStands

-----------------------------------------------------------------------------
(* The answer OK.  ClaimAsks is every condition claim meets on its way,    *)
(* the hub's own included, and ClaimDoes what it then writes, which no     *)
(* state refuses.                                                          *)

ClaimAsks(id) ==
    /\ Exists(id)
    /\ DoorOpen(id)
    /\ plan[id].from = ownerOf[id]
    /\ heirOf(id) \notin {None, ownerOf[id]}
    /\ MayTransfer(SuccessionAddr, ownerOf[id], heirOf(id), id)

ClaimDoes(id) ==
    /\ plan' = [plan EXCEPT ![id] = NoPlan]
    /\ ownerOf' = [ownerOf EXCEPT ![id] = heirOf(id)]
    /\ getApproved' = [getApproved EXCEPT ![id] = None]
    /\ users' = [users EXCEPT ![id] = IF @.user # None THEN NoUser ELSE @]
    /\ userEpoch' = BumpEpoch(id)
    /\ leaseAgentOf' = ClearedAgent(id)
    /\ UNCHANGED <<now, isApprovedForAll, locked, batching, named, spokeAt>>

LEMMA ClaimIsAskAndDo ==
  ASSUME NEW id \in Tokens
  PROVE  Claim(id) <=> ClaimAsks(id) /\ EpochLeft(id) /\ ClaimDoes(id)
  BY DEF Claim, ClaimAsks, ClaimDoes, TransferFrom

\* Nobody approves anybody for a token this contract owns: it calls no
\* approve itself, and an approval does not outlive a change of hands.
OwnUnapproved ==
    /\ \A grant \in isApprovedForAll : grant[1] # SuccessionAddr
    /\ \A id \in Tokens : ownerOf[id] \in {None, SuccessionAddr} => getApproved[id] = None

LEMMA SwitchIsNoCaller == SuccessionAddr \notin People \cup Accounts \cup {None}
  BY SuccessionAssumption, CustodyAssumption DEF Address

LEMMA TransferOwnUnapproved ==
  ASSUME SuccessionTypeOK, OwnUnapproved, NEW c, NEW from, NEW to \in Address,
         NEW t \in Tokens, TransferFrom(c, from, to, t)
  PROVE  OwnUnapproved'
<1>1. /\ ownerOf' = [ownerOf EXCEPT ![t] = to]
      /\ getApproved' = [getApproved EXCEPT ![t] = None]
      /\ isApprovedForAll' = isApprovedForAll
  BY DEF TransferFrom
<1>2. QED
  BY <1>1 DEF OwnUnapproved, SuccessionTypeOK, HubTypeOK

LEMMA HubOwnUnapproved ==
  ASSUME SuccessionTypeOK, OwnUnapproved, HubNext
  PROVE  OwnUnapproved'
<1>1. CASE UNCHANGED <<ownerOf, getApproved, isApprovedForAll>>
  BY <1>1 DEF OwnUnapproved
<1>2. ASSUME NEW t \in Tokens, NEW to \in Address, Mint(t, to)
      PROVE  OwnUnapproved'
  <2>1. /\ ownerOf[t] = None
        /\ ownerOf' = [ownerOf EXCEPT ![t] = to]
        /\ UNCHANGED <<getApproved, isApprovedForAll>>
    BY <1>2 DEF Mint, Minted
  <2>2. QED
    BY <2>1 DEF OwnUnapproved, SuccessionTypeOK, HubTypeOK
<1>3. ASSUME NEW c \in People \cup Accounts, HubCall(c)
      PROVE  OwnUnapproved'
  <2>0. c # SuccessionAddr
    BY SwitchIsNoCaller
  <2>1. ASSUME NEW t \in Tokens, NEW to, Approve(c, to, t)
        PROVE  OwnUnapproved'
    <3>1. <<ownerOf[t], c>>[1] = ownerOf[t]
      OBVIOUS
    <3>2. ownerOf[t] \notin {None, SuccessionAddr}
      BY <2>0, <2>1, <3>1 DEF Approve, Minted, OwnUnapproved
    <3>3. /\ getApproved' = [getApproved EXCEPT ![t] = to]
          /\ UNCHANGED <<ownerOf, isApprovedForAll>>
      BY <2>1 DEF Approve
    <3>4. QED
      BY <3>2, <3>3 DEF OwnUnapproved, SuccessionTypeOK, HubTypeOK
  <2>2. ASSUME NEW op, NEW ok, SetApprovalForAll(c, op, ok)
        PROVE  OwnUnapproved'
    <3>1. <<c, op>>[1] # SuccessionAddr
      BY <2>0
    <3>2. QED
      BY <2>2, <3>1 DEF OwnUnapproved, SetApprovalForAll
  <2>3. Handled \subseteq Tokens
    BY CustodyAssumption
  <2>4. QED
    BY <1>1, <1>3, <2>1, <2>2, <2>3, TransferOwnUnapproved
       DEF HubCall, ArrangementCall, SetUser, SetUserVia, WriteUser, SetLeaseAgent, Lock,
           Unlock, BeginBatch
<1>4. QED
  BY <1>1, <1>2, <1>3 DEF HubNext, Tick, EndBatch

LEMMA OwnUnapprovedNext ==
  ASSUME SuccessionTypeOK, OwnUnapproved, [SuccessionNext]_successionVars
  PROVE  OwnUnapproved'
<1>1. CASE UNCHANGED hubVars
  BY <1>1 DEF OwnUnapproved, hubVars
<1>2. CASE SuccessionHubStep
  BY <1>2, HubOwnUnapproved DEF SuccessionHubStep
<1>3. ASSUME NEW id \in Tokens, Claim(id)
      PROVE  OwnUnapproved'
  <2>1. heirOf(id) \in Address
    BY <1>3, SuccessionAssumption DEF SuccessionTypeOK, HubTypeOK, Claim, heirOf, Plans
  <2>2. QED
    BY <1>3, <2>1, TransferOwnUnapproved DEF Claim
<1>4. QED
  BY <1>1, <1>2, <1>3
     DEF SuccessionNext, PlanCall, Arrange, Revoke, StillHere, Summon, successionVars

\* wouldPass answers OK in exactly the states in which every condition that
\* claim meets is met, the hub's included, but for a token this contract owns
\* itself: a holder who reads OK knows that anybody can hand the token over
\* now, and one who does not, that nobody can.  Of a token of its own
\* wouldPass never says OK, though claim moves it without an approval.
THEOREM OKIsWhatClaimAsks ==
  SuccessionSpec => [](\A id \in Tokens :
      wouldPass(id) = "OK" <=> ClaimAsks(id) /\ ownerOf[id] # SuccessionAddr)
<1>1. SuccessionInit => OwnUnapproved
  BY DEF SuccessionInit, HubInit, OwnUnapproved
<1>2. ASSUME SuccessionTypeOK, OwnUnapproved, NEW id \in Tokens
      PROVE  wouldPass(id) = "OK" <=> ClaimAsks(id) /\ ownerOf[id] # SuccessionAddr
  <2>1. now \in Nat /\ opensAt(id) \in Nat
    BY <1>2, CustodyAssumption DEF SuccessionTypeOK, HubTypeOK, Plans, opensAt
  <2>2. ASSUME Minted(id)
        PROVE  Standing(id) <=> /\ IsHolder(SuccessionAddr, id)
                                /\ ownerOf[id] # SuccessionAddr
    <3>1. ownerOf[id] = SuccessionAddr => ~Standing(id)
      <4>1. <<SuccessionAddr, SuccessionAddr>>[1] = SuccessionAddr
        OBVIOUS
      <4>2. QED
        BY <1>2, <4>1, SwitchIsNoCaller DEF OwnUnapproved, Standing
    <3>2. QED
      BY <2>2, <3>1 DEF Standing, IsHolder
  <2>3. ASSUME plan[id].from = ownerOf[id], Exists(id), heirOf(id) # None
        PROVE  isTransferable(id, heirOf(id)) <=>
                  ~locked[id] /\ heirOf(id) \notin {AccountOf[id], GripOf[id]}
    BY <2>3 DEF isTransferable, Exists, Minted
  <2>4. ClaimAsks(id) /\ ownerOf[id] # SuccessionAddr <=>
           /\ Exists(id) /\ ownerOf[id] = plan[id].from
           /\ Standing(id) /\ ~locked[id]
           /\ heirOf(id) # None
           /\ heirOf(id) \notin {ownerOf[id], AccountOf[id], GripOf[id]}
           /\ DoorOpen(id)
    BY <2>2, <2>3 DEF ClaimAsks, MayTransfer, Exists, Minted
  <2>5. QED
    BY <2>1, <2>4 DEF wouldPass, DoorOpen
<1>3. SuccessionTypeOK /\ OwnUnapproved =>
        \A id \in Tokens :
           wouldPass(id) = "OK" <=> ClaimAsks(id) /\ ownerOf[id] # SuccessionAddr
  BY <1>2
<1>4. QED
  BY SuccessionTyped, <1>1, OwnUnapprovedNext, <1>3, PTL DEF SuccessionSpec

-----------------------------------------------------------------------------
(* Consign.  The contract can honour a note because nobody else can speak  *)
(* for it at the hub: it grants no approval, it names no lease agent, and  *)
(* nobody signs for the account of a token it owns, which can only bolt    *)
(* the token, and only in a batch begun before the contract owned it.      *)

\* TypeOK, but for the sign of the balance: that a withdrawal is covered
\* follows from Solvent.
BooksTypeOK ==
    /\ HubTypeOK
    /\ note \in [Tokens -> Notes]
    /\ owed \in [Address -> Nat]
    /\ ether \in Int

\* Honoured, and what it takes to keep it: no lease agent is named either,
\* an agent to pay, and no ask under the floor.
NoteInv(id) ==
    Open(id) =>
        /\ ownerOf[id] = ConsignAddr
        /\ getApproved[id] = None
        /\ users[id] = UserRecord(note[id].seller, note[id].until)
        /\ leaseAgentOf[id] = None
        /\ note[id].agent # None
        /\ note[id].ask = 0 \/ note[id].ask >= note[id].floor

\* The contract grants no approval.
NoGrant == \A grant \in isApprovedForAll : grant[1] # ConsignAddr

Inv == BooksTypeOK /\ NoGrant /\ \A id \in Tokens : NoteInv(id)

-----------------------------------------------------------------------------
(* Addresses.                                                              *)

LEMMA ContractIsNoCaller == ConsignAddr \notin People \cup Accounts \cup {None}
  BY ConsignAssumption, CustodyAssumption DEF Address

\* Nobody signs for the account of a token that the contract owns, so that
\* outside a batch begun before it acts no more.
LEMMA NoSignatory ==
  ASSUME NEW id \in Tokens, ownerOf[id] = ConsignAddr, id \notin batching
  PROVE  ~CanAct(AccountOf[id])
<1>1. AccountOf[id] \notin People
  BY CustodyAssumption DEF Accounts
<1>2. ~HasSignatory(id)
  BY ContractIsNoCaller DEF HasSignatory
<1>3. QED
  BY <1>1, <1>2, CustodyAssumption DEF CanAct

\* No caller, the token's own account included, is a holder of a consigned
\* token in the hub's sense, and nobody is its lease agent.
LEMMA NoDoorOpens ==
  ASSUME Inv, NEW id \in Tokens, Open(id), NEW c \in People \cup Accounts
  PROVE  /\ c # ownerOf[id] /\ <<ownerOf[id], c>> \notin isApprovedForAll
         /\ ~IsHolder(c, id)
         /\ leaseAgentOf[id] = None
<1>1. /\ ownerOf[id] = ConsignAddr
      /\ getApproved[id] = None
      /\ leaseAgentOf[id] = None
  BY DEF Inv, NoteInv
<1>2. c # ConsignAddr /\ c # None
  BY ContractIsNoCaller, CustodyAssumption DEF Address
<1>3. <<ConsignAddr, c>> \notin isApprovedForAll
  <2>1. <<ConsignAddr, c>>[1] = ConsignAddr
    OBVIOUS
  <2>2. QED
    BY <2>1 DEF Inv, NoGrant
<1>4. QED
  BY <1>1, <1>2, <1>3 DEF IsHolder

\* What a note needs of the hub is out of every caller's reach.
CustodyOf(id) == <<ownerOf[id], getApproved[id], users[id], leaseAgentOf[id]>>

LEMMA HubLeavesNotesAlone ==
  ASSUME Inv, HubNext, NEW id \in Tokens, Open(id)
  PROVE  CustodyOf(id)' = CustodyOf(id)
<1>0. Minted(id)
  BY ContractIsNoCaller DEF Inv, NoteInv, Minted
<1>1. CASE Tick
  BY <1>1 DEF Tick, CustodyOf
<1>2. ASSUME NEW t \in Tokens, NEW to \in Address, Mint(t, to)
      PROVE  CustodyOf(id)' = CustodyOf(id)
  BY <1>0, <1>2, MintIsFresh DEF Inv, BooksTypeOK, Mint, CustodyOf
<1>3. ASSUME NEW c \in People \cup Accounts, HubCall(c)
      PROVE  CustodyOf(id)' = CustodyOf(id)
  <2>0. /\ c # ownerOf[id] /\ <<ownerOf[id], c>> \notin isApprovedForAll
        /\ ~IsHolder(c, id)
        /\ leaseAgentOf[id] = None
    BY <1>3, NoDoorOpens
  <2>1. ASSUME NEW t \in Tokens, NEW to \in Address, TransferFrom(c, ownerOf[t], to, t)
        PROVE  CustodyOf(id)' = CustodyOf(id)
    <3>1. t # id
      BY <2>0, <2>1 DEF TransferFrom, MayTransfer
    <3>2. QED
      BY <2>1, <3>1 DEF Inv, BooksTypeOK, HubTypeOK, TransferFrom, ClearedAgent, CustodyOf
  <2>2. ASSUME NEW t \in Tokens, NEW to, Approve(c, to, t)
        PROVE  CustodyOf(id)' = CustodyOf(id)
    <3>1. t # id
      BY <2>0, <2>2 DEF Approve
    <3>2. QED
      BY <2>2, <3>1 DEF Inv, BooksTypeOK, HubTypeOK, Approve, CustodyOf
  <2>3. ASSUME NEW op, NEW ok, SetApprovalForAll(c, op, ok)
        PROVE  CustodyOf(id)' = CustodyOf(id)
    BY <2>3 DEF SetApprovalForAll, CustodyOf
  <2>4. ASSUME NEW t \in Tokens, NEW user, NEW expires,
               SetUser(c, t, user, expires) \/ SetUserVia(c, t, user, expires)
        PROVE  CustodyOf(id)' = CustodyOf(id)
    <3>1. t # id
      BY <2>0, <2>4 DEF SetUser, SetUserVia
    <3>2. QED
      BY <2>4, <3>1 DEF Inv, BooksTypeOK, HubTypeOK, SetUser, SetUserVia, WriteUser,
                        CustodyOf
  <2>5. ASSUME NEW t \in Tokens, NEW agent, SetLeaseAgent(c, t, agent)
        PROVE  CustodyOf(id)' = CustodyOf(id)
    <3>1. t # id
      BY <2>0, <2>5 DEF SetLeaseAgent
    <3>2. QED
      BY <2>5, <3>1 DEF Inv, BooksTypeOK, HubTypeOK, SetLeaseAgent, CustodyOf
  <2>6. ASSUME NEW t \in Tokens, Lock(c, t) \/ Unlock(c, t) \/ BeginBatch(c, t)
        PROVE  CustodyOf(id)' = CustodyOf(id)
    BY <2>6 DEF Lock, Unlock, BeginBatch, CustodyOf
  <2>7. Handled \subseteq Tokens
    BY CustodyAssumption
  <2>8. QED
    BY <1>3, <2>1, <2>2, <2>3, <2>4, <2>5, <2>6, <2>7 DEF HubCall, ArrangementCall
<1>4. ASSUME NEW t \in Tokens, EndBatch(t)
      PROVE  CustodyOf(id)' = CustodyOf(id)
  BY <1>4 DEF EndBatch, CustodyOf
<1>5. QED
  BY <1>1, <1>2, <1>3, <1>4 DEF HubNext

\* The bolt of a consigned token is out of reach too, outside a batch of the
\* token's own account.
LEMMA HubLeavesBoltAlone ==
  ASSUME Inv, HubNext, NEW id \in Tokens, Open(id), id \notin batching
  PROVE  locked'[id] = locked[id]
<1>1. ASSUME NEW c \in People \cup Accounts, CanAct(c), HubCall(c)
      PROVE  locked'[id] = locked[id]
  <2>1. ASSUME NEW t \in Tokens, Lock(c, t) \/ Unlock(c, t)
        PROVE  locked'[id] = locked[id]
    <3>1. ownerOf[id] = ConsignAddr /\ c # ownerOf[id]
      BY NoDoorOpens DEF Inv, NoteInv
    <3>2. c # AccountOf[id]
      BY <1>1, <3>1, NoSignatory
    <3>3. t # id
      BY <2>1, <3>1, <3>2 DEF Lock, Unlock, MayBolt, IsOwner
    <3>4. QED
      BY <2>1, <3>3 DEF Inv, BooksTypeOK, HubTypeOK, Lock, Unlock
  <2>2. Handled \subseteq Tokens
    BY CustodyAssumption
  <2>3. QED
    BY <1>1, <2>1, <2>2
       DEF HubCall, ArrangementCall, TransferFrom, Approve, SetApprovalForAll, SetUser,
           SetUserVia, WriteUser, SetLeaseAgent, BeginBatch
<1>2. QED
  BY <1>1 DEF HubNext, Tick, Mint, EndBatch

-----------------------------------------------------------------------------
(* The split of a sale.                                                    *)

\* A share of an amount, floored, is at most the amount.
LEMMA ShareIsAPart ==
  ASSUME NEW amount \in Nat, NEW part \in 0..BPS
  PROVE  (amount * part) \div BPS \in 0..amount
  BY ConsignAssumption

\* A credit adds its amount to the ledger's total.
LEMMA CreditAdds ==
  ASSUME NEW ledger \in [Address -> Nat], NEW who \in Address, NEW amount \in Nat
  PROVE  /\ Credits(ledger, who, amount) \in [Address -> Nat]
         /\ Total(Credits(ledger, who, amount)) = Total(ledger) + amount
         /\ Total(ledger) \in Nat
<1> DEFINE v == ledger[who] + amount
<1>1. v \in Nat /\ ledger[who] \in Nat /\ v - ledger[who] = amount
  OBVIOUS
<1>2. Credits(ledger, who, amount) = [ledger EXCEPT ![who] = v]
  BY DEF Credits
<1>3. Credits(ledger, who, amount) \in [Address -> Nat]
  BY <1>1, <1>2
<1> HIDE DEF v
<1>4. /\ Total([ledger EXCEPT ![who] = v]) = Total(ledger) - ledger[who] + v
      /\ Total(ledger) \in Nat
  BY <1>1, AddressFinite, TotalWrite
<1>5. QED
  BY <1>1, <1>2, <1>3, <1>4

\* The three credits of a sale are the price, to the wei, however it is
\* divided and whoever plays which part.
LEMMA SplitAddsUp ==
  ASSUME owed \in [Address -> Nat], NEW n \in Notes, NEW price \in Nat, NEW r \in Royalties,
         n.agent \in Address, n.seller \in Address
  PROVE  /\ Split(n, price, r) \in [Address -> Nat]
         /\ Total(Split(n, price, r)) = Total(owed) + price
<1> DEFINE roy == Royalty(r, price)
           rest == price - roy
           share == AgentShare(n, rest)
           paid == IF roy # 0 THEN Credits(owed, r.rcv, roy) ELSE owed
           shared == Credits(paid, n.agent, share)
           split == Credits(shared, n.seller, rest - share)
<1>1. /\ n.cut \in 0..BPS
      /\ r.rcv \in Address \cup {None} /\ r.bps \in 0..BPS
  BY ConsignAssumption DEF Notes
<1>2. roy \in 0..price /\ (roy # 0 => r.rcv \in Address)
  <2>1. (price * r.bps) \div BPS \in 0..price
    BY <1>1, ShareIsAPart
  <2>2. roy = 0 \/ (roy = (price * r.bps) \div BPS /\ r.rcv # None)
    BY DEF Royalty
  <2>3. QED
    BY <1>1, <2>1, <2>2
<1>3. rest \in Nat /\ roy \in Nat /\ roy + rest = price
  BY <1>1, <1>2
<1>4. share \in 0..rest
  BY <1>1, <1>3, ShareIsAPart DEF AgentShare
<1>5. Split(n, price, r) = split
  BY DEF Split
<1> HIDE DEF roy, rest, share
<1>6. /\ paid \in [Address -> Nat] /\ Total(paid) = Total(owed) + roy
      /\ Total(owed) \in Nat
  <2>1. Total(owed) \in Nat
    BY AddressFinite, TotalType
  <2>2. CASE roy = 0
    BY <2>1, <2>2
  <2>3. CASE roy # 0
    BY <1>2, <1>3, <2>3, CreditAdds
  <2>4. QED
    BY <2>2, <2>3
<1> HIDE DEF paid
<1>7. rest - share \in Nat /\ share \in Nat
  BY <1>3, <1>4
<1>8. /\ shared \in [Address -> Nat] /\ Total(shared) = Total(paid) + share
  BY <1>6, <1>7, CreditAdds
<1> HIDE DEF shared
<1>9. /\ split \in [Address -> Nat] /\ Total(split) = Total(shared) + (rest - share)
  BY <1>7, <1>8, CreditAdds
<1> HIDE DEF split
<1>10. Total(split) = Total(owed) + price
  BY <1>3, <1>6, <1>7, <1>8, <1>9
<1>11. QED
  BY <1>5, <1>9, <1>10

-----------------------------------------------------------------------------
(* The steps.                                                              *)

LEMMA InitInv == Init => Inv
<1> SUFFICES ASSUME Init PROVE Inv
  OBVIOUS
<1>1. \A id \in Tokens : ~Open(id)
  BY DEF Init, Open, NoNote
<1>2. NoNote \in Notes
  BY ConsignAssumption DEF NoNote, Notes
<1>3. BooksTypeOK
  BY <1>2, HubInitType DEF Init, BooksTypeOK
<1>4. QED
  BY <1>1, <1>3 DEF Inv, NoteInv, NoGrant, Init, HubInit

\* A step that leaves a note alone, and what the note needs of the hub,
\* keeps what the invariant says of that token.
LEMMA NoteKept ==
  ASSUME NEW id \in Tokens, NoteInv(id), note'[id] = note[id],
         Open(id) => CustodyOf(id)' = CustodyOf(id)
  PROVE  NoteInv(id)'
  BY DEF NoteInv, Open, CustodyOf, UserRecord

LEMMA NoteGone ==
  ASSUME NEW id \in Tokens, note'[id] = NoNote
  PROVE  NoteInv(id)'
  BY DEF NoteInv, Open, NoNote

LEMMA HubStepInv ==
  ASSUME Inv, HubStep
  PROVE  Inv'
<1>1. BooksTypeOK'
  BY HubNextType DEF Inv, BooksTypeOK, HubStep, consignVars
<1>2. NoGrant'
  <2>1. ASSUME NEW c \in People \cup Accounts, HubCall(c)
        PROVE  NoGrant'
    <3>1. c # ConsignAddr
      BY ContractIsNoCaller
    <3>2. ASSUME NEW op, NEW ok, SetApprovalForAll(c, op, ok)
          PROVE  NoGrant'
      <4>1. <<c, op>>[1] # ConsignAddr
        BY <3>1
      <4>2. QED
        BY <3>2, <4>1 DEF Inv, NoGrant, SetApprovalForAll
    <3>3. CASE UNCHANGED isApprovedForAll
      BY <3>3 DEF Inv, NoGrant
    <3>4. QED
      BY <2>1, <3>2, <3>3 DEF HubCall, ArrangementCall, TransferFrom, Approve,
            SetUser, SetUserVia, WriteUser, SetLeaseAgent, Lock, Unlock, BeginBatch
  <2>2. QED
    BY <2>1 DEF Inv, NoGrant, HubStep, HubNext, Tick, Mint, EndBatch
<1>3. ASSUME NEW id \in Tokens
      PROVE  NoteInv(id)'
  BY HubLeavesNotesAlone, NoteKept DEF Inv, HubStep, consignVars
<1>4. QED
  BY <1>1, <1>2, <1>3 DEF Inv

LEMMA PlaceInv ==
  ASSUME Inv, NEW c, NEW id \in Tokens, NEW agent \in Agents, NEW floor \in Prices,
         NEW cut \in Cuts, NEW until \in 0..MaxTime,
         Place(c, id, agent, floor, cut, until)
  PROVE  Inv'
<1> DEFINE o == ownerOf[id]
           new == [seller |-> o, agent |-> agent, floor |-> floor, ask |-> 0,
                   until |-> until, cut |-> cut]
<1>0. /\ o \in Address /\ agent \in Address /\ floor \in Nat /\ until \in Nat
      /\ cut \in 0..MaxCut
  BY CustodyAssumption, ConsignAssumption
     DEF Inv, BooksTypeOK, HubTypeOK, Place, IsOwner, Minted, LegalTerms
<1>1. /\ new \in Notes
      /\ new.seller = o /\ new.agent # None /\ new.until = until /\ new.ask = 0
  BY <1>0, CustodyAssumption DEF Notes
<1> HIDE DEF new
<1>2. /\ note' = [note EXCEPT ![id] = new]
      /\ ownerOf' = [ownerOf EXCEPT ![id] = ConsignAddr]
      /\ getApproved' = [getApproved EXCEPT ![id] = None]
      /\ users' = [users EXCEPT ![id] = UserRecord(o, until)]
      /\ userEpoch' = [userEpoch EXCEPT ![id] = @ + 2]
      /\ leaseAgentOf' = [leaseAgentOf EXCEPT ![id] = None]
      /\ userEpoch[id] + 3 <= MaxEpoch
      /\ UNCHANGED <<now, isApprovedForAll, locked, batching, owed, ether>>
  BY DEF Place, new, ClearedAgent, RoomToComeHome
<1>3. HubTypeOK'
  <2>1. ConsignAddr \in Address
    BY ConsignAssumption DEF Address
  <2>2. users' \in [Tokens -> UserInfo]
    BY <1>0, <1>2 DEF Inv, BooksTypeOK, HubTypeOK, UserRecord, UserInfo
  <2>3. userEpoch' \in [Tokens -> 0..MaxEpoch]
    BY <1>2, CustodyAssumption DEF Inv, BooksTypeOK, HubTypeOK
  <2>4. QED
    BY <1>2, <2>1, <2>2, <2>3 DEF Inv, BooksTypeOK, HubTypeOK
<1>4. BooksTypeOK'
  BY <1>1, <1>2, <1>3 DEF Inv, BooksTypeOK
<1>5. NoteInv(id)'
  BY <1>1, <1>2 DEF Inv, BooksTypeOK, HubTypeOK, NoteInv, UserRecord
<1>6. ASSUME NEW other \in Tokens, other # id
      PROVE  NoteInv(other)'
  <2>1. note'[other] = note[other] /\ CustodyOf(other)' = CustodyOf(other)
    BY <1>2, <1>6 DEF Inv, BooksTypeOK, HubTypeOK, CustodyOf
  <2>2. QED
    BY <2>1, NoteKept DEF Inv
<1>7. NoGrant'
  BY <1>2 DEF Inv, NoGrant
<1>8. QED
  BY <1>4, <1>5, <1>6, <1>7 DEF Inv

LEMMA AskInv ==
  ASSUME Inv, NEW c, NEW id \in Tokens, NEW price \in Prices, Ask(c, id, price)
  PROVE  Inv'
<1>1. BooksTypeOK'
  BY ConsignAssumption, HubStutterType DEF Inv, BooksTypeOK, Ask, Notes
<1>2. \A t \in Tokens : CustodyOf(t)' = CustodyOf(t)
  BY DEF Ask, hubVars, CustodyOf
<1>3. ASSUME NEW t \in Tokens
      PROVE  NoteInv(t)'
  <2>1. CASE t # id
    BY <1>2, <2>1, NoteKept DEF Ask, Inv, BooksTypeOK
  <2>2. CASE t = id
    BY <1>2, <2>2
       DEF Ask, MayAsk, Inv, BooksTypeOK, Notes, NoteInv, Open, CustodyOf, UserRecord
  <2>3. QED
    BY <2>1, <2>2
<1>4. NoGrant'
  BY DEF Inv, NoGrant, Ask, hubVars
<1>5. QED
  BY <1>1, <1>3, <1>4 DEF Inv

\* A sale and a return are both a transfer out that closes the note.
LEMMA LeaveInv ==
  ASSUME Inv, NEW id \in Tokens, NEW to \in Address,
         note' = [note EXCEPT ![id] = NoNote],
         TransferFrom(ConsignAddr, ConsignAddr, to, id),
         owed' \in [Address -> Nat], ether' \in Int
  PROVE  Inv'
<1>1. HubTypeOK'
  BY TransferType DEF Inv, BooksTypeOK
<1>2. BooksTypeOK'
  BY <1>1, ConsignAssumption DEF Inv, BooksTypeOK, NoNote, Notes
<1>3. ASSUME NEW t \in Tokens
      PROVE  NoteInv(t)'
  <2>1. CASE t = id
    BY <2>1, NoteGone DEF Inv, BooksTypeOK
  <2>2. CASE t # id
    <3>1. note'[t] = note[t] /\ CustodyOf(t)' = CustodyOf(t)
      BY <2>2 DEF Inv, BooksTypeOK, HubTypeOK, TransferFrom, ClearedAgent, CustodyOf
    <3>2. QED
      BY <3>1, NoteKept DEF Inv
  <2>3. QED
    BY <2>1, <2>2
<1>4. NoGrant'
  BY DEF Inv, NoGrant, TransferFrom
<1>5. QED
  BY <1>2, <1>3, <1>4 DEF Inv

LEMMA Parties ==
  ASSUME Inv, NEW id \in Tokens, Open(id)
  PROVE  /\ note[id] \in Notes
         /\ note[id].agent \in Address
         /\ note[id].seller \in Address
  BY DEF Inv, BooksTypeOK, NoteInv, Notes, Open

LEMMA BuyInv ==
  ASSUME Inv, NEW c \in Address, NEW id \in Tokens, NEW agreed \in Nat,
         NEW r \in Royalties, Buy(c, id, agreed, r)
  PROVE  Inv'
<1>1. note[id] \in Notes
  BY DEF Inv, BooksTypeOK
<1>2. note[id].agent \in Address /\ note[id].seller \in Address
  BY Parties DEF Buy, Sellable
<1>3. owed' \in [Address -> Nat]
  BY <1>1, <1>2, SplitAddsUp DEF Inv, BooksTypeOK, Buy
<1>4. ether' \in Int
  BY DEF Inv, BooksTypeOK, Buy
<1>5. QED
  BY <1>3, <1>4, LeaveInv DEF Buy

LEMMA SendHomeInv ==
  ASSUME Inv, NEW id \in Tokens, Open(id), SendHome(id)
  PROVE  Inv'
<1>1. note[id].seller \in Address
  BY DEF Inv, BooksTypeOK, Notes, Open
<1>2. QED
  BY <1>1, LeaveInv DEF Inv, BooksTypeOK, SendHome

LEMMA WithdrawInv ==
  ASSUME Inv, NEW c \in Address, Withdraw(c)
  PROVE  Inv'
<1>1. BooksTypeOK'
  BY HubStutterType DEF Inv, BooksTypeOK, Withdraw
<1>2. ASSUME NEW t \in Tokens
      PROVE  NoteInv(t)'
  BY NoteKept DEF Inv, Withdraw, hubVars, CustodyOf
<1>3. NoGrant'
  BY DEF Inv, NoGrant, Withdraw, hubVars
<1>4. QED
  BY <1>1, <1>2, <1>3 DEF Inv

LEMMA ConsignCallInv ==
  ASSUME Inv, NEW c \in People \cup Accounts, ConsignCall(c)
  PROVE  Inv'
<1>1. c \in Address
  BY DEF Address
<1>2. ASSUME NEW id \in Tokens, Release(c, id)
      PROVE  Inv'
  BY <1>2, SendHomeInv DEF Release
<1>3. Prices \subseteq Nat
  BY ConsignAssumption
<1>4. QED
  BY <1>1, <1>2, <1>3, PlaceInv, AskInv, BuyInv, WithdrawInv DEF ConsignCall

LEMMA NextInv == Inv /\ [Next]_vars => Inv'
<1> SUFFICES ASSUME Inv, [Next]_vars PROVE Inv'
  OBVIOUS
<1>1. CASE HubStep
  BY <1>1, HubStepInv
<1>2. CASE \E c \in People \cup Accounts : CanAct(c) /\ ConsignCall(c)
  BY <1>2, ConsignCallInv
<1>3. CASE \E id \in Tokens : Reclaim(id)
  BY <1>3, SendHomeInv DEF Reclaim
<1>4. CASE UNCHANGED vars
  <2>1. BooksTypeOK'
    BY <1>4, HubStutterType DEF Inv, BooksTypeOK, vars, consignVars
  <2>2. ASSUME NEW t \in Tokens
        PROVE  NoteInv(t)'
    BY <1>4, NoteKept DEF Inv, vars, hubVars, consignVars, CustodyOf
  <2>3. NoGrant'
    BY <1>4 DEF Inv, NoGrant, vars, hubVars
  <2>4. QED
    BY <2>1, <2>2, <2>3 DEF Inv
<1>5. QED
  BY <1>1, <1>2, <1>3, <1>4 DEF Next

-----------------------------------------------------------------------------
(* Solvency.                                                               *)

LEMMA InitSolvent == Init => Solvent
<1> SUFFICES ASSUME Init PROVE Solvent
  OBVIOUS
<1>1. owed \in [Address -> Nat] /\ (\A a \in Address : owed[a] = 0) /\ ether = 0
  BY DEF Init
<1>2. Total(owed) = 0
  BY <1>1, TotalZero
<1>3. QED
  BY <1>1, <1>2 DEF Solvent

LEMMA BuySolvent ==
  ASSUME Inv, Solvent, NEW c, NEW id \in Tokens, NEW agreed \in Nat, NEW r \in Royalties,
         Buy(c, id, agreed, r)
  PROVE  Solvent'
<1>1. note[id] \in Notes /\ note[id].agent \in Address /\ note[id].seller \in Address
  BY Parties DEF Buy, Sellable
<1>2. Total(Split(note[id], agreed, r)) = Total(owed) + agreed
  BY <1>1, SplitAddsUp DEF Inv, BooksTypeOK
<1>3. owed' = Split(note[id], agreed, r) /\ ether' = ether + agreed
  BY DEF Buy
<1>4. QED
  BY <1>2, <1>3 DEF Solvent

LEMMA WithdrawSolvent ==
  ASSUME Inv, Solvent, NEW c \in Address, Withdraw(c)
  PROVE  Solvent'
<1>1. owed \in [Address -> Nat] /\ 0 \in Nat /\ owed[c] \in Nat
  BY DEF Inv, BooksTypeOK
<1>2. /\ Total([owed EXCEPT ![c] = 0]) = Total(owed) - owed[c] + 0
      /\ Total(owed) \in Nat
  BY <1>1, AddressFinite, TotalWrite
<1>3. owed' = [owed EXCEPT ![c] = 0] /\ ether' = ether - owed[c]
  BY DEF Withdraw
<1>4. QED
  BY <1>1, <1>2, <1>3 DEF Solvent

LEMMA NextSolvent == Inv /\ Solvent /\ [Next]_vars => Solvent'
<1> SUFFICES ASSUME Inv, Solvent, [Next]_vars PROVE Solvent'
  OBVIOUS
<1>1. CASE UNCHANGED <<owed, ether>>
  BY <1>1 DEF Solvent
<1>2. ASSUME NEW c \in People \cup Accounts, ConsignCall(c)
      PROVE  Solvent'
  <2>1. c \in Address
    BY DEF Address
  <2>2. Prices \subseteq Nat
    BY ConsignAssumption
  <2>3. QED
    BY <1>1, <1>2, <2>1, <2>2, BuySolvent, WithdrawSolvent
       DEF ConsignCall, Place, Ask, Release, SendHome
<1>3. QED
  BY <1>1, <1>2 DEF Next, HubStep, consignVars, vars, Reclaim, SendHome

\* Every wei the contract holds is somebody's to withdraw and no more is
\* owed than it holds, for any royalty, any cut and any number of sales.
THEOREM WindowIsSolvent == Spec => []Solvent
  BY InitInv, NextInv, InitSolvent, NextSolvent, PTL DEF Spec

\* The notes are well formed and no credit is ever negative: the royalty,
\* the agent's share and the consignor's rest are parts of the price, for
\* any royalty and any cut.  Nor is the balance.
THEOREM BooksAreTyped == Spec => []TypeOK
<1>1. Inv /\ Solvent => TypeOK
  BY AddressFinite, TotalType DEF Inv, BooksTypeOK, TypeOK, Solvent
<1>2. QED
  BY InitInv, NextInv, InitSolvent, NextSolvent, <1>1, PTL DEF Spec

\* A note is honoured for as long as it is open: nobody but the contract can
\* move the token or put anybody else in its use, and nobody can touch its
\* bolt but the token's own account, in a batch still running from before.
THEOREM NotesAreHonourable == Spec => NoteIsHonourable
<1>1. Inv => \A id \in Tokens : Honoured(id)
  BY DEF Inv, NoteInv, Honoured
<1>2. ASSUME Inv, Next, NEW id \in Tokens, Open(id), id \notin batching
      PROVE  locked'[id] = locked[id]
  <2>1. CASE HubStep
    BY <1>2, <2>1, HubLeavesBoltAlone DEF HubStep
  <2>2. CASE UNCHANGED locked
    BY <2>2
  <2>3. QED
    BY <1>2, <2>1, <2>2
       DEF Next, ConsignCall, Place, Ask, Buy, Release, SendHome, Reclaim, Withdraw,
           TransferFrom, hubVars
<1>3. Inv /\ [Next]_vars =>
        [\A id \in Tokens :
            (Open(id) /\ id \notin batching) => locked'[id] = locked[id]]_vars
  BY <1>2
<1>4. QED
  BY InitInv, NextInv, <1>1, <1>3, PTL DEF Spec, NoteIsHonourable

-----------------------------------------------------------------------------
LeavesWell(id) ==
    (Open(id) /\ ownerOf'[id] # ConsignAddr /\ ownerOf'[id] # note[id].seller)
       => /\ ether' = ether + note[id].ask
          /\ note[id].ask >= note[id].floor
          /\ now < note[id].until

LEMMA SendHomeLeavesWell ==
  ASSUME Inv, NEW id \in Tokens, NEW t \in Tokens, SendHome(t)
  PROVE  LeavesWell(id)
<1>1. ownerOf' = [ownerOf EXCEPT ![t] = note[t].seller]
  BY DEF SendHome, TransferFrom
<1>2. QED
  BY <1>1 DEF LeavesWell, Inv, NoteInv, BooksTypeOK, HubTypeOK

LEMMA CallLeavesWell ==
  ASSUME Inv, NEW id \in Tokens, NEW c, ConsignCall(c)
  PROVE  LeavesWell(id)
<1>0. Open(id) => ownerOf[id] = ConsignAddr
  BY DEF Inv, NoteInv
<1>1. ASSUME NEW t \in Tokens, NEW agent, NEW floor, NEW cut, NEW until,
             Place(c, t, agent, floor, cut, until)
      PROVE  LeavesWell(id)
  BY <1>0, <1>1 DEF Place, LeavesWell, Inv, BooksTypeOK, HubTypeOK
<1>2. ASSUME NEW t \in Tokens, NEW price, Ask(c, t, price)
      PROVE  LeavesWell(id)
  BY <1>0, <1>2 DEF Ask, hubVars, LeavesWell
<1>3. ASSUME NEW t \in Tokens, NEW agreed, NEW r \in Royalties, Buy(c, t, agreed, r)
      PROVE  LeavesWell(id)
  <2>1. CASE t # id
    BY <1>0, <1>3, <2>1 DEF Buy, TransferFrom, LeavesWell, Inv, BooksTypeOK, HubTypeOK
  <2>2. CASE t = id
    BY <1>3, <2>2 DEF Buy, Sellable, PriceStands, Inv, NoteInv, LeavesWell
  <2>3. QED
    BY <2>1, <2>2
<1>4. ASSUME NEW t \in Tokens, Release(c, t)
      PROVE  LeavesWell(id)
  BY <1>4, SendHomeLeavesWell DEF Release
<1>5. CASE Withdraw(c)
  BY <1>0, <1>5 DEF Withdraw, hubVars, LeavesWell
<1>6. QED
  BY <1>1, <1>2, <1>3, <1>4, <1>5 DEF ConsignCall

\* A token leaves the window home, or for the price asked at that moment, no
\* less than the floor, paid while the term still ran: through no permission,
\* call or order of calls does it leave otherwise.
THEOREM LeavesSoldOrHome == Spec => SoldAboveTheFloorOrHome
<1>1. ASSUME Inv, NEW id \in Tokens, Next
      PROVE  LeavesWell(id)
  <2>1. CASE HubStep
    <3>1. Open(id) => ownerOf'[id] = ownerOf[id]
      BY <1>1, <2>1, HubLeavesNotesAlone DEF HubStep, CustodyOf
    <3>2. QED
      BY <1>1, <3>1 DEF LeavesWell, Inv, NoteInv
  <2>2. CASE \E c \in People \cup Accounts : CanAct(c) /\ ConsignCall(c)
    BY <1>1, <2>2, CallLeavesWell
  <2>3. CASE \E t \in Tokens : Reclaim(t)
    BY <1>1, <2>3, SendHomeLeavesWell DEF Reclaim
  <2>4. QED
    BY <1>1, <2>1, <2>2, <2>3 DEF Next
<1>2. Inv /\ [Next]_vars => [\A id \in Tokens : LeavesWell(id)]_vars
  BY <1>1
<1>3. QED
  BY InitInv, NextInv, <1>2, PTL DEF Spec, SoldAboveTheFloorOrHome, LeavesWell
=============================================================================
