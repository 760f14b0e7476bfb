----------------------------- MODULE Succession -----------------------------
(***************************************************************************)
(* src/src/Succession.sol: the dead man's switch.  A holder names an heir, *)
(* a silence and a notice; after the silence anybody may knock, and after  *)
(* the notice anybody may hand the token over.  The token moves through a  *)
(* standing hub approval, so whether it can move at the end depends on hub *)
(* state this contract does not keep.                                      *)
(*                                                                         *)
(* Composed with the hub: a step is a call here, a call into the hub, or   *)
(* the passage of time.                                                    *)
(***************************************************************************)
EXTENDS Custody

CONSTANTS
    SuccessionAddr,  \* this contract
    Quiets,          \* silences explored, all legal (MIN_QUIET..MAX_QUIET)
    Notices,         \* notices explored, all legal (MIN_NOTICE..MAX_NOTICE)
    Planned,         \* bound: tokens a plan is arranged for
    Heirs,           \* bound: addresses named as heir
    HeirTokens       \* bound: tokens named instead of an address

ASSUME SuccessionAssumption ==
    /\ SuccessionAddr \in Contracts
    /\ Quiets \subseteq Nat \ {0}
    /\ Notices \subseteq Nat \ {0}
    /\ Planned \subseteq Tokens
    /\ Heirs \subseteq Address
    /\ HeirTokens \subseteq Tokens
    /\ None \notin Tokens

VARIABLES
    plan,      \* _plan
    named,     \* _named, as the set of <<heir, token>> entries ever pushed
    spokeAt    \* history: the last time arrange or stillHere was called

planVars == <<plan, named, spokeAt>>
successionVars == <<hubVars, planVars>>

\* toToken = None stands for zero.  called = 0 means nobody has knocked: no
\* block has time zero, and a plan can be knocked only after a silence.
NoPlan == [from |-> None, to |-> None, toToken |-> None, quiet |-> 0, notice |-> 0,
           seen |-> 0, called |-> 0]
Plans == [from : Address \cup {None}, to : Address \cup {None},
          toToken : Tokens \cup {None}, quiet : Nat, notice : Nat,
          seen : Nat, called : Nat]

Exists(id) == plan[id].from # None
knockableAt(id) == plan[id].seen + plan[id].quiet
opensAt(id) == plan[id].called + plan[id].notice

heirOf(id) ==
    IF ~Exists(id) THEN None
    ELSE IF plan[id].toToken = None THEN plan[id].to
    ELSE ownerOf[plan[id].toToken]

-----------------------------------------------------------------------------
(* The calls.                                                              *)

\* Whether arranging adds an entry to _named: not when the plan in force
\* already named this heir, and never for a plan that names a token only.
Lists(id, to) == to # None /\ (~Exists(id) \/ plan[id].to # to)

Arrange(c, id, to, toToken, quiet, notice) ==
    /\ IsOwner(c, id)
    /\ toToken # None \/ to # None
    /\ toToken # id
    /\ toToken = None => to # ownerOf[id]
    /\ plan' = [plan EXCEPT ![id] =
          [from |-> ownerOf[id], to |-> to, toToken |-> toToken, quiet |-> quiet,
           notice |-> notice, seen |-> now, called |-> 0]]
    /\ named' = IF Lists(id, to) THEN named \cup {<<to, id>>} ELSE named
    /\ spokeAt' = [spokeAt EXCEPT ![id] = now]
    /\ UNCHANGED hubVars

Revoke(c, id) ==
    /\ IsOwner(c, id)
    /\ Exists(id)
    /\ plan' = [plan EXCEPT ![id] = NoPlan]
    /\ UNCHANGED <<hubVars, named, spokeAt>>

BadHeard(id) == [plan EXCEPT ![id].seen = now]
Heard(id) == [plan EXCEPT ![id] = [@ EXCEPT !.seen = now, !.called = 0]]

StillHere(c, id) ==
    /\ IsOwner(c, id)
    /\ Exists(id)
    /\ plan' = Heard(id)
    /\ spokeAt' = [spokeAt EXCEPT ![id] = now]
    /\ UNCHANGED <<hubVars, named>>

Knockable(id) == Exists(id) /\ plan[id].called = 0 /\ now >= knockableAt(id)

Summon(id) ==
    /\ Minted(id)
    /\ plan[id].from = ownerOf[id]
    /\ Knockable(id)
    /\ plan' = [plan EXCEPT ![id].called = now]
    /\ UNCHANGED <<hubVars, named, spokeAt>>

BadDoorLate(id) == plan[id].called # 0 /\ now > opensAt(id)
DoorOpen(id) == plan[id].called # 0 /\ now >= opensAt(id)

Claim(id) ==
    /\ Exists(id)
    /\ DoorOpen(id)
    /\ plan[id].from = ownerOf[id]
    /\ heirOf(id) \notin {None, ownerOf[id]}
    /\ plan' = [plan EXCEPT ![id] = NoPlan]
    /\ TransferFrom(SuccessionAddr, ownerOf[id], heirOf(id), id)
    /\ UNCHANGED <<named, spokeAt>>

-----------------------------------------------------------------------------
(* The two clocks end before MaxTime: bound on when a holder speaks.       *)
RoomFor(quiet, notice) == now + quiet + notice <= MaxTime

PlanCall(c) ==
    \E id \in Planned :
        \/ \E to \in Heirs \cup {None}, toToken \in HeirTokens \cup {None},
              quiet \in Quiets, notice \in Notices :
              RoomFor(quiet, notice) /\ Arrange(c, id, to, toToken, quiet, notice)
        \/ Revoke(c, id)
        \/ RoomFor(plan[id].quiet, plan[id].notice) /\ StillHere(c, id)

SuccessionHubStep == HubNext /\ UNCHANGED planVars

SuccessionInit ==
    /\ HubInit
    /\ plan = [id \in Tokens |-> NoPlan]
    /\ named = {}
    /\ spokeAt = [id \in Tokens |-> 0]

SuccessionNext ==
    \/ SuccessionHubStep
    \/ \E c \in People \cup Accounts : CanAct(c) /\ PlanCall(c)
    \/ \E id \in Tokens : Summon(id) \/ Claim(id)

SuccessionSpec == SuccessionInit /\ [][SuccessionNext]_successionVars

-----------------------------------------------------------------------------
(* What the holder is told: wouldPass().                                   *)

Standing(id) ==
    \/ getApproved[id] = SuccessionAddr
    \/ <<ownerOf[id], SuccessionAddr>> \in isApprovedForAll

BadWouldPass(id) ==
    IF ~Exists(id) THEN "NO_PLAN"
    ELSE IF ownerOf[id] # plan[id].from THEN "SOLD"
    ELSE IF ~Standing(id) THEN "NO_STANDING"
    ELSE IF locked[id] THEN "BOLTED"
    ELSE IF DoorOpen(id) THEN "OK"
    ELSE "WAITING"
wouldPass(id) ==
    IF ~Exists(id) THEN "NO_PLAN"
    ELSE IF ownerOf[id] # plan[id].from THEN "SOLD"
    ELSE IF ~Standing(id) THEN "NO_STANDING"
    ELSE IF locked[id] THEN "BOLTED"
    ELSE IF heirOf(id) = None THEN "NO_HEIR"
    ELSE IF heirOf(id) \in {ownerOf[id], AccountOf[id], GripOf[id]} THEN "BAD_HANDS"
    ELSE IF plan[id].called = 0
         THEN IF now < knockableAt(id) THEN "SPEAKING" ELSE "KNOCKABLE"
    ELSE IF now < opensAt(id) THEN "WAITING"
    ELSE "OK"

\* Bound: the clocks still to run end by MaxTime, and the hub can still
\* count the transfer.
InBounds(id) ==
    /\ EpochLeft(id)
    /\ IF plan[id].called # 0 THEN opensAt(id) <= MaxTime
       ELSE /\ knockableAt(id) + plan[id].notice <= MaxTime
            /\ now + plan[id].notice <= MaxTime

\* The answers that mean the arrangement is healthy.
Healthy(id) ==
    InBounds(id) /\ wouldPass(id) \in {"SPEAKING", "KNOCKABLE", "WAITING", "OK"}

\* Bound: while a healthy plan waits for its knock the clock keeps room for
\* the notice, so that MaxTime never cuts a plan short.
Horizon ==
    now' # now => \A id \in Tokens :
        (Healthy(id) /\ wouldPass(id) = "KNOCKABLE") => now' + plan[id].notice <= MaxTime

\* Anybody may knock and anybody may hand the token over, the heir with
\* every reason to; blocks keep coming.
SuccessionFairSpec ==
    /\ SuccessionInit
    /\ [][SuccessionNext /\ Horizon]_successionVars
    /\ WF_successionVars(Tick /\ UNCHANGED planVars /\ Horizon)
    /\ \A id \in Tokens : WF_successionVars(Summon(id)) /\ WF_successionVars(Claim(id))

-----------------------------------------------------------------------------
(* Properties.                                                             *)

SuccessionTypeOK ==
    /\ HubTypeOK
    /\ plan \in [Tokens -> Plans]
    /\ named \subseteq Address \X Tokens
    /\ spokeAt \in [Tokens -> Nat]

\* Both silences really ran: a token this contract hands over belonged to
\* someone who last spoke at least the whole quiet and the whole notice
\* before, whoever knocked and however often.  To speak is to call arrange or
\* stillHere: the code does not listen for anything else the owner does.
PassesOnlyAfterBothSilences ==
    [][\A id \in Tokens : Claim(id) =>
          now >= spokeAt[id] + plan[id].quiet + plan[id].notice]_successionVars

\* A knock stands until the owner answers it: nobody else can move the
\* heir's date, in either direction.
KnockStands ==
    [][\A id \in Tokens :
          (plan[id].called # 0 /\ plan'[id].called # plan[id].called)
             => plan'[id].called = 0]_successionVars

\* "OK" is what claim would do: wouldPass says OK in exactly the states in
\* which anybody can hand the token over now.  The one exception is a token
\* that this contract owns itself, which a batch of the token's account can
\* bring about: claim needs no approval to move it, and wouldPass never says
\* OK of it because it asks for one.
WouldPassTellsTheTruth ==
    \A id \in Tokens : EpochLeft(id) =>
        (wouldPass(id) = "OK" <=> ENABLED Claim(id) /\ ownerOf[id] # SuccessionAddr)

\* An heir can find what is coming: every live plan that names an address
\* is listed under that address, through every rewrite, revocation and sale.
NamedListsEveryPlan ==
    \A id \in Tokens : plan[id].to # None => <<plan[id].to, id>> \in named

\* An arrangement that stays healthy and is never renewed does pass: while
\* wouldPass keeps giving one of its healthy answers, the token is on its
\* way to the heir and nobody but the owner can stop it.  Only arrange and
\* stillHere renew it.  An owner who uses the token every day and calls
\* neither loses it on time, because summon and claim read p.seen alone.
SilencePasses ==
    \A id \in Tokens : Healthy(id) ~> ~Healthy(id)
=============================================================================
