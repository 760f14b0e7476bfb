------------------------------ MODULE Timelock ------------------------------
(***************************************************************************)
(* src/src/lib/Timelock.sol: the admin of the market, and the week between *)
(* an announcement and its effect.  An operation is a model value standing *)
(* for opHash(target, value, data, salt); Rotates says which operations    *)
(* call setAdmin on the timelock itself, and with which address.  What any *)
(* other operation does to its target is not this module's business, only  *)
(* whether its call returned.                                              *)
(***************************************************************************)
EXTENDS Clock

CONSTANTS
    Ops,       \* operations that may be queued
    Rotates,   \* operation -> the argument of setAdmin, or NoRotation
    NoRotation,
    Admins,    \* addresses that may be admin, the timelock's own included
    Self,      \* the timelock's own address
    Zero,      \* address(0), which setAdmin refuses
    DELAY,     \* 7 days
    GRACE,     \* 14 days
    MaxAnnounced \* bound: announcements of one operation

ASSUME TimelockAssumption ==
    /\ Rotates \in [Ops -> Admins \cup {Zero, NoRotation}]
    /\ Self \in Admins
    /\ Zero \notin Admins
    /\ NoRotation \notin Admins \cup {Zero}
    /\ DELAY \in Nat \ {0}
    /\ GRACE \in Nat
    /\ MaxAnnounced \in Nat

VARIABLES
    admin,
    eta,         \* 0 when nothing is pending
    announcedAt, \* history: when the pending announcement was made
    announced,   \* history: how many times each operation was announced
    ran          \* history: how many times it took effect

timelockVars == <<now, admin, eta, announcedAt, announced, ran>>

Pending(op) == eta[op] # 0

-----------------------------------------------------------------------------
\* A call can be sent by whoever is admin.  The timelock's own address sends
\* nothing but the call data of an operation, so with itself as admin it is
\* dead: nobody can queue, execute or cancel again.
AdminCalls == admin # Self

MayQueue(op) == AdminCalls /\ ~Pending(op)

Queue(op) ==
    /\ MayQueue(op)
    /\ announced[op] < MaxAnnounced
    /\ eta' = [eta EXCEPT ![op] = now + DELAY]
    /\ announcedAt' = [announcedAt EXCEPT ![op] = now]
    /\ announced' = [announced EXCEPT ![op] = @ + 1]
    /\ UNCHANGED <<now, admin, ran>>

BadReadyNoExpiry(op) == Pending(op) /\ now >= eta[op]
Ready(op) == Pending(op) /\ now >= eta[op] /\ now <= eta[op] + GRACE

BadSpent(op) == eta
Spent(op) == [eta EXCEPT ![op] = 0]

\* A call that fails (setAdmin(0), or a target that reverts) undoes the whole
\* transaction and is no step at all.
Succeeds(op) == Rotates[op] # Zero

AdminAfter(op) == IF Rotates[op] = NoRotation THEN admin ELSE Rotates[op]

Execute(op) ==
    /\ AdminCalls
    /\ Ready(op)
    /\ Succeeds(op)
    /\ eta' = Spent(op)
    /\ admin' = AdminAfter(op)
    /\ announcedAt' = [announcedAt EXCEPT ![op] = 0]
    /\ ran' = [ran EXCEPT ![op] = @ + 1]
    /\ UNCHANGED <<now, announced>>

Cancel(op) ==
    /\ AdminCalls
    /\ Pending(op)
    /\ eta' = [eta EXCEPT ![op] = 0]
    /\ announcedAt' = [announcedAt EXCEPT ![op] = 0]
    /\ UNCHANGED <<now, admin, announced, ran>>

TimelockTick ==
    /\ Passes
    /\ UNCHANGED <<admin, eta, announcedAt, announced, ran>>

TimelockDeployed ==
    /\ admin \in Admins
    /\ eta = [op \in Ops |-> 0]
    /\ announcedAt = [op \in Ops |-> 0]
    /\ announced = [op \in Ops |-> 0]
    /\ ran = [op \in Ops |-> 0]

\* A deployed contract never sees block time zero.
TimelockInit == now = 1 /\ TimelockDeployed

TimelockNext == TimelockTick \/ \E op \in Ops : Queue(op) \/ Execute(op) \/ Cancel(op)

TimelockSpec == TimelockInit /\ [][TimelockNext]_timelockVars

-----------------------------------------------------------------------------
(* Properties.                                                             *)

TimelockTypeOK ==
    /\ now \in Nat \ {0}
    /\ admin \in Admins
    /\ eta \in [Ops -> Nat]
    /\ announcedAt \in [Ops -> Nat]
    /\ announced \in [Ops -> 0..MaxAnnounced]
    /\ ran \in [Ops -> Nat]

\* A stolen key is a public queue, not an instant loss: nothing takes effect
\* that was not announced DELAY earlier and left standing since, and nothing
\* announced and forgotten takes effect once GRACE has run out.
EffectsWereAnnounced ==
    [][\A op \in Ops : ran'[op] # ran[op] =>
          /\ announcedAt[op] # 0
          /\ announcedAt[op] + DELAY <= now
          /\ now <= announcedAt[op] + DELAY + GRACE]_timelockVars

\* One announcement buys at most one effect, in whatever order operations
\* are queued, cancelled, executed and queued again.
OneEffectPerAnnouncement == \A op \in Ops : ran[op] <= announced[op]

\* A pending announcement's date cannot be moved under a watcher: it stands
\* until it is used or withdrawn.
AnnouncementsStand ==
    [][\A op \in Ops : (Pending(op) /\ eta'[op] # eta[op]) => eta'[op] = 0]_timelockVars

\* The admin changes only to the address some announced operation named a
\* whole delay ago, whoever holds the key meanwhile.
AdminRotatesInPublic ==
    [][admin' # admin =>
          \E op \in Ops :
             /\ Rotates[op] = admin'
             /\ announcedAt[op] # 0
             /\ announcedAt[op] + DELAY <= now]_timelockVars

\* What makes those hold: an operation is pending exactly while one of its
\* announcements is unspent, and its date is DELAY after that announcement.
PendingInv ==
    \A op \in Ops :
        /\ Pending(op) <=> announcedAt[op] # 0
        /\ Pending(op) => eta[op] = announcedAt[op] + DELAY
        /\ announcedAt[op] <= now
        /\ ran[op] <= announced[op]
        /\ Pending(op) => ran[op] < announced[op]
=============================================================================
