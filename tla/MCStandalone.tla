---------------------------- MODULE MCStandalone ----------------------------
(***************************************************************************)
(* Small instances of the contracts that share nothing but the clock.      *)
(* What one of them does cannot matter to another, so in each behaviour    *)
(* one is used and the others stay as they were deployed.  The account     *)
(* and the rooms are used in two ways: under a seal or through keys, by    *)
(* talking or by publishing sealing keys.                                  *)
(***************************************************************************)
EXTENDS Timelock, Locker, Account, Parley, TLC

CONSTANTS toBob, toSelf, toZero, other, alice, bob, coin, k1, gold, painting,
          venue, t1, t2, acct1, acct2

MCRotates == (toBob :> bob) @@ (toSelf :> Self) @@ (toZero :> Zero) @@ (other :> NoRotation)
MCAccountOf == t1 :> acct1 @@ t2 :> acct2
MCRooms == {COMMONS} \cup GroupKeys \cup PairKeys
MCTargetLists == {{gold}, {gold, venue}}

VARIABLE used

\* bound: the last block time explored of each
LastTime == [timelock |-> 4, locker |-> 3, seal |-> 1, keys |-> 1, rooms |-> 1, secrets |-> 0]

timelockState == <<admin, eta, announcedAt, announced, ran>>
lockerState == <<locks, listed, totalLocked, bal, calls>>
accountState == <<tokenVars, sealVars, worldVars, sessionVars, frame, floor>>
parleyState == <<saidVars, ownerOf, doorVars, keyVars>>
standaloneVars == <<now, timelockState, lockerState, accountState, parleyState, used>>

StandaloneInit ==
    /\ used \in DOMAIN LastTime
    /\ TimelockDeployed /\ Deployed /\ AccountDeployed /\ ParleyDeployed
    /\ now = IF used = "timelock" THEN 1 ELSE 0
    /\ used # "timelock" => admin = alice
    /\ used # "keys" => holder = alice

UseTimelock ==
    /\ used = "timelock"
    /\ TimelockNext
    /\ UNCHANGED <<lockerState, accountState, parleyState>>

UseLocker ==
    /\ used = "locker"
    /\ Next
    /\ UNCHANGED <<timelockState, accountState, parleyState>>

\* No key is granted; the token is sold at most once and not to itself; a seal
\* lasts for the block it is put on in, or for the next one too; somebody may
\* be trusted with the coin.
UseSeal ==
    /\ used = "seal"
    /\ AccountNext
    /\ xfers' <= 1 /\ holder' # Reach /\ sealedUntil' <= 2
    /\ granted' \subseteq {gold} \X Outsiders
    /\ UNCHANGED <<sessionVars, timelockState, lockerState, parleyState>>

\* Nothing is sealed or on a list, there is no asset to move, and the assets
\* answer and trust nobody.
UseKeys ==
    /\ used = "keys"
    /\ AccountNext
    /\ \A a \in Assets : holds'[a] = 0
    /\ UNCHANGED <<sealVars, readable, granted, timelockState, lockerState, parleyState>>

\* Tokens are held by one wallet once issued.
UseRooms ==
    /\ used = "rooms"
    /\ ParleyNext
    /\ \A id \in Tokens : ownerOf'[id] \in {None, alice}
    /\ UNCHANGED <<keyVars, timelockState, lockerState, accountState>>

\* Nobody talks.
UseSecrets ==
    /\ used = "secrets"
    /\ ParleyNext
    /\ UNCHANGED <<saidVars, doorVars, timelockState, lockerState, accountState>>

StandaloneNext ==
    /\ UseTimelock \/ UseLocker \/ UseSeal \/ UseKeys \/ UseRooms \/ UseSecrets
    /\ now' <= LastTime[used]
    /\ UNCHANGED used

StandaloneSpec == StandaloneInit /\ [][StandaloneNext]_standaloneVars
=============================================================================
