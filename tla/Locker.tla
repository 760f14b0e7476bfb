------------------------------- MODULE Locker -------------------------------
(***************************************************************************)
(* src/src/Locker.sol: coins put away until a date.  lock and claim call   *)
(* the coin, and a coin may call back: what can happen inside that call is *)
(* a step of its own, between the call's beginning and its end.  lock      *)
(* records what arrived, measured across the call; claim writes its books  *)
(* before the call.                                                        *)
(*                                                                         *)
(* A call that reverts leaves no step.  lockWithPermit is lock with one    *)
(* more call-back before it, from a permit whose failure it ignores.       *)
(* The coins are external: a coin may deliver less than it was asked for,  *)
(* or more, at any time, but takes nothing the locker did not send.        *)
(***************************************************************************)
EXTENDS Integers, Sequences, Clock, Totals

CONSTANTS
    Coins,     \* ERC-20 contracts
    People,    \* addresses that lock, and that a lock is given to
    MaxTerm,   \* MAX_TERM
    Amounts,   \* bound: amounts asked for, and amounts a coin delivers
    MaxLocks,  \* bound: locks made
    MaxBal     \* bound: what a coin credits the locker with

ASSUME LockerAssumption ==
    /\ MaxTerm \in Nat
    /\ Amounts \subseteq Nat \ {0}
    /\ MaxLocks \in Nat
    /\ MaxBal \in Nat

VARIABLES
    locks,        \* _locks
    listed,       \* _of, as the set of <<owner, id>> entries ever pushed
    totalLocked,
    bal,          \* the coin's balanceOf(locker)
    calls         \* calls in flight into a coin, outermost first

vars == <<now, locks, listed, totalLocked, bal, calls>>

Lock == [token : Coins, until : Nat, taken : BOOLEAN, owner : People, amount : Nat]

\* What a lock call still needs once its coin returns, and a claim's payment.
Pull == [kind : {"pull"}, token : Coins, who : People, asked : Nat, until : Nat,
         before : Nat]
Push == [kind : {"push"}, token : Coins, who : People, id : Nat]

Entered == calls # <<>>
Current == calls[Len(calls)]
Return == SubSeq(calls, 1, Len(calls) - 1)

-----------------------------------------------------------------------------
(* Locking.                                                                *)

BeginLock(c, token, amount, until) ==
    /\ ~Entered
    /\ Len(locks) + Len(calls) < MaxLocks
    /\ until > now
    /\ until <= now + MaxTerm
    /\ calls' = Append(calls, [kind |-> "pull", token |-> token, who |-> c,
                               asked |-> amount, until |-> until,
                               before |-> bal[token]])
    /\ UNCHANGED <<now, locks, listed, totalLocked, bal>>

\* Measured, not asked for.
BadArrived(call) == call.asked
Arrived(call) == bal[call.token] - call.before

FinishLock ==
    /\ calls # <<>>
    /\ Current.kind = "pull"
    /\ LET call == Current
           got == Arrived(call)
       IN  /\ got > 0
           /\ locks' = Append(locks, [token |-> call.token, until |-> call.until,
                                      taken |-> FALSE, owner |-> call.who,
                                      amount |-> got])
           /\ listed' = listed \cup {<<call.who, Len(locks) + 1>>}
           /\ totalLocked' = [totalLocked EXCEPT ![call.token] = @ + got]
    /\ calls' = Return
    /\ UNCHANGED <<now, bal>>

-----------------------------------------------------------------------------
(* Claiming.                                                               *)

BadMatured(l) == TRUE
Matured(l) == now >= l.until

Claimable(l) == ~l.taken

Released(l) == [totalLocked EXCEPT ![l.token] = @ - l.amount]

BeginClaim(c, id) ==
    /\ ~Entered
    /\ c = locks[id].owner
    /\ Matured(locks[id])
    /\ Claimable(locks[id])
    /\ locks' = [locks EXCEPT ![id].taken = TRUE]
    /\ totalLocked' = Released(locks[id])
    /\ calls' = Append(calls, [kind |-> "push", token |-> locks[id].token, who |-> c,
                               id |-> id])
    /\ UNCHANGED <<now, listed, bal>>

FinishClaim ==
    /\ calls # <<>>
    /\ Current.kind = "push"
    /\ LET l == locks[Current.id] IN
          /\ bal[l.token] >= l.amount
          /\ bal' = [bal EXCEPT ![l.token] = @ - l.amount]
    /\ calls' = Return
    /\ UNCHANGED <<now, locks, listed, totalLocked>>

-----------------------------------------------------------------------------
(* Moving and lengthening a promise: neither is guarded against being      *)
(* called from inside a coin's call-back.                                  *)

GivenIndex(to, id) == listed \cup {<<to, id>>}

Give(c, id, to) ==
    /\ c = locks[id].owner
    /\ ~locks[id].taken
    /\ locks' = [locks EXCEPT ![id].owner = to]
    /\ listed' = GivenIndex(to, id)
    /\ UNCHANGED <<now, totalLocked, bal, calls>>

Longer(l, until) == until > l.until

Extend(c, id, until) ==
    /\ c = locks[id].owner
    /\ ~locks[id].taken
    /\ Longer(locks[id], until)
    /\ until <= now + MaxTerm
    /\ locks' = [locks EXCEPT ![id].until = until]
    /\ UNCHANGED <<now, listed, totalLocked, bal, calls>>

-----------------------------------------------------------------------------
(* The world: coins arrive, inside a lock's call or out of the blue, and   *)
(* time passes between transactions.                                       *)

Deliver(token, amount) ==
    /\ bal[token] + amount <= MaxBal
    /\ bal' = [bal EXCEPT ![token] = @ + amount]
    /\ UNCHANGED <<now, locks, listed, totalLocked, calls>>

Tick ==
    /\ calls = <<>>
    /\ Passes
    /\ UNCHANGED <<locks, listed, totalLocked, bal, calls>>

Deployed ==
    /\ locks = <<>>
    /\ listed = {}
    /\ totalLocked = [token \in Coins |-> 0]
    /\ bal = [token \in Coins |-> 0]
    /\ calls = <<>>

Init == now = 0 /\ Deployed

Next ==
    \/ Tick
    \/ FinishLock
    \/ FinishClaim
    \/ \E token \in Coins, amount \in Amounts : Deliver(token, amount)
    \/ \E c \in People, token \in Coins, amount \in Amounts, until \in 0..MaxTime :
          BeginLock(c, token, amount, until)
    \/ \E c \in People, id \in DOMAIN locks :
          \/ BeginClaim(c, id)
          \/ \E to \in People : Give(c, id, to)
          \/ \E until \in 0..MaxTime : Extend(c, id, until)

Spec == Init /\ [][Next]_vars

-----------------------------------------------------------------------------
(* Properties.                                                             *)

TypeOK ==
    /\ now \in 0..MaxTime
    /\ locks \in Seq(Lock)
    /\ listed \subseteq People \X (1..Len(locks))
    /\ totalLocked \in [Coins -> Nat]
    /\ bal \in [Coins -> Nat]
    /\ calls \in Seq(Pull \cup Push)

Held(token) == Total([id \in DOMAIN locks |->
    IF locks[id].token = token /\ ~locks[id].taken THEN locks[id].amount ELSE 0])
Leaving(token) == Total([i \in DOMAIN calls |->
    IF calls[i].kind = "push" /\ calls[i].token = token
    THEN locks[calls[i].id].amount ELSE 0])

\* At every moment anybody can look, the inside of a coin's call-back
\* included, totalLocked is what the untaken locks add up to, and the balance
\* covers it and the claim being paid, with coins that deliver short.
Covered == \A token \in Coins :
    /\ totalLocked[token] = Held(token)
    /\ bal[token] >= Held(token) + Leaving(token)

\* Nothing leaves before its date: coins go only to pay a lock whose time
\* has come, its whole amount, to whoever owns it.
NothingLeavesEarly ==
    [][\A token \in Coins : bal'[token] < bal[token] =>
          \E id \in DOMAIN locks :
             /\ locks[id].taken
             /\ locks[id].token = token
             /\ now >= locks[id].until
             /\ bal[token] - bal'[token] = locks[id].amount
             /\ Current.who = locks[id].owner]_vars

\* A promise is only ever lengthened: dates never come nearer, amounts never
\* change, and a lock once taken stays taken.
PromisesOnlyLengthen ==
    [][\A id \in DOMAIN locks :
          /\ locks'[id].until >= locks[id].until
          /\ locks'[id].amount = locks[id].amount
          /\ locks'[id].token = locks[id].token
          /\ locks[id].taken => locks'[id].taken]_vars

\* Whoever owns a lock finds it under their address, however often it has
\* been given away and back.
OwnerCanFindIt == \A id \in DOMAIN locks : <<locks[id].owner, id>> \in listed
=============================================================================
