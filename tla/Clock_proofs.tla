----------------------------- MODULE Clock_proofs -----------------------------
(***************************************************************************)
(* Proofs about the contracts that share nothing but the block's clock:    *)
(* Timelock, for every set of operations, every delay and every grace      *)
(* period; Locker, for any coins, people, amounts and dates; Account, for  *)
(* any owners, programs, keys, assets and outsiders; Archive and Parley,   *)
(* for any tokens, wallets and groups; and Talk, which reads the archive,  *)
(* for any rooms and any walk.                                             *)
(***************************************************************************)
EXTENDS Timelock, Locker, Account, Parley, Talk, Totals_proofs, WellFoundedInduction

-----------------------------------------------------------------------------
(* Timelock.  The inductive invariant is TimelockTypeOK /\ PendingInv.     *)

TimelockInv == TimelockTypeOK /\ PendingInv

LEMMA TimelockInitInv == TimelockInit => TimelockInv
  BY TimelockAssumption DEF TimelockInit, TimelockDeployed, TimelockInv, TimelockTypeOK, PendingInv, Pending

LEMMA QueueInv ==
  ASSUME TimelockInv, NEW op \in Ops, Queue(op)
  PROVE  TimelockInv'
<1>1. TimelockTypeOK'
  BY TimelockAssumption DEF TimelockInv, TimelockTypeOK, Queue
<1>2. PendingInv'
  BY TimelockAssumption DEF TimelockInv, TimelockTypeOK, PendingInv, Pending, Queue, MayQueue
<1>3. QED
  BY <1>1, <1>2 DEF TimelockInv

LEMMA ExecuteInv ==
  ASSUME TimelockInv, NEW op \in Ops, Execute(op)
  PROVE  TimelockInv'
<1>1. AdminAfter(op) \in Admins
  BY TimelockAssumption DEF TimelockInv, TimelockTypeOK, Execute, Succeeds, AdminAfter
<1>2. TimelockTypeOK'
  BY <1>1, TimelockAssumption DEF TimelockInv, TimelockTypeOK, Execute, Spent
<1>3. PendingInv'
  BY TimelockAssumption DEF TimelockInv, TimelockTypeOK, PendingInv, Pending, Execute, Ready, Spent
<1>4. QED
  BY <1>2, <1>3 DEF TimelockInv

LEMMA CancelInv ==
  ASSUME TimelockInv, NEW op \in Ops, Cancel(op)
  PROVE  TimelockInv'
<1>1. TimelockTypeOK'
  BY TimelockAssumption DEF TimelockInv, TimelockTypeOK, Cancel
<1>2. PendingInv'
  BY TimelockAssumption DEF TimelockInv, TimelockTypeOK, PendingInv, Pending, Cancel
<1>3. QED
  BY <1>1, <1>2 DEF TimelockInv

LEMMA TimelockNextInv == TimelockInv /\ [TimelockNext]_timelockVars => TimelockInv'
<1> SUFFICES ASSUME TimelockInv, [TimelockNext]_timelockVars PROVE TimelockInv'
  OBVIOUS
<1>1. CASE TimelockTick
  BY <1>1, TimelockAssumption, ClockAssumption DEF TimelockInv, TimelockTypeOK, PendingInv, Pending, TimelockTick, Passes
<1>2. CASE \E op \in Ops : Queue(op) \/ Execute(op) \/ Cancel(op)
  BY <1>2, QueueInv, ExecuteInv, CancelInv
<1>3. CASE UNCHANGED timelockVars
  BY <1>3 DEF TimelockInv, TimelockTypeOK, PendingInv, Pending, timelockVars
<1>4. QED
  BY <1>1, <1>2, <1>3 DEF TimelockNext

\* The admin is always an address that can be admin, never address(0), and
\* every recorded date is a block time.
THEOREM TimelockTyped == TimelockSpec => []TimelockTypeOK
<1>1. TimelockInv => TimelockTypeOK
  BY DEF TimelockInv
<1>2. QED
  BY TimelockInitInv, TimelockNextInv, <1>1, PTL DEF TimelockSpec

\* An operation is pending exactly while an announcement of it is unspent,
\* and falls due exactly DELAY after that announcement.
THEOREM PendingCorrect == TimelockSpec => []PendingInv
<1>1. TimelockInv => PendingInv
  BY DEF TimelockInv
<1>2. QED
  BY TimelockInitInv, TimelockNextInv, <1>1, PTL DEF TimelockSpec

\* One announcement buys at most one effect (execute spends eta before it
\* calls the target).
THEOREM AtMostOneEffect == TimelockSpec => []OneEffectPerAnnouncement
<1>1. TimelockInv => OneEffectPerAnnouncement
  BY DEF TimelockInv, PendingInv, OneEffectPerAnnouncement
<1>2. QED
  BY TimelockInitInv, TimelockNextInv, <1>1, PTL DEF TimelockSpec

\* Whatever takes effect was announced DELAY before and has not expired.
THEOREM EffectsAnnounced == TimelockSpec => EffectsWereAnnounced
<1>1. ASSUME TimelockInv, [TimelockNext]_timelockVars
      PROVE  [\A op \in Ops : ran'[op] # ran[op] =>
                 /\ announcedAt[op] # 0
                 /\ announcedAt[op] + DELAY <= now
                 /\ now <= announcedAt[op] + DELAY + GRACE]_timelockVars
  <2>1. ASSUME NEW op \in Ops, ran'[op] # ran[op]
        PROVE  Execute(op)
    <3>1. ASSUME NEW other \in Ops, Execute(other)
          PROVE  other = op
      BY <2>1, <3>1 DEF TimelockInv, TimelockTypeOK, Execute
    <3>2. QED
      BY <1>1, <2>1, <3>1 DEF TimelockNext, TimelockTick, Queue, Cancel, timelockVars
  <2>2. ASSUME NEW op \in Ops, Execute(op)
        PROVE  /\ announcedAt[op] # 0
               /\ announcedAt[op] + DELAY <= now
               /\ now <= announcedAt[op] + DELAY + GRACE
    BY <1>1, <2>2, TimelockAssumption DEF TimelockInv, TimelockTypeOK, PendingInv, Execute, Ready
  <2>3. QED
    BY <2>1, <2>2
<1>2. QED
  BY <1>1, TimelockInitInv, TimelockNextInv, PTL DEF TimelockSpec, EffectsWereAnnounced

\* A pending date is only ever spent or withdrawn, never moved.
THEOREM AnnouncementsAreFinal == TimelockSpec => AnnouncementsStand
<1>1. ASSUME TimelockInv, [TimelockNext]_timelockVars
      PROVE  [\A op \in Ops : (Pending(op) /\ eta'[op] # eta[op]) => eta'[op] = 0]_timelockVars
  BY <1>1 DEF TimelockInv, TimelockTypeOK, TimelockNext, TimelockTick, Queue, MayQueue, Execute, Spent, Cancel, Pending, timelockVars
<1>2. QED
  BY <1>1, TimelockInitInv, TimelockNextInv, PTL DEF TimelockSpec, AnnouncementsStand

\* The admin changes only to an address an operation announced a whole DELAY
\* ago names, so a stolen key cannot rotate itself in by surprise.
THEOREM AdminRotation == TimelockSpec => AdminRotatesInPublic
<1>1. ASSUME TimelockInv, [TimelockNext]_timelockVars
      PROVE  [admin' # admin =>
                 \E op \in Ops :
                    /\ Rotates[op] = admin'
                    /\ announcedAt[op] # 0
                    /\ announcedAt[op] + DELAY <= now]_timelockVars
  <2>1. ASSUME NEW op \in Ops, Execute(op), admin' # admin
        PROVE  /\ Rotates[op] = admin'
               /\ announcedAt[op] # 0
               /\ announcedAt[op] + DELAY <= now
    BY <1>1, <2>1, TimelockAssumption
       DEF TimelockInv, TimelockTypeOK, PendingInv, Execute, Ready, AdminAfter
  <2>2. QED
    BY <1>1, <2>1 DEF TimelockNext, TimelockTick, Queue, Cancel, timelockVars
<1>2. QED
  BY <1>1, TimelockInitInv, TimelockNextInv, PTL DEF TimelockSpec, AdminRotatesInPublic

-----------------------------------------------------------------------------
(* Locker.  The inductive invariant is about what a call in flight still   *)
(* holds to be true of the books when its coin returns: Give and Extend    *)
(* may have run inside it, but not on a lock that is taken.                *)

\* TypeOK, but for the sign of totalLocked, which follows from Covered.
Typed ==
    /\ now \in 0..MaxTime
    /\ locks \in Seq(Lock)
    /\ listed \subseteq People \X (1..Len(locks))
    /\ totalLocked \in [Coins -> Int]
    /\ bal \in [Coins -> Nat]
    /\ calls \in Seq(Pull \cup Push)

\* nonReentrant: a lock or a claim is never called from inside another.
OneCall == Len(calls) <= 1

\* A payment under way is of a lock already taken, matured and the payee's.
PaymentIsDue ==
    \A i \in DOMAIN calls : calls[i].kind = "push" =>
        /\ calls[i].id \in DOMAIN locks
        /\ calls[i].token = locks[calls[i].id].token
        /\ calls[i].who = locks[calls[i].id].owner
        /\ locks[calls[i].id].taken
        /\ now >= locks[calls[i].id].until

Inv == Typed /\ OneCall /\ PaymentIsDue /\ OwnerCanFindIt

LEMMA ReplaceLock ==
  ASSUME NEW s \in Seq(Lock), NEW id \in DOMAIN s, NEW l \in Lock
  PROVE  /\ [s EXCEPT ![id] = l] \in Seq(Lock)
         /\ DOMAIN [s EXCEPT ![id] = l] = DOMAIN s
         /\ [s EXCEPT ![id] = l][id] = l
         /\ \A j \in DOMAIN s : j # id => [s EXCEPT ![id] = l][j] = s[j]
  OBVIOUS

LEMMA InitInv == Init => Inv
  BY LockerAssumption, ClockAssumption DEF Init, Deployed, Inv, Typed, OneCall, PaymentIsDue, OwnerCanFindIt

LEMMA BeginLockInv ==
  ASSUME Inv, NEW c \in People, NEW token \in Coins, NEW amount \in Amounts,
         NEW until \in 0..MaxTime, BeginLock(c, token, amount, until)
  PROVE  Inv'
<1> DEFINE call == [kind |-> "pull", token |-> token, who |-> c, asked |-> amount,
                    until |-> until, before |-> bal[token]]
<1>1. call \in Pull
  BY LockerAssumption, ClockAssumption DEF Inv, Typed, Pull
<1>2. calls' = <<call>>
  BY DEF Inv, Typed, BeginLock, Entered
<1>3. calls' \in Seq(Pull \cup Push) /\ Len(calls') <= 1
  BY <1>1, <1>2
<1>4. \A i \in DOMAIN calls' : calls'[i].kind = "pull"
  BY <1>2
<1>5. QED
  BY <1>3, <1>4 DEF Inv, Typed, OneCall, PaymentIsDue, OwnerCanFindIt, BeginLock

\* The stack of one call is empty once that call returns.
LEMMA Returns ==
  ASSUME Inv, calls # <<>>
  PROVE  /\ Return = <<>>
         /\ Len(calls) = 1
         /\ Current = calls[1]
         /\ Current \in Pull \cup Push
<1>1. calls \in Seq(Pull \cup Push)
  BY DEF Inv, Typed
<1>2. Len(calls) = 1
  BY <1>1 DEF Inv, OneCall
<1> DEFINE rest == SubSeq(calls, 1, 0)
<1>3. rest = <<>>
  <2>1. rest \in Seq(Pull \cup Push) /\ Len(rest) = 0
    BY <1>1, <1>2
  <2>2. QED
    BY <2>1
<1>4. calls[1] \in Pull \cup Push
  BY <1>1, <1>2
<1>5. QED
  BY <1>2, <1>3, <1>4 DEF Return, Current

LEMMA FinishLockInv ==
  ASSUME Inv, FinishLock
  PROVE  Inv'
<1>1. Return = <<>> /\ Current \in Pull \cup Push
  BY Returns DEF FinishLock
<1>2. Current \in Pull
  BY <1>1 DEF FinishLock, Pull, Push
<1> DEFINE got == Arrived(Current)
           new == [token |-> Current.token, until |-> Current.until, taken |-> FALSE,
                   owner |-> Current.who, amount |-> got]
<1>3. got \in Nat
  BY <1>2 DEF Inv, Typed, FinishLock, Arrived, Pull
<1>4. new \in Lock
  BY <1>2, <1>3 DEF Pull, Lock
<1>5. /\ locks' = Append(locks, new)
      /\ listed' = listed \cup {<<Current.who, Len(locks) + 1>>}
      /\ totalLocked' = [totalLocked EXCEPT ![Current.token] = @ + got]
      /\ calls' = <<>>
      /\ UNCHANGED <<now, bal>>
  BY <1>1 DEF FinishLock
<1>6. Typed'
  BY <1>2, <1>3, <1>4, <1>5 DEF Inv, Typed, Pull
<1>7. OwnerCanFindIt'
  <2>1. locks \in Seq(Lock) /\ OwnerCanFindIt
    BY DEF Inv, Typed
  <2>2. ASSUME NEW id \in DOMAIN locks'
        PROVE  <<locks'[id].owner, id>> \in listed'
    <3>1. CASE id \in DOMAIN locks
      BY <2>1, <3>1, <1>4, <1>5 DEF OwnerCanFindIt
    <3>2. CASE id = Len(locks) + 1
      BY <2>1, <3>2, <1>4, <1>5
    <3>3. DOMAIN locks' = 1..(Len(locks) + 1) /\ DOMAIN locks = 1..Len(locks)
      BY <2>1, <1>4, <1>5
    <3>4. Len(locks) \in Nat
      BY <2>1
    <3>5. QED
      BY <2>2, <3>1, <3>2, <3>3, <3>4
  <2>3. QED
    BY <2>2 DEF OwnerCanFindIt
<1>8. OneCall' /\ PaymentIsDue'
  BY <1>5 DEF OneCall, PaymentIsDue
<1>9. QED
  BY <1>6, <1>7, <1>8 DEF Inv

LEMMA BeginClaimInv ==
  ASSUME Inv, NEW c \in People, NEW id \in DOMAIN locks, BeginClaim(c, id)
  PROVE  Inv'
<1> DEFINE call == [kind |-> "push", token |-> locks[id].token, who |-> c, id |-> id]
<1>1. locks[id] \in Lock /\ id \in Nat
  BY DEF Inv, Typed
<1>2. call \in Push
  BY <1>1 DEF Push, Lock
<1>3. calls' = <<call>>
  BY DEF Inv, Typed, BeginClaim, Entered
<1>4. locks' = [locks EXCEPT ![id].taken = TRUE]
  BY DEF BeginClaim
<1> DEFINE new == [locks[id] EXCEPT !.taken = TRUE]
<1>4a. /\ new \in Lock /\ new.taken
      /\ new.token = locks[id].token /\ new.until = locks[id].until
      /\ new.owner = locks[id].owner
  BY <1>1 DEF Lock
<1>4b. locks \in Seq(Lock) /\ locks' = [locks EXCEPT ![id] = new]
  BY <1>4 DEF Inv, Typed
<1> HIDE DEF new
<1>5. /\ locks' \in Seq(Lock)
      /\ DOMAIN locks' = DOMAIN locks
      /\ locks'[id] = new
      /\ \A j \in DOMAIN locks : j # id => locks'[j] = locks[j]
  BY <1>4a, <1>4b, ReplaceLock
<1>5a. totalLocked' \in [Coins -> Int]
  BY <1>1 DEF Inv, Typed, BeginClaim, Released, Lock
<1>5b. calls' \in Seq(Pull \cup Push)
  BY <1>2, <1>3
<1>6. Typed'
  BY <1>5, <1>5a, <1>5b DEF Inv, Typed, BeginClaim
<1>7. OneCall'
  BY <1>3 DEF OneCall
<1>8. PaymentIsDue'
  <2>1. c = locks[id].owner /\ now >= locks[id].until /\ now' = now
    BY DEF BeginClaim, Matured
  <2>2. DOMAIN calls' = {1} /\ calls'[1] = call
    BY <1>3
  <2>3. /\ id \in DOMAIN locks'
        /\ locks[id].token = locks'[id].token
        /\ c = locks'[id].owner
        /\ locks'[id].taken
        /\ now' >= locks'[id].until
    BY <1>5, <1>4a, <2>1
  <2>4. QED
    BY <2>2, <2>3 DEF PaymentIsDue
<1>9. OwnerCanFindIt'
  BY <1>5, <1>4a DEF Inv, OwnerCanFindIt, BeginClaim
<1>10. QED
  BY <1>6, <1>7, <1>8, <1>9 DEF Inv

LEMMA FinishClaimInv ==
  ASSUME Inv, FinishClaim
  PROVE  Inv'
<1>1. Return = <<>> /\ Current = calls[1] /\ Len(calls) = 1
  BY Returns DEF FinishClaim
<1>2. Current.id \in DOMAIN locks
  BY <1>1 DEF Inv, Typed, PaymentIsDue, FinishClaim
<1>3. locks[Current.id] \in Lock
  BY <1>2 DEF Inv, Typed
<1> DEFINE l == locks[Current.id]
<1>4. bal' \in [Coins -> Nat]
  <2>1. bal \in [Coins -> Nat] /\ l.amount \in Nat /\ l.token \in Coins
    BY <1>3 DEF Inv, Typed, Lock
  <2>2. bal[l.token] >= l.amount /\ bal' = [bal EXCEPT ![l.token] = @ - l.amount]
    BY DEF FinishClaim
  <2> HIDE DEF l
  <2>3. bal[l.token] - l.amount \in Nat
    BY <2>1, <2>2
  <2>4. QED
    BY <2>1, <2>2, <2>3
<1>5. calls' = <<>> /\ UNCHANGED <<now, locks, listed, totalLocked>>
  BY <1>1 DEF FinishClaim
<1>6. QED
  BY <1>4, <1>5 DEF Inv, Typed, OneCall, PaymentIsDue, OwnerCanFindIt

LEMMA GiveInv ==
  ASSUME Inv, NEW c \in People, NEW id \in DOMAIN locks, NEW to \in People, Give(c, id, to)
  PROVE  Inv'
<1>1. locks[id] \in Lock /\ id \in Nat
  BY DEF Inv, Typed
<1> DEFINE new == [locks[id] EXCEPT !.owner = to]
<1>1a. new \in Lock /\ new.owner = to
  BY <1>1 DEF Lock
<1>1b. locks \in Seq(Lock) /\ locks' = [locks EXCEPT ![id] = new]
  BY DEF Inv, Typed, Give
<1> HIDE DEF new
<1>2. /\ locks' \in Seq(Lock)
      /\ DOMAIN locks' = DOMAIN locks
      /\ locks'[id].owner = to
      /\ \A j \in DOMAIN locks : j # id => locks'[j] = locks[j]
  BY <1>1a, <1>1b, ReplaceLock
<1>3. Typed' /\ OneCall'
  BY <1>1, <1>2 DEF Inv, Typed, OneCall, Give, GivenIndex
<1>4. PaymentIsDue'
  BY <1>2 DEF Inv, PaymentIsDue, Give
<1>5. OwnerCanFindIt'
  BY <1>2 DEF Inv, OwnerCanFindIt, Give, GivenIndex
<1>6. QED
  BY <1>3, <1>4, <1>5 DEF Inv

LEMMA ExtendInv ==
  ASSUME Inv, NEW c \in People, NEW id \in DOMAIN locks, NEW until \in 0..MaxTime,
         Extend(c, id, until)
  PROVE  Inv'
<1>1. locks[id] \in Lock /\ until \in Nat
  BY LockerAssumption, ClockAssumption DEF Inv, Typed
<1> DEFINE new == [locks[id] EXCEPT !.until = until]
<1>1a. new \in Lock /\ new.owner = locks[id].owner
  BY <1>1 DEF Lock
<1>1b. locks \in Seq(Lock) /\ locks' = [locks EXCEPT ![id] = new]
  BY DEF Inv, Typed, Extend
<1> HIDE DEF new
<1>2. /\ locks' \in Seq(Lock)
      /\ DOMAIN locks' = DOMAIN locks
      /\ locks'[id].owner = locks[id].owner
      /\ \A j \in DOMAIN locks : j # id => locks'[j] = locks[j]
  BY <1>1a, <1>1b, ReplaceLock
<1>3. Typed' /\ OneCall'
  BY <1>2 DEF Inv, Typed, OneCall, Extend
<1>4. PaymentIsDue'
  BY <1>2 DEF Inv, PaymentIsDue, Extend
<1>5. OwnerCanFindIt'
  BY <1>2 DEF Inv, OwnerCanFindIt, Extend
<1>6. QED
  BY <1>3, <1>4, <1>5 DEF Inv

LEMMA NextInv == Inv /\ [Next]_vars => Inv'
<1> SUFFICES ASSUME Inv, [Next]_vars PROVE Inv'
  OBVIOUS
<1>1. CASE Tick
  BY <1>1, LockerAssumption, ClockAssumption DEF Inv, Typed, OneCall, PaymentIsDue, OwnerCanFindIt, Tick, Passes
<1>2. ASSUME NEW token \in Coins, NEW amount \in Amounts, Deliver(token, amount)
      PROVE  Inv'
  <2>1. bal' \in [Coins -> Nat]
    BY <1>2, LockerAssumption, ClockAssumption DEF Inv, Typed, Deliver
  <2>2. QED
    BY <1>2, <2>1 DEF Inv, Typed, OneCall, PaymentIsDue, OwnerCanFindIt, Deliver
<1>3. CASE UNCHANGED vars
  BY <1>3 DEF Inv, Typed, OneCall, PaymentIsDue, OwnerCanFindIt, vars
<1>4. QED
  BY <1>1, <1>2, <1>3, BeginLockInv, FinishLockInv, BeginClaimInv, FinishClaimInv,
     GiveInv, ExtendInv DEF Next

-----------------------------------------------------------------------------
(* What the locks add up to.                                               *)

\* The entries Held and Leaving sum, for any sequence of locks and calls.
Kept(ls, token) == [id \in DOMAIN ls |->
    IF ls[id].token = token /\ ~ls[id].taken THEN ls[id].amount ELSE 0]
Paying(cs, ls, token) == [i \in DOMAIN cs |->
    IF cs[i].kind = "push" /\ cs[i].token = token THEN ls[cs[i].id].amount ELSE 0]

\* The locks made so far, as a function on their finitely many ids.
LEMMA LocksFinite ==
  ASSUME NEW ls \in Seq(Lock)
  PROVE  IsFiniteSet(DOMAIN ls) /\ ls \in [DOMAIN ls -> Lock]
<1>1. \A n \in Nat : IsFiniteSet(1..n)
  BY FS_Interval
<1>2. DOMAIN ls = 1..Len(ls) /\ Len(ls) \in Nat
  OBVIOUS
<1>3. ls \in [DOMAIN ls -> Lock]
  OBVIOUS
<1>4. QED
  BY <1>1, <1>2, <1>3

LEMMA LockAppended ==
  ASSUME NEW ls \in Seq(Lock), NEW l \in Lock
  PROVE  /\ Append(ls, l) \in [(DOMAIN ls) \cup {Len(ls) + 1} -> Lock]
         /\ Len(ls) + 1 \notin DOMAIN ls
         /\ Append(ls, l)[Len(ls) + 1] = l
         /\ \A id \in DOMAIN ls : Append(ls, l)[id] = ls[id]
<1> DEFINE ms == Append(ls, l)
<1>1. /\ DOMAIN ms = (DOMAIN ls) \cup {Len(ls) + 1}
      /\ Len(ls) + 1 \notin DOMAIN ls
      /\ ms[Len(ls) + 1] = l
      /\ \A id \in DOMAIN ls : ms[id] = ls[id]
  OBVIOUS
<1>2. ms \in Seq(Lock)
  OBVIOUS
<1>3. ms \in [DOMAIN ms -> Lock]
  BY <1>2, LocksFinite
<1>4. QED
  BY <1>1, <1>3

LEMMA KeptType ==
  ASSUME NEW ids, IsFiniteSet(ids), NEW ls \in [ids -> Lock], NEW token
  PROVE  /\ Kept(ls, token) \in [ids -> Nat]
         /\ Total(Kept(ls, token)) \in Nat
<1>1. ASSUME NEW id \in ids
      PROVE  ls[id].amount \in Nat
  BY DEF Lock
<1>2. Kept(ls, token) \in [ids -> Nat]
  BY <1>1 DEF Kept
<1>3. QED
  BY <1>2, TotalType

LEMMA HeldType ==
  ASSUME Inv, NEW token
  PROVE  Held(token) \in Nat
<1>1. IsFiniteSet(DOMAIN locks) /\ locks \in [DOMAIN locks -> Lock]
  BY LocksFinite DEF Inv, Typed
<1>2. Total(Kept(locks, token)) \in Nat
  BY <1>1, KeptType
<1>3. QED
  BY <1>2 DEF Held, Kept

\* Only coins, amounts and what is taken count: owners and dates do not.
LEMMA KeptSame ==
  ASSUME NEW ls, NEW ms, NEW token, DOMAIN ms = DOMAIN ls,
         \A id \in DOMAIN ls : /\ ms[id].token = ls[id].token
                               /\ ms[id].taken = ls[id].taken
                               /\ ms[id].amount = ls[id].amount
  PROVE  Kept(ms, token) = Kept(ls, token)
  BY DEF Kept

LEMMA KeptGrow ==
  ASSUME NEW ids, IsFiniteSet(ids), NEW ls \in [ids -> Lock], NEW x, x \notin ids,
         NEW ms \in [ids \cup {x} -> Lock], \A id \in ids : ms[id] = ls[id],
         ~ms[x].taken, NEW token
  PROVE  Total(Kept(ms, token)) =
            Total(Kept(ls, token)) + (IF ms[x].token = token THEN ms[x].amount ELSE 0)
<1> DEFINE f == Kept(ls, token)
           g == Kept(ms, token)
<1>1. IsFiniteSet(ids \cup {x})
  BY FS_AddElement
<1>2. f \in [ids -> Nat] /\ g \in [ids \cup {x} -> Nat]
  BY <1>1, KeptType
<1>3. \A id \in ids : g[id] = f[id]
  BY DEF Kept
<1>4. g[x] = IF ms[x].token = token THEN ms[x].amount ELSE 0
  BY DEF Kept
<1> HIDE DEF f, g
<1>5. Total(g) = Total(f) + g[x]
  BY <1>2, <1>3, TotalGrow
<1>6. QED
  BY <1>4, <1>5 DEF f, g

LEMMA KeptTake ==
  ASSUME NEW ids, IsFiniteSet(ids), NEW ls \in [ids -> Lock], NEW id \in ids,
         ~ls[id].taken, NEW token, NEW ms \in [ids -> Lock], ms[id].taken,
         \A j \in ids : j # id => ms[j] = ls[j]
  PROVE  Total(Kept(ms, token)) =
            Total(Kept(ls, token)) - (IF ls[id].token = token THEN ls[id].amount ELSE 0)
<1> DEFINE f == Kept(ls, token)
           g == Kept(ms, token)
<1>1. f \in [ids -> Nat] /\ g \in [ids -> Nat] /\ Total(f) \in Nat
  BY KeptType
<1>2. \A j \in ids : j # id => g[j] = f[j]
  BY DEF Kept
<1>3. /\ g[id] = 0
      /\ f[id] = IF ls[id].token = token THEN ls[id].amount ELSE 0
  BY DEF Kept
<1> HIDE DEF f, g
<1>4. Total(g) = Total(f) - f[id] + g[id]
  BY <1>1, <1>2, TotalChange
<1>5. f[id] \in Nat
  BY <1>1
<1>6. Total(g) = Total(f) - f[id]
  BY <1>1, <1>3, <1>4, <1>5
<1>7. QED
  BY <1>3, <1>6 DEF f, g

LEMMA NobodyPaid ==
  ASSUME NEW ls, NEW token
  PROVE  Total(Paying(<<>>, ls, token)) = 0
<1> DEFINE f == Paying(<<>>, ls, token)
<1>1. f \in [{} -> Nat]
  BY DEF Paying
<1> HIDE DEF f
<1>2. Total(f) = 0
  BY <1>1, TotalZero
<1>3. QED
  BY <1>2 DEF f

LEMMA OnePaid ==
  ASSUME NEW ls, NEW token, NEW call,
         call.kind = "push" => ls[call.id].amount \in Nat
  PROVE  Total(Paying(<<call>>, ls, token)) =
            IF call.kind = "push" /\ call.token = token THEN ls[call.id].amount ELSE 0
<1> DEFINE f == Paying(<<call>>, ls, token)
<1>1. /\ f \in [{1} -> Nat]
      /\ f[1] = IF call.kind = "push" /\ call.token = token THEN ls[call.id].amount ELSE 0
  BY DEF Paying
<1> HIDE DEF f
<1>2. Total(f) = f[1]
  BY <1>1, TotalOne
<1>3. QED
  BY <1>1, <1>2 DEF f

-----------------------------------------------------------------------------
(* The balance covers the locks.                                           *)

\* What arrives is measured from a balance that already covered the locks.
MeasuredAbove ==
    \A i \in DOMAIN calls : calls[i].kind = "pull" =>
        calls[i].before >= Held(calls[i].token)

CoverInv == Covered /\ MeasuredAbove

LEMMA Sums == \A token : /\ Held(token) = Total(Kept(locks, token))
                         /\ Leaving(token) = Total(Paying(calls, locks, token))
  BY DEF Held, Kept, Leaving, Paying

LEMMA SumsNext == \A token : /\ Held(token)' = Total(Kept(locks', token))
                             /\ Leaving(token)' = Total(Paying(calls', locks', token))
  BY DEF Held, Kept, Leaving, Paying

LEMMA InitCover == Init => CoverInv
<1> SUFFICES ASSUME Init PROVE CoverInv
  OBVIOUS
<1>1. ASSUME NEW token \in Coins
      PROVE  Held(token) = 0 /\ Leaving(token) = 0
  <2>1. Kept(<<>>, token) \in [{} -> Nat]
    BY DEF Kept
  <2>2. Total(Kept(<<>>, token)) = 0
    BY <2>1, TotalZero
  <2>3. QED
    BY <2>2, NobodyPaid, Sums DEF Init, Deployed
<1>2. QED
  BY <1>1 DEF Init, Deployed, CoverInv, Covered, MeasuredAbove

LEMMA BeginLockCover ==
  ASSUME Inv, CoverInv, NEW c \in People, NEW token \in Coins, NEW amount \in Amounts,
         NEW until \in 0..MaxTime, BeginLock(c, token, amount, until)
  PROVE  CoverInv'
<1> DEFINE call == [kind |-> "pull", token |-> token, who |-> c, asked |-> amount,
                    until |-> until, before |-> bal[token]]
<1>1. calls = <<>> /\ calls' = <<call>> /\ UNCHANGED <<locks, totalLocked, bal>>
  BY DEF Inv, Typed, BeginLock, Entered
<1>2. ASSUME NEW coin \in Coins
      PROVE  /\ Held(coin)' = Held(coin) /\ Leaving(coin)' = 0 /\ Leaving(coin) = 0
  <2>1. call.kind # "push"
    OBVIOUS
  <2> HIDE DEF call
  <2>2. QED
    BY <1>1, <2>1, OnePaid, NobodyPaid, Sums, SumsNext
<1>3. bal[token] >= Held(token)
  <2>1. bal[token] >= Held(token) + Leaving(token) /\ bal[token] \in Nat
    BY DEF CoverInv, Covered, Inv, Typed
  <2>2. QED
    BY <1>2, <2>1, HeldType
<1>4. DOMAIN calls' = {1} /\ calls'[1].before = bal[token] /\ calls'[1].token = token
  BY <1>1
<1>5. MeasuredAbove'
  BY <1>2, <1>3, <1>4 DEF MeasuredAbove
<1>6. Covered'
  BY <1>1, <1>2 DEF CoverInv, Covered
<1>7. QED
  BY <1>5, <1>6 DEF CoverInv

LEMMA FinishLockCover ==
  ASSUME Inv, CoverInv, FinishLock
  PROVE  CoverInv'
<1>1. Return = <<>> /\ Len(calls) = 1 /\ Current = calls[1] /\ Current \in Pull \cup Push
  BY Returns DEF FinishLock
<1>2. Current \in Pull /\ Current.kind = "pull"
  BY <1>1 DEF FinishLock, Pull, Push
<1> DEFINE coin == Current.token
           got == bal[coin] - Current.before
           new == [token |-> coin, until |-> Current.until, taken |-> FALSE,
                   owner |-> Current.who, amount |-> got]
<1>3. coin \in Coins /\ Current.before \in Nat /\ bal[coin] \in Nat
  BY <1>2 DEF Inv, Typed, Pull
<1>4. got \in Nat
  BY <1>3 DEF FinishLock, Arrived
<1>5. new \in Lock /\ ~new.taken /\ new.token = coin /\ new.amount = got
  BY <1>2, <1>4 DEF Pull, Lock
<1>6. /\ locks' = Append(locks, new)
      /\ totalLocked' = [totalLocked EXCEPT ![coin] = @ + got]
      /\ calls' = <<>>
      /\ UNCHANGED bal
  BY <1>1 DEF FinishLock, Arrived
<1>7. Held(coin) <= Current.before
  <2>1. 1 \in DOMAIN calls
    BY <1>1 DEF Inv, Typed
  <2>2. QED
    BY <1>1, <1>2, <2>1 DEF CoverInv, MeasuredAbove
<1> HIDE DEF new
<1>8. ASSUME NEW token \in Coins
      PROVE  /\ Held(token)' = Held(token) + (IF token = coin THEN got ELSE 0)
             /\ Leaving(token)' = 0
             /\ Held(token) \in Nat /\ Leaving(token) \in Nat
  <2>1. Total(Kept(locks', token)) =
           Total(Kept(locks, token)) + (IF token = coin THEN got ELSE 0)
    <3> DEFINE ids == DOMAIN locks
               x == Len(locks) + 1
    <3>1. IsFiniteSet(ids) /\ locks \in [ids -> Lock]
      BY LocksFinite DEF Inv, Typed
    <3>2. /\ locks' \in [ids \cup {x} -> Lock] /\ x \notin ids
          /\ locks'[x] = new /\ \A id \in ids : locks'[id] = locks[id]
      BY <1>5, <1>6, LockAppended DEF Inv, Typed
    <3> HIDE DEF ids, x
    <3>3. Total(Kept(locks', token)) = Total(Kept(locks, token))
             + (IF locks'[x].token = token THEN locks'[x].amount ELSE 0)
      BY <1>5, <3>1, <3>2, KeptGrow
    <3>4. QED
      BY <1>5, <3>2, <3>3
  <2>2. Held(token) \in Nat
    BY HeldType
  <2>3. Leaving(token) \in Nat
    <3>1. calls = <<Current>>
      BY <1>1 DEF Inv, Typed
    <3>2. Total(Paying(<<Current>>, locks, token)) = 0
      BY <1>2, OnePaid
    <3>3. QED
      BY <3>1, <3>2, Sums
  <2>4. QED
    BY <1>6, <2>1, <2>2, <2>3, NobodyPaid, Sums, SumsNext
<1> HIDE DEF coin
<1>9. Covered'
  <2> SUFFICES ASSUME NEW token \in Coins
               PROVE  /\ totalLocked'[token] = Held(token)'
                      /\ bal'[token] >= Held(token)' + Leaving(token)'
    BY DEF Covered
  <2>1. /\ totalLocked[token] = Held(token) /\ bal[token] >= Held(token) + Leaving(token)
        /\ totalLocked \in [Coins -> Int] /\ bal[token] \in Nat
    BY DEF CoverInv, Covered, Inv, Typed
  <2>2. CASE token = coin
    BY <1>3, <1>4, <1>6, <1>7, <1>8, <2>1, <2>2 DEF coin
  <2>3. CASE token # coin
    BY <1>3, <1>6, <1>8, <2>1, <2>3
  <2>4. QED
    BY <2>2, <2>3
<1>10. MeasuredAbove'
  BY <1>6 DEF MeasuredAbove
<1>11. QED
  BY <1>9, <1>10 DEF CoverInv

LEMMA BeginClaimCover ==
  ASSUME Inv, Inv', CoverInv, NEW c \in People, NEW id \in DOMAIN locks, BeginClaim(c, id)
  PROVE  CoverInv'
<1> DEFINE coin == locks[id].token
           amount == locks[id].amount
           call == [kind |-> "push", token |-> coin, who |-> c, id |-> id]
           new == [locks[id] EXCEPT !.taken = TRUE]
<1>1. locks[id] \in Lock /\ coin \in Coins /\ amount \in Nat
  <2>1. locks[id] \in Lock
    BY DEF Inv, Typed
  <2>2. QED
    BY <2>1 DEF Lock
<1>2. /\ calls = <<>> /\ calls' = <<call>> /\ ~locks[id].taken
      /\ totalLocked' = [totalLocked EXCEPT ![coin] = @ - amount]
      /\ UNCHANGED bal
  BY DEF Inv, Typed, BeginClaim, Entered, Claimable, Released
<1>3. new \in Lock /\ new.taken /\ new.amount = amount
  BY <1>1 DEF Lock
<1>4. locks \in Seq(Lock) /\ locks' = [locks EXCEPT ![id] = new]
  BY DEF Inv, Typed, BeginClaim
<1>5. call.kind = "push" /\ call.token = coin /\ call.id = id
  OBVIOUS
<1> HIDE DEF new, call
<1>6. /\ locks' \in Seq(Lock) /\ DOMAIN locks' = DOMAIN locks /\ locks'[id] = new
      /\ \A j \in DOMAIN locks : j # id => locks'[j] = locks[j]
  BY <1>3, <1>4, ReplaceLock
<1>7. ASSUME NEW token \in Coins
      PROVE  /\ Held(token)' = Held(token) - (IF coin = token THEN amount ELSE 0)
             /\ Leaving(token)' = (IF coin = token THEN amount ELSE 0)
             /\ Held(token) \in Nat /\ Leaving(token) = 0
  <2>1. Total(Kept(locks', token)) =
           Total(Kept(locks, token)) - (IF coin = token THEN amount ELSE 0)
    <3> DEFINE ids == DOMAIN locks
    <3>1. IsFiniteSet(ids) /\ locks \in [ids -> Lock] /\ locks' \in [ids -> Lock]
      BY <1>4, <1>6, LocksFinite
    <3>2. id \in ids /\ locks'[id].taken /\ \A j \in ids : j # id => locks'[j] = locks[j]
      BY <1>3, <1>6
    <3> HIDE DEF ids
    <3>3. QED
      BY <1>2, <3>1, <3>2, KeptTake
  <2>2. Held(token) \in Nat
    BY HeldType
  <2>3. Total(Paying(<<call>>, locks', token)) = (IF coin = token THEN amount ELSE 0)
    BY <1>1, <1>3, <1>5, <1>6, OnePaid
  <2>4. Total(Paying(<<>>, locks, token)) = 0
    BY NobodyPaid
  <2>5. QED
    BY <1>2, <2>1, <2>2, <2>3, <2>4, Sums, SumsNext
<1> HIDE DEF coin, amount
<1>8. Covered'
  <2> SUFFICES ASSUME NEW token \in Coins
               PROVE  /\ totalLocked'[token] = Held(token)'
                      /\ bal'[token] >= Held(token)' + Leaving(token)'
    BY DEF Covered
  <2>1. /\ totalLocked[token] = Held(token) /\ bal[token] >= Held(token) + Leaving(token)
        /\ totalLocked \in [Coins -> Int] /\ bal[token] \in Nat
    BY DEF CoverInv, Covered, Inv, Typed
  <2>2. QED
    BY <1>1, <1>2, <1>7, <2>1 DEF coin, amount
<1>9. MeasuredAbove'
  <2>1. \A i \in DOMAIN calls' : calls'[i].kind = "push"
    BY <1>2, <1>5
  <2>2. QED
    BY <2>1 DEF MeasuredAbove
<1>10. QED
  BY <1>8, <1>9 DEF CoverInv

LEMMA FinishClaimCover ==
  ASSUME Inv, CoverInv, FinishClaim
  PROVE  CoverInv'
<1>1. Return = <<>> /\ Len(calls) = 1 /\ Current = calls[1]
  BY Returns DEF FinishClaim
<1>2. calls = <<Current>> /\ Current.kind = "push"
  BY <1>1 DEF Inv, Typed, FinishClaim
<1>3. Current.id \in DOMAIN locks /\ Current.token = locks[Current.id].token
  BY <1>1, <1>2 DEF Inv, Typed, PaymentIsDue
<1> DEFINE coin == locks[Current.id].token
           amount == locks[Current.id].amount
<1>4. coin \in Coins /\ amount \in Nat
  <2>1. locks[Current.id] \in Lock
    BY <1>3 DEF Inv, Typed
  <2>2. QED
    BY <2>1 DEF Lock
<1>5. /\ bal' = [bal EXCEPT ![coin] = @ - amount]
      /\ calls' = <<>> /\ UNCHANGED <<locks, totalLocked>>
  BY <1>1 DEF FinishClaim
<1>6. ASSUME NEW token \in Coins
      PROVE  /\ Held(token)' = Held(token) /\ Held(token) \in Nat
             /\ Leaving(token) = (IF coin = token THEN amount ELSE 0)
             /\ Leaving(token)' = 0
  <2>1. Total(Paying(<<Current>>, locks, token)) = (IF coin = token THEN amount ELSE 0)
    BY <1>2, <1>3, <1>4, OnePaid
  <2>2. Held(token) \in Nat
    BY HeldType
  <2>3. Total(Paying(<<>>, locks, token)) = 0
    BY NobodyPaid
  <2>4. QED
    BY <1>2, <1>5, <2>1, <2>2, <2>3, Sums, SumsNext
<1> HIDE DEF coin, amount
<1>7. Covered'
  <2> SUFFICES ASSUME NEW token \in Coins
               PROVE  /\ totalLocked'[token] = Held(token)'
                      /\ bal'[token] >= Held(token)' + Leaving(token)'
    BY DEF Covered
  <2>1. /\ totalLocked[token] = Held(token) /\ bal[token] >= Held(token) + Leaving(token)
        /\ bal \in [Coins -> Nat]
    BY DEF CoverInv, Covered, Inv, Typed
  <2>2. QED
    BY <1>4, <1>5, <1>6, <2>1
<1>8. QED
  BY <1>5, <1>7 DEF CoverInv, MeasuredAbove

\* Giving a lock away or lengthening it moves no coin, even inside a call.
LEMMA PromiseCover ==
  ASSUME Inv, CoverInv, UNCHANGED <<totalLocked, bal, calls>>,
         DOMAIN locks' = DOMAIN locks,
         \A id \in DOMAIN locks : /\ locks'[id].token = locks[id].token
                                  /\ locks'[id].taken = locks[id].taken
                                  /\ locks'[id].amount = locks[id].amount
  PROVE  CoverInv'
<1>1. ASSUME NEW token
      PROVE  Held(token)' = Held(token) /\ Leaving(token)' = Leaving(token)
  <2>1. Kept(locks', token) = Kept(locks, token)
    BY KeptSame
  <2>2. Paying(calls', locks', token) = Paying(calls, locks, token)
    BY DEF Inv, PaymentIsDue, Paying
  <2>3. QED
    BY <2>1, <2>2, Sums, SumsNext
<1>2. Covered'
  BY <1>1 DEF CoverInv, Covered
<1>3. MeasuredAbove'
  BY <1>1 DEF CoverInv, MeasuredAbove
<1>4. QED
  BY <1>2, <1>3 DEF CoverInv

\* A step that is no lock's and no claim's changes no lock's coin, amount or
\* whether it is taken.
LEMMA LockRewritten ==
  ASSUME locks \in Seq(Lock), NEW id \in DOMAIN locks, NEW l \in Lock,
         l.token = locks[id].token, l.taken = locks[id].taken,
         l.amount = locks[id].amount, locks' = [locks EXCEPT ![id] = l]
  PROVE  /\ DOMAIN locks' = DOMAIN locks
         /\ \A j \in DOMAIN locks : /\ locks'[j].token = locks[j].token
                                    /\ locks'[j].taken = locks[j].taken
                                    /\ locks'[j].amount = locks[j].amount
  BY ReplaceLock

LEMMA GiveCover ==
  ASSUME Inv, CoverInv, NEW c \in People, NEW id \in DOMAIN locks, NEW to \in People,
         Give(c, id, to)
  PROVE  CoverInv'
<1> DEFINE l == [locks[id] EXCEPT !.owner = to]
<1>1. locks \in Seq(Lock) /\ locks[id] \in Lock
  BY DEF Inv, Typed
<1>2. /\ l \in Lock /\ l.token = locks[id].token /\ l.taken = locks[id].taken
      /\ l.amount = locks[id].amount
  BY <1>1 DEF Lock
<1>3. locks' = [locks EXCEPT ![id] = l] /\ UNCHANGED <<totalLocked, bal, calls>>
  BY <1>1 DEF Give
<1> HIDE DEF l
<1>4. QED
  BY <1>1, <1>2, <1>3, LockRewritten, PromiseCover

LEMMA ExtendCover ==
  ASSUME Inv, CoverInv, NEW c \in People, NEW id \in DOMAIN locks,
         NEW until \in 0..MaxTime, Extend(c, id, until)
  PROVE  CoverInv'
<1> DEFINE l == [locks[id] EXCEPT !.until = until]
<1>1. locks \in Seq(Lock) /\ locks[id] \in Lock /\ until \in Nat
  BY LockerAssumption, ClockAssumption DEF Inv, Typed
<1>2. /\ l \in Lock /\ l.token = locks[id].token /\ l.taken = locks[id].taken
      /\ l.amount = locks[id].amount
  BY <1>1 DEF Lock
<1>3. locks' = [locks EXCEPT ![id] = l] /\ UNCHANGED <<totalLocked, bal, calls>>
  BY <1>1 DEF Extend
<1> HIDE DEF l
<1>4. QED
  BY <1>1, <1>2, <1>3, LockRewritten, PromiseCover

LEMMA LeavingType ==
  ASSUME Inv, NEW token
  PROVE  Leaving(token) \in Nat
<1>1. calls \in Seq(Pull \cup Push) /\ Len(calls) <= 1
  BY DEF Inv, Typed, OneCall
<1>2. CASE calls = <<>>
  BY <1>2, NobodyPaid, Sums
<1>3. CASE calls # <<>>
  <2>1. Len(calls) = 1
    BY Returns, <1>3
  <2>2. calls = <<calls[1]>> /\ 1 \in DOMAIN calls
    BY <1>1, <2>1
  <2>3. ASSUME calls[1].kind = "push"
        PROVE  locks[calls[1].id].amount \in Nat
    <3>1. locks[calls[1].id] \in Lock
      BY <2>2, <2>3 DEF Inv, Typed, PaymentIsDue
    <3>2. QED
      BY <3>1 DEF Lock
  <2>4. QED
    BY <2>2, <2>3, OnePaid, Sums
<1>4. QED
  BY <1>2, <1>3

\* Whatever else a coin delivers, and whenever, only adds.
LEMMA DeliverCover ==
  ASSUME Inv, CoverInv, NEW token \in Coins, NEW amount \in Amounts, Deliver(token, amount)
  PROVE  CoverInv'
<1>1. ASSUME NEW coin
      PROVE  Held(coin)' = Held(coin) /\ Leaving(coin)' = Leaving(coin)
  BY DEF Deliver, Held, Leaving
<1>2. ASSUME NEW coin \in Coins
      PROVE  /\ bal'[coin] >= bal[coin] /\ bal'[coin] \in Nat /\ bal[coin] \in Nat
  BY LockerAssumption, ClockAssumption DEF Deliver, Inv, Typed
<1>3. ASSUME NEW coin \in Coins
      PROVE  Held(coin) + Leaving(coin) \in Nat
  <2>1. Held(coin) \in Nat
    BY HeldType
  <2>2. Leaving(coin) \in Nat
    BY LeavingType
  <2>3. QED
    BY <2>1, <2>2
<1>4. Covered'
  BY <1>1, <1>2, <1>3 DEF CoverInv, Covered, Deliver
<1>5. MeasuredAbove'
  BY <1>1 DEF CoverInv, MeasuredAbove, Deliver
<1>6. QED
  BY <1>4, <1>5 DEF CoverInv

LEMMA NextCover == Inv /\ Inv' /\ CoverInv /\ [Next]_vars => CoverInv'
<1> SUFFICES ASSUME Inv, Inv', CoverInv, [Next]_vars PROVE CoverInv'
  OBVIOUS
<1>1. CASE Tick \/ UNCHANGED vars
  <2>1. UNCHANGED <<locks, totalLocked, bal, calls>>
    BY <1>1 DEF Tick, Passes, vars
  <2>2. QED
    BY <2>1, PromiseCover
<1>2. QED
  BY <1>1, BeginLockCover, FinishLockCover, BeginClaimCover, FinishClaimCover, GiveCover,
     ExtendCover, DeliverCover DEF Next

\* The locker can pay every lock it holds: what a coin says it holds covers
\* what the untaken locks add up to, and the payment under way, with coins
\* that deliver short or call back in the middle.
THEOREM LocksAreCovered == Spec => []Covered
<1>1. CoverInv => Covered
  BY DEF CoverInv
<1>2. QED
  BY InitInv, NextInv, InitCover, NextCover, <1>1, PTL DEF Spec

\* totalLocked is never negative, no lock is listed that was not made, and
\* every call in flight is well formed.
THEOREM TypeCorrect == Spec => []TypeOK
<1>1. Inv /\ CoverInv => TypeOK
  <2> SUFFICES ASSUME Inv, CoverInv PROVE TypeOK
    OBVIOUS
  <2>1. ASSUME NEW token \in Coins
        PROVE  totalLocked[token] \in Nat
    BY HeldType DEF CoverInv, Covered
  <2>2. totalLocked \in [Coins -> Nat]
    BY <2>1 DEF Inv, Typed
  <2>3. QED
    BY <2>2 DEF Inv, Typed, TypeOK
<1>2. QED
  BY InitInv, NextInv, InitCover, NextCover, <1>1, PTL DEF Spec

\* Whoever owns a lock finds it in _of under their address, however often it
\* has been given away.
THEOREM OwnersFindTheirLocks == Spec => []OwnerCanFindIt
<1>1. Inv => OwnerCanFindIt
  BY DEF Inv
<1>2. QED
  BY InitInv, NextInv, <1>1, PTL DEF Spec

\* Coins leave only to pay a matured lock, whole, to its owner, whatever a
\* coin calls back in between (claim writes its books before it pays).
THEOREM NothingLeaves == Spec => NothingLeavesEarly
<1>1. ASSUME Inv, [Next]_vars
      PROVE  [\A token \in Coins : bal'[token] < bal[token] =>
                 \E id \in DOMAIN locks :
                    /\ locks[id].taken
                    /\ locks[id].token = token
                    /\ now >= locks[id].until
                    /\ bal[token] - bal'[token] = locks[id].amount
                    /\ Current.who = locks[id].owner]_vars
  <2>1. SUFFICES ASSUME NEW token \in Coins, bal'[token] < bal[token]
                 PROVE  \E id \in DOMAIN locks :
                           /\ locks[id].taken
                           /\ locks[id].token = token
                           /\ now >= locks[id].until
                           /\ bal[token] - bal'[token] = locks[id].amount
                           /\ Current.who = locks[id].owner
    OBVIOUS
  <2>2. FinishClaim
    <3>1. bal' # bal
      BY <1>1, <2>1 DEF Inv, Typed
    <3>2. ASSUME NEW coin \in Coins, NEW amount \in Amounts, Deliver(coin, amount)
          PROVE  FALSE
      BY <1>1, <2>1, <3>2, LockerAssumption, ClockAssumption DEF Inv, Typed, Deliver
    <3>3. QED
      BY <1>1, <3>1, <3>2
         DEF Next, vars, Tick, FinishLock, BeginLock, BeginClaim, Give, Extend
  <2>3. Current = calls[1] /\ Len(calls) = 1
    BY <1>1, <2>2, Returns DEF FinishClaim
  <2> DEFINE id == Current.id
  <2>4. /\ id \in DOMAIN locks
        /\ Current.who = locks[id].owner
        /\ locks[id].taken
        /\ now >= locks[id].until
    BY <1>1, <2>2, <2>3 DEF Inv, Typed, PaymentIsDue, FinishClaim
  <2>5. locks[id] \in Lock
    BY <1>1, <2>4 DEF Inv, Typed
  <2>6. bal' = [bal EXCEPT ![locks[id].token] = @ - locks[id].amount]
    BY <2>2 DEF FinishClaim
  <2>7. locks[id].token = token /\ bal[token] - bal'[token] = locks[id].amount
    BY <1>1, <2>1, <2>5, <2>6 DEF Inv, Typed, Lock
  <2>8. QED
    BY <2>4, <2>7
<1>2. QED
  BY <1>1, InitInv, NextInv, PTL DEF Spec, NothingLeavesEarly

\* Dates never come nearer, amounts and coins never change, and what is taken
\* stays taken.
THEOREM PromisesHold == Spec => PromisesOnlyLengthen
<1>1. ASSUME Inv, [Next]_vars
      PROVE  [\A id \in DOMAIN locks :
                 /\ locks'[id].until >= locks[id].until
                 /\ locks'[id].amount = locks[id].amount
                 /\ locks'[id].token = locks[id].token
                 /\ locks[id].taken => locks'[id].taken]_vars
  <2>1. SUFFICES ASSUME NEW id \in DOMAIN locks
                 PROVE  /\ locks'[id].until >= locks[id].until
                        /\ locks'[id].amount = locks[id].amount
                        /\ locks'[id].token = locks[id].token
                        /\ locks[id].taken => locks'[id].taken
    OBVIOUS
  <2>2. locks \in Seq(Lock) /\ locks[id] \in Lock
    BY <1>1, <2>1 DEF Inv, Typed
  <2>3. CASE UNCHANGED locks
    BY <2>2, <2>3 DEF Lock
  <2>4. CASE FinishLock
    <3>1. PICK new : locks' = Append(locks, new)
      BY <2>4 DEF FinishLock
    <3>2. locks'[id] = locks[id]
      BY <2>1, <2>2, <3>1
    <3>3. QED
      BY <2>2, <3>2 DEF Lock
  <2>5. ASSUME NEW c \in People, NEW k \in DOMAIN locks, BeginClaim(c, k)
        PROVE  /\ locks'[id].until = locks[id].until
               /\ locks'[id].amount = locks[id].amount
               /\ locks'[id].token = locks[id].token
               /\ locks[id].taken => locks'[id].taken
    BY <2>1, <2>2, <2>5 DEF BeginClaim, Lock
  <2>6. ASSUME NEW c \in People, NEW k \in DOMAIN locks, NEW to \in People, Give(c, k, to)
        PROVE  /\ locks'[id].until = locks[id].until
               /\ locks'[id].amount = locks[id].amount
               /\ locks'[id].token = locks[id].token
               /\ locks'[id].taken = locks[id].taken
    BY <2>1, <2>2, <2>6 DEF Give, Lock
  <2>7. ASSUME NEW c \in People, NEW k \in DOMAIN locks, NEW until \in 0..MaxTime,
               Extend(c, k, until)
        PROVE  /\ locks'[id].until >= locks[id].until
               /\ locks'[id].amount = locks[id].amount
               /\ locks'[id].token = locks[id].token
               /\ locks'[id].taken = locks[id].taken
    BY <2>1, <2>2, <2>7, LockerAssumption, ClockAssumption DEF Extend, Longer, Lock
  <2>8. locks[id].until >= locks[id].until
    BY <2>2 DEF Lock
  <2>9. QED
    BY <1>1, <2>3, <2>4, <2>5, <2>6, <2>7, <2>8
       DEF Next, vars, Tick, FinishClaim, Deliver, BeginLock
<1>2. QED
  BY <1>1, InitInv, NextInv, PTL DEF Spec, PromisesOnlyLengthen

-----------------------------------------------------------------------------
(* Account.  The inductive invariant is AccountInv, at the end.  First the  *)
(* types.                                                                  *)

LEMMA WithoutSeq ==
  ASSUME NEW S, NEW s \in Seq(S), NEW i \in DOMAIN s
  PROVE  /\ Without(s, i) \in Seq(S)
         /\ DOMAIN Without(s, i) = 1..Len(s) - 1
         /\ Len(Without(s, i)) = Len(s) - 1
         /\ \A j \in 1..Len(s) - 1 : Without(s, i)[j] = IF j = i THEN s[Len(s)] ELSE s[j]
<1>1. Len(s) \in Nat /\ DOMAIN s = 1..Len(s) /\ i \in 1..Len(s)
  OBVIOUS
<1>2. Len(s) - 1 \in Nat /\ Len(s) \in 1..Len(s)
  BY <1>1
<1>3. \A j \in 1..Len(s) : s[j] \in S
  BY <1>1
<1>4. Without(s, i) \in [1..Len(s) - 1 -> S]
  BY <1>1, <1>2, <1>3 DEF Without
<1>5. QED
  BY <1>2, <1>4 DEF Without

LEMMA CallType ==
  ASSUME NEW call \in Call
  PROVE  /\ call.to \in Targets
         /\ call.word \in Words
         /\ call.value \in Nat
         /\ call.spender \in Outsiders \cup {NoOne}
  BY AccountAssumption DEF Call, Words

LEMMA MeasuredType ==
  ASSUME AccountTypeOK
  PROVE  /\ Measured \in Seq(Nat) /\ Len(Measured) = Len(manifest)
         /\ Seen \in Seq(BOOLEAN) /\ Len(Seen) = Len(manifest)
         /\ DOMAIN manifest = 1..Len(manifest)
<1>1. Len(manifest) \in Nat /\ DOMAIN manifest = 1..Len(manifest)
  BY DEF AccountTypeOK
<1>2. \A i \in DOMAIN manifest : manifest[i] \in Things
  BY <1>1 DEF AccountTypeOK, Things
<1>3. Measured \in [1..Len(manifest) -> Nat]
  BY <1>1, <1>2 DEF AccountTypeOK, Measured
<1>4. Seen \in [1..Len(manifest) -> BOOLEAN]
  BY <1>1 DEF Seen
<1>5. QED
  BY <1>1, <1>3, <1>4

LEMMA NoFrameType == NoFrame \in Frame
  BY DEF NoFrame, Frame, Words

LEMMA EnterType ==
  ASSUME AccountTypeOK, NEW key \in Keys \cup {NoOne}, NEW call \in Call, Enter(key, call)
  PROVE  frame' \in Frame /\ holds' \in [Things -> Nat]
<1>1. Ether \in Things /\ holds[Ether] \in Nat
  BY DEF AccountTypeOK, Things
<1>2. holds' \in [Things -> Nat]
  BY <1>1, CallType DEF Enter, SendValue, Paid, AccountTypeOK
<1> DEFINE pre == IF IsSealed THEN Measured ELSE <<>>
           seen == IF IsSealed THEN Seen ELSE <<>>
           eth == IF IsSealed THEN holds[Ether] ELSE 0
<1>3. IsSealed \in BOOLEAN
  BY DEF IsSealed
<1>7. pre \in Seq(Nat)
  BY MeasuredType
<1>8. seen \in Seq(BOOLEAN)
  <2>1. <<>> \in Seq(BOOLEAN)
    OBVIOUS
  <2>2. Seen \in Seq(BOOLEAN)
    BY MeasuredType
  <2>3. CASE IsSealed
    BY <2>2, <2>3, Zenon
  <2>4. CASE ~IsSealed
    BY <2>1, <2>4, Zenon
  <2>5. QED
    BY <2>3, <2>4, Zenon
<1>9. eth \in Nat
  BY <1>1
<1>4. frame' = [entered |-> TRUE, locked |-> IsSealed, key |-> key, pre |-> pre, seen |-> seen,
                ether |-> eth, made |-> 1, to |-> call.to, word |-> call.word,
                spender |-> call.spender]
  BY DEF Enter
<1> HIDE DEF pre, seen, eth
<1>5. frame' \in Frame
  BY <1>3, <1>4, <1>7, <1>8, <1>9, CallType DEF Frame
<1>6. QED
  BY <1>2, <1>5

LEMMA PledgeType ==
  ASSUME AccountTypeOK, holds' \in [Things -> Nat], AccountNext
  PROVE  floor' \in [Things -> Nat]
<1>1. \A x \in Things : Pledge(x) \in Nat
  BY DEF AccountTypeOK, Pledge
<1>2. QED
  BY <1>1 DEF AccountNext

\* The next value of every variable but the floor, in its type.
AccountRest == /\ now' \in 0..MaxTime
               /\ holder' \in Owners \cup {Reach}
               /\ xfers' \in 0..MaxXfers
               /\ sealedUntil' \in Nat
               /\ manifest' \in Seq(Assets)
               /\ onManifest' \subseteq Assets
               /\ pieces' \in Seq(Pieces)
               /\ holds' \in [Things -> Nat]
               /\ readable' \subseteq Assets
               /\ granted' \subseteq Assets \X Outsiders
               /\ sessionOf' \in [Keys -> Session]
               /\ sessionEpoch' \in [Keys -> 0..MaxEpoch]
               /\ sessionTarget' \subseteq Keys \X (0..MaxEpoch) \X Targets
               /\ sessionSelector' \subseteq Keys \X (0..MaxEpoch) \X Words
               /\ frame' \in Frame
               /\ allowed' \in [Keys -> Grant]

LEMMA SealTypes ==
  ASSUME AccountTypeOK, NEW c \in Owners,
         \/ \E until \in 0..MaxTime : Seal(c, until)
         \/ \E a \in Assets : Guard(c, a) \/ Unguard(c, a)
         \/ \E p \in Pieces : GuardNFT(c, p)
         \/ \E i \in DOMAIN pieces : UnguardNFT(c, i)
  PROVE  AccountRest
<1>1. CASE \E until \in 0..MaxTime : Seal(c, until)
  BY <1>1, ClockAssumption DEF AccountTypeOK, AccountRest, Seal, tokenVars, worldVars, sessionVars
<1>2. ASSUME NEW a \in Assets, Guard(c, a)
      PROVE  AccountRest
  BY <1>2 DEF AccountTypeOK, AccountRest, Guard, tokenVars, worldVars, sessionVars
<1>3. ASSUME NEW a \in Assets, Unguard(c, a)
      PROVE  AccountRest
  <2>1. manifest' \in Seq(Assets)
    BY <1>3, WithoutSeq DEF AccountTypeOK, Unguard
  <2>2. QED
    BY <1>3, <2>1 DEF AccountTypeOK, AccountRest, Unguard, tokenVars, worldVars, sessionVars
<1>4. ASSUME NEW p \in Pieces, GuardNFT(c, p)
      PROVE  AccountRest
  BY <1>4 DEF AccountTypeOK, AccountRest, GuardNFT, tokenVars, worldVars, sessionVars
<1>5. ASSUME NEW i \in DOMAIN pieces, UnguardNFT(c, i)
      PROVE  AccountRest
  <2>1. pieces' \in Seq(Pieces)
    BY <1>5, WithoutSeq DEF AccountTypeOK, UnguardNFT
  <2>2. QED
    BY <1>5, <2>1 DEF AccountTypeOK, AccountRest, UnguardNFT, tokenVars, worldVars, sessionVars
<1>6. QED
  BY <1>1, <1>2, <1>3, <1>4, <1>5

LEMMA KeyTypes ==
  ASSUME AccountTypeOK, NEW c \in Owners, NEW k \in Keys,
         \/ RevokeSession(c, k)
         \/ \E expires \in 0..MaxTime, cap \in Caps, ts \in TargetLists, ws \in WordLists :
               GrantSession(c, k, expires, cap, ts, ws)
  PROVE  AccountRest
<1>1. CASE RevokeSession(c, k)
  <2>1. NoSession \in Session
    BY DEF NoSession, Session
  <2>2. NothingAllowed \in Grant
    BY DEF NothingAllowed, Grant
  <2>3. sessionEpoch' \in [Keys -> 0..MaxEpoch]
    BY <1>1, AccountAssumption DEF AccountTypeOK, RevokeSession, EpochAfter
  <2>4. sessionOf' \in [Keys -> Session] /\ allowed' \in [Keys -> Grant]
    BY <1>1, <2>1, <2>2 DEF AccountTypeOK, RevokeSession
  <2>5. QED
    BY <1>1, <2>3, <2>4 DEF AccountTypeOK, AccountRest, RevokeSession, tokenVars, sealVars, worldVars
<1>2. ASSUME NEW expires \in 0..MaxTime, NEW cap \in Caps, NEW ts \in TargetLists,
             NEW ws \in WordLists, GrantSession(c, k, expires, cap, ts, ws)
      PROVE  AccountRest
  <2>1. cap \in Nat /\ ts \subseteq Targets /\ ws \subseteq Words /\ expires \in Nat
    BY AccountAssumption, ClockAssumption
  <2>2. sessionEpoch' \in [Keys -> 0..MaxEpoch]
    BY <1>2, AccountAssumption DEF AccountTypeOK, GrantSession, EpochAfter
  <2> DEFINE s == [expires |-> expires, spendCap |-> cap, spent |-> 0, active |-> TRUE, mark |-> xfers]
             g == [live |-> TRUE, by |-> c, expires |-> expires, cap |-> cap, out |-> 0,
                   targets |-> ts, words |-> ws]
  <2>3. s \in Session /\ g \in Grant
    BY <2>1 DEF AccountTypeOK, Session, Grant
  <2>4. sessionOf' = [sessionOf EXCEPT ![k] = s] /\ allowed' = [allowed EXCEPT ![k] = g]
    BY <1>2 DEF GrantSession
  <2> HIDE DEF s, g
  <2>5. sessionOf' \in [Keys -> Session]
    BY <2>3, <2>4 DEF AccountTypeOK
  <2>9. allowed' \in [Keys -> Grant]
    BY <2>3, <2>4 DEF AccountTypeOK
  <2>6. sessionTarget' \subseteq Keys \X (0..MaxEpoch) \X Targets
    <3>1. \A t \in ts : <<k, sessionEpoch'[k], t>> \in Keys \X (0..MaxEpoch) \X Targets
      BY <2>1, <2>2
    <3>2. sessionTarget' = sessionTarget \cup {<<k, sessionEpoch'[k], t>> : t \in ts}
      BY <1>2 DEF GrantSession
    <3>3. QED
      BY <3>1, <3>2, Zenon DEF AccountTypeOK
  <2>7. sessionSelector' \subseteq Keys \X (0..MaxEpoch) \X Words
    <3>1. \A w \in ws : <<k, sessionEpoch'[k], w>> \in Keys \X (0..MaxEpoch) \X Words
      BY <2>1, <2>2
    <3>2. sessionSelector' = sessionSelector \cup {<<k, sessionEpoch'[k], w>> : w \in ws}
      BY <1>2 DEF GrantSession
    <3>3. QED
      BY <3>1, <3>2, Zenon DEF AccountTypeOK
  <2>8. QED
    BY <1>2, <2>2, <2>5, <2>6, <2>7, <2>9 DEF AccountTypeOK, AccountRest, GrantSession, tokenVars, sealVars, worldVars
<1>3. QED
  BY <1>1, <1>2

LEMMA FrameTypes ==
  ASSUME AccountTypeOK,
         \/ \E c \in Owners, call \in Call : ExecuteAsHolder(c, call)
         \/ FrameStep
  PROVE  AccountRest
<1>1. ASSUME NEW c \in Owners, NEW call \in Call, ExecuteAsHolder(c, call)
      PROVE  AccountRest
  <2>1. frame' \in Frame /\ holds' \in [Things -> Nat]
    BY <1>1, EnterType DEF ExecuteAsHolder
  <2>2. QED
    BY <1>1, <2>1 DEF AccountTypeOK, AccountRest, ExecuteAsHolder, tokenVars, sealVars, sessionVars
<1>2. ASSUME NEW call \in Call, NextCall(call)
      PROVE  AccountRest
  <2>1. frame' \in Frame
    <3>1. call.to \in Targets \cup {NoOne} /\ call.word \in Words /\ call.spender \in Outsiders \cup {NoOne}
      BY CallType
    <3>2. frame \in Frame /\ frame.made + 1 \in Nat
      BY DEF AccountTypeOK, Frame
    <3>3. frame' = [frame EXCEPT !.made = frame.made + 1, !.to = call.to, !.word = call.word,
                                 !.spender = call.spender]
      BY <1>2 DEF NextCall
    <3>4. QED
      BY <3>1, <3>2, <3>3 DEF Frame
  <2>2. holds' \in [Things -> Nat]
    BY <1>2, CallType DEF AccountTypeOK, NextCall, SendValue, Paid, Things
  <2>3. QED
    BY <1>2, <2>1, <2>2 DEF AccountTypeOK, AccountRest, NextCall, tokenVars, sealVars, sessionVars
<1>3. ASSUME NEW k \in Keys, NEW call \in Call, ExecuteAsSession(k, call)
      PROVE  AccountRest
  <2>1. frame' \in Frame /\ holds' \in [Things -> Nat]
    BY <1>3, EnterType DEF ExecuteAsSession
  <2>2. sessionOf' \in [Keys -> Session]
    <3>1. sessionOf[k] \in Session /\ call.value \in Nat
      BY CallType DEF AccountTypeOK
    <3>2. [sessionOf[k] EXCEPT !.spent = @ + call.value] \in Session
      BY <3>1 DEF Session
    <3>3. sessionOf' = [sessionOf EXCEPT ![k] = [sessionOf[k] EXCEPT !.spent = @ + call.value]]
      BY <1>3 DEF ExecuteAsSession
    <3>4. QED
      BY <3>2, <3>3 DEF AccountTypeOK
  <2>3. allowed' \in [Keys -> Grant]
    <3>1. allowed[k] \in Grant /\ call.value \in Nat
      BY CallType DEF AccountTypeOK
    <3>2. [allowed[k] EXCEPT !.out = @ + call.value] \in Grant
      BY <3>1 DEF Grant
    <3>3. allowed' = [allowed EXCEPT ![k] = [allowed[k] EXCEPT !.out = @ + call.value]]
      BY <1>3 DEF ExecuteAsSession
    <3>4. QED
      BY <3>2, <3>3 DEF AccountTypeOK
  <2>4. QED
    BY <1>3, <2>1, <2>2, <2>3 DEF AccountTypeOK, AccountRest, ExecuteAsSession, tokenVars, sealVars
<1>4. CASE Finish
  BY <1>4, NoFrameType DEF AccountTypeOK, AccountRest, Finish, tokenVars, sealVars, worldVars, sessionVars
<1>5. QED
  BY <1>1, <1>2, <1>3, <1>4 DEF FrameStep

LEMMA WorldTypes ==
  ASSUME AccountTypeOK, WorldStep
  PROVE  AccountRest
<1>1. ASSUME NEW a \in Assets, NEW n \in 1..MaxHeld, Leaves(a, n) \/ \E p \in Outsiders : Helps(a, p, n)
      PROVE  AccountRest
  <2>1. a \in Things /\ n \in Nat
    BY AccountAssumption DEF Things
  <2>2. n <= holds[a] /\ holds' = [holds EXCEPT ![a] = @ - n]
    BY <1>1 DEF Leaves, Helps
  <2>4. holds' \in [Things -> Nat]
    BY <2>1, <2>2 DEF AccountTypeOK
  <2>3. QED
    BY <1>1, <2>4 DEF AccountTypeOK, AccountRest, Leaves, Helps, tokenVars, sealVars, sessionVars
<1>2. ASSUME NEW a \in Assets, NEW p \in Outsiders, Trusts(a, p)
      PROVE  AccountRest
  BY <1>2 DEF AccountTypeOK, AccountRest, Trusts, tokenVars, sealVars, sessionVars
<1>3. ASSUME NEW x \in Things, NEW n \in 1..MaxHeld, Arrives(x, n)
      PROVE  AccountRest
  <2>1. n \in Nat
    BY AccountAssumption
  <2>2. holds' \in [Things -> Nat]
    BY <1>3, <2>1 DEF AccountTypeOK, Arrives
  <2>3. QED
    BY <1>3, <2>2 DEF AccountTypeOK, AccountRest, Arrives, tokenVars, sealVars, sessionVars
<1>4. ASSUME NEW a \in Assets, Blinks(a)
      PROVE  AccountRest
  BY <1>4 DEF AccountTypeOK, AccountRest, Blinks, tokenVars, sealVars, sessionVars
<1>5. ASSUME NEW to \in Owners \cup {Reach}, Sale(to)
      PROVE  AccountRest
  <2>1. NothingAllowed \in Grant
    BY DEF NothingAllowed, Grant
  <2>2. allowed' \in [Keys -> Grant]
    BY <1>5, <2>1 DEF Sale
  <2>3. xfers' \in 0..MaxXfers
    BY <1>5, AccountAssumption DEF Sale, AccountTypeOK
  <2>4. QED
    BY <1>5, <2>2, <2>3 DEF AccountTypeOK, AccountRest, Sale, sealVars, worldVars
<1>6. CASE AccountTick
  BY <1>6, ClockAssumption DEF AccountTypeOK, AccountRest, AccountTick, Passes, tokenVars, sealVars, worldVars, sessionVars
<1>7. QED
  BY <1>1, <1>2, <1>3, <1>4, <1>5, <1>6 DEF WorldStep

LEMMA AccountTypeNext == AccountTypeOK /\ [AccountNext]_accountVars => AccountTypeOK'
<1> SUFFICES ASSUME AccountTypeOK, [AccountNext]_accountVars PROVE AccountTypeOK'
  OBVIOUS
<1>1. CASE UNCHANGED accountVars
  BY <1>1 DEF AccountTypeOK, accountVars, tokenVars, sealVars, worldVars, sessionVars
<1>2. CASE AccountNext
  <2>1. AccountRest
    BY <1>2, SealTypes, KeyTypes, FrameTypes, WorldTypes DEF AccountNext, HolderStep
  <2>2. floor' \in [Things -> Nat]
    BY <1>2, <2>1, PledgeType DEF AccountRest
  <2>3. QED
    BY <2>1, <2>2 DEF AccountRest, AccountTypeOK
<1>3. QED
  BY <1>1, <1>2

LEMMA AccountInitType == AccountInit => AccountTypeOK
<1> SUFFICES ASSUME AccountInit PROVE AccountTypeOK
  OBVIOUS
<1>1. NoSession \in Session /\ NothingAllowed \in Grant
  BY DEF NoSession, Session, NothingAllowed, Grant
<1>2. QED
  BY <1>1, NoFrameType, AccountAssumption, ClockAssumption DEF AccountInit, AccountDeployed, AccountTypeOK

-----------------------------------------------------------------------------
(* The manifest: list and map agree.                                       *)

LEMMA GuardExact ==
  ASSUME AccountTypeOK, ManifestExact, NEW c \in Owners, NEW a \in Assets, Guard(c, a)
  PROVE  ManifestExact'
<1>1. Len(manifest) \in Nat /\ DOMAIN manifest = 1..Len(manifest)
  BY DEF AccountTypeOK
<1>2. /\ DOMAIN manifest' = 1..Len(manifest) + 1
      /\ \A i \in 1..Len(manifest) : manifest'[i] = manifest[i]
      /\ manifest'[Len(manifest) + 1] = a
  BY <1>1 DEF Guard, AccountTypeOK
<1>3. QED
  BY <1>1, <1>2 DEF Guard, ManifestExact

LEMMA UnguardExact ==
  ASSUME AccountTypeOK, ManifestExact, NEW c \in Owners, NEW a \in Assets, Unguard(c, a)
  PROVE  ManifestExact'
<1>1. PICK i \in DOMAIN manifest : manifest[i] = a /\ manifest' = Without(manifest, i)
  BY DEF Unguard
<1> DEFINE n == Len(manifest)
<1>2. n \in Nat /\ DOMAIN manifest = 1..n /\ i \in 1..n
  BY DEF AccountTypeOK
<1>3. /\ DOMAIN manifest' = 1..n - 1
      /\ \A j \in 1..n - 1 : manifest'[j] = IF j = i THEN manifest[n] ELSE manifest[j]
  BY <1>1, WithoutSeq DEF AccountTypeOK
<1> HIDE DEF n
<1>4. ASSUME NEW j \in DOMAIN manifest'
      PROVE  manifest'[j] # a /\ \E k \in DOMAIN manifest : manifest'[j] = manifest[k]
  BY <1>1, <1>2, <1>3, <1>4 DEF ManifestExact
<1>5. ASSUME NEW k \in DOMAIN manifest, manifest[k] # a
      PROVE  \E j \in DOMAIN manifest' : manifest'[j] = manifest[k]
  <2>1. CASE k = n
    <3>1. i \in 1..n - 1
      BY <1>1, <1>2, <1>5, <2>1
    <3>2. QED
      BY <1>3, <2>1, <3>1
  <2>2. CASE k # n
    <3>1. k \in 1..n - 1 /\ k # i
      BY <1>1, <1>2, <1>5, <2>2
    <3>2. QED
      BY <1>3, <3>1
  <2>3. QED
    BY <2>1, <2>2
<1>6. onManifest' = {manifest'[j] : j \in DOMAIN manifest'}
  BY <1>4, <1>5 DEF Unguard, ManifestExact
<1>7. \A j, k \in DOMAIN manifest' : manifest'[j] = manifest'[k] => j = k
  BY <1>2, <1>3 DEF ManifestExact
<1>8. QED
  BY <1>6, <1>7 DEF ManifestExact

LEMMA ExactNext == AccountTypeOK /\ ManifestExact /\ [AccountNext]_accountVars => ManifestExact'
<1> SUFFICES ASSUME AccountTypeOK, ManifestExact, [AccountNext]_accountVars PROVE ManifestExact'
  OBVIOUS
<1>1. CASE UNCHANGED <<manifest, onManifest>>
  BY <1>1 DEF ManifestExact
<1>2. ASSUME NEW c \in Owners, HolderStep(c)
      PROVE  UNCHANGED <<manifest, onManifest>> \/ \E a \in Assets : Guard(c, a) \/ Unguard(c, a)
  BY <1>2 DEF HolderStep, Seal, GuardNFT, UnguardNFT, RevokeSession, GrantSession, ExecuteAsHolder, sealVars
<1>3. ASSUME FrameStep
      PROVE  UNCHANGED <<manifest, onManifest>>
  <2>1. ASSUME NEW call \in Call, NextCall(call) \/ \E k \in Keys : ExecuteAsSession(k, call)
        PROVE  UNCHANGED sealVars
    BY <2>1 DEF NextCall, ExecuteAsSession
  <2>2. CASE Finish
    BY <2>2 DEF Finish, sealVars
  <2>3. QED
    BY <1>3, <2>1, <2>2 DEF FrameStep, sealVars
<1>4. ASSUME WorldStep
      PROVE  UNCHANGED <<manifest, onManifest>>
  BY <1>4 DEF WorldStep, Leaves, Trusts, Helps, Arrives, Blinks, Sale, AccountTick, sealVars
<1>5. QED
  BY <1>1, <1>2, <1>3, <1>4, GuardExact, UnguardExact DEF AccountNext, accountVars, sealVars

-----------------------------------------------------------------------------
(* The seal.                                                               *)

SealInv == MeasureInv /\ FloorInv /\ TheFloorHolds

LEMMA PledgeInside ==
  ASSUME AccountTypeOK, AccountNext, frame'.entered
  PROVE  \A x \in Things : floor'[x] = floor[x]
  BY DEF AccountNext, Pledge

LEMMA PledgeBetween ==
  ASSUME AccountTypeOK, AccountTypeOK', AccountNext, ~frame'.entered, NEW x \in Things
  PROVE  /\ floor'[x] > 0 => IsSealed' /\ (Covers(x)' \/ frame.entered)
         /\ \/ floor'[x] = 0
            \/ floor'[x] = floor[x]
            \/ Covers(x)' /\ Alone(x)' /\ floor'[x] = holds'[x]
<1>1. floor'[x] = Pledge(x)
  BY DEF AccountNext
<1>2. QED
  BY <1>1 DEF Pledge

\* A step between transactions.
LEMMA BetweenSteps ==
  ASSUME AccountTypeOK, AccountTypeOK', SealInv, AccountNext,
         ~frame.entered, frame' = frame, granted' = granted,
         \A p \in Pieces : holds'[p] <= 1,
         \A x \in Things : holds'[x] >= holds[x] \/ ~Alone(x)
  PROVE  SealInv'
<1>1. ~frame'.entered
  OBVIOUS
<1>2. ASSUME NEW x \in Things
      PROVE  /\ floor'[x] <= holds'[x]
             /\ floor'[x] > 0 => IsSealed' /\ Covers(x)' /\ Alone(x)'
  <2>1. holds'[x] \in Nat /\ holds[x] \in Nat /\ floor[x] \in Nat /\ floor'[x] \in Nat
    BY DEF AccountTypeOK
  <2>2. floor[x] <= holds[x] /\ (floor[x] > 0 => Alone(x))
    BY DEF SealInv, FloorInv, TheFloorHolds
  <2>3. Alone(x)' <=> Alone(x)
    BY DEF Alone
  <2>4. QED
    BY <1>1, <2>1, <2>2, <2>3, PledgeBetween
<1>3. \A p \in Pieces : p \in Things /\ floor'[p] \in Nat /\ holds'[p] \in Nat
  BY DEF AccountTypeOK, Things, Assets
<1>4. FloorInv'
  BY <1>1, <1>2, <1>3 DEF FloorInv
<1>5. TheFloorHolds'
  BY <1>2 DEF TheFloorHolds, AccountTypeOK
<1>6. QED
  BY <1>1, <1>4, <1>5 DEF SealInv, MeasureInv

\* A step inside a frame.
LEMMA InsideSteps ==
  ASSUME AccountTypeOK, AccountTypeOK', SealInv, AccountNext,
         frame.entered, frame' = frame, now' = now, sealedUntil' >= sealedUntil,
         frame.locked => UNCHANGED <<manifest, onManifest, pieces>>,
         \A p \in Pieces : holds'[p] <= 1,
         \A x \in Things : frame.locked /\ Covers(x) /\ Alone(x) =>
            Alone(x)' /\ (holds'[x] >= holds[x] \/ frame.to = x)
  PROVE  SealInv'
<1>1. \A x \in Things : floor'[x] = floor[x] /\ floor[x] \in Nat /\ holds[x] \in Nat /\ holds'[x] \in Nat
  BY PledgeInside DEF AccountTypeOK
<1>2. ASSUME NEW x \in Things, floor'[x] > 0
      PROVE  IsSealed' /\ Covers(x)' /\ Alone(x)' /\ (frame'.entered => frame'.locked)
  <2>1. IsSealed /\ Covers(x) /\ Alone(x) /\ frame.locked
    BY <1>1, <1>2 DEF SealInv, FloorInv
  <2>2. IsSealed'
    BY <2>1 DEF IsSealed, AccountTypeOK
  <2>3. Covers(x)'
    BY <2>1 DEF Covers, Promised, Listed
  <2>4. QED
    BY <2>1, <2>2, <2>3
<1>3. \A p \in Pieces : p \in Things
  BY DEF Things, Assets
<1>4. FloorInv'
  BY <1>1, <1>2, <1>3 DEF FloorInv, SealInv
<1>5. ASSUME frame.locked PROVE MeasureInv'
  <2>1. /\ Len(frame.pre) = Len(manifest)
        /\ Len(frame.seen) = Len(manifest)
        /\ Promised(frame.to) => frame.word = "transfer"
        /\ frame.ether >= floor[Ether]
        /\ manifest' = manifest /\ onManifest' = onManifest /\ pieces' = pieces
    BY <1>5 DEF SealInv, MeasureInv
  <2>2. Promised(frame.to)' <=> Promised(frame.to)
    BY <2>1 DEF Promised, Listed
  <2>3. ASSUME NEW i \in DOMAIN manifest
        PROVE  /\ manifest[i] = frame.to => frame.seen[i]
               /\ frame.seen[i] => frame.pre[i] >= floor'[manifest[i]]
               /\ ~frame.seen[i] => holds'[manifest[i]] >= floor'[manifest[i]]
    <3> DEFINE x == manifest[i]
    <3>1. x \in Things
      BY DEF AccountTypeOK, Things
    <3>2. /\ x = frame.to => frame.seen[i]
          /\ frame.seen[i] => frame.pre[i] >= floor[x]
          /\ ~frame.seen[i] => holds[x] >= floor[x]
      BY <1>5 DEF SealInv, MeasureInv
    <3> HIDE DEF x
    <3>3. floor[x] > 0 => Alone(x) /\ Covers(x)
      BY <3>1 DEF SealInv, FloorInv
    <3>4. ~frame.seen[i] => holds'[x] >= floor[x]
      BY <1>1, <1>5, <3>1, <3>2, <3>3
    <3>5. QED
      BY <1>1, <3>1, <3>2, <3>4 DEF x
  <2>4. Ether \in Things
    BY DEF Things
  <2>5. QED
    BY <1>1, <2>1, <2>2, <2>3, <2>4 DEF MeasureInv
<1>6. MeasureInv'
  BY <1>5 DEF MeasureInv
<1>7. QED
  BY <1>4, <1>6 DEF SealInv, TheFloorHolds

LEMMA SmallPieces ==
  ASSUME SealInv, AccountTypeOK, AccountTypeOK'
  PROVE  \A p \in Pieces : /\ p \in Things /\ p # Ether
                           /\ holds[p] <= 1
                           /\ holds[p] \in Nat /\ holds'[p] \in Nat
  BY AccountAssumption DEF SealInv, FloorInv, AccountTypeOK, Things, Assets

LEMMA ListSteps ==
  ASSUME AccountTypeOK, AccountTypeOK', SealInv, AccountNext, NEW c \in Owners,
         \/ \E until \in 0..MaxTime : Seal(c, until)
         \/ \E a \in Assets : Guard(c, a) \/ Unguard(c, a)
         \/ \E p \in Pieces : GuardNFT(c, p)
         \/ \E i \in DOMAIN pieces : UnguardNFT(c, i)
  PROVE  SealInv'
<1>1. /\ UNCHANGED <<now, holds, readable, granted, frame>>
      /\ sealedUntil' >= sealedUntil
      /\ frame.entered /\ frame.locked => UNCHANGED <<manifest, onManifest, pieces>>
  <2>1. CASE \E until \in 0..MaxTime : Seal(c, until)
    BY <2>1, ClockAssumption DEF Seal, worldVars, AccountTypeOK
  <2>2. CASE \E a \in Assets : Guard(c, a) \/ Unguard(c, a)
    BY <2>2 DEF Guard, Unguard, MayLeave, NotMeasuring, worldVars, AccountTypeOK
  <2>3. CASE (\E p \in Pieces : GuardNFT(c, p)) \/ \E i \in DOMAIN pieces : UnguardNFT(c, i)
    BY <2>3 DEF GuardNFT, UnguardNFT, NotMeasuring, worldVars, AccountTypeOK
  <2>4. QED
    BY <2>1, <2>2, <2>3
<1>2. \A p \in Pieces : holds'[p] <= 1
  BY <1>1, SmallPieces
<1>3. \A x \in Things : holds'[x] >= holds[x] /\ (Alone(x)' <=> Alone(x))
  BY <1>1 DEF Alone, AccountTypeOK
<1>4. CASE frame.entered
  BY <1>1, <1>2, <1>3, <1>4, InsideSteps
<1>5. CASE ~frame.entered
  BY <1>1, <1>2, <1>3, <1>5, BetweenSteps
<1>6. QED
  BY <1>4, <1>5

LEMMA ElsewhereSteps ==
  ASSUME AccountTypeOK, AccountTypeOK', SealInv, AccountNext,
         UNCHANGED <<now, sealVars, worldVars, frame>>
  PROVE  SealInv'
<1>1. \A p \in Pieces : holds'[p] <= 1
  BY SmallPieces DEF worldVars
<1>2. \A x \in Things : holds'[x] >= holds[x] /\ (Alone(x)' <=> Alone(x))
  BY DEF Alone, AccountTypeOK, worldVars
<1>3. sealedUntil' >= sealedUntil /\ UNCHANGED <<manifest, onManifest, pieces, granted>>
  BY DEF AccountTypeOK, sealVars, worldVars
<1>4. CASE frame.entered
  BY <1>1, <1>2, <1>3, <1>4, InsideSteps
<1>5. CASE ~frame.entered
  BY <1>1, <1>2, <1>3, <1>5, BetweenSteps
<1>6. QED
  BY <1>4, <1>5

LEMMA OutsideSteps ==
  ASSUME AccountTypeOK, AccountTypeOK', SealInv, AccountNext,
         \/ \E a \in Assets, n \in 1..MaxHeld : Leaves(a, n)
         \/ \E a \in Assets, p \in Outsiders : Trusts(a, p)
         \/ \E a \in Assets, p \in Outsiders, n \in 1..MaxHeld : Helps(a, p, n)
         \/ \E x \in Things, n \in 1..MaxHeld : Arrives(x, n)
         \/ \E a \in Assets : Blinks(a)
  PROVE  SealInv'
<1>1. UNCHANGED <<now, sealVars, frame>>
  BY DEF Leaves, Trusts, Helps, Arrives, Blinks
<1>2. sealedUntil' >= sealedUntil /\ UNCHANGED <<manifest, onManifest, pieces>>
  BY <1>1 DEF AccountTypeOK, sealVars
<1>3. MaxHeld \in Nat /\ \A a \in Assets : a \in Things
  BY AccountAssumption DEF Things
<1>4. ASSUME NEW a \in Assets, NEW n \in 1..MaxHeld, Leaves(a, n)
      PROVE  SealInv'
  <2>1. /\ \A x \in Things : x # a => holds'[x] = holds[x]
        /\ holds'[a] = holds[a] - n
    BY <1>3, <1>4 DEF Leaves, AccountTypeOK
  <2>2. \A p \in Pieces : holds'[p] <= 1
    BY <1>3, <2>1, SmallPieces
  <2>3. frame.entered /\ frame.to = a /\ UNCHANGED granted
    BY <1>4 DEF Leaves, Asked
  <2>4. \A x \in Things : Alone(x)' <=> Alone(x)
    BY <2>3 DEF Alone
  <2>6. \A x \in Things : holds'[x] >= holds[x] \/ frame.to = x
    BY <2>1, <2>3 DEF AccountTypeOK
  <2>5. QED
    BY <1>1, <1>2, <2>2, <2>3, <2>4, <2>6, InsideSteps
<1>5. ASSUME NEW a \in Assets, NEW q \in Outsiders, Trusts(a, q)
      PROVE  SealInv'
  <2>1. /\ frame.entered /\ frame.to = a /\ frame.word # "transfer" /\ UNCHANGED holds
        /\ granted' \subseteq granted \cup {<<a, q>>}
    BY <1>5 DEF Trusts, Asked
  <2>2. \A p \in Pieces : holds'[p] <= 1
    BY <2>1, SmallPieces
  <2>3. frame.locked => ~Covers(a)
    BY <2>1, AccountAssumption DEF SealInv, MeasureInv, Covers
  <2>4. \A x \in Things : frame.locked /\ Covers(x) /\ Alone(x) => Alone(x)'
    BY <2>1, <2>3 DEF Alone
  <2>5. \A x \in Things : holds'[x] >= holds[x]
    BY <2>1 DEF AccountTypeOK
  <2>6. QED
    BY <1>1, <1>2, <2>1, <2>2, <2>4, <2>5, InsideSteps
<1>6. ASSUME NEW a \in Assets, NEW q \in Outsiders, NEW n \in 1..MaxHeld, Helps(a, q, n)
      PROVE  SealInv'
  <2>1. /\ \A x \in Things : x # a => holds'[x] = holds[x]
        /\ holds'[a] = holds[a] - n
        /\ UNCHANGED granted /\ <<a, q>> \in granted
    BY <1>3, <1>6 DEF Helps, AccountTypeOK
  <2>2. \A p \in Pieces : holds'[p] <= 1
    BY <1>3, <2>1, SmallPieces
  <2>3. \A x \in Things : (Alone(x)' <=> Alone(x)) /\ (holds'[x] >= holds[x] \/ ~Alone(x))
    BY <2>1 DEF Alone, AccountTypeOK
  <2>4. CASE frame.entered
    BY <1>1, <1>2, <2>2, <2>3, <2>4, InsideSteps
  <2>5. CASE ~frame.entered
    BY <1>1, <2>1, <2>2, <2>3, <2>5, BetweenSteps
  <2>6. QED
    BY <2>4, <2>5
<1>7. ASSUME NEW y \in Things, NEW n \in 1..MaxHeld, Arrives(y, n)
      PROVE  SealInv'
  <2>1. /\ \A x \in Things : x # y => holds'[x] = holds[x]
        /\ holds'[y] = holds[y] + n
        /\ y \in Pieces => holds'[y] <= 1
        /\ UNCHANGED granted
    BY <1>3, <1>7 DEF Arrives, AccountTypeOK
  <2>2. \A p \in Pieces : holds'[p] <= 1
    BY <2>1, SmallPieces
  <2>3. \A x \in Things : (Alone(x)' <=> Alone(x)) /\ holds'[x] >= holds[x]
    <3>1. \A x \in Things : Alone(x)' <=> Alone(x)
      BY <2>1 DEF Alone
    <3>2. ASSUME NEW x \in Things PROVE holds'[x] >= holds[x]
      <4>1. n \in Nat /\ n >= 0 /\ holds[x] \in Nat
        BY <1>3 DEF AccountTypeOK
      <4>2. CASE x = y
        BY <2>1, <4>1, <4>2
      <4>3. CASE x # y
        BY <2>1, <4>1, <4>3
      <4>4. QED
        BY <4>2, <4>3
    <3>3. QED
      BY <3>1, <3>2
  <2>4. CASE frame.entered
    BY <1>1, <1>2, <2>2, <2>3, <2>4, InsideSteps
  <2>5. CASE ~frame.entered
    BY <1>1, <2>1, <2>2, <2>3, <2>5, BetweenSteps
  <2>6. QED
    BY <2>4, <2>5
<1>8. ASSUME NEW a \in Assets, Blinks(a)
      PROVE  SealInv'
  <2>1. UNCHANGED <<holds, granted>>
    BY <1>8 DEF Blinks
  <2>2. \A p \in Pieces : holds'[p] <= 1
    BY <2>1, SmallPieces
  <2>3. \A x \in Things : (Alone(x)' <=> Alone(x)) /\ holds'[x] >= holds[x]
    BY <2>1 DEF Alone, AccountTypeOK
  <2>4. CASE frame.entered
    BY <1>1, <1>2, <2>2, <2>3, <2>4, InsideSteps
  <2>5. CASE ~frame.entered
    BY <1>1, <2>1, <2>2, <2>3, <2>5, BetweenSteps
  <2>6. QED
    BY <2>4, <2>5
<1>9. QED
  BY <1>4, <1>5, <1>6, <1>7, <1>8

\* A call is made: the first of a frame, or the next of a batch.
LEMMA SentValue ==
  ASSUME AccountTypeOK, AccountTypeOK', NEW call \in Call, SendValue(call)
  PROVE  /\ \A x \in Things : x # Ether => holds'[x] = holds[x]
         /\ call.value = 0 => \A x \in Things : holds'[x] = holds[x]
<1>1. Ether \in Things /\ holds[Ether] \in Nat /\ call.value \in Nat
  BY CallType DEF AccountTypeOK, Things
<1>2. QED
  BY <1>1 DEF SendValue, AccountTypeOK

LEMMA EnterSealed ==
  ASSUME AccountTypeOK, AccountTypeOK', SealInv, AccountNext,
         NEW key \in Keys \cup {NoOne}, NEW call \in Call, Enter(key, call),
         UNCHANGED <<now, sealVars, readable, granted>>
  PROVE  SealInv'
<1>1. /\ frame'.entered /\ frame'.locked = IsSealed /\ frame'.to = call.to
      /\ frame'.word = call.word /\ ~frame.entered
      /\ IsSealed => /\ frame'.pre = Measured /\ frame'.seen = Seen
                     /\ frame'.ether = holds[Ether] /\ Safe(call, Seen)
  BY DEF Enter
<1>2. UNCHANGED <<now, sealedUntil, manifest, onManifest, pieces, granted>>
  BY DEF sealVars
<1>3. /\ \A x \in Things : floor'[x] = floor[x] /\ floor[x] \in Nat /\ holds[x] \in Nat /\ holds'[x] \in Nat
      /\ \A x \in Things : holds[x] >= floor[x]
  BY <1>1, PledgeInside DEF AccountTypeOK, SealInv, TheFloorHolds
<1>4. /\ \A x \in Things : x # Ether => holds'[x] = holds[x]
      /\ IsSealed => \A x \in Things : holds'[x] = holds[x]
  BY <1>1, SentValue DEF Enter, Safe
<1>5. FloorInv'
  <2>1. \A p \in Pieces : holds'[p] <= 1 /\ floor'[p] <= 1
    BY <1>3, <1>4, SmallPieces DEF SealInv, FloorInv
  <2>2. IsSealed' <=> IsSealed
    BY <1>2 DEF IsSealed
  <2>3. \A x \in Things : (Covers(x)' <=> Covers(x)) /\ (Alone(x)' <=> Alone(x))
    BY <1>2 DEF Covers, Promised, Listed, Alone
  <2>4. \A x \in Things : floor'[x] > 0 => IsSealed' /\ Covers(x)' /\ Alone(x)' /\ frame'.locked
    BY <1>1, <1>3, <2>2, <2>3 DEF SealInv, FloorInv
  <2>5. QED
    BY <2>1, <2>4 DEF FloorInv
<1>6. ASSUME IsSealed PROVE MeasureInv'
  <2>1. Len(frame'.pre) = Len(manifest') /\ Len(frame'.seen) = Len(manifest')
    BY <1>1, <1>2, <1>6, MeasuredType
  <2>2. Promised(frame.to)' => frame'.word = "transfer"
    BY <1>1, <1>2, <1>6 DEF Safe, Promised, Listed
  <2>3. ASSUME NEW i \in DOMAIN manifest
        PROVE  /\ manifest[i] = frame'.to => frame'.seen[i]
               /\ frame'.seen[i] => frame'.pre[i] >= floor'[manifest[i]]
               /\ ~frame'.seen[i] => holds'[manifest[i]] >= floor'[manifest[i]]
    <3>1. manifest[i] \in Things
      BY DEF AccountTypeOK, Things
    <3>2. Seen[i] <=> manifest[i] \in readable
      BY DEF Seen
    <3>3. manifest[i] \in readable => Measured[i] = holds[manifest[i]]
      BY DEF Measured
    <3>4. manifest[i] = call.to => Seen[i]
      BY <1>1, <1>6 DEF Safe
    <3>5. QED
      BY <1>1, <1>3, <1>4, <1>6, <3>1, <3>2, <3>3, <3>4
  <2>4. frame'.ether >= floor'[Ether]
    BY <1>1, <1>3, <1>6 DEF Things
  <2>5. QED
    BY <1>2, <2>1, <2>2, <2>3, <2>4 DEF MeasureInv
<1>7. MeasureInv'
  BY <1>1, <1>6 DEF MeasureInv
<1>8. QED
  BY <1>1, <1>5, <1>7 DEF SealInv, TheFloorHolds

LEMMA NextCallSealed ==
  ASSUME AccountTypeOK, AccountTypeOK', SealInv, AccountNext, NEW call \in Call, NextCall(call)
  PROVE  SealInv'
<1>1. /\ frame.entered /\ frame' = [frame EXCEPT !.made = frame.made + 1, !.to = call.to,
                                                 !.word = call.word, !.spender = call.spender]
      /\ frame.locked => Safe(call, frame.seen)
      /\ SendValue(call)
      /\ UNCHANGED <<now, sealedUntil, manifest, onManifest, pieces, granted>>
  BY DEF NextCall, sealVars
<1>2. /\ frame'.entered /\ frame'.locked = frame.locked /\ frame'.pre = frame.pre
      /\ frame'.seen = frame.seen /\ frame'.ether = frame.ether
      /\ frame'.to = call.to /\ frame'.word = call.word
  BY <1>1 DEF AccountTypeOK, Frame
<1>3. \A x \in Things : floor'[x] = floor[x] /\ floor[x] \in Nat /\ holds[x] \in Nat /\ holds'[x] \in Nat
  BY <1>2, PledgeInside DEF AccountTypeOK
<1>4. /\ \A x \in Things : x # Ether => holds'[x] = holds[x]
      /\ frame.locked => \A x \in Things : holds'[x] = holds[x]
  BY <1>1, SentValue DEF Safe
<1>5. FloorInv'
  <2>1. \A p \in Pieces : holds'[p] <= 1 /\ floor'[p] <= 1
    BY <1>3, <1>4, SmallPieces DEF SealInv, FloorInv
  <2>2. IsSealed' <=> IsSealed
    BY <1>1 DEF IsSealed
  <2>3. \A x \in Things : (Covers(x)' <=> Covers(x)) /\ (Alone(x)' <=> Alone(x))
    BY <1>1 DEF Covers, Promised, Listed, Alone
  <2>4. \A x \in Things : floor'[x] > 0 => IsSealed' /\ Covers(x)' /\ Alone(x)' /\ frame'.locked
    BY <1>1, <1>2, <1>3, <2>2, <2>3 DEF SealInv, FloorInv
  <2>5. QED
    BY <2>1, <2>4 DEF FloorInv
<1>6. ASSUME frame.locked PROVE MeasureInv'
  <2>1. Len(frame'.pre) = Len(manifest') /\ Len(frame'.seen) = Len(manifest')
    BY <1>1, <1>2, <1>6 DEF SealInv, MeasureInv
  <2>2. Promised(frame.to)' => frame'.word = "transfer"
    BY <1>1, <1>2, <1>6 DEF Safe, Promised, Listed
  <2>3. ASSUME NEW i \in DOMAIN manifest
        PROVE  /\ manifest[i] = frame'.to => frame'.seen[i]
               /\ frame'.seen[i] => frame'.pre[i] >= floor'[manifest[i]]
               /\ ~frame'.seen[i] => holds'[manifest[i]] >= floor'[manifest[i]]
    <3>1. manifest[i] \in Things
      BY DEF AccountTypeOK, Things
    <3>2. manifest[i] = call.to => frame.seen[i]
      BY <1>1, <1>6 DEF Safe
    <3>3. /\ frame.seen[i] => frame.pre[i] >= floor[manifest[i]]
          /\ ~frame.seen[i] => holds[manifest[i]] >= floor[manifest[i]]
      BY <1>1, <1>6 DEF SealInv, MeasureInv
    <3>4. QED
      BY <1>2, <1>3, <1>4, <1>6, <3>1, <3>2, <3>3
  <2>4. frame'.ether >= floor'[Ether]
    BY <1>1, <1>2, <1>3, <1>6 DEF Things, SealInv, MeasureInv
  <2>5. QED
    BY <1>1, <2>1, <2>2, <2>3, <2>4 DEF MeasureInv
<1>7. MeasureInv'
  BY <1>2, <1>6 DEF MeasureInv
<1>8. QED
  BY <1>2, <1>5, <1>7 DEF SealInv, TheFloorHolds

LEMMA FinishSealed ==
  ASSUME AccountTypeOK, AccountTypeOK', ManifestExact, SealInv, AccountNext, Finish
  PROVE  SealInv'
<1>1. /\ frame.entered /\ ~frame'.entered
      /\ UNCHANGED <<now, sealedUntil, manifest, onManifest, pieces, holds, granted>>
      /\ frame.locked => Verified
  BY DEF Finish, NoFrame, sealVars, worldVars
<1>2. \A x \in Things : /\ floor[x] \in Nat /\ floor'[x] \in Nat
                        /\ holds[x] \in Nat /\ holds'[x] = holds[x]
  BY <1>1 DEF AccountTypeOK
\* What was measured is there, what could not be measured was not touched.
<1>3. ASSUME NEW x \in Things, floor[x] > 0
      PROVE  Covers(x) /\ Alone(x) /\ holds[x] >= floor[x]
  <2>1. Covers(x) /\ Alone(x) /\ frame.locked
    BY <1>1, <1>3 DEF SealInv, FloorInv
  <2>2. CASE x = Ether
    BY <1>1, <1>2, <2>1, <2>2 DEF Verified, SealInv, MeasureInv, AccountTypeOK, Frame
  <2>3. CASE x \in onManifest
    <3>1. PICK i \in DOMAIN manifest : manifest[i] = x
      BY <2>3 DEF ManifestExact
    <3>2. frame.seen[i] => holds[x] >= frame.pre[i]
      BY <1>1, <2>1, <3>1 DEF Verified
    <3>3. /\ frame.seen[i] => frame.pre[i] >= floor[x]
          /\ ~frame.seen[i] => holds[x] >= floor[x]
      BY <1>1, <2>1, <3>1 DEF SealInv, MeasureInv
    <3>4. frame.pre[i] \in Nat
      <4>1. frame.pre \in Seq(Nat) /\ Len(frame.pre) = Len(manifest) /\ manifest \in Seq(Assets)
        BY <1>1, <2>1 DEF SealInv, MeasureInv, AccountTypeOK, Frame
      <4>2. QED
        BY <4>1
    <3>5. QED
      BY <1>2, <2>1, <3>2, <3>3, <3>4
  <2>4. CASE Listed(x)
    <3>1. PICK i \in DOMAIN pieces : pieces[i] = x
      BY <2>4 DEF Listed
    <3>2. holds[x] > 0 /\ x \in Pieces
      BY <1>1, <2>1, <3>1 DEF Verified, Holding, AccountTypeOK
    <3>3. QED
      BY <1>2, <2>1, <3>2 DEF SealInv, FloorInv
  <2>5. QED
    BY <2>1, <2>2, <2>3, <2>4 DEF Covers, Promised
<1>4. \A x \in Things : (Covers(x)' <=> Covers(x)) /\ (Alone(x)' <=> Alone(x))
  BY <1>1 DEF Covers, Promised, Listed, Alone
<1>5. ASSUME NEW x \in Things
      PROVE  /\ floor'[x] <= holds'[x]
             /\ floor'[x] > 0 => IsSealed' /\ Covers(x)' /\ Alone(x)'
  BY <1>1, <1>2, <1>3, <1>4, PledgeBetween
<1>6. FloorInv'
  BY <1>1, <1>2, <1>5, SmallPieces DEF FloorInv
<1>7. TheFloorHolds'
  BY <1>2, <1>5 DEF TheFloorHolds
<1>8. QED
  BY <1>1, <1>6, <1>7 DEF SealInv, MeasureInv

LEMMA SealNext ==
  ASSUME AccountTypeOK, AccountTypeOK', ManifestExact, SealInv, [AccountNext]_accountVars
  PROVE  SealInv'
<1>1. CASE UNCHANGED accountVars
  BY <1>1 DEF SealInv, MeasureInv, FloorInv, TheFloorHolds, Promised, Listed, Covers, Alone, IsSealed, accountVars, sealVars, worldVars
<1>2. ASSUME AccountNext, NEW c \in Owners, HolderStep(c)
      PROVE  SealInv'
  <2>1. ASSUME NEW k \in Keys,
               \/ RevokeSession(c, k)
               \/ \E expires \in 0..MaxTime, cap \in Caps, ts \in TargetLists, ws \in WordLists :
                     GrantSession(c, k, expires, cap, ts, ws)
        PROVE  SealInv'
    <3>1. UNCHANGED <<now, sealVars, worldVars, frame>>
      BY <2>1 DEF RevokeSession, GrantSession
    <3>2. QED
      BY <1>2, <3>1, ElsewhereSteps
  <2>2. ASSUME NEW call \in Call, ExecuteAsHolder(c, call)
        PROVE  SealInv'
    BY <1>2, <2>2, EnterSealed DEF ExecuteAsHolder
  <2>3. QED
    BY <1>2, <2>1, <2>2, ListSteps DEF HolderStep
<1>3. ASSUME AccountNext, FrameStep
      PROVE  SealInv'
  <2>1. ASSUME NEW k \in Keys, NEW call \in Call, ExecuteAsSession(k, call)
        PROVE  SealInv'
    BY <1>3, <2>1, EnterSealed DEF ExecuteAsSession
  <2>2. QED
    BY <1>3, <2>1, NextCallSealed, FinishSealed DEF FrameStep
<1>4. ASSUME AccountNext, WorldStep
      PROVE  SealInv'
  <2>1. ASSUME NEW to \in Owners \cup {Reach}, Sale(to)
        PROVE  SealInv'
    BY <1>4, <2>1, ElsewhereSteps DEF Sale
  <2>2. CASE AccountTick
    <3>1. /\ ~frame.entered /\ UNCHANGED <<holds, granted, frame>>
      BY <2>2 DEF AccountTick, worldVars
    <3>2. \A p \in Pieces : holds'[p] <= 1
      BY <3>1, SmallPieces
    <3>3. \A x \in Things : holds'[x] >= holds[x]
      BY <3>1 DEF AccountTypeOK
    <3>4. QED
      BY <1>4, <3>1, <3>2, <3>3, BetweenSteps
  <2>3. QED
    BY <1>4, <2>1, <2>2, OutsideSteps DEF WorldStep
<1>5. QED
  BY <1>1, <1>2, <1>3, <1>4 DEF AccountNext

LEMMA SealInit == AccountInit => ManifestExact /\ SealInv
  BY DEF AccountInit, AccountDeployed, ManifestExact, SealInv, MeasureInv, FloorInv, TheFloorHolds, NoFrame, Things, Assets

-----------------------------------------------------------------------------
(* The keys.                                                               *)

\* What KeyInv says of one key.
Faithful(k) ==
    /\ sessionOf[k].mark <= xfers
    /\ sessionOf[k].active /\ sessionOf[k].mark = xfers =>
          /\ allowed[k].live
          /\ allowed[k].by = holder
          /\ allowed[k].expires = sessionOf[k].expires
          /\ allowed[k].cap = sessionOf[k].spendCap
          /\ allowed[k].out = sessionOf[k].spent
          /\ allowed[k].out <= allowed[k].cap
          /\ \A t \in Targets : OnTargets(k, t) => t \in allowed[k].targets
          /\ \A w \in Words : OnSelectors(k, w) => w \in allowed[k].words
    /\ \A e \in 0..MaxEpoch :
          /\ \A t \in Targets : <<k, e, t>> \in sessionTarget => e <= sessionEpoch[k]
          /\ \A w \in Words : <<k, e, w>> \in sessionSelector => e <= sessionEpoch[k]

LEMMA KeyInvFaithful == KeyInv <=> \A k \in Keys : Faithful(k)
  BY DEF KeyInv, Faithful

LEMMA FaithfulKept ==
  ASSUME NEW k \in Keys, Faithful(k), UNCHANGED <<xfers, holder>>,
         sessionOf'[k] = sessionOf[k], allowed'[k] = allowed[k], sessionEpoch'[k] = sessionEpoch[k],
         \A e, t : <<k, e, t>> \in sessionTarget' <=> <<k, e, t>> \in sessionTarget,
         \A e, w : <<k, e, w>> \in sessionSelector' <=> <<k, e, w>> \in sessionSelector
  PROVE  Faithful(k)'
  BY DEF Faithful, OnTargets, OnSelectors

LEMMA GrantFaithful ==
  ASSUME AccountTypeOK, AccountTypeOK', KeyInv, NEW c \in Owners, NEW k \in Keys,
         NEW expires \in 0..MaxTime, NEW cap \in Caps, NEW ts \in TargetLists, NEW ws \in WordLists,
         GrantSession(c, k, expires, cap, ts, ws)
  PROVE  KeyInv'
<1> DEFINE s == [expires |-> expires, spendCap |-> cap, spent |-> 0, active |-> TRUE, mark |-> xfers]
           g == [live |-> TRUE, by |-> c, expires |-> expires, cap |-> cap, out |-> 0,
                 targets |-> ts, words |-> ws]
           e == sessionEpoch[k] + 1
<1>1. /\ sessionOf' = [sessionOf EXCEPT ![k] = s] /\ allowed' = [allowed EXCEPT ![k] = g]
      /\ sessionEpoch' = [sessionEpoch EXCEPT ![k] = e]
      /\ UNCHANGED <<holder, xfers>> /\ c = holder
      /\ sessionTarget' = sessionTarget \cup {<<k, sessionEpoch'[k], t>> : t \in ts}
      /\ sessionSelector' = sessionSelector \cup {<<k, sessionEpoch'[k], w>> : w \in ws}
  BY DEF GrantSession, EpochAfter, IsSigner, tokenVars
<1>2. /\ s.expires = expires /\ s.spendCap = cap /\ s.spent = 0 /\ s.active /\ s.mark = xfers
      /\ g.live /\ g.by = c /\ g.expires = expires /\ g.cap = cap /\ g.out = 0
      /\ g.targets = ts /\ g.words = ws
  OBVIOUS
<1>3. /\ sessionEpoch[k] \in 0..MaxEpoch /\ MaxEpoch \in Nat /\ xfers \in Nat /\ cap \in Nat
      /\ sessionEpoch'[k] = e /\ e \in 0..MaxEpoch
      /\ sessionOf'[k] = s /\ allowed'[k] = g
  BY <1>1, AccountAssumption DEF AccountTypeOK, GrantSession
<1> HIDE DEF s, g
<1>4. \A e2 \in 0..MaxEpoch : /\ \A t \in Targets : <<k, e2, t>> \in sessionTarget => e2 <= sessionEpoch[k]
                              /\ \A w \in Words : <<k, e2, w>> \in sessionSelector => e2 <= sessionEpoch[k]
  BY DEF KeyInv
<1>5. ASSUME NEW e2 \in 0..MaxEpoch, NEW t \in Targets, <<k, e2, t>> \in sessionTarget'
      PROVE  e2 <= e /\ (e2 = e => t \in ts)
  BY <1>1, <1>3, <1>4, <1>5
<1>6. ASSUME NEW e2 \in 0..MaxEpoch, NEW w \in Words, <<k, e2, w>> \in sessionSelector'
      PROVE  e2 <= e /\ (e2 = e => w \in ws)
  BY <1>1, <1>3, <1>4, <1>6
<1>7. Faithful(k)'
  BY <1>1, <1>2, <1>3, <1>5, <1>6 DEF Faithful, OnTargets, OnSelectors
<1>8. ASSUME NEW j \in Keys, j # k
      PROVE  Faithful(j)'
  <2>1. sessionOf'[j] = sessionOf[j] /\ allowed'[j] = allowed[j] /\ sessionEpoch'[j] = sessionEpoch[j]
    BY <1>1, <1>8 DEF AccountTypeOK
  <2>2. \A d, t : <<j, d, t>> \in sessionTarget' <=> <<j, d, t>> \in sessionTarget
    BY <1>1, <1>8
  <2>3. \A d, w : <<j, d, w>> \in sessionSelector' <=> <<j, d, w>> \in sessionSelector
    BY <1>1, <1>8
  <2>4. QED
    BY <1>1, <2>1, <2>2, <2>3, KeyInvFaithful, FaithfulKept
<1>9. QED
  BY <1>7, <1>8 DEF KeyInv, Faithful

LEMMA RevokeFaithful ==
  ASSUME AccountTypeOK, AccountTypeOK', KeyInv, NEW c \in Owners, NEW k \in Keys, RevokeSession(c, k)
  PROVE  KeyInv'
<1>1. /\ sessionOf' = [sessionOf EXCEPT ![k] = NoSession]
      /\ allowed' = [allowed EXCEPT ![k] = NothingAllowed]
      /\ sessionEpoch' = [sessionEpoch EXCEPT ![k] = sessionEpoch[k] + 1]
      /\ UNCHANGED <<holder, xfers, sessionTarget, sessionSelector>>
  BY DEF RevokeSession, EpochAfter, tokenVars
<1>2. ~NoSession.active /\ NoSession.mark = 0 /\ xfers \in Nat /\ sessionOf'[k] = NoSession
  BY <1>1 DEF NoSession, AccountTypeOK
<1>3. sessionEpoch'[k] = sessionEpoch[k] + 1 /\ sessionEpoch[k] \in Nat
  BY <1>1, AccountAssumption DEF AccountTypeOK
<1>4. Faithful(k)'
  <2>1. \A e \in 0..MaxEpoch :
          /\ \A t \in Targets : <<k, e, t>> \in sessionTarget' => e <= sessionEpoch'[k]
          /\ \A w \in Words : <<k, e, w>> \in sessionSelector' => e <= sessionEpoch'[k]
    BY <1>1, <1>3, AccountAssumption DEF KeyInv
  <2>2. QED
    BY <1>1, <1>2, <2>1 DEF Faithful
<1>5. ASSUME NEW j \in Keys, j # k
      PROVE  Faithful(j)'
  <2>1. sessionOf'[j] = sessionOf[j] /\ allowed'[j] = allowed[j] /\ sessionEpoch'[j] = sessionEpoch[j]
    BY <1>1, <1>5 DEF AccountTypeOK
  <2>2. QED
    BY <1>1, <2>1, KeyInvFaithful, FaithfulKept
<1>6. QED
  BY <1>4, <1>5 DEF KeyInv, Faithful

\* What a session may do when it acts, and that it stays within its terms.
LEMMA SessionFaithful ==
  ASSUME AccountTypeOK, AccountTypeOK', KeyInv, NEW k \in Keys, NEW call \in Call,
         ExecuteAsSession(k, call)
  PROVE  /\ KeyInv'
         /\ frame'.entered /\ frame'.key = k
         /\ allowed[k].live /\ allowed[k].by = holder /\ now <= allowed[k].expires
         /\ frame'.to \in allowed[k].targets /\ frame'.word \in allowed[k].words
         /\ frame'.word = "approve" => frame'.spender \in allowed[k].targets
         /\ allowed'[k].out <= allowed[k].cap
<1> DEFINE s == sessionOf[k]
           g == allowed[k]
           v == call.value
<1>1. /\ sessionOf' = [sessionOf EXCEPT ![k] = [s EXCEPT !.spent = s.spent + v]]
      /\ allowed' = [allowed EXCEPT ![k] = [g EXCEPT !.out = g.out + v]]
      /\ UNCHANGED <<holder, xfers, sessionEpoch, sessionTarget, sessionSelector>>
      /\ KeyIsCurrent(k) /\ WithinTerms(k, call) /\ Enter(k, call)
  BY DEF ExecuteAsSession, tokenVars
<1>2. s \in Session /\ g \in Grant /\ v \in Nat
  BY CallType DEF AccountTypeOK
<1>3. /\ g.live /\ g.by = holder /\ g.expires = s.expires /\ g.cap = s.spendCap
      /\ g.out = s.spent /\ g.out <= g.cap
      /\ \A t \in Targets : OnTargets(k, t) => t \in g.targets
      /\ \A w \in Words : OnSelectors(k, w) => w \in g.words
      /\ s.expires >= now
  BY <1>1 DEF KeyInv, KeyIsCurrent
<1>4. g.out + v <= g.cap
  BY <1>1, <1>2, <1>3 DEF WithinTerms, Grant, Session
<1>5. sessionOf'[k] = [s EXCEPT !.spent = s.spent + v]
  BY <1>1 DEF AccountTypeOK
<1>6. allowed'[k] = [g EXCEPT !.out = g.out + v]
  BY <1>1 DEF AccountTypeOK
<1>7. /\ sessionOf'[k].expires = s.expires /\ sessionOf'[k].spendCap = s.spendCap
      /\ sessionOf'[k].spent = s.spent + v /\ sessionOf'[k].mark = s.mark
      /\ sessionOf'[k].active = s.active
  BY <1>2, <1>5 DEF Session
<1>8. /\ allowed'[k].live = g.live /\ allowed'[k].by = g.by /\ allowed'[k].expires = g.expires
      /\ allowed'[k].cap = g.cap /\ allowed'[k].out = g.out + v
      /\ allowed'[k].targets = g.targets /\ allowed'[k].words = g.words
  BY <1>2, <1>6 DEF Grant
<1>9. Faithful(k)'
  BY <1>1, <1>3, <1>4, <1>7, <1>8 DEF Faithful, OnTargets, OnSelectors, KeyInv
<1>10. ASSUME NEW j \in Keys, j # k
       PROVE  Faithful(j)'
  <2>1. sessionOf'[j] = sessionOf[j] /\ allowed'[j] = allowed[j]
    BY <1>1, <1>10 DEF AccountTypeOK
  <2>2. QED
    BY <1>1, <2>1, KeyInvFaithful, FaithfulKept
<1>11. KeyInv'
  BY <1>9, <1>10 DEF KeyInv, Faithful
<1>12. /\ frame'.entered /\ frame'.key = k /\ frame'.to = call.to /\ frame'.word = call.word
       /\ frame'.spender = call.spender
  BY <1>1 DEF Enter
<1>13. now <= g.expires
  BY <1>2, <1>3 DEF Grant, AccountTypeOK
<1>14. call.word = "approve" => call.spender \in Targets
  BY AccountAssumption DEF Call, Targets
<1>15. QED
  BY <1>1, <1>3, <1>4, <1>8, <1>11, <1>12, <1>13, <1>14, CallType DEF WithinTerms

LEMMA KeyNext ==
  ASSUME AccountTypeOK, AccountTypeOK', KeyInv, [AccountNext]_accountVars
  PROVE  KeyInv'
<1>1. CASE UNCHANGED <<holder, xfers, sessionVars>>
  BY <1>1 DEF KeyInv, OnTargets, OnSelectors, sessionVars
<1>2. ASSUME NEW to \in Owners \cup {Reach}, Sale(to)
      PROVE  KeyInv'
  <2>1. \A k \in Keys : sessionOf[k].mark \in Nat /\ xfers \in Nat
    BY AccountAssumption DEF AccountTypeOK, Session
  <2>2. xfers' = xfers + 1 /\ UNCHANGED <<sessionOf, sessionEpoch, sessionTarget, sessionSelector>>
    BY <1>2 DEF Sale
  <2>3. \A k \in Keys : sessionOf[k].mark < xfers'
    BY <2>1, <2>2 DEF KeyInv
  <2>4. \A k \in Keys : sessionOf'[k].mark <= xfers' /\ sessionOf'[k].mark # xfers'
    BY <2>1, <2>2, <2>3
  <2>5. QED
    BY <2>2, <2>4 DEF KeyInv
<1>3. ASSUME NEW c \in Owners, HolderStep(c)
      PROVE  KeyInv'
  <2>1. ASSUME \/ \E until \in 0..MaxTime : Seal(c, until)
               \/ \E a \in Assets : Guard(c, a) \/ Unguard(c, a)
               \/ \E p \in Pieces : GuardNFT(c, p)
               \/ \E i \in DOMAIN pieces : UnguardNFT(c, i)
               \/ \E call \in Call : ExecuteAsHolder(c, call)
        PROVE  KeyInv'
    BY <1>1, <2>1 DEF Seal, Guard, Unguard, GuardNFT, UnguardNFT, ExecuteAsHolder, tokenVars
  <2>2. QED
    BY <1>3, <2>1, GrantFaithful, RevokeFaithful DEF HolderStep
<1>4. ASSUME FrameStep
      PROVE  KeyInv'
  <2>1. ASSUME NEW call \in Call, NextCall(call)
        PROVE  KeyInv'
    BY <1>1, <2>1 DEF NextCall, tokenVars
  <2>2. CASE Finish
    BY <1>1, <2>2 DEF Finish, tokenVars
  <2>3. QED
    BY <1>4, <2>1, <2>2, SessionFaithful DEF FrameStep
<1>5. ASSUME WorldStep
      PROVE  KeyInv'
  <2>1. ASSUME WorldStep, ~\E to \in Owners \cup {Reach} : Sale(to)
        PROVE  UNCHANGED <<holder, xfers, sessionVars>>
    BY <2>1 DEF WorldStep, Leaves, Trusts, Helps, Arrives, Blinks, AccountTick, tokenVars
  <2>2. QED
    BY <1>1, <1>2, <1>5, <2>1
<1>6. QED
  BY <1>1, <1>3, <1>4, <1>5 DEF AccountNext, accountVars, tokenVars

LEMMA KeyInit == AccountInit => KeyInv
<1> SUFFICES ASSUME AccountInit, NEW k \in Keys PROVE Faithful(k)
  BY DEF KeyInv, Faithful
<1>1. sessionOf[k] = NoSession /\ xfers = 0 /\ sessionTarget = {} /\ sessionSelector = {}
  BY DEF AccountInit, AccountDeployed
<1>2. QED
  BY <1>1 DEF Faithful, NoSession

-----------------------------------------------------------------------------
(* The theorems.                                                           *)

AccountInv == AccountTypeOK /\ ManifestExact /\ SealInv /\ KeyInv

LEMMA AccountInvInit == AccountInit => AccountInv
  BY AccountInitType, SealInit, KeyInit DEF AccountInv

LEMMA AccountInvNext == AccountInv /\ [AccountNext]_accountVars => AccountInv'
  BY AccountTypeNext, ExactNext, SealNext, KeyNext DEF AccountInv

\* Every variable of the account stays in its type.
THEOREM AccountTyped == AccountSpec => []AccountTypeOK
<1>1. AccountInv => AccountTypeOK
  BY DEF AccountInv
<1>2. QED
  BY <1>1, AccountInvInit, AccountInvNext, PTL DEF AccountSpec

\* The manifest's list and map agree through every guard and every
\* swap-and-pop of unguard.
THEOREM ManifestIsExact == AccountSpec => []ManifestExact
<1>1. AccountInv => ManifestExact
  BY DEF AccountInv
<1>2. QED
  BY <1>1, AccountInvInit, AccountInvNext, PTL DEF AccountSpec

\* Nothing the seal stands for has left between transactions, whatever was
\* called, by whom, and from inside what.
THEOREM SealKeepsItsFloor == AccountSpec => []TheFloorHolds
<1>1. AccountInv => TheFloorHolds
  BY DEF AccountInv, SealInv
<1>2. QED
  BY <1>1, AccountInvInit, AccountInvNext, PTL DEF AccountSpec

\* Measured frames: the lists stand still and nothing unreadable is called.
THEOREM FramesAreMeasured == AccountSpec => [](MeasureInv /\ FloorInv)
<1>1. AccountInv => MeasureInv /\ FloorInv
  BY DEF AccountInv, SealInv
<1>2. QED
  BY <1>1, AccountInvInit, AccountInvNext, PTL DEF AccountSpec

\* A key acts only for the holder who granted it, uninterrupted, and within
\* that holder's last terms.
THEOREM KeysServe == AccountSpec => KeysServeTheirGrantor
<1>1. ASSUME AccountInv, AccountInv', [AccountNext]_accountVars
      PROVE  [\A k \in Keys : ~frame.entered /\ frame'.entered /\ frame'.key = k =>
                 /\ allowed[k].live
                 /\ allowed[k].by = holder
                 /\ now <= allowed[k].expires
                 /\ frame'.to \in allowed[k].targets
                 /\ frame'.word \in allowed[k].words
                 /\ frame'.word = "approve" => frame'.spender \in allowed[k].targets
                 /\ allowed'[k].out <= allowed[k].cap]_accountVars
  <2>1. SUFFICES ASSUME AccountNext, NEW k \in Keys, ~frame.entered, frame'.entered, frame'.key = k
                 PROVE  \E call \in Call : ExecuteAsSession(k, call)
    BY <1>1, SessionFaithful DEF AccountInv
  <2>2. k # NoOne /\ frame' # frame
    BY <2>1, AccountAssumption
  <2>3. ASSUME NEW c \in Owners, HolderStep(c)
        PROVE  FALSE
    <3>1. ASSUME NEW call \in Call, ExecuteAsHolder(c, call)
          PROVE  FALSE
      BY <2>1, <2>2, <3>1 DEF ExecuteAsHolder, Enter
    <3>2. QED
      BY <2>2, <2>3, <3>1 DEF HolderStep, Seal, Guard, Unguard, GuardNFT, UnguardNFT, RevokeSession, GrantSession
  <2>4. ~WorldStep
    BY <2>2 DEF WorldStep, Leaves, Trusts, Helps, Arrives, Blinks, Sale, AccountTick
  <2>5. ASSUME NEW j \in Keys, NEW call \in Call, ExecuteAsSession(j, call)
        PROVE  j = k
    BY <2>1, <2>5 DEF ExecuteAsSession, Enter
  <2>6. ~Finish /\ \A call \in Call : ~NextCall(call)
    BY <2>1 DEF NextCall, Finish
  <2>7. \E j \in Keys, call \in Call : ExecuteAsSession(j, call)
    BY <2>1, <2>3, <2>4, <2>6, Zenon DEF AccountNext, FrameStep
  <2>8. QED
    BY <2>5, <2>7
<1>2. QED
  BY <1>1, AccountInvInit, AccountInvNext, PTL DEF AccountSpec, KeysServeTheirGrantor

-----------------------------------------------------------------------------
(* The archive.  A message is written once, at the end, so what is known   *)
(* of the messages before it stays known.                                  *)

ArchiveInv == ArchiveTypeOK /\ InBlockOrder /\ RoomChain /\ TokenChain

\* One log is the other with a message more at the end.
OneMore(log, longer) ==
    /\ Len(log) \in Nat
    /\ Len(longer) = Len(log) + 1
    /\ \A i \in 1..Len(log) : longer[i] = log[i]

LEMMA OfRoomFinite ==
  ASSUME NEW log, NEW r, NEW n \in Nat
  PROVE  IsFiniteSet(OfRoom(log, r, n)) /\ Cardinality(OfRoom(log, r, n)) \in Nat
<1>1. IsFiniteSet(1..n)
  BY FS_Interval
<1>2. OfRoom(log, r, n) \subseteq 1..n
  BY DEF OfRoom
<1>3. QED
  BY <1>1, <1>2, FS_Subset, FS_CardinalityType

\* What Say adds, and what it leaves as it was.
LEMMA SayAppends ==
  ASSUME ArchiveTypeOK, NEW room \in Rooms, NEW from \in Tokens, Say(room, from)
  PROVE  /\ OneMore(said, said')
         /\ said'[Len(said) + 1] = Logged(room, from)
         /\ Logged(room, from) \in Message
         /\ said'[Len(said) + 1].room = room /\ said'[Len(said) + 1].from = from
         /\ said'[Len(said) + 1].block = Block
         /\ said' \in Seq(Message)
         /\ Block' = Block /\ Block \in Nat \ {0}
<1>1. Block \in Nat \ {0} /\ Block' = Block
  BY ClockAssumption DEF ArchiveTypeOK, Block, Say
<1>2. Logged(room, from) \in Message
  BY <1>1 DEF ArchiveTypeOK, Logged, Message
<1> DEFINE m == Logged(room, from)
<1>3. said' = Append(said, m) /\ said \in Seq(Message) /\ m \in Message
  BY <1>2 DEF Say, ArchiveTypeOK
<1> HIDE DEF m
<1>4. /\ Len(said) \in Nat
      /\ said' \in Seq(Message)
      /\ Len(said') = Len(said) + 1
      /\ \A i \in 1..Len(said) : said'[i] = said[i]
      /\ said'[Len(said) + 1] = m
  BY <1>3
<1>5. m.room = room /\ m.from = from /\ m.block = Block
  BY DEF m, Logged
<1>6. QED
  BY <1>1, <1>2, <1>4, <1>5 DEF m, OneMore

LEMMA OneMoreOfRoom ==
  ASSUME NEW log, NEW longer, OneMore(log, longer), NEW r
  PROVE  /\ \A n \in 0..Len(log) : OfRoom(longer, r, n) = OfRoom(log, r, n)
         /\ longer[Len(longer)].room = r =>
               OfRoom(longer, r, Len(longer)) = OfRoom(log, r, Len(log)) \cup {Len(longer)}
         /\ longer[Len(longer)].room # r =>
               OfRoom(longer, r, Len(longer)) = OfRoom(log, r, Len(log))
<1> DEFINE n == Len(log)
<1>1. n \in Nat /\ Len(longer) = n + 1 /\ \A i \in 1..n : longer[i] = log[i]
  BY DEF OneMore
<1> HIDE DEF n
<1>2. ASSUME NEW k \in 0..n
      PROVE  {i \in 1..k : longer[i].room = r} = {i \in 1..k : log[i].room = r}
  BY <1>1
<1>3. longer[n + 1].room = r =>
        {i \in 1..(n + 1) : longer[i].room = r} = {i \in 1..n : log[i].room = r} \cup {n + 1}
  BY <1>1
<1>4. longer[n + 1].room # r =>
        {i \in 1..(n + 1) : longer[i].room = r} = {i \in 1..n : log[i].room = r}
  BY <1>1
<1>5. QED
  BY <1>1, <1>2, <1>3, <1>4 DEF OfRoom, n

LEMMA OneMoreOfToken ==
  ASSUME NEW log, NEW longer, OneMore(log, longer), NEW id
  PROVE  /\ \A n \in 0..Len(log) : OfToken(longer, id, n) = OfToken(log, id, n)
         /\ longer[Len(longer)].from = id =>
               OfToken(longer, id, Len(longer)) = OfToken(log, id, Len(log)) \cup {Len(longer)}
         /\ longer[Len(longer)].from # id =>
               OfToken(longer, id, Len(longer)) = OfToken(log, id, Len(log))
<1> DEFINE n == Len(log)
<1>1. n \in Nat /\ Len(longer) = n + 1 /\ \A i \in 1..n : longer[i] = log[i]
  BY DEF OneMore
<1> HIDE DEF n
<1>2. ASSUME NEW k \in 0..n
      PROVE  {i \in 1..k : longer[i].from = id} = {i \in 1..k : log[i].from = id}
  BY <1>1
<1>3. longer[n + 1].from = id =>
        {i \in 1..(n + 1) : longer[i].from = id} = {i \in 1..n : log[i].from = id} \cup {n + 1}
  BY <1>1
<1>4. longer[n + 1].from # id =>
        {i \in 1..(n + 1) : longer[i].from = id} = {i \in 1..n : log[i].from = id}
  BY <1>1
<1>5. QED
  BY <1>1, <1>2, <1>3, <1>4 DEF OfToken, n

\* A pointer at a message of the log still points at it in the longer log,
\* and the block of the last message points at it.
LEMMA OneMorePointer ==
  ASSUME NEW log, NEW longer, OneMore(log, longer), NEW S \in SUBSET (1..Len(log))
  PROVE  /\ \A block : PointsTo(log, block, S) => PointsTo(longer, block, S)
         /\ PointsTo(longer, longer[Len(longer)].block, S \cup {Len(longer)})
<1> DEFINE n == Len(log)
<1>1. n \in Nat /\ Len(longer) = n + 1 /\ \A i \in 1..n : longer[i] = log[i]
  BY DEF OneMore
<1>2. \A j \in S \cup {Len(longer)} : j <= Len(longer)
  BY <1>1
<1>3. QED
  BY <1>1, <1>2 DEF PointsTo

LEMMA SayTyped ==
  ASSUME ArchiveTypeOK, NEW room \in Rooms, NEW from \in Tokens, Say(room, from)
  PROVE  ArchiveTypeOK'
<1>1. Len(said') <= MaxSaid /\ now' \in 0..MaxTime
  BY SayAppends, ArchiveAssumption DEF Say, ArchiveTypeOK, OneMore
<1>2. last' \in [Rooms -> Nat]
  BY SayAppends DEF Say, ArchiveTypeOK
<1>3. count' \in [Rooms -> Nat]
  BY DEF Say, ArchiveTypeOK
<1>4. lastSpoke' \in [Tokens -> Nat]
  BY SayAppends DEF Say, ArchiveTypeOK
<1>5. QED
  BY <1>1, <1>2, <1>3, <1>4, SayAppends DEF ArchiveTypeOK

LEMMA SayInOrder ==
  ASSUME ArchiveTypeOK, InBlockOrder, NEW room \in Rooms, NEW from \in Tokens,
         Say(room, from)
  PROVE  InBlockOrder'
<1>1. SUFFICES ASSUME NEW i \in 1..Len(said')
               PROVE  /\ 0 < said'[i].block /\ said'[i].block <= Block
                      /\ \A j \in 1..i : said'[j].block <= said'[i].block
  BY SayAppends DEF InBlockOrder, OneMore
<1>2. CASE i \in 1..Len(said)
  <2>1. \A j \in 1..i : j \in 1..Len(said) /\ said'[j] = said[j]
    BY <1>2, SayAppends DEF OneMore
  <2>2. said'[i] = said[i]
    BY <1>2, SayAppends DEF OneMore
  <2>3. QED
    BY <1>2, <2>1, <2>2 DEF InBlockOrder
<1>3. CASE i = Len(said) + 1
  <2>1. said'[i].block = Block
    BY <1>3, SayAppends DEF OneMore
  <2>2. \A j \in 1..Len(said) : said'[j].block <= Block
    BY SayAppends DEF InBlockOrder, OneMore
  <2>3. \A j \in 1..i : j \in 1..Len(said) \/ j = i
    BY <1>3, SayAppends DEF OneMore
  <2>4. QED
    BY <2>1, <2>2, <2>3, SayAppends DEF OneMore
<1>4. QED
  BY <1>1, <1>2, <1>3, SayAppends DEF OneMore

LEMMA SayRoomChain ==
  ASSUME ArchiveTypeOK, RoomChain, NEW room \in Rooms, NEW from \in Tokens, Say(room, from)
  PROVE  RoomChain'
<1> DEFINE n == Len(said)
           log == said'
<1>0. /\ n \in Nat /\ Len(log) = n + 1
      /\ \A i \in 1..n : log[i] = said[i]
      /\ log[n + 1] = Logged(room, from) /\ log[n + 1].room = room /\ log[n + 1].block = Block
      /\ last \in [Rooms -> Nat] /\ count \in [Rooms -> Nat]
      /\ OneMore(said, log)
  BY SayAppends DEF ArchiveTypeOK, OneMore
<1>1. \A r : \A k \in 0..n : OfRoom(said, r, k) \in SUBSET (1..n)
  BY <1>0 DEF OfRoom
<1> HIDE DEF log
<1>2. ASSUME NEW i \in 1..Len(log)
      PROVE  /\ PointsTo(log, log[i].prev, OfRoom(log, log[i].room, i - 1))
             /\ log[i].seq = Cardinality(OfRoom(log, log[i].room, i - 1)) + 1
  <2>1. CASE i \in 1..n
    <3>1. /\ PointsTo(said, said[i].prev, OfRoom(said, said[i].room, i - 1))
          /\ said[i].seq = Cardinality(OfRoom(said, said[i].room, i - 1)) + 1
      BY <2>1 DEF RoomChain
    <3>2. i - 1 \in 0..n /\ log[i] = said[i]
      BY <2>1, <1>0
    <3>3. OfRoom(log, log[i].room, i - 1) = OfRoom(said, said[i].room, i - 1)
      <4>1. ASSUME NEW r PROVE \A k \in 0..n : OfRoom(log, r, k) = OfRoom(said, r, k)
        BY <1>0, OneMoreOfRoom
      <4>2. QED
        BY <3>2, <4>1
    <3>4. OfRoom(said, said[i].room, i - 1) \in SUBSET (1..n)
      BY <1>1, <3>2
    <3>5. QED
      BY <1>0, <3>1, <3>2, <3>3, <3>4, OneMorePointer
  <2>2. CASE i = n + 1
    <3>1. i - 1 = n /\ log[i] = Logged(room, from) /\ log[i].room = room
      BY <2>2, <1>0
    <3>2. log[i].prev = last[room] /\ log[i].seq = count[room] + 1
      BY <3>1 DEF Logged
    <3>3. /\ PointsTo(said, last[room], OfRoom(said, room, n))
          /\ count[room] = Cardinality(OfRoom(said, room, n))
      BY DEF RoomChain
    <3>4. n \in 0..n
      BY <1>0
    <3>5. /\ OfRoom(log, room, n) = OfRoom(said, room, n)
          /\ OfRoom(said, room, n) \in SUBSET (1..n)
      BY <1>0, <1>1, <3>4, OneMoreOfRoom
    <3>6. QED
      BY <1>0, <3>1, <3>2, <3>3, <3>5, OneMorePointer
  <2>3. QED
    BY <2>1, <2>2, <1>0
<1>3. ASSUME NEW r \in Rooms
      PROVE  /\ PointsTo(log, last'[r], OfRoom(log, r, Len(log)))
             /\ count'[r] = Cardinality(OfRoom(log, r, Len(log)))
  <2>0. n \in 0..n
    BY <1>0
  <2>1. /\ PointsTo(said, last[r], OfRoom(said, r, n))
        /\ count[r] = Cardinality(OfRoom(said, r, n))
        /\ OfRoom(said, r, n) \in SUBSET (1..n)
    BY <1>1, <2>0 DEF RoomChain
  <2>2. CASE r = room
    <3>1. OfRoom(log, r, Len(log)) = OfRoom(said, r, n) \cup {n + 1}
      BY <1>0, <2>2, OneMoreOfRoom
    <3>2. last'[r] = log[Len(log)].block /\ count'[r] = count[r] + 1
      BY <2>2, <1>0 DEF Say
    <3>3. PointsTo(log, last'[r], OfRoom(log, r, Len(log)))
      <4>1. PointsTo(log, log[Len(log)].block, OfRoom(said, r, n) \cup {Len(log)})
        BY <1>0, <2>1, OneMorePointer
      <4>2. QED
        BY <1>0, <3>1, <3>2, <4>1
    <3>4. Cardinality(OfRoom(said, r, n) \cup {n + 1}) = Cardinality(OfRoom(said, r, n)) + 1
      <4>1. n + 1 \notin OfRoom(said, r, n)
        BY <1>0, <2>1
      <4>2. QED
        BY <1>0, <4>1, OfRoomFinite, FS_AddElement
    <3>5. QED
      BY <2>1, <3>1, <3>2, <3>3, <3>4
  <2>3. CASE r # room
    <3>1. OfRoom(log, r, Len(log)) = OfRoom(said, r, n)
      BY <1>0, <2>3, OneMoreOfRoom
    <3>2. last'[r] = last[r] /\ count'[r] = count[r]
      BY <2>3, <1>0 DEF Say
    <3>3. QED
      BY <1>0, <2>1, <3>1, <3>2, OneMorePointer
  <2>4. QED
    BY <2>2, <2>3
<1>4. QED
  BY <1>2, <1>3 DEF RoomChain, log

LEMMA SayTokenChain ==
  ASSUME ArchiveTypeOK, TokenChain, NEW room \in Rooms, NEW from \in Tokens, Say(room, from)
  PROVE  TokenChain'
<1> DEFINE n == Len(said)
           log == said'
<1>0. /\ n \in Nat /\ Len(log) = n + 1
      /\ \A i \in 1..n : log[i] = said[i]
      /\ log[n + 1] = Logged(room, from) /\ log[n + 1].from = from /\ log[n + 1].block = Block
      /\ lastSpoke \in [Tokens -> Nat]
      /\ OneMore(said, log)
  BY SayAppends DEF ArchiveTypeOK, OneMore
<1>1. \A id : \A k \in 0..n : OfToken(said, id, k) \in SUBSET (1..n)
  BY <1>0 DEF OfToken
<1> HIDE DEF log
<1>2. ASSUME NEW i \in 1..Len(log)
      PROVE  PointsTo(log, log[i].prevFrom, OfToken(log, log[i].from, i - 1))
  <2>1. CASE i \in 1..n
    <3>1. PointsTo(said, said[i].prevFrom, OfToken(said, said[i].from, i - 1))
      BY <2>1 DEF TokenChain
    <3>2. i - 1 \in 0..n /\ log[i] = said[i]
      BY <2>1, <1>0
    <3>3. OfToken(log, log[i].from, i - 1) = OfToken(said, said[i].from, i - 1)
      <4>1. ASSUME NEW id PROVE \A k \in 0..n : OfToken(log, id, k) = OfToken(said, id, k)
        BY <1>0, OneMoreOfToken
      <4>2. QED
        BY <3>2, <4>1
    <3>4. OfToken(said, said[i].from, i - 1) \in SUBSET (1..n)
      BY <1>1, <3>2
    <3>5. QED
      BY <1>0, <3>1, <3>2, <3>3, <3>4, OneMorePointer
  <2>2. CASE i = n + 1
    <3>1. i - 1 = n /\ log[i] = Logged(room, from) /\ log[i].from = from
      BY <2>2, <1>0
    <3>2. log[i].prevFrom = lastSpoke[from]
      BY <3>1 DEF Logged
    <3>3. PointsTo(said, lastSpoke[from], OfToken(said, from, n))
      BY DEF TokenChain
    <3>4. n \in 0..n
      BY <1>0
    <3>5. /\ OfToken(log, from, n) = OfToken(said, from, n)
          /\ OfToken(said, from, n) \in SUBSET (1..n)
      BY <1>0, <1>1, <3>4, OneMoreOfToken
    <3>6. QED
      BY <1>0, <3>1, <3>2, <3>3, <3>5, OneMorePointer
  <2>3. QED
    BY <2>1, <2>2, <1>0
<1>3. ASSUME NEW id \in Tokens
      PROVE  PointsTo(log, lastSpoke'[id], OfToken(log, id, Len(log)))
  <2>0. n \in 0..n
    BY <1>0
  <2>1. /\ PointsTo(said, lastSpoke[id], OfToken(said, id, n))
        /\ OfToken(said, id, n) \in SUBSET (1..n)
    BY <1>1, <2>0 DEF TokenChain
  <2>2. CASE id = from
    <3>1. OfToken(log, id, Len(log)) = OfToken(said, id, n) \cup {n + 1}
      BY <1>0, <2>2, OneMoreOfToken
    <3>2. lastSpoke'[id] = log[Len(log)].block
      BY <2>2, <1>0 DEF Say
    <3>3. QED
      BY <1>0, <2>1, <3>1, <3>2, OneMorePointer
  <2>3. CASE id # from
    <3>1. OfToken(log, id, Len(log)) = OfToken(said, id, n)
      BY <1>0, <2>3, OneMoreOfToken
    <3>2. lastSpoke'[id] = lastSpoke[id]
      BY <2>3, <1>0 DEF Say
    <3>3. QED
      BY <1>0, <2>1, <3>1, <3>2, OneMorePointer
  <2>4. QED
    BY <2>2, <2>3
<1>4. QED
  BY <1>2, <1>3 DEF TokenChain, log

LEMMA SayInv ==
  ASSUME ArchiveInv, NEW room \in Rooms, NEW from \in Tokens, Say(room, from)
  PROVE  ArchiveInv'
  BY SayTyped, SayInOrder, SayRoomChain, SayTokenChain DEF ArchiveInv

LEMMA NextBlockInv ==
  ASSUME ArchiveInv, NextBlock
  PROVE  ArchiveInv'
<1>1. ArchiveTypeOK'
  BY ClockAssumption DEF ArchiveInv, ArchiveTypeOK, NextBlock, Passes, saidVars
<1>2. InBlockOrder'
  <2>1. Block' = Block + 1 /\ Block \in Nat
    BY ClockAssumption DEF ArchiveInv, ArchiveTypeOK, NextBlock, Passes, Block
  <2>2. said' = said /\ said \in Seq(Message)
    BY DEF ArchiveInv, ArchiveTypeOK, NextBlock, saidVars
  <2>3. \A i \in 1..Len(said) : said[i].block \in Nat
    <3>1. \A i \in 1..Len(said) : said[i] \in Message
      BY <2>2
    <3>2. QED
      BY <3>1 DEF Message
  <2>4. QED
    BY <2>1, <2>2, <2>3 DEF ArchiveInv, InBlockOrder
<1>3. RoomChain' /\ TokenChain'
  BY DEF ArchiveInv, RoomChain, TokenChain, NextBlock, saidVars
<1>4. QED
  BY <1>1, <1>2, <1>3 DEF ArchiveInv

LEMMA ArchiveInitInv == ArchiveInit => ArchiveInv
<1> SUFFICES ASSUME ArchiveInit PROVE ArchiveInv
  OBVIOUS
<1>1. ArchiveTypeOK
  BY ClockAssumption, ArchiveAssumption DEF ArchiveInit, ArchiveDeployed, ArchiveTypeOK
<1>2. Len(said) = 0 /\ 1..Len(said) = {}
  BY DEF ArchiveInit, ArchiveDeployed
<1>3. InBlockOrder
  BY <1>2 DEF InBlockOrder
<1>4. ASSUME NEW x PROVE OfRoom(said, x, Len(said)) = {} /\ OfToken(said, x, Len(said)) = {}
  BY <1>2 DEF OfRoom, OfToken
<1>5. RoomChain /\ TokenChain
  BY <1>2, <1>4, FS_EmptySet DEF RoomChain, TokenChain, PointsTo, ArchiveInit, ArchiveDeployed
<1>6. QED
  BY <1>1, <1>3, <1>5 DEF ArchiveInv

LEMMA ArchiveNextInv == ArchiveInv /\ [ArchiveNext]_archiveVars => ArchiveInv'
<1>1. ASSUME ArchiveInv, UNCHANGED archiveVars PROVE ArchiveInv'
  BY <1>1 DEF ArchiveInv, ArchiveTypeOK, InBlockOrder, RoomChain, TokenChain, archiveVars,
              saidVars, Block
<1>2. QED
  BY <1>1, SayInv, NextBlockInv DEF ArchiveNext

\* The message before the oldest one a block holds for a room is in a block
\* before it.
LEMMA ChainPointsBack == ArchiveInv => OldestPointsBack
<1> SUFFICES ASSUME ArchiveInv, NEW i \in 1..Len(said),
                    \A j \in OfRoom(said, said[i].room, i - 1) : said[j].block # said[i].block
             PROVE  said[i].prev < said[i].block
  BY DEF OldestPointsBack
<1> DEFINE before == OfRoom(said, said[i].room, i - 1)
<1>1. Len(said) \in Nat /\ said \in Seq(Message)
  BY DEF ArchiveInv, ArchiveTypeOK
<1>2. \A j \in 1..Len(said) : said[j].block \in Nat
  <2>1. \A j \in 1..Len(said) : said[j] \in Message
    BY <1>1
  <2>2. QED
    BY <2>1 DEF Message
<1>3. PointsTo(said, said[i].prev, before)
  BY DEF ArchiveInv, RoomChain
<1>4. 0 < said[i].block /\ \A j \in 1..i : said[j].block <= said[i].block
  BY DEF ArchiveInv, InBlockOrder
<1>5. \A j \in before : j \in 1..i /\ j \in 1..Len(said)
  BY <1>1 DEF OfRoom
<1> HIDE DEF before
<1>6. CASE before = {} /\ said[i].prev = 0
  BY <1>4, <1>6
<1>7. ASSUME NEW j \in before, said[i].prev = said[j].block
      PROVE  said[i].prev < said[i].block
  BY <1>2, <1>4, <1>5, <1>7 DEF before
<1>8. QED
  BY <1>3, <1>6, <1>7 DEF PointsTo

-----------------------------------------------------------------------------
(* The rooms.  Groups are founded in order, so the key a founder is given   *)
(* is one nobody was ever in, invited to or shown out of.                  *)

KindInv ==
    /\ \A r \in Rooms : kind[r] = IS_GROUP <=> \E i \in 1..groups : r = GroupKey(i)
    /\ \A r \in Rooms : kind[r] = IS_PAIR => r \in PairKeys

\* Only a group has a door, and whoever was shown out of it holds no
\* invitation.
DoorInv ==
    /\ \A r \in Rooms, id \in Tokens :
          <<r, id>> \in inRoom \cup invited \cup shownOut => kind[r] = IS_GROUP
    /\ \A id \in Tokens : \A r \in RoomsOf(id) : kind[r] = IS_GROUP
    /\ shownOut \cap invited = {}

\* A key that may be read as somebody's was published by that one.
SealKeyInv == \A id \in Tokens : sealOwner[id] = None \/ <<id, sealOwner[id]>> \in published

RoomsInv == KindInv /\ DoorInv /\ MembersCounted /\ ShownOutStaysOut /\ RoomsRemembered

ParleyInv == ParleyTypeOK /\ ArchiveInv /\ RoomsInv /\ SaidWhereOneBelongs /\ SealKeyInv

LEMMA RoomKeys ==
  /\ \A i : GroupKey(i) \notin PairKeys /\ GroupKey(i) # COMMONS
  /\ \A i, j : GroupKey(i) = GroupKey(j) => i = j
  /\ \A i \in 1..MaxGroups : GroupKey(i) \in Rooms
  /\ \A r \in Rooms : r \in PairKeys \/ r \in GroupKeys \/ r = COMMONS
  /\ \A a, b \in Tokens : a # b => PairKey(a, b) \in PairKeys /\ PairKey(a, b) \in Rooms
  /\ \A a, b : PairKey(a, b)[3] = {a, b}
<1>1. \A i, a, b : GroupKey(i) # PairKey(a, b) /\ GroupKey(i) # COMMONS
  BY DEF GroupKey, PairKey, COMMONS, IS_GROUP, IS_PAIR, IS_COMMONS
<1>2. \A i, j : GroupKey(i) = GroupKey(j) => i = j
  BY DEF GroupKey
<1>3. \A r \in PairKeys : \E a, b : r = PairKey(a, b)
  BY DEF PairKeys
<1>4. ASSUME NEW a \in Tokens, NEW b \in Tokens, a # b
      PROVE  PairKey(a, b) \in PairKeys
  <2>1. <<a, b>> \in {q \in Tokens \X Tokens : q[1] # q[2]}
    BY <1>4
  <2>2. QED
    BY <2>1 DEF PairKeys
<1>5. \A a, b : PairKey(a, b)[3] = {a, b}
  BY DEF PairKey
<1>6. \A i \in 1..MaxGroups : GroupKey(i) \in GroupKeys
  BY DEF GroupKeys
<1>7. QED
  BY <1>1, <1>2, <1>3, <1>4, <1>5, <1>6, ParleyAssumption

\* The tokens inside a room.
Inside(inside, r) == {id \in Tokens : <<r, id>> \in inside}

LEMMA InsideFinite ==
  ASSUME NEW inside, NEW r
  PROVE  IsFiniteSet(Inside(inside, r)) /\ Cardinality(Inside(inside, r)) \in Nat
<1>1. Inside(inside, r) \subseteq Tokens
  BY DEF Inside
<1>2. QED
  BY <1>1, ParleyAssumption, FS_Subset, FS_CardinalityType

LEMMA OneMoreInside ==
  ASSUME NEW inside, NEW room, NEW id \in Tokens, <<room, id>> \notin inside
  PROVE  /\ Cardinality(Inside(inside \cup {<<room, id>>}, room))
              = Cardinality(Inside(inside, room)) + 1
         /\ \A r : r # room => Inside(inside \cup {<<room, id>>}, r) = Inside(inside, r)
<1>1. Inside(inside \cup {<<room, id>>}, room) = Inside(inside, room) \cup {id}
  BY DEF Inside
<1>2. id \notin Inside(inside, room)
  BY DEF Inside
<1>3. \A r : r # room => Inside(inside \cup {<<room, id>>}, r) = Inside(inside, r)
  BY DEF Inside
<1>4. QED
  BY <1>1, <1>2, <1>3, InsideFinite, FS_AddElement

LEMMA OneLessInside ==
  ASSUME NEW inside, NEW room, NEW id \in Tokens, <<room, id>> \in inside
  PROVE  /\ Cardinality(Inside(inside, room)) \in Nat \ {0}
         /\ Cardinality(Inside(inside \ {<<room, id>>}, room))
              = Cardinality(Inside(inside, room)) - 1
         /\ \A r : r # room => Inside(inside \ {<<room, id>>}, r) = Inside(inside, r)
<1> DEFINE less == Inside(inside \ {<<room, id>>}, room)
<1>1. Inside(inside, room) = less \cup {id} /\ id \notin less
  BY DEF Inside
<1>2. IsFiniteSet(less) /\ Cardinality(less) \in Nat
  BY InsideFinite
<1>3. \A r : r # room => Inside(inside \ {<<room, id>>}, r) = Inside(inside, r)
  BY DEF Inside
<1> HIDE DEF less
<1>4. Cardinality(Inside(inside, room)) = Cardinality(less) + 1
  BY <1>1, <1>2, FS_AddElement
<1>5. /\ Cardinality(Inside(inside, room)) \in Nat \ {0}
      /\ Cardinality(less) = Cardinality(Inside(inside, room)) - 1
  BY <1>2, <1>4
<1>6. QED
  BY <1>3, <1>5 DEF less

\* What _enter writes on the list: the room once, the others as they were.
LEMMA EnterRemembers ==
  ASSUME ParleyTypeOK, NEW room \in Rooms, NEW id \in Tokens, visited' = Remembered(room, id)
  PROVE  /\ visited' \in [Tokens -> Seq(Rooms)]
         /\ RoomsOf(id)' = RoomsOf(id) \cup {room}
         /\ \A other \in Tokens : other # id => visited'[other] = visited[other]
         /\ (\A i, j \in 1..Len(visited[id]) : visited[id][i] = visited[id][j] => i = j)
               => \A i, j \in 1..Len(visited'[id]) : visited'[id][i] = visited'[id][j] => i = j
<1>0. visited \in [Tokens -> Seq(Rooms)] /\ visited[id] \in Seq(Rooms)
  BY DEF ParleyTypeOK
<1>1. CASE room \in RoomsOf(id)
  <2>1. visited' = visited
    BY <1>1 DEF Remembered
  <2>2. QED
    BY <1>0, <1>1, <2>1 DEF RoomsOf
<1>2. CASE room \notin RoomsOf(id)
  <2> DEFINE list == visited[id]
             longer == Append(list, room)
  <2>1. visited' = [visited EXCEPT ![id] = longer]
    BY <1>2 DEF Remembered
  <2>2. longer \in Seq(Rooms) /\ visited'[id] = longer
    BY <1>0, <2>1
  <2>3. \A other \in Tokens : other # id => visited'[other] = visited[other]
    BY <1>0, <2>1
  <2>4. visited' \in [Tokens -> Seq(Rooms)]
    BY <1>0, <2>1, <2>2
  <2>5. /\ Len(list) \in Nat /\ Len(longer) = Len(list) + 1
        /\ \A i \in 1..Len(list) : longer[i] = list[i]
        /\ longer[Len(list) + 1] = room
    BY <1>0
  <2>6. \A i \in 1..Len(list) : list[i] # room
    BY <1>2 DEF RoomsOf
  <2>7. RoomsOf(id) = {list[i] : i \in 1..Len(list)}
    BY DEF RoomsOf
  <2>8. RoomsOf(id)' = {longer[i] : i \in 1..Len(longer)}
    BY <2>2 DEF RoomsOf
  <2> HIDE DEF list, longer
  <2>9. {longer[i] : i \in 1..Len(longer)} = {list[i] : i \in 1..Len(list)} \cup {room}
    <3>1. 1..Len(longer) = (1..Len(list)) \cup {Len(list) + 1}
      BY <2>5
    <3>2. QED
      BY <2>5, <3>1
  <2>10. (\A i, j \in 1..Len(list) : list[i] = list[j] => i = j)
            => \A i, j \in 1..Len(longer) : longer[i] = longer[j] => i = j
    <3> SUFFICES ASSUME \A i, j \in 1..Len(list) : list[i] = list[j] => i = j,
                        NEW i \in 1..Len(longer), NEW j \in 1..Len(longer), longer[i] = longer[j]
                 PROVE  i = j
      OBVIOUS
    <3>1. CASE i \in 1..Len(list) /\ j \in 1..Len(list)
      BY <2>5, <3>1
    <3>2. CASE i = Len(list) + 1 /\ j \in 1..Len(list)
      BY <2>5, <2>6, <3>2
    <3>3. CASE j = Len(list) + 1 /\ i \in 1..Len(list)
      BY <2>5, <2>6, <3>3
    <3>4. QED
      BY <2>5, <3>1, <3>2, <3>3
  <2>11. QED
    BY <2>2, <2>3, <2>4, <2>7, <2>8, <2>9, <2>10 DEF list
<1>3. QED
  BY <1>1, <1>2

\* A token that is not inside walks in.
LEMMA EnterInv ==
  ASSUME ParleyTypeOK, RoomsInv, NEW room \in Rooms, NEW id \in Tokens,
         EnterRoom(room, id), <<room, id>> \notin inRoom,
         kind'[room] = IS_GROUP,
         \A r \in Rooms : kind[r] = IS_GROUP => kind'[r] = IS_GROUP
  PROVE  /\ inRoom' \subseteq Rooms \X Tokens
         /\ members' \in [Rooms -> Nat]
         /\ visited' \in [Tokens -> Seq(Rooms)]
         /\ \A r \in Rooms, x \in Tokens : <<r, x>> \in inRoom' => kind'[r] = IS_GROUP
         /\ \A x \in Tokens : \A r \in RoomsOf(x)' : r \in Rooms /\ kind'[r] = IS_GROUP
         /\ \A x \in Tokens : RoomsOf(x) \subseteq RoomsOf(x)'
         /\ MembersCounted'
         /\ \A r \in Rooms, x \in Tokens : <<r, x>> \in inRoom' => r \in RoomsOf(x)'
         /\ \A x \in Tokens : \A i, j \in 1..Len(visited'[x]) :
               visited'[x][i] = visited'[x][j] => i = j
<1>0. /\ inRoom' = inRoom \cup {<<room, id>>}
      /\ members' = [members EXCEPT ![room] = @ + 1]
      /\ visited' = Remembered(room, id)
  BY DEF EnterRoom
<1>1. inRoom' \subseteq Rooms \X Tokens /\ members' \in [Rooms -> Nat]
  BY <1>0 DEF ParleyTypeOK
<1>2. /\ visited' \in [Tokens -> Seq(Rooms)]
      /\ RoomsOf(id)' = RoomsOf(id) \cup {room}
      /\ \A other \in Tokens : other # id => visited'[other] = visited[other]
      /\ \A i, j \in 1..Len(visited'[id]) : visited'[id][i] = visited'[id][j] => i = j
  BY <1>0, EnterRemembers DEF RoomsInv, RoomsRemembered
<1>3. \A x \in Tokens : x # id => RoomsOf(x)' = RoomsOf(x)
  BY <1>2 DEF RoomsOf
<1>4. \A x \in Tokens : RoomsOf(x) \subseteq RoomsOf(x)'
  BY <1>2, <1>3
<1>5. \A x \in Tokens : \A r \in RoomsOf(x) : r \in Rooms
  BY DEF ParleyTypeOK, RoomsOf
<1>6. \A x \in Tokens : \A r \in RoomsOf(x)' : r \in Rooms /\ kind'[r] = IS_GROUP
  BY <1>2, <1>3, <1>5 DEF RoomsInv, DoorInv
<1>7. \A r \in Rooms, x \in Tokens : <<r, x>> \in inRoom' => kind'[r] = IS_GROUP
  BY <1>0 DEF RoomsInv, DoorInv
<1>8. \A r \in Rooms, x \in Tokens : <<r, x>> \in inRoom' => r \in RoomsOf(x)'
  BY <1>0, <1>2, <1>4 DEF RoomsInv, RoomsRemembered
<1>9. \A x \in Tokens : \A i, j \in 1..Len(visited'[x]) : visited'[x][i] = visited'[x][j] => i = j
  BY <1>2 DEF RoomsInv, RoomsRemembered
<1>10. MembersCounted'
  <2>1. \A r \in Rooms : members[r] = Cardinality(Inside(inRoom, r))
    BY DEF RoomsInv, MembersCounted, Inside
  <2>2. ASSUME NEW r \in Rooms PROVE members'[r] = Cardinality(Inside(inRoom', r))
    <3>0. /\ Cardinality(Inside(inRoom', room)) = Cardinality(Inside(inRoom, room)) + 1
          /\ r # room => Inside(inRoom', r) = Inside(inRoom, r)
      BY <1>0, OneMoreInside
    <3>1. members'[r] = IF r = room THEN members[room] + 1 ELSE members[r]
      BY <1>0 DEF ParleyTypeOK
    <3>2. QED
      BY <2>1, <3>0, <3>1
  <2>3. QED
    BY <2>2 DEF MembersCounted, Inside
<1>11. QED
  BY <1>1, <1>2, <1>4, <1>6, <1>7, <1>8, <1>9, <1>10

\* A token that is inside goes out.
LEMMA DepartInv ==
  ASSUME ParleyTypeOK, RoomsInv, NEW room \in Rooms, NEW id \in Tokens,
         Depart(room, id), <<room, id>> \in inRoom
  PROVE  /\ inRoom' \subseteq inRoom
         /\ <<room, id>> \notin inRoom'
         /\ members' \in [Rooms -> Nat]
         /\ MembersCounted'
<1>0. /\ inRoom' = inRoom \ {<<room, id>>}
      /\ members' = [members EXCEPT ![room] = IF @ # 0 THEN @ - 1 ELSE @]
  BY DEF Depart
<1>1. members' \in [Rooms -> Nat]
  BY <1>0 DEF ParleyTypeOK
<1>2. \A r \in Rooms : members[r] = Cardinality(Inside(inRoom, r))
  BY DEF RoomsInv, MembersCounted, Inside
<1>3. ASSUME NEW r \in Rooms PROVE members'[r] = Cardinality(Inside(inRoom', r))
  <2>1. /\ Cardinality(Inside(inRoom, room)) \in Nat \ {0}
        /\ Cardinality(Inside(inRoom', room)) = Cardinality(Inside(inRoom, room)) - 1
        /\ r # room => Inside(inRoom', r) = Inside(inRoom, r)
    BY <1>0, OneLessInside
  <2>2. members[room] \in Nat \ {0}
    BY <1>2, <2>1
  <2>3. members'[r] = IF r = room THEN members[room] - 1 ELSE members[r]
    BY <1>0, <2>2 DEF ParleyTypeOK
  <2>4. QED
    BY <1>2, <2>1, <2>3
<1>4. MembersCounted'
  BY <1>3 DEF MembersCounted, Inside
<1>5. QED
  BY <1>0, <1>1, <1>4

DoorsTyped ==
    /\ kind \in [Rooms -> 0..2]
    /\ steward \in [Rooms -> Tokens \cup {None}]
    /\ openDoor \in [Rooms -> BOOLEAN]
    /\ members \in [Rooms -> Nat]
    /\ groups \in 0..MaxGroups
    /\ inRoom \subseteq Rooms \X Tokens
    /\ invited \subseteq Rooms \X Tokens
    /\ visited \in [Tokens -> Seq(Rooms)]
    /\ shownOut \subseteq Rooms \X Tokens

\* What no step takes back: a room that is something stays what it is, and
\* a list keeps what is on it.
RoomsKept ==
    /\ \A r \in Rooms : kind[r] # IS_COMMONS => kind'[r] = kind[r]
    /\ \A id \in Tokens : RoomsOf(id) \subseteq RoomsOf(id)'

LEMMA FoundInv ==
  ASSUME ParleyTypeOK, RoomsInv, NEW c, NEW by \in Tokens, NEW open \in BOOLEAN,
         Found(c, by, open)
  PROVE  DoorsTyped' /\ RoomsInv' /\ RoomsKept
<1> DEFINE key == GroupKey(groups + 1)
<1>0. /\ groups \in Nat /\ groups < MaxGroups /\ MaxGroups \in Nat
      /\ groups' = groups + 1
      /\ kind' = [kind EXCEPT ![key] = IS_GROUP]
      /\ steward' = [steward EXCEPT ![key] = by]
      /\ openDoor' = [openDoor EXCEPT ![key] = open]
      /\ EnterRoom(key, by)
      /\ invited' = invited /\ shownOut' = shownOut
  BY ParleyAssumption DEF Found, ParleyTypeOK
<1>1. key \in Rooms /\ key \notin PairKeys
  BY <1>0, RoomKeys
<1>2. \A i \in 1..groups : key # GroupKey(i)
  BY <1>0, RoomKeys
<1>3. kind[key] # IS_GROUP /\ kind[key] # IS_PAIR /\ kind[key] \in 0..2
  BY <1>1, <1>2 DEF RoomsInv, KindInv, ParleyTypeOK
<1> HIDE DEF key
<1>4. /\ kind' \in [Rooms -> 0..2]
      /\ \A r \in Rooms : kind'[r] = IF r = key THEN IS_GROUP ELSE kind[r]
  BY <1>0, <1>1 DEF ParleyTypeOK, IS_GROUP
<1>5. \A r \in Rooms : kind[r] = IS_GROUP => kind'[r] = IS_GROUP
  BY <1>4
<1>6. <<key, by>> \notin inRoom
  BY <1>1, <1>3 DEF RoomsInv, DoorInv
<1>7. /\ inRoom' \subseteq Rooms \X Tokens
      /\ members' \in [Rooms -> Nat]
      /\ visited' \in [Tokens -> Seq(Rooms)]
      /\ \A r \in Rooms, x \in Tokens : <<r, x>> \in inRoom' => kind'[r] = IS_GROUP
      /\ \A x \in Tokens : \A r \in RoomsOf(x)' : r \in Rooms /\ kind'[r] = IS_GROUP
      /\ \A x \in Tokens : RoomsOf(x) \subseteq RoomsOf(x)'
      /\ MembersCounted'
      /\ \A r \in Rooms, x \in Tokens : <<r, x>> \in inRoom' => r \in RoomsOf(x)'
      /\ \A x \in Tokens : \A i, j \in 1..Len(visited'[x]) :
            visited'[x][i] = visited'[x][j] => i = j
  BY <1>0, <1>1, <1>4, <1>5, <1>6, EnterInv
<1>8. KindInv'
  <2>1. \A r \in Rooms : kind'[r] = IS_GROUP <=> \E i \in 1..groups' : r = GroupKey(i)
    <3>1. \A r \in Rooms : kind[r] = IS_GROUP <=> \E i \in 1..groups : r = GroupKey(i)
      BY DEF RoomsInv, KindInv
    <3>2. 1..groups' = (1..groups) \cup {groups + 1}
      BY <1>0
    <3>3. \A r : (\E i \in 1..groups' : r = GroupKey(i))
                    <=> r = key \/ \E i \in 1..groups : r = GroupKey(i)
      BY <3>2 DEF key
    <3>4. QED
      BY <1>4, <3>1, <3>3
  <2>2. \A r \in Rooms : kind'[r] = IS_PAIR => r \in PairKeys
    BY <1>4 DEF RoomsInv, KindInv, IS_PAIR, IS_GROUP
  <2>3. QED
    BY <2>1, <2>2 DEF KindInv
<1>9. DoorInv'
  BY <1>0, <1>5, <1>7 DEF RoomsInv, DoorInv
<1>10. ShownOutStaysOut'
  <2>1. \A x \in Tokens : <<key, x>> \notin shownOut
    BY <1>1, <1>3 DEF RoomsInv, DoorInv
  <2>2. \A r \in Rooms, x \in Tokens : r # key => openDoor'[r] = openDoor[r]
                                            /\ (<<r, x>> \in inRoom' => <<r, x>> \in inRoom)
    BY <1>0 DEF EnterRoom, ParleyTypeOK
  <2>3. QED
    BY <1>0, <2>1, <2>2 DEF RoomsInv, ShownOutStaysOut
<1>11. RoomsRemembered'
  <2>1. \A x \in Tokens : RoomsOf(x)' \subseteq GroupKeys
    <3>1. \A r \in Rooms : kind'[r] = IS_GROUP => r \in GroupKeys
      BY <1>0, <1>8 DEF KindInv, GroupKeys
    <3>2. QED
      BY <1>7, <3>1
  <2>2. QED
    BY <1>7, <2>1 DEF RoomsRemembered
<1>12. DoorsTyped'
  BY <1>0, <1>1, <1>4, <1>7 DEF ParleyTypeOK, DoorsTyped
<1>13. RoomsKept
  BY <1>3, <1>4, <1>7 DEF RoomsKept, ParleyTypeOK, IS_COMMONS, IS_GROUP, IS_PAIR
<1>14. QED
  BY <1>7, <1>8, <1>9, <1>10, <1>11, <1>12, <1>13 DEF RoomsInv

LEMMA JoinInv ==
  ASSUME ParleyTypeOK, RoomsInv, NEW c, NEW room \in Rooms, NEW id \in Tokens, Join(c, room, id)
  PROVE  DoorsTyped' /\ RoomsInv' /\ RoomsKept
<1>0. /\ kind[room] = IS_GROUP
      /\ <<room, id>> \notin inRoom
      /\ openDoor[room] \/ <<room, id>> \in invited
      /\ EnterRoom(room, id)
      /\ kind' = kind /\ steward' = steward /\ openDoor' = openDoor /\ groups' = groups
      /\ invited' = invited /\ shownOut' = shownOut
  BY DEF Join, MayJoin
<1>1. /\ inRoom' \subseteq Rooms \X Tokens
      /\ members' \in [Rooms -> Nat]
      /\ visited' \in [Tokens -> Seq(Rooms)]
      /\ \A r \in Rooms, x \in Tokens : <<r, x>> \in inRoom' => kind'[r] = IS_GROUP
      /\ \A x \in Tokens : \A r \in RoomsOf(x)' : r \in Rooms /\ kind'[r] = IS_GROUP
      /\ \A x \in Tokens : RoomsOf(x) \subseteq RoomsOf(x)'
      /\ MembersCounted'
      /\ \A r \in Rooms, x \in Tokens : <<r, x>> \in inRoom' => r \in RoomsOf(x)'
      /\ \A x \in Tokens : \A i, j \in 1..Len(visited'[x]) :
            visited'[x][i] = visited'[x][j] => i = j
  BY <1>0, EnterInv
<1>2. KindInv'
  BY <1>0 DEF RoomsInv, KindInv
<1>3. DoorInv'
  BY <1>0, <1>1 DEF RoomsInv, DoorInv
<1>4. ShownOutStaysOut'
  <2>1. <<room, id>> \in shownOut => <<room, id>> \notin invited
    BY DEF RoomsInv, DoorInv
  <2>2. inRoom' = inRoom \cup {<<room, id>>}
    BY <1>0 DEF EnterRoom
  <2>3. QED
    BY <1>0, <2>1, <2>2 DEF RoomsInv, ShownOutStaysOut
<1>5. RoomsRemembered'
  <2>1. \A r \in Rooms : kind[r] = IS_GROUP => r \in GroupKeys
    BY ParleyAssumption DEF RoomsInv, KindInv, GroupKeys, ParleyTypeOK
  <2>2. \A x \in Tokens : RoomsOf(x)' \subseteq GroupKeys
    BY <1>0, <1>1, <2>1
  <2>3. QED
    BY <1>1, <2>2 DEF RoomsRemembered
<1>6. DoorsTyped' /\ RoomsKept
  BY <1>0, <1>1 DEF ParleyTypeOK, DoorsTyped, RoomsKept
<1>7. QED
  BY <1>1, <1>2, <1>3, <1>4, <1>5, <1>6 DEF RoomsInv

LEMMA OutInv ==
  ASSUME ParleyTypeOK, RoomsInv, NEW room \in Rooms, NEW id \in Tokens,
         Depart(room, id), <<room, id>> \in inRoom,
         UNCHANGED <<kind, steward, openDoor, groups, visited>>,
         \/ UNCHANGED <<invited, shownOut>>
         \/ /\ invited' = invited \ {<<room, id>>}
            /\ shownOut' = shownOut \cup {<<room, id>>}
  PROVE  DoorsTyped' /\ RoomsInv' /\ RoomsKept
<1>0. /\ inRoom' \subseteq inRoom
      /\ <<room, id>> \notin inRoom'
      /\ members' \in [Rooms -> Nat]
      /\ MembersCounted'
  BY DepartInv
<1>1. kind[room] = IS_GROUP
  BY DEF RoomsInv, DoorInv
<1>2. invited' \subseteq invited /\ shownOut' \subseteq shownOut \cup {<<room, id>>}
  OBVIOUS
<1>3. KindInv'
  BY DEF RoomsInv, KindInv
<1>4. \A x \in Tokens : RoomsOf(x)' = RoomsOf(x)
  BY DEF RoomsOf
<1>5. DoorInv'
  <2>1. \A r \in Rooms, x \in Tokens :
            <<r, x>> \in inRoom' \cup invited' \cup shownOut' => kind'[r] = IS_GROUP
    BY <1>0, <1>1, <1>2 DEF RoomsInv, DoorInv
  <2>2. shownOut' \cap invited' = {}
    BY DEF RoomsInv, DoorInv
  <2>3. QED
    BY <1>4, <2>1, <2>2 DEF RoomsInv, DoorInv
<1>6. ShownOutStaysOut'
  BY <1>0, <1>2 DEF RoomsInv, ShownOutStaysOut
<1>7. RoomsRemembered'
  BY <1>0, <1>4 DEF RoomsInv, RoomsRemembered
<1>8. DoorsTyped' /\ RoomsKept
  BY <1>0, <1>2, <1>4 DEF ParleyTypeOK, DoorsTyped, RoomsKept
<1>9. QED
  BY <1>0, <1>3, <1>5, <1>6, <1>7, <1>8 DEF RoomsInv

LEMMA InviteInv ==
  ASSUME ParleyTypeOK, RoomsInv, NEW c, NEW room \in Rooms, NEW by \in Tokens,
         NEW id \in Tokens, Invite(c, room, by, id)
  PROVE  DoorsTyped' /\ RoomsInv' /\ RoomsKept
<1>0. /\ kind[room] = IS_GROUP
      /\ invited' = invited \cup {<<room, id>>}
      /\ shownOut' = shownOut \ {<<room, id>>}
      /\ UNCHANGED <<kind, steward, openDoor, members, groups, inRoom, visited>>
  BY DEF Invite, Keeps
<1>1. \A x \in Tokens : RoomsOf(x)' = RoomsOf(x)
  BY <1>0 DEF RoomsOf
<1>2. DoorInv'
  <2>1. \A r \in Rooms, x \in Tokens :
            <<r, x>> \in inRoom' \cup invited' \cup shownOut' => kind'[r] = IS_GROUP
    BY <1>0 DEF RoomsInv, DoorInv
  <2>2. shownOut' \cap invited' = {}
    BY <1>0 DEF RoomsInv, DoorInv
  <2>3. QED
    BY <1>0, <1>1, <2>1, <2>2 DEF RoomsInv, DoorInv
<1>3. KindInv' /\ MembersCounted' /\ ShownOutStaysOut' /\ RoomsRemembered'
  BY <1>0, <1>1 DEF RoomsInv, KindInv, MembersCounted, ShownOutStaysOut, RoomsRemembered
<1>4. DoorsTyped' /\ RoomsKept
  BY <1>0, <1>1 DEF ParleyTypeOK, DoorsTyped, RoomsKept
<1>5. QED
  BY <1>2, <1>3, <1>4 DEF RoomsInv

LEMMA QuietInv ==
  ASSUME ParleyTypeOK, RoomsInv, UNCHANGED doorVars
  PROVE  DoorsTyped' /\ RoomsInv' /\ RoomsKept
<1>1. \A x \in Tokens : RoomsOf(x)' = RoomsOf(x)
  BY DEF RoomsOf, doorVars
<1>2. DoorsTyped' /\ RoomsKept
  BY <1>1 DEF ParleyTypeOK, DoorsTyped, RoomsKept, doorVars
<1>3. KindInv' /\ DoorInv'
  BY <1>1 DEF RoomsInv, KindInv, DoorInv, doorVars
<1>4. MembersCounted' /\ ShownOutStaysOut' /\ RoomsRemembered'
  BY <1>1 DEF RoomsInv, MembersCounted, ShownOutStaysOut, RoomsRemembered, doorVars
<1>5. QED
  BY <1>2, <1>3, <1>4 DEF RoomsInv

LEMMA WhisperInv ==
  ASSUME ParleyTypeOK, RoomsInv, NEW c, NEW from \in Tokens, NEW to \in Tokens,
         Whisper(c, from, to)
  PROVE  /\ DoorsTyped' /\ RoomsInv' /\ RoomsKept
         /\ PairKey(from, to) \in Rooms /\ Say(PairKey(from, to), from)
         /\ kind'[PairKey(from, to)] = IS_PAIR /\ from \in PairKey(from, to)[3]
<1> DEFINE key == PairKey(from, to)
<1>0. /\ from # to
      /\ kind' = [kind EXCEPT ![key] = IS_PAIR]
      /\ Say(key, from)
      /\ UNCHANGED <<steward, openDoor, members, groups, inRoom, invited, visited, shownOut>>
  BY DEF Whisper
<1>1. key \in Rooms /\ key \in PairKeys /\ from \in key[3]
  BY <1>0, RoomKeys
<1>2. \A i : GroupKey(i) # key
  BY <1>1, RoomKeys
<1> HIDE DEF key
<1>3. /\ kind' \in [Rooms -> 0..2]
      /\ \A r \in Rooms : kind'[r] = IF r = key THEN IS_PAIR ELSE kind[r]
  BY <1>0, <1>1 DEF ParleyTypeOK, IS_PAIR
<1>4. kind[key] # IS_GROUP /\ kind[key] \in 0..2
  BY <1>1, <1>2 DEF RoomsInv, KindInv, ParleyTypeOK
<1>5. KindInv'
  <2>1. \A r \in Rooms : kind'[r] = IS_GROUP <=> kind[r] = IS_GROUP
    BY <1>3, <1>4 DEF IS_GROUP, IS_PAIR
  <2>2. QED
    BY <1>0, <1>1, <1>3, <2>1 DEF RoomsInv, KindInv
<1>6. \A x \in Tokens : RoomsOf(x)' = RoomsOf(x)
  BY <1>0 DEF RoomsOf
<1>7. \A r \in Rooms : kind[r] = IS_GROUP => kind'[r] = IS_GROUP
  BY <1>3, <1>4
<1>8. DoorInv'
  <2>1. \A x \in Tokens : \A r \in RoomsOf(x) : r \in Rooms
    BY DEF ParleyTypeOK, RoomsOf
  <2>2. QED
    BY <1>0, <1>6, <1>7, <2>1 DEF RoomsInv, DoorInv
<1>9. MembersCounted' /\ ShownOutStaysOut' /\ RoomsRemembered'
  BY <1>0, <1>6 DEF RoomsInv, MembersCounted, ShownOutStaysOut, RoomsRemembered
<1>10. DoorsTyped'
  BY <1>0, <1>3 DEF ParleyTypeOK, DoorsTyped
<1>11. RoomsKept
  BY <1>3, <1>4, <1>6 DEF RoomsKept, ParleyTypeOK, IS_COMMONS, IS_GROUP, IS_PAIR
<1>12. QED
  BY <1>0, <1>1, <1>3, <1>5, <1>8, <1>9, <1>10, <1>11 DEF RoomsInv, key

\* Where one belongs, as SaidWhereOneBelongs has it.
Belongs(kinds, lists, m) ==
    \/ m.room = COMMONS
    \/ kinds[m.room] = IS_GROUP /\ m.room \in {lists[m.from][i] : i \in 1..Len(lists[m.from])}
    \/ kinds[m.room] = IS_PAIR /\ m.from \in m.room[3]

LEMMA BelongsStill ==
  ASSUME RoomsKept, NEW m \in Message, Belongs(kind, visited, m)
  PROVE  Belongs(kind', visited', m)
<1>1. m.room \in Rooms /\ m.from \in Tokens
  BY DEF Message
<1>2. RoomsOf(m.from) \subseteq RoomsOf(m.from)'
  BY <1>1 DEF RoomsKept
<1>3. \A k : kind[m.room] = k /\ k # IS_COMMONS => kind'[m.room] = k
  BY <1>1 DEF RoomsKept
<1>4. CASE kind[m.room] = IS_GROUP /\ m.room \in RoomsOf(m.from)
  BY <1>2, <1>3, <1>4 DEF Belongs, RoomsOf, IS_COMMONS, IS_GROUP
<1>5. CASE kind[m.room] = IS_PAIR /\ m.from \in m.room[3]
  BY <1>3, <1>5 DEF Belongs, IS_COMMONS, IS_PAIR
<1>6. CASE m.room = COMMONS
  BY <1>6 DEF Belongs
<1>7. QED
  BY <1>4, <1>5, <1>6 DEF Belongs, RoomsOf

\* Messages stay where their tokens belonged, and a new one is where its
\* token belongs.
LEMMA SaidStays ==
  ASSUME ParleyTypeOK, SaidWhereOneBelongs, RoomsKept, said' = said
  PROVE  SaidWhereOneBelongs'
<1>1. \A i \in 1..Len(said) : said[i] \in Message
  BY DEF ParleyTypeOK, ArchiveTypeOK
<1>2. \A i \in 1..Len(said) : Belongs(kind, visited, said[i])
  BY DEF SaidWhereOneBelongs, RoomsOf, Belongs
<1>3. \A i \in 1..Len(said) : Belongs(kind', visited', said[i])
  BY <1>1, <1>2, BelongsStill
<1>4. QED
  BY <1>3 DEF SaidWhereOneBelongs, RoomsOf, Belongs

LEMMA SaidOneMore ==
  ASSUME ParleyTypeOK, SaidWhereOneBelongs, RoomsKept, NEW room \in Rooms,
         NEW from \in Tokens, Say(room, from),
         \/ room = COMMONS
         \/ kind'[room] = IS_GROUP /\ room \in RoomsOf(from)'
         \/ kind'[room] = IS_PAIR /\ from \in room[3]
  PROVE  SaidWhereOneBelongs'
<1>1. /\ Len(said) \in Nat /\ Len(said') = Len(said) + 1
      /\ \A i \in 1..Len(said) : said'[i] = said[i]
      /\ said'[Len(said) + 1].room = room /\ said'[Len(said) + 1].from = from
  BY SayAppends DEF ParleyTypeOK, OneMore
<1>2. \A i \in 1..Len(said) : said[i] \in Message
  BY DEF ParleyTypeOK, ArchiveTypeOK
<1>3. \A i \in 1..Len(said) : Belongs(kind, visited, said[i])
  BY DEF SaidWhereOneBelongs, RoomsOf, Belongs
<1>4. \A i \in 1..Len(said) : Belongs(kind', visited', said[i])
  BY <1>2, <1>3, BelongsStill
<1>5. Belongs(kind', visited', said'[Len(said) + 1])
  BY <1>1 DEF Belongs, RoomsOf
<1>6. \A i \in 1..Len(said') : Belongs(kind', visited', said'[i])
  BY <1>1, <1>4, <1>5
<1>7. QED
  BY <1>6 DEF SaidWhereOneBelongs, RoomsOf, Belongs

LEMMA SpeakInv ==
  ASSUME ParleyTypeOK, RoomsInv, SaidWhereOneBelongs, NEW c, NEW room \in Rooms,
         NEW from \in Tokens, Speak(c, room, from)
  PROVE  DoorsTyped' /\ RoomsInv' /\ SaidWhereOneBelongs'
<1>1. UNCHANGED doorVars /\ Say(room, from) /\ MaySpeak(room, from)
  BY DEF Speak
<1>2. DoorsTyped' /\ RoomsInv' /\ RoomsKept
  BY <1>1, QuietInv
<1>3. RoomsOf(from) \subseteq RoomsOf(from)' /\ kind' = kind
  BY <1>1, <1>2 DEF RoomsKept, doorVars
<1>4. room = COMMONS \/ (kind[room] = IS_GROUP /\ room \in RoomsOf(from))
  BY <1>1 DEF MaySpeak, RoomsInv, RoomsRemembered
<1>5. QED
  BY <1>1, <1>2, <1>3, <1>4, SaidOneMore

-----------------------------------------------------------------------------
(* What the rooms decide leaves the archive's own steps on the chain.      *)

LEMMA ParleyStepArchives == ParleyNext => [ArchiveNext]_archiveVars
<1> SUFFICES ASSUME ParleyNext PROVE [ArchiveNext]_archiveVars
  OBVIOUS
<1>1. CASE NextBlock /\ UNCHANGED <<ownerOf, doorVars, keyVars>>
  BY <1>1 DEF ArchiveNext
<1>2. CASE \E id \in Tokens, to \in Holders : HubMoves(id, to)
  BY <1>2 DEF HubMoves
<1>3. ASSUME NEW c \in Holders, NEW id \in Tokens, CallAs(c, id)
      PROVE  [ArchiveNext]_archiveVars
  <2>1. ASSUME NEW room \in Rooms, Speak(c, room, id) PROVE ArchiveNext
    BY <2>1 DEF Speak, ArchiveNext
  <2>2. ASSUME NEW to \in Tokens, Whisper(c, id, to) PROVE ArchiveNext
    <3>1. PairKey(id, to) \in Rooms /\ Say(PairKey(id, to), id)
      BY <2>2, RoomKeys DEF Whisper
    <3>2. QED
      BY <3>1 DEF ArchiveNext
  <2>3. ASSUME NEW room \in Rooms, Join(c, room, id) \/ Leave(c, room, id)
        PROVE  UNCHANGED archiveVars
    BY <2>3 DEF Join, Leave
  <2>4. ASSUME NEW room \in Rooms, NEW other \in Tokens,
               Invite(c, room, id, other) \/ Evict(c, room, id, other)
        PROVE  UNCHANGED archiveVars
    BY <2>4 DEF Invite, Evict
  <2>5. ASSUME NEW open \in BOOLEAN, Found(c, id, open) PROVE UNCHANGED archiveVars
    BY <2>5 DEF Found
  <2>6. CASE Announce(c, id)
    BY <2>6 DEF Announce
  <2>7. QED
    BY <1>3, <2>1, <2>2, <2>3, <2>4, <2>5, <2>6 DEF CallAs
<1>4. QED
  BY <1>1, <1>2, <1>3 DEF ParleyNext

\* The rooms and the messages in them, step by step.
LEMMA RoomsStep ==
  ASSUME ParleyTypeOK, RoomsInv, SaidWhereOneBelongs, ParleyNext
  PROVE  DoorsTyped' /\ RoomsInv' /\ SaidWhereOneBelongs'
<1>1. CASE NextBlock /\ UNCHANGED <<ownerOf, doorVars, keyVars>>
  BY <1>1, QuietInv, SaidStays DEF NextBlock, saidVars
<1>2. ASSUME NEW id \in Tokens, NEW to \in Holders, HubMoves(id, to)
      PROVE  DoorsTyped' /\ RoomsInv' /\ SaidWhereOneBelongs'
  BY <1>2, QuietInv, SaidStays DEF HubMoves, archiveVars, saidVars
<1>3. ASSUME NEW c \in Holders, NEW id \in Tokens, CallAs(c, id)
      PROVE  DoorsTyped' /\ RoomsInv' /\ SaidWhereOneBelongs'
  <2>1. ASSUME NEW room \in Rooms, Speak(c, room, id)
        PROVE  DoorsTyped' /\ RoomsInv' /\ SaidWhereOneBelongs'
    BY <2>1, SpeakInv
  <2>2. ASSUME NEW to \in Tokens, Whisper(c, id, to)
        PROVE  DoorsTyped' /\ RoomsInv' /\ SaidWhereOneBelongs'
    <3>1. /\ DoorsTyped' /\ RoomsInv' /\ RoomsKept
          /\ PairKey(id, to) \in Rooms /\ Say(PairKey(id, to), id)
          /\ kind'[PairKey(id, to)] = IS_PAIR /\ id \in PairKey(id, to)[3]
      BY <2>2, WhisperInv
    <3>2. QED
      BY <3>1, SaidOneMore
  <2>3. ASSUME NEW room \in Rooms, Join(c, room, id)
        PROVE  DoorsTyped' /\ RoomsInv' /\ SaidWhereOneBelongs'
    <3>1. said' = said
      BY <2>3 DEF Join, archiveVars, saidVars
    <3>2. QED
      BY <2>3, <3>1, JoinInv, SaidStays
  <2>4. ASSUME NEW room \in Rooms, Leave(c, room, id)
        PROVE  DoorsTyped' /\ RoomsInv' /\ SaidWhereOneBelongs'
    <3>1. /\ said' = said
          /\ <<room, id>> \in inRoom /\ Depart(room, id)
          /\ UNCHANGED <<kind, steward, openDoor, groups, visited>>
          /\ UNCHANGED <<invited, shownOut>>
      BY <2>4 DEF Leave, archiveVars, saidVars
    <3>2. DoorsTyped' /\ RoomsInv' /\ RoomsKept
      BY <3>1, OutInv
    <3>3. QED
      BY <3>1, <3>2, SaidStays
  <2>5. ASSUME NEW room \in Rooms, NEW other \in Tokens, Invite(c, room, id, other)
        PROVE  DoorsTyped' /\ RoomsInv' /\ SaidWhereOneBelongs'
    <3>1. said' = said
      BY <2>5 DEF Invite, archiveVars, saidVars
    <3>2. QED
      BY <2>5, <3>1, InviteInv, SaidStays
  <2>6. ASSUME NEW room \in Rooms, NEW other \in Tokens, Evict(c, room, id, other)
        PROVE  DoorsTyped' /\ RoomsInv' /\ SaidWhereOneBelongs'
    <3>1. /\ said' = said
          /\ <<room, other>> \in inRoom /\ Depart(room, other)
          /\ UNCHANGED <<kind, steward, openDoor, groups, visited>>
          /\ invited' = invited \ {<<room, other>>}
          /\ shownOut' = shownOut \cup {<<room, other>>}
      BY <2>6 DEF Evict, StillInvited, archiveVars, saidVars
    <3>2. DoorsTyped' /\ RoomsInv' /\ RoomsKept
      BY <3>1, OutInv
    <3>3. QED
      BY <3>1, <3>2, SaidStays
  <2>7. ASSUME NEW open \in BOOLEAN, Found(c, id, open)
        PROVE  DoorsTyped' /\ RoomsInv' /\ SaidWhereOneBelongs'
    <3>1. said' = said
      BY <2>7 DEF Found, archiveVars, saidVars
    <3>2. QED
      BY <2>7, <3>1, FoundInv, SaidStays
  <2>8. CASE Announce(c, id)
    BY <2>8, QuietInv, SaidStays DEF Announce, archiveVars, saidVars
  <2>9. QED
    BY <1>3, <2>1, <2>2, <2>3, <2>4, <2>5, <2>6, <2>7, <2>8 DEF CallAs
<1>4. QED
  BY <1>1, <1>2, <1>3 DEF ParleyNext

\* The hub and the sealing keys.
LEMMA KeysStep ==
  ASSUME ParleyTypeOK, SealKeyInv, ParleyNext
  PROVE  /\ ownerOf' \in [Tokens -> Holders \cup {None}]
         /\ sealOwner' \in [Tokens -> Holders \cup {None}]
         /\ published' \subseteq Tokens \X Holders
         /\ SealKeyInv'
<1> DEFINE Goal == /\ ownerOf' \in [Tokens -> Holders \cup {None}]
                   /\ sealOwner' \in [Tokens -> Holders \cup {None}]
                   /\ published' \subseteq Tokens \X Holders
                   /\ SealKeyInv'
<1>1. ASSUME UNCHANGED ownerOf, UNCHANGED keyVars PROVE Goal
  BY <1>1 DEF ParleyTypeOK, SealKeyInv, keyVars
<1>2. ASSUME NEW id \in Tokens, NEW to \in Holders, HubMoves(id, to) PROVE Goal
  BY <1>2 DEF HubMoves, ParleyTypeOK, SealKeyInv, keyVars
<1>3. ASSUME NEW c \in Holders, NEW id \in Tokens, Announce(c, id) PROVE Goal
  <2>1. ownerOf[id] \in Holders
    BY <1>3 DEF Announce, MayActAs, Issued, ParleyTypeOK
  <2>2. QED
    BY <1>3, <2>1 DEF Announce, Publisher, ParleyTypeOK, SealKeyInv
<1>4. ASSUME NEW c \in Holders, NEW id \in Tokens, CallAs(c, id), ~Announce(c, id)
      PROVE  UNCHANGED ownerOf /\ UNCHANGED keyVars
  BY <1>4 DEF CallAs, Speak, Whisper, Join, Leave, Invite, Evict, Found
<1>5. QED
  BY <1>1, <1>2, <1>3, <1>4 DEF ParleyNext

LEMMA ParleyInitInv == ParleyInit => ParleyInv
<1> SUFFICES ASSUME ParleyInit PROVE ParleyInv
  OBVIOUS
<1>1. ArchiveInv
  BY ArchiveInitInv DEF ParleyInit, ParleyDeployed, ArchiveInit, ArchiveDeployed
<1>2. /\ ownerOf \in [Tokens -> Holders \cup {None}]
      /\ kind \in [Rooms -> 0..2] /\ \A r \in Rooms : kind[r] = IS_COMMONS
      /\ steward \in [Rooms -> Tokens \cup {None}]
      /\ openDoor \in [Rooms -> BOOLEAN]
      /\ members \in [Rooms -> Nat] /\ \A r \in Rooms : members[r] = 0
      /\ groups = 0 /\ groups \in 0..MaxGroups
      /\ inRoom = {} /\ invited = {} /\ shownOut = {} /\ published = {}
      /\ visited \in [Tokens -> Seq(Rooms)] /\ \A id \in Tokens : visited[id] = <<>>
      /\ sealOwner \in [Tokens -> Holders \cup {None}]
      /\ \A id \in Tokens : sealOwner[id] = None
  BY ParleyAssumption DEF ParleyInit, ParleyDeployed, ArchiveInit, ArchiveDeployed, IS_COMMONS
<1>3. ParleyTypeOK
  BY <1>1, <1>2 DEF ParleyTypeOK, ArchiveInv
<1>4. \A id \in Tokens : RoomsOf(id) = {}
  <2>1. \A id \in Tokens : Len(visited[id]) = 0
    BY <1>2
  <2>2. QED
    BY <2>1 DEF RoomsOf
<1>5. KindInv /\ DoorInv
  BY <1>2, <1>4 DEF KindInv, DoorInv, IS_COMMONS, IS_GROUP, IS_PAIR
<1>6. MembersCounted
  BY <1>2, FS_EmptySet DEF MembersCounted
<1>7. ShownOutStaysOut
  BY <1>2 DEF ShownOutStaysOut
<1>8. RoomsRemembered
  <2>1. \A id \in Tokens : Len(visited[id]) = 0
    BY <1>2
  <2>2. QED
    BY <1>2, <1>4, <2>1 DEF RoomsRemembered
<1>9. SaidWhereOneBelongs
  <2>1. Len(said) = 0
    BY DEF ParleyInit, ParleyDeployed, ArchiveInit, ArchiveDeployed
  <2>2. QED
    BY <2>1 DEF SaidWhereOneBelongs
<1>10. SealKeyInv
  BY <1>2 DEF SealKeyInv
<1>11. QED
  BY <1>1, <1>3, <1>5, <1>6, <1>7, <1>8, <1>9, <1>10 DEF ParleyInv, RoomsInv

LEMMA ParleyNextInv == ParleyInv /\ [ParleyNext]_parleyVars => ParleyInv'
<1>1. ASSUME ParleyInv, ParleyNext PROVE ParleyInv'
  <2>1. ArchiveInv'
    BY <1>1, ParleyStepArchives, ArchiveNextInv DEF ParleyInv
  <2>2. DoorsTyped' /\ RoomsInv' /\ SaidWhereOneBelongs'
    BY <1>1, RoomsStep DEF ParleyInv
  <2>3. /\ ownerOf' \in [Tokens -> Holders \cup {None}]
        /\ sealOwner' \in [Tokens -> Holders \cup {None}]
        /\ published' \subseteq Tokens \X Holders
        /\ SealKeyInv'
    BY <1>1, KeysStep DEF ParleyInv
  <2>4. ParleyTypeOK'
    BY <2>1, <2>2, <2>3 DEF ParleyTypeOK, DoorsTyped, ArchiveInv
  <2>5. QED
    BY <2>1, <2>2, <2>3, <2>4 DEF ParleyInv
<1>2. ASSUME ParleyInv, UNCHANGED parleyVars PROVE ParleyInv'
  <2>1. ArchiveInv'
    BY <1>2, ArchiveNextInv DEF ParleyInv, parleyVars
  <2>2. UNCHANGED doorVars /\ said' = said /\ ownerOf' = ownerOf /\ UNCHANGED keyVars
    BY <1>2 DEF parleyVars, archiveVars, saidVars
  <2>3. DoorsTyped' /\ RoomsInv' /\ RoomsKept
    BY <1>2, <2>2, QuietInv DEF ParleyInv
  <2>4. SaidWhereOneBelongs'
    BY <1>2, <2>2, <2>3, SaidStays DEF ParleyInv
  <2>5. SealKeyInv'
    BY <1>2, <2>2 DEF ParleyInv, SealKeyInv, keyVars
  <2>6. ParleyTypeOK'
    BY <1>2, <2>1, <2>2, <2>3 DEF ParleyInv, ParleyTypeOK, DoorsTyped, ArchiveInv, keyVars
  <2>7. QED
    BY <2>1, <2>3, <2>4, <2>5, <2>6 DEF ParleyInv
<1>3. QED
  BY <1>1, <1>2

LEMMA ParleyInvAlways == ParleySpec => []ParleyInv
  BY ParleyInitInv, ParleyNextInv, PTL DEF ParleySpec

\* Rooms, doors, lists and keys have their types, and the log is a log.
THEOREM ParleyIsTyped == ParleySpec => []ParleyTypeOK
<1>1. ParleyInv => ParleyTypeOK
  BY DEF ParleyInv
<1>2. QED
  BY <1>1, ParleyInvAlways, PTL

\* Every room's messages are one chain back to its first (Parley.sol's prev),
\* numbered without a gap, and so is everything a token said (prevFrom).
THEOREM NothingIsLost == ParleySpec => []NothingSaidIsLost
<1>1. ParleyInv => NothingSaidIsLost
  BY DEF ParleyInv, ArchiveInv, NothingSaidIsLost
<1>2. QED
  BY <1>1, ParleyInvAlways, PTL

\* A walk back along a room's chain leaves every block it reads.
THEOREM WalksGoBack == ParleySpec => []OldestPointsBack
<1>1. ParleyInv => OldestPointsBack
  BY ChainPointsBack DEF ParleyInv
<1>2. QED
  BY <1>1, ParleyInvAlways, PTL

\* Room.members is the number of tokens inside.
THEOREM MembersAreCounted == ParleySpec => []MembersCounted
<1>1. ParleyInv => MembersCounted
  BY DEF ParleyInv, RoomsInv
<1>2. QED
  BY <1>1, ParleyInvAlways, PTL

\* An eviction outlives every invitation given before it.
THEOREM TheDoorHolds == ParleySpec => []ShownOutStaysOut
<1>1. ParleyInv => ShownOutStaysOut
  BY DEF ParleyInv, RoomsInv
<1>2. QED
  BY <1>1, ParleyInvAlways, PTL

\* roomsOf answers with every room a token is in, each once.
THEOREM ListsAreComplete == ParleySpec => []RoomsRemembered
<1>1. ParleyInv => RoomsRemembered
  BY DEF ParleyInv, RoomsInv
<1>2. QED
  BY <1>1, ParleyInvAlways, PTL

\* Every message is where its token belonged.
THEOREM NobodySpeaksOutside == ParleySpec => []SaidWhereOneBelongs
<1>1. ParleyInv => SaidWhereOneBelongs
  BY DEF ParleyInv
<1>2. QED
  BY <1>1, ParleyInvAlways, PTL

\* announce and keyOf: a readable key is its holder's own and lasts as long
\* as the holder does.
THEOREM KeysFollow == ParleySpec => KeyFollowsTheHolder
<1> DEFINE A == \A id \in Tokens :
          /\ KeyReadable(id) /\ ownerOf'[id] = ownerOf[id] => KeyReadable(id)'
          /\ ownerOf'[id] # ownerOf[id] /\ <<id, ownerOf'[id]>> \notin published
                => ~KeyReadable(id)'
<1>1. ParleyInv /\ [ParleyNext]_parleyVars => [A]_parleyVars
  <2> SUFFICES ASSUME ParleyInv, ParleyNext, NEW id \in Tokens
               PROVE  /\ KeyReadable(id) /\ ownerOf'[id] = ownerOf[id] => KeyReadable(id)'
                      /\ ownerOf'[id] # ownerOf[id] /\ <<id, ownerOf'[id]>> \notin published
                            => ~KeyReadable(id)'
    OBVIOUS
  <2>0. /\ ownerOf \in [Tokens -> Holders \cup {None}]
        /\ sealOwner \in [Tokens -> Holders \cup {None}]
        /\ sealOwner[id] = None \/ <<id, sealOwner[id]>> \in published
        /\ None \notin Holders
    BY ParleyAssumption DEF ParleyInv, ParleyTypeOK, SealKeyInv
  <2>1. ASSUME ownerOf' = ownerOf, sealOwner' = sealOwner
        PROVE  /\ KeyReadable(id) /\ ownerOf'[id] = ownerOf[id] => KeyReadable(id)'
               /\ ownerOf'[id] = ownerOf[id]
    BY <2>1 DEF KeyReadable, Issued
  <2>2. ASSUME NEW moved \in Tokens, NEW to \in Holders, HubMoves(moved, to)
        PROVE  /\ KeyReadable(id) /\ ownerOf'[id] = ownerOf[id] => KeyReadable(id)'
               /\ ownerOf'[id] # ownerOf[id] /\ <<id, ownerOf'[id]>> \notin published
                     => ~KeyReadable(id)'
    <3>1. sealOwner' = sealOwner
      BY <2>2 DEF HubMoves, keyVars
    <3>2. ownerOf'[id] # ownerOf[id] => ownerOf'[id] \in Holders
      BY <2>0, <2>2 DEF HubMoves
    <3>3. QED
      BY <2>0, <3>1, <3>2 DEF KeyReadable, Issued
  <2>3. ASSUME NEW c \in Holders, NEW by \in Tokens, Announce(c, by)
        PROVE  /\ ownerOf' = ownerOf
               /\ KeyReadable(id) => KeyReadable(id)'
    BY <2>0, <2>3 DEF Announce, Publisher, KeyReadable, Issued
  <2>4. ASSUME NEW c \in Holders, NEW by \in Tokens, CallAs(c, by), ~Announce(c, by)
        PROVE  ownerOf' = ownerOf /\ sealOwner' = sealOwner
    BY <2>4 DEF CallAs, Speak, Whisper, Join, Leave, Invite, Evict, Found, keyVars
  <2>5. CASE NextBlock /\ UNCHANGED <<ownerOf, doorVars, keyVars>>
    BY <2>1, <2>5 DEF keyVars
  <2>6. QED
    BY <2>1, <2>2, <2>3, <2>4, <2>5 DEF ParleyNext
<1>2. QED
  BY <1>1, ParleyInvAlways, PTL DEF ParleySpec, KeyFollowsTheHolder

\* Parley implements Archive: speaking and whispering say, every block is a
\* block, and nothing else touches the log.
THEOREM ParleyKeepsAnArchive == ParleySpec => KeepsAnArchive
<1>1. ParleyInit => ArchiveInit
  BY DEF ParleyInit, ParleyDeployed, ArchiveInit, ArchiveDeployed
<1>2. [ParleyNext]_parleyVars => [ArchiveNext]_archiveVars
  BY ParleyStepArchives DEF parleyVars
<1>3. QED
  BY <1>1, <1>2, PTL DEF ParleySpec, KeepsAnArchive, ArchiveSpec

-----------------------------------------------------------------------------
(* A reader of the archive.  The walk back meets every block that holds a   *)
(* message of the room, newest first.                                      *)

\* A set of naturals has a least element, if it has any.
LEMMA LeastNatural ==
  ASSUME NEW S, S \subseteq Nat, S # {}
  PROVE  \E i \in S : \A k \in S : i <= k
<1> DEFINE R == {ss \in Nat \X Nat : ss[1] < ss[2]}
<1>1. IsWellFoundedOn(R, Nat)
  BY NatLessThanWellFounded DEF OpToRel
<1>2. \A i, k \in Nat : <<k, i>> \in R <=> k < i
  OBVIOUS
<1> HIDE DEF R
<1>3. PICK i \in S : \A k \in S : ~(<<k, i>> \in R)
  BY <1>1, WFMin
<1>4. ASSUME NEW k \in S PROVE i <= k
  <2>1. ~(k < i)
    BY <1>2, <1>3
  <2>2. QED
    BY <2>1
<1>5. QED
  BY <1>4

LEMMA GreatestOfInterval ==
  ASSUME NEW n \in Nat, NEW S \in SUBSET (1..n), S # {}
  PROVE  \E i \in S : \A k \in S : k <= i
<1> DEFINE T == {u \in Nat : \A k \in S : k <= u}
<1>1. n \in T
  OBVIOUS
<1>2. PICK u \in T : \A v \in T : u <= v
  BY <1>1, LeastNatural
<1>3. u \in Nat /\ u # 0
  <2>1. PICK k \in S : k <= u
    BY <1>2
  <2>2. QED
    BY <1>2, <2>1
<1>4. u - 1 \notin T
  BY <1>2, <1>3
<1>5. PICK k \in S : ~(k <= u - 1)
  BY <1>3, <1>4
<1>6. k = u
  BY <1>3, <1>5
<1>7. QED
  BY <1>6

LEMMA NewestIs ==
  ASSUME NEW n \in Nat, NEW S \in SUBSET (1..n), S # {}
  PROVE  Newest(S) \in S /\ \A k \in S : k <= Newest(S)
  BY GreatestOfInterval DEF Newest

LEMMA OldestIs ==
  ASSUME NEW n \in Nat, NEW S \in SUBSET (1..n), S # {}
  PROVE  Oldest(S) \in S /\ \A k \in S : Oldest(S) <= k
<1>1. S \subseteq Nat
  OBVIOUS
<1>2. QED
  BY <1>1, LeastNatural DEF Oldest

\* What a walk has found of a log whose next block is block: the messages
\* of its room from the block it was given down to the one it stands at.
FoundIn(log, block, w) ==
    /\ w.room \in Rooms
    /\ w.head < block
    /\ w.at <= w.head
    /\ w.out = Between(log, w.room, w.at, w.head)
    /\ w.at > 0 => \E i \in 1..Len(log) : log[i].room = w.room /\ log[i].block = w.at
    /\ w.out = {} => w.at = w.head /\ w.steps = 0

NewestIn(log, w) == IF w.out = {} THEN 0 ELSE log[Newest(w.out)].seq

WalkInv ==
    /\ walk.stage # "none" => walk.room \in Rooms
    /\ walk.stage = "head" => walk.out = {} /\ walk.steps = 0
    /\ walk.stage = "logs" => FoundIn(said, Block, walk) /\ GoesOn(walk)

ShownInv ==
    shown.stage = "logs" =>
        FoundIn(said, Block, shown) /\ ~GoesOn(shown) /\ SEEN = NewestIn(said, shown)

TalkInv == TalkTypeOK /\ ArchiveInv /\ WalkInv /\ ShownInv

LEMMA LogTyped ==
  ASSUME ArchiveTypeOK, NEW i \in 1..Len(said)
  PROVE  /\ said[i] \in Message
         /\ said[i].room \in Rooms /\ said[i].block \in Nat
         /\ said[i].prev \in Nat /\ said[i].seq \in Nat
<1>1. said[i] \in Message
  BY DEF ArchiveTypeOK
<1>2. QED
  BY <1>1 DEF Message

\* The pointer of the oldest log of a block leads to the next block down
\* that holds a message of the room, and to 0 when there is none.
LEMMA NextBlockDown ==
  ASSUME ArchiveInv, NEW room \in Rooms, NEW at \in Nat \ {0}, LogsIn(room, at) # {}
  PROVE  /\ NextAt(LogsIn(room, at), at) \in Nat
         /\ NextAt(LogsIn(room, at), at) < at
         /\ NextAt(LogsIn(room, at), at) > 0 =>
               \E i \in 1..Len(said) :
                  said[i].room = room /\ said[i].block = NextAt(LogsIn(room, at), at)
         /\ \A j \in 1..Len(said) : said[j].room = room /\ said[j].block < at
               => said[j].block <= NextAt(LogsIn(room, at), at)
<1> DEFINE logs == LogsIn(room, at)
           first == Oldest(logs)
           before == OfRoom(said, room, first - 1)
<1>0. ArchiveTypeOK /\ Len(said) \in Nat
  BY DEF ArchiveInv, ArchiveTypeOK
<1>1. logs \in SUBSET (1..Len(said))
  BY DEF LogsIn
<1>2. first \in logs /\ \A k \in logs : first <= k
  BY <1>0, <1>1, OldestIs
<1>3. first \in 1..Len(said) /\ said[first].room = room /\ said[first].block = at
  BY <1>2 DEF LogsIn
<1>4. PointsTo(said, said[first].prev, before)
  BY <1>3 DEF ArchiveInv, RoomChain
<1>5. \A i \in 1..Len(said) : \A j \in 1..i : said[j].block <= said[i].block
  BY DEF ArchiveInv, InBlockOrder
<1>6. \A j \in 1..Len(said) : said[j].block \in Nat /\ said[j].prev \in Nat
  BY <1>0, LogTyped
<1>7. \A j \in before : j \in 1..Len(said) /\ j < first /\ said[j].room = room
  BY <1>0, <1>3 DEF OfRoom
<1>8. \A j \in 1..Len(said) : said[j].room = room /\ said[j].block < at => j \in before
  <2> SUFFICES ASSUME NEW j \in 1..Len(said), said[j].room = room, said[j].block < at
               PROVE  j \in 1..(first - 1)
    BY DEF OfRoom
  <2>1. ~(first <= j)
    <3>1. first <= j => said[first].block <= said[j].block
      BY <1>3, <1>5
    <3>2. QED
      BY <1>3, <1>6, <3>1
  <2>2. QED
    BY <1>3, <2>1
<1>9. \A j \in before : said[j].block < at
  <2> SUFFICES ASSUME NEW j \in before PROVE said[j].block < at
    OBVIOUS
  <2>1. said[j].block <= at
    BY <1>3, <1>5, <1>7
  <2>2. said[j].block # at
    BY <1>2, <1>3, <1>7 DEF LogsIn
  <2>3. QED
    BY <1>6, <1>7, <2>1, <2>2
<1> HIDE DEF logs, first, before
<1>10. /\ said[first].prev < at
       /\ said[first].prev > 0 => \E i \in 1..Len(said) :
              said[i].room = room /\ said[i].block = said[first].prev
       /\ \A j \in before : said[j].block <= said[first].prev
  <2>1. CASE before = {} /\ said[first].prev = 0
    BY <2>1
  <2>2. ASSUME NEW i \in before, \A j \in before : j <= i, said[first].prev = said[i].block
        PROVE  /\ said[first].prev < at
               /\ said[first].prev > 0 => \E k \in 1..Len(said) :
                     said[k].room = room /\ said[k].block = said[first].prev
               /\ \A j \in before : said[j].block <= said[first].prev
    <3>1. \A j \in before : j \in 1..i
      BY <1>7, <2>2
    <3>2. QED
      BY <1>5, <1>7, <1>9, <2>2, <3>1
  <2>3. QED
    BY <1>4, <2>1, <2>2 DEF PointsTo
<1>11. NextAt(logs, at) = said[first].prev
  BY <1>10 DEF NextAt, first
<1>12. QED
  BY <1>3, <1>6, <1>8, <1>10, <1>11 DEF logs

\* One block further down, the walk has one block's messages more.
LEMMA OneBlockMore ==
  ASSUME ArchiveInv, NEW w \in Walks, FoundIn(said, Block, w), w.at > 0
  PROVE  LET logs == LogsIn(w.room, w.at)
             at == NextAt(logs, w.at)
         IN /\ logs # {} /\ logs \subseteq 1..Len(said)
            /\ at \in Nat /\ at < w.at
            /\ w.out \cup logs = Between(said, w.room, at, w.head)
            /\ at > 0 => \E i \in 1..Len(said) : said[i].room = w.room /\ said[i].block = at
<1> DEFINE logs == LogsIn(w.room, w.at)
           at == NextAt(logs, w.at)
<1>0. /\ w.room \in Rooms /\ w.at \in Nat \ {0} /\ w.head \in Nat /\ w.at <= w.head
      /\ w.out = Between(said, w.room, w.at, w.head)
      /\ ArchiveTypeOK
  BY DEF Walks, FoundIn, ArchiveInv
<1>1. logs # {} /\ logs \subseteq 1..Len(said)
  BY <1>0 DEF FoundIn, LogsIn
<1>2. /\ at \in Nat /\ at < w.at
      /\ at > 0 => \E i \in 1..Len(said) : said[i].room = w.room /\ said[i].block = at
      /\ \A j \in 1..Len(said) : said[j].room = w.room /\ said[j].block < w.at
            => said[j].block <= at
  BY <1>0, <1>1, NextBlockDown
<1>3. \A j \in 1..Len(said) : said[j].block \in Nat
  BY <1>0, LogTyped
<1> HIDE DEF at
<1>4. w.out \cup logs = Between(said, w.room, at, w.head)
  <2>1. \A j \in 1..Len(said) : said[j].room = w.room =>
           (at < said[j].block /\ said[j].block <= w.head
              <=> (w.at < said[j].block /\ said[j].block <= w.head) \/ said[j].block = w.at)
    BY <1>0, <1>2, <1>3
  <2>2. QED
    BY <1>0, <2>1 DEF Between, LogsIn
<1>5. QED
  BY <1>1, <1>2, <1>4 DEF at

LEMMA OutFinite ==
  ASSUME NEW w \in Walks
  PROVE  IsFiniteSet(w.out) /\ Cardinality(w.out) \in Nat
<1>1. w.out \subseteq 1..MaxSaid
  BY DEF Walks
<1>2. IsFiniteSet(1..MaxSaid)
  BY ArchiveAssumption, FS_Interval
<1>3. QED
  BY <1>1, <1>2, FS_Subset, FS_CardinalityType

\* A walk that is over found everything, or as much as it was asked for.
LEMMA StretchFound ==
  ASSUME NEW w \in Walks, FoundIn(said, Block, w), ~GoesOn(w)
  PROVE  /\ w.out = Between(said, w.room, w.at, w.head)
         /\ w.at = 0 \/ Cardinality(w.out) >= Want \/ w.steps = MaxSteps
<1>1. w.at \in Nat /\ w.steps \in 0..MaxSteps /\ Cardinality(w.out) \in Nat
  BY OutFinite DEF Walks
<1>2. QED
  BY <1>1, TalkAssumption DEF FoundIn, GoesOn

\* The number of the newest message found is the number of the room's
\* messages up to the block the walk was given.
LEMMA NewestIsTheCount ==
  ASSUME ArchiveInv, NEW w \in Walks, FoundIn(said, Block, w), ~GoesOn(w)
  PROVE  NewestIn(said, w) = Cardinality(Between(said, w.room, 0, w.head))
<1>0. /\ w.room \in Rooms /\ w.at \in Nat /\ w.head \in Nat
      /\ w.out = Between(said, w.room, w.at, w.head)
      /\ ArchiveTypeOK /\ Len(said) \in Nat
  BY DEF Walks, FoundIn, ArchiveInv, ArchiveTypeOK
<1>1. \A j \in 1..Len(said) : said[j].block \in Nat /\ 0 < said[j].block
  BY <1>0, LogTyped DEF ArchiveInv, InBlockOrder
<1>2. CASE w.out = {}
  <2>1. w.head = 0
    <3>1. w.at = w.head /\ w.steps = 0
      BY <1>2 DEF FoundIn
    <3>2. Cardinality(w.out) = 0
      BY <1>2, FS_EmptySet
    <3>3. QED
      BY <1>0, <3>1, <3>2, TalkAssumption DEF GoesOn
  <2>2. Between(said, w.room, 0, w.head) = {}
    BY <1>1, <2>1 DEF Between
  <2>3. QED
    BY <1>2, <2>2, FS_EmptySet DEF NewestIn
<1>3. CASE w.out # {}
  <2> DEFINE top == Newest(w.out)
             before == OfRoom(said, w.room, top - 1)
  <2>1. w.out \in SUBSET (1..Len(said))
    BY <1>0 DEF Between
  <2>2. top \in w.out /\ \A k \in w.out : k <= top
    BY <1>0, <1>3, <2>1, NewestIs
  <2>3. /\ top \in 1..Len(said) /\ said[top].room = w.room
        /\ w.at < said[top].block /\ said[top].block <= w.head
    BY <1>0, <2>2 DEF Between
  <2>4. said[top].seq = Cardinality(before) + 1
    BY <2>3 DEF ArchiveInv, RoomChain
  <2>5. \A i \in 1..Len(said) : \A j \in 1..i : said[j].block <= said[i].block
    BY DEF ArchiveInv, InBlockOrder
  <2> HIDE DEF top
  <2>6. Between(said, w.room, 0, w.head) = before \cup {top}
    <3>1. ASSUME NEW j \in Between(said, w.room, 0, w.head) PROVE j \in before \cup {top}
      <4>1. /\ j \in 1..Len(said) /\ said[j].room = w.room /\ said[j].block <= w.head
        BY <3>1 DEF Between
      <4>2. CASE j <= top
        BY <2>3, <4>1, <4>2 DEF OfRoom
      <4>3. CASE top <= j
        <5>1. said[top].block <= said[j].block
          BY <2>3, <2>5, <4>1, <4>3
        <5>2. w.at < said[j].block
          BY <1>0, <1>1, <2>3, <4>1, <5>1
        <5>3. j \in w.out
          BY <1>0, <4>1, <5>2 DEF Between
        <5>4. j = top
          BY <2>2, <2>3, <4>1, <4>3, <5>3
        <5>5. QED
          BY <5>4
      <4>4. QED
        BY <2>3, <4>1, <4>2, <4>3
    <3>2. ASSUME NEW j \in before \cup {top} PROVE j \in Between(said, w.room, 0, w.head)
      <4>1. j \in 1..top /\ j \in 1..Len(said) /\ said[j].room = w.room
        BY <1>0, <2>3, <3>2 DEF OfRoom
      <4>2. said[j].block <= said[top].block
        BY <2>3, <2>5, <4>1
      <4>3. said[j].block <= w.head
        BY <1>0, <1>1, <2>3, <4>1, <4>2
      <4>4. QED
        BY <1>1, <4>1, <4>3 DEF Between
    <3>3. QED
      BY <3>1, <3>2
  <2>7. top \notin before
    BY <2>3 DEF OfRoom
  <2>8. top - 1 \in Nat
    BY <2>3
  <2>9. Cardinality(before \cup {top}) = Cardinality(before) + 1
    BY <2>7, <2>8, OfRoomFinite, FS_AddElement
  <2>10. QED
    BY <1>3, <2>4, <2>6, <2>9 DEF NewestIn, top
<1>4. QED
  BY <1>2, <1>3

\* What was found stays found while the chain goes on.
LEMMA FoundStill ==
  ASSUME ArchiveInv, ArchiveInv', [ArchiveNext]_archiveVars,
         NEW w \in Walks, FoundIn(said, Block, w)
  PROVE  FoundIn(said', Block', w) /\ NewestIn(said', w) = NewestIn(said, w)
<1>0. /\ w.room \in Rooms /\ w.at \in Nat /\ w.head \in Nat
      /\ w.out = Between(said, w.room, w.at, w.head)
      /\ ArchiveTypeOK /\ Len(said) \in Nat /\ Block \in Nat /\ w.head < Block
  BY ClockAssumption DEF Walks, FoundIn, ArchiveInv, ArchiveTypeOK, Block
<1>1. CASE said' = said /\ (Block' = Block \/ Block' = Block + 1)
  BY <1>0, <1>1 DEF FoundIn, NewestIn
<1>2. ASSUME NEW room \in Rooms, NEW from \in Tokens, Say(room, from)
      PROVE  FoundIn(said', Block', w) /\ NewestIn(said', w) = NewestIn(said, w)
  <2> DEFINE log == said'
  <2>1. /\ Len(log) = Len(said) + 1
        /\ \A i \in 1..Len(said) : log[i] = said[i]
        /\ log[Len(said) + 1].block = Block
        /\ Block' = Block
    BY <1>0, <1>2, SayAppends DEF OneMore
  <2> HIDE DEF log
  <2>2. Between(log, w.room, w.at, w.head) = Between(said, w.room, w.at, w.head)
    BY <1>0, <2>1 DEF Between
  <2>3. (\E i \in 1..Len(said) : said[i].room = w.room /\ said[i].block = w.at)
          => \E i \in 1..Len(log) : log[i].room = w.room /\ log[i].block = w.at
    <3>1. \A i \in 1..Len(said) : i \in 1..Len(log) /\ log[i] = said[i]
      BY <1>0, <2>1
    <3>2. QED
      BY <3>1
  <2>4. w.out # {} => Newest(w.out) \in 1..Len(said)
    <3>1. w.out \in SUBSET (1..Len(said))
      BY <1>0 DEF Between
    <3>2. QED
      BY <1>0, <3>1, NewestIs
  <2>5. NewestIn(log, w) = NewestIn(said, w)
    BY <2>1, <2>4 DEF NewestIn
  <2>6. FoundIn(log, Block, w)
    BY <2>2, <2>3 DEF FoundIn
  <2>7. QED
    BY <2>1, <2>5, <2>6 DEF log
<1>3. CASE NextBlock
  <2>1. said' = said /\ Block' = Block + 1
    BY <1>0, <1>3 DEF NextBlock, saidVars, Passes, Block
  <2>2. QED
    BY <1>1, <2>1
<1>4. CASE UNCHANGED archiveVars
  <2>1. said' = said /\ Block' = Block
    BY <1>4 DEF archiveVars, saidVars, Block
  <2>2. QED
    BY <1>1, <2>1
<1>5. QED
  BY <1>2, <1>3, <1>4 DEF ArchiveNext

LEMMA NoWalkTyped == NoWalk \in Walks /\ NoWalk.stage = "none" /\ NoWalk.out = {} /\ NoWalk.steps = 0
  BY TalkAssumption DEF NoWalk, Walks

\* The page's own variables.
PageTyped ==
    /\ ROOM \in Rooms \cup {NoRoom}
    /\ SEEN \in Nat
    /\ BUSY \in BOOLEAN
    /\ walk \in Walks
    /\ shown \in Walks
    /\ asked \subseteq Mine
    /\ polled \subseteq Rooms
    /\ failures \in 0..MaxFails

LEMMA ProceedInv ==
  ASSUME TalkInv, NEW w \in Walks, w.stage = "logs", FoundIn(said, Block, w),
         Proceed(w), UNCHANGED <<archiveVars, ROOM, asked, polled, failures>>
  PROVE  PageTyped' /\ WalkInv' /\ ShownInv'
<1>0. said' = said /\ Block' = Block /\ w.room \in Rooms
  BY DEF archiveVars, saidVars, Block, FoundIn
<1>1. CASE GoesOn(w)
  <2>1. walk' = w /\ SEEN' = SEEN /\ BUSY' = BUSY /\ shown' = shown
    BY <1>1 DEF Proceed
  <2>2. PageTyped'
    BY <2>1 DEF TalkInv, TalkTypeOK, PageTyped
  <2>3. WalkInv'
    BY <1>0, <1>1, <2>1 DEF WalkInv, GoesOn
  <2>4. ShownInv'
    BY <1>0, <2>1 DEF TalkInv, ShownInv, GoesOn
  <2>5. QED
    BY <2>2, <2>3, <2>4
<1>2. CASE ~GoesOn(w)
  <2>1. walk' = NoWalk /\ shown' = w /\ SEEN' = NewestSeq(w) /\ BUSY' = FALSE
    BY <1>2 DEF Proceed
  <2>2. NewestSeq(w) = NewestIn(said, w)
    BY DEF NewestSeq, NewestIn
  <2>3. NewestSeq(w) \in Nat
    <3>1. NewestIn(said, w) = Cardinality(Between(said, w.room, 0, w.head))
      BY <1>2, NewestIsTheCount DEF TalkInv
    <3>2. /\ Between(said, w.room, 0, w.head) \subseteq 1..Len(said)
          /\ Len(said) \in Nat
      BY DEF Between, TalkInv, ArchiveInv, ArchiveTypeOK
    <3>3. IsFiniteSet(Between(said, w.room, 0, w.head))
      <4>1. IsFiniteSet(1..Len(said))
        BY <3>2, FS_Interval
      <4>2. QED
        BY <3>2, <4>1, FS_Subset
    <3>4. QED
      BY <2>2, <3>1, <3>3, FS_CardinalityType
  <2>4. PageTyped'
    BY <2>1, <2>3, NoWalkTyped DEF TalkInv, TalkTypeOK, PageTyped
  <2>5. WalkInv'
    BY <2>1, NoWalkTyped DEF WalkInv
  <2>6. ShownInv'
    BY <1>0, <1>2, <2>1, <2>2 DEF ShownInv, GoesOn
  <2>7. QED
    BY <2>4, <2>5, <2>6
<1>3. QED
  BY <1>1, <1>2

LEMMA HeadArrivesInv ==
  ASSUME TalkInv, HeadArrives
  PROVE  PageTyped' /\ WalkInv' /\ ShownInv'
<1> DEFINE w == [walk EXCEPT !.stage = "logs", !.head = last[walk.room],
                             !.at = last[walk.room]]
<1>0. /\ walk.stage = "head" /\ walk.room \in Rooms /\ walk \in Walks
      /\ walk.out = {} /\ walk.steps = 0
      /\ last \in [Rooms -> Nat] /\ ArchiveInv /\ ArchiveTypeOK /\ Len(said) \in Nat
      /\ Block \in Nat /\ 0 < Block
  BY ClockAssumption DEF HeadArrives, TalkInv, WalkInv, TalkTypeOK, ArchiveTypeOK, Block
<1>1. last[walk.room] \in Nat
  BY <1>0
<1>2. /\ w.room = walk.room /\ w.out = {} /\ w.steps = 0 /\ w.stage = "logs"
      /\ w.at = last[walk.room] /\ w.head = last[walk.room]
      /\ w \in Walks
  BY <1>0, <1>1 DEF Walks
<1>3. Proceed(w) /\ UNCHANGED <<archiveVars, ROOM, asked, polled, failures>>
  BY DEF HeadArrives
<1>4. \A i \in 1..Len(said) : said[i].block < Block /\ said[i].block \in Nat
  BY <1>0, LogTyped DEF HeadArrives, Mined
<1> HIDE DEF w
<1>5. \/ last[walk.room] = 0
      \/ \E i \in 1..Len(said) : said[i].room = walk.room /\ said[i].block = last[walk.room]
  BY <1>0 DEF ArchiveInv, RoomChain, PointsTo, OfRoom
<1>6. last[walk.room] < Block
  BY <1>0, <1>4, <1>5
<1>7. Between(said, w.room, w.at, w.head) = {}
  BY <1>1, <1>2, <1>4 DEF Between
<1>8. FoundIn(said, Block, w)
  BY <1>0, <1>1, <1>2, <1>5, <1>6, <1>7 DEF FoundIn
<1>9. QED
  BY <1>2, <1>3, <1>8, ProceedInv

LEMMA LogsArriveInv ==
  ASSUME TalkInv, LogsArrive
  PROVE  PageTyped' /\ WalkInv' /\ ShownInv'
<1> DEFINE logs == LogsIn(walk.room, walk.at)
           at == NextAt(logs, walk.at)
           w == [walk EXCEPT !.out = @ \cup logs, !.at = at, !.steps = @ + 1]
<1>0. /\ walk.stage = "logs" /\ walk \in Walks /\ FoundIn(said, Block, walk)
      /\ GoesOn(walk) /\ ArchiveInv /\ ArchiveTypeOK
      /\ walk.at > 0 /\ walk.steps < MaxSteps
      /\ walk.steps \in 0..MaxSteps /\ walk.at \in Nat /\ walk.head \in Nat
      /\ walk.out \subseteq 1..MaxSaid /\ walk.room \in Rooms
  BY DEF LogsArrive, TalkInv, WalkInv, TalkTypeOK, GoesOn, Walks, FoundIn
<1>1. /\ logs # {} /\ logs \subseteq 1..Len(said)
      /\ at \in Nat /\ at < walk.at
      /\ walk.out \cup logs = Between(said, walk.room, at, walk.head)
      /\ at > 0 => \E i \in 1..Len(said) : said[i].room = walk.room /\ said[i].block = at
  BY <1>0, OneBlockMore
<1>2. Proceed(w) /\ UNCHANGED <<archiveVars, ROOM, asked, polled, failures>>
  BY DEF LogsArrive
<1>3. logs \subseteq 1..MaxSaid
  BY <1>0, <1>1, ArchiveAssumption DEF ArchiveTypeOK
<1> HIDE DEF logs, at
<1>4. /\ w.room = walk.room /\ w.out = walk.out \cup logs /\ w.steps = walk.steps + 1
      /\ w.stage = "logs" /\ w.at = at /\ w.head = walk.head
  BY <1>0 DEF Walks
<1>5. w \in Walks
  <2>1. walk.out \cup logs \in SUBSET (1..MaxSaid)
    BY <1>0, <1>3
  <2>2. walk.steps + 1 \in 0..MaxSteps
    BY <1>0, TalkAssumption
  <2>3. QED
    BY <1>0, <1>1, <2>1, <2>2 DEF Walks
<1> HIDE DEF w
<1>6. FoundIn(said, Block, w)
  <2>1. walk.head < Block /\ walk.at <= walk.head
    BY <1>0 DEF FoundIn
  <2>2. at <= walk.head
    BY <1>0, <1>1, <2>1
  <2>3. QED
    BY <1>0, <1>1, <1>4, <2>1, <2>2 DEF FoundIn
<1>7. QED
  BY <1>2, <1>4, <1>5, <1>6, ProceedInv

\* A paint that begins walks nowhere yet, and shows nothing.
LEMMA PaintInv ==
  ASSUME TalkInv, NEW room \in Rooms \cup {NoRoom}, Paint(room)
  PROVE  BUSY' \in BOOLEAN /\ walk' \in Walks /\ (said' = said /\ Block' = Block => WalkInv')
<1>1. CASE room = NoRoom \/ BUSY
  BY <1>1 DEF Paint, TalkInv, TalkTypeOK, WalkInv, GoesOn
<1>2. CASE ~(room = NoRoom \/ BUSY)
  <2>1. BUSY' = TRUE /\ walk' = [NoWalk EXCEPT !.stage = "head", !.room = room]
    BY <1>2 DEF Paint
  <2>2. /\ walk' \in Walks /\ walk'.stage = "head" /\ walk'.room = room
        /\ walk'.out = {} /\ walk'.steps = 0
    <3> DEFINE w == [stage |-> "head", room |-> room, head |-> 0, at |-> 0, out |-> {}, steps |-> 0]
    <3>1. walk' = w
      BY <2>1 DEF NoWalk
    <3>2. w \in Walks
      BY TalkAssumption DEF Walks
    <3>3. w.stage = "head" /\ w.room = room /\ w.out = {} /\ w.steps = 0
      OBVIOUS
    <3> HIDE DEF w
    <3>4. QED
      BY <3>1, <3>2, <3>3
  <2>3. room \in Rooms
    BY <1>2
  <2>4. QED
    BY <2>1, <2>2, <2>3 DEF WalkInv
<1>3. QED
  BY <1>1, <1>2

\* A step that leaves the archive and the screen alone, and the walk unless
\* it paints.
LEMMA PageStepInv ==
  ASSUME TalkInv, PageStep
  PROVE  PageTyped' /\ WalkInv' /\ ShownInv' /\ UNCHANGED archiveVars
<1> DEFINE Goal == PageTyped' /\ WalkInv' /\ ShownInv' /\ UNCHANGED archiveVars
<1>0. PageTyped /\ WalkInv /\ ShownInv
  BY DEF TalkInv, TalkTypeOK, PageTyped
<1>1. ASSUME UNCHANGED archiveVars PROVE said' = said /\ Block' = Block
  BY <1>1 DEF archiveVars, saidVars, Block
<1>2. ASSUME UNCHANGED <<archiveVars, SEEN, shown>>
      PROVE  ShownInv'
  BY <1>0, <1>1, <1>2 DEF ShownInv, GoesOn
<1>3. CASE HeadArrives
  BY <1>3, HeadArrivesInv DEF HeadArrives
<1>4. CASE LogsArrive
  BY <1>4, LogsArriveInv DEF LogsArrive
<1>5. ASSUME WalkFails PROVE Goal
  <2>1. /\ failures' = failures + 1 /\ failures < MaxFails /\ walk' = NoWalk
        /\ BUSY' = FALSE
        /\ UNCHANGED <<archiveVars, ROOM, SEEN, shown, asked, polled>>
    BY <1>5 DEF WalkFails, BusyAfterFailure
  <2>2. PageTyped'
    <3>1. failures' \in 0..MaxFails
      BY <1>0, <2>1, TalkAssumption DEF PageTyped
    <3>2. QED
      BY <1>0, <2>1, <3>1, NoWalkTyped DEF PageTyped
  <2>3. WalkInv'
    BY <2>1, NoWalkTyped DEF WalkInv
  <2>4. QED
    BY <1>2, <2>1, <2>2, <2>3
<1>6. ASSUME \/ \E room \in Rooms \cup {NoRoom} : Paint(room)
             \/ UNCHANGED <<BUSY, walk>>,
             UNCHANGED <<archiveVars, SEEN, shown>>,
             ROOM' \in Rooms \cup {NoRoom}, asked' \subseteq Mine, polled' \subseteq Rooms,
             failures' \in 0..MaxFails
      PROVE  Goal
  <2>1. BUSY' \in BOOLEAN /\ walk' \in Walks /\ WalkInv'
    <3>1. ASSUME NEW room \in Rooms \cup {NoRoom}, Paint(room)
          PROVE  BUSY' \in BOOLEAN /\ walk' \in Walks /\ WalkInv'
      BY <1>1, <1>6, <3>1, PaintInv
    <3>2. CASE UNCHANGED <<BUSY, walk>>
      BY <1>0, <1>1, <1>6, <3>2 DEF PageTyped, WalkInv, GoesOn
    <3>3. QED
      BY <1>6, <3>1, <3>2
  <2>2. PageTyped'
    BY <1>0, <1>6, <2>1 DEF PageTyped
  <2>3. QED
    BY <1>2, <1>6, <2>1, <2>2
<1>7. /\ ROOM \in Rooms \cup {NoRoom} /\ asked \subseteq Mine /\ polled \subseteq Rooms
      /\ failures \in 0..MaxFails /\ failures + 1 \in 0..(MaxFails + 1)
      /\ MaxFails \in Nat
  BY <1>0, TalkAssumption DEF PageTyped
<1> HIDE DEF Goal
<1>8. ASSUME PaintCall PROVE Goal
  <2>1. /\ Paint(ROOM)
        /\ UNCHANGED <<archiveVars, ROOM, SEEN, shown, asked, polled, failures>>
    BY <1>8 DEF PaintCall
  <2>2. QED
    BY <1>6, <1>7, <2>1
<1>9. ASSUME Poll PROVE Goal
  <2>1. /\ polled' \subseteq Rooms
        /\ UNCHANGED <<archiveVars, ROOM, SEEN, BUSY, walk, shown, asked, failures>>
    BY <1>7, <1>9 DEF Poll
  <2>2. QED
    BY <1>6, <1>7, <2>1
<1>10. ASSUME NEW token \in Mine, Become(token) PROVE Goal
  <2>1. asked' \subseteq Mine
    BY <1>7, <1>10 DEF Become
  <2>2. /\ Paint(ROOM) \/ UNCHANGED <<BUSY, walk>>
        /\ UNCHANGED <<archiveVars, ROOM, SEEN, shown, polled, failures>>
    BY <1>10 DEF Become
  <2>3. QED
    BY <1>6, <1>7, <2>1, <2>2
<1>11. ASSUME NEW token \in Mine, PairArrives(token) PROVE Goal
  <2>1. PairWith[token] \in Rooms \cup {NoRoom}
    BY TalkAssumption
  <2>2. asked' \subseteq Mine /\ Paint(PairWith[token]) /\ ROOM' = PairWith[token]
        /\ UNCHANGED <<archiveVars, SEEN, shown, polled, failures>>
    BY <1>7, <1>11 DEF PairArrives
  <2>3. QED
    BY <1>6, <1>7, <2>1, <2>2
<1>12. ASSUME NEW token \in Mine, PairFails(token) PROVE Goal
  <2>1. /\ asked' \subseteq Mine /\ failures' \in 0..MaxFails
        /\ UNCHANGED <<archiveVars, ROOM, SEEN, BUSY, walk, shown, polled>>
    BY <1>7, <1>12 DEF PairFails
  <2>2. QED
    BY <1>6, <1>7, <2>1
<1>13. ASSUME NEW room \in Rooms, HeadsArrive(room) PROVE Goal
  <2>1. /\ polled' \subseteq Rooms
        /\ Paint(ROOM) \/ UNCHANGED <<BUSY, walk>>
        /\ UNCHANGED <<archiveVars, ROOM, SEEN, shown, asked, failures>>
    BY <1>7, <1>13 DEF HeadsArrive
  <2>2. QED
    BY <1>6, <1>7, <2>1
<1>14. ASSUME NEW room \in Rooms, HeadsFail(room) PROVE Goal
  <2>1. /\ polled' \subseteq Rooms /\ failures' \in 0..MaxFails
        /\ UNCHANGED <<archiveVars, ROOM, SEEN, BUSY, walk, shown, asked>>
    BY <1>7, <1>14 DEF HeadsFail
  <2>2. QED
    BY <1>6, <1>7, <2>1
<1>15. Goal
  BY <1>3, <1>4, <1>5, <1>8, <1>9, <1>10, <1>11, <1>12, <1>13, <1>14 DEF PageStep, Goal
<1>16. QED
  BY <1>15 DEF Goal

LEMMA TalkInitInv == TalkInit => TalkInv
<1> SUFFICES ASSUME TalkInit PROVE TalkInv
  OBVIOUS
<1>1. ArchiveInv
  BY ArchiveInitInv DEF TalkInit
<1>2. TalkTypeOK
  <2>1. failures \in 0..MaxFails
    BY TalkAssumption DEF TalkInit
  <2>2. ROOM \in Rooms \cup {NoRoom} /\ SEEN \in Nat /\ BUSY \in BOOLEAN
    BY TalkAssumption DEF TalkInit
  <2>3. QED
    BY <1>1, <2>1, <2>2, NoWalkTyped DEF TalkInit, TalkTypeOK, ArchiveInv
<1>3. WalkInv /\ ShownInv
  BY NoWalkTyped DEF TalkInit, WalkInv, ShownInv
<1>4. QED
  BY <1>1, <1>2, <1>3 DEF TalkInv

LEMMA TalkNextInv == TalkInv /\ [TalkNext]_talkVars => TalkInv'
<1>1. ASSUME TalkInv, PageStep PROVE TalkInv'
  <2>1. PageTyped' /\ WalkInv' /\ ShownInv' /\ UNCHANGED archiveVars
    BY <1>1, PageStepInv
  <2>2. ArchiveInv'
    BY <1>1, <2>1, ArchiveNextInv DEF TalkInv
  <2>3. QED
    BY <2>1, <2>2 DEF TalkInv, TalkTypeOK, PageTyped, ArchiveInv
<1>2. ASSUME TalkInv, [ArchiveNext]_archiveVars, UNCHANGED pageVars PROVE TalkInv'
  <2>1. ArchiveInv /\ ArchiveInv'
    BY <1>2, ArchiveNextInv DEF TalkInv
  <2>2. walk' = walk /\ shown' = shown /\ SEEN' = SEEN /\ walk \in Walks /\ shown \in Walks
    BY <1>2 DEF pageVars, TalkInv, TalkTypeOK
  <2>3. TalkTypeOK'
    BY <1>2, <2>1 DEF pageVars, TalkInv, TalkTypeOK, ArchiveInv
  <2>4. WalkInv'
    <3>1. walk.stage = "logs" => FoundIn(said', Block', walk)
      BY <1>2, <2>1, <2>2, FoundStill DEF TalkInv, WalkInv
    <3>2. QED
      BY <1>2, <2>2, <3>1 DEF TalkInv, WalkInv, GoesOn
  <2>5. ShownInv'
    <3>1. shown.stage = "logs" => FoundIn(said', Block', shown)
                                     /\ NewestIn(said', shown) = NewestIn(said, shown)
      BY <1>2, <2>1, <2>2, FoundStill DEF TalkInv, ShownInv
    <3>2. QED
      BY <1>2, <2>2, <3>1 DEF TalkInv, ShownInv, GoesOn
  <2>6. QED
    BY <2>1, <2>3, <2>4, <2>5 DEF TalkInv
<1>3. QED
  BY <1>1, <1>2 DEF TalkNext, talkVars

LEMMA TalkInvAlways == TalkSpec => []TalkInv
  BY TalkInitInv, TalkNextInv, PTL DEF TalkSpec

\* The page's variables have their types: a walk never asks for more blocks
\* than it may.
THEOREM TalkIsTyped == TalkSpec => []TalkTypeOK
<1>1. TalkInv => TalkTypeOK
  BY DEF TalkInv
<1>2. QED
  BY <1>1, TalkInvAlways, PTL

\* back and paint: what a page shows of a room has no hole in it, however
\* the chain went on between two of its questions.
THEOREM TheScreenIsAStretch == TalkSpec => []ScreenIsAStretch
<1>1. TalkInv => ScreenIsAStretch
  BY StretchFound DEF TalkInv, TalkTypeOK, ShownInv, ScreenIsAStretch
<1>2. QED
  BY <1>1, TalkInvAlways, PTL

\* The number watch compares with the room's count counts the same thing.
THEOREM SeenCounts == TalkSpec => []SeenIsTheCount
<1>1. TalkInv => SeenIsTheCount
  BY NewestIsTheCount DEF TalkInv, TalkTypeOK, ShownInv, SeenIsTheCount
<1>2. QED
  BY <1>1, TalkInvAlways, PTL
==============================================================================
