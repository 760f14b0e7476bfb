---------------------------- MODULE Client_proofs ---------------------------
(***************************************************************************)
(* Proofs about the page: Review first, then Workbench, each with an       *)
(* inductive invariant, the lemmas that every action keeps it, and what    *)
(* follows.  The last part on Review shows that it implements OneShot.     *)
(***************************************************************************)
EXTENDS Review, Workbench, TLAPS, FiniteSetTheorems

-----------------------------------------------------------------------------
(* Review: the inductive invariant.                                        *)

TaskType == [at : Stages, got : Views \cup {NoView}, commits : BOOLEAN,
             asked : Nat, identity : Identities,
             intent : Views \cup {NoView}, plan : Views \cup {NoView},
             link : Nat, begun : Nat, live : BOOLEAN, pending : BOOLEAN,
             shown : Tasks \cup {None}, aged : BOOLEAN, takes : Tasks \cup {None},
             since : Nat]

Typed ==
    /\ chain \in Views
    /\ wallet \in [account : Accounts, address : Accounts \cup {Nobody},
                   revision : Nat, plan : Tasks \cup {None}]
    /\ desk \in [current : Tasks \cup {None}, dialog : Tasks \cup {None},
                 armed : BOOLEAN, identity : Identities]
    /\ task \in [Tasks -> TaskType]
    /\ pool \in SUBSET Tasks
    /\ fate \in [Tasks -> {"none", "signed", "applied", "reverted"}]

\* A live review is the page's current one, begun under the link still up.
LinkInv ==
    /\ \A a \in Tasks :
        /\ task[a].live => Connected /\ task[a].begun = wallet.revision /\ desk.current = a
        /\ task[a].pending => task[a].at = "offered"
        /\ task[a].at \in {"simulate", "again"} => task[a].link = task[a].asked
        /\ task[a].at \notin {"idle", "intent", "failed"} => desk.current # None
    /\ desk.dialog # None => desk.current # None

\* A plan that was made under its own link and not signed.  The wallet's plan
\* is one, and nobody is sending it; whatever is being sent is one, and only
\* one task sends it.
Made(p) == task[p].at \notin Early /\ task[p].link = task[p].begun /\ fate[p] = "none"
PlanInv ==
    /\ wallet.plan # None =>
          /\ Connected
          /\ task[wallet.plan].link = wallet.revision
          /\ Made(wallet.plan)
          /\ ~Taking(wallet.plan)
    /\ \A a \in Tasks : task[a].at \in Sending => task[a].takes # None /\ Made(task[a].takes)
    /\ \A a, b \in Tasks :
          task[a].at \in Sending /\ task[b].at \in Sending /\ task[a].takes = task[b].takes => a = b
\* What was signed was prepared, and a commit that was applied moved the root
\* past the one it was built on.
FateInv ==
    /\ \A p \in Tasks :
          /\ fate[p] # "none" => task[p].at \notin Early
          /\ fate[p] = "applied" /\ task[p].commits => task[p].intent.root < chain.root
          /\ p \in pool => fate[p] = "signed"
    /\ CommitsNeverShareARoot
\* The chain has not moved since before the last reading of the context.
HeightInv == \A a \in Tasks :
    /\ task[a].since <= Height(chain)
    /\ task[a].at = "last" /\ task[a].got # NoView => Height(task[a].got) >= task[a].since
    /\ task[a].at \in {"call", "signing"} => Height(task[task[a].takes].plan) >= task[a].since

Inv == Typed /\ LinkInv /\ PlanInv /\ FateInv /\ HeightInv

-----------------------------------------------------------------------------
(* The pieces of the handlers.                                             *)

LEMMA HeightType == \A v \in Views \cup {NoView} : Height(v) \in Nat
  BY DEF Views, NoView, Height

LEMMA NoViewIsNone == NoView \notin Views
  BY ReviewAssumption DEF Views, NoView

LEMMA IdentityType == \A v \in Views \cup {NoView} : IdentityOf(v) \in Identities
  BY DEF Views, NoView, IdentityOf, Identities

\* What a task has written down.
SamePapers(x, y) ==
    /\ x.intent = y.intent /\ x.plan = y.plan /\ x.commits = y.commits
    /\ x.link = y.link /\ x.begun = y.begun /\ x.since = y.since

SameButFlags(x, y) ==
    /\ SamePapers(x, y)
    /\ x.at = y.at /\ x.got = y.got /\ x.takes = y.takes /\ x.asked = y.asked

LEMMA OnwardIs ==
  ASSUME task \in [Tasks -> TaskType], wallet.revision \in Nat,
         NEW a \in Tasks, NEW stage \in Stages
  PROVE  /\ Onward(a, stage) \in TaskType
         /\ Onward(a, stage).at = stage
         /\ Onward(a, stage).got = NoView
         /\ Onward(a, stage).asked = wallet.revision
         /\ Onward(a, stage).takes = task[a].takes
         /\ Onward(a, stage).live = task[a].live
         /\ Onward(a, stage).pending = task[a].pending
         /\ SamePapers(Onward(a, stage), task[a])
  BY DEF Onward, TaskType, SamePapers

LEMMA FailedIs ==
  ASSUME task \in [Tasks -> TaskType], NEW a \in Tasks
  PROVE  /\ Failed(a) \in [Tasks -> TaskType]
         /\ \A b \in Tasks : b # a => Failed(a)[b] = task[b]
         /\ Failed(a)[a].at = "failed"
         /\ Failed(a)[a].live = task[a].live
         /\ Failed(a)[a].pending = task[a].pending
         /\ SamePapers(Failed(a)[a], task[a])
<1> DEFINE x == [task[a] EXCEPT !.at = "failed", !.got = NoView, !.takes = None]
<1>1. /\ x \in TaskType
      /\ x.at = "failed" /\ x.live = task[a].live /\ x.pending = task[a].pending
      /\ SamePapers(x, task[a])
  BY DEF TaskType, SamePapers, Stages
<1>2. Failed(a) = [task EXCEPT ![a] = x]
  BY DEF Failed, TaskType
<1> HIDE DEF x
<1>3. QED
  BY <1>1, <1>2

LEMMA VoidedIs ==
  ASSUME NEW t \in [Tasks -> TaskType], desk.current \in Tasks \cup {None}
  PROVE  /\ Voided(t) \in [Tasks -> TaskType]
         /\ \A b \in Tasks :
               /\ SameButFlags(Voided(t)[b], t[b])
               /\ Voided(t)[b].live => t[b].live /\ b # desk.current
               /\ Voided(t)[b].pending => t[b].pending
<1>1. CASE desk.current = None
  BY <1>1, ReviewAssumption DEF Voided, SameButFlags, SamePapers
<1>2. ASSUME NEW c \in Tasks, desk.current = c
      PROVE  /\ Voided(t) \in [Tasks -> TaskType]
             /\ \A b \in Tasks :
                   /\ SameButFlags(Voided(t)[b], t[b])
                   /\ Voided(t)[b].live => t[b].live /\ b # c
                   /\ Voided(t)[b].pending => t[b].pending
  <2> DEFINE x == [t[c] EXCEPT !.live = FALSE, !.pending = FALSE]
  <2>1. x \in TaskType /\ ~x.live /\ ~x.pending
    BY DEF TaskType
  <2>2. SameButFlags(x, t[c])
    BY DEF TaskType, SameButFlags, SamePapers
  <2>3. Voided(t) = [t EXCEPT ![c] = x]
    BY <1>2, ReviewAssumption DEF Voided, TaskType
  <2>4. \A b \in Tasks : SameButFlags(t[b], t[b])
    BY DEF SameButFlags, SamePapers
  <2> HIDE DEF x
  <2>5. QED
    BY <2>1, <2>2, <2>3, <2>4
<1>3. QED
  BY <1>1, <1>2

-----------------------------------------------------------------------------
(* Two kinds of step disturb nothing: one that only gives things up, and   *)
(* one that only moves the chain on.                                       *)

WalletType == [account : Accounts, address : Accounts \cup {Nobody},
               revision : Nat, plan : Tasks \cup {None}]
DeskType == [current : Tasks \cup {None}, dialog : Tasks \cup {None},
             armed : BOOLEAN, identity : Identities]

\* Tasks stay where they are, but for one that may end, and keep what they
\* wrote down; a plan, a confirmation or the link may be lost.
Yields ==
    /\ task' \in [Tasks -> TaskType]
    /\ \A a \in Tasks :
          /\ SamePapers(task'[a], task[a])
          /\ \/ SameButFlags(task'[a], task[a])
             \/ task'[a].at = "failed"
             \/ task'[a].at = "done" /\ task[a].at = "sent"
          /\ task'[a].live => task[a].live
          /\ task'[a].pending => task[a].pending /\ task'[a].at = task[a].at
    /\ \A a, b \in Tasks : a # b =>
          SameButFlags(task'[a], task[a]) \/ SameButFlags(task'[b], task[b])
    /\ wallet' \in WalletType
    /\ wallet'.plan \in {wallet.plan, None}
    /\ \/ wallet'.address = wallet.address /\ wallet'.revision = wallet.revision
       \/ wallet'.plan = None /\ \A a \in Tasks : ~task'[a].live
    /\ desk' \in DeskType
    /\ desk'.current = desk.current
    /\ desk'.dialog \in {desk.dialog, None}
    /\ UNCHANGED <<chain, pool, fate>>

LEMMA YieldsInv ==
  ASSUME Inv, Yields
  PROVE  Inv'
<1>1. Typed'
  BY DEF Inv, Typed, Yields, WalletType, DeskType
<1>2. LinkInv'
  BY DEF Inv, LinkInv, Yields, Connected, SameButFlags, SamePapers
<1>3. PlanInv'
  <2>1. \A p \in Tasks : Made(p) => Made(p)'
    BY DEF Yields, Made, SameButFlags, SamePapers, Early
  <2>2. \A a \in Tasks : task'[a].at \in Sending =>
            task[a].at \in Sending /\ task'[a].takes = task[a].takes
    BY DEF Yields, SameButFlags, Sending
  <2>3. wallet'.plan # None => wallet'.plan = wallet.plan /\ wallet'.plan \in Tasks
    BY DEF Yields, WalletType
  <2>4. QED
    BY <2>1, <2>2, <2>3 DEF Inv, Typed, TaskType, PlanInv, Taking, Yields, Connected, SamePapers
<1>4. FateInv'
  BY DEF Inv, FateInv, CommitsNeverShareARoot, Yields, SameButFlags, SamePapers, Early
<1>5. HeightInv'
  <2>1. ASSUME NEW a \in Tasks, task'[a].at \in {"last", "call", "signing"}
        PROVE  SameButFlags(task'[a], task[a]) /\ task[a].takes \in Tasks
    BY <2>1 DEF Inv, Typed, TaskType, PlanInv, Sending, Yields, SameButFlags
  <2>2. QED
    BY <2>1 DEF Inv, HeightInv, Yields, SameButFlags, SamePapers
<1>6. QED
  BY <1>1, <1>2, <1>3, <1>4, <1>5 DEF Inv

Grows ==
    /\ chain' \in Views
    /\ chain.root <= chain'.root
    /\ Height(chain) <= Height(chain')
    /\ UNCHANGED <<wallet, desk, task, pool, fate>>

LEMMA GrowsInv ==
  ASSUME Inv, Grows
  PROVE  Inv'
<1>1. Typed' /\ LinkInv' /\ PlanInv'
  BY DEF Inv, Typed, LinkInv, PlanInv, Grows, Connected, Made, Taking
<1>2. FateInv'
  BY HeightType DEF Inv, Typed, TaskType, Views, NoView, FateInv, CommitsNeverShareARoot, Grows
<1>3. HeightInv'
  BY HeightType DEF Inv, Typed, TaskType, HeightInv, Grows
<1>4. QED
  BY <1>1, <1>2, <1>3 DEF Inv

-----------------------------------------------------------------------------
(* The steps that only give things up.                                     *)

LEMMA NoPlanIs ==
  ASSUME wallet \in WalletType
  PROVE  /\ NoPlan(wallet) \in WalletType
         /\ NoPlan(wallet).plan = None
         /\ NoPlan(wallet).address = wallet.address
         /\ NoPlan(wallet).revision = wallet.revision
  BY DEF NoPlan, WalletType

LEMMA Same == \A x : SameButFlags(x, x) /\ SamePapers(x, x)
  BY DEF SameButFlags, SamePapers

LEMMA FailedYields ==
  ASSUME Inv, NEW a \in Tasks, task[a].at # "offered", task' = Failed(a),
         wallet' \in {wallet, NoPlan(wallet)}, UNCHANGED <<chain, desk, pool, fate>>
  PROVE  Yields
<1>1. task \in [Tasks -> TaskType] /\ wallet \in WalletType /\ desk \in DeskType /\ ~task[a].pending
  BY DEF Inv, Typed, WalletType, DeskType, LinkInv
<1>2. QED
  BY <1>1, FailedIs, NoPlanIs, Same DEF Yields

LEMMA ThrowYields ==
  ASSUME Inv, NEW a \in Tasks, task[a].at # "offered", Throw(a), UNCHANGED <<chain, pool, fate>>
  PROVE  Yields
  BY FailedYields DEF Throw

LEMMA UnlinkedYields ==
  ASSUME Inv, NEW t \in [Tasks -> TaskType], Unlinked(t), UNCHANGED <<chain, pool, fate>>,
         \/ t = task
         \/ \E a \in Tasks : t = Failed(a) /\ task[a].at # "offered"
  PROVE  Yields
<1>1. task \in [Tasks -> TaskType] /\ wallet \in WalletType /\ desk \in DeskType
  BY DEF Inv, Typed, WalletType, DeskType
<1>2. wallet' \in WalletType /\ wallet'.plan = None
  <2>1. wallet' = [account |-> wallet.account, address |-> Nobody,
                   revision |-> wallet.revision + 1, plan |-> None]
    BY <1>1 DEF Unlinked, WalletType
  <2>2. QED
    BY <1>1, <2>1 DEF WalletType
<1>3. desk' \in DeskType /\ desk'.current = desk.current /\ desk'.dialog = None
  BY <1>1, IdentityType DEF Unlinked, DeskType
<1>4. \A b \in Tasks :
          /\ SamePapers(t[b], task[b])
          /\ SameButFlags(t[b], task[b]) \/ t[b].at = "failed"
          /\ t[b].live = task[b].live
          /\ t[b].pending => task[b].pending /\ t[b].at = task[b].at
  BY <1>1, FailedIs, Same DEF Inv, LinkInv
<1>5. /\ task' \in [Tasks -> TaskType]
      /\ \A b \in Tasks :
            /\ SameButFlags(task'[b], t[b])
            /\ task'[b].live => t[b].live /\ b # desk.current
            /\ task'[b].pending => t[b].pending
  BY <1>1, VoidedIs DEF Unlinked, DeskType
<1>6. \A b \in Tasks :
          /\ SamePapers(task'[b], task[b])
          /\ SameButFlags(task'[b], task[b]) \/ task'[b].at = "failed"
          /\ task'[b].pending => task[b].pending /\ task'[b].at = task[b].at
  BY <1>4, <1>5 DEF SameButFlags, SamePapers
<1>7. \A b \in Tasks : ~task'[b].live
  BY <1>4, <1>5 DEF Inv, LinkInv
<1>8. \A b, c \in Tasks : b # c =>
          SameButFlags(task'[b], task[b]) \/ SameButFlags(task'[c], task[c])
  <2>1. \A b, c \in Tasks : b # c => t[b] = task[b] \/ t[c] = task[c]
    BY <1>1, FailedIs
  <2>2. QED
    BY <1>5, <2>1
<1>9. QED
  BY <1>2, <1>3, <1>5, <1>6, <1>7, <1>8 DEF Yields, Unlinked

LEMMA CancelReviewYields ==
  ASSUME Inv, CancelReview
  PROVE  Yields
<1>1. task \in [Tasks -> TaskType] /\ wallet \in WalletType /\ desk \in DeskType
  BY DEF Inv, Typed, WalletType, DeskType
<1>2. wallet' = NoPlan(wallet) /\ task' = Voided(task) /\ UNCHANGED <<chain, pool, fate>>
  BY DEF CancelReview, Closed
<1>3. desk' \in DeskType /\ desk'.current = desk.current /\ desk'.dialog = None
  BY <1>1 DEF CancelReview, Closed, DeskType
<1>4. desk.current \in Tasks \cup {None}
  BY <1>1 DEF DeskType
<1>5. QED
  BY <1>1, <1>2, <1>3, <1>4, NoPlanIs, VoidedIs DEF Yields, SameButFlags

LEMMA AgeYields ==
  ASSUME Inv, NEW a \in Tasks, Age(a)
  PROVE  Yields
<1>1. task \in [Tasks -> TaskType] /\ wallet \in WalletType /\ desk \in DeskType
  BY DEF Inv, Typed, WalletType, DeskType
<1> DEFINE x == [task[a] EXCEPT !.aged = TRUE]
<1>2. /\ x \in TaskType /\ SameButFlags(x, task[a])
      /\ x.live = task[a].live /\ x.pending = task[a].pending
  BY <1>1 DEF TaskType, SameButFlags, SamePapers
<1>3. task' = [task EXCEPT ![a] = x] /\ UNCHANGED <<chain, wallet, desk, pool, fate>>
  BY <1>1 DEF Age, TaskType
<1> HIDE DEF x
<1>4. QED
  BY <1>1, <1>2, <1>3, Same DEF Yields, WalletType, DeskType, SameButFlags

LEMMA ReceiptYields ==
  ASSUME Inv, NEW a \in Tasks, Receipt(a)
  PROVE  Yields
<1>1. task \in [Tasks -> TaskType] /\ wallet \in WalletType /\ desk \in DeskType /\ ~task[a].pending
  BY DEF Inv, Typed, WalletType, DeskType, LinkInv, Receipt
<1> DEFINE x == [task[a] EXCEPT !.at = "done"]
<1>2. /\ x \in TaskType /\ SamePapers(x, task[a]) /\ x.at = "done"
      /\ x.live = task[a].live /\ x.pending = task[a].pending
  BY <1>1 DEF TaskType, SamePapers, Stages
<1>3. /\ task' = [task EXCEPT ![a] = x] /\ task[a].at = "sent" /\ UNCHANGED <<chain, pool, fate>>
      /\ wallet' \in {wallet, NoPlan(wallet)}
  BY <1>1 DEF Receipt, TaskType
<1>4. desk' \in DeskType /\ desk'.current = desk.current /\ desk'.dialog \in {desk.dialog, None}
  BY <1>1 DEF Receipt, DeskType
<1> HIDE DEF x
<1>5. QED
  BY <1>1, <1>2, <1>3, <1>4, NoPlanIs, Same DEF Yields

LEMMA SelectYields ==
  ASSUME Inv, NEW who \in Accounts, Select(who)
  PROVE  Yields
<1>1. task \in [Tasks -> TaskType] /\ wallet \in WalletType /\ desk \in DeskType
  BY DEF Inv, Typed, WalletType, DeskType
<1>2. /\ wallet' \in WalletType /\ wallet'.plan = wallet.plan
      /\ wallet'.address = wallet.address /\ wallet'.revision = wallet.revision
  BY <1>1 DEF Select, WalletType
<1>3. QED
  BY <1>1, <1>2, Same DEF Yields, Select

LEMMA ConnectYields ==
  ASSUME Inv, Connect
  PROVE  Yields
<1>1. task \in [Tasks -> TaskType] /\ wallet \in WalletType /\ desk \in DeskType /\ chain \in Views
  BY DEF Inv, Typed, WalletType, DeskType
<1>2. wallet' \in WalletType /\ wallet'.plan = None
  <2>1. wallet' = [account |-> wallet.account, address |-> chain.owner,
                   revision |-> wallet.revision + 1, plan |-> None]
    BY <1>1 DEF Connect, WalletType
  <2>2. QED
    BY <1>1, <2>1 DEF WalletType, Views
<1>3. desk' \in DeskType /\ desk'.current = desk.current /\ desk'.dialog = desk.dialog
  BY <1>1, IdentityType DEF Connect, DeskType
<1>4. \A b \in Tasks : ~task[b].live
  BY DEF Inv, LinkInv, Connect
<1>5. QED
  BY <1>1, <1>2, <1>3, <1>4, Same DEF Yields, Connect

LEMMA RefreshYields ==
  ASSUME Inv, Refresh
  PROVE  Yields
<1>1. task \in [Tasks -> TaskType] /\ wallet \in WalletType /\ desk \in DeskType /\ chain \in Views
  BY DEF Inv, Typed, WalletType, DeskType
<1>2. desk' \in DeskType /\ desk'.current = desk.current /\ desk'.dialog = desk.dialog
  BY <1>1, IdentityType DEF Refresh, DeskType
<1>3. QED
  BY <1>1, <1>2, Same DEF Yields, Refresh, WalletType

LEMMA MoveGrows ==
  ASSUME Inv, Move
  PROVE  Grows
<1>1. chain \in Views
  BY DEF Inv, Typed
<1>2. PICK who \in Accounts, e \in Nat, r \in Nat, n \in Nat :
          /\ chain' = [owner |-> who, epoch |-> e, root |-> r, nonce |-> n]
          /\ chain.root <= r /\ Height(chain) <= e + n
  <2>1. CASE \E who \in Accounts : chain' = [chain EXCEPT !.owner = who, !.epoch = @ + 1]
    <3>1. PICK who \in Accounts : chain' = [chain EXCEPT !.owner = who, !.epoch = @ + 1]
      BY <2>1
    <3>2. chain' = [owner |-> who, epoch |-> chain.epoch + 1, root |-> chain.root,
                    nonce |-> chain.nonce]
      BY <1>1, <3>1 DEF Views
    <3>3. /\ chain.epoch + 1 \in Nat /\ chain.root \in Nat /\ chain.nonce \in Nat
          /\ chain.root <= chain.root /\ Height(chain) <= chain.epoch + 1 + chain.nonce
      BY <1>1 DEF Views, Height
    <3>4. QED
      BY <3>2, <3>3
  <2>2. CASE \/ chain' = [chain EXCEPT !.nonce = @ + 1]
             \/ chain' = [chain EXCEPT !.nonce = @ + 1, !.root = @ + 1]
    <3>1. PICK r \in {chain.root, chain.root + 1} :
              chain' = [owner |-> chain.owner, epoch |-> chain.epoch, root |-> r,
                        nonce |-> chain.nonce + 1]
      BY <1>1, <2>2 DEF Views
    <3>2. /\ chain.owner \in Accounts /\ chain.epoch \in Nat /\ r \in Nat /\ chain.nonce + 1 \in Nat
          /\ chain.root <= r /\ Height(chain) <= chain.epoch + (chain.nonce + 1)
      BY <1>1, <3>1 DEF Views, Height
    <3>3. QED
      BY <3>1, <3>2
  <2>3. QED
    BY <2>1, <2>2 DEF Move
<1>3. QED
  BY <1>2 DEF Move, Grows, Views, Height
-----------------------------------------------------------------------------
(* The steps that move a task on.                                          *)

LEMMA AskInv ==
  ASSUME Inv, NEW a \in Tasks, task[a].at \in Waiting,
         task' = [task EXCEPT ![a].got = chain], UNCHANGED <<chain, wallet, desk, pool, fate>>
  PROVE  Inv'
<1>1. Typed'
  BY ReviewAssumption DEF Inv, Typed, TaskType, Stages, Early, Confirming, Sending, Waiting, Views, NoView, Identities
<1>2. LinkInv'
  BY ReviewAssumption DEF Inv, Typed, TaskType, LinkInv, Connected, Stages, Early, Confirming, Sending
<1>3. PlanInv'
  BY ReviewAssumption DEF Inv, Typed, TaskType, PlanInv, Connected, Made, Taking, Stages, Early, Confirming, Sending
<1>4. FateInv'
  BY ReviewAssumption DEF Inv, Typed, TaskType, FateInv, CommitsNeverShareARoot, Early, Views
<1>5. HeightInv'
  BY ReviewAssumption, HeightType, NoViewIsNone DEF Inv, Typed, TaskType, HeightInv, Stages, Early, Confirming, Sending
<1>6. QED
  BY <1>1, <1>2, <1>3, <1>4, <1>5 DEF Inv

\* A task whose plan is not made yet goes on: no one knows of it.
LEMMA EarlyInv ==
  ASSUME Inv, NEW a \in Tasks, NEW x \in TaskType, task' = [task EXCEPT ![a] = x],
         task[a].at \in Early, x.at \in Early,
         x.at \in {"simulate", "again"} => x.link = x.asked,
         x.at \notin {"idle", "intent"} => desk.current # None,
         x.live = task[a].live, x.pending = task[a].pending,
         x.begun = task[a].begun, x.since = task[a].since,
         wallet' \in {wallet, NoPlan(wallet)}, UNCHANGED <<chain, desk, pool, fate>>
  PROVE  Inv'
<1>1. task \in [Tasks -> TaskType] /\ wallet \in WalletType
  BY DEF Inv, Typed, WalletType
<1>2. task'[a] = x /\ \A b \in Tasks : b # a => task'[b] = task[b]
  BY <1>1
<1>3. /\ wallet' \in WalletType /\ wallet'.plan \in {wallet.plan, None}
      /\ wallet'.address = wallet.address /\ wallet'.revision = wallet.revision
  BY <1>1, NoPlanIs
<1>4. Typed'
  <2>1. task' \in [Tasks -> TaskType]
    BY <1>1
  <2>2. QED
    BY <1>3, <2>1 DEF Inv, Typed, WalletType
<1>5. LinkInv'
  <2>1. ~x.pending
    BY DEF Inv, LinkInv, Early
  <2>2. ASSUME NEW b \in Tasks
        PROVE  /\ task'[b].live => Connected' /\ task'[b].begun = wallet'.revision /\ desk'.current = b
               /\ task'[b].pending => task'[b].at = "offered"
               /\ task'[b].at \in {"simulate", "again"} => task'[b].link = task'[b].asked
               /\ task'[b].at \notin {"idle", "intent", "failed"} => desk'.current # None
    <3>1. CASE b = a
      BY <1>2, <1>3, <2>1, <3>1 DEF Inv, LinkInv, Connected
    <3>2. CASE b # a
      BY <1>2, <1>3, <3>2 DEF Inv, LinkInv, Connected
    <3>3. QED
      BY <3>1, <3>2
  <2>3. QED
    BY <2>2 DEF Inv, LinkInv
<1>6. \A b \in Tasks : task'[b].at \in Sending => task'[b] = task[b] /\ task[b].takes \in Tasks
  BY <1>1, <1>2 DEF Inv, PlanInv, TaskType, Early, Sending
<1>7. \A p \in Tasks : Made(p) => p # a /\ Made(p)'
  BY <1>2 DEF Made
<1>8. PlanInv'
  BY <1>1, <1>2, <1>3, <1>6, <1>7 DEF Inv, PlanInv, WalletType, Connected, Taking
<1>9. FateInv'
  <2>1. \A p \in Tasks : fate[p] # "none" => task'[p] = task[p]
    BY <1>2 DEF Inv, FateInv
  <2>2. QED
    BY <2>1 DEF Inv, FateInv, CommitsNeverShareARoot
<1>10. HeightInv'
  <2>1. \A b \in Tasks : task'[b].since = task[b].since
    BY <1>2
  <2>2. \A b \in Tasks : task'[b].at \in Sending => task'[task[b].takes] = task[task[b].takes]
    BY <1>2, <1>6, <1>7 DEF Inv, PlanInv
  <2>3. QED
    BY <1>6, <2>1, <2>2 DEF Inv, HeightInv, Sending
<1>11. QED
  BY <1>4, <1>5, <1>8, <1>9, <1>10 DEF Inv

\* A task whose plan is made goes on and keeps its papers.
LEMMA LateInv ==
  ASSUME Inv, NEW a \in Tasks, NEW x \in TaskType, task' = [task EXCEPT ![a] = x],
         task[a].at \notin Early, task[a].at # "failed", x.at \notin Early, x.at # "last",
         x.at \in Sending => task[a].at \in Sending,
         x.at \in {"call", "signing"} => Height(task[task[a].takes].plan) >= task[a].since,
         SamePapers(x, task[a]), x.takes = task[a].takes,
         x.live = task[a].live, x.pending => x.at = "offered",
         desk' \in DeskType, desk'.current = desk.current,
         UNCHANGED <<chain, wallet, pool, fate>>
  PROVE  Inv'
<1>1. task \in [Tasks -> TaskType]
  BY DEF Inv, Typed
<1>2. task'[a] = x /\ \A b \in Tasks : b # a => task'[b] = task[b]
  BY <1>1
<1>3. \A b \in Tasks : SamePapers(task'[b], task[b]) /\ task'[b].takes = task[b].takes
  BY <1>2, Same
<1>4. Typed'
  <2>1. task' \in [Tasks -> TaskType]
    BY <1>1
  <2>2. QED
    BY <2>1 DEF Inv, Typed, DeskType
<1>5. LinkInv'
  <2>1. desk.current # None
    BY DEF Inv, LinkInv, Early
  <2>2. ASSUME NEW b \in Tasks
        PROVE  /\ task'[b].live => Connected' /\ task'[b].begun = wallet'.revision /\ desk'.current = b
               /\ task'[b].pending => task'[b].at = "offered"
               /\ task'[b].at \in {"simulate", "again"} => task'[b].link = task'[b].asked
    <3>1. CASE b = a
      BY <1>2, <3>1 DEF Inv, LinkInv, Connected, SamePapers, Early
    <3>2. CASE b # a
      BY <1>2, <3>2 DEF Inv, LinkInv, Connected
    <3>3. QED
      BY <3>1, <3>2
  <2>3. QED
    BY <2>1, <2>2 DEF LinkInv
<1>6. \A b \in Tasks : task'[b].at \in Sending => task[b].at \in Sending /\ task[b].takes \in Tasks
  BY <1>1, <1>2 DEF Inv, PlanInv, TaskType
<1>7. \A p \in Tasks : Made(p) => Made(p)'
  BY <1>2, <1>3 DEF Made, SamePapers
<1>8. PlanInv'
  <2>1. \A p \in Tasks : Taking(p)' => Taking(p)
    BY <1>3, <1>6 DEF Taking
  <2>2. wallet.plan # None => wallet.plan \in Tasks
    BY DEF Inv, Typed
  <2>3. QED
    BY <1>3, <1>6, <1>7, <2>1, <2>2 DEF Inv, PlanInv, Connected, SamePapers
<1>9. FateInv'
  BY <1>2, <1>3 DEF Inv, FateInv, CommitsNeverShareARoot, SamePapers
<1>10. HeightInv'
  <2>1. ASSUME NEW b \in Tasks
        PROVE  /\ task'[b].since <= Height(chain)
               /\ task'[b].at = "last" => task'[b] = task[b]
               /\ task'[b].at \in {"call", "signing"} =>
                     Height(task'[task'[b].takes].plan) >= task'[b].since
    <3>1. task'[b].since = task[b].since /\ task[b].since <= Height(chain)
      BY <1>3 DEF Inv, HeightInv, SamePapers
    <3>2. task'[b].at = "last" => task'[b] = task[b]
      BY <1>2
    <3>3. ASSUME task'[b].at \in {"call", "signing"}
          PROVE  Height(task[task[b].takes].plan) >= task[b].since
      BY <1>2, <3>3 DEF Inv, HeightInv
    <3>4. task'[b].at \in {"call", "signing"} =>
              task[b].takes \in Tasks /\ task'[task[b].takes].plan = task[task[b].takes].plan
      BY <1>3, <1>6 DEF Sending, SamePapers
    <3>5. QED
      BY <1>3, <3>1, <3>2, <3>3, <3>4
  <2>2. QED
    BY <2>1 DEF Inv, HeightInv
<1>11. QED
  BY <1>4, <1>5, <1>8, <1>9, <1>10 DEF Inv

LEMMA TypedParts ==
  ASSUME Inv
  PROVE  /\ task \in [Tasks -> TaskType] /\ wallet \in WalletType /\ desk \in DeskType
         /\ wallet.revision \in Nat /\ chain \in Views
  BY DEF Inv, Typed, WalletType, DeskType

LEMMA VerifiedInv ==
  ASSUME Inv, NEW a \in Tasks, Verified(a)
  PROVE  Inv'
<1> SUFFICES ASSUME Resume(a, "custody"),
                    task' = Moved(a, "context"),
                    wallet' = NoPlan(wallet),
                    UNCHANGED <<chain, desk, pool, fate>>
             PROVE  Inv'
  BY ThrowYields, YieldsInv DEF Verified, Resume
<1> DEFINE x == Onward(a, "context")
<1>1. /\ x \in TaskType /\ x.at = "context" /\ x.live = task[a].live /\ x.pending = task[a].pending
      /\ x.begun = task[a].begun /\ x.since = task[a].since
  BY TypedParts, OnwardIs DEF Stages, Early, SamePapers
<1>2. task[a].at = "custody" /\ desk.current # None
  BY DEF Resume, Inv, LinkInv
<1>3. task' = [task EXCEPT ![a] = x]
  BY DEF Moved
<1> HIDE DEF x
<1>4. QED
  BY <1>1, <1>2, <1>3, EarlyInv DEF Early

LEMMA CheckRecipeInv ==
  ASSUME Inv, NEW a \in Tasks, CheckRecipe(a)
  PROVE  Inv'
<1> DEFINE m == Onward(a, "simulate")
           x == [m EXCEPT !.link = wallet.revision]
<1> SUFFICES ASSUME Resume(a, "context"),
                    task' = [task EXCEPT ![a] = x],
                    wallet' = NoPlan(wallet),
                    UNCHANGED <<chain, desk, pool, fate>>
             PROVE  Inv'
  BY ThrowYields, YieldsInv DEF CheckRecipe, Resume
<1>1. /\ m \in TaskType /\ m.at = "simulate" /\ m.live = task[a].live /\ m.pending = task[a].pending
      /\ m.begun = task[a].begun /\ m.since = task[a].since /\ m.asked = wallet.revision
  BY TypedParts, OnwardIs DEF Stages, Early, SamePapers
<1>2. task[a].at = "context" /\ desk.current # None
  BY DEF Resume, Inv, LinkInv
<1> HIDE DEF m
<1>3. /\ x \in TaskType /\ x.at = "simulate" /\ x.live = task[a].live /\ x.pending = task[a].pending
      /\ x.begun = task[a].begun /\ x.since = task[a].since /\ x.link = x.asked
  BY <1>1, TypedParts DEF TaskType
<1> HIDE DEF x
<1>4. QED
  BY <1>2, <1>3, EarlyInv DEF Early

LEMMA SimulateInv ==
  ASSUME Inv, NEW a \in Tasks, Simulate(a)
  PROVE  Inv'
<1> DEFINE m == Onward(a, "again")
           x == [m EXCEPT !.plan = task[a].got]
<1> SUFFICES ASSUME Resume(a, "simulate"),
                    StillMine(a),
                    task' = [task EXCEPT ![a] = x],
                    UNCHANGED <<chain, wallet, desk, pool, fate>>
             PROVE  Inv'
  BY ThrowYields, YieldsInv DEF Simulate, Resume
<1>1. /\ m \in TaskType /\ m.at = "again" /\ m.live = task[a].live /\ m.pending = task[a].pending
      /\ m.begun = task[a].begun /\ m.since = task[a].since /\ m.asked = wallet.revision
      /\ m.link = task[a].link
  BY TypedParts, OnwardIs DEF Stages, Early, SamePapers
<1>2. task[a].at = "simulate" /\ desk.current # None /\ task[a].link = wallet.revision
  BY DEF Resume, StillMine, Inv, LinkInv
<1>3. task[a].got \in Views \cup {NoView}
  BY TypedParts DEF TaskType
<1> HIDE DEF m
<1>4. /\ x \in TaskType /\ x.at = "again" /\ x.live = task[a].live /\ x.pending = task[a].pending
      /\ x.begun = task[a].begun /\ x.since = task[a].since /\ x.link = x.asked
  BY <1>1, <1>2, <1>3 DEF TaskType
<1> HIDE DEF x
<1>5. QED
  BY <1>2, <1>4, EarlyInv DEF Early

LEMMA ShowInv ==
  ASSUME Inv, NEW a \in Tasks, Show(a)
  PROVE  Inv'
<1> DEFINE m == Onward(a, "offered")
           x == [m EXCEPT !.pending = TRUE]
<1> SUFFICES ASSUME Resume(a, "verify"),
                    task' = [task EXCEPT ![a] = x],
                    desk' = [desk EXCEPT !.dialog = a, !.armed = TRUE],
                    UNCHANGED <<chain, wallet, pool, fate>>
             PROVE  Inv'
  BY ThrowYields, YieldsInv DEF Show, Resume
<1>1. /\ m \in TaskType /\ m.at = "offered" /\ m.live = task[a].live /\ m.takes = task[a].takes
      /\ SamePapers(m, task[a])
  BY TypedParts, OnwardIs DEF Stages
<1>2. task[a].at = "verify" /\ desk' \in DeskType /\ desk'.current = desk.current
  BY TypedParts DEF Resume, DeskType
<1> HIDE DEF m
<1>3. /\ x \in TaskType /\ x.at = "offered" /\ x.live = task[a].live /\ x.takes = task[a].takes
      /\ SamePapers(x, task[a])
  BY <1>1 DEF TaskType, SamePapers
<1> HIDE DEF x
<1>4. QED
  BY <1>2, <1>3, LateInv DEF Early, Sending

LEMMA CheckPlanInv ==
  ASSUME Inv, NEW a \in Tasks, CheckPlan(a)
  PROVE  Inv'
<1> DEFINE x == Onward(a, "stale")
<1> SUFFICES ASSUME Resume(a, "confirm"),
                    task' = [task EXCEPT ![a] = x],
                    UNCHANGED <<chain, wallet, desk, pool, fate>>
             PROVE  Inv'
  BY ThrowYields, YieldsInv DEF CheckPlan, Resume, Moved
<1>1. /\ x \in TaskType /\ x.at = "stale" /\ x.live = task[a].live /\ x.takes = task[a].takes
      /\ x.pending = task[a].pending /\ SamePapers(x, task[a])
  BY TypedParts, OnwardIs DEF Stages, Confirming
<1>2. task[a].at = "confirm" /\ ~task[a].pending
  BY DEF Resume, Inv, LinkInv
<1> HIDE DEF x
<1>3. QED
  BY <1>1, <1>2, TypedParts, LateInv DEF Early, Sending

LEMMA CheckContextInv ==
  ASSUME Inv, NEW a \in Tasks, CheckContext(a)
  PROVE  Inv'
<1> DEFINE x == Onward(a, "call")
           p == task[a].takes
<1> SUFFICES ASSUME Resume(a, "last"),
                    SameWalletContext(task[p].plan, task[a].got),
                    task' = [task EXCEPT ![a] = x],
                    UNCHANGED <<chain, wallet, desk, pool, fate>>
             PROVE  Inv'
  BY ThrowYields, YieldsInv DEF CheckContext, Resume, Moved
<1>1. /\ x \in TaskType /\ x.at = "call" /\ x.live = task[a].live /\ x.takes = task[a].takes
      /\ x.pending = task[a].pending /\ SamePapers(x, task[a])
  BY TypedParts, OnwardIs DEF Stages, Sending
<1>2. task[a].at = "last" /\ ~task[a].pending
  BY DEF Resume, Inv, LinkInv
<1>3. Height(task[p].plan) >= task[a].since
  <2>1. Height(task[a].got) >= task[a].since
    BY DEF Resume, Inv, HeightInv
  <2>2. Height(task[p].plan) = Height(task[a].got)
    BY DEF SameWalletContext, Height
  <2>3. QED
    BY <2>1, <2>2
<1> HIDE DEF x
<1>4. QED
  BY <1>1, <1>2, <1>3, TypedParts, LateInv DEF Early, Sending

\* The wallet keeps a plan, whose task was live all along.
LEMMA HoldInv ==
  ASSUME Inv, NEW a \in Tasks, Resume(a, "again"), StillMine(a), StillLive(a),
         task' = Moved(a, "verify"), wallet' = [wallet EXCEPT !.plan = a],
         UNCHANGED <<chain, desk, pool, fate>>
  PROVE  Inv'
<1> DEFINE x == Onward(a, "verify")
<1>1. /\ x \in TaskType /\ x.at = "verify" /\ x.live = task[a].live /\ x.takes = task[a].takes
      /\ x.pending = task[a].pending /\ SamePapers(x, task[a])
  BY TypedParts, OnwardIs DEF Stages
<1>2. /\ task[a].at = "again" /\ ~task[a].pending /\ task[a].live /\ Connected
      /\ desk.current = a /\ desk.current # None
      /\ task[a].link = wallet.revision /\ task[a].begun = wallet.revision
  BY DEF Resume, StillMine, StillLive, Inv, LinkInv
<1>3. task' = [task EXCEPT ![a] = x]
  BY DEF Moved
<1> HIDE DEF x
<1>4. task'[a] = x /\ \A b \in Tasks : b # a => task'[b] = task[b]
  BY <1>3, TypedParts
<1>5. \A b \in Tasks : SamePapers(task'[b], task[b]) /\ task'[b].takes = task[b].takes
  BY <1>1, <1>4, Same
<1>6. /\ wallet' \in WalletType /\ wallet'.plan = a
      /\ wallet'.address = wallet.address /\ wallet'.revision = wallet.revision
  BY TypedParts DEF WalletType
<1>7. Typed'
  <2>1. task' \in [Tasks -> TaskType]
    BY <1>1, <1>3, TypedParts
  <2>2. QED
    BY <1>6, <2>1 DEF Inv, Typed, WalletType
<1>8. LinkInv'
  <2>1. ASSUME NEW b \in Tasks
        PROVE  /\ task'[b].live => Connected' /\ task'[b].begun = wallet'.revision /\ desk'.current = b
               /\ task'[b].pending => task'[b].at = "offered"
               /\ task'[b].at \in {"simulate", "again"} => task'[b].link = task'[b].asked
    <3>1. CASE b = a
      BY <1>1, <1>2, <1>4, <1>6, <3>1 DEF Connected, SamePapers
    <3>2. CASE b # a
      BY <1>4, <1>6, <3>2 DEF Inv, LinkInv, Connected
    <3>3. QED
      BY <3>1, <3>2
  <2>2. QED
    BY <1>2, <2>1 DEF LinkInv
<1>9. \A b \in Tasks : task'[b].at \in Sending => b # a /\ task'[b] = task[b] /\ task[b].takes \in Tasks
  BY <1>1, <1>4, TypedParts DEF Inv, PlanInv, TaskType, Sending
<1>10. \A p \in Tasks : Made(p) => p # a /\ Made(p)'
  BY <1>2, <1>4 DEF Made, Early
<1>11. fate[a] = "none"
  BY <1>2 DEF Inv, FateInv, Early
<1>12. PlanInv'
  <2>1. Made(a)'
    BY <1>1, <1>2, <1>4, <1>11 DEF Made, Early, SamePapers
  <2>2. ~Taking(a)'
    BY <1>9, <1>10 DEF Inv, PlanInv, Taking
  <2>3. Connected' /\ task'[a].link = wallet'.revision
    BY <1>2, <1>5, <1>6 DEF Connected, SamePapers
  <2>4. QED
    BY <1>6, <1>9, <1>10, <2>1, <2>2, <2>3 DEF Inv, PlanInv
<1>13. FateInv'
  <2>1. \A p \in Tasks : fate[p] # "none" => task'[p] = task[p]
    BY <1>4, <1>11
  <2>2. QED
    BY <2>1 DEF Inv, FateInv, CommitsNeverShareARoot
<1>14. HeightInv'
  <2>1. \A b \in Tasks : task'[b].since = task[b].since /\ task'[b].plan = task[b].plan
    BY <1>5 DEF SamePapers
  <2>2. QED
    BY <1>9, <2>1 DEF Inv, HeightInv, Sending
<1>15. QED
  BY <1>7, <1>8, <1>12, <1>13, <1>14 DEF Inv

\* The plan leaves the wallet for the task that sends it.
LEMMA TakeInv ==
  ASSUME Inv, NEW a \in Tasks, Take(a)
  PROVE  Inv'
<1> DEFINE m == Onward(a, "last")
           h == Height(chain)
<1> SUFFICES ASSUME NEW p \in Tasks,
                    p = wallet.plan,
                    Resume(a, "stale"),
                    task' = [task EXCEPT ![a] = [m EXCEPT !.takes = p, !.since = h]],
                    wallet' = NoPlan(wallet),
                    UNCHANGED <<chain, desk, pool, fate>>
             PROVE  Inv'
  BY ThrowYields, YieldsInv DEF Take, Resume, Inv, Typed, Taken
<1> DEFINE x == [m EXCEPT !.takes = p, !.since = h]
<1>1. /\ m \in TaskType /\ m.at = "last" /\ m.live = task[a].live /\ m.got = NoView
      /\ m.pending = task[a].pending /\ SamePapers(m, task[a])
  BY TypedParts, OnwardIs DEF Stages, Sending
<1>2. task[a].at = "stale" /\ ~task[a].pending /\ desk.current # None
  BY DEF Resume, Inv, LinkInv
<1>3. h \in Nat
  BY TypedParts, HeightType
<1> HIDE DEF m, h
<1>4. /\ x \in TaskType /\ x.at = "last" /\ x.live = task[a].live /\ x.got = NoView
      /\ x.pending = task[a].pending /\ x.takes = p /\ x.since = h
      /\ x.intent = task[a].intent /\ x.plan = task[a].plan /\ x.commits = task[a].commits
      /\ x.link = task[a].link /\ x.begun = task[a].begun
  BY <1>1, <1>3 DEF TaskType, SamePapers
<1> HIDE DEF x
<1>5. task'[a] = x /\ \A b \in Tasks : b # a => task'[b] = task[b]
  BY TypedParts DEF x
<1>6. \A b \in Tasks :
          /\ task'[b].intent = task[b].intent /\ task'[b].plan = task[b].plan
          /\ task'[b].commits = task[b].commits
          /\ task'[b].link = task[b].link /\ task'[b].begun = task[b].begun
          /\ task'[b].live = task[b].live /\ task'[b].pending = task[b].pending
          /\ task'[b].at \in Early <=> task[b].at \in Early
  BY <1>2, <1>4, <1>5 DEF Early
<1>7. /\ wallet' \in WalletType /\ wallet'.plan = None
      /\ wallet'.address = wallet.address /\ wallet'.revision = wallet.revision
  BY TypedParts, NoPlanIs
<1>8. p # None /\ Made(p) /\ ~Taking(p)
  BY ReviewAssumption DEF Inv, PlanInv
<1>9. Typed'
  <2>1. task' \in [Tasks -> TaskType]
    BY <1>4, TypedParts DEF x
  <2>2. QED
    BY <1>7, <2>1 DEF Inv, Typed, WalletType
<1>10. LinkInv'
  <2>1. ASSUME NEW b \in Tasks
        PROVE  /\ task'[b].live => Connected' /\ task'[b].begun = wallet'.revision /\ desk'.current = b
               /\ task'[b].pending => task'[b].at = "offered"
               /\ task'[b].at \in {"simulate", "again"} => task'[b].link = task'[b].asked
    <3>1. CASE b = a
      BY <1>2, <1>4, <1>5, <1>7, <3>1 DEF Inv, LinkInv, Connected
    <3>2. CASE b # a
      BY <1>5, <1>7, <3>2 DEF Inv, LinkInv, Connected
    <3>3. QED
      BY <3>1, <3>2
  <2>2. QED
    BY <1>2, <2>1 DEF Inv, LinkInv
<1>11. \A q \in Tasks : Made(q) => Made(q)'
  BY <1>6 DEF Made
<1>12. PlanInv'
  <2>1. ASSUME NEW b \in Tasks, task'[b].at \in Sending
        PROVE  /\ task'[b].takes \in Tasks /\ task'[b].takes # None /\ Made(task'[b].takes)
               /\ task'[b].takes = p => b = a
               /\ b # a => task'[b] = task[b]
    <3>1. CASE b = a
      BY <1>4, <1>5, <1>8, <3>1
    <3>2. CASE b # a
      <4>1. task'[b] = task[b] /\ task[b].at \in Sending
        BY <1>5, <2>1, <3>2
      <4>2. task[b].takes \in Tasks /\ task[b].takes # None /\ Made(task[b].takes)
        BY <4>1, TypedParts DEF Inv, PlanInv, TaskType
      <4>3. task[b].takes # p
        BY <1>8, <4>1 DEF Taking
      <4>4. QED
        BY <3>2, <4>1, <4>2, <4>3
    <3>3. QED
      BY <3>1, <3>2
  <2>2. task'[a].takes = p
    BY <1>4, <1>5
  <2>3. ASSUME NEW b \in Tasks, NEW c \in Tasks,
               task'[b].at \in Sending, task'[c].at \in Sending, task'[b].takes = task'[c].takes
        PROVE  b = c
    BY <2>1, <2>2, <2>3 DEF Inv, PlanInv
  <2>4. ASSUME NEW b \in Tasks, task'[b].at \in Sending
        PROVE  (task[b].takes # None /\ Made(task[b].takes))'
    <3>1. PICK q \in Tasks : q = task'[b].takes /\ q # None /\ Made(q)
      BY <2>1, <2>4
    <3>2. Made(q)'
      BY <1>11, <3>1
    <3>3. QED
      BY <3>1, <3>2 DEF Made
  <2>5. QED
    BY <1>7, <2>3, <2>4 DEF PlanInv
<1>13. FateInv'
  BY <1>6 DEF Inv, FateInv, CommitsNeverShareARoot
<1>14. HeightInv'
  <2>1. ASSUME NEW b \in Tasks
        PROVE  /\ task'[b].since <= h
               /\ task'[b].at = "last" /\ task'[b].got # NoView => Height(task'[b].got) >= task'[b].since
               /\ task'[b].at \in {"call", "signing"} =>
                     Height(task'[task'[b].takes].plan) >= task'[b].since
    <3>1. CASE b = a
      <4>1. task'[b].since = h /\ task'[b].at = "last" /\ task'[b].got = NoView
        BY <1>4, <1>5, <3>1
      <4>2. h <= h
        BY <1>3
      <4>3. QED
        BY <4>1, <4>2
    <3>2. CASE b # a
      <4>1. task'[b] = task[b] /\ task[b].since <= h
        BY <1>5, <3>2 DEF Inv, HeightInv, h
      <4>2. task[b].at \in {"call", "signing"} => task[b].takes \in Tasks
        BY TypedParts DEF Inv, PlanInv, TaskType, Sending
      <4>3. QED
        BY <1>6, <4>1, <4>2 DEF Inv, HeightInv
    <3>3. QED
      BY <3>1, <3>2
  <2>2. QED
    BY <2>1 DEF HeightInv, h
<1>15. QED
  BY <1>9, <1>10, <1>12, <1>13, <1>14 DEF Inv

LEMMA AskWalletInv ==
  ASSUME Inv, NEW a \in Tasks, AskWallet(a)
  PROVE  Inv'
<1> SUFFICES ASSUME Resume(a, "call"),
                    task' = [task EXCEPT ![a].at = "signing"],
                    UNCHANGED <<chain, wallet, desk, pool, fate>>
             PROVE  Inv'
  BY ThrowYields, YieldsInv DEF AskWallet, Resume
<1>1. Typed'
  BY ReviewAssumption DEF Inv, Typed, TaskType, Resume, Stages, Early, Confirming, Sending, Waiting, Views, NoView, Identities
<1>2. LinkInv'
  BY ReviewAssumption DEF Inv, Typed, TaskType, LinkInv, Resume, Connected, Stages, Early, Confirming, Sending
<1>3. PlanInv'
  BY ReviewAssumption DEF Inv, Typed, TaskType, PlanInv, Resume, Connected, Made, Taking, Stages, Early, Confirming, Sending
<1>4. FateInv'
  BY ReviewAssumption DEF Inv, Typed, TaskType, FateInv, CommitsNeverShareARoot, Resume, Early, Views
<1>5. HeightInv'
  BY ReviewAssumption, HeightType, NoViewIsNone DEF Inv, Typed, TaskType, HeightInv, Resume, Stages, Early, Confirming, Sending
<1>6. QED
  BY <1>1, <1>2, <1>3, <1>4, <1>5 DEF Inv

LEMMA SignInv ==
  ASSUME Inv, NEW a \in Tasks, Sign(a)
  PROVE  Inv'
<1> SUFFICES ASSUME NEW p \in Tasks,
                    p = task[a].takes,
                    task[a].at = "signing",
                    pool' = pool \cup {p},
                    fate' = [fate EXCEPT ![p] = "signed"],
                    task' = [task EXCEPT ![a].at = "sent"],
                    UNCHANGED <<chain, wallet, desk>>
             PROVE  Inv'
  BY DEF Inv, Typed, TaskType, PlanInv, Sending, Sign
<1>1. Typed'
  BY ReviewAssumption DEF Inv, Typed, TaskType, Stages, Early, Confirming, Sending, Waiting, Views, NoView, Identities
<1>2. LinkInv'
  BY ReviewAssumption DEF Inv, Typed, TaskType, LinkInv, Connected, Stages, Early, Confirming, Sending
<1>3. PlanInv'
  BY ReviewAssumption DEF Inv, Typed, TaskType, PlanInv, Connected, Made, Taking, Stages, Early, Confirming, Sending
<1>4. FateInv'
  BY ReviewAssumption DEF Inv, Typed, TaskType, FateInv, CommitsNeverShareARoot, Early, Views, PlanInv, Made, Sending
<1>5. HeightInv'
  BY ReviewAssumption, HeightType, NoViewIsNone DEF Inv, Typed, TaskType, HeightInv, Stages, Early, Confirming, Sending
<1>6. QED
  BY <1>1, <1>2, <1>3, <1>4, <1>5 DEF Inv

LEMMA RefuseYields ==
  ASSUME Inv, NEW c \in Tasks,
         task' = [task EXCEPT ![c] = [@ EXCEPT !.pending = FALSE,
                      !.at = IF task[c].at = "offered" THEN "failed" ELSE task[c].at]],
         wallet' = NoPlan(wallet), desk' = [desk EXCEPT !.armed = FALSE],
         UNCHANGED <<chain, pool, fate>>
  PROVE  Yields
<1>1. task \in [Tasks -> TaskType] /\ wallet \in WalletType /\ desk \in DeskType
  BY DEF Inv, Typed, WalletType, DeskType
<1> DEFINE at == IF task[c].at = "offered" THEN "failed" ELSE task[c].at
           x == [task[c] EXCEPT !.pending = FALSE, !.at = at]
<1>2. at \in Stages /\ at \in {task[c].at, "failed"}
  BY <1>1 DEF TaskType, Stages
<1> HIDE DEF at
<1>3. /\ x \in TaskType /\ SamePapers(x, task[c])
      /\ x.at = at /\ x.live = task[c].live /\ ~x.pending
  BY <1>1, <1>2 DEF TaskType, SamePapers
<1>4. x.at = task[c].at => SameButFlags(x, task[c])
  BY <1>1, <1>3 DEF TaskType, SameButFlags
<1>5. task' = [task EXCEPT ![c] = x]
  BY <1>1 DEF TaskType, at
<1>6. desk' \in DeskType /\ desk'.current = desk.current /\ desk'.dialog = desk.dialog
  BY <1>1 DEF DeskType
<1> HIDE DEF x
<1>7. QED
  BY <1>1, <1>2, <1>3, <1>4, <1>5, <1>6, NoPlanIs, Same DEF Yields

LEMMA ClickInv ==
  ASSUME Inv, NEW a \in Tasks, NEW commits \in BOOLEAN, Click(a, commits)
  PROVE  Inv'
<1> DEFINE m == Onward(a, "intent")
           x == [m EXCEPT !.commits = commits]
<1>1. /\ m \in TaskType /\ m.at = "intent" /\ m.live = task[a].live /\ m.pending = task[a].pending
      /\ m.begun = task[a].begun /\ m.since = task[a].since
  BY TypedParts, OnwardIs DEF Stages, Early, SamePapers
<1>2. task' = [task EXCEPT ![a] = x] /\ task[a].at = "idle" /\ UNCHANGED <<chain, wallet, desk, pool, fate>>
  BY DEF Click
<1> HIDE DEF m
<1>3. /\ x \in TaskType /\ x.at = "intent" /\ x.live = task[a].live /\ x.pending = task[a].pending
      /\ x.begun = task[a].begun /\ x.since = task[a].since
  BY <1>1 DEF TaskType
<1> HIDE DEF x
<1>4. QED
  BY <1>2, <1>3, EarlyInv DEF Early

\* The old review is voided and a new one is the page's.
Begins(a) ==
    /\ task[a].at = "intent"
    /\ Connected
    /\ task' = Voided([task EXCEPT ![a] = [Onward(a, "custody") EXCEPT
                   !.intent = task[a].got, !.identity = desk.identity,
                   !.live = TRUE, !.begun = wallet.revision]])
    /\ desk' = [desk EXCEPT !.current = a, !.dialog = None]
    /\ wallet' = NoPlan(wallet)
    /\ UNCHANGED <<chain, pool, fate>>

LEMMA BeginReviewCases ==
  ASSUME Inv, NEW a \in Tasks, BeginReview(a)
  PROVE  Yields \/ Begins(a)
  BY ThrowYields DEF BeginReview, Begins, Resume

LEMMA BeginsIs ==
  ASSUME Inv, NEW a \in Tasks, Begins(a)
  PROVE  /\ task' \in [Tasks -> TaskType]
         /\ \A b \in Tasks : b # a => SameButFlags(task'[b], task[b])
         /\ \A b \in Tasks : task'[b].live => b = a
         /\ \A b \in Tasks : task'[b].pending => task[b].pending
         /\ task'[a].at = "custody" /\ task'[a].begun = wallet.revision
         /\ task'[a].since = task[a].since /\ task'[a].plan = task[a].plan
         /\ task'[a].takes = task[a].takes
<1> DEFINE m == Onward(a, "custody")
           x == [m EXCEPT !.intent = task[a].got, !.identity = desk.identity,
                          !.live = TRUE, !.begun = wallet.revision]
           t == [task EXCEPT ![a] = x]
<1>1. task \in [Tasks -> TaskType] /\ wallet \in WalletType /\ desk \in DeskType
  BY DEF Inv, Typed, WalletType, DeskType
<1>2. task' = Voided(t)
  BY DEF Begins
<1>3. /\ x \in TaskType /\ x.at = "custody" /\ x.live /\ x.begun = wallet.revision
      /\ x.pending = task[a].pending /\ x.since = task[a].since /\ x.plan = task[a].plan
      /\ x.takes = task[a].takes
  <2>1. /\ m \in TaskType /\ m.at = "custody" /\ m.pending = task[a].pending
        /\ m.since = task[a].since /\ m.plan = task[a].plan /\ m.takes = task[a].takes
    BY <1>1, OnwardIs DEF SamePapers, WalletType, Stages, Early
  <2>2. task[a].got \in Views \cup {NoView} /\ desk.identity \in Identities /\ wallet.revision \in Nat
    BY <1>1 DEF TaskType, DeskType, WalletType
  <2> HIDE DEF m
  <2>3. QED
    BY <2>1, <2>2 DEF TaskType
<1> HIDE DEF m, x
<1>4. t \in [Tasks -> TaskType] /\ t[a] = x /\ \A b \in Tasks : b # a => t[b] = task[b]
  BY <1>1, <1>3
<1> HIDE DEF t
<1>5. desk.current \in Tasks \cup {None}
  BY <1>1 DEF DeskType
<1>6. /\ task' \in [Tasks -> TaskType]
      /\ \A b \in Tasks :
            /\ SameButFlags(task'[b], t[b])
            /\ task'[b].live => t[b].live /\ b # desk.current
            /\ task'[b].pending => t[b].pending
  BY <1>2, <1>4, <1>5, VoidedIs
<1>7. SameButFlags(task'[a], x)
  BY <1>4, <1>6
<1>8. /\ task'[a].at = "custody" /\ task'[a].begun = wallet.revision
      /\ task'[a].since = task[a].since /\ task'[a].plan = task[a].plan
      /\ task'[a].takes = task[a].takes
  BY <1>3, <1>7 DEF SameButFlags, SamePapers
<1>9. \A b \in Tasks : task'[b].live => b = a
  BY <1>4, <1>6 DEF Inv, LinkInv
<1>10. QED
  BY <1>3, <1>4, <1>6, <1>8, <1>9

LEMMA BeginsInv ==
  ASSUME Inv, NEW a \in Tasks, Begins(a)
  PROVE  Inv'
<1>1. task \in [Tasks -> TaskType] /\ wallet \in WalletType /\ desk \in DeskType
  BY DEF Inv, Typed, WalletType, DeskType
<1>2. /\ desk' \in DeskType /\ desk'.current = a /\ desk'.dialog = None
      /\ UNCHANGED <<chain, pool, fate>> /\ Connected /\ task[a].at = "intent"
  BY <1>1 DEF Begins, DeskType
<1>3. /\ wallet' \in WalletType /\ wallet'.plan = None
      /\ wallet'.address = wallet.address /\ wallet'.revision = wallet.revision
  BY <1>1, NoPlanIs DEF Begins
<1>4. Typed'
  BY <1>2, <1>3, BeginsIs DEF Inv, Typed, WalletType, DeskType
<1>5. LinkInv'
  <2>1. ASSUME NEW b \in Tasks
        PROVE  /\ task'[b].live => Connected' /\ task'[b].begun = wallet'.revision /\ b = a
               /\ task'[b].pending => task'[b].at = "offered"
               /\ task'[b].at \in {"simulate", "again"} => task'[b].link = task'[b].asked
    <3>1. CASE b = a
      BY <1>2, <1>3, <3>1, BeginsIs DEF Inv, LinkInv, Connected
    <3>2. CASE b # a
      BY <3>2, BeginsIs DEF Inv, LinkInv, SameButFlags, SamePapers
    <3>3. QED
      BY <3>1, <3>2
  <2>2. a # None
    BY ReviewAssumption
  <2>3. QED
    BY <1>2, <2>1, <2>2 DEF LinkInv
<1>6. PlanInv'
  <2>1. \A b \in Tasks : task'[b].at \in Sending =>
            b # a /\ task[b].at \in Sending /\ task'[b].takes = task[b].takes
    BY BeginsIs DEF SameButFlags, Sending
  <2>2. \A p \in Tasks : Made(p) => Made(p)'
    BY <1>2, BeginsIs DEF Made, Early, SameButFlags, SamePapers
  <2>3. QED
    BY <1>1, <1>3, <2>1, <2>2 DEF Inv, PlanInv, TaskType
<1>7. FateInv'
  BY <1>1, <1>2, BeginsIs DEF Inv, FateInv, CommitsNeverShareARoot, Early, SameButFlags, SamePapers
<1>8. HeightInv'
  <2>1. \A b \in Tasks : task'[b].since = task[b].since /\ task'[b].plan = task[b].plan
    BY BeginsIs DEF SameButFlags, SamePapers
  <2>2. \A b \in Tasks : task'[b].at \in {"last", "call", "signing"} =>
            /\ task'[b].at = task[b].at /\ task'[b].got = task[b].got
            /\ task'[b].takes = task[b].takes /\ task[b].takes \in Tasks
    BY <1>1, BeginsIs DEF Inv, PlanInv, SameButFlags, TaskType, Sending
  <2>3. QED
    BY <1>2, <2>1, <2>2 DEF Inv, HeightInv
<1>9. QED
  BY <1>4, <1>5, <1>6, <1>7, <1>8 DEF Inv

\* The button confirms what is pending.
Permits(c) ==
    /\ task[c].pending
    /\ task' = [task EXCEPT ![c] = [Onward(c, "confirm") EXCEPT !.pending = FALSE, !.shown = desk.dialog]]
    /\ desk' = [desk EXCEPT !.armed = FALSE]
    /\ UNCHANGED <<chain, wallet, pool, fate>>

LEMMA PermitInv ==
  ASSUME Inv, NEW c \in Tasks, Permits(c)
  PROVE  Inv'
<1> DEFINE m == Onward(c, "confirm")
           x == [m EXCEPT !.pending = FALSE, !.shown = desk.dialog]
<1>1. /\ m \in TaskType /\ m.at = "confirm" /\ m.live = task[c].live /\ m.takes = task[c].takes
      /\ SamePapers(m, task[c])
  BY TypedParts, OnwardIs DEF Stages, Confirming
<1>2. task' = [task EXCEPT ![c] = x] /\ UNCHANGED <<chain, wallet, pool, fate>>
  BY DEF Permits
<1>3. task[c].at = "offered"
  BY DEF Inv, LinkInv, Permits
<1>4. desk' \in DeskType /\ desk'.current = desk.current /\ desk.dialog \in Tasks \cup {None}
  BY TypedParts DEF Permits, DeskType
<1> HIDE DEF m
<1>5. /\ x \in TaskType /\ x.at = "confirm" /\ ~x.pending /\ x.live = task[c].live
      /\ x.takes = task[c].takes /\ SamePapers(x, task[c])
  BY <1>1, <1>4 DEF TaskType, SamePapers
<1> HIDE DEF x
<1>6. QED
  BY <1>2, <1>3, <1>4, <1>5, LateInv DEF Early, Sending

LEMMA MineInv ==
  ASSUME Inv, NEW p \in Tasks, Mine(p)
  PROVE  Inv'
<1>1. chain \in Views /\ p \in pool /\ fate[p] = "signed" /\ fate \in [Tasks -> {"none", "signed", "applied", "reverted"}]
  BY DEF Inv, Typed, FateInv, CommitsNeverShareARoot, Mine
<1>2. \/ /\ chain.root = task[p].intent.root
         /\ chain' = [owner |-> chain.owner, epoch |-> chain.epoch, nonce |-> chain.nonce + 1,
                      root |-> IF task[p].commits THEN chain.root + 1 ELSE chain.root]
         /\ fate' = [fate EXCEPT ![p] = "applied"]
      \/ chain' = chain /\ fate' = [fate EXCEPT ![p] = "reverted"]
  BY <1>1 DEF Mine, Authorize, Views
<1>3. /\ chain' \in Views
      /\ chain.root <= chain'.root
      /\ Height(chain) <= Height(chain')
      /\ fate'[p] = "applied" => chain.root = task[p].intent.root
      /\ fate'[p] = "applied" /\ task[p].commits => task[p].intent.root < chain'.root
      /\ fate' \in [Tasks -> {"none", "signed", "applied", "reverted"}]
      /\ fate'[p] \in {"applied", "reverted"}
      /\ \A q \in Tasks : q # p => fate'[q] = fate[q]
  BY <1>1, <1>2 DEF Views, Height
<1>4. pool' = pool \ {p} /\ UNCHANGED <<wallet, desk, task>>
  BY DEF Mine
<1>5. Typed'
  BY <1>3, <1>4 DEF Inv, Typed
<1>6. LinkInv'
  BY <1>4 DEF Inv, LinkInv, Connected
<1>7. PlanInv'
  BY <1>1, <1>3, <1>4 DEF Inv, Typed, TaskType, PlanInv, Connected, Made, Taking
<1>8. FateInv'
  <2>1. \A q \in Tasks : task[q].intent.root \in Nat /\ chain.root \in Nat /\ chain'.root \in Nat
    BY <1>1, <1>3 DEF Inv, Typed, TaskType, Views, NoView
  <2>2. \A q \in Tasks :
            /\ fate'[q] # "none" => task[q].at \notin Early
            /\ fate'[q] = "applied" /\ task[q].commits => task[q].intent.root < chain'.root
            /\ q \in pool' => fate'[q] = "signed"
    BY <1>1, <1>3, <1>4, <2>1 DEF Inv, FateInv
  <2>3. \A q \in Tasks : q # p /\ fate'[q] = "applied" /\ task[q].commits =>
            task[q].intent.root < chain.root
    BY <1>3 DEF Inv, FateInv
  <2>4. CommitsNeverShareARoot'
    BY <1>3, <1>4, <2>1, <2>3 DEF Inv, FateInv, CommitsNeverShareARoot
  <2>5. QED
    BY <1>4, <2>2, <2>4 DEF FateInv
<1>9. HeightInv'
  BY HeightType, <1>1, <1>3, <1>4 DEF Inv, Typed, TaskType, HeightInv
<1>10. QED
  BY <1>5, <1>6, <1>7, <1>8, <1>9 DEF Inv

-----------------------------------------------------------------------------
(* Every step, and what follows.                                           *)

LEMMA InitInv == Init => Inv
<1> SUFFICES ASSUME Init PROVE Inv
  OBVIOUS
<1>1. PICK who \in Accounts :
          /\ chain = [owner |-> who, epoch |-> 1, root |-> 0, nonce |-> 0]
          /\ wallet = [account |-> who, address |-> who, revision |-> 1, plan |-> None]
          /\ desk = [current |-> None, dialog |-> None, armed |-> FALSE,
                     identity |-> [owner |-> who, epoch |-> 1]]
  BY DEF Init
<1>2. task = [a \in Tasks |-> NewTask] /\ pool = {} /\ fate = [a \in Tasks |-> "none"]
  BY DEF Init
<1>3. NewTask \in TaskType
  BY DEF NewTask, TaskType, Stages, Early, NoView, Identities
<1>4. NewTask.at = "idle" /\ ~NewTask.live /\ ~NewTask.pending /\ NewTask.since = 0
  BY DEF NewTask
<1>5. Typed
  BY <1>1, <1>2, <1>3 DEF Typed, Views, Identities
<1>6. LinkInv
  BY <1>1, <1>2, <1>4 DEF LinkInv
<1>7. PlanInv
  BY <1>1, <1>2, <1>4 DEF PlanInv, Sending
<1>8. FateInv
  BY <1>2, <1>4 DEF FateInv, CommitsNeverShareARoot
<1>9. HeightInv
  BY <1>1, <1>2, <1>4 DEF HeightInv, Height
<1>10. QED
  BY <1>5, <1>6, <1>7, <1>8, <1>9 DEF Inv

\* What prepare and confirm come to.
LEMMA PrepareCases ==
  ASSUME Inv, NEW a \in Tasks, Prepare(a)
  PROVE  \/ Yields
         \/ /\ Resume(a, "again") /\ StillMine(a) /\ StillLive(a)
            /\ task' = Moved(a, "verify") /\ wallet' = [wallet EXCEPT !.plan = a]
            /\ UNCHANGED <<chain, desk, pool, fate>>
  BY ThrowYields, FailedYields DEF Prepare, Resume

LEMMA ConfirmCases ==
  ASSUME Inv, Confirm
  PROVE  Yields \/ \E c \in Tasks : Permits(c)
<1>1. desk.current \in Tasks
  BY DEF Inv, Typed, LinkInv, Confirm
<1>2. QED
  BY <1>1, RefuseYields DEF Confirm, Permits

LEMMA AnswerCases ==
  ASSUME Inv, NEW a \in Tasks, Answer(a)
  PROVE  \/ Yields
         \/ /\ task[a].at \in Waiting /\ task' = [task EXCEPT ![a].got = chain]
            /\ UNCHANGED <<chain, wallet, desk, pool, fate>>
<1>1. task[a].at # "offered"
  BY DEF Answer, Waiting
<1>2. Failed(a) \in [Tasks -> TaskType]
  BY FailedIs DEF Inv, Typed
<1>3. QED
  BY <1>1, <1>2, ThrowYields, UnlinkedYields DEF Answer

LEMMA YieldingActions ==
  ASSUME Inv,
         \/ CancelReview \/ Unlink \/ Connect \/ Refresh
         \/ \E who \in Accounts : Select(who)
         \/ \E a \in Tasks : Age(a) \/ Reject(a) \/ Receipt(a)
  PROVE  Yields
<1>1. ASSUME NEW a \in Tasks, Reject(a)
      PROVE  Yields
  BY <1>1, ThrowYields DEF Reject
<1>2. CASE Unlink
  BY <1>2, UnlinkedYields DEF Unlink, Inv, Typed
<1>3. QED
  BY <1>1, <1>2, CancelReviewYields, ConnectYields, RefreshYields, SelectYields,
     AgeYields, ReceiptYields

LEMMA NextInv == Inv /\ [Next]_vars => Inv'
<1> SUFFICES ASSUME Inv, [Next]_vars PROVE Inv'
  OBVIOUS
<1>1. ASSUME NEW a \in Tasks, Reviewing(a)
      PROVE  Inv'
  <2>1. ASSUME Prepare(a) PROVE Inv'
    BY <2>1, PrepareCases, YieldsInv, HoldInv
  <2>2. QED
    BY <1>1, <2>1, ClickInv, BeginReviewCases, BeginsInv, VerifiedInv, CheckRecipeInv, SimulateInv, ShowInv,
       YieldingActions, YieldsInv DEF Reviewing
<1>2. ASSUME NEW a \in Tasks, Submitting(a)
      PROVE  Inv'
  BY <1>2, CheckPlanInv, TakeInv, CheckContextInv, AskWalletInv, SignInv,
     YieldingActions, YieldsInv DEF Submitting
<1>3. ASSUME NEW a \in Tasks, Answer(a)
      PROVE  Inv'
  BY <1>3, AnswerCases, AskInv, YieldsInv
<1>4. CASE Confirm
  BY <1>4, ConfirmCases, PermitInv, YieldsInv
<1>5. CASE UNCHANGED vars
  <2>1. Grows
    BY <1>5, HeightType DEF Grows, vars, Inv, Typed, Views
  <2>2. QED
    BY <2>1, GrowsInv
<1>6. QED
  BY <1>1, <1>2, <1>3, <1>4, <1>5, MineInv, MoveGrows, GrowsInv, YieldingActions, YieldsInv DEF Next

\* Every stored context is one a node showed, every plan held belongs to the
\* link that is up, and whatever is on its way to the wallet is some plan.
THEOREM TypeCorrect == Spec => []TypeOK
<1>1. Inv => TypeOK
  BY DEF Inv, Typed, TaskType, PlanInv, TypeOK
<1>2. QED
  BY InitInv, NextInv, <1>1, PTL DEF Spec

\* A plan is handed to the wallet only if nothing moved on chain between its
\* preparation and the moment it was taken (wallet.send reads the context
\* again after taking the plan).
THEOREM NothingMoves == Spec => []NothingMovedSinceReview
<1>1. Inv => NothingMovedSinceReview
  BY HeightType DEF Inv, Typed, TaskType, PlanInv, HeightInv, Sending, NothingMovedSinceReview
<1>2. QED
  BY InitInv, NextInv, <1>1, PTL DEF Spec

\* The registry applies at most one commit to a reading of its root, however
\* many plans of however many reviews are signed.
THEOREM CommitsNeverShare == Spec => []CommitsNeverShareARoot
<1>1. Inv => CommitsNeverShareARoot
  BY DEF Inv, FateInv
<1>2. QED
  BY InitInv, NextInv, <1>1, PTL DEF Spec

-----------------------------------------------------------------------------
(* OneShot.  But for the four steps that hold, permit, take and sign, a    *)
(* step of Review can only lose plans and confirmations.                   *)

Loses ==
    /\ \A p \in Tasks :
          /\ task'[p].at \in Early => task[p].at \in Early
          /\ task'[p].at \in Sending => task[p].at \in Sending /\ task'[p].takes = task[p].takes
          /\ task'[p].at \in Confirming => task[p].at \in Confirming
          /\ fate'[p] = "none" <=> fate[p] = "none"
    /\ \A a, b \in Tasks : a # b /\ task[a].at \in Confirming /\ task[b].at \in Confirming =>
          task'[a].at \in Confirming \/ task'[b].at \in Confirming
    /\ wallet'.plan \in {wallet.plan, None}

Holds(a) ==
    /\ Resume(a, "again") /\ StillMine(a) /\ StillLive(a)
    /\ task' = Moved(a, "verify") /\ wallet' = [wallet EXCEPT !.plan = a]
    /\ UNCHANGED <<chain, desk, pool, fate>>
Takes(a) ==
    /\ Resume(a, "stale")
    /\ wallet.plan # None
    /\ task' = [task EXCEPT ![a] = [Onward(a, "last") EXCEPT !.takes = wallet.plan, !.since = Height(chain)]]
    /\ wallet' = NoPlan(wallet)
    /\ UNCHANGED <<chain, desk, pool, fate>>

LEMMA YieldsLoses ==
  ASSUME Yields
  PROVE  Loses
  BY DEF Yields, Loses, SameButFlags, Early, Sending, Confirming

LEMMA GrowsLoses ==
  ASSUME Grows
  PROVE  Loses
  BY DEF Grows, Loses

\* Only task a moves, within its part of the review.
MovesOn(a) ==
    /\ \A b \in Tasks : b # a => task'[b].at = task[b].at /\ task'[b].takes = task[b].takes
    /\ task'[a].takes = task[a].takes
    /\ \/ task'[a].at \in Early /\ task[a].at \in Early
       \/ task'[a].at \in Confirming /\ task[a].at \in Confirming
       \/ task'[a].at = "call" /\ task[a].at = "last"
       \/ /\ task'[a].at = "signing" /\ task[a].at = "call"
          /\ task[task[a].takes].link = wallet.revision
       \/ task'[a].at = "offered" /\ task[a].at = "verify"
    /\ wallet'.plan \in {wallet.plan, None}
    /\ UNCHANGED fate

LEMMA MovesOnLoses ==
  ASSUME NEW a \in Tasks, MovesOn(a)
  PROVE  Loses
  BY DEF MovesOn, Loses, Early, Sending, Confirming

LEMMA MovingActions ==
  ASSUME Inv, NEW a \in Tasks,
         \/ \E commits \in BOOLEAN : Click(a, commits)
         \/ BeginReview(a) \/ Verified(a) \/ CheckRecipe(a) \/ Simulate(a) \/ Show(a)
         \/ CheckPlan(a) \/ CheckContext(a) \/ AskWallet(a)
  PROVE  Yields \/ MovesOn(a)
<1>1. task \in [Tasks -> TaskType] /\ wallet \in WalletType /\ desk \in DeskType
  BY DEF Inv, Typed, WalletType, DeskType
<1>2. ASSUME NEW commits \in BOOLEAN, Click(a, commits)
      PROVE  MovesOn(a)
  BY <1>1, <1>2 DEF Click, MovesOn, Moved, Onward, TaskType, Early
<1>3. ASSUME BeginReview(a)
      PROVE  Yields \/ MovesOn(a)
  <2>1. ASSUME Begins(a) PROVE MovesOn(a)
    <3>1. UNCHANGED fate /\ wallet'.plan = None /\ task[a].at = "intent"
      BY <1>1, <2>1, NoPlanIs DEF Begins
    <3>2. QED
      BY <2>1, <3>1, BeginsIs DEF MovesOn, SameButFlags, Early
  <2>2. QED
    BY <1>3, <2>1, BeginReviewCases
<1>4. CASE Verified(a)
  BY <1>1, <1>4, ThrowYields, NoPlanIs DEF Verified, Resume, MovesOn, Moved, Onward, TaskType, Early
<1>5. CASE CheckRecipe(a)
  BY <1>1, <1>5, ThrowYields, NoPlanIs DEF CheckRecipe, Resume, MovesOn, Moved, Onward, TaskType, Early
<1>6. CASE Simulate(a)
  BY <1>1, <1>6, ThrowYields DEF Simulate, Resume, MovesOn, Moved, Onward, TaskType, Early
<1>7. CASE Show(a)
  <2>1. Yields \/ ( /\ task[a].at = "verify" /\ UNCHANGED <<wallet, fate>>
                   /\ task' = [task EXCEPT ![a] = [Onward(a, "offered") EXCEPT !.pending = TRUE]])
    BY <1>7, ThrowYields DEF Show, Resume
  <2>2. QED
    BY <1>1, <2>1 DEF MovesOn, Onward, TaskType
<1>8. CASE CheckPlan(a)
  BY <1>1, <1>8, ThrowYields DEF CheckPlan, Resume, MovesOn, Moved, Onward, TaskType, Confirming
<1>9. CASE CheckContext(a)
  BY <1>1, <1>9, ThrowYields DEF CheckContext, Resume, MovesOn, Moved, Onward, TaskType
<1>10. CASE AskWallet(a)
  BY <1>1, <1>10, ThrowYields DEF AskWallet, Resume, MovesOn, TaskType
<1>11. QED
  BY <1>2, <1>3, <1>4, <1>5, <1>6, <1>7, <1>8, <1>9, <1>10

ConfirmingTasks == {a \in Tasks : task[a].at \in Confirming}

LEMMA ConfirmationsType == IsFiniteSet(ConfirmingTasks) /\ Confirmations \in Nat
  BY ReviewAssumption, FS_Subset, FS_CardinalityType DEF ConfirmingTasks, Confirmations

LEMMA OneConfirmationLess ==
  ASSUME NEW a \in ConfirmingTasks, ConfirmingTasks' = ConfirmingTasks \ {a}
  PROVE  Confirmations' = Confirmations - 1 /\ Confirmations > 0
<1>1. Cardinality(ConfirmingTasks \ {a}) = Cardinality(ConfirmingTasks) - 1
  BY ConfirmationsType, FS_RemoveElement
<1>2. Cardinality(ConfirmingTasks \ {a}) \in Nat
  BY ConfirmationsType, FS_RemoveElement, FS_CardinalityType
<1>3. QED
  BY <1>1, <1>2, ConfirmationsType DEF Confirmations, ConfirmingTasks

LEMMA OneConfirmationMore ==
  ASSUME NEW a, a \notin ConfirmingTasks, ConfirmingTasks' = ConfirmingTasks \cup {a}
  PROVE  Confirmations' = Confirmations + 1
<1>1. Cardinality(ConfirmingTasks \cup {a}) = Cardinality(ConfirmingTasks) + 1
  BY ConfirmationsType, FS_AddElement
<1>2. QED
  BY <1>1 DEF Confirmations, ConfirmingTasks

LEMMA LosesStand ==
  ASSUME Inv, Loses, NEW p \in Tasks
  PROVE  \/ Stand(p)' = Stand(p)
         \/ Stand(p) \in {"unmade", "held", "taken"} /\ Stand(p)' = "dropped"
<1>1. Taking(p)' => Taking(p)
  BY DEF Loses, Taking
<1>2. wallet.plan = p => task[p].at \notin Early /\ ~Taking(p)
  BY ReviewAssumption DEF Inv, PlanInv, Made
<1>3. Taking(p) => task[p].at \notin Early
  BY DEF Inv, PlanInv, Made, Taking
<1>4. /\ fate'[p] = "none" <=> fate[p] = "none"
      /\ task'[p].at \in Early => task[p].at \in Early
      /\ wallet'.plan = p => wallet.plan = p
  BY ReviewAssumption DEF Loses
<1>5. QED
  BY <1>1, <1>2, <1>3, <1>4 DEF Stand

LEMMA LosesShot ==
  ASSUME Inv, Loses
  PROVE  [Shot!Next]_(Shot!vars)
<1> DEFINE P == {p \in Tasks : Stand(p)' # Stand(p)}
<1>1. P \in SUBSET {p \in Tasks : Stand(p) \in {"unmade", "held", "taken"}}
  BY LosesStand
<1>2. [p \in Tasks |-> Stand(p)'] = [p \in Tasks |-> IF p \in P THEN "dropped" ELSE Stand(p)]
  BY LosesStand
<1>3. Confirmations' \in {Confirmations, Confirmations - 1} \cap Nat
  <2>1. CASE ConfirmingTasks' = ConfirmingTasks
    BY <2>1, ConfirmationsType DEF Confirmations, ConfirmingTasks
  <2>2. CASE ConfirmingTasks' # ConfirmingTasks
    <3>1. PICK a \in ConfirmingTasks : ConfirmingTasks' = ConfirmingTasks \ {a}
      <4>1. ConfirmingTasks' \subseteq ConfirmingTasks
        BY DEF Loses, ConfirmingTasks
      <4>2. PICK a \in ConfirmingTasks : a \notin ConfirmingTasks'
        BY <2>2, <4>1
      <4>3. \A b \in ConfirmingTasks : b # a => b \in ConfirmingTasks'
        BY <4>2 DEF Loses, ConfirmingTasks
      <4>4. QED
        BY <4>1, <4>2, <4>3
    <3>2. QED
      BY <3>1, OneConfirmationLess, ConfirmationsType
  <2>3. QED
    BY <2>1, <2>2
<1> HIDE DEF P
<1>4. Shot!GiveUp
  BY <1>1, <1>2, <1>3 DEF Shot!GiveUp
<1>5. QED
  BY <1>4 DEF Shot!Next

LEMMA HoldsShot ==
  ASSUME Inv, NEW a \in Tasks, Holds(a)
  PROVE  Shot!Hold(a)
<1>1. task \in [Tasks -> TaskType] /\ wallet \in WalletType
  BY DEF Inv, Typed, WalletType
<1>2. /\ task'[a].at = "verify" /\ task[a].at = "again" /\ wallet'.plan = a
      /\ \A p \in Tasks : task'[p].takes = task[p].takes
      /\ \A p \in Tasks : p # a => task'[p].at = task[p].at
      /\ UNCHANGED fate
  BY <1>1 DEF Holds, Resume, Moved, Onward, TaskType, WalletType
<1>3. \A p \in Tasks : Taking(p)' <=> Taking(p)
  BY <1>2 DEF Taking, Sending
<1>4. ConfirmingTasks' = ConfirmingTasks
  BY <1>2 DEF ConfirmingTasks, Confirming
<1>5. Stand(a) = "unmade" /\ Stand(a)' = "held"
  BY <1>2, ReviewAssumption DEF Inv, PlanInv, FateInv, Made, Taking, Stand, Early
<1>6. ASSUME NEW p \in Tasks, p # a
      PROVE  Stand(p)' = IF Stand(p) = "held" THEN "dropped" ELSE Stand(p)
  <2>1. wallet.plan = p => ~Taking(p) /\ task[p].at \notin Early
    BY ReviewAssumption DEF Inv, PlanInv, Made
  <2>2. QED
    BY <1>2, <1>3, <1>6, <2>1 DEF Stand
<1>7. Confirmations' = Confirmations
  BY <1>4 DEF Confirmations, ConfirmingTasks
<1>8. QED
  BY <1>5, <1>6, <1>7 DEF Shot!Hold

LEMMA PermitsShot ==
  ASSUME Inv, NEW c \in Tasks, Permits(c)
  PROVE  Shot!Permit
<1>1. task \in [Tasks -> TaskType] /\ task[c].at = "offered"
  BY DEF Inv, Typed, LinkInv, Permits
<1>2. /\ task'[c].at = "confirm"
      /\ \A p \in Tasks : task'[p].takes = task[p].takes
      /\ \A p \in Tasks : p # c => task'[p].at = task[p].at
      /\ UNCHANGED <<fate, wallet>>
  BY <1>1 DEF Permits, Moved, Onward, TaskType
<1>3. \A p \in Tasks : Taking(p)' <=> Taking(p)
  BY <1>1, <1>2 DEF Taking, Sending
<1>4. ConfirmingTasks' = ConfirmingTasks \cup {c} /\ c \notin ConfirmingTasks
  BY <1>1, <1>2 DEF ConfirmingTasks, Confirming
<1>5. \A p \in Tasks : Stand(p)' = Stand(p)
  BY <1>1, <1>2, <1>3 DEF Stand, Early
<1>6. QED
  BY <1>4, <1>5, OneConfirmationMore DEF Shot!Permit

LEMMA TakesShot ==
  ASSUME Inv, NEW a \in Tasks, Takes(a)
  PROVE  \E p \in Tasks : Shot!Take(p)
<1>1. task \in [Tasks -> TaskType] /\ wallet \in WalletType
  BY DEF Inv, Typed, WalletType
<1>2. PICK p \in Tasks : p = wallet.plan
  BY <1>1 DEF Takes, WalletType
<1>3. /\ task'[a].at = "last" /\ task[a].at = "stale" /\ task'[a].takes = p /\ wallet'.plan = None
      /\ \A q \in Tasks : q # a => task'[q].at = task[q].at /\ task'[q].takes = task[q].takes
      /\ UNCHANGED fate
  BY <1>1, <1>2, NoPlanIs DEF Takes, Resume, Moved, Onward, TaskType
<1>4. \A q \in Tasks : Taking(q)' <=> (q = p \/ Taking(q))
  BY <1>3 DEF Taking, Sending
<1>5. ConfirmingTasks' = ConfirmingTasks \ {a} /\ a \in ConfirmingTasks
  BY <1>3 DEF ConfirmingTasks, Confirming
<1>6. p # None /\ fate[p] = "none" /\ ~Taking(p) /\ task[p].at \notin Early
  BY <1>2, ReviewAssumption DEF Inv, PlanInv, Made
<1>7. Stand(p) = "held" /\ Stand(p)' = "taken"
  BY <1>2, <1>3, <1>4, <1>6 DEF Stand
<1>8. \A q \in Tasks : q # p => Stand(q)' = Stand(q)
  BY <1>2, <1>3, <1>4, ReviewAssumption DEF Stand, Early
<1>9. Confirmations' = Confirmations - 1 /\ Confirmations > 0
  BY <1>5, OneConfirmationLess
<1>10. QED
  BY <1>7, <1>8, <1>9 DEF Shot!Take

LEMMA SignShot ==
  ASSUME Inv, NEW a \in Tasks, Sign(a)
  PROVE  \E p \in Tasks : Shot!Sign(p)
<1>1. task \in [Tasks -> TaskType] /\ fate \in [Tasks -> {"none", "signed", "applied", "reverted"}]
  BY DEF Inv, Typed
<1>2. PICK p \in Tasks : p = task[a].takes /\ fate[p] = "none" /\ wallet.plan # p
  BY <1>1, ReviewAssumption DEF Inv, PlanInv, Made, Taking, TaskType, Sending, Sign
<1>3. /\ task'[a].at = "sent" /\ task[a].at = "signing"
      /\ \A q \in Tasks : task'[q].takes = task[q].takes
      /\ \A q \in Tasks : q # a => task'[q].at = task[q].at
      /\ fate' = [fate EXCEPT ![p] = "signed"] /\ UNCHANGED wallet
  BY <1>1, <1>2 DEF Sign, TaskType
<1>4. \A q \in Tasks : q # p => (Taking(q)' <=> Taking(q))
  BY <1>2, <1>3 DEF Taking, Sending
<1>5. ConfirmingTasks' = ConfirmingTasks
  BY <1>3 DEF ConfirmingTasks, Confirming
<1>6. Stand(p) = "taken" /\ Stand(p)' = "signed"
  BY <1>1, <1>2, <1>3 DEF Stand, Taking, Sending
<1>7. \A q \in Tasks : q # p => Stand(q)' = Stand(q)
  BY <1>1, <1>3, <1>4 DEF Stand, Early
<1>8. Confirmations' = Confirmations
  BY <1>5 DEF Confirmations, ConfirmingTasks
<1>9. QED
  BY <1>6, <1>7, <1>8 DEF Shot!Sign

LEMMA InitShot == Init => Shot!Init
<1> SUFFICES ASSUME Init PROVE Shot!Init
  OBVIOUS
<1>1. /\ \A a \in Tasks : task[a].at = "idle" /\ fate[a] = "none"
      /\ wallet.plan = None
  BY DEF Init, NewTask
<1>2. \A p \in Tasks : Stand(p) = "unmade"
  BY <1>1, ReviewAssumption DEF Stand, Taking, Sending, Early
<1>3. ConfirmingTasks = {}
  BY <1>1 DEF ConfirmingTasks, Confirming
<1>4. Confirmations = 0
  BY <1>3, FS_EmptySet DEF Confirmations, ConfirmingTasks
<1>5. QED
  BY <1>2, <1>4 DEF Shot!Init

LEMMA TakeCases ==
  ASSUME Inv, NEW a \in Tasks, Take(a)
  PROVE  Yields \/ Takes(a)
  BY ThrowYields DEF Take, Takes, Taken, Resume

\* A node's answer arrives.
Asks(a) ==
    /\ task' = [task EXCEPT ![a].got = chain]
    /\ UNCHANGED <<chain, wallet, desk, pool, fate>>

LEMMA StepCases ==
  ASSUME Inv, [Next]_vars
  PROVE  \/ Yields \/ Grows
         \/ \E a \in Tasks : MovesOn(a) \/ Asks(a) \/ Holds(a) \/ Permits(a) \/ Takes(a)
                             \/ Sign(a) \/ Mine(a)
<1>1. ASSUME NEW a \in Tasks, Reviewing(a)
      PROVE  Yields \/ MovesOn(a) \/ Holds(a)
  BY <1>1, MovingActions, YieldingActions, PrepareCases DEF Reviewing, Holds
<1>2. ASSUME NEW a \in Tasks, Submitting(a)
      PROVE  Yields \/ MovesOn(a) \/ Takes(a) \/ Sign(a)
  BY <1>2, MovingActions, YieldingActions, TakeCases DEF Submitting
<1>3. ASSUME NEW a \in Tasks, Answer(a)
      PROVE  Yields \/ Asks(a)
  BY <1>3, AnswerCases DEF Asks
<1>4. CASE UNCHANGED vars
  BY <1>4, HeightType DEF Grows, vars, Inv, Typed, Views
<1>5. QED
  BY <1>1, <1>2, <1>3, <1>4, ConfirmCases, MoveGrows, YieldingActions DEF Next

LEMMA NextShot == Inv /\ [Next]_vars => [Shot!Next]_(Shot!vars)
<1> SUFFICES ASSUME Inv, [Next]_vars PROVE [Shot!Next]_(Shot!vars)
  OBVIOUS
<1>1. ASSUME NEW a \in Tasks, Asks(a)
      PROVE  Loses
  BY <1>1 DEF Asks, Loses, Inv, Typed, TaskType
<1>2. ASSUME NEW p \in Tasks, Mine(p)
      PROVE  Loses
  <2>1. fate[p] = "signed" /\ \A q \in Tasks : fate'[q] = "none" <=> fate[q] = "none"
    BY <1>2 DEF Mine, Inv, Typed, FateInv
  <2>2. QED
    BY <1>2, <2>1 DEF Mine, Loses
<1>3. \/ Loses
      \/ \E a \in Tasks : Holds(a) \/ Permits(a) \/ Takes(a) \/ Sign(a)
  BY <1>1, <1>2, StepCases, YieldsLoses, GrowsLoses, MovesOnLoses
<1>4. QED
  BY <1>3, LosesShot, HoldsShot, PermitsShot, TakesShot, SignShot DEF Shot!Next

\* The page and its wallet implement OneShot: a plan is held, taken and
\* signed at most once, none that was dropped comes back, and no more plans
\* are taken than were confirmed.
THEOREM ImplementsOneShot == Spec => EachPlanIsOneShot
  BY InitInv, NextInv, InitShot, NextShot, PTL DEF Spec, EachPlanIsOneShot, Shot!Spec

\* Whatever is on its way to the wallet was prepared, from its first reading
\* on, under the link that is up when it gets there.
THEOREM SignsUnderLink == Spec => SignsUnderItsOwnLink
<1>1. ASSUME Inv, [Next]_vars, NEW a \in Tasks, task[a].at # "signing", task'[a].at = "signing"
      PROVE  task[a].at = "call" /\ task[task[a].takes].link = wallet.revision
  <2>1. ~Yields /\ ~Grows
    BY <1>1 DEF Yields, Grows, SameButFlags
  <2>2. ASSUME NEW b \in Tasks, Asks(b) \/ Holds(b) \/ Permits(b) \/ Takes(b) \/ Sign(b) \/ Mine(b)
        PROVE  FALSE
    <3>1. task \in [Tasks -> TaskType] /\ task'[b].at # task[b].at => b = a
      BY <1>1, <2>2 DEF Inv, Typed, Asks, Holds, Permits, Takes, Sign, Mine, Moved
    <3>2. QED
      <4>1. CASE Asks(b)
        BY <1>1, <3>1, <4>1 DEF TaskType, Asks
      <4>2. CASE Holds(b)
        BY <1>1, <3>1, <4>2 DEF TaskType, Holds, Moved, Onward
      <4>3. CASE Permits(b)
        BY <1>1, <3>1, <4>3 DEF TaskType, Permits, Onward
      <4>4. CASE Takes(b)
        BY <1>1, <3>1, <4>4 DEF TaskType, Takes, Onward
      <4>5. CASE Sign(b)
        BY <1>1, <3>1, <4>5 DEF TaskType, Sign
      <4>6. CASE Mine(b)
        BY <1>1, <4>6 DEF Mine
      <4>7. QED
        BY <2>2, <4>1, <4>2, <4>3, <4>4, <4>5, <4>6
  <2>3. PICK b \in Tasks : MovesOn(b)
    BY <1>1, <2>1, <2>2, StepCases
  <2>4. QED
    BY <1>1, <2>3 DEF MovesOn, Early, Confirming
<1>2. Inv /\ [Next]_vars =>
         [\A a \in Tasks : (task[a].at # "signing" /\ task'[a].at = "signing") =>
             task[task[a].takes].begun = wallet.revision]_vars
  BY <1>1 DEF Inv, PlanInv, Made, Sending
<1>3. QED
  BY InitInv, NextInv, <1>2, PTL DEF Spec, SignsUnderItsOwnLink

-----------------------------------------------------------------------------
(* Workbench: the inductive invariant.                                     *)

PageType == [gen : Nat, linked : BOOLEAN, identity : Nat,
             selected : Releases \cup {NoRelease}, state : Releases \cup {NoRelease},
             approval : [release : Releases \cup {NoRelease}, gen : Nat],
             asked : Clicks \cup {0}]
ClickType == [at : AtNode \cup {"idle", "done"}, gen : Nat,
              release : Releases \cup {NoRelease}, context : Nat, got : Worlds \cup {NoWorld}]
SessionType == [open : BOOLEAN,
                release : Releases \cup {NoRelease}, verified : Releases \cup {NoRelease},
                identity : Nat, queue : 0..Concurrent, used : 0..Requests,
                serving : BOOLEAN, got : Worlds \cup {NoWorld},
                beating : BOOLEAN, pulse : Worlds \cup {NoWorld}]

\* A request under way is still counted in the queue.
Sounds == {x \in SessionType : x.serving => x.queue > 0}

\* A click belongs to this generation or to an earlier one, and the one still
\* recovering in this generation is the one asked for last.
Stale(b) ==
    /\ click[b].gen <= page.gen
    /\ click[b].at = "recover" /\ click[b].gen = page.gen => page.asked = b
ClicksInv ==
    /\ page \in PageType
    /\ click \in [Clicks -> ClickType]
    /\ \A b \in Clicks : Stale(b)
SessionsInv ==
    /\ session \in [Clicks -> Sounds]
    /\ \A s, t \in Clicks : session[s].open /\ session[t].open => s = t
WorldInv ==
    /\ world \in Worlds /\ changes \in 0..MaxChanges
    /\ drafts \in [Releases -> Clicks \cup {0}]

BenchInv == ClicksInv /\ SessionsInv /\ WorldInv

-----------------------------------------------------------------------------
(* Sessions: what closes one, and what answers one.                        *)

LEMMA NewSessionIs == NewSession \in Sounds /\ ~NewSession.open
  BY WorkbenchAssumption DEF NewSession, Sounds, SessionType, NoWorld, Worlds

LEMMA KeptIs ==
  ASSUME NEW x \in Sounds
  PROVE  /\ Kept(x) \in Sounds
         /\ Kept(x).open => x.open
         /\ x.serving => Kept(x).serving
  BY NewSessionIs DEF Kept

LEMMA CloseIs ==
  ASSUME NEW x \in Sounds
  PROVE  /\ Close(x) \in Sounds
         /\ ~Close(x).open
         /\ x.serving => Close(x).serving
<1> DEFINE y == [x EXCEPT !.open = FALSE]
<1>1. y \in Sounds /\ ~y.open /\ (x.serving => y.serving)
  BY DEF Sounds, SessionType
<1>2. Close(x) = Kept(y)
  BY DEF Close
<1> HIDE DEF y
<1>3. QED
  BY <1>1, <1>2, KeptIs

LEMMA AllClosedIs ==
  ASSUME BenchInv
  PROVE  /\ AllClosed \in [Clicks -> Sounds]
         /\ \A s \in Clicks : ~AllClosed[s].open /\ (session[s].serving => AllClosed[s].serving)
  BY CloseIs DEF AllClosed, BenchInv, SessionsInv

LEMMA ServedIs ==
  ASSUME BenchInv, NEW s \in Clicks, session[s].serving
  PROVE  /\ Served(s) \in Sounds
         /\ Served(s).open => session[s].open
<1> DEFINE q == session[s].queue - 1
           y == [session[s] EXCEPT !.serving = FALSE, !.got = NoWorld, !.queue = q]
<1>1. session[s] \in SessionType /\ session[s].queue > 0
  BY DEF BenchInv, SessionsInv, Sounds
<1>2. q \in 0..Concurrent
  BY <1>1, WorkbenchAssumption DEF SessionType
<1>3. Served(s) = Kept(y)
  BY DEF Served
<1> HIDE DEF q
<1>4. y \in Sounds /\ y.open = session[s].open
  BY <1>1, <1>2 DEF Sounds, SessionType
<1> HIDE DEF y
<1>5. QED
  BY <1>3, <1>4, KeptIs

\* A step after which nothing is open that was not open before.
LEMMA SessionsShut ==
  ASSUME BenchInv, session' \in [Clicks -> Sounds],
         \A s \in Clicks : session'[s].open => session[s].open
  PROVE  SessionsInv'
  BY DEF BenchInv, SessionsInv

LEMMA OneSession ==
  ASSUME BenchInv, NEW s \in Clicks, NEW x \in Sounds, x.open => session[s].open,
         session' = [session EXCEPT ![s] = x]
  PROVE  SessionsInv'
<1>1. session \in [Clicks -> Sounds]
  BY DEF BenchInv, SessionsInv
<1>2. session' \in [Clicks -> Sounds] /\ \A t \in Clicks : session'[t].open => session[t].open
  BY <1>1
<1>3. QED
  BY <1>2, SessionsShut

LEMMA CloseRuntimeInv ==
  ASSUME BenchInv, CloseRuntime
  PROVE  SessionsInv'
  BY AllClosedIs, SessionsShut DEF CloseRuntime

LEMMA CloseSessionInv ==
  ASSUME BenchInv, NEW s \in Clicks, CloseSession(s)
  PROVE  SessionsInv'
<1>1. session \in [Clicks -> Sounds]
  BY DEF BenchInv, SessionsInv
<1>2. Close(session[s]) \in Sounds /\ ~Close(session[s]).open
  BY <1>1, CloseIs
<1>3. session' = [session EXCEPT ![s] = Close(session[s])]
  BY DEF CloseSession
<1>4. QED
  BY <1>2, <1>3, OneSession

LEMMA ServedInv ==
  ASSUME BenchInv, NEW s \in Clicks, session[s].serving,
         session' = [session EXCEPT ![s] = Served(s)]
  PROVE  SessionsInv'
  BY ServedIs, OneSession

LEMMA ServeInv ==
  ASSUME BenchInv, NEW s \in Clicks, Serve(s)
  PROVE  SessionsInv'
<1> DEFINE x == session[s]
<1>1. x \in SessionType /\ (x.serving => x.queue > 0)
  BY DEF BenchInv, SessionsInv, Sounds
<1>2. CASE Post(s)
  <2> DEFINE q == x.queue + 1
             y == [x EXCEPT !.queue = q]
  <2>1. CASE CloseSession(s)
    BY <2>1, CloseSessionInv
  <2>2. ASSUME x.queue < Concurrent, session' = [session EXCEPT ![s].queue = q]
        PROVE  SessionsInv'
    <3>1. q \in 0..Concurrent /\ q > 0
      BY <1>1, <2>2, WorkbenchAssumption DEF SessionType
    <3>2. session' = [session EXCEPT ![s] = y]
      BY <2>2
    <3> HIDE DEF q
    <3>3. y \in Sounds /\ y.open = x.open
      BY <1>1, <3>1 DEF Sounds, SessionType
    <3> HIDE DEF y
    <3>4. QED
      BY <3>2, <3>3, OneSession
  <2>3. QED
    BY <1>1, <1>2, <2>1, <2>2, WorkbenchAssumption DEF Post, SessionType
<1>3. CASE Handle(s)
  <2> DEFINE u == x.used + 1
             y == [x EXCEPT !.serving = TRUE, !.used = u]
  <2>1. CASE CloseSession(s)
    BY <2>1, CloseSessionInv
  <2>2. ASSUME x.used < Requests, x.queue > 0, session' = [session EXCEPT ![s] = y]
        PROVE  SessionsInv'
    <3>1. u \in 0..Requests
      BY <1>1, <2>2, WorkbenchAssumption DEF SessionType
    <3> HIDE DEF u
    <3>2. y \in Sounds /\ y.open = x.open
      BY <1>1, <2>2, <3>1 DEF Sounds, SessionType
    <3> HIDE DEF y
    <3>3. QED
      BY <2>2, <3>2, OneSession
  <2>3. QED
    BY <1>1, <1>3, <2>1, <2>2, WorkbenchAssumption DEF Handle, SessionType
<1>4. CASE AnswerSession(s)
  <2> DEFINE y == [x EXCEPT !.got = world]
             z == [x EXCEPT !.pulse = world]
  <2>1. y \in Sounds /\ y.open = x.open /\ z \in Sounds /\ z.open = x.open
    BY <1>1 DEF BenchInv, WorldInv, Sounds, SessionType
  <2>2. \/ session' = [session EXCEPT ![s] = y]
        \/ session' = [session EXCEPT ![s] = z]
    BY <1>4 DEF AnswerSession
  <2> HIDE DEF y, z
  <2>3. QED
    BY <2>1, <2>2, OneSession
<1>5. CASE Refuse(s) \/ Read(s) \/ Write(s)
  BY <1>5, ServedInv DEF Refuse, Read, Write
<1>6. CASE Propose(s)
  <2>1. Served(s) \in Sounds
    BY <1>6, ServedIs DEF Propose
  <2>2. Close(Served(s)) \in Sounds /\ ~Close(Served(s)).open
    BY <2>1, CloseIs
  <2>3. CASE session' = [AllClosed EXCEPT ![s] = Close(Served(s))]
    <3>1. session' \in [Clicks -> Sounds] /\ \A t \in Clicks : ~session'[t].open
      BY <2>2, <2>3, AllClosedIs
    <3>2. QED
      BY <3>1, SessionsShut
  <2>4. QED
    BY <1>6, <2>3, ServedInv DEF Propose
<1>7. CASE Beat(s)
  <2> DEFINE y == [x EXCEPT !.beating = TRUE]
  <2>1. y \in Sounds /\ y.open = x.open
    BY <1>1 DEF Sounds, SessionType
  <2>2. session' = [session EXCEPT ![s] = y]
    BY <1>7 DEF Beat
  <2> HIDE DEF y
  <2>3. QED
    BY <2>1, <2>2, OneSession
<1>8. CASE Pulse(s)
  <2> DEFINE alive == x.open /\ Authorised(x.pulse, x.identity, x.verified)
             y == [x EXCEPT !.beating = FALSE, !.pulse = NoWorld, !.open = alive]
  <2>1. alive \in BOOLEAN /\ (alive => x.open)
    BY <1>1 DEF SessionType
  <2>2. session' = [session EXCEPT ![s] = Kept(y)]
    BY <1>8 DEF Pulse
  <2> HIDE DEF alive
  <2>3. y \in Sounds /\ y.open = alive
    BY <1>1, <2>1 DEF Sounds, SessionType
  <2> HIDE DEF y
  <2>4. Kept(y) \in Sounds /\ (Kept(y).open => x.open)
    BY <2>1, <2>3, KeptIs
  <2>5. QED
    BY <2>2, <2>4, OneSession
<1>9. QED
  BY <1>2, <1>3, <1>4, <1>5, <1>6, <1>7, <1>8 DEF Serve

\* A launch closes every frame before it opens its own.
LEMMA LaunchedSessions ==
  ASSUME BenchInv, NEW a \in Clicks, Launched(a)
  PROVE  SessionsInv'
<1> DEFINE x == [NewSession EXCEPT !.open = TRUE, !.release = page.selected,
                     !.verified = click[a].release, !.identity = click[a].context]
<1>1. x \in Sounds
  <2>1. /\ page.selected \in Releases \cup {NoRelease}
        /\ click[a].release \in Releases \cup {NoRelease} /\ click[a].context \in Nat
    BY DEF BenchInv, ClicksInv, PageType, ClickType
  <2>2. QED
    BY <2>1, NewSessionIs DEF Sounds, SessionType
<1>2. \/ session' = session \/ session' = AllClosed
      \/ session' = [AllClosed EXCEPT ![a] = x]
  BY DEF Launched, OthersClosed
<1> HIDE DEF x
<1>3. CASE session' = session
  BY <1>3 DEF BenchInv, SessionsInv
<1>4. CASE session' = [AllClosed EXCEPT ![a] = x]
  <2>1. session' \in [Clicks -> Sounds] /\ \A t \in Clicks : t # a => ~session'[t].open
    BY <1>1, <1>4, AllClosedIs
  <2>2. QED
    BY <2>1 DEF SessionsInv
<1>5. CASE session' = AllClosed
  BY <1>5, AllClosedIs DEF SessionsInv
<1>6. QED
  BY <1>2, <1>3, <1>4, <1>5

-----------------------------------------------------------------------------
(* Clicks and the page.                                                    *)

LEMMA NewClickIs ==
  /\ NewClick \in ClickType /\ NewClick.gen = 0 /\ NewClick.at = "idle"
  /\ Ended \in ClickType /\ Ended.gen = 0 /\ Ended.at = "done"
  BY DEF NewClick, Ended, ClickType, NoWorld, Worlds

LEMMA BlankIs ==
  ASSUME NEW gen \in Nat
  PROVE  Blank(gen) \in PageType /\ Blank(gen).gen = gen
  BY DEF Blank, PageType, NoApproval

\* One click goes on within its generation, or ends; the generation stays.
LEMMA SameGeneration ==
  ASSUME BenchInv, NEW a \in Clicks, NEW x \in ClickType, click' = [click EXCEPT ![a] = x],
         x.gen <= page.gen,
         x.at = "recover" => click[a].at = "recover" /\ x.gen = click[a].gen,
         page' \in PageType, page'.gen = page.gen, page'.asked = page.asked
  PROVE  ClicksInv'
<1>1. click \in [Clicks -> ClickType] /\ \A b \in Clicks : Stale(b)
  BY DEF BenchInv, ClicksInv
<1>2. click' \in [Clicks -> ClickType] /\ click'[a] = x /\ \A b \in Clicks : b # a => click'[b] = click[b]
  BY <1>1
<1>3. ASSUME NEW b \in Clicks
      PROVE  Stale(b)'
  <2>1. CASE b = a
    BY <1>1, <1>2, <2>1 DEF Stale
  <2>2. CASE b # a
    BY <1>1, <1>2, <2>2 DEF Stale
  <2>3. QED
    BY <2>1, <2>2
<1>4. QED
  BY <1>2, <1>3 DEF ClicksInv

\* Another generation begins, in which at most click a is recovering.
LEMMA NextGeneration ==
  ASSUME BenchInv, NEW a \in Clicks, NEW x \in ClickType, click' = [click EXCEPT ![a] = x],
         x.gen <= page.gen + 1,
         x.at = "recover" /\ x.gen = page.gen + 1 => page'.asked = a,
         page' \in PageType, page'.gen = page.gen + 1
  PROVE  ClicksInv'
<1>1. click \in [Clicks -> ClickType] /\ page.gen \in Nat /\ \A b \in Clicks : Stale(b)
  BY DEF BenchInv, ClicksInv, PageType
<1>2. click' \in [Clicks -> ClickType] /\ click'[a] = x /\ \A b \in Clicks : b # a => click'[b] = click[b]
  BY <1>1
<1>3. ASSUME NEW b \in Clicks
      PROVE  Stale(b)'
  <2>1. CASE b = a
    BY <1>2, <2>1 DEF Stale
  <2>2. CASE b # a
    <3>1. click'[b] = click[b] /\ click[b].gen <= page.gen /\ click[b].gen \in Nat
      BY <1>1, <1>2, <2>2 DEF Stale, ClickType
    <3>2. click[b].gen <= page.gen + 1 /\ click[b].gen # page.gen + 1
      BY <1>1, <3>1
    <3>3. QED
      BY <3>1, <3>2 DEF Stale
  <2>3. QED
    BY <2>1, <2>2
<1>4. QED
  BY <1>2, <1>3 DEF ClicksInv

LEMMA ClickParts ==
  ASSUME BenchInv, NEW a \in Clicks
  PROVE  /\ page \in PageType /\ page.gen \in Nat /\ page.gen + 1 \in Nat
         /\ click[a] \in ClickType /\ click \in [Clicks -> ClickType]
         /\ click[a].gen \in Nat /\ click[a].gen <= page.gen
         /\ [click EXCEPT ![a] = click[a]] = click
  BY DEF BenchInv, ClicksInv, Stale, ClickType, PageType

\* A click that ends changes at most what the page shows.
LEMMA DoneInv ==
  ASSUME BenchInv, NEW a \in Clicks, Done(a),
         page' \in PageType, page'.gen = page.gen, page'.asked = page.asked
  PROVE  ClicksInv'
<1>1. click' = [click EXCEPT ![a] = Ended] /\ Ended.gen <= page.gen
  BY ClickParts, NewClickIs DEF Done
<1>2. QED
  BY <1>1, NewClickIs, SameGeneration

LEMMA ConnectWalletInv ==
  ASSUME BenchInv, NEW a \in Clicks, ConnectWallet(a)
  PROVE  ClicksInv'
<1> DEFINE g == page.gen + 1
           x == [click[a] EXCEPT !.at = "link", !.gen = g]
<1>1. g \in Nat /\ g <= page.gen + 1 /\ page' = Blank(g) /\ click' = [click EXCEPT ![a] = x]
  BY ClickParts DEF ConnectWallet
<1>2. page' \in PageType /\ page'.gen = page.gen + 1
  BY <1>1, BlankIs
<1> HIDE DEF g
<1>3. x \in ClickType /\ x.at = "link" /\ x.gen = g
  BY <1>1, ClickParts DEF ClickType, AtNode
<1> HIDE DEF x
<1>4. QED
  BY <1>1, <1>2, <1>3, NextGeneration

LEMMA RefreshPageInv ==
  ASSUME BenchInv, NEW a \in Clicks, RefreshPage(a)
  PROVE  ClicksInv'
<1> DEFINE g == page.gen
           x == [click[a] EXCEPT !.at = "read", !.gen = g]
<1>1. g \in Nat /\ g <= page.gen
  BY ClickParts
<1>2. page' = page /\ click' = [click EXCEPT ![a] = x]
  BY DEF RefreshPage
<1> HIDE DEF g
<1>3. x \in ClickType /\ x.at = "read" /\ x.gen = g
  BY <1>1, ClickParts DEF ClickType, AtNode
<1> HIDE DEF x
<1>4. QED
  BY <1>1, <1>2, <1>3, ClickParts, SameGeneration

LEMMA ChooseInv ==
  ASSUME BenchInv, NEW a \in Clicks, NEW r \in Releases, Choose(a, r)
  PROVE  ClicksInv'
<1> DEFINE g == page.gen + 1
           x == [click[a] EXCEPT !.at = "recover", !.gen = g, !.release = r]
<1>1. g \in Nat /\ g <= page.gen + 1 /\ g = page.gen + 1
  BY ClickParts
<1>2. click' = [click EXCEPT ![a] = x] \/ click' = [click EXCEPT ![a] = Ended]
  BY DEF Choose
<1>3. page' \in PageType /\ page'.gen = g /\ page'.asked = a
  <2>1. page' = [page EXCEPT !.gen = g, !.asked = a]
    BY DEF Choose
  <2> HIDE DEF g
  <2>2. QED
    BY <1>1, <2>1, ClickParts DEF PageType
<1> HIDE DEF g
<1>4. x \in ClickType /\ x.at = "recover" /\ x.gen = g
  BY <1>1, ClickParts DEF ClickType, AtNode
<1> HIDE DEF x
<1>5. Ended \in ClickType /\ Ended.at = "done" /\ Ended.gen <= page.gen + 1
  BY ClickParts, NewClickIs
<1>6. QED
  BY <1>1, <1>2, <1>3, <1>4, <1>5, NextGeneration

LEMMA BeginLaunchInv ==
  ASSUME BenchInv, NEW a \in Clicks, BeginLaunch(a, NoApproval)
  PROVE  ClicksInv'
<1> DEFINE g == page.gen
           x == [click[a] EXCEPT !.at = "check", !.gen = g,
                     !.release = page.selected, !.context = page.identity]
<1>1. g \in Nat /\ g <= page.gen
  BY ClickParts
<1>2. click' = [click EXCEPT ![a] = x] \/ Done(a)
  BY DEF BeginLaunch, Done
<1>3. page' \in PageType /\ page'.gen = page.gen /\ page'.asked = page.asked
  <2>1. page' = [page EXCEPT !.approval = NoApproval]
    BY DEF BeginLaunch
  <2>2. QED
    BY <2>1, ClickParts DEF PageType, NoApproval
<1> HIDE DEF g
<1>4. x \in ClickType /\ x.at = "check" /\ x.gen = g
  BY <1>1, ClickParts DEF ClickType, PageType, AtNode
<1> HIDE DEF x
<1>5. CASE click' = [click EXCEPT ![a] = x]
  BY <1>1, <1>3, <1>4, <1>5, SameGeneration
<1>6. QED
  BY <1>2, <1>3, <1>5, DoneInv

LEMMA LaunchInv ==
  ASSUME BenchInv, NEW a \in Clicks, Launch(a)
  PROVE  ClicksInv'
<1>1. CASE BeginLaunch(a, NoApproval)
  BY <1>1, BeginLaunchInv
<1>2. CASE page' = [page EXCEPT !.approval = [release |-> page.selected, gen |-> page.gen]] /\ Done(a)
  <2>1. page' \in PageType /\ page'.gen = page.gen /\ page'.asked = page.asked
    BY <1>2, ClickParts DEF PageType
  <2>2. QED
    BY <1>2, <2>1, DoneInv
<1>3. QED
  BY <1>1, <1>2 DEF Launch

LEMMA ConfirmLaunchInv ==
  ASSUME BenchInv, NEW a \in Clicks, ConfirmLaunch(a)
  PROVE  ClicksInv'
  BY BeginLaunchInv, DoneInv, ClickParts DEF ConfirmLaunch

LEMMA AnswerClickInv ==
  ASSUME BenchInv, NEW a \in Clicks, AnswerClick(a)
  PROVE  ClicksInv'
<1> DEFINE x == [click[a] EXCEPT !.got = world]
<1>1. x \in ClickType /\ x.at = click[a].at /\ x.gen = click[a].gen
  BY ClickParts DEF BenchInv, WorldInv, ClickType
<1>2. click' = [click EXCEPT ![a] = x] /\ page' = page
  BY DEF AnswerClick
<1> HIDE DEF x
<1>3. QED
  BY <1>1, <1>2, ClickParts, SameGeneration

\* What the awaits return to: the click goes on or ends.
LEMMA SettleInv ==
  ASSUME BenchInv, NEW a \in Clicks, Settle(a)
  PROVE  ClicksInv'
<1>1. page \in PageType /\ click[a] \in ClickType
  BY ClickParts
<1>2. page' \in PageType /\ page'.gen = page.gen /\ page'.asked = page.asked
  <2>1. click[a].got.epoch \in Nat /\ click[a].release \in Releases \cup {NoRelease}
    BY <1>1 DEF ClickType, Worlds, NoWorld
  <2>2. \/ page' = page
        \/ page' = [page EXCEPT !.linked = TRUE]
        \/ page' = [page EXCEPT !.identity = click[a].got.epoch]
        \/ page' = [page EXCEPT !.selected = click[a].release]
        \/ page' = [page EXCEPT !.state = click[a].release]
    BY DEF Settle, Linked, Refreshed, Recovered, Installed, Launched
  <2>3. QED
    BY <1>1, <2>1, <2>2 DEF PageType
<1>3. ASSUME NEW stage \in {"read", "install"}, click' = MovedOn(a, stage)
      PROVE  ClicksInv'
  <2> DEFINE x == [click[a] EXCEPT !.at = stage, !.got = NoWorld]
  <2>1. x \in ClickType /\ x.at # "recover" /\ x.gen = click[a].gen
    BY <1>1 DEF ClickType, AtNode
  <2>2. click' = [click EXCEPT ![a] = x]
    BY <1>3 DEF MovedOn
  <2> HIDE DEF x
  <2>3. QED
    BY <1>2, <2>1, <2>2, ClickParts, SameGeneration
<1>4. Done(a) \/ \E stage \in {"read", "install"} : click' = MovedOn(a, stage)
  BY DEF Settle, Linked, Refreshed, Recovered, Installed, Launched
<1>5. QED
  BY <1>2, <1>3, <1>4, DoneInv

\* A step that leaves the clicks and the generation alone.
LEMMA PageOnly ==
  ASSUME BenchInv, UNCHANGED click,
         page' \in PageType, page'.gen = page.gen, page'.asked = page.asked
  PROVE  ClicksInv'
  BY DEF BenchInv, ClicksInv, Stale

LEMMA InvalidateInv ==
  ASSUME BenchInv, Invalidate
  PROVE  ClicksInv'
<1>1. page.gen \in Nat /\ click \in [Clicks -> ClickType] /\ \A b \in Clicks : click[b].gen <= page.gen
  BY DEF BenchInv, ClicksInv, PageType, Stale
<1>2. page' \in PageType /\ page'.gen = page.gen + 1 /\ click' = click
  BY <1>1, BlankIs DEF Invalidate
<1>3. \A b \in Clicks : click[b].gen <= page.gen + 1 /\ click[b].gen # page.gen + 1
  BY <1>1 DEF ClickType
<1>4. QED
  BY <1>1, <1>2, <1>3 DEF ClicksInv, Stale

-----------------------------------------------------------------------------
(* Every step.                                                             *)

LEMMA BenchInit == WorkbenchInit => BenchInv
<1> SUFFICES ASSUME WorkbenchInit PROVE BenchInv
  OBVIOUS
<1>1. ClicksInv
  BY BlankIs, NewClickIs DEF WorkbenchInit, ClicksInv, Stale
<1>2. SessionsInv
  BY NewSessionIs DEF WorkbenchInit, SessionsInv
<1>3. WorldInv
  BY WorkbenchAssumption DEF WorkbenchInit, WorldInv, Worlds
<1>4. QED
  BY <1>1, <1>2, <1>3 DEF BenchInv

LEMMA WorldKept ==
  ASSUME BenchInv, UNCHANGED <<world, changes, drafts>>
  PROVE  WorldInv'
  BY DEF BenchInv, WorldInv

LEMMA SessionsKept ==
  ASSUME BenchInv, UNCHANGED session
  PROVE  SessionsInv'
  BY DEF BenchInv, SessionsInv

LEMMA PressNext ==
  ASSUME BenchInv, NEW a \in Clicks, Press(a)
  PROVE  BenchInv'
<1>1. ClicksInv'
  BY ConnectWalletInv, RefreshPageInv, LaunchInv, ConfirmLaunchInv, ChooseInv DEF Press
<1>2. SessionsInv'
  BY CloseRuntimeInv, SessionsKept
     DEF Press, ConnectWallet, RefreshPage, Launch, ConfirmLaunch, Choose, BeginLaunch
<1>3. UNCHANGED <<world, changes, drafts>>
  BY DEF Press, ConnectWallet, RefreshPage, Launch, ConfirmLaunch, Choose
<1>4. QED
  BY <1>1, <1>2, <1>3, WorldKept DEF BenchInv

LEMMA SettleNext ==
  ASSUME BenchInv, NEW a \in Clicks, Settle(a)
  PROVE  BenchInv'
<1>1. SessionsInv'
  BY LaunchedSessions, SessionsKept DEF Settle, Linked, Refreshed, Recovered, Installed
<1>2. UNCHANGED <<world, changes, drafts>>
  BY DEF Settle, Linked, Refreshed, Recovered, Installed, Launched
<1>3. QED
  BY <1>1, <1>2, SettleInv, WorldKept DEF BenchInv

LEMMA ServeNext ==
  ASSUME BenchInv, NEW s \in Clicks, Serve(s)
  PROVE  BenchInv'
<1>1. page \in PageType
  BY DEF BenchInv, ClicksInv
<1>2. UNCHANGED click /\ page' \in PageType /\ page'.gen = page.gen /\ page'.asked = page.asked
  <2>1. ASSUME page' = [page EXCEPT !.approval = NoApproval]
        PROVE  page' \in PageType /\ page'.gen = page.gen /\ page'.asked = page.asked
    BY <1>1, <2>1 DEF PageType, NoApproval
  <2>2. UNCHANGED click /\ (page' = page \/ page' = [page EXCEPT !.approval = NoApproval])
    BY DEF Serve, Post, Handle, AnswerSession, Refuse, Read, Write, Propose, Beat, Pulse
  <2>3. QED
    BY <1>1, <2>1, <2>2
<1>3. ClicksInv'
  BY <1>2, PageOnly
<1>4. WorldInv'
  <2>1. CASE Write(s)
    <3>1. drafts \in [Releases -> Clicks \cup {0}]
      BY DEF BenchInv, WorldInv
    <3>2. drafts' \in [Releases -> Clicks \cup {0}]
      BY <2>1, <3>1 DEF Write
    <3>3. QED
      BY <2>1, <3>2 DEF Write, BenchInv, WorldInv
  <2>2. CASE ~Write(s)
    BY <2>2, WorldKept
       DEF Serve, Post, Handle, AnswerSession, Refuse, Read, Propose, Beat, Pulse
  <2>3. QED
    BY <2>1, <2>2
<1>5. QED
  BY <1>3, <1>4, ServeInv DEF BenchInv

LEMMA ChangeNext ==
  ASSUME BenchInv, Change
  PROVE  BenchInv'
<1>1. world \in Worlds /\ changes \in 0..MaxChanges
  BY DEF BenchInv, WorldInv
<1>2. changes' \in 0..MaxChanges
  BY <1>1, WorkbenchAssumption DEF Change
<1>3. world' \in Worlds
  <2>1. CASE world' = [world EXCEPT !.epoch = @ + 1]
    <3>1. world' = [epoch |-> world.epoch + 1, on |-> world.on]
      BY <1>1, <2>1 DEF Worlds
    <3>2. QED
      BY <1>1, <3>1 DEF Worlds
  <2>2. ASSUME NEW r \in Releases,
               world' = [world EXCEPT !.on = IF r \in @ THEN @ \ {r} ELSE @ \cup {r}]
        PROVE  world' \in Worlds
    <3>1. PICK on \in SUBSET Releases : world' = [world EXCEPT !.on = on]
      BY <1>1, <2>2 DEF Worlds
    <3>2. QED
      BY <1>1, <3>1 DEF Worlds
  <2>3. QED
    BY <2>1, <2>2 DEF Change
<1>4. UNCHANGED <<page, click, session, drafts>>
  BY DEF Change
<1>5. QED
  BY <1>2, <1>3, <1>4 DEF BenchInv, ClicksInv, Stale, SessionsInv, WorldInv

LEMMA BenchNext == BenchInv /\ [WorkbenchNext]_workbenchVars => BenchInv'
<1> SUFFICES ASSUME BenchInv, [WorkbenchNext]_workbenchVars PROVE BenchInv'
  OBVIOUS
<1>1. page \in PageType
  BY DEF BenchInv, ClicksInv
<1>2. ASSUME NEW a \in Clicks, AnswerClick(a) \/ Fail(a)
      PROVE  BenchInv'
  <2>1. ClicksInv'
    BY <1>1, <1>2, AnswerClickInv, DoneInv DEF Fail
  <2>2. UNCHANGED <<world, changes, session, drafts>>
    BY <1>2 DEF AnswerClick, Fail
  <2>3. QED
    BY <2>1, <2>2, SessionsKept, WorldKept DEF BenchInv
<1>3. ASSUME NEW s \in Clicks, Expire(s)
      PROVE  BenchInv'
  BY <1>1, <1>3, CloseSessionInv, PageOnly, WorldKept DEF Expire, BenchInv
<1>4. CASE CancelLaunch
  <2>1. page' \in PageType /\ page'.gen = page.gen /\ page'.asked = page.asked
    BY <1>1, <1>4 DEF CancelLaunch, PageType, NoApproval
  <2>2. QED
    BY <1>4, <2>1, PageOnly, SessionsKept, WorldKept DEF CancelLaunch, BenchInv
<1>5. CASE CloseModule
  BY <1>1, <1>5, CloseRuntimeInv, PageOnly, WorldKept DEF CloseModule, BenchInv
<1>6. CASE Invalidate
  BY <1>6, InvalidateInv, CloseRuntimeInv, WorldKept DEF Invalidate, BenchInv
<1>7. CASE UNCHANGED workbenchVars
  BY <1>7 DEF workbenchVars, BenchInv, ClicksInv, Stale, SessionsInv, WorldInv
<1>8. QED
  BY <1>2, <1>3, <1>4, <1>5, <1>6, <1>7, PressNext, SettleNext, ServeNext, ChangeNext DEF WorkbenchNext

LEMMA WorkbenchInvariant == WorkbenchSpec => []BenchInv
  BY BenchInit, BenchNext, PTL DEF WorkbenchSpec

-----------------------------------------------------------------------------

\* The limits of the host hold: never more messages in the queue of a session
\* nor more requests handled than HOST_LIMITS says.
THEOREM WorkbenchTyped == WorkbenchSpec => []WorkbenchTypeOK
<1>1. BenchInv => WorkbenchTypeOK
  <2> SUFFICES ASSUME BenchInv PROVE WorkbenchTypeOK
    OBVIOUS
  <2>1. page \in PageType /\ click \in [Clicks -> ClickType] /\ session \in [Clicks -> SessionType]
    BY DEF BenchInv, ClicksInv, SessionsInv, Sounds
  <2>2. QED
    BY <2>1 DEF BenchInv, WorldInv, WorkbenchTypeOK, PageType, ClickType, SessionType
<1>2. QED
  BY WorkbenchInvariant, <1>1, PTL

\* Two launches may wait for the registry together, and a launch may outlast
\* the click that replaced it: never are two frames open.
THEOREM NeverTwoFrames == WorkbenchSpec => []OneFrame
<1>1. BenchInv => OneFrame
  <2> SUFFICES ASSUME BenchInv PROVE OneFrame
    OBVIOUS
  <2>1. CASE Open = {}
    BY <2>1, FS_EmptySet DEF OneFrame
  <2>2. CASE Open # {}
    <3>1. PICK s \in Clicks : Open = {s}
      BY <2>2 DEF Open, BenchInv, SessionsInv
    <3>2. Cardinality({s}) = 1
      BY FS_Singleton
    <3>3. QED
      BY <3>1, <3>2 DEF OneFrame
  <2>3. QED
    BY <2>1, <2>2
<1>2. QED
  BY WorkbenchInvariant, <1>1, PTL

\* A release is put on display only by the click that asked for it last, while
\* the page is still in the generation that click began.
THEOREM LastAskedIsShown == WorkbenchSpec => ShownIsLastAsked
<1> DEFINE Shows == page'.selected \notin {page.selected, NoRelease} =>
          /\ page.asked # 0
          /\ page'.selected = click[page.asked].release
          /\ click[page.asked].at = "recover"
<1>1. ASSUME BenchInv, [WorkbenchNext]_workbenchVars, page'.selected \notin {page.selected, NoRelease}
      PROVE  \E a \in Clicks : Recovered(a) /\ Current(a) /\ page'.selected = click[a].release
  <2>1. page \in PageType
    BY <1>1 DEF BenchInv, ClicksInv
  <2>2. \A gen : Blank(gen).selected = NoRelease
    BY DEF Blank
  <2>3. ASSUME NEW a \in Clicks, Press(a) \/ AnswerClick(a) \/ Fail(a) \/ Serve(a) \/ Expire(a)
        PROVE  page'.selected \in {page.selected, NoRelease}
    <3>1. CASE Press(a)
      BY <2>1, <2>2, <3>1 DEF Press, ConnectWallet, RefreshPage, Launch, ConfirmLaunch, Choose, BeginLaunch, PageType
    <3>2. CASE Serve(a)
      BY <2>1, <3>2 DEF Serve, Post, Handle, AnswerSession, Refuse, Read, Write, Propose, Beat, Pulse, PageType
    <3>3. QED
      BY <2>3, <3>1, <3>2 DEF AnswerClick, Fail, Expire
  <2>4. CASE CancelLaunch \/ CloseModule \/ Invalidate \/ Change \/ UNCHANGED workbenchVars
    BY <1>1, <2>1, <2>2, <2>4 DEF CancelLaunch, CloseModule, Invalidate, Change, workbenchVars, PageType
  <2>5. ASSUME NEW a \in Clicks, Settle(a)
        PROVE  Recovered(a) /\ Current(a) /\ page'.selected = click[a].release
    BY <1>1, <2>1, <2>5 DEF Settle, Linked, Refreshed, Recovered, Installed, Launched, PageType
  <2>6. QED
    BY <1>1, <2>3, <2>4, <2>5 DEF WorkbenchNext
<1>2. BenchInv /\ [WorkbenchNext]_workbenchVars => Shows
  <2> SUFFICES ASSUME BenchInv, [WorkbenchNext]_workbenchVars, page'.selected \notin {page.selected, NoRelease}
               PROVE  /\ page.asked # 0
                      /\ page'.selected = click[page.asked].release
                      /\ click[page.asked].at = "recover"
    OBVIOUS
  <2>1. PICK a \in Clicks : Recovered(a) /\ Current(a) /\ page'.selected = click[a].release
    BY <1>1
  <2>2. page.asked = a /\ click[a].at = "recover"
    BY <2>1 DEF BenchInv, ClicksInv, Stale, Recovered, Resumed, Current
  <2>3. a # 0
    BY WorkbenchAssumption DEF Clicks
  <2>4. QED
    BY <2>1, <2>2, <2>3
<1>3. QED
  BY WorkbenchInvariant, <1>2, PTL DEF WorkbenchSpec, ShownIsLastAsked

\* A session that is closed in the middle of a request neither writes a draft
\* nor opens a review when the registry answers at last.
THEOREM ClosedForGood == WorkbenchSpec => NothingAfterClose
<1>1. ASSUME BenchInv, [WorkbenchNext]_workbenchVars, NEW s \in Clicks,
             session[s].serving, ~session'[s].serving, ~session[s].open
      PROVE  UNCHANGED <<drafts, page>>
  <2>1. session \in [Clicks -> Sounds]
    BY <1>1 DEF BenchInv, SessionsInv
  <2>2. session' # session /\ ~CloseRuntime
    BY <1>1, AllClosedIs DEF CloseRuntime
  <2>3. PICK a \in Clicks : Launched(a) \/ Serve(a) \/ Expire(a)
    BY <1>1, <2>2 DEF WorkbenchNext, workbenchVars, Press, ConnectWallet, RefreshPage, Launch, ConfirmLaunch,
          Choose, BeginLaunch, AnswerClick, Fail, Settle, Linked, Refreshed, Recovered, Installed,
          CancelLaunch, CloseModule, Invalidate, Change
  <2>4. CASE ~Write(a) /\ ~Propose(a)
    BY <2>3, <2>4 DEF Launched, Serve, Post, Handle, AnswerSession, Refuse, Read, Beat, Pulse, Expire
  <2>5. CASE Write(a)
    <3>1. session[a].open /\ session' = [session EXCEPT ![a] = Served(a)]
      BY <2>5 DEF Write, StillOpen
    <3>2. a # s
      BY <1>1, <3>1
    <3>3. session'[s] = session[s]
      BY <2>1, <3>1, <3>2
    <3>4. QED
      BY <1>1, <3>3
  <2>6. CASE Propose(a)
    <3>1. a # s
      BY <1>1, <2>6 DEF Propose, StillOpen
    <3>2. session'[s] \in {session[s], AllClosed[s]}
      BY <2>1, <2>6, <3>1, AllClosedIs, <1>1 DEF Propose
    <3>3. QED
      BY <1>1, <3>2, AllClosedIs
  <2>7. QED
    BY <2>4, <2>5, <2>6
<1>2. BenchInv /\ [WorkbenchNext]_workbenchVars =>
         [\A s \in Clicks : (session[s].serving /\ ~session'[s].serving /\ ~session[s].open)
             => UNCHANGED <<drafts, page>>]_workbenchVars
  BY <1>1
<1>3. QED
  BY WorkbenchInvariant, <1>2, PTL DEF WorkbenchSpec, NothingAfterClose
=============================================================================
