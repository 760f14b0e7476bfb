------------------------------- MODULE Review -------------------------------
(***************************************************************************)
(* How the workbench turns a click into a transaction: app.mjs begins and  *)
(* confirms a review, host.mjs ReviewedAction guards it, adapter.mjs and   *)
(* wallet.mjs prepare and send it, and TokenModuleRegistry.sol applies it. *)
(*                                                                         *)
(* Every await is two steps: the node answers at some moment (Answer), and *)
(* the code goes on with that answer at some later one (an action per      *)
(* stage).  Tasks are not serialised: run() only counts them, so several   *)
(* reviews can be under way at once.  A task is one click on an action of  *)
(* the module registry; a review's plan is named by the task that made it. *)
(***************************************************************************)
EXTENDS Naturals, FiniteSets

CONSTANTS
    Tasks,     \* clicks on a registry action, as many as a page lives through
    Accounts,  \* addresses that can own the NFT or be selected in the wallet
    Nobody,    \* no address: nothing is connected
    None,      \* no task: an empty variable of the program
    MaxMoves,  \* bound: the height from which only the plans move the chain
    MaxLinks   \* bound: changes of the wallet's revision

ASSUME ReviewAssumption ==
    /\ IsFiniteSet(Tasks)
    /\ None \notin Tasks
    /\ Nobody \notin Accounts
    /\ MaxMoves \in Nat
    /\ MaxLinks \in Nat

VARIABLES
    chain,   \* what a coherent snapshot shows: owner, epoch, root, actionNonce
    wallet,  \* selected account; the IpseityWallet's address, revision and plan
    desk,    \* the page: the review variable, the dialog, its button, identity
    task,    \* each task: its stage, the answer in hand and what it recorded
    pool,    \* transactions signed and not yet mined
    fate     \* history: what became of each signed transaction

vars == <<chain, wallet, desk, task, pool, fate>>

Views == [owner : Accounts, epoch : Nat, root : Nat, nonce : Nat]
NoView == [owner |-> Nobody, epoch |-> 0, root |-> 0, nonce |-> 0]
Identities == [owner : Accounts \cup {Nobody}, epoch : Nat]

IdentityOf(view) == [owner |-> view.owner, epoch |-> view.epoch]
\* Every change on chain moves one of these two counters.
Height(view) == view.epoch + view.nonce

Connected == wallet.address # Nobody

\* The stages in which a review has not produced a plan yet, the ones in which
\* it waits for a node, the ones after the confirm button, and the ones in
\* which wallet.send has taken a plan and not yet let go of it.
Early == {"idle", "intent", "custody", "context", "simulate", "again"}
Confirming == {"confirm", "stale"}
Sending == {"last", "call", "signing"}
Waiting == {"intent", "custody", "context", "simulate", "again", "verify",
            "confirm", "stale", "last", "call"}
NodeOnly == {"stale", "call"}
Stages == Early \cup Confirming \cup Sending \cup
          {"verify", "offered", "sent", "done", "failed"}

NewTask ==
    [at |-> "idle", got |-> NoView, commits |-> FALSE,
     asked |-> 0,      \* wallet.revision when the pending call was made
     identity |-> [owner |-> Nobody, epoch |-> 0],
     intent |-> NoView, \* the context the recipe was encoded from
     plan |-> NoView,   \* the context wallet.prepare recorded
     link |-> 0,        \* the wallet revision of the plan
     begun |-> 0,       \* history: the wallet revision when the review began
     live |-> FALSE,    \* its ReviewedAction was not invalidated since review()
     pending |-> FALSE, \* its ReviewedAction holds a pending confirmation
     shown |-> None,    \* history: what the dialog showed when it was confirmed
     aged |-> FALSE,    \* more than reviewMs old
     takes |-> None,    \* the plan wallet.send took
     since |-> 0]       \* history: height of the chain when it was taken

-----------------------------------------------------------------------------
(* Pieces of the handlers.                                                 *)

\* ReviewedAction.invalidate of the review variable's action.
Voided(t) == IF desk.current = None THEN t
             ELSE [t EXCEPT ![desk.current] = [@ EXCEPT !.live = FALSE, !.pending = FALSE]]
NoPlan(w) == [w EXCEPT !.plan = None]

\* closeReview: invalidate (which cancels the wallet's plan) and close.
Closed(t) == /\ task' = Voided(t)
             /\ desk' = [desk EXCEPT !.dialog = None]

\* wallet.invalidation or wallet.disconnect, and the app's invalidate.
Unlinked(t) == /\ wallet' = [wallet EXCEPT !.address = Nobody, !.revision = @ + 1, !.plan = None]
               /\ task' = Voided(t)
               /\ desk' = [desk EXCEPT !.dialog = None, !.identity = IdentityOf(NoView)]

\* A task goes on to its next call, or fails.
Onward(a, stage) == [task[a] EXCEPT !.at = stage, !.got = NoView, !.asked = wallet.revision]
Moved(a, stage) == [task EXCEPT ![a] = Onward(a, stage)]
Failed(a) == [task EXCEPT ![a] = [@ EXCEPT !.at = "failed", !.got = NoView, !.takes = None]]

\* A throw inside ReviewedAction.review leaves the wallet as it was; one inside
\* confirm also cancels, whosever plan the wallet holds by then.
Throw(a) == /\ task' = Failed(a)
            /\ wallet' = IF task[a].at \in Confirming \cup Sending THEN NoPlan(wallet) ELSE wallet
            /\ UNCHANGED desk

BadSameWalletContext(v, w) == v.owner = w.owner /\ v.epoch = w.epoch
SameWalletContext(v, w) == v.owner = w.owner /\ v.epoch = w.epoch /\ v.nonce = w.nonce

\* adapter.fresh and adapter.context: still this wallet's, still this custody.
\* The adapter is dropped when the wallet is unlinked.
Fresh(a) ==
    /\ Connected
    /\ task[a].got.owner = wallet.address
    /\ IdentityOf(task[a].got) = task[a].identity

\* wallet.assertOwner on its way out, and the caller's own revision check.
StillMine(a) ==
    /\ Connected
    /\ task[a].asked = wallet.revision
    /\ task[a].got.owner = wallet.address

BadStillLive(a) == TRUE
\* revision === this.revision in the task's ReviewedAction.
StillLive(a) == task[a].live

Resume(a, stage) == task[a].at = stage /\ task[a].got # NoView

-----------------------------------------------------------------------------
(* From the click to the dialog.                                           *)

\* Review installation, Review disable, Review chain snapshot (a commit moves
\* the registry's root) or Review staged migration (which does not).  An open
\* dialog is modal.
Click(a, commits) ==
    /\ task[a].at = "idle"
    /\ desk.dialog = None /\ desk.identity.owner # Nobody
    /\ task' = [task EXCEPT ![a] = [Onward(a, "intent") EXCEPT !.commits = commits]]
    /\ UNCHANGED <<chain, wallet, desk, pool, fate>>

\* A node answers, or the call fails.  assertCurrentContext and the last
\* simulation ask the node alone; every other call starts with
\* wallet.assertOwner, which unlinks a wallet whose selection moved.
Answer(a) ==
    /\ task[a].at \in Waiting /\ task[a].got = NoView
    /\ \/ /\ task[a].at \in NodeOnly \/ (task[a].asked = wallet.revision /\ wallet.address = wallet.account)
          /\ task' = [task EXCEPT ![a].got = chain]
          /\ UNCHANGED <<wallet, desk>>
       \/ /\ task[a].at \notin NodeOnly /\ task[a].asked = wallet.revision
          /\ Connected /\ wallet.address # wallet.account
          /\ wallet.revision < MaxLinks
          /\ Unlinked(Failed(a))
       \/ Throw(a)
    /\ UNCHANGED <<chain, pool, fate>>

\* adapter.intent, then beginReview: the old review is closed, a new one opens.
BeginReview(a) ==
    /\ Resume(a, "intent")
    /\ IF Connected /\ task[a].got.owner = wallet.address /\ desk.identity.owner # Nobody
       THEN /\ task' = Voided([task EXCEPT ![a] = [Onward(a, "custody") EXCEPT
                          !.intent = task[a].got, !.identity = desk.identity,
                          !.live = TRUE, !.begun = wallet.revision]])
            /\ desk' = [desk EXCEPT !.current = a, !.dialog = None]
            /\ wallet' = NoPlan(wallet)
       ELSE Throw(a)
    /\ UNCHANGED <<chain, pool, fate>>

\* ReviewedAction.review: verified, then adapter.prepare drops any plan.
Verified(a) ==
    /\ Resume(a, "custody")
    /\ IF Fresh(a)
       THEN task' = Moved(a, "context") /\ wallet' = NoPlan(wallet) /\ UNCHANGED desk
       ELSE Throw(a)
    /\ UNCHANGED <<chain, pool, fate>>

\* adapter.prepare: the recipe's preconditions still hold, field by field.
CheckRecipe(a) ==
    /\ Resume(a, "context")
    /\ IF Fresh(a) /\ task[a].got = task[a].intent
       THEN /\ task' = [task EXCEPT ![a] = [Onward(a, "simulate") EXCEPT !.link = wallet.revision]]
            /\ wallet' = NoPlan(wallet)
            /\ UNCHANGED desk
       ELSE Throw(a)
    /\ UNCHANGED <<chain, pool, fate>>

\* wallet.prepare: the context the plan is built in; code, call and gas.
Simulate(a) ==
    /\ Resume(a, "simulate")
    /\ IF StillMine(a)
       THEN /\ task' = [task EXCEPT ![a] = [Onward(a, "again") EXCEPT !.plan = task[a].got]]
            /\ UNCHANGED <<wallet, desk>>
       ELSE Throw(a)
    /\ UNCHANGED <<chain, pool, fate>>

\* wallet.prepare ends, adapter.prepare keeps its context, and review() looks
\* at its own revision before it asks once more.
Prepare(a) ==
    /\ Resume(a, "again")
    /\ IF ~StillMine(a) \/ ~SameWalletContext(task[a].plan, task[a].got)
       THEN Throw(a)
       ELSE /\ UNCHANGED desk
            /\ IF StillLive(a)
               THEN task' = Moved(a, "verify") /\ wallet' = [wallet EXCEPT !.plan = a]
               ELSE task' = Failed(a) /\ wallet' = NoPlan(wallet)
    /\ UNCHANGED <<chain, pool, fate>>

\* The pending confirmation is stored under the revision review() began with,
\* and the page shows the action whose review() has just returned.
Show(a) ==
    /\ Resume(a, "verify")
    /\ IF Fresh(a)
       THEN /\ task' = [task EXCEPT ![a] = [Onward(a, "offered") EXCEPT !.pending = TRUE]]
            /\ desk' = [desk EXCEPT !.dialog = a, !.armed = TRUE]
            /\ UNCHANGED wallet
       ELSE Throw(a)
    /\ UNCHANGED <<chain, pool, fate>>

-----------------------------------------------------------------------------
(* From the dialog to the wallet.                                          *)

\* The button confirms the review variable, whatever the dialog displays.
Confirm ==
    /\ desk.dialog # None /\ desk.armed
    /\ desk' = [desk EXCEPT !.armed = FALSE]
    /\ LET c == desk.current IN
       IF task[c].pending /\ StillLive(c) /\ ~task[c].aged
       THEN /\ task' = [task EXCEPT ![c] =
                          [Onward(c, "confirm") EXCEPT !.pending = FALSE, !.shown = desk.dialog]]
            /\ UNCHANGED wallet
       ELSE /\ task' = [task EXCEPT ![c] = [@ EXCEPT !.pending = FALSE,
                          !.at = IF task[c].at = "offered" THEN "failed" ELSE task[c].at]]
            /\ wallet' = NoPlan(wallet)
    /\ UNCHANGED <<chain, pool, fate>>

CancelReview ==
    /\ desk.dialog # None
    /\ Closed(task)
    /\ wallet' = NoPlan(wallet)
    /\ UNCHANGED <<chain, pool, fate>>

\* Three minutes after the plan was made.
Age(a) ==
    /\ wallet.plan = a /\ ~task[a].aged
    /\ task' = [task EXCEPT ![a].aged = TRUE]
    /\ UNCHANGED <<chain, wallet, desk, pool, fate>>

\* confirm() verified custody; adapter.send asks that the wallet still holds
\* this plan, and reads the registry again.
CheckPlan(a) ==
    /\ Resume(a, "confirm")
    /\ IF Fresh(a) /\ wallet.plan = a
       THEN task' = Moved(a, "stale") /\ UNCHANGED <<wallet, desk>>
       ELSE Throw(a)
    /\ UNCHANGED <<chain, pool, fate>>

BadTaken(w) == w
\* this.plan = null: a plan is taken once.
Taken(w) == NoPlan(w)

\* assertCurrentContext, then wallet.send takes whatever plan there is.
Take(a) ==
    /\ Resume(a, "stale")
    /\ LET p == wallet.plan IN
       IF task[a].got = task[a].intent /\ p # None /\ task[p].link = wallet.revision
          /\ ~task[p].aged /\ Connected
       THEN /\ task' = [task EXCEPT ![a] =
                          [Onward(a, "last") EXCEPT !.takes = p, !.since = Height(chain)]]
            /\ wallet' = Taken(wallet)
            /\ UNCHANGED desk
       ELSE Throw(a)
    /\ UNCHANGED <<chain, pool, fate>>

\* wallet.send: the context has not moved since the plan was made.
CheckContext(a) ==
    /\ Resume(a, "last")
    /\ IF StillMine(a) /\ SameWalletContext(task[task[a].takes].plan, task[a].got)
       THEN task' = Moved(a, "call") /\ UNCHANGED <<wallet, desk>>
       ELSE Throw(a)
    /\ UNCHANGED <<chain, pool, fate>>

\* After the last simulation the wallet is asked to sign the plan taken.
AskWallet(a) ==
    /\ Resume(a, "call")
    /\ IF Connected /\ task[task[a].takes].link = wallet.revision
       THEN task' = [task EXCEPT ![a].at = "signing"] /\ UNCHANGED <<wallet, desk>>
       ELSE Throw(a)
    /\ UNCHANGED <<chain, pool, fate>>

\* The person signs in the wallet.  The page is still waiting.
Sign(a) ==
    /\ task[a].at = "signing"
    /\ pool' = pool \cup {task[a].takes}
    /\ fate' = [fate EXCEPT ![task[a].takes] = "signed"]
    /\ task' = [task EXCEPT ![a].at = "sent"]
    /\ UNCHANGED <<chain, wallet, desk>>

Reject(a) ==
    /\ task[a].at = "signing"
    /\ Throw(a)
    /\ UNCHANGED <<chain, pool, fate>>

\* The receipt came back, or did not in two minutes; only a success closes the
\* dialog, and only an error cancels.
Receipt(a) ==
    /\ task[a].at = "sent"
    /\ IF fate[task[a].takes] = "applied"
       THEN /\ task' = [task EXCEPT ![a].at = "done"]
            /\ desk' = [desk EXCEPT !.dialog = None]
            /\ UNCHANGED wallet
       ELSE /\ task' = [task EXCEPT ![a].at = "done"]
            /\ wallet' = NoPlan(wallet)
            /\ UNCHANGED desk
    /\ UNCHANGED <<chain, pool, fate>>

-----------------------------------------------------------------------------
(* The wallet's person, and the chain.                                     *)

Select(who) ==
    /\ wallet.account # who
    /\ wallet' = [wallet EXCEPT !.account = who]
    /\ UNCHANGED <<chain, desk, task, pool, fate>>

\* accountsChanged or chainChanged arrives, or the person disconnects.
Unlink ==
    /\ Connected /\ wallet.revision < MaxLinks
    /\ Unlinked(task)
    /\ UNCHANGED <<chain, pool, fate>>

\* wallet.connect by the owner and the first refresh: a new adapter.
Connect ==
    /\ ~Connected /\ wallet.account = chain.owner /\ wallet.revision < MaxLinks
    /\ wallet' = [wallet EXCEPT !.address = chain.owner, !.revision = @ + 1, !.plan = None]
    /\ desk' = [desk EXCEPT !.identity = IdentityOf(chain)]
    /\ UNCHANGED <<chain, task, pool, fate>>

Refresh ==
    /\ Connected /\ wallet.account = wallet.address /\ chain.owner = wallet.address
    /\ desk.identity # IdentityOf(chain)
    /\ desk' = [desk EXCEPT !.identity = IdentityOf(chain)]
    /\ UNCHANGED <<chain, wallet, task, pool, fate>>

\* A transfer, or a call of the account made elsewhere.
Move ==
    /\ Height(chain) < MaxMoves
    /\ \/ \E who \in Accounts : chain' = [chain EXCEPT !.owner = who, !.epoch = @ + 1]
       \/ chain' = [chain EXCEPT !.nonce = @ + 1]
       \/ chain' = [chain EXCEPT !.nonce = @ + 1, !.root = @ + 1]
    /\ UNCHANGED <<wallet, desk, task, pool, fate>>

BadAuthorize(p) == chain.epoch = task[p].intent.epoch
\* TokenModuleRegistry._authorize: the caller's root and epoch are current.
Authorize(p) == chain.root = task[p].intent.root /\ chain.epoch = task[p].intent.epoch

\* IpseityAccount.execute runs only for the owner of the moment.
Mine(p) ==
    /\ p \in pool
    /\ pool' = pool \ {p}
    /\ IF chain.owner = task[p].plan.owner /\ Authorize(p)
       THEN /\ chain' = [chain EXCEPT !.nonce = @ + 1,
                                      !.root = IF task[p].commits THEN @ + 1 ELSE @]
            /\ fate' = [fate EXCEPT ![p] = "applied"]
       ELSE /\ fate' = [fate EXCEPT ![p] = "reverted"]
            /\ UNCHANGED chain
    /\ UNCHANGED <<wallet, desk, task>>

-----------------------------------------------------------------------------
Init ==
    /\ \E who \in Accounts :
          /\ chain = [owner |-> who, epoch |-> 1, root |-> 0, nonce |-> 0]
          /\ wallet = [account |-> who, address |-> who, revision |-> 1, plan |-> None]
          /\ desk = [current |-> None, dialog |-> None, armed |-> FALSE,
                     identity |-> [owner |-> who, epoch |-> 1]]
    /\ task = [a \in Tasks |-> NewTask]
    /\ pool = {}
    /\ fate = [a \in Tasks |-> "none"]

Reviewing(a) ==
    \/ \E commits \in BOOLEAN : Click(a, commits)
    \/ BeginReview(a) \/ Verified(a) \/ CheckRecipe(a)
    \/ Simulate(a) \/ Prepare(a) \/ Show(a) \/ Age(a)

Submitting(a) ==
    \/ CheckPlan(a) \/ Take(a) \/ CheckContext(a) \/ AskWallet(a)
    \/ Sign(a) \/ Reject(a) \/ Receipt(a)

Next ==
    \/ \E a \in Tasks : Reviewing(a) \/ Submitting(a) \/ Answer(a) \/ Mine(a)
    \/ Confirm \/ CancelReview
    \/ \E who \in Accounts : Select(who)
    \/ Unlink \/ Connect \/ Refresh \/ Move

Spec == Init /\ [][Next]_vars

-----------------------------------------------------------------------------
(* Properties.                                                             *)

TypeOK ==
    /\ chain \in Views
    /\ wallet \in [account : Accounts, address : Accounts \cup {Nobody},
                   revision : Nat, plan : Tasks \cup {None}]
    /\ desk \in [current : Tasks \cup {None}, dialog : Tasks \cup {None},
                 armed : BOOLEAN, identity : Identities]
    /\ task \in [Tasks -> [at : Stages, got : Views \cup {NoView}, commits : BOOLEAN,
                           asked : Nat, identity : Identities,
                           intent : Views \cup {NoView}, plan : Views \cup {NoView},
                           link : Nat, begun : Nat, live : BOOLEAN, pending : BOOLEAN,
                           shown : Tasks \cup {None}, aged : BOOLEAN, takes : Tasks \cup {None}, since : Nat]]
    /\ pool \in SUBSET Tasks
    /\ fate \in [Tasks -> {"none", "signed", "applied", "reverted"}]
    /\ \A a \in Tasks : task[a].at \in Sending => task[a].takes # None
    /\ wallet.plan # None => Connected /\ task[wallet.plan].link = wallet.revision

\* What this module implements: a plan is signed at most once, for a
\* confirmation of its own count, while nothing dropped it (OneShot).
Confirmations == Cardinality({a \in Tasks : task[a].at \in Confirming})
Taking(p) == \E a \in Tasks : task[a].at \in Sending /\ task[a].takes = p
Stand(p) ==
    IF fate[p] # "none" THEN "signed"
    ELSE IF wallet.plan = p THEN "held"
    ELSE IF Taking(p) THEN "taken"
    ELSE IF task[p].at \in Early THEN "unmade"
    ELSE "dropped"
Shot == INSTANCE OneShot WITH Plans <- Tasks, stand <- [p \in Tasks |-> Stand(p)],
                              permits <- Confirmations
EachPlanIsOneShot == Shot!Spec

\* Whatever reviews, reconnections and confirmations overlap, what the wallet
\* is asked to sign was prepared, from its first reading on, under the link
\* that is still up: no review outlives a change of account or network.
SignsUnderItsOwnLink ==
    [][\A a \in Tasks : (task[a].at # "signing" /\ task'[a].at = "signing") =>
          task[task[a].takes].begun = wallet.revision]_vars

\* Between the moment a plan is taken out to be signed and its preparation
\* nothing moved on chain: not the owner, the epoch, the root or the nonce.
NothingMovedSinceReview ==
    \A a \in Tasks : task[a].at = "signing" =>
        Height(task[task[a].takes].plan) >= task[a].since

\* The registry never applies two commits built on the same reading, nor one
\* reviewed under an earlier custody, however many are signed and in whatever
\* order they are mined.
CommitsNeverShareARoot ==
    \A p, q \in Tasks :
        (p # q /\ fate[p] = "applied" /\ fate[q] = "applied" /\ task[p].commits /\ task[q].commits)
        => task[p].intent.root # task[q].intent.root

\* "Signing submits only this action; future actions need another review"
\* (app.mjs:74): the plan the wallet is asked to sign is the one that was on
\* display when the button was pressed.
SignsWhatWasShown ==
    \A a \in Tasks : task[a].at = "signing" => task[a].takes = task[a].shown
=============================================================================
