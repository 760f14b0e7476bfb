------------------------------ MODULE Workbench -----------------------------
(***************************************************************************)
(* The module workbench around its reviews: which release is selected,     *)
(* which one runs in the isolated frame, and what that frame may still do. *)
(* app.mjs owns the page, host.mjs ModuleHostSession answers the frame,    *)
(* runtime.mjs mounts it, watches it and ends it.                          *)
(*                                                                         *)
(* Every await is two steps: a node answers, and the code goes on later.   *)
(* A click is a task of its own and nothing serialises tasks; the page     *)
(* tells a late one by the generation it started in.  A session is named   *)
(* by the click that opened it.                                            *)
(***************************************************************************)
EXTENDS Naturals, FiniteSets

CONSTANTS
    MaxClicks,   \* bound: what the person clicks
    Releases,    \* recoverable releases, each of a module of its own
    Enabled,     \* the ones the registry has enabled at first
    Html,        \* those whose source is reviewed before they run
    NoRelease,   \* no release: an empty variable of the page
    Concurrent,  \* HOST_LIMITS.concurrent
    Requests,    \* HOST_LIMITS.requests
    MaxChanges   \* bound: transfers and registry changes seen on chain

Clicks == 1..MaxClicks

ASSUME WorkbenchAssumption ==
    /\ MaxClicks \in Nat
    /\ Enabled \subseteq Releases /\ Html \subseteq Releases /\ NoRelease \notin Releases
    /\ Concurrent \in Nat \ {0} /\ Requests \in Nat \ {0} /\ MaxChanges \in Nat

VARIABLES
    world,    \* what a node answers: custody epoch and the enabled releases
    changes,  \* how often that changed
    page,     \* generation, adapter, identity, selected, state, the approval
    click,     \* each click under way
    session,  \* each session
    drafts    \* browser storage: the session that last wrote a module's draft

workbenchVars == <<world, changes, page, click, session, drafts>>

Worlds == [epoch : Nat, on : SUBSET Releases]
NoWorld == [epoch |-> 0, on |-> {}]
NoApproval == [release |-> NoRelease, gen |-> 0]

NewClick == [at |-> "idle", gen |-> 0, release |-> NoRelease, context |-> 0, got |-> NoWorld]
NewSession ==
    [open |-> FALSE,
     release |-> NoRelease, \* what it runs, reads and writes
     verified |-> NoRelease,  \* what its verifyContext asks the registry about
     identity |-> 0,     \* the epoch it belongs to
     queue |-> 0,        \* messages received and not answered
     used |-> 0,         \* requests handled
     serving |-> FALSE, got |-> NoWorld,
     beating |-> FALSE, pulse |-> NoWorld]

AtNode == {"recover", "install", "check", "link", "read"}

-----------------------------------------------------------------------------
(* Pieces of the handlers.                                                 *)

BadCurrent(a) == TRUE
\* revision === generation: nothing was chosen or disconnected meanwhile.
Current(a) == click[a].gen = page.gen

\* A session is forgotten once it is closed and nothing waits for it.
Kept(s) == IF s.open \/ s.serving \/ s.beating THEN s ELSE NewSession
Close(s) == Kept([s EXCEPT !.open = FALSE])

\* closeRuntime: the frame goes and its session closes.
AllClosed == [s \in Clicks |-> Close(session[s])]
CloseRuntime == session' = AllClosed

\* invalidate: a new generation with nothing connected and nothing selected.
Blank(gen) == [gen |-> gen, linked |-> FALSE, identity |-> 0, selected |-> NoRelease,
               state |-> NoRelease, approval |-> NoApproval, asked |-> 0]

MovedOn(a, stage) == [click EXCEPT ![a] = [@ EXCEPT !.at = stage, !.got = NoWorld]]
Ended == [NewClick EXCEPT !.at = "done"]
Done(a) == click' = [click EXCEPT ![a] = Ended]
Resumed(a, stage) == click[a].at = stage /\ click[a].got # NoWorld

\* adapter.fresh for an enabled release.
Authorised(got, epoch, release) == got.epoch = epoch /\ release \in got.on

-----------------------------------------------------------------------------
(* Clicks, one after another.  A dialog is modal: nothing else is clicked   *)
(* while it is open.                                                       *)

Turn(a) == click[a].at = "idle" /\ \A b \in 1..(a - 1) : click[b].at # "idle"
Free(a) == Turn(a) /\ page.approval = NoApproval

ConnectWallet(a) ==
    /\ Free(a)
    /\ page' = Blank(page.gen + 1)
    /\ CloseRuntime
    /\ click' = [click EXCEPT ![a] = [@ EXCEPT !.at = "link", !.gen = page.gen + 1]]
    /\ UNCHANGED <<world, changes, drafts>>

RefreshPage(a) ==
    /\ Free(a) /\ page.linked
    /\ click' = [click EXCEPT ![a] = [@ EXCEPT !.at = "read", !.gen = page.gen]]
    /\ UNCHANGED <<world, changes, page, session, drafts>>

\* choose: whatever runs is closed at once; the rest waits for the registry.
Choose(a, r) ==
    /\ Free(a)
    /\ page' = [page EXCEPT !.gen = @ + 1, !.asked = a]
    /\ CloseRuntime
    /\ click' = IF page.linked
               THEN [click EXCEPT ![a] = [@ EXCEPT !.at = "recover", !.gen = page.gen + 1, !.release = r]]
               ELSE [click EXCEPT ![a] = Ended]
    /\ UNCHANGED <<world, changes, drafts>>

\* launchApproved, up to its first await.
BeginLaunch(a, approval) ==
    /\ page' = [page EXCEPT !.approval = approval]
    /\ click' = IF page.linked /\ page.identity # 0
               THEN [click EXCEPT ![a] = [@ EXCEPT !.at = "check", !.gen = page.gen,
                        !.release = page.selected, !.context = page.identity]]
               ELSE [click EXCEPT ![a] = Ended]
    /\ UNCHANGED session

Launch(a) ==
    /\ Free(a) /\ page.selected # NoRelease /\ page.state # NoRelease
    /\ IF page.selected \in Html
       THEN /\ page' = [page EXCEPT !.approval = [release |-> page.selected, gen |-> page.gen]]
            /\ Done(a)
            /\ UNCHANGED session
       ELSE BeginLaunch(a, NoApproval)
    /\ UNCHANGED <<world, changes, drafts>>

\* The source was read and approved.
ConfirmLaunch(a) ==
    /\ Turn(a) /\ page.approval # NoApproval
    /\ IF page.approval = [release |-> page.selected, gen |-> page.gen]
       THEN BeginLaunch(a, NoApproval)
       ELSE Done(a) /\ UNCHANGED <<page, session>>
    /\ UNCHANGED <<world, changes, drafts>>

CancelLaunch ==
    /\ page.approval # NoApproval
    /\ page' = [page EXCEPT !.approval = NoApproval]
    /\ UNCHANGED <<world, changes, click, session, drafts>>

CloseModule ==
    /\ \E s \in Clicks : session[s].open
    /\ CloseRuntime
    /\ UNCHANGED <<world, changes, page, click, drafts>>

\* accountsChanged, chainChanged or disconnect.
Invalidate ==
    /\ page.linked
    /\ page' = Blank(page.gen + 1)
    /\ CloseRuntime
    /\ UNCHANGED <<world, changes, click, drafts>>

-----------------------------------------------------------------------------
(* What the awaits return to.                                              *)

AnswerClick(a) ==
    /\ click[a].at \in AtNode /\ click[a].got = NoWorld
    /\ click' = [click EXCEPT ![a].got = world]
    /\ UNCHANGED <<world, changes, page, session, drafts>>

Fail(a) ==
    /\ click[a].at \in AtNode /\ click[a].got = NoWorld
    /\ Done(a)
    /\ UNCHANGED <<world, changes, page, session, drafts>>

Linked(a) ==
    /\ Resumed(a, "link")
    /\ IF Current(a)
       THEN page' = [page EXCEPT !.linked = TRUE] /\ click' = MovedOn(a, "read")
       ELSE Done(a) /\ UNCHANGED page
    /\ UNCHANGED <<world, changes, session, drafts>>

Refreshed(a) ==
    /\ Resumed(a, "read")
    /\ page' = IF Current(a) THEN [page EXCEPT !.identity = click[a].got.epoch] ELSE page
    /\ Done(a)
    /\ UNCHANGED <<world, changes, session, drafts>>

\* The release was recovered: it is the selection before its installation and
\* its draft have been read.
Recovered(a) ==
    /\ Resumed(a, "recover")
    /\ IF Current(a)
       THEN page' = [page EXCEPT !.selected = click[a].release] /\ click' = MovedOn(a, "install")
       ELSE Done(a) /\ UNCHANGED page
    /\ UNCHANGED <<world, changes, session, drafts>>

Installed(a) ==
    /\ Resumed(a, "install")
    /\ page' = IF Current(a) THEN [page EXCEPT !.state = click[a].release] ELSE page
    /\ Done(a)
    /\ UNCHANGED <<world, changes, session, drafts>>

BadOthersClosed == session
\* A frame takes the place of the one before it.
OthersClosed == AllClosed

\* launchApproved goes on: the frame is made of whatever is selected by now.
\* A release of the other kind is not mounted, but by then the frame before it
\* has been closed.
Launched(a) ==
    /\ Resumed(a, "check")
    /\ IF Current(a) /\ Authorised(click[a].got, click[a].context, click[a].release)
       THEN session' =
                IF (page.selected \in Html) = (click[a].release \in Html)
                THEN [OthersClosed EXCEPT ![a] =
                        [NewSession EXCEPT !.open = TRUE, !.release = page.selected,
                             !.verified = click[a].release, !.identity = click[a].context]]
                ELSE OthersClosed
       ELSE UNCHANGED session
    /\ Done(a)
    /\ UNCHANGED <<world, changes, page, drafts>>

-----------------------------------------------------------------------------
(* The session.                                                            *)

CloseSession(s) == session' = [session EXCEPT ![s] = Close(@)]
\* The request is over, answered or refused.
Served(s) == Kept([session[s] EXCEPT !.serving = FALSE, !.got = NoWorld,
                                     !.queue = session[s].queue - 1])

\* attachPort: one message too many in the queue closes the session.
Post(s) ==
    /\ session[s].open
    /\ IF session[s].queue >= Concurrent THEN CloseSession(s)
       ELSE session' = [session EXCEPT ![s].queue = @ + 1]
    /\ UNCHANGED <<world, changes, page, click, drafts>>

\* handle, up to its await; so does one request too many.
Handle(s) ==
    /\ session[s].open /\ session[s].queue > 0 /\ ~session[s].serving
    /\ IF session[s].used >= Requests THEN CloseSession(s)
       ELSE session' = [session EXCEPT ![s] = [@ EXCEPT !.serving = TRUE, !.used = session[s].used + 1]]
    /\ UNCHANGED <<world, changes, page, click, drafts>>

AnswerSession(s) ==
    /\ \/ /\ session[s].serving /\ session[s].got = NoWorld
          /\ session' = [session EXCEPT ![s].got = world]
       \/ /\ session[s].beating /\ session[s].pulse = NoWorld
          /\ session' = [session EXCEPT ![s].pulse = world]
    /\ UNCHANGED <<world, changes, page, click, drafts>>

BadStillOpen(s) == TRUE
\* fresh looks again after its await, whether it was closed meanwhile.
StillOpen(s) == session[s].open

Allowed(s) == Authorised(session[s].got, session[s].identity, session[s].verified)

\* A request that is refused, or whose call fails, only ends itself.
Refuse(s) ==
    /\ session[s].serving
    /\ session[s].got # NoWorld => ~StillOpen(s) \/ ~Allowed(s)
    /\ session' = [session EXCEPT ![s] = Served(s)]
    /\ UNCHANGED <<world, changes, page, click, drafts>>

\* identity.read, module.read, package.read, state.get and journal.propose
\* leave everything as it was.
Read(s) ==
    /\ session[s].serving /\ session[s].got # NoWorld
    /\ StillOpen(s) /\ Allowed(s)
    /\ session' = [session EXCEPT ![s] = Served(s)]
    /\ UNCHANGED <<world, changes, page, click, drafts>>

\* state.set
Write(s) ==
    /\ session[s].serving /\ session[s].got # NoWorld
    /\ StillOpen(s) /\ Allowed(s)
    /\ drafts' = [drafts EXCEPT ![session[s].release] = s]
    /\ session' = [session EXCEPT ![s] = Served(s)]
    /\ UNCHANGED <<world, changes, page, click>>

\* transaction.propose: beginReview closes the frame that asked (Review takes
\* it from there), if anything is still connected.
Propose(s) ==
    /\ session[s].serving /\ session[s].got # NoWorld
    /\ StillOpen(s) /\ Allowed(s)
    /\ IF page.linked /\ page.identity # 0
       THEN /\ session' = [AllClosed EXCEPT ![s] = Close(Served(s))]
            /\ page' = [page EXCEPT !.approval = NoApproval]
       ELSE session' = [session EXCEPT ![s] = Served(s)] /\ UNCHANGED page
    /\ UNCHANGED <<world, changes, click, drafts>>

\* The heartbeat asks every five seconds, and a refusal ends the frame.
Beat(s) ==
    /\ session[s].open /\ ~session[s].beating
    /\ session' = [session EXCEPT ![s].beating = TRUE]
    /\ UNCHANGED <<world, changes, page, click, drafts>>

Pulse(s) ==
    /\ session[s].beating
    /\ LET alive == session[s].open
                    /\ Authorised(session[s].pulse, session[s].identity, session[s].verified) IN
       session' = [session EXCEPT ![s] =
                      Kept([session[s] EXCEPT !.beating = FALSE, !.pulse = NoWorld, !.open = alive])]
    /\ UNCHANGED <<world, changes, page, click, drafts>>

BadExpire(s) == /\ session[s].open /\ session[s].used > Requests
                /\ CloseSession(s)
                /\ UNCHANGED <<world, changes, page, click, drafts>>
\* maxRuntimeMs is over (at most five minutes), or the frame said it closed.
Expire(s) ==
    /\ session[s].open
    /\ CloseSession(s)
    /\ UNCHANGED <<world, changes, page, click, drafts>>

-----------------------------------------------------------------------------
(* The chain.                                                              *)

\* Sold and bought back, or a release enabled or disabled.
Change ==
    /\ changes < MaxChanges /\ changes' = changes + 1
    /\ \/ world' = [world EXCEPT !.epoch = @ + 1]
       \/ \E r \in Releases :
             world' = [world EXCEPT !.on = IF r \in @ THEN @ \ {r} ELSE @ \cup {r}]
    /\ UNCHANGED <<page, click, session, drafts>>

-----------------------------------------------------------------------------
WorkbenchInit ==
    /\ world = [epoch |-> 1, on |-> Enabled]
    /\ changes = 0
    /\ page = Blank(0)
    /\ click = [a \in Clicks |-> NewClick]
    /\ session = [s \in Clicks |-> NewSession]
    /\ drafts = [r \in Releases |-> 0]

Press(a) ==
    \/ ConnectWallet(a) \/ RefreshPage(a) \/ Launch(a) \/ ConfirmLaunch(a)
    \/ \E r \in Releases : Choose(a, r)

Settle(a) ==
    \/ Linked(a) \/ Refreshed(a) \/ Recovered(a) \/ Installed(a) \/ Launched(a)

Serve(s) ==
    \/ Post(s) \/ Handle(s) \/ AnswerSession(s) \/ Refuse(s) \/ Read(s) \/ Write(s)
    \/ Propose(s) \/ Beat(s) \/ Pulse(s)

WorkbenchNext ==
    \/ \E a \in Clicks : Press(a) \/ AnswerClick(a) \/ Fail(a) \/ Settle(a) \/ Serve(a) \/ Expire(a)
    \/ CancelLaunch \/ CloseModule \/ Invalidate \/ Change

\* The browser's timer fires.
WorkbenchSpec ==
    /\ WorkbenchInit
    /\ [][WorkbenchNext]_workbenchVars
    /\ WF_workbenchVars(\E s \in Clicks : Expire(s))

-----------------------------------------------------------------------------
(* Properties.                                                             *)

Open == {s \in Clicks : session[s].open}

WorkbenchTypeOK ==
    /\ world \in Worlds /\ changes \in 0..MaxChanges
    /\ page \in [gen : Nat, linked : BOOLEAN, identity : Nat,
                 selected : Releases \cup {NoRelease}, state : Releases \cup {NoRelease},
                 approval : [release : Releases \cup {NoRelease}, gen : Nat],
                 asked : Clicks \cup {0}]
    /\ click \in [Clicks -> [at : AtNode \cup {"idle", "done"}, gen : Nat,
                            release : Releases \cup {NoRelease}, context : Nat,
                            got : Worlds \cup {NoWorld}]]
    /\ session \in [Clicks -> [open : BOOLEAN,
                        release : Releases \cup {NoRelease}, verified : Releases \cup {NoRelease},
                        identity : Nat, queue : 0..Concurrent, used : 0..Requests,
                        serving : BOOLEAN, got : Worlds \cup {NoWorld},
                        beating : BOOLEAN, pulse : Worlds \cup {NoWorld}]]
    /\ drafts \in [Releases -> Clicks \cup {0}]

\* Two launches may wait for the registry together, and a launch may outlast
\* the click that replaced it: never are two frames open.
OneFrame == Cardinality(Open) <= 1

\* However late the registry answers and in whatever order, the release on
\* display is the one the person asked for last, and nothing is displayed
\* that was asked for under a connection that is gone.
ShownIsLastAsked ==
    [][page'.selected \notin {page.selected, NoRelease} =>
          /\ page.asked # 0
          /\ page'.selected = click[page.asked].release
          /\ click[page.asked].at = "recover"]_workbenchVars

\* Once a session is closed, by whatever closes it and in the middle of
\* whatever request, it writes no draft and opens no review.
NothingAfterClose ==
    [][\A s \in Clicks :
          (session[s].serving /\ ~session'[s].serving /\ ~session[s].open)
          => UNCHANGED <<drafts, page>>]_workbenchVars

\* No frame runs forever, whatever it sends and whatever replaces it.
FramesEnd == []<>(Open = {})

\* "Review the exact source and permissions" (app.mjs:90): what runs is what
\* was selected, approved and checked to be enabled when it was launched.
RunsWhatWasReviewed ==
    \A s \in Open : session[s].release = session[s].verified
=============================================================================
