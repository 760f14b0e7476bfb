-------------------------------- MODULE Talk ---------------------------------
(***************************************************************************)
(* The messaging client of src/src/DeskTalk.sol (TALK_JS), reading one     *)
(* room of the archive while the chain goes on.  back walks the pointers a *)
(* block at a time; paint walks and puts what it found on the screen, one  *)
(* paint at a time; watch compares the room's count with the newest        *)
(* message on the screen and paints when it moved; become changes the      *)
(* token the page speaks as, and with it the room of a /dm page.           *)
(*                                                                         *)
(* Every await is a call in flight here, so the chain, the clock of        *)
(* setInterval and the person's choices come between a question and its    *)
(* answer.  A call reads the chain as of its newest mined block.  How a    *)
(* message is drawn, sent or unsealed is left out.                         *)
(***************************************************************************)
EXTENDS Archive

CONSTANTS
    Mine,      \* tokens the wallet holds
    PairWith,  \* token -> the room it shares with T.other, on a /dm page
    TRoom,     \* T.room, or NoRoom on a /dm page
    NoRoom,
    Want,      \* messages back is asked for: 40
    MaxSteps,  \* blocks back is ready to ask for: 64
    MaxFails   \* bound: calls the node fails to answer

ASSUME TalkAssumption ==
    /\ PairWith \in [Mine -> Rooms]
    /\ NoRoom \notin Rooms
    /\ TRoom \in Rooms \cup {NoRoom}
    /\ Want \in Nat \ {0}
    /\ MaxSteps \in Nat \ {0}
    /\ MaxFails \in Nat

VARIABLES
    ROOM,     \* the room the page is about, NoRoom (null) until it knows
    SEEN,     \* seq of the newest message on the screen
    BUSY,     \* a paint is under way
    walk,     \* the paint under way: back's room and local variables
    shown,    \* what the last finished walk put on the screen
    asked,    \* tokens whose pairKey call is in flight
    polled,   \* rooms whose heads call is in flight
    failures  \* bound: how many calls failed

pageVars == <<ROOM, SEEN, BUSY, walk, shown, asked, polled, failures>>
talkVars == <<archiveVars, pageVars>>

IsDm == TRoom = NoRoom

NoWalk == [stage |-> "none", room |-> NoRoom, head |-> 0, at |-> 0, out |-> {}, steps |-> 0]

\* The chain a call reads ends with a mined block: nothing of the block
\* being built is in it.
Mined == \A i \in 1..Len(said) : said[i].block < Block

-----------------------------------------------------------------------------
(* The walk.                                                               *)

\* The logs of one block for one room, as indices into the archive.
LogsIn(room, block) ==
    {i \in 1..Len(said) : said[i].room = room /\ said[i].block = block}

\* The block to ask for next, 0 when the walk should stop: the oldest log's
\* pointer, if it goes back.
Oldest(S) == CHOOSE i \in S : \A k \in S : i <= k
Newest(S) == CHOOSE i \in S : \A k \in S : k <= i

BadNextAt(logs, at) ==
    IF said[Newest(logs)].prev < at THEN said[Newest(logs)].prev ELSE 0
NextAt(logs, at) ==
    IF said[Oldest(logs)].prev < at THEN said[Oldest(logs)].prev ELSE 0

GoesOn(w) == w.at > 0 /\ Cardinality(w.out) < Want /\ w.steps < MaxSteps

\* The seq of the newest message found.
NewestSeq(w) ==
    IF w.out = {} THEN 0 ELSE said[Newest(w.out)].seq

\* The walk goes on, or it is over and its messages are painted.
Proceed(w) ==
    IF GoesOn(w)
    THEN /\ walk' = w
         /\ UNCHANGED <<SEEN, BUSY, shown>>
    ELSE /\ walk' = NoWalk
         /\ shown' = w
         /\ SEEN' = NewestSeq(w)
         /\ BUSY' = FALSE

HeadArrives ==
    /\ walk.stage = "head"
    /\ Mined
    /\ Proceed([walk EXCEPT !.stage = "logs", !.head = last[walk.room], !.at = last[walk.room]])
    /\ UNCHANGED <<archiveVars, ROOM, asked, polled, failures>>

LogsArrive ==
    LET logs == LogsIn(walk.room, walk.at) IN
    /\ walk.stage = "logs"
    /\ logs # {}
    /\ Proceed([walk EXCEPT !.out = @ \cup logs, !.at = NextAt(logs, walk.at),
                            !.steps = @ + 1])
    /\ UNCHANGED <<archiveVars, ROOM, asked, polled, failures>>

\* The node refuses: what is on the screen stays, and the page may paint
\* again.
BusyAfterFailure == FALSE

WalkFails ==
    /\ walk.stage # "none"
    /\ failures < MaxFails
    /\ failures' = failures + 1
    /\ walk' = NoWalk
    /\ BUSY' = BusyAfterFailure
    /\ UNCHANGED <<archiveVars, ROOM, SEEN, shown, asked, polled>>

\* paint, called for a room: nothing while another paint is under way.
Paint(room) ==
    IF room = NoRoom \/ BUSY
    THEN UNCHANGED <<BUSY, walk>>
    ELSE /\ BUSY' = TRUE
         /\ walk' = [NoWalk EXCEPT !.stage = "head", !.room = room]

\* boot's paint, the one four seconds after a message was sent, and the
\* button's.
PaintCall ==
    /\ Paint(ROOM)
    /\ UNCHANGED <<archiveVars, ROOM, SEEN, shown, asked, polled, failures>>

-----------------------------------------------------------------------------
(* Which token is speaking.                                                *)

\* become: on a /dm page the room is asked for first.
Become(token) ==
    /\ IF IsDm
       THEN asked' = asked \cup {token} /\ UNCHANGED <<BUSY, walk>>
       ELSE Paint(ROOM) /\ UNCHANGED asked
    /\ UNCHANGED <<archiveVars, ROOM, SEEN, shown, polled, failures>>

PairArrives(token) ==
    /\ token \in asked
    /\ asked' = asked \ {token}
    /\ ROOM' = PairWith[token]
    /\ Paint(PairWith[token])
    /\ UNCHANGED <<archiveVars, SEEN, shown, polled, failures>>

PairFails(token) ==
    /\ token \in asked
    /\ failures < MaxFails
    /\ failures' = failures + 1
    /\ asked' = asked \ {token}
    /\ UNCHANGED <<archiveVars, ROOM, SEEN, BUSY, walk, shown, polled>>

-----------------------------------------------------------------------------
(* watch, on a page that is not hidden.                                    *)

Poll ==
    /\ ROOM # NoRoom
    /\ ~BUSY
    /\ polled' = polled \cup {ROOM}
    /\ UNCHANGED <<archiveVars, ROOM, SEEN, BUSY, walk, shown, asked, failures>>

BadHasMoved(room) == count[room] > SEEN + 1
HasMoved(room) == count[room] > SEEN

HeadsArrive(room) ==
    /\ room \in polled
    /\ Mined
    /\ polled' = polled \ {room}
    /\ IF HasMoved(room) THEN Paint(ROOM) ELSE UNCHANGED <<BUSY, walk>>
    /\ UNCHANGED <<archiveVars, ROOM, SEEN, shown, asked, failures>>

HeadsFail(room) ==
    /\ room \in polled
    /\ failures < MaxFails
    /\ failures' = failures + 1
    /\ polled' = polled \ {room}
    /\ UNCHANGED <<archiveVars, ROOM, SEEN, BUSY, walk, shown, asked>>

-----------------------------------------------------------------------------
TalkInit ==
    /\ ArchiveInit
    /\ ROOM = TRoom
    /\ SEEN = 0
    /\ BUSY = FALSE
    /\ walk = NoWalk
    /\ shown = NoWalk
    /\ asked = {}
    /\ polled = {}
    /\ failures = 0

PageStep ==
    \/ HeadArrives \/ LogsArrive \/ WalkFails \/ PaintCall \/ Poll
    \/ \E token \in Mine : Become(token) \/ PairArrives(token) \/ PairFails(token)
    \/ \E room \in Rooms : HeadsArrive(room) \/ HeadsFail(room)

TalkNext == PageStep \/ (ArchiveNext /\ UNCHANGED pageVars)

TalkSpec == TalkInit /\ [][TalkNext]_talkVars

\* Blocks keep coming, the node answers, and setInterval keeps polling while
\* the page is visible.  Nothing makes the person choose, send or press.
FairTalkSpec ==
    /\ TalkSpec
    /\ WF_talkVars(NextBlock /\ UNCHANGED pageVars)
    /\ WF_talkVars(HeadArrives) /\ WF_talkVars(LogsArrive) /\ WF_talkVars(Poll)
    /\ \A token \in Mine : WF_talkVars(PairArrives(token))
    /\ \A room \in Rooms : WF_talkVars(HeadsArrive(room))

-----------------------------------------------------------------------------
(* Properties.                                                             *)

Walks == [stage : {"none", "head", "logs"}, room : Rooms \cup {NoRoom}, head : Nat,
          at : Nat, out : SUBSET (1..MaxSaid), steps : 0..MaxSteps]

TalkTypeOK ==
    /\ ArchiveTypeOK
    /\ ROOM \in Rooms \cup {NoRoom}
    /\ SEEN \in Nat
    /\ BUSY \in BOOLEAN
    /\ walk \in Walks
    /\ shown \in Walks
    /\ asked \subseteq Mine
    /\ polled \subseteq Rooms
    /\ failures \in 0..MaxFails

\* A room's messages in the blocks after one and up to another.
Between(log, room, low, high) ==
    {i \in 1..Len(log) : log[i].room = room /\ low < log[i].block /\ log[i].block <= high}

\* What is on the screen is one whole stretch of one room, down from the
\* block its head was in when it was asked for: nothing is missing in the
\* middle, and it reaches the first message ever said there unless the page
\* has the number it wanted or asked for as many blocks as it may.
ScreenIsAStretch ==
    shown.stage = "logs" =>
        /\ shown.out = Between(said, shown.room, shown.at, shown.head)
        /\ shown.at = 0 \/ Cardinality(shown.out) >= Want \/ shown.steps = MaxSteps

\* The number the poll compares with the count is the number of messages
\* the room had when it was read, so a larger count is an unread message of
\* that room, and an equal one is none.
SeenIsTheCount ==
    shown.stage = "logs" =>
        SEEN = Cardinality(Between(said, shown.room, 0, shown.head))

OnScreen(room, n) == shown.stage = "logs" /\ shown.room = room /\ SEEN = n

\* A message is read: once a room the page is about has n messages and stays
\* so, the page comes to show it as of its n-th message.
CatchesUp ==
    \A r \in Rooms, n \in 1..MaxSaid :
        (ROOM = r /\ count[r] = n) ~> (ROOM # r \/ count[r] # n \/ OnScreen(r, n))
=============================================================================
