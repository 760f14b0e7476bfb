------------------------------- MODULE Archive -------------------------------
(***************************************************************************)
(* The archive of src/src/Parley.sol: what _say writes and what a reader   *)
(* of the chain can rely on, whoever may speak and wherever.  A message is *)
(* a log that points at the block of the message before it in its room and *)
(* at the block its token last spoke in; the room keeps the block of its   *)
(* newest message and how many there were.  Nothing else keeps the         *)
(* messages, so the pointers are the only way back.                        *)
(*                                                                         *)
(* Parley says who may speak (and implements this module); Talk reads.     *)
(***************************************************************************)
EXTENDS Clock, Sequences, FiniteSets

CONSTANTS
    Rooms,    \* room keys
    Tokens,   \* token ids
    MaxSaid   \* bound: messages ever said

ASSUME ArchiveAssumption == MaxSaid \in Nat

VARIABLES
    said,      \* the Said events, as the chain keeps them
    last,      \* Room.last: 0 while the room is silent
    count,     \* Room.count
    lastSpoke

saidVars == <<said, last, count, lastSpoke>>
archiveVars == <<now, saidVars>>

\* block.number.  Block 0 is the genesis block: no message is in it.
Block == now + 1

\* A message as the log keeps it; its body is left out.
Message == [room : Rooms, from : Tokens, prev : Nat, prevFrom : Nat, seq : Nat, block : Nat]

BadTokenLogged(room, from) ==
    [room |-> room, from |-> from, prev |-> last[room], prevFrom |-> last[room],
     seq |-> count[room] + 1, block |-> Block]
Logged(room, from) ==
    [room |-> room, from |-> from, prev |-> last[room], prevFrom |-> lastSpoke[from],
     seq |-> count[room] + 1, block |-> Block]

\* _say, once whoever calls it may and the body is one it takes.  Bound: the
\* last block explored stays empty, so that every message is mined.
Say(room, from) ==
    /\ Len(said) < MaxSaid
    /\ now < MaxTime
    /\ said' = Append(said, Logged(room, from))
    /\ last' = [last EXCEPT ![room] = Block]
    /\ count' = [count EXCEPT ![room] = @ + 1]
    /\ lastSpoke' = [lastSpoke EXCEPT ![from] = Block]
    /\ UNCHANGED now

NextBlock == Passes /\ UNCHANGED saidVars

ArchiveDeployed ==
    /\ said = <<>>
    /\ last = [r \in Rooms |-> 0]
    /\ count = [r \in Rooms |-> 0]
    /\ lastSpoke = [id \in Tokens |-> 0]

ArchiveInit == now = 0 /\ ArchiveDeployed

ArchiveNext ==
    \/ NextBlock
    \/ \E room \in Rooms, from \in Tokens : Say(room, from)

ArchiveSpec == ArchiveInit /\ [][ArchiveNext]_archiveVars

-----------------------------------------------------------------------------
(* Properties.                                                             *)

ArchiveTypeOK ==
    /\ now \in 0..MaxTime
    /\ said \in Seq(Message)
    /\ Len(said) <= MaxSaid
    /\ last \in [Rooms -> Nat]
    /\ count \in [Rooms -> Nat]
    /\ lastSpoke \in [Tokens -> Nat]

\* A room's messages among the first n of a log, and a token's.
OfRoom(log, r, n) == {i \in 1..n : log[i].room = r}
OfToken(log, id, n) == {i \in 1..n : log[i].from = id}

\* The block of the newest message of S, 0 when there is none.
PointsTo(log, block, S) ==
    \/ S = {} /\ block = 0
    \/ \E i \in S : (\A j \in S : j <= i) /\ block = log[i].block

\* A room's messages are one unbroken chain: each points at the block of
\* the one before it in that room, the room points at the newest, and
\* they are numbered from 1 to its count, however rooms and speakers
\* interleave in a block (INVARIANTS 81: no range scan is ever needed).
RoomChain ==
    /\ \A i \in 1..Len(said) :
          LET before == OfRoom(said, said[i].room, i - 1) IN
          /\ PointsTo(said, said[i].prev, before)
          /\ said[i].seq = Cardinality(before) + 1
    /\ \A r \in Rooms :
          /\ PointsTo(said, last[r], OfRoom(said, r, Len(said)))
          /\ count[r] = Cardinality(OfRoom(said, r, Len(said)))

\* So is everything a token ever said, through whatever rooms.
TokenChain ==
    /\ \A i \in 1..Len(said) : PointsTo(said, said[i].prevFrom, OfToken(said, said[i].from, i - 1))
    /\ \A id \in Tokens : PointsTo(said, lastSpoke[id], OfToken(said, id, Len(said)))

\* Nothing said is ever lost to somebody who only follows pointers, whether
\* through a room or after a token.
NothingSaidIsLost == RoomChain /\ TokenChain

\* The oldest message a block holds for a room points strictly back, at a
\* block before it, so a walk that follows it stops (INVARIANTS 80).
OldestPointsBack ==
    \A i \in 1..Len(said) :
        (\A j \in OfRoom(said, said[i].room, i - 1) : said[j].block # said[i].block)
            => said[i].prev < said[i].block

\* What the chain gives: blocks follow one another, and the one being built
\* comes last.
InBlockOrder ==
    \A i \in 1..Len(said) :
        /\ 0 < said[i].block /\ said[i].block <= Block
        /\ \A j \in 1..i : said[j].block <= said[i].block
=============================================================================
