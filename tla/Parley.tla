------------------------------- MODULE Parley --------------------------------
(***************************************************************************)
(* src/src/Parley.sol: the rooms in which tokens talk.  The commons is     *)
(* everybody's, a group is founded by a token and entered by invitation or *)
(* through an open door, a pair belongs to two tokens and is never         *)
(* founded.  What a message leaves behind is Archive's Say.                *)
(*                                                                         *)
(* The hub is external here: it issues a token and moves it to any address *)
(* but its own account whenever it likes (Custody says when it does).      *)
(* Rooms' names and numbers and the text of a message are left out.        *)
(***************************************************************************)
EXTENDS Archive

CONSTANTS
    Wallets,    \* addresses that hold tokens, other than tokens' accounts
    AccountOf,  \* token -> its ERC-6551 account
    None,       \* address(0), and the steward of a room nobody founded
    MaxGroups,  \* bound: groups ever founded
    Announcers  \* bound: tokens that publish a sealing key

IS_COMMONS == 0
IS_GROUP == 1
IS_PAIR == 2

\* Room keys are hashes of a kind and the numbers that name the room.
COMMONS == <<IS_COMMONS, 0, {}>>
GroupKey(index) == <<IS_GROUP, index, {}>>
PairKey(a, b) == <<IS_PAIR, 0, {a, b}>>

PairKeys == {PairKey(p[1], p[2]) : p \in {q \in Tokens \X Tokens : q[1] # q[2]}}
GroupKeys == {GroupKey(index) : index \in 1..MaxGroups}

Holders == Wallets \cup {AccountOf[id] : id \in Tokens}

ASSUME ParleyAssumption ==
    /\ IsFiniteSet(Tokens)
    /\ DOMAIN AccountOf = Tokens
    /\ None \notin Holders \cup Tokens
    /\ MaxGroups \in Nat
    /\ Announcers \subseteq Tokens
    /\ Rooms = {COMMONS} \cup GroupKeys \cup PairKeys

VARIABLES
    ownerOf,    \* the hub's; None until issued
    kind,       \* Room.kind: IS_COMMONS too where there is no room yet
    steward,    \* Room.steward
    openDoor,   \* Room.open
    members,    \* Room.members
    groups,
    inRoom,     \* the <<room, token>> set to true
    invited,    \* likewise
    visited,    \* _seen
    sealOwner,  \* _sealOwner: whose key _sealX and _sealY are
    shownOut,   \* history: <<room, token>> evicted and not invited since
    published   \* history: <<token, owner>> that published a key

doorVars == <<kind, steward, openDoor, members, groups, inRoom, invited, visited, shownOut>>
keyVars == <<sealOwner, published>>
parleyVars == <<archiveVars, ownerOf, doorVars, keyVars>>

Issued(id) == ownerOf[id] # None

\* mayActAs: never the renter.
MayActAs(id, who) == Issued(id) /\ who \in {ownerOf[id], AccountOf[id]}

RoomsOf(id) == {visited[id][i] : i \in 1..Len(visited[id])}

-----------------------------------------------------------------------------
(* Saying something.                                                       *)

BadMaySpeak(room, from) == room = COMMONS \/ kind[room] = IS_GROUP
MaySpeak(room, from) ==
    room = COMMONS \/ (kind[room] = IS_GROUP /\ <<room, from>> \in inRoom)

Speak(c, room, from) ==
    /\ MayActAs(from, c)
    /\ MaySpeak(room, from)
    /\ Say(room, from)
    /\ UNCHANGED <<ownerOf, doorVars, keyVars>>

Whisper(c, from, to) ==
    /\ MayActAs(from, c)
    /\ from # to
    /\ Issued(to)
    /\ kind' = [kind EXCEPT ![PairKey(from, to)] = IS_PAIR]
    /\ Say(PairKey(from, to), from)
    /\ UNCHANGED <<ownerOf, steward, openDoor, members, groups, inRoom, invited,
                   visited, shownOut, keyVars>>

-----------------------------------------------------------------------------
(* Groups.                                                                 *)

Remembered(room, id) ==
    IF room \in RoomsOf(id) THEN visited ELSE [visited EXCEPT ![id] = Append(@, room)]

EnterRoom(room, id) ==
    /\ inRoom' = inRoom \cup {<<room, id>>}
    /\ members' = [members EXCEPT ![room] = @ + 1]
    /\ visited' = Remembered(room, id)

Depart(room, id) ==
    /\ inRoom' = inRoom \ {<<room, id>>}
    /\ members' = [members EXCEPT ![room] = IF @ # 0 THEN @ - 1 ELSE @]

Found(c, by, open) ==
    LET key == GroupKey(groups + 1) IN
    /\ MayActAs(by, c)
    /\ groups < MaxGroups
    /\ groups' = groups + 1
    /\ kind' = [kind EXCEPT ![key] = IS_GROUP]
    /\ steward' = [steward EXCEPT ![key] = by]
    /\ openDoor' = [openDoor EXCEPT ![key] = open]
    /\ EnterRoom(key, by)
    /\ UNCHANGED <<archiveVars, ownerOf, invited, shownOut, keyVars>>

Keeps(room, by) == kind[room] = IS_GROUP /\ steward[room] = by

Invite(c, room, by, id) ==
    /\ MayActAs(by, c)
    /\ Keeps(room, by)
    /\ Issued(id)
    /\ invited' = invited \cup {<<room, id>>}
    /\ shownOut' = shownOut \ {<<room, id>>}
    /\ UNCHANGED <<archiveVars, ownerOf, kind, steward, openDoor, members, groups,
                   inRoom, visited, keyVars>>

MayJoin(room, id) ==
    /\ <<room, id>> \notin inRoom
    /\ openDoor[room] \/ <<room, id>> \in invited

Join(c, room, id) ==
    /\ MayActAs(id, c)
    /\ kind[room] = IS_GROUP
    /\ MayJoin(room, id)
    /\ EnterRoom(room, id)
    /\ UNCHANGED <<archiveVars, ownerOf, kind, steward, openDoor, groups, invited,
                   shownOut, keyVars>>

Leave(c, room, id) ==
    /\ MayActAs(id, c)
    /\ <<room, id>> \in inRoom
    /\ Depart(room, id)
    /\ UNCHANGED <<archiveVars, ownerOf, kind, steward, openDoor, groups, invited,
                   visited, shownOut, keyVars>>

BadStillInvited(room, id) == invited
StillInvited(room, id) == invited \ {<<room, id>>}

Evict(c, room, by, id) ==
    /\ MayActAs(by, c)
    /\ Keeps(room, by)
    /\ <<room, id>> \in inRoom
    /\ invited' = StillInvited(room, id)
    /\ Depart(room, id)
    /\ shownOut' = shownOut \cup {<<room, id>>}
    /\ UNCHANGED <<archiveVars, ownerOf, kind, steward, openDoor, groups, visited, keyVars>>

-----------------------------------------------------------------------------
(* Sealing keys.                                                           *)

BadPublisher(c, id) == c
Publisher(c, id) == ownerOf[id]

Announce(c, id) ==
    /\ MayActAs(id, c)
    /\ sealOwner' = [sealOwner EXCEPT ![id] = Publisher(c, id)]
    /\ published' = published \cup {<<id, ownerOf[id]>>}
    /\ UNCHANGED <<archiveVars, ownerOf, doorVars>>

\* keyOf answers with a point rather than with zeros.
KeyReadable(id) == Issued(id) /\ sealOwner[id] = ownerOf[id]

-----------------------------------------------------------------------------
HubMoves(id, to) ==
    /\ to # AccountOf[id]
    /\ ownerOf' = [ownerOf EXCEPT ![id] = to]
    /\ UNCHANGED <<archiveVars, doorVars, keyVars>>

ParleyDeployed ==
    /\ ArchiveDeployed
    /\ ownerOf = [id \in Tokens |-> None]
    /\ kind = [r \in Rooms |-> IS_COMMONS]
    /\ steward = [r \in Rooms |-> None]
    /\ openDoor = [r \in Rooms |-> FALSE]
    /\ members = [r \in Rooms |-> 0]
    /\ groups = 0
    /\ inRoom = {}
    /\ invited = {}
    /\ visited = [id \in Tokens |-> <<>>]
    /\ sealOwner = [id \in Tokens |-> None]
    /\ shownOut = {}
    /\ published = {}

ParleyInit == now = 0 /\ ParleyDeployed

\* A call made in the name of a token, by whoever may act as it.
CallAs(c, id) ==
    \/ \E room \in Rooms :
          \/ Speak(c, room, id) \/ Join(c, room, id) \/ Leave(c, room, id)
          \/ \E other \in Tokens : Invite(c, room, id, other) \/ Evict(c, room, id, other)
    \/ \E to \in Tokens : Whisper(c, id, to)
    \/ \E open \in BOOLEAN : Found(c, id, open)
    \/ id \in Announcers /\ Announce(c, id)

ParleyNext ==
    \/ NextBlock /\ UNCHANGED <<ownerOf, doorVars, keyVars>>
    \/ \E id \in Tokens, to \in Holders : HubMoves(id, to)
    \/ \E c \in Holders, id \in Tokens : CallAs(c, id)

ParleySpec == ParleyInit /\ [][ParleyNext]_parleyVars

-----------------------------------------------------------------------------
(* Properties.                                                             *)

ParleyTypeOK ==
    /\ ArchiveTypeOK
    /\ ownerOf \in [Tokens -> Holders \cup {None}]
    /\ kind \in [Rooms -> 0..2]
    /\ steward \in [Rooms -> Tokens \cup {None}]
    /\ openDoor \in [Rooms -> BOOLEAN]
    /\ members \in [Rooms -> Nat]
    /\ groups \in 0..MaxGroups
    /\ inRoom \subseteq Rooms \X Tokens
    /\ invited \subseteq Rooms \X Tokens
    /\ visited \in [Tokens -> Seq(Rooms)]
    /\ sealOwner \in [Tokens -> Holders \cup {None}]
    /\ shownOut \subseteq Rooms \X Tokens
    /\ published \subseteq Tokens \X Holders

\* The count a page shows for a room is the number of tokens in it, through
\* joining, leaving, eviction and coming back; only groups have members.
MembersCounted ==
    \A r \in Rooms : members[r] = Cardinality({id \in Tokens : <<r, id>> \in inRoom})

\* Whoever was shown the door of a closed room stays outside until invited
\* again: no invitation given before the eviction still works.
ShownOutStaysOut ==
    \A r \in Rooms, id \in Tokens :
        <<r, id>> \in shownOut /\ ~openDoor[r] => <<r, id>> \notin inRoom

\* A token finds every room it is in on its list, each once, however often
\* it left and came back; the list never offers a room it never entered.
RoomsRemembered ==
    /\ \A r \in Rooms, id \in Tokens : <<r, id>> \in inRoom => r \in RoomsOf(id)
    /\ \A id \in Tokens : \A i, j \in 1..Len(visited[id]) :
          visited[id][i] = visited[id][j] => i = j
    /\ \A id \in Tokens : RoomsOf(id) \subseteq GroupKeys

\* A pair's archive is its two tokens' alone, and a message in a group comes
\* after the group was founded, from a token that had walked in.
SaidWhereOneBelongs ==
    \A i \in 1..Len(said) :
        LET room == said[i].room IN
        \/ room = COMMONS
        \/ kind[room] = IS_GROUP /\ room \in RoomsOf(said[i].from)
        \/ kind[room] = IS_PAIR /\ said[i].from \in room[3]

\* A key once readable stays so while the token keeps its holder, whoever of
\* the two that may act for it publishes again; and a change of hands shows
\* nobody a key its new holder never published.
KeyFollowsTheHolder ==
    [][\A id \in Tokens :
          /\ KeyReadable(id) /\ ownerOf'[id] = ownerOf[id] => KeyReadable(id)'
          /\ ownerOf'[id] # ownerOf[id] /\ <<id, ownerOf'[id]>> \notin published
                => ~KeyReadable(id)']_parleyVars

\* Whatever the rooms decide, what they leave on the chain is the archive.
KeepsAnArchive == ArchiveSpec
=============================================================================
