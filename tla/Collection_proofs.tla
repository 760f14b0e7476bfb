-------------------------- MODULE Collection_proofs --------------------------
(***************************************************************************)
(* Proofs about Collection, for any supply, addresses and bounds.  The     *)
(* lists are treated first, by themselves: taking a token out of an exact  *)
(* set of lists, or putting one in, leaves an exact set of lists.          *)
(***************************************************************************)
EXTENDS Collection, Custody_proofs, FiniteSetTheorems

Lists == [list : [Address -> [0..MaxSupply -> 0..MaxSupply]],
          index : [Tokens -> 0..MaxSupply],
          balance : [Address -> 0..MaxSupply]]

Owners == [Tokens -> Address \cup {None}]

\* Every token owned is where its index says in its owner's list.
Placed(o, own) ==
    \A id \in Tokens : own[id] # None =>
        /\ o.index[id] < o.balance[own[id]]
        /\ o.list[own[id]][o.index[id]] = id

\* A list holds tokens of its owner, each at its index, and then zeros.
ListOk(o, own, a) ==
    \A i \in 0..MaxSupply :
        LET id == o.list[a][i] IN
        IF i < o.balance[a]
        THEN id \in Tokens /\ own[id] = a /\ o.index[id] = i
        ELSE id = 0

Exact(o, own) == Placed(o, own) /\ \A a \in Address : ListOk(o, own, a)

-----------------------------------------------------------------------------
(* The lists.                                                              *)

\* The provers take two writes of one EXCEPT for simultaneous: where they may
\* be to one place, the proofs name the function between the two.
LEMMA Ids == /\ MaxSupply \in Nat /\ Tokens = 1..MaxSupply /\ Tokens \subseteq 0..MaxSupply
             /\ 0 \notin Tokens
             /\ None \notin Address
  BY CollectionAssumption, CustodyAssumption

\* There is always room in a list for a token that is nobody's.
LEMMA RoomForOneMore ==
  ASSUME NEW o \in Lists, NEW own \in Owners, Exact(o, own), NEW a \in Address,
         NEW id \in Tokens, own[id] = None
  PROVE  o.balance[a] < MaxSupply
<1> DEFINE n == o.balance[a]
           S == 0..(n - 1)
           T == Tokens \ {id}
           f == [i \in S |-> o.list[a][i]]
<1>1. n \in 0..MaxSupply /\ n \in Nat /\ MaxSupply \in Nat
  BY Ids DEF Lists
<1>2. SUFFICES ASSUME n = MaxSupply PROVE FALSE
  BY <1>1
<1>3. IsFiniteSet(Tokens) /\ Cardinality(Tokens) = MaxSupply
  BY FS_Interval, Ids
<1>4. IsFiniteSet(T) /\ Cardinality(T) = MaxSupply - 1
  BY <1>3, FS_RemoveElement
<1>5. IsFiniteSet(S) /\ Cardinality(S) = MaxSupply
  BY <1>1, <1>2, FS_Interval, Ids
<1>6. \A i \in S : f[i] \in T /\ o.index[f[i]] = i
  BY <1>1, <1>2, Ids DEF Exact, ListOk
<1>7. f \in [S -> T]
  BY <1>6
<1>8. \E i, j \in S : i # j /\ f[i] = f[j]
  <2> HIDE DEF S, T, f
  <2>1. Cardinality(T) < Cardinality(S)
    BY <1>1, <1>4, <1>5
  <2>2. QED
    BY <1>4, <1>5, <1>7, <2>1, FS_PigeonHole
<1>9. QED
  BY <1>6, <1>8

LEMMA AddedExact ==
  ASSUME NEW o \in Lists, NEW own \in Owners, Exact(o, own), NEW to \in Address,
         NEW id \in Tokens, own[id] = None
  PROVE  /\ Added(o, to, id) \in Lists
         /\ Exact(Added(o, to, id), [own EXCEPT ![id] = to])
<1> DEFINE n == o.balance[to]
           p == Added(o, to, id)
           now_own == [own EXCEPT ![id] = to]
<1>1. n \in 0..MaxSupply /\ n < MaxSupply
  BY RoomForOneMore DEF Lists
<1>2. /\ p.list = [o.list EXCEPT ![to][n] = id]
      /\ p.index = [o.index EXCEPT ![id] = n]
      /\ p.balance = [o.balance EXCEPT ![to] = n + 1]
  BY DEF Added
<1>3. p \in Lists
  <2>1. [o.list[to] EXCEPT ![n] = id] \in [0..MaxSupply -> 0..MaxSupply]
    BY Ids DEF Lists
  <2>2. p.list \in [Address -> [0..MaxSupply -> 0..MaxSupply]]
    BY <1>2, <2>1 DEF Lists
  <2>3. n + 1 \in 0..MaxSupply
    BY <1>1, Ids
  <2>4. p.balance \in [Address -> 0..MaxSupply]
    BY <1>2, <2>3 DEF Lists
  <2>5. p.index \in [Tokens -> 0..MaxSupply]
    BY <1>1, <1>2 DEF Lists
  <2>6. QED
    BY <2>2, <2>4, <2>5 DEF Lists, Added
<1>3a. /\ p.list[to][n] = id /\ p.index[id] = n /\ p.balance[to] = n + 1
      /\ now_own[id] = to
  <2>1. /\ o.list \in [Address -> [0..MaxSupply -> 0..MaxSupply]]
        /\ o.index \in [Tokens -> 0..MaxSupply]
        /\ o.balance \in [Address -> 0..MaxSupply]
    BY DEF Lists
  <2>2. p.list[to] = [o.list[to] EXCEPT ![n] = id]
    BY <1>2, <2>1
  <2>3. p.list[to][n] = id
    BY <1>1, <2>1, <2>2
  <2>4. p.index[id] = n /\ p.balance[to] = n + 1
    BY <1>2, <2>1
  <2>5. QED
    BY <2>3, <2>4 DEF Owners
<1>4. Placed(p, now_own)
  <2> SUFFICES ASSUME NEW x \in Tokens, now_own[x] # None
               PROVE  /\ p.index[x] < p.balance[now_own[x]]
                      /\ p.list[now_own[x]][p.index[x]] = x
    BY DEF Placed
  <2>1. CASE x = id
    BY <1>3a, <1>1, <2>1
  <2>2. CASE x # id
    <3>1. /\ now_own[x] = own[x] /\ own[x] \in Address
          /\ o.index[x] < o.balance[own[x]]
          /\ o.list[own[x]][o.index[x]] = x
          /\ p.index[x] = o.index[x]
          /\ o.index[x] \in 0..MaxSupply
      BY <1>2, <2>2 DEF Exact, Placed, Lists, Owners
    <3>2. CASE own[x] = to
      BY <1>1, <1>2, <3>1, <3>2 DEF Lists
    <3>3. CASE own[x] # to
      BY <1>1, <1>2, <3>1, <3>3 DEF Lists
    <3>4. QED
      BY <3>2, <3>3
  <2>3. QED
    BY <2>1, <2>2
<1>5. ASSUME NEW a \in Address
      PROVE  ListOk(p, now_own, a)
  <2> SUFFICES ASSUME NEW i \in 0..MaxSupply
               PROVE  IF i < p.balance[a]
                      THEN /\ p.list[a][i] \in Tokens
                           /\ now_own[p.list[a][i]] = a
                           /\ p.index[p.list[a][i]] = i
                      ELSE p.list[a][i] = 0
    BY DEF ListOk
  <2>1. IF i < o.balance[a]
        THEN /\ o.list[a][i] \in Tokens
             /\ own[o.list[a][i]] = a
             /\ o.index[o.list[a][i]] = i
        ELSE o.list[a][i] = 0
    BY DEF Exact, ListOk
  <2>2. o.balance[a] \in 0..MaxSupply /\ i \in Nat
    BY DEF Lists
  <2>3. CASE a # to
    <3>1. p.balance[a] = o.balance[a] /\ p.list[a][i] = o.list[a][i]
      BY <1>2, <2>3 DEF Lists
    <3>2. i < o.balance[a] => o.list[a][i] # id
      BY <2>1, Ids
    <3>3. QED
      BY <1>2, <2>1, <3>1, <3>2 DEF Lists, Owners
  <2>4. CASE a = to /\ i = n
    BY <1>3a, <1>1, <2>4
  <2>5. CASE a = to /\ i # n
    <3>1. p.balance[a] = n + 1 /\ p.list[a][i] = o.list[a][i]
      BY <1>1, <1>2, <2>5 DEF Lists
    <3>2. i < p.balance[a] <=> i < o.balance[a]
      BY <1>1, <2>2, <2>5, <3>1
    <3>3. i < o.balance[a] => o.list[a][i] # id
      BY <2>1, Ids
    <3>4. QED
      BY <1>2, <2>1, <3>1, <3>2, <3>3 DEF Lists, Owners
  <2>6. QED
    BY <2>3, <2>4, <2>5
<1>6. QED
  BY <1>3, <1>4, <1>5 DEF Exact

LEMMA RemovedExact ==
  ASSUME NEW o \in Lists, NEW own \in Owners, Exact(o, own), NEW from \in Address,
         NEW id \in Tokens, own[id] = from
  PROVE  /\ Removed(o, from, id) \in Lists
         /\ Exact(Removed(o, from, id), [own EXCEPT ![id] = None])
<1> DEFINE n == o.balance[from] - 1
           i == o.index[id]
           moved == o.list[from][n]
           p == Removed(o, from, id)
           left == [own EXCEPT ![id] = None]
<1>1. /\ o.list \in [Address -> [0..MaxSupply -> 0..MaxSupply]]
      /\ o.index \in [Tokens -> 0..MaxSupply]
      /\ o.balance \in [Address -> 0..MaxSupply]
  BY DEF Lists
<1>2. i \in 0..MaxSupply /\ i < o.balance[from] /\ o.list[from][i] = id
  BY <1>1, Ids DEF Exact, Placed
<1>3. n \in 0..MaxSupply /\ i <= n /\ o.balance[from] = n + 1
  <2>1. o.balance[from] \in 0..MaxSupply /\ i \in 0..MaxSupply
    BY <1>1
  <2>2. QED
    BY <1>2, <2>1, Ids
<1>4. moved \in Tokens /\ own[moved] = from /\ o.index[moved] = n
  <2>1. n < o.balance[from]
    BY <1>1, <1>3
  <2>2. QED
    BY <1>3, <2>1 DEF Exact, ListOk
<1>5. p.list = [o.list EXCEPT ![from] = [o.list[from] EXCEPT ![i] = moved, ![n] = 0]]
  BY Zenon DEF Removed
<1>5a. p.index = [o.index EXCEPT ![moved] = i, ![id] = 0]
  BY Zenon DEF Removed
<1>5b. p.balance = [o.balance EXCEPT ![from] = n]
  BY DEF Removed
<1>6. /\ p.list \in [Address -> [0..MaxSupply -> 0..MaxSupply]]
      /\ p.balance[from] = n
      /\ \A a \in Address \ {from} :
            p.list[a] = o.list[a] /\ p.balance[a] = o.balance[a]
      /\ p.list[from][n] = 0
      /\ i # n => p.list[from][i] = moved
      /\ \A j \in 0..MaxSupply : j # i /\ j # n => p.list[from][j] = o.list[from][j]
  <2> DEFINE g == [o.list[from] EXCEPT ![i] = moved]
             h == [g EXCEPT ![n] = 0]
  <2> HIDE DEF p, i, n, moved
  <2>1. moved \in 0..MaxSupply /\ 0 \in 0..MaxSupply
    BY <1>4, Ids
  <2>2. /\ g \in [0..MaxSupply -> 0..MaxSupply] /\ g[i] = moved
        /\ \A j \in 0..MaxSupply : j # i => g[j] = o.list[from][j]
    BY <1>1, <1>2, <2>1
  <2>3. p.list = [o.list EXCEPT ![from] = h]
    BY <1>5, Zenon
  <2> HIDE DEF g
  <2>4. /\ h \in [0..MaxSupply -> 0..MaxSupply] /\ h[n] = 0
        /\ \A j \in 0..MaxSupply : j # n => h[j] = g[j]
    BY <1>3, <2>1, <2>2
  <2> HIDE DEF h
  <2>5. p.list[from] = h /\ p.balance[from] = n
    BY <1>1, <1>5b, <2>3
  <2>6. \A a \in Address \ {from} : p.list[a] = o.list[a] /\ p.balance[a] = o.balance[a]
    BY <1>1, <1>5b, <2>3
  <2>7. p.list \in [Address -> [0..MaxSupply -> 0..MaxSupply]]
    BY <1>1, <2>3, <2>4
  <2>8. QED
    BY <1>2, <2>2, <2>4, <2>5, <2>6, <2>7
<1>7. /\ p.index \in [Tokens -> 0..MaxSupply]
      /\ p.index[id] = 0
      /\ moved # id => p.index[moved] = i
      /\ \A x \in Tokens : x # id /\ x # moved => p.index[x] = o.index[x]
  <2> DEFINE g == [o.index EXCEPT ![moved] = i]
             h == [g EXCEPT ![id] = 0]
  <2> HIDE DEF p, i, n, moved
  <2>1. 0 \in 0..MaxSupply
    BY Ids
  <2>2. /\ g \in [Tokens -> 0..MaxSupply] /\ g[moved] = i
        /\ \A x \in Tokens : x # moved => g[x] = o.index[x]
    BY <1>1, <1>2, <1>4
  <2>3. p.index = h
    BY <1>5a, Zenon
  <2> HIDE DEF g
  <2>4. /\ h \in [Tokens -> 0..MaxSupply] /\ h[id] = 0
        /\ \A x \in Tokens : x # id => h[x] = g[x]
    BY <2>1, <2>2
  <2> HIDE DEF h
  <2>5. QED
    BY <1>4, <2>2, <2>3, <2>4
<1>9. left[id] = None /\ \A x \in Tokens : x # id => left[x] = own[x]
  BY DEF Owners
<1>10. p \in Lists
  <2> HIDE DEF p, i, n, moved
  <2>1. p.list \in [Address -> [0..MaxSupply -> 0..MaxSupply]]
    BY <1>6
  <2>2. p.balance \in [Address -> 0..MaxSupply]
    BY <1>1, <1>3, <1>5b
  <2>3. p = [list |-> p.list, index |-> p.index, balance |-> p.balance]
    BY Zenon DEF p, Removed
  <2>4. QED
    BY <1>7, <2>1, <2>2, <2>3 DEF Lists
<1>11. moved # id <=> i # n
  BY <1>2, <1>4
<1> HIDE DEF p, left, moved, i, n
<1>12. Placed(p, left)
  <2> SUFFICES ASSUME NEW x \in Tokens, left[x] # None
               PROVE  /\ p.index[x] < p.balance[left[x]]
                      /\ p.list[left[x]][p.index[x]] = x
    BY DEF Placed
  <2>1. x # id /\ left[x] = own[x] /\ own[x] # None /\ own[x] \in Address
    BY <1>9 DEF Owners
  <2>2. /\ o.index[x] < o.balance[own[x]] /\ o.list[own[x]][o.index[x]] = x
        /\ o.index[x] \in 0..MaxSupply /\ o.balance[own[x]] \in 0..MaxSupply
    BY <1>1, <2>1 DEF Exact, Placed
  <2>3. CASE x = moved
    <3>1. i # n /\ own[x] = from /\ i < n
      BY <1>2, <1>3, <1>4, <1>11, <2>1, <2>3
    <3>2. p.index[x] = i /\ p.list[from][i] = x
      BY <1>6, <1>7, <1>11, <2>3, <3>1
    <3>3. QED
      BY <1>6, <2>1, <3>1, <3>2
  <2>4. CASE x # moved /\ own[x] = from
    <3>1. o.index[x] # i /\ o.index[x] # n
      BY <1>2, <2>1, <2>2, <2>4 DEF moved
    <3>2. o.index[x] < n
      BY <1>3, <2>2, <2>4, <3>1
    <3>3. p.index[x] = o.index[x] /\ p.list[from][p.index[x]] = x
      BY <1>6, <1>7, <2>1, <2>2, <2>4, <3>1
    <3>4. QED
      BY <1>6, <2>1, <2>4, <3>2, <3>3
  <2>5. CASE x # moved /\ own[x] # from
    BY <1>6, <1>7, <2>1, <2>2, <2>5
  <2>6. QED
    BY <2>3, <2>4, <2>5
<1>13. ASSUME NEW a \in Address
       PROVE  ListOk(p, left, a)
  <2> SUFFICES ASSUME NEW j \in 0..MaxSupply
               PROVE  IF j < p.balance[a]
                      THEN /\ p.list[a][j] \in Tokens
                           /\ left[p.list[a][j]] = a
                           /\ p.index[p.list[a][j]] = j
                      ELSE p.list[a][j] = 0
    BY DEF ListOk
  <2>1. IF j < o.balance[a]
        THEN /\ o.list[a][j] \in Tokens
             /\ own[o.list[a][j]] = a
             /\ o.index[o.list[a][j]] = j
        ELSE o.list[a][j] = 0
    BY DEF Exact, ListOk
  <2>2. o.balance[a] \in 0..MaxSupply
    BY <1>1
  <2>3. CASE a # from
    <3>1. p.list[a] = o.list[a] /\ p.balance[a] = o.balance[a]
      BY <1>6, <2>3
    <3>2. j < o.balance[a] => o.list[a][j] # id /\ o.list[a][j] # moved
      BY <1>4, <2>1, <2>3
    <3>3. QED
      BY <1>7, <1>9, <2>1, <3>1, <3>2
  <2>4. CASE a = from /\ j = n
    BY <1>6, <2>4
  <2>5. CASE a = from /\ j # n /\ j = i
    <3>1. p.list[a][j] = moved /\ p.index[moved] = j /\ moved # id
      BY <1>6, <1>7, <1>11, <2>5
    <3>2. j < p.balance[a]
      BY <1>2, <1>3, <1>6, <2>5
    <3>3. QED
      BY <1>4, <1>9, <2>5, <3>1, <3>2
  <2>6. CASE a = from /\ j # n /\ j # i
    <3>1. p.list[a][j] = o.list[a][j]
      BY <1>6, <2>6
    <3>2. j < p.balance[a] <=> j < o.balance[a]
      BY <1>3, <1>6, <2>2, <2>6
    <3>3. j < o.balance[a] => o.list[a][j] # id /\ o.list[a][j] # moved
      BY <1>2, <1>4, <2>1, <2>6 DEF i
    <3>4. QED
      BY <1>7, <1>9, <2>1, <3>1, <3>2, <3>3
  <2>7. QED
    BY <2>3, <2>4, <2>5, <2>6
<1>14. QED
  BY <1>10, <1>12, <1>13 DEF Exact, p, left

-----------------------------------------------------------------------------
(* The invariant.                                                          *)

Counted == \A id \in Tokens : Minted(id) <=> id <= totalSupply

\* The tenures of a token are counted by its epoch, each of them once, so a
\* mark that names the present one was made in it.
UsageInv ==
    /\ ownerEpoch \in [Tokens -> Nat]
    /\ \A id \in Tokens : ownerEpoch[id] <= userEpoch[id]
    /\ usageMark \in [Tokens \X Address -> 0..NoMark]
    /\ granted \subseteq Tokens \X Address
    /\ \A id \in Tokens, user \in Address :
          \/ usageMark[<<id, user>>] = NoMark
          \/ usageMark[<<id, user>>] < ownerEpoch[id]
          \/ usageMark[<<id, user>>] = ownerEpoch[id] /\ <<id, user>> \in granted

\* What is proved was sealed to the owner it names.
SealInv ==
    /\ kernel \in [Tokens -> Kernels]
    /\ \A id \in Tokens : Active(id) => Minted(id)
    /\ \A id \in Tokens : kernel[id].proved =>
          kernel[id].data \in Payloads /\ kernel[id].data.to = kernel[id].sealedOwner

ListInv ==
    /\ totalSupply \in 0..MaxSupply
    /\ owned \in Lists
    /\ Counted
    /\ Exact(owned, ownerOf)

Inv ==
    /\ HubTypeOK
    /\ hasVerifier \in BOOLEAN
    /\ ListInv
    /\ UsageInv
    /\ SealInv

LEMMA InitInv == Init => Inv
<1> SUFFICES ASSUME Init PROVE Inv
  OBVIOUS
<1>1. HubTypeOK
  BY HubInitType DEF Init
<1>2. ListInv
  BY Ids DEF Init, HubInit, ListInv, Lists, Counted, Minted, Exact, Placed, ListOk
<1>3. UsageInv
  <2>1. NoMark \in 0..NoMark
    BY CustodyAssumption DEF NoMark
  <2>2. QED
    BY <2>1 DEF Init, HubInit, UsageInv
<1>4. SealInv
  BY DEF Init, SealInv, Kernels, NoKernel, Active
<1>5. QED
  BY <1>1, <1>2, <1>3, <1>4 DEF Init, Inv

\* A step that moves no token and no epoch back keeps every part whose own
\* variables it leaves alone.
LEMMA ListsStay ==
  ASSUME Inv, UNCHANGED <<ownerOf, totalSupply, owned>>
  PROVE  ListInv'
  BY DEF Inv, ListInv, Counted, Minted, Exact, Placed, ListOk

LEMMA UsageStays ==
  ASSUME Inv, HubTypeOK', UNCHANGED <<ownerEpoch, usageMark, granted>>,
         \A id \in Tokens : userEpoch'[id] >= userEpoch[id]
  PROVE  UsageInv'
  BY DEF Inv, UsageInv, HubTypeOK

LEMMA SealsStay ==
  ASSUME Inv, UNCHANGED kernel, \A id \in Tokens : Minted(id) => Minted(id)'
  PROVE  SealInv'
  BY DEF Inv, SealInv, Active

-----------------------------------------------------------------------------
(* Minting and moving.                                                     *)

LEMMA IssueStep ==
  ASSUME Inv, NEW to \in Address, Issue(to)
  PROVE  /\ HubTypeOK'
         /\ ListInv'
         /\ NextId \in Tokens /\ ~Minted(NextId)
         /\ \A id \in Tokens : Minted(id) => Minted(id)'
         /\ ownerOf'[NextId] # None
         /\ UNCHANGED userEpoch
<1>1. NextId \in Tokens /\ NextId \in 0..MaxSupply
  BY Ids DEF Inv, ListInv, Issue, NextId
<1>2. ~Minted(NextId)
  BY DEF Issue, Mint
<1>3. /\ ownerOf \in Owners
      /\ ownerOf' = [ownerOf EXCEPT ![NextId] = to]
  BY DEF Inv, HubTypeOK, Owners, Issue, Mint
<1>4. HubTypeOK'
  BY <1>1, HubNextType DEF Inv, Issue, HubNext
<1>5. \A id \in Tokens : Minted(id)' <=> (Minted(id) \/ id = NextId)
  BY <1>1, <1>3, Ids DEF Minted, Owners
<1>6. owned' \in Lists /\ Exact(owned, ownerOf)'
  BY <1>1, <1>2, <1>3, AddedExact DEF Inv, ListInv, Issue, Minted
<1>7. Counted' /\ totalSupply' \in 0..MaxSupply
  BY <1>1, <1>5, Ids DEF Inv, ListInv, Counted, Issue, NextId
<1>8. QED
  BY <1>1, <1>2, <1>3, <1>4, <1>5, <1>6, <1>7, Ids DEF ListInv, Issue, Mint, Owners

LEMMA TransferStep ==
  ASSUME Inv, NEW c, NEW id \in Tokens, NEW from, NEW to \in Address,
         Transfer(c, from, to, id)
  PROVE  /\ HubTypeOK'
         /\ ListInv'
         /\ UsageInv'
         /\ \A x \in Tokens : Minted(x) => Minted(x)'
         /\ ownerOf'[id] = to
<1>1. HubTypeOK'
  BY TransferType DEF Inv, Transfer
<1>2. /\ ownerOf \in Owners /\ Minted(id) /\ from = ownerOf[id] /\ from \in Address
      /\ ownerOf' = [ownerOf EXCEPT ![id] = to]
  BY DEF Inv, HubTypeOK, Owners, Transfer, TransferFrom, MayTransfer, Minted
<1>3. \A x \in Tokens : Minted(x)' <=> Minted(x)
  BY <1>2, Ids DEF Minted, Owners
<1>4. ListInv'
  <2> DEFINE o == Removed(owned, from, id)
             own == [ownerOf EXCEPT ![id] = None]
  <2>1. o \in Lists /\ Exact(o, own)
    BY <1>2, RemovedExact DEF Inv, ListInv
  <2>2. /\ own \in Owners /\ own[id] = None
        /\ ownerOf' = [own EXCEPT ![id] = to]
    <3>1. own \in Owners /\ own[id] = None /\ \A x \in Tokens : x # id => own[x] = ownerOf[x]
      BY <1>2 DEF Owners
    <3> HIDE DEF own
    <3>2. ownerOf' = [own EXCEPT ![id] = to]
      BY <1>2, <3>1 DEF Owners
    <3>3. QED
      BY <3>1, <3>2
  <2>3. owned' = Added(o, to, id)
    BY DEF Transfer
  <2>4. owned' \in Lists /\ Exact(owned, ownerOf)'
    <3> HIDE DEF o, own
    <3>1. QED
      BY <2>1, <2>2, <2>3, AddedExact
  <2>5. QED
    BY <1>3, <2>4 DEF Inv, ListInv, Counted, Transfer
<1>5. UsageInv'
  <2>1. /\ ownerEpoch' = [ownerEpoch EXCEPT ![id] = @ + 1]
        /\ userEpoch' = [userEpoch EXCEPT ![id] = @ + 1]
        /\ userEpoch[id] < MaxEpoch
        /\ UNCHANGED usageMark
    BY DEF Transfer, TransferFrom, BumpOwnerEpoch, BumpEpoch, EpochLeft
  <2>2. userEpoch \in [Tokens -> Nat] /\ ownerEpoch \in [Tokens -> Nat]
    BY DEF Inv, UsageInv, HubTypeOK
  <2>3. \A x \in Tokens : ownerEpoch'[x] \in Nat /\ ownerEpoch'[x] <= userEpoch'[x]
    BY <2>1, <2>2 DEF Inv, UsageInv
  <2>4. granted' \subseteq granted /\ \A g \in granted : g[1] # id => g \in granted'
    BY DEF Transfer
  <2>5. ASSUME NEW x \in Tokens, NEW user \in Address
        PROVE  \/ usageMark[<<x, user>>] = NoMark
               \/ usageMark[<<x, user>>] < ownerEpoch'[x]
               \/ usageMark[<<x, user>>] = ownerEpoch'[x] /\ <<x, user>> \in granted'
    <3>1. \/ usageMark[<<x, user>>] = NoMark
          \/ usageMark[<<x, user>>] < ownerEpoch[x]
          \/ usageMark[<<x, user>>] = ownerEpoch[x] /\ <<x, user>> \in granted
      BY DEF Inv, UsageInv
    <3>2. usageMark[<<x, user>>] \in 0..NoMark /\ ownerEpoch[x] \in Nat
      BY <2>2 DEF Inv, UsageInv
    <3>3. CASE x = id
      BY <2>1, <2>2, <3>1, <3>2, <3>3, CustodyAssumption DEF NoMark
    <3>4. CASE x # id
      <4>1. <<x, user>>[1] = x
        OBVIOUS
      <4>2. QED
        BY <2>1, <2>2, <2>4, <3>1, <3>4, <4>1
    <3>5. QED
      BY <3>3, <3>4
  <2>6. ownerEpoch' \in [Tokens -> Nat]
    BY <2>1, <2>2
  <2>7. QED
    BY <2>1, <2>3, <2>4, <2>5, <2>6 DEF Inv, UsageInv
<1>6. QED
  BY <1>1, <1>2, <1>3, <1>4, <1>5 DEF Owners

-----------------------------------------------------------------------------
(* Every step.                                                             *)

LEMMA ArrangementStep ==
  ASSUME Inv, NEW c \in People \cup Accounts, ArrangementCall(c), UNCHANGED restVars
  PROVE  Inv'
<1>1. HubTypeOK'
  BY HubCallType DEF Inv, HubCall
<1>2. UNCHANGED ownerOf
  BY DEF ArrangementCall, Approve, SetApprovalForAll, SetUser, SetUserVia,
         WriteUser, SetLeaseAgent, Lock, Unlock, BeginBatch
<1>3. \/ UNCHANGED userEpoch
      \/ \E id \in Tokens : userEpoch' = [userEpoch EXCEPT ![id] = @ + 1]
  BY CustodyAssumption
     DEF ArrangementCall, Approve, SetApprovalForAll, SetUser, SetUserVia,
         WriteUser, SetLeaseAgent, Lock, Unlock, BeginBatch
<1>4. \A id \in Tokens : userEpoch'[id] >= userEpoch[id]
  BY <1>3 DEF Inv, HubTypeOK
<1>5. QED
  BY <1>1, <1>2, <1>4, ListsStay, UsageStays, SealsStay DEF Inv, restVars, Minted

\* The clock, the end of a batch, the verifier's one appointment, and no step
\* at all.
LEMMA QuietStep ==
  ASSUME Inv, \/ (Tick \/ \E id \in Tokens : EndBatch(id)) /\ UNCHANGED restVars
              \/ SetVerifier
              \/ UNCHANGED vars
  PROVE  Inv'
<1>1. HubTypeOK'
  BY HubNextType, HubStutterType DEF Inv, HubNext, SetVerifier, vars
<1>2. UNCHANGED <<ownerOf, userEpoch, totalSupply, owned, kernel, ownerEpoch,
                  usageMark, granted>>
  BY DEF Tick, EndBatch, SetVerifier, vars, restVars, hubVars
<1>3. hasVerifier' \in BOOLEAN
  BY DEF Inv, SetVerifier, vars, restVars
<1>4. \A id \in Tokens : userEpoch'[id] >= userEpoch[id]
  BY <1>2 DEF Inv, HubTypeOK
<1>5. QED
  BY <1>1, <1>2, <1>3, <1>4, ListsStay, UsageStays, SealsStay DEF Inv, Minted

LEMMA MintToStep ==
  ASSUME Inv, NEW to \in Address, MintTo(to)
  PROVE  Inv'
<1>1. Issue(to) /\ UNCHANGED <<kernel, ownerEpoch, usageMark, hasVerifier, granted>>
  BY DEF MintTo
<1>2. \A id \in Tokens : userEpoch'[id] >= userEpoch[id]
  BY <1>1, IssueStep DEF Inv, HubTypeOK
<1>3. QED
  BY <1>1, <1>2, IssueStep, UsageStays, SealsStay DEF Inv

LEMMA PlainTransferStep ==
  ASSUME Inv, NEW c, NEW id \in Tokens, NEW from, NEW to \in Address,
         Transfer(c, from, to, id), UNCHANGED kernel
  PROVE  Inv'
<1>1. UNCHANGED hasVerifier
  BY DEF Transfer
<1>2. QED
  BY <1>1, TransferStep, SealsStay DEF Inv

\* A payload sealed again is sealed to the recipient.
LEMMA ResealedIsSealed ==
  ASSUME NEW to \in Recipients, NEW old \in Payloads
  PROVE  /\ Resealed(old, to) \in Payloads
         /\ Resealed(old, to).to = to
         /\ Resealed(old, to).content = old.content
  BY CollectionAssumption DEF Resealed, Payloads

LEMMA TransferWithKernelStep ==
  ASSUME Inv, NEW c, NEW id \in Tokens, NEW to \in Recipients, NEW old \in Payloads,
         TransferWithKernel(c, to, id, old)
  PROVE  Inv'
<1> DEFINE k == [data |-> Resealed(old, to), sealedOwner |-> to, proved |-> TRUE]
<1>1. to \in Address
  BY CollectionAssumption
<1>2. /\ Active(id) /\ Transfer(c, c, to, id) /\ kernel' = [kernel EXCEPT ![id] = k]
      /\ UNCHANGED hasVerifier
  BY DEF TransferWithKernel, Transfer
<1>3. k \in Kernels /\ k.data \in Payloads /\ k.data.to = k.sealedOwner
  BY <1>1, ResealedIsSealed DEF Kernels
<1>4. \A x \in Tokens : Minted(x) => Minted(x)'
  BY <1>1, <1>2, TransferStep
<1>5. SealInv'
  BY <1>2, <1>3, <1>4 DEF Inv, SealInv, Active
<1>6. QED
  BY <1>1, <1>2, <1>5, TransferStep DEF Inv

LEMMA CloneStep ==
  ASSUME Inv, NEW c, NEW id \in Tokens, NEW to \in Recipients, NEW old \in Payloads,
         CloneWithKernel(c, to, id, old)
  PROVE  Inv'
<1> DEFINE k == [data |-> Resealed(old, to), sealedOwner |-> to, proved |-> TRUE]
           child == NextId
<1>1. to \in Address
  BY CollectionAssumption
<1>2. /\ Issue(to) /\ kernel' = [kernel EXCEPT ![child] = k]
      /\ UNCHANGED <<ownerEpoch, usageMark, hasVerifier, granted>>
  BY DEF CloneWithKernel
<1>3. k \in Kernels /\ k.data \in Payloads /\ k.data.to = k.sealedOwner
  BY <1>1, ResealedIsSealed DEF Kernels
<1>4. /\ HubTypeOK' /\ ListInv' /\ child \in Tokens /\ ownerOf'[child] # None
      /\ \A x \in Tokens : Minted(x) => Minted(x)'
      /\ UNCHANGED userEpoch
  BY <1>1, <1>2, IssueStep
<1>5. SealInv'
  <2> HIDE DEF child, k
  <2>1. QED
    BY <1>2, <1>3, <1>4 DEF Inv, SealInv, Active, Minted
<1>6. \A x \in Tokens : userEpoch'[x] >= userEpoch[x]
  BY <1>4 DEF Inv, HubTypeOK
<1>7. QED
  BY <1>2, <1>4, <1>5, <1>6, UsageStays DEF Inv

LEMMA SealKernelStep ==
  ASSUME Inv, NEW c, NEW id \in Tokens, NEW data \in Payloads \cup {NoPayload},
         SealKernel(c, id, data)
  PROVE  Inv'
<1>1. /\ Minted(id) /\ kernel' = [kernel EXCEPT ![id] = Sealed(id, data)]
      /\ UNCHANGED <<hubVars, totalSupply, owned, ownerEpoch, usageMark, hasVerifier,
                     granted>>
  BY DEF SealKernel, IsHolder
<1>2. Sealed(id, data) \in Kernels /\ ~Sealed(id, data).proved
  BY DEF Inv, HubTypeOK, Sealed, Kernels
<1>3. HubTypeOK' /\ \A x \in Tokens : userEpoch'[x] >= userEpoch[x]
  BY <1>1, HubStutterType DEF Inv, HubTypeOK, hubVars
<1>4. SealInv'
  BY <1>1, <1>2 DEF Inv, SealInv, Active, Minted, hubVars
<1>5. QED
  BY <1>1, <1>3, <1>4, ListsStay, UsageStays DEF Inv, hubVars

LEMMA AuthorizeStep ==
  ASSUME Inv, NEW c, NEW id \in Tokens, NEW user \in Address, AuthorizeUsage(c, id, user)
  PROVE  Inv'
<1>1. /\ usageMark' = [usageMark EXCEPT ![<<id, user>>] = ownerEpoch[id]]
      /\ granted' = granted \cup {<<id, user>>}
      /\ UNCHANGED <<hubVars, totalSupply, owned, kernel, ownerEpoch, hasVerifier>>
  BY DEF AuthorizeUsage
<1>2. HubTypeOK'
  BY <1>1, HubStutterType DEF Inv
<1>3. ownerEpoch[id] \in 0..NoMark
  BY CustodyAssumption DEF Inv, UsageInv, HubTypeOK, NoMark
<1>4. UsageInv'
  BY <1>1, <1>3 DEF Inv, UsageInv, hubVars
<1>5. QED
  BY <1>1, <1>2, <1>4, ListsStay, SealsStay DEF Inv, hubVars, Minted

LEMMA NextCases ==
  ASSUME Next
  PROVE  \/ (Tick \/ \E id \in Tokens : EndBatch(id)) /\ UNCHANGED restVars
         \/ SetVerifier
         \/ \E to \in Recipients : MintTo(to)
         \/ \E c \in People \cup Accounts : ArrangementCall(c) /\ UNCHANGED restVars
         \/ \E c \in People \cup Accounts, id \in Tokens, to \in Recipients :
               \/ Transfer(c, ownerOf[id], to, id) /\ UNCHANGED kernel
               \/ \E old \in Payloads :
                     TransferWithKernel(c, to, id, old) \/ CloneWithKernel(c, to, id, old)
         \/ \E c \in People \cup Accounts, id \in Tokens,
               data \in Payloads \cup {NoPayload} : SealKernel(c, id, data)
         \/ \E c \in People \cup Accounts, id \in Tokens, user \in Address :
               AuthorizeUsage(c, id, user)
<1>1. KernelTokens \subseteq Tokens
      /\ \A g \in UsageGrants : g[1] \in Tokens /\ g[2] \in Address
  BY CollectionAssumption
<1>2. QED
  BY <1>1 DEF Next, CollectionCall

LEMMA NextInv == Inv /\ [Next]_vars => Inv'
<1> SUFFICES ASSUME Inv, [Next]_vars PROVE Inv'
  OBVIOUS
<1>1. Recipients \subseteq Address
  BY CollectionAssumption
<1>2. CASE UNCHANGED vars
  BY <1>2, QuietStep
<1>3. CASE Next
  BY <1>1, <1>3, NextCases, QuietStep, MintToStep, ArrangementStep, PlainTransferStep,
     TransferWithKernelStep, CloneStep, SealKernelStep, AuthorizeStep
<1>4. QED
  BY <1>2, <1>3

LEMMA Invariance == Spec => []Inv
  BY InitInv, NextInv, PTL DEF Spec

-----------------------------------------------------------------------------
\* The hub's state is well typed: the balances fit the supply because the
\* lists hold each token once.
THEOREM TypeCorrect == Spec => []TypeOK
<1>1. Inv => TypeOK
  <2> SUFFICES ASSUME Inv PROVE TypeOK
    OBVIOUS
  <2>1. ownerEpoch \in [Tokens -> 0..MaxEpoch]
    BY CustodyAssumption DEF Inv, UsageInv, HubTypeOK
  <2>2. QED
    BY <2>1 DEF Inv, ListInv, UsageInv, SealInv, TypeOK, Lists
<1>2. QED
  BY <1>1, Invariance, PTL

\* Swap-and-pop keeps every owner's list exact, for any supply and through
\* any sequence of mints, clones and transfers.
THEOREM ListsAreExact == Spec => []EnumerationExact
<1>1. Inv => EnumerationExact
  BY DEF Inv, ListInv, Counted, Exact, Placed, ListOk, EnumerationExact, Minted
<1>2. QED
  BY <1>1, Invariance, PTL

\* A yes from kernelProved is about the holder's key.
THEOREM ProvedIsOpenable == Spec => []ProvedMeansOpenable
<1>1. Inv => ProvedMeansOpenable
  BY DEF Inv, SealInv, ProvedMeansOpenable, kernelProved, kernelStatus
<1>2. QED
  BY <1>1, Invariance, PTL

\* No right to use outlives the tenure it was given in, or comes back.
THEOREM UsageLapses == Spec => []UsageEndsWithTheTenure
<1>1. Inv => UsageEndsWithTheTenure
  <2> SUFFICES ASSUME Inv, NEW id \in Tokens, NEW user \in Address,
                      usageAuthorised(id, user)
               PROVE  <<id, user>> \in granted
    BY DEF UsageEndsWithTheTenure
  <2>1. ownerEpoch[id] \in Nat /\ ownerEpoch[id] < NoMark
    BY CustodyAssumption DEF Inv, UsageInv, HubTypeOK, NoMark
  <2>2. QED
    BY <2>1 DEF Inv, UsageInv, usageAuthorised
<1>2. QED
  BY <1>1, Invariance, PTL

\* The content of a proved kernel comes from the token itself or, for a
\* clone, from a parent.
THEOREM ContentCarried == Spec => ContentIsCarried
<1> DEFINE Carried(id) ==
      (kernel'[id] # kernel[id] /\ kernel'[id].proved) =>
         IF Active(id) THEN kernel'[id].data.content = kernel[id].data.content
         ELSE \E parent \in Tokens :
                 /\ Active(parent)
                 /\ kernel'[id].data.content = kernel[parent].data.content
<1>1. ASSUME Inv, Next, NEW x \in Tokens
      PROVE  Carried(x)
  <2>1. CASE UNCHANGED kernel
    BY <2>1
  <2>2. ASSUME NEW c, NEW id \in Tokens, NEW data, SealKernel(c, id, data)
        PROVE  Carried(x)
    BY <1>1, <2>2 DEF Inv, SealInv, SealKernel, Sealed
  <2>3. ASSUME NEW c, NEW id \in Tokens, NEW to \in Recipients, NEW old \in Payloads,
               TransferWithKernel(c, to, id, old)
        PROVE  Carried(x)
    BY <1>1, <2>3, ResealedIsSealed DEF Inv, SealInv, TransferWithKernel, Check
  <2>4. ASSUME NEW c, NEW id \in Tokens, NEW to \in Recipients, NEW old \in Payloads,
               CloneWithKernel(c, to, id, old)
        PROVE  Carried(x)
    <3>1. NextId \in Tokens /\ ~Minted(NextId)
      BY <1>1, <2>4, IssueStep, CollectionAssumption DEF CloneWithKernel
    <3>2. ~Active(NextId)
      BY <1>1, <3>1 DEF Inv, SealInv
    <3>3. QED
      BY <1>1, <2>4, <3>1, <3>2, ResealedIsSealed DEF Inv, SealInv, CloneWithKernel, Check
  <2>5. \/ UNCHANGED kernel
        \/ \E c \in People \cup Accounts, id \in Tokens, to \in Recipients,
              old \in Payloads :
              TransferWithKernel(c, to, id, old) \/ CloneWithKernel(c, to, id, old)
        \/ \E c \in People \cup Accounts, id \in Tokens,
              data \in Payloads \cup {NoPayload} : SealKernel(c, id, data)
    BY <1>1, NextCases DEF restVars, SetVerifier, MintTo, AuthorizeUsage
  <2>6. QED
    BY <2>1, <2>2, <2>3, <2>4, <2>5
<1>2. Inv /\ [Next]_vars => [\A id \in Tokens : Carried(id)]_vars
  BY <1>1
<1>3. QED
  BY <1>2, Invariance, PTL DEF Spec, ContentIsCarried

\* A collection is a hub: each of its steps is a step of the hub or none, so
\* what is proved of HubSpec holds of it.
THEOREM CollectionIsAHub == Spec => HubSpec
<1>1. Init => HubInit
  BY DEF Init
<1>2. Inv /\ [Next]_vars => [HubNext]_hubVars
  <2> SUFFICES ASSUME Inv, Next PROVE HubNext \/ UNCHANGED hubVars
    BY DEF vars
  <2>1. Recipients \subseteq Address
    BY CollectionAssumption
  <2>2. ASSUME NEW to \in Address, Issue(to)
        PROVE  HubNext
    BY <2>2, IssueStep DEF Issue, HubNext
  <2>3. ASSUME NEW c \in People \cup Accounts, CanAct(c), NEW id \in Tokens,
               NEW to \in Address, NEW from, Transfer(c, from, to, id)
        PROVE  HubNext
    BY <2>3 DEF Transfer, TransferFrom, MayTransfer, HubCall, HubNext
  <2>4. QED
    BY <2>1, <2>2, <2>3 DEF Next, CollectionCall, HubNext, HubCall, MintTo, SetVerifier,
       TransferWithKernel, CloneWithKernel, SealKernel, AuthorizeUsage
<1>3. QED
  BY <1>1, <1>2, Invariance, PTL DEF Spec, HubSpec
=============================================================================
