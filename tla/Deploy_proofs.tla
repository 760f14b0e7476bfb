---------------------------- MODULE Deploy_proofs ----------------------------
(***************************************************************************)
(* Proofs about Deploy, for any plan, any number of runs and any behaviour *)
(* of the chain.  Only one run ever works, because the files are created   *)
(* exclusively and never taken over; whatever that run has signed is in    *)
(* the journal, each step once, all but the last with its receipt; and if  *)
(* it says that it is verified, then it is deployed.                       *)
(***************************************************************************)
EXTENDS Deploy, FiniteSetTheorems, TLAPS

EntryKinds == {"session", "prepared", "broadcast", "receipt", "stopped", "complete"}
Entries == [kind : EntryKinds, tx : Txs]
Files == [owner : Runs \cup {Nobody}, start : Nat, journal : Seq(Entries),
          status : {"absent", "in-progress", "incomplete", "verified"}]
Process == [at : Alive \cup Ended, step : Steps, nonce : Nat, tx : Txs, receipts : Seq(Blocks)]

Typed ==
    /\ chain \in Seq(Blocks)
    /\ pool \subseteq Txs /\ IsFiniteSet(pool)
    /\ made \in 0..MaxBlocks /\ foreign \in 0..MaxForeign
    /\ files \in Files
    /\ run \in [Runs -> Process]

\* Where a run stands with the step it is at.
Before == {"factory", "nonce", "free"}
Unsettled == {"flight", "sent", "poll"}
Working == Before \cup Unsettled \cup {"check", "reread"}

Prepared == Journalled("prepared")
Receipts == Journalled("receipt")

\* What one run has made of the journal.
WorkInv(r) ==
    /\ run[r].at \in Working => files.owner = r
    /\ run[r].at \in {"start", "open"} => run[r].step = 1
    /\ run[r].at \in Before => \A t \in Prepared : t.step < run[r].step
    /\ run[r].at \in Unsettled \cup {"check"} =>
          /\ run[r].tx \in Prepared
          /\ run[r].tx.step = run[r].step
          /\ \A t \in Prepared : t = run[r].tx \/ t.step < run[r].step
    /\ run[r].at \in Unsettled => Prepared \ Receipts \subseteq {run[r].tx}
    /\ run[r].at \in Working \ Unsettled => Prepared \subseteq Receipts

JournalInv ==
    /\ files.owner = Nobody => files.journal = <<>>
    /\ \A t, u \in Prepared : t.step = u.step => t = u
    /\ \E t \in Txs : Prepared \ Receipts \subseteq {t}
    /\ Sent \subseteq Prepared

Inv == Typed /\ JournalInv /\ \A r \in Runs : WorkInv(r)

-----------------------------------------------------------------------------
(* The journal, the node's answers and the chain as sets.                  *)

\* What a journal holds of one kind, and what an entry adds to it.
Journal(kind, j) == {j[i].tx : i \in {m \in DOMAIN j : j[m].kind = kind}}

LEMMA Added ==
  ASSUME NEW j \in Seq(Entries), NEW e \in Entries, NEW kind
  PROVE  Journal(kind, Append(j, e)) =
           IF e.kind = kind THEN Journal(kind, j) \cup {e.tx} ELSE Journal(kind, j)
<1> DEFINE k == Append(j, e)
<1>1. /\ Len(j) \in Nat
      /\ DOMAIN j = 1..Len(j) /\ DOMAIN k = 1..(Len(j) + 1)
      /\ k[Len(j) + 1] = e
      /\ \A i \in DOMAIN j : k[i] = j[i]
  OBVIOUS
<1> HIDE DEF k
<1>2. Journal(kind, k) = IF e.kind = kind THEN Journal(kind, j) \cup {e.tx} ELSE Journal(kind, j)
  BY <1>1 DEF Journal
<1>3. QED
  BY <1>2 DEF k

LEMMA Logged ==
  ASSUME NEW e \in Entries, files.journal \in Seq(Entries), NEW kind,
         files'.journal = Append(files.journal, e)
  PROVE  Journalled(kind)' = IF e.kind = kind THEN Journalled(kind) \cup {e.tx}
                             ELSE Journalled(kind)
<1>1. /\ Journalled(kind) = Journal(kind, files.journal)
      /\ Journalled(kind)' = Journal(kind, Append(files.journal, e))
  BY DEF Journalled, Journal
<1>2. Journal(kind, Append(files.journal, e)) =
        IF e.kind = kind THEN Journal(kind, files.journal) \cup {e.tx}
        ELSE Journal(kind, files.journal)
  BY Added
<1>3. QED
  BY <1>1, <1>2, Zenon

LEMMA SameJournal ==
  ASSUME NEW kind, files'.journal = files.journal
  PROVE  Journalled(kind)' = Journalled(kind)
  BY DEF Journalled

\* The transactions on a chain, block by block.
ChainTxs == {chain[i].tx : i \in DOMAIN chain}

LEMMA ChainGrows ==
  ASSUME chain \in Seq(Blocks), NEW b \in Blocks, chain' = Append(chain, b)
  PROVE  chain' \in Seq(Blocks) /\ ChainTxs' = ChainTxs \cup {b.tx}
<1>1. /\ chain' \in Seq(Blocks) /\ Len(chain) \in Nat
      /\ DOMAIN chain = 1..Len(chain) /\ DOMAIN chain' = 1..(Len(chain) + 1)
      /\ chain'[Len(chain) + 1] = b
      /\ \A i \in DOMAIN chain : chain'[i] = chain[i]
  OBVIOUS
<1>2. QED
  BY <1>1 DEF ChainTxs

LEMMA ChainShrinks ==
  ASSUME chain \in Seq(Blocks), NEW n \in 0..(Len(chain) - 1), chain' = SubSeq(chain, 1, n)
  PROVE  chain' \in Seq(Blocks) /\ ChainTxs' \subseteq ChainTxs
<1>1. /\ chain' \in Seq(Blocks) /\ Len(chain') = n
      /\ \A i \in 1..n : chain'[i] = chain[i]
  OBVIOUS
<1>2. DOMAIN chain' = 1..n /\ 1..n \subseteq DOMAIN chain
  BY <1>1
<1>3. QED
  BY <1>1, <1>2 DEF ChainTxs

LEMMA MinedNonceNat ==
  ASSUME Typed
  PROVE  MinedNonce \in Nat
<1> DEFINE mined == {i \in DOMAIN chain : Signed(chain[i])}
<1>1. Len(chain) \in Nat /\ DOMAIN chain = 1..Len(chain)
  BY DEF Typed
<1>2. IsFiniteSet(1..Len(chain)) /\ mined \subseteq 1..Len(chain)
  BY <1>1, FS_Interval
<1>3. IsFiniteSet(mined)
  BY <1>2, FS_Subset
<1>4. QED
  BY <1>3, FS_CardinalityType DEF MinedNonce

LEMMA PendingNonceNat ==
  ASSUME Typed
  PROVE  PendingNonce \in Nat
<1> DEFINE f == [tx \in pool |-> tx.nonce]
           next == {n \in Waiting : n >= MinedNonce /\ MinedNonce..n \subseteq Waiting}
<1>1. f \in Surjection(pool, Waiting)
  BY DEF Waiting, Surjection
<1>2. IsFiniteSet(Waiting)
  BY <1>1, FS_Surjection DEF Typed
<1>3. IsFiniteSet(next)
  BY <1>2, FS_Subset
<1>4. Cardinality(next) \in Nat
  BY <1>3, FS_CardinalityType
<1>5. QED
  BY <1>4, MinedNonceNat DEF PendingNonce

LEMMA PreparedTyped ==
  ASSUME Typed
  PROVE  \A t \in Prepared : t \in Txs /\ t.step \in 0..Len(Kinds)
<1>1. \A i \in DOMAIN files.journal : files.journal[i] \in Entries
  BY DEF Typed, Files
<1>2. QED
  BY <1>1 DEF Prepared, Journalled, Entries, Txs

LEMMA BoundsAreNat == MaxBlocks \in Nat /\ MaxForeign \in Nat
  BY DeployAssumption

\* What is counted up to a bound stays within it.
LEMMA CountersTyped ==
  ASSUME Typed
  PROVE  /\ made \in Nat /\ foreign \in Nat
         /\ made < MaxBlocks => made + 1 \in 0..MaxBlocks
         /\ foreign < MaxForeign => foreign + 1 \in 0..MaxForeign
<1>1. made \in 0..MaxBlocks /\ foreign \in 0..MaxForeign
  BY DEF Typed
<1>2. QED
  BY <1>1, BoundsAreNat

LEMMA PlanNotEmpty ==
  /\ Len(Kinds) \in Nat \ {0}
  /\ 1 \in Steps
  /\ \A k \in Steps : k \in 0..Len(Kinds) /\ NextStep(k) \in Steps
<1>1. Len(Kinds) \in Nat \ {0}
  BY DeployAssumption
<1>2. QED
  BY <1>1 DEF Steps, NextStep

LEMMA NoTxIsTx == NoTx \in Txs
  BY PlanNotEmpty DEF NoTx, Txs

LEMMA InitInv == Init => Inv
<1> SUFFICES ASSUME Init PROVE Inv
  OBVIOUS
<1>1. Typed
  BY FS_EmptySet, PlanNotEmpty, NoTxIsTx, BoundsAreNat
     DEF Init, Typed, Files, Process, Begin, Alive, Ended
<1>2. Prepared = {} /\ Sent = {}
  BY DEF Init, Prepared, Journalled, Sent
<1>3. JournalInv
  BY <1>2, NoTxIsTx DEF Init, JournalInv
<1>4. ASSUME NEW r \in Runs
      PROVE  WorkInv(r)
  BY <1>2 DEF Init, Begin, WorkInv, Working, Before, Unsettled
<1>5. QED
  BY <1>1, <1>3, <1>4 DEF Inv

-----------------------------------------------------------------------------
(* The runs.                                                               *)

\* A step of one run leaves the others as they were: either it writes no
\* file, or it is the one that may.
LEMMA Others ==
  ASSUME Inv, NEW r \in Runs, NEW q \in Runs, run'[q] = run[q],
         files' = files \/ files.owner = Nobody \/ files.owner = r, q # r
  PROVE  WorkInv(q)'
<1>1. WorkInv(q)
  BY DEF Inv
<1>2. CASE files' = files
  <2>1. Prepared' = Prepared /\ Receipts' = Receipts
    BY <1>2, SameJournal DEF Prepared, Receipts
  <2>2. QED
    BY <1>1, <1>2, <2>1 DEF WorkInv
<1>3. CASE files.owner = Nobody \/ files.owner = r
  <2>1. run[q].at \notin Working
    BY <1>1, <1>3, DeployAssumption DEF WorkInv
  <2>2. QED
    BY <1>1, <2>1 DEF WorkInv, Working, Unsettled, Before
<1>4. QED
  BY <1>2, <1>3

\* A run that only moves from one point to the next.
LEMMA MoveInv ==
  ASSUME Inv, NEW r \in Runs, NEW new \in Process, run' = [run EXCEPT ![r] = new],
         UNCHANGED <<chain, pool, made, foreign, files>>,
         \/ new.at \in Ended
         \/ new.at = "open" /\ run[r].at = "start" /\ new.step = run[r].step
         \/ new.at \in Before /\ run[r].at \in Before /\ new.step = run[r].step
         \/ new.at = "factory" /\ run[r].at = "check" /\ new.step = run[r].step + 1
         \/ new.at = "reread" /\ run[r].at \in {"check", "reread"}
  PROVE  Inv'
<1>1. Typed'
  BY DEF Inv, Typed
<1>2. Prepared' = Prepared /\ Receipts' = Receipts
  BY SameJournal DEF Prepared, Receipts
<1>3. JournalInv'
  BY <1>2 DEF Inv, JournalInv, Sent
<1>4. run'[r] = new /\ WorkInv(r)
  BY DEF Inv, Typed
<1>5. WorkInv(r)'
  <2>1. CASE new.at \in Ended
    BY <1>4, <2>1 DEF WorkInv, Ended, Working, Before, Unsettled
  <2>2. CASE new.at = "open" /\ run[r].at = "start" /\ new.step = run[r].step
    BY <1>4, <2>2 DEF WorkInv, Working, Before, Unsettled
  <2>3. CASE new.at \in Before /\ run[r].at \in Before /\ new.step = run[r].step
    BY <1>2, <1>4, <2>3 DEF WorkInv, Working, Before, Unsettled
  <2>4. CASE new.at = "factory" /\ run[r].at = "check" /\ new.step = run[r].step + 1
    <3>1. run[r].step \in Nat /\ \A t \in Prepared : t.step \in Int
      BY PreparedTyped, PlanNotEmpty DEF Inv, Typed, Process
    <3>2. \A t \in Prepared : t.step < new.step
      BY <1>4, <2>4, <3>1 DEF WorkInv
    <3>3. files.owner = r /\ Prepared \subseteq Receipts
      BY <1>4, <2>4 DEF WorkInv, Working, Before, Unsettled
    <3>4. QED
      BY <1>2, <1>4, <2>4, <3>2, <3>3 DEF WorkInv, Working, Before, Unsettled
  <2>5. CASE new.at = "reread" /\ run[r].at \in {"check", "reread"}
    BY <1>2, <1>4, <2>5 DEF WorkInv, Working, Before, Unsettled
  <2>6. QED
    BY <2>1, <2>2, <2>3, <2>4, <2>5
<1>6. ASSUME NEW q \in Runs, q # r
      PROVE  WorkInv(q)'
  BY <1>6, Others DEF Inv, Typed
<1>7. QED
  BY <1>1, <1>3, <1>5, <1>6 DEF Inv

\* A run that writes an entry which is neither a preparation nor a receipt.
LEMMA WriteInv ==
  ASSUME Inv, NEW r \in Runs, run[r].at \in Working,
         NEW e \in Entries, e.kind \notin {"prepared", "receipt"},
         files' \in Files, files'.owner = files.owner,
         files'.journal = Append(files.journal, e),
         NEW new \in Process, run' = [run EXCEPT ![r] = new],
         UNCHANGED <<chain, pool, made, foreign>>,
         \/ new.at \in Ended
         \/ /\ run[r].at = "sent" /\ new.at = "poll"
            /\ new.step = run[r].step /\ new.tx = run[r].tx
  PROVE  Inv'
<1>1. Typed'
  BY DEF Inv, Typed
<1>2. Prepared' = Prepared /\ Receipts' = Receipts
  BY Logged DEF Prepared, Receipts, Inv, Typed, Files
<1>3. run'[r] = new /\ WorkInv(r) /\ files.owner = r
  BY DEF Inv, Typed, WorkInv
<1>4. JournalInv'
  BY <1>2, <1>3, DeployAssumption DEF Inv, JournalInv, Sent
<1>5. WorkInv(r)'
  BY <1>2, <1>3 DEF WorkInv, Ended, Working, Before, Unsettled
<1>6. ASSUME NEW q \in Runs, q # r
      PROVE  WorkInv(q)'
  BY <1>3, <1>6, Others DEF Inv, Typed
<1>7. QED
  BY <1>1, <1>4, <1>5, <1>6 DEF Inv

LEMMA FilesWritten ==
  ASSUME files \in Files, NEW e \in Entries,
         NEW status \in {"absent", "in-progress", "incomplete", "verified"},
         \/ files' = [files EXCEPT !.status = status, !.journal = Append(@, e)]
         \/ files' = [files EXCEPT !.journal = Append(@, e)]
  PROVE  /\ files' \in Files /\ files'.owner = files.owner
         /\ files'.journal = Append(files.journal, e)
<1> DEFINE j == Append(files.journal, e)
<1>1. j \in Seq(Entries)
  BY DEF Files
<1>2. \/ files' = [files EXCEPT !.status = status, !.journal = j]
      \/ files' = [files EXCEPT !.journal = j]
  OBVIOUS
<1> HIDE DEF j
<1>3. files' \in Files /\ files'.owner = files.owner /\ files'.journal = j
  BY <1>1, <1>2 DEF Files
<1>4. QED
  BY <1>3 DEF j

LEMMA StopInv ==
  ASSUME Inv, NEW r \in Runs, run[r].at \in Alive, Stop(r), Reads
  PROVE  Inv'
<1>1. CASE run[r].at \in {"start", "open"}
  <2> DEFINE new == [run[r] EXCEPT !.at = "refused"]
  <2>1. new \in Process /\ new.at = "refused"
    BY DEF Inv, Typed, Process, Ended
  <2>2. run' = [run EXCEPT ![r] = new] /\ UNCHANGED <<chain, pool, made, foreign, files>>
    BY <1>1 DEF Stop, Go, Reads
  <2> HIDE DEF new
  <2>3. QED
    BY <2>1, <2>2, MoveInv DEF Ended
<1>2. CASE run[r].at \notin {"start", "open"}
  <2> DEFINE new == [run[r] EXCEPT !.at = "stopped"]
             e == [kind |-> "stopped", tx |-> NoTx]
  <2>1. new \in Process /\ new.at = "stopped"
    BY DEF Inv, Typed, Process, Ended
  <2>2. e \in Entries /\ e.kind = "stopped"
    BY NoTxIsTx DEF Entries, EntryKinds
  <2>3. run[r].at \in Working
    BY <1>2 DEF Alive, Working, Before, Unsettled
  <2>4. run' = [run EXCEPT ![r] = new] /\ UNCHANGED <<chain, pool, made, foreign>>
    BY <1>2 DEF Stop, Go, Reads
  <2>5. files' = [files EXCEPT !.status = "incomplete", !.journal = Append(@, e)]
    BY <1>2 DEF Stop
  <2>6. files \in Files
    BY DEF Inv, Typed
  <2> HIDE DEF new, e
  <2>7. /\ files' \in Files /\ files'.owner = files.owner
        /\ files'.journal = Append(files.journal, e)
    BY <2>2, <2>5, <2>6, FilesWritten
  <2>8. QED
    BY <2>1, <2>2, <2>3, <2>4, <2>7, WriteInv DEF Ended
<1>3. QED
  BY <1>1, <1>2

LEMMA PreflightInv ==
  ASSUME Inv, NEW r \in Runs, Preflight(r)
  PROVE  Inv'
<1>1. CASE Stop(r)
  BY <1>1, StopInv DEF Preflight, Alive
<1>2. CASE PendingNonce = MinedNonce /\ run' = [run EXCEPT ![r] = [@ EXCEPT !.at = "open", !.nonce = PendingNonce]]
           /\ UNCHANGED files
  <2> DEFINE new == [run[r] EXCEPT !.at = "open", !.nonce = PendingNonce]
  <2>1. PendingNonce \in Nat
    BY PendingNonceNat DEF Inv
  <2>2. new \in Process /\ new.at = "open" /\ new.step = run[r].step
    BY <2>1 DEF Inv, Typed, Process, Alive
  <2>3. run' = [run EXCEPT ![r] = new] /\ UNCHANGED <<chain, pool, made, foreign, files>>
    BY <1>2 DEF Preflight, Reads
  <2> HIDE DEF new
  <2>4. QED
    BY <2>2, <2>3, MoveInv DEF Preflight
<1>3. QED
  BY <1>1, <1>2 DEF Preflight

LEMMA OpenFilesInv ==
  ASSUME Inv, NEW r \in Runs, OpenFiles(r)
  PROVE  Inv'
<1>1. CASE Stop(r)
  BY <1>1, StopInv DEF OpenFiles, Alive
<1>2. CASE /\ NoFiles
           /\ files' = [owner |-> r, status |-> "in-progress", start |-> run[r].nonce,
                        journal |-> <<[kind |-> "session", tx |-> NoTx]>>]
           /\ run' = Go(r, "factory")
  <2> DEFINE e == [kind |-> "session", tx |-> NoTx]
             new == [run[r] EXCEPT !.at = "factory"]
  <2>1. e \in Entries /\ e.kind = "session"
    BY NoTxIsTx DEF Entries, EntryKinds
  <2>2. files.journal = <<>> /\ files.owner = Nobody
    BY <1>2 DEF Inv, JournalInv, NoFiles
  <2>3. Prepared = {} /\ Receipts = {}
    BY <2>2 DEF Prepared, Receipts, Journalled
  <2>4. files'.owner = r /\ files'.journal = <<e>>
    BY <1>2
  <2>5. files' \in Files
    BY <1>2, <2>1 DEF Files, Inv, Typed, Process
  <2> HIDE DEF e
  <2>6. Prepared' = {} /\ Receipts' = {}
    BY <2>1, <2>4 DEF Prepared, Receipts, Journalled
  <2>7. new \in Process /\ run' = [run EXCEPT ![r] = new]
    BY <1>2 DEF Inv, Typed, Process, Alive, Go
  <2>8. Typed'
    BY <2>5, <2>7 DEF Inv, Typed, OpenFiles, Reads
  <2>9. JournalInv'
    BY <2>3, <2>4, <2>6, DeployAssumption DEF Inv, JournalInv, OpenFiles, Reads, Sent
  <2>10. WorkInv(r)'
    <3>1. run'[r].at = "factory"
      BY <2>7 DEF Inv, Typed, Process
    <3>2. QED
      BY <2>4, <2>6, <3>1 DEF WorkInv, Working, Before, Unsettled
  <2>11. ASSUME NEW q \in Runs, q # r
         PROVE  WorkInv(q)'
    BY <2>2, <2>7, <2>11, Others DEF Inv, Typed
  <2>12. QED
    BY <2>8, <2>9, <2>10, <2>11 DEF Inv
<1>3. QED
  BY <1>1, <1>2 DEF OpenFiles

LEMMA PrepareInv ==
  ASSUME Inv, NEW r \in Runs, Prepare(r)
  PROVE  Inv'
<1> DEFINE tx == [by |-> r, step |-> run[r].step, nonce |-> run[r].nonce]
           new == [run[r] EXCEPT !.at = "flight", !.tx = tx]
           e == [kind |-> "prepared", tx |-> tx]
<1>1. CASE Stop(r)
  BY <1>1, StopInv DEF Prepare, Alive
<1>2. CASE run' = [run EXCEPT ![r] = [@ EXCEPT !.at = "flight", !.tx = tx]] /\ Log("prepared", tx)
  <2>1. tx \in Txs /\ tx.step = run[r].step
    BY PlanNotEmpty DEF Inv, Typed, Process, Txs
  <2>2. e \in Entries /\ e.kind = "prepared" /\ e.tx = tx
    BY <2>1 DEF Entries, EntryKinds
  <2>3. files' = [files EXCEPT !.journal = Append(@, e)] /\ files \in Files
    BY <1>2 DEF Log, Inv, Typed
  <2>4. run[r] \in Process /\ run' = [run EXCEPT ![r] = new]
    BY <1>2 DEF Inv, Typed
  <2>5. run[r].at = "free" /\ UNCHANGED <<chain, pool, made, foreign>>
    BY DEF Prepare, Reads
  <2> HIDE DEF tx, e
  <2>6. new \in Process /\ new.at = "flight" /\ new.tx = tx /\ new.step = run[r].step
    BY <2>1, <2>4 DEF Process, Alive
  <2>7. /\ files' \in Files /\ files'.owner = files.owner
        /\ files'.journal = Append(files.journal, e)
    BY <2>2, <2>3, FilesWritten
  <2>8. Prepared' = Prepared \cup {tx} /\ Receipts' = Receipts
    BY <2>2, <2>3, <2>7, Logged DEF Prepared, Receipts, Files
  <2> HIDE DEF new
  <2>9. /\ WorkInv(r) /\ files.owner = r /\ Prepared \subseteq Receipts
        /\ \A t \in Prepared : t.step < run[r].step
    BY <2>5 DEF Inv, WorkInv, Working, Before, Unsettled
  <2>10. \A t \in Prepared : t.step # tx.step
    <3>1. \A t \in Prepared : t.step \in Int
      BY PreparedTyped DEF Inv
    <3>2. run[r].step \in Int
      BY <2>4, PlanNotEmpty DEF Process
    <3>3. QED
      BY <2>1, <2>9, <3>1, <3>2
  <2>11. Typed'
    BY <2>4, <2>5, <2>6, <2>7 DEF Inv, Typed
  <2>12. JournalInv'
    <3>1. Sent' = Sent
      BY <2>5 DEF Sent
    <3>2. \A t, u \in Prepared' : t.step = u.step => t = u
      BY <2>8, <2>10 DEF Inv, JournalInv
    <3>3. Prepared' \ Receipts' \subseteq {tx} /\ Sent' \subseteq Prepared'
      BY <2>8, <2>9, <3>1 DEF Inv, JournalInv
    <3>4. QED
      BY <2>1, <2>7, <2>9, <3>2, <3>3, DeployAssumption DEF JournalInv
  <2>13. WorkInv(r)'
    <3>1. run'[r] = new
      BY <2>4 DEF Inv, Typed
    <3>2. QED
      BY <2>1, <2>6, <2>7, <2>8, <2>9, <3>1 DEF WorkInv, Working, Before, Unsettled
  <2>14. ASSUME NEW q \in Runs, q # r
         PROVE  WorkInv(q)'
    BY <2>4, <2>9, <2>14, Others DEF Inv, Typed
  <2>15. QED
    BY <2>11, <2>12, <2>13, <2>14 DEF Inv
<1>3. QED
  BY <1>1, <1>2 DEF Prepare

LEMMA DeliverInv ==
  ASSUME Inv, NEW r \in Runs, Deliver(r)
  PROVE  Inv'
<1> DEFINE new == [run[r] EXCEPT !.at = "sent"]
<1>1. run[r] \in Process /\ run[r].at = "flight" /\ WorkInv(r)
  BY DEF Inv, Typed, Deliver
<1>2. /\ new \in Process /\ new.at = "sent"
      /\ new.tx = run[r].tx /\ new.step = run[r].step
  BY <1>1 DEF Process, Alive
<1>3. run' = [run EXCEPT ![r] = new] /\ UNCHANGED <<chain, made, foreign, files>>
  BY DEF Deliver, Go
<1>4. run[r].tx \in Prepared /\ run[r].tx \in Txs
  BY <1>1 DEF WorkInv, Unsettled, Process
<1> HIDE DEF new
<1>5. Typed'
  BY <1>2, <1>3, <1>4, FS_AddElement DEF Inv, Typed, Deliver
<1>6. Prepared' = Prepared /\ Receipts' = Receipts
  BY <1>3, SameJournal DEF Prepared, Receipts
<1>7. Sent' \subseteq Sent \cup {run[r].tx}
  BY <1>3 DEF Sent, Deliver
<1>8. JournalInv'
  BY <1>3, <1>4, <1>6, <1>7 DEF Inv, JournalInv
<1>9. WorkInv(r)'
  <2>1. run'[r] = new
    BY <1>3 DEF Inv, Typed
  <2>2. QED
    BY <1>1, <1>2, <1>3, <1>6, <2>1 DEF WorkInv, Working, Before, Unsettled
<1>10. ASSUME NEW q \in Runs, q # r
       PROVE  WorkInv(q)'
  BY <1>3, <1>10, Others DEF Inv, Typed
<1>11. QED
  BY <1>5, <1>8, <1>9, <1>10 DEF Inv

LEMMA BroadcastInv ==
  ASSUME Inv, NEW r \in Runs, Broadcast(r)
  PROVE  Inv'
<1> DEFINE new == [run[r] EXCEPT !.at = "poll", !.nonce = run[r].nonce + 1]
           e == [kind |-> "broadcast", tx |-> run[r].tx]
<1>1. run[r] \in Process /\ files \in Files /\ run[r].at = "sent"
  BY DEF Inv, Typed, Broadcast
<1>2. /\ new \in Process /\ new.at = "poll"
      /\ new.tx = run[r].tx /\ new.step = run[r].step
  <2> DEFINE n == run[r].nonce + 1
  <2>1. n \in Nat
    BY <1>1 DEF Process
  <2>2. new = [run[r] EXCEPT !.at = "poll", !.nonce = n]
    OBVIOUS
  <2> HIDE DEF n, new
  <2>3. QED
    BY <1>1, <2>1, <2>2 DEF Process, Alive
<1>3. e \in Entries /\ e.kind = "broadcast"
  BY <1>1 DEF Entries, EntryKinds, Process
<1>4. run' = [run EXCEPT ![r] = new] /\ UNCHANGED <<chain, pool, made, foreign>>
  BY DEF Broadcast, Reads
<1>5. files' = [files EXCEPT !.journal = Append(@, e)]
  BY DEF Broadcast, Log
<1> HIDE DEF new, e
<1>6. /\ files' \in Files /\ files'.owner = files.owner
      /\ files'.journal = Append(files.journal, e)
  BY <1>1, <1>3, <1>5, FilesWritten
<1>7. QED
  BY <1>1, <1>2, <1>3, <1>4, <1>6, WriteInv DEF Working, Unsettled

\* A receipt is about the transaction it was asked for.
LEMMA ReceiptIsOfTx ==
  ASSUME Typed, NEW tx, Included(tx)
  PROVE  ReceiptOf(tx) \in Blocks /\ ReceiptOf(tx).tx = tx
<1> DEFINE i == CHOOSE m \in DOMAIN chain : chain[m].tx = tx
<1>1. i \in DOMAIN chain /\ chain[i].tx = tx
  BY DEF Included
<1> HIDE DEF i
<1>2. chain[i] \in Blocks
  BY <1>1 DEF Typed
<1>3. QED
  BY <1>1, <1>2 DEF ReceiptOf, i

LEMMA PollInv ==
  ASSUME Inv, NEW r \in Runs, Poll(r)
  PROVE  Inv'
<1> DEFINE b == ReceiptOf(run[r].tx)
           e == [kind |-> "receipt", tx |-> b.tx]
           stop == [kind |-> "stopped", tx |-> NoTx]
<1>1. /\ run[r] \in Process /\ files \in Files /\ run[r].at = "poll"
      /\ WorkInv(r) /\ run \in [Runs -> Process]
  BY DEF Inv, Typed, Poll
<1>2. b \in Blocks /\ b.tx = run[r].tx
  BY ReceiptIsOfTx DEF Inv, Poll
<1>3. e \in Entries /\ e.kind = "receipt" /\ e.tx = run[r].tx
  BY <1>1, <1>2 DEF Entries, EntryKinds, Process
<1>4. stop \in Entries /\ stop.kind = "stopped"
  BY NoTxIsTx DEF Entries, EntryKinds
<1>5. files.owner = r /\ Prepared \ Receipts \subseteq {run[r].tx}
  BY <1>1 DEF WorkInv, Working, Unsettled
<1>6. UNCHANGED <<chain, pool, made, foreign>>
  BY DEF Poll, Reads
<1>7. \/ /\ run' = [run EXCEPT ![r] = [@ EXCEPT !.at = "check", !.receipts = Append(run[r].receipts, b)]]
         /\ files' = [files EXCEPT !.journal = Append(@, e)]
      \/ /\ run' = Go(r, "stopped")
         /\ files' = [files EXCEPT !.status = "incomplete", !.journal = Append(Append(@, e), stop)]
  BY DEF Poll
<1> HIDE DEF b, e, stop
<1>8. /\ files' \in Files /\ files'.owner = r
      /\ Prepared' = Prepared /\ Receipts' = Receipts \cup {run[r].tx}
      /\ \E new \in Process :
            /\ run' = [run EXCEPT ![r] = new]
            /\ new.at \in {"check", "stopped"} /\ new.tx = run[r].tx /\ new.step = run[r].step
  <2>1. CASE /\ run' = [run EXCEPT ![r] = [@ EXCEPT !.at = "check", !.receipts = Append(run[r].receipts, b)]]
             /\ files' = [files EXCEPT !.journal = Append(@, e)]
    <3> DEFINE new == [run[r] EXCEPT !.at = "check", !.receipts = Append(run[r].receipts, b)]
    <3>1. Append(run[r].receipts, b) \in Seq(Blocks)
      BY <1>1, <1>2 DEF Process
    <3>2. /\ new \in Process /\ new.at = "check"
          /\ new.tx = run[r].tx /\ new.step = run[r].step
      BY <1>1, <3>1 DEF Process, Alive
    <3>3. run' = [run EXCEPT ![r] = new]
      BY <2>1
    <3>4. /\ files' \in Files /\ files'.owner = files.owner
          /\ files'.journal = Append(files.journal, e)
      BY <1>1, <1>3, <2>1, FilesWritten
    <3>5. Prepared' = Prepared /\ Receipts' = Receipts \cup {run[r].tx}
      BY <1>1, <1>3, <3>4, Logged DEF Prepared, Receipts, Files
    <3> HIDE DEF new
    <3>6. QED
      BY <1>5, <3>2, <3>3, <3>4, <3>5
  <2>2. CASE /\ run' = Go(r, "stopped")
             /\ files' = [files EXCEPT !.status = "incomplete", !.journal = Append(Append(@, e), stop)]
    <3> DEFINE new == [run[r] EXCEPT !.at = "stopped"]
               j == Append(files.journal, e)
               k == Append(j, stop)
    <3>1. /\ new \in Process /\ new.at = "stopped"
          /\ new.tx = run[r].tx /\ new.step = run[r].step
      BY <1>1 DEF Process, Ended
    <3>2. run' = [run EXCEPT ![r] = new]
      BY <2>2 DEF Go
    <3>3. files.journal \in Seq(Entries)
      BY <1>1 DEF Files
    <3>4. j \in Seq(Entries) /\ k \in Seq(Entries)
      BY <1>3, <1>4, <3>3
    <3>5. files' = [files EXCEPT !.status = "incomplete", !.journal = k]
      BY <2>2
    <3>6. Journal("prepared", k) = Prepared /\ Journal("receipt", k) = Receipts \cup {run[r].tx}
      <4>1. /\ Journal("prepared", j) = Prepared
            /\ Journal("receipt", j) = Receipts \cup {run[r].tx}
        <5>1. /\ Journal("prepared", j) = Journal("prepared", files.journal)
              /\ Journal("receipt", j) = Journal("receipt", files.journal) \cup {run[r].tx}
          BY <1>3, <3>3, Added
        <5>2. QED
          BY <5>1 DEF Prepared, Receipts, Journalled, Journal
      <4>2. QED
        BY <1>4, <3>4, <4>1, Added
    <3> HIDE DEF new, j, k
    <3>7. files' \in Files /\ files'.owner = files.owner /\ files'.journal = k
      BY <1>1, <3>4, <3>5 DEF Files
    <3>8. Prepared' = Prepared /\ Receipts' = Receipts \cup {run[r].tx}
      BY <3>6, <3>7 DEF Prepared, Receipts, Journalled, Journal
    <3>9. QED
      BY <1>5, <3>1, <3>2, <3>7, <3>8
  <2>3. QED
    BY <1>7, <2>1, <2>2
<1>9. PICK new \in Process :
         /\ run' = [run EXCEPT ![r] = new]
         /\ new.at \in {"check", "stopped"} /\ new.tx = run[r].tx /\ new.step = run[r].step
  BY <1>8
<1>10. Typed'
  BY <1>6, <1>8, <1>9 DEF Inv, Typed
<1>11. JournalInv'
  <2>1. Sent' = Sent
    BY <1>6 DEF Sent
  <2>2. QED
    BY <1>8, <2>1, DeployAssumption DEF Inv, JournalInv
<1>12. WorkInv(r)'
  <2>1. run'[r] = new
    BY <1>1, <1>9
  <2>2. QED
    BY <1>1, <1>5, <1>8, <1>9, <2>1 DEF WorkInv, Working, Before, Unsettled
<1>13. ASSUME NEW q \in Runs, q # r
       PROVE  WorkInv(q)'
  BY <1>1, <1>5, <1>9, <1>13, Others
<1>14. QED
  BY <1>10, <1>11, <1>12, <1>13 DEF Inv

LEMMA CheckFactoryInv ==
  ASSUME Inv, NEW r \in Runs, CheckFactory(r) \/ CheckNonce(r)
  PROVE  Inv'
<1>1. run[r].at \in Before /\ run[r] \in Process /\ Reads
  BY DEF CheckFactory, CheckNonce, Before, Inv, Typed
<1>2. CASE Stop(r)
  BY <1>1, <1>2, StopInv DEF Before, Alive
<1>3. ASSUME NEW stage \in {"nonce", "free"}, run' = Go(r, stage), UNCHANGED files
      PROVE  Inv'
  <2> DEFINE new == [run[r] EXCEPT !.at = stage]
  <2>1. new \in Process /\ new.at \in Before /\ new.step = run[r].step
    BY <1>1, <1>3 DEF Process, Alive, Before
  <2>2. run' = [run EXCEPT ![r] = new] /\ UNCHANGED <<chain, pool, made, foreign, files>>
    BY <1>1, <1>3 DEF Go, Reads
  <2> HIDE DEF new
  <2>3. QED
    BY <1>1, <2>1, <2>2, MoveInv
<1>4. QED
  BY <1>2, <1>3 DEF CheckFactory, CheckNonce

LEMMA CheckResultInv ==
  ASSUME Inv, NEW r \in Runs, CheckResult(r)
  PROVE  Inv'
<1>1. run[r].at = "check" /\ run[r] \in Process /\ Reads
  BY DEF CheckResult, Inv, Typed
<1>2. CASE Stop(r)
  BY <1>1, <1>2, StopInv DEF Alive
<1>3. CASE /\ run' = [run EXCEPT
                 ![r] = [@ EXCEPT
                    !.at = IF run[r].step = Len(Kinds) THEN "reread" ELSE "factory",
                    !.step = NextStep(run[r].step)]]
           /\ UNCHANGED files
  <2> DEFINE stage == IF run[r].step = Len(Kinds) THEN "reread" ELSE "factory"
             k == NextStep(run[r].step)
             new == [run[r] EXCEPT !.at = stage, !.step = k]
  <2>1. k \in Steps
    BY <1>1, PlanNotEmpty DEF Process
  <2>2. stage = "reread" \/ (stage = "factory" /\ k = run[r].step + 1)
    BY DEF NextStep
  <2>3. stage \in Alive \cup Ended
    BY <2>2 DEF Alive
  <2>4. run' = [run EXCEPT ![r] = new] /\ UNCHANGED <<chain, pool, made, foreign, files>>
    BY <1>1, <1>3 DEF Reads
  <2> HIDE DEF stage, k
  <2>5. new \in Process /\ new.at = stage /\ new.step = k
    BY <1>1, <2>1, <2>3 DEF Process
  <2> HIDE DEF new
  <2>6. QED
    BY <1>1, <2>2, <2>4, <2>5, MoveInv
<1>4. QED
  BY <1>2, <1>3 DEF CheckResult

LEMMA RereadInv ==
  ASSUME Inv, NEW r \in Runs, Reread(r)
  PROVE  Inv'
<1>1. run[r].at = "reread" /\ run[r] \in Process /\ Reads /\ files \in Files
  BY DEF Reread, Inv, Typed
<1>2. CASE Stop(r)
  BY <1>1, <1>2, StopInv DEF Alive
<1>3. CASE /\ run[r].step < Len(Kinds)
           /\ run' = [run EXCEPT ![r].step = @ + 1] /\ UNCHANGED files
  <2> DEFINE k == run[r].step + 1
             new == [run[r] EXCEPT !.step = k]
  <2>1. k \in Steps
    BY <1>1, <1>3, PlanNotEmpty DEF Process, Steps
  <2>2. run' = [run EXCEPT ![r] = new] /\ UNCHANGED <<chain, pool, made, foreign, files>>
    BY <1>1, <1>3 DEF Reads
  <2> HIDE DEF k
  <2>3. new \in Process /\ new.at = "reread"
    BY <1>1, <2>1 DEF Process
  <2> HIDE DEF new
  <2>4. QED
    BY <1>1, <2>2, <2>3, MoveInv
<1>4. CASE /\ run' = Go(r, "verified")
           /\ files' = [files EXCEPT !.status = "verified",
                           !.journal = Append(@, [kind |-> "complete", tx |-> NoTx])]
  <2> DEFINE new == [run[r] EXCEPT !.at = "verified"]
             e == [kind |-> "complete", tx |-> NoTx]
  <2>1. new \in Process /\ new.at \in Ended
    BY <1>1 DEF Process, Ended
  <2>2. e \in Entries /\ e.kind = "complete"
    BY NoTxIsTx DEF Entries, EntryKinds
  <2>3. run' = [run EXCEPT ![r] = new] /\ UNCHANGED <<chain, pool, made, foreign>>
    BY <1>1, <1>4 DEF Go, Reads
  <2>4. files' = [files EXCEPT !.status = "verified", !.journal = Append(@, e)]
    BY <1>4
  <2> HIDE DEF new, e
  <2>5. /\ files' \in Files /\ files'.owner = files.owner
        /\ files'.journal = Append(files.journal, e)
    BY <1>1, <2>2, <2>4, FilesWritten
  <2>6. QED
    BY <1>1, <2>1, <2>2, <2>3, <2>5, WriteInv DEF Working
<1>5. QED
  BY <1>2, <1>3, <1>4 DEF Reread

LEMMA CrashInv ==
  ASSUME Inv, NEW r \in Runs, Crash(r)
  PROVE  Inv'
<1> DEFINE new == [run[r] EXCEPT !.at = "crashed"]
<1>1. new \in Process /\ new.at \in Ended
  BY DEF Inv, Typed, Process, Ended
<1>2. run' = [run EXCEPT ![r] = new] /\ UNCHANGED <<chain, pool, made, foreign, files>>
  BY DEF Crash, Go
<1> HIDE DEF new
<1>3. QED
  BY <1>1, <1>2, MoveInv

-----------------------------------------------------------------------------
(* The chain and the others on it: nothing they do puts a transaction of a *)
(* run anywhere that was not journalled before.                            *)

LEMMA WorldInv ==
  ASSUME Inv, UNCHANGED <<files, run>>, Typed', Sent' \subseteq Prepared
  PROVE  Inv'
<1>1. Prepared' = Prepared /\ Receipts' = Receipts
  BY SameJournal DEF Prepared, Receipts
<1>2. JournalInv'
  BY <1>1 DEF Inv, JournalInv
<1>3. ASSUME NEW r \in Runs
      PROVE  WorkInv(r)'
  BY <1>1 DEF Inv, WorkInv
<1>4. QED
  BY <1>2, <1>3 DEF Inv

LEMMA SentTxs == Sent = {tx \in pool \cup ChainTxs : tx.by \in Runs}
  BY DEF Sent, ChainTxs

LEMMA BlockTyped ==
  ASSUME Typed, NEW tx \in Txs, Block(tx)
  PROVE  /\ chain' \in Seq(Blocks) /\ made' \in 0..MaxBlocks
         /\ ChainTxs' = ChainTxs \cup {tx}
<1>1. PICK ok \in BOOLEAN : chain' = Append(chain, [name |-> made + 1, tx |-> tx, ok |-> ok])
  BY DEF Block
<1> DEFINE b == [name |-> made + 1, tx |-> tx, ok |-> ok]
<1>2. b \in Blocks /\ b.tx = tx /\ made' \in 0..MaxBlocks
  BY CountersTyped DEF Blocks, Block
<1> HIDE DEF b
<1>3. chain' = Append(chain, b)
  BY <1>1 DEF b
<1>4. QED
  BY <1>2, <1>3, ChainGrows DEF Typed

LEMMA MineInv ==
  ASSUME Inv, NEW tx \in pool, Mine(tx)
  PROVE  Inv'
<1>1. tx \in Txs /\ pool' = pool \ {tx} /\ UNCHANGED <<foreign, files, run>> /\ Block(tx)
  BY DEF Inv, Typed, Mine
<1>2. chain' \in Seq(Blocks) /\ made' \in 0..MaxBlocks /\ ChainTxs' = ChainTxs \cup {tx}
  BY <1>1, BlockTyped DEF Inv
<1>3. Typed'
  BY <1>1, <1>2, FS_RemoveElement DEF Inv, Typed
<1>4. Sent' \subseteq Sent
  <2>1. Sent' = {t \in pool' \cup ChainTxs' : t.by \in Runs}
    BY SentTxs DEF Sent, ChainTxs
  <2>2. QED
    BY <1>1, <1>2, <2>1, SentTxs
<1>5. QED
  BY <1>1, <1>3, <1>4, WorldInv DEF Inv, JournalInv

LEMMA UseFactoryInv ==
  ASSUME Inv, UseFactory
  PROVE  Inv'
<1>1. PICK k \in {0} \cup {j \in Steps : Kinds[j] = "archive"} :
         Block([by |-> Public, step |-> k, nonce |-> foreign])
  BY DEF UseFactory
<1> DEFINE tx == [by |-> Public, step |-> k, nonce |-> foreign]
<1>2. tx \in Txs /\ tx.by \notin Runs
  <2>1. k \in 0..Len(Kinds) /\ foreign \in Nat
    BY PlanNotEmpty, CountersTyped DEF Inv
  <2>2. Public \notin Runs
    BY DeployAssumption
  <2>3. QED
    BY <2>1, <2>2 DEF Txs
<1> HIDE DEF tx
<1>3. chain' \in Seq(Blocks) /\ made' \in 0..MaxBlocks /\ ChainTxs' = ChainTxs \cup {tx}
  BY <1>1, <1>2, BlockTyped DEF Inv, tx
<1>4. UNCHANGED <<pool, files, run>> /\ foreign' \in 0..MaxForeign
  BY CountersTyped DEF UseFactory, Inv
<1>5. Typed'
  BY <1>3, <1>4 DEF Inv, Typed
<1>6. Sent' \subseteq Sent
  <2>1. Sent' = {t \in pool' \cup ChainTxs' : t.by \in Runs}
    BY SentTxs DEF Sent, ChainTxs
  <2>2. QED
    BY <1>2, <1>3, <1>4, <2>1, SentTxs
<1>7. QED
  BY <1>4, <1>5, <1>6, WorldInv DEF Inv, JournalInv

LEMMA UseKeyInv ==
  ASSUME Inv, UseKey
  PROVE  Inv'
<1> DEFINE tx == [by |-> Rival, step |-> 0, nonce |-> PendingNonce]
<1>1. tx \in Txs /\ tx.by \notin Runs
  BY PendingNonceNat, PlanNotEmpty, DeployAssumption DEF Txs, Inv
<1>2. pool' = pool \cup {tx} /\ UNCHANGED <<chain, made, files, run>> /\ foreign' \in 0..MaxForeign
  BY CountersTyped DEF UseKey, Inv
<1> HIDE DEF tx
<1>3. Typed'
  BY <1>1, <1>2, FS_AddElement DEF Inv, Typed
<1>4. Sent' \subseteq Sent
  BY <1>1, <1>2 DEF Sent
<1>5. QED
  BY <1>2, <1>3, <1>4, WorldInv DEF Inv, JournalInv

LEMMA ReorganiseInv ==
  ASSUME Inv, Reorganise
  PROVE  Inv'
<1>1. PICK n \in 0..(Len(chain) - 1) :
         LET lost == {chain[i].tx : i \in {j \in (n + 1)..Len(chain) : Signed(chain[j])}} IN
         /\ chain' = SubSeq(chain, 1, n)
         /\ \E back \in SUBSET lost : pool' = pool \cup back
         /\ UNCHANGED <<made, foreign, files, run>>
  BY DEF Reorganise
<1> DEFINE high == {j \in (n + 1)..Len(chain) : Signed(chain[j])}
           lost == {chain[i].tx : i \in high}
<1>2. Len(chain) \in Nat /\ n \in Nat /\ high \subseteq 1..Len(chain)
  BY DEF Inv, Typed
<1>3. IsFiniteSet(high)
  <2>1. IsFiniteSet(1..Len(chain))
    BY <1>2, FS_Interval
  <2> HIDE DEF high
  <2>2. QED
    BY <1>2, <2>1, FS_Subset
<1>4. \A i \in high : chain[i].tx \in Txs /\ chain[i].tx \in ChainTxs
  <2>1. \A i \in 1..Len(chain) : i \in DOMAIN chain /\ chain[i] \in Blocks
    BY DEF Inv, Typed
  <2>2. \A i \in 1..Len(chain) : chain[i].tx \in Txs /\ chain[i].tx \in ChainTxs
    BY <2>1 DEF Blocks, ChainTxs
  <2> HIDE DEF high
  <2>3. QED
    BY <1>2, <2>2
<1> HIDE DEF high
<1>5. IsFiniteSet(lost)
  <2> DEFINE f == [i \in high |-> chain[i].tx]
  <2>1. f \in Surjection(high, lost)
    BY DEF Surjection
  <2>2. QED
    BY <1>3, <2>1, FS_Surjection
<1>6. lost \subseteq Txs /\ lost \subseteq ChainTxs
  BY <1>4
<1>7. PICK back \in SUBSET lost : pool' = pool \cup back
  BY <1>1 DEF high
<1> HIDE DEF lost
<1>8. chain' \in Seq(Blocks) /\ ChainTxs' \subseteq ChainTxs
  BY <1>1, ChainShrinks DEF Inv, Typed
<1>9. IsFiniteSet(pool')
  BY <1>5, <1>7, FS_Subset, FS_Union DEF Inv, Typed
<1>10. Typed'
  BY <1>1, <1>6, <1>7, <1>8, <1>9 DEF Inv, Typed
<1>11. Sent' \subseteq Sent
  <2>1. Sent' = {t \in pool' \cup ChainTxs' : t.by \in Runs}
    BY SentTxs DEF Sent, ChainTxs
  <2>2. QED
    BY <1>6, <1>7, <1>8, <2>1, SentTxs
<1>12. QED
  BY <1>1, <1>10, <1>11, WorldInv DEF Inv, JournalInv

LEMMA NextInv == Inv /\ [Next]_vars => Inv'
<1> SUFFICES ASSUME Inv, [Next]_vars PROVE Inv'
  OBVIOUS
<1>1. ASSUME NEW r \in Runs, Fail(r) \/ Deadline(r)
      PROVE  Inv'
  BY <1>1, StopInv DEF Fail, Deadline, Alive
<1>2. ASSUME NEW r \in Runs, Proceed(r)
      PROVE  Inv'
  BY <1>1, <1>2, PreflightInv, OpenFilesInv, CheckFactoryInv, PrepareInv, BroadcastInv,
     PollInv, CheckResultInv, RereadInv DEF Proceed
<1>3. CASE UNCHANGED vars
  <2>1. Typed'
    BY <1>3 DEF vars, Inv, Typed
  <2>2. Sent' = Sent
    BY <1>3 DEF vars, Sent
  <2>3. QED
    BY <1>3, <2>1, <2>2, WorldInv DEF vars, Inv, JournalInv
<1>4. QED
  BY <1>1, <1>2, <1>3, DeliverInv, CrashInv, MineInv, UseFactoryInv, UseKeyInv, ReorganiseInv
     DEF Next

-----------------------------------------------------------------------------
(* What a run's receipts say.  A block that was replaced never comes back, *)
(* and a key's transactions stand in the order of their nonces: so while a *)
(* receipt is on the chain, everything up to it is as it was when it was   *)
(* read, and every earlier receipt is there too.                           *)

OnChain(b) == \E i \in DOMAIN chain : chain[i] = b
SignedTo(n) == {i \in 1..n : Signed(chain[i])}

ChainInv ==
    \A i \in DOMAIN chain :
       /\ chain[i].name <= made
       /\ Signed(chain[i]) => chain[i].tx.nonce = Cardinality(SignedTo(i - 1))

\* The receipts rs of run r are those of its first n steps.
Recorded(r, rs, n) ==
    /\ Len(rs) = n
    /\ \A k \in 1..n :
          /\ rs[k].ok /\ rs[k].name <= made
          /\ rs[k].tx = [by |-> r, step |-> k, nonce |-> files.start + k - 1]

\* The archive planned for step k was seen where it was planned: so if b is on
\* the chain, with as many archives up to it, that archive is one of them.
InPlace(b, k) ==
    \A p \in DOMAIN chain :
       (chain[p] = b /\ Planned(k) <= Cardinality(ArchivesTo(p))) =>
          \E i \in 1..p : /\ IsArchive(chain[i]) /\ Cardinality(ArchivesTo(i)) = Planned(k)
                          /\ chain[i].tx.step = k
Fitting(rs, n) == \A k \in 1..n : Kinds[k] = "archive" => InPlace(rs[k], k)

\* The first n receipts were read again, and are there if the last one is.
ReadAgain(rs, n) == \A k \in 1..n : OnChain(rs[Len(Kinds)]) => OnChain(rs[k])

\* What one run has made of the plan.
PlanInv(r) ==
    LET p == run[r] IN
    /\ p.at \in {"start", "open"} => p.receipts = <<>>
    /\ p.at \in Before \cup Unsettled =>
          Recorded(r, p.receipts, p.step - 1) /\ Fitting(p.receipts, p.step - 1)
    /\ p.at = "check" => Recorded(r, p.receipts, p.step) /\ Fitting(p.receipts, p.step - 1)
    /\ p.at = "reread" =>
          /\ Recorded(r, p.receipts, Len(Kinds)) /\ Fitting(p.receipts, Len(Kinds))
          /\ ReadAgain(p.receipts, p.step - 1)
    /\ p.at \in Before \cup {"flight", "sent"} => p.nonce = files.start + p.step - 1
    /\ p.at \in {"poll", "check"} => p.nonce = files.start + p.step
    /\ p.at \in Unsettled => p.tx = [by |-> r, step |-> p.step, nonce |-> files.start + p.step - 1]

LEMMA ChainTyped ==
  ASSUME Typed
  PROVE  /\ Len(chain) \in Nat /\ DOMAIN chain = 1..Len(chain)
         /\ \A i \in DOMAIN chain :
               chain[i] \in Blocks /\ chain[i].name \in Nat /\ chain[i].tx \in Txs
<1>1. /\ Len(chain) \in Nat /\ DOMAIN chain = 1..Len(chain)
      /\ \A i \in DOMAIN chain : chain[i] \in Blocks
  BY DEF Typed
<1>2. QED
  BY <1>1 DEF Blocks

LEMMA ReceiptsTyped ==
  ASSUME Typed, NEW r \in Runs
  PROVE  /\ run[r] \in Process
         /\ run[r].step \in 1..Len(Kinds) /\ run[r].nonce \in Nat
         /\ Len(run[r].receipts) \in Nat
         /\ Len(Kinds) \in Nat \ {0} /\ files.start \in Nat /\ made \in Nat
<1>1. run[r] \in Process /\ files \in Files /\ made \in Nat
  BY CountersTyped DEF Typed
<1>2. Len(Kinds) \in Nat \ {0}
  BY PlanNotEmpty
<1>3. run[r].receipts \in Seq(Blocks)
  BY <1>1 DEF Process
<1>4. Len(run[r].receipts) \in Nat
  BY <1>3
<1>5. run[r].step \in 1..Len(Kinds) /\ run[r].nonce \in Nat /\ files.start \in Nat
  BY <1>1 DEF Process, Files, Steps
<1>6. QED
  BY <1>1, <1>2, <1>4, <1>5

LEMMA CountsAreFinite ==
  ASSUME NEW n \in Int
  PROVE  /\ IsFiniteSet(SignedTo(n)) /\ Cardinality(SignedTo(n)) \in Nat
         /\ IsFiniteSet(ArchivesTo(n)) /\ Cardinality(ArchivesTo(n)) \in Nat
<1>1. IsFiniteSet(1..n) /\ SignedTo(n) \subseteq 1..n /\ ArchivesTo(n) \subseteq 1..n
  BY FS_Interval DEF SignedTo, ArchivesTo
<1>2. IsFiniteSet(SignedTo(n)) /\ IsFiniteSet(ArchivesTo(n))
  BY <1>1, FS_Subset
<1>3. QED
  BY <1>2, FS_CardinalityType

\* One element more is one more to count.
LEMMA OneMore ==
  ASSUME NEW S, NEW T, IsFiniteSet(T), NEW x, x \in T, x \notin S, S \subseteq T
  PROVE  Cardinality(S) < Cardinality(T)
<1>1. IsFiniteSet(S)
  BY FS_Subset
<1>2. IsFiniteSet(S \cup {x}) /\ Cardinality(S \cup {x}) = Cardinality(S) + 1
  BY <1>1, FS_AddElement
<1>3. S \cup {x} \subseteq T
  OBVIOUS
<1>4. Cardinality(S \cup {x}) <= Cardinality(T)
  BY <1>3, FS_Subset
<1>5. Cardinality(S) \in Nat /\ Cardinality(T) \in Nat
  BY <1>1, FS_CardinalityType
<1>6. QED
  BY <1>2, <1>4, <1>5

\* A key's transactions stand in the order of their nonces.
LEMMA NoncesRise ==
  ASSUME Typed, ChainInv, NEW i \in DOMAIN chain, NEW j \in DOMAIN chain, i < j,
         Signed(chain[i]), Signed(chain[j])
  PROVE  chain[i].tx.nonce < chain[j].tx.nonce
<1>1. i \in Nat /\ j \in Nat /\ i - 1 \in Int /\ j - 1 \in Int /\ i <= j - 1 /\ 1 <= i
  BY ChainTyped
<1>2. IsFiniteSet(SignedTo(j - 1))
  BY <1>1, CountsAreFinite
<1>3. /\ i \in SignedTo(j - 1) /\ i \notin SignedTo(i - 1)
      /\ SignedTo(i - 1) \subseteq SignedTo(j - 1)
  BY <1>1 DEF SignedTo
<1>4. Cardinality(SignedTo(i - 1)) < Cardinality(SignedTo(j - 1))
  BY <1>2, <1>3, OneMore
<1>5. QED
  BY <1>4 DEF ChainInv

-----------------------------------------------------------------------------
(* The chain moves: its first n blocks stay, and what comes after them is  *)
(* new.                                                                    *)

Kept(n) ==
    /\ n \in Nat /\ 1..n \subseteq DOMAIN chain /\ 1..n \subseteq DOMAIN chain'
    /\ \A i \in 1..n : chain'[i] = chain[i]
    /\ \A i \in DOMAIN chain' : i \in 1..n \/ chain'[i].name = made + 1
    /\ made' \in Nat /\ made <= made'

LEMMA CountsKept ==
  ASSUME NEW n, Kept(n), NEW m \in Int, m <= n
  PROVE  SignedTo(m)' = SignedTo(m) /\ ArchivesTo(m)' = ArchivesTo(m)
<1>1. n \in Nat /\ \A i \in 1..m : i \in 1..n /\ chain'[i] = chain[i]
  BY DEF Kept
<1>2. \A i \in 1..m : /\ Signed(chain[i])' <=> Signed(chain[i])
                      /\ IsArchive(chain[i])' <=> IsArchive(chain[i])
  BY <1>1 DEF Signed, IsArchive
<1>3. QED
  BY <1>2 DEF SignedTo, ArchivesTo

LEMMA OldBlocks ==
  ASSUME NEW n, Kept(n), NEW b, b.name \in Nat, b.name <= made, made \in Nat,
         NEW p \in DOMAIN chain', chain'[p] = b
  PROVE  p \in 1..n /\ p \in DOMAIN chain /\ chain[p] = b
<1>1. p \in 1..n
  BY DEF Kept
<1>2. QED
  BY <1>1 DEF Kept

LEMMA RecordedKept ==
  ASSUME NEW n, Kept(n), made \in Nat, files' = files, NEW r, NEW rs, NEW m,
         \A k \in 1..m : rs[k].name \in Nat, Recorded(r, rs, m)
  PROVE  /\ Len(rs) = m
         /\ \A k \in 1..m :
               /\ rs[k].ok /\ rs[k].name <= made'
               /\ rs[k].tx = [by |-> r, step |-> k, nonce |-> files'.start + k - 1]
<1>1. made' \in Nat /\ made <= made'
  BY DEF Kept
<1>2. ASSUME NEW k \in 1..m
      PROVE  rs[k].name <= made'
  <2>1. rs[k].name \in Nat /\ rs[k].name <= made
    BY DEF Recorded
  <2>2. QED
    BY <1>1, <2>1
<1>3. QED
  BY <1>2 DEF Recorded

\* What was seen in place stays in place.
LEMMA InPlaceKept ==
  ASSUME NEW n, Kept(n), made \in Nat, NEW b, b.name \in Nat, b.name <= made, NEW k,
         InPlace(b, k), DOMAIN chain \subseteq Nat
  PROVE  \A p \in DOMAIN chain' :
            (chain'[p] = b /\ Planned(k) <= Cardinality(ArchivesTo(p)')) =>
               \E i \in 1..p : /\ IsArchive(chain'[i]) /\ Cardinality(ArchivesTo(i)') = Planned(k)
                               /\ chain'[i].tx.step = k
<1> SUFFICES ASSUME NEW p \in DOMAIN chain', chain'[p] = b,
                    Planned(k) <= Cardinality(ArchivesTo(p)')
             PROVE  \E i \in 1..p : /\ IsArchive(chain'[i])
                                    /\ Cardinality(ArchivesTo(i)') = Planned(k)
                                    /\ chain'[i].tx.step = k
  OBVIOUS
<1>1. p \in 1..n /\ p \in DOMAIN chain /\ chain[p] = b /\ p \in Nat /\ n \in Nat
  BY OldBlocks DEF Kept
<1>2. ArchivesTo(p)' = ArchivesTo(p)
  BY <1>1, CountsKept
<1>3. PICK i \in 1..p : /\ IsArchive(chain[i]) /\ Cardinality(ArchivesTo(i)) = Planned(k)
                        /\ chain[i].tx.step = k
  BY <1>1, <1>2 DEF InPlace
<1>4. i \in 1..n /\ i \in Int /\ i <= n
  BY <1>1
<1>5. ArchivesTo(i)' = ArchivesTo(i) /\ chain'[i] = chain[i]
  BY <1>4, CountsKept DEF Kept
<1>6. QED
  BY <1>3, <1>5

LEMMA RecordedTyped ==
  ASSUME NEW r, NEW rs \in Seq(Blocks), NEW n, Recorded(r, rs, n)
  PROVE  n \in Nat /\ \A k \in 1..n : rs[k] \in Blocks /\ rs[k].name \in Nat
<1>1. n = Len(rs) /\ n \in Nat
  BY DEF Recorded
<1>2. \A k \in 1..Len(rs) : rs[k] \in Blocks
  OBVIOUS
<1>3. QED
  BY <1>1, <1>2 DEF Blocks

\* Receipts say what they said, whatever the chain does.
LEMMA ReceiptsKept ==
  ASSUME Typed, ChainInv, NEW n, Kept(n), files' = files,
         NEW r \in Runs, NEW rs \in Seq(Blocks), NEW due, Recorded(r, rs, due)
  PROVE  /\ Recorded(r, rs, due)'
         /\ \A m \in 0..due : Fitting(rs, m) => Fitting(rs, m)'
         /\ \A m \in 0..(due - 1) :
               due = Len(Kinds) /\ ReadAgain(rs, m) => ReadAgain(rs, m)'
<1>1. due \in Nat /\ made \in Nat /\ files.start \in Nat /\ DOMAIN chain \subseteq Nat
  BY RecordedTyped, ReceiptsTyped, ChainTyped
<1>2. \A k \in 1..due : rs[k].name \in Nat /\ rs[k].name <= made
  BY RecordedTyped DEF Recorded
<1>3. Recorded(r, rs, due)'
  <2>1. /\ Len(rs) = due
        /\ \A k \in 1..due :
              /\ rs[k].ok /\ rs[k].name <= made'
              /\ rs[k].tx = [by |-> r, step |-> k, nonce |-> files'.start + k - 1]
    BY <1>1, <1>2, RecordedKept
  <2>2. QED
    BY <2>1 DEF Recorded
<1>4. ASSUME NEW k \in 1..due, InPlace(rs[k], k)
      PROVE  InPlace(rs[k], k)'
  <2>1. \A p \in DOMAIN chain' :
            (chain'[p] = rs[k] /\ Planned(k) <= Cardinality(ArchivesTo(p)')) =>
               \E i \in 1..p : /\ IsArchive(chain'[i])
                               /\ Cardinality(ArchivesTo(i)') = Planned(k)
                               /\ chain'[i].tx.step = k
    BY <1>1, <1>2, <1>4, InPlaceKept
  <2>2. QED
    BY <2>1 DEF InPlace
<1>5. ASSUME NEW k \in 1..due, k < due, OnChain(rs[due]) => OnChain(rs[k]),
             NEW q \in DOMAIN chain', chain'[q] = rs[due]
      PROVE  \E p \in DOMAIN chain' : chain'[p] = rs[k]
  <2>1. due \in 1..due
    BY <1>1, <1>5
  <2>2. q \in 1..n /\ q \in DOMAIN chain /\ chain[q] = rs[due]
    BY <1>1, <1>2, <1>5, <2>1, OldBlocks
  <2>3. PICK p \in DOMAIN chain : chain[p] = rs[k]
    BY <1>5, <2>2 DEF OnChain
  <2>4. p \in Nat /\ q \in Nat /\ n \in Nat /\ p >= 1
    BY <2>2, ChainTyped DEF Kept
  <2>5. ~(q <= p)
    <3>1. /\ Signed(chain[p]) /\ Signed(chain[q])
          /\ chain[p].tx.nonce = files.start + k - 1 /\ chain[q].tx.nonce = files.start + due - 1
      <4>1. /\ rs[k].tx = [by |-> r, step |-> k, nonce |-> files.start + k - 1]
            /\ rs[due].tx = [by |-> r, step |-> due, nonce |-> files.start + due - 1]
        BY <1>1, <2>1 DEF Recorded
      <4>2. r # Public
        BY DeployAssumption
      <4>3. QED
        BY <2>2, <2>3, <4>1, <4>2 DEF Signed
    <3>2. chain[p].tx.nonce < chain[q].tx.nonce /\ chain[p].tx.nonce \in Nat
          /\ chain[q].tx.nonce \in Nat
      BY <1>1, <1>5, <2>1, <3>1
    <3>3. p # q
      BY <3>2
    <3>4. ASSUME q < p PROVE FALSE
      BY <2>2, <3>1, <3>2, <3>4, NoncesRise
    <3>5. QED
      BY <2>4, <3>3, <3>4
  <2>6. p \in 1..n
    BY <2>2, <2>4, <2>5
  <2>7. QED
    BY <2>3, <2>6 DEF Kept
<1>6. ASSUME NEW m \in 0..due, Fitting(rs, m)
      PROVE  Fitting(rs, m)'
  <2>1. \A k \in 1..m : k \in 1..due
    BY <1>1
  <2>2. QED
    BY <1>4, <1>6, <2>1 DEF Fitting
<1>7. ASSUME NEW m \in 0..(due - 1), due = Len(Kinds), ReadAgain(rs, m)
      PROVE  ReadAgain(rs, m)'
  <2>1. \A k \in 1..m : k \in 1..due /\ k < due
    BY <1>1
  <2>2. \A k \in 1..m : OnChain(rs[due])' => OnChain(rs[k])'
    BY <1>5, <1>7, <2>1 DEF ReadAgain, OnChain
  <2>3. QED
    BY <1>7, <2>2 DEF ReadAgain
<1>8. QED
  BY <1>3, <1>6, <1>7

\* What a run has made of the plan does not depend on what the chain does.
LEMMA PlanKept ==
  ASSUME Typed, ChainInv, NEW n, Kept(n), UNCHANGED <<files, run>>,
         NEW r \in Runs, PlanInv(r)
  PROVE  PlanInv(r)'
<1> DEFINE rs == run[r].receipts
           k == run[r].step
<1>1. /\ rs \in Seq(Blocks) /\ k \in 1..Len(Kinds) /\ Len(Kinds) \in Nat
      /\ run' = run /\ files' = files
  BY ReceiptsTyped DEF Process
<1>2. CASE run[r].at \in Before \cup Unsettled
  BY <1>1, <1>2, ReceiptsKept DEF PlanInv, Before, Unsettled
<1>3. CASE run[r].at = "check"
  BY <1>1, <1>3, ReceiptsKept DEF PlanInv, Before, Unsettled
<1>4. CASE run[r].at = "reread"
  BY <1>1, <1>4, ReceiptsKept DEF PlanInv, Before, Unsettled
<1>5. CASE run[r].at \notin Before \cup Unsettled \cup {"check", "reread"}
  BY <1>1, <1>5 DEF PlanInv, Before, Unsettled
<1>6. QED
  BY <1>2, <1>3, <1>4, <1>5

-----------------------------------------------------------------------------
(* The chain, and the others on it.                                        *)

\* A block is added: of a key's next transaction, or of none.
LEMMA BlockKept ==
  ASSUME Typed, ChainInv, NEW tx \in Txs, Block(tx),
         tx.by # Public => tx.nonce = MinedNonce
  PROVE  Kept(Len(chain)) /\ ChainInv'
<1>1. PICK ok \in BOOLEAN : chain' = Append(chain, [name |-> made + 1, tx |-> tx, ok |-> ok])
  BY DEF Block
<1> DEFINE n == Len(chain)
           b == [name |-> made + 1, tx |-> tx, ok |-> ok]
<1>2. made \in Nat /\ made' = made + 1
  BY CountersTyped DEF Block
<1>3. /\ b.name = made + 1 /\ b.tx = tx
      /\ Signed(b) => tx.nonce = MinedNonce
  BY DEF Signed
<1>4. chain' = Append(chain, b) /\ chain \in Seq(Blocks)
  BY <1>1 DEF Typed
<1> HIDE DEF b
<1>5. /\ n \in Nat /\ DOMAIN chain = 1..n /\ DOMAIN chain' = 1..(n + 1)
      /\ chain'[n + 1] = b /\ \A i \in 1..n : chain'[i] = chain[i]
  BY <1>4
<1> HIDE DEF n
<1>6. \A i \in 1..(n + 1) : i \in 1..n \/ i = n + 1
  BY <1>5
<1>7. Kept(n)
  BY <1>2, <1>3, <1>5, <1>6 DEF Kept
<1>8. MinedNonce = Cardinality(SignedTo(n))
  BY <1>5 DEF MinedNonce, SignedTo
<1>9. ASSUME NEW i \in DOMAIN chain'
      PROVE  /\ chain'[i].name <= made'
             /\ Signed(chain'[i]) => chain'[i].tx.nonce = Cardinality(SignedTo(i - 1)')
  <2>1. CASE i \in 1..n
    <3>1. i - 1 \in Int /\ i - 1 <= n
      BY <1>5, <2>1
    <3>2. SignedTo(i - 1)' = SignedTo(i - 1)
      BY <1>7, <3>1, CountsKept
    <3>3. chain'[i] = chain[i] /\ i \in DOMAIN chain
      BY <1>5, <2>1
    <3>4. chain[i].name \in Nat /\ chain[i].name <= made
      BY <3>3, ChainTyped DEF ChainInv
    <3>5. QED
      BY <1>2, <3>2, <3>3, <3>4 DEF ChainInv
  <2>2. CASE i = n + 1
    <3>1. i - 1 = n /\ i - 1 \in Int /\ i - 1 <= n
      BY <1>5, <2>2
    <3>2. SignedTo(i - 1)' = SignedTo(i - 1)
      BY <1>7, <3>1, CountsKept
    <3>3. chain'[i] = b
      BY <1>5, <2>2
    <3>4. QED
      BY <1>2, <1>3, <1>8, <3>1, <3>2, <3>3
  <2>3. QED
    BY <1>5, <1>6, <2>1, <2>2
<1>10. ChainInv'
  BY <1>9 DEF ChainInv
<1>11. QED
  BY <1>7, <1>10 DEF n

LEMMA ReorganiseKept ==
  ASSUME Typed, ChainInv, Reorganise
  PROVE  \E n \in Nat : Kept(n) /\ ChainInv'
<1>1. PICK n \in 0..(Len(chain) - 1) : chain' = SubSeq(chain, 1, n) /\ UNCHANGED made
  BY DEF Reorganise
<1>2. chain \in Seq(Blocks) /\ Len(chain) \in Nat /\ made \in Nat
  BY CountersTyped DEF Typed
<1>3. /\ Len(chain') = n /\ DOMAIN chain' = 1..n
      /\ \A i \in 1..n : chain'[i] = chain[i]
  BY <1>1, <1>2
<1>4. n \in Nat /\ 1..n \subseteq DOMAIN chain
  BY <1>1, <1>2
<1>5. Kept(n)
  BY <1>1, <1>2, <1>3, <1>4 DEF Kept
<1>6. ASSUME NEW i \in DOMAIN chain'
      PROVE  /\ chain'[i].name <= made'
             /\ Signed(chain'[i]) => chain'[i].tx.nonce = Cardinality(SignedTo(i - 1)')
  <2>1. i \in 1..n /\ i \in DOMAIN chain /\ chain'[i] = chain[i] /\ i - 1 \in Int /\ i - 1 <= n
    BY <1>3, <1>4
  <2>2. SignedTo(i - 1)' = SignedTo(i - 1)
    BY <1>5, <2>1, CountsKept
  <2>3. QED
    BY <1>1, <2>1, <2>2 DEF ChainInv
<1>7. ChainInv'
  BY <1>6 DEF ChainInv
<1>8. QED
  BY <1>4, <1>5, <1>7

-----------------------------------------------------------------------------
(* The runs again: each step of one leaves the plan of every other as it   *)
(* was, and takes its own further.                                         *)

\* What a step of run r leaves alone.
LEMMA RunFrame ==
  ASSUME Typed, NEW r \in Runs, Proceed(r) \/ Deliver(r) \/ Fail(r) \/ Crash(r)
  PROVE  /\ UNCHANGED <<chain, made>>
         /\ files'.start = files.start \/ NoFiles
         /\ \A q \in Runs : q # r => run'[q] = run[q]
<1>1. run \in [Runs -> Process] /\ files \in Files
  BY DEF Typed
<1>2. ASSUME Stop(r)
      PROVE  files'.start = files.start /\ \A q \in Runs : q # r => run'[q] = run[q]
  BY <1>1, <1>2 DEF Stop, Go, Files
<1>3. CASE Preflight(r)
  BY <1>1, <1>2, <1>3 DEF Preflight, Reads
<1>4. CASE OpenFiles(r)
  BY <1>1, <1>2, <1>4 DEF OpenFiles, Reads, Go
<1>5. CASE CheckFactory(r) \/ CheckNonce(r)
  BY <1>1, <1>2, <1>5 DEF CheckFactory, CheckNonce, Reads, Go
<1>6. CASE Prepare(r)
  BY <1>1, <1>2, <1>6 DEF Prepare, Reads, Log, Files
<1>7. CASE Broadcast(r)
  BY <1>1, <1>7 DEF Broadcast, Reads, Log, Files
<1>8. CASE Poll(r)
  BY <1>1, <1>8 DEF Poll, Reads, Go, Files
<1>9. CASE Deadline(r) \/ Fail(r)
  BY <1>2, <1>9 DEF Deadline, Fail, Reads
<1>10. CASE CheckResult(r)
  BY <1>1, <1>2, <1>10 DEF CheckResult, Reads
<1>11. CASE Reread(r)
  BY <1>1, <1>2, <1>11 DEF Reread, Reads, Go, Files
<1>12. CASE Deliver(r) \/ Crash(r)
  BY <1>1, <1>12 DEF Deliver, Crash, Go
<1>13. QED
  BY <1>3, <1>4, <1>5, <1>6, <1>7, <1>8, <1>9, <1>10, <1>11, <1>12 DEF Proceed

\* Receipts are judged by the chain and the first nonce.
LEMMA SameChain ==
  ASSUME UNCHANGED <<chain, made>>, NEW rs, NEW n
  PROVE  /\ Fitting(rs, n)' <=> Fitting(rs, n)
         /\ ReadAgain(rs, n)' <=> ReadAgain(rs, n)
         /\ files'.start = files.start =>
               \A r \in Runs : Recorded(r, rs, n)' <=> Recorded(r, rs, n)
<1>1. \A i : ArchivesTo(i)' = ArchivesTo(i)
  BY DEF ArchivesTo, IsArchive
<1>2. \A b, k : InPlace(b, k)' <=> InPlace(b, k)
  BY <1>1 DEF InPlace
<1>3. \A b : OnChain(b)' <=> OnChain(b)
  BY DEF OnChain
<1>4. QED
  BY <1>2, <1>3 DEF Fitting, ReadAgain, Recorded

LEMMA OtherPlans ==
  ASSUME Inv, NEW q \in Runs, PlanInv(q), run'[q] = run[q],
         UNCHANGED <<chain, made>>, files'.start = files.start \/ NoFiles
  PROVE  PlanInv(q)'
<1>1. CASE files'.start = files.start
  BY <1>1, SameChain DEF PlanInv
<1>2. CASE NoFiles
  <2>1. run[q].at \notin Working
    BY <1>2, DeployAssumption DEF Inv, WorkInv, NoFiles
  <2>2. QED
    BY <2>1 DEF PlanInv, Working, Before, Unsettled
<1>3. QED
  BY <1>1, <1>2

\* A run that stops has nothing left to keep, and one that only goes from one
\* stage to the next keeps what it had.
LEMMA StagePlan ==
  ASSUME Inv, NEW r \in Runs, PlanInv(r), UNCHANGED <<chain, made>>,
         \/ run'[r].at \in Ended
         \/ /\ files'.start = files.start
            /\ run'[r].receipts = run[r].receipts /\ run'[r].step = run[r].step
            /\ run'[r].nonce = run[r].nonce /\ run'[r].tx = run[r].tx
            /\ \/ run[r].at \in Before /\ run'[r].at \in Before
               \/ run[r].at = "flight" /\ run'[r].at = "sent"
  PROVE  PlanInv(r)'
<1>1. CASE run'[r].at \in Ended
  BY <1>1 DEF PlanInv, Ended, Before, Unsettled
<1>2. CASE run'[r].at \notin Ended
  BY <1>2, SameChain DEF PlanInv, Before, Unsettled
<1>3. QED
  BY <1>1, <1>2

LEMMA StopPlan ==
  ASSUME Inv, NEW r \in Runs, PlanInv(r), UNCHANGED <<chain, made>>, Stop(r)
  PROVE  PlanInv(r)'
<1>1. run'[r].at \in Ended
  BY DEF Stop, Go, Inv, Typed, Process, Ended
<1>2. QED
  BY <1>1, StagePlan

LEMMA EarlyPlan ==
  ASSUME Inv, NEW r \in Runs, PlanInv(r), Preflight(r) \/ OpenFiles(r)
  PROVE  PlanInv(r)'
<1>1. run[r] \in Process /\ run \in [Runs -> Process] /\ UNCHANGED <<chain, made>>
  BY DEF Inv, Typed, Preflight, OpenFiles, Reads
<1>2. CASE Stop(r)
  BY <1>1, <1>2, StopPlan
<1>3. CASE Preflight(r) /\ run' = [run EXCEPT ![r] = [@ EXCEPT !.at = "open", !.nonce = PendingNonce]]
  <2>1. run'[r].at = "open" /\ run'[r].receipts = run[r].receipts
    BY <1>1, <1>3 DEF Process
  <2>2. run[r].receipts = <<>>
    BY <1>3 DEF Preflight, PlanInv
  <2>3. QED
    BY <2>1, <2>2 DEF PlanInv, Before, Unsettled
<1>4. CASE /\ OpenFiles(r) /\ run' = Go(r, "factory")
           /\ files' = [owner |-> r, status |-> "in-progress", start |-> run[r].nonce,
                        journal |-> <<[kind |-> "session", tx |-> NoTx]>>]
  <2>1. /\ run'[r].at = "factory" /\ run'[r].receipts = run[r].receipts
        /\ run'[r].step = run[r].step /\ run'[r].nonce = run[r].nonce
        /\ files'.start = run[r].nonce /\ run[r].nonce \in Nat
    BY <1>1, <1>4 DEF Process, Go
  <2>2. run[r].receipts = <<>> /\ run[r].step = 1
    BY <1>4 DEF OpenFiles, PlanInv, Inv, WorkInv
  <2>3. Len(run'[r].receipts) = 0 /\ run'[r].step - 1 = 0
    BY <2>1, <2>2
  <2>4. QED
    BY <2>1, <2>3 DEF PlanInv, Recorded, Fitting, Before, Unsettled
<1>5. QED
  BY <1>2, <1>3, <1>4 DEF Preflight, OpenFiles

LEMMA WaitPlan ==
  ASSUME Inv, NEW r \in Runs, PlanInv(r), CheckFactory(r) \/ CheckNonce(r) \/ Deliver(r)
  PROVE  PlanInv(r)'
<1>1. run[r] \in Process /\ run \in [Runs -> Process] /\ UNCHANGED <<chain, made>>
  BY DEF Inv, Typed, CheckFactory, CheckNonce, Deliver, Reads
<1>2. CASE Stop(r)
  BY <1>1, <1>2, StopPlan
<1>3. ASSUME NEW stage, run' = Go(r, stage), UNCHANGED files,
             \/ run[r].at \in Before /\ stage \in Before
             \/ run[r].at = "flight" /\ stage = "sent"
      PROVE  PlanInv(r)'
  <2>1. /\ run'[r].at = stage /\ run'[r].receipts = run[r].receipts
        /\ run'[r].step = run[r].step /\ run'[r].nonce = run[r].nonce
        /\ run'[r].tx = run[r].tx
    BY <1>1, <1>3 DEF Process, Go
  <2>2. QED
    BY <1>1, <1>3, <2>1, StagePlan
<1>4. QED
  BY <1>2, <1>3 DEF CheckFactory, CheckNonce, Deliver, Before

LEMMA PreparePlan ==
  ASSUME Inv, NEW r \in Runs, PlanInv(r), Prepare(r)
  PROVE  PlanInv(r)'
<1> DEFINE tx == [by |-> r, step |-> run[r].step, nonce |-> run[r].nonce]
<1>1. /\ run[r] \in Process /\ run \in [Runs -> Process]
      /\ files \in Files /\ UNCHANGED <<chain, made>>
  BY DEF Inv, Typed, Prepare, Reads
<1>2. CASE Stop(r)
  BY <1>1, <1>2, StopPlan
<1>3. CASE run' = [run EXCEPT ![r] = [@ EXCEPT !.at = "flight", !.tx = tx]] /\ Log("prepared", tx)
  <2>1. run[r].at = "free" /\ run[r].nonce = files.start + run[r].step - 1
    BY DEF Prepare, PlanInv, Before
  <2>2. tx = [by |-> r, step |-> run[r].step, nonce |-> files.start + run[r].step - 1]
    BY <2>1
  <2> HIDE DEF tx
  <2>3. /\ run'[r].at = "flight" /\ run'[r].receipts = run[r].receipts
        /\ run'[r].step = run[r].step /\ run'[r].nonce = run[r].nonce /\ run'[r].tx = tx
        /\ files'.start = files.start
    BY <1>1, <1>3 DEF Process, Log, Files
  <2>4. QED
    BY <1>1, <2>1, <2>2, <2>3, SameChain DEF PlanInv, Before, Unsettled
<1>4. QED
  BY <1>2, <1>3 DEF Prepare

LEMMA BroadcastPlan ==
  ASSUME Inv, NEW r \in Runs, PlanInv(r), Broadcast(r)
  PROVE  PlanInv(r)'
<1>1. /\ run[r] \in Process /\ run \in [Runs -> Process]
      /\ files \in Files /\ UNCHANGED <<chain, made>>
  BY DEF Inv, Typed, Broadcast, Reads
<1> DEFINE n == run[r].nonce + 1
<1>2. run' = [run EXCEPT ![r] = [@ EXCEPT !.at = "poll", !.nonce = n]] /\ run[r].at = "sent"
  BY DEF Broadcast
<1>3. run[r].nonce = files.start + run[r].step - 1
  BY <1>2 DEF PlanInv, Before
<1>4. n = files.start + run[r].step
  BY <1>3, ReceiptsTyped DEF Inv
<1> HIDE DEF n
<1>5. /\ run'[r].at = "poll" /\ run'[r].receipts = run[r].receipts
      /\ run'[r].step = run[r].step /\ run'[r].tx = run[r].tx /\ run'[r].nonce = n
  BY <1>1, <1>2 DEF Process
<1>6. files'.start = files.start
  BY <1>1 DEF Broadcast, Log, Files
<1>7. QED
  BY <1>1, <1>2, <1>4, <1>5, <1>6, SameChain DEF PlanInv, Before, Unsettled

LEMMA PollPlan ==
  ASSUME Inv, ChainInv, NEW r \in Runs, PlanInv(r), Poll(r)
  PROVE  PlanInv(r)'
<1> DEFINE b == ReceiptOf(run[r].tx)
           rs == Append(run[r].receipts, b)
           k == run[r].step
<1>1. /\ run[r] \in Process /\ run \in [Runs -> Process]
      /\ files \in Files /\ UNCHANGED <<chain, made>>
  BY DEF Inv, Typed, Poll, Reads
<1>2. CASE run'[r].at = "stopped"
  BY <1>1, <1>2, StagePlan DEF Ended
<1>3. CASE b.ok /\ run' = [run EXCEPT ![r] = [@ EXCEPT !.at = "check", !.receipts = rs]]
           /\ files'.start = files.start
  <2>1. b \in Blocks /\ b.tx = run[r].tx /\ b.name <= made
    <3> DEFINE i == CHOOSE m \in DOMAIN chain : chain[m].tx = run[r].tx
    <3>1. i \in DOMAIN chain
      BY DEF Poll, Included
    <3>2. chain[i].name <= made
      BY <3>1 DEF ChainInv
    <3>3. QED
      BY <3>2, ReceiptIsOfTx DEF Inv, Poll, ReceiptOf
  <2>2. run[r].at = "poll"
    BY DEF Poll
  <2>3. /\ Recorded(r, run[r].receipts, k - 1) /\ Fitting(run[r].receipts, k - 1)
        /\ run[r].nonce = files.start + k
        /\ b.tx = [by |-> r, step |-> k, nonce |-> files.start + k - 1]
    BY <2>1, <2>2 DEF PlanInv, Unsettled
  <2>4. /\ run[r].receipts \in Seq(Blocks) /\ k \in Nat /\ k >= 1
        /\ Len(run[r].receipts) = k - 1
    BY <1>1, <2>3, ReceiptsTyped DEF Inv, Process, Recorded
  <2> HIDE DEF b
  <2>5. /\ Len(rs) = k /\ rs[k] = b
        /\ \A j \in 1..(k - 1) : rs[j] = run[r].receipts[j]
    BY <2>1, <2>4
  <2>6. /\ run'[r].at = "check" /\ run'[r].receipts = rs /\ run'[r].step = k
        /\ run'[r].nonce = run[r].nonce
    BY <1>1, <1>3 DEF Process
  <2> HIDE DEF rs, k
  <2>7. Recorded(r, rs, k)
    <3>1. \A j \in 1..k : j \in 1..(k - 1) \/ j = k
      BY <2>4
    <3>2. QED
      BY <1>3, <2>1, <2>3, <2>5, <3>1 DEF Recorded
  <2>8. Fitting(rs, k - 1)
    BY <2>3, <2>5 DEF Fitting
  <2>9. QED
    BY <1>1, <1>3, <2>3, <2>6, <2>7, <2>8, SameChain DEF PlanInv, Before, Unsettled
<1>4. CASE run' = Go(r, "stopped")
  BY <1>1, <1>2, <1>4 DEF Go, Process
<1>5. QED
  BY <1>1, <1>3, <1>4 DEF Poll, Files

\* An archive that stands where the plan put it, with fewer before it than the
\* receipt has, stands below the receipt.
LEMMA SeenInPlace ==
  ASSUME Typed, NEW k, NEW b, Archived(Planned(k), k)
  PROVE  InPlace(b, k)
<1> SUFFICES ASSUME NEW p \in DOMAIN chain, Planned(k) <= Cardinality(ArchivesTo(p))
             PROVE  \E i \in 1..p : /\ IsArchive(chain[i])
                                    /\ Cardinality(ArchivesTo(i)) = Planned(k)
                                    /\ chain[i].tx.step = k
  BY DEF InPlace
<1>1. PICK i \in DOMAIN chain : /\ IsArchive(chain[i]) /\ Cardinality(ArchivesTo(i)) = Planned(k)
                                /\ chain[i].tx.step = k
  BY DEF Archived
<1>2. i \in Nat /\ i >= 1 /\ p \in Nat
  BY ChainTyped
<1>3. ASSUME p < i PROVE FALSE
  <2>1. i \in ArchivesTo(i) /\ i \notin ArchivesTo(p) /\ ArchivesTo(p) \subseteq ArchivesTo(i)
    BY <1>1, <1>2, <1>3 DEF ArchivesTo
  <2>2. IsFiniteSet(ArchivesTo(i)) /\ Cardinality(ArchivesTo(i)) \in Nat
        /\ Cardinality(ArchivesTo(p)) \in Nat
    BY <1>2, CountsAreFinite
  <2>3. Cardinality(ArchivesTo(p)) < Cardinality(ArchivesTo(i))
    BY <2>1, <2>2, OneMore
  <2>4. QED
    BY <1>1, <2>2, <2>3
<1>4. i \in 1..p
  BY <1>2, <1>3
<1>5. QED
  BY <1>1, <1>4

LEMMA CheckResultPlan ==
  ASSUME Inv, NEW r \in Runs, PlanInv(r), CheckResult(r)
  PROVE  PlanInv(r)'
<1> DEFINE stage == IF run[r].step = Len(Kinds) THEN "reread" ELSE "factory"
           k == run[r].step
           next == NextStep(k)
<1>1. run[r] \in Process /\ run \in [Runs -> Process] /\ UNCHANGED <<chain, made>>
  BY DEF Inv, Typed, CheckResult, Reads
<1>2. CASE Stop(r)
  BY <1>1, <1>2, StopPlan
<1>3. CASE /\ AsPlanned(r)
           /\ run' = [run EXCEPT ![r] = [@ EXCEPT !.at = stage, !.step = next]]
           /\ UNCHANGED files
  <2>1. /\ run[r].at = "check" /\ Recorded(r, run[r].receipts, k) /\ Fitting(run[r].receipts, k - 1)
        /\ run[r].nonce = files.start + k
    BY DEF CheckResult, PlanInv
  <2>2. k \in 1..Len(Kinds) /\ k \in Nat /\ Len(Kinds) \in Nat /\ files.start \in Nat
    BY ReceiptsTyped DEF Inv
  <2>3. Kinds[k] = "archive" => InPlace(run[r].receipts[k], k)
    BY <1>3, SeenInPlace DEF AsPlanned, Inv
  <2>4. Fitting(run[r].receipts, k)
    <3>1. \A j \in 1..k : j \in 1..(k - 1) \/ j = k
      BY <2>2
    <3>2. QED
      BY <2>1, <2>3, <3>1 DEF Fitting
  <2>5. \/ k = Len(Kinds) /\ stage = "reread" /\ next = 1
        \/ k < Len(Kinds) /\ stage = "factory" /\ next = k + 1
    BY <2>2 DEF NextStep
  <2> HIDE DEF stage, next
  <2>6. /\ run'[r].at = stage /\ run'[r].receipts = run[r].receipts
        /\ run'[r].step = next /\ run'[r].nonce = run[r].nonce
    BY <1>1, <1>3 DEF Process
  <2>7. CASE k = Len(Kinds) /\ stage = "reread" /\ next = 1
    <3>1. run'[r].step - 1 = 0
      BY <2>6, <2>7
    <3>2. ReadAgain(run[r].receipts, 0)
      BY DEF ReadAgain
    <3>3. QED
      BY <1>1, <1>3, <2>1, <2>4, <2>6, <2>7, <3>1, <3>2, SameChain DEF PlanInv, Before, Unsettled
  <2>8. CASE stage = "factory" /\ next = k + 1
    <3>1. run'[r].step - 1 = k /\ run'[r].nonce = files'.start + run'[r].step - 1
      BY <1>3, <2>1, <2>2, <2>6, <2>8
    <3>2. QED
      BY <1>1, <1>3, <2>1, <2>4, <2>6, <2>8, <3>1, SameChain DEF PlanInv, Before, Unsettled
  <2>9. QED
    BY <2>5, <2>7, <2>8
<1>4. QED
  BY <1>2, <1>3 DEF CheckResult

LEMMA StandsOnChain ==
  ASSUME NEW b, Stands(b)
  PROVE  OnChain(b)
<1> DEFINE i == CHOOSE m \in DOMAIN chain : chain[m].tx = b.tx
<1>1. i \in DOMAIN chain
  BY DEF Stands, Included
<1>2. QED
  BY <1>1 DEF Stands, ReceiptOf, OnChain

LEMMA RereadPlan ==
  ASSUME Inv, NEW r \in Runs, PlanInv(r), Reread(r)
  PROVE  PlanInv(r)'
<1> DEFINE k == run[r].step
           next == k + 1
<1>1. run[r] \in Process /\ run \in [Runs -> Process] /\ UNCHANGED <<chain, made>>
  BY DEF Inv, Typed, Reread, Reads
<1>2. CASE Stop(r)
  BY <1>1, <1>2, StopPlan
<1>3. CASE /\ Stands(run[r].receipts[run[r].step])
           /\ run' = [run EXCEPT ![r].step = @ + 1] /\ UNCHANGED files
  <2>1. /\ run[r].at = "reread"
        /\ Recorded(r, run[r].receipts, Len(Kinds)) /\ Fitting(run[r].receipts, Len(Kinds))
        /\ ReadAgain(run[r].receipts, k - 1)
    BY DEF Reread, PlanInv
  <2>2. k \in Nat /\ next - 1 = k
    BY ReceiptsTyped DEF Inv
  <2>3. OnChain(run[r].receipts[k])
    BY <1>3, StandsOnChain
  <2>4. ReadAgain(run[r].receipts, k)
    <3>1. \A j \in 1..k : j \in 1..(k - 1) \/ j = k
      BY <2>2
    <3>2. QED
      BY <2>1, <2>3, <3>1 DEF ReadAgain
  <2>5. run' = [run EXCEPT ![r].step = next]
    BY <1>3
  <2> HIDE DEF next
  <2>6. run'[r].at = "reread" /\ run'[r].receipts = run[r].receipts /\ run'[r].step = next
    BY <1>1, <2>1, <2>5 DEF Process
  <2>7. QED
    BY <1>1, <1>3, <2>1, <2>2, <2>4, <2>6, SameChain DEF PlanInv, Before, Unsettled
<1>4. CASE run' = Go(r, "verified")
  <2>1. run'[r].at \in Ended
    BY <1>1, <1>4 DEF Go, Process, Ended
  <2>2. QED
    BY <1>1, <2>1, StagePlan
<1>5. QED
  BY <1>2, <1>3, <1>4 DEF Reread

DeployInv == Inv /\ ChainInv /\ \A r \in Runs : PlanInv(r)

LEMMA InitPlan == Init => DeployInv
<1> SUFFICES ASSUME Init PROVE DeployInv
  OBVIOUS
<1>1. ChainInv
  BY DEF Init, ChainInv
<1>2. ASSUME NEW r \in Runs PROVE PlanInv(r)
  BY DEF Init, Begin, PlanInv, Before, Unsettled
<1>3. QED
  BY <1>1, <1>2, InitInv DEF DeployInv

LEMMA RunPlan ==
  ASSUME DeployInv, NEW r \in Runs, Proceed(r) \/ Deliver(r) \/ Fail(r) \/ Crash(r)
  PROVE  ChainInv' /\ \A q \in Runs : PlanInv(q)'
<1>1. /\ UNCHANGED <<chain, made>>
      /\ files'.start = files.start \/ NoFiles
      /\ \A q \in Runs : q # r => run'[q] = run[q]
  BY RunFrame DEF DeployInv, Inv
<1>2. Inv /\ ChainInv /\ PlanInv(r)
  BY DEF DeployInv
<1>3. ChainInv'
  BY <1>1, <1>2 DEF ChainInv, SignedTo, Signed
<1>4. PlanInv(r)'
  <2>1. CASE Fail(r) \/ Deadline(r)
    BY <1>1, <1>2, <2>1, StopPlan DEF Fail, Deadline
  <2>2. CASE Crash(r)
    <3>1. run'[r].at \in Ended
      BY <1>2, <2>2 DEF Crash, Go, Inv, Typed, Process, Ended
    <3>2. QED
      BY <1>1, <1>2, <3>1, StagePlan
  <2>3. QED
    BY <1>2, <2>1, <2>2, EarlyPlan, WaitPlan, PreparePlan, BroadcastPlan, PollPlan,
       CheckResultPlan, RereadPlan DEF Proceed
<1>5. ASSUME NEW q \in Runs, q # r PROVE PlanInv(q)'
  BY <1>1, <1>5, OtherPlans DEF DeployInv
<1>6. QED
  BY <1>3, <1>4, <1>5

LEMMA WorldPlan ==
  ASSUME DeployInv,
         \/ \E tx \in pool : Mine(tx)
         \/ UseFactory \/ UseKey \/ Reorganise \/ UNCHANGED vars
  PROVE  ChainInv' /\ \A q \in Runs : PlanInv(q)'
<1>1. Inv /\ Typed /\ ChainInv /\ UNCHANGED <<files, run>>
  BY DEF DeployInv, Inv, Mine, UseFactory, UseKey, Reorganise, vars
<1>2. ASSUME NEW n, Kept(n)
      PROVE  \A q \in Runs : PlanInv(q)'
  BY <1>1, <1>2, PlanKept DEF DeployInv
<1>3. CASE UNCHANGED <<chain, made>>
  <2>1. ChainInv'
    BY <1>1, <1>3 DEF ChainInv, SignedTo, Signed
  <2>2. \A q \in Runs : PlanInv(q)'
    BY <1>1, <1>3, OtherPlans DEF DeployInv
  <2>3. QED
    BY <2>1, <2>2
<1>4. ASSUME NEW tx \in Txs, Block(tx), tx.by # Public => tx.nonce = MinedNonce
      PROVE  ChainInv' /\ \A q \in Runs : PlanInv(q)'
  BY <1>1, <1>2, <1>4, BlockKept
<1>5. ASSUME NEW tx \in pool, Mine(tx)
      PROVE  ChainInv' /\ \A q \in Runs : PlanInv(q)'
  <2>1. tx \in Txs
    BY <1>1 DEF Typed
  <2>2. QED
    BY <1>4, <1>5, <2>1 DEF Mine
<1>6. CASE UseFactory
  <2>1. PICK k \in {0} \cup {j \in Steps : Kinds[j] = "archive"} :
           Block([by |-> Public, step |-> k, nonce |-> foreign])
    BY <1>6 DEF UseFactory
  <2> DEFINE tx == [by |-> Public, step |-> k, nonce |-> foreign]
  <2>2. k \in 0..Len(Kinds) /\ foreign \in Nat
    BY <1>1, PlanNotEmpty, CountersTyped
  <2>3. tx \in Txs /\ tx.by = Public
    BY <2>2 DEF Txs
  <2> HIDE DEF tx
  <2>4. Block(tx)
    BY <2>1 DEF tx
  <2>5. QED
    BY <1>4, <2>3, <2>4
<1>7. CASE Reorganise
  <2>1. PICK n \in Nat : Kept(n) /\ ChainInv'
    BY <1>1, <1>7, ReorganiseKept
  <2>2. QED
    BY <1>2, <2>1
<1>8. CASE UseKey \/ UNCHANGED vars
  BY <1>3, <1>8 DEF UseKey, vars
<1>9. QED
  BY <1>5, <1>6, <1>7, <1>8

LEMMA NextPlan == DeployInv /\ [Next]_vars => DeployInv'
<1> SUFFICES ASSUME DeployInv, [Next]_vars PROVE DeployInv'
  OBVIOUS
<1>1. Inv'
  BY NextInv DEF DeployInv
<1>2. ChainInv' /\ \A r \in Runs : PlanInv(r)'
  BY RunPlan, WorldPlan DEF Next
<1>3. QED
  BY <1>1, <1>2 DEF DeployInv

-----------------------------------------------------------------------------
(* A run that says so is deployed.                                         *)

\* The archives of the plan up to step k are all below the receipt of k.
LEMMA EnoughArchives ==
  ASSUME Inv, ChainInv, NEW r \in Runs, NEW rs, NEW n \in Nat, n <= Len(Kinds),
         Recorded(r, rs, n), \A k \in 1..n : OnChain(rs[k]),
         NEW k \in 1..n, NEW p \in DOMAIN chain, chain[p] = rs[k]
  PROVE  Planned(k) <= Cardinality(ArchivesTo(p))
<1> DEFINE S == {j \in 1..k : Kinds[j] = "archive"}
           f == [j \in S |-> CHOOSE m \in DOMAIN chain : chain[m] = rs[j]]
<1>1. Typed /\ p \in Nat /\ files.start \in Nat
  BY ChainTyped, ReceiptsTyped DEF Inv
<1>2. ASSUME NEW j \in 1..k
      PROVE  /\ rs[j].ok /\ rs[j].tx.by = r /\ rs[j].tx.step = j
             /\ rs[j].tx.nonce = files.start + j - 1 /\ j \in Nat /\ k \in Nat
             /\ \E m \in DOMAIN chain : chain[m] = rs[j]
  <2>1. j \in 1..n
    OBVIOUS
  <2>2. rs[j].ok /\ rs[j].tx = [by |-> r, step |-> j, nonce |-> files.start + j - 1]
    BY <2>1 DEF Recorded
  <2>3. \E m \in DOMAIN chain : chain[m] = rs[j]
    BY <2>1 DEF OnChain
  <2>4. QED
    BY <2>2, <2>3
<1>3. r # Public
  BY DeployAssumption
<1>4. ASSUME NEW j \in 1..k, NEW m \in DOMAIN chain, chain[m] = rs[j]
      PROVE  m \in 1..p
  <2>1. m \in Nat /\ m >= 1
    BY <1>1, ChainTyped
  <2>2. /\ Signed(chain[m]) /\ Signed(chain[p])
        /\ chain[m].tx.nonce = files.start + j - 1 /\ chain[p].tx.nonce = files.start + k - 1
        /\ j \in Nat /\ k \in Nat /\ j <= k
    <3>1. k \in 1..k
      OBVIOUS
    <3>2. QED
      BY <1>2, <1>3, <1>4, <3>1 DEF Signed
  <2>3. ASSUME p < m PROVE FALSE
    <3>1. chain[p].tx.nonce < chain[m].tx.nonce
      BY <1>1, <2>2, <2>3, NoncesRise
    <3>2. QED
      BY <1>1, <2>2, <3>1
  <2>4. QED
    BY <1>1, <2>1, <2>3
<1>5. ASSUME NEW j \in S
      PROVE  f[j] \in ArchivesTo(p) /\ chain[f[j]] = rs[j]
  <2>1. j \in 1..k /\ Kinds[j] = "archive"
    OBVIOUS
  <2>2. f[j] \in DOMAIN chain /\ chain[f[j]] = rs[j]
    BY <1>2, <2>1
  <2> HIDE DEF f, S
  <2>3. f[j] \in 1..p
    BY <1>4, <2>1, <2>2
  <2>4. IsArchive(chain[f[j]])
    BY <1>2, <2>1, <2>2 DEF IsArchive
  <2>5. QED
    BY <2>2, <2>3, <2>4 DEF ArchivesTo
<1>6. \A i, j \in S : f[i] = f[j] => i = j
  <2>1. \A j \in S : rs[j].tx.step = j
    BY <1>2
  <2> HIDE DEF f, S
  <2>2. QED
    BY <1>5, <2>1
<1>7. f \in [S -> ArchivesTo(p)]
  BY <1>5
<1> HIDE DEF f
<1>8. f \in Injection(S, ArchivesTo(p))
  BY <1>6, <1>7 DEF Injection, IsInjective
<1>9. IsFiniteSet(ArchivesTo(p))
  BY <1>1, CountsAreFinite
<1>10. Cardinality(S) <= Cardinality(ArchivesTo(p))
  BY <1>8, <1>9, FS_Injection
<1>11. QED
  BY <1>10 DEF Planned

LEMMA StopEnds ==
  ASSUME Typed, NEW r \in Runs, Stop(r)
  PROVE  run'[r].at \in {"refused", "stopped"}
<1>1. run \in [Runs -> Process]
  BY DEF Typed
<1>2. QED
  BY <1>1 DEF Stop, Go, Process

LEMMA VerifiedDeployed ==
  ASSUME DeployInv, NEW r \in Runs, Reread(r), run'[r].at = "verified"
  PROVE  Deployed(r)
<1> DEFINE rs == run[r].receipts
           n == Len(Kinds)
<1>1. Inv /\ Typed /\ ChainInv /\ run[r].at = "reread" /\ run \in [Runs -> Process]
  BY DEF DeployInv, Reread, Inv, Typed
<1>2. Recorded(r, rs, n) /\ Fitting(rs, n) /\ ReadAgain(rs, run[r].step - 1)
  BY <1>1 DEF DeployInv, PlanInv
<1>3. n \in Nat \ {0} /\ run[r].step \in 1..n /\ files.start \in Nat
  BY <1>1, ReceiptsTyped
<1>4. run[r].step = n /\ Stands(rs[n])
  <2>1. ~Stop(r)
    BY <1>1, StopEnds
  <2>2. CASE run' = [run EXCEPT ![r].step = @ + 1]
    BY <1>1, <2>2 DEF Process
  <2>3. QED
    BY <1>3, <2>1, <2>2 DEF Reread
<1> HIDE DEF rs
<1>5. \A k \in 1..n : OnChain(rs[k])
  <2>1. OnChain(rs[n])
    BY <1>4, StandsOnChain
  <2>2. \A k \in 1..n : k \in 1..(n - 1) \/ k = n
    BY <1>3
  <2>3. QED
    BY <1>2, <1>4, <2>1, <2>2 DEF ReadAgain
<1> HIDE DEF n
<1>6. ASSUME NEW k \in 1..n
      PROVE  \E i \in DOMAIN chain :
                /\ chain[i] = rs[k] /\ chain[i].ok
                /\ chain[i].tx = [by |-> r, step |-> k, nonce |-> files.start + k - 1]
  BY <1>2, <1>5 DEF OnChain, Recorded
<1>7. Factory
  <2>1. 1 \in 1..n /\ files.start + 1 - 1 = files.start
    BY <1>3
  <2>2. PICK i \in DOMAIN chain :
           /\ chain[i].ok
           /\ chain[i].tx = [by |-> r, step |-> 1, nonce |-> files.start + 1 - 1]
    BY <1>6, <2>1
  <2>3. chain[i].tx.by = r /\ chain[i].tx.step = 1 /\ chain[i].tx.nonce = files.start
    BY <2>1, <2>2
  <2>4. Kinds[1] = "create"
    BY DeployAssumption
  <2>5. QED
    BY <2>2, <2>3, <2>4 DEF Factory, CreatedAt
<1>8. ASSUME NEW k \in 1..n, Kinds[k] = "archive"
      PROVE  Archived(Planned(k), k)
  <2>1. PICK p \in DOMAIN chain : chain[p] = rs[k]
    BY <1>6
  <2>2. Planned(k) <= Cardinality(ArchivesTo(p))
    BY <1>1, <1>2, <1>3, <1>5, <2>1, EnoughArchives DEF n
  <2>3. PICK i \in 1..p : /\ IsArchive(chain[i]) /\ Cardinality(ArchivesTo(i)) = Planned(k)
                          /\ chain[i].tx.step = k
    BY <1>2, <1>8, <2>1, <2>2 DEF Fitting, InPlace
  <2>4. i \in DOMAIN chain
    BY <1>1, ChainTyped
  <2>5. QED
    BY <1>7, <2>3, <2>4 DEF Archived
<1>9. QED
  BY <1>6, <1>7, <1>8 DEF Deployed, Steps, n

-----------------------------------------------------------------------------
\* The journal, the files, the runs and the chain stay well typed, reorganised
\* and interposed on as they are, and a key's transactions stand on the chain
\* in the order of their nonces.
THEOREM TypeCorrect == Spec => []TypeOK
<1>1. DeployInv => TypeOK
  BY DEF DeployInv, Inv, Typed, Files, Process, ChainInv, SignedTo, Signed, TypeOK
<1>2. QED
  BY InitPlan, NextPlan, <1>1, PTL DEF Spec

\* No step of the plan is ever in two transactions, for any number of runs on
\* the same files (deploy-sepolia.mjs:119): nothing is minted twice.
THEOREM NothingIsSentTwice == Spec => []EachStepIsSentOnce
<1>1. Inv => EachStepIsSentOnce
  BY DEF Inv, JournalInv, EachStepIsSentOnce, Prepared
<1>2. QED
  BY InitInv, NextInv, <1>1, PTL DEF Spec

\* Whatever was sent is in the journal, and all of it but one has its receipt
\* there (deploy-sepolia.mjs:89), wherever the run died.
THEOREM JournalSuffices == Spec => []JournalSettlesTheRest
<1>1. Inv => JournalSettlesTheRest
  <2> SUFFICES ASSUME Inv PROVE JournalSettlesTheRest
    OBVIOUS
  <2>1. PICK t \in Txs : Prepared \ Receipts \subseteq {t}
    BY DEF Inv, JournalInv
  <2>2. IsFiniteSet({t}) /\ Cardinality({t}) = 1
    BY FS_Singleton
  <2>3. Cardinality(Prepared \ Receipts) <= 1
    BY <2>1, <2>2, FS_Subset
  <2>4. Sent \subseteq Prepared
    BY DEF Inv, JournalInv
  <2>5. QED
    BY <2>3, <2>4 DEF JournalSettlesTheRest, Prepared, Receipts
<1>2. QED
  BY InitInv, NextInv, <1>1, PTL DEF Spec

\* A run that says "verified" (deploy-sepolia.mjs:228) has deployed: all its
\* steps are on the chain in that very state, succeeded and in order, and its
\* archives stand at the addresses planned for them, whatever was reorganised
\* or interposed on the way.
THEOREM VerifiedTellsTheTruth == Spec => VerifiedIsDeployed
<1>1. DeployInv /\ [Next]_vars =>
        [\A r \in Runs : (run[r].at = "reread" /\ run'[r].at = "verified") => Deployed(r)]_vars
  <2> SUFFICES ASSUME DeployInv, [Next]_vars, NEW r \in Runs,
                      run[r].at = "reread", run'[r].at = "verified"
               PROVE  Deployed(r)
    OBVIOUS
  <2>1. run \in [Runs -> Process]
    BY DEF DeployInv, Inv, Typed
  <2>2. ASSUME NEW q \in Runs, Proceed(q) \/ Deliver(q) \/ Fail(q) \/ Crash(q), q # r
        PROVE  FALSE
    <3>1. run'[r] = run[r]
      BY <2>2, RunFrame DEF DeployInv, Inv
    <3>2. QED
      BY <3>1
  <2>3. ~(Fail(r) \/ Crash(r) \/ Deadline(r) \/ Deliver(r))
    <3>1. ~(Fail(r) \/ Deadline(r))
      BY StopEnds DEF DeployInv, Inv, Fail, Deadline
    <3>2. ~(Crash(r) \/ Deliver(r))
      BY <2>1 DEF Crash, Deliver, Go, Process
    <3>3. QED
      BY <3>1, <3>2
  <2>4. ~(\E tx \in pool : Mine(tx)) /\ ~UseFactory /\ ~UseKey /\ ~Reorganise /\ ~UNCHANGED vars
    BY DEF Mine, UseFactory, UseKey, Reorganise, vars
  <2>5. Proceed(r)
    BY <2>2, <2>3, <2>4 DEF Next
  <2>6. Reread(r)
    BY <2>3, <2>5 DEF Proceed, Preflight, OpenFiles, CheckFactory, CheckNonce, Prepare,
       Broadcast, Poll, CheckResult
  <2>7. QED
    BY <2>6, VerifiedDeployed
<1>2. QED
  BY InitPlan, NextPlan, <1>1, PTL DEF Spec, VerifiedIsDeployed
=============================================================================
