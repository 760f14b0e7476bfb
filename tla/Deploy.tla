------------------------------- MODULE Deploy -------------------------------
(***************************************************************************)
(* tools/deploy-sepolia.mjs: a run that sends a fixed list of transactions *)
(* from one key, over a journal that outlives it.                          *)
(*                                                                         *)
(* A run never resumes: its two files are opened exclusively, so a crashed *)
(* or stopped run leaves them in the way of the next one.  Around it the   *)
(* chain includes, reorganises and forgets transactions, another process   *)
(* may use the same key, and anybody may use the public archive factory    *)
(* whose nonce decides the address of the next archive.                    *)
(***************************************************************************)
EXTENDS Naturals, Sequences, FiniteSets

CONSTANTS
    Runs,       \* processes started with the same key and output files
    Rival,      \* another program using that key
    Public,     \* anybody calling the archive factory
    Nobody,     \* the files do not exist
    Kinds,      \* the plan: each step makes a contract, an archive or a call;
                \* the first contract is the archive factory
    MaxBlocks,  \* bound: blocks ever made
    MaxForeign  \* bound: transactions of Rival and Public

Steps == 1..Len(Kinds)

ASSUME DeployAssumption ==
    /\ Rival \notin Runs /\ Public \notin Runs /\ Rival # Public
    /\ Nobody \notin Runs
    /\ Kinds \in Seq({"create", "archive", "call"}) /\ Kinds # <<>> /\ Kinds[1] = "create"
    /\ MaxBlocks \in Nat /\ MaxForeign \in Nat

VARIABLES
    chain,   \* the canonical chain: blocks of one transaction
    pool,    \* transactions waiting
    made,    \* blocks made so far: a block's name is its number
    foreign, \* transactions of Rival and Public so far
    files,   \* the output and the journal on disk
    run      \* each process

vars == <<chain, pool, made, foreign, files, run>>

\* A transaction's hash is the whole of it.  Its step says what it does: step
\* 0 is not in the plan, and Public may make the very archive of a step.
Txs == [by : Runs \cup {Rival, Public}, step : 0..Len(Kinds), nonce : Nat]
NoTx == [by |-> Public, step |-> 0, nonce |-> 0]
Blocks == [name : Nat, tx : Txs, ok : BOOLEAN]
Alive == {"start", "open", "factory", "nonce", "free", "flight", "sent", "poll", "check", "reread"}
Ended == {"refused", "stopped", "verified", "crashed"}

-----------------------------------------------------------------------------
(* What the node answers.                                                  *)

Signed(b) == b.tx.by # Public
MinedNonce == Cardinality({i \in DOMAIN chain : Signed(chain[i])})   \* "latest"
Waiting == {tx.nonce : tx \in pool}
PendingNonce ==                                                      \* "pending"
    MinedNonce + Cardinality({n \in Waiting : n >= MinedNonce /\ MinedNonce..n \subseteq Waiting})

Included(tx) == \E i \in DOMAIN chain : chain[i].tx = tx
ReceiptOf(tx) == chain[CHOOSE i \in DOMAIN chain : chain[i].tx = tx]

\* CREATE addresses: a key's contract is named by its nonce, an archive by how
\* many the factory made before it.
CreatedAt(nonce) == \E i \in DOMAIN chain :
    /\ chain[i].ok /\ chain[i].tx.by \in Runs
    /\ chain[i].tx.nonce = nonce /\ Kinds[chain[i].tx.step] = "create"
Factory == CreatedAt(files.start)
IsArchive(b) == b.ok /\ (b.tx.by = Public \/ (b.tx.by \in Runs /\ Kinds[b.tx.step] = "archive"))
ArchivesTo(n) == {i \in 1..n : IsArchive(chain[i])}
Archives == IF Factory THEN Cardinality(ArchivesTo(Len(chain))) ELSE 0
\* The factory's n-th archive has the content of step k.
Archived(n, k) ==
    /\ Factory
    /\ \E i \in DOMAIN chain : /\ IsArchive(chain[i]) /\ Cardinality(ArchivesTo(i)) = n
                              /\ chain[i].tx.step = k

\* planModuleDeployment numbers the archives from the factory's first one on.
Planned(k) == Cardinality({j \in 1..k : Kinds[j] = "archive"})

-----------------------------------------------------------------------------
(* The run.                                                                *)

Begin == [at |-> "start", step |-> 1, nonce |-> 0, tx |-> NoTx, receipts |-> <<>>]

BadNoFiles == TRUE
\* Neither file exists, and 'wx' creates them only if they do not.
NoFiles == files.owner = Nobody

Log(kind, tx) == files' = [files EXCEPT !.journal = Append(@, [kind |-> kind, tx |-> tx])]
Go(r, stage) == [run EXCEPT ![r].at = stage]

\* The catch of deploySepolia; before the files are open there is no record.
Stop(r) ==
    IF run[r].at \in {"start", "open"}
    THEN run' = Go(r, "refused") /\ UNCHANGED files
    ELSE /\ run' = Go(r, "stopped")
         /\ files' = [files EXCEPT !.status = "incomplete",
                                   !.journal = Append(@, [kind |-> "stopped", tx |-> NoTx])]

\* The chain is only read.
Reads == UNCHANGED <<chain, pool, made, foreign>>

\* deploymentPreflight: the key has nothing pending.
Preflight(r) ==
    /\ run[r].at = "start"
    /\ IF NoFiles /\ PendingNonce = MinedNonce
       THEN /\ run' = [run EXCEPT ![r] = [@ EXCEPT !.at = "open", !.nonce = PendingNonce]]
            /\ UNCHANGED files
       ELSE Stop(r)
    /\ Reads

OpenFiles(r) ==
    /\ run[r].at = "open"
    /\ IF NoFiles
       THEN /\ files' = [owner |-> r, status |-> "in-progress", start |-> run[r].nonce,
                         journal |-> <<[kind |-> "session", tx |-> NoTx]>>]
            /\ run' = Go(r, "factory")
       ELSE Stop(r)
    /\ Reads

\* The plan loop: an archive is only asked for while the factory stands where
\* the plan was made.
CheckFactory(r) ==
    /\ run[r].at = "factory"
    /\ IF Kinds[run[r].step] = "archive" => Factory /\ Archives + 1 = Planned(run[r].step)
       THEN run' = Go(r, "nonce") /\ UNCHANGED files
       ELSE Stop(r)
    /\ Reads

CheckNonce(r) ==
    /\ run[r].at = "nonce"
    /\ IF PendingNonce = run[r].nonce
       THEN run' = Go(r, "free") /\ UNCHANGED files
       ELSE Stop(r)
    /\ Reads

BadPrepare(r) ==
    /\ run[r].at = "free"
    /\ run' = [run EXCEPT ![r] = [@ EXCEPT
                  !.at = "flight",
                  !.tx = [by |-> r, step |-> run[r].step, nonce |-> run[r].nonce]]]
    /\ UNCHANGED files
    /\ Reads
\* The last check, the signature and the durable "prepared" entry; then the
\* request leaves.
Prepare(r) ==
    /\ run[r].at = "free"
    /\ IF Kinds[run[r].step] = "create" => ~CreatedAt(run[r].nonce)
       THEN LET tx == [by |-> r, step |-> run[r].step, nonce |-> run[r].nonce] IN
            /\ run' = [run EXCEPT ![r] = [@ EXCEPT !.at = "flight", !.tx = tx]]
            /\ Log("prepared", tx)
       ELSE Stop(r)
    /\ Reads

\* The node takes the transaction, and says so later or not at all.
Deliver(r) ==
    /\ run[r].at = "flight"
    /\ run[r].tx.nonce >= MinedNonce
    /\ ~ \E tx \in pool : tx.nonce = run[r].tx.nonce
    /\ pool' = pool \cup {run[r].tx}
    /\ run' = Go(r, "sent")
    /\ UNCHANGED <<chain, made, foreign, files>>

\* The hash came back: the tracker moves on.
Broadcast(r) ==
    /\ run[r].at = "sent"
    /\ run' = [run EXCEPT ![r] = [@ EXCEPT !.at = "poll", !.nonce = run[r].nonce + 1]]
    /\ Log("broadcast", run[r].tx)
    /\ Reads

\* A receipt is journalled before anything is asked of it.
Poll(r) ==
    /\ run[r].at = "poll"
    /\ Included(run[r].tx)
    /\ LET b == ReceiptOf(run[r].tx)
           entry == [kind |-> "receipt", tx |-> b.tx] IN
       IF b.ok
       THEN /\ run' = [run EXCEPT ![r] = [@ EXCEPT !.at = "check", !.receipts = Append(run[r].receipts, b)]]
            /\ files' = [files EXCEPT !.journal = Append(@, entry)]
       ELSE /\ run' = Go(r, "stopped")
            /\ files' = [files EXCEPT !.status = "incomplete",
                             !.journal = Append(Append(@, entry), [kind |-> "stopped", tx |-> NoTx])]
    /\ Reads

BadDeadline(r) == FALSE /\ Stop(r) /\ Reads
\* Fifteen minutes without one.
Deadline(r) ==
    /\ run[r].at = "poll"
    /\ Stop(r)
    /\ Reads

\* What the transaction made is where the plan says, with the plan's content.
AsPlanned(r) ==
    LET k == run[r].step IN
    CASE Kinds[k] = "create"  -> CreatedAt(run[r].tx.nonce)
      [] Kinds[k] = "archive" -> Archived(Planned(k), k)
      [] OTHER -> TRUE

\* The next of the plan; after the last one the receipts are read from the first.
NextStep(k) == IF k = Len(Kinds) THEN 1 ELSE k + 1

CheckResult(r) ==
    /\ run[r].at = "check"
    /\ IF ~AsPlanned(r) THEN Stop(r)
       ELSE /\ run' = [run EXCEPT ![r] = [@ EXCEPT
                 !.at = IF run[r].step = Len(Kinds) THEN "reread" ELSE "factory",
                 !.step = NextStep(run[r].step)]]
            /\ UNCHANGED files
    /\ Reads

BadStands(b) == Included(b.tx) /\ ReceiptOf(b.tx).ok
\* The receipt is still there, in the same block.
Stands(b) == Included(b.tx) /\ ReceiptOf(b.tx) = b

\* At the end every receipt is read again, one call after another.
Reread(r) ==
    /\ run[r].at = "reread"
    /\ IF ~Stands(run[r].receipts[run[r].step]) THEN Stop(r)
       ELSE IF run[r].step < Len(Kinds)
       THEN run' = [run EXCEPT ![r].step = @ + 1] /\ UNCHANGED files
       ELSE /\ run' = Go(r, "verified")
            /\ files' = [files EXCEPT !.status = "verified",
                                      !.journal = Append(@, [kind |-> "complete", tx |-> NoTx])]
    /\ Reads

\* Any call may fail: of the broadcast, nothing says whether it arrived.
Fail(r) ==
    /\ run[r].at \in Alive
    /\ Stop(r)
    /\ Reads

Crash(r) ==
    /\ run[r].at \in Alive
    /\ run' = Go(r, "crashed")
    /\ UNCHANGED <<chain, pool, made, foreign, files>>

-----------------------------------------------------------------------------
(* The chain, and the others on it.                                        *)

Block(tx) ==
    /\ made < MaxBlocks
    /\ made' = made + 1
    /\ \E ok \in BOOLEAN :
          /\ tx.by \in Runs \/ ok
          /\ chain' = Append(chain, [name |-> made + 1, tx |-> tx, ok |-> ok])

Mine(tx) ==
    /\ tx.nonce = MinedNonce
    /\ Block(tx)
    /\ pool' = pool \ {tx}
    /\ UNCHANGED <<foreign, files, run>>

UseFactory ==
    /\ foreign < MaxForeign /\ foreign' = foreign + 1
    /\ Factory
    /\ \E k \in {0} \cup {j \in Steps : Kinds[j] = "archive"} :
          Block([by |-> Public, step |-> k, nonce |-> foreign])
    /\ UNCHANGED <<pool, files, run>>

UseKey ==
    /\ foreign < MaxForeign /\ foreign' = foreign + 1
    /\ pool' = pool \cup {[by |-> Rival, step |-> 0, nonce |-> PendingNonce]}
    /\ UNCHANGED <<chain, made, files, run>>

\* The last blocks are replaced; a transaction they held waits again, or is
\* forgotten.
Reorganise ==
    \E n \in 0..(Len(chain) - 1) :
       LET lost == {chain[i].tx : i \in {j \in (n + 1)..Len(chain) : Signed(chain[j])}} IN
       /\ made < MaxBlocks
       /\ chain' = SubSeq(chain, 1, n)
       /\ \E back \in SUBSET lost : pool' = pool \cup back
       /\ UNCHANGED <<made, foreign, files, run>>

-----------------------------------------------------------------------------
Init ==
    /\ chain = <<>> /\ pool = {} /\ made = 0 /\ foreign = 0
    /\ files = [owner |-> Nobody, status |-> "absent", start |-> 0, journal |-> <<>>]
    /\ run = [r \in Runs |-> Begin]

Proceed(r) ==
    \/ Preflight(r) \/ OpenFiles(r) \/ CheckFactory(r) \/ CheckNonce(r) \/ Prepare(r)
    \/ Broadcast(r) \/ Poll(r) \/ Deadline(r) \/ CheckResult(r) \/ Reread(r)

Next ==
    \/ \E r \in Runs : Proceed(r) \/ Deliver(r) \/ Fail(r) \/ Crash(r)
    \/ \E tx \in pool : Mine(tx)
    \/ UseFactory \/ UseKey \/ Reorganise

\* A process that is not stuck on a call goes on; a broadcast is answered or
\* given up after sixty seconds.
Fairness == \A r \in Runs : WF_vars(Proceed(r)) /\ WF_vars(run[r].at = "flight" /\ Fail(r))

Spec == Init /\ [][Next]_vars /\ Fairness

-----------------------------------------------------------------------------
(* Properties.                                                             *)

Journalled(kind) == {files.journal[i].tx : i \in {j \in DOMAIN files.journal :
                                                     files.journal[j].kind = kind}}
Sent == {tx \in pool \cup {chain[i].tx : i \in DOMAIN chain} : tx.by \in Runs}

TypeOK ==
    /\ chain \in Seq(Blocks)
    /\ pool \subseteq Txs
    /\ made \in 0..MaxBlocks /\ foreign \in 0..MaxForeign
    /\ files.owner \in Runs \cup {Nobody}
    /\ files.status \in {"absent", "in-progress", "incomplete", "verified"}
    /\ run \in [Runs -> [at : Alive \cup Ended, step : Steps, nonce : Nat,
                         tx : Txs, receipts : Seq(Blocks)]]
    /\ \A i \in DOMAIN chain : chain[i].tx.by # Public =>
          chain[i].tx.nonce = Cardinality({j \in 1..(i - 1) : Signed(chain[j])})

\* "Only its hash can settle the outcome" (deploy-sepolia.mjs:89): wherever the
\* process dies, every transaction of it that exists anywhere is in the
\* journal, and at most one journalled transaction has no receipt there.
JournalSettlesTheRest ==
    /\ Sent \subseteq Journalled("prepared")
    /\ Cardinality(Journalled("prepared") \ Journalled("receipt")) <= 1

\* The exclusive files are "a deliberate barrier against accidentally minting
\* again": however runs are started, raced, stopped and crashed, no step of
\* the plan is in two transactions.
EachStepIsSentOnce ==
    \A t, u \in Sent \cup Journalled("prepared") : t.step = u.step => t = u

\* A run that says "verified" says the truth at that moment: its steps are all
\* on the chain, succeeded, in order, at the nonces from its start on, and the
\* archives are at the addresses planned for them, whatever was reorganised,
\* replaced or interposed on the way.
Deployed(r) ==
    /\ \A k \in Steps : \E i \in DOMAIN chain :
          chain[i].ok /\ chain[i].tx = [by |-> r, step |-> k, nonce |-> files.start + k - 1]
    /\ \A k \in Steps : Kinds[k] = "archive" => Archived(Planned(k), k)
VerifiedIsDeployed ==
    [][\A r \in Runs : (run[r].at = "reread" /\ run'[r].at = "verified") => Deployed(r)]_vars

\* Every run that starts ends: it never waits for a receipt forever.
EveryRunEnds == \A r \in Runs : <>[](run[r].at \in Ended)
=============================================================================
