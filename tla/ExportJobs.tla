----------------------------- MODULE ExportJobs -----------------------------
(***************************************************************************)
(* The export jobs of modules/exports: rows that processes claim through   *)
(* their job runner (services/export-runner.ts), stages that walk a list,  *)
(* write a file to the storage port and settle (services/export-service.ts *)
(* over services/database-repository.ts), the retention sweep              *)
(* (services/data-classes.ts) and the key rotation of stored files         *)
(* (services/storage-rotation.ts).                                         *)
(*                                                                         *)
(* Grain: one action per database transaction or storage call, with its    *)
(* answer.  An answer may be lost: the transaction has committed and its   *)
(* caller sees it raise.                                                   *)
(***************************************************************************)
EXTENDS Naturals, Sequences, FiniteSets

CONSTANTS
    Process,       \* platform processes in the worker role, concurrency 1 each
    Jobs,          \* how many jobs are requested
    Page,          \* EXPORT_LIMITS.routingPage, 25 in the code
    SweepLimit,    \* the bound on one retention batch, at most 200
    None,
    MaxTroubles    \* bound: crashes, faults and takeovers, of any kind

ASSUME ExportAssumption ==
    /\ {Jobs, Page, SweepLimit} \subseteq Nat \ {0}
    /\ MaxTroubles \in Nat
    /\ None \notin Process

Job == 1 .. Jobs
MaxFiles == MaxTroubles + 2
File == Job \X (1 .. MaxFiles)
NoFile == <<0, 0>>

VARIABLES
    row,        \* row[j]: status, the file it names, whose token claimed_at is
    store,      \* the files in the storage port
    minted,     \* minted[j]: how many files the stages of j have named so far
    route,      \* route[p]: the routing rows a runner still holds, refillable
    stage,      \* stage[p]: the item a runner performs
    sweep,      \* the batch a retention transaction has locked
    rotation,   \* the row a rotation has locked, and the file it read or NoFile
    crashes, faults, takeovers

env == <<crashes, faults, takeovers>>
CanTrouble == crashes + faults + takeovers < MaxTroubles
vars == <<row, store, minted, route, stage, sweep, rotation, env>>

At == {"idle", "walking", "writing", "settling", "failing", "ending"}
NoStage == [at |-> "idle", job |-> 0, file |-> NoFile, recorded |-> FALSE, aborted |-> FALSE]
Empty == [queue |-> <<>>, refillable |-> TRUE]
Unswept == [open |-> FALSE, batch |-> {}, left |-> {}]
Unlocked == [job |-> 0, file |-> NoFile]

Live(p) == stage[p].at # "idle"
Status(j) == row[j].status
Settled == {j \in Job : Status(j) \in {"completed", "failed"}}
Named == {row[j].file : j \in Job} \ {NoFile}

TypeOK ==
    /\ row \in [Job -> [status : {"absent", "requested", "running", "completed", "failed", "swept"},
                        file : File \cup {NoFile}, claim : Process \cup {None}]]
    /\ \A j \in Job : /\ row[j].file # NoFile <=> Status(j) = "completed"
                     /\ row[j].claim # None => Status(j) = "running"
    /\ store \subseteq File
    /\ minted \in [Job -> 0 .. MaxFiles]
    /\ \A p \in Process :
        /\ Len(route[p].queue) <= Page
        /\ \A i \in DOMAIN route[p].queue : route[p].queue[i] \in Job
        /\ route[p].refillable \in BOOLEAN
        /\ stage[p] \in [at : At, job : 0 .. Jobs, file : File \cup {NoFile},
                         recorded : BOOLEAN, aborted : BOOLEAN]
        /\ Live(p) <=> stage[p].job # 0
    /\ sweep.left \subseteq sweep.batch /\ sweep.batch \subseteq Settled
    /\ rotation \in [job : 0 .. Jobs, file : File \cup {NoFile}]
    /\ {crashes, faults, takeovers} \subseteq 0 .. MaxTroubles

Init ==
    /\ row = [j \in Job |-> [status |-> "absent", file |-> NoFile, claim |-> None]]
    /\ store = {} /\ minted = [j \in Job |-> 0]
    /\ route = [p \in Process |-> Empty]
    /\ stage = [p \in Process |-> NoStage]
    /\ sweep = Unswept /\ rotation = Unlocked
    /\ crashes = 0 /\ faults = 0 /\ takeovers = 0

-----------------------------------------------------------------------------
\* start: jobs are numbered in the order of started_at.
Request(j) ==
    /\ Status(j) = "absent"
    /\ \A k \in 1 .. j - 1 : Status(k) # "absent"
    /\ row' = [row EXCEPT ![j] = [@ EXCEPT !.status = "requested"]]
    /\ UNCHANGED <<store, minted, route, stage, sweep, rotation, env>>

(***************************************************************************)
(* claim: the routing read and the claim statement.                        *)
(***************************************************************************)
Pending == {j \in Job : Status(j) \in {"requested", "running"}}
PageSize == IF Cardinality(Pending) < Page THEN Cardinality(Pending) ELSE Page
\* listPendingJobs: the first page, oldest first.
IsPage(q) ==
    /\ \A i, k \in DOMAIN q : i < k => q[i] < q[k]
    /\ \A j \in Pending : (\E i \in DOMAIN q : q[i] = j) \/ (\A i \in DOMAIN q : q[i] < j)

SetStage(p, s) == stage' = [stage EXCEPT ![p] = s]
SetRoute(p, r) == route' = [route EXCEPT ![p] = r]
Idle(p) == stage[p].at = "idle"

\* The last page was short and is drained: this pass ends, the next one reads.
ClaimsNothing(p) ==
    /\ Idle(p)
    /\ route[p].queue = <<>> /\ ~route[p].refillable
    /\ SetRoute(p, Empty)
    /\ UNCHANGED <<row, store, minted, stage, sweep, rotation, env>>

\* The routing read; an empty page ends the pass.
ReadsPage(p) ==
    /\ Idle(p)
    /\ route[p].queue = <<>> /\ route[p].refillable
    /\ \E q \in [1 .. PageSize -> Pending] :
        /\ IsPage(q)
        /\ SetRoute(p, IF Pending = {} THEN Empty
                       ELSE [queue |-> q, refillable |-> PageSize = Page])
    /\ UNCHANGED <<row, store, minted, stage, sweep, rotation, env>>

\* The process whose stage renews the claim of j, if one does.
Holders(j) == {p \in Process : Live(p) /\ stage[p].job = j /\ row[j].claim = p}

\* A claim lapses under a stage that still runs, its renewals late.
TakesOver(j) == Status(j) = "running" /\ Holders(j) # {}
\* Mutant: a job somebody claimed is never claimed again.
RequestedAlone(j) == Status(j) = "requested"
Claimable(j) == \/ Status(j) = "requested"
                \/ Status(j) = "running" /\ (Holders(j) # {} => CanTrouble)

Routing(p) == Idle(p) /\ route[p].queue # <<>>
NextRouted(p) == [route[p] EXCEPT !.queue = Tail(@)]

Claim(p) ==
    /\ Routing(p)
    /\ LET j == Head(route[p].queue)
       IN  /\ Claimable(j)
           /\ row' = [row EXCEPT ![j] = [@ EXCEPT !.status = "running", !.claim = p]]
           /\ SetStage(p, [NoStage EXCEPT !.at = "walking", !.job = j])
           /\ takeovers' = takeovers + IF TakesOver(j) THEN 1 ELSE 0
    /\ SetRoute(p, NextRouted(p))
    /\ UNCHANGED <<store, minted, sweep, rotation, crashes, faults>>

\* The job left the queue since the routing read, or its claim has not lapsed:
\* the next row is tried, and the pass ends after the last.
Skip(p) ==
    /\ Routing(p)
    /\ Status(Head(route[p].queue)) # "requested"
    /\ SetRoute(p, IF Len(route[p].queue) = 1 THEN Empty ELSE NextRouted(p))
    /\ UNCHANGED <<row, store, minted, stage, sweep, rotation, env>>

\* A transaction or a delete that raises, whether or not it was done.
Faulty == CanTrouble /\ faults' = faults + 1

\* The claim raises and ends the pass; the row may be claimed for nobody.
ClaimRaises(p) ==
    /\ Routing(p) /\ Faulty
    /\ LET j == Head(route[p].queue)
       IN  \/ UNCHANGED row
           \/ /\ Claimable(j) /\ ~TakesOver(j)
              /\ row' = [row EXCEPT ![j] = [@ EXCEPT !.status = "running", !.claim = None]]
    /\ SetRoute(p, NextRouted(p))
    /\ UNCHANGED <<store, minted, stage, sweep, rotation, crashes, takeovers>>

(***************************************************************************)
(* heartbeat: fenced on the token of the last renewal.                     *)
(***************************************************************************)
\* A renewal is asked for while the stage may still read its signal.
Renews(p) == stage[p].at \in {"walking", "writing", "settling"} /\ ~stage[p].aborted

\* The row is not running under this stage's token any more.
BeatLost(p) ==
    /\ Renews(p)
    /\ row[stage[p].job].claim # p
    /\ SetStage(p, [stage[p] EXCEPT !.aborted = TRUE])
    /\ UNCHANGED <<row, store, minted, route, sweep, rotation, env>>

\* The renewal moved claimed_at, and the stage goes on asking with the old one.
BeatRaises(p) ==
    /\ Renews(p)
    /\ row[stage[p].job].claim = p
    /\ Faulty
    /\ row' = [row EXCEPT ![stage[p].job] = [@ EXCEPT !.claim = None]]
    /\ UNCHANGED <<store, minted, route, stage, sweep, rotation, crashes, takeovers>>

(***************************************************************************)
(* perform.                                                                *)
(***************************************************************************)
\* The catch arm records a failure unless the signal is aborted.
Caught(s) == [s EXCEPT !.at = IF s.aborted THEN "ending" ELSE "failing"]

\* The list is walked to its end under a signal that was not aborted.
WalkEnds(p) ==
    /\ stage[p].at = "walking" /\ ~stage[p].aborted
    /\ LET j == stage[p].job
       IN  /\ minted[j] < MaxFiles
           /\ minted' = [minted EXCEPT ![j] = @ + 1]
           /\ SetStage(p, [stage[p] EXCEPT !.at = "writing", !.file = <<j, minted[j] + 1>>])
    /\ UNCHANGED <<row, store, route, sweep, rotation, env>>

\* The walk raises or is aborted; a list no module registers fails regardless.
WalkRaises(p) ==
    /\ stage[p].at = "walking"
    /\ \/ SetStage(p, Caught(stage[p]))
       \/ SetStage(p, [stage[p] EXCEPT !.at = "failing"])
    /\ UNCHANGED <<row, store, minted, route, sweep, rotation, env>>

\* storage.put answers, or raises having stored the file or not.
PutEnds(p) ==
    /\ stage[p].at = "writing"
    /\ \/ /\ store' = store \cup {stage[p].file}
          /\ SetStage(p, [stage[p] EXCEPT !.at = "settling"])
       \/ /\ store' \in {store, store \cup {stage[p].file}}
          /\ SetStage(p, Caught(stage[p]))
    /\ UNCHANGED <<row, minted, route, sweep, rotation, env>>

\* Mutant: the settle is not fenced on the status it leaves.
SettlesAgain(j) == Status(j) \in {"running", "completed", "failed"}
Settleable(j) == Status(j) = "running"

SettleRow(j, status, f) ==
    row' = IF Settleable(j)
             THEN [row EXCEPT ![j] = [status |-> status, file |-> f, claim |-> None]]
             ELSE row

Settle(p) ==
    /\ stage[p].at = "settling"
    /\ \/ /\ SettleRow(stage[p].job, "completed", stage[p].file)
          /\ SetStage(p, [stage[p] EXCEPT !.at = "ending", !.recorded = Settleable(stage[p].job)])
          /\ UNCHANGED faults
       \/ /\ Faulty
          /\ SettleRow(stage[p].job, "completed", stage[p].file) \/ UNCHANGED row
          /\ SetStage(p, Caught(stage[p]))
    /\ UNCHANGED <<store, minted, route, sweep, rotation, crashes, takeovers>>

\* #fail; when it raises, the finally arm runs all the same.
Fail(p) ==
    /\ stage[p].at = "failing"
    /\ \/ SettleRow(stage[p].job, "failed", NoFile) /\ UNCHANGED faults
       \/ Faulty /\ UNCHANGED row
    /\ SetStage(p, [stage[p] EXCEPT !.at = "ending"])
    /\ UNCHANGED <<store, minted, route, sweep, rotation, crashes, takeovers>>

\* Mutant: a stage whose claim was lost discards what it recorded.
DiscardsAborted(s) == s.file # NoFile /\ (s.aborted \/ ~s.recorded)
Discards(s) == s.file # NoFile /\ ~s.recorded

\* The finally arm: a delete that is refused is not tried again.
End(p) ==
    /\ stage[p].at = "ending"
    /\ \/ /\ store' = IF Discards(stage[p]) THEN store \ {stage[p].file} ELSE store
          /\ UNCHANGED faults
       \/ Discards(stage[p]) /\ Faulty /\ UNCHANGED store
    /\ SetStage(p, NoStage)
    /\ UNCHANGED <<row, minted, route, sweep, rotation, crashes, takeovers>>

\* A process goes away and is started again.
Crash(p) ==
    /\ CanTrouble
    /\ Live(p)
    /\ crashes' = crashes + 1
    /\ SetStage(p, NoStage)
    /\ SetRoute(p, Empty)
    /\ UNCHANGED <<row, store, minted, sweep, rotation, faults, takeovers>>

-----------------------------------------------------------------------------
(***************************************************************************)
(* The retention sweep and the rotation of stored files, each under the    *)
(* row locks of its transaction.                                           *)
(***************************************************************************)
\* Mutant: the rotation reads its batch without FOR UPDATE.
LockedBySweepAlone(j) == j \in sweep.batch
Locked(j) == j \in sweep.batch \/ j = rotation.job

\* The oldest settled jobs before a cutoff; the statement waits for every lock.
SweepBegins ==
    /\ ~sweep.open
    /\ \E cutoff \in Job :
        LET due == {j \in Settled : j <= cutoff}
            batch == {j \in due : Cardinality({k \in due : k < j}) < SweepLimit}
        IN  /\ batch # {} /\ \A j \in batch : ~Locked(j)
            /\ sweep' = [open |-> TRUE, batch |-> batch,
                         left |-> {j \in batch : row[j].file # NoFile}]
    /\ UNCHANGED <<row, store, minted, route, stage, rotation, env>>

\* The files go first, best effort each.
SweepDiscards(j) ==
    /\ j \in sweep.left
    /\ \/ store' = store \ {row[j].file} /\ UNCHANGED faults
       \/ Faulty /\ UNCHANGED store
    /\ sweep' = [sweep EXCEPT !.left = @ \ {j}]
    /\ UNCHANGED <<row, minted, route, stage, rotation, crashes, takeovers>>

SweepCommits ==
    /\ sweep.open /\ sweep.left = {}
    /\ row' = [j \in Job |-> IF j \in sweep.batch
                               THEN [status |-> "swept", file |-> NoFile, claim |-> None]
                               ELSE row[j]]
    /\ sweep' = Unswept
    /\ UNCHANGED <<store, minted, route, stage, rotation, env>>

\* The transaction is rolled back, or its process is gone.
SweepRollsBack ==
    /\ sweep.open /\ Faulty
    /\ sweep' = Unswept
    /\ UNCHANGED <<row, store, minted, route, stage, rotation, crashes, takeovers>>

\* One row of a rotation's batch: its file is read under the lock...
Reseals(j) ==
    /\ rotation = Unlocked
    /\ row[j].file # NoFile /\ ~Locked(j)
    /\ rotation' = [job |-> j, file |-> IF row[j].file \in store THEN row[j].file ELSE NoFile]
    /\ UNCHANGED <<row, store, minted, route, stage, sweep, env>>

\* ... and written again, and the transaction ends.
Resealed ==
    /\ rotation.job # 0
    /\ store' = store \cup ({rotation.file} \ {NoFile})
    /\ rotation' = Unlocked
    /\ UNCHANGED <<row, minted, route, stage, sweep, env>>

Runs(p) ==
    \/ ClaimsNothing(p) \/ ReadsPage(p) \/ Claim(p) \/ Skip(p) \/ ClaimRaises(p)
    \/ BeatLost(p) \/ BeatRaises(p)
    \/ WalkEnds(p) \/ WalkRaises(p) \/ PutEnds(p) \/ Settle(p) \/ Fail(p) \/ End(p) \/ Crash(p)

Next ==
    \/ \E j \in Job : Request(j) \/ SweepDiscards(j) \/ Reseals(j)
    \/ \E p \in Process : Runs(p)
    \/ SweepBegins \/ SweepCommits \/ SweepRollsBack \/ Resealed

(***************************************************************************)
(* A process polls and its calls answer.  A claim nobody renews is older   *)
(* than the stale window at some poll, and at every later one.             *)
(***************************************************************************)
Fairness ==
    \A p \in Process :
        /\ WF_vars(ClaimsNothing(p) \/ ReadsPage(p) \/ Skip(p))
        /\ SF_vars(Claim(p))
        /\ WF_vars(WalkEnds(p) \/ WalkRaises(p) \/ PutEnds(p) \/ Settle(p) \/ Fail(p) \/ End(p))

Spec == Init /\ [][Next]_vars
FairSpec == Spec /\ Fairness

-----------------------------------------------------------------------------
\* Stored files that no row names and no stage will name or discard.
Orphans == store \ (Named \cup {stage[p].file : p \in Process})

\* A file the store holds and nothing can reach is left by a crash or by a
\* refused delete, one each, however the stage ended.
FilesAreReachable == Cardinality(Orphans) <= crashes + faults

\* The file of a completed job is there until retention takes it, unless a
\* transaction raised: a lost claim, a takeover, a crash or a re-seal never
\* costs a reader the file.
CompletedJobHasFile ==
    faults = 0 => \A j \in Job \ sweep.batch : Status(j) = "completed" => row[j].file \in store

\* Whatever the processes do to one another, every job behaves as the ledger
\* promises: it settles once, with one stored file of its own.
Ledger == INSTANCE ExportLedger WITH
    status <- [j \in Job |-> row[j].status],
    file <- [j \in Job |-> row[j].file],
    None <- NoFile
KeepsTheLedger == Ledger!Spec

\* Every job that is requested settles, also when the process running it goes
\* away or loses its claim: in the end none is left requested or running.
JobsSettle == <>[](Pending = {})
=============================================================================
