------------------------------- MODULE AgentRun -------------------------------
(***************************************************************************)
(* The durable queue of agent runs (modules/agents): requests enqueue and  *)
(* cancel, and the worker of every process drains the queue                *)
(* (services/worker.ts over services/database-repository.ts).  A claim is  *)
(* a lease its owner renews; a lapsed one may be taken over.               *)
(*                                                                         *)
(* Grain: one action per statement or transaction, and one per side of an  *)
(* await where stop() is looked at again.                                  *)
(***************************************************************************)
EXTENDS Naturals, FiniteSets

CONSTANTS
    Worker,       \* the worker of a process
    Runs,         \* runs, numbered in the order they are enqueued
    Concurrency,  \* Concurrency[w]: how many runs the worker executes at once
    None,
    MaxTroubles   \* bound: cancellations, stops, crashes, leases that lapse in
                  \* use and calls that raise, together

ASSUME AgentAssumption ==
    /\ Runs \in Nat \ {0} /\ Concurrency \in [Worker -> Nat \ {0}]
    /\ MaxTroubles \in Nat
    /\ None \notin Worker

Run == 1 .. Runs

VARIABLES
    row,       \* row[r] of agent_runs
    drain,     \* drain[w]: the drain under way
    dispose,   \* dispose[w]: how far dispose() is; "started" outside of it
    exec,      \* exec[w][r]: the execution in flight, its abort reason, and whether
               \* the run has been claimed again since
    cancel,    \* cancel[r]: "none", or "read" inside the cancelling transaction
    troubles

vars == <<row, drain, dispose, exec, cancel, troubles>>

NoRun == [status |-> "absent", owner |-> None, lapsed |-> FALSE]
Drain(at, page, slots, r) == [at |-> at, page |-> page, slots |-> slots, run |-> r]
NoDrain == Drain("idle", {}, 0, 0)
NoExec == [at |-> "none", reason |-> "none", current |-> FALSE]
Settled == {"succeeded", "failed", "cancelled"}

TypeOK ==
    /\ row \in [Run -> [status : {"absent", "queued", "running"} \cup Settled,
                        owner : Worker \cup {None}, lapsed : BOOLEAN]]
    /\ drain \in [Worker -> [at : {"idle", "claiming", "claimed", "refused"},
                             page : SUBSET Run, slots : Nat, run : 0 .. Runs]]
    /\ dispose \in [Worker -> {"started", "draining", "aborting", "stopped"}]
    /\ exec \in [Worker -> [Run -> [at : {"none", "granting", "executing", "failing"},
                                    reason : {"none", "cancelled", "shutdown", "lost", "refused"},
                                    current : BOOLEAN]]]
    /\ cancel \in [Run -> {"none", "read"}]

Init ==
    /\ row = [r \in Run |-> NoRun]
    /\ drain = [w \in Worker |-> NoDrain]
    /\ dispose = [w \in Worker |-> "stopped"]
    /\ exec = [w \in Worker |-> [r \in Run |-> NoExec]]
    /\ cancel = [r \in Run |-> "none"]
    /\ troubles = 0

Stopped(w) == dispose[w] # "started"
InFlight(w) == {r \in Run : exec[w][r].at # "none"}
Owns(w, r) == row[r].status = "running" /\ row[r].owner = w
SetDrain(w, d) == drain' = [drain EXCEPT ![w] = d]
SetExec(w, r, e) == exec' = [exec EXCEPT ![w] = [@ EXCEPT ![r] = e]]
Settle(r, status) ==
    row' = [row EXCEPT ![r] = [@ EXCEPT !.status = status, !.owner = None, !.lapsed = FALSE]]
Trouble == troubles < MaxTroubles /\ troubles' = troubles + 1
NoTrouble == UNCHANGED troubles

-----------------------------------------------------------------------------
(***************************************************************************)
(* Requests.                                                               *)
(***************************************************************************)
\* enqueueRun; the kick that follows only brings the next drain forward.
Enqueue(r) ==
    /\ row[r].status = "absent" /\ (r > 1 => row[r - 1].status # "absent")
    /\ row' = [row EXCEPT ![r] = [@ EXCEPT !.status = "queued"]]
    /\ UNCHANGED <<drain, dispose, exec, cancel, troubles>>

\* cancelRun reads the status and then writes over whatever it has become: the
\* transaction is read-committed and its update names no status.
CancelReads(r) ==
    /\ cancel[r] = "none" /\ row[r].status \in {"queued", "running"}
    /\ Trouble
    /\ cancel' = [cancel EXCEPT ![r] = "read"]
    /\ UNCHANGED <<row, drain, dispose, exec>>

\* abort(): the first reason stays.
Aborted(e, reason) ==
    IF e.at # "none" /\ e.reason = "none" THEN [e EXCEPT !.reason = reason] ELSE e

\* The worker of the process that served the request is told.
CancelWrites(w, r) ==
    /\ cancel[r] = "read"
    /\ cancel' = [cancel EXCEPT ![r] = "none"]
    /\ Settle(r, "cancelled")
    /\ SetExec(w, r, Aborted(exec[w][r], "cancelled"))
    /\ UNCHANGED <<drain, dispose, troubles>>

-----------------------------------------------------------------------------
(***************************************************************************)
(* kick, #drain.                                                           *)
(***************************************************************************)
Slots(w) == Concurrency[w] - Cardinality(InFlight(w))

\* Mutant: a run whose worker is gone is never offered again.
RecoverableQueued(r) == row[r].status = "queued"
Recoverable(r) == row[r].status = "queued" \/ (row[r].status = "running" /\ row[r].lapsed)

\* ORDER BY queued_at LIMIT slots * 2.
Page(n) == {r \in Run : Recoverable(r) /\ Cardinality({q \in 1 .. r : Recoverable(q)}) <= n}

\* A kick or the periodic poll: one drain at a time counts the slots, then
\* reads a page.
DrainBegins(w) ==
    /\ drain[w].at = "idle" /\ ~Stopped(w)
    /\ Slots(w) > 0
    /\ SetDrain(w, Drain("claiming", Page(2 * Slots(w)), Slots(w), 0))
    /\ UNCHANGED <<row, dispose, exec, cancel, troubles>>

\* Mutant: a run in flight here is claimed like any other.
CandidatesAll(w) == drain[w].page
Candidates(w) == drain[w].page \ InFlight(w)

\* The next candidate is claimed; the statement looks at the row again.
Claims(w) ==
    /\ drain[w].at = "claiming" /\ ~Stopped(w)
    /\ drain[w].slots > 0
    /\ \E r \in Candidates(w) :
        /\ \A q \in Candidates(w) : r <= q
        /\ SetDrain(w, Drain(IF Recoverable(r) THEN "claimed" ELSE "refused",
                             {q \in drain[w].page : q > r}, drain[w].slots, r))
        /\ row' = IF Recoverable(r)
                    THEN [row EXCEPT ![r] = [status |-> "running", owner |-> w, lapsed |-> FALSE]]
                    ELSE row
        /\ exec' = IF Recoverable(r)
                     THEN [v \in Worker |-> [exec[v] EXCEPT ![r] = [@ EXCEPT !.current = FALSE]]]
                     ELSE exec
    /\ UNCHANGED <<dispose, cancel, troubles>>

\* The read or a claim raises, before or after it took the run, and the drain with
\* it.  A dispose() that awaited the drain raises too; the module's calls it again.
DrainRaises(w) ==
    /\ drain[w].at # "idle" /\ Trouble
    /\ SetDrain(w, NoDrain)
    /\ UNCHANGED <<row, dispose, exec, cancel>>

\* Mutant: what this drain has claimed is not counted.
LeftAll(slots) == slots
Left(slots) == slots - 1

\* A worker that has stopped meanwhile leaves the run leased to itself.
ClaimAnswers(w) ==
    /\ drain[w].at \in {"claimed", "refused"}
    /\ LET r == drain[w].run
           Starts == drain[w].at = "claimed" /\ ~Stopped(w)
       IN  /\ SetDrain(w, IF Stopped(w) THEN NoDrain
                          ELSE Drain("claiming", drain[w].page,
                                     IF Starts THEN Left(drain[w].slots) ELSE drain[w].slots, 0))
           /\ IF Starts THEN SetExec(w, r, [at |-> "granting", reason |-> "none",
                                            current |-> Owns(w, r)])
              ELSE UNCHANGED exec
    /\ UNCHANGED <<row, dispose, cancel, troubles>>

DrainEnds(w) ==
    /\ drain[w].at = "claiming"
    /\ Stopped(w) \/ drain[w].slots = 0 \/ Candidates(w) = {}
    /\ SetDrain(w, NoDrain)
    /\ UNCHANGED <<row, dispose, exec, cancel, troubles>>

-----------------------------------------------------------------------------
(***************************************************************************)
(* #execute.                                                               *)
(***************************************************************************)
Goes(w, r, at) == SetExec(w, r, [exec[w][r] EXCEPT !.at = at])

\* The grant is consumed only under the live lease it was issued for.
Grants(w, r) ==
    /\ exec[w][r].at = "granting"
    /\ Goes(w, r, IF Owns(w, r) /\ ~row[r].lapsed THEN "executing" ELSE "failing")
    /\ UNCHANGED <<row, drain, dispose, cancel, troubles>>

\* The harness raises, by itself or because it was aborted.
HarnessRaises(w, r) ==
    /\ exec[w][r].at = "executing"
    /\ Goes(w, r, "failing")
    /\ UNCHANGED <<row, drain, dispose, cancel, troubles>>

\* The renewal timer; one that raises cannot prove the lease either.
Renews(w, r) ==
    /\ exec[w][r].at # "none"
    /\ \/ Owns(w, r) /\ NoTrouble
          /\ row' = [row EXCEPT ![r] = [@ EXCEPT !.lapsed = FALSE]] /\ UNCHANGED exec
       \/ (IF Owns(w, r) THEN Trouble ELSE NoTrouble)
          /\ SetExec(w, r, Aborted(exec[w][r], "lost")) /\ UNCHANGED row
    /\ UNCHANGED <<drain, dispose, cancel>>

\* An event is refused: one ownership probe decides what the abort says.
EventRefused(w, r) ==
    /\ exec[w][r].at = "executing" /\ Trouble
    /\ SetExec(w, r, [Aborted(exec[w][r], IF Owns(w, r) THEN "refused" ELSE "lost")
                        EXCEPT !.at = "failing"])
    /\ row' = IF Owns(w, r) THEN [row EXCEPT ![r] = [@ EXCEPT !.lapsed = FALSE]] ELSE row
    /\ UNCHANGED <<drain, dispose, cancel>>

\* The execution is over and leaves inFlight.
Ends(w, r) == SetExec(w, r, NoExec)

\* The harness returns, aborted or not.  completeRun and failRun are fenced on
\* the status and the owner alone.
Completes(w, r) ==
    /\ exec[w][r].at = "executing"
    /\ \/ Owns(w, r) /\ Settle(r, "succeeded") /\ Ends(w, r) /\ NoTrouble
       \/ ~Owns(w, r) /\ Goes(w, r, "failing") /\ NoTrouble /\ UNCHANGED row
       \/ Trouble /\ Goes(w, r, "failing") /\ UNCHANGED row
    /\ UNCHANGED <<drain, dispose, cancel>>

\* What was cancelled, shut down or lost is left as it is.
FailsRun(w, r) == exec[w][r].reason \in {"none", "refused"}

Fails(w, r) ==
    /\ exec[w][r].at = "failing"
    /\ Ends(w, r)
    /\ \/ FailsRun(w, r) /\ Owns(w, r) /\ Settle(r, "failed") /\ NoTrouble
       \/ ~(FailsRun(w, r) /\ Owns(w, r)) /\ UNCHANGED row /\ NoTrouble
       \/ FailsRun(w, r) /\ Trouble /\ UNCHANGED row
    /\ UNCHANGED <<drain, dispose, cancel>>

-----------------------------------------------------------------------------
(***************************************************************************)
(* Leases, stops and crashes.                                              *)
(***************************************************************************)
\* The owner is still to answer for the run: it executes, or its claim is answered.
Held(r) == \E w \in Worker :
    Owns(w, r) /\ (exec[w][r].at # "none" \/ (drain[w].at = "claimed" /\ drain[w].run = r))

\* Such a lease lapses only if the worker stalls.
Lapses(r) ==
    /\ row[r].status = "running" /\ ~row[r].lapsed
    /\ IF Held(r) THEN Trouble ELSE NoTrouble
    /\ row' = [row EXCEPT ![r] = [@ EXCEPT !.lapsed = TRUE]]
    /\ UNCHANGED <<drain, dispose, exec, cancel>>

Starts(w) ==
    /\ dispose[w] = "stopped"
    /\ dispose' = [dispose EXCEPT ![w] = "started"]
    /\ UNCHANGED <<row, drain, exec, cancel, troubles>>

SetDispose(w, d) == dispose' = [dispose EXCEPT ![w] = d]

\* stop() at once; then the drain under way is awaited.
Disposes(w) ==
    /\ dispose[w] = "started" /\ Trouble
    /\ SetDispose(w, "draining")
    /\ UNCHANGED <<row, drain, exec, cancel>>

\* drainMs has passed, or nothing is in flight: what is left is aborted.
DisposeAborts(w) ==
    /\ dispose[w] = "draining" /\ drain[w].at = "idle"
    /\ SetDispose(w, "aborting")
    /\ exec' = [exec EXCEPT ![w] = [r \in Run |-> Aborted(@[r], "shutdown")]]
    /\ UNCHANGED <<row, drain, cancel, troubles>>

\* Mutant: what was aborted is not waited for.
NothingToAwait(w) == TRUE
DisposeSettled(w) == InFlight(w) = {}

DisposeEnds(w) ==
    /\ dispose[w] = "aborting" /\ DisposeSettled(w)
    /\ SetDispose(w, "stopped")
    /\ UNCHANGED <<row, drain, exec, cancel, troubles>>

\* A process goes away; the worker of the next one has another identifier.
Crash(w) ==
    /\ dispose[w] # "stopped" /\ Trouble
    /\ SetDispose(w, "stopped") /\ SetDrain(w, NoDrain)
    /\ exec' = [exec EXCEPT ![w] = [r \in Run |-> NoExec]]
    /\ row' = [r \in Run |-> IF Owns(w, r) THEN [row[r] EXCEPT !.owner = None] ELSE row[r]]
    /\ UNCHANGED <<cancel>>

-----------------------------------------------------------------------------
Drains(w) == DrainBegins(w) \/ Claims(w) \/ ClaimAnswers(w) \/ DrainEnds(w)
Execution(w, r) == Grants(w, r) \/ HarnessRaises(w, r) \/ Completes(w, r) \/ Fails(w, r)
Stopping(w) == DisposeAborts(w) \/ DisposeEnds(w)

Next ==
    \/ \E r \in Run : Enqueue(r) \/ CancelReads(r) \/ Lapses(r)
    \/ \E w \in Worker, r \in Run :
        CancelWrites(w, r) \/ Execution(w, r) \/ Renews(w, r) \/ EventRefused(w, r)
    \/ \E w \in Worker :
        \/ Drains(w) \/ DrainRaises(w)
        \/ Starts(w) \/ Disposes(w) \/ Stopping(w) \/ Crash(w)

(***************************************************************************)
(* A process whose worker stopped is started again or replaced (the next   *)
(* tick, or the host), polls, and its calls answer; an execution ends      *)
(* within its timeout; a lease nobody renews lapses.                       *)
(***************************************************************************)
Fairness ==
    /\ \A w \in Worker : WF_vars(Drains(w)) /\ WF_vars(Starts(w)) /\ WF_vars(Stopping(w))
    /\ \A w \in Worker, r \in Run : WF_vars(Execution(w, r))
    /\ \A r \in Run : WF_vars(~Held(r) /\ Lapses(r))

Spec == Init /\ [][Next]_vars
FairSpec == Spec /\ Fairness

-----------------------------------------------------------------------------
(***************************************************************************)
(* Completion and failure are fenced on the owner alone: what the owner    *)
(* still executes must be what its lease was last claimed for, or the      *)
(* result of an attempt that was given up would settle the run.            *)
(***************************************************************************)
OwnerIsCurrent == \A w \in Worker, r \in Run :
    row[r].owner = w /\ exec[w][r].at # "none" => exec[w][r].current

(***************************************************************************)
(* The slots are counted once for a whole drain, which awaits a claim      *)
(* after another while executions end and the worker stops and starts.     *)
(***************************************************************************)
WithinConcurrency == \A w \in Worker : Cardinality(InFlight(w)) <= Concurrency[w]

(***************************************************************************)
(* "Stopping drains both execution workers and releases their leases only  *)
(* after in-flight work is settled or left for the existing fenced         *)
(* recovery path" (spec/module.yaml:46): when dispose() has resolved       *)
(* nothing of the worker runs any more, claims in flight at the stop       *)
(* included.                                                               *)
(***************************************************************************)
StoppedHasDrained == \A w \in Worker :
    dispose[w] = "stopped" => InFlight(w) = {} /\ drain[w] = NoDrain

(***************************************************************************)
(* A run that is enqueued is settled, past workers that stop while their   *)
(* claim is answered, crashes, lost leases and errors.                     *)
(***************************************************************************)
RunsSettle == \A r \in Run : row[r].status = "queued" ~> row[r].status \in Settled
===============================================================================
