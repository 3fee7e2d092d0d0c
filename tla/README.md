# Flowdular in TLA+

Flowdular is a modular platform for business applications. One Node process
composes the modules of `src/modules` over the packages of `src/packages`; a
deployment may run several such processes over one PostgreSQL database and one
object store. Most of what a request does is one transaction. What outlives a
request is not: workflow runs, agent runs, exports, imports, deliveries and
schedules are rows that several processes claim under a lease, work on step by
step and must settle exactly once, whatever crashes or answers late. These
modules specify that part.

Paths below are relative to `src/`.

- [Checking it](#checking-it)
- [Inventory](#inventory)
- [The durable job runner](#the-durable-job-runner-jobloop-jobpass)
- [Workflow runs](#workflow-runs-workflowrun)
- [Agent runs](#agent-runs-agentrun)
- [Export jobs](#export-jobs-exportledger-exportjobs)
- [Deliveries](#deliveries-deliverypromise-deliveryqueue)
- [Schedules](#schedules-schedulefiring)
- [Settings](#settings-settingssnapshot)
- [The platform runtime](#the-platform-runtime-workerticker-databaseleases-platformruntime)
- [Where the code and its documentation part](#where-the-code-and-its-documentation-part)
- [What is proved](#what-is-proved)
- [What is not modelled](#what-is-not-modelled)
- [Plan](#plan)

## Checking it

    tlc -workers 2 -config MCJobLoop.cfg MCJobLoop        # a run
    tlapm JobRunnerProofs.tla                             # the proofs of a module

`PROJECT.json` lists the runs, the mutants that show each property can fail, the
source lines behind each definition, the hazards each property is for, and the
theorems.

| module | what it is |
| --- | --- |
| `JobLoop` | the control of `createJobRunner`: start, tick, wake, stop, dispose |
| `JobPass` | one pass of it: claims, pool, renewals, counters, backoff |
| `WorkflowRun` | one live workflow run and the workers that claim it |
| `AgentRun` | the queue of agent runs: leases, drains, executions, stop and dispose |
| `ExportLedger` | what an export job promises |
| `ExportJobs` | the export jobs as processes, storage and retention move them; implements `ExportLedger` |
| `DeliveryPromise` | what a notification event promises of its delivery |
| `DeliveryQueue` | the delivery attempts as processes claim, send, retry and replay them; implements `DeliveryPromise` |
| `ScheduleFiring` | cron schedules: the time-zone follower and the walk over what is due |
| `SettingsSnapshot` | the settings a process holds in memory, over the change log |
| `WorkerTicker`, `DatabaseLeases`, `PlatformRuntime` | tick windows, leases and pools, and the generations composed of them |
| `JobRunnerProofs` | theorems about `JobLoop` and `JobPass`, with their proofs |
| `WorkflowRunProofs`, `AgentRunProofs`, `ExportJobsProofs`, `DeliveryQueueProofs`, `ScheduleFiringProofs`, `SettingsSnapshotProofs`, `PlatformRuntimeProofs` | the same about the module each is named after |
| `MC*` | the instances TLC checks, with their `.cfg` files |

## Inventory

For each part: the state it keeps, its operations, whom it talks to, what is
hard about it, and what makes it correct.

### Modelled

**Durable job runner** (`packages/server/src/jobs/runner.ts`). State in memory,
one per runner: `started`, `disposed`, `generation`, `inFlight`, `waking`,
`timer`, the consecutive failures, and within a pass its counters, its claim
chain and a renewal per item. Operations: `start`, `tick`, `wake`, `stop`,
`quiesce`, `dispose`. It calls its owner back: `claim`, `heartbeat`, `perform`.
Sixteen runners in ten modules use it (exports, import, adapters, documents,
audit, approvals, notifications, automations, auth, agents). Hard: every call may
fall between two promise reactions; renewals answer after their item ended.
Correct: passes never overlap, one scheduling chain, a wake is served, a claim is
given up only when it was lost, every item ends in exactly one counter.

**Workflows** (`modules/workflows/src/services/worker.ts`,
`database-repository.ts`). State in the database: a run with its lease, a row per
node, attempt and edge, events. Operations: claim, renew, advance through the
compiled order, start and observe a child, suspend, retry, cancel, settle. It
starts agent runs and deferred actions, opens approval requests, and is woken by
the approvals module. Hard: a crash between any two transactions, a lease that
lapses under a worker, a cancellation at any moment, a child whose end arrives
late. Correct: one worker inside, one live child per node, an attempt settles
once, outcomes are final and match the nodes, a cancelled run starts nothing.

**Exports** (`modules/exports`). State: a row per job (`status`, `claimed_at`,
the object it names), the objects in storage, the routing rows a runner holds.
Operations: start, claim, renew, perform (walk, put, settle), discard,
retention, rotation of the sealing key. Hard: an object and a row that no
transaction covers together; claims taken over; answers lost. Correct: a job
settles once, with one stored file of its own; no file is out of reach of
retention; every job settles.

**Agents** (`modules/agents/src/services/worker.ts`, `database-repository.ts`).
State: a row per run with its lease; per worker the drain under way, the
executions in flight with their abort signal, and how far a stop is. Operations:
enqueue, cancel, drain, claim, renew, grant, execute, complete, fail, start,
stop, dispose. It calls the harness and, at the end, the workflows' observer and
the notifications. Hard: a claim answered after a stop; a drain that awaits one
claim after another while its executions end; the same worker taking its own
lapsed lease back. Correct: the owner of a lease executes what it last claimed,
a stop drains, slots are kept, runs settle.

**Notifications** (`modules/notifications/src/services/delivery-service.ts`,
`delivery-runner.ts`, `webhook-service.ts`). State: inbox items, a row per
delivery attempt, the webhook subscriptions. Operations: publish, claim, send,
record, retry, bury, hold, replay, pause, disable, delete. Hard: claims are held
by wall clock and never renewed, an outcome and the retry it causes are separate
writes, two operators may replay one dead letter. Correct: the attempts of an
event follow one another to a final outcome, within the budget; what is sent
again has a cause.

**Automations** (`modules/automations`, schedules). State: a row per schedule
with its next slot, an applied time-zone revision per workspace, the follower's
cursor and what it owes, the walk's place. Operations: follow, retime, walk,
fire, disable, advance, update. Hard: zones change while slots are computed,
edits between any two steps, a queue before the advance, a failing row at the
head of the walk. Correct: a slot fires in a zone no older than the changes
before its pass; what is due is served, whatever else fails.

**Settings runtime** (`packages/kernel/src/module-settings.ts`). State of a
process: a bounded cache of tenants, a cursor in the change log, the shared
revalidation and the reads under way. Operations: prime, revalidate, load,
`set`. Hard: reads land in any order, callers share a revalidation that began
before them, a cursor expires, a tenant is evicted. Correct: a prime reflects
the changes it must; a process never reads behind its own write.

**Platform runtime** (`platform/octane.config.ts`,
`platform/src/server/lifecycle.ts`, `worker-tick.ts`, `runtime-role.ts`;
`packages/database/src/provider.ts`). State: per evaluation of the
configuration a lifecycle with its requests, interrupts, quiescers and
disposers; the window of the worker ticker; the provider's leases and pools.
Operations: compose, activate, retire, serve, stream, tick, quiesce, dispose,
acquire, release. Hard: generations hand over while requests and windows are
open, a boot goes on after its own retirement, steps raise. Correct: nothing is
torn down under a request, two generations do not run their loops at once, a
tick is answered with every worker stopped, pools close when the leases are back, retirement ends.

### Not modelled yet

| part | state | operations | with | hard | correct when |
| --- | --- | --- | --- | --- | --- |
| Approvals | requests, decisions, grants | open, decide, cancel, expire, run callbacks | workflows, agents, notifications | decisions at once; expiry against decision; a crash before the callbacks | one outcome per request, reached by enough eligible deciders; each waiting consumer looks again |
| Import | jobs, row ledger, mappings | start, parse, confirm, write batches, cancel | ports of other modules | a batch written before it is recorded; takeover in a batch; cancel while writing | each row has one outcome, and the counts are the rows' |
| Adapters | bindings, runs with a cursor, rows | fire, claim, pull, push, commit a page, resume, cancel | connectors, import ports | crash between the call and the page's commit | a page is counted once; keys make a push repeatable |
| Connectors | call ledger by idempotency key, credentials | call, replay | adapters, agents, workflows | two calls under one key; unknown outcome | one effect per key |
| Research | adapter health, runs, sources | chain, probe, hand back | agents | several chains on one half-open circuit | one probe at a time, no verdict undone |
| Audit | hash chain, anchors, segments, export and erasure runs | append, seal, verify, retain, export, erase | every module | two seals; retention against sealing; file before anchor | no row leaves the chain without a segment that holds it |
| Metering | counters per day and month, limits | record, check | adapters, agents | check apart from record | recorded once per source reference |
| Documents | attachments, texts, templates, renders | store, extract, render, rotate | storage | as exports | as exports |
| Auth, directory, users, access, profile | accounts, sessions, factors, memberships | one transaction each | every module | little ordering between actors | the last owner stays; a session ends with its account |
| Reports, search, system | none, or one record | reads, settings | providers | none | results bounded |
| Kernel | registries filled at start | register, look up | every module | none after start | declarations consistent |
| Storage, `packages/storage` | stores | put, read, delete, reseal | exports, documents, audit | partial writes | an object is whole or absent |
| Harness, AI provider | a conversation | tool loop | agents | limits | turns bounded |
| Sandbox, coding agent, CLI, generator | processes, files | tooling | none | outside the platform's own core | none stated |
| Client, UI, docs, infra | none | rendering, configuration | none | none | none stated |

How they meet at run time: a schedule or a person starts a workflow run; a
workflow worker claims it, starts an agent run or opens an approval, and sleeps;
the agent worker or a decision ends the child; the workflow worker observes the
end and goes on. Exports, imports, adapters, documents, deliveries, expiries and
sweeps run on job runners of their own. On retirement the platform quiesces them
all and then disposes them. What one module takes of another is stated where it is
used: `WorkflowRun` takes a child as it starts, ends and is cancelled, which
`AgentRun` details; `ExportJobs`, `DeliveryQueue` and `ScheduleFiring` take of the
job runner that it polls, runs at most so many items at once and renews
(`JobLoop`, `JobPass`); `PlatformRuntime` takes of a module's workers that they
start, drain at a stop and release at a dispose, which `JobLoop` (`StoppedIsQuiet`)
and `AgentRun` (`StoppedHasDrained`) show of two of them.

## The durable job runner: JobLoop, JobPass

`JobLoop` has one action for each call (`Start`, `Tick`, `WakeBusy`, `Stop`,
`Dispose`; a wake with no pass in flight is a tick) and for each promise reaction (the end of a pass, the `finally` of
`tick`, the reaction of `run`, that of `wake`, the timeout). The gap between the
`finally` that clears `inFlight` and the reactions that follow is a state of its
own (`phase = "cleared"`), since callers are reactions too. Activations of `run`
and passes have identities because two may overlap across a stop and a start.
`owed` and `quiet` are observers: they record what a property needs to remember,
and no guard reads them.

A wake during a pass is in two properties. `WakeIsServed`: a pass begins after it,
on a loop that polls and on one that does not, unless a stop comes after the wake.
The polling alone would not serve it on a loop that was never started, so the
reaction of `wake` and the flag it resets are what the property rests on.
`StoppedIsQuiet` is about the other half, the polling: what was stopped begins no
pass, and a wake left over from before the stop is none of its business. Whether
that wake is served after the stop is the finding of `job_wake`.

`JobPass` takes over where a pass begins. A slot queues behind the claim chain,
claims, performs under a renewal timer and comes back; what the owner's callbacks
answer is open. `item[s].held` is the truth in the database that a renewal asks
about, and `stray[s]` counts renewals not answered when their item ended: they
may still answer, to an item that is no longer theirs.

| run | properties | instance |
| --- | --- | --- |
| `job_loop` | `OnePassInFlight`, `OneLiveChain`, `StoppedIsQuiet`, `WakeIsServed` | 3 passes, 2 activations, 1 stop; 13 thousand states |
| `job_wake` | `OnlyDisposeSilencesWake`, violated | the same |
| `job_pass` | `OneClaimAtATime`, `LostClaimIsOwn`, `DelayIsBounded`, `PassesEnd` | 3 slots, 4 claims a pass, 5 doublings, 1 stray renewal; 260 thousand |

Bounds. Identities are recycled, so the number of passes is not bounded, only how
many are alive: three cover the one in flight and two with reactions pending,
and one stop is enough for two activations to wait on one pass. `MaxStops`
bounds `generation`; the theorems have no such limit. Three slots and four
claims leave a slot that finds nothing while two work, and the backoff reaches
its ceiling (`MaxDoublings` is 30 in the code, 5 here, against an interval that
makes the doubling visible). A runner may be disposed and stop for good, hence
`CHECK_DEADLOCK FALSE` in `job_loop` and `job_wake`.

Fairness. Promise reactions run (weak fairness on each), a timeout fires, and a
pass ends (`PassEnds`; in `JobPass` the steps of each slot): the owner's callbacks
return. That is what the runner itself assumes, it puts no limit on `perform`. Nothing is assumed of
callers: no start, tick, wake or stop need ever come.

## Workflow runs: WorkflowRun

One run and the workers that may claim it. The run's row, node, attempt and edge
rows, the events of asked cancellations, the children in other modules and the
local state of each worker are separate variables. One action is one transaction
or one call of another module's capability; reads that follow one another with
no write between them are one action. So between any two actions a worker may
crash (`Crash`), a lease lapse under it (`LeaseExpires`), a transaction or a call raise
(`MaxErrors`) or a cancellation commit. A crashed worker leaves its rows and a
lease owned by `Dead`, that lapses in time; workers that come after are other
identities, as in the code.

Abstractions. Whether an input, an output or a gate's expression is valid is an
open choice. Clocks are flags with an action that sets them: `expired`,
`overdue`, `windowOver`, and a retry or recheck that becomes due. Reading the
candidates and claiming one are one action, the claim's statement being the
guard. The registration of an approval's callback goes with the request that
opens it.

| run | instance | properties |
| --- | --- | --- |
| `workflow_fork` | a decision between an action that emits its failure and an agent, a merge of three branches; 2 attempts, 2 workers, 1 cancellation, 1 crash, 1 error, deadlines and window; 1.6 million states | `OneWorkerInside`, `OneLiveChildPerNode`, `UnbrokenCancelReachesChildren`, `AttemptSettlesOnce`, `OutcomeIsFinal`, `DataFlow`, `ProgressIsExact`, `NothingStartsAfterCancel` |
| `workflow_sign` | input, approval, output; 1 attempt, the same faults, with fairness; 131 thousand | `SleeperIsRechecked`, `RequestsAreWithdrawn`, `RunSettles` |
| `workflow_recover` | input, agent, output; 1 worker, 1 attempt, 1 crash, with fairness | `RunSucceeds`, violated |

The graphs cover every kind of node (a gate routes as the decision does) and each
way an edge is settled: taken, skipped by a decision, skipped by propagation, and
taken on failure. Two workers
are the most that can disagree about one lease with one crash; one crash, one
error and one cancellation at any moment already give all orders of two of them
around each transaction. `MaxAttempts` 2 has one retry.

Fairness (`FairSpec`, used by `RunSettles`). A worker that claimed a run goes on
(weak), a run that is claimable again and again is claimed (strong per worker:
with one run in the queue the poll returns it whenever it is claimable, and the
poll recurs), leases, deadlines, rechecks and the live window pass with time
(weak), and a child ends. With several runs in the queue the claim order matters
(`database-repository.ts:619`), which this module does not show: see the plan.

`OnTime` says that no lease has lapsed under a worker that goes on (a freeze: a
process stalled for a whole lease, against a renewal interval far below it and an
aborted signal). `OutcomeIsFinal` and `NothingStartsAfterCancel` hold whatever
leases do. The other safety properties are stated under `OnTime`, because the
code gives them up after a freeze: with `MaxFreezes` 1 and without that condition
TLC refutes `OneWorkerInside`, `AttemptSettlesOnce`, `ProgressIsExact`,
`DataFlow`, `SleeperIsRechecked`, `RequestsAreWithdrawn` and
`UnbrokenCancelReachesChildren`. A late worker settles an attempt another one
settled, since `settleAttempt` (`database-repository.ts:2143`) updates the row
without a condition on its status, and it may take a node past its policy's
attempts (the model stops there, a bound of `StartAttempt`).
`OneLiveChildPerNode` survived at two attempts and no crash; with more, a retry
that a late worker made due may start beside a live child. Since all of these
speak of what comes before the first freeze, the runs have `MaxFreezes` 0; the
proofs allow any.

## Agent runs: AgentRun

The queue and the workers of several processes. One action is one statement or
transaction, or one side of an await after which `stop()` is looked at again
(`DrainBegins`, `Claims`, `ClaimAnswers`). A drain counts its slots once and
then awaits a claim after another; executions end under it. `exec[w][r].current`
observes whether the run has been claimed again since, also by the same worker.
`dispose()` awaits the drain, then aborts what is left and awaits that. The number of
slots is a constant; the code reads the setting again at each drain, so a lowered one
is exceeded until executions end.

Abstractions. The harness is an execution that returns or raises whenever it
likes; events are their refusal; the grant is its fence. A worker identifies
itself by process and start, so one that comes back after a crash owns nothing
(`Crash`). Cancellation reads and writes in one read-committed transaction: two
actions.

| run | instance | properties |
| --- | --- | --- |
| `agent_runs` | workers of 2 and 1 slots, 2 runs, 2 troubles of any kind (stop, crash, cancellation, a lease that lapses in use, a call that raises); 333 thousand states | `OwnerIsCurrent`, `WithinConcurrency`, `StoppedHasDrained`, `RunsSettle` |

Two runs fill one worker and contend at the other; two troubles pair a stop with a
lapse, or a lapse with the claim that takes the run over. Fairness: drains recur, a
stopped worker is started again (its process's next tick or boot), executions end
within their timeout, a lease nobody renews lapses. `Disposes`, renewals and all
troubles are not fair.

## Export jobs: ExportLedger, ExportJobs

`ExportLedger` is the promise, in `modules/exports/spec/module.yaml`'s terms: a
job is requested, claimed, and completed or failed once; a completed job names
one stored file of its own that no other job names; retention removes rows of
settled jobs alone; nothing is written for a row that does not exist.

`ExportJobs` is the code. A row's `claim` says whose token `claimed_at` holds
(the timestamp itself matters only by equality). A runner holds routing rows
that are older than its claims (`route`). A stage walks, writes, settles, or
fails, and ends in the `finally` that discards a file nothing recorded. Each
transaction may commit and lose its answer (`faults`), a process may crash, a
claim go stale and be taken over; `MaxTroubles` bounds them together. Retention
and rotation are one transaction each under row locks (`sweep`, `rotation`),
whose storage calls are steps of their own.

`ExportJobs` implements `ExportLedger` with `status` and `file` read off the
rows and `store` as it is (`KeepsTheLedger`).

| run | instance | properties |
| --- | --- | --- |
| `export_jobs` | 2 processes, 2 jobs, routing page 2, sweep limit 1, 1 trouble; 377 thousand states | `FilesAreReachable`, `CompletedJobHasFile`, `KeepsTheLedger`, `JobsSettle` |

Two processes and a page of two make a runner hold a row another one claims, and
a sweep limit of one makes retention work in several batches. The safety
properties were also checked with two troubles (4.6 million states), in which a
takeover follows a lost answer; the run keeps to one so that it ends in a
minute.

Fairness. Polling recurs and a stage's steps end (weak), and a claim that keeps
being possible is made (strong: it is possible only while the row is at the head
of the runner's routing rows). Requests, sweeps, rotations and troubles are not
fair.

## Deliveries: DeliveryPromise, DeliveryQueue

`DeliveryPromise` says of an event: a run of attempts is opened by the
publication or by a replay after a dead letter; its attempts follow one another
within the budget; it concludes once, or is dropped with its subscription.

`DeliveryQueue` is the code. `row` holds the status of each attempt under its key
(event, sequence, number); `ahead` is the order of `scheduled_for` among pending
attempts, as pairs, of which a pass reads a page. A claim carries no token: a sender
that stalls is taken over and goes on (`TakesOver`), and the statements at the end
are fenced on the status alone. The outcome of a failed attempt and the append of its retry are two
actions; a replay's read and its append are two more. `Transition`, `Disable` and
`Delete` move the subscription while its attempts are sent. `DeliveryQueue`
implements `DeliveryPromise` with the attempts counted per run and its state that
of the last attempt (`KeepsThePromise`).

Abstractions. An answer is success, failure or, of a mail, refusal for good.
Back-off is an order, not a time: what is appended or parked waits behind what is
there. Signatures, payloads and secrets are left out.

| run | instance | properties |
| --- | --- | --- |
| `delivery` | 2 processes of 1 slot, 2 operators, 1 webhook and 1 mail event, 2 attempts, page 1, 2 runs of the webhook, 2 changes of the subscription, 1 trouble; 415 thousand states | `RequestsAreCaused`, `KeepsThePromise`, `RunsConclude` |

A page of one puts a held attempt in front of what is due; two operators replay
one dead letter; two changes pause a subscription and resume it; one trouble is a takeover, a crash or a call that raises, at any
point of any attempt. Fairness: a sender's calls answer (weak), and an event that
can be claimed again and again is (strong: a claim nobody performs is older than
the timeout at some poll and at all that follow). `RunsConclude` leaves out what
the code leaves out: a run held by its subscription, and one whose retry was lost
(see below).

## Schedules: ScheduleFiring

One schedule per workspace and the passes of the scheduler. A pass first follows
the log of time-zone changes (`ReadsLog`, `ReadsZone`, `Selects`, `Retimes`), then
walks over what is due (`ReadsPage`, `Claims`) and fires it (`Fires`, `Enqueues`,
`Disables`, `Advances`). What the follower could not apply it owes to the next
pass, and the workspace's slots wait (`hold`). `update()` reads and writes without
a comparison (`EditReads`, `EditWrites`).

Abstractions. A zone is the revision of the change that set it, and the slots of
zone z are the times that are z modulo `Period`, so a slot computed in another
zone is another time. A read of the settings answers with any zone at least as new
as the revision it names, which is what `SettingsSnapshot` shows of `prime`. The
page of the log holds all of it. `sched[w].zone` and `sched[w].raced` are
observers: the zone a slot was computed in, and whether its writer had read that
zone under an older revision than the one applied by the time it wrote.

| run | instance | properties |
| --- | --- | --- |
| `schedules` | 2 workspaces, one of them with a retiming that always raises, 1 process, page 1, 1 zone change, 1 update, 1 trouble, time to 3; 725 thousand states | `PassIsCurrent`, `FiresInItsZone`, `DueIsServed` |

A page of one with a broken workspace at its head is the smallest walk another
workspace can starve behind. Period 2 gives each zone its own slots, and three
ticks let a slot fire, advance and fire again. With one change a process owes at most
one retiming, so the limit past which it reads the log anew (`RetryLimit`) is not
reached in this run; the largest instance
checked by hand, below, reaches it, and the theorems hold of any. Two processes over one workspace
with two changes (1.4 million states) and one process over two workspaces with
two changes, an update and a trouble (12 million) were checked by hand. Fairness: time passes and the runner keeps
passing; nothing is assumed of changes, edits or troubles.

## Settings: SettingsSnapshot

One process, the log of changes of all, and callers of `prime`. A value is the
revision of the last change it reflects, so a read that answers holds what the
tenant was at any moment since the read began. `reads[t]` are the reads under way
in the order they began, with `overtaken` for those a later one has outrun;
`reval` is the revalidation callers share; a caller that joined one looks again
(`Rejoins`). The cache evicts the tenant primed longest ago. `wrote` is an
observer: the last change a `set()` of this process resolved.

| run | instance | properties |
| --- | --- | --- |
| `settings` | 2 tenants in a cache of 1, 2 callers, staleness 1, log page 1, time to 2, 2 changes, 1 trouble, `MaxTorn` 0; tenants and callers symmetric; 2.2 million states | `KeepsItsWrites`, `PrimeIsFresh` |

A page of one makes a second change overflow it, so a revalidation falls back to
reading everything held; a cache of one evicts at each turn; two callers are the
one that begins a revalidation and the one that joins it. `MaxTorn` bounds the
tenants forgotten while a read, a `set()` or a caller of theirs is under way:
evicted from the cache, or not held when the reload that names them raised and
left a stray one behind. Both properties speak of the time before the first such
tenant (`Unforgotten`), so 0 leaves nothing out; with 1 and without that condition
`PrimeIsFresh` fails either way, see below. The symmetry is sound: nothing names a
tenant or a caller, and no liveness is checked.

## The platform runtime: WorkerTicker, DatabaseLeases, PlatformRuntime

`WorkerTicker` is the window of one generation: its starts, the timer, the stops
in reverse order and the answer that joined ticks share. `DatabaseLeases` holds
the provider and the leases of the modules' repositories. `PlatformRuntime`
composes them per generation with the boot of `octane.config.ts`, the retirement
of `lifecycle.ts` and the requests: a request holds its generation until its body
ends, interrupts are called at retirement, quiescers follow the last request and
disposers the last quiescer, the newest first. One action is one await.

| run | instance | properties |
| --- | --- | --- |
| `platform` | 2 generations of 2 modules, either role, 2 requests of any kind (streams and ticks), 1 teardown step that raises, starts and stops of a window that may all raise; 902 thousand states | `TeardownWaitsForRequests`, `HandOver`, `LeasesComeBack`, `DrainedBeforeAnswer`, `RetirementCompletes` |

Two modules make a start or a teardown stop halfway; two requests are a window and
the tick that joins it, or a stream in each generation. `HandOver` excepts what the
code does: a boot whose own generation has retired goes on to start its workers,
and a quiesce that raised leaves its loops.

A window collects what its starts and stops raise and answers the tick with it
(`worker-tick.ts:95-109`), so a composition whose `stop()` raised may still have its
loops when the host freezes. `undrained` records those, and `DrainedBeforeAnswer`
says that they are all: one composition's failure costs no other its drain. A
joined tick promises no pass of its own (`worker-tick.ts:120`); what it was sent to
announce waits for another, and no property is about it.

Fairness: a handler returns, a body
other than a stream ends, a stream that was told to end does, a window's timer
fires, `stop()` and `dispose()` answer or raise. No boot, request or stream need come.

## Where the code and its documentation part

Two runs expect a violation. `job_wake` (`OnlyDisposeSilencesWake`): the comment on
`wake()` (`packages/server/src/jobs/runner.ts:152-154`) says that it ignores `start`
and `stop` and that "only `dispose` silences it". `stop` resets `waking` (line 440),
so a wake that waits for the pass in flight when the stop comes asks for nothing
afterwards. On a runner already stopped the comment is right.

`workflow_recover` (`RunSucceeds`): work should be
recovered after a restart. A worker that dies after an attempt settled and before
its edges did leaves a node every later claim walks past; the run ends when its
live window does.

The others are in the models, as the code behaves, and are excluded by the
conditions of the properties rather than shown by a run of their own.

- Job runner (`packages/server/src/jobs/runner.ts`). A `tick` in the gap between the
  `finally` that clears `inFlight` and the reaction of an earlier wake begins a pass
  that reaction only joins, resetting `waking` (line 461). A wake in the same gap is
  coalesced into it, or loses its flag to it, and no pass follows: `owed` leaves
  such a wake out of `WakeIsServed`. The gap is a few microtasks long and the pass
  that began in it has hardly read anything yet.
- Workflows (`modules/workflows/src/services`). A child enqueued by a worker that
  died before recording it, or whose cancellation was recorded before it was asked
  (`worker.ts:1210`), is never asked to cancel: `UnbrokenCancelReachesChildren`. A
  result read after the cancellation is routed to the next edge (`worker.ts:706`);
  nothing starts from it. A decision between the worker's read and its suspension
  is overwritten by the bounded recheck (`database-repository.ts:2102`), which then
  finds it: `SleeperIsRechecked`.
- Exports. A completing settle whose answer is lost has its file discarded by the
  `finally`, so the completed row names a file that is gone
  (`CompletedJobHasFile` is stated while no transaction and no delete raised); a
  stage whose claim was taken over still settles the job, since the settle is
  fenced on the status alone, which the comment at `database-repository.ts:58`
  accepts.
- Agents (`modules/agents/src/services`). `cancelRun`
  (`database-repository.ts:1176`) reads the status and writes `cancelled` over
  whatever it has become, a run that finished in between included, which
  `agent-service.ts:2094` means to refuse. A crash between `completeRun` and the
  publication of its outcome loses the notification.
- Notifications (`modules/notifications/src/services`). The retry of a failed
  attempt is appended after the outcome is committed (`delivery-service.ts:670`):
  a crash between leaves an event neither delivered nor dead
  (`RetryIsLost`). A row claimed by a statement whose answer was lost waits for the
  claim timeout.
- Automations (`modules/automations`). `update()` writes back the slot it read, so
  a slot that fired in between is due again, and one retimed in between is back in
  its old zone; an advance or an update that read its zone before a change was
  applied and writes after it does the same. `FiresInItsZone` excepts these
  (`raced`). A retiming between a crash after the enqueue and the next pass
  gives the slot a second key. A failure for the old target disables a schedule
  that was just edited, since the disabling statement names no slot.
- Settings (`packages/kernel/src/module-settings.ts`). A tenant evicted (`:511`)
  while one of its reads or callers is under way forgets which reads were
  overtaken: a late read brings an older value back, or the caller marks an empty
  snapshot as primed. With `MaxTorn` 1 and without the condition `Unforgotten` TLC
  shows it in ten steps.
  A tenant that a failed reload never got to hold is forgotten the same way while
  a stray reload of it goes on (`MaxTorn` 1, two troubles, three changes).
- Platform. `startModuleWorkers` (`platform/src/server/runtime-role.ts:32`) does not
  look at the retirement again between two starts: `HandOver` excepts those.

## What is proved

TLC checks small instances; the theorems hold for every value of the constants.
They rest on the assumptions the modules name (`WorkflowAssumption`,
`PassAssumption`, `ExportAssumption`, `AgentAssumption`, `SettingsAssumption`,
`ScheduleAssumption`, `DeliveryAssumption`, `RuntimeAssumption`,
`TickerAssumption`, and the two of `JobLoop`), which say that bounds are numbers,
that the special values are not members of the sets and that the order of a run's
graph names a node once. No theorem has a hypothesis besides. What a lease that
lapses under a worker and a tenant that is forgotten in use break is part of the
properties themselves (`OnTime`, `Unforgotten`), as the sections above say. Every
safety property the runs check is a theorem, and so are both refinements.

**JobRunnerProofs.** Of the control, `JobLoopInvariant`, and from it
`PassesNeverOverlap`, `LoopHasOneChain` and `StoppedRunnerIsQuiet`. That passes do
not overlap is not inductive: one must know that `inFlight` names the only pass
that is running or ended, and that each activation waiting for a pass waits for
one that exists. One chain needs to know of each activation whether its chain is
the present generation, and that a started loop has one that is. Of a pass,
`PassInvariant` gives `PassIsTyped` (which bounds the counters and the claim chain
for any concurrency and batch limit), `ClaimsNeverOverlap`, `ItemsAreCounted`,
`DrainedStaysAlone`, `ContentionNeverBacksOff` and `LossIsTheItemsOwn`. It says who
may stand in the claim chain (slots not working, each once), that claims still to
be answered are within the attempts counted, and that claimed items are the sum of
those performed, failed, lost and being worked on, which needs the cardinality of
the working set before and after each step. `DelaysStayBounded` needs a fact about
every number: the delay doubles with each failure (`Doubled`, a recursive
function). That the function the definition chooses exists, that it is unique
where it is asked, and that it grows, is shown by induction over the set of
numbers for which it holds, from the least number of a set.

Two theorems are the safety half of `PassesEnd`: with the fairness of the answers
they leave no way for a pass not to end. `PassesNeverStall`: while a pass runs, a
callback is still to answer, the head of the claim chain may ask, or the pass may
end. `PassesAreFinite`: no step adds to the answers a pass may still take, at most
three for each claim of the batch and one for each slot, and each answer of a
claim or a stage takes from them.

**WorkflowRunProofs.** `RunShape` is the type of every row and of the workers'
local state, together with the fact that a worker about to settle a run carries
an outcome it may settle with. With it `OutcomesAreFinal` and
`CancelledRunsStartNothing` hold for every graph, whatever leases do. The others
are about the time before a lease lapses under a worker (`OnTime`, which once
false stays false, so that their invariants need hold only until then).
`RunHasOneWorker` adds that a worker inside holds an
unexpired lease until the run is settled, and that a settled run has no owner.
On one worker stand, each on those before it:

- `AttemptsSettleOnce`: the update has no condition of its own, so it rests on a
  node row agreeing with the attempts of its node (`Matches`) and on what a worker
  read still holding where it stands (`Placed`).
- `NodesHaveOneLiveChild`: only the last attempt of a node may have a child at
  work, and none once it is to be retried (`KidsInv`).
- `ProgressStaysExact`: a worker of a settled run has only its lease to give back
  (`Alive`), so nobody settles a node uncounted.
- `SleepersAreRechecked`: a run is put to sleep on an approval that waits, and
  what disarms its recheck takes the node out of its wait (`SleepInv`).
- `DataFlowsAlongEdges`: an edge is settled after its source, from the result the
  worker carries, and a worker that is to start a node saw the edges into it
  (`FlowInv`).
- `CancelsReachChildren` and `RequestsWithdrawn`, about runs in which no worker
  died and no call failed: nodes are begun in the compiled order, so one at most is
  neither untouched nor settled (`TurnInv`); nothing is lost or thrown, so a worker
  asks the child whose cancellation it recorded (`Smooth`, `AskedInv`); and what is
  still owed to a child at work when the run is cancelled is in the hands of a
  worker or of the next to enter (`Care`).

**ExportJobsProofs.** `ExportInvariant`: a file belongs to one job and to one row
or stage from the moment it is named (`RowsOwn`, `StagesOwn`, `StagesDiffer`), no
row names what a stage still writes (`WritesAreUnnamed`), retention and rotation
hold the rows they locked (`LocksHold`). `ExportsKeepTheLedger` is the
refinement: requests map to `Request`, claims to `Claim` or a stutter (a
takeover), settles to `Complete`, `Fail` or a stutter, the end of a put to
`Write`, discards to `Delete`, the commit of a batch to `Sweep`, a reseal to
`Write`. Without `WritesAreUnnamed` a `Complete` could name a file another row
names, and without `LocksHold` a reseal could bring back a file that retention
removed with its row. `CompletedJobsHaveFiles` adds that, while nothing raised,
the file of a completed row is stored and a stage that is about to settle knows
its file to be. `FilesStayReachable` counts: a stored file is spared while a row
that retention has not passed over names it or a stage will discard it
(`Spared`), and the others (`Debts`) are at most the crashes and refused deletes.
No step adds a debt that is not paid for; the files of a batch are counted as soon
as their delete is refused, since the row that names them is about to go.

**AgentRunProofs.** The invariant ties the four parts of a worker together: what a
drain has left to claim fits beside what is in flight (`DrainsFit`), a worker that
aborts has no drain, only a running row has an owner (`OwnedRuns`), and the owner
executes what it claimed last. It gives `TypeCorrect`, `OwnerExecutesItsClaim`,
`ConcurrencyIsKept` and `DisposeDrains` for any number of workers and runs and any
concurrency. `WithinConcurrency` is not inductive without the slots of the drain:
an execution starts from a count that was made when the drain began.

**DeliveryQueueProofs.** `DeliveriesKeepThePromise` is the refinement: a
publication and the append of a replay map to `Open`, the append of a retry to
`Retry`, an outcome that is final to `Conclude`, disabling and deleting to `Drop`;
claims, sends, holds, crashes and the outcome of an attempt that will be retried
are unseen. A status alone fences the outcome, so what keeps two senders of one
attempt apart is who owes its retry. The invariant says that the attempts of a run
are numbered without a gap, that all but the last have failed and that the last of
the budget has not (`RowsOrdered`); that a sender at its retry is the only one
for an attempt that failed and has no successor (`RetriesAreOwned`); and that a
replay under way names a run all of whose predecessors exist, one of them dead
(`Replays`). The first two are a theorem of their own, `AttemptsAreOrdered`.
Without `RetriesAreOwned` the append of a late sender could bring back an attempt
that was dropped with its subscription. `RequestsStayCaused` keeps the account of a
run (`Balanced`): the requests made, the senders that may still make one, and the
attempt a claim may yet take are within its attempts and the troubles. A claim
turns the last into a sender and a sender turns into a request; only a lapsed
claim, a crash or a call that raised gives back what was spent.

**ScheduleFiringProofs.** `PassesAreCurrent` gives `PassIsCurrent`. What must be
known is where a change may be once the cursor of a process is past it: applied,
owed, or in the work of the pass that read it; a workspace the pass leaves owing
is one it holds. The other half is that revisions only grow: one process retimes a
workspace at a time, and only forward. `NoChangeIsForgotten` states both. That a
workspace has a newest change is carried along, as in the settings.
`SlotsFireInTheirZone` gives `FiresInItsZone`, of which `PassIsCurrent` is one
half. The other is that an enabled row suits the revision its workspace has applied
(`Suits`): its zone is of that revision or newer, that change found it due, or its
writer raced. A pass fires a slot it read earlier, so each row on its page and
the one it claimed serve the point of the log it began at for as long as the slot
stands (`Serves`, `PageIs`); a retiming knows the slot it is to move until it
writes, since whoever writes the row meanwhile raced it (`TaskIs`); and an
`update()` that read a zone before a change was applied races when it writes
(`EditIs`).

**SettingsSnapshotProofs.** Both theorems are about the time before a tenant is
forgotten with something of it under way (`Unforgotten`). Of `OwnWritesAreKept` the invariant
(`Sound`) is of the reads of one tenant: they stand in the order they began, so
what they saw grows along them, and those overtaken are a prefix; a read not
overtaken has seen every write that has resolved, an overtaken one saw no more
than what is held, and at most one is the read back of a `set()`. Without the
prefix a read landing late could hide that a newer one had landed. That a tenant
has a newest change is carried along as a part of the invariant. `PrimesAreFresh`
adds what the cursor promises: all that was committed before the log was last read
lies before it, and before what a revalidation under way has read (`Marks`); what
a caller may ask for once it goes on lies before the cursor (`Calls`); a change
before the cursor is reflected in what is held and in every read not overtaken,
and one a reload is to bring is awaited from it (`Reaches`); and a tenant that is
primed, or that a caller has loaded, is held (`Keeps`).

**PlatformRuntimeProofs.** `RuntimeInvariant`, of three parts. A ticker is closed
exactly when its generation retires, a window has recorded every loop that runs,
and a request is of a generation that was up (`Serves`): that gives `TeardownWaits`
and `WindowsDrainFirst`. `GenerationsHandOver` rests on two activated generations
being ordered, whichever boots were side by side: one waits for the other, or one
has stopped listening (`Ordered`, `Gone`), which it does only after its quiescers
left no loop behind (`Quiesced`). `LeasesReturn` rests on a composition that was
disposed running nothing and so opening nothing again (`DisposedRests`), and on
the order of the disposers (`Gives`).

As for a pass, two theorems are the safety half of `RetirementCompletes`, and one
is about the boots that wait for it. `RetirementsNeverStall`: a retirement that is
not over has a request that may end, a window that may drain or a step of its
teardown, since no stream of a retired generation is open (`StreamsEnd`), a tick
waits only for a window under way (`TicksHold`), and that window is not held open
(`WindowsClose`). `RetirementsAreFinite`: no later boot and no request adds to what
its requests, its window and its teardown have left to do, and each of their steps
takes from it. `BootsNeverStall`: a boot awaits only generations that have retired
and so never another boot.

Only model-checked: every liveness property (`WakeIsServed`,
`PassesEnd`, `RunSettles`, `RunsSettle`, `JobsSettle`, `RunsConclude`,
`DueIsServed`, `RetirementCompletes`), since fairness and ENABLED are out of the
prover's reach. `PassesNeverStall` and `RetirementsNeverStall` therefore name the
guards of the steps instead of saying that the steps are enabled.

## What is not modelled

Of the parts above: of the job runner, logging, tracing and the content of its
events. Of workflows, the drain's own scheduling (start, kick, stop), several
runs in one queue, payload retention, usage and cost rollups, events and audit,
simulation, notifications. Of agents, the conversation, tools and their grants
beyond the fence, the queue of deferred actions, the content of events, usage. Of
exports, the contents of the file, paging and row bounds of the walk, the list
catalogue, read URLs, the data class export. Of notifications, the inbox, its
reads and retention, preferences, the sweeps of old rows, the editing of
subscriptions and their secrets, reachability tests. Of automations, triggers and
received webhooks, interval schedules, ownership. Of the settings, validation and
encryption, the module definitions, the log's retention beyond an expired cursor.
Of the platform, the web role, first-run setup, storage, auth and observability
disposers.

The other parts are in the inventory with the reason in `PROJECT.json`: pure I/O
(drivers, stores, model providers, connectors' transports), single transactions
with little to order (auth, directory, users, metering), declarations read once
(kernel), development tooling (sandbox, CLI), rendering. They are most of the
repository's lines. Those with a protocol of their own are planned.

## Plan

Done: `JobLoop`, `JobPass`, `WorkflowRun`, `ExportLedger` and `ExportJobs` with
their proofs; then `AgentRun` with its proofs, `DeliveryPromise` and
`DeliveryQueue` with their refinement proved, `WorkerTicker`, `DatabaseLeases` and
`PlatformRuntime`, `SettingsSnapshot` and `ScheduleFiring` with their proofs; then
the proofs of every safety property that had been model-checked alone; then, of
`PassesEnd` and `RetirementCompletes`, that what must end cannot stall and only
takes from what it has left.

Next, to extend the model, where a component's protocol is its own:

1. `ImportJobs` with the adapters' page protocol: batches written before they are
   recorded, takeovers, cancel; the counts of a settled job against its rows.
2. `ApprovalLedger`: decisions at once, expiry, callbacks; it should implement
   what `WorkflowRun` assumes of a request.
3. `WorkflowQueue`: several runs, the poll's order and drain with `start`,
   `kick`, `stop`; whether a run at the head of the queue keeps others waiting.
4. `CircuitBreaker` and `AuditChain`: small, each with one invariant that several
   actors can break.

Then, to prove:

1. Of the other liveness properties what is proved of `PassesEnd` and
   `RetirementCompletes`: that a run of an event that is claimed has fewer attempts
   left, that an execution or an export under way has fewer steps left.
2. That `JobLoop` and `AgentRun` keep what `PlatformRuntime` takes of a module's
   workers, as a refinement of a small abstract worker.
3. The safety properties of the modules above, as they come.
