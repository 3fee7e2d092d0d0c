--------------------------- MODULE PlatformRuntime ---------------------------
(***************************************************************************)
(* The generations of the platform runtime: every evaluation of            *)
(* platform/octane.config.ts composes the modules, activates itself, which *)
(* retires the generation before it, and starts its workers                *)
(* (platform/src/server/lifecycle.ts).  Composed of the worker ticker and  *)
(* the database leases of each generation and the requests they serve.     *)
(*                                                                         *)
(* Grain: one action per await.                                            *)
(***************************************************************************)
EXTENDS DatabaseLeases, FiniteSets

CONSTANTS
    Request,     \* bound: requests of the run
    MaxFailures  \* bound: preparations, starts, quiesces and disposes that raise

ASSUME RuntimeAssumption == MaxFailures \in Nat

VARIABLES
    role,     \* platformRuntimeRole: "combined" or "tick"
    boot,     \* boot[g]: where createPlatformConfig is
    starts,   \* starts[g]: how many compositions startModuleWorkers has started
    waits,    \* waits[g]: generations whose retirement g awaits
    stage,    \* stage[g]: of the lifecycle, "serving" until it retires
    left,     \* left[g]: how many quiescers or disposers are still to run
    failed,   \* failed[g]: the retirement will reject
    request,  \* request[r]: the generation that serves it, and how far it is
    late,     \* late: generations whose boot started a worker after retirement
    failures

lifecycle == <<boot, starts, waits, stage, left, failed, late, failures>>
vars == <<ticker, running, provider, leased, disposed, role, request, lifecycle>>

NoRequest == [gen |-> 0, at |-> "none"]
\* A request holds its generation from the middleware to the end of its body.
Active(g) == {r \in Request : request[r].gen = g}

TypeOK ==
    /\ TickerTypeOK /\ LeaseTypeOK
    /\ role \in {"combined", "tick"}
    /\ boot \in [Generation -> {"absent", "preparing", "awaiting", "starting", "up", "failed"}]
    /\ starts \in [Generation -> 0 .. Modules]
    /\ waits \in [Generation -> SUBSET Generation]
    /\ stage \in [Generation -> {"serving", "draining", "quiescing", "disposing", "released"}]
    /\ left \in [Generation -> 0 .. Modules + 2]
    /\ failed \in [Generation -> BOOLEAN]
    /\ request \in [Request -> [gen : 0 .. Generations,
                                at : {"none", "handling", "ticking", "stream", "ending", "done"}]]
    /\ late \subseteq Generation /\ failures \in 0 .. MaxFailures

Init ==
    /\ TickerInit /\ LeaseInit
    /\ role \in {"combined", "tick"}
    /\ boot = [g \in Generation |-> "absent"]
    /\ starts = [g \in Generation |-> 0]
    /\ waits = [g \in Generation |-> {}]
    /\ stage = [g \in Generation |-> "serving"]
    /\ left = [g \in Generation |-> 0]
    /\ failed = [g \in Generation |-> FALSE]
    /\ request = [r \in Request |-> NoRequest]
    /\ late = {} /\ failures = 0

Retired(g) == stage[g] # "serving"
Faulty == failures < MaxFailures /\ failures' = failures + 1
SetBoot(g, b) == boot' = [boot EXCEPT ![g] = b]
leases == <<provider, leased, disposed>>
progress == <<waits, starts, left, failed>>

(***************************************************************************)
(* retire() of the generations G: the interrupts are called at once, the   *)
(* ticker's close() and the end of every open event stream among them.     *)
(***************************************************************************)
Retire(G) ==
    LET R == {g \in G : ~Retired(g)}
    IN  /\ stage' = [g \in Generation |-> IF g \in R THEN "draining" ELSE stage[g]]
        /\ ticker' = Closed(R)
        /\ request' = [r \in Request |->
                        IF request[r].gen \in R /\ request[r].at = "stream"
                          THEN [request[r] EXCEPT !.at = "ending"] ELSE request[r]]

-----------------------------------------------------------------------------
(***************************************************************************)
(* createPlatformConfig.                                                   *)
(***************************************************************************)
Composes(g) ==
    /\ boot[g] = "absent"
    /\ \A h \in 1 .. g - 1 : boot[h] # "absent"
    /\ SetBoot(g, "preparing")
    /\ UNCHANGED <<ticker, running, leases, role, request, progress, stage, late, failures>>

\* A preparation raises: the catch arm retires what the boot has composed.
PreparationRaises(g) ==
    /\ boot[g] = "preparing" /\ Faulty
    /\ SetBoot(g, "failed")
    /\ Retire({g})
    /\ UNCHANGED <<running, leases, role, progress, late>>

\* Those that listen for activations and the retire event: from their own
\* activation until the first of their disposers has run.
Listening == {h \in Generation :
    /\ waits[h] # {}
    /\ ~(stage[h] = "disposing" /\ left[h] <= Modules + 1) /\ stage[h] # "released"}

\* Mutant: the retirements are not awaited.
AwaitsNothing(g) == {g}
\* The retirements a boot awaits, and g itself: nothing but its activation
\* makes waits[g] non-empty.
Awaited(g) == {g} \cup Listening

Activates(g) ==
    /\ boot[g] = "preparing"
    /\ SetBoot(g, "awaiting")
    /\ waits' = [waits EXCEPT ![g] = Awaited(g)]
    /\ Retire(Listening)
    /\ UNCHANGED <<running, leases, role, starts, left, failed, late, failures>>

\* Promise.all of the retirements: one that rejects fails the boot.
RetirementsDone(g) ==
    /\ boot[g] = "awaiting"
    /\ \A h \in waits[g] \ {g} : stage[h] = "released" /\ ~failed[h]
    /\ SetBoot(g, IF role = "combined" THEN "starting" ELSE "up")
    /\ UNCHANGED <<ticker, running, leases, role, request, progress, stage, late, failures>>

RetirementRejects(g) ==
    /\ boot[g] = "awaiting"
    /\ \E h \in waits[g] \ {g} : stage[h] = "released" /\ failed[h]
    /\ SetBoot(g, "failed")
    /\ Retire({g})
    /\ UNCHANGED <<running, leases, role, progress, late, failures>>

(***************************************************************************)
(* startModuleWorkers, in composition order: a composition that was        *)
(* disposed starts nothing, and nothing asks whether the generation has    *)
(* retired.  A start that raises may leave its loop behind, and fails the  *)
(* boot.                                                                   *)
(***************************************************************************)
StartsWorker(g) ==
    LET k == starts[g] + 1
        Loops == IF k \in disposed[g] THEN running[g] ELSE running[g] \cup {k}
    IN  /\ boot[g] = "starting" /\ starts[g] < Modules
        /\ starts' = [starts EXCEPT ![g] = k]
        /\ SetRunning(g, Loops)
        /\ late' = IF Retired(g) /\ Loops # running[g] THEN late \cup {g} ELSE late
        /\ \/ UNCHANGED <<ticker, request, boot, stage, failures>>
           \/ Faulty /\ SetBoot(g, "failed") /\ Retire({g})
        /\ UNCHANGED <<leases, role, waits, left, failed>>

BootEnds(g) ==
    /\ boot[g] = "starting" /\ starts[g] = Modules
    /\ SetBoot(g, "up")
    /\ UNCHANGED <<ticker, running, leases, role, request, progress, stage, late, failures>>

\* The retire event of a server that shuts down.
RetiresAll ==
    /\ \E g \in Listening : ~Retired(g)
    /\ Retire(Listening)
    /\ UNCHANGED <<running, leases, role, boot, progress, late, failures>>

Boot(g) == \/ Composes(g) \/ PreparationRaises(g) \/ Activates(g)
           \/ RetirementsDone(g) \/ RetirementRejects(g)
           \/ StartsWorker(g) \/ BootEnds(g)

-----------------------------------------------------------------------------
(***************************************************************************)
(* Requests.  A retired generation answers them without counting them.     *)
(***************************************************************************)
runtime == <<role, boot, progress, stage, late, failures>>
SetRequest(r, g, at) == request' = [request EXCEPT ![r] = [gen |-> g, at |-> at]]

\* Mutant: the middleware counts requests of a retired generation as well.
AdmitsAlways(g) == boot[g] = "up"
Admits(g) == boot[g] = "up" /\ ~Retired(g)

Arrives(r, g) ==
    /\ request[r] = NoRequest /\ Admits(g)
    /\ SetRequest(r, g, "handling")
    /\ UNCHANGED <<ticker, running, leases, runtime>>

\* The tick endpoint: the tick begins a window, joins the one under way, or is
\* answered at once.
Ticks(r) ==
    LET g == request[r].gen
    IN  /\ request[r].at = "handling" /\ role = "tick"
        /\ \/ BeginsWindow(g) /\ SetRequest(r, g, "ticking")
           \/ ticker[g].at # "idle" /\ SetRequest(r, g, "ticking") /\ UNCHANGED <<ticker, running>>
           \/ IsClosed(g) /\ SetRequest(r, 0, "done") /\ UNCHANGED <<ticker, running>>
        /\ UNCHANGED <<leases, runtime>>

\* Mutant: only a stream that is open when retirement begins is ended.
StreamStateOnce(g) == "stream"
\* A stream answered after retirement began is ended there and then.
StreamState(g) == IF Retired(g) THEN "ending" ELSE "stream"

Streams(r) ==
    /\ request[r].at = "handling"
    /\ SetRequest(r, request[r].gen, StreamState(request[r].gen))
    /\ UNCHANGED <<ticker, running, leases, runtime>>

\* The body ends, the handler raises, or the client goes away; a tick request
\* is held by its window.
Ends(r) ==
    /\ request[r].at \in {"handling", "stream", "ending"}
    /\ SetRequest(r, 0, "done")
    /\ UNCHANGED <<ticker, running, leases, runtime>>

WindowSteps(g) ==
    /\ Window(g)
    /\ request' = IF ticker[g].at = "stopping" /\ ticker'[g].at = "idle"
                    THEN [r \in Request |-> IF request[r] = [gen |-> g, at |-> "ticking"]
                                              THEN [gen |-> 0, at |-> "done"] ELSE request[r]]
                    ELSE request
    /\ UNCHANGED <<leases, runtime>>

\* A pass of a running loop or a handler opens the repository of k.
Opens(g, k) ==
    /\ k \in running[g] \/ \E r \in Active(g) : request[r].at = "handling"
    /\ k \notin leased[g] /\ Acquires(g, k)
    /\ UNCHANGED <<ticker, running, request, runtime>>

-----------------------------------------------------------------------------
(***************************************************************************)
(* finish(): the requests have drained; the interrupts are awaited, then   *)
(* the quiescers run in reverse, then the disposers in reverse.  What      *)
(* raises is collected, and the retirement rejects at its end.             *)
(***************************************************************************)
SetTeardown(g, s, n) ==
    /\ stage' = [stage EXCEPT ![g] = s]
    /\ left' = [left EXCEPT ![g] = n]
    /\ UNCHANGED <<role, request, ticker, boot, starts, waits, late>>
Succeeds == UNCHANGED <<failed, failures>>
Raises(g) == Faulty /\ failed' = [failed EXCEPT ![g] = TRUE]

Finishes(g) ==
    /\ stage[g] = "draining" /\ Active(g) = {} /\ IsClosed(g)
    /\ SetTeardown(g, "quiescing", Modules) /\ Succeeds
    /\ UNCHANGED <<running, leases>>

\* stop of the composition left[g]: its loops end with the pass they run, and
\* an error may come before or after that.
Quiesces(g) ==
    /\ stage[g] = "quiescing" /\ left[g] > 0
    /\ SetTeardown(g, "quiescing", left[g] - 1)
    /\ \/ SetRunning(g, running[g] \ {left[g]}) /\ (Succeeds \/ Raises(g))
       \/ UNCHANGED running /\ Raises(g)
    /\ UNCHANGED leases

QuiescesDone(g) ==
    /\ stage[g] = "quiescing" /\ left[g] = 0
    /\ SetTeardown(g, "disposing", Modules + 2) /\ Succeeds
    /\ UNCHANGED <<running, leases>>

\* Mutant: the disposers run in the order they were added.
DisposerAt(n) == (Modules + 3) - n
\* The disposers in the order they were added: the provider's (1), one for each
\* composition (2 .. Modules + 1), and the one that stops listening.
Disposer(n) == n

StopsListening(g) ==
    /\ stage[g] = "disposing" /\ left[g] > 0 /\ Disposer(left[g]) = Modules + 2
    /\ SetTeardown(g, "disposing", left[g] - 1) /\ Succeeds
    /\ UNCHANGED <<running, leases>>

DisposesComposition(g) ==
    LET k == Disposer(left[g]) - 1
    IN  /\ stage[g] = "disposing" /\ left[g] > 0 /\ k \in Composition
        /\ SetTeardown(g, "disposing", left[g] - 1)
        /\ \/ DisposesModule(g, k) /\ Succeeds
           \/ DisposeRaises(g, k) /\ Raises(g)

\* The drain limit closes the pools under the leases that are left.
DisposesDatabases(g) ==
    /\ stage[g] = "disposing" /\ left[g] > 0 /\ Disposer(left[g]) = 1
    /\ \/ DisposesProvider(g) /\ SetTeardown(g, "disposing", left[g]) /\ Succeeds
       \/ ClosesPools(g) /\ SetTeardown(g, "disposing", left[g] - 1) /\ Succeeds
    /\ UNCHANGED running

Releases(g) ==
    /\ stage[g] = "disposing" /\ left[g] = 0
    /\ SetTeardown(g, "released", 0) /\ Succeeds
    /\ UNCHANGED <<running, leases>>

Teardown(g) ==
    \/ Finishes(g) \/ Quiesces(g) \/ QuiescesDone(g)
    \/ StopsListening(g) \/ DisposesComposition(g) \/ DisposesDatabases(g) \/ Releases(g)

-----------------------------------------------------------------------------
Next ==
    \/ RetiresAll
    \/ \E g \in Generation : Boot(g) \/ WindowSteps(g) \/ Teardown(g)
    \/ \E g \in Generation, k \in Composition : Opens(g, k)
    \/ \E r \in Request : \/ \E g \in Generation : Arrives(r, g)
                          \/ Ticks(r) \/ Streams(r) \/ Ends(r)

(***************************************************************************)
(* Every handler returns, every body but an event stream ends, a stream    *)
(* that is told to end does, a window's timer fires and stop() and         *)
(* dispose() settle.  No boot, arrival or open stream is fair.             *)
(***************************************************************************)
Fairness ==
    /\ \A g \in Generation : WF_vars(WindowSteps(g)) /\ WF_vars(Teardown(g))
    /\ \A r \in Request :
        WF_vars(request[r].at \in {"handling", "ending"} /\ (Ticks(r) \/ Streams(r) \/ Ends(r)))

Spec == Init /\ [][Next]_vars /\ Fairness

-----------------------------------------------------------------------------
(***************************************************************************)
(* "A generation owns every resource created by that evaluation"           *)
(* (lifecycle.ts:64): nothing of it is stopped or closed while one of its  *)
(* requests, tick windows included, is under way.                          *)
(***************************************************************************)
TeardownWaitsForRequests == \A g \in Generation :
    stage[g] \in {"quiescing", "disposing", "released"} =>
        Active(g) = {} /\ ticker[g].at = "idle"

(***************************************************************************)
(* Two generations never run their loops at once: the next one starts its  *)
(* own only after those before it have drained theirs.  The exceptions are *)
(* a worker that its boot started after retirement (runtime-role.ts does   *)
(* not look at the retirement again) and a quiesce that raised.            *)
(***************************************************************************)
HandOver == \A g, h \in Generation :
    g # h /\ running[g] # {} /\ running[h] # {} =>
        \E e \in {g, h} : e \in late \/ failed[e]

(***************************************************************************)
(* The pools close only when every module has given its leases back: the   *)
(* drain limit of provider.ts is never what ends a disposal, unless a      *)
(* dispose raised.                                                         *)
(***************************************************************************)
LeasesComeBack == \A g \in Generation :
    provider[g] # "ready" => leased[g] = {} \/ failed[g]

(***************************************************************************)
(* A tick request is answered only when every loop has drained, those of   *)
(* compositions whose own last stop() raised apart (worker-tick.ts:100-108): *)
(* neither a start nor a stop that raises costs another composition its    *)
(* drain.  The host may freeze the instance right after, and a frozen      *)
(* claim waits out its lease.                                              *)
(***************************************************************************)
DrainedBeforeAnswer == [][\A r \in Request :
    request[r].at = "ticking" /\ request'[r].at = "done" =>
        running'[request[r].gen] \subseteq ticker'[request[r].gen].undrained]_vars

(***************************************************************************)
(* Retirement ends: neither an event stream nor a tick window holds it.    *)
(***************************************************************************)
RetirementCompletes == \A g \in Generation : Retired(g) ~> stage[g] = "released"

=============================================================================
