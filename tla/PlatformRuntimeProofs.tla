------------------------ MODULE PlatformRuntimeProofs ------------------------
(***************************************************************************)
(* Theorems about PlatformRuntime for every number of generations, modules *)
(* and requests and every bound on the steps that raise.                   *)
(*                                                                         *)
(* None of the properties is inductive alone.  Those about requests and    *)
(* windows rest on the ticker of a generation being closed exactly when    *)
(* the generation retires (Serves).  HandOver rests on two activated       *)
(* generations being ordered: the later one waits for the earlier, or the  *)
(* earlier has stopped listening, which it does only when its loops have   *)
(* been quiesced (Hands).  LeasesComeBack rests on a composition that was  *)
(* disposed starting nothing and so opening nothing again (Gives).         *)
(***************************************************************************)
EXTENDS PlatformRuntime, WellFoundedInduction, TLAPS

Torn == {"quiescing", "disposing", "released"}

(***************************************************************************)
(* Requests and windows.                                                   *)
(***************************************************************************)
\* A generation that retires closes its ticker, and only then is it closed.
ClosedWhenRetired == \A g \in Generation : ticker[g].closed <=> Retired(g)

\* A window belongs to a generation that is up in the tick role, and has
\* recorded every loop that runs, those a stop() that raised left apart.
WindowOwns == \A g \in Generation :
    /\ ticker[g].at # "idle" => role = "tick" /\ boot[g] = "up"
    /\ ticker[g].at = "idle" => ticker[g].started = {}
    /\ role = "tick" => running[g] \subseteq ticker[g].started \cup ticker[g].undrained
    /\ boot[g] = "starting" => role = "combined"

\* A request is under way in a generation that was up when it came.
RequestIsServed == \A r \in Request :
    /\ request[r].gen = 0 <=> request[r].at \in {"none", "done"}
    /\ request[r].gen \in Generation => boot[request[r].gen] = "up"

Serves == ClosedWhenRetired /\ WindowOwns /\ RequestIsServed /\ TeardownWaitsForRequests

(***************************************************************************)
(* The hand-over.                                                          *)
(***************************************************************************)
Activated(g) == waits[g] # {}
\* It has stopped listening for activations.
Gone(g) == (stage[g] = "disposing" /\ left[g] <= Modules + 1) \/ stage[g] = "released"

\* Loops run only where the retirements it awaited are through.
StartsAfter == \A g \in Generation :
    /\ boot[g] \in {"awaiting", "starting", "up"} => Activated(g)
    /\ running[g] # {} => Activated(g) /\ boot[g] \in {"starting", "up", "failed"}
    /\ boot[g] \in {"starting", "up"} \/ running[g] # {} =>
           \A h \in waits[g] \ {g} : stage[h] = "released" /\ ~failed[h]

\* Of two activated generations one waits for the other or has found it gone.
Ordered == \A g, h \in Generation :
    g # h /\ Activated(g) /\ Activated(h) =>
        g \in waits[h] \/ h \in waits[g] \/ Gone(g) \/ Gone(h)

\* The quiescers leave no loop behind, but for a late one and one that raised.
Quiesced == \A g \in Generation : g \in late \/ failed[g] \/
    /\ stage[g] = "quiescing" => running[g] \subseteq 1 .. left[g]
    /\ stage[g] \in {"disposing", "released"} => running[g] = {}

Hands == StartsAfter /\ Ordered /\ Quiesced

(***************************************************************************)
(* The leases.                                                             *)
(***************************************************************************)
\* What was disposed runs nothing and holds nothing, unless its dispose raised.
DisposedRests == \A g \in Generation : \A k \in disposed[g] :
    /\ stage[g] \in {"disposing", "released"}
    /\ k \notin running[g]
    /\ k \in leased[g] => failed[g]

\* The compositions are disposed from the last to the first, then the provider.
DisposedInOrder == \A g \in Generation :
    /\ stage[g] = "disposing" => \A k \in Composition : left[g] <= k => k \in disposed[g]
    /\ stage[g] = "released" => Composition \subseteq disposed[g]
    /\ provider[g] # "ready" =>
           stage[g] = "released" \/ (stage[g] = "disposing" /\ left[g] <= 1)

Gives == DisposedRests /\ DisposedInOrder

IInv == TypeOK /\ Serves /\ Hands /\ Gives

-----------------------------------------------------------------------------
(***************************************************************************)
(* Types.                                                                  *)
(***************************************************************************)
TickerState == [at : {"idle", "starting", "open", "stopping"}, next : 1 .. Modules + 1,
                started : SUBSET Composition, undrained : SUBSET Composition, closed : BOOLEAN]
RequestState == [gen : 0 .. Generations,
                 at : {"none", "handling", "ticking", "stream", "ending", "done"}]

\* What retire() of the generations G does to the stages, tickers and requests.
LEMMA RetireDoes ==
    ASSUME TypeOK, NEW G, Retire(G)
    PROVE  /\ stage' \in [Generation -> {"serving", "draining", "quiescing", "disposing", "released"}]
           /\ ticker' \in [Generation -> TickerState]
           /\ request' \in [Request -> RequestState]
           /\ \A g \in Generation :
                  /\ stage'[g] = IF g \in G /\ ~Retired(g) THEN "draining" ELSE stage[g]
                  /\ ticker'[g].closed <=> ticker[g].closed \/ (g \in G /\ ~Retired(g))
                  /\ ticker'[g].at = "idle" <=> ticker[g].at = "idle"
                  /\ ticker'[g].started = ticker[g].started
                  /\ ticker'[g].undrained = ticker[g].undrained
           /\ \A r \in Request :
                  /\ request'[r].gen = request[r].gen
                  /\ request'[r].at = request[r].at
                     \/ (request[r].at = "stream" /\ request'[r].at = "ending")
<1> DEFINE R == {g \in G : ~Retired(g)}
<1>1. stage' = [g \in Generation |-> IF g \in R THEN "draining" ELSE stage[g]]
  BY DEF Retire
<1>2. ticker' = [g \in Generation |-> IF g \in R THEN [ticker[g] EXCEPT !.closed = TRUE,
                      !.at = IF ticker[g].at = "open" THEN "stopping" ELSE ticker[g].at] ELSE ticker[g]]
  BY DEF Retire, Closed
<1>3. request' = [r \in Request |-> IF request[r].gen \in R /\ request[r].at = "stream"
                                      THEN [request[r] EXCEPT !.at = "ending"] ELSE request[r]]
  BY DEF Retire
<1>4. ticker \in [Generation -> TickerState] /\ request \in [Request -> RequestState]
  BY DEF TypeOK, TickerTypeOK, TickerState, RequestState
<1>5. stage' \in [Generation -> {"serving", "draining", "quiescing", "disposing", "released"}]
  BY <1>1 DEF TypeOK
<1>6. \A g \in Generation : stage'[g] = IF g \in G /\ ~Retired(g) THEN "draining" ELSE stage[g]
  BY <1>1
<1>7. \A g \in Generation : g \in R <=> g \in G /\ ~Retired(g)
  OBVIOUS
<1> HIDE DEF R
<1>8. ASSUME NEW g \in Generation
      PROVE  /\ ticker'[g] \in TickerState
             /\ ticker'[g].closed <=> ticker[g].closed \/ (g \in G /\ ~Retired(g))
             /\ ticker'[g].at = "idle" <=> ticker[g].at = "idle"
             /\ ticker'[g].started = ticker[g].started
             /\ ticker'[g].undrained = ticker[g].undrained
  <2>1. ticker[g] \in TickerState
    BY <1>4
  <2>2. CASE g \in R
    <3>1. ticker'[g] = [ticker[g] EXCEPT !.closed = TRUE,
                          !.at = IF ticker[g].at = "open" THEN "stopping" ELSE ticker[g].at]
      BY <1>2, <2>2
    <3> QED BY <1>7, <2>1, <2>2, <3>1 DEF TickerState
  <2>3. CASE g \notin R
    BY <1>2, <1>7, <2>1, <2>3 DEF TickerState
  <2> QED BY <2>2, <2>3
<1>9. ASSUME NEW r \in Request
      PROVE  /\ request'[r] \in RequestState
             /\ request'[r].gen = request[r].gen
             /\ request'[r].at = request[r].at
                \/ (request[r].at = "stream" /\ request'[r].at = "ending")
  BY <1>3, <1>4 DEF RequestState
<1>10. DOMAIN ticker' = Generation /\ ticker' = [g \in Generation |-> ticker'[g]]
  BY <1>2
<1>11. DOMAIN request' = Request /\ request' = [r \in Request |-> request'[r]]
  BY <1>3
<1>12. ticker' \in [Generation -> TickerState]
  BY <1>8, <1>10
<1>13. request' \in [Request -> RequestState]
  BY <1>9, <1>11
<1> QED BY <1>5, <1>6, <1>8, <1>9, <1>12, <1>13

LEMMA TypeInit == Init => TypeOK
<1> SUFFICES ASSUME Init PROVE TypeOK
  OBVIOUS
<1>1. Idle \in TickerState /\ 0 \in 0 .. Modules /\ 0 \in 0 .. Modules + 2 /\ 0 \in 0 .. MaxFailures
  BY TickerAssumption, RuntimeAssumption DEF Idle, TickerState
<1>2. NoRequest \in RequestState
  BY TickerAssumption DEF NoRequest, RequestState
<1>3. TickerTypeOK /\ LeaseTypeOK
  BY <1>1 DEF Init, TickerInit, LeaseInit, TickerTypeOK, LeaseTypeOK, TickerState
<1> QED BY <1>1, <1>2, <1>3 DEF Init, TypeOK, RequestState

\* The types of what a boot changes, and of what retire() does not.
BootTyped ==
    /\ boot \in [Generation -> {"absent", "preparing", "awaiting", "starting", "up", "failed"}]
    /\ waits \in [Generation -> SUBSET Generation]
    /\ starts \in [Generation -> 0 .. Modules] /\ late \subseteq Generation
    /\ running \in [Generation -> SUBSET Composition] /\ failures \in 0 .. MaxFailures
RetireTyped ==
    /\ stage \in [Generation -> {"serving", "draining", "quiescing", "disposing", "released"}]
    /\ ticker \in [Generation -> TickerState]
    /\ request \in [Request -> RequestState]
RestTyped ==
    /\ LeaseTypeOK /\ role \in {"combined", "tick"}
    /\ left \in [Generation -> 0 .. Modules + 2] /\ failed \in [Generation -> BOOLEAN]

LEMMA TypeParts ==
    /\ TypeOK <=> BootTyped /\ RetireTyped /\ RestTyped
    /\ TypeOK' <=> BootTyped' /\ RetireTyped' /\ RestTyped'
  BY DEF TypeOK, BootTyped, RetireTyped, RestTyped, TickerTypeOK, TickerState, RequestState

LEMMA BootType == ASSUME TypeOK, NEW g \in Generation, Boot(g) PROVE TypeOK'
<1> USE TypeParts
<1>1. RestTyped'
  BY DEF RestTyped, Boot, Composes, PreparationRaises, Activates, RetirementsDone, RetirementRejects,
         StartsWorker, BootEnds, LeaseTypeOK, leases, progress
<1>2. RetireTyped'
  <2>1. ASSUME NEW G, Retire(G) PROVE RetireTyped'
    BY <2>1, RetireDoes DEF RetireTyped
  <2>2. CASE UNCHANGED <<stage, ticker, request>>
    BY <2>2 DEF RetireTyped
  <2> QED BY <2>1, <2>2 DEF Boot, Composes, PreparationRaises, Activates, RetirementsDone,
         RetirementRejects, StartsWorker, BootEnds
<1>3. ASSUME Faulty PROVE failures' \in 0 .. MaxFailures
  BY <1>3, RuntimeAssumption DEF Faulty, BootTyped
<1>4. CASE Composes(g) \/ PreparationRaises(g) \/ RetirementsDone(g) \/ RetirementRejects(g) \/ BootEnds(g)
  <2>1. BootTyped'
    BY <1>3, <1>4 DEF BootTyped, Composes, PreparationRaises, RetirementsDone, RetirementRejects, BootEnds,
       SetBoot, progress
  <2> QED BY <1>1, <1>2, <2>1
<1>5. CASE Activates(g)
  <2>1. Awaited(g) \in SUBSET Generation
    BY DEF Awaited, Listening
  <2>2. BootTyped'
    BY <1>5, <2>1 DEF BootTyped, Activates, SetBoot
  <2> QED BY <1>1, <1>2, <2>2
<1>6. CASE StartsWorker(g)
  <2> DEFINE k == starts[g] + 1
  <2>1. k \in Composition /\ k \in 0 .. Modules
    BY <1>6, TickerAssumption DEF BootTyped, StartsWorker, Composition
  <2>2. running' \in [Generation -> SUBSET Composition]
    BY <1>6, <2>1 DEF BootTyped, StartsWorker, SetRunning
  <2>3. late' \subseteq Generation /\ failures' \in 0 .. MaxFailures
    BY <1>3, <1>6 DEF BootTyped, StartsWorker
  <2>4. boot' \in [Generation -> {"absent", "preparing", "awaiting", "starting", "up", "failed"}]
    BY <1>6 DEF BootTyped, StartsWorker, SetBoot
  <2>5. starts' \in [Generation -> 0 .. Modules] /\ UNCHANGED waits
    BY <1>6, <2>1 DEF BootTyped, StartsWorker
  <2>6. BootTyped'
    BY <2>2, <2>3, <2>4, <2>5 DEF BootTyped
  <2> QED BY <1>1, <1>2, <2>6
<1> QED BY <1>1, <1>2, <1>4, <1>5, <1>6 DEF Boot

\* What a window changes.
LEMMA WindowType ==
    ASSUME TypeOK, NEW g \in Generation, Window(g) \/ BeginsWindow(g)
    PROVE  ticker' \in [Generation -> TickerState] /\ running' \in [Generation -> SUBSET Composition]
<1> DEFINE t == ticker[g]
<1>1. ticker \in [Generation -> TickerState] /\ running \in [Generation -> SUBSET Composition]
  BY TypeParts DEF RetireTyped, BootTyped
<1>2. t \in TickerState
  BY <1>1
<1>3. CASE StartsNext(g)
  <2>1. t.next \in Composition /\ t.next + 1 \in 1 .. Modules + 1
    BY <1>2, <1>3, TickerAssumption DEF StartsNext, TickerState, Composition
  <2>2. [t EXCEPT !.next = t.next + 1, !.started = t.started \cup {t.next},
                  !.undrained = t.undrained \ {t.next}] \in TickerState
    BY <1>2, <2>1 DEF TickerState
  <2>3. [t EXCEPT !.at = "stopping", !.started = t.started \cup {t.next},
                  !.undrained = t.undrained \ {t.next}] \in TickerState
    BY <1>2, <2>1 DEF TickerState
  <2> QED BY <1>1, <1>3, <2>1, <2>2, <2>3 DEF StartsNext, SetTicker, SetRunning, Recorded
<1>4. CASE Started(g) \/ WindowEnds(g) \/ BeginsWindow(g)
  <2>1. ASSUME NEW a \in {"idle", "starting", "open", "stopping"}
        PROVE  [t EXCEPT !.at = a] \in TickerState
    BY <1>2 DEF TickerState
  <2> QED BY <1>1, <1>4, <2>1 DEF Started, WindowEnds, BeginsWindow, SetTicker
<1>5. CASE StopsNext(g)
  <2>1. ASSUME NEW k \in t.started
        PROVE  /\ [t EXCEPT !.started = t.started \ {k}] \in TickerState
               /\ [t EXCEPT !.started = t.started \ {k}, !.undrained = t.undrained \cup {k}] \in TickerState
    <3>1. t.started \ {k} \in SUBSET Composition /\ t.undrained \cup {k} \in SUBSET Composition
      BY <1>2 DEF TickerState
    <3>2. [t EXCEPT !.started = t.started \ {k}] \in TickerState
      BY <1>2, <3>1 DEF TickerState
    <3>3. [t EXCEPT !.started = t.started \ {k}, !.undrained = t.undrained \cup {k}] \in TickerState
      BY <1>2, <3>1 DEF TickerState
    <3> QED BY <3>2, <3>3
  <2> QED BY <1>1, <1>5, <2>1 DEF StopsNext, SetTicker, SetRunning
<1>6. CASE Answers(g)
  <2>1. [Idle EXCEPT !.closed = t.closed, !.undrained = t.undrained] \in TickerState
    <3>1. Idle \in TickerState
      BY TickerAssumption DEF TickerState, Idle
    <3>2. t.closed \in BOOLEAN /\ t.undrained \in SUBSET Composition
      BY <1>2 DEF TickerState
    <3> QED BY <3>1, <3>2 DEF TickerState
  <2> QED BY <1>1, <1>6, <2>1 DEF Answers, SetTicker
<1> QED BY <1>3, <1>4, <1>5, <1>6 DEF Window

\* Requests, windows and the leases taken under them.
LEMMA ServingType ==
    ASSUME TypeOK, RequestIsServed,
           \/ \E g \in Generation : WindowSteps(g) \/ \E k \in Composition : Opens(g, k)
           \/ \E r \in Request : (\E g \in Generation : Arrives(r, g)) \/ Ticks(r) \/ Streams(r) \/ Ends(r)
    PROVE  TypeOK'
<1> USE TypeParts
<1>0. request \in [Request -> RequestState] /\ {0} \cup Generation \subseteq 0 .. Generations
  BY TickerAssumption DEF RetireTyped, Generation
<1>1. ASSUME NEW g \in Generation, WindowSteps(g) PROVE TypeOK'
  <2>1. request' \in [Request -> RequestState]
    BY <1>0, <1>1 DEF WindowSteps, RequestState
  <2> QED BY <1>1, <2>1, WindowType
          DEF WindowSteps, BootTyped, RetireTyped, RestTyped, LeaseTypeOK, runtime, leases, progress
<1>2. ASSUME NEW g \in Generation, NEW k \in Composition, Opens(g, k) PROVE TypeOK'
  BY <1>2 DEF Opens, Acquires, BootTyped, RetireTyped, RestTyped, LeaseTypeOK, runtime, progress
<1>3. ASSUME NEW r \in Request, (\E g \in Generation : Arrives(r, g)) \/ Streams(r) \/ Ends(r) PROVE TypeOK'
  <2>1. ASSUME NEW h \in 0 .. Generations, NEW a \in {"handling", "stream", "ending", "done"},
               SetRequest(r, h, a)
        PROVE  request' \in [Request -> RequestState]
    BY <1>0, <2>1 DEF SetRequest, RequestState
  <2>2. request[r].gen \in 0 .. Generations
    BY <1>0 DEF RequestState
  <2>3. request' \in [Request -> RequestState]
    BY <1>0, <1>3, <2>1, <2>2 DEF Arrives, Streams, Ends, StreamState
  <2> QED BY <1>3, <2>3 DEF Arrives, Streams, Ends, BootTyped, RetireTyped, RestTyped, LeaseTypeOK,
          runtime, leases, progress
<1>4. ASSUME NEW r \in Request, Ticks(r) PROVE TypeOK'
  <2>0. request[r].gen \in Generation
    BY <1>0, <1>4, TickerAssumption DEF Ticks, RequestIsServed, RequestState, Generation
  <2>1. ASSUME NEW h \in 0 .. Generations, NEW a \in {"ticking", "done"}, SetRequest(r, h, a)
        PROVE  request' \in [Request -> RequestState]
    BY <1>0, <2>1 DEF SetRequest, RequestState
  <2>2. request' \in [Request -> RequestState]
    BY <1>0, <1>4, <2>0, <2>1, TickerAssumption DEF Ticks, Generation
  <2>3. ticker' \in [Generation -> TickerState] /\ running' \in [Generation -> SUBSET Composition]
    BY <1>4, <2>0, WindowType DEF Ticks, RetireTyped, BootTyped
  <2> QED BY <1>4, <2>2, <2>3 DEF Ticks, BootTyped, RetireTyped, RestTyped, LeaseTypeOK,
          runtime, leases, progress
<1> QED BY <1>1, <1>2, <1>3, <1>4

\* Retirement's own steps.
LEMMA TeardownType == ASSUME TypeOK, NEW g \in Generation, Teardown(g) PROVE TypeOK'
<1> USE TypeParts
<1>1. UNCHANGED <<role, request, ticker, boot, starts, waits, late>>
  BY DEF Teardown, Finishes, Quiesces, QuiescesDone, StopsListening, DisposesComposition,
         DisposesDatabases, Releases, SetTeardown
<1>2. /\ failures' \in 0 .. MaxFailures /\ failed' \in [Generation -> BOOLEAN]
  <2>1. CASE Succeeds
    BY <2>1 DEF Succeeds, BootTyped, RestTyped
  <2>2. CASE Raises(g)
    BY <2>2, RuntimeAssumption DEF Raises, Faulty, BootTyped, RestTyped
  <2> QED BY <2>1, <2>2 DEF Teardown, Finishes, Quiesces, QuiescesDone, StopsListening,
          DisposesComposition, DisposesDatabases, Releases
<1>3. ASSUME NEW s \in Torn, NEW n \in 0 .. Modules + 2, SetTeardown(g, s, n)
      PROVE  /\ stage' \in [Generation -> {"serving", "draining", "quiescing", "disposing", "released"}]
             /\ left' \in [Generation -> 0 .. Modules + 2]
  BY <1>3 DEF SetTeardown, Torn, RetireTyped, RestTyped
<1>4. left[g] \in 0 .. Modules + 2
  BY DEF RestTyped
<1>5. /\ stage' \in [Generation -> {"serving", "draining", "quiescing", "disposing", "released"}]
      /\ left' \in [Generation -> 0 .. Modules + 2]
  <2>1. left[g] > 0 => left[g] - 1 \in 0 .. Modules + 2
    BY <1>4, TickerAssumption
  <2>2. {0, Modules, Modules + 2} \subseteq 0 .. Modules + 2
    BY TickerAssumption
  <2> QED BY <1>3, <1>4, <2>1, <2>2 DEF Teardown, Finishes, Quiesces, QuiescesDone, StopsListening,
          DisposesComposition, DisposesDatabases, Releases, Torn
<1>6. running' \in [Generation -> SUBSET Composition] /\ LeaseTypeOK'
  BY DEF Teardown, Finishes, Quiesces, QuiescesDone, StopsListening, DisposesComposition,
         DisposesDatabases, Releases, DisposesModule, DisposeRaises, DisposesProvider, ClosesPools,
         SetRunning, BootTyped, RestTyped, LeaseTypeOK, leases
<1>7. BootTyped'
  BY <1>1, <1>2, <1>6 DEF BootTyped
<1>8. RetireTyped'
  BY <1>1, <1>5 DEF RetireTyped
<1>9. RestTyped'
  BY <1>1, <1>2, <1>5, <1>6 DEF RestTyped
<1> QED BY <1>7, <1>8, <1>9

LEMMA TypeNext == ASSUME TypeOK, RequestIsServed, [Next]_vars PROVE TypeOK'
<1>1. CASE RetiresAll
  <2>1. RetireTyped'
    BY <1>1, RetireDoes DEF RetiresAll, RetireTyped
  <2>2. BootTyped' /\ RestTyped'
    BY <1>1, TypeParts DEF RetiresAll, BootTyped, RestTyped, LeaseTypeOK, leases, progress
  <2> QED BY <2>1, <2>2, TypeParts
<1>2. CASE UNCHANGED vars
  BY <1>2, TypeParts DEF vars, lifecycle, BootTyped, RetireTyped, RestTyped, LeaseTypeOK
<1> QED BY <1>1, <1>2, BootType, ServingType, TeardownType DEF Next

-----------------------------------------------------------------------------
(***************************************************************************)
(* Requests and windows.                                                   *)
(***************************************************************************)
LEMMA ServesInit == Init => Serves
<1> SUFFICES ASSUME Init PROVE Serves
  OBVIOUS
<1>1. ClosedWhenRetired /\ WindowOwns
  BY DEF Init, TickerInit, Idle, ClosedWhenRetired, WindowOwns, Retired
<1>2. RequestIsServed
  BY DEF Init, NoRequest, RequestIsServed, Generation
<1>3. TeardownWaitsForRequests
  BY DEF Init, TeardownWaitsForRequests
<1> QED BY <1>1, <1>2, <1>3 DEF Serves

\* What a boot or a shutdown leaves of the requests and windows.
LEMMA RetireLeaves ==
    ASSUME TypeOK, ClosedWhenRetired,
           (\E G : Retire(G)) \/ UNCHANGED <<stage, ticker, request>>
    PROVE  /\ ClosedWhenRetired'
           /\ \A g \in Generation :
                  /\ ticker'[g].at = "idle" <=> ticker[g].at = "idle"
                  /\ ticker'[g].started = ticker[g].started
                  /\ ticker'[g].undrained = ticker[g].undrained
                  /\ stage'[g] \in Torn <=> stage[g] \in Torn
                  /\ stage[g] \in Torn => stage'[g] = stage[g]
                  /\ Retired(g) => Retired(g)'
                  /\ Active(g)' = Active(g)
           /\ \A r \in Request :
                  /\ request'[r].gen = request[r].gen
                  /\ request'[r].at \in {"none", "done"} <=> request[r].at \in {"none", "done"}
                  /\ request'[r].at = "done" <=> request[r].at = "done"
                  /\ request'[r].at = "handling" <=> request[r].at = "handling"
<1>1. CASE UNCHANGED <<stage, ticker, request>>
  BY <1>1 DEF ClosedWhenRetired, Retired, Active
<1>2. ASSUME NEW G, Retire(G)
      PROVE  /\ ClosedWhenRetired'
             /\ \A g \in Generation :
                  /\ ticker'[g].at = "idle" <=> ticker[g].at = "idle"
                  /\ ticker'[g].started = ticker[g].started
                  /\ ticker'[g].undrained = ticker[g].undrained
                  /\ stage'[g] \in Torn <=> stage[g] \in Torn
                  /\ stage[g] \in Torn => stage'[g] = stage[g]
                  /\ Retired(g) => Retired(g)'
             /\ \A r \in Request :
                  /\ request'[r].gen = request[r].gen
                  /\ request'[r].at \in {"none", "done"} <=> request[r].at \in {"none", "done"}
                  /\ request'[r].at = "done" <=> request[r].at = "done"
                  /\ request'[r].at = "handling" <=> request[r].at = "handling"
  BY <1>2, RetireDoes DEF ClosedWhenRetired, Retired, Torn
<1>3. ASSUME \A r \in Request : request'[r].gen = request[r].gen
      PROVE  \A g : Active(g)' = Active(g)
  BY <1>3 DEF Active
<1> QED BY <1>1, <1>2, <1>3

\* A boot that is up stays up, and starts workers in the combined role only.
LEMMA BootLeaves ==
    ASSUME TypeOK, Serves, (\E g \in Generation : Boot(g)) \/ RetiresAll
    PROVE  /\ (\E G : Retire(G)) \/ UNCHANGED <<stage, ticker, request>>
           /\ UNCHANGED role /\ (role = "tick" => UNCHANGED running)
           /\ \A g \in Generation :
                  /\ boot[g] = "up" => boot'[g] = "up"
                  /\ boot'[g] = "starting" => role = "combined"
<1>1. ASSUME NEW g \in Generation, Boot(g)
      PROVE  (\E G : Retire(G)) \/ UNCHANGED <<stage, ticker, request>>
  BY <1>1 DEF Boot, Composes, PreparationRaises, Activates, RetirementsDone, RetirementRejects,
              StartsWorker, BootEnds
<1>2. ASSUME NEW g \in Generation, Boot(g)
      PROVE  UNCHANGED role /\ (role = "tick" => UNCHANGED running)
  BY <1>2 DEF Boot, Composes, PreparationRaises, Activates, RetirementsDone, RetirementRejects,
              StartsWorker, BootEnds, Serves, WindowOwns
<1>3. ASSUME NEW g \in Generation, Boot(g)
      PROVE  \A h \in Generation : /\ boot[h] = "up" => boot'[h] = "up"
                                   /\ boot'[h] = "starting" => role = "combined"
  <2>1. ASSUME NEW b, SetBoot(g, b), boot[g] # "up", b = "starting" => role = "combined"
        PROVE  \A h \in Generation : /\ boot[h] = "up" => boot'[h] = "up"
                                     /\ boot'[h] = "starting" => role = "combined"
    BY <2>1, TypeParts DEF SetBoot, Serves, WindowOwns, BootTyped
  <2>2. CASE UNCHANGED boot
    BY <2>2 DEF Serves, WindowOwns
  <2> QED BY <1>3, <2>1, <2>2 DEF Boot, Composes, PreparationRaises, Activates, RetirementsDone,
          RetirementRejects, StartsWorker, BootEnds
<1> QED BY <1>1, <1>2, <1>3, Zenon DEF RetiresAll, Serves, WindowOwns

LEMMA BootServes ==
    ASSUME TypeOK, Serves, (\E g \in Generation : Boot(g)) \/ RetiresAll
    PROVE  Serves'
<1>1. (\E G : Retire(G)) \/ UNCHANGED <<stage, ticker, request>>
  BY BootLeaves
<1>2. ClosedWhenRetired'
  BY <1>1, RetireLeaves DEF Serves
<1>3. WindowOwns'
  BY <1>1, BootLeaves, RetireLeaves DEF Serves, WindowOwns
<1>4. RequestIsServed'
  BY <1>1, BootLeaves, RetireLeaves DEF Serves, RequestIsServed
<1>5. TeardownWaitsForRequests'
  BY <1>1, RetireLeaves DEF Serves, TeardownWaitsForRequests, Torn
<1> QED BY <1>2, <1>3, <1>4, <1>5 DEF Serves

\* What a window does to its ticker and its loops.
LEMMA WindowDoes ==
    ASSUME TypeOK, Serves, NEW g \in Generation, Window(g) \/ (BeginsWindow(g) /\ role = "tick" /\ boot[g] = "up")
    PROVE  /\ \A h \in Generation \ {g} : ticker'[h] = ticker[h] /\ running'[h] = running[h]
           /\ ticker'[g].closed <=> ticker[g].closed
           /\ role = "tick" /\ boot[g] = "up"
           /\ ticker'[g].at = "idle" => ticker'[g].started = {} /\ ticker[g].at = "stopping" /\ UNCHANGED running
           /\ running'[g] \subseteq ticker'[g].started \cup ticker'[g].undrained
           /\ stage[g] \notin Torn
<1> DEFINE t == ticker[g]
<1>1. ticker \in [Generation -> TickerState] /\ running \in [Generation -> SUBSET Composition]
  BY TypeParts DEF RetireTyped, BootTyped
<1>2. t \in TickerState /\ g \in DOMAIN ticker /\ g \in DOMAIN running
  BY <1>1
<1>3. t.at # "idle" \/ (t.at = "idle" /\ ~t.closed /\ role = "tick" /\ boot[g] = "up")
  BY DEF Window, StartsNext, Started, WindowEnds, StopsNext, Answers, BeginsWindow, Begins
<1>4. role = "tick" /\ boot[g] = "up" /\ running[g] \subseteq t.started \cup t.undrained
  BY <1>3 DEF Serves, WindowOwns
<1>5. stage[g] \notin Torn
  BY <1>3 DEF Serves, TeardownWaitsForRequests, ClosedWhenRetired, Retired, Torn
<1>6. ASSUME NEW R, NEW u, SetRunning(g, R) \/ (UNCHANGED running /\ R = running[g]), SetTicker(g, u)
      PROVE  /\ \A h \in Generation \ {g} : ticker'[h] = ticker[h] /\ running'[h] = running[h]
             /\ ticker'[g] = u /\ running'[g] = R
  BY <1>1, <1>2, <1>6 DEF SetRunning, SetTicker
<1> DEFINE Good(u, R) ==
        /\ u.closed <=> t.closed
        /\ u.at = "idle" => u.started = {} /\ t.at = "stopping" /\ UNCHANGED running
        /\ R \subseteq u.started \cup u.undrained
<1>7. ASSUME NEW R, NEW u, SetRunning(g, R) \/ (UNCHANGED running /\ R = running[g]), SetTicker(g, u), Good(u, R)
      PROVE  /\ \A h \in Generation \ {g} : ticker'[h] = ticker[h] /\ running'[h] = running[h]
             /\ ticker'[g].closed <=> ticker[g].closed
             /\ ticker'[g].at = "idle" => ticker'[g].started = {} /\ ticker[g].at = "stopping" /\ UNCHANGED running
             /\ running'[g] \subseteq ticker'[g].started \cup ticker'[g].undrained
  BY <1>6, <1>7
<1>8. CASE StartsNext(g)
  <2> DEFINE u == [t EXCEPT !.next = t.next + 1, !.started = t.started \cup {t.next},
                            !.undrained = t.undrained \ {t.next}]
             v == [t EXCEPT !.at = "stopping", !.started = t.started \cup {t.next},
                            !.undrained = t.undrained \ {t.next}]
  <2>1. /\ u.closed = t.closed /\ u.at = t.at /\ u.started = t.started \cup {t.next}
        /\ u.undrained = t.undrained \ {t.next}
    BY <1>2 DEF TickerState
  <2>5. /\ v.closed = t.closed /\ v.at = "stopping" /\ v.started = t.started \cup {t.next}
        /\ v.undrained = t.undrained \ {t.next}
    BY <1>2 DEF TickerState
  <2>2. t.at = "starting"
    BY <1>8 DEF StartsNext
  <2>3. \/ SetRunning(g, running[g] \cup {t.next}) /\ SetTicker(g, u)
        \/ SetRunning(g, running[g] \cup {t.next}) /\ SetTicker(g, v)
        \/ UNCHANGED running /\ SetTicker(g, v)
    BY <1>8 DEF StartsNext, Recorded
  <2> HIDE DEF t, u, v
  <2>4. /\ Good(u, running[g] \cup {t.next}) /\ Good(v, running[g] \cup {t.next}) /\ Good(v, running[g])
    BY <1>4, <2>1, <2>2, <2>5
  <2> HIDE DEF Good
  <2> QED BY <1>4, <1>5, <1>7, <2>3, <2>4
<1>9. CASE Started(g) \/ WindowEnds(g) \/ BeginsWindow(g)
  <2>1. PICK a \in {"starting", "open", "stopping"} : SetTicker(g, [t EXCEPT !.at = a]) /\ UNCHANGED running
    BY <1>9 DEF Started, WindowEnds, BeginsWindow
  <2>2. Good([t EXCEPT !.at = a], running[g])
    BY <1>2, <1>4 DEF TickerState
  <2> HIDE DEF Good, t
  <2> QED BY <1>4, <1>5, <1>7, <2>1, <2>2
<1>10. CASE StopsNext(g)
  <2>1. PICK k : \/ /\ SetTicker(g, [t EXCEPT !.started = t.started \ {k}])
                    /\ SetRunning(g, running[g] \ {k})
                 \/ /\ SetTicker(g, [t EXCEPT !.started = t.started \ {k},
                                               !.undrained = t.undrained \cup {k}])
                    /\ UNCHANGED running
    BY <1>10 DEF StopsNext
  <2>2. t.at = "stopping"
    BY <1>10 DEF StopsNext
  <2>3. Good([t EXCEPT !.started = t.started \ {k}], running[g] \ {k})
    BY <1>2, <1>4, <2>2 DEF TickerState
  <2>4. Good([t EXCEPT !.started = t.started \ {k}, !.undrained = t.undrained \cup {k}], running[g])
    BY <1>2, <1>4, <2>2 DEF TickerState
  <2> HIDE DEF Good, t
  <2> QED BY <1>4, <1>5, <1>7, <2>1, <2>3, <2>4
<1>11. CASE Answers(g)
  <2>1. /\ SetTicker(g, [Idle EXCEPT !.closed = t.closed, !.undrained = t.undrained])
        /\ UNCHANGED running /\ t.at = "stopping" /\ t.started = {}
    BY <1>11 DEF Answers
  <2>2. Good([Idle EXCEPT !.closed = t.closed, !.undrained = t.undrained], running[g])
    BY <1>2, <1>4, <2>1 DEF TickerState, Idle
  <2> HIDE DEF Good, t
  <2> QED BY <1>4, <1>5, <1>7, <2>1, <2>2
<1> QED BY <1>8, <1>9, <1>10, <1>11 DEF Window

\* A request gains a generation only when it arrives, and keeps it to its end.
LEMMA RequestDoes ==
    ASSUME TypeOK, Serves, NEW r \in Request, NEW g \in Generation,
           Arrives(r, g) \/ ((Ticks(r) \/ Streams(r) \/ Ends(r)) /\ g = request[r].gen)
    PROVE  /\ \A q \in Request \ {r} : request'[q] = request[q]
           /\ request'[r].gen \in {0, g} /\ boot[g] = "up" /\ stage[g] \notin Torn
           /\ request'[r].gen = 0 <=> request'[r].at \in {"none", "done"}
           /\ request'[r].at = "done" => request[r].at # "ticking"
           /\ UNCHANGED runtime
<1>0. request \in [Request -> RequestState] /\ 0 \notin Generation
  BY TypeParts DEF RetireTyped, Generation
<1>1. UNCHANGED runtime
  BY DEF Arrives, Ticks, Streams, Ends
<1>2. boot[g] = "up" /\ stage[g] \notin Torn /\ request[r].at # "ticking"
  <2>1. CASE Arrives(r, g)
    BY <2>1 DEF Arrives, Admits, Retired, Torn, NoRequest
  <2>2. CASE (Ticks(r) \/ Streams(r) \/ Ends(r)) /\ g = request[r].gen
    <3>1. r \in Active(g)
      BY <2>2 DEF Active
    <3> QED BY <2>2, <3>1
            DEF Serves, RequestIsServed, TeardownWaitsForRequests, Torn, Ticks, Streams, Ends
  <2> QED BY <2>1, <2>2
<1>3. \/ \E a \in {"handling", "ticking", "stream", "ending"} : SetRequest(r, g, a)
      \/ SetRequest(r, 0, "done")
  BY DEF Arrives, Ticks, Streams, Ends, StreamState
<1>4. ASSUME NEW h, NEW a, SetRequest(r, h, a)
      PROVE  /\ \A q \in Request \ {r} : request'[q] = request[q]
             /\ request'[r].gen = h /\ request'[r].at = a
  BY <1>0, <1>4 DEF SetRequest
<1> QED BY <1>0, <1>1, <1>2, <1>3, <1>4

\* The requests of a window end with it.
LEMMA WindowStepsDo ==
    ASSUME TypeOK, Serves, NEW g \in Generation, WindowSteps(g), NEW r \in Request
    PROVE  \/ request'[r] = request[r]
           \/ /\ request[r].gen = g /\ request[r].at = "ticking" /\ request'[r] = [gen |-> 0, at |-> "done"]
              /\ ticker'[g].at = "idle"
<1>1. request \in [Request -> RequestState]
  BY TypeParts DEF RetireTyped
<1> QED BY <1>1 DEF WindowSteps, RequestState

LEMMA WindowServes ==
    ASSUME TypeOK, Serves, NEW g \in Generation, WindowSteps(g)
    PROVE  Serves'
<1>1. UNCHANGED <<role, boot, stage>> /\ Window(g)
  BY DEF WindowSteps, runtime
<1>2. ClosedWhenRetired'
  BY <1>1, WindowDoes DEF Serves, ClosedWhenRetired, Retired
<1>3. WindowOwns'
  BY <1>1, WindowDoes DEF Serves, WindowOwns
<1>4. \A r \in Request : request'[r].gen = request[r].gen \/ (request'[r].gen = 0 /\ request'[r].at = "done")
  BY WindowStepsDo
<1>5. RequestIsServed'
  <2> SUFFICES ASSUME NEW r \in Request
               PROVE  /\ request'[r].gen = 0 <=> request'[r].at \in {"none", "done"}
                      /\ request'[r].gen \in Generation => boot'[request'[r].gen] = "up"
    BY DEF RequestIsServed
  <2>1. 0 \notin Generation
    BY DEF Generation
  <2>2. CASE request'[r] = request[r]
    BY <1>1, <2>2 DEF Serves, RequestIsServed
  <2>3. CASE request'[r] = [gen |-> 0, at |-> "done"]
    BY <2>1, <2>3
  <2> QED BY <2>2, <2>3, WindowStepsDo
<1>6. TeardownWaitsForRequests'
  <2> SUFFICES ASSUME NEW h \in Generation, stage'[h] \in Torn
               PROVE  Active(h)' = {} /\ ticker'[h].at = "idle"
    BY DEF TeardownWaitsForRequests, Torn
  <2>1. h # g /\ ticker'[h] = ticker[h] /\ stage[h] \in Torn
    BY <1>1, WindowDoes
  <2>2. Active(h) = {} /\ ticker[h].at = "idle"
    BY <2>1 DEF Serves, TeardownWaitsForRequests, Torn
  <2>3. 0 \notin Generation
    BY DEF Generation
  <2> QED BY <1>4, <2>1, <2>2, <2>3 DEF Active
<1> QED BY <1>2, <1>3, <1>5, <1>6 DEF Serves

LEMMA RequestServes ==
    ASSUME TypeOK, Serves, NEW r \in Request,
           (\E g \in Generation : Arrives(r, g)) \/ Ticks(r) \/ Streams(r) \/ Ends(r)
    PROVE  Serves'
<1>0. request \in [Request -> RequestState] /\ 0 \notin Generation
      /\ \A n \in 0 .. Generations : n = 0 \/ n \in Generation
  BY TickerAssumption, TypeParts DEF RetireTyped, Generation
<1>1. PICK g \in Generation :
          Arrives(r, g) \/ ((Ticks(r) \/ Streams(r) \/ Ends(r)) /\ g = request[r].gen)
  <2>1. CASE Ticks(r) \/ Streams(r) \/ Ends(r)
    <3>1. request[r].gen \in Generation
      BY <1>0, <2>1 DEF Ticks, Streams, Ends, Serves, RequestIsServed, RequestState
    <3> QED BY <2>1, <3>1
  <2> QED BY <2>1
<1>2. UNCHANGED <<role, boot, stage>>
  BY <1>1, RequestDoes DEF runtime
<1>3. \/ UNCHANGED <<ticker, running>>
      \/ BeginsWindow(g) /\ role = "tick" /\ boot[g] = "up"
  BY <1>1, RequestDoes DEF Arrives, Ticks, Streams, Ends
<1>4. ClosedWhenRetired' /\ WindowOwns'
  <2>1. CASE UNCHANGED <<ticker, running>>
    BY <1>2, <2>1 DEF Serves, ClosedWhenRetired, Retired, WindowOwns
  <2>2. CASE BeginsWindow(g) /\ role = "tick" /\ boot[g] = "up"
    <3>1. ClosedWhenRetired'
      BY <1>2, <2>2, WindowDoes DEF Serves, ClosedWhenRetired, Retired
    <3>2. WindowOwns'
      BY <1>2, <2>2, WindowDoes DEF Serves, WindowOwns
    <3> QED BY <3>1, <3>2
  <2> QED BY <1>3, <2>1, <2>2
<1>5. RequestIsServed'
  BY <1>0, <1>1, <1>2, RequestDoes DEF Serves, RequestIsServed
<1>6. TeardownWaitsForRequests'
  <2> SUFFICES ASSUME NEW h \in Generation, stage'[h] \in Torn
               PROVE  Active(h)' = {} /\ ticker'[h].at = "idle"
    BY DEF TeardownWaitsForRequests, Torn
  <2>1. stage[h] \in Torn /\ h # g
    BY <1>1, <1>2, RequestDoes
  <2>2. Active(h) = {} /\ ticker[h].at = "idle"
    BY <2>1 DEF Serves, TeardownWaitsForRequests, Torn
  <2>3. Active(h)' = {}
    BY <1>0, <1>1, <2>1, <2>2, RequestDoes DEF Active
  <2>4. ticker'[h].at = "idle"
    BY <1>3, <2>1, <2>2, WindowDoes
  <2> QED BY <2>3, <2>4
<1> QED BY <1>4, <1>5, <1>6 DEF Serves

\* What a step of retirement leaves of the others, and where it leads.
LEMMA TeardownDoes ==
    ASSUME TypeOK, Serves, NEW g \in Generation, Teardown(g)
    PROVE  /\ UNCHANGED <<role, request, ticker, boot, starts, waits, late>>
           /\ \A h \in Generation \ {g} : /\ stage'[h] = stage[h] /\ left'[h] = left[h]
                                          /\ running'[h] = running[h] /\ failed'[h] = failed[h]
           /\ running'[g] \subseteq running[g] /\ (failed[g] => failed'[g])
           /\ stage'[g] \in Torn /\ stage[g] \in {"draining", "quiescing", "disposing"}
           /\ Active(g) = {} /\ ticker[g].at = "idle"
<1>0. /\ stage \in [Generation -> {"serving", "draining", "quiescing", "disposing", "released"}]
      /\ left \in [Generation -> 0 .. Modules + 2] /\ failed \in [Generation -> BOOLEAN]
      /\ running \in [Generation -> SUBSET Composition]
  BY TypeParts DEF RetireTyped, RestTyped, BootTyped
<1>1. PICK s \in Torn : \E n : SetTeardown(g, s, n)
  BY DEF Teardown, Finishes, Quiesces, QuiescesDone, StopsListening, DisposesComposition,
         DisposesDatabases, Releases, Torn
<1>2. /\ UNCHANGED <<role, request, ticker, boot, starts, waits, late>>
      /\ \A h \in Generation \ {g} : stage'[h] = stage[h] /\ left'[h] = left[h]
      /\ stage'[g] \in Torn
  BY <1>0, <1>1 DEF SetTeardown
<1>3. /\ \A h \in Generation \ {g} : failed'[h] = failed[h]
      /\ failed[g] => failed'[g]
  <2>1. Succeeds \/ Raises(g)
    BY DEF Teardown, Finishes, Quiesces, QuiescesDone, StopsListening, DisposesComposition,
         DisposesDatabases, Releases
  <2> QED BY <1>0, <2>1 DEF Succeeds, Raises
<1>4. /\ \A h \in Generation \ {g} : running'[h] = running[h]
      /\ running'[g] \subseteq running[g]
  <2>1. UNCHANGED running \/ \E k : running' = [running EXCEPT ![g] = running[g] \ {k}]
    BY DEF Teardown, Finishes, Quiesces, QuiescesDone, StopsListening, DisposesComposition,
         DisposesDatabases, Releases, DisposesModule, DisposeRaises, SetRunning
  <2> QED BY <1>0, <2>1
<1>5. /\ stage[g] \in {"draining", "quiescing", "disposing"}
      /\ Active(g) = {} /\ ticker[g].at = "idle"
  <2>1. CASE Finishes(g)
    BY <2>1 DEF Finishes, IsClosed
  <2>2. CASE ~Finishes(g)
    <3>1. stage[g] \in {"quiescing", "disposing"}
      BY <2>2 DEF Teardown, Quiesces, QuiescesDone, StopsListening, DisposesComposition,
         DisposesDatabases, Releases
    <3> QED BY <3>1 DEF Serves, TeardownWaitsForRequests
  <2> QED BY <2>1, <2>2
<1> QED BY <1>2, <1>3, <1>4, <1>5

LEMMA TeardownServes ==
    ASSUME TypeOK, Serves, NEW g \in Generation, Teardown(g) PROVE Serves'
<1>1. ClosedWhenRetired' /\ WindowOwns'
  BY TeardownDoes DEF Serves, ClosedWhenRetired, Retired, WindowOwns, Torn
<1>2. RequestIsServed'
  BY TeardownDoes DEF Serves, RequestIsServed
<1>3. \A h : Active(h)' = Active(h)
  BY TeardownDoes DEF Active
<1>4. TeardownWaitsForRequests'
  BY <1>3, TeardownDoes DEF Serves, TeardownWaitsForRequests, Torn
<1> QED BY <1>1, <1>2, <1>4 DEF Serves

LEMMA ServesNext == ASSUME TypeOK, Serves, [Next]_vars PROVE Serves'
<1>1. CASE UNCHANGED vars
  BY <1>1 DEF vars, lifecycle, Serves, ClosedWhenRetired, Retired, WindowOwns, RequestIsServed,
              TeardownWaitsForRequests, Active
<1>2. ASSUME NEW g \in Generation, NEW k \in Composition, Opens(g, k) PROVE Serves'
  BY <1>2 DEF Opens, runtime, Serves, ClosedWhenRetired, Retired, WindowOwns, RequestIsServed,
              TeardownWaitsForRequests, Active
<1> QED BY <1>1, <1>2, BootServes, WindowServes, RequestServes, TeardownServes DEF Next

-----------------------------------------------------------------------------
(***************************************************************************)
(* The hand-over.                                                          *)
(***************************************************************************)
LEMMA HandsInit == Init => Hands
<1> SUFFICES ASSUME Init PROVE Hands
  OBVIOUS
<1>1. StartsAfter /\ Ordered
  BY DEF Init, TickerInit, StartsAfter, Ordered, Activated
<1>2. Quiesced
  BY DEF Init, TickerInit, Quiesced
<1> QED BY <1>1, <1>2 DEF Hands

\* What makes a generation's hand-over worse: nothing but its own boot, its own
\* window or its activation.  What is gone or released stays so.
Stays(g) ==
    /\ boot'[g] = boot[g] \/ (boot'[g] = "failed" /\ boot[g] \in {"preparing", "awaiting", "starting"})
       \/ (boot'[g] = "up" /\ boot[g] = "starting") \/ (boot'[g] = "preparing" /\ boot[g] = "absent")
    /\ waits'[g] = waits[g]
    /\ running'[g] # {} => running[g] # {} \/ boot[g] \in {"starting", "up"}
Settled ==
    \A g \in Generation :
        /\ Gone(g) => Gone(g)'
        /\ stage[g] = "released" => stage'[g] = "released" /\ (failed'[g] <=> failed[g])

\* A step that activates nothing and lets no boot past its retirements.
LEMMA StaysKeeps ==
    ASSUME TypeOK, StartsAfter, Ordered, Settled, \A g \in Generation : Stays(g)
    PROVE  StartsAfter' /\ Ordered'
<1>1. waits \in [Generation -> SUBSET Generation]
  BY TypeParts DEF BootTyped
<1>2. StartsAfter'
  <2> SUFFICES ASSUME NEW g \in Generation
               PROVE  /\ boot'[g] \in {"awaiting", "starting", "up"} => Activated(g)'
                      /\ running'[g] # {} => Activated(g)' /\ boot'[g] \in {"starting", "up", "failed"}
                      /\ boot'[g] \in {"starting", "up"} \/ running'[g] # {} =>
                             \A h \in waits'[g] \ {g} : stage'[h] = "released" /\ ~failed'[h]
    BY DEF StartsAfter
  <2>1. Stays(g) /\ waits'[g] = waits[g]
    BY DEF Stays
  <2>2. boot'[g] \in {"awaiting", "starting", "up"} => boot[g] \in {"awaiting", "starting", "up"}
    BY <2>1 DEF Stays
  <2>3. running'[g] # {} => /\ Activated(g) /\ boot'[g] \in {"starting", "up", "failed"}
    BY <2>1 DEF Stays, StartsAfter
  <2>4. boot'[g] \in {"starting", "up"} \/ running'[g] # {} =>
            boot[g] \in {"starting", "up"} \/ running[g] # {}
    BY <2>1 DEF Stays
  <2>5. ASSUME NEW h \in waits[g] \ {g}, stage[h] = "released" /\ ~failed[h]
        PROVE  stage'[h] = "released" /\ ~failed'[h]
    BY <1>1, <2>5 DEF Settled
  <2> QED BY <2>1, <2>2, <2>3, <2>4, <2>5 DEF StartsAfter, Activated
<1>3. Ordered'
  BY DEF Ordered, Activated, Stays, Settled
<1> QED BY <1>2, <1>3

\* The stages, and with them what is gone and released, only advance.
LEMMA SettledNext == ASSUME TypeOK, Serves, [Next]_vars PROVE Settled
<1>0. /\ stage \in [Generation -> {"serving", "draining", "quiescing", "disposing", "released"}]
      /\ left \in [Generation -> 0 .. Modules + 2] /\ failed \in [Generation -> BOOLEAN]
  BY TypeParts DEF RetireTyped, RestTyped
<1>1. ASSUME (\E g \in Generation : Boot(g)) \/ RetiresAll PROVE Settled
  <2>1. UNCHANGED <<left, failed>>
    BY <1>1 DEF RetiresAll, Boot, Composes, PreparationRaises, Activates, RetirementsDone,
                RetirementRejects, StartsWorker, BootEnds, progress
  <2>2. \A g \in Generation : stage[g] \in Torn => stage'[g] = stage[g]
    BY <1>1, BootLeaves, RetireLeaves DEF Serves
  <2> QED BY <2>1, <2>2 DEF Settled, Gone, Torn
<1>2. CASE UNCHANGED <<stage, left, failed>>
  BY <1>2 DEF Settled, Gone
<1>3. ASSUME NEW g \in Generation, Teardown(g) PROVE Settled
  <2>1. \A h \in Generation \ {g} : stage'[h] = stage[h] /\ left'[h] = left[h] /\ failed'[h] = failed[h]
    BY <1>3, TeardownDoes
  <2>2. stage[g] # "released"
    BY <1>3, TeardownDoes
  <2>3. ASSUME stage[g] = "disposing", left[g] <= Modules + 1 PROVE Gone(g)'
    <3>1. ASSUME NEW n \in 0 .. Modules + 1, SetTeardown(g, "disposing", n) PROVE Gone(g)'
      BY <1>0, <3>1 DEF SetTeardown, Gone
    <3>2. ASSUME NEW n, SetTeardown(g, "released", n) PROVE Gone(g)'
      BY <1>0, <3>2 DEF SetTeardown, Gone
    <3>3. left[g] \in 0 .. Modules + 1 /\ (left[g] > 0 => left[g] - 1 \in 0 .. Modules + 1)
      BY <1>0, <2>3, TickerAssumption
    <3> QED BY <1>3, <2>3, <3>1, <3>2, <3>3 DEF Teardown, Finishes, Quiesces, QuiescesDone,
            StopsListening, DisposesComposition, DisposesDatabases, Releases
  <2> QED BY <2>1, <2>2, <2>3 DEF Settled, Gone
<1>4. CASE UNCHANGED vars
  BY <1>2, <1>4 DEF vars, lifecycle
<1> QED BY <1>1, <1>2, <1>3, <1>4
        DEF Next, WindowSteps, Opens, Arrives, Ticks, Streams, Ends, runtime, progress

\* An activation orders the generation among those activated before it.
LEMMA ActivatesKeeps ==
    ASSUME TypeOK, Serves, StartsAfter, Ordered, NEW g \in Generation, Activates(g)
    PROVE  StartsAfter' /\ Ordered'
<1>0. waits \in [Generation -> SUBSET Generation] /\ DOMAIN boot = Generation
  BY TypeParts DEF BootTyped
<1>1. Settled
  BY SettledNext DEF Next, Boot
<1>2. /\ boot' = [boot EXCEPT ![g] = "awaiting"] /\ waits' = [waits EXCEPT ![g] = Awaited(g)]
      /\ UNCHANGED running /\ boot[g] = "preparing"
  BY DEF Activates, SetBoot
<1>3. running[g] = {} /\ waits'[g] = Awaited(g) /\ g \in Awaited(g) /\ boot'[g] = "awaiting"
  BY <1>0, <1>2 DEF StartsAfter, Awaited
<1>4. \A h \in Generation \ {g} : waits'[h] = waits[h] /\ boot'[h] = boot[h]
  BY <1>0, <1>2
<1>5. StartsAfter'
  <2> SUFFICES ASSUME NEW h \in Generation
               PROVE  /\ boot'[h] \in {"awaiting", "starting", "up"} => Activated(h)'
                      /\ running'[h] # {} => Activated(h)' /\ boot'[h] \in {"starting", "up", "failed"}
                      /\ boot'[h] \in {"starting", "up"} \/ running'[h] # {} =>
                             \A e \in waits'[h] \ {h} : stage'[e] = "released" /\ ~failed'[e]
    BY DEF StartsAfter
  <2>1. CASE h = g
    BY <1>2, <1>3, <2>1 DEF Activated
  <2>2. CASE h # g
    <3>1. \A e \in waits[h] : e \in Generation
      BY <1>0
    <3> QED BY <1>1, <1>2, <1>4, <2>2, <3>1 DEF StartsAfter, Activated, Settled
  <2> QED BY <2>1, <2>2
<1>6. \A h \in Generation : Activated(h) => h \in Awaited(g) \/ Gone(h)
  BY DEF Activated, Awaited, Listening, Gone
<1>7. Ordered'
  <2> SUFFICES ASSUME NEW e \in Generation, NEW h \in Generation, e # h, Activated(e)', Activated(h)'
               PROVE  e \in waits'[h] \/ h \in waits'[e] \/ Gone(e)' \/ Gone(h)'
    BY DEF Ordered
  <2>1. CASE e = g
    BY <1>1, <1>3, <1>4, <1>6, <2>1 DEF Settled, Activated
  <2>2. CASE h = g
    BY <1>1, <1>3, <1>4, <1>6, <2>2 DEF Settled, Activated
  <2>3. CASE e # g /\ h # g
    BY <1>1, <1>4, <2>3 DEF Settled, Activated, Ordered
  <2> QED BY <2>1, <2>2, <2>3
<1> QED BY <1>5, <1>7

\* A boot starts its workers when the retirements it awaited are through.
LEMMA RetirementsDoneKeeps ==
    ASSUME TypeOK, Serves, StartsAfter, Ordered, NEW g \in Generation, RetirementsDone(g)
    PROVE  StartsAfter' /\ Ordered'
<1>0. DOMAIN boot = Generation
  BY TypeParts DEF BootTyped
<1>1. UNCHANGED <<waits, running, stage, left, failed>> /\ boot[g] = "awaiting"
      /\ (\A h \in waits[g] \ {g} : stage[h] = "released" /\ ~failed[h])
      /\ boot'[g] \in {"starting", "up"} /\ \A h \in Generation \ {g} : boot'[h] = boot[h]
  BY <1>0 DEF RetirementsDone, SetBoot, progress
<1>2. StartsAfter'
  BY <1>1 DEF StartsAfter, Activated
<1>3. Ordered'
  BY <1>1 DEF Ordered, Activated, Gone
<1> QED BY <1>2, <1>3

LEMMA OrderNext ==
    ASSUME TypeOK, Serves, StartsAfter, Ordered, [Next]_vars PROVE StartsAfter' /\ Ordered'
<1>0. /\ boot \in [Generation -> {"absent", "preparing", "awaiting", "starting", "up", "failed"}]
      /\ running \in [Generation -> SUBSET Composition]
  BY TypeParts DEF BootTyped
<1>1. ASSUME NEW g \in Generation, Boot(g), ~Activates(g), ~RetirementsDone(g)
      PROVE  \A h \in Generation : Stays(h)
  <2>1. UNCHANGED waits
    BY <1>1 DEF Boot, Composes, PreparationRaises, RetirementRejects, StartsWorker, BootEnds, progress
  <2>2. \A h \in Generation \ {g} : boot'[h] = boot[h] /\ running'[h] = running[h]
    BY <1>0, <1>1 DEF Boot, Composes, PreparationRaises, RetirementRejects, StartsWorker, BootEnds,
       SetBoot, SetRunning
  <2>3. \/ boot'[g] = boot[g]
        \/ boot'[g] = "failed" /\ boot[g] \in {"preparing", "awaiting", "starting"}
        \/ boot'[g] = "up" /\ boot[g] = "starting"
        \/ boot'[g] = "preparing" /\ boot[g] = "absent"
    BY <1>0, <1>1 DEF Boot, Composes, PreparationRaises, RetirementRejects, StartsWorker, BootEnds, SetBoot
  <2>4. UNCHANGED running \/ boot[g] = "starting"
    BY <1>1 DEF Boot, Composes, PreparationRaises, RetirementRejects, StartsWorker, BootEnds
  <2> QED BY <2>1, <2>2, <2>3, <2>4 DEF Stays
<1>2. ASSUME UNCHANGED <<boot, waits>>,
             \A h \in Generation : running'[h] \subseteq running[h] \/ boot[h] = "up"
      PROVE  \A h \in Generation : Stays(h)
  BY <1>2 DEF Stays
<1>3. ASSUME NEW g \in Generation, Teardown(g) PROVE \A h \in Generation : Stays(h)
  BY <1>2, <1>3, TeardownDoes
<1>4. ASSUME NEW g \in Generation, WindowSteps(g) PROVE \A h \in Generation : Stays(h)
  BY <1>2, <1>4, WindowDoes DEF WindowSteps, runtime, progress
<1>5. ASSUME UNCHANGED <<boot, waits, running>> PROVE \A h \in Generation : Stays(h)
  BY <1>2, <1>5
<1>6. ASSUME NEW r \in Request,
             (\E g \in Generation : Arrives(r, g)) \/ Ticks(r) \/ Streams(r) \/ Ends(r)
      PROVE  UNCHANGED <<boot, waits, running>>
  BY <1>6 DEF Arrives, Ticks, Streams, Ends, BeginsWindow, runtime, progress
<1>7. ASSUME RetiresAll \/ UNCHANGED vars \/ \E g \in Generation, k \in Composition : Opens(g, k)
      PROVE  UNCHANGED <<boot, waits, running>>
  BY <1>7 DEF RetiresAll, Opens, vars, lifecycle, runtime, progress
<1>8. \/ \E g \in Generation : Activates(g) \/ RetirementsDone(g)
      \/ \A h \in Generation : Stays(h)
  BY <1>1, <1>3, <1>4, <1>5, <1>6, <1>7 DEF Next
<1> QED BY <1>8, SettledNext, StaysKeeps, ActivatesKeeps, RetirementsDoneKeeps

\* The quiescers go from the last composition to the first, and only a boot that
\* goes on after retirement starts a loop behind them.
LEMMA QuiescedNext == ASSUME TypeOK, Serves, Quiesced, [Next]_vars PROVE Quiesced'
<1>0. /\ stage \in [Generation -> {"serving", "draining", "quiescing", "disposing", "released"}]
      /\ left \in [Generation -> 0 .. Modules + 2] /\ failed \in [Generation -> BOOLEAN]
      /\ running \in [Generation -> SUBSET Composition]
  BY TypeParts DEF RetireTyped, RestTyped, BootTyped
<1> DEFINE Quiet(g) == g \in late \/ failed[g] \/
               /\ stage[g] = "quiescing" => running[g] \subseteq 1 .. left[g]
               /\ stage[g] \in {"disposing", "released"} => running[g] = {}
<1>1. ASSUME UNCHANGED <<left, failed>>, late \subseteq late',
             \A h \in Generation :
                 \/ stage'[h] \notin Torn
                 \/ stage'[h] = stage[h] /\ (running'[h] = running[h] \/ h \in late')
      PROVE  Quiesced'
  BY <1>1 DEF Quiesced, Torn
<1>2. ASSUME NEW g \in Generation, Boot(g) PROVE Quiesced'
  <2>1. UNCHANGED <<left, failed>> /\ late \subseteq late'
    BY <1>2 DEF Boot, Composes, PreparationRaises, Activates, RetirementsDone, RetirementRejects,
                StartsWorker, BootEnds, progress
  <2>2. \A h \in Generation : stage'[h] \in Torn => stage'[h] = stage[h] /\ Retired(h)
    BY <1>2, BootLeaves, RetireLeaves DEF Serves, Retired, Torn
  <2>3. \A h \in Generation : Retired(h) => running'[h] = running[h] \/ h \in late'
    <3>1. CASE StartsWorker(g)
      <4>1. PICK L : SetRunning(g, L) /\ late' = IF Retired(g) /\ L # running[g] THEN late \cup {g} ELSE late
        BY <3>1 DEF StartsWorker
      <4> QED BY <1>0, <4>1 DEF SetRunning
    <3>2. CASE ~StartsWorker(g)
      BY <1>2, <3>2 DEF Boot, Composes, PreparationRaises, Activates, RetirementsDone,
                        RetirementRejects, BootEnds
    <3> QED BY <3>1, <3>2
  <2> QED BY <1>1, <2>1, <2>2, <2>3
<1>3. ASSUME NEW g \in Generation, WindowSteps(g) PROVE Quiesced'
  <2>1. /\ \A h \in Generation \ {g} : running'[h] = running[h]
        /\ stage[g] \notin Torn /\ UNCHANGED <<stage, left, failed, late>>
    BY <1>3, WindowDoes DEF WindowSteps, runtime, progress
  <2> QED BY <1>1, <2>1
<1>4. ASSUME NEW g \in Generation, Teardown(g) PROVE Quiesced'
  <2>1. /\ \A h \in Generation \ {g} : /\ stage'[h] = stage[h] /\ left'[h] = left[h]
                                       /\ running'[h] = running[h] /\ failed'[h] = failed[h]
        /\ running'[g] \subseteq running[g] /\ (failed[g] => failed'[g]) /\ UNCHANGED late
    BY <1>4, TeardownDoes
  <2>2. ASSUME NEW s, NEW n, SetTeardown(g, s, n) PROVE stage'[g] = s /\ left'[g] = n
    BY <1>0, <2>2 DEF SetTeardown
  <2>3. ASSUME g \notin late, ~failed'[g]
        PROVE  /\ stage'[g] = "quiescing" => running'[g] \subseteq 1 .. left'[g]
               /\ stage'[g] \in {"disposing", "released"} => running'[g] = {}
    <3>0. /\ stage[g] = "quiescing" => running[g] \subseteq 1 .. left[g]
          /\ stage[g] \in {"disposing", "released"} => running[g] = {}
      BY <2>1, <2>3 DEF Quiesced
    <3>1. CASE Finishes(g)
      <4>1. stage'[g] = "quiescing" /\ left'[g] = Modules /\ UNCHANGED running
        BY <2>2, <3>1 DEF Finishes
      <4> QED BY <1>0, <4>1 DEF Composition
    <3>2. CASE Quiesces(g)
      <4>1. stage[g] = "quiescing" /\ stage'[g] = "quiescing" /\ left'[g] = left[g] - 1 /\ left[g] > 0
        BY <2>2, <3>2 DEF Quiesces
      <4>2. ~Raises(g)
        BY <1>0, <2>3 DEF Raises
      <4>3. running'[g] = running[g] \ {left[g]}
        BY <1>0, <3>2, <4>2 DEF Quiesces, SetRunning
      <4>4. left[g] \in Nat
        BY <1>0, TickerAssumption
      <4> QED BY <3>0, <4>1, <4>3, <4>4
    <3>3. CASE QuiescesDone(g)
      <4>1. stage[g] = "quiescing" /\ left[g] = 0 /\ stage'[g] = "disposing" /\ UNCHANGED running
        BY <2>2, <3>3 DEF QuiescesDone
      <4> QED BY <3>0, <4>1
    <3>4. CASE StopsListening(g) \/ DisposesComposition(g) \/ DisposesDatabases(g) \/ Releases(g)
      <4>1. stage[g] = "disposing" /\ stage'[g] \in {"disposing", "released"}
        BY <2>2, <3>4 DEF StopsListening, DisposesComposition, DisposesDatabases, Releases
      <4> QED BY <2>1, <3>0, <4>1
    <3> QED BY <1>4, <3>1, <3>2, <3>3, <3>4 DEF Teardown
  <2> QED BY <2>1, <2>3 DEF Quiesced
<1>5. CASE UNCHANGED vars
  BY <1>5 DEF vars, lifecycle, Quiesced
<1>6. CASE RetiresAll
  <2>1. \A h \in Generation : stage'[h] \in Torn => stage'[h] = stage[h]
    BY <1>6, BootLeaves, RetireLeaves DEF Serves, Torn
  <2>2. UNCHANGED <<running, left, failed, late>>
    BY <1>6 DEF RetiresAll, progress
  <2> QED BY <1>1, <2>1, <2>2
<1>7. ASSUME NEW g \in Generation, NEW k \in Composition, Opens(g, k) PROVE Quiesced'
  BY <1>7 DEF Opens, runtime, progress, Quiesced
<1>8. ASSUME NEW r \in Request, (\E g \in Generation : Arrives(r, g)) \/ Ticks(r) \/ Streams(r) \/ Ends(r)
      PROVE  Quiesced'
  BY <1>8 DEF Arrives, Ticks, Streams, Ends, BeginsWindow, runtime, progress, Quiesced
<1> QED BY <1>2, <1>3, <1>4, <1>5, <1>6, <1>7, <1>8 DEF Next

-----------------------------------------------------------------------------
(***************************************************************************)
(* The leases.                                                             *)
(***************************************************************************)
LEMMA GivesInit == Init => Gives
  BY DEF Init, LeaseInit, Gives, DisposedRests, DisposedInOrder

\* What is disposed starts nothing, opens nothing and stays disposed.
LEMMA GivesNext == ASSUME TypeOK, Serves, Gives, [Next]_vars PROVE Gives'
<1>0. /\ stage \in [Generation -> {"serving", "draining", "quiescing", "disposing", "released"}]
      /\ left \in [Generation -> 0 .. Modules + 2] /\ failed \in [Generation -> BOOLEAN]
      /\ running \in [Generation -> SUBSET Composition]
      /\ leased \in [Generation -> SUBSET Composition] /\ disposed \in [Generation -> SUBSET Composition]
      /\ provider \in [Generation -> {"ready", "disposing", "disposed"}]
  BY TypeParts DEF RetireTyped, RestTyped, BootTyped, LeaseTypeOK
<1>1. ASSUME UNCHANGED <<left, failed, disposed, provider, leased>>,
             \A h \in Generation :
                 /\ stage[h] \in Torn => stage'[h] = stage[h]
                 /\ stage'[h] \in Torn => stage[h] \in Torn
                 /\ running'[h] \cap disposed[h] \subseteq running[h]
      PROVE  Gives'
  BY <1>1 DEF Gives, DisposedRests, DisposedInOrder, Torn
<1>2. ASSUME NEW g \in Generation, Boot(g) PROVE Gives'
  <2>1. UNCHANGED <<left, failed, disposed, provider, leased>>
    BY <1>2 DEF Boot, Composes, PreparationRaises, Activates, RetirementsDone, RetirementRejects,
                StartsWorker, BootEnds, progress, leases
  <2>2. \A h \in Generation : /\ stage[h] \in Torn => stage'[h] = stage[h]
                              /\ stage'[h] \in Torn => stage[h] \in Torn
    BY <1>2, BootLeaves, RetireLeaves DEF Serves
  <2>3. \A h \in Generation : running'[h] \cap disposed[h] \subseteq running[h]
    BY <1>0, <1>2 DEF Boot, Composes, PreparationRaises, Activates, RetirementsDone,
                      RetirementRejects, StartsWorker, BootEnds, SetRunning
  <2> QED BY <1>1, <2>1, <2>2, <2>3
<1>3. ASSUME NEW g \in Generation, WindowSteps(g) PROVE Gives'
  <2>1. /\ \A h \in Generation \ {g} : running'[h] = running[h]
        /\ stage[g] \notin Torn /\ UNCHANGED <<stage, left, failed, provider, leased, disposed>>
    BY <1>3, WindowDoes DEF WindowSteps, runtime, progress, leases
  <2>2. disposed[g] = {}
    BY <2>1 DEF Gives, DisposedRests, Torn
  <2> QED BY <1>1, <2>1, <2>2
<1>4. ASSUME NEW g \in Generation, Teardown(g) PROVE Gives'
  <2>1. /\ \A h \in Generation \ {g} : /\ stage'[h] = stage[h] /\ left'[h] = left[h]
                                       /\ running'[h] = running[h] /\ failed'[h] = failed[h]
        /\ running'[g] \subseteq running[g] /\ (failed[g] => failed'[g])
        /\ stage'[g] \in Torn
    BY <1>4, TeardownDoes
  <2>2. \A h \in Generation \ {g} : /\ leased'[h] = leased[h] /\ disposed'[h] = disposed[h]
                                    /\ provider'[h] = provider[h]
    BY <1>0, <1>4 DEF Teardown, Finishes, Quiesces, QuiescesDone, StopsListening, DisposesComposition,
       DisposesDatabases, Releases, DisposesModule, DisposeRaises, DisposesProvider, ClosesPools, leases
  <2>3. ASSUME NEW s, NEW n, SetTeardown(g, s, n) PROVE stage'[g] = s /\ left'[g] = n
    BY <1>0, <2>3 DEF SetTeardown
  <2> DEFINE Good == /\ \A k \in disposed'[g] : /\ stage'[g] \in {"disposing", "released"}
                                                /\ k \notin running'[g]
                                                /\ k \in leased'[g] => failed'[g]
                     /\ stage'[g] = "disposing" => \A k \in Composition : left'[g] <= k => k \in disposed'[g]
                     /\ stage'[g] = "released" => Composition \subseteq disposed'[g]
                     /\ provider'[g] # "ready" =>
                            stage'[g] = "released" \/ (stage'[g] = "disposing" /\ left'[g] <= 1)
  <2>4. left[g] \in Nat /\ Composition \subseteq 1 .. Modules /\ Modules \in Nat
    BY <1>0, TickerAssumption DEF Composition
  <2>5. ASSUME Finishes(g) \/ Quiesces(g) PROVE Good
    <3>1. stage'[g] = "quiescing" /\ stage[g] \in {"draining", "quiescing"}
      BY <2>3, <2>5 DEF Finishes, Quiesces
    <3>2. UNCHANGED <<provider, leased, disposed>>
      BY <2>5 DEF Finishes, Quiesces, leases
    <3>3. disposed[g] = {} /\ provider[g] = "ready"
      BY <3>1 DEF Gives, DisposedRests, DisposedInOrder
    <3> QED BY <3>1, <3>2, <3>3
  <2>6. ASSUME QuiescesDone(g) PROVE Good
    <3>1. stage[g] = "quiescing" /\ stage'[g] = "disposing" /\ left'[g] = Modules + 2
      BY <2>3, <2>6 DEF QuiescesDone
    <3>2. UNCHANGED <<provider, leased, disposed>>
      BY <2>6 DEF QuiescesDone, leases
    <3>3. disposed[g] = {} /\ provider[g] = "ready"
      BY <3>1 DEF Gives, DisposedRests, DisposedInOrder
    <3> QED BY <2>4, <3>1, <3>2, <3>3
  <2>7. ASSUME StopsListening(g) PROVE Good
    <3>1. stage[g] = "disposing" /\ stage'[g] = "disposing" /\ left[g] = Modules + 2 /\ left'[g] = left[g] - 1
      BY <2>3, <2>7 DEF StopsListening, Disposer
    <3>2. UNCHANGED <<provider, leased, disposed, running, failed>>
      BY <2>7 DEF StopsListening, leases, Succeeds
    <3> QED BY <2>4, <3>1, <3>2 DEF Gives, DisposedRests, DisposedInOrder
  <2>8. ASSUME DisposesComposition(g) PROVE Good
    <3> DEFINE k == left[g] - 1
    <3>1. stage[g] = "disposing" /\ stage'[g] = "disposing" /\ left'[g] = left[g] - 1 /\ k \in Composition
      BY <2>3, <2>8 DEF DisposesComposition, Disposer
    <3>2. /\ UNCHANGED provider
          /\ disposed'[g] = disposed[g] \cup {k} /\ running'[g] = running[g] \ {k}
          /\ leased'[g] = leased[g] \ {k} \/ (UNCHANGED leased /\ failed'[g])
      BY <1>0, <2>8 DEF DisposesComposition, Disposer, DisposesModule, DisposeRaises, Raises
    <3> QED BY <2>1, <2>4, <3>1, <3>2 DEF Gives, DisposedRests, DisposedInOrder
  <2>9. ASSUME DisposesDatabases(g) PROVE Good
    <3>1. /\ stage[g] = "disposing" /\ stage'[g] = "disposing" /\ left[g] = 1 /\ left'[g] \in {0, 1}
          /\ UNCHANGED <<leased, disposed, running, failed>>
      BY <2>3, <2>9 DEF DisposesDatabases, Disposer, DisposesProvider, ClosesPools, Succeeds
    <3> QED BY <2>4, <3>1 DEF Gives, DisposedRests, DisposedInOrder
  <2>10. ASSUME Releases(g) PROVE Good
    <3>1. /\ stage[g] = "disposing" /\ stage'[g] = "released" /\ left[g] = 0
          /\ UNCHANGED <<provider, leased, disposed, running, failed>>
      BY <2>3, <2>10 DEF Releases, Succeeds, leases
    <3> QED BY <2>4, <3>1 DEF Gives, DisposedRests, DisposedInOrder
  <2>11. Good
    BY <1>4, <2>5, <2>6, <2>7, <2>8, <2>9, <2>10 DEF Teardown
  <2>12. DisposedRests'
    BY <2>1, <2>2, <2>11 DEF Gives, DisposedRests
  <2>13. DisposedInOrder'
    BY <2>1, <2>2, <2>11 DEF Gives, DisposedInOrder
  <2> QED BY <2>12, <2>13 DEF Gives
<1>5. CASE UNCHANGED vars
  BY <1>5 DEF vars, lifecycle, Gives, DisposedRests, DisposedInOrder
<1>6. CASE RetiresAll
  <2>1. \A h \in Generation : /\ stage[h] \in Torn => stage'[h] = stage[h]
                              /\ stage'[h] \in Torn => stage[h] \in Torn
    BY <1>6, BootLeaves, RetireLeaves DEF Serves
  <2>2. UNCHANGED <<running, left, failed, provider, leased, disposed>>
    BY <1>6 DEF RetiresAll, progress, leases
  <2> QED BY <1>1, <2>1, <2>2
<1>7. ASSUME NEW g \in Generation, NEW k \in Composition, Opens(g, k) PROVE Gives'
  <2>1. k \notin disposed[g]
    <3>1. CASE k \in running[g]
      BY <3>1 DEF Gives, DisposedRests
    <3>2. CASE Active(g) # {}
      BY <3>2 DEF Gives, DisposedRests, Serves, TeardownWaitsForRequests
    <3> QED BY <1>7, <3>1, <3>2 DEF Opens
  <2>2. leased' = [leased EXCEPT ![g] = leased[g] \cup {k}] /\ UNCHANGED <<provider, disposed>>
    BY <1>7 DEF Opens, Acquires
  <2>3. UNCHANGED <<stage, left, failed, running>>
    BY <1>7 DEF Opens, runtime, progress
  <2> QED BY <1>0, <2>1, <2>2, <2>3 DEF Gives, DisposedRests, DisposedInOrder
<1>8. ASSUME NEW r \in Request, (\E g \in Generation : Arrives(r, g)) \/ Ticks(r) \/ Streams(r) \/ Ends(r)
      PROVE  Gives'
  BY <1>8 DEF Arrives, Ticks, Streams, Ends, BeginsWindow, runtime, progress, leases, Gives,
              DisposedRests, DisposedInOrder
<1> QED BY <1>2, <1>3, <1>4, <1>5, <1>6, <1>7, <1>8 DEF Next

-----------------------------------------------------------------------------
(***************************************************************************)
(* The theorems.                                                           *)
(***************************************************************************)
LEMMA IInvInit == Init => IInv
  BY TypeInit, ServesInit, HandsInit, GivesInit DEF IInv

LEMMA IInvNext == ASSUME IInv, [Next]_vars PROVE IInv'
<1>1. TypeOK' /\ Serves'
  BY TypeNext, ServesNext DEF IInv, Serves
<1>2. Hands'
  BY OrderNext, QuiescedNext DEF IInv, Hands
<1>3. Gives'
  BY GivesNext DEF IInv
<1> QED BY <1>1, <1>2, <1>3 DEF IInv

\* The inductive invariant: requests and windows keep teardown waiting, the
\* activated generations are ordered, and what was disposed rests.
THEOREM RuntimeInvariant == Spec => []IInv
<1>1. IInv /\ [Next]_vars => IInv'
  BY IInvNext
<1> QED BY <1>1, IInvInit, PTL DEF Spec

\* Nothing of a generation is stopped or closed while one of its requests, tick
\* windows included, is under way (finish() of lifecycle.ts).
THEOREM TeardownWaits == Spec => []TeardownWaitsForRequests
<1>1. IInv => TeardownWaitsForRequests
  BY DEF IInv, Serves
<1> QED BY <1>1, RuntimeInvariant, PTL

\* Two generations never run their loops at once, but for a late start or a
\* teardown that raised: for any number of generations that boot side by side.
THEOREM GenerationsHandOver == Spec => []HandOver
<1>1. IInv => HandOver
  <2> SUFFICES ASSUME IInv, NEW g \in Generation, NEW h \in Generation,
                      g # h, running[g] # {}, running[h] # {}
               PROVE  \E e \in {g, h} : e \in late \/ failed[e]
    BY DEF HandOver
  <2>1. \/ g \in waits[h] \/ h \in waits[g] \/ Gone(g) \/ Gone(h)
    BY DEF IInv, Hands, StartsAfter, Ordered
  <2>2. \A e \in Generation : Gone(e) /\ running[e] # {} => e \in late \/ failed[e]
    BY DEF IInv, Hands, Quiesced, Gone
  <2>3. ASSUME NEW e \in {g, h}, NEW d \in {g, h}, e # d, e \in waits[d] PROVE Gone(e)
    BY <2>3 DEF IInv, Hands, StartsAfter, Gone
  <2> QED BY <2>1, <2>2, <2>3
<1> QED BY <1>1, RuntimeInvariant, PTL

\* The pools close only when every module has given its leases back, unless a
\* dispose raised (dispose() of provider.ts waits for the leases).
THEOREM LeasesReturn == Spec => []LeasesComeBack
<1>1. IInv => LeasesComeBack
  <2> SUFFICES ASSUME IInv, NEW g \in Generation, provider[g] # "ready"
               PROVE  leased[g] = {} \/ failed[g]
    BY DEF LeasesComeBack
  <2>1. Composition \subseteq disposed[g]
    <3>1. \A k \in Composition : 1 <= k
      BY DEF Composition
    <3>2. left[g] <= 1 /\ stage[g] = "disposing" => \A k \in Composition : left[g] <= k
      BY <3>1, TypeParts, TickerAssumption DEF IInv, RestTyped, Composition
    <3> QED BY <3>2 DEF IInv, Gives, DisposedInOrder
  <2>2. leased[g] \subseteq Composition
    BY DEF IInv, TypeOK, LeaseTypeOK
  <2> QED BY <2>1, <2>2 DEF IInv, Gives, DisposedRests
<1> QED BY <1>1, RuntimeInvariant, PTL

\* A tick request is answered only when every loop of its generation has
\* drained, those of compositions whose own stop() raised apart: whatever
\* starts and stops raise, every composition is stopped (run() of
\* worker-tick.ts).
THEOREM WindowsDrainFirst == Spec => DrainedBeforeAnswer
<1> DEFINE Drained == \A r \in Request :
               request[r].at = "ticking" /\ request'[r].at = "done" =>
                   running'[request[r].gen] \subseteq ticker'[request[r].gen].undrained
<1>1. IInv /\ [Next]_vars => [Drained]_vars
  <2> SUFFICES ASSUME IInv, Next, NEW r \in Request, request[r].at = "ticking", request'[r].at = "done"
               PROVE  running'[request[r].gen] \subseteq ticker'[request[r].gen].undrained
    OBVIOUS
  <2>0. TypeOK /\ Serves /\ request'[r] # request[r]
    BY DEF IInv
  <2>1. ASSUME NEW g \in Generation, WindowSteps(g)
        PROVE  running'[request[r].gen] \subseteq ticker'[request[r].gen].undrained
    <3>1. request[r].gen = g /\ ticker'[g].at = "idle"
      BY <2>0, <2>1, WindowStepsDo
    <3> QED BY <2>0, <2>1, <3>1, WindowDoes DEF WindowSteps
  <2>2. ASSUME NEW q \in Request, (\E g \in Generation : Arrives(q, g)) \/ Ticks(q) \/ Streams(q) \/ Ends(q)
        PROVE  FALSE
    <3>0. request \in [Request -> RequestState]
      BY <2>0, TypeParts DEF RetireTyped
    <3>1. q = r
      BY <2>0, <2>2, <3>0 DEF Arrives, Ticks, Streams, Ends, SetRequest
    <3> QED BY <2>2, <3>1 DEF Arrives, NoRequest, Ticks, Streams, Ends
  <2>3. ASSUME (\E g \in Generation : Boot(g)) \/ RetiresAll PROVE FALSE
    BY <2>0, <2>3, BootLeaves, RetireLeaves DEF Serves
  <2>4. ASSUME NEW g \in Generation, Teardown(g) \/ \E k \in Composition : Opens(g, k) PROVE FALSE
    BY <2>0, <2>4, TeardownDoes DEF Opens
  <2> QED BY <2>1, <2>2, <2>3, <2>4 DEF Next
<1>2. [Drained]_vars => [\A r \in Request :
            request[r].at = "ticking" /\ request'[r].at = "done" =>
                running'[request[r].gen] \subseteq ticker'[request[r].gen].undrained]_vars
  BY DEF Drained
<1> HIDE DEF Drained
<1> QED BY <1>1, <1>2, RuntimeInvariant, PTL DEF Spec, DrainedBeforeAnswer

-----------------------------------------------------------------------------
(***************************************************************************)
(* Nothing of the hand-over waits for ever: the safety part of             *)
(* RetirementCompletes.  Streams of a retired generation are ending, a     *)
(* tick waits for a window under way, the window of a retired generation   *)
(* is not held open, and a boot awaits only what is retiring.              *)
(***************************************************************************)
StreamsEnd == \A r \in Request :
    request[r].at = "stream" => request[r].gen \in Generation /\ ~Retired(request[r].gen)
TicksHold == \A r \in Request :
    request[r].at = "ticking" => request[r].gen \in Generation /\ ticker[request[r].gen].at # "idle"
WindowsClose == \A g \in Generation : ticker[g].closed => ticker[g].at # "open"
\* A boot that awaits retirements awaits nothing that still serves.
BootCanGoOn == \A g \in Generation : \A h \in waits[g] \ {g} : Retired(h)
PoolsCloseLast == \A g \in Generation :
    provider[g] = "disposed" => stage[g] = "released" \/ (stage[g] = "disposing" /\ left[g] = 0)

GoesOn == StreamsEnd /\ TicksHold /\ WindowsClose /\ BootCanGoOn /\ PoolsCloseLast

\* What a retirement under way can do next: the guard of one of its steps.
RequestCanEnd(g) == \E r \in Active(g) : request[r].at \in {"handling", "ending"}
WindowCanGoOn(g) ==
    LET t == ticker[g]
    IN  \/ t.at = "starting" /\ t.closed
        \/ t.at = "stopping" /\ t.started = {}
        \/ t.at = "stopping" /\ \E k \in t.started : \A j \in t.started : j <= k
TeardownCanGoOn(g) ==
    \/ stage[g] = "draining" /\ Active(g) = {} /\ IsClosed(g)
    \/ stage[g] = "quiescing"
    \/ /\ stage[g] = "disposing" /\ left[g] > 0
       /\ \/ Disposer(left[g]) = Modules + 2
          \/ Disposer(left[g]) - 1 \in Composition
          \/ Disposer(left[g]) = 1 /\ provider[g] \in {"ready", "disposing"}
    \/ stage[g] = "disposing" /\ left[g] = 0

RetirementCanGoOn == \A g \in Generation :
    Retired(g) /\ stage[g] # "released" =>
        RequestCanEnd(g) \/ WindowCanGoOn(g) \/ TeardownCanGoOn(g)

\* A non-empty set of the numbers up to a bound has a greatest: the one whose
\* distance from the bound is least.
Below == {p \in Nat \X Nat : p[1] < p[2]}

LEMMA GreatestOf ==
    ASSUME NEW n \in Nat, NEW S \in SUBSET (1 .. n), S # {}
    PROVE  \E k \in S : \A j \in S : j <= k
<1> DEFINE D == {n - j : j \in S}
<1>1. IsWellFoundedOn(Below, Nat)
  BY NatLessThanWellFounded DEF OpToRel, Below
<1>2. D \in SUBSET Nat /\ D # {}
  <2>1. \A j \in S : n - j \in Nat
    OBVIOUS
  <2>2. PICK j \in S : TRUE
    OBVIOUS
  <2>3. n - j \in D
    OBVIOUS
  <2> QED BY <2>1, <2>3
<1>3. PICK d \in D : \A e \in D : ~(<<e, d>> \in Below)
  <2> HIDE DEF D
  <2> QED BY <1>1, <1>2, WFMin
<1>4. PICK k \in S : d = n - k
  OBVIOUS
<1>5. ASSUME NEW j \in S PROVE j <= k
  <2>1. n - j \in D /\ n - j \in Nat /\ d \in Nat
    BY <1>2
  <2>2. ~(n - j < d)
    BY <1>3, <2>1 DEF Below
  <2> HIDE DEF D
  <2> QED BY <1>4, <2>2
<1> QED BY <1>5

LEMMA GoesOnInit == Init => GoesOn
<1> SUFFICES ASSUME Init PROVE GoesOn
  OBVIOUS
<1>1. StreamsEnd /\ TicksHold
  BY DEF Init, NoRequest, StreamsEnd, TicksHold
<1>2. WindowsClose
  BY DEF Init, TickerInit, Idle, WindowsClose
<1>3. BootCanGoOn /\ PoolsCloseLast
  BY DEF Init, LeaseInit, BootCanGoOn, PoolsCloseLast
<1> QED BY <1>1, <1>2, <1>3 DEF GoesOn

\* retire() ends the streams and the open window of what it retires.
LEMMA RetireGoesOn ==
    ASSUME TypeOK, StreamsEnd, TicksHold, WindowsClose, NEW G, Retire(G)
    PROVE  StreamsEnd' /\ TicksHold' /\ WindowsClose'
<1> DEFINE R == {g \in G : ~Retired(g)}
<1>1. stage' = [g \in Generation |-> IF g \in R THEN "draining" ELSE stage[g]]
  BY DEF Retire
<1>2. ticker' = [g \in Generation |-> IF g \in R THEN [ticker[g] EXCEPT !.closed = TRUE,
                      !.at = IF ticker[g].at = "open" THEN "stopping" ELSE ticker[g].at] ELSE ticker[g]]
  BY DEF Retire, Closed
<1>3. request' = [r \in Request |-> IF request[r].gen \in R /\ request[r].at = "stream"
                                      THEN [request[r] EXCEPT !.at = "ending"] ELSE request[r]]
  BY DEF Retire
<1>4. ticker \in [Generation -> TickerState] /\ request \in [Request -> RequestState]
  BY TypeParts DEF RetireTyped
<1>5. StreamsEnd'
  <2> SUFFICES ASSUME NEW r \in Request, request'[r].at = "stream"
               PROVE  request'[r].gen \in Generation /\ stage'[request'[r].gen] = "serving"
    BY DEF StreamsEnd, Retired
  <2>1. request[r] \in RequestState
    BY <1>4
  <2>2. request'[r] = request[r] /\ request[r].gen \notin R
    <3> HIDE DEF R
    <3> QED BY <1>3, <2>1 DEF RequestState
  <2>3. request[r].gen \in Generation /\ ~Retired(request[r].gen)
    BY <2>2 DEF StreamsEnd
  <2> HIDE DEF R
  <2> QED BY <1>1, <2>2, <2>3 DEF Retired
<1>6. TicksHold'
  BY RetireDoes DEF TicksHold
<1>7. WindowsClose'
  <2> SUFFICES ASSUME NEW g \in Generation, ticker'[g].closed PROVE ticker'[g].at # "open"
    BY DEF WindowsClose
  <2>1. ticker[g] \in TickerState
    BY <1>4
  <2> HIDE DEF R
  <2>2. CASE g \in R
    <3>1. ticker'[g] = [ticker[g] EXCEPT !.closed = TRUE,
                          !.at = IF ticker[g].at = "open" THEN "stopping" ELSE ticker[g].at]
      BY <1>2, <2>2
    <3> QED BY <2>1, <3>1 DEF TickerState
  <2>3. CASE g \notin R
    BY <1>2, <2>3 DEF WindowsClose
  <2> QED BY <2>2, <2>3
<1> QED BY <1>5, <1>6, <1>7

\* A retired generation stays retired, and only retire() retires one.
LEMMA StaysRetired ==
    ASSUME TypeOK, Serves, [Next]_vars, NEW g \in Generation, Retired(g)
    PROVE  Retired(g)'
<1>1. ASSUME (\E h \in Generation : Boot(h)) \/ RetiresAll PROVE Retired(g)'
  BY <1>1, BootLeaves, RetireLeaves DEF Serves
<1>2. ASSUME NEW h \in Generation, Teardown(h) PROVE Retired(g)'
  BY <1>2, TeardownDoes DEF Retired, Torn
<1>3. CASE UNCHANGED stage
  BY <1>3 DEF Retired
<1>4. ASSUME NEW h \in Generation, WindowSteps(h) \/ \E k \in Composition : Opens(h, k)
      PROVE  UNCHANGED stage
  BY <1>4 DEF WindowSteps, Opens, runtime
<1>5. ASSUME NEW r \in Request, (\E h \in Generation : Arrives(r, h)) \/ Ticks(r) \/ Streams(r) \/ Ends(r)
      PROVE  UNCHANGED stage
  BY <1>5 DEF Arrives, Ticks, Streams, Ends, runtime
<1>6. CASE UNCHANGED vars
  BY <1>3, <1>6 DEF vars, lifecycle
<1> QED BY <1>1, <1>2, <1>3, <1>4, <1>5, <1>6 DEF Next

LEMMA BootGoesOn ==
    ASSUME TypeOK, Serves, Next, GoesOn, (\E g \in Generation : Boot(g)) \/ RetiresAll
    PROVE  GoesOn'
<1>1. (\E G : Retire(G)) \/ UNCHANGED <<stage, ticker, request>>
  BY BootLeaves
<1>2. StreamsEnd' /\ TicksHold' /\ WindowsClose'
  <2>1. CASE UNCHANGED <<stage, ticker, request>>
    BY <2>1 DEF GoesOn, StreamsEnd, TicksHold, WindowsClose, Retired
  <2> QED BY <1>1, <2>1, RetireGoesOn DEF GoesOn
<1>3. BootCanGoOn'
  <2> SUFFICES ASSUME NEW g \in Generation, NEW h \in waits'[g] \ {g} PROVE Retired(h)'
    BY DEF BootCanGoOn
  <2>1. waits \in [Generation -> SUBSET Generation] /\ Listening \subseteq Generation
    BY TypeParts DEF BootTyped, Listening
  <2>2. CASE h \in waits[g] \ {g}
    BY <2>1, <2>2, StaysRetired DEF GoesOn, BootCanGoOn
  <2>3. CASE h \notin waits[g] \ {g}
    <3>1. PICK f \in Generation : Activates(f)
      BY <2>3 DEF Boot, Composes, PreparationRaises, RetirementsDone, RetirementRejects,
              StartsWorker, BootEnds, RetiresAll, progress
    <3>2. waits'[g] = IF g = f THEN Awaited(f) ELSE waits[g]
      BY <2>1, <3>1 DEF Activates
    <3>3. h \in Listening /\ h \in Generation
      BY <2>1, <2>3, <3>2 DEF Awaited
    <3>4. Retire(Listening)
      BY <3>1 DEF Activates
    <3> QED BY <3>3, <3>4, RetireDoes DEF Retired
  <2> QED BY <2>2, <2>3
<1>4. PoolsCloseLast'
  <2>1. UNCHANGED <<provider, left>>
    BY DEF Boot, Composes, PreparationRaises, Activates, RetirementsDone, RetirementRejects,
           StartsWorker, BootEnds, RetiresAll, leases, progress
  <2>2. \A g \in Generation : stage[g] \in Torn => stage'[g] = stage[g]
    BY <1>1, RetireLeaves DEF Serves
  <2> QED BY <2>1, <2>2 DEF GoesOn, PoolsCloseLast, Torn
<1> QED BY <1>2, <1>3, <1>4 DEF GoesOn

\* A window that is closed does not open, and it ends with its requests.
LEMMA WindowGoesOn ==
    ASSUME TypeOK, Serves, GoesOn, NEW g \in Generation, WindowSteps(g)
    PROVE  GoesOn'
<1>1. UNCHANGED <<provider, waits, left, stage>> /\ Window(g)
  BY DEF WindowSteps, runtime, leases, progress
<1>2. /\ ticker \in [Generation -> TickerState] /\ request \in [Request -> RequestState]
      /\ ticker[g] \in TickerState
  BY TypeParts DEF RetireTyped
<1>3. \A h \in Generation \ {g} : ticker'[h] = ticker[h]
  BY <1>1, WindowDoes
<1>4. WindowsClose'
  <2>1. ticker'[g].closed => ticker'[g].at # "open"
    <3>1. CASE StartsNext(g)
      <4>1. ~ticker[g].closed
        BY <3>1 DEF StartsNext
      <4> QED BY <1>1, <4>1, WindowDoes
    <3>2. CASE Started(g)
      BY <1>2, <3>2 DEF Started, SetTicker, TickerState
    <3>3. CASE WindowEnds(g)
      BY <1>2, <3>3 DEF WindowEnds, SetTicker, TickerState
    <3>4. CASE StopsNext(g)
      <4>0. ASSUME NEW t, SetTicker(g, t) PROVE ticker'[g] = t
        BY <1>2, <4>0 DEF SetTicker
      <4>1. PICK k : \/ ticker'[g] = [ticker[g] EXCEPT !.started = ticker[g].started \ {k}]
                     \/ ticker'[g] = [ticker[g] EXCEPT !.started = ticker[g].started \ {k},
                                                       !.undrained = ticker[g].undrained \cup {k}]
        BY <3>4, <4>0 DEF StopsNext
      <4>2. ticker'[g].at = ticker[g].at
        BY <1>2, <4>1 DEF TickerState
      <4>3. ticker[g].at = "stopping"
        BY <3>4 DEF StopsNext
      <4> QED BY <4>2, <4>3
    <3>5. CASE Answers(g)
      BY <1>2, <3>5 DEF Answers, SetTicker, TickerState, Idle
    <3> QED BY <1>1, <3>1, <3>2, <3>3, <3>4, <3>5 DEF Window
  <2> QED BY <1>3, <2>1 DEF GoesOn, WindowsClose
<1>5. StreamsEnd'
  <2> SUFFICES ASSUME NEW r \in Request, request'[r].at = "stream"
               PROVE  request'[r].gen \in Generation /\ stage'[request'[r].gen] = "serving"
    BY DEF StreamsEnd, Retired
  <2>1. request'[r] = request[r]
    BY WindowStepsDo
  <2> QED BY <1>1, <2>1 DEF GoesOn, StreamsEnd, Retired
<1>6. TicksHold'
  <2> SUFFICES ASSUME NEW r \in Request, request'[r].at = "ticking"
               PROVE  request'[r].gen \in Generation /\ ticker'[request'[r].gen].at # "idle"
    BY DEF TicksHold
  <2>1. request'[r] = request[r]
    BY WindowStepsDo
  <2>2. request[r].gen \in Generation /\ ticker[request[r].gen].at # "idle"
    BY <2>1 DEF GoesOn, TicksHold
  <2>3. ASSUME request[r].gen = g, ticker'[g].at = "idle" PROVE FALSE
    <3>1. ticker[g].at = "stopping"
      BY <1>1, <2>3, WindowDoes
    <3>2. request'[r] = IF request[r] = [gen |-> g, at |-> "ticking"]
                          THEN [gen |-> 0, at |-> "done"] ELSE request[r]
      BY <2>3, <3>1 DEF WindowSteps
    <3>3. request[r] = [gen |-> g, at |-> "ticking"]
      BY <1>2, <2>1, <2>3 DEF RequestState
    <3> QED BY <3>2, <3>3
  <2> QED BY <1>3, <2>1, <2>2, <2>3
<1>7. BootCanGoOn' /\ PoolsCloseLast'
  BY <1>1 DEF GoesOn, BootCanGoOn, PoolsCloseLast, Retired
<1> QED BY <1>4, <1>5, <1>6, <1>7 DEF GoesOn

\* A stream that is answered late is ended, and a tick is held by its window.
LEMMA RequestGoesOn ==
    ASSUME TypeOK, Serves, GoesOn, NEW r \in Request,
           (\E g \in Generation : Arrives(r, g)) \/ Ticks(r) \/ Streams(r) \/ Ends(r)
    PROVE  GoesOn'
<1>0. /\ ticker \in [Generation -> TickerState] /\ request \in [Request -> RequestState]
      /\ 0 \notin Generation /\ \A n \in 0 .. Generations : n = 0 \/ n \in Generation
  BY TickerAssumption, TypeParts DEF RetireTyped, Generation
<1>1. UNCHANGED <<provider, waits, left, stage>>
  BY DEF Arrives, Ticks, Streams, Ends, runtime, leases, progress
<1>2. ASSUME NEW h, NEW a, SetRequest(r, h, a)
      PROVE  /\ \A q \in Request \ {r} : request'[q] = request[q]
             /\ request'[r].gen = h /\ request'[r].at = a
  BY <1>0, <1>2 DEF SetRequest
<1>3. BootCanGoOn' /\ PoolsCloseLast'
  BY <1>1 DEF GoesOn, BootCanGoOn, PoolsCloseLast, Retired
<1>4. CASE \E g \in Generation : Arrives(r, g)
  <2>1. PICK g \in Generation : SetRequest(r, g, "handling") /\ UNCHANGED ticker
    BY <1>4 DEF Arrives
  <2> QED BY <1>1, <1>2, <1>3, <2>1 DEF GoesOn, StreamsEnd, TicksHold, WindowsClose, Retired
<1> DEFINE g == request[r].gen
<1>5. request[r].at \in {"handling", "stream", "ending"} => g \in Generation
  BY <1>0 DEF Serves, RequestIsServed, RequestState
<1>6. CASE Ends(r) \/ (Ticks(r) /\ SetRequest(r, 0, "done"))
  <2>1. SetRequest(r, 0, "done") /\ UNCHANGED ticker
    <3>1. CASE Ends(r)
      BY <3>1 DEF Ends
    <3>2. ASSUME Ticks(r), SetRequest(r, 0, "done") PROVE UNCHANGED ticker
      <4>1. ~SetRequest(r, g, "ticking")
        BY <1>2, <3>2
      <4> QED BY <3>2, <4>1 DEF Ticks
    <3> QED BY <1>6, <3>1, <3>2
  <2> QED BY <1>1, <1>2, <1>3, <2>1 DEF GoesOn, StreamsEnd, TicksHold, WindowsClose, Retired
<1>7. CASE Streams(r)
  <2>1. SetRequest(r, g, StreamState(g)) /\ UNCHANGED ticker /\ g \in Generation
    BY <1>5, <1>7 DEF Streams
  <2>2. StreamState(g) \in {"stream", "ending"} /\ (StreamState(g) = "stream" => ~Retired(g))
    BY DEF StreamState
  <2> HIDE DEF g
  <2> QED BY <1>1, <1>2, <1>3, <2>1, <2>2 DEF GoesOn, StreamsEnd, TicksHold, WindowsClose, Retired
<1>8. CASE Ticks(r) /\ SetRequest(r, g, "ticking")
  <2>1. g \in Generation /\ role = "tick" /\ boot[g] = "up"
    BY <1>5, <1>8 DEF Ticks, Serves, RequestIsServed
  <2>2. BeginsWindow(g) \/ (ticker[g].at # "idle" /\ UNCHANGED ticker)
    <3>1. ~SetRequest(r, 0, "done")
      BY <1>2, <1>8
    <3> QED BY <1>8, <3>1 DEF Ticks
  <2> HIDE DEF g
  <2>3. \A h \in Generation : ticker'[h].at = "idle" => ticker[h].at = "idle" /\ h # g
    <3>1. CASE BeginsWindow(g)
      BY <1>0, <2>1, <3>1 DEF BeginsWindow, SetTicker, TickerState
    <3> QED BY <2>2, <3>1
  <2>4. WindowsClose'
    <3>1. CASE BeginsWindow(g)
      BY <1>0, <2>1, <3>1 DEF BeginsWindow, SetTicker, TickerState, GoesOn, WindowsClose
    <3> QED BY <2>2, <3>1 DEF GoesOn, WindowsClose
  <2> QED BY <1>1, <1>2, <1>3, <1>8, <2>1, <2>3, <2>4 DEF GoesOn, StreamsEnd, TicksHold, Retired
<1>9. Ticks(r) => SetRequest(r, g, "ticking") \/ SetRequest(r, 0, "done")
  BY DEF Ticks
<1> QED BY <1>4, <1>6, <1>7, <1>8, <1>9

LEMMA TeardownGoesOn ==
    ASSUME TypeOK, Serves, Next, GoesOn, NEW g \in Generation, Teardown(g)
    PROVE  GoesOn'
<1>0. /\ stage \in [Generation -> {"serving", "draining", "quiescing", "disposing", "released"}]
      /\ left \in [Generation -> 0 .. Modules + 2]
      /\ provider \in [Generation -> {"ready", "disposing", "disposed"}] /\ Modules \in Nat \ {0}
  BY TypeParts, TickerAssumption DEF RetireTyped, RestTyped, LeaseTypeOK
<1>1. /\ UNCHANGED <<request, ticker, waits>>
      /\ \A h \in Generation \ {g} : stage'[h] = stage[h] /\ left'[h] = left[h]
      /\ stage[g] # "serving" /\ stage'[g] # "serving"
  BY TeardownDoes DEF Torn, Teardown, Finishes, Quiesces, QuiescesDone, StopsListening,
     DisposesComposition, DisposesDatabases, Releases, SetTeardown
<1>2. StreamsEnd' /\ TicksHold' /\ WindowsClose'
  BY <1>1 DEF GoesOn, StreamsEnd, TicksHold, WindowsClose, Retired
<1>3. BootCanGoOn'
  <2>1. \A h \in Generation : Retired(h) => Retired(h)'
    BY StaysRetired
  <2>2. waits \in [Generation -> SUBSET Generation]
    BY TypeParts DEF BootTyped
  <2> QED BY <1>1, <2>1, <2>2 DEF GoesOn, BootCanGoOn
<1>4. \A h \in Generation \ {g} : provider'[h] = provider[h]
  BY <1>0 DEF Teardown, Finishes, Quiesces, QuiescesDone, StopsListening, DisposesComposition,
     DisposesDatabases, Releases, DisposesModule, DisposeRaises, DisposesProvider, ClosesPools, leases
<1>5. provider'[g] = "disposed" => stage'[g] = "released" \/ (stage'[g] = "disposing" /\ left'[g] = 0)
  <2>0. ASSUME NEW s, NEW n, SetTeardown(g, s, n) PROVE stage'[g] = s /\ left'[g] = n
    BY <1>0, <2>0 DEF SetTeardown
  <2>1. provider[g] = "disposed" => stage[g] = "released" \/ (stage[g] = "disposing" /\ left[g] = 0)
    BY DEF GoesOn, PoolsCloseLast
  <2>2. CASE Finishes(g) \/ Quiesces(g) \/ QuiescesDone(g)
    BY <2>1, <2>2 DEF Finishes, Quiesces, QuiescesDone, leases
  <2>3. CASE StopsListening(g) \/ DisposesComposition(g)
    BY <1>0, <2>1, <2>3 DEF StopsListening, DisposesComposition, DisposesModule, DisposeRaises, leases
  <2>4. CASE DisposesDatabases(g)
    <3>1. left[g] = 1 /\ stage[g] = "disposing"
      BY <2>4 DEF DisposesDatabases, Disposer
    <3>2. CASE DisposesProvider(g)
      BY <1>0, <3>2 DEF DisposesProvider
    <3>3. CASE ~DisposesProvider(g)
      <4>1. SetTeardown(g, "disposing", left[g] - 1)
        BY <2>4, <3>3 DEF DisposesDatabases
      <4> QED BY <2>0, <3>1, <4>1
    <3> QED BY <3>2, <3>3
  <2>5. CASE Releases(g)
    BY <2>0, <2>5 DEF Releases
  <2> QED BY <2>2, <2>3, <2>4, <2>5 DEF Teardown
<1>6. PoolsCloseLast'
  BY <1>1, <1>4, <1>5 DEF GoesOn, PoolsCloseLast
<1> QED BY <1>2, <1>3, <1>6 DEF GoesOn

LEMMA GoesOnNext == ASSUME TypeOK, Serves, GoesOn, [Next]_vars PROVE GoesOn'
<1>1. CASE UNCHANGED vars
  BY <1>1 DEF vars, lifecycle, leases, GoesOn, StreamsEnd, TicksHold, WindowsClose, BootCanGoOn,
              PoolsCloseLast, Retired
<1>2. ASSUME NEW g \in Generation, NEW k \in Composition, Opens(g, k) PROVE GoesOn'
  BY <1>2 DEF Opens, Acquires, runtime, progress, GoesOn, StreamsEnd, TicksHold, WindowsClose,
              BootCanGoOn, PoolsCloseLast, Retired
<1> QED BY <1>1, <1>2, BootGoesOn, WindowGoesOn, RequestGoesOn, TeardownGoesOn DEF Next

LEMMA RuntimeGoesOn == Spec => []GoesOn
<1>1. IInv /\ GoesOn /\ [Next]_vars => GoesOn'
  BY GoesOnNext DEF IInv
<1> QED BY <1>1, GoesOnInit, RuntimeInvariant, PTL DEF Spec

\* A retirement that is not over can always take a step of its own: a request
\* that may end, a window that may drain, or the teardown (finish() of
\* lifecycle.ts).  No request, stream or window it waits for waits for it.
THEOREM RetirementsNeverStall == Spec => []RetirementCanGoOn
<1>1. IInv /\ GoesOn => RetirementCanGoOn
  <2> SUFFICES ASSUME IInv, GoesOn, NEW g \in Generation, Retired(g), stage[g] # "released",
                      ~RequestCanEnd(g), ~WindowCanGoOn(g)
               PROVE  TeardownCanGoOn(g)
    BY DEF RetirementCanGoOn
  <2>0. /\ stage[g] \in {"serving", "draining", "quiescing", "disposing", "released"}
        /\ left[g] \in 0 .. Modules + 2 /\ Modules \in Nat \ {0}
        /\ provider[g] \in {"ready", "disposing", "disposed"}
        /\ ticker[g] \in TickerState /\ request \in [Request -> RequestState]
    BY TypeParts, TickerAssumption DEF IInv, RetireTyped, RestTyped, LeaseTypeOK
  <2>1. ticker[g].closed
    BY DEF IInv, Serves, ClosedWhenRetired
  <2>2. ticker[g].at = "idle"
    <3>1. ticker[g].at \in {"idle", "starting", "open", "stopping"} /\ ticker[g].at # "open"
      BY <2>0, <2>1 DEF TickerState, GoesOn, WindowsClose
    <3>2. ASSUME ticker[g].at = "stopping", ticker[g].started # {} PROVE FALSE
      <4>1. ticker[g].started \subseteq 1 .. Modules
        BY <2>0 DEF TickerState, Composition
      <4>2. \E k \in ticker[g].started : \A j \in ticker[g].started : j <= k
        BY <2>0, <3>2, <4>1, GreatestOf
      <4> QED BY <3>2, <4>2 DEF WindowCanGoOn
    <3> QED BY <2>1, <3>1, <3>2 DEF WindowCanGoOn
  <2>3. Active(g) = {}
    <3> SUFFICES ASSUME NEW r \in Active(g) PROVE FALSE
      OBVIOUS
    <3>1. r \in Request /\ request[r].gen = g /\ 0 # g
      BY DEF Active, Generation
    <3>2. request[r].at \in {"none", "handling", "ticking", "stream", "ending", "done"}
      BY <2>0, <3>1 DEF RequestState
    <3>3. request[r].at \notin {"none", "done"}
      BY <3>1 DEF IInv, Serves, RequestIsServed
    <3>4. request[r].at # "stream" /\ request[r].at # "ticking"
      BY <2>2, <3>1 DEF GoesOn, StreamsEnd, TicksHold
    <3> QED BY <3>2, <3>3, <3>4 DEF RequestCanEnd
  <2>4. CASE stage[g] = "draining"
    BY <2>1, <2>2, <2>3, <2>4 DEF TeardownCanGoOn, IsClosed
  <2>5. CASE stage[g] = "quiescing"
    BY <2>0, <2>5 DEF TeardownCanGoOn
  <2>6. CASE stage[g] = "disposing"
    <3>1. left[g] = 1 => provider[g] \in {"ready", "disposing"}
      BY <2>0, <2>6 DEF GoesOn, PoolsCloseLast
    <3>2. left[g] = 0 \/ left[g] = 1 \/ left[g] - 1 \in 1 .. Modules \/ left[g] = Modules + 2
      BY <2>0
    <3> QED BY <2>0, <2>6, <3>1, <3>2 DEF TeardownCanGoOn, Disposer, Composition
  <2> QED BY <2>0, <2>4, <2>5, <2>6 DEF Retired
<1> QED BY <1>1, RuntimeInvariant, RuntimeGoesOn, PTL

\* A boot that awaits retirements awaits only generations that have retired
\* (activatePlatformRuntimeLifecycle()), whose retirement can always go on.
THEOREM BootsNeverStall == Spec => []BootCanGoOn
<1>1. GoesOn => BootCanGoOn
  BY DEF GoesOn
<1> QED BY <1>1, RuntimeGoesOn, PTL

-----------------------------------------------------------------------------
(***************************************************************************)
(* What a retirement has left to do: its requests, its window, the steps   *)
(* of its teardown.                                                        *)
(***************************************************************************)
RequestLeft(r) == IF request[r].at = "handling" THEN 2 ELSE 1
WindowLeft(g) ==
    IF ticker[g].at = "idle" THEN 0 ELSE IF ticker[g].at = "stopping" THEN 1 ELSE 2
DisposalLeft(n, p) == 2 * n + (IF p = "ready" THEN 2 ELSE 1)
TeardownLeft(g) ==
    IF stage[g] = "released" THEN 0
    ELSE IF stage[g] = "disposing" THEN DisposalLeft(left[g], provider[g])
    ELSE IF stage[g] = "quiescing" THEN left[g] + 1 + DisposalLeft(Modules + 2, "ready")
    ELSE Modules + 2 + DisposalLeft(Modules + 2, "ready")

\* Nothing adds to what the requests, the window and the teardown of g have left...
NothingAdds(g) ==
    /\ Active(g)' \subseteq Active(g)
    /\ \A r \in Active(g)' : RequestLeft(r)' <= RequestLeft(r)
    /\ WindowLeft(g)' <= WindowLeft(g)
    /\ ticker'[g].started \subseteq ticker[g].started
    /\ TeardownLeft(g)' <= TeardownLeft(g)
\* ... and each of their steps takes from it.
StepsSpend(g) ==
    /\ \A r \in Active(g) : Ticks(r) \/ Streams(r) \/ Ends(r) =>
           r \notin Active(g)' \/ RequestLeft(r)' < RequestLeft(r)
    /\ WindowSteps(g) =>
           WindowLeft(g)' < WindowLeft(g) \/ ticker'[g].started # ticker[g].started
    /\ Teardown(g) => TeardownLeft(g)' < TeardownLeft(g)

RetirementIsSpent == [][\A g \in Generation :
    Retired(g) => Retired(g)' /\ NothingAdds(g) /\ StepsSpend(g)]_vars

\* What the teardown of g has left, and that its window and requests are over.
LEMMA TeardownSpends ==
    ASSUME TypeOK, Serves, NEW g \in Generation, Teardown(g)
    PROVE  /\ TeardownLeft(g)' < TeardownLeft(g) /\ TeardownLeft(g)' <= TeardownLeft(g)
           /\ \A h \in Generation \ {g} : TeardownLeft(h)' = TeardownLeft(h)
<1>0. /\ stage \in [Generation -> {"serving", "draining", "quiescing", "disposing", "released"}]
      /\ left \in [Generation -> 0 .. Modules + 2]
      /\ provider \in [Generation -> {"ready", "disposing", "disposed"}] /\ Modules \in Nat \ {0}
      /\ left[g] \in 0 .. Modules + 2
  BY TypeParts, TickerAssumption DEF RetireTyped, RestTyped, LeaseTypeOK
<1>1. \A h \in Generation \ {g} : stage'[h] = stage[h] /\ left'[h] = left[h]
  BY TeardownDoes
<1>2. \A h \in Generation \ {g} : provider'[h] = provider[h]
  BY <1>0 DEF Teardown, Finishes, Quiesces, QuiescesDone, StopsListening, DisposesComposition,
     DisposesDatabases, Releases, DisposesModule, DisposeRaises, DisposesProvider, ClosesPools, leases
<1>3. \A h \in Generation \ {g} : TeardownLeft(h)' = TeardownLeft(h)
  BY <1>1, <1>2 DEF TeardownLeft
<1>4. ASSUME NEW s, NEW n, SetTeardown(g, s, n) PROVE stage'[g] = s /\ left'[g] = n
  BY <1>0, <1>4 DEF SetTeardown
<1>5. CASE Finishes(g)
  <2>1. stage[g] = "draining" /\ stage'[g] = "quiescing" /\ left'[g] = Modules
    BY <1>4, <1>5 DEF Finishes
  <2> QED BY <1>0, <1>3, <2>1 DEF TeardownLeft, DisposalLeft
<1>6. CASE Quiesces(g)
  <2>1. stage[g] = "quiescing" /\ stage'[g] = "quiescing" /\ left'[g] = left[g] - 1
    BY <1>4, <1>6 DEF Quiesces
  <2> QED BY <1>0, <1>3, <2>1 DEF TeardownLeft, DisposalLeft
<1>7. CASE QuiescesDone(g)
  <2>1. stage[g] = "quiescing" /\ stage'[g] = "disposing" /\ left'[g] = Modules + 2 /\ left[g] = 0
    BY <1>4, <1>7 DEF QuiescesDone
  <2> QED BY <1>0, <1>3, <2>1 DEF TeardownLeft, DisposalLeft
<1>8. CASE StopsListening(g) \/ DisposesComposition(g)
  <2>1. stage[g] = "disposing" /\ stage'[g] = "disposing" /\ left'[g] = left[g] - 1
    BY <1>4, <1>8 DEF StopsListening, DisposesComposition
  <2>2. provider' = provider
    BY <1>8 DEF StopsListening, DisposesComposition, DisposesModule, DisposeRaises, leases
  <2> QED BY <1>0, <1>3, <2>1, <2>2 DEF TeardownLeft, DisposalLeft
<1>9. CASE DisposesDatabases(g)
  <2>1. stage[g] = "disposing" /\ stage'[g] = "disposing"
    BY <1>4, <1>9 DEF DisposesDatabases
  <2>2. \/ left'[g] = left[g] /\ provider[g] = "ready" /\ provider'[g] = "disposing"
        \/ left'[g] = left[g] - 1 /\ provider[g] = "disposing" /\ provider'[g] = "disposed"
    <3>1. CASE DisposesProvider(g) /\ SetTeardown(g, "disposing", left[g])
      BY <1>0, <1>4, <3>1 DEF DisposesProvider
    <3>2. CASE ClosesPools(g) /\ SetTeardown(g, "disposing", left[g] - 1)
      BY <1>0, <1>4, <3>2 DEF ClosesPools
    <3> QED BY <1>9, <3>1, <3>2 DEF DisposesDatabases
  <2> QED BY <1>0, <1>3, <2>1, <2>2 DEF TeardownLeft, DisposalLeft
<1>10. CASE Releases(g)
  <2>1. stage[g] = "disposing" /\ stage'[g] = "released"
    BY <1>4, <1>10 DEF Releases
  <2> QED BY <1>0, <1>3, <2>1 DEF TeardownLeft, DisposalLeft
<1> QED BY <1>5, <1>6, <1>7, <1>8, <1>9, <1>10 DEF Teardown

\* What the other steps leave of the teardown.
LEMMA TeardownStays ==
    ASSUME NEW g \in Generation, UNCHANGED <<stage[g], left[g], provider[g]>>, TypeOK
    PROVE  TeardownLeft(g)' = TeardownLeft(g) /\ TeardownLeft(g) \in Nat
<1>0. /\ left[g] \in 0 .. Modules + 2 /\ Modules \in Nat \ {0}
  BY TypeParts, TickerAssumption DEF RestTyped
<1> QED BY <1>0 DEF TeardownLeft, DisposalLeft

\* What a retired generation's window does when it takes a step.
LEMMA WindowSpends ==
    ASSUME TypeOK, Serves, NEW g \in Generation, Retired(g), WindowSteps(g)
    PROVE  /\ ticker'[g].started \subseteq ticker[g].started
           /\ WindowLeft(g)' <= WindowLeft(g)
           /\ WindowLeft(g)' < WindowLeft(g) \/ ticker'[g].started # ticker[g].started
<1>0. ticker \in [Generation -> TickerState] /\ ticker[g] \in TickerState /\ ticker[g].closed /\ Window(g)
  BY TypeParts DEF RetireTyped, Serves, ClosedWhenRetired, WindowSteps
<1>1. ASSUME NEW t, SetTicker(g, t) PROVE ticker'[g] = t
  BY <1>0, <1>1 DEF SetTicker
<1>2. CASE Started(g)
  <2>1. ticker[g].at = "starting" /\ ticker'[g] = [ticker[g] EXCEPT !.at = "stopping"]
    BY <1>0, <1>1, <1>2 DEF Started
  <2> QED BY <1>0, <2>1 DEF TickerState, WindowLeft
<1>3. CASE WindowEnds(g)
  <2>1. ticker[g].at = "open" /\ ticker'[g] = [ticker[g] EXCEPT !.at = "stopping"]
    BY <1>1, <1>3 DEF WindowEnds
  <2> QED BY <1>0, <2>1 DEF TickerState, WindowLeft
<1>4. CASE StopsNext(g)
  <2>1. PICK k \in ticker[g].started :
            \/ ticker'[g] = [ticker[g] EXCEPT !.started = ticker[g].started \ {k}]
            \/ ticker'[g] = [ticker[g] EXCEPT !.started = ticker[g].started \ {k},
                                              !.undrained = ticker[g].undrained \cup {k}]
    BY <1>1, <1>4 DEF StopsNext
  <2>2. ticker'[g].at = ticker[g].at /\ ticker'[g].started = ticker[g].started \ {k}
    BY <1>0, <2>1 DEF TickerState
  <2>3. WindowLeft(g)' = WindowLeft(g) /\ WindowLeft(g) \in Nat
    BY <2>2 DEF WindowLeft
  <2> QED BY <2>2, <2>3
<1>5. CASE Answers(g)
  <2>1. ticker[g].at = "stopping" /\ ticker'[g] = [Idle EXCEPT !.closed = ticker[g].closed,
                                                                !.undrained = ticker[g].undrained]
    BY <1>1, <1>5 DEF Answers
  <2> QED BY <2>1 DEF Idle, WindowLeft
<1>6. ~StartsNext(g)
  BY <1>0 DEF StartsNext
<1> QED BY <1>0, <1>2, <1>3, <1>4, <1>5, <1>6 DEF Window

LEMMA RetirementSpends ==
    ASSUME TypeOK, Serves, GoesOn, NEW g \in Generation, Retired(g)
    PROVE  StepsSpend(g)
<1>0. /\ ticker \in [Generation -> TickerState] /\ request \in [Request -> RequestState]
      /\ g # 0 /\ ticker[g].closed
  BY TypeParts DEF RetireTyped, Generation, Serves, ClosedWhenRetired
<1>1. ASSUME NEW r \in Active(g), Ticks(r) \/ Streams(r) \/ Ends(r)
      PROVE  r \notin Active(g)' \/ RequestLeft(r)' < RequestLeft(r)
  <2>0. r \in Request /\ request[r].gen = g
    BY DEF Active
  <2>1. ASSUME NEW h, NEW a, SetRequest(r, h, a) PROVE request'[r].gen = h /\ request'[r].at = a
    BY <1>0, <2>0, <2>1 DEF SetRequest
  <2>2. CASE Ends(r)
    BY <1>0, <2>1, <2>2 DEF Ends, Active
  <2>3. CASE Streams(r)
    <3>1. request[r].at = "handling" /\ request'[r].at = "ending"
      BY <2>0, <2>1, <2>3 DEF Streams, StreamState
    <3> QED BY <3>1 DEF RequestLeft
  <2>4. CASE Ticks(r)
    <3>1. request[r].at = "handling" /\ (SetRequest(r, g, "ticking") \/ SetRequest(r, 0, "done"))
      BY <2>0, <2>4 DEF Ticks
    <3>2. CASE SetRequest(r, 0, "done")
      BY <1>0, <2>1, <3>2 DEF Active
    <3>3. CASE SetRequest(r, g, "ticking")
      BY <2>1, <3>1, <3>3 DEF RequestLeft
    <3> QED BY <3>1, <3>2, <3>3
  <2> QED BY <1>1, <2>2, <2>3, <2>4
<1>2. WindowSteps(g) => WindowLeft(g)' < WindowLeft(g) \/ ticker'[g].started # ticker[g].started
  BY WindowSpends
<1>3. Teardown(g) => TeardownLeft(g)' < TeardownLeft(g)
  BY TeardownSpends
<1> QED BY <1>1, <1>2, <1>3 DEF StepsSpend

\* A step that leaves the window and the teardown of g alone, and brings it no
\* request and none of its requests back to its handler.
LEMMA AloneAddsNothing ==
    ASSUME TypeOK, NEW g \in Generation, ticker'[g] = ticker[g],
           UNCHANGED <<stage[g], left[g], provider[g]>>,
           \A r \in Request : request'[r].gen = g =>
               /\ request[r].gen = g
               /\ request'[r].at = "handling" => request[r].at = "handling"
    PROVE  NothingAdds(g)
<1>1. Active(g)' \subseteq Active(g)
  BY DEF Active
<1>2. \A r \in Active(g)' : RequestLeft(r)' <= RequestLeft(r)
  BY DEF Active, RequestLeft
<1>3. WindowLeft(g)' <= WindowLeft(g) /\ ticker'[g].started \subseteq ticker[g].started
  BY DEF WindowLeft
<1>4. TeardownLeft(g)' <= TeardownLeft(g)
  BY TeardownStays
<1> QED BY <1>1, <1>2, <1>3, <1>4 DEF NothingAdds

LEMMA RetirementAddsNothing ==
    ASSUME TypeOK, Serves, GoesOn, Next, NEW g \in Generation, Retired(g)
    PROVE  NothingAdds(g)
<1>0. /\ ticker \in [Generation -> TickerState] /\ request \in [Request -> RequestState]
      /\ g # 0 /\ ticker[g].closed
  BY TypeParts DEF RetireTyped, Generation, Serves, ClosedWhenRetired
<1>1. ASSUME (\E h \in Generation : Boot(h)) \/ RetiresAll PROVE NothingAdds(g)
  <2>1. (\E G : Retire(G)) \/ UNCHANGED <<stage, ticker, request>>
    BY <1>1, BootLeaves
  <2>2. stage'[g] = stage[g] /\ ticker'[g] = ticker[g]
    <3>1. ASSUME NEW G, Retire(G) PROVE stage'[g] = stage[g] /\ ticker'[g] = ticker[g]
      BY <3>1 DEF Retire, Closed
    <3> QED BY <2>1, <3>1
  <2>3. UNCHANGED <<left, provider>>
    BY <1>1 DEF Boot, Composes, PreparationRaises, Activates, RetirementsDone, RetirementRejects,
           StartsWorker, BootEnds, RetiresAll, leases, progress
  <2>4. \A r \in Request : request'[r].gen = request[r].gen
                           /\ (request'[r].at = "handling" <=> request[r].at = "handling")
    BY <2>1, RetireLeaves DEF Serves
  <2> QED BY <2>2, <2>3, <2>4, AloneAddsNothing
<1>2. ASSUME NEW h \in Generation, WindowSteps(h) PROVE NothingAdds(g)
  <2>1. UNCHANGED <<provider, left, stage>> /\ Window(h)
    BY <1>2 DEF WindowSteps, runtime, leases, progress
  <2>2. \A r \in Request : request'[r] = request[r] \/ request'[r].gen = 0
    BY <1>2, WindowStepsDo
  <2>3. CASE h # g
    <3>1. ticker'[g] = ticker[g]
      BY <2>1, <2>3, WindowDoes
    <3> QED BY <1>0, <2>1, <2>2, <3>1, AloneAddsNothing
  <2>4. CASE h = g
    <3>1. Active(g)' \subseteq Active(g) /\ \A r \in Active(g)' : RequestLeft(r)' <= RequestLeft(r)
      <4>1. \A r \in Active(g)' : r \in Request /\ request'[r] = request[r]
        BY <1>0, <2>2 DEF Active
      <4> QED BY <4>1 DEF Active, RequestLeft
    <3>2. TeardownLeft(g)' <= TeardownLeft(g)
      BY <2>1, TeardownStays
    <3> QED BY <1>2, <2>4, <3>1, <3>2, WindowSpends DEF NothingAdds
  <2> QED BY <2>3, <2>4
<1>3. ASSUME NEW h \in Generation, Teardown(h) PROVE NothingAdds(g)
  <2>1. UNCHANGED <<ticker, request>>
    BY <1>3, TeardownDoes
  <2>2. TeardownLeft(g)' <= TeardownLeft(g)
    <3>1. CASE h = g
      BY <1>3, <3>1, TeardownSpends
    <3>2. CASE h # g
      <4>1. TeardownLeft(g)' = TeardownLeft(g)
        BY <1>3, <3>2, TeardownSpends
      <4>2. TeardownLeft(g) \in Nat
        BY TypeParts, TickerAssumption DEF RestTyped, TeardownLeft, DisposalLeft
      <4> QED BY <4>1, <4>2
    <3> QED BY <3>1, <3>2
  <2> QED BY <2>1, <2>2 DEF NothingAdds, Active, RequestLeft, WindowLeft
<1>4. ASSUME NEW h \in Generation, NEW k \in Composition, Opens(h, k) PROVE NothingAdds(g)
  <2>1. UNCHANGED <<ticker, request, stage, left, provider>>
    BY <1>4 DEF Opens, Acquires, runtime, progress
  <2> QED BY <2>1, AloneAddsNothing
<1>5. ASSUME NEW r \in Request, NEW h \in Generation, Arrives(r, h) PROVE NothingAdds(g)
  <2>1. h # g /\ SetRequest(r, h, "handling") /\ UNCHANGED <<ticker, stage, left, provider>>
    BY <1>5 DEF Arrives, Admits, runtime, progress, leases
  <2>2. request' = [request EXCEPT ![r] = [gen |-> h, at |-> "handling"]]
    BY <2>1 DEF SetRequest
  <2>3. \A q \in Request : request'[q].gen = g => request'[q] = request[q]
    BY <1>0, <2>1, <2>2
  <2> QED BY <2>1, <2>3, AloneAddsNothing
<1>6. ASSUME NEW r \in Request, Ticks(r) \/ Streams(r) \/ Ends(r) PROVE NothingAdds(g)
  <2> DEFINE h == request[r].gen
  <2>1. UNCHANGED <<stage, left, provider>>
    BY <1>6 DEF Ticks, Streams, Ends, runtime, progress, leases
  <2>2. PICK n \in {0, h} : \E a : SetRequest(r, n, a) /\ (n # 0 => a # "handling")
    BY <1>6 DEF Ticks, Streams, Ends, StreamState
  <2>3. PICK a : request' = [request EXCEPT ![r] = [gen |-> n, at |-> a]] /\ (n # 0 => a # "handling")
    BY <2>2 DEF SetRequest
  <2>4. ticker'[g] = ticker[g]
    <3>1. UNCHANGED ticker \/ BeginsWindow(h)
      BY <1>6 DEF Ticks, Streams, Ends
    <3>2. CASE BeginsWindow(h)
      <4>1. h # g
        BY <1>0, <3>2 DEF BeginsWindow, Begins
      <4> HIDE DEF h
      <4> QED BY <1>0, <3>2, <4>1 DEF BeginsWindow, SetTicker
    <3> QED BY <3>1, <3>2
  <2>5. \A q \in Request : request'[q].gen = g =>
             /\ request[q].gen = g
             /\ request'[q].at = "handling" => request[q].at = "handling"
    <3> SUFFICES ASSUME NEW q \in Request, request'[q].gen = g
                 PROVE  request[q].gen = g /\ (request'[q].at = "handling" => request[q].at = "handling")
      OBVIOUS
    <3>1. CASE q = r
      <4>1. request'[q].gen = n /\ request'[q].at = a
        BY <1>0, <2>3, <3>1
      <4> QED BY <1>0, <2>2, <2>3, <3>1, <4>1
    <3>2. CASE q # r
      BY <1>0, <2>3, <3>2
    <3> QED BY <3>1, <3>2
  <2> QED BY <2>1, <2>4, <2>5, AloneAddsNothing
<1> QED BY <1>1, <1>2, <1>3, <1>4, <1>5, <1>6 DEF Next

\* A retirement is never undone and comes to an end: nothing, no later boot and
\* no request, adds to what its requests, its window and its teardown have left
\* to do, and each of their steps takes from it (retire() and finish() of
\* lifecycle.ts, run() of worker-tick.ts).
THEOREM RetirementsAreFinite == Spec => RetirementIsSpent
<1> DEFINE Spent == \A g \in Generation :
               Retired(g) => Retired(g)' /\ NothingAdds(g) /\ StepsSpend(g)
<1>1. IInv /\ GoesOn /\ [Next]_vars => [Spent]_vars
  BY StaysRetired, RetirementAddsNothing, RetirementSpends DEF IInv
<1>2. [Spent]_vars => [\A g \in Generation :
          Retired(g) => Retired(g)' /\ NothingAdds(g) /\ StepsSpend(g)]_vars
  BY DEF Spent
<1> HIDE DEF Spent
<1> QED BY <1>1, <1>2, RuntimeInvariant, RuntimeGoesOn, PTL DEF Spec, RetirementIsSpent
=============================================================================
