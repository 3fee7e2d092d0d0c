----------------------------- MODULE WorkerTicker -----------------------------
(***************************************************************************)
(* createWorkerTicker (platform/src/server/worker-tick.ts): on a host that *)
(* freezes between requests, a tick request starts the workers of every    *)
(* module for one window and answers after they have stopped again.        *)
(*                                                                         *)
(* Grain: one action per await of run().  A generation of the platform     *)
(* runtime owns one ticker; PlatformRuntime composes it with the rest.     *)
(***************************************************************************)
EXTENDS Naturals

CONSTANTS
    Generations,  \* evaluations of octane.config.ts, in their order
    Modules       \* module compositions that have a worker, in their order

ASSUME TickerAssumption == {Generations, Modules} \subseteq Nat \ {0}

Generation == 1 .. Generations
Composition == 1 .. Modules

VARIABLES
    ticker,   \* ticker[g]: where run() is, what it starts next and has recorded,
              \* and (observer) the compositions whose stop() left loops
    running   \* running[g]: the compositions whose worker loops are started

Idle == [at |-> "idle", next |-> 1, started |-> {}, undrained |-> {}, closed |-> FALSE]

TickerTypeOK ==
    /\ ticker \in [Generation -> [at : {"idle", "starting", "open", "stopping"},
                                  next : 1 .. Modules + 1, started : SUBSET Composition,
                                  undrained : SUBSET Composition, closed : BOOLEAN]]
    /\ running \in [Generation -> SUBSET Composition]

TickerInit ==
    /\ ticker = [g \in Generation |-> Idle]
    /\ running = [g \in Generation |-> {}]

SetTicker(g, t) == ticker' = [ticker EXCEPT ![g] = t]
SetRunning(g, R) == running' = [running EXCEPT ![g] = R]

\* Whether a tick begins a window; one that finds run() under way joins it, and
\* after close() a tick is answered at once.
Begins(g) == ticker[g].at = "idle" /\ ~ticker[g].closed

BeginsWindow(g) ==
    /\ Begins(g)
    /\ SetTicker(g, [ticker[g] EXCEPT !.at = "starting"])
    /\ UNCHANGED running

\* Mutant: a composition is recorded once its worker has started.
RecordedAfter(t, ok) == IF ok THEN t.started \cup {t.next} ELSE t.started
\* A composition is recorded before its start is awaited.
Recorded(t, ok) == t.started \cup {t.next}

\* The next start of the loop.  One that raises may leave a loop behind.
StartsNext(g) ==
    LET t == ticker[g]
        drained == t.undrained \ {t.next}
    IN  /\ t.at = "starting" /\ t.next <= Modules /\ ~t.closed
        /\ \/ /\ SetRunning(g, running[g] \cup {t.next})
              /\ SetTicker(g, [t EXCEPT !.next = @ + 1, !.started = Recorded(t, TRUE),
                                        !.undrained = drained])
           \/ /\ SetRunning(g, running[g] \cup {t.next}) \/ UNCHANGED running
              /\ SetTicker(g, [t EXCEPT !.at = "stopping", !.started = Recorded(t, FALSE),
                                        !.undrained = drained])

\* The loop has ended, or close() lets it skip what is left: the window opens
\* unless the ticker is closed.
Started(g) ==
    LET t == ticker[g]
    IN  /\ t.at = "starting" /\ (t.next > Modules \/ t.closed)
        /\ SetTicker(g, [t EXCEPT !.at = IF t.closed THEN "stopping" ELSE "open"])
        /\ UNCHANGED running

WindowEnds(g) ==
    /\ ticker[g].at = "open"
    /\ SetTicker(g, [ticker[g] EXCEPT !.at = "stopping"])
    /\ UNCHANGED running

\* stop() of the last recorded composition, with the pass it drains.  What it
\* raises is kept for the answer, with its loops ended or not, and the next one
\* is stopped.
StopsNext(g) ==
    LET t == ticker[g]
    IN  /\ t.at = "stopping" /\ t.started # {}
        /\ \E k \in t.started :
            /\ \A j \in t.started : j <= k
            /\ \/ /\ SetRunning(g, running[g] \ {k})
                  /\ SetTicker(g, [t EXCEPT !.started = @ \ {k}])
               \/ /\ k \in running[g] /\ UNCHANGED running
                  /\ SetTicker(g, [t EXCEPT !.started = @ \ {k}, !.undrained = @ \cup {k}])

\* The report, or the failure: the tick requests are answered.
Answers(g) ==
    LET t == ticker[g]
    IN  /\ t.at = "stopping" /\ t.started = {}
        /\ SetTicker(g, [Idle EXCEPT !.closed = t.closed, !.undrained = t.undrained])
        /\ UNCHANGED running

\* close() of the tickers of G; it settles once the window has drained.
Closed(G) == [g \in Generation |->
    IF g \in G THEN [ticker[g] EXCEPT !.closed = TRUE,
                                      !.at = IF @ = "open" THEN "stopping" ELSE @]
    ELSE ticker[g]]
IsClosed(g) == ticker[g].closed /\ ticker[g].at = "idle"

Window(g) == StartsNext(g) \/ Started(g) \/ WindowEnds(g) \/ StopsNext(g) \/ Answers(g)
=============================================================================
