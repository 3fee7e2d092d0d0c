------------------------------ MODULE JobLoop ------------------------------
(***************************************************************************)
(* The control of a durable job runner, createJobRunner of                 *)
(* packages/server/src/jobs/runner.ts: start, tick, wake, stop, dispose    *)
(* and the promises and timers they leave behind.  What a pass does        *)
(* between its beginning and its end is the module JobPass.                *)
(*                                                                         *)
(* Grain: one action per call and one per promise reaction, since the      *)
(* callers of a runner are themselves promise reactions and may run        *)
(* between any two of them.  A timeout is a task of its own and fires only *)
(* when no reaction is left to run.                                        *)
(***************************************************************************)
EXTENDS Naturals

CONSTANTS
    PassId,     \* identities of passes (of the promises `pending`); recycled
    LoopId,     \* identities of run() activations; recycled
    MaxStops,   \* bound: calls of stop() and quiesce()
    None        \* JavaScript's undefined

ASSUME NoneAssumption == None \notin PassId /\ None \notin LoopId
ASSUME MaxStopsAssumption == MaxStops \in Nat

VARIABLES
    disposed, started, waking,
    generation,   \* the scheduling chain a stop retires
    inFlight,     \* the pass `inFlight` names, or None
    phase,        \* phase[p]: where the pass p is
    loop,         \* loop[l]: where the run() activation l is
    timer,        \* the activation whose timeout the handle `timer` holds, or None
    follow,       \* follow[p]: wake reactions registered on the pass p
    owed,         \* observer: a busy wake() was called and no pass has begun since
    quiet         \* observer: stop() was called and nothing was asked for since

loopVars == <<disposed, started, waking, generation, inFlight, phase, loop, timer,
          follow, owed, quiet>>

(***************************************************************************)
(* A pass is running until its body ends, "ended" until the finally        *)
(* handler of tick() runs, and "cleared" while reactions wait on it.       *)
(***************************************************************************)
Phase == {"none", "running", "ended", "cleared"}
ChainNumber == 0 .. MaxStops + 1

Idle == [at |-> "idle", pass |-> None, chain |-> 0]
AwaitingPass(p, c) == [at |-> "pass", pass |-> p, chain |-> c]
AwaitingTimer(c) == [at |-> "timer", pass |-> None, chain |-> c]
Activation == [at : {"idle", "pass", "timer"}, pass : PassId \cup {None}, chain : ChainNumber]

LoopTypeOK ==
    /\ disposed \in BOOLEAN /\ started \in BOOLEAN /\ waking \in BOOLEAN
    /\ owed \in BOOLEAN /\ quiet \in BOOLEAN
    /\ generation \in ChainNumber
    /\ inFlight \in PassId \cup {None}
    /\ timer \in LoopId \cup {None}
    /\ phase \in [PassId -> Phase]
    /\ loop \in [LoopId -> Activation]
    /\ follow \in [PassId -> Nat]

LoopInit ==
    /\ disposed = FALSE /\ started = FALSE /\ waking = FALSE
    /\ generation = 0
    /\ inFlight = None
    /\ timer = None
    /\ phase = [p \in PassId |-> "none"]
    /\ loop = [l \in LoopId |-> Idle]
    /\ follow = [p \in PassId |-> 0]
    /\ owed = FALSE /\ quiet = TRUE

\* A promise nothing holds any more: its identity can name a new pass.
FreshPass(p) ==
    /\ phase[p] = "none"
    /\ follow[p] = 0
    /\ \A l \in LoopId : loop[l].pass # p

\* Mutant: tick() without "if (inFlight) return inFlight".
TickToAlways(p) ==
    /\ FreshPass(p)
    /\ inFlight' = p
    /\ phase' = [phase EXCEPT ![p] = "running"]
    /\ owed' = FALSE

\* tick() on a runner that is not disposed answers p: the pass in flight, or a
\* new one.
TickTo(p) ==
    \/ /\ inFlight = None
       /\ FreshPass(p)
       /\ inFlight' = p
       /\ phase' = [phase EXCEPT ![p] = "running"]
       /\ owed' = FALSE
    \/ /\ p = inFlight
       /\ UNCHANGED <<inFlight, phase, owed>>

\* run(chain) on the activation l: tick, and wait for the pass it answers.
Run(l, c) ==
    \E p \in PassId :
        /\ TickTo(p)
        /\ loop' = [loop EXCEPT ![l] = AwaitingPass(p, c)]

\* The stop() every stopping call begins with: the handle's timeout is
\* cleared, whichever activation armed it.
Halt ==
    /\ started' = FALSE
    /\ waking' = FALSE
    /\ generation' = generation + 1
    /\ loop' = [l \in LoopId |-> IF l = timer THEN Idle ELSE loop[l]]
    /\ timer' = None
    /\ quiet' = TRUE

(***************************************************************************)
(* The calls.                                                              *)
(***************************************************************************)
Start ==
    /\ ~disposed
    /\ ~started
    /\ started' = TRUE
    /\ quiet' = FALSE
    /\ \E l \in LoopId : loop[l] = Idle /\ Run(l, generation)
    /\ UNCHANGED <<disposed, waking, generation, timer, follow>>

\* tick(), or wake() with no pass in flight.  A tick() that joins the pass in
\* flight, like every call on a disposed runner, changes nothing.
Tick ==
    /\ ~disposed
    /\ inFlight = None
    /\ \E p \in PassId : TickTo(p)
    /\ quiet' = FALSE
    /\ UNCHANGED <<disposed, started, waking, generation, loop, timer, follow>>

\* wake() with a pass in flight: every wake until the reaction runs coalesces,
\* whichever pass it waits on.  In the gap before the reaction of an ended pass,
\* which will reset the flag and only join the pass in flight, a wake is owed none.
WakeBusy ==
    /\ ~disposed
    /\ inFlight # None
    /\ owed' = (owed \/ ~\E p \in PassId : phase[p] = "cleared" /\ follow[p] > 0)
    /\ quiet' = FALSE
    /\ waking' = TRUE
    /\ follow' = IF waking THEN follow
                           ELSE [follow EXCEPT ![inFlight] = @ + 1]
    /\ UNCHANGED <<disposed, started, generation, inFlight, phase, loop, timer>>

\* stop(), and the synchronous part of quiesce().
Stop ==
    /\ generation < MaxStops
    /\ Halt
    /\ UNCHANGED <<disposed, inFlight, phase, follow, owed>>

Dispose ==
    /\ ~disposed
    /\ Halt
    /\ disposed' = TRUE
    /\ UNCHANGED <<inFlight, phase, follow, owed>>

(***************************************************************************)
(* The reactions and the timeout.                                          *)
(***************************************************************************)
\* The body of pass() returns; the promise `pending` is not settled yet.
PassEnds(p) ==
    /\ phase[p] = "running"
    /\ phase' = [phase EXCEPT ![p] = "ended"]
    /\ UNCHANGED <<disposed, started, waking, generation, inFlight, loop, timer,
                   follow, owed, quiet>>

\* The finally handler of tick(), then `pending` settles.
ClearInFlight(p) ==
    /\ phase[p] = "ended"
    /\ phase' = [phase EXCEPT ![p] = "cleared"]
    /\ inFlight' = IF inFlight = p THEN None ELSE inFlight
    /\ UNCHANGED <<disposed, started, waking, generation, loop, timer, follow,
                   owed, quiet>>

\* Nothing waits on the settled promise any more.
Settled(p) ==
    /\ phase[p] = "cleared"
    /\ follow[p] = 0
    /\ \A l \in LoopId : loop[l].pass # p
    /\ phase' = [phase EXCEPT ![p] = "none"]
    /\ UNCHANGED <<disposed, started, waking, generation, inFlight, loop, timer,
                   follow, owed, quiet>>

\* Mutant: run() without the generation token.
LoopContinuesAnyChain(l) ==
    /\ loop[l].at = "pass"
    /\ phase[loop[l].pass] = "cleared"
    /\ loop' = [loop EXCEPT ![l] = IF disposed THEN Idle ELSE AwaitingTimer(@.chain)]
    /\ timer' = IF disposed THEN timer ELSE l
    /\ UNCHANGED <<disposed, started, waking, generation, inFlight, phase, follow,
                   owed, quiet>>

\* The finally handler of run(): only a chain no stop retired schedules again.
LoopContinues(l) ==
    /\ loop[l].at = "pass"
    /\ phase[loop[l].pass] = "cleared"
    /\ IF disposed \/ loop[l].chain # generation
           THEN /\ loop' = [loop EXCEPT ![l] = Idle]
                /\ UNCHANGED timer
           ELSE /\ loop' = [loop EXCEPT ![l] = AwaitingTimer(loop[l].chain)]
                /\ timer' = l
    /\ UNCHANGED <<disposed, started, waking, generation, inFlight, phase, follow,
                   owed, quiet>>

\* Mutant: wake()'s reaction without "waking = false".
WakeFollowsFlagged(p) ==
    /\ phase[p] = "cleared"
    /\ follow[p] > 0
    /\ follow' = [follow EXCEPT ![p] = @ - 1]
    /\ IF waking /\ ~disposed
           THEN \E q \in PassId : TickTo(q)
           ELSE UNCHANGED <<inFlight, phase, owed>>
    /\ UNCHANGED <<disposed, started, waking, generation, loop, timer, quiet>>

\* The reaction a busy wake() registered on p.  The order among the reactions
\* of one pass does not matter: this one never touches a timer, the loop's
\* never touches a pass.
WakeFollows(p) ==
    /\ phase[p] = "cleared"
    /\ follow[p] > 0
    /\ follow' = [follow EXCEPT ![p] = @ - 1]
    /\ waking' = FALSE
    /\ IF waking /\ ~disposed
           THEN \E q \in PassId : TickTo(q)
           ELSE UNCHANGED <<inFlight, phase, owed>>
    /\ UNCHANGED <<disposed, started, generation, loop, timer, quiet>>

NoReactionLeft == \A p \in PassId : phase[p] \in {"none", "running"}

\* The timeout of l: it forgets the handle, whichever activation that names.
Fire(l) ==
    /\ loop[l].at = "timer"
    /\ NoReactionLeft
    /\ timer' = None
    /\ IF disposed
           THEN /\ loop' = [loop EXCEPT ![l] = Idle]
                /\ UNCHANGED <<inFlight, phase, owed>>
           ELSE Run(l, loop[l].chain)
    /\ UNCHANGED <<disposed, started, waking, generation, follow, quiet>>

LoopNext ==
    \/ Start \/ Tick \/ WakeBusy \/ Stop \/ Dispose
    \/ \E p \in PassId : PassEnds(p) \/ ClearInFlight(p) \/ Settled(p) \/ WakeFollows(p)
    \/ \E l \in LoopId : LoopContinues(l) \/ Fire(l)

(***************************************************************************)
(* Reactions run, timeouts fire, and a pass ends: its claims and its work  *)
(* are bounded by the module that hands them in.  Nothing obliges a caller *)
(* to start, tick, wake or stop.                                           *)
(***************************************************************************)
LoopFairness ==
    /\ \A p \in PassId : WF_loopVars(PassEnds(p)) /\ WF_loopVars(ClearInFlight(p))
                         /\ WF_loopVars(Settled(p)) /\ WF_loopVars(WakeFollows(p))
    /\ \A l \in LoopId : WF_loopVars(LoopContinues(l)) /\ WF_loopVars(Fire(l))

LoopSpec == LoopInit /\ [][LoopNext]_loopVars
FairLoopSpec == LoopSpec /\ LoopFairness

(***************************************************************************)
(* Properties.                                                             *)
(***************************************************************************)
\* Passes never overlap: a pass whose body runs, or has just returned, is the
\* one `inFlight` names, whatever calls and reactions came in between.
OnePassInFlight ==
    \A p \in PassId : phase[p] \in {"running", "ended"} => inFlight = p

\* The activation will poll on: its timeout is armed, or it waits on a pass and
\* belongs to the chain no stop() has retired.
Live(l) ==
    \/ loop[l].at = "timer"
    \/ loop[l].at = "pass" /\ loop[l].chain = generation

\* A started loop has exactly one activation that will schedule the next pass,
\* a stopped one has none, through every stop and start during a pass.  Two
\* would poll twice for ever, since the one timer handle could cancel only one;
\* none would leave the loop dead.
OneLiveChain ==
    /\ \A l, m \in LoopId : Live(l) /\ Live(m) => l = m
    /\ started <=> \E l \in LoopId : Live(l)

\* Every armed timeout is the one the handle names: stop() cancels it.
TimerIsCancellable ==
    \A l \in LoopId : loop[l].at = "timer" <=> timer = l

\* The polling that was stopped begins no pass any more, whatever run() was
\* waiting on: of a stopped runner nobody has asked anything since, only a
\* wake() from before the stop may still have one to ask for (line 152).  A
\* disposed runner begins none, asked or not.
BeginsAPass == \E p \in PassId : phase[p] = "none" /\ phase'[p] = "running"
WakePending == \E p \in PassId : follow[p] > 0
StoppedIsQuiet ==
    [][(quiet /\ quiet' /\ ~WakePending) \/ disposed => ~BeginsAPass]_loopVars

\* A wake() during a pass is followed by a pass that began after it, on a loop
\* that polls and on one that was never started or was stopped before the wake,
\* so the work it announces is seen, unless a stop comes after it.  (A wake in
\* the gap, see WakeBusy, has only the pass that began within it.)
WakeIsServed == owed ~> (~owed \/ quiet)

\* What the comment on wake() says (lines 152-154): it "ignores `start` and
\* `stop`, so a stopped runner still performs the pass; only `dispose` silences
\* it".  A stop() that comes between the wake and its reaction resets `waking`.
OnlyDisposeSilencesWake == owed ~> (~owed \/ disposed)
=============================================================================
