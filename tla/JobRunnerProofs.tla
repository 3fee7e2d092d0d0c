--------------------------- MODULE JobRunnerProofs ---------------------------
(***************************************************************************)
(* Theorems about the two halves of a job runner: its control (JobLoop),   *)
(* for every PassId, LoopId and MaxStops, and a pass (JobPass), for every  *)
(* Concurrency, BatchLimit, interval and bound.                            *)
(*                                                                         *)
(* None of the safety properties of the control is inductive alone: that a *)
(* passing reaction begins no second pass rests on what `inFlight` names,  *)
(* that a chain is unique on every chain being at most the current         *)
(* generation, and that a stopped runner stays quiet on no timeout having  *)
(* outlived its chain.  LoopInv says these together.                       *)
(*                                                                         *)
(* That claims are made one at a time follows from who may wait where: a   *)
(* slot stands at most once in the claim chain, whoever stands there waits *)
(* or claims, and only its first slot claims.  The counters are within     *)
(* their bounds because a claim is counted before it is answered.  PassInv *)
(* says these together.                                                    *)
(***************************************************************************)
EXTENDS JobLoop, JobPass, FiniteSetTheorems, WellFoundedInduction, TLAPS

(***************************************************************************)
(* The control.                                                            *)
(***************************************************************************)
\* `inFlight` names a pass whose body runs or has just returned.
InFlightIsOpen == inFlight # None => phase[inFlight] \in {"running", "ended"}

\* No chain is younger than the generation, and a timeout is never armed for
\* one that a stop has retired.
ChainsAreKnown ==
    \A l \in LoopId : /\ loop[l].chain \in 0 .. generation
                      /\ loop[l].at = "timer" => loop[l].chain = generation

\* What a stop leaves behind holds until somebody asks for something.
StopHolds == /\ disposed => ~started
             /\ quiet => ~started /\ ~waking
             /\ ~disposed => generation \in 0 .. MaxStops

LoopInv ==
    /\ LoopTypeOK
    /\ OnePassInFlight
    /\ InFlightIsOpen
    /\ TimerIsCancellable
    /\ ChainsAreKnown
    /\ OneLiveChain
    /\ StopHolds

-----------------------------------------------------------------------------
LEMMA ChainZero == 0 \in ChainNumber
    BY MaxStopsAssumption DEF ChainNumber

LEMMA IdleIsActivation == Idle \in Activation
    BY ChainZero DEF Idle, Activation

(***************************************************************************)
(* What tick() does to the passes.                                         *)
(***************************************************************************)
\* Answering with a pass, begun or joined, keeps passes from overlapping.
LEMMA TickToKeepsOnePass ==
    ASSUME LoopTypeOK, OnePassInFlight, InFlightIsOpen,
           NEW p \in PassId, TickTo(p)
    PROVE  /\ inFlight' \in PassId \cup {None}
           /\ phase' \in [PassId -> Phase]
           /\ owed' \in BOOLEAN
           /\ OnePassInFlight'
           /\ InFlightIsOpen'
<1>1. CASE inFlight = None
    BY <1>1, NoneAssumption DEF TickTo, LoopTypeOK, OnePassInFlight, InFlightIsOpen, Phase
<1>2. CASE inFlight # None
    BY <1>2 DEF TickTo, LoopTypeOK, OnePassInFlight, InFlightIsOpen
<1> QED BY <1>1, <1>2

\* A stop advances the generation, and so retires every chain there is.
LEMMA HaltRetiresChains ==
    ASSUME LoopTypeOK, ChainsAreKnown, TimerIsCancellable, StopHolds, Halt,
           generation \in 0 .. MaxStops
    PROVE  /\ generation' \in ChainNumber
           /\ timer' \in LoopId \cup {None}
           /\ loop' \in [LoopId -> Activation]
           /\ TimerIsCancellable'
           /\ ChainsAreKnown'
           /\ OneLiveChain'
<1>1. \A l \in LoopId : loop'[l] = IF l = timer THEN Idle ELSE loop[l]
    BY DEF Halt
<1>2. \A l \in LoopId : loop'[l] \in Activation /\ loop'[l].chain \in 0 .. generation
    <2>1. \A l \in LoopId : loop[l] \in Activation
        BY DEF LoopTypeOK
    <2>2. Idle.chain = 0 /\ 0 \in 0 .. generation
        BY MaxStopsAssumption DEF Idle
    <2> QED BY <1>1, <2>1, <2>2, IdleIsActivation DEF ChainsAreKnown
<1>3. \A l \in LoopId : loop'[l].at # "timer"
    BY <1>1 DEF TimerIsCancellable, Idle
<1>4. \A l \in LoopId : ~Live(l)'
    BY <1>2, <1>3, MaxStopsAssumption DEF Live, Halt, LoopTypeOK, ChainNumber
<1>5. loop' \in [LoopId -> Activation]
    BY <1>2 DEF Halt
<1>6. timer' = None /\ generation' = generation + 1 /\ started' = FALSE
    BY DEF Halt
<1> QED
    BY <1>2, <1>3, <1>4, <1>5, <1>6, NoneAssumption, MaxStopsAssumption
    DEF TimerIsCancellable, ChainsAreKnown, OneLiveChain, ChainNumber

-----------------------------------------------------------------------------
LEMMA InitLoopInv == LoopInit => LoopInv
<1> SUFFICES ASSUME LoopInit PROVE LoopInv
    OBVIOUS
<1>1. LoopTypeOK
    BY ChainZero, IdleIsActivation DEF LoopInit, LoopTypeOK, Phase
<1>2. OnePassInFlight /\ InFlightIsOpen
    BY DEF LoopInit, OnePassInFlight, InFlightIsOpen
<1>3. TimerIsCancellable /\ ChainsAreKnown /\ OneLiveChain
    BY NoneAssumption
    DEF LoopInit, TimerIsCancellable, ChainsAreKnown, OneLiveChain, Live, Idle
<1>4. StopHolds
    BY MaxStopsAssumption DEF LoopInit, StopHolds
<1> QED BY <1>1, <1>2, <1>3, <1>4 DEF LoopInv

LEMMA NextLoopInv == LoopInv /\ [LoopNext]_loopVars => LoopInv'
<1> SUFFICES ASSUME LoopInv, [LoopNext]_loopVars PROVE LoopInv'
    OBVIOUS
<1> USE DEF LoopInv
<1>1. CASE Start
    <2>1. PICK l \in LoopId, p \in PassId :
              /\ loop[l] = Idle
              /\ TickTo(p)
              /\ loop' = [loop EXCEPT ![l] = AwaitingPass(p, generation)]
        BY <1>1 DEF Start, Run
    <2>2. /\ started' = TRUE /\ ~started /\ ~disposed
          /\ quiet' = FALSE
          /\ UNCHANGED <<disposed, waking, generation, timer, follow>>
        BY <1>1 DEF Start
    <2>3. LoopTypeOK' /\ OnePassInFlight' /\ InFlightIsOpen'
        <3>1. AwaitingPass(p, generation) \in Activation
            BY DEF AwaitingPass, Activation, LoopTypeOK
        <3> QED BY <2>1, <2>2, <3>1, TickToKeepsOnePass DEF LoopTypeOK
    <2>4. loop'[l] = AwaitingPass(p, generation) /\ \A m \in LoopId \ {l} : loop'[m] = loop[m]
        BY <2>1 DEF LoopTypeOK
    <2>5. TimerIsCancellable'
        BY <2>1, <2>2, <2>4 DEF TimerIsCancellable, AwaitingPass, Idle
    <2>6. ChainsAreKnown'
        BY <2>2, <2>4 DEF ChainsAreKnown, AwaitingPass, LoopTypeOK, ChainNumber
    <2>7. OneLiveChain'
        BY <2>2, <2>4 DEF OneLiveChain, Live, AwaitingPass
    <2>8. StopHolds'
        BY <2>2 DEF StopHolds
    <2> QED BY <2>3, <2>5, <2>6, <2>7, <2>8
<1>2. CASE Tick
    <2>1. PICK p \in PassId : TickTo(p)
        BY <1>2 DEF Tick
    <2>2. /\ quiet' = FALSE
          /\ UNCHANGED <<disposed, started, waking, generation, loop, timer, follow>>
        BY <1>2 DEF Tick
    <2>3. LoopTypeOK' /\ OnePassInFlight' /\ InFlightIsOpen'
        BY <2>1, <2>2, TickToKeepsOnePass DEF LoopTypeOK
    <2>4. TimerIsCancellable' /\ ChainsAreKnown' /\ OneLiveChain' /\ StopHolds'
        BY <2>2 DEF TimerIsCancellable, ChainsAreKnown, OneLiveChain, Live, StopHolds
    <2> QED BY <2>3, <2>4
<1>3. CASE WakeBusy
    <2>1. follow' \in [PassId -> Nat]
        BY <1>3 DEF WakeBusy, LoopTypeOK
    <2>2. LoopTypeOK' /\ OnePassInFlight' /\ InFlightIsOpen'
        BY <1>3, <2>1 DEF WakeBusy, LoopTypeOK, OnePassInFlight, InFlightIsOpen
    <2>3. TimerIsCancellable' /\ ChainsAreKnown' /\ OneLiveChain' /\ StopHolds'
        BY <1>3 DEF WakeBusy, TimerIsCancellable, ChainsAreKnown, OneLiveChain, Live, StopHolds
    <2> QED BY <2>2, <2>3
<1>4. CASE Stop
    <2>1. /\ Halt
          /\ generation \in 0 .. MaxStops - 1
          /\ UNCHANGED <<disposed, inFlight, phase, follow, owed>>
        BY <1>4, MaxStopsAssumption DEF Stop, LoopTypeOK, ChainNumber
    <2>2. LoopTypeOK' /\ TimerIsCancellable' /\ ChainsAreKnown' /\ OneLiveChain'
        <3>1. generation \in 0 .. MaxStops
            BY <2>1, MaxStopsAssumption
        <3>2. /\ generation' \in ChainNumber /\ timer' \in LoopId \cup {None}
              /\ loop' \in [LoopId -> Activation]
              /\ TimerIsCancellable' /\ ChainsAreKnown' /\ OneLiveChain'
            BY <2>1, <3>1, HaltRetiresChains
        <3> QED BY <2>1, <3>2 DEF LoopTypeOK, Halt
    <2>3. OnePassInFlight' /\ InFlightIsOpen'
        BY <2>1 DEF OnePassInFlight, InFlightIsOpen
    <2>4. StopHolds'
        BY <2>1, MaxStopsAssumption DEF StopHolds, Halt
    <2> QED BY <2>2, <2>3, <2>4
<1>5. CASE Dispose
    <2>1. /\ Halt
          /\ disposed' = TRUE
          /\ generation \in 0 .. MaxStops
          /\ UNCHANGED <<inFlight, phase, follow, owed>>
        BY <1>5 DEF Dispose, StopHolds
    <2>2. LoopTypeOK' /\ TimerIsCancellable' /\ ChainsAreKnown' /\ OneLiveChain'
        BY <2>1, HaltRetiresChains DEF LoopTypeOK, Halt
    <2>3. OnePassInFlight' /\ InFlightIsOpen'
        BY <2>1 DEF OnePassInFlight, InFlightIsOpen
    <2>4. StopHolds'
        BY <2>1 DEF StopHolds, Halt
    <2> QED BY <2>2, <2>3, <2>4
<1>6. ASSUME NEW p \in PassId, PassEnds(p) PROVE LoopInv'
    <2>1. LoopTypeOK' /\ OnePassInFlight' /\ InFlightIsOpen'
        BY <1>6 DEF PassEnds, LoopTypeOK, OnePassInFlight, InFlightIsOpen, Phase
    <2>2. TimerIsCancellable' /\ ChainsAreKnown' /\ OneLiveChain' /\ StopHolds'
        BY <1>6 DEF PassEnds, TimerIsCancellable, ChainsAreKnown, OneLiveChain, Live, StopHolds
    <2> QED BY <2>1, <2>2
<1>7. ASSUME NEW p \in PassId, ClearInFlight(p) PROVE LoopInv'
    <2>1. LoopTypeOK' /\ OnePassInFlight' /\ InFlightIsOpen'
        BY <1>7 DEF ClearInFlight, LoopTypeOK, OnePassInFlight, InFlightIsOpen, Phase
    <2>2. TimerIsCancellable' /\ ChainsAreKnown' /\ OneLiveChain' /\ StopHolds'
        BY <1>7 DEF ClearInFlight, TimerIsCancellable, ChainsAreKnown, OneLiveChain, Live, StopHolds
    <2> QED BY <2>1, <2>2
<1>8. ASSUME NEW p \in PassId, Settled(p) PROVE LoopInv'
    <2>1. LoopTypeOK' /\ OnePassInFlight' /\ InFlightIsOpen'
        BY <1>8 DEF Settled, LoopTypeOK, OnePassInFlight, InFlightIsOpen, Phase
    <2>2. TimerIsCancellable' /\ ChainsAreKnown' /\ OneLiveChain' /\ StopHolds'
        BY <1>8 DEF Settled, TimerIsCancellable, ChainsAreKnown, OneLiveChain, Live, StopHolds
    <2> QED BY <2>1, <2>2
<1>9. ASSUME NEW p \in PassId, WakeFollows(p) PROVE LoopInv'
    <2>1. follow' \in [PassId -> Nat] /\ waking' = FALSE
        BY <1>9 DEF WakeFollows, LoopTypeOK
    <2>2. UNCHANGED <<disposed, started, generation, loop, timer, quiet>>
        BY <1>9 DEF WakeFollows
    <2>3. /\ inFlight' \in PassId \cup {None}
          /\ phase' \in [PassId -> Phase]
          /\ owed' \in BOOLEAN
          /\ OnePassInFlight'
          /\ InFlightIsOpen'
        <3>1. CASE waking /\ ~disposed
            BY <1>9, <3>1, TickToKeepsOnePass DEF WakeFollows
        <3>2. CASE ~(waking /\ ~disposed)
            BY <1>9, <3>2 DEF WakeFollows, LoopTypeOK, OnePassInFlight, InFlightIsOpen
        <3> QED BY <3>1, <3>2
    <2>4. LoopTypeOK'
        BY <2>1, <2>2, <2>3 DEF LoopTypeOK
    <2>5. TimerIsCancellable' /\ ChainsAreKnown' /\ OneLiveChain' /\ StopHolds'
        BY <2>1, <2>2 DEF TimerIsCancellable, ChainsAreKnown, OneLiveChain, Live, StopHolds
    <2> QED BY <2>3, <2>4, <2>5
<1>10. ASSUME NEW l \in LoopId, LoopContinues(l) PROVE LoopInv'
    <2>1. UNCHANGED <<disposed, started, waking, generation, inFlight, phase, follow, owed, quiet>>
        BY <1>10 DEF LoopContinues
    <2>2. OnePassInFlight' /\ InFlightIsOpen' /\ StopHolds'
        BY <2>1 DEF OnePassInFlight, InFlightIsOpen, StopHolds
    <2>3. loop[l].chain \in ChainNumber /\ loop[l].at = "pass" /\ timer # l
        BY <1>10 DEF LoopContinues, LoopTypeOK, Activation, TimerIsCancellable
    <2>4. CASE disposed \/ loop[l].chain # generation
        <3>1. loop' = [loop EXCEPT ![l] = Idle] /\ timer' = timer
            BY <1>10, <2>4 DEF LoopContinues
        <3>2. ~Live(l)
            BY <2>3, <2>4 DEF Live, StopHolds, OneLiveChain
        <3>3. LoopTypeOK'
            BY <2>1, <3>1, MaxStopsAssumption DEF LoopTypeOK, Activation, Idle, ChainNumber
        <3>4. TimerIsCancellable' /\ ChainsAreKnown'
            BY <2>1, <2>3, <3>1 DEF TimerIsCancellable, ChainsAreKnown, Idle, LoopTypeOK, ChainNumber
        <3>5. OneLiveChain'
            BY <2>1, <3>1, <3>2 DEF OneLiveChain, Live, Idle, LoopTypeOK
        <3> QED BY <2>2, <3>3, <3>4, <3>5
    <2>5. CASE ~(disposed \/ loop[l].chain # generation)
        <3>1. loop' = [loop EXCEPT ![l] = AwaitingTimer(generation)] /\ timer' = l
            BY <1>10, <2>5 DEF LoopContinues
        <3>2. Live(l)
            BY <2>3, <2>5 DEF Live
        <3>3. timer = None
            BY <2>3, <3>2 DEF OneLiveChain, Live, TimerIsCancellable, ChainsAreKnown, LoopTypeOK
        <3>4. LoopTypeOK'
            BY <2>1, <3>1 DEF LoopTypeOK, Activation, AwaitingTimer
        <3>5. TimerIsCancellable' /\ ChainsAreKnown'
            BY <2>1, <3>1, <3>3, NoneAssumption
            DEF TimerIsCancellable, ChainsAreKnown, AwaitingTimer, LoopTypeOK, ChainNumber
        <3>6. OneLiveChain'
            BY <2>1, <3>1, <3>2 DEF OneLiveChain, Live, AwaitingTimer, LoopTypeOK
        <3> QED BY <2>2, <3>4, <3>5, <3>6
    <2> QED BY <2>4, <2>5
<1>11. ASSUME NEW l \in LoopId, Fire(l) PROVE LoopInv'
    <2>1. /\ loop[l].at = "timer" /\ timer = l
          /\ loop[l].chain = generation
          /\ timer' = None
          /\ UNCHANGED <<disposed, started, waking, generation, follow, quiet>>
        BY <1>11 DEF Fire, TimerIsCancellable, ChainsAreKnown
    <2>2. Live(l) /\ started /\ ~disposed
        BY <2>1 DEF Live, OneLiveChain, StopHolds
    <2>3. PICK p \in PassId :
              TickTo(p) /\ loop' = [loop EXCEPT ![l] = AwaitingPass(p, generation)]
        BY <1>11, <2>1, <2>2 DEF Fire, Run
    <2>4. LoopTypeOK' /\ OnePassInFlight' /\ InFlightIsOpen'
        <3>1. AwaitingPass(p, generation) \in Activation
            BY DEF AwaitingPass, Activation, LoopTypeOK
        <3> QED BY <2>1, <2>3, <3>1, TickToKeepsOnePass DEF LoopTypeOK
    <2>5. loop'[l] = AwaitingPass(p, generation) /\ \A m \in LoopId \ {l} : loop'[m] = loop[m]
        BY <2>3 DEF LoopTypeOK
    <2>6. TimerIsCancellable'
        BY <2>1, <2>5, NoneAssumption DEF TimerIsCancellable, AwaitingPass
    <2>7. ChainsAreKnown'
        BY <2>1, <2>5 DEF ChainsAreKnown, AwaitingPass, LoopTypeOK, ChainNumber
    <2>8. OneLiveChain' /\ StopHolds'
        BY <2>1, <2>2, <2>5 DEF OneLiveChain, Live, AwaitingPass, StopHolds
    <2> QED BY <2>4, <2>6, <2>7, <2>8
<1>12. CASE UNCHANGED loopVars
    BY <1>12 DEF loopVars, LoopTypeOK, OnePassInFlight, InFlightIsOpen, TimerIsCancellable,
                 ChainsAreKnown, OneLiveChain, Live, StopHolds
<1> QED
    BY <1>1, <1>2, <1>3, <1>4, <1>5, <1>6, <1>7, <1>8, <1>9, <1>10, <1>11, <1>12 DEF LoopNext

\* The inductive invariant holds of every behaviour: the types of the runner's
\* state and the four facts its callers rely on.
THEOREM JobLoopInvariant == LoopSpec => []LoopInv
<1> QED BY InitLoopInv, NextLoopInv, PTL DEF LoopSpec

\* Passes of one runner never overlap (tick() of runner.ts).
THEOREM PassesNeverOverlap == LoopSpec => []OnePassInFlight
<1>1. LoopInv => OnePassInFlight
    BY DEF LoopInv
<1> QED BY <1>1, JobLoopInvariant, PTL

\* A started loop has exactly one scheduling chain and a stopped one none
\* (the `generation` token of runner.ts).
THEOREM LoopHasOneChain == LoopSpec => []OneLiveChain
<1>1. LoopInv => OneLiveChain
    BY DEF LoopInv
<1> QED BY <1>1, JobLoopInvariant, PTL

\* A stopped runner nobody has asked anything of since begins no pass but for a
\* wake() from before the stop, and a disposed one begins none: stop() leaves
\* neither a timeout nor a run() behind that could.
THEOREM StoppedRunnerIsQuiet == LoopSpec => StoppedIsQuiet
<1>1. LoopInv /\ [LoopNext]_loopVars => [(quiet /\ quiet' /\ ~WakePending) \/ disposed => ~BeginsAPass]_loopVars
    <2> SUFFICES ASSUME LoopInv, LoopNext, (quiet /\ quiet' /\ ~WakePending) \/ disposed
                 PROVE  ~BeginsAPass
        OBVIOUS
    <2> USE DEF LoopInv
    <2>1. CASE Start \/ Tick
        BY <2>1 DEF Start, Tick
    <2>2. CASE WakeBusy \/ Stop \/ Dispose
        BY <2>2 DEF WakeBusy, Stop, Dispose, Halt, BeginsAPass
    <2>3. ASSUME NEW p \in PassId, PassEnds(p) \/ ClearInFlight(p) \/ Settled(p)
          PROVE  ~BeginsAPass
        BY <2>3 DEF PassEnds, ClearInFlight, Settled, BeginsAPass, LoopTypeOK
    <2>4. ASSUME NEW p \in PassId, WakeFollows(p) PROVE ~BeginsAPass
        BY <2>4 DEF WakeFollows, BeginsAPass, WakePending
    <2>5. ASSUME NEW l \in LoopId, LoopContinues(l) PROVE ~BeginsAPass
        BY <2>5 DEF LoopContinues, BeginsAPass
    <2>6. ASSUME NEW l \in LoopId, Fire(l) PROVE ~BeginsAPass
        <3>1. Live(l)
            BY <2>6 DEF Fire, Live, ChainsAreKnown
        <3>2. ~started
            BY DEF StopHolds
        <3> QED BY <3>1, <3>2 DEF OneLiveChain
    <2> QED BY <2>1, <2>2, <2>3, <2>4, <2>5, <2>6 DEF LoopNext
<1> QED BY <1>1, JobLoopInvariant, PTL DEF LoopSpec, StoppedIsQuiet

-----------------------------------------------------------------------------
(***************************************************************************)
(* A pass.                                                                 *)
(***************************************************************************)
Item == [beat : {"off", "armed", "asking"}, lost : BOOLEAN,
         held : {"none", "own", "taken", "settled"}]

Typed ==
    /\ running \in BOOLEAN /\ raised \in BOOLEAN /\ drained \in BOOLEAN
    /\ attempts \in 0 .. BatchLimit
    /\ claimed \in Nat /\ performed \in Nat /\ failed \in Nat /\ claimLost \in Nat
    /\ queue \in Seq(Slot)
    /\ at \in [Slot -> {"queued", "claiming", "working", "done"}]
    /\ item \in [Slot -> Item]
    /\ stray \in [Slot -> 0 .. MaxStray]
    /\ failures \in 0 .. MaxDoublings + 1

Distinct(q) == \A i, j \in 1 .. Len(q) : q[i] = q[j] => i = j

\* The claim chain: a slot is there once, waiting or claiming, and claims first.
Chain ==
    /\ Distinct(queue)
    /\ \A i \in 1 .. Len(queue) : at[queue[i]] \in {"queued", "claiming"}
    /\ \A s \in Slot : at[s] = "claiming" => Turn(s)

\* An attempt is counted when it is made, its item when it is answered.
AttemptsLead ==
    /\ claimed <= attempts
    /\ \A s \in Slot : at[s] = "claiming" => claimed < attempts

\* A renewal that asks has a place among the unanswered ones.
BeatsHavePlace == \A s \in Slot : item[s].beat = "asking" => stray[s] < MaxStray

PassInv == Typed /\ Chain /\ AttemptsLead /\ EveryItemIsCounted /\ BeatsHavePlace

-----------------------------------------------------------------------------
LEMMA SlotsAreNumbered ==
    /\ Slot = 1 .. Smaller(Concurrency, BatchLimit)
    /\ Smaller(Concurrency, BatchLimit) \in Nat
    BY PassAssumption DEF Slot, Smaller

LEMMA SlotIsFinite == IsFiniteSet(Slot)
<1>1. 1 \in Int /\ Smaller(Concurrency, BatchLimit) \in Int
    BY SlotsAreNumbered
<1> QED BY <1>1, SlotsAreNumbered, FS_Interval

LEMMA ItemsAreTyped == NoItem \in Item /\ Fresh \in Item
    BY DEF NoItem, Fresh, Item

\* What is left when the first leaves a chain.
LEMMA TailKeepsChain ==
    ASSUME NEW q \in Seq(Slot), q # <<>>, Distinct(q)
    PROVE  /\ Tail(q) \in Seq(Slot)
           /\ Len(Tail(q)) = Len(q) - 1
           /\ \A i \in 1 .. Len(Tail(q)) : Tail(q)[i] = q[i + 1] /\ Tail(q)[i] # Head(q)
           /\ Distinct(Tail(q))
<1>1. Tail(q) \in Seq(Slot) /\ Len(Tail(q)) = Len(q) - 1 /\ Len(q) \in Nat /\ Len(q) >= 1
    OBVIOUS
<1>2. \A i \in 1 .. Len(Tail(q)) : Tail(q)[i] = q[i + 1]
    BY <1>1
<1>3. Head(q) = q[1]
    OBVIOUS
<1>4. \A i \in 1 .. Len(Tail(q)) : Tail(q)[i] # Head(q)
  <2> SUFFICES ASSUME NEW i \in 1 .. Len(Tail(q)) PROVE q[i + 1] # q[1]
    BY <1>2, <1>3
  <2>1. i + 1 \in 1 .. Len(q) /\ 1 \in 1 .. Len(q) /\ i + 1 # 1
    BY <1>1
  <2> QED BY <2>1 DEF Distinct
<1>5. Distinct(Tail(q))
  <2> SUFFICES ASSUME NEW i \in 1 .. Len(Tail(q)), NEW j \in 1 .. Len(Tail(q)),
                      q[i + 1] = q[j + 1]
               PROVE  i = j
    BY <1>2 DEF Distinct
  <2>1. i + 1 \in 1 .. Len(q) /\ j + 1 \in 1 .. Len(q)
    BY <1>1
  <2>2. i + 1 = j + 1
    BY <2>1 DEF Distinct
  <2> QED BY <2>2
<1> QED BY <1>1, <1>2, <1>4, <1>5

\* What a slot that is not in a chain adds to it.
LEMMA AppendKeepsChain ==
    ASSUME NEW q \in Seq(Slot), Distinct(q), NEW s \in Slot,
           \A i \in 1 .. Len(q) : q[i] # s
    PROVE  /\ Append(q, s) \in Seq(Slot)
           /\ Len(Append(q, s)) = Len(q) + 1
           /\ Append(q, s)[Len(q) + 1] = s
           /\ \A i \in 1 .. Len(q) : Append(q, s)[i] = q[i]
           /\ q # <<>> => Append(q, s) # <<>> /\ Head(Append(q, s)) = Head(q)
           /\ Distinct(Append(q, s))
<1>1. /\ Append(q, s) \in Seq(Slot) /\ Len(Append(q, s)) = Len(q) + 1 /\ Len(q) \in Nat
      /\ Append(q, s)[Len(q) + 1] = s
    OBVIOUS
<1>2. \A i \in 1 .. Len(q) : Append(q, s)[i] = q[i]
    OBVIOUS
<1>3. q # <<>> => Append(q, s) # <<>> /\ Head(Append(q, s)) = Head(q)
    BY <1>1, <1>2
<1>4. Distinct(Append(q, s))
  <2> SUFFICES ASSUME NEW i \in 1 .. Len(q) + 1, NEW j \in 1 .. Len(q) + 1,
                      Append(q, s)[i] = Append(q, s)[j]
               PROVE  i = j
    BY <1>1 DEF Distinct
  <2>1. CASE i \in 1 .. Len(q) /\ j \in 1 .. Len(q)
    BY <1>2, <2>1 DEF Distinct
  <2>2. CASE i = Len(q) + 1 /\ j \in 1 .. Len(q)
    BY <1>1, <1>2, <2>2
  <2>3. CASE j = Len(q) + 1 /\ i \in 1 .. Len(q)
    BY <1>1, <1>2, <2>3
  <2>4. CASE i = Len(q) + 1 /\ j = Len(q) + 1
    BY <2>4
  <2> QED BY <1>1, <2>1, <2>2, <2>3, <2>4
<1> QED BY <1>1, <1>2, <1>3, <1>4

\* No chain is longer than there are slots.
LEMMA ChainFitsSlots ==
    ASSUME Typed, Chain
    PROVE  Len(queue) <= Cardinality(Slot)
<1>1. Len(queue) \in Nat /\ queue \in [1 .. Len(queue) -> Slot]
    BY DEF Typed
<1>2. queue \in Injection(1 .. Len(queue), Slot)
    BY <1>1 DEF Chain, Distinct, Injection, IsInjective
<1>3. Cardinality(1 .. Len(queue)) <= Cardinality(Slot)
    BY <1>2, SlotIsFinite, FS_Injection
<1>4. Cardinality(1 .. Len(queue)) = Len(queue)
    BY <1>1, FS_Interval
<1> QED BY <1>3, <1>4

\* A slot begins or ends its work, or what works stays the same.
LEMMA OneMoreWorks ==
    ASSUME Typed, NEW s \in Slot, at[s] # "working", at' = [at EXCEPT ![s] = "working"]
    PROVE  Cardinality(Working') = Cardinality(Working) + 1 /\ Cardinality(Working) \in Nat
<1>1. Working' = Working \cup {s} /\ s \notin Working /\ Working \subseteq Slot
    BY DEF Typed, Working
<1>2. IsFiniteSet(Working)
    BY <1>1, SlotIsFinite, FS_Subset
<1> QED BY <1>1, <1>2, FS_AddElement, FS_CardinalityType

LEMMA OneLessWorks ==
    ASSUME Typed, NEW s \in Slot, at[s] = "working", at' = [at EXCEPT ![s] = "queued"]
    PROVE  Cardinality(Working') = Cardinality(Working) - 1 /\ Cardinality(Working) \in Nat
<1>1. Working' = Working \ {s} /\ s \in Working /\ Working \subseteq Slot
    BY DEF Typed, Working
<1>2. IsFiniteSet(Working)
    BY <1>1, SlotIsFinite, FS_Subset
<1> QED BY <1>1, <1>2, FS_RemoveElement, FS_CardinalityType

LEMMA WorkingIsCountable ==
    ASSUME Typed PROVE Cardinality(Working) \in Nat
<1>1. Working \subseteq Slot
    BY DEF Working
<1> QED BY <1>1, SlotIsFinite, FS_Subset, FS_CardinalityType

-----------------------------------------------------------------------------
LEMMA InitKeepsInv == Init => PassInv
<1> SUFFICES ASSUME Init PROVE PassInv
    OBVIOUS
<1>1. Typed
  <2>1. at \in [Slot -> {"queued", "claiming", "working", "done"}]
    BY DEF Init
  <2>2. item \in [Slot -> Item]
    BY ItemsAreTyped DEF Init
  <2>3. stray \in [Slot -> 0 .. MaxStray]
    BY PassAssumption DEF Init
  <2>4. queue \in Seq(Slot)
    BY DEF Init
  <2>5. failures \in 0 .. MaxDoublings + 1 /\ attempts \in 0 .. BatchLimit
    BY PassAssumption DEF Init
  <2> QED BY <2>1, <2>2, <2>3, <2>4, <2>5 DEF Init, Typed
<1>2. Chain
    BY DEF Init, Chain, Distinct
<1>3. Working = {}
    BY DEF Init, Working
<1>4. EveryItemIsCounted
    BY <1>3, FS_EmptySet DEF Init, EveryItemIsCounted
<1>5. AttemptsLead /\ BeatsHavePlace
    BY DEF Init, AttemptsLead, BeatsHavePlace, NoItem
<1> QED BY <1>1, <1>2, <1>4, <1>5 DEF PassInv

\* The claim that is made is made by the first of the chain alone.
LEMMA ClaimsAreSerial == PassInv => OneClaimAtATime
    BY DEF PassInv, Chain, Turn, OneClaimAtATime

LEMMA BeginKeepsInv == PassInv /\ Begin => PassInv'
<1> SUFFICES ASSUME PassInv, Begin PROVE PassInv'
    OBVIOUS
<1> USE DEF PassInv
<1>1. Slot = 1 .. Smaller(Concurrency, BatchLimit) /\ Smaller(Concurrency, BatchLimit) \in Nat
    BY SlotsAreNumbered
<1>2. queue' \in Seq(Slot) /\ Len(queue') = Smaller(Concurrency, BatchLimit)
    BY <1>1 DEF Begin
<1>3. Typed'
  <2>1. at' \in [Slot -> {"queued", "claiming", "working", "done"}]
    BY DEF Begin
  <2>2. attempts' \in 0 .. BatchLimit
    BY PassAssumption DEF Begin
  <2>3. item' = item /\ stray' = stray /\ failures' = failures
    BY DEF Begin
  <2>4. claimed' = 0 /\ performed' = 0 /\ failed' = 0 /\ claimLost' = 0
    BY DEF Begin
  <2>5. running' = TRUE /\ raised' = FALSE /\ drained' = FALSE
    BY DEF Begin
  <2> QED BY <1>2, <2>1, <2>2, <2>3, <2>4, <2>5 DEF Typed
<1>4. Chain'
    BY <1>1, <1>2 DEF Begin, Chain, Distinct, Turn
<1>5. Working' = {}
    BY DEF Begin, Working
<1>6. EveryItemIsCounted'
    BY <1>5, FS_EmptySet DEF Begin, EveryItemIsCounted
<1>7. AttemptsLead' /\ BeatsHavePlace'
    BY DEF Begin, AttemptsLead, BeatsHavePlace
<1> QED BY <1>3, <1>4, <1>6, <1>7

LEMMA TakeNothingKeepsInv ==
    ASSUME PassInv, NEW s \in Slot, TakeNothing(s) PROVE PassInv'
<1> USE DEF PassInv
<1>1. queue # <<>> /\ Head(queue) = s /\ at[s] = "queued" /\ Distinct(queue)
    BY DEF TakeNothing, Turn, Chain
<1>2. \A r \in Slot : at[r] # "claiming"
    BY <1>1 DEF Chain, Turn
<1>3. Typed'
    BY <1>1, TailKeepsChain DEF Typed, TakeNothing, counts
<1>4. Chain'
  <2>1. Distinct(queue')
    BY <1>1, TailKeepsChain DEF Typed, TakeNothing
  <2>2. ASSUME NEW i \in 1 .. Len(queue') PROVE at'[queue'[i]] \in {"queued", "claiming"}
    <3>1. queue'[i] = queue[i + 1] /\ queue'[i] # s /\ i + 1 \in 1 .. Len(queue) /\ queue[i + 1] \in Slot
        BY <1>1, TailKeepsChain DEF Typed, TakeNothing
    <3> QED BY <3>1 DEF Chain, Typed, TakeNothing
  <2>3. \A r \in Slot : at'[r] # "claiming"
    BY <1>2 DEF Typed, TakeNothing
  <2> QED BY <2>1, <2>2, <2>3 DEF Chain
<1>5. Working' = Working
    BY <1>1 DEF Typed, TakeNothing, Working
<1>6. EveryItemIsCounted'
    BY <1>5 DEF TakeNothing, EveryItemIsCounted, counts
<1>7. AttemptsLead' /\ BeatsHavePlace'
    BY <1>2 DEF Typed, TakeNothing, AttemptsLead, BeatsHavePlace, counts
<1> QED BY <1>3, <1>4, <1>6, <1>7

LEMMA TakeKeepsInv ==
    ASSUME PassInv, NEW s \in Slot, Take(s) PROVE PassInv'
<1> USE DEF PassInv
<1>1. Turn(s) /\ at[s] = "queued" /\ attempts < BatchLimit /\ queue' = queue
    BY PassAssumption DEF Take, Exhausted, Typed
<1>2. \A r \in Slot : at[r] # "claiming"
    BY <1>1 DEF Chain, Turn
<1>3. Typed'
    BY <1>1, PassAssumption DEF Typed, Take
<1>4. Chain'
  <2>1. \A r \in Slot : at'[r] = "claiming" => r = s
    BY <1>2 DEF Typed, Take
  <2>2. ASSUME NEW i \in 1 .. Len(queue') PROVE at'[queue'[i]] \in {"queued", "claiming"}
    BY <1>1 DEF Typed, Take, Chain
  <2> QED BY <1>1, <2>1, <2>2 DEF Chain, Turn
<1>5. Working' = Working
    BY <1>1 DEF Typed, Take, Working
<1>6. EveryItemIsCounted'
    BY <1>5 DEF Take, EveryItemIsCounted
<1>7. AttemptsLead' /\ BeatsHavePlace'
    BY <1>2, PassAssumption DEF Typed, Take, AttemptsLead, BeatsHavePlace
<1> QED BY <1>3, <1>4, <1>6, <1>7

LEMMA ClaimAnswersKeepsInv ==
    ASSUME PassInv, NEW s \in Slot, ClaimAnswers(s) PROVE PassInv'
<1> USE DEF PassInv
<1>1. queue # <<>> /\ Head(queue) = s /\ at[s] = "claiming" /\ Distinct(queue)
    BY DEF ClaimAnswers, Turn, Chain
<1>2. \A r \in Slot : at[r] = "claiming" => r = s
    BY <1>1 DEF Chain, Turn
<1>8. PICK v \in {"working", "done"} : at' = [at EXCEPT ![s] = v]
    BY DEF ClaimAnswers
<1>3. Typed'
  <2>1. queue' \in Seq(Slot)
    BY <1>1, TailKeepsChain DEF Typed, ClaimAnswers
  <2>2. item' \in [Slot -> Item]
    BY ItemsAreTyped DEF Typed, ClaimAnswers
  <2>3. drained' \in BOOLEAN /\ raised' \in BOOLEAN /\ claimed' \in Nat
    <3>1. claimed' = claimed \/ claimed' = claimed + 1
        BY DEF ClaimAnswers
    <3>2. CASE UNCHANGED <<drained, raised>>
        BY <3>1, <3>2 DEF Typed
    <3>3. CASE drained' = TRUE /\ raised' \in {raised, TRUE}
      <4>1. raised' \in BOOLEAN
        BY <3>3 DEF Typed
      <4> QED BY <3>1, <3>3, <4>1 DEF Typed
    <3> QED BY <3>2, <3>3, Zenon DEF ClaimAnswers
  <2>4. at' \in [Slot -> {"queued", "claiming", "working", "done"}]
    BY <1>8 DEF Typed
  <2>5. /\ running' = running /\ attempts' = attempts /\ performed' = performed
        /\ failed' = failed /\ claimLost' = claimLost /\ stray' = stray
        /\ failures' = failures
    BY DEF ClaimAnswers
  <2> QED BY <2>1, <2>2, <2>3, <2>4, <2>5 DEF Typed
<1>9. \A r \in Slot : at'[r] # "claiming"
    BY <1>2, <1>8 DEF Typed
<1>4. Chain'
  <2>1. Distinct(queue')
    BY <1>1, TailKeepsChain DEF Typed, ClaimAnswers
  <2>2. ASSUME NEW i \in 1 .. Len(queue') PROVE at'[queue'[i]] \in {"queued", "claiming"}
    <3>1. queue'[i] = queue[i + 1] /\ queue'[i] # s /\ i + 1 \in 1 .. Len(queue) /\ queue[i + 1] \in Slot
        BY <1>1, TailKeepsChain DEF Typed, ClaimAnswers
    <3> QED BY <3>1, <1>8 DEF Chain, Typed
  <2> QED BY <2>1, <2>2, <1>9 DEF Chain
<1>5. EveryItemIsCounted'
  <2>4. /\ performed' = performed /\ failed' = failed /\ claimLost' = claimLost
        /\ performed \in Nat /\ failed \in Nat /\ claimLost \in Nat
    BY DEF ClaimAnswers, Typed
  <2>1. CASE claimed' = claimed + 1 /\ at' = [at EXCEPT ![s] = "working"]
    <3>1. Cardinality(Working') = Cardinality(Working) + 1 /\ Cardinality(Working) \in Nat
        BY <2>1, <1>1, OneMoreWorks
    <3> QED BY <2>1, <2>4, <3>1 DEF EveryItemIsCounted
  <2>2. CASE claimed' = claimed /\ at' = [at EXCEPT ![s] = "done"]
    <3>1. Working' = Working
        BY <2>2, <1>1 DEF Typed, Working
    <3> QED BY <2>2, <2>4, <3>1 DEF EveryItemIsCounted
  <2> QED BY <2>1, <2>2 DEF ClaimAnswers
<1>6. AttemptsLead'
  <2>1. claimed' \in {claimed, claimed + 1} /\ attempts' = attempts
    BY DEF ClaimAnswers
  <2>2. claimed < attempts /\ claimed \in Nat /\ attempts \in Nat
    BY <1>1, PassAssumption DEF AttemptsLead, Typed
  <2> QED BY <2>1, <2>2, <1>9 DEF AttemptsLead
<1>7. BeatsHavePlace'
  <2>1. item' = item \/ item' = [item EXCEPT ![s] = Fresh]
    BY DEF ClaimAnswers
  <2> QED BY <2>1 DEF ClaimAnswers, BeatsHavePlace, Typed, Fresh
<1> QED BY <1>3, <1>4, <1>5, <1>6, <1>7

\* The claim chain, the counters and the items' number are what they were.
LEMMA RenewalKeepsRest ==
    ASSUME PassInv, UNCHANGED <<running, counts, raised, drained, queue, at, failures>>,
           item' \in [Slot -> Item], stray' \in [Slot -> 0 .. MaxStray], BeatsHavePlace'
    PROVE  PassInv'
<1> USE DEF PassInv
<1>1. Typed'
    BY DEF Typed, counts
<1>2. Chain'
    BY DEF Chain, Turn
<1>3. Working' = Working
    BY DEF Working
<1>4. EveryItemIsCounted' /\ AttemptsLead'
    BY <1>3 DEF EveryItemIsCounted, AttemptsLead, counts
<1> QED BY <1>1, <1>2, <1>4

LEMMA BeatKeepsInv ==
    ASSUME PassInv, NEW s \in Slot, Beat(s) PROVE PassInv'
<1>1. item' \in [Slot -> Item] /\ stray' \in [Slot -> 0 .. MaxStray]
    BY DEF PassInv, Typed, Beat, Item
<1>2. BeatsHavePlace'
    BY DEF PassInv, Typed, Beat, BeatsHavePlace, Item
<1>3. UNCHANGED <<running, counts, raised, drained, queue, at, failures>>
    BY DEF Beat
<1> QED BY <1>1, <1>2, <1>3, RenewalKeepsRest

LEMMA BeatAnswersKeepsInv ==
    ASSUME PassInv, NEW s \in Slot, BeatAnswers(s) PROVE PassInv'
<1>1. PICK i \in Item : item' = [item EXCEPT ![s] = i] /\ i.beat # "asking"
  <2>1. item[s] \in Item
    BY DEF PassInv, Typed
  <2>2. CASE item' = [item EXCEPT ![s] = [@ EXCEPT !.beat = "armed"]]
    <3>1. [item[s] EXCEPT !.beat = "armed"] \in Item
        BY <2>1 DEF Item
    <3>2. [item[s] EXCEPT !.beat = "armed"].beat # "asking"
        BY <2>1 DEF Item
    <3> QED BY <2>2, <3>1, <3>2, Zenon
  <2>3. CASE item' = [item EXCEPT ![s] = [@ EXCEPT !.beat = "off", !.lost = TRUE]]
    <3>1. [item[s] EXCEPT !.beat = "off", !.lost = TRUE] \in Item
        BY <2>1 DEF Item
    <3>2. [item[s] EXCEPT !.beat = "off", !.lost = TRUE].beat # "asking"
        BY <2>1 DEF Item
    <3> QED BY <2>3, <3>1, <3>2, Zenon
  <2> QED BY <2>2, <2>3 DEF BeatAnswers
<1>2. item' \in [Slot -> Item] /\ stray' \in [Slot -> 0 .. MaxStray]
    BY <1>1 DEF PassInv, Typed, BeatAnswers
<1>3. BeatsHavePlace'
    BY <1>1 DEF PassInv, Typed, BeatAnswers, BeatsHavePlace
<1>4. UNCHANGED <<running, counts, raised, drained, queue, at, failures>>
    BY DEF BeatAnswers
<1> QED BY <1>2, <1>3, <1>4, RenewalKeepsRest

LEMMA StrayAnswersKeepsInv ==
    ASSUME PassInv, NEW s \in Slot, StrayAnswers(s) PROVE PassInv'
<1>1. item' \in [Slot -> Item] /\ stray' \in [Slot -> 0 .. MaxStray]
    BY PassAssumption DEF PassInv, Typed, StrayAnswers, MarkPast
<1>2. BeatsHavePlace'
    BY PassAssumption DEF PassInv, Typed, StrayAnswers, MarkPast, BeatsHavePlace
<1>3. UNCHANGED <<running, counts, raised, drained, queue, at, failures>>
    BY DEF StrayAnswers
<1> QED BY <1>1, <1>2, <1>3, RenewalKeepsRest

LEMMA ClaimLeavesKeepsInv ==
    ASSUME PassInv, NEW s \in Slot, ClaimLeaves(s) PROVE PassInv'
<1>1. PICK h \in {"taken", "settled"} : item' = [item EXCEPT ![s] = [@ EXCEPT !.held = h]]
    BY DEF ClaimLeaves
<1>2. item' \in [Slot -> Item] /\ stray' \in [Slot -> 0 .. MaxStray]
    BY <1>1 DEF PassInv, Typed, ClaimLeaves, Item
<1>3. BeatsHavePlace'
    BY <1>1 DEF PassInv, Typed, ClaimLeaves, BeatsHavePlace, Item
<1>4. UNCHANGED <<running, counts, raised, drained, queue, at, failures>>
    BY DEF ClaimLeaves
<1> QED BY <1>2, <1>3, <1>4, RenewalKeepsRest

\* An item ends in exactly one of the three counters.
LEMMA OneOutcome ==
    ASSUME Typed, NEW s \in Slot, PerformEnds(s)
    PROVE  /\ performed' \in Nat /\ failed' \in Nat /\ claimLost' \in Nat
           /\ performed' + failed' + claimLost' = performed + failed + claimLost + 1
           /\ raised' \in BOOLEAN
<1>1. PICK returned \in BOOLEAN :
        /\ performed' = performed + (IF "performed" \in Outcomes(s, returned) THEN 1 ELSE 0)
        /\ failed' = failed + (IF "failed" \in Outcomes(s, returned) THEN 1 ELSE 0)
        /\ claimLost' = claimLost + (IF "claim-lost" \in Outcomes(s, returned) THEN 1 ELSE 0)
        /\ raised' \in BOOLEAN
    BY DEF PerformEnds
<1>2. PICK o \in {"performed", "failed", "claim-lost"} : Outcomes(s, returned) = {o}
    BY DEF Outcomes
<1> QED BY <1>1, <1>2 DEF Typed

LEMMA PerformEndsKeepsInv ==
    ASSUME PassInv, NEW s \in Slot, PerformEnds(s) PROVE PassInv'
<1> USE DEF PassInv
<1>1. at[s] = "working" /\ at' = [at EXCEPT ![s] = "queued"] /\ queue' = Append(queue, s)
    BY DEF PerformEnds
<1>2. \A i \in 1 .. Len(queue) : queue[i] # s
    BY <1>1 DEF Chain
<1>3. Typed'
  <2>1. queue' \in Seq(Slot)
    BY <1>1, <1>2, AppendKeepsChain DEF Typed, Chain
  <2>2. item' \in [Slot -> Item]
    BY ItemsAreTyped DEF Typed, PerformEnds
  <2>3. stray' \in [Slot -> 0 .. MaxStray]
    BY PassAssumption DEF Typed, PerformEnds, BeatsHavePlace
  <2>4. at' \in [Slot -> {"queued", "claiming", "working", "done"}]
    BY <1>1 DEF Typed
  <2>5. /\ running' = running /\ drained' = drained /\ attempts' = attempts
        /\ claimed' = claimed /\ failures' = failures
    BY DEF PerformEnds
  <2> QED BY <2>1, <2>2, <2>3, <2>4, <2>5, OneOutcome DEF Typed
<1>4. Chain'
  <2>1. Distinct(queue')
    BY <1>1, <1>2, AppendKeepsChain DEF Typed, Chain
  <2>2. ASSUME NEW i \in 1 .. Len(queue') PROVE at'[queue'[i]] \in {"queued", "claiming"}
    <3>1. Len(queue') = Len(queue) + 1 /\ Len(queue) \in Nat
        BY <1>1, <1>2, AppendKeepsChain DEF Typed, Chain
    <3>2. CASE i = Len(queue) + 1
        BY <1>1, <1>2, <3>2, AppendKeepsChain DEF Typed, Chain
    <3>3. CASE i \in 1 .. Len(queue)
      <4>1. queue'[i] = queue[i] /\ queue[i] # s /\ queue[i] \in Slot
        BY <1>1, <1>2, <3>3, AppendKeepsChain DEF Typed, Chain
      <4> QED BY <1>1, <3>3, <4>1 DEF Typed, Chain
    <3> QED BY <3>1, <3>2, <3>3
  <2>3. ASSUME NEW r \in Slot, at'[r] = "claiming" PROVE Turn(r)'
    <3>1. at[r] = "claiming"
        BY <1>1, <2>3 DEF Typed
    <3>2. queue # <<>> /\ Head(queue) = r
        BY <3>1 DEF Chain, Turn
    <3>3. queue' # <<>> /\ Head(queue') = Head(queue)
        BY <1>1, <1>2, <3>2, AppendKeepsChain DEF Typed, Chain
    <3> QED BY <3>2, <3>3 DEF Turn
  <2> QED BY <2>1, <2>2, <2>3 DEF Chain
<1>5. EveryItemIsCounted'
  <2>1. Cardinality(Working') = Cardinality(Working) - 1 /\ Cardinality(Working) \in Nat
    BY <1>1, OneLessWorks
  <2>2. claimed' = claimed
    BY DEF PerformEnds
  <2>3. performed \in Nat /\ failed \in Nat /\ claimLost \in Nat
    BY DEF Typed
  <2> QED BY <2>1, <2>2, <2>3, OneOutcome DEF EveryItemIsCounted
<1>6. AttemptsLead'
    BY <1>1 DEF Typed, PerformEnds, AttemptsLead
<1>7. BeatsHavePlace'
  <2>1. item' = [item EXCEPT ![s] = NoItem]
    BY DEF PerformEnds
  <2>2. \A r \in Slot \ {s} : stray'[r] = stray[r]
    BY DEF PerformEnds, Typed
  <2> QED BY <2>1, <2>2 DEF BeatsHavePlace, Typed, NoItem
<1> QED BY <1>3, <1>4, <1>5, <1>6, <1>7

LEMMA EndKeepsInv == PassInv /\ End => PassInv'
<1> SUFFICES ASSUME PassInv, End PROVE PassInv'
    OBVIOUS
<1> USE DEF PassInv
<1>1. failures' \in 0 .. MaxDoublings + 1
    BY PassAssumption DEF Typed, End, NextFailures, Smaller
<1>2. Typed'
    BY <1>1 DEF Typed, End, counts
<1>3. Chain'
    BY DEF Chain, Turn, End
<1>4. Working' = Working
    BY DEF Working, End
<1>5. EveryItemIsCounted' /\ AttemptsLead' /\ BeatsHavePlace'
    BY <1>4 DEF EveryItemIsCounted, AttemptsLead, BeatsHavePlace, End, counts
<1> QED BY <1>2, <1>3, <1>5

-----------------------------------------------------------------------------
\* The types of the pass, its claim chain and its counters hold together.
THEOREM PassInvariant == Spec => []PassInv
<1>1. PassInv /\ [Next]_vars => PassInv'
  <2> SUFFICES ASSUME PassInv, [Next]_vars PROVE PassInv'
    OBVIOUS
  <2>1. CASE Begin
    BY <2>1, BeginKeepsInv
  <2>2. CASE End
    BY <2>2, EndKeepsInv
  <2>3. ASSUME NEW s \in Slot, TakeNothing(s) \/ Take(s) \/ ClaimAnswers(s) PROVE PassInv'
    BY <2>3, TakeNothingKeepsInv, TakeKeepsInv, ClaimAnswersKeepsInv
  <2>4. ASSUME NEW s \in Slot, Beat(s) \/ BeatAnswers(s) \/ StrayAnswers(s) \/ ClaimLeaves(s)
        PROVE  PassInv'
    BY <2>4, BeatKeepsInv, BeatAnswersKeepsInv, StrayAnswersKeepsInv, ClaimLeavesKeepsInv
  <2>5. ASSUME NEW s \in Slot, PerformEnds(s) PROVE PassInv'
    BY <2>5, PerformEndsKeepsInv
  <2>6. CASE UNCHANGED vars
    <3>1. item' \in [Slot -> Item] /\ stray' \in [Slot -> 0 .. MaxStray] /\ BeatsHavePlace'
        BY <2>6 DEF vars, PassInv, Typed, BeatsHavePlace
    <3>2. UNCHANGED <<running, counts, raised, drained, queue, at, failures>>
        BY <2>6 DEF vars, counts
    <3> QED BY <3>1, <3>2, RenewalKeepsRest
  <2> QED BY <2>1, <2>2, <2>3, <2>4, <2>5, <2>6 DEF Next
<1> QED BY <1>1, InitKeepsInv, PTL DEF Spec

\* Every state of a pass has its types: no counter passes the batch limit, no
\* chain of claims is longer than there are slots.
THEOREM PassIsTyped == Spec => []TypeOK
<1>1. PassInv => TypeOK
  <2> SUFFICES ASSUME PassInv PROVE TypeOK
    OBVIOUS
  <2>1. Typed /\ Len(queue) <= Cardinality(Slot)
    BY ChainFitsSlots DEF PassInv
  <2>2. claimed = performed + failed + claimLost + Cardinality(Working)
    BY DEF PassInv, EveryItemIsCounted
  <2>3. claimed <= attempts
    BY DEF PassInv, AttemptsLead
  <2>4. {attempts, claimed, performed, failed, claimLost} \subseteq 0 .. BatchLimit
    <3>1. /\ attempts \in 0 .. BatchLimit
          /\ claimed \in Nat /\ performed \in Nat /\ failed \in Nat /\ claimLost \in Nat
        BY <2>1 DEF Typed
    <3>2. Cardinality(Working) \in Nat /\ BatchLimit \in Nat
        BY <2>1, WorkingIsCountable, PassAssumption
    <3>3. claimed \in 0 .. BatchLimit
        BY <2>3, <3>1, <3>2
    <3>4. ASSUME NEW working \in Nat, claimed = performed + failed + claimLost + working
          PROVE  performed <= claimed /\ failed <= claimed /\ claimLost <= claimed
        BY <3>1, <3>4
    <3>5. performed <= claimed /\ failed <= claimed /\ claimLost <= claimed
        BY <2>2, <3>2, <3>4, Zenon
    <3>6. performed \in 0 .. BatchLimit /\ failed \in 0 .. BatchLimit /\ claimLost \in 0 .. BatchLimit
        BY <3>1, <3>2, <3>3, <3>5
    <3> QED BY <3>1, <3>3, <3>6
  <2> QED BY <2>1, <2>4 DEF Typed, TypeOK, Item
<1> QED BY <1>1, PassInvariant, PTL

\* Claims are made one at a time at every concurrency.
THEOREM ClaimsNeverOverlap == Spec => []OneClaimAtATime
    BY PassInvariant, ClaimsAreSerial, PTL

\* Every claimed item is in exactly one counter once its stage has ended.
THEOREM ItemsAreCounted == Spec => []EveryItemIsCounted
<1>1. PassInv => EveryItemIsCounted
    BY DEF PassInv
<1> QED BY <1>1, PassInvariant, PTL

\* A source found empty or raising is not asked again in its pass.
THEOREM DrainedStaysAlone == Spec => DrainedIsLeftAlone
<1>1. [Next]_vars => [drained /\ drained' => attempts' = attempts]_vars
    BY DEF Next, vars, counts, Begin, End, TakeNothing, Take, Exhausted, ClaimAnswers, Beat,
           BeatAnswers, StrayAnswers, ClaimLeaves, PerformEnds
<1> QED BY <1>1, PTL DEF Spec, DrainedIsLeftAlone

-----------------------------------------------------------------------------
\* What backs the loop off, and what gives an item up.
Marks == OnlyRaisesBackOff /\ LostClaimIsOwn /\ Typed

LEMMA ReasonsArePreserved ==
    ASSUME Marks, Typed', [Next]_vars PROVE OnlyRaisesBackOff'
<1> USE DEF Marks, OnlyRaisesBackOff
<1>1. CASE Begin
    BY <1>1 DEF Begin
<1>2. ASSUME NEW s \in Slot, PerformEnds(s) PROVE OnlyRaisesBackOff'
  <2>1. PICK returned \in BOOLEAN :
        /\ failed' = failed + (IF "failed" \in Outcomes(s, returned) THEN 1 ELSE 0)
        /\ raised' = (raised \/ \E o \in Outcomes(s, returned) : Raises(o))
    BY <1>2 DEF PerformEnds
  <2>2. failed \in Nat /\ drained' = drained
    BY <1>2 DEF Typed, PerformEnds
  <2>3. (\E o \in Outcomes(s, returned) : Raises(o)) <=> "failed" \in Outcomes(s, returned)
    BY DEF Raises
  <2>4. CASE "failed" \in Outcomes(s, returned)
    <3>1. failed' > 0
        BY <2>1, <2>2, <2>4
    <3>2. raised'
        BY <2>1, <2>3, <2>4, Zenon
    <3> QED BY <3>1, <3>2
  <2>5. CASE "failed" \notin Outcomes(s, returned)
    <3>1. failed' = failed
        BY <2>1, <2>2, <2>5
    <3>2. raised' <=> raised
        BY <2>1, <2>3, <2>5, Zenon
    <3> QED BY <2>2, <3>1, <3>2
  <2> QED BY <2>4, <2>5
<1>3. ASSUME NEW s \in Slot, ClaimAnswers(s) PROVE OnlyRaisesBackOff'
  <2>1. failed' = failed
    BY <1>3 DEF ClaimAnswers
  <2>2. ((raised' <=> raised) /\ (drained' <=> drained)) \/ drained'
    BY <1>3, Zenon DEF ClaimAnswers
  <2>3. raised => raised'
    BY <1>3, Zenon DEF ClaimAnswers
  <2> QED BY <2>1, <2>2, <2>3
<1>4. CASE UNCHANGED <<failed, raised, drained>>
    BY <1>4
<1> QED BY <1>1, <1>2, <1>3, <1>4 DEF Next, vars, counts, End, TakeNothing, Take, Beat,
           BeatAnswers, StrayAnswers, ClaimLeaves

LEMMA LossesArePreserved ==
    ASSUME Marks, [Next]_vars PROVE LostClaimIsOwn'
<1> USE DEF Marks, LostClaimIsOwn
<1>1. ASSUME NEW s \in Slot, ClaimAnswers(s) \/ PerformEnds(s) PROVE LostClaimIsOwn'
  <2>1. item' = item \/ item' = [item EXCEPT ![s] = Fresh] \/ item' = [item EXCEPT ![s] = NoItem]
    BY <1>1 DEF ClaimAnswers, PerformEnds
  <2> QED BY <2>1 DEF Typed, Fresh, NoItem
<1>2. ASSUME NEW s \in Slot, Beat(s) \/ BeatAnswers(s) \/ ClaimLeaves(s) PROVE LostClaimIsOwn'
  <2>1. item[s] \in Item /\ item \in [Slot -> Item]
    BY DEF Typed
  <2>2. CASE Beat(s)
    BY <2>1, <2>2 DEF Beat, Item
  <2>3. CASE BeatAnswers(s)
    <3>1. item[s].held # "own" \/ item' = [item EXCEPT ![s] = [@ EXCEPT !.beat = "armed"]]
        BY <2>3 DEF BeatAnswers
    <3>2. /\ \A r \in Slot \ {s} : item'[r] = item[r]
          /\ item'[s].held = item[s].held /\ item'[s].lost \in {item[s].lost, TRUE}
        BY <2>1, <2>3 DEF BeatAnswers, Item
    <3>3. CASE item[s].held # "own"
        BY <3>2, <3>3
    <3>4. CASE item' = [item EXCEPT ![s] = [@ EXCEPT !.beat = "armed"]]
        BY <2>1, <3>4 DEF Item
    <3> QED BY <3>1, <3>3, <3>4
  <2>4. CASE ClaimLeaves(s)
    BY <2>1, <2>4 DEF ClaimLeaves, Item
  <2> QED BY <1>2, <2>2, <2>3, <2>4
<1>3. CASE item' = item
    BY <1>3
<1> QED BY <1>1, <1>2, <1>3 DEF Next, vars, Begin, End, TakeNothing, Take, StrayAnswers, MarkPast

LEMMA MarksHold == Spec => []Marks
<1>1. Init /\ Typed => Marks
    BY DEF Init, Marks, OnlyRaisesBackOff, LostClaimIsOwn, NoItem
<1>2. Marks /\ Typed' /\ [Next]_vars => Marks'
    BY ReasonsArePreserved, LossesArePreserved DEF Marks
<1>3. PassInv => Typed
    BY DEF PassInv
<1> QED BY <1>1, <1>2, <1>3, PassInvariant, PTL DEF Spec

\* Only what raised backs the loop off, never a claim another process took.
THEOREM ContentionNeverBacksOff == Spec => []OnlyRaisesBackOff
<1>1. Marks => OnlyRaisesBackOff
    BY DEF Marks
<1> QED BY <1>1, MarksHold, PTL

\* An item is given up as lost only when its own claim was.
THEOREM LossIsTheItemsOwn == Spec => []LostClaimIsOwn
<1>1. Marks => LostClaimIsOwn
    BY DEF Marks
<1> QED BY <1>1, MarksHold, PTL
-----------------------------------------------------------------------------
(***************************************************************************)
(* The delay.  `Doubled` is a recursive function over Nat: that there is   *)
(* one is shown piece by piece, and what it returns by induction, both of  *)
(* them over the set of numbers for which they hold.                       *)
(***************************************************************************)
Below == {pair \in Nat \X Nat : pair[1] < pair[2]}

\* A non-empty set of natural numbers has a least one.
LEMMA LeastNumber ==
    ASSUME NEW S \in SUBSET Nat, S # {}
    PROVE  \E n \in S : \A k \in S : n <= k
<1>1. IsWellFoundedOn(Below, Nat)
    BY NatLessThanWellFounded DEF OpToRel, Below
<1>2. PICK n \in S : \A k \in S : ~(<<k, n>> \in Below)
    BY <1>1, WFMin
<1>3. ASSUME NEW k \in S PROVE n <= k
  <2>1. k \in Nat /\ n \in Nat /\ ~(<<k, n>> \in Below)
    BY <1>2
  <2>2. ~(k < n)
    BY <2>1 DEF Below
  <2> QED BY <2>1, <2>2
<1> QED BY <1>3

\* A set that holds 0, and with each number the next, holds every number.
LEMMA EveryNumberReached ==
    ASSUME NEW S, 0 \in S, \A n \in Nat : n \in S => n + 1 \in S
    PROVE  Nat \subseteq S
<1> SUFFICES ASSUME NEW x \in Nat \ S PROVE FALSE
    OBVIOUS
<1>1. PICK n \in Nat \ S : \A k \in Nat \ S : n <= k
    BY LeastNumber
<1>2. n # 0 /\ n - 1 \in Nat
    BY <1>1
<1>3. n - 1 \in S
    BY <1>1, <1>2
<1> QED BY <1>1, <1>2, <1>3

\* `g` doubles the interval up to `n` times.
Doubles(g, n) == /\ g \in [0 .. n -> Nat]
                 /\ g[0] = IntervalMs
                 /\ \A k \in 1 .. n : g[k] = 2 * g[k - 1]
Doubling(n) == CHOOSE g : Doubles(g, n)

LEMMA DoublingsExist == \A n \in Nat : \E g : Doubles(g, n)
<1> DEFINE S == {n \in Nat : \E g : Doubles(g, n)}
<1>1. 0 \in S
  <2>1. Doubles([k \in 0 .. 0 |-> IntervalMs], 0)
    BY PassAssumption DEF Doubles
  <2> QED BY <2>1
<1>2. ASSUME NEW n \in Nat, n \in S PROVE n + 1 \in S
  <2>1. PICK g : Doubles(g, n)
    BY <1>2
  <2> DEFINE h == [k \in 0 .. n + 1 |-> IF k <= n THEN g[k] ELSE 2 * g[n]]
  <2>2. g \in [0 .. n -> Nat] /\ n \in 0 .. n /\ g[n] \in Nat
    BY <2>1 DEF Doubles
  <2>3. h \in [0 .. n + 1 -> Nat]
    BY <2>2
  <2>4. h[0] = IntervalMs
    BY <2>1 DEF Doubles
  <2>5. ASSUME NEW k \in 1 .. n + 1 PROVE h[k] = 2 * h[k - 1]
    <3>1. CASE k <= n
        <4>1. k \in 1 .. n /\ k \in 0 .. n + 1 /\ k - 1 \in 0 .. n + 1 /\ k - 1 <= n
            BY <3>1
        <4>2. h[k] = g[k] /\ h[k - 1] = g[k - 1]
            BY <3>1, <4>1
        <4> QED BY <2>1, <4>1, <4>2 DEF Doubles
    <3>2. CASE k = n + 1
        <4>1. h[k] = 2 * g[n] /\ h[k - 1] = g[n]
            BY <3>2
        <4> QED BY <4>1
    <3> QED BY <3>1, <3>2
  <2>6. Doubles(h, n + 1)
    BY <2>3, <2>4, <2>5 DEF Doubles
  <2> QED BY <2>6
<1>3. Nat \subseteq S
  <2> HIDE DEF S
  <2> QED BY <1>1, <1>2, EveryNumberReached
<1> QED BY <1>3

\* Two that double as far as either is asked agree.
LEMMA DoublingsAgree ==
    ASSUME NEW n \in Nat, NEW g, Doubles(g, n), NEW h, Doubles(h, n + 1)
    PROVE  g[n] = h[n]
<1> DEFINE S == {k \in Nat : k <= n => g[k] = h[k]}
<1>1. 0 \in S
    BY DEF Doubles
<1>2. ASSUME NEW k \in Nat, k \in S PROVE k + 1 \in S
  <2>1. CASE k + 1 <= n
    <3>1. k + 1 \in 1 .. n /\ k + 1 \in 1 .. n + 1 /\ (k + 1) - 1 = k /\ k <= n
        BY <2>1
    <3>2. g[k] = h[k]
        BY <1>2, <3>1
    <3>3. g[k + 1] = 2 * g[k] /\ h[k + 1] = 2 * h[k]
        BY <3>1 DEF Doubles
    <3> QED BY <3>2, <3>3
  <2> QED BY <2>1
<1>3. n \in S
  <2> HIDE DEF S
  <2> QED BY <1>1, <1>2, EveryNumberReached
<1> QED BY <1>3

\* What the definition of `Doubled` says is so: the recursion has a solution.
LEMMA DoubledUnfolds ==
    Doubled = [n \in Nat |-> IF n = 0 THEN IntervalMs ELSE 2 * Doubled[n - 1]]
<1> DEFINE F == [n \in Nat |-> Doubling(n)[n]]
<1>1. ASSUME NEW n \in Nat PROVE Doubles(Doubling(n), n)
    BY DoublingsExist DEF Doubling
<1>2. ASSUME NEW n \in Nat PROVE F[n] = IF n = 0 THEN IntervalMs ELSE 2 * F[n - 1]
  <2>1. CASE n = 0
    BY <1>1, <2>1 DEF Doubles
  <2>2. CASE n # 0
    <3>1. n - 1 \in Nat /\ n \in 1 .. n /\ (n - 1) + 1 = n
        BY <2>2
    <3>2. Doubles(Doubling(n), n) /\ Doubles(Doubling(n - 1), n - 1)
        BY <1>1, <3>1
    <3>3. Doubling(n - 1)[n - 1] = Doubling(n)[n - 1]
        BY <3>1, <3>2, DoublingsAgree
    <3>4. Doubling(n)[n] = 2 * Doubling(n)[n - 1]
        BY <3>1, <3>2 DEF Doubles
    <3> QED BY <2>2, <3>1, <3>3, <3>4
  <2> QED BY <2>1, <2>2
<1>3. F = [n \in Nat |-> IF n = 0 THEN IntervalMs ELSE 2 * F[n - 1]]
  <2> DEFINE G == [n \in Nat |-> IF n = 0 THEN IntervalMs ELSE 2 * F[n - 1]]
  <2>1. \A n \in Nat : F[n] = G[n]
    BY <1>2
  <2> QED BY <2>1
<1> HIDE DEF F
<1> QED BY <1>3 DEF Doubled

\* The doubled interval is at least the interval.
LEMMA DoubledIsPositive == \A n \in Nat : Doubled[n] \in Nat /\ Doubled[n] >= IntervalMs
<1> DEFINE S == {n \in Nat : Doubled[n] \in Nat /\ Doubled[n] >= IntervalMs}
<1>1. Doubled[0] = IntervalMs
    BY DoubledUnfolds
<1>2. 0 \in S
    BY <1>1, PassAssumption
<1>3. ASSUME NEW n \in Nat, n \in S PROVE n + 1 \in S
  <2>1. Doubled[n + 1] = 2 * Doubled[n]
    BY DoubledUnfolds
  <2> QED BY <1>3, <2>1, PassAssumption
<1>4. Nat \subseteq S
  <2> HIDE DEF S
  <2> QED BY <1>2, <1>3, EveryNumberReached
<1> QED BY <1>4

LEMMA DoubledGrows == \A n \in Nat : Doubled[n] <= Doubled[n + 1]
<1> TAKE n \in Nat
<1>1. Doubled[n + 1] = 2 * Doubled[n]
    BY DoubledUnfolds
<1> QED BY <1>1, DoubledIsPositive

LEMMA LongestDelay == MaxMs \in Nat /\ IntervalMs <= MaxMs
    BY PassAssumption DEF MaxMs, Larger, Smaller

LEMMA DelayWithinBounds == \A n \in Nat : Delay(n) \in IntervalMs .. MaxMs
<1> TAKE n \in Nat
<1>1. CASE n = 0
    BY <1>1, LongestDelay, PassAssumption DEF Delay
<1>2. CASE n # 0
  <2> DEFINE k == Smaller(n - 1, MaxDoublings)
  <2>1. k \in Nat
    BY <1>2, PassAssumption DEF Smaller
  <2> HIDE DEF k
  <2>2. Doubled[k] \in Nat /\ Doubled[k] >= IntervalMs
    BY <2>1, DoubledIsPositive
  <2>3. Delay(n) = Smaller(MaxMs, Doubled[k])
    BY <1>2 DEF Delay, k
  <2> QED BY <2>2, <2>3, LongestDelay, PassAssumption DEF Smaller
<1> QED BY <1>1, <1>2

LEMMA DelayGrows == \A n \in Nat : Delay(n) <= Delay(n + 1)
<1> TAKE n \in Nat
<1>1. CASE n = 0
  <2>1. Delay(n + 1) \in IntervalMs .. MaxMs
    BY DelayWithinBounds
  <2> QED BY <1>1, <2>1, PassAssumption, LongestDelay DEF Delay
<1>2. CASE n # 0
  <2> DEFINE k == Smaller(n - 1, MaxDoublings)
             l == Smaller((n + 1) - 1, MaxDoublings)
  <2>1. k \in Nat /\ (l = k \/ l = k + 1)
    BY <1>2, PassAssumption DEF Smaller
  <2>2. Delay(n) = Smaller(MaxMs, Doubled[k]) /\ Delay(n + 1) = Smaller(MaxMs, Doubled[l])
    BY <1>2 DEF Delay
  <2> HIDE DEF k, l
  <2>3. Doubled[k] <= Doubled[l] /\ Doubled[k] \in Nat /\ Doubled[l] \in Nat
    BY <2>1, DoubledGrows, DoubledIsPositive
  <2> QED BY <2>2, <2>3, LongestDelay DEF Smaller
<1> QED BY <1>1, <1>2

\* However often passes raise in a row, the delay is at least the interval,
\* grows with the failures and never passes maxMs, at every interval.
THEOREM DelaysStayBounded == Spec => []DelayIsBounded
<1>1. PassInv => DelayIsBounded
  <2> SUFFICES ASSUME PassInv PROVE DelayIsBounded
    OBVIOUS
  <2>1. failures \in Nat /\ failures <= MaxDoublings + 1
    BY PassAssumption DEF PassInv, Typed
  <2>2. Delay(failures) \in IntervalMs .. MaxMs
    BY <2>1, DelayWithinBounds
  <2>3. Delay(failures) <= Delay(NextFailures) \/ NextFailures = 0
    <3>1. NextFailures \in {0, failures, failures + 1}
        BY <2>1, PassAssumption DEF NextFailures, Smaller
    <3>2. Delay(failures) \in Int
        BY <2>2, LongestDelay, PassAssumption
    <3> QED BY <2>1, <3>1, <3>2, DelayGrows
  <2> QED BY <2>2, <2>3 DEF DelayIsBounded
<1> QED BY <1>1, PassInvariant, PTL

-----------------------------------------------------------------------------
(***************************************************************************)
(* A pass ends.  Two facts of the states and the steps that say so for     *)
(* every concurrency: while a pass runs somebody can go on, and each       *)
(* answer uses up some of the effort that is left, renewals none.          *)
(***************************************************************************)
\* Whoever waits or claims stands in the claim chain.
Waits == \A s \in Slot : at[s] \in {"queued", "claiming"} =>
             \E i \in 1 .. Len(queue) : queue[i] = s

\* A pass that runs can end, or a callback of it has to answer, or the first of
\* the claim chain may claim or finds nothing: no slot is stranded.
PassCanGoOn == running => \/ \A s \in Slot : at[s] = "done"
                          \/ \E s \in Slot : \/ at[s] \in {"claiming", "working"}
                                             \/ at[s] = "queued" /\ Turn(s)

In(S) == {s \in Slot : at[s] \in S}
\* What is left to do: a claim weighs three, work two, waiting one.
Effort == 3 * (BatchLimit - attempts) + Cardinality(In({"claiming"}))
          + Cardinality(In({"claiming", "working"}))
          + Cardinality(In({"claiming", "working", "queued"}))
MostEffort == 3 * BatchLimit + Cardinality(Slot)

GoesOn == \E s \in Slot : TakeNothing(s) \/ Take(s) \/ ClaimAnswers(s) \/ PerformEnds(s)

\* A pass begins with no more than MostEffort, spends some with each answer of a
\* claim or of a stage, and none with a renewal.
EffortIsSpent == [][/\ Begin => Effort' = MostEffort
                    /\ GoesOn => Effort' < Effort /\ Effort' \in Nat
                    /\ running /\ ~GoesOn => Effort' = Effort]_vars

LEMMA WaitsNext == PassInv /\ Waits /\ [Next]_vars => Waits'
<1> SUFFICES ASSUME PassInv, Waits, [Next]_vars PROVE Waits'
    OBVIOUS
<1> USE DEF PassInv, Waits
<1>1. CASE Begin
  <2>1. Slot = 1 .. Smaller(Concurrency, BatchLimit) /\ Smaller(Concurrency, BatchLimit) \in Nat
    BY SlotsAreNumbered
  <2>2. Len(queue') = Smaller(Concurrency, BatchLimit) /\ \A s \in Slot : queue'[s] = s
    BY <1>1, <2>1 DEF Begin
  <2> QED BY <2>1, <2>2
<1>2. ASSUME NEW s \in Slot, TakeNothing(s) \/ ClaimAnswers(s) PROVE Waits'
  <2>1. queue # <<>> /\ Head(queue) = s /\ queue' = Tail(queue) /\ Distinct(queue)
    BY <1>2 DEF TakeNothing, ClaimAnswers, Turn, Chain
  <2>2. at' = [at EXCEPT ![s] = "done"] \/ at' = [at EXCEPT ![s] = "working"]
    BY <1>2 DEF TakeNothing, ClaimAnswers
  <2>3. ASSUME NEW r \in Slot, at'[r] \in {"queued", "claiming"}
        PROVE  \E i \in 1 .. Len(queue') : queue'[i] = r
    <3>1. r # s /\ at[r] \in {"queued", "claiming"}
        BY <2>2, <2>3 DEF Typed
    <3>2. PICK i \in 1 .. Len(queue) : queue[i] = r
        BY <3>1
    <3>3. queue \in Seq(Slot) /\ Len(queue) \in Nat /\ queue[1] = s
        BY <2>1 DEF Typed
    <3>4. i # 1 /\ i - 1 \in 1 .. Len(Tail(queue)) /\ Tail(queue)[i - 1] = queue[(i - 1) + 1]
        BY <2>1, <3>1, <3>2, <3>3, TailKeepsChain
    <3> QED BY <2>1, <3>2, <3>4
  <2> QED BY <2>3
<1>3. ASSUME NEW s \in Slot, Take(s) PROVE Waits'
  <2>1. queue' = queue /\ at' = [at EXCEPT ![s] = "claiming"] /\ at[s] = "queued"
    BY <1>3 DEF Take
  <2> QED BY <2>1 DEF Typed
<1>4. ASSUME NEW s \in Slot, PerformEnds(s) PROVE Waits'
  <2>1. at[s] = "working" /\ queue' = Append(queue, s) /\ at' = [at EXCEPT ![s] = "queued"]
    BY <1>4 DEF PerformEnds
  <2>2. \A i \in 1 .. Len(queue) : queue[i] # s
    BY <2>1 DEF Chain
  <2>3. /\ Len(queue') = Len(queue) + 1 /\ Len(queue) \in Nat /\ queue'[Len(queue) + 1] = s
        /\ \A i \in 1 .. Len(queue) : queue'[i] = queue[i]
    BY <2>1, <2>2, AppendKeepsChain DEF Typed, Chain
  <2>4. ASSUME NEW r \in Slot, at'[r] \in {"queued", "claiming"}
        PROVE  \E i \in 1 .. Len(queue') : queue'[i] = r
    <3>1. CASE r = s
        BY <2>3, <3>1
    <3>2. CASE r # s
      <4>1. at[r] \in {"queued", "claiming"}
        BY <2>1, <2>4, <3>2 DEF Typed
      <4>2. PICK i \in 1 .. Len(queue) : queue[i] = r
        BY <4>1
      <4> QED BY <2>3, <4>2
    <3> QED BY <3>1, <3>2
  <2> QED BY <2>4
<1>5. CASE UNCHANGED <<at, queue>>
    BY <1>5
<1> QED BY <1>1, <1>2, <1>3, <1>4, <1>5
        DEF Next, vars, End, Beat, BeatAnswers, StrayAnswers, ClaimLeaves

\* However many slots share a pass, it is never stuck: what is behind a claim that
\* found nothing, or raised, gets its turn.
THEOREM PassesNeverStall == Spec => []PassCanGoOn
<1>1. Init => Waits
    BY DEF Init, Waits
<1>2. PassInv /\ Waits => PassCanGoOn
  <2> SUFFICES ASSUME PassInv, Waits, NEW s \in Slot, at[s] # "done"
               PROVE  \E r \in Slot : \/ at[r] \in {"claiming", "working"}
                                      \/ at[r] = "queued" /\ Turn(r)
    BY DEF PassCanGoOn
  <2>1. CASE at[s] \in {"claiming", "working"}
    BY <2>1
  <2>2. CASE at[s] = "queued"
    <3>1. queue \in Seq(Slot) /\ queue # <<>>
        BY <2>2 DEF PassInv, Typed, Waits
    <3>2. 1 \in 1 .. Len(queue) /\ queue[1] \in Slot /\ Head(queue) = queue[1]
        BY <3>1
    <3>3. at[queue[1]] \in {"queued", "claiming"}
        BY <3>2 DEF PassInv, Chain
    <3> QED BY <3>1, <3>2, <3>3 DEF Turn
  <2> QED BY <2>1, <2>2 DEF PassInv, Typed
<1> QED BY <1>1, <1>2, WaitsNext, PassInvariant, PTL DEF Spec

\* One slot moves: a set of places loses it or gains it.
LEMMA OneMoves ==
    ASSUME Typed, NEW s \in Slot, NEW x, at' = [at EXCEPT ![s] = x], NEW S
    PROVE  /\ Cardinality(In(S)) \in Nat /\ Cardinality(In(S)') \in Nat
           /\ (at[s] \in S <=> x \in S) => Cardinality(In(S)') = Cardinality(In(S))
           /\ at[s] \in S /\ x \notin S => Cardinality(In(S)') = Cardinality(In(S)) - 1
           /\ at[s] \notin S /\ x \in S => Cardinality(In(S)') = Cardinality(In(S)) + 1
<1>1. /\ at'[s] = x
      /\ \A r \in Slot \ {s} : at'[r] = at[r]
    BY DEF Typed
<1>2. In(S) \subseteq Slot /\ In(S)' \subseteq Slot
    BY DEF In
<1>3. /\ IsFiniteSet(In(S)) /\ Cardinality(In(S)) \in Nat
      /\ IsFiniteSet(In(S)') /\ Cardinality(In(S)') \in Nat
    BY <1>2, SlotIsFinite, FS_Subset, FS_CardinalityType
<1>4. CASE at[s] \in S <=> x \in S
  <2>1. In(S)' = In(S)
    BY <1>1, <1>4 DEF In
  <2> QED BY <1>3, <1>4, <2>1
<1>5. CASE at[s] \in S /\ x \notin S
  <2>1. In(S)' = In(S) \ {s} /\ s \in In(S)
    BY <1>1, <1>5 DEF In
  <2>2. Cardinality(In(S)') = Cardinality(In(S)) - 1
    BY <1>3, <2>1, FS_RemoveElement
  <2> QED BY <1>3, <1>5, <2>2
<1>6. CASE at[s] \notin S /\ x \in S
  <2>1. In(S)' = In(S) \cup {s} /\ s \notin In(S)
    BY <1>1, <1>6 DEF In
  <2>2. Cardinality(In(S)') = Cardinality(In(S)) + 1
    BY <1>3, <2>1, FS_AddElement
  <2> QED BY <1>3, <1>6, <2>2
<1> QED BY <1>4, <1>5, <1>6

\* An answer moves its slot to where less is left to do.
LEMMA AnswersSpend ==
    ASSUME PassInv, PassInv', NEW s \in Slot,
           TakeNothing(s) \/ Take(s) \/ ClaimAnswers(s) \/ PerformEnds(s)
    PROVE  Effort' < Effort /\ Effort' \in Nat
<1> DEFINE c == {"claiming"}
           w == {"claiming", "working"}
           q == {"claiming", "working", "queued"}
<1>0. attempts \in 0 .. BatchLimit /\ attempts' \in 0 .. BatchLimit /\ BatchLimit \in Nat
    BY PassAssumption DEF PassInv, Typed
<1>1. PICK x \in {"queued", "claiming", "working", "done"} : at' = [at EXCEPT ![s] = x]
    BY DEF TakeNothing, Take, ClaimAnswers, PerformEnds
<1>2. \/ at[s] = "queued" /\ x = "claiming" /\ attempts' = attempts + 1
      \/ attempts' = attempts /\ \/ at[s] = "queued" /\ x = "done"
                                 \/ at[s] = "claiming" /\ x \in {"working", "done"}
                                 \/ at[s] = "working" /\ x = "queued"
  <2>1. at'[s] = x
    BY <1>1 DEF PassInv, Typed
  <2> QED BY <2>1 DEF TakeNothing, Take, ClaimAnswers, PerformEnds, PassInv, Typed, counts
<1>3. Typed
    BY DEF PassInv
<1>4. /\ Cardinality(In(c)) \in Nat /\ Cardinality(In(c)') \in Nat
      /\ (at[s] \in c <=> x \in c) => Cardinality(In(c)') = Cardinality(In(c))
      /\ at[s] \in c /\ x \notin c => Cardinality(In(c)') = Cardinality(In(c)) - 1
      /\ at[s] \notin c /\ x \in c => Cardinality(In(c)') = Cardinality(In(c)) + 1
    BY <1>1, <1>3, OneMoves, Zenon
<1>5. /\ Cardinality(In(w)) \in Nat /\ Cardinality(In(w)') \in Nat
      /\ (at[s] \in w <=> x \in w) => Cardinality(In(w)') = Cardinality(In(w))
      /\ at[s] \in w /\ x \notin w => Cardinality(In(w)') = Cardinality(In(w)) - 1
      /\ at[s] \notin w /\ x \in w => Cardinality(In(w)') = Cardinality(In(w)) + 1
    BY <1>1, <1>3, OneMoves, Zenon
<1>6. /\ Cardinality(In(q)) \in Nat /\ Cardinality(In(q)') \in Nat
      /\ (at[s] \in q <=> x \in q) => Cardinality(In(q)') = Cardinality(In(q))
      /\ at[s] \in q /\ x \notin q => Cardinality(In(q)') = Cardinality(In(q)) - 1
      /\ at[s] \notin q /\ x \in q => Cardinality(In(q)') = Cardinality(In(q)) + 1
    BY <1>1, <1>3, OneMoves, Zenon
<1> DEFINE nc == Cardinality(In(c))
           nw == Cardinality(In(w))
           nq == Cardinality(In(q))
<1>7. /\ Effort = 3 * (BatchLimit - attempts) + nc + nw + nq
      /\ Effort' = 3 * (BatchLimit - attempts') + nc' + nw' + nq'
    BY DEF Effort
<1>8. /\ nc \in Nat /\ nc' \in Nat /\ nw \in Nat /\ nw' \in Nat /\ nq \in Nat /\ nq' \in Nat
      /\ \/ attempts' = attempts + 1 /\ nc' = nc + 1 /\ nw' = nw + 1 /\ nq' = nq
         \/ attempts' = attempts /\ nc' = nc /\ nw' = nw /\ nq' = nq - 1
         \/ attempts' = attempts /\ nc' = nc - 1 /\ nw' = nw /\ nq' = nq
         \/ attempts' = attempts /\ nc' = nc - 1 /\ nw' = nw - 1 /\ nq' = nq - 1
         \/ attempts' = attempts /\ nc' = nc /\ nw' = nw - 1 /\ nq' = nq
    BY <1>2, <1>4, <1>5, <1>6
<1>9. ASSUME NEW a \in Int, NEW b \in Int, NEW k \in Nat, NEW l \in Nat, NEW m \in Nat,
             NEW k2 \in Nat, NEW l2 \in Nat, NEW m2 \in Nat, a >= 0, b >= 0,
             \/ b = a - 1 /\ k2 = k + 1 /\ l2 = l + 1 /\ m2 = m
             \/ b = a /\ k2 <= k /\ l2 <= l /\ m2 <= m /\ k2 + l2 + m2 < k + l + m
      PROVE  3 * b + k2 + l2 + m2 < 3 * a + k + l + m /\ 3 * b + k2 + l2 + m2 \in Nat
    BY <1>9
<1> DEFINE a == BatchLimit - attempts
           b == BatchLimit - attempts'
<1>10. /\ a \in Int /\ b \in Int /\ a >= 0 /\ b >= 0
       /\ attempts' = attempts => b = a
       /\ attempts' = attempts + 1 => b = a - 1
  <2>1. \A m, n, k \in Int : k = n + 1 => m - k = (m - n) - 1
    OBVIOUS
  <2>2. \A m \in Nat : \A n \in 0 .. m : n \in Int /\ m \in Int /\ m - n \in Int /\ m - n >= 0
    OBVIOUS
  <2> QED BY <1>0, <2>1, <2>2, Zenon
<1>11. Effort = 3 * a + nc + nw + nq /\ Effort' = 3 * b + nc' + nw' + nq'
    BY <1>7
<1> HIDE DEF nc, nw, nq, a, b
<1>12. \/ b = a - 1 /\ nc' = nc + 1 /\ nw' = nw + 1 /\ nq' = nq
       \/ b = a /\ nc' <= nc /\ nw' <= nw /\ nq' <= nq /\ nc' + nw' + nq' < nc + nw + nq
  <2>1. CASE attempts' = attempts + 1 /\ nc' = nc + 1 /\ nw' = nw + 1 /\ nq' = nq
    BY <1>10, <2>1
  <2>2. CASE attempts' = attempts /\ nc' = nc /\ nw' = nw /\ nq' = nq - 1
    BY <1>8, <1>10, <2>2
  <2>3. CASE attempts' = attempts /\ nc' = nc - 1 /\ nw' = nw /\ nq' = nq
    BY <1>8, <1>10, <2>3
  <2>4. CASE attempts' = attempts /\ nc' = nc - 1 /\ nw' = nw - 1 /\ nq' = nq - 1
    BY <1>8, <1>10, <2>4
  <2>5. CASE attempts' = attempts /\ nc' = nc /\ nw' = nw - 1 /\ nq' = nq
    BY <1>8, <1>10, <2>5
  <2> QED BY <1>8, <2>1, <2>2, <2>3, <2>4, <2>5
<1>13. 3 * b + nc' + nw' + nq' < 3 * a + nc + nw + nq /\ 3 * b + nc' + nw' + nq' \in Nat
    BY <1>8, <1>9, <1>10, <1>12
<1> QED BY <1>11, <1>13

\* At every concurrency and batch limit a pass takes at most MostEffort answers of
\* its claims and stages: each spends some of what is left, and renewals, takeovers
\* and strays, of which there may be any number, neither spend nor add any.
THEOREM PassesAreFinite == Spec => EffortIsSpent
<1>1. ASSUME PassInv, PassInv', Begin PROVE Effort' = MostEffort
  <2>1. In({"claiming"})' = {} /\ In({"claiming", "working"})' = {}
        /\ In({"claiming", "working", "queued"})' = Slot /\ attempts' = 0
    BY <1>1 DEF Begin, In
  <2>2. Cardinality({}) = 0 /\ Cardinality(Slot) \in Nat
    BY FS_EmptySet, SlotIsFinite, FS_CardinalityType
  <2>3. Effort' = 3 * (BatchLimit - 0) + 0 + 0 + Cardinality(Slot)
    BY <2>1, <2>2 DEF Effort
  <2> QED BY <2>2, <2>3, PassAssumption DEF MostEffort
<1>2. ASSUME PassInv, PassInv', GoesOn PROVE Effort' < Effort /\ Effort' \in Nat
    BY <1>2, AnswersSpend DEF GoesOn
<1>3. ASSUME [Next]_vars, running, ~GoesOn PROVE Effort' = Effort
  <2>1. UNCHANGED <<at, attempts>>
    BY <1>3 DEF Next, GoesOn, Begin, End, Beat, BeatAnswers, StrayAnswers, ClaimLeaves, counts, vars
  <2> QED BY <2>1 DEF Effort, In
<1>4. PassInv /\ PassInv' /\ [Next]_vars =>
        [/\ Begin => Effort' = MostEffort
         /\ GoesOn => Effort' < Effort /\ Effort' \in Nat
         /\ running /\ ~GoesOn => Effort' = Effort]_vars
    BY <1>1, <1>2, <1>3
<1> QED BY <1>4, PassInvariant, PTL DEF Spec, EffortIsSpent
=============================================================================
