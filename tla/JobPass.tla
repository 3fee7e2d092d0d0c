------------------------------ MODULE JobPass ------------------------------
(***************************************************************************)
(* One pass of createJobRunner (packages/server/src/jobs/runner.ts): a     *)
(* pool of slots that claim one after another and perform side by side,    *)
(* each item under a renewal timer of its own.  JobLoop says when a pass   *)
(* runs and that passes do not overlap; this module is what it does.       *)
(*                                                                         *)
(* Grain: one action per callback of the module that owns the work (claim, *)
(* heartbeat, perform) and per answer it gives.  Claims wait in a chain of *)
(* promises, which is the sequence `queue` here.                           *)
(***************************************************************************)
EXTENDS Naturals, Sequences, FiniteSets

CONSTANTS
    Concurrency,   \* items performed at the same time, clamped to 1..64
    BatchLimit,    \* claims one pass may take
    IntervalMs,    \* the loop's interval, at least 1
    MaxDoublings,  \* MAX_BACKOFF_DOUBLINGS, 30 in the code
    MaxStray       \* bound: renewals unanswered when their item ended

ASSUME PassAssumption ==
    /\ Concurrency \in 1 .. 64
    /\ {BatchLimit, IntervalMs} \subseteq Nat \ {0}
    /\ {MaxDoublings, MaxStray} \subseteq Nat

Smaller(a, b) == IF a < b THEN a ELSE b
Larger(a, b) == IF a > b THEN a ELSE b
Slot == 1 .. Smaller(Concurrency, BatchLimit)

VARIABLES
    running,    \* a pass is in flight
    attempts, claimed, performed, failed, claimLost,  \* its counters
    raised,     \* something raised in it
    drained,    \* the source is empty or raised
    queue,      \* the slots behind the claim chain, the first may claim
    at,         \* at[s]: where the loop of slot s is
    item,       \* item[s]: the item it performs
    stray,      \* stray[s]: unanswered renewals of items s has finished with
    failures    \* consecutive passes that raised

counts == <<attempts, claimed, performed, failed, claimLost>>
vars == <<running, counts, raised, drained, queue, at, item, stray, failures>>

\* `held` is the truth the renewal asks about: the claim is the stage's, another
\* process took it, or the stage has settled the item.
NoItem == [beat |-> "off", lost |-> FALSE, held |-> "none"]
Fresh == [beat |-> "armed", lost |-> FALSE, held |-> "own"]
Working == {s \in Slot : at[s] = "working"}

TypeOK ==
    /\ running \in BOOLEAN /\ raised \in BOOLEAN /\ drained \in BOOLEAN
    /\ {attempts, claimed, performed, failed, claimLost} \subseteq 0 .. BatchLimit
    /\ queue \in Seq(Slot) /\ Len(queue) <= Cardinality(Slot)
    /\ at \in [Slot -> {"queued", "claiming", "working", "done"}]
    /\ item \in [Slot -> [beat : {"off", "armed", "asking"}, lost : BOOLEAN,
                          held : {"none", "own", "taken", "settled"}]]
    /\ stray \in [Slot -> 0 .. MaxStray]
    /\ failures \in 0 .. MaxDoublings + 1

Init ==
    /\ running = FALSE
    /\ attempts = 0 /\ claimed = 0 /\ performed = 0 /\ failed = 0 /\ claimLost = 0
    /\ raised = FALSE /\ drained = FALSE
    /\ queue = <<>>
    /\ at = [s \in Slot |-> "done"]
    /\ item = [s \in Slot |-> NoItem]
    /\ stray = [s \in Slot |-> 0]
    /\ failures = 0

-----------------------------------------------------------------------------
\* pass(): every slot asks for a claim before any claim is made.
Begin ==
    /\ ~running
    /\ running' = TRUE
    /\ attempts' = 0 /\ claimed' = 0 /\ performed' = 0 /\ failed' = 0 /\ claimLost' = 0
    /\ raised' = FALSE /\ drained' = FALSE
    /\ queue' = [s \in Slot |-> s]
    /\ at' = [s \in Slot |-> "queued"]
    /\ UNCHANGED <<item, stray, failures>>

(***************************************************************************)
(* take, which claimNext runs for one slot at a time.                      *)
(***************************************************************************)
\* Mutant: every slot claims for itself.
EveryTurn(s) == \E i \in DOMAIN queue : queue[i] = s
Turn(s) == queue # <<>> /\ Head(queue) = s

Exhausted == drained \/ attempts >= BatchLimit

\* Mutant: what waits behind a claim that found nothing is never told.
TakeNothingAtBatch(s) ==
    /\ Turn(s) /\ at[s] = "queued"
    /\ attempts >= BatchLimit
    /\ at' = [at EXCEPT ![s] = "done"]
    /\ queue' = Tail(queue)
    /\ UNCHANGED <<running, counts, raised, drained, item, stray, failures>>
TakeNothing(s) ==
    /\ Turn(s) /\ at[s] = "queued"
    /\ Exhausted
    /\ at' = [at EXCEPT ![s] = "done"]
    /\ queue' = Tail(queue)
    /\ UNCHANGED <<running, counts, raised, drained, item, stray, failures>>

Take(s) ==
    /\ Turn(s) /\ at[s] = "queued"
    /\ ~Exhausted
    /\ attempts' = attempts + 1
    /\ at' = [at EXCEPT ![s] = "claiming"]
    /\ UNCHANGED <<running, claimed, performed, failed, claimLost, raised, drained, queue, item,
                   stray, failures>>

Raises(outcome) == outcome = "failed"

\* The slot comes off the chain; an item starts its renewal timer.
ClaimAnswers(s) ==
    /\ at[s] = "claiming"
    /\ queue' = Tail(queue)
    /\ \/ /\ claimed' = claimed + 1
          /\ at' = [at EXCEPT ![s] = "working"]
          /\ item' = [item EXCEPT ![s] = Fresh]
          /\ UNCHANGED <<drained, raised>>
       \/ /\ drained' = TRUE
          /\ raised' \in {raised, TRUE}
          /\ at' = [at EXCEPT ![s] = "done"]
          /\ UNCHANGED <<claimed, item>>
    /\ UNCHANGED <<running, attempts, performed, failed, claimLost, stray, failures>>

(***************************************************************************)
(* performItem.                                                            *)
(***************************************************************************)
\* The renewal timer fires; a beat that is still asking lets it pass.
Beat(s) ==
    /\ at[s] = "working"
    /\ item[s].beat = "armed"
    /\ stray[s] < MaxStray
    /\ item' = [item EXCEPT ![s] = [@ EXCEPT !.beat = "asking"]]
    /\ UNCHANGED <<running, counts, raised, drained, queue, at, stray, failures>>

\* The renewal landed, or could not be asked; or the claim is not the stage's
\* any more: the timer stops and the stage's signal is aborted.
BeatAnswers(s) ==
    /\ at[s] = "working"
    /\ item[s].beat = "asking"
    /\ \/ item' = [item EXCEPT ![s] = [@ EXCEPT !.beat = "armed"]]
       \/ /\ item[s].held # "own"
          /\ item' = [item EXCEPT ![s] = [@ EXCEPT !.beat = "off", !.lost = TRUE]]
    /\ UNCHANGED <<running, counts, raised, drained, queue, at, stray, failures>>

\* Mutant: `lost` is the slot's, so an answer to a past item marks the present one.
MarkPresent(s) == [item EXCEPT ![s] = [@ EXCEPT !.lost = at[s] = "working"]]
MarkPast(s) == item

\* The answer to a renewal whose item has ended: it aborts a signal nobody reads.
StrayAnswers(s) ==
    /\ stray[s] > 0
    /\ stray' = [stray EXCEPT ![s] = @ - 1]
    /\ item' = MarkPast(s)
    /\ UNCHANGED <<running, counts, raised, drained, queue, at, failures>>

\* Another process takes the claim over, or the stage settles its item.
ClaimLeaves(s) ==
    /\ at[s] = "working"
    /\ item[s].held = "own"
    /\ \E h \in {"taken", "settled"} : item' = [item EXCEPT ![s] = [@ EXCEPT !.held = h]]
    /\ UNCHANGED <<running, counts, raised, drained, queue, at, stray, failures>>

\* A stage that returns performed its item, whatever a late renewal said.
Outcomes(s, returned) ==
    {IF returned THEN "performed" ELSE IF item[s].lost THEN "claim-lost" ELSE "failed"}

\* perform returns or throws; its worker asks for the next claim.
PerformEnds(s) ==
    /\ at[s] = "working"
    /\ \E returned \in BOOLEAN :
        LET outcome == Outcomes(s, returned)
            one(o) == IF o \in outcome THEN 1 ELSE 0
        IN  /\ performed' = performed + one("performed")
            /\ failed' = failed + one("failed")
            /\ claimLost' = claimLost + one("claim-lost")
            /\ raised' = (raised \/ \E o \in outcome : Raises(o))
    /\ at' = [at EXCEPT ![s] = "queued"]
    /\ item' = [item EXCEPT ![s] = NoItem]
    /\ queue' = Append(queue, s)
    /\ stray' = [stray EXCEPT ![s] = @ + IF item[s].beat = "asking" THEN 1 ELSE 0]
    /\ UNCHANGED <<running, attempts, claimed, drained, failures>>

-----------------------------------------------------------------------------
(***************************************************************************)
(* The end of a pass and the delay before the next (jobBackoff, delay).    *)
(***************************************************************************)
NextFailures == IF raised THEN Smaller(failures + 1, MaxDoublings + 1) ELSE 0

MaxMs == Larger(IntervalMs, Smaller(60000, IntervalMs * 10))
\* initialMs * multiplier ** n.
Doubled[n \in Nat] == IF n = 0 THEN IntervalMs ELSE 2 * Doubled[n - 1]

\* Mutant: the doublings are not bounded by maxMs.
DelayUnbounded(n) == IF n = 0 THEN IntervalMs ELSE Doubled[n - 1]
Delay(n) ==
    IF n = 0 THEN IntervalMs
    ELSE Smaller(MaxMs, Doubled[Smaller(n - 1, MaxDoublings)])

End ==
    /\ running
    /\ \A s \in Slot : at[s] = "done"
    /\ running' = FALSE
    /\ failures' = NextFailures
    /\ UNCHANGED <<counts, raised, drained, queue, at, item, stray>>

Next ==
    \/ Begin \/ End
    \/ \E s \in Slot : \/ TakeNothing(s) \/ Take(s) \/ ClaimAnswers(s) \/ Beat(s)
                      \/ BeatAnswers(s) \/ StrayAnswers(s) \/ ClaimLeaves(s) \/ PerformEnds(s)

(***************************************************************************)
(* The module's callbacks answer and the runner goes on; nothing is asked  *)
(* of the renewals, which the end of a pass does not wait for.             *)
(***************************************************************************)
Fairness ==
    /\ WF_vars(End)
    /\ \A s \in Slot : /\ WF_vars(TakeNothing(s)) /\ WF_vars(Take(s))
                      /\ WF_vars(ClaimAnswers(s)) /\ WF_vars(PerformEnds(s))

Spec == Init /\ [][Next]_vars
FairSpec == Spec /\ Fairness

-----------------------------------------------------------------------------
\* Claims are made one at a time however many items are performed ("Claims stay
\* serialized at every setting"): the module's page of candidates has one reader.
OneClaimAtATime == \A r, s \in Slot : at[r] = "claiming" /\ at[s] = "claiming" => r = s

\* Every claimed item is counted in exactly one of the three once its stage ends.
EveryItemIsCounted == claimed = performed + failed + claimLost + Cardinality(Working)

\* A source that was empty or raised is not asked again in the same pass, also
\* by the slots that were already behind the claim that found it so.
DrainedIsLeftAlone == [][drained /\ drained' => attempts' = attempts]_vars

\* Only what raised backs the loop off: a failed item or the source, never a
\* claim another process took over.
OnlyRaisesBackOff == (failed > 0 => raised) /\ (raised => failed > 0 \/ drained)

\* An item is given up as lost only when its own claim was: not for what became
\* of an earlier item of the same slot.
LostClaimIsOwn == \A s \in Slot : item[s].lost => item[s].held # "own"

\* However often passes raise in a row, the next one comes: the delay is at
\* least the interval, grows with the failures and never passes maxMs.
DelayIsBounded ==
    /\ Delay(failures) \in IntervalMs .. MaxMs
    /\ Delay(failures) <= Delay(NextFailures) \/ NextFailures = 0

\* A pass ends once its callbacks answer: no slot waits behind a claim that
\* raised or found nothing.
PassesEnd == running ~> ~running
=============================================================================
