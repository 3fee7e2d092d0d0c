--------------------------- MODULE DeliveryPromise ---------------------------
(***************************************************************************)
(* What notifications.core promises of a published event                   *)
(* (modules/notifications/spec/module.yaml): one run of attempts for the   *)
(* publication and one more per replay of a dead letter, numbered without  *)
(* a gap; attempts of a run one after another, at most the budget; an      *)
(* outcome that is final.                                                  *)
(***************************************************************************)
EXTENDS Naturals

CONSTANTS
    Event,        \* what is published, each with its one target
    Mailed,       \* those that leave by mail, not to the webhook subscription
    MaxAttempts,  \* retryMaxAttempts of the workspace
    Run           \* 1 .. the number of runs an event may have

VARIABLES
    tries,  \* tries[e][r]: attempts run r of e has had
    state   \* state[e][r]: of the run, "none" before it

vars == <<tries, state>>

Init ==
    /\ tries = [e \in Event |-> [r \in Run |-> 0]]
    /\ state = [e \in Event |-> [r \in Run |-> "none"]]

Becomes(e, r, s) == state' = [state EXCEPT ![e][r] = s]

\* A publication, or a replay after a dead letter of an earlier run.  A run
\* whose only attempt was dropped left nothing behind and may be opened again.
Open(e, r) ==
    /\ state[e][r] = "none" \/ (state[e][r] = "dropped" /\ tries[e][r] = 1)
    /\ r = 1 => state[e][r] = "none"
    /\ r > 1 => \E q \in 1 .. r - 1 : state[e][q] = "dead"
    /\ \A q \in 1 .. r - 1 : state[e][q] # "none"
    /\ Becomes(e, r, "open")
    /\ tries' = [tries EXCEPT ![e][r] = 1]

Retry(e, r) ==
    /\ state[e][r] = "open" /\ tries[e][r] < MaxAttempts
    /\ tries' = [tries EXCEPT ![e][r] = @ + 1]
    /\ UNCHANGED state

Conclude(e, r) ==
    /\ state[e][r] = "open"
    /\ Becomes(e, r, "succeeded") \/ Becomes(e, r, "dead")
    /\ UNCHANGED tries

\* The subscription is disabled or deleted and takes open webhook runs with it.
Drop ==
    /\ \E D \in SUBSET ((Event \ Mailed) \X Run) :
        /\ \A d \in D : state[d[1]][d[2]] = "open"
        /\ state' = [e \in Event |-> [r \in Run |->
                        IF <<e, r>> \in D THEN "dropped" ELSE state[e][r]]]
    /\ UNCHANGED tries

Next ==
    \/ \E e \in Event, r \in Run : Open(e, r) \/ Retry(e, r) \/ Conclude(e, r)
    \/ Drop

Spec == Init /\ [][Next]_vars
=============================================================================
