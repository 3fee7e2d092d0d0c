---------------------------- MODULE DeliveryQueue ----------------------------
(***************************************************************************)
(* The delivery queue of modules/notifications: attempts that processes    *)
(* claim through their job runner (services/delivery-runner.ts), send and  *)
(* record (services/delivery-service.ts over database-repository.ts), the  *)
(* webhook subscription they go to (services/webhook-service.ts), and the  *)
(* replay of dead letters.                                                 *)
(*                                                                         *)
(* Grain: one action per database transaction or request.  A claim carries *)
(* no token and is never renewed: it lapses by wall clock alone.           *)
(***************************************************************************)
EXTENDS Naturals, FiniteSets

CONSTANTS
    Process,      \* platform processes in the worker role
    Slots,        \* DELIVERY_CONCURRENCY, 4 in the code
    Operator,     \* requests that replay a dead letter
    Event,        \* published events, each with one target
    Mailed,       \* those whose target is a member's mail
    MaxAttempts,  \* retryMaxAttempts, 1 to 20
    Page,         \* DELIVERY_TICK_LIMIT, 50 in the code
    None,
    Replayed,     \* bound: the events whose dead letters are replayed
    MaxRuns,      \* bound: attempt runs of an event
    MaxChanges,   \* bound: operations on the subscription
    MaxTroubles   \* bound: calls that raise, crashes and takeovers

Sender == Process \X (1 .. Slots)
Run == 1 .. MaxRuns
\* notifications_deliveries_attempt_idx: event and target, sequence, number.
Attempt == Event \X Run \X (1 .. MaxAttempts)
EventOf(a) == a[1]
RunOf(a) == a[2]
NumberOf(a) == a[3]

ASSUME DeliveryAssumption ==
    /\ {Slots, MaxAttempts, Page, MaxRuns} \subseteq Nat \ {0}
    /\ {MaxChanges, MaxTroubles} \subseteq Nat
    /\ Mailed \subseteq Event /\ Replayed \subseteq Event
    /\ None \notin Sender \cup Attempt

VARIABLES
    row,        \* row[a]: status of an attempt, and the sender of its last claim
    ahead,      \* <<b, a>>: of two pending attempts, b is scheduled before a
    published,  \* the events whose inbox items exist
    sub,        \* status of the webhook subscription
    send,       \* send[s]: the attempt a sender performs
    replay,     \* replay[o]: the event and the sequence an operator appends
    sent,       \* sent[e][r]: times an attempt of the run was put on the wire
    changes, troubles

vars == <<row, ahead, published, sub, send, replay, sent, changes, troubles>>

NoSend == [at |-> "idle", attempt |-> None, ok |-> FALSE]
NoReplay == [event |-> None, run |-> 0]
Status(a) == row[a].status
Exists(a) == Status(a) \notin {"absent", "dropped"}
IsOpen(a) == Status(a) \in {"pending", "sending"}
Pending == {a \in Attempt : Status(a) = "pending"}

TypeOK ==
    /\ row \in [Attempt -> [status : {"absent", "pending", "sending", "succeeded", "failed",
                                      "dead", "dropped"},
                            by : Sender \cup {None}]]
    /\ \A a, b \in Pending : a # b => (<<a, b>> \in ahead <=> <<b, a>> \notin ahead)
    /\ ahead \subseteq Pending \X Pending
    /\ published \subseteq Event
    /\ sub \in {"active", "paused", "disabled", "deleted"}
    /\ send \in [Sender -> [at : {"idle", "reading", "sending", "recording", "retrying",
                                  "burying", "releasing"},
                            attempt : Attempt \cup {None}, ok : BOOLEAN]]
    /\ sent \in [Event -> [Run -> Nat]]

Init ==
    /\ row = [a \in Attempt |-> [status |-> "absent", by |-> None]]
    /\ ahead = {} /\ published = {} /\ sub = "active"
    /\ send = [s \in Sender |-> NoSend]
    /\ replay = [o \in Operator |-> NoReplay]
    /\ sent = [e \in Event |-> [r \in Run |-> 0]]
    /\ changes = 0 /\ troubles = 0

\* The order without attempts that are no longer pending.
Leave(D) == ahead' = {x \in ahead : x[1] \notin D /\ x[2] \notin D}
SetStatus(a, status) == row' = [row EXCEPT ![a] = [status |-> status, by |-> None]]
SetSend(s, r) == send' = [send EXCEPT ![s] = r]
Trouble == troubles < MaxTroubles /\ troubles' = troubles + 1

\* INSERT ... ON CONFLICT DO NOTHING: what is scheduled now or later waits
\* behind what was scheduled before it.
Insert(a) ==
    IF Exists(a) THEN UNCHANGED <<row, ahead>>
    ELSE /\ row' = [row EXCEPT ![a] = [status |-> "pending", by |-> None]]
         /\ ahead' = ahead \cup (Pending \X {a})

-----------------------------------------------------------------------------
\* emailAttempts and webhookAttempts: one attempt, of the first run.
FirstAttempt(e) == <<e, 1, 1>>

\* publish: one transaction; a repeat finds the event's inbox items.
Publish(e) ==
    /\ e \notin published
    /\ published' = published \cup {e}
    /\ IF e \in Mailed \/ sub = "active" THEN Insert(FirstAttempt(e))
       ELSE UNCHANGED <<row, ahead>>
    /\ UNCHANGED <<sub, send, replay, sent, changes, troubles>>

(***************************************************************************)
(* claim.  The two routing reads of a pass only choose what is claimed:    *)
(* the claim statement reads the row again, so they are one with it.       *)
(***************************************************************************)
\* The sender of the last claim is still performing the attempt.
Held(a) == \E s \in Sender : row[a].by = s /\ send[s].attempt = a
Due == {a \in Pending : Cardinality({b \in Pending : <<b, a>> \in ahead}) < Page}

\* A claim lapses under the sender that still performs the attempt.
TakesOver(a) == Status(a) = "sending" /\ Held(a)
\* Mutant: the claim statement does not look at claimed_at.
ClaimableAlways(a) == a \in Due \/ Status(a) = "sending"
Claimable(a) == \/ a \in Due
                \/ Status(a) = "sending" /\ (Held(a) => troubles < MaxTroubles)

\* An e-mail reads no subscription.
Starts(a) == [at |-> IF EventOf(a) \in Mailed THEN "sending" ELSE "reading",
              attempt |-> a, ok |-> FALSE]

Claim(s, a) ==
    /\ send[s] = NoSend
    /\ Claimable(a)
    /\ row' = [row EXCEPT ![a] = [status |-> "sending", by |-> s]]
    /\ Leave({a})
    /\ SetSend(s, Starts(a))
    /\ troubles' = troubles + IF TakesOver(a) /\ troubles < MaxTroubles THEN 1 ELSE 0
    /\ UNCHANGED <<published, sub, replay, sent, changes>>

\* The statement raises and claims the row all the same, for nobody.
ClaimRaises(a) ==
    /\ a \in Due /\ Trouble
    /\ SetStatus(a, "sending") /\ Leave({a})
    /\ UNCHANGED <<published, sub, send, replay, sent, changes>>

(***************************************************************************)
(* deliver.                                                                *)
(***************************************************************************)
Goes(s, at) == SetSend(s, [send[s] EXCEPT !.at = at])

\* The subscription the attempt goes to; a missing one ends the attempt and an
\* inactive one holds it.
ReadsSubscription(s) ==
    /\ send[s].at = "reading"
    /\ Goes(s, CASE sub = "active" -> "sending"
                 [] sub = "deleted" -> "burying"
                 [] OTHER -> "releasing")
    /\ UNCHANGED <<row, ahead, published, sub, replay, sent, changes, troubles>>

\* The request or the message is answered, fails, or is refused for good, which
\* only a mail is: no address, no item, or a message the port rejects.
Sends(s) ==
    /\ send[s].at = "sending"
    /\ LET a == send[s].attempt
       IN  /\ sent' = [sent EXCEPT ![EventOf(a)][RunOf(a)] = @ + 1]
           /\ \/ \E ok \in BOOLEAN : SetSend(s, [send[s] EXCEPT !.at = "recording", !.ok = ok])
              \/ EventOf(a) \in Mailed /\ Goes(s, "burying")
    /\ UNCHANGED <<row, ahead, published, sub, replay, changes, troubles>>

\* Mutant: the outcome is written over whatever the row says.
CompletableAlways(a) == Exists(a)
\* completeDelivery: status IN ('pending', 'sending').
Completable(a) == IsOpen(a)

Complete(a, status) ==
    IF Completable(a) THEN SetStatus(a, status) /\ Leave({a})
    ELSE UNCHANGED <<row, ahead>>

Outcome(s) ==
    IF send[s].ok THEN "succeeded"
    ELSE IF NumberOf(send[s].attempt) >= MaxAttempts THEN "dead" ELSE "failed"

\* #record: whoever wrote the outcome owns what follows.
Records(s) ==
    /\ send[s].at = "recording"
    /\ Complete(send[s].attempt, Outcome(s))
    /\ IF Completable(send[s].attempt) /\ Outcome(s) = "failed" THEN Goes(s, "retrying")
       ELSE SetSend(s, NoSend)
    /\ UNCHANGED <<published, sub, replay, sent, changes, troubles>>

NextAttempt(a) == <<EventOf(a), RunOf(a), NumberOf(a) + 1>>

\* #append of the retry, after its back-off.
Retries(s) ==
    /\ send[s].at = "retrying"
    /\ Insert(NextAttempt(send[s].attempt))
    /\ SetSend(s, NoSend)
    /\ UNCHANGED <<published, sub, replay, sent, changes, troubles>>

\* #deadLetter: an attempt no later pass would do better with.
Buries(s) ==
    /\ send[s].at = "burying"
    /\ Complete(send[s].attempt, "dead")
    /\ SetSend(s, NoSend)
    /\ UNCHANGED <<published, sub, replay, sent, changes, troubles>>

\* Mutant: a held attempt keeps its scheduled_for.
ParkedFirst(a) == ahead \cup ({a} \X Pending)
\* A held attempt is parked past what is due.
Parked(a) == ahead \cup (Pending \X {a})

\* releaseDelivery: status = 'sending', whoever claimed it.
Releases(s) ==
    /\ send[s].at = "releasing"
    /\ LET a == send[s].attempt
       IN  IF Status(a) = "sending" THEN SetStatus(a, "pending") /\ ahead' = Parked(a)
           ELSE UNCHANGED <<row, ahead>>
    /\ SetSend(s, NoSend)
    /\ UNCHANGED <<published, sub, replay, sent, changes, troubles>>

\* A call of the performance raises: what it has not done is left undone.
Raises(s) ==
    /\ send[s] # NoSend /\ Trouble
    /\ SetSend(s, NoSend)
    /\ UNCHANGED <<row, ahead, published, sub, replay, sent, changes>>

\* A process goes away and is started again.
Crash(p) ==
    /\ Trouble
    /\ \E i \in 1 .. Slots : send[<<p, i>>] # NoSend
    /\ send' = [s \in Sender |-> IF s[1] = p THEN NoSend ELSE send[s]]
    /\ UNCHANGED <<row, ahead, published, sub, replay, sent, changes>>

-----------------------------------------------------------------------------
(***************************************************************************)
(* The subscription.  The status an operation is refused by was read in a  *)
(* transaction before its own, so its write may find any status.           *)
(***************************************************************************)
Changes == sub # "deleted" /\ changes < MaxChanges /\ changes' = changes + 1

\* deletePendingDeliveries: of the subscription, and status = 'pending'.
DroppedPending == {a \in Attempt : EventOf(a) \notin Mailed /\ Status(a) = "pending"}

Transition(status) ==
    /\ Changes
    /\ sub' = status
    /\ UNCHANGED <<row, ahead, published, send, replay, sent, troubles>>

DropsQueue ==
    /\ row' = [a \in Attempt |-> IF a \in DroppedPending
                                   THEN [status |-> "dropped", by |-> None] ELSE row[a]]
    /\ Leave(DroppedPending)

Disable ==
    /\ Changes /\ sub # "disabled"
    /\ sub' = "disabled"
    /\ DropsQueue
    /\ UNCHANGED <<published, send, replay, sent, troubles>>

Delete ==
    /\ Changes
    /\ sub' = "deleted"
    /\ DropsQueue
    /\ UNCHANGED <<published, send, replay, sent, troubles>>

(***************************************************************************)
(* replay: reads, then appends.                                            *)
(***************************************************************************)
\* latestDeliverySequence.
LatestRun(e) ==
    LET runs == {r \in Run : \E a \in Attempt : EventOf(a) = e /\ RunOf(a) = r /\ Exists(a)}
    IN  IF runs = {} THEN 0 ELSE CHOOSE r \in runs : \A q \in runs : q <= r

ReplayReads(o) ==
    /\ replay[o] = NoReplay
    /\ \E a \in Attempt :
        /\ Status(a) = "dead" /\ EventOf(a) \in Replayed
        /\ LatestRun(EventOf(a)) < MaxRuns
        /\ replay' = [replay EXCEPT ![o] = [event |-> EventOf(a),
                                            run |-> LatestRun(EventOf(a)) + 1]]
    /\ UNCHANGED <<row, ahead, published, sub, send, sent, changes, troubles>>

\* A conflict is answered with DELIVERY_REPLAY_CONFLICT.
ReplayAppends(o) ==
    /\ replay[o] # NoReplay
    /\ Insert(<<replay[o].event, replay[o].run, 1>>)
    /\ replay' = [replay EXCEPT ![o] = NoReplay]
    /\ UNCHANGED <<published, sub, send, sent, changes, troubles>>

-----------------------------------------------------------------------------
Performs(s) ==
    ReadsSubscription(s) \/ Sends(s) \/ Records(s) \/ Retries(s) \/ Buries(s) \/ Releases(s)

Next ==
    \/ \E e \in Event : Publish(e)
    \/ \E p \in Process : Crash(p)
    \/ \E a \in Attempt : ClaimRaises(a)
    \/ \E s \in Sender : Performs(s) \/ Raises(s)
    \/ \E s \in Sender, a \in Attempt : Claim(s, a)
    \/ Transition("active") \/ Transition("paused") \/ Disable \/ Delete
    \/ \E o \in Operator : ReplayReads(o) \/ ReplayAppends(o)

(***************************************************************************)
(* A process polls and its calls answer; a claim nobody performs is older  *)
(* than DELIVERY_CLAIM_TIMEOUT_MS at some poll and at every later one.     *)
(***************************************************************************)
Fairness ==
    /\ \A s \in Sender : WF_vars(Performs(s))
    /\ \A e \in Event : SF_vars(\E s \in Sender, a \in Attempt : EventOf(a) = e /\ Claim(s, a))

Spec == Init /\ [][Next]_vars
FairSpec == Spec /\ Fairness

-----------------------------------------------------------------------------
TriesOf(e, r) ==
    LET ns == {n \in 1 .. MaxAttempts : Status(<<e, r, n>>) # "absent"}
    IN  IF ns = {} THEN 0 ELSE CHOOSE n \in ns : \A k \in ns : k <= n

\* The state of a run is that of its last attempt; a failed one owes a retry.
StateOf(e, r) ==
    IF TriesOf(e, r) = 0 THEN "none"
    ELSE LET status == Status(<<e, r, TriesOf(e, r)>>)
         IN  IF status \in {"pending", "sending", "failed"} THEN "open" ELSE status

\* Whatever senders stall, lose their claims or crash, and however operators
\* replay, disable and delete, every event behaves as the module promises: one
\* attempt after another, within the budget, to an outcome that is final.
Promise == INSTANCE DeliveryPromise WITH
    tries <- [e \in Event |-> [r \in Run |-> TriesOf(e, r)]],
    state <- [e \in Event |-> [r \in Run |-> StateOf(e, r)]]
KeepsThePromise == Promise!Spec

\* An attempt is put on the wire again only for a claim that lapsed under its
\* sender, a crash or a call that raised, one each.
RequestsAreCaused ==
    \A e \in Event, r \in Run : sent[e][r] <= TriesOf(e, r) + troubles

\* The retry of a failed attempt that no sender will append any more.
RetryIsLost(e, r) ==
    /\ StateOf(e, r) = "open"
    /\ LET a == <<e, r, TriesOf(e, r)>>
       IN  Status(a) = "failed" /\ \A s \in Sender : send[s].attempt # a

\* Every run comes to its outcome, past takeovers, crashes and a held backlog
\* larger than the page, unless its subscription holds it or its retry is lost.
RunsConclude ==
    <>[](\A e \in Event, r \in Run :
            StateOf(e, r) = "open" => RetryIsLost(e, r) \/ (e \notin Mailed /\ sub # "active"))
=============================================================================
