---------------------------- MODULE WorkflowRun ----------------------------
(***************************************************************************)
(* One live workflow run of modules/workflows: its rows in the database    *)
(* (services/database-repository.ts) and the workers that claim it,        *)
(* advance it through its graph and settle it (services/worker.ts).        *)
(*                                                                         *)
(* Grain: one action per database transaction and one per call of another  *)
(* module's capability, so a crash, a lost lease or a cancellation can     *)
(* fall between any two of them.  Reads that follow one another with no    *)
(* write between them are one action.  Children (agent runs, action        *)
(* invocations, approval requests) belong to other modules and are         *)
(* modelled by what the worker can observe of them.                        *)
(***************************************************************************)
EXTENDS Naturals, Sequences, FiniteSets

CONSTANTS
    Worker,        \* live worker identities; a restarted process has a new one
    None,          \* no lease owner
    Dead,          \* the owner of a lease whose process is gone
    Order,         \* the compiled order: a sequence of the graph's nodes
    Kind,          \* Kind[n]: the node's type
    Edge,          \* the graph's edges: records [from, port, to]
    MaxAttempts,   \* bound: attempts the failure policy of a node allows
    EmitsFailure,  \* nodes whose policy is onExhausted = emit-failure
    Outcome,       \* what a child may end with
    WindowMayClose,\* whether the 24 h live window may run out
    MaxCancels, MaxCrashes, MaxFreezes, MaxErrors  \* bounds on faults and requests

Node == {Order[i] : i \in DOMAIN Order}
ChildKind == {"agent", "action", "approval"}
Terminal == {"succeeded", "failed", "refused", "cancelled"}
RunStatus == {"queued", "running", "waiting-agent", "waiting-approval",
              "waiting-retry", "cancel-requested"} \cup Terminal
NodeSettled == Terminal \cup {"skipped"}
NodeStatus == {"pending", "running", "waiting-child", "waiting-retry"} \cup NodeSettled
AttemptStatus == {"none", "running", "waiting-child"} \cup Terminal
Number == 1 .. MaxAttempts

ASSUME WorkflowAssumption ==
    /\ Order \in Seq(Node)
    /\ \A i, j \in DOMAIN Order : Order[i] = Order[j] => i = j
    /\ Kind \in [Node -> ChildKind \cup {"input", "merge", "gate", "decision", "output"}]
    /\ Edge \subseteq [from : Node, port : STRING, to : Node]
    /\ EmitsFailure \subseteq Node
    /\ Outcome \subseteq {"succeeded", "failed", "cancelled", "unstarted"}
    /\ None \notin Worker /\ Dead \notin Worker /\ None # Dead
    /\ MaxAttempts \in Nat \ {0}
    /\ {MaxCancels, MaxCrashes, MaxFreezes, MaxErrors} \subseteq Nat
    /\ WindowMayClose \in BOOLEAN

VARIABLES
    \* the run row
    status, owner,
    expired,      \* lease_expires_at has passed
    completed,    \* completed_nodes
    windowOver,   \* the live window has run out
    \* the rows under it
    node,         \* node[n]: status, latest attempt, outcome port, next_attempt_at
    attempt,      \* attempt[n][a]: the status of an attempt
    overdue,      \* overdue[n][a]: child_observation_deadline_at has passed
    edge,         \* edge[e]: the transfer recorded for e
    asked,        \* attempts with an event node.cancel.requested
    \* the other modules
    child,        \* child[n][a]: the child the attempt's idempotency key names
    told,         \* attempts whose child was really asked to cancel
    callback,     \* callback[n]: workers whose onResolved is registered
    \* the processes
    worker,       \* worker[w]: the local state of #execute
    faults        \* cancels, crashes, freezes and errors so far

row == <<status, owner, expired, completed, windowOver>>
rows == <<node, attempt, overdue, edge, asked>>
others == <<child, told, callback>>
vars == <<row, rows, others, worker, faults>>

(***************************************************************************)
(* The local state of a worker: where #execute is, the position in the     *)
(* compiled order, the attempt, the nodes a cancellation has left, the     *)
(* edges to settle, the result of #executeNode and leaseLost.              *)
(***************************************************************************)
NoResult == [status |-> "none", port |-> "", then |-> "none"]
StatusOnly(s) == [status |-> s, port |-> "", then |-> "none"]
ThenOnly(t) == [status |-> "none", port |-> "", then |-> t]
IdleWorker == [pc |-> "idle", i |-> 1, a |-> 0, todo |-> {}, out |-> {}, pending |-> FALSE,
               res |-> NoResult, lost |-> FALSE]
WorkerState ==
    [pc : STRING, i : 1 .. Len(Order) + 1, a : 0 .. MaxAttempts,
     todo : SUBSET Node, out : SUBSET Edge, pending : BOOLEAN,
     res : [status : STRING, port : STRING, then : STRING], lost : BOOLEAN]
At(w, pc) == worker[w].pc = pc
Inside(w) == worker[w].pc # "idle"
Cursor(w) == Order[worker[w].i]
Goto(w, pc) == worker' = [worker EXCEPT ![w].pc = pc]
\* A thrown error lands in the catch of #execute.
Throw(w) == Goto(w, "catch")
\* A result returned by #executeNode meets the assertLease that follows it.
Returns(w, pc, res) ==
    worker' = [worker EXCEPT ![w] = [@ EXCEPT !.pc = IF worker[w].lost THEN "catch" ELSE pc, !.res = res]]

Incoming(n) == {e \in Edge : e.to = n}
Outgoing(n) == {e \in Edge : e.from = n}
\* The last attempt of a node is not settled.
\* Mutant: an attempt whose child was started and not recorded counts as settled.
LiveOnceRecorded(n) ==
    \/ attempt[n][node[n].latest] = "waiting-child"
    \/ attempt[n][node[n].latest] = "running" /\ Kind[n] \notin ChildKind
Live(n) == attempt[n][node[n].latest] \in {"running", "waiting-child"}
OpenAttempt(n) == node[n].latest > 0 /\ Live(n)
\* Mutant: the first attempt is looked at instead of the last.
WaitingAtFirst(n) == node[n].latest > 0 /\ attempt[n][1] = "waiting-child"
Waiting(n) == node[n].latest > 0 /\ attempt[n][node[n].latest] = "waiting-child"

TypeOK ==
    /\ status \in RunStatus
    /\ owner \in Worker \cup {None, Dead}
    /\ expired \in BOOLEAN /\ windowOver \in BOOLEAN
    /\ completed \in Nat
    /\ node \in [Node -> [status : NodeStatus, latest : 0 .. MaxAttempts,
                          port : STRING, due : {"none", "later", "now"}]]
    /\ attempt \in [Node -> [Number -> AttemptStatus]]
    /\ overdue \in [Node -> [Number -> BOOLEAN]]
    /\ edge \in [Edge -> {"none", "emitted", "closed", "skipped"}]
    /\ child \in [Node -> [Number -> {"none", "live", "succeeded", "failed", "cancelled"}]]
    /\ {asked, told} \subseteq SUBSET (Node \X Number)
    /\ callback \in [Node -> SUBSET Worker]
    /\ worker \in [Worker -> WorkerState]
    /\ faults \in [cancel : 0 .. MaxCancels, crash : 0 .. MaxCrashes,
                   freeze : 0 .. MaxFreezes, error : 0 .. MaxErrors]

Init ==
    /\ status = "queued" /\ owner = None /\ expired = FALSE
    /\ completed = 0 /\ windowOver = FALSE
    /\ node = [n \in Node |-> [status |-> "pending", latest |-> 0, port |-> "", due |-> "none"]]
    /\ attempt = [n \in Node |-> [a \in Number |-> "none"]]
    /\ overdue = [n \in Node |-> [a \in Number |-> FALSE]]
    /\ edge = [e \in Edge |-> "none"]
    /\ asked = {} /\ told = {}
    /\ child = [n \in Node |-> [a \in Number |-> "none"]]
    /\ callback = [n \in Node |-> {}]
    /\ worker = [w \in Worker |-> IdleWorker]
    /\ faults = [cancel |-> 0, crash |-> 0, freeze |-> 0, error |-> 0]

-----------------------------------------------------------------------------
(***************************************************************************)
(* The lease.                                                              *)
(***************************************************************************)
\* Mutant: a requested cancellation is served by whoever polls first.
LeaseFreeToCancel == owner = None \/ expired \/ status = "cancel-requested"
LeaseFree == owner = None \/ expired

\* The claim poll's due-work predicate.
Claimable ==
    \/ status = "queued"
    \/ status \in {"running", "waiting-agent", "cancel-requested"} /\ LeaseFree
    \/ /\ status = "waiting-retry" /\ LeaseFree
       /\ \E n \in Node : node[n].status = "waiting-retry" /\ node[n].due = "now"
    \/ /\ status = "waiting-approval" /\ LeaseFree
       /\ \E n \in Node : node[n].status = "waiting-child" /\ node[n].due = "now"

\* claimNext and #claim: the candidate read and the guarded update.
Claim(w) ==
    /\ At(w, "idle")
    /\ Claimable
    /\ LeaseFree \/ owner = w
    /\ status' = IF status = "queued" THEN "running" ELSE status
    /\ owner' = w /\ expired' = FALSE
    /\ worker' = [worker EXCEPT ![w] = [IdleWorker EXCEPT !.pc = "enter"]]
    /\ UNCHANGED <<completed, windowOver, rows, others, faults>>

\* The renewal timer: the lease is extended for its owner, expired or not, and
\* a worker that no longer owns it learns so.
Renew(w) ==
    /\ Inside(w)
    /\ ~worker[w].lost
    /\ IF owner = w /\ status \notin Terminal
           THEN expired' = FALSE /\ UNCHANGED worker
           ELSE worker' = [worker EXCEPT ![w].lost = TRUE] /\ UNCHANGED expired
    /\ UNCHANGED <<status, owner, completed, windowOver, rows, others, faults>>

\* releaseLease, in the finally of #execute.
Release(w) ==
    /\ At(w, "release")
    /\ owner' = IF owner = w THEN None ELSE owner
    /\ expired' = IF owner = w THEN FALSE ELSE expired
    /\ worker' = [worker EXCEPT ![w] = IdleWorker]
    /\ UNCHANGED <<status, completed, windowOver, rows, others, faults>>

-----------------------------------------------------------------------------
(***************************************************************************)
(* #execute.                                                               *)
(***************************************************************************)
\* The approval the run is parked on, as a cursor position.
\* Mutant: a run that ran out of its window leaves its request pending.
ParkedNowhere == {}
ParkedAt == {i \in DOMAIN Order : Kind[Order[i]] = "approval" /\ Waiting(Order[i])}

\* #withdrawApproval: the event of the request that nobody waits for any more is
\* committed first, then approvals.core is asked, which refuses a request that
\* already resolved.
Cancelled(n, a) ==
    IF Kind[n] = "approval" /\ child[n][a] = "live"
        THEN [child EXCEPT ![n][a] = "cancelled"] ELSE child
Withdraw(w) ==
    /\ At(w, "withdraw")
    /\ child' = Cancelled(Cursor(w), worker[w].a)
    /\ IF worker[w].res.status = "none"
           THEN Goto(w, "end")
           ELSE Returns(w, "settle", worker[w].res)
    /\ UNCHANGED <<row, rows, told, callback, faults>>

\* The first read of the claimed run: settled, cancelled, out of its live
\* window (which withdraws a parked approval), or ready to advance.
Enter(w) ==
    /\ At(w, "enter")
    /\ \/ /\ status \in Terminal
          /\ Goto(w, "release")
          /\ UNCHANGED asked
       \/ /\ status = "cancel-requested"
          /\ worker' = [worker EXCEPT ![w] = [@ EXCEPT !.pc = "cancel",
                           !.todo = {n \in Node : Waiting(n)}]]
          /\ UNCHANGED asked
       \/ /\ status \notin Terminal \cup {"cancel-requested"}
          /\ windowOver
          /\ IF ParkedAt = {}
                 THEN /\ worker' = [worker EXCEPT ![w] = [@ EXCEPT !.pc = "end", !.res = ThenOnly("refused")]]
                      /\ UNCHANGED asked
                 ELSE \E i \in ParkedAt :
                     LET a == node[Order[i]].latest
                     IN  /\ worker' = [worker EXCEPT ![w] = [@ EXCEPT !.pc = "withdraw", !.i = i, !.a = a,
                                           !.res = ThenOnly("refused")]]
                         /\ asked' = asked \cup {<<Order[i], a>>}
       \/ /\ status \notin Terminal \cup {"cancel-requested"}
          /\ ~windowOver
          /\ Goto(w, "step")
          /\ UNCHANGED asked
    /\ UNCHANGED <<row, node, attempt, overdue, edge, others, faults>>

\* Mutant: a worker that finished settles over a requested cancellation.
SettleRunOverCancel(s) ==
    IF status \in Terminal
        THEN UNCHANGED <<status, owner, expired>>
        ELSE status' = s /\ owner' = None /\ expired' = FALSE
\* settleRun: never over a terminal run, over a requested cancellation only
\* with the cancellation itself.
SettleRunTo(s) ==
    IF status \in Terminal \/ (status = "cancel-requested" /\ s # "cancelled")
        THEN UNCHANGED <<status, owner, expired>>
        ELSE status' = s /\ owner' = None /\ expired' = FALSE

End(w) ==
    /\ worker[w].pc \in {"end", "refuse"}
    /\ SettleRunTo(worker[w].res.then)
    /\ Goto(w, "release")
    /\ UNCHANGED <<completed, windowOver, rows, others, faults>>

\* The catch of #execute: a lost lease and a cancelled run are left to the
\* next claim, any other run is refused.
Catch(w) ==
    /\ At(w, "catch")
    /\ worker' = IF worker[w].lost \/ status \in Terminal \cup {"cancel-requested"}
                     THEN [worker EXCEPT ![w].pc = "release"]
                     ELSE [worker EXCEPT ![w] = [@ EXCEPT !.pc = "refuse", !.res = ThenOnly("refused")]]
    /\ UNCHANGED <<row, rows, others, faults>>

-----------------------------------------------------------------------------
(***************************************************************************)
(* #advance, one node of the compiled order at a time.                     *)
(***************************************************************************)
NextNode(w) ==
    [worker EXCEPT ![w] = [@ EXCEPT !.pc = "step", !.i = worker[w].i + 1, !.res = NoResult]]

\* The reads that decide what happens to the node under the cursor.
Step(w) ==
    /\ At(w, "step")
    /\ worker' =
        LET n == Cursor(w)
            unsettled == {e \in Incoming(n) : edge[e] = "none"}
            emitted == {e \in Incoming(n) : edge[e] = "emitted"}
        IN  IF worker[w].lost
                THEN [worker EXCEPT ![w].pc = "catch"]
            ELSE IF worker[w].i > Len(Order) \/ status = "cancel-requested"
                THEN [worker EXCEPT ![w].pc = "release"]
            ELSE IF node[n].status \in NodeSettled
                THEN NextNode(w)
            ELSE IF \/ node[n].status = "waiting-retry" /\ node[n].due = "later"
                    \/ unsettled # {}
                THEN [worker EXCEPT ![w].pc = "release"]
            ELSE IF Kind[n] # "input" /\ emitted = {}
                THEN [worker EXCEPT ![w].pc = "skip"]
            ELSE IF OpenAttempt(n)
                THEN [worker EXCEPT ![w] = [@ EXCEPT !.pc = "run", !.a = node[n].latest,
                          !.res = StatusOnly(attempt[n][node[n].latest])]]
                ELSE [worker EXCEPT ![w] = [@ EXCEPT !.pc = "start", !.a = node[n].latest + 1]]
    /\ UNCHANGED <<row, rows, others, faults>>

\* Mutant: startAttempt starts a node of a run that is to be cancelled.
MayStartUnlessSettled == status \notin Terminal
MayStart == status \notin Terminal \cup {"cancel-requested"}

\* startAttempt, under the run's row lock.  A second insert of an attempt
\* violates the primary key.
StartAttempt(w) ==
    LET n == Cursor(w)
        a == worker[w].a
    IN  /\ At(w, "start")
        /\ a \in Number  \* bound: only late renewals let a worker count past the policy
        /\ \/ /\ ~MayStart
              /\ Goto(w, "release")
              /\ UNCHANGED <<status, node, attempt>>
           \/ /\ MayStart
              /\ attempt[n][a] # "none"
              /\ Throw(w)
              /\ UNCHANGED <<status, node, attempt>>
           \/ /\ MayStart
              /\ attempt[n][a] = "none"
              /\ status' = IF status = "waiting-retry" THEN "running" ELSE status
              /\ attempt' = [attempt EXCEPT ![n][a] = "running"]
              /\ node' = [node EXCEPT ![n] = [@ EXCEPT !.status = "running", !.latest = a, !.due = "none"]]
              /\ worker' = [worker EXCEPT ![w] = [@ EXCEPT !.pc = "run", !.res = StatusOnly("running")]]
        /\ UNCHANGED <<owner, expired, completed, windowOver, overdue, edge, asked, others, faults>>

(***************************************************************************)
(* #executeNode.  A result names the attempt's status and port and what    *)
(* #advance does once the attempt is settled.                              *)
(***************************************************************************)
Succeeds(port) == [status |-> "succeeded", port |-> port, then |-> "edges"]
\* Input or output over its bound or not of its schema: #failNode.
Invalid == [status |-> "refused", port |-> "", then |-> "refused"]
Fails(n, s) ==
    IF n \in EmitsFailure
        THEN [status |-> s, port |-> "failure", then |-> "edges"]
        ELSE [status |-> s, port |-> "failure",
              then |-> IF s = "refused" THEN "refused" ELSE "failed"]
\* A failure the policy retries, while it has attempts left.
Retries(a) ==
    IF a < MaxAttempts THEN {[status |-> "failed", port |-> "", then |-> "retry"]} ELSE {}

LocalResult(n, a) ==
    CASE Kind[n] \in {"input", "merge"} -> {Succeeds("data")}
      [] Kind[n] = "gate" -> {Succeeds("pass"), Succeeds("fail")}
      [] Kind[n] = "decision" -> {Succeeds("pass"), Succeeds("fail")}
            \cup (IF "failed" \in Outcome
                      THEN {Fails(n, "failed"), Fails(n, "refused")} \cup Retries(a) ELSE {})
      [] OTHER -> {[status |-> "succeeded", port |-> "", then |-> "succeeded"]}  \* output

\* The input of a node that has no child yet is checked before anything runs,
\* and no assertLease stands between the check and #failNode.  The check is
\* deterministic in the code; here each evaluation may turn out either way.
InvalidInput(w) ==
    LET n == Cursor(w)
    IN  /\ At(w, "run")
        /\ "failed" \in Outcome
        /\ \A a \in Number : child[n][a] = "none"
        /\ worker' = [worker EXCEPT ![w] = [@ EXCEPT !.pc = "settle", !.res = Invalid]]
        /\ UNCHANGED <<row, rows, others, faults>>

RunLocal(w) ==
    /\ At(w, "run")
    /\ Kind[Cursor(w)] \notin ChildKind
    /\ \E r \in LocalResult(Cursor(w), worker[w].a) : Returns(w, "settle", r)
    /\ UNCHANGED <<row, rows, others, faults>>

\* The attempt has no child yet: enqueueRevision or actions.start, idempotent by
\* a key of the attempt, or approvals.open, which finds a pending request of the
\* run and node and opens a new one beside a resolved request.
Started(n, a) ==
    IF child[n][a] = "none" \/ Kind[n] = "approval"
        THEN [child EXCEPT ![n][a] = "live"] ELSE child
StartChild(w) ==
    LET n == Cursor(w)
        a == worker[w].a
    IN  /\ At(w, "run")
        /\ Kind[n] \in ChildKind
        /\ worker[w].res.status = "running"
        /\ \/ /\ child' = Started(n, a)
              /\ callback' = IF Kind[n] = "approval"
                                 THEN [callback EXCEPT ![n] = @ \cup {w}] ELSE callback
              /\ Returns(w, "mark", NoResult)
           \/ /\ "unstarted" \in Outcome /\ child[n][a] = "none"
              /\ Returns(w, "settle", Fails(n, "refused"))
              /\ UNCHANGED <<child, callback>>
        /\ UNCHANGED <<row, rows, told, faults>>

\* Mutant: the recheck is armed before the node waits, and marking it clears it.
ArmedTooEarly(n) == "none"
\* An agent or an action is polled; an approval leaves the claim queue with a
\* recheck armed.
Armed(n) == IF Kind[n] = "approval" THEN "later" ELSE "none"

\* markChildWaiting.
MarkChildWaiting(w) ==
    LET n == Cursor(w)
        a == worker[w].a
    IN  /\ At(w, "mark")
        /\ IF attempt[n][a] # "running"
               THEN Throw(w) /\ UNCHANGED <<status, node, attempt>>
               ELSE /\ attempt' = [attempt EXCEPT ![n][a] = "waiting-child"]
                    /\ node' = [node EXCEPT ![n] = [@ EXCEPT !.status = "waiting-child", !.due = Armed(n)]]
                    /\ status' =
                        CASE Kind[n] = "agent" /\ status = "running" -> "waiting-agent"
                          [] Kind[n] = "approval" /\ status = "running" -> "waiting-approval"
                          [] OTHER -> status
                    /\ Goto(w, IF Kind[n] = "approval" THEN "confirm" ELSE "release")
        /\ UNCHANGED <<owner, expired, completed, windowOver, overdue, edge, asked, others, faults>>

\* wakeApproval(requestId): the node's recheck becomes due.
Woken(n, a) ==
    IF node[n].status = "waiting-child" /\ node[n].latest = a /\ attempt[n][a] = "waiting-child"
        THEN [node EXCEPT ![n].due = "now"] ELSE node

\* The read that closes the window between open() and the armed attempt.
Confirm(w) ==
    LET n == Cursor(w)
        a == worker[w].a
    IN  /\ At(w, "confirm")
        /\ node' = IF child[n][a] # "live" /\ ~worker[w].lost THEN Woken(n, a) ELSE node
        /\ Returns(w, "release", NoResult)
        /\ UNCHANGED <<row, attempt, overdue, edge, asked, others, faults>>

ChildResult(n, a) ==
    CASE child[n][a] = "succeeded" ->
            {Succeeds(IF Kind[n] = "approval" THEN "approved" ELSE "success")}
            \cup (IF "failed" \in Outcome /\ Kind[n] # "approval" THEN {Invalid} ELSE {})
      [] child[n][a] = "failed" ->
            {Fails(n, "failed")}
            \cup (IF Kind[n] = "action" THEN {Fails(n, "refused")} ELSE {})
            \cup (IF Kind[n] = "approval" THEN {} ELSE Retries(a))
      [] OTHER ->  \* cancelled
            {Fails(n, IF Kind[n] = "approval" THEN "failed" ELSE "cancelled")}

\* The attempt has a child: its deadline, then its result.  A pending approval
\* goes back to sleep in a transaction of its own.
ObserveChild(w) ==
    LET n == Cursor(w)
        a == worker[w].a
        approval == Kind[n] = "approval"
    IN  /\ At(w, "run")
        /\ Kind[n] \in ChildKind
        /\ worker[w].res.status = "waiting-child"
        /\ \/ /\ overdue[n][a]
              /\ IF approval
                     THEN /\ child[n][a] = "live"
                          /\ asked' = asked \cup {<<n, a>>}
                          /\ Returns(w, "withdraw", Fails(n, "refused"))
                     ELSE /\ Returns(w, "settle", Fails(n, "refused"))
                          /\ UNCHANGED asked
           \/ /\ overdue[n][a] => approval /\ child[n][a] # "live"
              /\ child[n][a] # "live"
              /\ \E r \in ChildResult(n, a) : Returns(w, "settle", r)
              /\ UNCHANGED asked
           \/ /\ ~overdue[n][a]
              /\ child[n][a] = "live"
              /\ Returns(w, IF approval THEN "suspend" ELSE "release", NoResult)
              /\ UNCHANGED asked
        /\ UNCHANGED <<row, node, attempt, overdue, edge, others, faults>>

\* suspendApproval.
Suspend(w) ==
    LET n == Cursor(w)
    IN  /\ At(w, "suspend")
        /\ node' = IF node[n].status = "waiting-child"
                       THEN [node EXCEPT ![n].due = "later"] ELSE node
        /\ status' = IF status = "running" THEN "waiting-approval" ELSE status
        /\ Goto(w, "release")
        /\ UNCHANGED <<owner, expired, completed, windowOver, attempt, overdue, edge, asked,
                       others, faults>>

(***************************************************************************)
(* settleAttempt: the read of the attempt takes no lock and the update     *)
(* that follows has no condition on its status.                            *)
(***************************************************************************)
SettleRead(w) ==
    /\ At(w, "settle")
    /\ Goto(w, IF attempt[Cursor(w)][worker[w].a] \in {"running", "waiting-child"}
                   THEN "write" ELSE "catch")
    /\ UNCHANGED <<row, rows, others, faults>>

\* Mutant: an attempt that is to be retried counts as progress.
ProgressOfEveryAttempt(r) == 1
Progress(r) == IF r.then = "retry" THEN 0 ELSE 1

SettleWrite(w) ==
    LET n == Cursor(w)
        r == worker[w].res
        retrying == r.then = "retry"
    IN  /\ At(w, "write")
        /\ attempt' = [attempt EXCEPT ![n][worker[w].a] = r.status]
        /\ node' = [node EXCEPT ![n] = [@ EXCEPT !.status = IF retrying THEN "waiting-retry" ELSE r.status,
                                               !.port = r.port,
                                               !.due = IF retrying THEN "later" ELSE "none"]]
        /\ IF status \in Terminal \cup {"cancel-requested"}
               THEN UNCHANGED <<status, completed>>
               ELSE /\ status' = IF retrying THEN "waiting-retry" ELSE "running"
                    /\ completed' = completed + Progress(r)
        /\ worker' =
            CASE retrying -> [worker EXCEPT ![w].pc = "release"]
              [] r.then = "edges" ->
                    [worker EXCEPT ![w] = [@ EXCEPT !.pc = "edges", !.out = Outgoing(n)]]
              [] r.then = "cancel" -> [worker EXCEPT ![w] = [@ EXCEPT !.pc = "cancel", !.todo = worker[w].todo \ {n}]]
              [] OTHER -> [worker EXCEPT ![w].pc = "end"]
        /\ UNCHANGED <<owner, expired, windowOver, overdue, edge, asked, others, faults>>

\* markNodeSkipped, which counts the node whatever became of the run.
Skip(w) ==
    LET n == Cursor(w)
        changed == node[n].status = "pending"
    IN  /\ At(w, "skip")
        /\ node' = IF changed THEN [node EXCEPT ![n].status = "skipped"] ELSE node
        /\ completed' = completed + IF changed THEN 1 ELSE 0
        /\ worker' = [worker EXCEPT ![w] = [@ EXCEPT !.pc = "edges", !.out = Outgoing(n),
                                    !.res = StatusOnly("skipped")]]
        /\ UNCHANGED <<status, owner, expired, windowOver, attempt, overdue, edge, asked,
                       others, faults>>

\* Mutant: every edge of a node that ran carries its output.
TransferOnEveryPort(e, r) == IF r.status = "skipped" THEN "skipped" ELSE "emitted"
Transfer(e, r) ==
    CASE r.status = "skipped" -> "skipped"
      [] r.status # "skipped" /\ e.port = r.port -> "emitted"
      [] OTHER -> "closed"

\* settleEdge, once per outgoing edge; a second insert violates the primary key.
SettleEdge(w) ==
    /\ At(w, "edges")
    /\ \/ /\ worker[w].out = {}
          /\ worker' = NextNode(w)
          /\ UNCHANGED edge
       \/ \E e \in worker[w].out :
              IF edge[e] # "none"
                  THEN Throw(w) /\ UNCHANGED edge
                  ELSE /\ edge' = [edge EXCEPT ![e] = Transfer(e, worker[w].res)]
                       /\ worker' = [worker EXCEPT ![w].out = worker[w].out \ {e}]
    /\ UNCHANGED <<row, node, attempt, overdue, asked, others, faults>>

-----------------------------------------------------------------------------
(***************************************************************************)
(* #cancel, one waiting child at a time.                                   *)
(***************************************************************************)
\* The event node.cancel.requested is committed before the child is asked, and
\* a child whose event is there already is not asked again.
CancelNode(w) ==
    /\ At(w, "cancel")
    /\ \/ /\ worker[w].todo = {}
          /\ worker' = IF worker[w].pending
                           THEN [worker EXCEPT ![w].pc = "release"]
                           ELSE [worker EXCEPT ![w] = [@ EXCEPT !.pc = "end", !.res = ThenOnly("cancelled")]]
          /\ UNCHANGED asked
       \/ \E i \in DOMAIN Order :
              LET n == Order[i]
                  c == <<n, node[n].latest>>
              IN  /\ n \in worker[w].todo
                  /\ asked' = asked \cup {c}
                  /\ worker' = [worker EXCEPT ![w] = [@ EXCEPT !.pc = IF c \in asked THEN "late" ELSE "ask",
                                              !.i = i, !.a = node[n].latest]]
    /\ UNCHANGED <<row, node, attempt, overdue, edge, others, faults>>

\* requestCancel, or cancel of an approval, which ends a pending one at once.
AskChild(w) ==
    LET c == <<Cursor(w), worker[w].a>>
    IN  /\ At(w, "ask")
        /\ told' = told \cup {c}
        /\ child' = Cancelled(Cursor(w), worker[w].a)
        /\ Goto(w, "late")
        /\ UNCHANGED <<row, rows, callback, faults>>

\* A child that ended, or that is overdue, and every approval settle the
\* attempt as cancelled; any other keeps the run waiting.
LateResult(w) ==
    LET n == Cursor(w)
        a == worker[w].a
    IN  /\ At(w, "late")
        /\ worker' =
            IF Kind[n] = "approval" \/ child[n][a] # "live" \/ overdue[n][a]
                THEN [worker EXCEPT ![w] = [@ EXCEPT !.pc = "settle",
                         !.res = [status |-> "cancelled", port |-> "", then |-> "cancel"]]]
                ELSE [worker EXCEPT ![w] = [@ EXCEPT !.pc = "cancel", !.pending = TRUE,
                         !.todo = worker[w].todo \ {n}]]
        /\ UNCHANGED <<row, rows, others, faults>>

-----------------------------------------------------------------------------
(***************************************************************************)
(* Everything that is not the worker.                                      *)
(***************************************************************************)
\* Mutant: a cancellation takes the lease away from the worker inside.
RequestCancellationOfLease ==
    /\ faults.cancel < MaxCancels
    /\ status \notin Terminal \cup {"cancel-requested"}
    /\ status' = "cancel-requested" /\ owner' = None /\ expired' = FALSE
    /\ faults' = [faults EXCEPT !.cancel = @ + 1]
    /\ UNCHANGED <<completed, windowOver, rows, others, worker>>
\* requestCancellation: the lease stays with the worker inside the run.
RequestCancellation ==
    /\ faults.cancel < MaxCancels
    /\ status \notin Terminal \cup {"cancel-requested"}
    /\ status' = "cancel-requested"
    /\ faults' = [faults EXCEPT !.cancel = @ + 1]
    /\ UNCHANGED <<owner, expired, completed, windowOver, rows, others, worker>>

\* A child ends by itself; "cancelled" only once it was asked to, or when an
\* approval's requester withdraws it.
ChildEnds(n, a) ==
    /\ child[n][a] = "live"
    /\ \E o \in Outcome \ {"unstarted"} :
           /\ o = "cancelled" => <<n, a>> \in told \/ Kind[n] = "approval"
           /\ child' = [child EXCEPT ![n][a] = o]
    /\ UNCHANGED <<row, rows, told, callback, worker, faults>>

\* onResolved of an approval, in a process that is still there.
WakeApproval(n) ==
    /\ callback[n] # {}
    /\ child[n][1] # "live"
    /\ node' = Woken(n, 1)
    /\ callback' = [callback EXCEPT ![n] = {}]
    /\ UNCHANGED <<row, attempt, overdue, edge, asked, child, told, worker, faults>>

\* next_attempt_at passes: the backoff of a retry, the recheck of an approval.
RecheckComesDue(n) ==
    /\ node[n].due = "later"
    /\ node' = [node EXCEPT ![n].due = "now"]
    /\ UNCHANGED <<row, attempt, overdue, edge, asked, others, worker, faults>>

DeadlinePasses(n, a) ==
    /\ WindowMayClose
    /\ attempt[n][a] = "waiting-child"
    /\ ~overdue[n][a]
    /\ overdue' = [overdue EXCEPT ![n][a] = TRUE]
    /\ UNCHANGED <<row, node, attempt, edge, asked, others, worker, faults>>

WindowCloses ==
    /\ WindowMayClose
    /\ ~windowOver
    /\ windowOver' = TRUE
    /\ UNCHANGED <<status, owner, expired, completed, rows, others, worker, faults>>

\* A lease runs out when nobody renews it: its owner died, or could not release
\* it, or (a freeze) its renewals are late.
LeaseExpires ==
    /\ owner # None
    /\ ~expired
    /\ expired' = TRUE
    /\ IF owner \notin Worker \/ ~Inside(owner)
           THEN UNCHANGED faults
           ELSE /\ faults.freeze < MaxFreezes
                /\ faults' = [faults EXCEPT !.freeze = @ + 1]
    /\ UNCHANGED <<status, owner, completed, windowOver, rows, others, worker>>

\* The process dies: its local state and callbacks are gone, its lease is not.
Crash(w) ==
    /\ faults.crash < MaxCrashes
    /\ Inside(w) \/ \E n \in Node : w \in callback[n]
    /\ owner' = IF owner = w THEN Dead ELSE owner
    /\ callback' = [n \in Node |-> callback[n] \ {w}]
    /\ worker' = [worker EXCEPT ![w] = IdleWorker]
    /\ faults' = [faults EXCEPT !.crash = @ + 1]
    /\ UNCHANGED <<status, expired, completed, windowOver, rows, child, told>>

\* A transaction or a capability call the worker awaits fails.  Taken after a
\* write, it is also the write that committed and whose answer was lost.
CallFails(w) ==
    LET n == Cursor(w)
        a == worker[w].a
    IN  /\ faults.error < MaxErrors
        /\ Inside(w)
        \* the renewal
        /\ \/ /\ worker' = [worker EXCEPT ![w].lost = TRUE]
              /\ UNCHANGED child
        \* a capability: the start of a child, its result, its withdrawal
           \/ /\ At(w, "run") /\ Kind[n] \in ChildKind
              /\ child' \in {child} \cup IF worker[w].res.status = "running"
                                            THEN {Started(n, a)} ELSE {}
              /\ Returns(w, "settle", Fails(n, "refused"))
           \/ /\ At(w, "withdraw")
              /\ IF worker[w].res.status = "none"
                     THEN Goto(w, "end") ELSE Returns(w, "settle", worker[w].res)
              /\ UNCHANGED child
           \/ At(w, "confirm") /\ Returns(w, "release", NoResult) /\ UNCHANGED child
           \/ At(w, "ask") /\ Goto(w, "late") /\ UNCHANGED child
        \* a transaction
           \/ At(w, "release") /\ worker' = [worker EXCEPT ![w] = IdleWorker] /\ UNCHANGED child
           \/ worker[w].pc \in {"catch", "refuse"} /\ Goto(w, "release") /\ UNCHANGED child
           \/ worker[w].pc \notin {"catch", "refuse", "release"} /\ Throw(w) /\ UNCHANGED child
        /\ faults' = [faults EXCEPT !.error = @ + 1]
        /\ UNCHANGED <<row, rows, told, callback>>

-----------------------------------------------------------------------------
Advance(w) ==
    \/ Step(w) \/ StartAttempt(w) \/ InvalidInput(w) \/ RunLocal(w) \/ StartChild(w) \/ MarkChildWaiting(w)
    \/ Confirm(w) \/ ObserveChild(w) \/ Suspend(w) \/ SettleRead(w) \/ SettleWrite(w)
    \/ Skip(w) \/ SettleEdge(w)
Execute(w) ==
    \/ Enter(w) \/ Withdraw(w) \/ End(w) \/ Catch(w) \/ Release(w) \/ Advance(w)
    \/ CancelNode(w) \/ AskChild(w) \/ LateResult(w)

\* The run is settled, nothing is left to a worker: the run may stop here.
Done == /\ status \in Terminal
        /\ \A w \in Worker : ~Inside(w)
        /\ UNCHANGED vars

Next ==
    \/ \E w \in Worker : Claim(w) \/ Renew(w) \/ Execute(w) \/ Crash(w) \/ CallFails(w)
    \/ RequestCancellation \/ WindowCloses \/ LeaseExpires
    \/ \E n \in Node : WakeApproval(n) \/ RecheckComesDue(n)
    \/ \E n \in Node, a \in Number : ChildEnds(n, a) \/ DeadlinePasses(n, a)
    \/ Done

(***************************************************************************)
(* Workers poll for ever and run what they claimed; clocks advance; other  *)
(* modules settle their own children, the subject of their own leases.     *)
(***************************************************************************)
Fairness ==
    /\ \A w \in Worker : WF_vars(Execute(w)) /\ SF_vars(Claim(w))
    /\ WF_vars(LeaseExpires /\ UNCHANGED faults)
    /\ \A n \in Node : WF_vars(WakeApproval(n)) /\ WF_vars(RecheckComesDue(n))
    /\ \A n \in Node, a \in Number : WF_vars(ChildEnds(n, a)) /\ WF_vars(DeadlinePasses(n, a))
    /\ WF_vars(WindowCloses)

Spec == Init /\ [][Next]_vars
FairSpec == Spec /\ Fairness

-----------------------------------------------------------------------------
(***************************************************************************)
(* Properties.  Those that ask for OnTime rest on renewals that arrive in  *)
(* time: no write of the worker carries a fence of its own.                *)
(***************************************************************************)
\* No lease has run out under a worker that was still inside.
OnTime == faults.freeze = 0

\* Two workers are never inside the run at once, through crashes,
\* expiries, failed releases and a cancellation of a parked run
\* (spec/module.yaml: "without concurrently owning the same run").
OneWorkerInside == OnTime => \A v, w \in Worker : Inside(v) /\ Inside(w) => v = w

\* An attempt that settled keeps its outcome ("Retries create immutable
\* attempts"), and so a node succeeds at most once.
AttemptSettlesOnce ==
    [][OnTime' => \A n \in Node, a \in Number :
           attempt[n][a] \in Terminal =>
               /\ (attempt[n][a])' = attempt[n][a]
               /\ attempt[n][a] = "succeeded" => (node[n])' = node[n]]_vars

\* completed_nodes counts the nodes that settled, each once, except
\* those that settle while the run is being cancelled.
SettledNodes == {n \in Node : node[n].status \in NodeSettled}
ProgressIsExact == OnTime =>
    /\ completed <= Cardinality(SettledNodes)
    /\ status \notin {"cancel-requested", "cancelled"} => completed = Cardinality(SettledNodes)

\* Data flows along settled edges only: a node was attempted only after all its
\* edges settled and one of them emitted, an edge emits only the port its
\* settled source selected, and a skipped node emits nothing.
DataFlow == OnTime =>
    /\ \A n \in Node : node[n].latest > 0 /\ Kind[n] # "input" =>
           /\ \A e \in Incoming(n) : edge[e] # "none"
           /\ \E e \in Incoming(n) : edge[e] = "emitted"
    /\ \A e \in Edge :
           /\ edge[e] = "emitted" => /\ node[e.from].status \in NodeSettled \ {"skipped"}
                                     /\ node[e.from].port = e.port
           /\ edge[e] = "skipped" <=> edge[e] # "none" /\ node[e.from].status = "skipped"

\* A requested cancellation is never overwritten and ends only as cancelled; a
\* settled run never moves again.
OutcomeIsFinal ==
    [][/\ status = "cancel-requested" => status' \in {"cancel-requested", "cancelled"}
       /\ status \in Terminal => status' = status]_vars

\* "It prevents new nodes": no attempt starts once the cancellation committed.
NothingStartsAfterCancel ==
    [][\A n \in Node : status \in {"cancel-requested", "cancelled"}
                           => (node[n].latest)' = node[n].latest]_vars

\* At most one child of a node is at work: a retry or a recovery never
\* starts a second one beside a child that has not ended.
OneLiveChildPerNode ==
    OnTime => \A n \in Node : Cardinality({a \in Number : child[n][a] = "live"}) <= 1

\* A run asleep on an approval always has the recheck that wakes it: without it
\* no claim poll would ever match the run again.
SleeperIsRechecked == OnTime =>
    /\ status = "waiting-approval" /\ owner = None =>
           \E n \in Node : node[n].status = "waiting-child" /\ Kind[n] = "approval"
    /\ \A n \in Node : node[n].status = "waiting-child" /\ Kind[n] = "approval"
                           => node[n].due # "none"

\* Every child still at work when its run is cancelled, unless its deadline
\* passed, was asked to stop (spec/module.yaml: "requests cancellation of an
\* in-flight child agent or action through its public capability").
CancelReachesChildren ==
    status = "cancelled" =>
        \A n \in Node, a \in Number :
            child[n][a] = "live" /\ ~overdue[n][a] => <<n, a>> \in told

NoFault == OnTime /\ faults.crash = 0 /\ faults.error = 0

\* The same where no worker died and no call failed, in particular for a child
\* whose wait is recorded after the cancellation was requested.
UnbrokenCancelReachesChildren == NoFault => CancelReachesChildren

\* Where no worker died and no call failed, a run that stopped for any reason
\* leaves nobody asked for a decision (spec/module.yaml: "Whenever the run stops
\* waiting for a pending request [...] the request is withdrawn").
RequestsAreWithdrawn ==
    NoFault /\ status \in Terminal =>
        \A n \in Node, a \in Number : Kind[n] = "approval" => child[n][a] # "live"

\* Whatever happens to its workers, a run reaches an outcome.
RunSettles == <>(status \in Terminal)

\* A run whose nodes all succeed ends succeeded, also when a worker dies on the
\* way (spec/module.yaml: "recover queued or expired work after restart").
RunSucceeds == <>(status = "succeeded")
=============================================================================
