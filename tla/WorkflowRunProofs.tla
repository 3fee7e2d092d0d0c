------------------------- MODULE WorkflowRunProofs -------------------------
(***************************************************************************)
(* Theorems about WorkflowRun, for every graph, number of workers and      *)
(* bound on attempts, crashes, failed calls and cancellations.             *)
(*                                                                         *)
(* That one worker at a time is inside the run is not inductive alone: it  *)
(* rests on a worker inside holding an unexpired lease until the run       *)
(* settles, and on a settled run having no owner.  A worker settles the    *)
(* run with an outcome only if the result it carries to that point names   *)
(* one (Resolved), which is part of Shape, the typing of the rows and of   *)
(* the workers that every step keeps.  On that invariant (RowsInv) stand,  *)
(* one after another: the children (KidsInv), the counter (CountInv), the  *)
(* recheck of a sleeping run (SleepInv), the edges (FlowInv), the order of *)
(* the nodes (TurnInv), and what is owed to a child that still runs when a *)
(* cancellation comes (Care).                                              *)
(***************************************************************************)
EXTENDS WorkflowRun, FiniteSetTheorems, WellFoundedInduction, TLAPS

\* Where #execute may be.
PC == {"idle", "enter", "withdraw", "step", "start", "run", "mark", "confirm", "suspend",
       "settle", "write", "skip", "edges", "cancel", "ask", "late", "end", "refuse",
       "catch", "release"}
\* The points a worker may be at with any result in hand.
Busy == PC \ {"idle", "end", "refuse", "settle", "write", "withdraw"}

Port == {"", "data", "pass", "fail", "success", "approved", "failure"}
Result == [status : AttemptStatus \cup {"skipped"}, port : Port,
           then : {"none", "edges", "retry", "cancel"} \cup Terminal]
\* What #executeNode returns for an attempt it has finished with.
Verdict == {r \in Result : r.then # "none" /\ r.status # "none"}

Local ==
    [pc : PC, i : Nat \ {0}, a : Nat, todo : SUBSET Node, out : SUBSET Edge,
     pending : BOOLEAN, res : Result, lost : BOOLEAN]
NodeRow ==
    [status : NodeStatus \cup AttemptStatus \cup {"skipped"}, latest : Nat, port : Port,
     due : {"none", "later", "now"}]
Fault == [cancel : Nat, crash : Nat, freeze : 0 .. MaxFreezes, error : Nat]

\* A worker about to settle the run carries the outcome it settles it with.
Resolved(r) ==
    /\ r.pc \in {"end", "refuse"} => r.res.then \in Terminal
    /\ r.pc \in {"settle", "write", "withdraw"} => r.res.then # "none"
    /\ r.pc = "withdraw" /\ r.res.status = "none" => r.res.then \in Terminal

Shape ==
    /\ owner \in Worker \cup {None, Dead}
    /\ node \in [Node -> NodeRow]
    /\ worker \in [Worker -> Local]
    /\ \A w \in Worker : Resolved(worker[w])
    /\ faults \in Fault

\* A worker inside holds the lease, until the run is settled and nobody does.
LeaseHeld ==
    \A w \in Worker : Inside(w) => \/ owner = w /\ ~expired
                                   \/ owner = None /\ status \in Terminal
TerminalIsFree == status \in Terminal => owner = None
OneInside == \A v, w \in Worker : Inside(v) /\ Inside(w) => v = w
LeaseInv == LeaseHeld /\ TerminalIsFree /\ OneInside

\* What most steps of a worker are to the lease: one worker moves and stays
\* inside, the lease and whether the run is settled do not change.
Moves(w) ==
    /\ Inside(w)
    /\ \E r \in Local : r.pc # "idle" /\ Resolved(r) /\ worker' = [worker EXCEPT ![w] = r]
Running(w) ==
    /\ Moves(w)
    /\ UNCHANGED <<owner, expired>>
    /\ status \in Terminal <=> status' \in Terminal
    /\ node' \in [Node -> NodeRow]
    /\ faults' \in Fault
LeaseKept ==
    /\ UNCHANGED <<owner, expired>>
    /\ status \in Terminal <=> status' \in Terminal
    /\ \A v \in Worker : Inside(v)' <=> Inside(v)

-----------------------------------------------------------------------------
(***************************************************************************)
(* How a worker moves.                                                     *)
(***************************************************************************)
\* Such a step keeps the shape and the lease.
LEMMA RunningKeeps ==
    ASSUME Shape, NEW w \in Worker, Running(w) PROVE Shape' /\ LeaseKept
  BY DEF Shape, Running, Moves, LeaseKept, Inside, Local

\* Where a worker may go with any result.
LEMMA BusyPoints ==
    /\ \A s \in {"enter", "step", "start", "run", "mark", "confirm", "suspend", "skip", "edges",
                "cancel", "ask", "late", "catch", "release"} : s \in Busy
    /\ \A p \in Busy : /\ p \in PC
                      /\ p \notin {"idle", "end", "refuse", "settle", "write", "withdraw"}
    /\ {"end", "refuse", "settle", "write", "withdraw"} \subseteq PC
  BY DEF Busy, PC

\* Going on without touching the result.
LEMMA GotoMoves ==
    ASSUME Shape, NEW w \in Worker, NEW p \in Busy, Inside(w), Goto(w, p)
    PROVE  Moves(w)
  BY BusyPoints DEF Shape, Goto, Local, Moves, Resolved

\* Going on with another result, or to the catch with a lost lease.
LEMMA ReturnsMoves ==
    ASSUME Shape, NEW w \in Worker, NEW p \in Busy, Inside(w),
           NEW r \in Result, Returns(w, p, r)
    PROVE  Moves(w)
<1>1. worker[w] \in Local
    BY DEF Shape
<1>2. PICK q \in Busy :
          worker' = [worker EXCEPT ![w] = [@ EXCEPT !.pc = q, !.res = r]]
    BY BusyPoints DEF Returns
<1> QED BY <1>1, <1>2, BusyPoints DEF Shape, Local, Moves, Resolved

\* Going on to settle the attempt.
LEMMA VerdictMoves ==
    ASSUME Shape, NEW w \in Worker, NEW p \in {"settle", "withdraw"}, Inside(w),
           NEW r \in Verdict, Returns(w, p, r)
    PROVE  Moves(w)
<1>1. worker[w] \in Local
    BY DEF Shape
<1>2. PICK q \in PC :
          /\ q \in {"settle", "withdraw", "catch"}
          /\ worker' = [worker EXCEPT ![w] = [@ EXCEPT !.pc = q, !.res = r]]
    BY BusyPoints DEF Returns
<1>3. r \in Result /\ r.then # "none" /\ r.status # "none"
    BY DEF Verdict
<1> QED BY <1>1, <1>2, <1>3 DEF Shape, Local, Moves, Resolved

\* A step that writes nothing of the run row or the node rows.
LEMMA OnlyMoves ==
    ASSUME Shape, NEW w \in Worker, Moves(w), UNCHANGED <<status, owner, expired, node, faults>>
    PROVE  Running(w)
    BY DEF Shape, Running

\* The partial results of #execute.
LEMMA Results ==
    /\ NoResult \in Result /\ NoResult.then = "none" /\ NoResult.status = "none"
    /\ \A s \in AttemptStatus \cup {"skipped"} : StatusOnly(s) \in Result
    /\ \A t \in Terminal : ThenOnly(t) \in Result /\ ThenOnly(t).then = t
    BY DEF NoResult, StatusOnly, ThenOnly, Result, Port, AttemptStatus

\* A cursor that has not passed the end of the compiled order is at a node.
LEMMA CursorIsNode ==
    ASSUME NEW w \in Worker, worker[w].i \in Nat \ {0}, ~(worker[w].i > Len(Order))
    PROVE  Cursor(w) \in Node
<1>1. Order \in Seq(Node)
  BY WorkflowAssumption
<1>2. worker[w].i \in DOMAIN Order
  BY <1>1
<1> QED BY <1>2 DEF Cursor, Node

\* On to the next node.
LEMMA NextNodeMoves ==
    ASSUME Shape, NEW w \in Worker, Inside(w), worker' = NextNode(w)
    PROVE  Moves(w)
<1>1. worker[w] \in Local
  BY DEF Shape
<1>2. worker[w].i + 1 \in Nat \ {0}
  BY <1>1 DEF Local
<1> QED BY <1>1, <1>2, Results, BusyPoints DEF NextNode, Moves, Local, Shape, Resolved

-----------------------------------------------------------------------------
(***************************************************************************)
(* The steps of #execute, one lemma each: all of them are of the kind      *)
(* above, except the settling of the run and the release of its lease.     *)
(***************************************************************************)
\* #advance reads where the node under the cursor is.
LEMMA StepKeeps ==
    ASSUME Shape, NEW w \in Worker, Step(w) PROVE Running(w)
<1> DEFINE n == Cursor(w)
<1>0. worker[w] \in Local /\ Inside(w)
  BY DEF Shape, Step, At, Inside
<1>1. Moves(w)
  <2>1. CASE Goto(w, "catch")
    BY <1>0, <2>1, GotoMoves, BusyPoints
  <2>2. CASE Goto(w, "release")
    BY <1>0, <2>2, GotoMoves, BusyPoints
  <2>3. CASE Goto(w, "skip")
    BY <1>0, <2>3, GotoMoves, BusyPoints
  <2>4. CASE worker' = NextNode(w)
    BY <1>0, <2>4, NextNodeMoves
  <2>5. CASE /\ ~(worker[w].i > Len(Order))
             /\ OpenAttempt(n)
             /\ worker' = [worker EXCEPT ![w] = [@ EXCEPT !.pc = "run", !.a = node[n].latest,
                          !.res = StatusOnly(attempt[n][node[n].latest])]]
    <3>1. n \in Node
      BY <1>0, <2>5, CursorIsNode DEF Local
    <3>2. node[n].latest \in Nat /\ attempt[n][node[n].latest] \in AttemptStatus
      BY <2>5, <3>1 DEF OpenAttempt, Live, Shape, NodeRow, AttemptStatus
    <3> HIDE DEF n
    <3> QED BY <1>0, <2>5, <3>2, Results, BusyPoints DEF Shape, Local, Moves, Resolved
  <2>6. CASE /\ ~(worker[w].i > Len(Order))
             /\ worker' = [worker EXCEPT ![w] = [@ EXCEPT !.pc = "start", !.a = node[n].latest + 1]]
    <3>1. n \in Node
      BY <1>0, <2>6, CursorIsNode DEF Local
    <3>2. node[n].latest + 1 \in Nat 
      BY <3>1 DEF Shape, NodeRow
    <3> HIDE DEF n
    <3> QED BY <1>0, <2>6, <3>2, BusyPoints DEF Shape, Local, Moves, Resolved
  <2> QED BY <2>1, <2>2, <2>3, <2>4, <2>5, <2>6 DEF Step, Goto
<1> QED BY <1>1, OnlyMoves DEF Step, row, rows

\* The catch of #execute.
LEMMA CatchKeeps ==
    ASSUME Shape, NEW w \in Worker, Catch(w) PROVE Running(w)
<1>0. worker[w] \in Local /\ Inside(w)
  BY DEF Shape, Catch, At, Inside
<1>1. Moves(w)
  <2>1. CASE Goto(w, "release")
    BY <1>0, <2>1, GotoMoves, BusyPoints
  <2>2. CASE worker' = [worker EXCEPT ![w] = [@ EXCEPT !.pc = "refuse", !.res = ThenOnly("refused")]]
    BY <1>0, <2>2, Results, BusyPoints DEF Shape, Local, Moves, Resolved, Terminal
  <2> QED BY <2>1, <2>2 DEF Catch, Goto
<1> QED BY <1>1, OnlyMoves DEF Catch, row, rows

\* The first read of the claimed run.
LEMMA EnterKeeps ==
    ASSUME Shape, NEW w \in Worker, Enter(w) PROVE Running(w)
<1>0. worker[w] \in Local /\ Inside(w)
  BY DEF Shape, Enter, At, Inside
<1>1. Moves(w)
  <2>1. CASE \E p \in {"release", "step"} : Goto(w, p)
    BY <1>0, <2>1, GotoMoves, BusyPoints
  <2>2. CASE worker' = [worker EXCEPT ![w] = [@ EXCEPT !.pc = "cancel",
                           !.todo = {n \in Node : Waiting(n)}]]
    BY <1>0, <2>2, BusyPoints DEF Shape, Local, Moves, Resolved
  <2>3. CASE worker' = [worker EXCEPT ![w] = [@ EXCEPT !.pc = "end", !.res = ThenOnly("refused")]]
    BY <1>0, <2>3, Results, BusyPoints DEF Shape, Local, Moves, Resolved, Terminal
  <2>4. ASSUME NEW i \in ParkedAt,
               worker' = [worker EXCEPT ![w] = [@ EXCEPT !.pc = "withdraw", !.i = i,
                             !.a = node[Order[i]].latest, !.res = ThenOnly("refused")]]
        PROVE  Moves(w)
    <3>1. i \in Nat \ {0} /\ Order[i] \in Node
      BY WorkflowAssumption DEF ParkedAt, Node
    <3>2. node[Order[i]].latest \in Nat
      BY <3>1 DEF Shape, NodeRow
    <3> QED BY <1>0, <2>4, <3>1, <3>2, Results, BusyPoints DEF Shape, Local, Moves, Resolved, Terminal
  <2> QED BY <2>1, <2>2, <2>3, <2>4 DEF Enter, Goto
<1> QED BY <1>1, OnlyMoves DEF Enter, row

\* #withdrawApproval.
LEMMA WithdrawKeeps ==
    ASSUME Shape, NEW w \in Worker, Withdraw(w) PROVE Running(w)
<1>0. worker[w] \in Local /\ Inside(w)
  BY DEF Shape, Withdraw, At, Inside
<1>1. Moves(w)
  <2>1. Resolved(worker[w]) /\ worker[w].res \in Result
    BY <1>0 DEF Shape, Local
  <2>2. CASE worker[w].res.status = "none" /\ Goto(w, "end")
    BY <1>0, <2>1, <2>2, BusyPoints DEF Withdraw, At, Goto, Shape, Local, Moves, Resolved
  <2>3. CASE worker[w].res.status # "none" /\ Returns(w, "settle", worker[w].res)
    BY <1>0, <2>1, <2>3, VerdictMoves DEF Withdraw, At, Resolved, Verdict
  <2> QED BY <2>2, <2>3 DEF Withdraw
<1> QED BY <1>1, OnlyMoves DEF Withdraw, row, rows

\* startAttempt.
LEMMA StartKeeps ==
    ASSUME Shape, NEW w \in Worker, StartAttempt(w) PROVE Running(w)
<1>0. worker[w] \in Local /\ Inside(w)
  BY DEF Shape, StartAttempt, At, Inside
<1>1. Moves(w)
  <2>1. CASE \E p \in {"release", "catch"} : Goto(w, p)
    BY <1>0, <2>1, GotoMoves, BusyPoints
  <2>2. CASE worker' = [worker EXCEPT ![w] = [@ EXCEPT !.pc = "run", !.res = StatusOnly("running")]]
    BY <1>0, <2>2, Results, BusyPoints DEF Shape, Local, Moves, Resolved, AttemptStatus
  <2> QED BY <2>1, <2>2 DEF StartAttempt, Throw
<1>2. status \in Terminal <=> status' \in Terminal
  BY DEF StartAttempt, MayStart, Terminal
<1>3. node' \in [Node -> NodeRow]
  <2>1. worker[w].a \in Nat
    BY <1>0 DEF Local
  <2>2. CASE UNCHANGED node
    BY <2>2 DEF Shape
  <2>3. CASE node' = [node EXCEPT ![Cursor(w)] = [@ EXCEPT !.status = "running",
                          !.latest = worker[w].a, !.due = "none"]]
    BY <2>1, <2>3 DEF Shape, NodeRow, NodeStatus
  <2> QED BY <2>2, <2>3 DEF StartAttempt
<1> QED BY <1>1, <1>2, <1>3 DEF Running, StartAttempt, Shape

\* A failure is a verdict.
LEMMA FailureResults ==
    ASSUME NEW n, NEW s \in {"failed", "refused", "cancelled"} PROVE Fails(n, s) \in Verdict
    BY DEF Fails, Verdict, Result, Port, Terminal, AttemptStatus

\* So are a success, a refused input and a failure to be retried.
LEMMA SuccessResults ==
    /\ Invalid \in Verdict
    /\ \A p \in Port : Succeeds(p) \in Verdict
    /\ \A a : Retries(a) \subseteq Verdict
<1>1. Invalid \in Verdict
    BY DEF Invalid, Verdict, Result, Port, Terminal, AttemptStatus
<1>2. \A p \in Port : Succeeds(p) \in Verdict
    BY DEF Succeeds, Verdict, Result, Port, Terminal, AttemptStatus
<1>3. [status |-> "failed", port |-> "", then |-> "retry"] \in Verdict
    BY DEF Verdict, Result, Port, Terminal, AttemptStatus
<1> QED BY <1>1, <1>2, <1>3 DEF Retries

\* Whatever a node without a child ends with is a verdict.
LEMMA LocalResults ==
    ASSUME NEW n, NEW a PROVE LocalResult(n, a) \subseteq Verdict
<1>2. {"data", "pass", "fail"} \subseteq Port
    BY DEF Port
<1>3. [status |-> "succeeded", port |-> "", then |-> "succeeded"] \in Verdict
    BY DEF Verdict, Result, Port, Terminal, AttemptStatus
<1> QED BY <1>2, <1>3, FailureResults, SuccessResults DEF LocalResult

\* Whatever a child ends with is a verdict.
LEMMA ChildResults ==
    ASSUME NEW n, NEW a
    PROVE  ChildResult(n, a) \subseteq Verdict
<1>1. {"approved", "success"} \subseteq Port
    BY DEF Port
<1> QED BY <1>1, FailureResults, SuccessResults DEF ChildResult

\* settleAttempt, its update.
LEMMA WriteKeeps ==
    ASSUME Shape, NEW w \in Worker, SettleWrite(w) PROVE Running(w)
<1>0. worker[w] \in Local /\ Inside(w)
  BY DEF Shape, SettleWrite, At, Inside
<1>1. Moves(w)
  <2>1. CASE Goto(w, "release")
    BY <1>0, <2>1, GotoMoves, BusyPoints
  <2>4. CASE worker[w].res.then \notin {"retry", "edges", "cancel"} /\ Goto(w, "end")
    <3>1. worker[w].res \in Result /\ worker[w].res.then # "none"
      BY <1>0 DEF SettleWrite, At, Shape, Local, Resolved
    <3>2. worker[w].res.then \in Terminal
      BY <2>4, <3>1 DEF Result
    <3> QED BY <1>0, <2>4, <3>2, BusyPoints DEF Goto, Shape, Local, Moves, Resolved
  <2>2. CASE worker' = [worker EXCEPT ![w] = [@ EXCEPT !.pc = "edges", !.out = Outgoing(Cursor(w))]]
    BY <1>0, <2>2, BusyPoints DEF Shape, Local, Moves, Resolved, Outgoing
  <2>3. CASE worker' = [worker EXCEPT ![w] = [@ EXCEPT !.pc = "cancel", !.todo = worker[w].todo \ {Cursor(w)}]]
    BY <1>0, <2>3, BusyPoints DEF Shape, Local, Moves, Resolved
  <2> QED BY <2>1, <2>2, <2>3, <2>4 DEF SettleWrite, Goto
<1>2. status \in Terminal <=> status' \in Terminal
  BY DEF SettleWrite, Terminal
<1>3. node' \in [Node -> NodeRow]
  <2>1. worker[w].res.status \in AttemptStatus \cup {"skipped"} /\ worker[w].res.port \in Port
    BY <1>0 DEF Local, Result
  <2> DEFINE retrying == worker[w].res.then = "retry"
             s == IF retrying THEN "waiting-retry" ELSE worker[w].res.status
             d == IF retrying THEN "later" ELSE "none"
  <2>2. /\ s \in NodeStatus \cup AttemptStatus \cup {"skipped"}
        /\ d \in {"none", "later", "now"}
    BY <2>1 DEF NodeStatus
  <2>3. node' = [node EXCEPT ![Cursor(w)] =
                    [@ EXCEPT !.status = s, !.port = worker[w].res.port, !.due = d]]
    BY DEF SettleWrite
  <2> HIDE DEF s, d
  <2> QED BY <2>1, <2>2, <2>3 DEF Shape, NodeRow
<1> QED BY <1>1, <1>2, <1>3 DEF Running, SettleWrite, Shape

\* #failNode for an input that does not fit.
LEMMA InvalidKeeps ==
    ASSUME Shape, NEW w \in Worker, InvalidInput(w) PROVE Running(w)
<1>0. worker[w] \in Local /\ Inside(w)
  BY DEF Shape, InvalidInput, At, Inside
<1>1. Moves(w)
  BY <1>0, SuccessResults, BusyPoints DEF InvalidInput, Shape, Local, Moves, Resolved, Verdict
<1> QED BY <1>1, OnlyMoves DEF InvalidInput, row, rows

\* A node without a child runs.
LEMMA RunLocalKeeps ==
    ASSUME Shape, NEW w \in Worker, RunLocal(w) PROVE Running(w)
<1>0. worker[w] \in Local /\ Inside(w)
  BY DEF Shape, RunLocal, At, Inside
<1>1. Moves(w)
  BY <1>0, LocalResults, VerdictMoves DEF RunLocal
<1> QED BY <1>1, OnlyMoves DEF RunLocal, row, rows

\* A child is started.
LEMMA StartChildKeeps ==
    ASSUME Shape, NEW w \in Worker, StartChild(w) PROVE Running(w)
<1>0. worker[w] \in Local /\ Inside(w)
  BY DEF Shape, StartChild, At, Inside
<1>1. Moves(w)
  BY <1>0, Results, FailureResults, ReturnsMoves, VerdictMoves, BusyPoints DEF StartChild
<1> QED BY <1>1, OnlyMoves DEF StartChild, row, rows

\* A child is looked at.
LEMMA ObserveChildKeeps ==
    ASSUME Shape, NEW w \in Worker, ObserveChild(w)
    PROVE Running(w)
<1>0. worker[w] \in Local /\ Inside(w)
  BY DEF Shape, ObserveChild, At, Inside
<1>1. Moves(w)
  BY <1>0, Results, FailureResults, ChildResults, ReturnsMoves, VerdictMoves, BusyPoints DEF ObserveChild
<1> QED BY <1>1, OnlyMoves DEF ObserveChild, row

\* markChildWaiting.
LEMMA MarkKeeps ==
    ASSUME Shape, NEW w \in Worker, MarkChildWaiting(w) PROVE Running(w)
<1>0. worker[w] \in Local /\ Inside(w)
  BY DEF Shape, MarkChildWaiting, At, Inside
<1>1. Moves(w)
  BY <1>0, GotoMoves, BusyPoints DEF MarkChildWaiting, Throw
<1>2. status \in Terminal <=> status' \in Terminal
  BY DEF MarkChildWaiting, Terminal
<1>3. node' \in [Node -> NodeRow]
  <2>1. CASE UNCHANGED node
    BY <2>1 DEF Shape
  <2>2. CASE node' = [node EXCEPT ![Cursor(w)] =
                          [@ EXCEPT !.status = "waiting-child", !.due = Armed(Cursor(w))]]
    <3>1. Armed(Cursor(w)) \in {"later", "none"} /\ "waiting-child" \in NodeStatus
      BY DEF Armed, NodeStatus
    <3> QED BY <2>2, <3>1 DEF Shape, NodeRow
  <2> QED BY <2>1, <2>2 DEF MarkChildWaiting
<1> QED BY <1>1, <1>2, <1>3 DEF Running, MarkChildWaiting, Shape

\* The read that follows markChildWaiting.
LEMMA ConfirmKeeps ==
    ASSUME Shape, NEW w \in Worker, Confirm(w) PROVE Running(w)
<1>0. worker[w] \in Local /\ Inside(w)
  BY DEF Shape, Confirm, At, Inside
<1>1. Moves(w)
  BY <1>0, Results, ReturnsMoves, BusyPoints DEF Confirm
<1>3. node' \in [Node -> NodeRow]
  BY DEF Confirm, Shape, NodeRow, Woken
<1> QED BY <1>1, <1>3 DEF Running, Confirm, Shape, row

\* suspendApproval.
LEMMA SuspendKeeps ==
    ASSUME Shape, NEW w \in Worker, Suspend(w) PROVE Running(w)
<1>0. worker[w] \in Local /\ Inside(w)
  BY DEF Shape, Suspend, At, Inside
<1>1. Moves(w)
  BY <1>0, GotoMoves, BusyPoints DEF Suspend
<1>2. status \in Terminal <=> status' \in Terminal
  BY DEF Suspend, Terminal
<1>3. node' \in [Node -> NodeRow]
  BY DEF Suspend, Shape, NodeRow
<1> QED BY <1>1, <1>2, <1>3 DEF Running, Suspend, Shape

\* settleAttempt, its read.
LEMMA SettleReadKeeps ==
    ASSUME Shape, NEW w \in Worker, SettleRead(w) PROVE Running(w)
<1>0. worker[w] \in Local /\ Inside(w)
  BY DEF Shape, SettleRead, At, Inside
<1>1. Moves(w)
  <2>1. CASE Goto(w, "catch")
    BY <1>0, <2>1, GotoMoves, BusyPoints
  <2>2. CASE At(w, "settle") /\ Goto(w, "write")
    BY <1>0, <2>2, BusyPoints DEF At, Goto, Shape, Local, Moves, Resolved
  <2> QED BY <2>1, <2>2 DEF SettleRead
<1> QED BY <1>1, OnlyMoves DEF SettleRead, row, rows

\* markNodeSkipped.
LEMMA SkipKeeps ==
    ASSUME Shape, NEW w \in Worker, Skip(w) PROVE Running(w)
<1>0. worker[w] \in Local /\ Inside(w)
  BY DEF Shape, Skip, At, Inside
<1>1. Moves(w)
  <2>1. Outgoing(Cursor(w)) \subseteq Edge
    BY DEF Outgoing
  <2>2. worker' = [worker EXCEPT ![w] = [@ EXCEPT !.pc = "edges", !.out = Outgoing(Cursor(w)),
                                             !.res = StatusOnly("skipped")]]
    BY DEF Skip
  <2> HIDE DEF Outgoing
  <2> QED BY <1>0, <2>1, <2>2, Results, BusyPoints DEF Shape, Local, Moves, Resolved
<1>3. node' \in [Node -> NodeRow]
  BY DEF Skip, Shape, NodeRow
<1> QED BY <1>1, <1>3 DEF Running, Skip, Shape

\* settleEdge.
LEMMA SettleEdgeKeeps ==
    ASSUME Shape, NEW w \in Worker, SettleEdge(w) PROVE Running(w)
<1>0. worker[w] \in Local /\ Inside(w)
  BY DEF Shape, SettleEdge, At, Inside
<1>1. Moves(w)
  <2>1. CASE worker' = NextNode(w)
    BY <1>0, <2>1, NextNodeMoves
  <2>2. CASE Goto(w, "catch")
    BY <1>0, <2>2, GotoMoves, BusyPoints
  <2>3. ASSUME NEW e \in Edge, worker' = [worker EXCEPT ![w].out = worker[w].out \ {e}]
        PROVE  Moves(w)
    BY <1>0, <2>3 DEF Shape, Local, Moves, Inside, Resolved
  <2>4. worker[w].out \subseteq Edge
    BY <1>0 DEF Local
  <2> QED BY <2>1, <2>2, <2>3, <2>4 DEF SettleEdge, Throw
<1> QED BY <1>1, OnlyMoves DEF SettleEdge, row

\* #cancel picks a waiting child.
LEMMA CancelNodeKeeps ==
    ASSUME Shape, NEW w \in Worker, CancelNode(w) PROVE Running(w)
<1>0. worker[w] \in Local /\ Inside(w)
  BY DEF Shape, CancelNode, At, Inside
<1>1. Moves(w)
  <2>1. CASE Goto(w, "release")
    BY <1>0, <2>1, GotoMoves, BusyPoints
  <2>2. CASE worker' = [worker EXCEPT ![w] = [@ EXCEPT !.pc = "end", !.res = ThenOnly("cancelled")]]
    BY <1>0, <2>2, Results, BusyPoints DEF Shape, Local, Moves, Resolved, Terminal
  <2>3. ASSUME NEW i \in DOMAIN Order, NEW p \in {"late", "ask"},
               worker' = [worker EXCEPT ![w] = [@ EXCEPT !.pc = p, !.i = i, !.a = node[Order[i]].latest]]
        PROVE  Moves(w)
    <3>1. i \in Nat \ {0} /\ Order[i] \in Node
      BY WorkflowAssumption DEF Node
    <3>2. node[Order[i]].latest \in Nat
      BY <3>1 DEF Shape, NodeRow
    <3> QED BY <1>0, <2>3, <3>1, <3>2, BusyPoints DEF Shape, Local, Moves, Resolved
  <2> QED BY <2>1, <2>2, <2>3 DEF CancelNode, Goto
<1> QED BY <1>1, OnlyMoves DEF CancelNode, row

\* The child is asked to stop.
LEMMA AskKeeps ==
    ASSUME Shape, NEW w \in Worker, AskChild(w) PROVE Running(w)
<1>0. worker[w] \in Local /\ Inside(w)
  BY DEF Shape, AskChild, At, Inside
<1>1. Moves(w)
  BY <1>0, GotoMoves, BusyPoints DEF AskChild
<1> QED BY <1>1, OnlyMoves DEF AskChild, row, rows

\* The cancelled child is looked at.
LEMMA LateKeeps ==
    ASSUME Shape, NEW w \in Worker, LateResult(w) PROVE Running(w)
<1>0. worker[w] \in Local /\ Inside(w)
  BY DEF Shape, LateResult, At, Inside
<1>1. Moves(w)
  <2>1. [status |-> "cancelled", port |-> "", then |-> "cancel"] \in Result
    BY DEF Result, Port, Terminal, AttemptStatus
  <2>2. CASE worker' = [worker EXCEPT ![w] = [@ EXCEPT !.pc = "settle",
                         !.res = [status |-> "cancelled", port |-> "", then |-> "cancel"]]]
    BY <1>0, <2>1, <2>2, BusyPoints DEF Shape, Local, Moves, Resolved
  <2>3. CASE worker' = [worker EXCEPT ![w] = [@ EXCEPT !.pc = "cancel", !.pending = TRUE,
                         !.todo = worker[w].todo \ {Cursor(w)}]]
    BY <1>0, <2>3, BusyPoints DEF Shape, Local, Moves, Resolved
  <2> QED BY <2>2, <2>3 DEF LateResult
<1> QED BY <1>1, OnlyMoves DEF LateResult, row, rows


\* All of #advance.
LEMMA AdvanceKeeps ==
    ASSUME Shape, NEW w \in Worker, Advance(w) PROVE Running(w)
  BY StepKeeps, StartKeeps, InvalidKeeps, RunLocalKeeps, StartChildKeeps, MarkKeeps, ConfirmKeeps,
     ObserveChildKeeps, SuspendKeeps, SettleReadKeeps, WriteKeeps, SkipKeeps, SettleEdgeKeeps
  DEF Advance

\* A worker that has just claimed, or has nothing claimed.
LEMMA IdleResolved ==
    /\ IdleWorker \in Local /\ Resolved(IdleWorker)
    /\ [IdleWorker EXCEPT !.pc = "enter"] \in Local
    /\ Resolved([IdleWorker EXCEPT !.pc = "enter"])
<1>1. IdleWorker \in Local /\ Resolved(IdleWorker)
  BY Results DEF IdleWorker, Local, PC, Resolved
<1>2. [IdleWorker EXCEPT !.pc = "enter"] \in Local
  BY <1>1 DEF Local, PC
<1>3. Resolved([IdleWorker EXCEPT !.pc = "enter"])
  BY <1>1 DEF Resolved, Local
<1> QED BY <1>1, <1>2, <1>3

\* A failed call leaves the run row alone.
LEMMA CallFailsKeeps ==
    ASSUME Shape, NEW w \in Worker, CallFails(w)
    PROVE  /\ Shape' /\ UNCHANGED <<owner, expired, status>>
           /\ \A v \in Worker : Inside(v)' => Inside(v)
<1>0. worker[w] \in Local /\ Inside(w)
  BY DEF Shape, CallFails
<1>1. CASE At(w, "release") /\ worker' = [worker EXCEPT ![w] = IdleWorker]
  <2>2. worker' \in [Worker -> Local]
    BY <1>1, IdleResolved DEF Shape
  <2>3. \A v \in Worker : Inside(v)' => Inside(v)
    BY <1>0, <1>1 DEF Inside, Shape
  <2>4. faults' \in Fault
    BY DEF CallFails, Shape, Fault
  <2>5. \A v \in Worker : Resolved(worker'[v])
    BY <1>1, IdleResolved DEF Shape
  <2> QED BY <2>2, <2>3, <2>4, <2>5 DEF Shape, CallFails, row, rows
<1>2. CASE ~(At(w, "release") /\ worker' = [worker EXCEPT ![w] = IdleWorker])
  <2>1. Moves(w)
    <3>1. CASE worker' = [worker EXCEPT ![w].lost = TRUE]
      BY <1>0, <3>1 DEF Moves, Shape, Local, Inside, Resolved
    <3>2. CASE \E p \in Busy : Goto(w, p)
      BY <1>0, <3>2, GotoMoves
    <3>3. CASE Returns(w, "release", NoResult)
      BY <1>0, <3>3, ReturnsMoves, Results, BusyPoints
    <3>4. CASE Returns(w, "settle", Fails(Cursor(w), "refused"))
      BY <1>0, <3>4, VerdictMoves, FailureResults
    <3>5. Resolved(worker[w]) /\ worker[w].res \in Result
      BY <1>0 DEF Shape, Local
    <3>6. CASE At(w, "withdraw") /\ worker[w].res.status = "none" /\ Goto(w, "end")
      BY <1>0, <3>5, <3>6, BusyPoints DEF At, Goto, Shape, Local, Moves, Resolved
    <3>7. CASE At(w, "withdraw") /\ worker[w].res.status # "none" /\ Returns(w, "settle", worker[w].res)
      BY <1>0, <3>5, <3>7, VerdictMoves DEF At, Resolved, Verdict
    <3> QED BY <1>2, <3>1, <3>2, <3>3, <3>4, <3>6, <3>7, BusyPoints DEF CallFails, Throw
  <2>2. faults' \in Fault
    BY DEF CallFails, Shape, Fault
  <2>3. Running(w)
    BY <2>1, <2>2 DEF Running, CallFails, Shape, row, rows
  <2> QED BY <2>3, RunningKeeps DEF LeaseKept, CallFails, row
<1> QED BY <1>1, <1>2

\* All of #execute but the settling of the run and the release.
LEMMA ExecuteRuns ==
    ASSUME Shape, NEW w \in Worker, Execute(w), ~End(w), ~Release(w) PROVE Running(w)
  BY EnterKeeps, WithdrawKeeps, CatchKeeps, AdvanceKeeps, CancelNodeKeeps, AskKeeps, LateKeeps
  DEF Execute

-----------------------------------------------------------------------------
(***************************************************************************)
(* The shape of the rows and of the workers.                               *)
(***************************************************************************)
\* A run that was just queued.
LEMMA ShapeInit == Init => Shape
<1>2. [status |-> "pending", latest |-> 0, port |-> "", due |-> "none"] \in NodeRow
  BY DEF NodeRow, NodeStatus, Port
<1>3. [cancel |-> 0, crash |-> 0, freeze |-> 0, error |-> 0] \in Fault
  <2>1. MaxFreezes \in Nat
    BY WorkflowAssumption
  <2>2. 0 \in 0 .. MaxFreezes
    BY <2>1
  <2> QED BY <2>2 DEF Fault
<1>4. Init => worker \in [Worker -> Local] /\ \A w \in Worker : Resolved(worker[w])
  <2>1. Init => worker = [w \in Worker |-> IdleWorker]
    BY DEF Init
  <2> QED BY <2>1, IdleResolved
<1>5. Init => node \in [Node -> NodeRow]
  <2>1. Init => node = [n \in Node |-> [status |-> "pending", latest |-> 0, port |-> "", due |-> "none"]]
    BY DEF Init
  <2> QED BY <2>1, <1>2
<1> QED BY <1>3, <1>4, <1>5 DEF Init, Shape

\* Every step keeps the shape.
LEMMA ShapeNext == Shape /\ [Next]_vars => Shape'
<1> SUFFICES ASSUME Shape, [Next]_vars PROVE Shape'
  OBVIOUS
<1>1. ASSUME NEW w \in Worker, Claim(w) PROVE Shape'
  <2>1. worker' \in [Worker -> Local] /\ \A v \in Worker : Resolved(worker'[v])
    BY <1>1, IdleResolved DEF Claim, Shape
  <2> QED BY <1>1, <2>1 DEF Claim, Shape, rows
<1>2. ASSUME NEW w \in Worker, Renew(w) PROVE Shape'
  <2>1. worker' \in [Worker -> Local] /\ \A v \in Worker : Resolved(worker'[v])
    <3>1. CASE UNCHANGED worker
      BY <3>1 DEF Shape
    <3>2. CASE worker' = [worker EXCEPT ![w].lost = TRUE]
      BY <3>2 DEF Shape, Local, Resolved
    <3> QED BY <1>2, <3>1, <3>2 DEF Renew
  <2> QED BY <1>2, <2>1 DEF Renew, Shape, rows
<1>3. ASSUME NEW w \in Worker, End(w) PROVE Shape'
  <2>1. worker' \in [Worker -> Local] /\ \A v \in Worker : Resolved(worker'[v])
    BY <1>3 DEF End, Goto, Shape, Local, PC, Resolved
  <2> QED BY <1>3, <2>1 DEF End, Shape, rows, SettleRunTo
<1>4. ASSUME NEW w \in Worker, Release(w) PROVE Shape'
  <2>1. worker' \in [Worker -> Local] /\ \A v \in Worker : Resolved(worker'[v])
    BY <1>4, IdleResolved DEF Release, Shape
  <2> QED BY <1>4, <2>1 DEF Release, Shape, rows
<1>5. ASSUME NEW w \in Worker, Running(w) PROVE Shape'
  BY <1>5, RunningKeeps
<1>6. ASSUME NEW w \in Worker, Crash(w) PROVE Shape'
  <2>1. worker' \in [Worker -> Local] /\ \A v \in Worker : Resolved(worker'[v])
    BY <1>6, IdleResolved DEF Crash, Shape
  <2> QED BY <1>6, <2>1 DEF Crash, Shape, rows, Fault
<1>7. ASSUME NEW w \in Worker, CallFails(w) PROVE Shape'
  BY <1>7, CallFailsKeeps
<1>8. CASE RequestCancellation
  BY <1>8 DEF RequestCancellation, Shape, rows, Fault
<1>9. CASE WindowCloses
  BY <1>9 DEF WindowCloses, Shape, rows
<1>10. CASE LeaseExpires
  <2>1. faults' \in Fault
    BY <1>10, WorkflowAssumption DEF LeaseExpires, Shape, Fault
  <2> QED BY <1>10, <2>1 DEF LeaseExpires, Shape, rows
<1>11. ASSUME NEW n \in Node, WakeApproval(n) PROVE Shape'
  BY <1>11 DEF WakeApproval, Shape, row, NodeRow, Woken
<1>12. ASSUME NEW n \in Node, RecheckComesDue(n) PROVE Shape'
  BY <1>12 DEF RecheckComesDue, Shape, row, NodeRow
<1>13. ASSUME NEW n \in Node, NEW a \in Number, ChildEnds(n, a) \/ DeadlinePasses(n, a) PROVE Shape'
  BY <1>13 DEF ChildEnds, DeadlinePasses, Shape, row, rows
<1>14. CASE UNCHANGED vars
  BY <1>14 DEF vars, row, rows, Shape
<1> QED
  BY <1>1, <1>2, <1>3, <1>4, <1>5, <1>6, <1>7, <1>8, <1>9, <1>10, <1>11, <1>12, <1>13, <1>14, ExecuteRuns
  DEF Next, Done

-----------------------------------------------------------------------------
(***************************************************************************)
(* The lease.                                                              *)
(***************************************************************************)
\* Nobody is inside a queued run.
LEMMA LeaseInit == Init => LeaseInv
<1> SUFFICES ASSUME Init PROVE LeaseInv
  OBVIOUS
<1>1. \A w \in Worker : ~Inside(w)
  BY DEF Init, Inside, IdleWorker
<1> QED BY <1>1 DEF Init, LeaseInv, LeaseHeld, TerminalIsFree, OneInside, Terminal

\* While renewals arrive in time, every step keeps the lease's meaning.
LEMMA LeaseNext ==
    ASSUME OnTime', Shape, LeaseInv, [Next]_vars PROVE LeaseInv'
<1> USE DEF LeaseInv
<1>1. ASSUME NEW w \in Worker, Claim(w) PROVE LeaseInv'
  <2>1. status \notin Terminal /\ status' \notin Terminal
    BY <1>1 DEF Claim, Claimable, Terminal
  <2>2. \A v \in Worker \ {w} : ~Inside(v)
    BY <1>1, <2>1, WorkflowAssumption DEF Claim, LeaseFree, LeaseHeld, At, Inside
  <2>3. \A v \in Worker \ {w} : ~Inside(v)'
    BY <1>1, <2>2 DEF Claim, Shape, Inside
  <2> QED BY <1>1, <2>1, <2>3 DEF Claim, LeaseHeld, TerminalIsFree, OneInside
<1>2. ASSUME NEW w \in Worker, Renew(w) PROVE LeaseInv'
  <2>1. \A v \in Worker : Inside(v)' <=> Inside(v)
    BY <1>2 DEF Renew, Shape, Local, Inside
  <2> QED BY <1>2, <2>1 DEF Renew, LeaseHeld, TerminalIsFree, OneInside
<1>3. ASSUME NEW w \in Worker, End(w) PROVE LeaseInv'
  <2>1. \A v \in Worker : Inside(v)' => Inside(v)
    BY <1>3 DEF End, Goto, Shape, Local, Inside
  <2>2. \A v \in Worker : Inside(v) => v = w
    BY <1>3 DEF OneInside, Inside, End
  <2>3. worker[w].res.then \in Terminal
    BY <1>3 DEF End, Shape, Resolved
  <2> QED BY <1>3, <2>1, <2>2, <2>3 DEF End, SettleRunTo, LeaseHeld, TerminalIsFree, OneInside
<1>4. ASSUME NEW w \in Worker, Release(w) PROVE LeaseInv'
  <2>1. \A v \in Worker : ~Inside(v)'
    BY <1>4 DEF Release, Shape, Inside, IdleWorker, OneInside, At
  <2> QED BY <1>4, <2>1 DEF Release, LeaseHeld, TerminalIsFree, OneInside
<1>5. ASSUME LeaseKept PROVE LeaseInv'
  BY <1>5 DEF LeaseKept, LeaseHeld, TerminalIsFree, OneInside
<1>6. ASSUME NEW w \in Worker, Crash(w) PROVE LeaseInv'
  <2>1. \A v \in Worker : Inside(v)' => Inside(v) /\ v # w
    BY <1>6 DEF Crash, Shape, Inside, IdleWorker
  <2>2. status' = status /\ expired' = expired /\ owner' = IF owner = w THEN Dead ELSE owner
    BY <1>6 DEF Crash
  <2> QED BY <2>1, <2>2, WorkflowAssumption DEF LeaseHeld, TerminalIsFree, OneInside
<1>7. ASSUME NEW w \in Worker, CallFails(w) PROVE LeaseInv'
  BY <1>7, CallFailsKeeps DEF LeaseHeld, TerminalIsFree, OneInside
<1>8. CASE RequestCancellation
  BY <1>8 DEF RequestCancellation, LeaseHeld, TerminalIsFree, OneInside, Terminal, Inside
<1>10. CASE LeaseExpires
  <2>1. owner \notin Worker \/ ~Inside(owner)
    <3>1. faults.freeze \in Nat /\ faults'.freeze = 0
      BY WorkflowAssumption DEF Shape, Fault, OnTime
    <3>2. CASE faults' = [faults EXCEPT !.freeze = @ + 1]
      BY <3>1, <3>2 DEF Shape, Fault
    <3> QED BY <1>10, <3>2 DEF LeaseExpires
  <2> QED BY <1>10, <2>1, WorkflowAssumption
          DEF LeaseExpires, LeaseHeld, TerminalIsFree, OneInside, Inside
<1>11. CASE UNCHANGED <<status, owner, expired, worker>>
  BY <1>11 DEF LeaseKept, LeaseHeld, TerminalIsFree, OneInside, Inside
<1>12. ASSUME NEW w \in Worker, Running(w) PROVE LeaseInv'
  BY <1>5, <1>12, RunningKeeps
<1> QED
  BY <1>1, <1>2, <1>3, <1>4, <1>6, <1>7, <1>8, <1>10, <1>11, <1>12, ExecuteRuns
  DEF Next, Done, WindowCloses, WakeApproval, RecheckComesDue, ChildEnds, DeadlinePasses, vars, row

(***************************************************************************)
(* Theorems.                                                               *)
(***************************************************************************)
\* The rows of a run and the local state of its workers always have their shape,
\* and a worker about to settle the run carries an outcome.
THEOREM RunShape == Spec => []Shape
<1> QED BY ShapeInit, ShapeNext, PTL DEF Spec

\* The steps of a worker inside, but the last.
LEMMA NotReleasing ==
    ASSUME NEW w \in Worker, Execute(w), ~Release(w)
    PROVE  Inside(w) /\ worker[w].pc # "release"
<1>1. CASE \/ Enter(w) \/ Withdraw(w) \/ Catch(w) \/ End(w) \/ CancelNode(w) \/ AskChild(w) \/ LateResult(w)
  BY <1>1 DEF Enter, Withdraw, Catch, End, CancelNode, AskChild, LateResult, At, Inside
<1>2. CASE Advance(w)
  <2>1. CASE \/ Step(w) \/ StartAttempt(w) \/ InvalidInput(w) \/ RunLocal(w) \/ StartChild(w)
             \/ MarkChildWaiting(w)
    BY <2>1 DEF Step, StartAttempt, InvalidInput, RunLocal, StartChild, MarkChildWaiting, At, Inside
  <2>2. CASE \/ Confirm(w) \/ ObserveChild(w) \/ Suspend(w) \/ SettleRead(w) \/ SettleWrite(w) \/ Skip(w)
             \/ SettleEdge(w)
    BY <2>2 DEF Confirm, ObserveChild, Suspend, SettleRead, SettleWrite, Skip, SettleEdge, At, Inside
  <2> QED BY <1>2, <2>1, <2>2 DEF Advance
<1> QED BY <1>1, <1>2 DEF Execute

\* Freezes are counted and never forgotten.
LEMMA TimeIsSpent == Shape /\ [Next]_vars /\ OnTime' => OnTime
<1> SUFFICES ASSUME Shape, [Next]_vars, OnTime' PROVE OnTime
  OBVIOUS
<1>1. faults \in Fault
  BY DEF Shape
<1>2. CASE UNCHANGED faults
  BY <1>2 DEF OnTime
<1>3. CASE \/ faults' = [faults EXCEPT !.cancel = @ + 1] \/ faults' = [faults EXCEPT !.crash = @ + 1]
           \/ faults' = [faults EXCEPT !.error = @ + 1]
  <2>1. faults'.freeze = faults.freeze
    BY <1>1, <1>3, Zenon DEF Fault
  <2> QED BY <2>1 DEF OnTime
<1>4. CASE faults' = [faults EXCEPT !.freeze = @ + 1]
  <2>1. faults'.freeze = faults.freeze + 1 /\ faults.freeze \in 0 .. MaxFreezes
    BY <1>1, <1>4 DEF Fault
  <2> QED BY <2>1, WorkflowAssumption DEF OnTime
<1>5. ASSUME NEW w \in Worker, Claim(w) \/ Renew(w) \/ Execute(w) PROVE UNCHANGED faults
  BY <1>5 DEF Claim, Renew, Execute, Enter, Withdraw, Catch, Release, End, Advance, Step, StartAttempt, InvalidInput,
     RunLocal, StartChild, MarkChildWaiting, Confirm, ObserveChild, Suspend, SettleRead, SettleWrite, Skip,
     SettleEdge, CancelNode, AskChild, LateResult
<1>6. ASSUME NEW w \in Worker, Crash(w) PROVE faults' = [faults EXCEPT !.crash = @ + 1]
  BY <1>6 DEF Crash
<1>7. ASSUME NEW w \in Worker, CallFails(w) PROVE faults' = [faults EXCEPT !.error = @ + 1]
  BY <1>7 DEF CallFails
<1> QED BY <1>2, <1>3, <1>4, <1>5, <1>6, <1>7 DEF Next, Done, RequestCancellation, WindowCloses, LeaseExpires,
       WakeApproval, RecheckComesDue, ChildEnds, DeadlinePasses, vars

\* Until a lease runs out under a worker that is still inside, two workers are
\* never inside the run at once, whatever crashes, fails or is cancelled.
THEOREM RunHasOneWorker == Spec => []OneWorkerInside
<1>1. OnTime' /\ Shape /\ LeaseInv /\ [Next]_vars => LeaseInv'
  BY LeaseNext
<1>2. (OnTime => LeaseInv) => OneWorkerInside
  BY DEF LeaseInv, OneInside, OneWorkerInside
<1> QED BY LeaseInit, RunShape, TimeIsSpent, <1>1, <1>2, PTL DEF Spec

\* The status of a settled run does not change, that of a run to be cancelled
\* only to cancelled.
LEMMA StatusMoves ==
    ASSUME [Next]_vars
    PROVE  \/ UNCHANGED status
           \/ status \notin Terminal \cup {"cancel-requested"}
           \/ status = "cancel-requested" /\ status' = "cancelled"
<1> DEFINE Goal == \/ UNCHANGED status
                   \/ status \notin Terminal \cup {"cancel-requested"}
                   \/ status = "cancel-requested" /\ status' = "cancelled"
<1>1. ASSUME NEW w \in Worker, Claim(w) PROVE Goal
  BY <1>1 DEF Claim, Terminal
<1>2. ASSUME NEW w \in Worker, Renew(w) \/ Crash(w) \/ CallFails(w) PROVE Goal
  BY <1>2 DEF Renew, Crash, CallFails, row
<1>3. ASSUME NEW w \in Worker, End(w) PROVE Goal
  BY <1>3 DEF End, SettleRunTo
<1>4. ASSUME NEW w \in Worker, StartAttempt(w) PROVE Goal
  BY <1>4 DEF StartAttempt, MayStart
<1>5. ASSUME NEW w \in Worker, MarkChildWaiting(w) PROVE Goal
  BY <1>5 DEF MarkChildWaiting, Terminal
<1>6. ASSUME NEW w \in Worker, Suspend(w) PROVE Goal
  BY <1>6 DEF Suspend, Terminal
<1>7. ASSUME NEW w \in Worker, SettleWrite(w) PROVE Goal
  BY <1>7 DEF SettleWrite
<1>8. ASSUME NEW w \in Worker, Execute(w), ~End(w), ~StartAttempt(w), ~MarkChildWaiting(w), ~Suspend(w), ~SettleWrite(w)
      PROVE UNCHANGED status
  BY <1>8 DEF Execute, Enter, Withdraw, Catch, Release, Advance, Step, InvalidInput, RunLocal, StartChild,
     Confirm, ObserveChild, SettleRead, Skip, SettleEdge, CancelNode, AskChild, LateResult, row
<1>9. CASE RequestCancellation
  BY <1>9 DEF RequestCancellation
<1>10. CASE UNCHANGED status
  BY <1>10
<1> QED
  BY <1>1, <1>2, <1>3, <1>4, <1>5, <1>6, <1>7, <1>8, <1>9, <1>10
  DEF Next, Done, WindowCloses, LeaseExpires, WakeApproval, RecheckComesDue, ChildEnds, DeadlinePasses, vars, row

\* The outcome of a run and a requested cancellation are final, late renewals and
\* several workers inside included: the guards of the writes suffice.
THEOREM OutcomesAreFinal == Spec => OutcomeIsFinal
<1>1. [Next]_vars => /\ status = "cancel-requested" => status' \in {"cancel-requested", "cancelled"}
                     /\ status \in Terminal => status' = status
  BY StatusMoves DEF Terminal
<1> QED BY <1>1, PTL DEF Spec, OutcomeIsFinal

\* Only startAttempt adds an attempt to a node.
LEMMA OnlyStartsAdd ==
    ASSUME Shape, [Next]_vars, NEW n \in Node, node'[n].latest # node[n].latest
    PROVE  \E w \in Worker : StartAttempt(w) /\ MayStart
<1>1. ASSUME NEW w \in Worker, Claim(w) \/ Renew(w) \/ Crash(w) \/ CallFails(w) PROVE UNCHANGED node
  BY <1>1 DEF Claim, Renew, Crash, CallFails, rows
<1>2. ASSUME NEW w \in Worker, StartAttempt(w), ~MayStart PROVE UNCHANGED node
  BY <1>2 DEF StartAttempt
<1>3. ASSUME NEW w \in Worker, MarkChildWaiting(w) PROVE node'[n].latest = node[n].latest
  <2>1. CASE UNCHANGED node
    BY <2>1
  <2>2. CASE node' = [node EXCEPT ![Cursor(w)] =
                          [@ EXCEPT !.status = "waiting-child", !.due = Armed(Cursor(w))]]
    BY <2>2 DEF Shape, NodeRow
  <2> QED BY <1>3, <2>1, <2>2 DEF MarkChildWaiting
<1>4. ASSUME NEW w \in Worker, SettleWrite(w) PROVE node'[n].latest = node[n].latest
  BY <1>4 DEF SettleWrite, Shape, NodeRow
<1>5. ASSUME NEW w \in Worker, Suspend(w) \/ Skip(w) PROVE node'[n].latest = node[n].latest
  BY <1>5 DEF Suspend, Skip, Shape, NodeRow
<1>6. ASSUME NEW w \in Worker, Confirm(w) PROVE node'[n].latest = node[n].latest
  BY <1>6 DEF Confirm, Woken, Shape, NodeRow
<1>7. ASSUME NEW w \in Worker, Execute(w), ~StartAttempt(w), ~MarkChildWaiting(w), ~Suspend(w), ~SettleWrite(w), ~Skip(w), ~Confirm(w)
      PROVE UNCHANGED node
  BY <1>7 DEF Execute, Enter, Withdraw, Catch, Release, End, Advance, Step, InvalidInput, RunLocal, StartChild,
     ObserveChild, SettleRead, SettleEdge, CancelNode, AskChild, LateResult, rows
<1>8. ASSUME NEW m \in Node, WakeApproval(m) \/ RecheckComesDue(m) PROVE node'[n].latest = node[n].latest
  BY <1>8 DEF WakeApproval, RecheckComesDue, Woken, Shape, NodeRow
<1> QED
  BY <1>1, <1>2, <1>3, <1>4, <1>5, <1>6, <1>7, <1>8
  DEF Next, Done, WindowCloses, LeaseExpires, RequestCancellation, ChildEnds, DeadlinePasses, vars, rows

\* No node of a run starts an attempt once its cancellation committed, late
\* renewals included: startAttempt looks at the run under its row lock.
THEOREM CancelledRunsStartNothing == Spec => NothingStartsAfterCancel
<1>1. Shape /\ [Next]_vars =>
          \A n \in Node : status \in {"cancel-requested", "cancelled"}
                             => (node[n].latest)' = node[n].latest
  BY OnlyStartsAdd DEF MayStart, Terminal
<1> QED BY <1>1, RunShape, PTL DEF Spec, NothingStartsAfterCancel

-----------------------------------------------------------------------------
(***************************************************************************)
(* Attempts.  That a settled attempt keeps its outcome is not inductive:   *)
(* the update of settleAttempt has no condition of its own.  It rests on   *)
(* a node row that agrees with the attempts of its node (Matches) and on   *)
(* where each worker inside is (Placed): a worker that is about to settle  *)
(* an attempt read it as the last of its node and as open, and nobody else *)
(* is inside to settle it first.                                           *)
(***************************************************************************)
Open == {"running", "waiting-child"}

\* A node row and the attempts of the node.
Matches(r, at) ==
    /\ r.status \in NodeStatus
    /\ r.latest \in 0 .. MaxAttempts
    /\ r.status \in {"pending", "skipped"} <=> r.latest = 0
    /\ r.due # "none" => r.status \in {"waiting-retry", "waiting-child"}
    /\ \A a \in Number :
           /\ a > r.latest => at[a] = "none"
           /\ a < r.latest => at[a] = "failed"
           /\ a = r.latest => IF r.status = "waiting-retry"
                                  THEN at[a] = "failed" /\ a < MaxAttempts
                                  ELSE at[a] = r.status
RowsMatch ==
    /\ attempt \in [Node -> [Number -> AttemptStatus]]
    /\ \A n \in Node : Matches(node[n], attempt[n])

\* The points at which a worker is at a node, and has an attempt of it in hand.
Attending == {"run", "mark", "settle", "write", "ask", "late", "withdraw"}
AtNode == Attending \cup {"start", "confirm", "suspend", "skip", "edges"}
Spot(p) == Order[p.i]

Starts(p) ==
    /\ node[Spot(p)].status \in {"pending", "waiting-retry"}
    /\ p.a = node[Spot(p)].latest + 1
Attends(p) ==
    /\ node[Spot(p)].latest > 0
    /\ p.a = node[Spot(p)].latest
    /\ attempt[Spot(p)][p.a] \in Open
    /\ p.pc = "run" => p.res.status = attempt[Spot(p)][p.a]
    /\ p.pc = "mark" => attempt[Spot(p)][p.a] = "running"
    /\ p.pc \in {"ask", "late"} => attempt[Spot(p)][p.a] = "waiting-child"
Settles(p) ==
    /\ p.res.status \in Terminal \/ (p.pc = "withdraw" /\ p.res.status = "none")
    /\ p.res.then = "retry" => p.pc # "withdraw" /\ p.res.status = "failed" /\ p.a < MaxAttempts
    /\ p.res.then = "cancel" => p.pc # "withdraw"
Cancelling(p) ==
    p.pc \in {"cancel", "ask", "late"} \/ (p.pc \in {"settle", "write"} /\ p.res.then = "cancel")

\* What a worker inside has read still holds.
Placed(p) ==
    /\ p.pc \in AtNode => p.i \in DOMAIN Order
    /\ p.pc = "start" => Starts(p)
    /\ p.pc \in Attending => Attends(p)
    /\ p.pc \in {"settle", "write", "withdraw"} => Settles(p)
    /\ Cancelling(p) => \A n \in p.todo : Waiting(n)
Places == \A w \in Worker : Inside(w) => Placed(worker[w])
RowsInv == Shape /\ LeaseInv /\ RowsMatch /\ Places

\* A step that leaves the attempts and, of the node rows, all but the recheck.
OnlyDue ==
    /\ UNCHANGED attempt
    /\ \A n \in Node :
           /\ node'[n].status = node[n].status
           /\ node'[n].latest = node[n].latest
           /\ node'[n].port = node[n].port
           /\ node'[n].due # node[n].due => node[n].status \in {"waiting-retry", "waiting-child"}

\* The order is a sequence of the nodes.
LEMMA SpotIsNode ==
    ASSUME NEW i \in DOMAIN Order PROVE Order[i] \in Node /\ i \in Nat \ {0}
<1>1. Order \in Seq(Node)
  BY WorkflowAssumption
<1> QED BY <1>1

\* The rows match, and a worker stays placed, when only rechecks move.
LEMMA DueKeeps ==
    ASSUME Shape, RowsMatch, OnlyDue
    PROVE  /\ RowsMatch'
           /\ \A p \in Local : Placed(p) => Placed(p)'
<1>1. RowsMatch'
  BY DEF OnlyDue, RowsMatch, Matches
<1>2. ASSUME NEW n \in Node, Waiting(n) PROVE Waiting(n)'
  BY <1>2 DEF OnlyDue, Waiting
<1>3. ASSUME NEW p \in Local, p.i \in DOMAIN Order, Starts(p) PROVE Starts(p)'
  BY <1>3, SpotIsNode DEF Starts, Spot, OnlyDue
<1>4. ASSUME NEW p \in Local, p.i \in DOMAIN Order, Attends(p) PROVE Attends(p)'
  BY <1>4, SpotIsNode DEF Attends, Spot, OnlyDue
<1>5. ASSUME NEW p \in Local, Placed(p) PROVE Placed(p)'
  <2>1. p.todo \subseteq Node
    BY DEF Local
  <2> QED BY <1>2, <1>3, <1>4, <1>5, <2>1 DEF Placed, Settles, Cancelling, AtNode, Attending
<1> QED BY <1>1, <1>5

\* Only the worker inside moves.
LEMMA PlacesMove ==
    ASSUME Shape, LeaseInv, NEW w \in Worker, Inside(w), NEW p, Placed(p)',
           worker' = [worker EXCEPT ![w] = p]
    PROVE  Places'
<1>1. \A v \in Worker \ {w} : ~Inside(v) /\ worker'[v] = worker[v]
  BY DEF LeaseInv, OneInside, Shape
<1>2. worker'[w] = p
  BY DEF Shape
<1> QED BY <1>1, <1>2 DEF Places, Inside

\* Points at which a worker has nothing in hand.
LEMMA FreePlaced ==
    ASSUME NEW p, p.pc \in {"enter", "step", "end", "refuse", "catch", "release"}
    PROVE  Placed(p) /\ Placed(p)'
  BY DEF Placed, AtNode, Attending, Cancelling

\* A move of the worker inside that reads only.
LEMMA ReadingPlaces ==
    ASSUME RowsInv, NEW w \in Worker, Inside(w), OnlyDue,
           NEW p \in Local, Placed(p), worker' = [worker EXCEPT ![w] = p]
    PROVE  RowsMatch' /\ Places'
<1>1. RowsMatch' /\ Placed(p)'
  BY DueKeeps DEF RowsInv
<1> QED BY <1>1, PlacesMove DEF RowsInv

\* Nothing of the rows is written.
LEMMA ReadsOnly ==
    ASSUME UNCHANGED <<node, attempt>> PROVE OnlyDue
  BY DEF OnlyDue

\* It is enough that the local state such a move leads to is placed.
LEMMA ReadingKeeps ==
    ASSUME RowsInv, NEW w \in Worker, Moves(w), OnlyDue,
           \A p \in Local : worker' = [worker EXCEPT ![w] = p] => Placed(p)
    PROVE  RowsMatch' /\ Places'
  BY ReadingPlaces DEF Moves

\* Where the worker is now, and where such a move leads to.
LEMMA MovesTo ==
    ASSUME RowsInv, NEW w \in Worker, Inside(w)
    PROVE  /\ worker[w] \in Local /\ Placed(worker[w]) /\ Cursor(w) = Spot(worker[w])
           /\ \A p, q : /\ worker' = [worker EXCEPT ![w] = p] => worker'[w] = p
  BY DEF RowsInv, Places, Shape, Cursor, Spot

\* What #executeNode ends with can be settled as such.
Ended(r, a) ==
    /\ r.status \in Terminal
    /\ r.then \notin {"cancel", "cancelled"}
    /\ r.then = "retry" => r.status = "failed" /\ a < MaxAttempts

\* The results that end an attempt: none asks for a cancellation, and only an
\* attempt that failed with attempts left is retried.
LEMMA ResultsEnd ==
    /\ \A n, a : /\ Ended(Fails(n, "failed"), a) /\ Fails(n, "failed").then # "retry"
                 /\ Ended(Fails(n, "refused"), a) /\ Fails(n, "refused").then # "retry"
                 /\ Ended(Fails(n, "cancelled"), a)
    /\ \A a : Ended(Invalid, a)
    /\ \A a, port : Ended(Succeeds(port), a)
    /\ \A a : \A r \in Retries(a) : Ended(r, a)
<1>1. ASSUME NEW n, NEW a, NEW s \in {"failed", "refused", "cancelled"}
      PROVE  Ended(Fails(n, s), a) /\ Fails(n, s).then # "retry"
  BY DEF Ended, Fails, Terminal
<1>2. \A a : Ended(Invalid, a)
  BY DEF Ended, Invalid, Terminal
<1>3. \A a, port : Ended(Succeeds(port), a)
  BY DEF Ended, Succeeds, Terminal
<1>4. \A a : \A r \in Retries(a) : Ended(r, a)
  <2> SUFFICES ASSUME NEW a, NEW r \in Retries(a) PROVE Ended(r, a)
    OBVIOUS
  <2>1. r = [status |-> "failed", port |-> "", then |-> "retry"] /\ a < MaxAttempts
    BY DEF Retries
  <2> QED BY <2>1 DEF Ended, Terminal
<1> QED BY <1>1, <1>2, <1>3, <1>4

\* What a node that needs no child returns.
LEMMA LocalResultsEnd ==
    ASSUME NEW n, NEW a, NEW r \in LocalResult(n, a) PROVE Ended(r, a)
<1>1. Ended([status |-> "succeeded", port |-> "", then |-> "succeeded"], a)
  BY DEF Ended, Terminal
<1> QED BY <1>1, ResultsEnd DEF LocalResult

\* What a child that has ended returns.
LEMMA ChildResultsEnd ==
    ASSUME NEW n, NEW a, NEW r \in ChildResult(n, a) PROVE Ended(r, a)
  BY ResultsEnd DEF ChildResult

\* On to settle the attempt the worker executes.
LEMMA EndedPlaced ==
    ASSUME RowsInv, NEW w \in Worker, At(w, "run"), NEW r, Ended(r, worker[w].a),
           NEW pc \in {"settle", "withdraw"}, pc = "withdraw" => r.then # "retry",
           Returns(w, pc, r),
           NEW p \in Local, worker' = [worker EXCEPT ![w] = p]
    PROVE  Placed(p)
<1>1. Inside(w) /\ worker[w] \in Local /\ Placed(worker[w])
  BY MovesTo DEF At, Inside
<1>4. p = [worker[w] EXCEPT !.pc = IF worker[w].lost THEN "catch" ELSE pc, !.res = r]
  BY <1>1 DEF Returns, RowsInv, Shape
<1>2. CASE worker[w].lost
  <2>1. p.pc = "catch"
    BY <1>1, <1>2, <1>4 DEF Local
  <2> QED BY <2>1, FreePlaced
<1>3. CASE ~worker[w].lost
  <2>1. p.i = worker[w].i /\ p.a = worker[w].a /\ p.pc = pc /\ p.res = r
    BY <1>1, <1>3, <1>4 DEF Local
  <2>2. Attends(p) /\ p.i \in DOMAIN Order
    BY <1>1, <2>1 DEF Placed, Attends, Spot, AtNode, Attending, At
  <2>3. Settles(p) /\ ~Cancelling(p)
    BY <2>1 DEF Settles, Ended, Cancelling
  <2> QED BY <2>1, <2>2, <2>3 DEF Placed
<1> QED BY <1>2, <1>3

\* A partial result is the status, or what follows, that it is made of.
LEMMA StatusOnlyIs == \A s : StatusOnly(s).status = s
  BY DEF StatusOnly

\* A result that says only what is next.
LEMMA ThenOnlyIs == \A t : ThenOnly(t).status = "none" /\ ThenOnly(t).then = t
  BY DEF ThenOnly

\* The first read of the claimed run.
LEMMA EnterPlaces ==
    ASSUME RowsInv, NEW w \in Worker, Enter(w) PROVE RowsMatch' /\ Places'
<1>1. OnlyDue /\ Moves(w) /\ Inside(w)
  BY ReadsOnly, EnterKeeps DEF Enter, RowsInv, Running, Moves
<1>2. worker[w] \in Local
  BY DEF RowsInv, Shape
<1>3. ASSUME NEW p \in Local, worker' = [worker EXCEPT ![w] = p] PROVE Placed(p)
  <2>1. worker'[w] = p
    BY <1>3 DEF RowsInv, Shape
  <2>2. CASE \E pc \in {"release", "step"} : Goto(w, pc)
    BY <1>2, <2>1, <2>2, FreePlaced DEF Goto, RowsInv, Shape, Local
  <2>3. CASE worker' = [worker EXCEPT ![w] = [@ EXCEPT !.pc = "cancel",
                           !.todo = {n \in Node : Waiting(n)}]]
    <3>1. p.pc = "cancel" /\ p.todo = {n \in Node : Waiting(n)}
      BY <1>2, <2>1, <2>3 DEF RowsInv, Shape, Local
    <3> QED BY <3>1 DEF Placed, AtNode, Attending
  <2>4. CASE worker' = [worker EXCEPT ![w] = [@ EXCEPT !.pc = "end", !.res = ThenOnly("refused")]]
    <3>1. p.pc = "end"
      BY <1>2, <2>1, <2>4 DEF RowsInv, Shape, Local
    <3> QED BY <3>1, FreePlaced
  <2>5. ASSUME NEW i \in ParkedAt,
               worker' = [worker EXCEPT ![w] = [@ EXCEPT !.pc = "withdraw", !.i = i,
                             !.a = node[Order[i]].latest, !.res = ThenOnly("refused")]]
        PROVE  Placed(p)
    <3>1. p.pc = "withdraw" /\ p.i = i /\ p.a = node[Order[i]].latest /\ p.res = ThenOnly("refused")
      BY <1>2, <2>1, <2>5 DEF RowsInv, Shape, Local
    <3>2. i \in DOMAIN Order /\ Waiting(Order[i]) /\ Order[i] \in Node
      BY SpotIsNode DEF ParkedAt
    <3>3. Spot(p) = Order[i] /\ p.i \in DOMAIN Order
      BY <3>1, <3>2 DEF Spot
    <3>4. Attends(p)
      BY <3>1, <3>2, <3>3 DEF Attends, Waiting, Open
    <3>5. p.res.status = "none" /\ p.res.then = "refused"
      BY <3>1, ThenOnlyIs
    <3>6. Settles(p) /\ ~Cancelling(p)
      BY <3>1, <3>5 DEF Settles, Cancelling
    <3> QED BY <3>1, <3>3, <3>4, <3>6 DEF Placed
  <2> QED BY <1>3, <2>2, <2>3, <2>4, <2>5 DEF Enter, Goto
<1> QED BY <1>1, <1>3, ReadingKeeps

\* #withdrawApproval.
LEMMA WithdrawPlaces ==
    ASSUME RowsInv, NEW w \in Worker, Withdraw(w) PROVE RowsMatch' /\ Places'
<1>1. OnlyDue /\ Moves(w) /\ Inside(w)
  BY ReadsOnly, WithdrawKeeps DEF Withdraw, RowsInv, Running, Moves, rows
<1>2. worker[w] \in Local /\ Placed(worker[w]) /\ worker[w].pc = "withdraw"
  BY <1>1, MovesTo DEF Withdraw, At
<1>3. ASSUME NEW p \in Local, worker' = [worker EXCEPT ![w] = p] PROVE Placed(p)
  <2>1. worker'[w] = p
    BY <1>3 DEF RowsInv, Shape
  <2>2. CASE Goto(w, "end")
    BY <1>2, <2>1, <2>2, FreePlaced DEF Goto, RowsInv, Shape, Local
  <2>3. CASE worker[w].res.status # "none" /\ Returns(w, "settle", worker[w].res)
    <3>3. p = [worker[w] EXCEPT !.pc = IF worker[w].lost THEN "catch" ELSE "settle", !.res = worker[w].res]
      BY <2>1, <2>3 DEF Returns, RowsInv, Shape
    <3>1. CASE worker[w].lost
      <4>1. p.pc = "catch"
        BY <1>2, <3>1, <3>3 DEF Local
      <4> QED BY <4>1, FreePlaced
    <3>2. CASE ~worker[w].lost
      <4>1. p.i = worker[w].i /\ p.a = worker[w].a /\ p.pc = "settle" /\ p.res = worker[w].res
        BY <1>2, <3>2, <3>3 DEF Local
      <4> QED BY <1>2, <2>3, <4>1 DEF Placed, AtNode, Attending, Attends, Settles, Cancelling, Spot
    <3> QED BY <3>1, <3>2
  <2> QED BY <2>2, <2>3 DEF Withdraw
<1> QED BY <1>1, <1>3, ReadingKeeps

\* The settling of the run and the catch of #execute.
LEMMA EndPlaces ==
    ASSUME RowsInv, NEW w \in Worker, End(w) \/ Catch(w) PROVE RowsMatch' /\ Places'
<1>1. OnlyDue /\ Inside(w) /\ worker[w] \in Local
  BY ReadsOnly DEF End, Catch, RowsInv, rows, Inside, At, Shape
<1>2. PICK p \in Local : p.pc \in {"release", "refuse"} /\ worker' = [worker EXCEPT ![w] = p]
  <2>1. CASE worker' = [worker EXCEPT ![w].pc = "release"]
    <3>1. [worker[w] EXCEPT !.pc = "release"] \in Local
      BY <1>1, BusyPoints DEF Local
    <3> QED BY <1>1, <2>1, <3>1 DEF RowsInv, Shape, Local
  <2>2. CASE worker' = [worker EXCEPT ![w] = [@ EXCEPT !.pc = "refuse", !.res = ThenOnly("refused")]]
    <3>1. [worker[w] EXCEPT !.pc = "refuse", !.res = ThenOnly("refused")] \in Local
      BY <1>1, BusyPoints, Results DEF Local, Terminal
    <3> QED BY <1>1, <2>2, <3>1 DEF RowsInv, Shape, Local
  <2> QED BY <2>1, <2>2 DEF End, Catch, Goto
<1>3. Placed(p)
  BY <1>2, FreePlaced
<1> QED BY <1>1, <1>2, <1>3, ReadingPlaces

\* #advance reads where the node under the cursor is.
LEMMA StepPlaces ==
    ASSUME RowsInv, NEW w \in Worker, Step(w) PROVE RowsMatch' /\ Places'
<1> DEFINE n == Cursor(w)
<1>1. OnlyDue /\ Moves(w) /\ Inside(w)
  BY ReadsOnly, StepKeeps DEF Step, RowsInv, Running, Moves, rows
<1>2. worker[w] \in Local
  BY DEF RowsInv, Shape
<1>3. ASSUME NEW p \in Local, worker' = [worker EXCEPT ![w] = p] PROVE Placed(p)
  <2>1. worker'[w] = p
    BY <1>3 DEF RowsInv, Shape
  <2>2. CASE \E pc \in {"catch", "release"} : Goto(w, pc)
    <3>1. p.pc \in {"catch", "release"}
      BY <1>2, <2>1, <2>2 DEF Goto, RowsInv, Shape, Local
    <3> QED BY <3>1, FreePlaced
  <2>3. CASE worker' = NextNode(w)
    <3>1. p.pc = "step"
      BY <1>2, <2>1, <2>3 DEF NextNode, RowsInv, Shape, Local
    <3> QED BY <3>1, FreePlaced
  <2>4. CASE ~(worker[w].i > Len(Order)) /\ Goto(w, "skip")
    <3>1. p.pc = "skip" /\ p.i = worker[w].i
      BY <1>2, <2>1, <2>4 DEF Goto, RowsInv, Shape, Local
    <3>2. p.i \in DOMAIN Order
      BY <1>2, <2>4, <3>1, WorkflowAssumption DEF Local
    <3> QED BY <3>1, <3>2 DEF Placed, Attending, Cancelling
  <2>5. CASE /\ ~(worker[w].i > Len(Order))
             /\ OpenAttempt(n)
             /\ worker' = [worker EXCEPT ![w] = [@ EXCEPT !.pc = "run", !.a = node[n].latest,
                          !.res = StatusOnly(attempt[n][node[n].latest])]]
    <3>1. /\ p.pc = "run" /\ p.i = worker[w].i /\ p.a = node[n].latest
          /\ p.res = StatusOnly(attempt[n][node[n].latest])
      BY <1>2, <2>1, <2>5 DEF RowsInv, Shape, Local
    <3>2. p.i \in DOMAIN Order /\ Spot(p) = n
      BY <1>2, <2>5, <3>1, WorkflowAssumption DEF Local, Spot, Cursor
    <3> HIDE DEF n
    <3>5. p.res.status = attempt[n][node[n].latest]
      BY <3>1, StatusOnlyIs
    <3>3. p.res.status = attempt[n][p.a]
      BY <3>1, <3>5
    <3>4. Attends(p)
      BY <2>5, <3>1, <3>2, <3>3 DEF Attends, OpenAttempt, Live, Open
    <3> QED BY <3>1, <3>2, <3>4 DEF Placed, Cancelling
  <2>6. CASE /\ ~(worker[w].i > Len(Order))
             /\ node[n].status \notin NodeSettled
             /\ ~OpenAttempt(n)
             /\ worker' = [worker EXCEPT ![w] = [@ EXCEPT !.pc = "start", !.a = node[n].latest + 1]]
    <3>1. p.pc = "start" /\ p.i = worker[w].i /\ p.a = node[n].latest + 1
      BY <1>2, <2>1, <2>6 DEF RowsInv, Shape, Local
    <3>2. p.i \in DOMAIN Order /\ Spot(p) = n
      BY <1>2, <2>6, <3>1, WorkflowAssumption DEF Local, Spot, Cursor
    <3>3. n \in Node
      BY <3>2, SpotIsNode DEF Spot
    <3>4. Matches(node[n], attempt[n])
      BY <3>3 DEF RowsInv, RowsMatch
    <3>5. node[n].status \in {"pending", "waiting-retry"}
      BY <2>6, <3>4 DEF Matches, OpenAttempt, Live, NodeStatus, NodeSettled, Terminal, Number
    <3> QED BY <3>1, <3>2, <3>5 DEF Placed, Starts, Attending, Cancelling
  <2> QED BY <1>3, <2>2, <2>3, <2>4, <2>5, <2>6 DEF Step, Goto
<1> QED BY <1>1, <1>3, ReadingKeeps

\* A node runs: its input is refused, it ends at once, or its child is started
\* or looked at.
LEMMA RunPlaces ==
    ASSUME RowsInv, NEW w \in Worker, InvalidInput(w) \/ RunLocal(w) \/ StartChild(w) \/ ObserveChild(w)
    PROVE  RowsMatch' /\ Places'
<1> DEFINE n == Cursor(w)
           a == worker[w].a
<1>1. OnlyDue /\ Moves(w) /\ Inside(w) /\ At(w, "run")
  BY ReadsOnly, InvalidKeeps, RunLocalKeeps, StartChildKeeps, ObserveChildKeeps
  DEF InvalidInput, RunLocal, StartChild, ObserveChild, RowsInv, Running, Moves, rows
<1>2. worker[w] \in Local /\ Placed(worker[w])
  BY <1>1, MovesTo
<1>3. ASSUME NEW p \in Local, worker' = [worker EXCEPT ![w] = p] PROVE Placed(p)
  <2>1. worker'[w] = p
    BY <1>3 DEF RowsInv, Shape
  <2>2. ASSUME NEW r, Ended(r, a), Returns(w, "settle", r) PROVE Placed(p)
    BY <1>1, <1>3, <2>2, EndedPlaced
  <2>3. CASE InvalidInput(w)
    <3>0. p = [worker[w] EXCEPT !.pc = "settle", !.res = Invalid]
      <4>1. worker' = [worker EXCEPT ![w] = [worker[w] EXCEPT !.pc = "settle", !.res = Invalid]]
        BY <2>3, Zenon DEF InvalidInput
      <4>2. w \in DOMAIN worker
        BY DEF RowsInv, Shape
      <4> QED BY <2>1, <4>1, <4>2, Zenon
    <3>1. p.pc = "settle" /\ p.i = worker[w].i /\ p.a = worker[w].a /\ p.res = Invalid
      BY <1>2, <3>0 DEF Local
    <3>2. Attends(p) /\ p.i \in DOMAIN Order
      BY <1>1, <1>2, <3>1 DEF Placed, Attends, Spot, AtNode, Attending, At
    <3>3. Settles(p) /\ ~Cancelling(p)
      BY <3>1, ResultsEnd DEF Settles, Ended, Cancelling
    <3> QED BY <3>1, <3>2, <3>3 DEF Placed
  <2>4. CASE RunLocal(w)
    BY <2>2, <2>4, LocalResultsEnd DEF RunLocal
  <2>5. CASE StartChild(w) /\ Returns(w, "mark", NoResult)
    <3>1. p = [worker[w] EXCEPT !.pc = IF worker[w].lost THEN "catch" ELSE "mark", !.res = NoResult]
      BY <2>1, <2>5 DEF Returns, RowsInv, Shape
    <3>2. p.pc \in {"catch", "mark"} /\ p.i = worker[w].i /\ p.a = worker[w].a
      BY <1>2, <3>1 DEF Local
    <3>3. CASE p.pc = "catch"
      BY <3>3, FreePlaced
    <3>4. CASE p.pc = "mark"
      <4>1. worker[w].res.status = "running"
        BY <2>5 DEF StartChild
      <4>2. Attends(p) /\ p.i \in DOMAIN Order
        BY <1>1, <1>2, <3>2, <3>4, <4>1 DEF Placed, Attends, Spot, AtNode, Attending, At
      <4> QED BY <3>4, <4>2 DEF Placed, Cancelling
    <3> QED BY <3>2, <3>3, <3>4
  <2>6. CASE ObserveChild(w) /\ \E pc \in {"suspend", "release"} : Returns(w, pc, NoResult)
    <3>1. PICK pc \in {"suspend", "release"} :
              p = [worker[w] EXCEPT !.pc = IF worker[w].lost THEN "catch" ELSE pc, !.res = NoResult]
      BY <2>1, <2>6 DEF Returns, RowsInv, Shape
    <3>2. p.pc \in {"catch", "suspend", "release"} /\ p.i = worker[w].i
      BY <1>2, <3>1 DEF Local
    <3>3. CASE p.pc \in {"catch", "release"}
      BY <3>3, FreePlaced
    <3>4. CASE p.pc = "suspend"
      BY <1>1, <1>2, <3>2, <3>4 DEF Placed, AtNode, Attending, Cancelling, At
    <3> QED BY <3>2, <3>3, <3>4
  <2>7. CASE Returns(w, "withdraw", Fails(n, "refused"))
    BY <1>1, <1>3, <2>7, ResultsEnd, EndedPlaced
  <2>8. CASE Returns(w, "settle", Fails(n, "refused"))
    BY <2>2, <2>8, ResultsEnd
  <2>9. ASSUME NEW r \in ChildResult(n, a), Returns(w, "settle", r) PROVE Placed(p)
    BY <2>2, <2>9, ChildResultsEnd
  <2>10. CASE StartChild(w)
    BY <2>5, <2>8, <2>10 DEF StartChild
  <2>11. CASE ObserveChild(w)
    <3>1. \/ Returns(w, "withdraw", Fails(n, "refused"))
          \/ Returns(w, "settle", Fails(n, "refused"))
          \/ \E r \in ChildResult(n, a) : Returns(w, "settle", r)
          \/ \E pc \in {"suspend", "release"} : Returns(w, pc, NoResult)
      BY <2>11 DEF ObserveChild
    <3> HIDE DEF n, a
    <3> QED BY <2>6, <2>7, <2>8, <2>9, <2>11, <3>1
  <2> QED BY <2>3, <2>4, <2>10, <2>11
<1> QED BY <1>1, <1>3, ReadingKeeps

\* A step of the worker that leads to a point with nothing in hand.
LEMMA FreeMoves ==
    ASSUME RowsInv, NEW w \in Worker, Inside(w), OnlyDue,
           NEW p \in Local, worker' = [worker EXCEPT ![w] = p],
           p.pc \in {"enter", "step", "end", "refuse", "catch", "release"}
    PROVE  RowsMatch' /\ Places'
<1>1. Placed(p)
  BY FreePlaced
<1> QED BY <1>1, ReadingPlaces

\* The read after markChildWaiting and the sleep of an approval move a recheck.
LEMMA SleepIsDue ==
    ASSUME RowsInv, NEW w \in Worker, Confirm(w) \/ Suspend(w) PROVE OnlyDue
<1> DEFINE n == Cursor(w)
<1>1. Inside(w)
  BY DEF Confirm, Suspend, At, Inside
<1>2. worker[w] \in Local /\ Placed(worker[w]) /\ n = Spot(worker[w])
  BY <1>1, MovesTo
<1>3. n \in Node
  BY <1>2, SpotIsNode DEF Placed, AtNode, Spot, Confirm, Suspend, At
<1>4. \A m \in Node : node[m] \in NodeRow
  BY DEF RowsInv, Shape
<1>5. CASE UNCHANGED node
  BY <1>5, ReadsOnly DEF Confirm, Suspend
<1>6. ASSUME NEW d, node[n].status = "waiting-child", node' = [node EXCEPT ![n].due = d]
      PROVE  OnlyDue
  BY <1>3, <1>4, <1>6 DEF OnlyDue, NodeRow, RowsInv, Shape, Confirm, Suspend
<1> QED BY <1>5, <1>6 DEF Confirm, Suspend, Woken

\* Both leave the worker with nothing in hand.
LEMMA SleepPlaces ==
    ASSUME RowsInv, NEW w \in Worker, Confirm(w) \/ Suspend(w) PROVE RowsMatch' /\ Places'
<1> DEFINE n == Cursor(w)
<1>1. Moves(w) /\ Inside(w)
  BY ConfirmKeeps, SuspendKeeps DEF RowsInv, Running, Moves
<1>2. worker[w] \in Local /\ Placed(worker[w]) /\ n = Spot(worker[w])
  BY <1>1, MovesTo
<1>3. n \in Node
  BY <1>2, SpotIsNode DEF Placed, AtNode, Spot, Confirm, Suspend, At
<1>4. OnlyDue
  BY SleepIsDue
<1>5. PICK p \in Local : worker' = [worker EXCEPT ![w] = p]
  BY <1>1 DEF Moves
<1>6. p.pc \in {"catch", "release"}
  <2>1. worker'[w] = p
    BY <1>5 DEF RowsInv, Shape
  <2>2. CASE Goto(w, "release")
    BY <1>2, <2>1, <2>2 DEF Goto, RowsInv, Shape, Local
  <2>3. CASE Returns(w, "release", NoResult)
    <3>1. p = [worker[w] EXCEPT !.pc = IF worker[w].lost THEN "catch" ELSE "release", !.res = NoResult]
      BY <2>1, <2>3 DEF Returns, RowsInv, Shape
    <3> QED BY <1>2, <3>1 DEF Local
  <2> QED BY <2>2, <2>3 DEF Confirm, Suspend
<1> QED BY <1>1, <1>4, <1>5, <1>6, FreeMoves

\* settleAttempt, its read.
LEMMA SettleReadPlaces ==
    ASSUME RowsInv, NEW w \in Worker, SettleRead(w) PROVE RowsMatch' /\ Places'
<1>1. OnlyDue /\ Moves(w) /\ Inside(w) /\ At(w, "settle")
  BY ReadsOnly, SettleReadKeeps DEF SettleRead, RowsInv, Running, Moves, rows
<1>2. worker[w] \in Local /\ Placed(worker[w])
  BY <1>1, MovesTo
<1>3. ASSUME NEW p \in Local, worker' = [worker EXCEPT ![w] = p] PROVE Placed(p)
  <2>1. worker'[w] = p
    BY <1>3 DEF RowsInv, Shape
  <2>2. /\ p.pc \in {"catch", "write"} /\ p.i = worker[w].i /\ p.a = worker[w].a
        /\ p.res = worker[w].res /\ p.todo = worker[w].todo
    BY <1>2, <2>1 DEF SettleRead, Goto, RowsInv, Shape, Local
  <2>3. CASE p.pc = "catch"
    BY <2>3, FreePlaced
  <2>4. CASE p.pc = "write"
    <3>1. Attends(p) /\ p.i \in DOMAIN Order
      BY <1>1, <1>2, <2>2, <2>4 DEF Placed, Attends, Spot, AtNode, Attending, At
    <3>2. Settles(p) /\ (Cancelling(p) <=> Cancelling(worker[w]))
      BY <1>1, <1>2, <2>2, <2>4 DEF Placed, Settles, Cancelling, At
    <3> QED BY <1>2, <2>2, <2>4, <3>1, <3>2 DEF Placed
  <2> QED BY <2>2, <2>3, <2>4
<1> QED BY <1>1, <1>3, ReadingKeeps

\* settleEdge.
LEMMA SettleEdgePlaces ==
    ASSUME RowsInv, NEW w \in Worker, SettleEdge(w) PROVE RowsMatch' /\ Places'
<1>1. OnlyDue /\ Moves(w) /\ Inside(w) /\ At(w, "edges")
  BY ReadsOnly, SettleEdgeKeeps DEF SettleEdge, RowsInv, Running, Moves
<1>2. worker[w] \in Local /\ Placed(worker[w])
  BY <1>1, MovesTo
<1>3. ASSUME NEW p \in Local, worker' = [worker EXCEPT ![w] = p] PROVE Placed(p)
  <2>1. worker'[w] = p
    BY <1>3 DEF RowsInv, Shape
  <2>2. CASE worker' = NextNode(w) \/ Throw(w)
    <3>1. p.pc \in {"step", "catch"}
      BY <1>2, <2>1, <2>2 DEF NextNode, Throw, Goto, RowsInv, Shape, Local
    <3> QED BY <3>1, FreePlaced
  <2>3. ASSUME NEW e, worker' = [worker EXCEPT ![w].out = worker[w].out \ {e}] PROVE Placed(p)
    <3>1. p.pc = "edges" /\ p.i = worker[w].i
      BY <1>1, <1>2, <2>1, <2>3 DEF At, RowsInv, Shape, Local
    <3> QED BY <1>1, <1>2, <3>1 DEF Placed, AtNode, Attending, Cancelling, At
  <2> QED BY <2>2, <2>3 DEF SettleEdge
<1> QED BY <1>1, <1>3, ReadingKeeps

\* #cancel: the next waiting child, its cancellation, and what it answers.
LEMMA CancelPlaces ==
    ASSUME RowsInv, NEW w \in Worker, CancelNode(w) \/ AskChild(w) \/ LateResult(w)
    PROVE  RowsMatch' /\ Places'
<1>1. OnlyDue /\ Moves(w) /\ Inside(w) /\ worker[w].pc \in {"cancel", "ask", "late"}
  BY ReadsOnly, CancelNodeKeeps, AskKeeps, LateKeeps
  DEF CancelNode, AskChild, LateResult, RowsInv, Running, Moves, At, rows
<1>2. worker[w] \in Local /\ Placed(worker[w])
  BY <1>1, MovesTo
<1>3. ASSUME NEW p \in Local, worker' = [worker EXCEPT ![w] = p] PROVE Placed(p)
  <2>1. worker'[w] = p
    BY <1>3 DEF RowsInv, Shape
  <2>2. \A m \in worker[w].todo : Waiting(m) /\ m \in Node
    BY <1>1, <1>2 DEF Placed, Cancelling, Local
  <2>3. CASE Goto(w, "release") \/ worker' = [worker EXCEPT ![w] = [@ EXCEPT !.pc = "end", !.res = ThenOnly("cancelled")]]
    <3>1. p.pc \in {"release", "end"}
      BY <1>2, <2>1, <2>3 DEF Goto, RowsInv, Shape, Local
    <3> QED BY <3>1, FreePlaced
  <2>4. ASSUME NEW i \in DOMAIN Order, NEW pc \in {"late", "ask"}, Order[i] \in worker[w].todo,
               worker' = [worker EXCEPT ![w] = [@ EXCEPT !.pc = pc, !.i = i, !.a = node[Order[i]].latest]]
        PROVE  Placed(p)
    <3>1. p.pc = pc /\ p.i = i /\ p.a = node[Order[i]].latest /\ p.todo = worker[w].todo
      BY <1>2, <2>1, <2>4 DEF RowsInv, Shape, Local
    <3>2. Attends(p)
      BY <2>2, <2>4, <3>1 DEF Attends, Spot, Waiting, Open
    <3> QED BY <2>2, <2>4, <3>1, <3>2 DEF Placed
  <2>5. CASE AskChild(w)
    <3>1. p.pc = "late" /\ p.i = worker[w].i /\ p.a = worker[w].a /\ p.todo = worker[w].todo
      BY <1>2, <2>1, <2>5 DEF AskChild, Goto, RowsInv, Shape, Local
    <3>2. worker[w].pc = "ask"
      BY <2>5 DEF AskChild, At
    <3>3. Attends(p) /\ p.i \in DOMAIN Order
      BY <1>2, <3>1, <3>2 DEF Placed, Attends, Spot, AtNode, Attending
    <3> QED BY <2>2, <3>1, <3>3 DEF Placed
  <2>6. CASE LateResult(w)
    <3>1. worker[w].pc = "late"
      BY <2>6 DEF LateResult, At
    <3>2. CASE worker' = [worker EXCEPT ![w] = [@ EXCEPT !.pc = "settle",
                             !.res = [status |-> "cancelled", port |-> "", then |-> "cancel"]]]
      <4>1. /\ p.pc = "settle" /\ p.i = worker[w].i /\ p.a = worker[w].a /\ p.todo = worker[w].todo
            /\ p.res.status = "cancelled" /\ p.res.then = "cancel"
        BY <1>2, <2>1, <3>2 DEF RowsInv, Shape, Local
      <4>2. Attends(p) /\ p.i \in DOMAIN Order
        BY <1>2, <3>1, <4>1 DEF Placed, Attends, Spot, AtNode, Attending
      <4>4. Settles(p)
        BY <4>1 DEF Settles, Terminal
      <4> QED BY <2>2, <4>1, <4>2, <4>4 DEF Placed
    <3>3. CASE worker' = [worker EXCEPT ![w] = [@ EXCEPT !.pc = "cancel", !.pending = TRUE,
                             !.todo = worker[w].todo \ {Cursor(w)}]]
      <4>1. p.pc = "cancel" /\ p.todo \subseteq worker[w].todo
        BY <1>2, <2>1, <3>3 DEF RowsInv, Shape, Local
      <4> QED BY <2>2, <4>1 DEF Placed, AtNode, Attending
    <3> QED BY <2>6, <3>2, <3>3 DEF LateResult
  <2> QED BY <2>3, <2>4, <2>5, <2>6 DEF CancelNode, Goto
<1> QED BY <1>1, <1>3, ReadingKeeps

\* A renewal and a failed call.
LEMMA RenewPlaces ==
    ASSUME RowsInv, NEW w \in Worker, Renew(w) PROVE RowsMatch' /\ Places'
<1>1. OnlyDue /\ Inside(w)
  BY ReadsOnly DEF Renew, rows
<1>2. worker[w] \in Local /\ Placed(worker[w])
  BY <1>1, MovesTo
<1>3. CASE UNCHANGED worker
  <2>1. worker' = [worker EXCEPT ![w] = worker[w]]
    BY <1>3 DEF RowsInv, Shape
  <2> QED BY <1>1, <1>2, <2>1, ReadingPlaces
<1>4. CASE worker' = [worker EXCEPT ![w].lost = TRUE]
  <2>1. PICK p \in Local : p = [worker[w] EXCEPT !.lost = TRUE]
    BY <1>2 DEF Local
  <2>2. worker' = [worker EXCEPT ![w] = p]
    BY <1>4, <2>1
  <2>3. /\ p.pc = worker[w].pc /\ p.i = worker[w].i /\ p.a = worker[w].a
        /\ p.res = worker[w].res /\ p.todo = worker[w].todo
    BY <1>2, <2>1 DEF Local
  <2>4. Placed(p)
    BY <1>2, <2>3 DEF Placed, Attends, Starts, Settles, Cancelling, Spot
  <2> QED BY <1>1, <2>2, <2>4, ReadingPlaces
<1> QED BY <1>3, <1>4 DEF Renew

\* A call of the store that fails.
LEMMA CallFailsPlaces ==
    ASSUME RowsInv, NEW w \in Worker, CallFails(w) PROVE RowsMatch' /\ Places'
<1>1. OnlyDue /\ Inside(w)
  BY ReadsOnly DEF CallFails, rows
<1>2. worker[w] \in Local /\ Placed(worker[w])
  BY <1>1, MovesTo
<1>3. CASE worker' = [worker EXCEPT ![w].lost = TRUE]
  <2>1. PICK p \in Local : p = [worker[w] EXCEPT !.lost = TRUE]
    BY <1>2 DEF Local
  <2>2. worker' = [worker EXCEPT ![w] = p]
    BY <1>3, <2>1
  <2>3. /\ p.pc = worker[w].pc /\ p.i = worker[w].i /\ p.a = worker[w].a
        /\ p.res = worker[w].res /\ p.todo = worker[w].todo
    BY <1>2, <2>1 DEF Local
  <2>4. Placed(p)
    BY <1>2, <2>3 DEF Placed, Attends, Starts, Settles, Cancelling, Spot
  <2> QED BY <1>1, <2>2, <2>4, ReadingPlaces
<1>4. CASE At(w, "run") /\ Returns(w, "settle", Fails(Cursor(w), "refused"))
  <2>1. PICK p \in Local : worker' = [worker EXCEPT ![w] = p]
    BY <1>1, <1>4, VerdictMoves, FailureResults DEF Moves, RowsInv
  <2>2. Placed(p)
    BY <1>4, <2>1, ResultsEnd, EndedPlaced
  <2> QED BY <1>1, <2>1, <2>2, ReadingPlaces
<1>5. CASE At(w, "withdraw") /\ worker[w].res.status = "none" /\ Goto(w, "end")
  <2>1. PICK p \in Local : p = [worker[w] EXCEPT !.pc = "end"]
    BY <1>2, BusyPoints DEF Local
  <2>2. worker' = [worker EXCEPT ![w] = p] /\ p.pc = "end"
    BY <1>2, <1>5, <2>1 DEF Goto, Local
  <2> QED BY <1>1, <2>2, FreeMoves
<1>6. CASE At(w, "withdraw") /\ worker[w].res.status # "none" /\ Returns(w, "settle", worker[w].res)
  <2>1. PICK p \in Local :
            p = [worker[w] EXCEPT !.pc = IF worker[w].lost THEN "catch" ELSE "settle"]
    BY <1>2, BusyPoints DEF Local
  <2>2. worker' = [worker EXCEPT ![w] = p]
    BY <1>2, <1>6, <2>1 DEF Returns, Local
  <2>3. CASE worker[w].lost
    <3>1. p.pc = "catch"
      BY <1>2, <2>1, <2>3 DEF Local
    <3> QED BY <1>1, <2>2, <3>1, FreeMoves
  <2>4. CASE ~worker[w].lost
    <3>1. p.i = worker[w].i /\ p.a = worker[w].a /\ p.pc = "settle" /\ p.res = worker[w].res
      BY <1>2, <2>1, <2>4 DEF Local
    <3>2. Placed(p)
      BY <1>2, <1>6, <3>1 DEF At, Placed, AtNode, Attending, Attends, Settles, Cancelling, Spot
    <3> QED BY <1>1, <2>2, <3>2, ReadingPlaces
  <2> QED BY <2>3, <2>4
<1>7. CASE At(w, "confirm") /\ Returns(w, "release", NoResult)
  <2>1. PICK p \in Local :
            p = [worker[w] EXCEPT !.pc = IF worker[w].lost THEN "catch" ELSE "release", !.res = NoResult]
    BY <1>2, Results, BusyPoints DEF Local
  <2>2. worker' = [worker EXCEPT ![w] = p] /\ p.pc \in {"catch", "release"}
    BY <1>2, <1>7, <2>1 DEF Returns, Local
  <2> QED BY <1>1, <2>2, FreeMoves
<1>8. CASE At(w, "ask") /\ Goto(w, "late")
  <2>1. PICK p \in Local : p = [worker[w] EXCEPT !.pc = "late"]
    BY <1>2, BusyPoints DEF Local
  <2>2. worker' = [worker EXCEPT ![w] = p]
    BY <1>8, <2>1 DEF Goto
  <2>3. p.i = worker[w].i /\ p.a = worker[w].a /\ p.pc = "late" /\ p.todo = worker[w].todo
    BY <1>2, <2>1 DEF Local
  <2>4. Placed(p)
    BY <1>2, <1>8, <2>3 DEF At, Placed, AtNode, Attending, Attends, Cancelling, Spot
  <2> QED BY <1>1, <2>2, <2>4, ReadingPlaces
<1>9. CASE worker' = [worker EXCEPT ![w] = IdleWorker]
  <2>1. \A v \in Worker : ~Inside(v)'
    BY <1>1, <1>9 DEF RowsInv, Shape, LeaseInv, OneInside, Inside, IdleWorker
  <2> QED BY <1>1, <2>1, DueKeeps DEF Places, RowsInv
<1>10. CASE \E q \in {"catch", "release"} : Goto(w, q)
  <2>1. PICK q \in {"catch", "release"} : Goto(w, q)
    BY <1>10
  <2>2. PICK p \in Local : p = [worker[w] EXCEPT !.pc = q]
    BY <1>2, BusyPoints DEF Local
  <2>3. worker' = [worker EXCEPT ![w] = p] /\ p.pc \in {"catch", "release"}
    BY <1>2, <2>1, <2>2 DEF Goto, Local
  <2> QED BY <1>1, <2>3, FreeMoves
<1> QED BY <1>3, <1>4, <1>5, <1>6, <1>7, <1>8, <1>9, <1>10 DEF CallFails, Throw

\* A claim, a release and a crash.
LEMMA InOutPlaces ==
    ASSUME RowsInv, LeaseInv', NEW w \in Worker, Claim(w) \/ Release(w) \/ Crash(w)
    PROVE  RowsMatch' /\ Places'
<1>1. OnlyDue
  BY ReadsOnly DEF Claim, Release, Crash, rows
<1>2. RowsMatch'
  BY <1>1, DueKeeps DEF RowsInv
<1>4. PICK q \in {IdleWorker, [IdleWorker EXCEPT !.pc = "enter"]} : worker' = [worker EXCEPT ![w] = q]
  BY DEF Claim, Release, Crash
<1>5. q.pc \in {"idle", "enter"}
  BY DEF IdleWorker
<1>3. ASSUME NEW v \in Worker, Inside(v)' PROVE Placed(worker[v])'
  <2>1. CASE v = w
    <3>1. worker'[v].pc = "enter"
      BY <1>3, <1>4, <1>5, <2>1 DEF RowsInv, Shape, Inside
    <3> QED BY <3>1 DEF Placed, AtNode, Attending, Cancelling
  <2>2. CASE v # w
    <3>1. PICK p \in Local : p = worker[v]
      BY DEF RowsInv, Shape
    <3>2. worker'[v] = p /\ Inside(v)
      BY <1>3, <1>4, <2>2, <3>1 DEF RowsInv, Shape, Inside
    <3>3. Placed(p)
      BY <3>1, <3>2 DEF RowsInv, Places
    <3>4. Placed(p)'
      BY <1>1, <3>3, DueKeeps DEF RowsInv
    <3> QED BY <3>2, <3>4 
  <2> QED BY <2>1, <2>2
<1> QED BY <1>2, <1>3 DEF Places

\* What is not a worker moves no worker and, of the rows, only rechecks.
LEMMA OutsidePlaces ==
    ASSUME RowsInv, UNCHANGED worker, OnlyDue PROVE RowsMatch' /\ Places'
<1>1. RowsMatch' /\ \A p \in Local : Placed(p) => Placed(p)'
  BY DueKeeps DEF RowsInv
<1>2. ASSUME NEW v \in Worker, Inside(v)' PROVE Placed(worker[v])'
  <2>1. PICK p \in Local : p = worker[v]
    BY DEF RowsInv, Shape
  <2>2. Placed(p)' /\ worker'[v] = p
    BY <1>1, <1>2, <2>1 DEF RowsInv, Places, Inside
  <2> QED BY <2>2
<1> QED BY <1>1, <1>2 DEF Places

-----------------------------------------------------------------------------
(***************************************************************************)
(* The steps that write an attempt or the status of a node.                *)
(***************************************************************************)
\* Only the node n and its attempts are written, and they still match.
LEMMA OneNodeMatches ==
    ASSUME RowsInv, NEW n \in Node,
           \A m \in Node : m # n => node'[m] = node[m] /\ attempt'[m] = attempt[m],
           attempt' \in [Node -> [Number -> AttemptStatus]],
           Matches(node'[n], attempt'[n])
    PROVE  RowsMatch'
<1>1. ASSUME NEW m \in Node PROVE Matches(node'[m], attempt'[m])
  <2>1. CASE m = n
    BY <2>1
  <2>2. CASE m # n
    BY <2>2 DEF RowsInv, RowsMatch
  <2> QED BY <2>1, <2>2
<1> QED BY <1>1 DEF RowsMatch

\* startAttempt.
LEMMA StartPlaces ==
    ASSUME RowsInv, NEW w \in Worker, StartAttempt(w) PROVE RowsMatch' /\ Places'
<1> DEFINE n == Cursor(w)
           a == worker[w].a
<1>1. Moves(w) /\ Inside(w) /\ At(w, "start")
  BY StartKeeps DEF StartAttempt, RowsInv, Running, Moves
<1>2. worker[w] \in Local /\ Placed(worker[w]) /\ n = Spot(worker[w])
  BY <1>1, MovesTo
<1>3. n \in Node /\ Starts(worker[w]) /\ worker[w].i \in DOMAIN Order
  BY <1>1, <1>2, SpotIsNode DEF Placed, AtNode, Spot, At
<1>4. PICK p \in Local : worker' = [worker EXCEPT ![w] = p]
  BY <1>1 DEF Moves
<1>5. worker'[w] = p
  BY <1>4 DEF RowsInv, Shape
<1>6. CASE UNCHANGED <<node, attempt>> /\ \E pc \in {"release", "catch"} : Goto(w, pc)
  <2>1. p.pc \in {"release", "catch"}
    BY <1>2, <1>5, <1>6 DEF Goto, RowsInv, Shape, Local
  <2> QED BY <1>1, <1>4, <1>6, <2>1, ReadsOnly, FreeMoves
<1>7. CASE /\ attempt' = [attempt EXCEPT ![n][a] = "running"]
           /\ node' = [node EXCEPT ![n] = [@ EXCEPT !.status = "running", !.latest = a, !.due = "none"]]
           /\ worker' = [worker EXCEPT ![w] = [@ EXCEPT !.pc = "run", !.res = StatusOnly("running")]]
  <2>0. Matches(node[n], attempt[n]) /\ node[n] \in NodeRow /\ attempt[n] \in [Number -> AttemptStatus]
    BY <1>3 DEF RowsInv, RowsMatch, Shape
  <2>1. a \in Number /\ a = node[n].latest + 1 /\ node[n].latest \in 0 .. MaxAttempts
    <3>1. a = node[n].latest + 1 /\ node[n].status \in {"pending", "waiting-retry"}
      BY <1>2, <1>3 DEF Starts
    <3>2. MaxAttempts \in Nat \ {0}
      BY WorkflowAssumption
    <3>3. node[n].latest \in 0 .. MaxAttempts
      BY <2>0 DEF Matches
    <3>4. CASE node[n].latest = 0
      BY <3>1, <3>2, <3>4 DEF Number
    <3>5. CASE node[n].latest # 0
      <4>1. node[n].status = "waiting-retry"
        BY <2>0, <3>1, <3>5 DEF Matches
      <4>2. node[n].latest \in Number
        BY <3>2, <3>3, <3>5 DEF Number
      <4>3. node[n].latest < MaxAttempts
        BY <2>0, <4>1, <4>2 DEF Matches
      <4> QED BY <3>1, <3>2, <3>3, <4>3 DEF Number
    <3> QED BY <3>1, <3>3, <3>4, <3>5
  <2>2. /\ node'[n].status = "running" /\ node'[n].latest = a /\ node'[n].due = "none"
        /\ \A m \in Node : m # n => node'[m] = node[m] /\ attempt'[m] = attempt[m]
    BY <1>3, <1>7, <2>0 DEF RowsInv, RowsMatch, Shape, NodeRow
  <2>3. attempt'[n] = [attempt[n] EXCEPT ![a] = "running"]
    BY <1>3, <1>7 DEF RowsInv, RowsMatch
  <2>4. attempt' \in [Node -> [Number -> AttemptStatus]]
    BY <1>7 DEF RowsInv, RowsMatch, AttemptStatus
  <2>5. \A b \in Number : attempt'[n][b] = IF b = a THEN "running" ELSE attempt[n][b]
    BY <2>0, <2>1, <2>3
  <2>6. Matches(node'[n], attempt'[n])
    <3>1. \A b \in Number : b < a => attempt[n][b] = "failed"
      BY <1>2, <1>3, <2>0, <2>1 DEF Matches, Starts, Number
    <3>2. \A b \in Number : b > a => attempt[n][b] = "none"
      BY <2>0, <2>1 DEF Matches, Number
    <3>3. a \in 0 .. MaxAttempts /\ a # 0
      BY <2>1, WorkflowAssumption DEF Number
    <3>4. "running" \in NodeStatus
      BY DEF NodeStatus
    <3> QED BY <2>2, <2>5, <3>1, <3>2, <3>3, <3>4 DEF Matches, Number
  <2>7. RowsMatch'
    BY <1>3, <2>2, <2>4, <2>6, OneNodeMatches
  <2>8. p.pc = "run" /\ p.i = worker[w].i /\ p.a = a /\ p.res = StatusOnly("running")
    BY <1>2, <1>5, <1>7 DEF RowsInv, Shape, Local
  <2>9. p.res.status = "running"
    BY <2>8, StatusOnlyIs
  <2>10. Attends(p)'
    <3>1. attempt'[n][a] = "running" /\ a > 0
      BY <2>1, <2>5, WorkflowAssumption DEF Number
    <3>2. Spot(p) = n /\ Spot(p)' = n
      BY <1>2, <2>8 DEF Spot
    <3>3. p.a = a /\ node'[n].latest = a
      BY <2>2, <2>8
    <3> HIDE DEF n, a
    <3> QED BY <2>8, <2>9, <3>1, <3>2, <3>3 DEF Attends, Open
  <2>11. Placed(p)'
    BY <1>3, <2>8, <2>10 DEF Placed, Cancelling
  <2>12. Shape /\ LeaseInv /\ Inside(w)
    BY <1>1 DEF RowsInv
  <2>13. Places'
    BY <1>4, <2>11, <2>12, PlacesMove
  <2> QED BY <2>7, <2>13
<1> QED BY <1>6, <1>7 DEF StartAttempt, Throw

\* markChildWaiting.
LEMMA MarkPlaces ==
    ASSUME RowsInv, NEW w \in Worker, MarkChildWaiting(w) PROVE RowsMatch' /\ Places'
<1> DEFINE n == Cursor(w)
           a == worker[w].a
<1>1. Moves(w) /\ Inside(w) /\ At(w, "mark")
  BY MarkKeeps DEF MarkChildWaiting, RowsInv, Running, Moves
<1>2. worker[w] \in Local /\ Placed(worker[w]) /\ n = Spot(worker[w])
  BY <1>1, MovesTo
<1>3. n \in Node /\ Attends(worker[w]) /\ worker[w].i \in DOMAIN Order
  BY <1>1, <1>2, SpotIsNode DEF Placed, AtNode, Attending, Spot, At
<1>4. PICK p \in Local : worker' = [worker EXCEPT ![w] = p]
  BY <1>1 DEF Moves
<1>5. worker'[w] = p
  BY <1>4 DEF RowsInv, Shape
<1>6. attempt[n][a] = "running" /\ a = node[n].latest /\ node[n].latest > 0
  BY <1>1, <1>2, <1>3 DEF Attends, At
<1>7. /\ attempt' = [attempt EXCEPT ![n][a] = "waiting-child"]
      /\ node' = [node EXCEPT ![n] = [@ EXCEPT !.status = "waiting-child", !.due = Armed(n)]]
      /\ Goto(w, IF Kind[n] = "approval" THEN "confirm" ELSE "release")
  BY <1>6 DEF MarkChildWaiting
<1>8. Matches(node[n], attempt[n]) /\ node[n] \in NodeRow /\ attempt[n] \in [Number -> AttemptStatus]
  BY <1>3 DEF RowsInv, RowsMatch, Shape
<1>9. a \in Number
  BY <1>6, <1>8, WorkflowAssumption DEF Matches, Number
<1>10. /\ node'[n].status = "waiting-child" /\ node'[n].latest = a
       /\ \A m \in Node : m # n => node'[m] = node[m] /\ attempt'[m] = attempt[m]
  BY <1>3, <1>6, <1>7, <1>8 DEF RowsInv, RowsMatch, Shape, NodeRow
<1>11. attempt'[n] = [attempt[n] EXCEPT ![a] = "waiting-child"]
  BY <1>3, <1>7 DEF RowsInv, RowsMatch
<1>12. attempt' \in [Node -> [Number -> AttemptStatus]]
  BY <1>7 DEF RowsInv, RowsMatch, AttemptStatus
<1>13. \A b \in Number : attempt'[n][b] = IF b = a THEN "waiting-child" ELSE attempt[n][b]
  BY <1>8, <1>9, <1>11
<1>14. Matches(node'[n], attempt'[n])
  <2>1. a \in 0 .. MaxAttempts /\ a # 0
    BY <1>9, WorkflowAssumption DEF Number
  <2>2. "waiting-child" \in NodeStatus
    BY DEF NodeStatus
  <2> QED BY <1>6, <1>8, <1>9, <1>10, <1>13, <2>1, <2>2 DEF Matches, Number
<1>15. RowsMatch'
  BY <1>3, <1>10, <1>12, <1>14, OneNodeMatches
<1>16. p.pc \in {"confirm", "release"} /\ p.i = worker[w].i
  BY <1>2, <1>5, <1>7 DEF Goto, RowsInv, Shape, Local
<1>17. Placed(p)'
  BY <1>3, <1>16 DEF Placed, AtNode, Attending, Cancelling
<1> QED BY <1>1, <1>4, <1>15, <1>17, PlacesMove DEF RowsInv

\* markNodeSkipped.
LEMMA SkipPlaces ==
    ASSUME RowsInv, NEW w \in Worker, Skip(w) PROVE RowsMatch' /\ Places'
<1> DEFINE n == Cursor(w)
<1>1. Moves(w) /\ Inside(w) /\ At(w, "skip")
  BY SkipKeeps DEF Skip, RowsInv, Running, Moves
<1>2. worker[w] \in Local /\ Placed(worker[w]) /\ n = Spot(worker[w])
  BY <1>1, MovesTo
<1>3. n \in Node /\ worker[w].i \in DOMAIN Order
  BY <1>1, <1>2, SpotIsNode DEF Placed, AtNode, Spot, At
<1>4. PICK p \in Local : worker' = [worker EXCEPT ![w] = p]
  BY <1>1 DEF Moves
<1>5. worker'[w] = p
  BY <1>4 DEF RowsInv, Shape
<1>6. p.pc = "edges" /\ p.i = worker[w].i
  BY <1>2, <1>5 DEF Skip, RowsInv, Shape, Local
<1>7. Placed(p)'
  BY <1>3, <1>6 DEF Placed, Attending, Cancelling
<1>8. RowsMatch'
  <2>1. Matches(node[n], attempt[n]) /\ node[n] \in NodeRow /\ attempt' = attempt
    BY <1>3 DEF RowsInv, RowsMatch, Shape, Skip
  <2>2. CASE node' = node
    BY <2>1, <2>2 DEF RowsInv, RowsMatch
  <2>3. CASE node[n].status = "pending" /\ node' = [node EXCEPT ![n].status = "skipped"]
    <3>1. /\ node'[n].status = "skipped" /\ node'[n].latest = node[n].latest /\ node'[n].due = node[n].due
          /\ \A m \in Node : m # n => node'[m] = node[m]
      BY <1>3, <2>1, <2>3 DEF RowsInv, Shape, NodeRow
    <3>2. Matches(node'[n], attempt'[n])
      BY <2>1, <2>3, <3>1 DEF Matches, NodeStatus, NodeSettled, Number
    <3> QED BY <1>3, <2>1, <3>1, <3>2, OneNodeMatches DEF RowsInv, RowsMatch
  <2> QED BY <2>2, <2>3 DEF Skip
<1> QED BY <1>1, <1>4, <1>7, <1>8, PlacesMove DEF RowsInv

\* settleAttempt, its update.
LEMMA WritePlaces ==
    ASSUME RowsInv, NEW w \in Worker, SettleWrite(w) PROVE RowsMatch' /\ Places'
<1> DEFINE n == Cursor(w)
           a == worker[w].a
           r == worker[w].res
<1>1. Moves(w) /\ Inside(w) /\ At(w, "write")
  BY WriteKeeps DEF SettleWrite, RowsInv, Running, Moves
<1>2. worker[w] \in Local /\ Placed(worker[w]) /\ n = Spot(worker[w])
  BY <1>1, MovesTo
<1>3. /\ n \in Node /\ worker[w].i \in DOMAIN Order
      /\ Attends(worker[w]) /\ Settles(worker[w])
  BY <1>1, <1>2, SpotIsNode DEF Placed, AtNode, Attending, Spot, At
<1>4. PICK p \in Local : worker' = [worker EXCEPT ![w] = p]
  BY <1>1 DEF Moves
<1>5. worker'[w] = p
  BY <1>4 DEF RowsInv, Shape
<1>6. /\ attempt[n][a] \in Open /\ a = node[n].latest /\ node[n].latest > 0
      /\ r.status \in Terminal
      /\ r.then = "retry" => r.status = "failed" /\ a < MaxAttempts
  BY <1>1, <1>2, <1>3 DEF Attends, Settles, At
<1>7. Matches(node[n], attempt[n]) /\ node[n] \in NodeRow /\ attempt[n] \in [Number -> AttemptStatus]
  BY <1>3 DEF RowsInv, RowsMatch, Shape
<1>8. a \in Number
  BY <1>6, <1>7, WorkflowAssumption DEF Matches, Number
<1>9. /\ node'[n].status = IF r.then = "retry" THEN "waiting-retry" ELSE r.status
      /\ node'[n].latest = a
      /\ r.then # "retry" => node'[n].due = "none"
      /\ \A m \in Node : m # n => node'[m] = node[m] /\ attempt'[m] = attempt[m]
  <2>1. /\ attempt' = [attempt EXCEPT ![n][a] = r.status]
        /\ node' = [node EXCEPT ![n] = [@ EXCEPT !.status = IF r.then = "retry" THEN "waiting-retry" ELSE r.status,
                                           !.port = r.port,
                                           !.due = IF r.then = "retry" THEN "later" ELSE "none"]]
    BY DEF SettleWrite
  <2> HIDE DEF n, a, r
  <2> QED BY <1>3, <1>6, <1>7, <2>1 DEF RowsInv, RowsMatch, Shape, NodeRow
<1>10. attempt'[n] = [attempt[n] EXCEPT ![a] = r.status]
  BY <1>3 DEF SettleWrite, RowsInv, RowsMatch
<1>11. attempt' \in [Node -> [Number -> AttemptStatus]]
  BY <1>6 DEF SettleWrite, RowsInv, RowsMatch, AttemptStatus
<1>12. \A b \in Number : attempt'[n][b] = IF b = a THEN r.status ELSE attempt[n][b]
  BY <1>7, <1>8, <1>10
<1>13. Matches(node'[n], attempt'[n])
  <2>1. a \in 0 .. MaxAttempts /\ a # 0
    BY <1>8, WorkflowAssumption DEF Number
  <2>2. /\ node'[n].status \in NodeStatus
        /\ node'[n].status \notin {"pending", "skipped"}
        /\ node'[n].due # "none" => node'[n].status = "waiting-retry"
        /\ node'[n].status = "waiting-retry" <=> r.then = "retry"
    BY <1>6, <1>9 DEF NodeStatus, NodeSettled, Terminal
  <2>3. \A b \in Number : (b > a => attempt[n][b] = "none") /\ (b < a => attempt[n][b] = "failed")
    BY <1>6, <1>7 DEF Matches
  <2> HIDE DEF n, a, r
  <2> QED BY <1>6, <1>8, <1>9, <1>12, <2>1, <2>2, <2>3 DEF Matches, Number
<1>14. RowsMatch'
  BY <1>3, <1>9, <1>11, <1>13, OneNodeMatches
<1>15. Placed(p)'
  <2>1. CASE p.pc \in {"release", "end"}
    BY <2>1, FreePlaced
  <2>2. CASE worker' = [worker EXCEPT ![w] = [@ EXCEPT !.pc = "edges", !.out = Outgoing(n)]]
    <3>1. p.pc = "edges" /\ p.i = worker[w].i
      BY <1>2, <1>5, <2>2 DEF RowsInv, Shape, Local
    <3> QED BY <1>3, <3>1 DEF Placed, Attending, Cancelling
  <2>3. CASE /\ r.then = "cancel"
             /\ worker' = [worker EXCEPT ![w] = [@ EXCEPT !.pc = "cancel", !.todo = worker[w].todo \ {n}]]
    <3>1. p.pc = "cancel" /\ p.todo = worker[w].todo \ {n}
      BY <1>2, <1>5, <2>3 DEF RowsInv, Shape, Local
    <3>2. \A m \in worker[w].todo : Waiting(m) /\ m \in Node
      BY <1>1, <1>2, <2>3 DEF Placed, Cancelling, At, Local
    <3>3. \A m \in p.todo : Waiting(m)'
      BY <1>9, <3>1, <3>2 DEF Waiting
    <3> QED BY <3>1, <3>3 DEF Placed, AtNode, Attending
  <2>4. CASE worker' = [worker EXCEPT ![w].pc = "release"] \/ worker' = [worker EXCEPT ![w].pc = "end"]
    <3>1. p.pc \in {"release", "end"}
      BY <1>2, <1>5, <2>4 DEF RowsInv, Shape, Local
    <3> QED BY <2>1, <3>1
  <2> QED BY <2>2, <2>3, <2>4 DEF SettleWrite
<1> QED BY <1>1, <1>4, <1>14, <1>15, PlacesMove DEF RowsInv

\* All of #execute.
LEMMA ExecutePlaces ==
    ASSUME RowsInv, LeaseInv', NEW w \in Worker, Execute(w) PROVE RowsMatch' /\ Places'
  BY EnterPlaces, WithdrawPlaces, EndPlaces, InOutPlaces, StepPlaces, StartPlaces, RunPlaces, MarkPlaces,
     SleepPlaces, SettleReadPlaces, WritePlaces, SkipPlaces, SettleEdgePlaces, CancelPlaces
  DEF Execute, Advance

\* A queued run has no attempts, and its nodes none.
LEMMA RowsInit == Init => RowsMatch /\ Places
<1> SUFFICES ASSUME Init PROVE RowsMatch /\ Places
  OBVIOUS
<1>1. \A w \in Worker : ~Inside(w)
  BY DEF Init, Inside, IdleWorker
<1>2. ASSUME NEW n \in Node PROVE Matches(node[n], attempt[n])
  <2>1. /\ node[n].status = "pending" /\ node[n].latest = 0 /\ node[n].due = "none"
        /\ \A a \in Number : attempt[n][a] = "none"
    <3>1. \E q \in Port : node[n] = [status |-> "pending", latest |-> 0, port |-> q, due |-> "none"]
      BY DEF Init, Port
    <3>2. attempt[n] = [a \in Number |-> "none"]
      BY DEF Init
    <3> QED BY <3>1, <3>2
  <2> QED BY <2>1, WorkflowAssumption DEF Matches, NodeStatus, Number
<1>3. attempt \in [Node -> [Number -> AttemptStatus]]
  BY DEF Init, AttemptStatus
<1> QED BY <1>1, <1>2, <1>3 DEF RowsMatch, Places

\* So do the events that wake a node.
LEMMA WakeIsDue ==
    ASSUME RowsInv, NEW n \in Node, WakeApproval(n) \/ RecheckComesDue(n) PROVE OnlyDue
<1>1. \A m \in Node : node[m] \in NodeRow /\ Matches(node[m], attempt[m])
  BY DEF RowsInv, RowsMatch, Shape
<1>2. CASE UNCHANGED node
  BY <1>2, ReadsOnly DEF WakeApproval, RecheckComesDue
<1>3. CASE node' = [node EXCEPT ![n].due = "now"] /\ node[n].status \in {"waiting-retry", "waiting-child"}
  BY <1>1, <1>3 DEF OnlyDue, NodeRow, RowsInv, Shape, WakeApproval, RecheckComesDue
<1>4. node[n].due = "later" => node[n].status \in {"waiting-retry", "waiting-child"}
  BY <1>1 DEF Matches
<1> QED BY <1>2, <1>3, <1>4 DEF WakeApproval, RecheckComesDue, Woken

\* Every step keeps the rows in agreement and the workers placed.
LEMMA RowsNext ==
    ASSUME RowsInv, LeaseInv', [Next]_vars PROVE RowsMatch' /\ Places'
<1>2. CASE UNCHANGED <<node, attempt, worker>>
  BY <1>2, ReadsOnly, OutsidePlaces
<1>3. ASSUME NEW w \in Worker, Claim(w) \/ Renew(w) \/ Execute(w) \/ Crash(w) \/ CallFails(w)
      PROVE  RowsMatch' /\ Places'
  BY <1>3, InOutPlaces, RenewPlaces, ExecutePlaces, CallFailsPlaces
<1>4. ASSUME NEW n \in Node, WakeApproval(n) \/ RecheckComesDue(n) PROVE RowsMatch' /\ Places'
  <2>1. UNCHANGED worker
    BY <1>4 DEF WakeApproval, RecheckComesDue
  <2> QED BY <1>4, <2>1, WakeIsDue, OutsidePlaces
<1> QED BY <1>2, <1>3, <1>4
  DEF Next, Done, RequestCancellation, WindowCloses, LeaseExpires, ChildEnds, DeadlinePasses, vars, rows

\* While renewals arrive in time, all of this holds in every state.
LEMMA RowsHold == Spec => [](OnTime => RowsInv)
<1>1. Init => RowsInv
  BY ShapeInit, LeaseInit, RowsInit DEF RowsInv
<1>2. OnTime' /\ RowsInv /\ [Next]_vars => RowsInv'
  <2> SUFFICES ASSUME OnTime', RowsInv, [Next]_vars PROVE RowsInv'
    OBVIOUS
  <2>1. Shape' /\ LeaseInv'
    BY ShapeNext, LeaseNext DEF RowsInv
  <2> QED BY <2>1, RowsNext DEF RowsInv
<1> QED BY <1>1, <1>2, RunShape, TimeIsSpent, PTL DEF Spec

\* Four steps write attempts; the others move rechecks at most.
LEMMA OthersAreDue ==
    ASSUME RowsInv, [Next]_vars,
           ~ \E w \in Worker : StartAttempt(w) \/ MarkChildWaiting(w) \/ SettleWrite(w) \/ Skip(w)
    PROVE  OnlyDue
<1>1. ASSUME NEW w \in Worker, Confirm(w) \/ Suspend(w) PROVE OnlyDue
  BY <1>1, SleepIsDue
<1>2. ASSUME NEW w \in Worker, Execute(w), ~Confirm(w), ~Suspend(w) PROVE UNCHANGED <<node, attempt>>
  BY <1>2 DEF Execute, Enter, Withdraw, Catch, Release, End, Advance, Step, InvalidInput, RunLocal, StartChild,
     ObserveChild, SettleRead, SettleEdge, CancelNode, AskChild, LateResult, rows
<1>3. ASSUME NEW w \in Worker, Claim(w) \/ Renew(w) \/ Crash(w) \/ CallFails(w) PROVE UNCHANGED <<node, attempt>>
  BY <1>3 DEF Claim, Renew, Crash, CallFails, rows
<1>4. ASSUME NEW n \in Node, WakeApproval(n) \/ RecheckComesDue(n) PROVE OnlyDue
  BY <1>4, WakeIsDue
<1>5. CASE UNCHANGED <<node, attempt>>
  BY <1>5, ReadsOnly
<1> QED BY <1>1, <1>2, <1>3, <1>4, <1>5
  DEF Next, Done, RequestCancellation, WindowCloses, LeaseExpires, ChildEnds, DeadlinePasses, vars, rows

\* A node none of whose attempts is settled but those that failed.
LEMMA NotYetSucceeded ==
    ASSUME RowsInv, NEW n \in Node, node[n].status \in {"pending", "running", "waiting-child", "waiting-retry"}
    PROVE  \A a \in Number : attempt[n][a] # "succeeded"
  BY DEF RowsInv, RowsMatch, Matches, Number

\* A settled attempt keeps its outcome, and a node that succeeded its row.
LEMMA SettlesOnce ==
    ASSUME RowsInv, Shape', [Next]_vars, NEW n \in Node, NEW a \in Number, attempt[n][a] \in Terminal
    PROVE  /\ attempt'[n][a] = attempt[n][a]
           /\ attempt[n][a] = "succeeded" => node'[n] = node[n]
<1> DEFINE Goal == /\ attempt'[n][a] = attempt[n][a]
                   /\ attempt[n][a] = "succeeded" => node'[n] = node[n]
<1>0. /\ node[n] \in NodeRow /\ node'[n] \in NodeRow
      /\ Matches(node[n], attempt[n]) /\ attempt[n] \in [Number -> AttemptStatus]
  BY DEF RowsInv, RowsMatch, Shape
<1>1. ASSUME OnlyDue PROVE Goal
  <2>1. attempt[n][a] = "succeeded" => node'[n].due = node[n].due
    BY <1>1, NotYetSucceeded DEF OnlyDue
  <2> QED BY <1>0, <1>1, <2>1 DEF OnlyDue, NodeRow
<1>2. ASSUME NEW w \in Worker, StartAttempt(w) \/ MarkChildWaiting(w) \/ SettleWrite(w) \/ Skip(w) PROVE Goal
  <2> DEFINE m == Cursor(w)
             b == worker[w].a
  <2>1. worker[w] \in Local /\ Placed(worker[w]) /\ m = Spot(worker[w])
    BY <1>2, MovesTo DEF StartAttempt, MarkChildWaiting, SettleWrite, Skip, At, Inside
  <2>2. m \in Node /\ node[m] \in NodeRow /\ Matches(node[m], attempt[m])
    <3>1. worker[w].i \in DOMAIN Order
      BY <1>2, <2>1 DEF StartAttempt, MarkChildWaiting, SettleWrite, Skip, At, Placed, AtNode, Attending
    <3> QED BY <2>1, <3>1, SpotIsNode DEF Spot, RowsInv, RowsMatch, Shape
  <2>3. CASE Skip(w)
    <3>1. UNCHANGED attempt
      BY <2>3 DEF Skip
    <3>2. node[n] # node'[n] => node[n].status = "pending"
      BY <2>2, <2>3 DEF Skip, RowsInv, Shape
    <3> QED BY <3>1, <3>2, NotYetSucceeded
  <2>4. CASE StartAttempt(w)
    <3>1. Starts(worker[w])
      BY <2>1, <2>4 DEF StartAttempt, At, Placed
    <3>2. node[n] # node'[n] => n = m
      BY <2>2, <2>4 DEF StartAttempt, RowsInv, Shape
    <3>3. attempt'[n][a] = attempt[n][a]
      <4>1. CASE attempt' = attempt
        BY <4>1
      <4>2. CASE attempt' = [attempt EXCEPT ![m][b] = "running"] /\ attempt[m][b] = "none"
        <5> HIDE DEF m, b
        <5> QED BY <4>2, <2>2 DEF RowsInv, RowsMatch, Terminal
      <4> QED BY <2>4, <4>1, <4>2 DEF StartAttempt
    <3>4. node[m].status \in {"pending", "waiting-retry"}
      BY <2>1, <3>1 DEF Starts
    <3> QED BY <2>2, <3>2, <3>3, <3>4, NotYetSucceeded
  <2>5. CASE MarkChildWaiting(w) \/ SettleWrite(w)
    <3>1. Attends(worker[w])
      BY <2>1, <2>5 DEF MarkChildWaiting, SettleWrite, At, Placed, Attending
    <3>2. node[m].latest > 0 /\ b = node[m].latest /\ attempt[m][b] \in Open
      BY <2>1, <3>1 DEF Attends
    <3>3. node[n] # node'[n] => n = m
      <4>1. node' = node \/ \E x : node' = [node EXCEPT ![m] = x]
        BY <2>5 DEF MarkChildWaiting, SettleWrite
      <4> QED BY <2>2, <4>1 DEF RowsInv, Shape
    <3>4. attempt'[n][a] = attempt[n][a]
      <4>1. attempt' = attempt \/ \E x : attempt' = [attempt EXCEPT ![m][b] = x]
        BY <2>5 DEF MarkChildWaiting, SettleWrite
      <4>2. ~(n = m /\ a = b)
        BY <3>2 DEF Open, Terminal
      <4> HIDE DEF m, b
      <4> QED BY <2>2, <4>1, <4>2 DEF RowsInv, RowsMatch
    <3>5. node[m].status \in {"running", "waiting-child"}
      <4>1. b \in Number
        BY <2>2, <3>2, WorkflowAssumption DEF Matches, Number
      <4>2. node[m].status # "waiting-retry"
        BY <2>2, <3>2, <4>1 DEF Matches, Open
      <4> QED BY <2>2, <3>2, <4>1, <4>2 DEF Matches, Open
    <3> QED BY <2>2, <3>3, <3>4, <3>5, NotYetSucceeded
  <2> QED BY <1>2, <2>3, <2>4, <2>5
<1> QED BY <1>1, <1>2, OthersAreDue

\* While renewals arrive in time, an attempt that settled keeps its outcome and a
\* node succeeds at most once, whatever crashes, fails, is retried or cancelled,
\* although the update of settleAttempt has no condition on the attempt.
THEOREM AttemptsSettleOnce == Spec => AttemptSettlesOnce
<1>1. RowsInv /\ RowsInv' /\ [Next]_vars =>
          \A n \in Node, a \in Number :
              attempt[n][a] \in Terminal =>
                  /\ (attempt[n][a])' = attempt[n][a]
                  /\ attempt[n][a] = "succeeded" => (node[n])' = node[n]
  BY SettlesOnce DEF RowsInv
<1> QED BY RowsHold, RunShape, TimeIsSpent, <1>1, PTL DEF Spec, AttemptSettlesOnce

-----------------------------------------------------------------------------
(***************************************************************************)
(* Children.  At most one child of a node is at work because only the last *)
(* attempt of a node may have one at work, and none once that attempt is   *)
(* to be retried: what decides on the retry saw the child's end.           *)
(***************************************************************************)
ChildStatus == {"none", "live", "succeeded", "failed", "cancelled"}
LastOnly(n, a) ==
    /\ child[n][a] # "none" => a <= node[n].latest /\ Kind[n] \in ChildKind
    /\ child[n][a] = "live" => a = node[n].latest /\ node[n].status # "waiting-retry"
Retrying(p) == p.pc \in {"settle", "write"} /\ p.res.then = "retry"
Childless(p) == Retrying(p) => child[Spot(p)][p.a] # "live"
KidsInv ==
    /\ child \in [Node -> [Number -> ChildStatus]]
    /\ \A n \in Node, a \in Number : LastOnly(n, a)
    /\ \A w \in Worker : Inside(w) => Childless(worker[w])

\* A step that starts no child.
NoChildStarts ==
    /\ child' \in [Node -> [Number -> ChildStatus]]
    /\ \A n \in Node, a \in Number :
           /\ child'[n][a] = "live" => child[n][a] = "live"
           /\ child'[n][a] # "none" => child[n][a] # "none"

\* The attempt a worker executes is of a node and has a number.
LEMMA InHand ==
    ASSUME RowsInv, NEW w \in Worker, worker[w].pc \in Attending
    PROVE  /\ Cursor(w) \in Node /\ worker[w].a \in Number /\ worker[w].i \in DOMAIN Order
           /\ Cursor(w) = Spot(worker[w]) /\ Attends(worker[w])
           /\ worker[w].a = node[Cursor(w)].latest
           /\ attempt[Cursor(w)][worker[w].a] \in Open
           /\ node[Cursor(w)].status = attempt[Cursor(w)][worker[w].a]
<1> DEFINE n == Cursor(w)
           a == worker[w].a
<1>1. worker[w] \in Local /\ Placed(worker[w]) /\ Inside(w) /\ n = Spot(worker[w])
  BY MovesTo DEF Inside, Attending
<1>2. n \in Node /\ Attends(worker[w]) /\ worker[w].i \in DOMAIN Order
  BY <1>1, SpotIsNode DEF Placed, AtNode, Spot
<1>3. a = node[n].latest /\ node[n].latest > 0 /\ attempt[n][a] \in Open
  BY <1>1, <1>2 DEF Attends
<1>4. Matches(node[n], attempt[n])
  BY <1>2 DEF RowsInv, RowsMatch
<1>5. a \in Number
  BY <1>3, <1>4, WorkflowAssumption DEF Matches, Number
<1>6. node[n].status = attempt[n][a]
  BY <1>3, <1>4, <1>5 DEF Matches, Open
<1> QED BY <1>1, <1>2, <1>3, <1>5, <1>6

\* Nothing of a child is written.
LEMMA NoChildMoves ==
    ASSUME KidsInv, UNCHANGED child PROVE NoChildStarts
  BY DEF NoChildStarts, KidsInv

\* Steps that write a child: only the start of one brings it to work.
LEMMA WithdrawnStarts ==
    ASSUME RowsInv, KidsInv, NEW w \in Worker, Withdraw(w) \/ AskChild(w) PROVE NoChildStarts
<1>1. worker[w].pc \in Attending
  BY DEF Withdraw, AskChild, At, Attending
<1>2. Cursor(w) \in Node /\ worker[w].a \in Number
  BY <1>1, InHand
<1>3. child' = child \/ /\ child' = [child EXCEPT ![Cursor(w)][worker[w].a] = "cancelled"]
                        /\ child[Cursor(w)][worker[w].a] = "live"
  BY DEF Withdraw, AskChild, Cancelled
<1> QED BY <1>2, <1>3 DEF KidsInv, NoChildStarts, ChildStatus

\* A child that ends starts none.
LEMMA ChildEndsStarts ==
    ASSUME KidsInv, NEW n \in Node, NEW a \in Number, ChildEnds(n, a) PROVE NoChildStarts
<1>1. PICK o \in ChildStatus \ {"live"} : child' = [child EXCEPT ![n][a] = o] /\ child[n][a] = "live"
  BY WorkflowAssumption DEF ChildEnds, ChildStatus
<1> QED BY <1>1 DEF KidsInv, NoChildStarts

\* A child is started by the worker that executes its attempt.
StartsChild(w) ==
    /\ worker[w].pc = "run" /\ Kind[Cursor(w)] \in ChildKind
    /\ worker[w].res.status = "running"
    /\ child' = [child EXCEPT ![Cursor(w)][worker[w].a] = "live"]

\* Any step starts no child, or is the start of one by the worker inside.
LEMMA WhoStarts ==
    ASSUME RowsInv, KidsInv, [Next]_vars
    PROVE  \/ NoChildStarts
           \/ \E w \in Worker : StartsChild(w) /\ (StartChild(w) \/ CallFails(w))
<1> DEFINE Goal == \/ NoChildStarts
                   \/ \E w \in Worker : StartsChild(w) /\ (StartChild(w) \/ CallFails(w))
<1>1. ASSUME NEW w \in Worker, StartChild(w) \/ CallFails(w) PROVE Goal
  <2>1. child' = child \/ StartsChild(w)
    <3>1. child' = child \/ /\ worker[w].pc = "run" /\ Kind[Cursor(w)] \in ChildKind
                            /\ worker[w].res.status = "running"
                            /\ child' = Started(Cursor(w), worker[w].a)
      BY <1>1 DEF StartChild, CallFails, At
    <3> QED BY <3>1 DEF Started, StartsChild
  <2> QED BY <1>1, <2>1, NoChildMoves
<1>2. ASSUME NEW w \in Worker, Withdraw(w) \/ AskChild(w) PROVE Goal
  BY <1>2, WithdrawnStarts
<1>3. ASSUME NEW w \in Worker, Execute(w), ~StartChild(w), ~Withdraw(w), ~AskChild(w) PROVE UNCHANGED child
  BY <1>3 DEF Execute, Enter, Catch, Release, End, Advance, Step, StartAttempt, InvalidInput, RunLocal,
     MarkChildWaiting, Confirm, ObserveChild, Suspend, SettleRead, SettleWrite, Skip, SettleEdge, CancelNode,
     LateResult, others
<1>4. ASSUME NEW w \in Worker, Claim(w) \/ Renew(w) \/ Crash(w) PROVE UNCHANGED child
  BY <1>4 DEF Claim, Renew, Crash, others
<1>5. ASSUME NEW n \in Node, NEW a \in Number, ChildEnds(n, a) PROVE Goal
  BY <1>5, ChildEndsStarts
<1>6. ASSUME NEW n \in Node, WakeApproval(n) \/ RecheckComesDue(n) PROVE UNCHANGED child
  BY <1>6 DEF WakeApproval, RecheckComesDue, others
<1>7. CASE UNCHANGED child
  BY <1>7, NoChildMoves
<1> QED BY <1>1, <1>2, <1>3, <1>4, <1>5, <1>6, <1>7
  DEF Next, Done, RequestCancellation, WindowCloses, LeaseExpires, DeadlinePasses, vars, others

-----------------------------------------------------------------------------
(***************************************************************************)
(* What the four writing steps do to the node under the cursor.            *)
(***************************************************************************)
Alone(n) == \A m \in Node : m # n => node'[m] = node[m]
Begun(n) ==
    /\ node[n].status \in {"pending", "waiting-retry"}
    /\ node'[n].status = "running" /\ node'[n].latest = node[n].latest + 1 /\ node'[n].due = "none"
    /\ node'[n].port = node[n].port
    /\ Alone(n)
Marked(n) ==
    /\ node[n].status = "running"
    /\ node'[n].status = "waiting-child" /\ node'[n].latest = node[n].latest /\ node'[n].due = Armed(n)
    /\ node'[n].port = node[n].port
    /\ Alone(n)
Written(n, r) ==
    /\ node[n].status \in Open
    /\ r.status \in Terminal
    /\ node'[n].status = IF r.then = "retry" THEN "waiting-retry" ELSE r.status
    /\ node'[n].latest = node[n].latest /\ node'[n].port = r.port
    /\ node'[n].due = IF r.then = "retry" THEN "later" ELSE "none"
    /\ Alone(n)
Skipped(n) ==
    /\ node[n].status = "pending"
    /\ node'[n].status = "skipped" /\ node'[n].latest = node[n].latest /\ node'[n].due = node[n].due
    /\ node'[n].port = node[n].port
    /\ Alone(n)

\* startAttempt writes the row of the node in hand only.
LEMMA StartWrites ==
    ASSUME RowsInv, NEW w \in Worker, StartAttempt(w)
    PROVE  Cursor(w) \in Node /\ (OnlyDue \/ (Begun(Cursor(w)) /\ MayStart))
<1> DEFINE n == Cursor(w)
<1>1. worker[w] \in Local /\ Placed(worker[w]) /\ n = Spot(worker[w]) /\ worker[w].pc = "start"
  BY MovesTo DEF StartAttempt, At, Inside
<1>2. n \in Node /\ Starts(worker[w])
  BY <1>1, SpotIsNode DEF Placed, AtNode, Spot
<1>3. node[n] \in NodeRow
  BY <1>2 DEF RowsInv, Shape
<1>4. CASE UNCHANGED <<node, attempt>>
  BY <1>2, <1>4, ReadsOnly
<1>5. CASE MayStart /\ node' = [node EXCEPT ![n] = [@ EXCEPT !.status = "running", !.latest = worker[w].a, !.due = "none"]]
  <2>1. node[n].status \in {"pending", "waiting-retry"} /\ worker[w].a = node[n].latest + 1
    BY <1>1, <1>2 DEF Starts
  <2> HIDE DEF n
  <2>2. Begun(n)
    BY <1>2, <1>3, <1>5, <2>1 DEF Begun, Alone, RowsInv, Shape, NodeRow
  <2> QED BY <1>2, <1>5, <2>2 DEF n
<1> QED BY <1>4, <1>5 DEF StartAttempt

\* So does marking the node as waiting for its child.
LEMMA MarkWrites ==
    ASSUME RowsInv, NEW w \in Worker, MarkChildWaiting(w) PROVE Cursor(w) \in Node /\ Marked(Cursor(w))
<1> DEFINE n == Cursor(w)
<1>1. worker[w].pc \in Attending /\ worker[w].pc = "mark"
  BY DEF MarkChildWaiting, At, Attending
<1>2. /\ n \in Node /\ attempt[n][worker[w].a] = "running"
      /\ node[n].status = "running"
  BY <1>1, InHand DEF Attends
<1>3. node[n] \in NodeRow
  BY <1>2 DEF RowsInv, Shape
<1>4. node' = [node EXCEPT ![n] = [@ EXCEPT !.status = "waiting-child", !.due = Armed(n)]]
  BY <1>2 DEF MarkChildWaiting
<1> HIDE DEF n
<1>5. Marked(n)
  BY <1>2, <1>3, <1>4 DEF Marked, Alone, RowsInv, Shape, NodeRow
<1> QED BY <1>2, <1>5 DEF n

\* So does the settling of an attempt.
LEMMA WriteWrites ==
    ASSUME RowsInv, NEW w \in Worker, SettleWrite(w)
    PROVE  Cursor(w) \in Node /\ Written(Cursor(w), worker[w].res)
<1> DEFINE n == Cursor(w)
           r == worker[w].res
<1>1. worker[w].pc \in Attending /\ worker[w].pc = "write"
  BY DEF SettleWrite, At, Attending
<1>2. n \in Node /\ node[n].status \in Open
  BY <1>1, InHand
<1>3. r.status \in Terminal
  BY <1>1, MovesTo DEF Placed, Settles, Inside
<1>4. node[n] \in NodeRow
  BY <1>2 DEF RowsInv, Shape
<1>5. node' = [node EXCEPT ![n] = [@ EXCEPT !.status = IF r.then = "retry" THEN "waiting-retry" ELSE r.status,
                                       !.port = r.port,
                                       !.due = IF r.then = "retry" THEN "later" ELSE "none"]]
  BY DEF SettleWrite
<1> HIDE DEF n, r
<1>6. Written(n, r)
  BY <1>2, <1>3, <1>4, <1>5 DEF Written, Alone, RowsInv, Shape, NodeRow
<1> QED BY <1>2, <1>6 DEF n, r

\* So does a skip.
LEMMA SkipWrites ==
    ASSUME RowsInv, NEW w \in Worker, Skip(w)
    PROVE  Cursor(w) \in Node /\ (OnlyDue \/ Skipped(Cursor(w)))
<1> DEFINE n == Cursor(w)
<1>1. worker[w] \in Local /\ Placed(worker[w]) /\ n = Spot(worker[w]) /\ worker[w].pc = "skip"
  BY MovesTo DEF Skip, At, Inside
<1>2. n \in Node
  BY <1>1, SpotIsNode DEF Placed, AtNode, Spot
<1>3. node[n] \in NodeRow
  BY <1>2 DEF RowsInv, Shape
<1>4. CASE UNCHANGED node
  BY <1>2, <1>4, ReadsOnly DEF Skip
<1>5. CASE node[n].status = "pending" /\ node' = [node EXCEPT ![n].status = "skipped"]
  <2> HIDE DEF n
  <2>1. Skipped(n)
    BY <1>2, <1>3, <1>5 DEF Skipped, Alone, RowsInv, Shape, NodeRow
  <2> QED BY <1>2, <2>1 DEF n
<1> QED BY <1>4, <1>5 DEF Skip

\* Every step moves rechecks only, or is one of the four.
LEMMA NodeMoves ==
    ASSUME RowsInv, [Next]_vars
    PROVE  \/ OnlyDue
           \/ \E w \in Worker :
                  /\ Cursor(w) \in Node
                  /\ \/ StartAttempt(w) /\ Begun(Cursor(w)) /\ MayStart
                     \/ MarkChildWaiting(w) /\ Marked(Cursor(w))
                     \/ SettleWrite(w) /\ Written(Cursor(w), worker[w].res)
                     \/ Skip(w) /\ Skipped(Cursor(w))
  BY OthersAreDue, StartWrites, MarkWrites, WriteWrites, SkipWrites

-----------------------------------------------------------------------------
\* Whoever starts a child executes the last attempt of its node.
LEMMA StartedIsLast ==
    ASSUME RowsInv, NEW w \in Worker, StartsChild(w)
    PROVE  /\ Cursor(w) \in Node /\ worker[w].a \in Number
           /\ worker[w].a = node[Cursor(w)].latest /\ node[Cursor(w)].status = "running"
<1>1. worker[w].pc \in Attending /\ worker[w].pc = "run" /\ worker[w].res.status = "running"
  BY DEF StartsChild, Attending
<1> QED BY <1>1, InHand DEF Attends

\* Children stay with the last attempts.
LEMMA LastOnlyNext ==
    ASSUME RowsInv, KidsInv, [Next]_vars
    PROVE  /\ child' \in [Node -> [Number -> ChildStatus]]
           /\ \A n \in Node, a \in Number : LastOnly(n, a)'
<1>0. \A n \in Node : node[n] \in NodeRow /\ node[n].latest \in Nat
  BY DEF RowsInv, Shape, NodeRow
<1>1. ASSUME NEW w \in Worker, StartsChild(w), StartChild(w) \/ CallFails(w)
      PROVE  /\ child' \in [Node -> [Number -> ChildStatus]]
             /\ \A n \in Node, a \in Number : LastOnly(n, a)'
  <2>1. UNCHANGED node
    BY <1>1 DEF StartChild, CallFails, rows
  <2>2. Cursor(w) \in Node /\ worker[w].a \in Number /\ worker[w].a = node[Cursor(w)].latest
        /\ node[Cursor(w)].status = "running" /\ Kind[Cursor(w)] \in ChildKind
    BY <1>1, StartedIsLast DEF StartsChild
  <2>3. child' = [child EXCEPT ![Cursor(w)][worker[w].a] = "live"]
    BY <1>1 DEF StartsChild
  <2> QED BY <1>0, <2>1, <2>2, <2>3 DEF KidsInv, LastOnly, ChildStatus, Number
<1>2. CASE NoChildStarts
  <2>1. child' \in [Node -> [Number -> ChildStatus]]
    BY <1>2 DEF NoChildStarts
  <2>2. CASE OnlyDue
    BY <1>0, <1>2, <2>2 DEF NoChildStarts, OnlyDue, KidsInv, LastOnly
  <2>3. ASSUME NEW w \in Worker, Cursor(w) \in Node, Begun(Cursor(w))
        PROVE  \A n \in Node, a \in Number : LastOnly(n, a)'
    <3>1. Matches(node[Cursor(w)], attempt[Cursor(w)])
      BY <2>3 DEF RowsInv, RowsMatch
    <3>2. node[Cursor(w)].status = "pending" => node[Cursor(w)].latest = 0
      BY <3>1 DEF Matches
    <3> QED BY <1>0, <1>2, <2>3, <3>2 DEF NoChildStarts, Begun, Alone, KidsInv, LastOnly, Number
  <2>4. ASSUME NEW w \in Worker, Cursor(w) \in Node, Marked(Cursor(w)) \/ Skipped(Cursor(w))
        PROVE  \A n \in Node, a \in Number : LastOnly(n, a)'
    BY <1>0, <1>2, <2>4 DEF NoChildStarts, Marked, Skipped, Alone, KidsInv, LastOnly
  <2>5. ASSUME NEW w \in Worker, Cursor(w) \in Node, SettleWrite(w), Written(Cursor(w), worker[w].res)
        PROVE  \A n \in Node, a \in Number : LastOnly(n, a)'
    <3>1. worker[w].pc = "write" /\ worker[w].pc \in Attending /\ Inside(w)
      BY <2>5 DEF SettleWrite, At, Attending, Inside
    <3>2. Cursor(w) = Spot(worker[w]) /\ worker[w].a = node[Cursor(w)].latest
      BY <3>1, InHand
    <3>3. worker[w].res.then = "retry" => child[Cursor(w)][node[Cursor(w)].latest] # "live"
      BY <3>1, <3>2 DEF KidsInv, Childless, Retrying
    <3> QED BY <1>0, <1>2, <2>5, <3>3 DEF NoChildStarts, Written, Alone, KidsInv, LastOnly, Terminal
  <2> QED BY <2>1, <2>2, <2>3, <2>4, <2>5, NodeMoves
<1> QED BY <1>1, <1>2, WhoStarts

-----------------------------------------------------------------------------
(***************************************************************************)
(* Who moves a worker.                                                     *)
(***************************************************************************)
\* A step of a worker that came in just now, of the other modules or of time.
Outer ==
    /\ OnlyDue /\ UNCHANGED <<completed, edge, asked, told>>
    /\ \/ UNCHANGED child
       \/ \E n \in Node, a \in Number : ChildEnds(n, a)

\* A worker inside is moved by its own steps; the others are outside.
LEMMA WhoMoves ==
    ASSUME RowsInv, [Next]_vars, NEW w \in Worker, Inside(w)'
    PROVE  \/ Outer /\ worker'[w] = worker[w]
           \/ Claim(w) \/ Renew(w) \/ (Execute(w) /\ ~Release(w)) \/ CallFails(w)
<1> DEFINE Goal == \/ Outer /\ worker'[w] = worker[w]
                   \/ Claim(w) \/ Renew(w) \/ (Execute(w) /\ ~Release(w)) \/ CallFails(w)
<1>1. ASSUME NEW v \in Worker, Claim(v) \/ Release(v) \/ Crash(v) PROVE Goal
  <2>1. Outer
    BY <1>1, ReadsOnly DEF Outer, Claim, Release, Crash, rows, others
  <2>2. PICK q \in {IdleWorker, [IdleWorker EXCEPT !.pc = "enter"]} : worker' = [worker EXCEPT ![v] = q]
    BY <1>1 DEF Claim, Release, Crash
  <2>3. CASE v # w
    <3>1. worker'[w] = worker[w]
      BY <2>2, <2>3 DEF RowsInv, Shape
    <3> QED BY <2>1, <3>1
  <2>4. CASE v = w
    <3>1. CASE Claim(v)
      BY <2>4, <3>1
    <3>2. CASE Release(v) \/ Crash(v)
      <4>1. worker' = [worker EXCEPT ![v] = IdleWorker]
        BY <3>2 DEF Release, Crash
      <4>2. worker'[w].pc = "idle"
        BY <2>4, <4>1 DEF RowsInv, Shape, IdleWorker
      <4> QED BY <4>2 DEF Inside
    <3> QED BY <1>1, <3>1, <3>2
  <2> QED BY <2>3, <2>4
<1>2. ASSUME NEW v \in Worker, Renew(v) \/ (Execute(v) /\ ~Release(v)) \/ CallFails(v) PROVE Goal
  <2>1. Inside(v)
    BY <1>2 DEF Renew, Execute, CallFails, Enter, Withdraw, Catch, End, Advance, Step, StartAttempt, InvalidInput,
       RunLocal, StartChild, MarkChildWaiting, Confirm, ObserveChild, Suspend, SettleRead, SettleWrite, Skip,
       SettleEdge, CancelNode, AskChild, LateResult, At, Inside
  <2>2. \E q : worker' = [worker EXCEPT ![v] = q]
    <3>1. CASE Moves(v)
      BY <3>1 DEF Moves
    <3>2. CASE Renew(v)
      <4>1. worker' = [worker EXCEPT ![v] = worker[v]] \/ worker' = [worker EXCEPT ![v].lost = TRUE]
        BY <3>2 DEF Renew, RowsInv, Shape
      <4> QED BY <4>1
    <3>3. CASE End(v)
      BY <3>3 DEF End, Goto
    <3>4. CASE CallFails(v)
      BY <3>4 DEF CallFails, Goto, Throw, Returns
    <3> QED BY <1>2, <3>1, <3>2, <3>3, <3>4, ExecuteRuns DEF RowsInv, Running
  <2>3. CASE v # w
    <3>1. Inside(w)
      BY <2>2, <2>3 DEF RowsInv, Shape, Inside
    <3> QED BY <2>1, <2>3, <3>1 DEF RowsInv, LeaseInv, OneInside
  <2> QED BY <1>2, <2>3
<1>3. CASE UNCHANGED worker /\ Outer
  BY <1>3
<1>4. ASSUME NEW n \in Node, WakeApproval(n) \/ RecheckComesDue(n) PROVE UNCHANGED worker /\ Outer
  BY <1>4, WakeIsDue DEF WakeApproval, RecheckComesDue, Outer, row, others
<1>5. ASSUME NEW n \in Node, NEW a \in Number, ChildEnds(n, a) PROVE UNCHANGED worker /\ Outer
  BY <1>5, ReadsOnly DEF ChildEnds, Outer, row, rows
<1>6. CASE \/ RequestCancellation \/ WindowCloses \/ LeaseExpires \/ UNCHANGED vars
           \/ \E n \in Node, a \in Number : DeadlinePasses(n, a)
  <2>1. UNCHANGED <<worker, node, attempt, completed, edge, asked, told, child>>
    BY <1>6 DEF RequestCancellation, WindowCloses, LeaseExpires, DeadlinePasses, vars, row, rows, others
  <2> QED BY <1>3, <2>1, ReadsOnly DEF Outer
<1> QED BY <1>1, <1>2, <1>3, <1>4, <1>5, <1>6 DEF Next, Done

\* Outer steps start no child.
LEMMA OuterStarts ==
    ASSUME KidsInv, Outer PROVE NoChildStarts
  BY NoChildMoves, ChildEndsStarts DEF Outer

\* What a result leaves of the local state.
LEMMA ReturnsIs ==
    ASSUME RowsInv, NEW w \in Worker
    PROVE  \A pc, r : Returns(w, pc, r) =>
               /\ worker'[w].pc = IF worker[w].lost THEN "catch" ELSE pc
               /\ worker'[w].res = r
               /\ worker'[w].i = worker[w].i /\ worker'[w].a = worker[w].a
               /\ worker'[w].todo = worker[w].todo /\ worker'[w].out = worker[w].out
               /\ worker'[w].pending = worker[w].pending /\ worker'[w].lost = worker[w].lost
  BY DEF Returns, RowsInv, Shape, Local

\* So does a plain move.
LEMMA GotoIs ==
    ASSUME RowsInv, NEW w \in Worker
    PROVE  \A pc : Goto(w, pc) =>
               /\ worker'[w].pc = pc /\ worker'[w].res = worker[w].res
               /\ worker'[w].i = worker[w].i /\ worker'[w].a = worker[w].a
               /\ worker'[w].todo = worker[w].todo /\ worker'[w].out = worker[w].out
               /\ worker'[w].pending = worker[w].pending /\ worker'[w].lost = worker[w].lost
  BY DEF Goto, RowsInv, Shape, Local

\* Where each step leaves its worker.
LEMMA Goes ==
    ASSUME RowsInv, NEW w \in Worker
    PROVE  /\ Claim(w) => worker'[w].pc = "enter"
           /\ Enter(w) => worker'[w].pc \in {"release", "cancel", "end", "withdraw", "step"}
           /\ End(w) => worker'[w].pc = "release"
           /\ Catch(w) => worker'[w].pc \in {"release", "refuse"}
           /\ Step(w) => worker'[w].pc \in {"catch", "release", "step", "skip", "run", "start"}
           /\ StartAttempt(w) => worker'[w].pc \in {"release", "catch", "run"}
           /\ InvalidInput(w) => worker'[w].pc = "settle"
           /\ RunLocal(w) => worker'[w].pc \in {"settle", "catch"}
           /\ StartChild(w) => worker'[w].pc \in {"mark", "settle", "catch"}
           /\ MarkChildWaiting(w) => worker'[w].pc \in {"catch", "confirm", "release"}
           /\ Confirm(w) => worker'[w].pc \in {"release", "catch"}
           /\ ObserveChild(w) => worker'[w].pc \in {"withdraw", "settle", "suspend", "release", "catch"}
           /\ Suspend(w) => worker'[w].pc = "release"
           /\ SettleRead(w) => worker'[w].pc \in {"write", "catch"}
           /\ SettleWrite(w) => worker'[w].pc \in {"release", "edges", "cancel", "end"}
           /\ Skip(w) => worker'[w].pc = "edges"
           /\ SettleEdge(w) => worker'[w].pc \in {"catch", "step", "edges"}
           /\ CancelNode(w) => worker'[w].pc \in {"release", "end", "late", "ask"}
           /\ AskChild(w) => worker'[w].pc = "late"
           /\ LateResult(w) => worker'[w].pc \in {"settle", "cancel"}
           /\ Withdraw(w) => worker'[w].pc \in {"end", "settle", "catch"}
<1>0. worker[w] \in Local /\ worker \in [Worker -> Local]
  BY DEF RowsInv, Shape
<1>a. \A q : Goto(w, q) => worker'[w].pc = q
  BY <1>0, GotoIs
<1>b. \A q, r : Returns(w, q, r) => worker'[w].pc \in {q, "catch"}
  BY <1>0, ReturnsIs
<1>1. Claim(w) => worker'[w].pc = "enter"
  <2>1. [IdleWorker EXCEPT !.pc = "enter"].pc = "enter"
    BY DEF IdleWorker
  <2> QED BY <1>0, <2>1, IdleResolved DEF Claim
<1>2. ASSUME Enter(w) PROVE worker'[w].pc \in {"release", "cancel", "end", "withdraw", "step"}
  <2>1. CASE worker' = [worker EXCEPT ![w] = [@ EXCEPT !.pc = "cancel", !.todo = {n \in Node : Waiting(n)}]]
    BY <1>0, <2>1 DEF Local
  <2>2. CASE worker' = [worker EXCEPT ![w] = [@ EXCEPT !.pc = "end", !.res = ThenOnly("refused")]]
    BY <1>0, <2>2 DEF Local
  <2>3. ASSUME NEW i, NEW a, worker' = [worker EXCEPT ![w] = [@ EXCEPT !.pc = "withdraw", !.i = i, !.a = a,
                                           !.res = ThenOnly("refused")]]
        PROVE  worker'[w].pc = "withdraw"
    BY <1>0, <2>3 DEF Local
  <2> QED BY <1>2, <1>a, <2>1, <2>2, <2>3 DEF Enter
<1>3. End(w) => worker'[w].pc = "release"
  BY <1>a DEF End
<1>c. ASSUME Catch(w) PROVE worker'[w].pc \in {"release", "refuse"}
  <2>1. CASE worker' = [worker EXCEPT ![w] = [@ EXCEPT !.pc = "refuse", !.res = ThenOnly("refused")]]
    BY <1>0, <2>1 DEF Local
  <2>2. CASE worker' = [worker EXCEPT ![w].pc = "release"]
    BY <1>0, <2>2 DEF Local
  <2> QED BY <1>c, <2>1, <2>2 DEF Catch
<1>4. Step(w) => worker'[w].pc \in {"catch", "release", "step", "skip", "run", "start"}
  BY <1>0 DEF Step, At, NextNode, RowsInv, Shape, Local
<1>5. StartAttempt(w) => worker'[w].pc \in {"release", "catch", "run"}
  <2>1. CASE worker' = [worker EXCEPT ![w] = [@ EXCEPT !.pc = "run", !.res = StatusOnly("running")]]
    BY <1>0, <2>1 DEF Local
  <2> QED BY <1>a, <2>1 DEF StartAttempt, Throw
<1>6. InvalidInput(w) => worker'[w].pc = "settle"
  BY <1>0 DEF InvalidInput, Local
<1>7. /\ RunLocal(w) => worker'[w].pc \in {"settle", "catch"}
      /\ StartChild(w) => worker'[w].pc \in {"mark", "settle", "catch"}
      /\ ObserveChild(w) => worker'[w].pc \in {"withdraw", "settle", "suspend", "release", "catch"}
  BY <1>b DEF RunLocal, StartChild, ObserveChild
<1>8. /\ MarkChildWaiting(w) => worker'[w].pc \in {"catch", "confirm", "release"}
      /\ Confirm(w) => worker'[w].pc \in {"release", "catch"}
      /\ Suspend(w) => worker'[w].pc = "release"
      /\ SettleRead(w) => worker'[w].pc \in {"write", "catch"}
      /\ AskChild(w) => worker'[w].pc = "late"
      /\ Withdraw(w) => worker'[w].pc \in {"end", "settle", "catch"}
  BY <1>a, <1>b DEF MarkChildWaiting, Throw, Confirm, Suspend, SettleRead, AskChild, Withdraw
<1>9. ASSUME SettleWrite(w) PROVE worker'[w].pc \in {"release", "edges", "cancel", "end"}
  <2>1. ASSUME NEW x, worker' = [worker EXCEPT ![w] = [@ EXCEPT !.pc = "edges", !.out = x]]
        PROVE  worker'[w].pc = "edges"
    BY <1>0, <2>1 DEF Local
  <2>2. ASSUME NEW x, worker' = [worker EXCEPT ![w] = [@ EXCEPT !.pc = "cancel", !.todo = x]]
        PROVE  worker'[w].pc = "cancel"
    BY <1>0, <2>2 DEF Local
  <2>3. CASE worker' = [worker EXCEPT ![w].pc = "release"] \/ worker' = [worker EXCEPT ![w].pc = "end"]
    BY <1>0, <2>3 DEF Local
  <2> QED BY <1>9, <2>1, <2>2, <2>3 DEF SettleWrite
<1>10. ASSUME Skip(w) PROVE worker'[w].pc = "edges"
  <2>1. ASSUME NEW x, NEW r, worker' = [worker EXCEPT ![w] = [@ EXCEPT !.pc = "edges", !.out = x, !.res = r]]
        PROVE  worker'[w].pc = "edges"
    BY <1>0, <2>1 DEF Local
  <2> QED BY <1>10, <2>1 DEF Skip
<1>11. ASSUME SettleEdge(w) PROVE worker'[w].pc \in {"catch", "step", "edges"}
  <2>1. CASE worker' = NextNode(w)
    BY <1>0, <2>1 DEF NextNode, Local
  <2>2. ASSUME NEW x, worker' = [worker EXCEPT ![w].out = x] PROVE worker'[w].pc = "edges"
    BY <1>0, <1>11, <2>2 DEF SettleEdge, At, Local
  <2> QED BY <1>11, <1>a, <2>1, <2>2 DEF SettleEdge, Throw
<1>12. ASSUME CancelNode(w) PROVE worker'[w].pc \in {"release", "end", "late", "ask"}
  <2>1. CASE worker' = [worker EXCEPT ![w].pc = "release"]
    BY <1>0, <2>1 DEF Local
  <2>2. CASE worker' = [worker EXCEPT ![w] = [@ EXCEPT !.pc = "end", !.res = ThenOnly("cancelled")]]
    BY <1>0, <2>2 DEF Local
  <2>3. ASSUME NEW q \in {"late", "ask"}, NEW i, NEW a,
               worker' = [worker EXCEPT ![w] = [@ EXCEPT !.pc = q, !.i = i, !.a = a]]
        PROVE  worker'[w].pc = q
    BY <1>0, <2>3 DEF Local
  <2> QED BY <1>12, <2>1, <2>2, <2>3 DEF CancelNode
<1>13. ASSUME LateResult(w) PROVE worker'[w].pc \in {"settle", "cancel"}
  <2>1. ASSUME NEW r, worker' = [worker EXCEPT ![w] = [@ EXCEPT !.pc = "settle", !.res = r]]
        PROVE  worker'[w].pc = "settle"
    BY <1>0, <2>1 DEF Local
  <2>2. ASSUME NEW x, worker' = [worker EXCEPT ![w] = [@ EXCEPT !.pc = "cancel", !.pending = TRUE, !.todo = x]]
        PROVE  worker'[w].pc = "cancel"
    BY <1>0, <2>2 DEF Local
  <2> QED BY <1>13, <2>1, <2>2 DEF LateResult
<1> QED BY <1>1, <1>2, <1>3, <1>c, <1>4, <1>5, <1>6, <1>7, <1>8, <1>9, <1>10, <1>11, <1>12, <1>13

\* A failed call leads to the settling of an attempt only with a result.
LEMMA CallFailsGoes ==
    ASSUME RowsInv, NEW w \in Worker, CallFails(w)
    PROVE  worker'[w].pc \in {worker[w].pc, "settle", "catch", "end", "release", "late", "idle"}
<1>0. worker[w] \in Local /\ worker \in [Worker -> Local]
  BY DEF RowsInv, Shape
<1>1. CASE worker' = [worker EXCEPT ![w].lost = TRUE]
  BY <1>0, <1>1 DEF Local
<1>2. CASE worker' = [worker EXCEPT ![w] = IdleWorker]
  BY <1>0, <1>2 DEF IdleWorker
<1>3. CASE \/ \E q \in {"end", "late", "release", "catch"} : Goto(w, q)
           \/ \E q \in {"settle", "release"} : \E r : Returns(w, q, r)
  BY <1>3, GotoIs, ReturnsIs
<1> QED BY <1>1, <1>2, <1>3 DEF CallFails, Throw

\* Steps that do not lead to the settling of an attempt.
Elsewhere(w) == worker'[w].pc \notin {"settle", "write"}

\* Most steps lead elsewhere.
LEMMA NotToSettle ==
    ASSUME RowsInv, NEW w \in Worker,
           \/ Claim(w) \/ Enter(w) \/ End(w) \/ Catch(w) \/ Step(w) \/ StartAttempt(w) \/ MarkChildWaiting(w)
           \/ Confirm(w) \/ Suspend(w) \/ SettleWrite(w) \/ Skip(w) \/ SettleEdge(w) \/ CancelNode(w)
           \/ AskChild(w)
    PROVE  Elsewhere(w)
  BY Goes DEF Elsewhere

-----------------------------------------------------------------------------
\* Steps after which the worker is not about to settle an attempt for a retry.
Calm(w) == ~Retrying(worker'[w])

\* The places a worker goes to without a retry in hand.
LEMMA CalmReturns ==
    ASSUME RowsInv, NEW w \in Worker
    PROVE  /\ \A pc, r : Returns(w, pc, r) /\ r.then # "retry" => Calm(w)
           /\ \A pc, r : Returns(w, pc, r) /\ pc \notin {"settle", "write"} => Calm(w)
           /\ \A pc : Goto(w, pc) /\ pc \notin {"settle", "write"} => Calm(w)
           /\ Elsewhere(w) => Calm(w)
  BY ReturnsIs, GotoIs DEF Calm, Retrying, Elsewhere

\* What is read of an attempt in hand decides whether it is retried.
LEMMA DecidedChildless ==
    ASSUME RowsInv, KidsInv, NEW w \in Worker, RunLocal(w) \/ ObserveChild(w) \/ SettleRead(w)
    PROVE  Calm(w) \/ /\ child'[Cursor(w)][worker[w].a] # "live"
                      /\ worker'[w].i = worker[w].i /\ worker'[w].a = worker[w].a
<1> DEFINE n == Cursor(w)
           a == worker[w].a
<1>0. /\ worker[w].pc \in Attending /\ n \in Node /\ a \in Number /\ n = Spot(worker[w])
      /\ UNCHANGED child /\ Inside(w)
  <2>1. worker[w].pc \in Attending /\ UNCHANGED child
    BY DEF RunLocal, ObserveChild, SettleRead, At, Attending, others
  <2> QED BY <2>1, InHand DEF Attending, Inside
<1>1. CASE RunLocal(w)
  <2>1. PICK r : Returns(w, "settle", r)
    BY <1>1 DEF RunLocal
  <2>2. child[n][a] # "live"
    BY <1>0, <1>1 DEF RunLocal, KidsInv, LastOnly
  <2> QED BY <1>0, <2>1, <2>2, ReturnsIs
<1>2. CASE ObserveChild(w)
  <2>1. \/ Returns(w, "settle", Fails(n, "refused")) \/ Returns(w, "withdraw", Fails(n, "refused"))
        \/ Returns(w, "suspend", NoResult) \/ Returns(w, "release", NoResult)
        \/ (child[n][a] # "live" /\ \E r : Returns(w, "settle", r))
    BY <1>2 DEF ObserveChild
  <2>2. Fails(n, "refused").then # "retry"
    BY ResultsEnd
  <2> HIDE DEF n, a
  <2>3. CASE child[n][a] # "live" /\ \E r : Returns(w, "settle", r)
    <3>1. PICK r : Returns(w, "settle", r)
      BY <2>3
    <3> QED BY <1>0, <2>3, <3>1, ReturnsIs DEF n, a
  <2> QED BY <2>1, <2>2, <2>3, CalmReturns
<1>3. CASE SettleRead(w)
  <2>1. CASE Retrying(worker[w])
    <3>1. child[n][a] # "live"
      BY <1>0, <2>1 DEF KidsInv, Childless
    <3>2. \E pc : Goto(w, pc)
      BY <1>3 DEF SettleRead
    <3> QED BY <1>0, <3>1, <3>2, GotoIs
  <2>2. CASE ~Retrying(worker[w])
    <3>1. worker[w].res.then # "retry"
      BY <1>3, <2>2 DEF SettleRead, At, Retrying
    <3>2. worker'[w].res = worker[w].res
      <4>1. \E pc : Goto(w, pc)
        BY <1>3 DEF SettleRead
      <4> QED BY <4>1, GotoIs
    <3> QED BY <3>1, <3>2 DEF Calm, Retrying
  <2> QED BY <2>1, <2>2
<1> QED BY <1>1, <1>2, <1>3

\* The other steps that lead to the settling of an attempt end it.
LEMMA EndingCalm ==
    ASSUME RowsInv, NEW w \in Worker, InvalidInput(w) \/ StartChild(w) \/ Withdraw(w) \/ LateResult(w)
    PROVE  Calm(w)
<1>0. worker[w] \in Local /\ worker \in [Worker -> Local] /\ \A n : Fails(n, "refused").then # "retry"
  BY ResultsEnd DEF RowsInv, Shape
<1>1. CASE InvalidInput(w)
  <2>1. worker' = [worker EXCEPT ![w] = [@ EXCEPT !.pc = "settle", !.res = Invalid]]
    BY <1>1 DEF InvalidInput
  <2>2. worker'[w].res = Invalid
    BY <1>0, <2>1 DEF Local
  <2>3. Invalid.then # "retry"
    BY DEF Invalid
  <2> QED BY <2>2, <2>3 DEF Calm, Retrying
<1>2. CASE StartChild(w)
  <2>1. Returns(w, "mark", NoResult) \/ Returns(w, "settle", Fails(Cursor(w), "refused"))
    BY <1>2 DEF StartChild
  <2> QED BY <1>0, <2>1, CalmReturns
<1>3. CASE Withdraw(w)
  <2>1. worker[w].res.then # "retry"
    BY <1>3, MovesTo DEF Withdraw, At, Inside, Placed, Settles
  <2> QED BY <1>3, <2>1, CalmReturns DEF Withdraw
<1>4. CASE LateResult(w)
  <2>1. CASE worker' = [worker EXCEPT ![w] = [@ EXCEPT !.pc = "settle",
                         !.res = [status |-> "cancelled", port |-> "", then |-> "cancel"]]]
    <3>1. worker'[w].res.then = "cancel"
      BY <1>0, <2>1 DEF Local
    <3> QED BY <3>1 DEF Calm, Retrying
  <2>2. CASE worker' = [worker EXCEPT ![w] = [@ EXCEPT !.pc = "cancel", !.pending = TRUE,
                         !.todo = worker[w].todo \ {Cursor(w)}]]
    <3>1. worker'[w].pc = "cancel"
      BY <1>0, <2>2 DEF Local
    <3> QED BY <3>1 DEF Calm, Retrying
  <2> QED BY <1>4, <2>1, <2>2 DEF LateResult
<1> QED BY <1>1, <1>2, <1>3, <1>4

\* A failed call leaves the worker with what it had, or ends the attempt.
LEMMA CallFailsCalm ==
    ASSUME RowsInv, NEW w \in Worker, CallFails(w)
    PROVE  Calm(w) \/ /\ worker'[w].pc = worker[w].pc /\ worker'[w].res = worker[w].res
                      /\ worker'[w].i = worker[w].i /\ worker'[w].a = worker[w].a
                      /\ UNCHANGED child
<1> DEFINE n == Cursor(w)
<1>0. worker[w] \in Local /\ worker \in [Worker -> Local] /\ \A m : Fails(m, "refused").then # "retry"
  BY ResultsEnd DEF RowsInv, Shape
<1>1. CASE worker' = [worker EXCEPT ![w].lost = TRUE] /\ UNCHANGED child
  BY <1>0, <1>1 DEF Local
<1>2. CASE Returns(w, "settle", Fails(n, "refused"))
  BY <1>0, <1>2, CalmReturns
<1>3. CASE At(w, "withdraw") /\ Returns(w, "settle", worker[w].res)
  <2>1. worker[w].res.then # "retry"
    BY <1>3, MovesTo DEF At, Inside, Placed, Settles
  <2> QED BY <1>3, <2>1, CalmReturns
<1>4. CASE Returns(w, "release", NoResult) \/ Goto(w, "end") \/ Goto(w, "late") \/ Goto(w, "release") \/ Throw(w)
  BY <1>4, CalmReturns DEF Throw
<1>5. CASE worker' = [worker EXCEPT ![w] = IdleWorker]
  <2>1. worker'[w].pc = "idle"
    BY <1>0, <1>5 DEF IdleWorker
  <2> QED BY <2>1 DEF Calm, Retrying
<1> QED BY <1>1, <1>2, <1>3, <1>4, <1>5 DEF CallFails

\* A worker that is about to settle an attempt for a retry saw its child's end.
LEMMA RetryIsChildless ==
    ASSUME RowsInv, KidsInv, [Next]_vars, NEW w \in Worker, Inside(w)'
    PROVE  Childless(worker[w])'
<1> DEFINE Same == /\ worker'[w].pc = worker[w].pc /\ worker'[w].res = worker[w].res
                   /\ worker'[w].i = worker[w].i /\ worker'[w].a = worker[w].a
<1>0. ASSUME Same, NoChildStarts PROVE Childless(worker[w])'
  <2>1. SUFFICES ASSUME Retrying(worker'[w]) PROVE child'[Spot(worker'[w])][worker'[w].a] # "live"
    BY DEF Childless, Retrying, Spot
  <2>2. Retrying(worker[w]) /\ Inside(w) /\ worker[w].pc \in Attending
    BY <1>0, <2>1 DEF Retrying, Inside, Attending
  <2>3. Spot(worker[w]) \in Node /\ worker[w].a \in Number
    BY <2>2, InHand
  <2>4. child[Spot(worker[w])][worker[w].a] # "live"
    BY <2>2 DEF KidsInv, Childless
  <2>5. Spot(worker'[w]) = Spot(worker[w])
    BY <1>0 DEF Spot
  <2> QED BY <1>0, <2>3, <2>4, <2>5 DEF NoChildStarts
<1>a. Calm(w) => Childless(worker[w])'
  BY DEF Calm, Childless, Retrying
<1>1. CASE Outer /\ worker'[w] = worker[w]
  BY <1>0, <1>1, OuterStarts
<1>2. CASE Renew(w)
  <2>1. UNCHANGED child
    BY <1>2 DEF Renew, others
  <2>2. worker' = worker \/ worker' = [worker EXCEPT ![w].lost = TRUE]
    BY <1>2 DEF Renew
  <2>3. Same
    BY <2>2 DEF RowsInv, Shape, Local
  <2> QED BY <1>0, <2>1, <2>3, NoChildMoves
<1>3. CASE CallFails(w)
  BY <1>0, <1>a, <1>3, CallFailsCalm, NoChildMoves
<1>4. CASE RunLocal(w) \/ ObserveChild(w) \/ SettleRead(w)
  <2>1. CASE Calm(w)
    BY <1>a, <2>1
  <2>2. CASE /\ child'[Cursor(w)][worker[w].a] # "live"
             /\ worker'[w].i = worker[w].i /\ worker'[w].a = worker[w].a
    BY <2>2 DEF Childless, Spot, Cursor
  <2> QED BY <1>4, <2>1, <2>2, DecidedChildless
<1>5. CASE InvalidInput(w) \/ StartChild(w) \/ Withdraw(w) \/ LateResult(w)
  BY <1>a, <1>5, EndingCalm
<1>6. CASE Claim(w) \/ (Execute(w) /\ ~Release(w))
  BY <1>a, <1>4, <1>5, <1>6, NotToSettle, CalmReturns DEF Execute, Advance
<1> QED BY <1>1, <1>2, <1>3, <1>6, WhoMoves

\* Before the run no node has a child.
LEMMA KidsInit == Init => KidsInv
<1> SUFFICES ASSUME Init PROVE KidsInv
  OBVIOUS
<1>1. child = [n \in Node |-> [a \in Number |-> "none"]]
  BY DEF Init
<1>2. child \in [Node -> [Number -> ChildStatus]] /\ \A n \in Node, a \in Number : LastOnly(n, a)
  BY <1>1 DEF ChildStatus, LastOnly
<1>3. \A w \in Worker : ~Inside(w)
  BY DEF Init, IdleWorker, Inside
<1> QED BY <1>2, <1>3 DEF KidsInv

\* Every step keeps the children in order.
LEMMA KidsNext == RowsInv /\ KidsInv /\ [Next]_vars => KidsInv'
  BY LastOnlyNext, RetryIsChildless DEF KidsInv

\* The children are in order in every behaviour.
LEMMA KidsHold == Spec => [](OnTime => RowsInv /\ KidsInv)
  BY RowsHold, RunShape, TimeIsSpent, KidsInit, KidsNext, PTL DEF Spec

\* At most one is the last.
LEMMA OnlyLastLives ==
    ASSUME RowsInv, KidsInv PROVE OneLiveChildPerNode
<1> SUFFICES ASSUME NEW n \in Node PROVE Cardinality({a \in Number : child[n][a] = "live"}) <= 1
  BY DEF OneLiveChildPerNode
<1> DEFINE S == {a \in Number : child[n][a] = "live"}
<1>1. S \subseteq {node[n].latest}
  BY DEF KidsInv, LastOnly
<1>2. S = {} \/ S = {node[n].latest}
  BY <1>1
<1> HIDE DEF S
<1>3. S = {} => Cardinality(S) = 0
  BY FS_EmptySet
<1>4. S = {node[n].latest} => Cardinality(S) = 1
  BY FS_Singleton
<1>5. Cardinality(S) <= 1
  BY <1>2, <1>3, <1>4
<1> QED BY <1>5 DEF S

\* While renewals arrive in time, a retry, a recovery or a failed call never
\* starts a second child of a node beside one that is still at work.
THEOREM NodesHaveOneLiveChild == Spec => []OneLiveChildPerNode
<1>1. (OnTime => RowsInv /\ KidsInv) => OneLiveChildPerNode
  BY OnlyLastLives DEF OneLiveChildPerNode
<1> QED BY <1>1, KidsHold, PTL

-----------------------------------------------------------------------------
(***************************************************************************)
(* Progress.  A node that settles is counted unless the run is settled or  *)
(* being cancelled.  That nobody settles a node of a settled run is what   *)
(* Alive says: a worker of a settled run has only its lease left to give   *)
(* back.                                                                   *)
(***************************************************************************)
Alive == \A w \in Worker : Inside(w) /\ worker[w].pc # "release" => status \notin Terminal
Exact ==
    /\ completed <= Cardinality(SettledNodes)
    /\ status \notin {"cancel-requested", "cancelled"} => completed = Cardinality(SettledNodes)
Counts ==
    /\ completed \in Nat
    /\ Exact
CountInv == Alive /\ Counts

\* Only the last step of a worker settles the run.
LEMMA EndSettles ==
    ASSUME [Next]_vars, status \notin Terminal, status' \in Terminal
    PROVE  \E w \in Worker : End(w)
<1>1. ASSUME NEW w \in Worker, Claim(w) PROVE FALSE
  BY <1>1 DEF Claim, Terminal
<1>2. ASSUME NEW w \in Worker, Renew(w) \/ Crash(w) \/ CallFails(w) PROVE FALSE
  BY <1>2 DEF Renew, Crash, CallFails, row
<1>4. ASSUME NEW w \in Worker, StartAttempt(w) PROVE FALSE
  BY <1>4 DEF StartAttempt, Terminal
<1>5. ASSUME NEW w \in Worker, MarkChildWaiting(w) PROVE FALSE
  BY <1>5 DEF MarkChildWaiting, Terminal
<1>6. ASSUME NEW w \in Worker, Suspend(w) PROVE FALSE
  BY <1>6 DEF Suspend, Terminal
<1>7. ASSUME NEW w \in Worker, SettleWrite(w) PROVE FALSE
  BY <1>7 DEF SettleWrite, Terminal
<1>8. ASSUME NEW w \in Worker, Execute(w), ~End(w), ~StartAttempt(w), ~MarkChildWaiting(w), ~Suspend(w), ~SettleWrite(w)
      PROVE FALSE
  BY <1>8 DEF Execute, Enter, Withdraw, Catch, Release, Advance, Step, InvalidInput, RunLocal, StartChild,
     Confirm, ObserveChild, SettleRead, Skip, SettleEdge, CancelNode, AskChild, LateResult, row
<1>9. CASE RequestCancellation
  BY <1>9 DEF RequestCancellation, Terminal
<1>10. CASE UNCHANGED status
  BY <1>10
<1> QED
  BY <1>1, <1>2, <1>4, <1>5, <1>6, <1>7, <1>8, <1>9, <1>10
  DEF Next, Done, WindowCloses, LeaseExpires, WakeApproval, RecheckComesDue, ChildEnds, DeadlinePasses, vars, row

\* A settled run has no worker at work.
LEMMA AliveNext ==
    ASSUME RowsInv, Alive, [Next]_vars PROVE Alive'
<1> SUFFICES ASSUME NEW w \in Worker, Inside(w)', worker'[w].pc # "release", status' \in Terminal
             PROVE  FALSE
  BY DEF Alive
<1>0. worker \in [Worker -> Local]
  BY DEF RowsInv, Shape
<1>1. CASE status \notin Terminal
  <2>1. PICK v \in Worker : End(v)
    BY <1>1, EndSettles
  <2>2. worker' = [worker EXCEPT ![v].pc = "release"] /\ Inside(v)
    BY <2>1 DEF End, Goto, Inside
  <2>3. v # w
    BY <1>0, <2>2
  <2>4. Inside(w)
    BY <1>0, <2>2, <2>3 DEF Inside
  <2> QED BY <2>2, <2>3, <2>4 DEF RowsInv, LeaseInv, OneInside
<1>2. CASE status \in Terminal
  <2>1. CASE worker'[w] = worker[w]
    BY <1>2, <2>1 DEF Alive, Inside
  <2>2. CASE Claim(w)
    BY <1>2, <2>2 DEF Claim, Claimable, Terminal
  <2>3. CASE Renew(w)
    <3>1. worker' = worker \/ worker' = [worker EXCEPT ![w].lost = TRUE]
      BY <2>3 DEF Renew
    <3>2. worker'[w].pc = worker[w].pc
      BY <1>0, <3>1 DEF Local
    <3> QED BY <1>2, <3>2 DEF Alive, Inside
  <2>4. CASE Execute(w) /\ ~Release(w)
    <3>1. Inside(w) /\ worker[w].pc # "release"
      BY <2>4, NotReleasing
    <3> QED BY <1>2, <3>1 DEF Alive
  <2>5. CASE CallFails(w)
    <3>1. worker[w].pc = "release"
      BY <1>2, <2>5 DEF CallFails, Alive, Inside
    <3>2. worker' = [worker EXCEPT ![w].lost = TRUE] \/ worker' = [worker EXCEPT ![w] = IdleWorker]
      BY <2>5, <3>1 DEF CallFails, At
    <3>3. worker'[w].pc = "release" \/ worker'[w].pc = "idle"
      BY <1>0, <3>1, <3>2 DEF Local, IdleWorker
    <3> QED BY <3>3 DEF Inside
  <2> QED BY <2>1, <2>2, <2>3, <2>4, <2>5, WhoMoves
<1> QED BY <1>1, <1>2

\* A graph has finitely many nodes.
LEMMA NodesAreFinite == IsFiniteSet(Node)
<1>1. Order \in Seq(Node)
  BY WorkflowAssumption
<1>2. Len(Order) \in Nat /\ DOMAIN Order = 1 .. Len(Order)
  BY <1>1
<1>3. IsFiniteSet(DOMAIN Order)
  BY <1>2, FS_Interval
<1>4. Order \in Surjection(DOMAIN Order, Node)
  BY <1>1 DEF Surjection, Node
<1> QED BY <1>3, <1>4, FS_Surjection

\* Where no node settles, the number of those that did stays.
LEMMA SameSettled ==
    ASSUME \A n \in Node : node'[n].status \in NodeSettled <=> node[n].status \in NodeSettled
    PROVE  SettledNodes' = SettledNodes
  BY DEF SettledNodes

\* A node that settles adds one.
LEMMA OneMoreSettled ==
    ASSUME NEW n \in Node, node[n].status \notin NodeSettled, node'[n].status \in NodeSettled, Alone(n)
    PROVE  Cardinality(SettledNodes') = Cardinality(SettledNodes) + 1
<1>1. SettledNodes' = SettledNodes \cup {n} /\ n \notin SettledNodes
  BY DEF SettledNodes, Alone
<1>2. IsFiniteSet(SettledNodes)
  BY NodesAreFinite, FS_Subset DEF SettledNodes
<1> QED BY <1>1, <1>2, FS_AddElement

\* The count moves with the nodes.
LEMMA OthersCountNothing ==
    ASSUME [Next]_vars, ~ \E w \in Worker : SettleWrite(w) \/ Skip(w) PROVE UNCHANGED completed
<1>1. ASSUME NEW w \in Worker, Execute(w), ~SettleWrite(w), ~Skip(w) PROVE UNCHANGED completed
  <2>1. CASE End(w)
    BY <2>1 DEF End
  <2>2. CASE StartAttempt(w) \/ MarkChildWaiting(w) \/ Suspend(w)
    BY <2>2 DEF StartAttempt, MarkChildWaiting, Suspend
  <2> QED BY <1>1, <2>1, <2>2 DEF Execute, Enter, Withdraw, Catch, Release, Advance, Step, InvalidInput, RunLocal, StartChild,
     Confirm, ObserveChild, SettleRead, SettleEdge, CancelNode, AskChild, LateResult, row
<1>2. ASSUME NEW w \in Worker, Claim(w) \/ Renew(w) \/ Crash(w) \/ CallFails(w) PROVE UNCHANGED completed
  BY <1>2 DEF Claim, Renew, Crash, CallFails, row
<1> QED
  BY <1>1, <1>2 DEF Next, Done, RequestCancellation, WindowCloses, LeaseExpires, WakeApproval, RecheckComesDue, ChildEnds,
     DeadlinePasses, vars, row

\* Each step counts the nodes it settles.
LEMMA CountsNext ==
    ASSUME RowsInv, Alive, Counts, [Next]_vars PROVE Counts'
<1> DEFINE N == Cardinality(SettledNodes)
<1>0. /\ completed \in Nat /\ completed <= N
      /\ status \notin {"cancel-requested", "cancelled"} => completed = N
      /\ N \in Nat
  <2>1. IsFiniteSet(SettledNodes)
    BY NodesAreFinite, FS_Subset DEF SettledNodes
  <2> QED BY <2>1, FS_CardinalityType DEF Counts, Exact
<1>1. status' \notin {"cancel-requested", "cancelled"} => status \notin {"cancel-requested", "cancelled"}
  BY StatusMoves DEF Terminal
<1>2. CASE UNCHANGED completed /\ SettledNodes' = SettledNodes
  BY <1>0, <1>1, <1>2 DEF Counts, Exact
<1>3. ASSUME NEW w \in Worker, SettleWrite(w) PROVE Counts'
  <2> DEFINE n == Cursor(w)
             r == worker[w].res
  <2>1. n \in Node /\ Written(n, r)
    BY <1>3, WriteWrites
  <2>2. status \notin Terminal
    BY <1>3 DEF Alive, SettleWrite, At, Inside
  <2>3. /\ status = "cancel-requested" => UNCHANGED <<status, completed>>
        /\ status # "cancel-requested" => completed' = completed + IF r.then = "retry" THEN 0 ELSE 1
    BY <1>3, <2>2 DEF SettleWrite, Progress
  <2>4. CASE r.then = "retry"
    <3>1. SettledNodes' = SettledNodes
      BY <2>1, <2>4, SameSettled DEF Written, Alone, NodeSettled, Open, Terminal
    <3> QED BY <1>0, <1>1, <2>3, <2>4, <3>1 DEF Counts, Exact
  <2>5. CASE r.then # "retry"
    <3>1. Cardinality(SettledNodes') = N + 1
      BY <2>1, <2>5, OneMoreSettled DEF Written, NodeSettled, Open, Terminal
    <3> HIDE DEF N
    <3>2. completed' \in Nat /\ completed' <= N + 1
          /\ (status' \notin {"cancel-requested", "cancelled"} => completed' = N + 1)
      BY <1>0, <1>1, <2>3, <2>5
    <3> QED BY <3>1, <3>2 DEF Counts, Exact, N
  <2> QED BY <2>4, <2>5
<1>4. ASSUME NEW w \in Worker, Skip(w) PROVE Counts'
  <2> DEFINE n == Cursor(w)
  <2>1. n \in Node /\ (OnlyDue \/ Skipped(n))
    BY <1>4, SkipWrites
  <2>2. UNCHANGED status
    BY <1>4 DEF Skip
  <2>3. CASE node[n].status = "pending"
    <3>1. completed' = completed + 1 /\ node' = [node EXCEPT ![n].status = "skipped"]
      BY <1>4, <2>3 DEF Skip
    <3>2. node'[n].status = "skipped"
      BY <2>1, <3>1 DEF RowsInv, Shape, NodeRow
    <3>3. Skipped(n)
      BY <2>1, <2>3, <3>2 DEF OnlyDue
    <3>4. Cardinality(SettledNodes') = N + 1
      BY <2>1, <3>3, OneMoreSettled DEF Skipped, NodeSettled, Terminal
    <3> HIDE DEF N
    <3>5. completed' \in Nat /\ completed' <= N + 1
          /\ (status' \notin {"cancel-requested", "cancelled"} => completed' = N + 1)
      BY <1>0, <2>2, <3>1
    <3> QED BY <3>4, <3>5 DEF Counts, Exact, N
  <2>4. CASE node[n].status # "pending"
    <3>1. UNCHANGED completed
      <4>1. completed' = completed + 0
        BY <1>4, <2>4 DEF Skip
      <4> QED BY <1>0, <4>1
    <3>2. SettledNodes' = SettledNodes
      BY <2>1, <2>4, SameSettled DEF OnlyDue, Skipped
    <3> QED BY <1>2, <3>1, <3>2
  <2> QED BY <2>3, <2>4
<1>5. CASE ~ \E w \in Worker : SettleWrite(w) \/ Skip(w)
  <2>1. UNCHANGED completed
    BY <1>5, OthersCountNothing
  <2>2. SettledNodes' = SettledNodes
    <3>1. CASE OnlyDue
      BY <3>1, SameSettled DEF OnlyDue
    <3>2. ASSUME NEW n \in Node, Begun(n) \/ Marked(n) PROVE SettledNodes' = SettledNodes
      BY <3>2, SameSettled DEF Begun, Marked, Alone, NodeSettled, Terminal
    <3> QED BY <1>5, <3>1, <3>2, NodeMoves
  <2> QED BY <1>2, <2>1, <2>2
<1> QED BY <1>3, <1>4, <1>5

\* No node has settled when a run is queued, and nobody is inside.
LEMMA CountInit == Init => CountInv
<1> SUFFICES ASSUME Init PROVE CountInv
  OBVIOUS
<1>1. Alive
  BY DEF Init, Alive, Inside, IdleWorker
<1>2. SettledNodes = {}
  BY DEF Init, SettledNodes, NodeSettled, Terminal
<1>3. Counts
  <2>1. completed = 0
    BY DEF Init
  <2>2. Cardinality(SettledNodes) = 0
    BY <1>2, FS_EmptySet
  <2> QED BY <2>1, <2>2 DEF Counts, Exact
<1> QED BY <1>1, <1>3 DEF CountInv

\* The counter is exact in every behaviour.
LEMMA CountsHold == Spec => [](OnTime => RowsInv /\ CountInv)
<1>1. RowsInv /\ CountInv /\ [Next]_vars => CountInv'
  BY AliveNext, CountsNext DEF CountInv
<1> QED BY <1>1, RowsHold, RunShape, TimeIsSpent, CountInit, PTL DEF Spec

\* While renewals arrive in time, completed_nodes counts the nodes that settled,
\* each once, through retries, recoveries and failed calls.
THEOREM ProgressStaysExact == Spec => []ProgressIsExact
<1>1. (OnTime => RowsInv /\ CountInv) => ProgressIsExact
  BY DEF CountInv, Counts, Exact, ProgressIsExact
<1> QED BY <1>1, CountsHold, PTL

-----------------------------------------------------------------------------
(***************************************************************************)
(* Rechecks.  A run is put to sleep on an approval that waits, and while   *)
(* one does its recheck stays armed: what disarms it takes the node out of *)
(* its wait in the same write.                                             *)
(***************************************************************************)
Sleeps(n) == node[n].status = "waiting-child" /\ Kind[n] = "approval"
SleepInv ==
    /\ status = "waiting-approval" => \E n \in Node : Sleeps(n)
    /\ \A n \in Node : Sleeps(n) => node[n].due # "none"
    /\ \A w \in Worker : worker[w].pc = "suspend" => Sleeps(Cursor(w))

\* A recheck that is armed stays armed while its node waits.
LEMMA RechecksStay ==
    ASSUME RowsInv, [Next]_vars, NEW n \in Node, OnlyDue, node[n].due # "none"
    PROVE  node'[n].due # "none"
<1>0. node \in [Node -> NodeRow]
  BY DEF RowsInv, Shape
<1>1. ASSUME node' = node \/ (\E m, d : d # "none" /\ node' = [node EXCEPT ![m].due = d])
      PROVE  node'[n].due # "none"
  BY <1>0, <1>1 DEF NodeRow
<1>2. ASSUME NEW w \in Worker, Execute(w) PROVE node'[n].due # "none"
  <2>1. CASE Confirm(w) \/ Suspend(w)
    BY <1>1, <2>1 DEF Confirm, Suspend, Woken
  <2>2. CASE StartAttempt(w)
    <3>1. OnlyDue /\ Begun(Cursor(w)) => FALSE
      BY <2>2, StartWrites DEF OnlyDue, Begun
    <3>2. Cursor(w) \in Node
      BY <2>2, StartWrites
    <3>3. node' = node \/ node'[Cursor(w)].status = "running"
      <4> DEFINE c == Cursor(w)
                 started == [node[c] EXCEPT !.status = "running", !.latest = worker[w].a, !.due = "none"]
      <4>1. node' = node \/ node' = [node EXCEPT ![c] = started]
        BY <2>2 DEF StartAttempt
      <4>2. node[c] \in NodeRow
        BY <1>0, <3>2
      <4>3. started.status = "running"
        BY <4>2 DEF NodeRow
      <4> HIDE DEF c, started
      <4>4. c \in Node
        BY <3>2 DEF c
      <4>5. node' = node \/ node'[c].status = "running"
        BY <1>0, <4>1, <4>3, <4>4
      <4> QED BY <4>5 DEF c
    <3>4. node[Cursor(w)].status \in {"pending", "waiting-retry"}
      BY <2>2, MovesTo DEF StartAttempt, At, Inside, Placed, Starts
    <3> QED BY <1>1, <3>2, <3>3, <3>4 DEF OnlyDue
  <2>3. CASE MarkChildWaiting(w)
    BY <2>3, MarkWrites DEF OnlyDue, Marked
  <2>4. CASE SettleWrite(w)
    BY <2>4, WriteWrites DEF OnlyDue, Written, Open, Terminal
  <2>5. CASE Skip(w)
    BY <1>0, <2>5, SkipWrites DEF Skip, NodeRow
  <2>6. CASE ~Confirm(w) /\ ~Suspend(w) /\ ~StartAttempt(w) /\ ~MarkChildWaiting(w) /\ ~SettleWrite(w) /\ ~Skip(w)
    <3>1. UNCHANGED node
      BY <1>2, <2>6 DEF Execute, Enter, Withdraw, Catch, Release, End, Advance, Step, InvalidInput, RunLocal,
         StartChild, ObserveChild, SettleRead, SettleEdge, CancelNode, AskChild, LateResult, rows
    <3> QED BY <1>1, <3>1
  <2> QED BY <2>1, <2>2, <2>3, <2>4, <2>5, <2>6
<1>3. ASSUME NEW w \in Worker, Claim(w) \/ Renew(w) \/ Crash(w) \/ CallFails(w) PROVE UNCHANGED node
  BY <1>3 DEF Claim, Renew, Crash, CallFails, rows
<1>4. ASSUME NEW m \in Node, WakeApproval(m) \/ RecheckComesDue(m) PROVE node'[n].due # "none"
  BY <1>1, <1>4 DEF WakeApproval, RecheckComesDue, Woken
<1>5. CASE UNCHANGED node
  BY <1>1, <1>5
<1> QED BY <1>1, <1>2, <1>3, <1>4, <1>5
  DEF Next, Done, RequestCancellation, WindowCloses, LeaseExpires, ChildEnds, DeadlinePasses, vars, rows

\* A node that waits for a decision is rechecked.
LEMMA SleepsStayArmed ==
    ASSUME RowsInv, SleepInv, [Next]_vars, NEW n \in Node, Sleeps(n)'
    PROVE  node'[n].due # "none"
<1>1. CASE OnlyDue
  BY <1>1, RechecksStay DEF SleepInv, OnlyDue, Sleeps
<1>2. ASSUME NEW m \in Node, Begun(m) PROVE node'[n].due # "none"
  BY <1>2 DEF Begun, Alone, Sleeps, SleepInv
<1>3. ASSUME NEW m \in Node, Marked(m) PROVE node'[n].due # "none"
  BY <1>3 DEF Marked, Alone, Sleeps, SleepInv, Armed
<1>4. ASSUME NEW m \in Node, NEW r, Written(m, r) \/ Skipped(m) PROVE node'[n].due # "none"
  BY <1>4 DEF Written, Skipped, Alone, Sleeps, SleepInv, Terminal
<1> QED BY <1>1, <1>2, <1>3, <1>4, NodeMoves

\* A worker goes to suspend the run for an approval whose attempt waits.
LEMMA SuspendsOnSleeper ==
    ASSUME RowsInv, SleepInv, [Next]_vars, NEW w \in Worker, worker'[w].pc = "suspend"
    PROVE  Sleeps(Cursor(w))'
<1>0. Inside(w)' /\ worker \in [Worker -> Local]
  BY DEF Inside, RowsInv, Shape
<1>1. ASSUME worker'[w].i = worker[w].i, Sleeps(Cursor(w)), Cursor(w) \in Node, OnlyDue
      PROVE  Sleeps(Cursor(w))'
  BY <1>1 DEF Sleeps, Cursor, OnlyDue
<1>2. ASSUME worker[w].pc = "suspend" PROVE Sleeps(Cursor(w)) /\ Cursor(w) \in Node
  BY <1>2, MovesTo, SpotIsNode DEF SleepInv, Inside, Placed, AtNode, Spot
<1>3. CASE Outer /\ worker'[w] = worker[w]
  BY <1>1, <1>2, <1>3 DEF Outer
<1>4. CASE Renew(w) \/ CallFails(w)
  <2>1. worker[w].pc = "suspend" /\ worker'[w].i = worker[w].i
    <3>1. CASE worker' = worker \/ worker' = [worker EXCEPT ![w].lost = TRUE]
      BY <1>0, <3>1 DEF Local
    <3>2. CASE CallFails(w)
      <4>1. worker[w].pc = "suspend"
        BY <3>2, CallFailsGoes
      <4>2. worker' = [worker EXCEPT ![w].lost = TRUE] \/ Goto(w, "catch")
        BY <3>2, <4>1 DEF CallFails, At, Throw
      <4> QED BY <1>0, <3>1, <4>2, GotoIs
    <3> QED BY <1>4, <3>1, <3>2 DEF Renew
  <2>2. OnlyDue
    BY <1>4, ReadsOnly DEF Renew, CallFails, rows
  <2> QED BY <1>1, <1>2, <2>1, <2>2
<1>5. CASE ObserveChild(w)
  <2>1. worker[w].pc = "run" /\ worker[w].res.status = "waiting-child" /\ OnlyDue
    BY <1>5, ReadsOnly DEF ObserveChild, At
  <2>2. Cursor(w) \in Node /\ node[Cursor(w)].status = "waiting-child"
    BY <2>1, InHand DEF Attends, Attending
  <2>3. \E pc, r : /\ Returns(w, pc, r)
                   /\ pc \in {"withdraw", "settle", "release"} \/ Kind[Cursor(w)] = "approval"
    BY <1>5 DEF ObserveChild
  <2>4. worker'[w].i = worker[w].i /\ Kind[Cursor(w)] = "approval"
    BY <2>3, ReturnsIs
  <2> QED BY <1>1, <2>1, <2>2, <2>4 DEF Sleeps
<1>6. ~(\/ Claim(w) \/ Enter(w) \/ End(w) \/ Catch(w) \/ Step(w) \/ StartAttempt(w) \/ InvalidInput(w) \/ RunLocal(w)
        \/ StartChild(w) \/ MarkChildWaiting(w) \/ Confirm(w) \/ Suspend(w) \/ SettleRead(w) \/ SettleWrite(w)
        \/ Skip(w) \/ SettleEdge(w) \/ CancelNode(w) \/ AskChild(w) \/ LateResult(w) \/ Withdraw(w))
  BY Goes
<1> QED BY <1>0, <1>3, <1>4, <1>5, <1>6, WhoMoves DEF Execute, Advance

\* Two steps put the run to sleep, and the write that settles an attempt wakes it.
LEMMA WhoSleeps ==
    ASSUME Shape, [Next]_vars, status' = "waiting-approval"
    PROVE  \/ status = "waiting-approval" /\ ~ \E w \in Worker : SettleWrite(w)
           \/ \E w \in Worker : MarkChildWaiting(w) /\ Kind[Cursor(w)] = "approval"
           \/ \E w \in Worker : Suspend(w)
<1> DEFINE Same == status = "waiting-approval"
           Goal == \/ Same
                   \/ \E w \in Worker : MarkChildWaiting(w) /\ Kind[Cursor(w)] = "approval"
                   \/ \E w \in Worker : Suspend(w)
<1>1. ASSUME NEW w \in Worker, SettleWrite(w) PROVE FALSE
  BY <1>1 DEF SettleWrite, Terminal
<1>2. ASSUME NEW w \in Worker, MarkChildWaiting(w) PROVE Goal
  BY <1>2 DEF MarkChildWaiting
<1>3. ASSUME NEW w \in Worker, End(w) PROVE Same
  BY <1>3 DEF End, SettleRunTo, Shape, Resolved, Terminal
<1>4. ASSUME NEW w \in Worker, StartAttempt(w) PROVE Same
  BY <1>4 DEF StartAttempt
<1>5. ASSUME NEW w \in Worker, Claim(w) PROVE Same
  BY <1>5 DEF Claim
<1>6. ASSUME NEW w \in Worker, Renew(w) \/ Crash(w) \/ CallFails(w) PROVE Same
  BY <1>6 DEF Renew, Crash, CallFails, row
<1>7. ASSUME NEW w \in Worker, Execute(w), ~End(w), ~StartAttempt(w), ~MarkChildWaiting(w), ~Suspend(w), ~SettleWrite(w)
      PROVE Same
  BY <1>7 DEF Execute, Enter, Withdraw, Catch, Release, Advance, Step, InvalidInput, RunLocal, StartChild,
     Confirm, ObserveChild, SettleRead, Skip, SettleEdge, CancelNode, AskChild, LateResult, row
<1>8. ASSUME UNCHANGED status PROVE Same
  BY <1>8
<1>9. Goal
  BY <1>1, <1>2, <1>3, <1>4, <1>5, <1>6, <1>7, <1>8
  DEF Next, Done, RequestCancellation, WindowCloses, LeaseExpires, WakeApproval, RecheckComesDue, ChildEnds,
      DeadlinePasses, vars, row
<1> QED BY <1>1, <1>9

\* The run sleeps on a node that waits for a decision.
LEMMA RunSleepsOnNode ==
    ASSUME RowsInv, SleepInv, [Next]_vars, status' = "waiting-approval"
    PROVE  \E n \in Node : Sleeps(n)'
<1>1. CASE status = "waiting-approval" /\ ~ \E w \in Worker : SettleWrite(w)
  <2>1. PICK n \in Node : Sleeps(n)
    BY <1>1 DEF SleepInv
  <2>2. CASE OnlyDue
    BY <2>1, <2>2 DEF OnlyDue, Sleeps
  <2>3. ASSUME NEW m \in Node, Begun(m) \/ Marked(m) \/ Skipped(m) PROVE Sleeps(n)'
    BY <2>1, <2>3 DEF Begun, Marked, Skipped, Alone, Sleeps
  <2> QED BY <1>1, <2>2, <2>3, NodeMoves
<1>3. ASSUME NEW w \in Worker, MarkChildWaiting(w), Kind[Cursor(w)] = "approval" PROVE \E n \in Node : Sleeps(n)'
  <2>1. Cursor(w) \in Node /\ node'[Cursor(w)].status = "waiting-child"
    BY <1>3, MarkWrites DEF Marked
  <2> QED BY <1>3, <2>1 DEF Sleeps
<1>4. ASSUME NEW w \in Worker, Suspend(w) PROVE \E n \in Node : Sleeps(n)'
  <2>1. Sleeps(Cursor(w)) /\ OnlyDue
    BY <1>4, SleepIsDue DEF SleepInv, Suspend, At
  <2>2. Cursor(w) \in Node
    BY <1>4, MovesTo, SpotIsNode DEF Suspend, At, Inside, Placed, AtNode, Spot
  <2> QED BY <2>1, <2>2 DEF Sleeps, OnlyDue
<1> QED BY <1>1, <1>3, <1>4, WhoSleeps DEF RowsInv

\* Nobody waits for a decision when a run is queued.
LEMMA SleepInit == Init => SleepInv
<1> SUFFICES ASSUME Init PROVE SleepInv
  OBVIOUS
<1>1. status = "queued"
  BY DEF Init
<1>2. \A n \in Node : node[n].status = "pending"
  BY DEF Init
<1>3. \A w \in Worker : worker[w].pc = "idle"
  BY DEF Init, IdleWorker
<1> QED BY <1>1, <1>2, <1>3 DEF SleepInv, Sleeps

\* Every step keeps that.
LEMMA SleepNext == RowsInv /\ SleepInv /\ [Next]_vars => SleepInv'
  BY RunSleepsOnNode, SleepsStayArmed, SuspendsOnSleeper DEF SleepInv

\* A sleeping run is armed in every behaviour.
LEMMA SleepHolds == Spec => [](OnTime => RowsInv /\ SleepInv)
  BY RowsHold, RunShape, TimeIsSpent, SleepInit, SleepNext, PTL DEF Spec

\* While renewals arrive in time, a run asleep on an approval has the armed
\* recheck that alone makes the claim poll see it again.
THEOREM SleepersAreRechecked == Spec => []SleeperIsRechecked
<1>1. (OnTime => SleepInv) => SleeperIsRechecked
  BY DEF SleepInv, Sleeps, SleeperIsRechecked
<1> QED BY <1>1, SleepHolds, PTL

-----------------------------------------------------------------------------
(***************************************************************************)
(* Data flow.  An edge is settled after its source, from the result the    *)
(* worker carries (Carries), and stays settled; a worker that is to start  *)
(* a node saw the edges into it settled, one of them with data (Fed).      *)
(***************************************************************************)
Fed(n) ==
    /\ \A e \in Incoming(n) : edge[e] # "none"
    /\ \E e \in Incoming(n) : edge[e] = "emitted"
Faithful(e) ==
    edge[e] # "none" =>
        /\ node[e.from].status \in NodeSettled
        /\ edge[e] = "skipped" <=> node[e.from].status = "skipped"
        /\ edge[e] = "emitted" => node[e.from].port = e.port
Carries(p) ==
    /\ p.pc = "start" /\ Kind[Spot(p)] # "input" => Fed(Spot(p))
    /\ p.pc = "skip" => node[Spot(p)].status = "pending"
    /\ p.pc = "edges" =>
           /\ node[Spot(p)].status = p.res.status /\ p.res.status \in NodeSettled
           /\ p.res.status # "skipped" => node[Spot(p)].port = p.res.port
           /\ p.out \subseteq Outgoing(Spot(p))
FlowInv ==
    /\ edge \in [Edge -> {"none", "emitted", "closed", "skipped"}]
    /\ \A n \in Node : node[n].latest > 0 /\ Kind[n] # "input" => Fed(n)
    /\ \A e \in Edge : Faithful(e)
    /\ \A w \in Worker : Inside(w) => Carries(worker[w])

\* Only settleEdge writes an edge, and only one that has no transfer.
LEMMA WhoSettlesEdges ==
    ASSUME [Next]_vars
    PROVE  UNCHANGED edge \/ \E w \in Worker : \E e \in worker[w].out :
                                 /\ SettleEdge(w) /\ edge[e] = "none"
                                 /\ edge' = [edge EXCEPT ![e] = Transfer(e, worker[w].res)]
                                 /\ UNCHANGED node
<1> DEFINE Goal == UNCHANGED edge \/ \E w \in Worker : \E e \in worker[w].out :
                                 /\ SettleEdge(w) /\ edge[e] = "none"
                                 /\ edge' = [edge EXCEPT ![e] = Transfer(e, worker[w].res)]
                                 /\ UNCHANGED node
<1>1. ASSUME NEW w \in Worker, SettleEdge(w) PROVE Goal
  BY <1>1 DEF SettleEdge
<1>2. ASSUME NEW w \in Worker, Execute(w), ~SettleEdge(w) PROVE UNCHANGED edge
  BY <1>2 DEF Execute, Enter, Withdraw, Catch, Release, End, Advance, Step, StartAttempt, InvalidInput, RunLocal, StartChild,
     MarkChildWaiting, Confirm, ObserveChild, Suspend, SettleRead, SettleWrite, Skip, CancelNode, AskChild, LateResult, rows
<1>3. ASSUME NEW w \in Worker, Claim(w) \/ Renew(w) \/ Crash(w) \/ CallFails(w) PROVE UNCHANGED edge
  BY <1>3 DEF Claim, Renew, Crash, CallFails, rows
<1> QED BY <1>1, <1>2, <1>3 DEF Next, Done, RequestCancellation, WindowCloses, LeaseExpires, WakeApproval, RecheckComesDue,
     ChildEnds, DeadlinePasses, vars, rows

\* What a transfer is.
LEMMA TransferIs ==
    ASSUME NEW e, NEW r
    PROVE  /\ Transfer(e, r) \in {"emitted", "closed", "skipped"}
           /\ Transfer(e, r) = "skipped" <=> r.status = "skipped"
           /\ Transfer(e, r) = "emitted" => e.port = r.port
  BY DEF Transfer

\* A settled edge stays, and a node that was fed stays fed.
LEMMA EdgesStay ==
    ASSUME FlowInv, [Next]_vars
    PROVE  /\ edge' \in [Edge -> {"none", "emitted", "closed", "skipped"}]
           /\ \A e \in Edge : edge[e] # "none" => edge'[e] = edge[e]
           /\ \A n : Fed(n) => Fed(n)'
<1>1. /\ edge' \in [Edge -> {"none", "emitted", "closed", "skipped"}]
      /\ \A e \in Edge : edge[e] # "none" => edge'[e] = edge[e]
  BY WhoSettlesEdges, TransferIs DEF FlowInv
<1> QED BY <1>1 DEF Fed, Incoming

\* A node whose edges are settled is moved by no step.
LEMMA EdgesFaithful ==
    ASSUME RowsInv, FlowInv, [Next]_vars, NEW e \in Edge PROVE Faithful(e)'
<1>0. e.from \in Node
  BY WorkflowAssumption
<1>1. ASSUME edge'[e] = edge[e] PROVE Faithful(e)'
  <2>1. CASE edge[e] = "none"
    BY <1>1, <2>1 DEF Faithful
  <2>2. CASE edge[e] # "none"
    <3>1. node[e.from].status \in NodeSettled
      BY <2>2 DEF FlowInv, Faithful
    <3>2. node'[e.from].status = node[e.from].status /\ node'[e.from].port = node[e.from].port
      <4>1. CASE OnlyDue
        BY <1>0, <4>1 DEF OnlyDue
      <4>2. ASSUME NEW m \in Node, NEW r, Begun(m) \/ Marked(m) \/ Written(m, r) \/ Skipped(m)
            PROVE  node'[e.from] = node[e.from]
        BY <1>0, <3>1, <4>2 DEF Begun, Marked, Written, Skipped, Alone, NodeSettled, Terminal, Open
      <4> QED BY <4>1, <4>2, NodeMoves
    <3> QED BY <1>1, <2>2, <3>1, <3>2 DEF FlowInv, Faithful
  <2> QED BY <2>1, <2>2
<1>2. ASSUME NEW w \in Worker, NEW f \in worker[w].out, SettleEdge(w), edge[f] = "none", UNCHANGED node,
             edge' = [edge EXCEPT ![f] = Transfer(f, worker[w].res)]
      PROVE  Faithful(e)'
  <2>1. CASE e # f
    BY <1>1, <1>2, <2>1 DEF FlowInv
  <2>2. CASE e = f
    <3>1. Carries(worker[w]) /\ worker[w].pc = "edges"
      BY <1>2 DEF FlowInv, SettleEdge, At, Inside
    <3>2. e.from = Spot(worker[w])
      BY <1>2, <2>2, <3>1 DEF Carries, Outgoing
    <3>3. edge'[e] = Transfer(e, worker[w].res)
      BY <1>2, <2>2 DEF FlowInv
    <3> QED BY <1>2, <3>1, <3>2, <3>3, TransferIs DEF Carries, Faithful
  <2> QED BY <2>1, <2>2
<1> QED BY <1>1, <1>2, WhoSettlesEdges

\* A node is attempted when it was fed.
LEMMA AttemptedIsFed ==
    ASSUME RowsInv, FlowInv, [Next]_vars, NEW n \in Node, node'[n].latest > 0, Kind[n] # "input"
    PROVE  Fed(n)'
<1>1. CASE node'[n].latest = node[n].latest
  BY <1>1, EdgesStay DEF FlowInv
<1>2. ASSUME NEW w \in Worker, StartAttempt(w), Cursor(w) = n PROVE Fed(n)'
  BY <1>2, EdgesStay DEF FlowInv, StartAttempt, At, Inside, Carries, Cursor, Spot
<1>3. CASE OnlyDue
  BY <1>1, <1>3 DEF OnlyDue
<1>4. ASSUME NEW w \in Worker, Begun(Cursor(w)), Cursor(w) # n PROVE Fed(n)'
  BY <1>1, <1>4 DEF Begun, Alone
<1>5. ASSUME NEW m \in Node, NEW r, Marked(m) \/ Written(m, r) \/ Skipped(m) PROVE Fed(n)'
  BY <1>1, <1>5 DEF Marked, Written, Skipped, Alone
<1> QED BY <1>2, <1>3, <1>4, <1>5, NodeMoves

\* A worker that stays where it is carries what it did.
LEMMA StillCarries ==
    ASSUME RowsInv, FlowInv, [Next]_vars, NEW w \in Worker, Inside(w), OnlyDue,
           worker'[w].pc = worker[w].pc, worker'[w].i = worker[w].i, worker'[w].res = worker[w].res,
           worker'[w].out \subseteq worker[w].out
    PROVE  Carries(worker[w])'
<1>1. Carries(worker[w]) /\ Spot(worker[w])' = Spot(worker[w])
  BY DEF FlowInv, Spot
<1>2. worker[w].pc \in {"start", "skip", "edges"} => Spot(worker[w]) \in Node
  BY MovesTo, SpotIsNode DEF Placed, AtNode, Spot
<1>3. \A n : Fed(n) => Fed(n)'
  BY EdgesStay
<1>4. Carries(worker[w])' <=>
        /\ worker[w].pc = "start" /\ Kind[Spot(worker[w])] # "input" => Fed(Spot(worker[w]))'
        /\ worker[w].pc = "skip" => node'[Spot(worker[w])].status = "pending"
        /\ worker[w].pc = "edges" =>
               /\ node'[Spot(worker[w])].status = worker[w].res.status /\ worker[w].res.status \in NodeSettled
               /\ worker[w].res.status # "skipped" => node'[Spot(worker[w])].port = worker[w].res.port
               /\ worker'[w].out \subseteq Outgoing(Spot(worker[w]))
  BY DEF Carries, Spot, Fed
<1> QED BY <1>1, <1>2, <1>3, <1>4 DEF Carries, OnlyDue

\* The reads that send a worker to start a node, or to skip it.
LEMMA StepCarries ==
    ASSUME RowsInv, FlowInv, NEW w \in Worker, Step(w) PROVE Carries(worker[w])'
<1> DEFINE n == Cursor(w)
<1>0. worker[w] \in Local /\ worker \in [Worker -> Local] /\ UNCHANGED <<node, edge>>
  BY DEF RowsInv, Shape, Step, rows
<1>1. ASSUME worker'[w].pc \in {"start", "skip"}
      PROVE  /\ worker'[w].i = worker[w].i /\ worker[w].i <= Len(Order)
             /\ node[n].status \notin NodeSettled
             /\ {e \in Incoming(n) : edge[e] = "none"} = {}
             /\ worker'[w].pc = "start" =>
                    ~(Kind[n] # "input" /\ {e \in Incoming(n) : edge[e] = "emitted"} = {})
             /\ worker'[w].pc = "skip" =>
                    Kind[n] # "input" /\ {e \in Incoming(n) : edge[e] = "emitted"} = {}
  BY <1>0, <1>1 DEF Step, At, NextNode, Local
<1>2. worker'[w].pc # "edges"
  BY Goes, <1>0
<1>4. ASSUME worker'[w].pc = "skip" PROVE node[n].status = "pending"
  <2>1. n \in Node
    BY <1>0, <1>1, <1>4, WorkflowAssumption DEF Local, Cursor, Node
  <2>2. node[n].latest = 0
    <3>1. ~Fed(n) /\ Kind[n] # "input"
      BY <1>1, <1>4 DEF Fed
    <3> QED BY <2>1, <3>1 DEF FlowInv, RowsInv, RowsMatch, Matches
  <2> QED BY <1>1, <1>4, <2>1, <2>2 DEF RowsInv, RowsMatch, Matches, NodeSettled
<1>5. worker'[w].pc \in {"start", "skip"} => Spot(worker[w])' = n
  BY <1>1 DEF Spot, Cursor
<1>3. ASSUME worker'[w].pc = "start", Kind[n] # "input" PROVE Fed(Spot(worker[w]))'
  <2>1. /\ \A e \in Edge : e.to = n => edge'[e] # "none"
        /\ \E e \in Edge : e.to = n /\ edge'[e] = "emitted"
    BY <1>0, <1>1, <1>3 DEF Incoming
  <2> QED BY <1>3, <1>5, <2>1 DEF Fed, Incoming
<1>6. worker'[w].pc = "skip" => node'[Spot(worker'[w])].status = "pending"
  BY <1>0, <1>4, <1>5 DEF Spot
<1>7. worker'[w].pc = "start" /\ Kind[Spot(worker'[w])] # "input" => Fed(Spot(worker[w]))'
  BY <1>3, <1>5 DEF Spot
<1> QED BY <1>2, <1>6, <1>7 DEF Carries

\* The writes that send a worker to settle edges.
LEMMA WriteCarries ==
    ASSUME RowsInv, NEW w \in Worker, SettleWrite(w) PROVE Carries(worker[w])'
<1> DEFINE n == Cursor(w)
           r == worker[w].res
<1>0. worker[w] \in Local /\ worker \in [Worker -> Local]
  BY DEF RowsInv, Shape
<1>1. n \in Node /\ Written(n, r)
  BY WriteWrites
<1>2. worker'[w].pc \in {"release", "edges", "cancel", "end"}
  BY Goes
<1>3. ASSUME worker'[w].pc = "edges"
      PROVE  /\ worker'[w].i = worker[w].i /\ worker'[w].res = r /\ worker'[w].out = Outgoing(n)
             /\ r.then # "retry"
  BY <1>0, <1>3 DEF SettleWrite, Local
<1>4. worker'[w].pc = "edges" => Spot(worker[w])' = n
  BY <1>3 DEF Spot, Cursor
<1> HIDE DEF n, r
<1> QED BY <1>1, <1>2, <1>3, <1>4 DEF Carries, Written, NodeSettled

\* A skip takes the outgoing edges of the node with it.
LEMMA SkipCarries ==
    ASSUME RowsInv, FlowInv, NEW w \in Worker, Skip(w) PROVE Carries(worker[w])'
<1> DEFINE n == Cursor(w)
<1>0. worker[w] \in Local /\ worker \in [Worker -> Local]
  BY DEF RowsInv, Shape
<1>1. node[n].status = "pending" /\ n \in Node
  BY MovesTo, SpotIsNode DEF FlowInv, Carries, Skip, At, Inside, Cursor, Spot, Placed, AtNode
<1>2. node'[n].status = "skipped"
  <2>1. node' = [node EXCEPT ![n].status = "skipped"]
    BY <1>1 DEF Skip
  <2> QED BY <1>1, <2>1 DEF RowsInv, Shape, NodeRow
<1>3. /\ worker'[w].pc = "edges" /\ worker'[w].i = worker[w].i
      /\ worker'[w].res = StatusOnly("skipped") /\ worker'[w].out = Outgoing(n)
  BY <1>0 DEF Skip, Local
<1>4. Spot(worker[w])' = n
  BY <1>3 DEF Spot, Cursor
<1>5. worker'[w].res.status = "skipped"
  BY <1>3, StatusOnlyIs
<1> QED BY <1>2, <1>3, <1>4, <1>5 DEF Carries, NodeSettled

\* Settling edges one by one.
LEMMA SettleEdgeCarries ==
    ASSUME RowsInv, FlowInv, [Next]_vars, NEW w \in Worker, SettleEdge(w) PROVE Carries(worker[w])'
<1>0. worker[w] \in Local /\ worker \in [Worker -> Local] /\ OnlyDue /\ worker[w].pc = "edges" /\ Inside(w)
  BY ReadsOnly DEF RowsInv, Shape, SettleEdge, At, Inside
<1>1. CASE worker'[w].pc # "edges"
  BY <1>1, Goes DEF Carries
<1>2. CASE worker'[w].pc = "edges"
  <2>1. PICK e \in worker[w].out : worker' = [worker EXCEPT ![w].out = worker[w].out \ {e}]
    <3>1. CASE worker' = NextNode(w)
      <4>1. worker'[w].pc = "step"
        BY <1>0, <3>1 DEF NextNode, Local
      <4> QED BY <1>2, <4>1
    <3>2. ~Goto(w, "catch")
      BY <1>2, GotoIs
    <3> QED BY <3>1, <3>2 DEF SettleEdge, Throw
  <2>2. /\ worker'[w].pc = worker[w].pc /\ worker'[w].i = worker[w].i /\ worker'[w].res = worker[w].res
        /\ worker'[w].out \subseteq worker[w].out
    BY <1>0, <2>1 DEF Local
  <2> QED BY <1>0, <2>2, StillCarries
<1> QED BY <1>1, <1>2

\* A worker inside carries what it settles edges with.
LEMMA CarriesNext ==
    ASSUME RowsInv, FlowInv, [Next]_vars, NEW w \in Worker, Inside(w)' PROVE Carries(worker[w])'
<1>0. worker[w] \in Local /\ worker \in [Worker -> Local]
  BY DEF RowsInv, Shape
<1>1. CASE Outer /\ worker'[w] = worker[w]
  BY <1>1, StillCarries DEF Outer, Inside
<1>2. CASE Renew(w) \/ CallFails(w)
  <2>1. OnlyDue /\ Inside(w)
    BY <1>2, ReadsOnly DEF Renew, CallFails, rows
  <2>2. CASE worker' = worker \/ worker' = [worker EXCEPT ![w].lost = TRUE]
    BY <1>0, <2>1, <2>2, StillCarries DEF Local
  <2>3. CASE worker'[w].pc \notin {"start", "skip", "edges"}
    BY <2>3 DEF Carries
  <2>4. \/ worker' = worker \/ worker' = [worker EXCEPT ![w].lost = TRUE]
        \/ worker'[w].pc \notin {"start", "skip", "edges"}
    <3>1. CASE worker' = [worker EXCEPT ![w] = IdleWorker]
      BY <1>0, <3>1 DEF IdleWorker
    <3>2. CASE \/ \E q \in {"end", "late", "release", "catch"} : Goto(w, q)
               \/ \E q \in {"settle", "release"} : \E r : Returns(w, q, r)
      BY <3>2, GotoIs, ReturnsIs
    <3> QED BY <1>2, <3>1, <3>2 DEF Renew, CallFails, Throw
  <2> QED BY <2>2, <2>3, <2>4
<1>3. CASE Step(w) \/ SettleWrite(w) \/ Skip(w) \/ SettleEdge(w)
  BY <1>3, StepCarries, WriteCarries, SkipCarries, SettleEdgeCarries
<1>4. CASE \/ Claim(w) \/ Enter(w) \/ End(w) \/ Catch(w) \/ StartAttempt(w) \/ InvalidInput(w) \/ RunLocal(w)
           \/ StartChild(w) \/ MarkChildWaiting(w) \/ Confirm(w) \/ ObserveChild(w) \/ Suspend(w) \/ SettleRead(w)
           \/ CancelNode(w) \/ AskChild(w) \/ LateResult(w) \/ Withdraw(w)
  <2>1. worker'[w].pc \notin {"start", "skip", "edges"}
    BY <1>4, Goes
  <2> QED BY <2>1 DEF Carries
<1> QED BY <1>1, <1>2, <1>3, <1>4, WhoMoves DEF Execute, Advance

\* Nothing has moved when a run is queued.
LEMMA FlowInit == Init => FlowInv
<1> SUFFICES ASSUME Init PROVE FlowInv
  OBVIOUS
<1>1. edge = [e \in Edge |-> "none"]
  BY DEF Init
<1>2. \A n \in Node : node[n].latest = 0
  BY DEF Init
<1>3. \A w \in Worker : ~Inside(w)
  BY DEF Init, IdleWorker, Inside
<1> QED BY <1>1, <1>2, <1>3 DEF FlowInv, Faithful

\* Every step keeps the data flowing along settled edges.
LEMMA FlowNext == RowsInv /\ FlowInv /\ [Next]_vars => FlowInv'
<1> SUFFICES ASSUME RowsInv, FlowInv, [Next]_vars PROVE FlowInv'
  OBVIOUS
<1>1. \A n \in Node : node'[n].latest > 0 /\ Kind[n] # "input" => Fed(n)'
  BY AttemptedIsFed
<1>2. \A e \in Edge : Faithful(e)'
  BY EdgesFaithful
<1>3. \A w \in Worker : Inside(w)' => Carries(worker[w])'
  BY CarriesNext
<1> QED BY <1>1, <1>2, <1>3, EdgesStay DEF FlowInv

\* Edges and nodes agree in every behaviour.
LEMMA FlowHolds == Spec => [](OnTime => RowsInv /\ FlowInv)
  BY RowsHold, RunShape, TimeIsSpent, FlowInit, FlowNext, PTL DEF Spec

\* While renewals arrive in time, data flows along settled edges only, in every
\* graph: through retries, skips, recoveries and cancellations.
THEOREM DataFlowsAlongEdges == Spec => []DataFlow
<1>1. (OnTime => FlowInv) => DataFlow
  BY DEF FlowInv, Faithful, Fed, DataFlow
<1> QED BY <1>1, FlowHolds, PTL

-----------------------------------------------------------------------------
(***************************************************************************)
(* One node at a time.  The nodes before one that was begun are settled,   *)
(* so at most one node of the run is neither untouched nor settled.        *)
(***************************************************************************)
SettledBefore(i) == \A h \in DOMAIN Order : h < i => node[Order[h]].status \in NodeSettled
Before ==
    \A i \in DOMAIN Order : node[Order[i]].status # "pending" => SettledBefore(i)
Heads(p) ==
    /\ p.pc = "enter" => p.i = 1
    /\ p.pc \in {"step", "start", "skip"} => SettledBefore(p.i)
TurnInv ==
    /\ Before
    /\ \A w \in Worker : Inside(w) => Heads(worker[w])

\* Positions are numbers, and name nodes once.
LEMMA Positions ==
    /\ \A i \in DOMAIN Order : i \in Nat \ {0} /\ i <= Len(Order) /\ Order[i] \in Node
    /\ \A i, j \in DOMAIN Order : Order[i] = Order[j] => i = j
    /\ \A i \in Nat \ {0} : i <= Len(Order) => i \in DOMAIN Order
    /\ Len(Order) \in Nat
  BY WorkflowAssumption DEF Node

\* No settled node is moved.
LEMMA SettledStay ==
    ASSUME RowsInv, [Next]_vars, NEW n \in Node, node[n].status \in NodeSettled
    PROVE  node'[n].status = node[n].status /\ node'[n].port = node[n].port
<1>1. CASE OnlyDue
  BY <1>1 DEF OnlyDue
<1>2. ASSUME NEW m \in Node, NEW r, Begun(m) \/ Marked(m) \/ Written(m, r) \/ Skipped(m)
      PROVE  node'[n] = node[n]
  BY <1>2 DEF Begun, Marked, Written, Skipped, Alone, NodeSettled, Terminal, Open
<1> QED BY <1>1, <1>2, NodeMoves

\* So what is settled before a position stays so.
LEMMA SettledBeforeStays ==
    ASSUME RowsInv, [Next]_vars PROVE \A i : SettledBefore(i) => SettledBefore(i)'
  BY SettledStay, Positions DEF SettledBefore

\* The position of a worker that starts or skips a node, or is at an attempt.
LEMMA AtPosition ==
    ASSUME RowsInv, NEW w \in Worker, worker[w].pc \in AtNode
    PROVE  worker[w].i \in DOMAIN Order /\ Cursor(w) = Order[worker[w].i] /\ Cursor(w) \in Node
  BY MovesTo, Positions DEF Inside, AtNode, Attending, Placed, Cursor

\* A node is begun after all before it.
LEMMA BeforeNext ==
    ASSUME RowsInv, TurnInv, [Next]_vars PROVE Before'
<1> SUFFICES ASSUME NEW i \in DOMAIN Order, node'[Order[i]].status # "pending"
             PROVE  SettledBefore(i)'
  BY DEF Before
<1>0. Order[i] \in Node
  BY Positions
<1>1. CASE node[Order[i]].status # "pending"
  BY <1>1, SettledBeforeStays DEF TurnInv, Before
<1>2. CASE node[Order[i]].status = "pending"
  <2>1. PICK w \in Worker : /\ StartAttempt(w) \/ Skip(w)
                            /\ Cursor(w) \in Node /\ (Begun(Cursor(w)) \/ Skipped(Cursor(w)))
                            /\ Cursor(w) = Order[i]
    <3>1. ~OnlyDue
      BY <1>0, <1>2 DEF OnlyDue
    <3>2. ASSUME NEW m \in Node, NEW r, Marked(m) \/ Written(m, r) PROVE node'[Order[i]] = node[Order[i]]
      BY <1>0, <1>2, <3>2 DEF Marked, Written, Alone, Open
    <3>3. ASSUME NEW m \in Node, Begun(m) \/ Skipped(m), m # Order[i] PROVE node'[Order[i]] = node[Order[i]]
      BY <1>0, <3>3 DEF Begun, Skipped, Alone
    <3> QED BY <1>2, <3>1, <3>2, <3>3, NodeMoves
  <2>2. worker[w].pc \in {"start", "skip"} /\ Inside(w)
    BY <2>1 DEF StartAttempt, Skip, At, Inside
  <2>3. worker[w].i = i
    BY <2>1, <2>2, AtPosition, Positions DEF AtNode
  <2>4. SettledBefore(i)
    BY <2>2, <2>3 DEF TurnInv, Heads
  <2> QED BY <2>4, SettledBeforeStays
<1> QED BY <1>1, <1>2

\* A worker goes on past settled nodes only.
LEMMA NextNodeHeads ==
    ASSUME RowsInv, TurnInv, NEW w \in Worker, worker' = NextNode(w),
           node[Cursor(w)].status \in NodeSettled, worker[w].i \in DOMAIN Order
    PROVE  SettledBefore(worker'[w].i)
<1>1. worker'[w].i = worker[w].i + 1
  BY DEF NextNode, RowsInv, Shape, Local
<1>2. SettledBefore(worker[w].i)
  BY DEF TurnInv, Before, Cursor, NodeSettled, Terminal
<1> QED BY <1>1, <1>2, Positions DEF SettledBefore, Cursor

\* The walk over the order passes settled nodes only.
LEMMA StepHeads ==
    ASSUME RowsInv, TurnInv, NEW w \in Worker, Step(w), worker'[w].pc \in {"step", "start", "skip"}
    PROVE  SettledBefore(worker'[w].i)
<1>0. worker[w] \in Local /\ worker \in [Worker -> Local] /\ SettledBefore(worker[w].i)
  BY DEF RowsInv, Shape, TurnInv, Heads, Step, At, Inside
<1>1. CASE /\ worker' = NextNode(w) /\ node[Cursor(w)].status \in NodeSettled
           /\ worker[w].i <= Len(Order)
  <2>1. worker[w].i \in DOMAIN Order
    BY <1>0, <1>1, Positions DEF Local
  <2> QED BY <1>1, <2>1, NextNodeHeads
<1>2. CASE worker'[w].i = worker[w].i
  BY <1>0, <1>2
<1>3. ASSUME NEW a, NEW r, worker' = [worker EXCEPT ![w] = [@ EXCEPT !.pc = "run", !.a = a, !.res = r]]
      PROVE  worker'[w].i = worker[w].i
  BY <1>0, <1>3 DEF Local
<1>4. ASSUME NEW a, worker' = [worker EXCEPT ![w] = [@ EXCEPT !.pc = "start", !.a = a]]
      PROVE  worker'[w].i = worker[w].i
  BY <1>0, <1>4 DEF Local
<1>5. ASSUME NEW q, worker' = [worker EXCEPT ![w].pc = q] PROVE worker'[w].i = worker[w].i
  BY <1>0, <1>5 DEF Local
<1>6. \/ \E q : worker' = [worker EXCEPT ![w].pc = q]
      \/ \E a : worker' = [worker EXCEPT ![w] = [@ EXCEPT !.pc = "start", !.a = a]]
      \/ \E a, r : worker' = [worker EXCEPT ![w] = [@ EXCEPT !.pc = "run", !.a = a, !.res = r]]
      \/ worker' = NextNode(w) /\ node[Cursor(w)].status \in NodeSettled /\ ~(worker[w].i > Len(Order))
  BY DEF Step
<1>7. ~(worker[w].i > Len(Order)) => worker[w].i <= Len(Order)
  BY <1>0, Positions DEF Local
<1> QED BY <1>1, <1>2, <1>3, <1>4, <1>5, <1>6, <1>7

\* A worker starts or skips the first node that is not settled.
LEMMA HeadsNext ==
    ASSUME RowsInv, FlowInv, TurnInv, [Next]_vars, NEW w \in Worker, Inside(w)' PROVE Heads(worker[w])'
<1>0. worker[w] \in Local /\ worker \in [Worker -> Local]
  BY DEF RowsInv, Shape
<1>a. \A i : SettledBefore(i) => SettledBefore(i)'
  BY SettledBeforeStays
<1>b. Heads(worker[w])' <=> /\ worker'[w].pc = "enter" => worker'[w].i = 1
                            /\ worker'[w].pc \in {"step", "start", "skip"} => SettledBefore(worker[w].i)'
  BY DEF Heads
<1>c. ASSUME Inside(w), worker'[w].pc = worker[w].pc, worker'[w].i = worker[w].i PROVE Heads(worker[w])'
  BY <1>a, <1>c DEF TurnInv, Heads, SettledBefore
<1>d. ASSUME worker'[w].pc # "enter", worker'[w].pc \in {"step", "start", "skip"} => SettledBefore(worker'[w].i)
      PROVE  Heads(worker[w])'
  BY <1>a, <1>d DEF Heads, SettledBefore
<1>1. CASE Outer /\ worker'[w] = worker[w]
  BY <1>1, <1>c DEF Inside
<1>2. CASE Renew(w) \/ CallFails(w)
  <2>1. CASE worker' = worker \/ worker' = [worker EXCEPT ![w].lost = TRUE]
    BY <1>0, <1>2, <1>c, <2>1 DEF Local, Renew, CallFails
  <2>2. CASE worker' = [worker EXCEPT ![w] = IdleWorker]
    BY <1>0, <2>2 DEF IdleWorker, Inside
  <2>3. CASE \/ \E q \in {"end", "late", "release", "catch"} : Goto(w, q)
             \/ \E q \in {"settle", "release"} : \E r : Returns(w, q, r)
    <3>1. worker'[w].pc \in {"end", "late", "release", "catch", "settle"}
      BY <2>3, GotoIs, ReturnsIs
    <3> QED BY <1>d, <3>1
  <2> QED BY <1>2, <2>1, <2>2, <2>3 DEF Renew, CallFails, Throw
<1>3. CASE Claim(w)
  <2>1. worker'[w] = [IdleWorker EXCEPT !.pc = "enter"]
    BY <1>0, <1>3 DEF Claim
  <2>2. [IdleWorker EXCEPT !.pc = "enter"].i = 1 /\ [IdleWorker EXCEPT !.pc = "enter"].pc = "enter"
    BY DEF IdleWorker
  <2> QED BY <2>1, <2>2 DEF Heads
<1>4. CASE Enter(w)
  <2>1. worker'[w].pc \in {"release", "cancel", "end", "withdraw", "step"}
    BY <1>4, Goes
  <2>2. ASSUME worker'[w].pc = "step" PROVE worker'[w].i = worker[w].i
    <3>1. Goto(w, "step")
      <4>1. CASE worker' = [worker EXCEPT ![w] = [@ EXCEPT !.pc = "cancel", !.todo = {n \in Node : Waiting(n)}]]
        BY <1>0, <2>2, <4>1 DEF Local
      <4>2. CASE worker' = [worker EXCEPT ![w] = [@ EXCEPT !.pc = "end", !.res = ThenOnly("refused")]]
        BY <1>0, <2>2, <4>2 DEF Local
      <4>3. ASSUME NEW i, NEW a, worker' = [worker EXCEPT ![w] = [@ EXCEPT !.pc = "withdraw", !.i = i, !.a = a,
                                               !.res = ThenOnly("refused")]]
            PROVE  FALSE
        BY <1>0, <2>2, <4>3 DEF Local
      <4>4. ~Goto(w, "release")
        BY <2>2, GotoIs
      <4> QED BY <1>4, <4>1, <4>2, <4>3, <4>4 DEF Enter
    <3> QED BY <3>1, GotoIs
  <2>3. worker[w].i = 1
    BY <1>4 DEF Enter, At, TurnInv, Inside, Heads
  <2>4. SettledBefore(1)
    BY Positions DEF SettledBefore
  <2> QED BY <1>d, <2>1, <2>2, <2>3, <2>4
<1>5. CASE Step(w)
  <2>1. worker'[w].pc # "enter"
    BY <1>5, Goes
  <2> QED BY <1>5, <1>d, <2>1, StepHeads
<1>6. CASE SettleEdge(w)
  <2>1. worker'[w].pc \in {"catch", "step", "edges"}
    BY <1>6, Goes
  <2>2. ASSUME worker'[w].pc = "step" PROVE SettledBefore(worker'[w].i)
    <3>1. worker' = NextNode(w)
      <4>1. ASSUME NEW x, worker' = [worker EXCEPT ![w].out = x] PROVE FALSE
        BY <1>0, <1>6, <2>2, <4>1 DEF SettleEdge, At, Local
      <4>2. ~Goto(w, "catch")
        BY <2>2, GotoIs
      <4> QED BY <1>6, <4>1, <4>2 DEF SettleEdge, Throw
    <3>2. worker[w].pc = "edges" /\ Inside(w) /\ worker[w].pc \in AtNode
      BY <1>6 DEF SettleEdge, At, Inside, AtNode
    <3>3. worker[w].i \in DOMAIN Order /\ node[Cursor(w)].status \in NodeSettled
      BY <3>2, AtPosition DEF FlowInv, Carries, Cursor, Spot
    <3> QED BY <3>1, <3>3, NextNodeHeads
  <2> QED BY <1>d, <2>1, <2>2
<1>7. CASE \/ End(w) \/ Catch(w) \/ StartAttempt(w) \/ InvalidInput(w) \/ RunLocal(w)
           \/ StartChild(w) \/ MarkChildWaiting(w) \/ Confirm(w) \/ ObserveChild(w) \/ Suspend(w) \/ SettleRead(w)
           \/ SettleWrite(w) \/ Skip(w) \/ CancelNode(w) \/ AskChild(w) \/ LateResult(w) \/ Withdraw(w)
  <2>1. worker'[w].pc \notin {"enter", "step", "start", "skip"}
    BY <1>7, Goes
  <2> QED BY <1>d, <2>1
<1> QED BY <1>1, <1>2, <1>3, <1>4, <1>5, <1>6, <1>7, WhoMoves DEF Execute, Advance

\* Nothing was begun when a run is queued.
LEMMA TurnInit == Init => TurnInv
<1> SUFFICES ASSUME Init PROVE TurnInv
  OBVIOUS
<1>1. \A n \in Node : node[n].status = "pending"
  BY DEF Init
<1>2. \A w \in Worker : ~Inside(w)
  BY DEF Init, IdleWorker, Inside
<1> QED BY <1>1, <1>2, Positions DEF TurnInv, Before

\* Every step keeps the nodes in their turn.
LEMMA TurnNext == RowsInv /\ FlowInv /\ TurnInv /\ [Next]_vars => TurnInv'
  BY BeforeNext, HeadsNext DEF TurnInv

\* At most one node is begun and not settled.
LEMMA OneNodeOpen ==
    ASSUME RowsInv, TurnInv, NEW m \in Node, NEW n \in Node,
           node[m].status \notin NodeSettled \cup {"pending"},
           node[n].status \notin NodeSettled \cup {"pending"}
    PROVE  m = n
<1>1. PICK i, j \in DOMAIN Order : Order[i] = m /\ Order[j] = n
  BY DEF Node
<1>2. ~(i < j) /\ ~(j < i)
  BY <1>1 DEF TurnInv, Before, SettledBefore
<1> QED BY <1>1, <1>2, Positions

-----------------------------------------------------------------------------
(***************************************************************************)
(* Runs in which no worker died and no call failed.  No lease is lost and  *)
(* nothing is thrown, so a worker does what it set out to do: it asks the  *)
(* child whose cancellation it recorded, and records the wait of the child *)
(* it started.                                                             *)
(***************************************************************************)
Smooth(p) ==
    /\ p.lost => p.pc = "release"
    /\ p.pc \notin {"catch", "refuse"}
    /\ p.pc = "edges" => \A e \in p.out : edge[e] = "none"
    /\ p.pc = "withdraw" => Kind[Spot(p)] = "approval"
SmoothInv == NoFault => \A w \in Worker : Inside(w) => Smooth(worker[w])

\* Faults are not forgotten.
LEMMA NoFaultYet ==
    ASSUME Shape, [Next]_vars, NoFault'
    PROVE  NoFault /\ ~ \E w \in Worker : Crash(w) \/ CallFails(w)
<1> DEFINE Goal == NoFault /\ ~ \E w \in Worker : Crash(w) \/ CallFails(w)
<1>0. faults \in Fault /\ faults.crash \in Nat /\ faults.error \in Nat
  BY DEF Shape, Fault
<1>1. ASSUME NEW w \in Worker, Crash(w) \/ CallFails(w) PROVE FALSE
  <2>1. faults' = [faults EXCEPT !.crash = @ + 1] \/ faults' = [faults EXCEPT !.error = @ + 1]
    BY <1>1 DEF Crash, CallFails
  <2>2. faults'.crash = faults.crash + 1 \/ faults'.error = faults.error + 1
    BY <1>0, <2>1 DEF Fault
  <2> QED BY <1>0, <2>2 DEF NoFault
<1>2. NoFault
  <2>1. CASE UNCHANGED faults
    BY <2>1 DEF NoFault, OnTime
  <2>2. CASE faults' = [faults EXCEPT !.cancel = @ + 1] \/ faults' = [faults EXCEPT !.freeze = @ + 1]
    BY <1>0, <2>2, WorkflowAssumption DEF NoFault, OnTime, Fault
  <2>3. ASSUME NEW w \in Worker, Claim(w) \/ Renew(w) \/ Execute(w) PROVE UNCHANGED faults
    BY <2>3 DEF Claim, Renew, Execute, Enter, Withdraw, Catch, Release, End, Advance, Step, StartAttempt, InvalidInput,
       RunLocal, StartChild, MarkChildWaiting, Confirm, ObserveChild, Suspend, SettleRead, SettleWrite, Skip,
       SettleEdge, CancelNode, AskChild, LateResult
  <2> QED BY <1>1, <2>1, <2>2, <2>3 DEF Next, Done, RequestCancellation, WindowCloses, LeaseExpires, WakeApproval,
       RecheckComesDue, ChildEnds, DeadlinePasses, vars
<1> QED BY <1>1, <1>2

(***************************************************************************)
(* What the steps leave in the hands of the worker.                        *)
(***************************************************************************)
SameLost(w) == worker'[w].lost = worker[w].lost
SameSpot(w) == worker'[w].i = worker[w].i /\ worker'[w].a = worker[w].a
SameLeft(w) == worker'[w].todo = worker[w].todo /\ worker'[w].pending = worker[w].pending

\* What a step that only moves the worker leaves in its hands.
LEMMA GotoHolds ==
    ASSUME RowsInv, NEW w \in Worker
    PROVE  /\ \A q : Goto(w, q) => SameLost(w) /\ SameSpot(w) /\ SameLeft(w)
           /\ \A q, r : Returns(w, q, r) => SameLost(w) /\ SameSpot(w) /\ SameLeft(w)
  BY GotoIs, ReturnsIs DEF SameLost, SameSpot, SameLeft

\* Where entering the run leads.
LEMMA EnterHolds ==
    ASSUME RowsInv, NEW w \in Worker, Enter(w)
    PROVE  /\ SameLost(w)
           /\ \/ worker'[w].pc \in {"release", "step"} /\ UNCHANGED asked
              \/ /\ worker'[w].pc = "cancel" /\ UNCHANGED asked
                 /\ worker'[w].todo = {n \in Node : Waiting(n)}
              \/ /\ worker'[w].pc = "end" /\ UNCHANGED asked
                 /\ ParkedAt = {} /\ worker'[w].res = ThenOnly("refused")
              \/ \E i \in ParkedAt :
                     /\ worker'[w].pc = "withdraw" /\ worker'[w].i = i
                     /\ worker'[w].a = node[Order[i]].latest /\ worker'[w].res = ThenOnly("refused")
                     /\ asked' = asked \cup {<<Order[i], node[Order[i]].latest>>}
<1> DEFINE Goal == /\ SameLost(w)
                   /\ \/ worker'[w].pc \in {"release", "step"} /\ UNCHANGED asked
                      \/ /\ worker'[w].pc = "cancel" /\ UNCHANGED asked
                         /\ worker'[w].todo = {n \in Node : Waiting(n)}
                      \/ /\ worker'[w].pc = "end" /\ UNCHANGED asked
                         /\ ParkedAt = {} /\ worker'[w].res = ThenOnly("refused")
                      \/ \E i \in ParkedAt :
                             /\ worker'[w].pc = "withdraw" /\ worker'[w].i = i
                             /\ worker'[w].a = node[Order[i]].latest /\ worker'[w].res = ThenOnly("refused")
                             /\ asked' = asked \cup {<<Order[i], node[Order[i]].latest>>}
<1>0. worker[w] \in Local /\ worker \in [Worker -> Local]
  BY DEF RowsInv, Shape
<1>1. CASE UNCHANGED asked /\ (Goto(w, "release") \/ Goto(w, "step"))
  BY <1>1, GotoIs DEF SameLost
<1>2. CASE UNCHANGED asked /\ worker' = [worker EXCEPT ![w] = [@ EXCEPT !.pc = "cancel", !.todo = {n \in Node : Waiting(n)}]]
  BY <1>0, <1>2 DEF Local, SameLost
<1>3. CASE /\ UNCHANGED asked /\ ParkedAt = {}
           /\ worker' = [worker EXCEPT ![w] = [@ EXCEPT !.pc = "end", !.res = ThenOnly("refused")]]
  BY <1>0, <1>3 DEF Local, SameLost
<1>4. ASSUME NEW i \in ParkedAt, NEW a, a = node[Order[i]].latest, asked' = asked \cup {<<Order[i], a>>},
             worker' = [worker EXCEPT ![w] = [@ EXCEPT !.pc = "withdraw", !.i = i, !.a = a,
                                                       !.res = ThenOnly("refused")]]
      PROVE  Goal
  <2>1. /\ worker'[w].pc = "withdraw" /\ worker'[w].i = i /\ worker'[w].a = a
        /\ worker'[w].res = ThenOnly("refused") /\ SameLost(w)
    BY <1>0, <1>4 DEF Local, SameLost
  <2> QED BY <1>4, <2>1
<1> QED BY <1>1, <1>2, <1>3, <1>4 DEF Enter

\* Where a step of the cancellation walk leads.
LEMMA CancelHolds ==
    ASSUME RowsInv, NEW w \in Worker, CancelNode(w)
    PROVE  /\ SameLost(w)
           /\ \/ worker'[w].pc = "release" /\ UNCHANGED asked
              \/ /\ worker'[w].pc = "end" /\ UNCHANGED asked /\ worker'[w].res = ThenOnly("cancelled")
                 /\ worker[w].todo = {} /\ ~worker[w].pending
              \/ /\ SameLeft(w)
                 /\ \E i \in DOMAIN Order :
                        /\ Order[i] \in worker[w].todo
                        /\ worker'[w].i = i /\ worker'[w].a = node[Order[i]].latest
                        /\ worker'[w].pc = IF <<Order[i], node[Order[i]].latest>> \in asked THEN "late" ELSE "ask"
                        /\ asked' = asked \cup {<<Order[i], node[Order[i]].latest>>}
<1> DEFINE Goal == /\ SameLost(w)
                   /\ \/ worker'[w].pc = "release" /\ UNCHANGED asked
                      \/ /\ worker'[w].pc = "end" /\ UNCHANGED asked /\ worker'[w].res = ThenOnly("cancelled")
                         /\ worker[w].todo = {} /\ ~worker[w].pending
                      \/ /\ SameLeft(w)
                         /\ \E i \in DOMAIN Order :
                                /\ Order[i] \in worker[w].todo
                                /\ worker'[w].i = i /\ worker'[w].a = node[Order[i]].latest
                                /\ worker'[w].pc = IF <<Order[i], node[Order[i]].latest>> \in asked THEN "late" ELSE "ask"
                                /\ asked' = asked \cup {<<Order[i], node[Order[i]].latest>>}
<1>0. worker[w] \in Local /\ worker \in [Worker -> Local]
  BY DEF RowsInv, Shape
<1>1. CASE UNCHANGED asked /\ worker' = [worker EXCEPT ![w].pc = "release"]
  BY <1>0, <1>1 DEF Local, SameLost
<1>2. CASE /\ UNCHANGED asked /\ worker[w].todo = {} /\ ~worker[w].pending
           /\ worker' = [worker EXCEPT ![w] = [@ EXCEPT !.pc = "end", !.res = ThenOnly("cancelled")]]
  BY <1>0, <1>2 DEF Local, SameLost
<1>3. ASSUME NEW i \in DOMAIN Order, Order[i] \in worker[w].todo, NEW a, a = node[Order[i]].latest, NEW q,
             q = IF <<Order[i], a>> \in asked THEN "late" ELSE "ask", asked' = asked \cup {<<Order[i], a>>},
             worker' = [worker EXCEPT ![w] = [@ EXCEPT !.pc = q, !.i = i, !.a = a]]
      PROVE  Goal
  <2>1. worker'[w].pc = q /\ worker'[w].i = i /\ worker'[w].a = a /\ SameLost(w) /\ SameLeft(w)
    BY <1>0, <1>3 DEF Local, SameLost, SameLeft
  <2> QED BY <1>3, <2>1
<1> QED BY <1>1, <1>2, <1>3 DEF CancelNode

\* Where a result that came too late leads.
LEMMA LateHolds ==
    ASSUME RowsInv, NEW w \in Worker, LateResult(w)
    PROVE  /\ SameLost(w) /\ SameSpot(w)
           /\ \/ worker'[w].pc = "settle" /\ worker'[w].res.then = "cancel" /\ SameLeft(w)
              \/ /\ worker'[w].pc = "cancel" /\ worker'[w].pending
                 /\ worker'[w].todo = worker[w].todo \ {Cursor(w)}
<1>0. worker[w] \in Local /\ worker \in [Worker -> Local]
  BY DEF RowsInv, Shape
<1>1. CASE worker' = [worker EXCEPT ![w] = [@ EXCEPT !.pc = "settle",
                         !.res = [status |-> "cancelled", port |-> "", then |-> "cancel"]]]
  BY <1>0, <1>1 DEF Local, SameLost, SameSpot, SameLeft
<1>2. CASE worker' = [worker EXCEPT ![w] = [@ EXCEPT !.pc = "cancel", !.pending = TRUE,
                         !.todo = worker[w].todo \ {Cursor(w)}]]
  BY <1>0, <1>2 DEF Local, SameLost, SameSpot
<1> QED BY <1>1, <1>2 DEF LateResult

\* Where the settling of an attempt leads.
LEMMA WriteHolds ==
    ASSUME RowsInv, NEW w \in Worker, SettleWrite(w)
    PROVE  /\ SameLost(w) /\ SameSpot(w) /\ worker'[w].pending = worker[w].pending
           /\ worker'[w].res = worker[w].res
           /\ \/ worker'[w].pc = "release"
              \/ worker'[w].pc = "edges" /\ worker'[w].out = Outgoing(Cursor(w))
              \/ /\ worker'[w].pc = "cancel" /\ worker[w].res.then = "cancel"
                 /\ worker'[w].todo = worker[w].todo \ {Cursor(w)}
              \/ worker'[w].pc = "end" /\ worker[w].res.then \notin {"retry", "edges", "cancel"}
<1>0. worker[w] \in Local /\ worker \in [Worker -> Local]
  BY DEF RowsInv, Shape
<1>1. CASE worker' = [worker EXCEPT ![w].pc = "release"]
  BY <1>0, <1>1 DEF Local, SameLost, SameSpot
<1>2. CASE worker' = [worker EXCEPT ![w] = [@ EXCEPT !.pc = "edges", !.out = Outgoing(Cursor(w))]]
  BY <1>0, <1>2 DEF Local, SameLost, SameSpot
<1>3. CASE /\ worker[w].res.then = "cancel"
           /\ worker' = [worker EXCEPT ![w] = [@ EXCEPT !.pc = "cancel", !.todo = worker[w].todo \ {Cursor(w)}]]
  BY <1>0, <1>3 DEF Local, SameLost, SameSpot
<1>4. CASE worker[w].res.then \notin {"retry", "edges", "cancel"} /\ worker' = [worker EXCEPT ![w].pc = "end"]
  BY <1>0, <1>4 DEF Local, SameLost, SameSpot
<1> QED BY <1>1, <1>2, <1>3, <1>4 DEF SettleWrite

\* Where the settling of an edge leads.
LEMMA EdgeHolds ==
    ASSUME RowsInv, NEW w \in Worker, SettleEdge(w)
    PROVE  /\ SameLost(w)
           /\ \/ worker'[w].pc = "step"
              \/ \E e \in worker[w].out : edge[e] # "none" /\ worker'[w].pc = "catch"
              \/ \E e \in worker[w].out :
                     /\ edge[e] = "none" /\ worker'[w].pc = "edges"
                     /\ worker'[w].out = worker[w].out \ {e}
                     /\ edge' = [edge EXCEPT ![e] = Transfer(e, worker[w].res)]
<1> DEFINE Goal == /\ SameLost(w)
                   /\ \/ worker'[w].pc = "step"
                      \/ \E e \in worker[w].out : edge[e] # "none" /\ worker'[w].pc = "catch"
                      \/ \E e \in worker[w].out :
                             /\ edge[e] = "none" /\ worker'[w].pc = "edges"
                             /\ worker'[w].out = worker[w].out \ {e}
                             /\ edge' = [edge EXCEPT ![e] = Transfer(e, worker[w].res)]
<1>0. worker[w] \in Local /\ worker \in [Worker -> Local] /\ worker[w].pc = "edges"
  BY DEF RowsInv, Shape, SettleEdge, At
<1>1. CASE worker' = NextNode(w)
  <2>1. worker'[w].pc = "step" /\ SameLost(w)
    BY <1>0, <1>1 DEF NextNode, Local, SameLost
  <2> QED BY <2>1
<1>2. ASSUME NEW e \in worker[w].out, edge[e] # "none", Goto(w, "catch") PROVE Goal
  BY <1>2, GotoIs DEF SameLost
<1>3. ASSUME NEW e \in worker[w].out, edge[e] = "none", edge' = [edge EXCEPT ![e] = Transfer(e, worker[w].res)],
             worker' = [worker EXCEPT ![w].out = worker[w].out \ {e}]
      PROVE  Goal
  <2>1. worker'[w].out = worker[w].out \ {e} /\ worker'[w].pc = "edges" /\ SameLost(w)
    BY <1>0, <1>3 DEF Local, SameLost
  <2> QED BY <1>3, <2>1
<1> QED BY <1>1, <1>2, <1>3 DEF SettleEdge, Throw

\* Where input that does not validate leads.
LEMMA InvalidHolds ==
    ASSUME RowsInv, NEW w \in Worker, InvalidInput(w)
    PROVE  SameLost(w) /\ SameSpot(w) /\ worker'[w].res = Invalid
<1>0. worker[w] \in Local /\ worker \in [Worker -> Local]
  BY DEF RowsInv, Shape
<1>1. worker' = [worker EXCEPT ![w] = [@ EXCEPT !.pc = "settle", !.res = Invalid]]
  BY DEF InvalidInput
<1> QED BY <1>0, <1>1 DEF Local, SameLost, SameSpot

\* The steps that make no call that may be lost.
LEMMA OtherHolds ==
    ASSUME RowsInv, NEW w \in Worker, StartAttempt(w) \/ Step(w) \/ Skip(w) \/ Catch(w)
    PROVE  SameLost(w)
<1>0. worker[w] \in Local /\ worker \in [Worker -> Local]
  BY DEF RowsInv, Shape
<1>1. CASE StartAttempt(w)
  <2>1. CASE worker' = [worker EXCEPT ![w] = [@ EXCEPT !.pc = "run", !.res = StatusOnly("running")]]
    BY <1>0, <2>1 DEF Local, SameLost
  <2> QED BY <1>1, <2>1, GotoHolds DEF StartAttempt, Throw
<1>2. CASE Step(w)
  <2>1. ASSUME NEW q, worker' = [worker EXCEPT ![w].pc = q] PROVE SameLost(w)
    BY <1>0, <2>1 DEF Local, SameLost
  <2>2. ASSUME NEW a, worker' = [worker EXCEPT ![w] = [@ EXCEPT !.pc = "start", !.a = a]] PROVE SameLost(w)
    BY <1>0, <2>2 DEF Local, SameLost
  <2>3. ASSUME NEW a, NEW r, worker' = [worker EXCEPT ![w] = [@ EXCEPT !.pc = "run", !.a = a, !.res = r]] PROVE SameLost(w)
    BY <1>0, <2>3 DEF Local, SameLost
  <2>4. CASE worker' = NextNode(w)
    BY <1>0, <2>4 DEF NextNode, Local, SameLost
  <2>5. \/ \E q : worker' = [worker EXCEPT ![w].pc = q]
        \/ \E a : worker' = [worker EXCEPT ![w] = [@ EXCEPT !.pc = "start", !.a = a]]
        \/ \E a, r : worker' = [worker EXCEPT ![w] = [@ EXCEPT !.pc = "run", !.a = a, !.res = r]]
        \/ worker' = NextNode(w)
    BY <1>2 DEF Step
  <2> QED BY <2>1, <2>2, <2>3, <2>4, <2>5
<1>3. CASE Skip(w)
  <2>1. ASSUME NEW x, NEW r, worker' = [worker EXCEPT ![w] = [@ EXCEPT !.pc = "edges", !.out = x, !.res = r]]
        PROVE  SameLost(w)
    BY <1>0, <2>1 DEF Local, SameLost
  <2> QED BY <1>3, <2>1 DEF Skip
<1>4. CASE Catch(w)
  <2>1. CASE worker' = [worker EXCEPT ![w] = [@ EXCEPT !.pc = "refuse", !.res = ThenOnly("refused")]]
    BY <1>0, <2>1 DEF Local, SameLost
  <2>2. CASE worker' = [worker EXCEPT ![w].pc = "release"]
    BY <1>0, <2>2 DEF Local, SameLost
  <2> QED BY <1>4, <2>1, <2>2 DEF Catch
<1> QED BY <1>1, <1>2, <1>3, <1>4

\* Only the renewal loses a lease.
LEMMA LostStays ==
    ASSUME RowsInv, NEW w \in Worker, Execute(w), ~Release(w) PROVE SameLost(w)
<1>1. CASE \/ End(w) \/ Withdraw(w) \/ RunLocal(w) \/ StartChild(w) \/ MarkChildWaiting(w) \/ Confirm(w)
           \/ ObserveChild(w) \/ Suspend(w) \/ SettleRead(w) \/ AskChild(w)
  <2>1. (\E q : Goto(w, q)) \/ (\E q, r : Returns(w, q, r))
    <3>1. CASE End(w) \/ Withdraw(w) \/ SettleRead(w) \/ AskChild(w)
      BY <3>1, Zenon DEF End, Withdraw, SettleRead, AskChild, Throw
    <3>2. CASE RunLocal(w) \/ StartChild(w) \/ ObserveChild(w)
      BY <3>2, Zenon DEF RunLocal, StartChild, ObserveChild, Throw
    <3>3. CASE MarkChildWaiting(w) \/ Confirm(w) \/ Suspend(w)
      BY <3>3, Zenon DEF MarkChildWaiting, Confirm, Suspend, Throw
    <3> QED BY <1>1, <3>1, <3>2, <3>3
  <2> QED BY <2>1, GotoHolds
<1> QED BY <1>1, EnterHolds, CancelHolds, LateHolds, WriteHolds, EdgeHolds, InvalidHolds, OtherHolds DEF Execute, Advance

\* A worker that has its lease, and met no error, throws nothing.
LEMMA NothingThrown ==
    ASSUME RowsInv, NEW w \in Worker, Smooth(worker[w]), Execute(w), ~Release(w)
    PROVE  worker'[w].pc \notin {"catch", "refuse"}
<1>0. /\ worker[w] \in Local /\ worker \in [Worker -> Local]
      /\ ~worker[w].lost /\ Inside(w) /\ worker[w].pc # "catch"
  BY NotReleasing DEF RowsInv, Shape, Smooth
<1>1. \A q, r : Returns(w, q, r) => worker'[w].pc = q
  BY <1>0, ReturnsIs
<1>2. CASE RunLocal(w) \/ StartChild(w) \/ Confirm(w) \/ ObserveChild(w)
  BY <1>1, <1>2 DEF RunLocal, StartChild, Confirm, ObserveChild
<1>3. CASE Withdraw(w)
  BY <1>1, <1>3, GotoIs DEF Withdraw
<1>4. CASE Step(w)
  <2>1. worker'[w].pc # "catch"
    BY <1>0, <1>4 DEF Step, NextNode, Local
  <2> QED BY <1>4, <2>1, Goes
<1>5. CASE StartAttempt(w)
  <2>1. attempt[Cursor(w)][worker[w].a] = "none"
    <3>1. Starts(worker[w]) /\ Cursor(w) = Spot(worker[w]) /\ Cursor(w) \in Node
      <4>1. worker[w].pc = "start" /\ worker[w].pc \in AtNode
        BY <1>5 DEF StartAttempt, At, AtNode
      <4> QED BY <1>0, <4>1, MovesTo, AtPosition DEF Placed
    <3>2. Matches(node[Cursor(w)], attempt[Cursor(w)]) /\ node[Cursor(w)].latest \in Nat
      BY <3>1 DEF RowsInv, RowsMatch, Shape, NodeRow
    <3>3. node[Cursor(w)].latest + 1 \in Number
      <4>1. CASE node[Cursor(w)].status = "pending"
        BY <3>2, <4>1, WorkflowAssumption DEF Matches, Number
      <4>2. CASE node[Cursor(w)].status = "waiting-retry"
        <5>1. node[Cursor(w)].latest \in Number
          BY <3>2, <4>2, WorkflowAssumption DEF Matches, Number
        <5>2. node[Cursor(w)].latest < MaxAttempts
          BY <3>2, <4>2, <5>1 DEF Matches
        <5> QED BY <3>2, <5>2, WorkflowAssumption DEF Number
      <4> QED BY <3>1, <4>1, <4>2 DEF Starts
    <3> QED BY <3>1, <3>2, <3>3 DEF Starts, Matches
  <2>2. CASE worker' = [worker EXCEPT ![w] = [@ EXCEPT !.pc = "run", !.res = StatusOnly("running")]]
    BY <1>0, <2>2 DEF Local
  <2> QED BY <1>5, <2>1, <2>2, GotoIs DEF StartAttempt
<1>6. CASE MarkChildWaiting(w)
  <2>1. attempt[Cursor(w)][worker[w].a] = "running"
    BY <1>6, InHand DEF MarkChildWaiting, At, Attending, Attends
  <2> QED BY <1>6, <2>1, GotoIs DEF MarkChildWaiting
<1>7. CASE SettleRead(w)
  <2>1. attempt[Cursor(w)][worker[w].a] \in Open
    BY <1>7, InHand DEF SettleRead, At, Attending
  <2> QED BY <1>7, <2>1, GotoIs DEF SettleRead, Open
<1>8. CASE SettleEdge(w)
  <2>1. worker[w].pc = "edges"
    BY <1>8 DEF SettleEdge, At
  <2>2. \A e \in worker[w].out : edge[e] = "none"
    BY <2>1 DEF Smooth
  <2> QED BY <1>8, <2>2, EdgeHolds
<1>9. ~Catch(w)
  BY <1>0 DEF Catch, At
<1>10. CASE \/ Enter(w) \/ End(w) \/ InvalidInput(w) \/ Suspend(w) \/ SettleWrite(w) \/ Skip(w) \/ CancelNode(w)
            \/ AskChild(w) \/ LateResult(w)
  BY <1>10, Goes
<1> QED BY <1>2, <1>3, <1>4, <1>5, <1>6, <1>7, <1>8, <1>9, <1>10 DEF Execute, Advance

\* The edges a worker has left to settle have no transfer.
LEMMA OutIsFresh ==
    ASSUME RowsInv, FlowInv, NEW w \in Worker, Smooth(worker[w]), SettleWrite(w) \/ Skip(w) \/ SettleEdge(w),
           worker'[w].pc = "edges"
    PROVE  \A e \in worker'[w].out : edge'[e] = "none"
<1>0. worker[w] \in Local /\ worker \in [Worker -> Local] /\ Inside(w)
  BY DEF RowsInv, Shape, SettleWrite, Skip, SettleEdge, At, Inside
<1>1. ASSUME worker'[w].out = Outgoing(Cursor(w)), UNCHANGED edge, Cursor(w) \in Node,
             node[Cursor(w)].status \notin NodeSettled
      PROVE  \A e \in worker'[w].out : edge'[e] = "none"
  BY <1>1 DEF Outgoing, FlowInv, Faithful
<1>2. CASE SettleWrite(w)
  <2>1. Cursor(w) \in Node /\ node[Cursor(w)].status \notin NodeSettled
    BY <1>2, WriteWrites DEF Written, Open, NodeSettled, Terminal
  <2>2. worker'[w].out = Outgoing(Cursor(w))
    BY <1>2, WriteHolds
  <2> QED BY <1>1, <1>2, <2>1, <2>2 DEF SettleWrite
<1>3. CASE Skip(w)
  <2>1. Cursor(w) \in Node /\ worker[w].pc = "skip"
    BY <1>3, AtPosition DEF Skip, At, AtNode
  <2>2. node[Cursor(w)].status = "pending"
    BY <1>0, <2>1 DEF FlowInv, Carries, Cursor, Spot
  <2>3. worker'[w].out = Outgoing(Cursor(w))
    BY <1>0, <1>3 DEF Skip, Local
  <2> QED BY <1>1, <1>3, <2>1, <2>2, <2>3 DEF Skip, NodeSettled, Terminal
<1>4. CASE SettleEdge(w)
  <2>1. PICK e \in worker[w].out :
            /\ edge[e] = "none" /\ worker'[w].out = worker[w].out \ {e}
            /\ edge' = [edge EXCEPT ![e] = Transfer(e, worker[w].res)]
    BY <1>4, EdgeHolds
  <2>2. \A f \in worker[w].out : edge[f] = "none" /\ f \in Edge
    BY <1>0, <1>4 DEF Smooth, SettleEdge, At, Local
  <2> QED BY <2>1, <2>2 DEF FlowInv
<1> QED BY <1>2, <1>3, <1>4

\* Only an approval is withdrawn.
LEMMA WithdrawsApproval ==
    ASSUME RowsInv, NEW w \in Worker, Enter(w) \/ ObserveChild(w), worker'[w].pc = "withdraw"
    PROVE  Kind[Spot(worker'[w])] = "approval"
<1>1. CASE Enter(w)
  BY <1>1, EnterHolds DEF ParkedAt, Spot
<1>2. CASE ObserveChild(w)
  <2>1. \E q, r : Returns(w, q, r) /\ (q = "withdraw" => Kind[Cursor(w)] = "approval") /\ q # "catch"
    BY <1>2 DEF ObserveChild
  <2>2. Kind[Cursor(w)] = "approval" /\ worker'[w].i = worker[w].i
    BY <2>1, ReturnsIs
  <2> QED BY <2>2 DEF Cursor, Spot
<1> QED BY <1>1, <1>2

\* A worker goes on as it should.
LEMMA SmoothNext ==
    ASSUME RowsInv, Alive, FlowInv, SmoothInv, [Next]_vars, NoFault', NEW w \in Worker, Inside(w)'
    PROVE  Smooth(worker[w])'
<1>0. worker[w] \in Local /\ worker \in [Worker -> Local] /\ NoFault /\ (Inside(w) => Smooth(worker[w]))
  BY NoFaultYet DEF RowsInv, Shape, SmoothInv
<1>1. CASE Outer /\ worker'[w] = worker[w]
  BY <1>0, <1>1 DEF Outer, Inside, Smooth, Spot
<1>2. CASE Claim(w)
  <2>1. worker'[w] = [IdleWorker EXCEPT !.pc = "enter"]
    BY <1>0, <1>2 DEF Claim
  <2>2. [IdleWorker EXCEPT !.pc = "enter"].pc = "enter" /\ ~[IdleWorker EXCEPT !.pc = "enter"].lost
    BY DEF IdleWorker
  <2> QED BY <2>1, <2>2 DEF Smooth
<1>3. CASE Renew(w)
  <2>1. UNCHANGED edge /\ Inside(w)
    BY <1>3 DEF Renew, rows
  <2>2. CASE UNCHANGED worker
    BY <1>0, <2>1, <2>2 DEF Smooth, Spot
  <2>3. CASE worker' = [worker EXCEPT ![w].lost = TRUE] /\ ~(owner = w /\ status \notin Terminal)
    <3>1. status \in Terminal
      BY <2>1, <2>3 DEF RowsInv, LeaseInv, LeaseHeld
    <3>2. worker'[w].pc = "release"
      BY <1>0, <2>1, <2>3, <3>1 DEF Alive, Local
    <3> QED BY <3>2 DEF Smooth
  <2> QED BY <1>3, <2>2, <2>3 DEF Renew
<1>4. CASE Execute(w) /\ ~Release(w)
  <2>1. Inside(w) /\ ~worker'[w].lost /\ Smooth(worker[w])
    BY <1>0, <1>4, NotReleasing, LostStays DEF Smooth, SameLost
  <2>2. worker'[w].pc \notin {"catch", "refuse"}
    BY <1>4, <2>1, NothingThrown
  <2>3. worker'[w].pc = "edges" => \A e \in worker'[w].out : edge'[e] = "none"
    BY <1>4, <2>1, OutIsFresh, Goes DEF Execute, Advance
  <2>4. worker'[w].pc = "withdraw" => Kind[Spot(worker'[w])] = "approval"
    BY <1>4, WithdrawsApproval, Goes DEF Execute, Advance
  <2> QED BY <2>1, <2>2, <2>3, <2>4 DEF Smooth, Spot
<1>5. ~CallFails(w)
  BY NoFaultYet DEF RowsInv
<1> QED BY <1>1, <1>2, <1>3, <1>4, <1>5, WhoMoves

-----------------------------------------------------------------------------
(***************************************************************************)
(* What becomes of the children of such a run.  A child at work is the     *)
(* child its node waits for, or was started just now and its wait is about *)
(* to be recorded, or the worker may leave it behind (Excused): it is past *)
(* its deadline or was asked to stop.  A worker settles an attempt only if *)
(* its child may be left behind (Heeds).                                   *)
(***************************************************************************)
Excused(n, a) == Kind[n] # "approval" /\ (overdue[n][a] \/ <<n, a>> \in told)
AtChild(w, n, a) == Cursor(w) = n /\ worker[w].a = a
Kept(n, a) ==
    child[n][a] = "live" =>
        \/ Waiting(n) /\ a = node[n].latest
        \/ Excused(n, a)
        \/ \E w \in Worker : worker[w].pc = "mark" /\ AtChild(w, n, a)
Asked(n, a) ==
    <<n, a>> \in asked /\ child[n][a] = "live" =>
        \/ Excused(n, a)
        \/ \E w \in Worker : worker[w].pc \in {"ask", "withdraw"} /\ AtChild(w, n, a)
NoApprovalLives == \A n \in Node, a \in Number : Kind[n] = "approval" => child[n][a] # "live"
Decides(p) == p.pc \in {"withdraw", "settle", "write"} => p.res.then # "cancelled"
LeavesBehind(p) ==
    p.pc \in {"settle", "write", "late"} /\ child[Spot(p)][p.a] = "live" => Excused(Spot(p), p.a)
HasLeft(p) == Cancelling(p) => \A n \in Node : Waiting(n) => n \in p.todo \/ p.pending
Concludes(p) ==
    p.pc = "end" => IF p.res.then = "cancelled" THEN \A n \in Node : ~Waiting(n) ELSE NoApprovalLives
Heeds(p) == Decides(p) /\ LeavesBehind(p) /\ HasLeft(p) /\ Concludes(p)
Ending ==
    /\ status = "cancelled" => \A n \in Node, a \in Number : child[n][a] = "live" => Excused(n, a)
    /\ status \in Terminal => NoApprovalLives
Care ==
    /\ \A n \in Node, a \in Number : Kept(n, a) /\ Asked(n, a)
    /\ \A w \in Worker : Inside(w) => Heeds(worker[w])
    /\ Ending
CareInv == NoFault => Care

\* An attempt whose child is to be cancelled was recorded as waiting for it.
Recorded(n, a) == attempt[n][a] \notin {"none", "running"}
AskedInv ==
    /\ overdue \in [Node -> [Number -> BOOLEAN]]
    /\ \A n \in Node, a \in Number : <<n, a>> \in asked => Recorded(n, a)

\* A deadline that passed stays past, and a child that was asked stays asked.
LEMMA DeadlinesStay ==
    ASSUME AskedInv, [Next]_vars
    PROVE  /\ overdue' \in [Node -> [Number -> BOOLEAN]]
           /\ \A n \in Node, a \in Number : overdue[n][a] => overdue'[n][a]
<1> DEFINE Goal == /\ overdue' \in [Node -> [Number -> BOOLEAN]]
                   /\ \A n \in Node, a \in Number : overdue[n][a] => overdue'[n][a]
<1>1. ASSUME NEW n \in Node, NEW a \in Number, DeadlinePasses(n, a) PROVE Goal
  BY <1>1 DEF DeadlinePasses, AskedInv
<1>2. CASE UNCHANGED overdue
  BY <1>2 DEF AskedInv
<1>3. ASSUME NEW w \in Worker, Execute(w) PROVE UNCHANGED overdue
  BY <1>3 DEF Execute, Enter, Withdraw, Catch, Release, End, Advance, Step, StartAttempt, InvalidInput,
     RunLocal, StartChild, MarkChildWaiting, Confirm, ObserveChild, Suspend, SettleRead, SettleWrite, Skip,
     SettleEdge, CancelNode, AskChild, LateResult, rows
<1>4. ASSUME NEW w \in Worker, Claim(w) \/ Renew(w) \/ Crash(w) \/ CallFails(w) PROVE UNCHANGED overdue
  BY <1>4 DEF Claim, Renew, Crash, CallFails, rows
<1> QED BY <1>1, <1>2, <1>3, <1>4 DEF Next, Done, RequestCancellation, WindowCloses, LeaseExpires, WakeApproval,
     RecheckComesDue, ChildEnds, vars, rows

\* A child that has been told stays told.
LEMMA ToldStays ==
    ASSUME [Next]_vars PROVE told \subseteq told'
<1>1. ASSUME NEW w \in Worker, AskChild(w) PROVE told \subseteq told'
  BY <1>1 DEF AskChild
<1>2. ASSUME NEW w \in Worker, Execute(w), ~AskChild(w) PROVE UNCHANGED told
  BY <1>2 DEF Execute, Enter, Withdraw, Catch, Release, End, Advance, Step, StartAttempt, InvalidInput,
     RunLocal, StartChild, MarkChildWaiting, Confirm, ObserveChild, Suspend, SettleRead, SettleWrite, Skip,
     SettleEdge, CancelNode, LateResult, others
<1>3. ASSUME NEW w \in Worker, Claim(w) \/ Renew(w) \/ Crash(w) \/ CallFails(w) PROVE UNCHANGED told
  BY <1>3 DEF Claim, Renew, Crash, CallFails, others
<1> QED BY <1>1, <1>2, <1>3 DEF Next, Done, RequestCancellation, WindowCloses, LeaseExpires, WakeApproval,
     RecheckComesDue, ChildEnds, DeadlinePasses, vars, others

\* What excuses a child from being asked stays.
LEMMA ExcusedStays ==
    ASSUME AskedInv, [Next]_vars PROVE \A n \in Node, a \in Number : Excused(n, a) => Excused(n, a)'
  BY DeadlinesStay, ToldStays DEF Excused

\* A node waits for its child if its row says so.
LEMMA WaitingIs ==
    /\ RowsMatch => \A n \in Node : Waiting(n) <=> node[n].status = "waiting-child"
    /\ RowsMatch' => \A n \in Node : Waiting(n)' <=> node'[n].status = "waiting-child"
<1>1. ASSUME NEW r, NEW at, Matches(r, at)
      PROVE  r.latest > 0 /\ at[r.latest] = "waiting-child" <=> r.status = "waiting-child"
  <2>1. CASE r.latest > 0
    <3>1. r.latest \in Number
      BY <1>1, <2>1, WorkflowAssumption DEF Matches, Number
    <3> QED BY <1>1, <2>1, <3>1 DEF Matches
  <2>2. CASE ~(r.latest > 0)
    <3>1. r.latest = 0
      BY <1>1, <2>2, WorkflowAssumption DEF Matches
    <3>2. r.status \in {"pending", "skipped"}
      BY <1>1, <3>1 DEF Matches
    <3> QED BY <2>2, <3>2
  <2> QED BY <2>1, <2>2
<1>2. RowsMatch => \A n \in Node : Waiting(n) <=> node[n].status = "waiting-child"
  BY <1>1 DEF RowsMatch, Waiting
<1>3. RowsMatch' => \A n \in Node : Waiting(n)' <=> node'[n].status = "waiting-child"
  BY <1>1 DEF RowsMatch, Waiting
<1> QED BY <1>2, <1>3

\* An attempt that was recorded as waiting does not run again.
LEMMA RecordedStays ==
    ASSUME RowsInv, [Next]_vars, NEW n \in Node, NEW a \in Number, Recorded(n, a) PROVE Recorded(n, a)'
<1>0. attempt \in [Node -> [Number -> AttemptStatus]]
  BY DEF RowsInv, RowsMatch
<1>1. CASE OnlyDue
  BY <1>1 DEF OnlyDue, Recorded
<1>2. ASSUME NEW w \in Worker, Cursor(w) \in Node, StartAttempt(w) PROVE Recorded(n, a)'
  <2>1. attempt' = attempt \/ (attempt[Cursor(w)][worker[w].a] = "none"
                               /\ attempt' = [attempt EXCEPT ![Cursor(w)][worker[w].a] = "running"])
    BY <1>2 DEF StartAttempt
  <2> QED BY <1>0, <2>1 DEF Recorded
<1>3. ASSUME NEW w \in Worker, Cursor(w) \in Node, MarkChildWaiting(w) PROVE Recorded(n, a)'
  <2>1. attempt' = attempt \/ attempt' = [attempt EXCEPT ![Cursor(w)][worker[w].a] = "waiting-child"]
    BY <1>3 DEF MarkChildWaiting
  <2> QED BY <1>0, <2>1 DEF Recorded
<1>4. ASSUME NEW w \in Worker, Cursor(w) \in Node, SettleWrite(w) PROVE Recorded(n, a)'
  <2>1. attempt' = [attempt EXCEPT ![Cursor(w)][worker[w].a] = worker[w].res.status]
    BY <1>4 DEF SettleWrite
  <2>2. worker[w].res.status \in Terminal
    BY <1>4, WriteWrites DEF Written
  <2> QED BY <1>0, <2>1, <2>2 DEF Recorded, Terminal
<1>5. ASSUME NEW w \in Worker, Skip(w) PROVE Recorded(n, a)'
  BY <1>5 DEF Skip, Recorded
<1> QED BY <1>1, <1>2, <1>3, <1>4, <1>5, NodeMoves

-----------------------------------------------------------------------------
(***************************************************************************)
(* The cancellations that were recorded, and the children at work.         *)
(***************************************************************************)
\* Who records that a child is to be cancelled.
LEMMA WhoAsks ==
    ASSUME RowsInv, [Next]_vars, NEW n \in Node, NEW a \in Number, <<n, a>> \in asked', <<n, a>> \notin asked
    PROVE  /\ attempt[n][a] = "waiting-child"
           /\ \E w \in Worker :
                  /\ Inside(w) /\ worker[w].pc # "release"
                  /\ ~worker[w].lost => /\ worker'[w].pc \in {"ask", "withdraw"}
                                        /\ Order[worker'[w].i] = n /\ worker'[w].a = a
<1> DEFINE Goal == /\ attempt[n][a] = "waiting-child"
                   /\ \E w \in Worker :
                          /\ Inside(w) /\ worker[w].pc # "release"
                          /\ ~worker[w].lost => /\ worker'[w].pc \in {"ask", "withdraw"}
                                                /\ Order[worker'[w].i] = n /\ worker'[w].a = a
<1>1. ASSUME NEW w \in Worker, Enter(w) PROVE Goal
  <2>1. PICK i \in ParkedAt :
            /\ worker'[w].pc = "withdraw" /\ worker'[w].i = i /\ worker'[w].a = node[Order[i]].latest
            /\ asked' = asked \cup {<<Order[i], node[Order[i]].latest>>}
    BY <1>1, EnterHolds
  <2>2. n = Order[i] /\ a = node[Order[i]].latest
    BY <2>1
  <2>3. Inside(w) /\ worker[w].pc # "release"
    BY <1>1 DEF Enter, At, Inside
  <2> QED BY <2>1, <2>2, <2>3 DEF ParkedAt, Waiting
<1>2. ASSUME NEW w \in Worker, ObserveChild(w) PROVE Goal
  <2>1. /\ Returns(w, "withdraw", Fails(Cursor(w), "refused"))
        /\ asked' = asked \cup {<<Cursor(w), worker[w].a>>}
    BY <1>2 DEF ObserveChild
  <2>2. n = Cursor(w) /\ a = worker[w].a
    BY <2>1
  <2>3. worker[w].pc = "run" /\ worker[w].res.status = "waiting-child"
    BY <1>2 DEF ObserveChild, At
  <2>4. attempt[n][a] = "waiting-child"
    BY <2>2, <2>3, InHand DEF Attending, Attends
  <2>5. Inside(w) /\ worker'[w].i = worker[w].i /\ worker'[w].a = worker[w].a
        /\ (~worker[w].lost => worker'[w].pc = "withdraw")
    BY <2>1, <2>3, ReturnsIs DEF Inside
  <2> QED BY <2>2, <2>3, <2>4, <2>5 DEF Cursor
<1>3. ASSUME NEW w \in Worker, CancelNode(w) PROVE Goal
  <2>1. PICK i \in DOMAIN Order :
            /\ Order[i] \in worker[w].todo
            /\ worker'[w].i = i /\ worker'[w].a = node[Order[i]].latest
            /\ worker'[w].pc = IF <<Order[i], node[Order[i]].latest>> \in asked THEN "late" ELSE "ask"
            /\ asked' = asked \cup {<<Order[i], node[Order[i]].latest>>}
    BY <1>3, CancelHolds
  <2>2. n = Order[i] /\ a = node[Order[i]].latest
    BY <2>1
  <2>3. Inside(w) /\ Cancelling(worker[w]) /\ worker[w].pc # "release"
    BY <1>3 DEF CancelNode, At, Inside, Cancelling
  <2>4. Waiting(n)
    BY <2>1, <2>2, <2>3, MovesTo DEF Placed
  <2> QED BY <2>1, <2>2, <2>3, <2>4 DEF Waiting
<1>4. ASSUME NEW w \in Worker, Execute(w), ~Enter(w), ~ObserveChild(w), ~CancelNode(w) PROVE UNCHANGED asked
  BY <1>4 DEF Execute, Withdraw, Catch, Release, End, Advance, Step, StartAttempt, InvalidInput,
     RunLocal, StartChild, MarkChildWaiting, Confirm, Suspend, SettleRead, SettleWrite, Skip,
     SettleEdge, AskChild, LateResult, rows
<1>5. ASSUME NEW w \in Worker, Claim(w) \/ Renew(w) \/ Crash(w) \/ CallFails(w) PROVE UNCHANGED asked
  BY <1>5 DEF Claim, Renew, Crash, CallFails, rows
<1>6. CASE UNCHANGED asked
  BY <1>6
<1> QED BY <1>1, <1>2, <1>3, <1>4, <1>5, <1>6 DEF Next, Done, RequestCancellation, WindowCloses, LeaseExpires,
     WakeApproval, RecheckComesDue, ChildEnds, DeadlinePasses, vars, rows

\* No cancellation is recorded when a run is queued.
LEMMA AskedInit == Init => AskedInv
<1> SUFFICES ASSUME Init PROVE AskedInv
  OBVIOUS
<1>1. asked = {} /\ overdue = [n \in Node |-> [a \in Number |-> FALSE]]
  BY Zenon DEF Init
<1> QED BY <1>1 DEF AskedInv

\* Only the cancellation of a child its node waits for is recorded.
LEMMA AskedNext == RowsInv /\ AskedInv /\ [Next]_vars => AskedInv'
<1> SUFFICES ASSUME RowsInv, AskedInv, [Next]_vars PROVE AskedInv'
  OBVIOUS
<1>1. ASSUME NEW n \in Node, NEW a \in Number, <<n, a>> \in asked' PROVE Recorded(n, a)'
  <2>1. Recorded(n, a)
    BY <1>1, WhoAsks DEF AskedInv, Recorded
  <2> QED BY <2>1, RecordedStays
<1> QED BY <1>1, DeadlinesStay DEF AskedInv

\* A step in which nothing has failed so far.
Going ==
    /\ RowsInv /\ KidsInv /\ Alive /\ FlowInv /\ TurnInv /\ SmoothInv /\ AskedInv /\ Care
    /\ [Next]_vars
    /\ NoFault' /\ RowsInv'

\* A run that goes on smoothly has met no fault yet.
LEMMA GoingSmoothly ==
    ASSUME Going
    PROVE  /\ NoFault /\ \A w \in Worker : ~Crash(w) /\ ~CallFails(w)
           /\ \A w \in Worker : Inside(w) => Smooth(worker[w]) /\ Heeds(worker[w])
  BY NoFaultYet DEF Going, RowsInv, SmoothInv, Care

\* A worker leaves the run by the release of its lease only.
LEMMA StaysInside ==
    ASSUME Going, NEW w \in Worker, Inside(w), worker[w].pc # "release" PROVE Inside(w)'
<1>0. /\ RowsInv /\ Shape /\ [Next]_vars /\ worker \in [Worker -> Local]
      /\ \A v \in Worker : ~Crash(v) /\ ~CallFails(v)
  BY GoingSmoothly DEF Going, RowsInv, Shape
<1>1. ASSUME NEW v \in Worker, Claim(v) PROVE Inside(w)'
  BY <1>0, <1>1 DEF Claim, At, Inside
<1>2. ASSUME NEW v \in Worker, Renew(v) PROVE Inside(w)'
  <2>1. worker'[w].pc = worker[w].pc
    BY <1>0, <1>2 DEF Renew, Local
  <2> QED BY <2>1 DEF Inside
<1>3. ASSUME NEW v \in Worker, Execute(v) PROVE Inside(w)'
  <2>1. CASE Release(v)
    BY <1>0, <2>1 DEF Release, At, Inside
  <2>2. CASE End(v)
    <3>1. worker'[v].pc = "release"
      BY <1>0, <2>2, Goes
    <3>2. v = w \/ worker'[w] = worker[w]
      BY <1>0, <2>2 DEF End, Goto
    <3> QED BY <3>1, <3>2 DEF Inside
  <2>3. CASE ~Release(v) /\ ~End(v)
    BY <1>0, <1>3, <2>3, ExecuteRuns, RunningKeeps DEF LeaseKept
  <2> QED BY <2>1, <2>2, <2>3
<1>4. CASE UNCHANGED worker
  BY <1>4 DEF Inside
<1> QED BY <1>0, <1>1, <1>2, <1>3, <1>4 DEF Next, Done, RequestCancellation, WindowCloses, LeaseExpires,
     WakeApproval, RecheckComesDue, ChildEnds, DeadlinePasses, vars

\* A worker about to record a wait, or to cancel a child, does so next.
LEMMA NextOfWorker ==
    ASSUME Going, NEW w \in Worker, worker[w].pc \in {"mark", "ask", "withdraw"}
    PROVE  \/ worker'[w].pc = worker[w].pc /\ SameSpot(w)
           \/ worker[w].pc = "mark" /\ MarkChildWaiting(w)
           \/ worker[w].pc = "ask" /\ AskChild(w)
           \/ worker[w].pc = "withdraw" /\ Withdraw(w)
<1>0. /\ RowsInv /\ Shape /\ [Next]_vars /\ worker \in [Worker -> Local] /\ worker[w] \in Local
      /\ ~Crash(w) /\ ~CallFails(w) /\ Inside(w)'
  BY GoingSmoothly, StaysInside DEF Going, RowsInv, Shape, Inside
<1>1. CASE worker'[w] = worker[w]
  BY <1>1 DEF SameSpot
<1>2. ~Claim(w)
  BY DEF Claim, At
<1>3. CASE Renew(w)
  <2>1. worker' = worker \/ worker' = [worker EXCEPT ![w].lost = TRUE]
    BY <1>3 DEF Renew
  <2>2. CASE worker' = [worker EXCEPT ![w].lost = TRUE]
    <3>1. worker'[w] = [worker[w] EXCEPT !.lost = TRUE]
      BY <1>0, <2>2
    <3> QED BY <1>0, <3>1 DEF Local, SameSpot
  <2> QED BY <1>1, <2>1, <2>2
<1>4. CASE Execute(w)
  <2>1. ~(Enter(w) \/ Catch(w) \/ Release(w) \/ End(w) \/ CancelNode(w) \/ LateResult(w))
    BY DEF Enter, Catch, Release, End, CancelNode, LateResult, At
  <2>2. ~(Step(w) \/ StartAttempt(w) \/ InvalidInput(w) \/ RunLocal(w) \/ StartChild(w) \/ ObserveChild(w))
    BY DEF Step, StartAttempt, InvalidInput, RunLocal, StartChild, ObserveChild, At
  <2>3. ~(Confirm(w) \/ Suspend(w) \/ SettleRead(w) \/ SettleWrite(w) \/ Skip(w) \/ SettleEdge(w))
    BY DEF Confirm, Suspend, SettleRead, SettleWrite, Skip, SettleEdge, At
  <2>4. MarkChildWaiting(w) \/ AskChild(w) \/ Withdraw(w)
    BY <1>4, <2>1, <2>2, <2>3 DEF Execute, Advance
  <2> QED BY <2>4 DEF MarkChildWaiting, AskChild, Withdraw, At
<1> QED BY <1>0, <1>1, <1>2, <1>3, <1>4, WhoMoves

-----------------------------------------------------------------------------
\* A child at work stays accounted for.
LEMMA KeptNext ==
    ASSUME Going, NEW n \in Node, NEW a \in Number PROVE Kept(n, a)'
<1>0. /\ RowsInv /\ KidsInv /\ AskedInv /\ [Next]_vars /\ RowsMatch /\ RowsMatch' /\ Kept(n, a)
      /\ worker \in [Worker -> Local]
  BY DEF Going, RowsInv, Care, Shape
<1> SUFFICES ASSUME child'[n][a] = "live"
             PROVE  \/ Waiting(n)' /\ a = node'[n].latest
                    \/ Excused(n, a)'
                    \/ \E w \in Worker : worker'[w].pc = "mark" /\ AtChild(w, n, a)'
  BY DEF Kept
<1> DEFINE Goal == \/ Waiting(n)' /\ a = node'[n].latest
                   \/ Excused(n, a)'
                   \/ \E w \in Worker : worker'[w].pc = "mark" /\ AtChild(w, n, a)'
<1>1. CASE Excused(n, a)
  BY <1>0, <1>1, ExcusedStays
<1>2. CASE child[n][a] = "live" /\ Waiting(n) /\ a = node[n].latest
  <2>1. node[n].status = "waiting-child"
    BY <1>0, <1>2, WaitingIs
  <2>2. ASSUME node'[n].status = node[n].status, node'[n].latest = node[n].latest PROVE Goal
    <3>1. Waiting(n)'
      BY <1>0, <2>1, <2>2, WaitingIs
    <3> QED BY <1>2, <2>2, <3>1
  <2>3. ASSUME NEW w \in Worker, SettleWrite(w), Cursor(w) = n PROVE Excused(n, a)
    <3>1. worker[w].pc = "write" /\ Inside(w) /\ worker[w].pc \in Attending
      BY <2>3 DEF SettleWrite, At, Inside, Attending
    <3>2. Spot(worker[w]) = n /\ worker[w].a = a
      BY <1>0, <1>2, <2>3, <3>1, InHand
    <3>3. LeavesBehind(worker[w])
      BY <3>1, GoingSmoothly DEF Heeds
    <3> QED BY <1>2, <3>1, <3>2, <3>3 DEF LeavesBehind
  <2>4. ASSUME NEW w \in Worker, Cursor(w) \in Node, Cursor(w) # n \/ node[Cursor(w)].status # "waiting-child",
               Alone(Cursor(w))
        PROVE  Goal
    BY <2>1, <2>2, <2>4 DEF Alone
  <2>5. CASE OnlyDue
    BY <2>2, <2>5 DEF OnlyDue
  <2>6. ASSUME NEW w \in Worker, Cursor(w) \in Node, Begun(Cursor(w)) \/ Marked(Cursor(w)) \/ Skipped(Cursor(w))
        PROVE  Goal
    BY <2>4, <2>6 DEF Begun, Marked, Skipped
  <2>7. ASSUME NEW w \in Worker, Cursor(w) \in Node, SettleWrite(w), Written(Cursor(w), worker[w].res) PROVE Goal
    BY <1>0, <2>3, <2>4, <2>7, ExcusedStays DEF Written
  <2> QED BY <1>0, <2>5, <2>6, <2>7, NodeMoves
<1>3. ASSUME child[n][a] = "live", NEW w \in Worker, worker[w].pc = "mark", AtChild(w, n, a) PROVE Goal
  <2>1. CASE worker'[w].pc = worker[w].pc /\ SameSpot(w)
    BY <1>3, <2>1 DEF AtChild, SameSpot, Cursor
  <2>2. CASE MarkChildWaiting(w)
    <3>1. Cursor(w) = n /\ worker[w].a = a /\ node[n].latest = a
      BY <1>0, <1>3, InHand DEF AtChild, Attending
    <3>2. node'[n].status = "waiting-child" /\ node'[n].latest = a
      BY <1>0, <2>2, <3>1, MarkWrites DEF Marked
    <3> QED BY <1>0, <3>2, WaitingIs
  <2> QED BY <1>3, <2>1, <2>2, NextOfWorker
<1>4. CASE child[n][a] # "live"
  <2>1. PICK w \in Worker : StartsChild(w) /\ (StartChild(w) \/ CallFails(w))
    BY <1>0, <1>4, WhoStarts DEF NoChildStarts
  <2>2. StartChild(w) /\ Inside(w) /\ ~worker[w].lost
    BY <2>1, GoingSmoothly DEF StartsChild, Inside, Smooth
  <2>3. n = Cursor(w) /\ a = worker[w].a
    BY <1>0, <1>4, <2>1, StartedIsLast DEF StartsChild, KidsInv
  <2>4. Returns(w, "mark", NoResult)
    BY <1>4, <2>2 DEF StartChild
  <2>5. worker'[w].pc = "mark" /\ worker'[w].i = worker[w].i /\ worker'[w].a = worker[w].a
    BY <1>0, <2>2, <2>4, ReturnsIs
  <2> QED BY <2>3, <2>5 DEF AtChild, Cursor
<1> QED BY <1>0, <1>1, <1>2, <1>3, <1>4 DEF Kept

\* A child whose cancellation was recorded is asked next, or withdrawn.
LEMMA AskedIsTold ==
    ASSUME Going, NEW n \in Node, NEW a \in Number PROVE Asked(n, a)'
<1>0. /\ RowsInv /\ KidsInv /\ AskedInv /\ [Next]_vars /\ Asked(n, a)
      /\ child \in [Node -> [Number -> ChildStatus]]
  BY DEF Going, Care, KidsInv
<1> SUFFICES ASSUME <<n, a>> \in asked', child'[n][a] = "live"
             PROVE  \/ Excused(n, a)'
                    \/ \E w \in Worker : worker'[w].pc \in {"ask", "withdraw"} /\ AtChild(w, n, a)'
  BY DEF Asked
<1> DEFINE Goal == \/ Excused(n, a)'
                   \/ \E w \in Worker : worker'[w].pc \in {"ask", "withdraw"} /\ AtChild(w, n, a)'
<1>1. CASE <<n, a>> \notin asked
  <2>1. PICK w \in Worker :
            /\ Inside(w) /\ worker[w].pc # "release"
            /\ ~worker[w].lost => /\ worker'[w].pc \in {"ask", "withdraw"}
                                  /\ Order[worker'[w].i] = n /\ worker'[w].a = a
    BY <1>0, <1>1, WhoAsks
  <2>2. ~worker[w].lost
    BY <2>1, GoingSmoothly DEF Smooth
  <2> QED BY <2>1, <2>2 DEF AtChild, Cursor
<1>2. CASE child[n][a] # "live" /\ <<n, a>> \in asked
  <2>1. PICK w \in Worker : StartsChild(w)
    BY <1>0, <1>2, WhoStarts DEF NoChildStarts
  <2>2. n = Cursor(w) /\ a = worker[w].a
    BY <1>0, <1>2, <2>1, StartedIsLast DEF StartsChild
  <2>3. attempt[n][a] = "running"
    BY <1>0, <2>1, <2>2, InHand DEF StartsChild, Attending, Attends
  <2> QED BY <1>0, <1>2, <2>3 DEF AskedInv, Recorded
<1>3. CASE Excused(n, a)
  BY <1>0, <1>3, ExcusedStays
<1>4. ASSUME child[n][a] = "live", NEW w \in Worker, worker[w].pc \in {"ask", "withdraw"}, AtChild(w, n, a)
      PROVE  Goal
  <2>1. CASE worker'[w].pc = worker[w].pc /\ SameSpot(w)
    BY <1>4, <2>1 DEF AtChild, SameSpot, Cursor
  <2>2. ASSUME child' = Cancelled(n, a), Kind[n] = "approval" PROVE FALSE
    BY <1>0, <1>4, <2>2 DEF Cancelled
  <2>3. CASE AskChild(w)
    <3>1. child' = Cancelled(n, a) /\ <<n, a>> \in told'
      BY <1>4, <2>3 DEF AskChild, AtChild
    <3> QED BY <2>2, <3>1 DEF Excused
  <2>4. CASE worker[w].pc = "withdraw" /\ Withdraw(w)
    <3>1. child' = Cancelled(n, a) /\ Spot(worker[w]) = n
      BY <1>4, <2>4 DEF Withdraw, AtChild, Cursor, Spot
    <3>2. Kind[n] = "approval"
      BY <2>4, <3>1, GoingSmoothly DEF Inside, Smooth
    <3> QED BY <2>2, <3>1, <3>2
  <2> QED BY <1>4, <2>1, <2>3, <2>4, NextOfWorker
<1> QED BY <1>0, <1>1, <1>2, <1>3, <1>4 DEF Asked

-----------------------------------------------------------------------------
(***************************************************************************)
(* The steps of a worker that heeds the children at work.                  *)
(***************************************************************************)
\* A worker that is not at a node, does not cancel and does not settle the run.
LEMMA FreeHeeds ==
    ASSUME NEW w \in Worker,
           worker'[w].pc \notin {"withdraw", "settle", "write", "late", "end", "cancel", "ask"}
    PROVE  Heeds(worker[w])'
  BY DEF Heeds, Decides, LeavesBehind, HasLeft, Cancelling, Concludes

\* The child of the attempt in hand stays excused, and starts at work no more.
LEMMA BehindStays ==
    ASSUME Going, NoChildStarts, NEW w \in Worker, worker[w].pc \in {"settle", "write", "late"},
           worker'[w].pc \in {"settle", "write", "late"}, SameSpot(w)
    PROVE  LeavesBehind(worker[w])'
<1>1. worker[w].pc \in Attending /\ Inside(w) /\ RowsInv /\ AskedInv /\ [Next]_vars
  BY DEF Attending, Inside, Going
<1>2. Spot(worker[w]) \in Node /\ worker[w].a \in Number
  BY <1>1, InHand
<1>3. LeavesBehind(worker[w])
  BY <1>1, GoingSmoothly DEF Heeds
<1>4. Spot(worker[w])' = Spot(worker[w]) /\ worker'[w].a = worker[w].a
  BY DEF SameSpot, Spot
<1>5. ASSUME child'[Spot(worker[w])][worker[w].a] = "live"
      PROVE  Excused(Spot(worker[w]), worker[w].a)
  BY <1>2, <1>3, <1>5 DEF NoChildStarts, LeavesBehind
<1>6. ASSUME NEW n \in Node, NEW a \in Number, Excused(n, a) PROVE Excused(n, a)'
  BY <1>1, <1>6, ExcusedStays
<1> HIDE DEF Spot
<1> DEFINE n == Spot(worker[w])
           a == worker[w].a
<1>7. ASSUME NEW m \in Node, NEW b \in Number, m = n, b = a, child'[m][b] = "live" PROVE Excused(m, b)'
  BY <1>5, <1>6, <1>7
<1>8. \A m \in Node, b \in Number : m = n' /\ b = a' /\ child'[m][b] = "live" => Excused(m, b)'
  BY <1>4, <1>7
<1>9. n' \in Node /\ a' \in Number
  BY <1>2, <1>4
<1>10. child'[n'][a'] = "live" => Excused(n, a)'
  BY <1>8, <1>9 DEF Excused
<1> QED BY <1>10 DEF LeavesBehind

\* A node that waits, while only rechecks move, waited before.
LEMMA WaitedBefore ==
    ASSUME Going, OnlyDue, NEW n \in Node, Waiting(n)' PROVE Waiting(n)
  BY WaitingIs DEF Going, RowsInv, OnlyDue

\* A worker to which nothing happens, or a renewal.
LEMMA StillHeeds ==
    ASSUME Going, OnlyDue, NoChildStarts, NEW w \in Worker, Inside(w),
           worker'[w].pc = worker[w].pc, SameSpot(w), SameLeft(w), worker'[w].res = worker[w].res
    PROVE  Heeds(worker[w])'
<1>1. Heeds(worker[w])
  BY GoingSmoothly
<1>2. Decides(worker[w])'
  BY <1>1 DEF Heeds, Decides
<1>3. LeavesBehind(worker[w])'
  <2>1. CASE worker[w].pc \in {"settle", "write", "late"}
    BY <2>1, BehindStays
  <2>2. CASE worker[w].pc \notin {"settle", "write", "late"}
    BY <2>2 DEF LeavesBehind
  <2> QED BY <2>1, <2>2
<1>4. HasLeft(worker[w])'
  <2>1. Cancelling(worker[w])' => Cancelling(worker[w])
    BY DEF Cancelling
  <2>2. ASSUME Cancelling(worker[w]), NEW n \in Node, Waiting(n)' PROVE n \in worker'[w].todo \/ worker'[w].pending
    BY <1>1, <2>2, WaitedBefore DEF Heeds, HasLeft, SameLeft
  <2> QED BY <2>1, <2>2 DEF HasLeft
<1>5. Concludes(worker[w])'
  <2>1. NoApprovalLives => NoApprovalLives'
    BY DEF NoApprovalLives, NoChildStarts
  <2>2. \A n \in Node : Waiting(n)' => Waiting(n)
    BY WaitedBefore
  <2> QED BY <1>1, <2>1, <2>2 DEF Heeds, Concludes
<1> QED BY <1>2, <1>3, <1>4, <1>5 DEF Heeds

\* The results of an attempt are not those of a cancellation: neither is a
\* cancelled attempt left with them, nor the run.
LEMMA ResultHeeds ==
    ASSUME Going, NEW w \in Worker, UNCHANGED child, worker[w].pc = "run", NEW r, Ended(r, worker[w].a),
           worker'[w].pc \in {"settle", "withdraw", "catch"}, worker'[w].res = r, SameSpot(w),
           worker'[w].pc = "settle" =>
               (child[Cursor(w)][worker[w].a] = "live" => Excused(Cursor(w), worker[w].a))
    PROVE  Heeds(worker[w])'
<1>1. Decides(worker[w])' /\ ~Cancelling(worker[w])' /\ Concludes(worker[w])'
  BY DEF Decides, Cancelling, Concludes, Ended
<1>2. LeavesBehind(worker[w])'
  <2>1. worker[w].pc \in Attending /\ RowsInv /\ AskedInv /\ [Next]_vars
    BY DEF Attending, Going
  <2>2. Cursor(w) \in Node /\ worker[w].a \in Number
    BY <2>1, InHand
  <2>3. Spot(worker[w])' = Cursor(w) /\ worker'[w].a = worker[w].a
    BY DEF SameSpot, Spot, Cursor
  <2>4. ASSUME NEW m \in Node, NEW b \in Number, m = Cursor(w), b = worker[w].a,
               worker'[w].pc = "settle", child'[m][b] = "live"
        PROVE  Excused(m, b)'
    <3>1. Excused(m, b)
      BY <2>4
    <3> QED BY <2>1, <3>1, ExcusedStays
  <2>5. ASSUME worker'[w].pc = "settle", NEW m \in Node, NEW b \in Number, m = Cursor(w), b = worker[w].a
        PROVE  LeavesBehind(worker[w])'
    <3>1. child'[m][b] = "live" => Excused(m, b)'
      BY <2>4, <2>5
    <3>2. Spot(worker[w])' = m /\ worker'[w].a = b
      BY <2>3, <2>5
    <3> QED BY <3>1, <3>2 DEF LeavesBehind, Excused
  <2>6. CASE worker'[w].pc # "settle"
    BY <2>6 DEF LeavesBehind
  <2> QED BY <2>2, <2>5, <2>6
<1> QED BY <1>1, <1>2 DEF Heeds, HasLeft

\* A node runs: its input is refused, it ends at once, or its child is started
\* or looked at.
LEMMA RunHeeds ==
    ASSUME Going, NEW w \in Worker, InvalidInput(w) \/ RunLocal(w) \/ StartChild(w) \/ ObserveChild(w)
    PROVE  Heeds(worker[w])'
<1> DEFINE n == Cursor(w)
           a == worker[w].a
<1>0. RowsInv /\ KidsInv /\ worker[w].pc = "run" /\ worker[w].pc \in Attending /\ ~worker[w].lost
  BY GoingSmoothly DEF Going, InvalidInput, RunLocal, StartChild, ObserveChild, At, Attending, Inside, Smooth
<1>1. n \in Node /\ a \in Number
  BY <1>0, InHand
<1>2. ASSUME NEW q \in {"settle", "withdraw"}, NEW r, Ended(r, a), Returns(w, q, r), UNCHANGED child,
             q = "settle" => (child[n][a] = "live" => Excused(n, a))
      PROVE  Heeds(worker[w])'
  <2>1. worker'[w].pc = q /\ worker'[w].res = r /\ SameSpot(w)
    BY <1>0, <1>2, ReturnsIs DEF SameSpot
  <2> QED BY <1>0, <1>2, <2>1, ResultHeeds
<1>3. CASE InvalidInput(w)
  <2>1. worker'[w].pc = "settle" /\ worker'[w].res = Invalid /\ SameSpot(w) /\ UNCHANGED child
    BY <1>0, <1>3, InvalidHolds, Goes DEF InvalidInput, others
  <2>2. child[n][a] # "live"
    BY <1>1, <1>3 DEF InvalidInput
  <2> QED BY <1>0, <2>1, <2>2, ResultsEnd, ResultHeeds
<1>4. CASE RunLocal(w)
  <2>1. PICK r \in LocalResult(n, a) : Returns(w, "settle", r)
    BY <1>4 DEF RunLocal
  <2>2. child[n][a] # "live" /\ UNCHANGED child
    BY <1>0, <1>1, <1>4 DEF RunLocal, KidsInv, LastOnly, others
  <2> QED BY <1>2, <2>1, <2>2, LocalResultsEnd
<1>5. CASE StartChild(w)
  <2>1. CASE Returns(w, "mark", NoResult)
    <3>1. worker'[w].pc = "mark"
      BY <1>0, <2>1, ReturnsIs
    <3> QED BY <3>1, FreeHeeds
  <2>2. CASE child[n][a] = "none" /\ Returns(w, "settle", Fails(n, "refused")) /\ UNCHANGED child
    BY <1>2, <2>2, ResultsEnd
  <2> QED BY <1>5, <2>1, <2>2 DEF StartChild
<1>6. CASE ObserveChild(w)
  <2>0. UNCHANGED child
    BY <1>6 DEF ObserveChild, others
  <2>1. CASE Returns(w, "withdraw", Fails(n, "refused"))
    BY <1>2, <2>0, <2>1, ResultsEnd
  <2>2. CASE overdue[n][a] /\ Kind[n] # "approval" /\ Returns(w, "settle", Fails(n, "refused"))
    BY <1>2, <2>0, <2>2, ResultsEnd DEF Excused
  <2>3. CASE child[n][a] # "live" /\ \E r \in ChildResult(n, a) : Returns(w, "settle", r)
    BY <1>2, <2>0, <2>3, ChildResultsEnd
  <2>4. CASE Returns(w, "suspend", NoResult) \/ Returns(w, "release", NoResult)
    <3>1. worker'[w].pc \in {"suspend", "release"}
      BY <1>0, <2>4, ReturnsIs
    <3> QED BY <3>1, FreeHeeds
  <2> QED BY <1>6, <2>1, <2>2, <2>3, <2>4 DEF ObserveChild
<1> QED BY <1>3, <1>4, <1>5, <1>6

\* An approval that is still pending is waited for by its node, unless the worker
\* inside is about to record that.
LEMMA PendingIsWaited ==
    ASSUME Going, NEW w \in Worker, Inside(w), worker[w].pc # "mark",
           NEW n \in Node, NEW a \in Number, Kind[n] = "approval", child[n][a] = "live"
    PROVE  Waiting(n) /\ a = node[n].latest /\ node[n].status = "waiting-child"
<1>1. Kept(n, a) /\ ~Excused(n, a)
  BY DEF Going, Care, Excused
<1>2. ASSUME NEW v \in Worker, worker[v].pc = "mark" PROVE FALSE
  BY <1>2 DEF Going, RowsInv, LeaseInv, OneInside, Inside
<1>3. Waiting(n) /\ a = node[n].latest
  BY <1>1, <1>2 DEF Kept
<1> QED BY <1>3, WaitingIs DEF Going, RowsInv

\* A worker whose node waits, or runs, waits for no other.
LEMMA PendingIsHere ==
    ASSUME Going, NEW w \in Worker, worker[w].pc \in Attending, worker[w].pc # "mark",
           NEW n \in Node, NEW a \in Number, Kind[n] = "approval", child[n][a] = "live"
    PROVE  n = Cursor(w) /\ a = worker[w].a
<1>1. Inside(w) /\ RowsInv /\ TurnInv
  BY DEF Inside, Attending, Going
<1>2. node[n].status = "waiting-child" /\ a = node[n].latest
  BY <1>1, PendingIsWaited
<1>3. Cursor(w) \in Node /\ worker[w].a = node[Cursor(w)].latest /\ node[Cursor(w)].status \in Open
  BY <1>1, InHand
<1>4. n = Cursor(w)
  BY <1>1, <1>2, <1>3, OneNodeOpen DEF Open, NodeSettled, Terminal
<1> QED BY <1>2, <1>3, <1>4

\* The first read of the claimed run.
LEMMA EnterHeeds ==
    ASSUME Going, NEW w \in Worker, Enter(w) PROVE Heeds(worker[w])'
<1>0. RowsInv /\ Inside(w) /\ worker[w].pc = "enter" /\ UNCHANGED <<node, attempt, child>>
  BY DEF Going, Enter, At, Inside, others
<1>1. CASE worker'[w].pc \in {"release", "step"}
  BY <1>1, FreeHeeds
<1>2. CASE worker'[w].pc = "cancel" /\ worker'[w].todo = {n \in Node : Waiting(n)}
  <2>1. \A n \in Node : Waiting(n)' => Waiting(n)
    BY <1>0 DEF Waiting
  <2> QED BY <1>2, <2>1 DEF Heeds, Decides, LeavesBehind, HasLeft, Concludes
<1>3. CASE worker'[w].pc = "end" /\ ParkedAt = {} /\ worker'[w].res = ThenOnly("refused")
  <2>1. ASSUME NEW n \in Node, NEW a \in Number, Kind[n] = "approval", child'[n][a] = "live" PROVE FALSE
    <3>1. Waiting(n)
      BY <1>0, <2>1, PendingIsWaited
    <3>2. PICK i \in DOMAIN Order : Order[i] = n
      BY DEF Node
    <3> QED BY <1>3, <2>1, <3>1, <3>2 DEF ParkedAt
  <2>2. worker'[w].res.then # "cancelled"
    BY <1>3, Results DEF Terminal
  <2> QED BY <1>3, <2>1, <2>2 DEF Heeds, Decides, LeavesBehind, HasLeft, Cancelling, Concludes, NoApprovalLives
<1>4. CASE worker'[w].pc = "withdraw" /\ worker'[w].res = ThenOnly("refused")
  <2>1. worker'[w].res.then = "refused"
    BY <1>4, Results DEF Terminal
  <2> QED BY <1>4, <2>1 DEF Heeds, Decides, LeavesBehind, HasLeft, Cancelling, Concludes
<1> QED BY <1>0, <1>1, <1>2, <1>3, <1>4, EnterHolds

\* #withdrawApproval: nobody is left asked.
LEMMA WithdrawHeeds ==
    ASSUME Going, NEW w \in Worker, Withdraw(w) PROVE Heeds(worker[w])'
<1> DEFINE n == Cursor(w)
           a == worker[w].a
<1>0. /\ RowsInv /\ KidsInv /\ worker[w].pc = "withdraw" /\ worker[w].pc \in Attending
      /\ Inside(w) /\ child' = Cancelled(n, a)
  BY DEF Going, Withdraw, At, Attending, Inside
<1>1. n \in Node /\ a \in Number /\ n = Spot(worker[w]) /\ Placed(worker[w])
  BY <1>0, InHand, MovesTo
<1>2. ~worker[w].lost /\ Kind[n] = "approval" /\ worker[w].res.then # "cancelled"
  BY <1>0, <1>1, GoingSmoothly DEF Smooth, Heeds, Decides
<1>3. worker[w].res.then # "cancel"
  BY <1>0, <1>1 DEF Placed, Settles
<1>4. child'[n][a] # "live" /\ \A m \in Node, b \in Number : child'[m][b] = "live" => child[m][b] = "live"
  BY <1>0, <1>1, <1>2 DEF Cancelled, KidsInv
<1>5. NoApprovalLives'
  BY <1>0, <1>1, <1>4, PendingIsHere DEF NoApprovalLives
<1>6. SameSpot(w) /\ worker'[w].res = worker[w].res /\ worker'[w].pc \in {"end", "settle"}
  BY <1>0, <1>2, GotoIs, ReturnsIs DEF Withdraw, SameSpot
<1>7. LeavesBehind(worker[w])'
  <2>1. Spot(worker[w])' = n /\ worker'[w].a = a
    BY <1>6 DEF SameSpot, Spot, Cursor
  <2>2. \A m \in Node, b \in Number : m = n' /\ b = a' => child'[m][b] # "live"
    BY <1>4, <1>6 DEF SameSpot, Cursor
  <2>3. n' = n /\ a' = a /\ Spot(worker[w])' = n'
    BY <1>6 DEF SameSpot, Cursor, Spot
  <2> QED BY <1>1, <2>2, <2>3 DEF LeavesBehind
<1> QED BY <1>2, <1>3, <1>5, <1>6, <1>7 DEF Heeds, Decides, HasLeft, Cancelling, Concludes

\* settleAttempt, its read.
LEMMA SettleReadHeeds ==
    ASSUME Going, NEW w \in Worker, SettleRead(w) PROVE Heeds(worker[w])'
<1>0. /\ RowsInv /\ KidsInv /\ worker[w].pc = "settle" /\ Inside(w)
      /\ UNCHANGED <<node, attempt, child>>
  BY DEF Going, SettleRead, At, Inside, rows, others
<1>1. \/ worker'[w].pc = "catch"
      \/ /\ worker'[w].pc = "write" /\ worker'[w].res = worker[w].res /\ SameSpot(w) /\ SameLeft(w)
  BY <1>0, GotoIs DEF SettleRead, SameSpot, SameLeft
<1>2. CASE worker'[w].pc = "catch"
  BY <1>2, FreeHeeds
<1>3. CASE worker'[w].pc = "write" /\ worker'[w].res = worker[w].res /\ SameSpot(w) /\ SameLeft(w)
  <2>1. LeavesBehind(worker[w])'
    BY <1>0, <1>3, NoChildMoves, BehindStays
  <2>2. Heeds(worker[w])
    BY <1>0, GoingSmoothly
  <2>3. \A n \in Node : Waiting(n)' => Waiting(n)
    BY <1>0 DEF Waiting
  <2>4. HasLeft(worker[w])'
    BY <1>0, <1>3, <2>2, <2>3 DEF Heeds, HasLeft, Cancelling, SameLeft
  <2>5. Decides(worker[w])' /\ Concludes(worker[w])'
    BY <1>0, <1>3, <2>2 DEF Heeds, Decides, Concludes
  <2> QED BY <2>1, <2>4, <2>5 DEF Heeds
<1> QED BY <1>1, <1>2, <1>3

\* settleAttempt, its update.
LEMMA SettleWriteHeeds ==
    ASSUME Going, NEW w \in Worker, SettleWrite(w) PROVE Heeds(worker[w])'
<1> DEFINE n == Cursor(w)
           a == worker[w].a
<1>0. /\ RowsInv /\ KidsInv /\ worker[w].pc = "write" /\ Inside(w) /\ worker[w].pc \in Attending
      /\ UNCHANGED child /\ RowsMatch /\ RowsMatch'
  BY DEF Going, SettleWrite, At, Inside, Attending, others, RowsInv
<1>1. Heeds(worker[w])
  BY <1>0, GoingSmoothly
<1>2. CASE worker'[w].pc \in {"release", "edges"}
  BY <1>2, FreeHeeds
<1>3. CASE /\ worker'[w].pc = "cancel" /\ worker[w].res.then = "cancel"
           /\ worker'[w].todo = worker[w].todo \ {n} /\ worker'[w].pending = worker[w].pending
  <2>1. Cancelling(worker[w])
    BY <1>0, <1>3 DEF Cancelling
  <2>2. n \in Node /\ node'[n].status # "waiting-child" /\ Alone(n)
    BY <1>0, WriteWrites DEF Written, Terminal
  <2>3. ASSUME NEW m \in Node, Waiting(m)' PROVE m \in worker[w].todo \ {n} \/ worker[w].pending
    <3>1. m # n
      BY <1>0, <2>2, <2>3, WaitingIs
    <3>2. node'[m] = node[m]
      BY <2>2, <3>1 DEF Alone
    <3>3. Waiting(m)
      BY <1>0, <2>3, <3>2, WaitingIs
    <3> QED BY <1>1, <2>1, <3>1, <3>3 DEF Heeds, HasLeft
  <2> QED BY <1>3, <2>3 DEF Heeds, Decides, LeavesBehind, HasLeft, Concludes
<1>4. CASE worker'[w].pc = "end" /\ worker'[w].res = worker[w].res
  <2>1. worker[w].res.then # "cancelled"
    BY <1>0, <1>1 DEF Heeds, Decides
  <2>2. ASSUME NEW m \in Node, NEW b \in Number, Kind[m] = "approval", child'[m][b] = "live" PROVE FALSE
    <3>1. m = n /\ b = a /\ n = Spot(worker[w])
      BY <1>0, <2>2, PendingIsHere, InHand
    <3>2. Excused(n, a)
      BY <1>0, <1>1, <2>2, <3>1 DEF Heeds, LeavesBehind
    <3> QED BY <2>2, <3>1, <3>2 DEF Excused
  <2> QED BY <1>4, <2>1, <2>2 DEF Heeds, Decides, LeavesBehind, HasLeft, Cancelling, Concludes, NoApprovalLives
<1> QED BY <1>0, <1>2, <1>3, <1>4, WriteHolds

\* #cancel picks the next waiting child, or has none left.
LEMMA CancelHeeds ==
    ASSUME Going, NEW w \in Worker, CancelNode(w) PROVE Heeds(worker[w])'
<1>0. /\ RowsInv /\ AskedInv /\ [Next]_vars /\ worker[w].pc = "cancel" /\ Inside(w)
      /\ UNCHANGED <<node, attempt, child>>
  BY DEF Going, CancelNode, At, Inside, others
<1>1. HasLeft(worker[w]) /\ Cancelling(worker[w])
  BY <1>0, GoingSmoothly DEF Heeds, Cancelling
<1>2. \A n \in Node : Waiting(n)' => Waiting(n)
  BY <1>0 DEF Waiting
<1>3. CASE worker'[w].pc = "release"
  BY <1>3, FreeHeeds
<1>4. CASE /\ worker'[w].pc = "end" /\ worker'[w].res = ThenOnly("cancelled")
           /\ worker[w].todo = {} /\ ~worker[w].pending
  <2>1. worker'[w].res.then = "cancelled"
    BY <1>4, Results DEF Terminal
  <2>2. \A n \in Node : ~Waiting(n)'
    BY <1>1, <1>2, <1>4 DEF HasLeft
  <2> QED BY <1>4, <2>1, <2>2 DEF Heeds, Decides, LeavesBehind, HasLeft, Cancelling, Concludes
<1>5. ASSUME SameLeft(w), NEW i \in DOMAIN Order, NEW a, a = node[Order[i]].latest,
             Order[i] \in worker[w].todo, worker'[w].i = i, worker'[w].a = a,
             worker'[w].pc = IF <<Order[i], a>> \in asked THEN "late" ELSE "ask"
      PROVE  Heeds(worker[w])'
  <2>1. HasLeft(worker[w])'
    BY <1>1, <1>2, <1>5 DEF HasLeft, SameLeft
  <2>2. LeavesBehind(worker[w])'
    <3>1. CASE <<Order[i], a>> \in asked
      <4>1. Order[i] \in Node /\ a \in Number
        <5>1. Waiting(Order[i]) /\ Order[i] \in Node
          BY <1>0, <1>1, <1>5, MovesTo, SpotIsNode DEF Placed
        <5>2. Matches(node[Order[i]], attempt[Order[i]])
          BY <1>0, <5>1 DEF RowsInv, RowsMatch
        <5> QED BY <1>5, <5>1, <5>2, WorkflowAssumption DEF Waiting, Matches, Number
      <4>2. ASSUME NEW v \in Worker, worker[v].pc \in {"ask", "withdraw"} PROVE FALSE
        BY <1>0, <4>2 DEF RowsInv, LeaseInv, OneInside, Inside
      <4>3. child[Order[i]][a] = "live" => Excused(Order[i], a)
        BY <3>1, <4>1, <4>2 DEF Going, Care, Asked
      <4>4. child'[Order[i]][a] = "live" => Excused(Order[i], a)'
        BY <1>0, <4>1, <4>3, ExcusedStays
      <4>5. ASSUME NEW m \in Node, m = Order[i] PROVE LeavesBehind(worker[w])'
        <5>1. Spot(worker[w])' = m
          BY <1>5, <4>5 DEF Spot
        <5>2. child'[m][a] = "live" => Excused(m, a)'
          BY <4>4, <4>5
        <5> QED BY <1>5, <5>1, <5>2 DEF LeavesBehind, Excused
      <4> QED BY <4>1, <4>5
    <3>2. CASE <<Order[i], a>> \notin asked
      BY <1>5, <3>2 DEF LeavesBehind
    <3> QED BY <3>1, <3>2
  <2> QED BY <1>5, <2>1, <2>2 DEF Heeds, Decides, Concludes
<1> QED BY <1>0, <1>3, <1>4, <1>5, CancelHolds

\* The child is asked to stop.
LEMMA AskHeeds ==
    ASSUME Going, NEW w \in Worker, AskChild(w) PROVE Heeds(worker[w])'
<1> DEFINE n == Cursor(w)
           a == worker[w].a
<1>0. /\ RowsInv /\ KidsInv /\ worker[w].pc = "ask" /\ worker[w].pc \in Attending /\ Inside(w)
      /\ UNCHANGED <<node, attempt>> /\ child' = Cancelled(n, a) /\ <<n, a>> \in told'
  BY DEF Going, AskChild, At, Attending, Inside, rows
<1>1. n \in Node /\ a \in Number
  BY <1>0, InHand
<1>2. worker'[w].pc = "late" /\ SameSpot(w) /\ SameLeft(w)
  BY <1>0, GotoIs DEF AskChild, SameSpot, SameLeft
<1>3. HasLeft(worker[w])'
  <2>1. HasLeft(worker[w]) /\ Cancelling(worker[w])
    BY <1>0, GoingSmoothly DEF Heeds, Cancelling
  <2>2. \A m \in Node : Waiting(m)' => Waiting(m)
    BY <1>0 DEF Waiting
  <2> QED BY <1>2, <2>1, <2>2 DEF HasLeft, SameLeft
<1>4. LeavesBehind(worker[w])'
  <2>1. ASSUME NEW m \in Node, NEW b \in Number, m = n, b = a PROVE LeavesBehind(worker[w])'
    <3>1. child'[m][b] = "live" => Kind[m] # "approval" /\ <<m, b>> \in told'
      BY <1>0, <2>1 DEF Cancelled, KidsInv
    <3>2. Spot(worker[w])' = m /\ worker'[w].a = b
      BY <1>2, <2>1 DEF SameSpot, Spot, Cursor
    <3> QED BY <3>1, <3>2 DEF LeavesBehind, Excused
  <2> QED BY <1>1, <2>1
<1> QED BY <1>2, <1>3, <1>4 DEF Heeds, Decides, Concludes

\* The cancelled child is looked at.
LEMMA LateHeeds ==
    ASSUME Going, NEW w \in Worker, LateResult(w) PROVE Heeds(worker[w])'
<1>0. /\ RowsInv /\ KidsInv /\ worker[w].pc = "late" /\ Inside(w)
      /\ UNCHANGED <<node, attempt, child>>
  BY DEF Going, LateResult, At, Inside, rows, others
<1>1. HasLeft(worker[w]) /\ Cancelling(worker[w])
  BY <1>0, GoingSmoothly DEF Heeds, Cancelling
<1>2. \A n \in Node : Waiting(n)' => Waiting(n)
  BY <1>0 DEF Waiting
<1>3. CASE worker'[w].pc = "settle" /\ worker'[w].res.then = "cancel" /\ SameLeft(w) /\ SameSpot(w)
  <2>1. LeavesBehind(worker[w])'
    BY <1>0, <1>3, NoChildMoves, BehindStays
  <2>2. HasLeft(worker[w])'
    BY <1>1, <1>2, <1>3 DEF HasLeft, SameLeft
  <2> QED BY <1>3, <2>1, <2>2 DEF Heeds, Decides, Concludes
<1>4. CASE worker'[w].pc = "cancel" /\ worker'[w].pending
  BY <1>4 DEF Heeds, Decides, LeavesBehind, HasLeft, Concludes
<1> QED BY <1>0, <1>3, <1>4, LateHolds

\* Every step of a worker heeds the children at work.
LEMMA HeedsNext ==
    ASSUME Going, NEW w \in Worker, Inside(w)' PROVE Heeds(worker[w])'
<1>0. RowsInv /\ KidsInv /\ [Next]_vars /\ ~CallFails(w) /\ worker[w] \in Local /\ worker \in [Worker -> Local]
  BY GoingSmoothly DEF Going, RowsInv, Shape
<1>1. CASE Outer /\ worker'[w] = worker[w]
  <2>1. OnlyDue /\ NoChildStarts /\ Inside(w)
    BY <1>0, <1>1, OuterStarts DEF Outer, Inside
  <2>2. SameSpot(w) /\ SameLeft(w) /\ worker'[w].pc = worker[w].pc /\ worker'[w].res = worker[w].res
    BY <1>1 DEF SameSpot, SameLeft
  <2> QED BY <2>1, <2>2, StillHeeds
<1>2. CASE Claim(w)
  BY <1>0, <1>2, Goes, FreeHeeds
<1>3. CASE Renew(w)
  <2>1. Inside(w) /\ OnlyDue /\ NoChildStarts
    BY <1>0, <1>3, ReadsOnly, NoChildMoves DEF Renew, rows, others
  <2>2. SameSpot(w) /\ SameLeft(w) /\ worker'[w].pc = worker[w].pc /\ worker'[w].res = worker[w].res
    BY <1>0, <1>3 DEF Renew, Local, SameSpot, SameLeft
  <2> QED BY <2>1, <2>2, StillHeeds
<1>4. CASE \/ End(w) \/ Catch(w) \/ Step(w) \/ StartAttempt(w) \/ MarkChildWaiting(w) \/ Confirm(w)
           \/ Suspend(w) \/ Skip(w) \/ SettleEdge(w)
  <2>1. worker'[w].pc \notin {"withdraw", "settle", "write", "late", "end", "cancel", "ask"}
    BY <1>0, <1>4, Goes
  <2> QED BY <2>1, FreeHeeds
<1>5. CASE Execute(w) /\ ~Release(w)
  BY <1>4, <1>5, EnterHeeds, WithdrawHeeds, RunHeeds, SettleReadHeeds, SettleWriteHeeds, CancelHeeds, AskHeeds,
     LateHeeds DEF Execute, Advance
<1> QED BY <1>0, <1>1, <1>2, <1>3, <1>5, WhoMoves

-----------------------------------------------------------------------------
\* A run settles when its worker has nothing left to heed.
LEMMA EndingNext ==
    ASSUME Going PROVE Ending'
<1>0. /\ RowsInv /\ KidsInv /\ AskedInv /\ Alive /\ Ending /\ [Next]_vars
  BY DEF Going, Care
<1>1. CASE status \in Terminal
  <2>1. status' = status
    BY <1>0, <1>1, StatusMoves DEF Terminal
  <2>2. NoChildStarts
    <3>1. ASSUME NEW w \in Worker, StartsChild(w) PROVE FALSE
      BY <1>0, <1>1, <3>1 DEF StartsChild, Alive, Inside
    <3> QED BY <1>0, <3>1, WhoStarts
  <2> QED BY <1>0, <2>1, <2>2, ExcusedStays DEF Ending, NoApprovalLives, NoChildStarts
<1>2. CASE status \notin Terminal /\ status' \in Terminal
  <2>1. PICK w \in Worker : End(w)
    BY <1>0, <1>2, EndSettles
  <2>2. worker[w].pc = "end" /\ Inside(w) /\ Concludes(worker[w])
    BY <2>1, GoingSmoothly DEF End, Inside, Smooth, Heeds
  <2>3. status' = worker[w].res.then /\ UNCHANGED child
    BY <1>2, <2>1 DEF End, SettleRunTo, others
  <2>4. CASE status' = "cancelled"
    <3>1. ASSUME NEW n \in Node, NEW a \in Number, child[n][a] = "live" PROVE Excused(n, a)
      <4>1. ~Waiting(n) /\ Kept(n, a)
        BY <2>2, <2>3, <2>4 DEF Concludes, Going, Care
      <4>2. ASSUME NEW v \in Worker, worker[v].pc = "mark" PROVE FALSE
        BY <1>0, <2>2, <4>2 DEF RowsInv, LeaseInv, OneInside, Inside
      <4> QED BY <3>1, <4>1, <4>2 DEF Kept
    <3>2. ASSUME NEW n \in Node, NEW a \in Number, child'[n][a] = "live"
          PROVE  Excused(n, a)' /\ Kind[n] # "approval"
      <4>1. Excused(n, a)
        BY <2>3, <3>1, <3>2
      <4>2. Excused(n, a)'
        BY <1>0, <4>1, ExcusedStays
      <4> QED BY <4>1, <4>2 DEF Excused
    <3> QED BY <3>2 DEF Ending, NoApprovalLives
  <2>5. CASE status' # "cancelled"
    BY <2>2, <2>3, <2>5 DEF Ending, Concludes, NoApprovalLives
  <2> QED BY <2>4, <2>5
<1>3. CASE status' \notin Terminal
  BY <1>3 DEF Ending, Terminal
<1> QED BY <1>1, <1>2, <1>3

\* Nobody is inside when a run is queued, and no child was started.
LEMMA CareInit == Init => SmoothInv /\ CareInv
<1> SUFFICES ASSUME Init PROVE SmoothInv /\ CareInv
  OBVIOUS
<1>1. /\ \A n \in Node, a \in Number : child[n][a] = "none"
      /\ \A w \in Worker : ~Inside(w)
      /\ status = "queued"
  BY DEF Init, Inside, IdleWorker
<1> QED BY <1>1 DEF SmoothInv, CareInv, Care, Kept, Asked, Ending, NoApprovalLives, Terminal

\* Every step of a run without faults leaves no child at work unattended.
LEMMA CareNext ==
    /\ RowsInv /\ KidsInv /\ Alive /\ FlowInv /\ TurnInv /\ SmoothInv /\ AskedInv /\ CareInv
    /\ RowsInv' /\ [Next]_vars
    => CareInv'
<1> SUFFICES ASSUME RowsInv, KidsInv, Alive, FlowInv, TurnInv, SmoothInv, AskedInv, CareInv,
                    RowsInv', [Next]_vars, NoFault'
             PROVE  Care'
  BY DEF CareInv
<1>1. Going
  BY NoFaultYet DEF Going, RowsInv, CareInv
<1>2. \A n \in Node, a \in Number : Kept(n, a)' /\ Asked(n, a)'
  BY <1>1, KeptNext, AskedIsTold
<1>3. \A w \in Worker : Inside(w)' => Heeds(worker[w])'
  BY <1>1, HeedsNext
<1> QED BY <1>1, <1>2, <1>3, EndingNext DEF Care

\* While renewals arrive in time, all of this holds in every state.
LEMMA CareHolds == Spec => [](OnTime => CareInv)
<1>1. Spec => [](OnTime => RowsInv /\ KidsInv)
  BY KidsHold
<1>2. Spec => [](OnTime => RowsInv /\ FlowInv)
  BY FlowHolds
<1>3. Spec => [](OnTime => Alive)
  BY CountsHold, PTL DEF CountInv
<1>4. Spec => [](OnTime => TurnInv)
  BY <1>2, RunShape, TimeIsSpent, TurnInit, TurnNext, PTL DEF Spec
<1>5. Spec => [](OnTime => AskedInv)
  BY <1>1, RunShape, TimeIsSpent, AskedInit, AskedNext, PTL DEF Spec
<1>6. RowsInv /\ Alive /\ FlowInv /\ SmoothInv /\ [Next]_vars => SmoothInv'
  BY SmoothNext DEF SmoothInv
<1>7. Spec => [](OnTime => SmoothInv)
  BY <1>2, <1>3, <1>6, RunShape, TimeIsSpent, CareInit, PTL DEF Spec
<1> QED BY <1>1, <1>2, <1>3, <1>4, <1>5, <1>7, RunShape, TimeIsSpent, CareInit, CareNext, PTL DEF Spec

\* While renewals arrive in time, no worker dies and no call fails, a run that
\* ends cancelled asked every child still at work to stop, unless the child's
\* deadline had passed: also one whose wait was recorded after the request.
THEOREM CancelsReachChildren == Spec => []UnbrokenCancelReachesChildren
<1>1. (OnTime => CareInv) => UnbrokenCancelReachesChildren
  BY DEF NoFault, CareInv, Care, Ending, UnbrokenCancelReachesChildren, CancelReachesChildren, Excused
<1> QED BY <1>1, CareHolds, PTL

\* While renewals arrive in time, no worker dies and no call fails, a run that
\* stopped for any reason leaves no approval request pending.
THEOREM RequestsWithdrawn == Spec => []RequestsAreWithdrawn
<1>1. (OnTime => CareInv) => RequestsAreWithdrawn
  BY DEF NoFault, CareInv, Care, Ending, NoApprovalLives, RequestsAreWithdrawn
<1> QED BY <1>1, CareHolds, PTL
=============================================================================
