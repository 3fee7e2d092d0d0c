--------------------------- MODULE AgentRunProofs ---------------------------
(***************************************************************************)
(* The worker of agent runs, for any number of workers and runs and any    *)
(* concurrency: an owner executes only what its lease was last claimed     *)
(* for, no worker executes more than its share, and a worker that has      *)
(* stopped runs nothing.                                                   *)
(*                                                                         *)
(* The invariant ties the four parts of a worker together: what a drain    *)
(* has left to claim fits beside what is in flight, a worker that aborts   *)
(* has no drain, and only a running row has an owner.                      *)
(***************************************************************************)
EXTENDS AgentRun, FiniteSetTheorems, TLAPS

OwnedRuns == \A r \in Run : row[r].owner # None => row[r].status = "running"

DrainsFit == \A w \in Worker :
    /\ drain[w].at = "idle" => drain[w] = NoDrain
    /\ drain[w].at \in {"claimed", "refused"} => drain[w].run \in Run /\ drain[w].slots > 0
    /\ drain[w].at # "idle" => dispose[w] \in {"started", "draining"}
    /\ drain[w].slots + Cardinality(InFlight(w)) <= Concurrency[w]

StoppedIsIdle == \A w \in Worker : dispose[w] = "stopped" => InFlight(w) = {}

IInv == TypeOK /\ OwnedRuns /\ OwnerIsCurrent /\ DrainsFit /\ StoppedIsIdle

-----------------------------------------------------------------------------
LEMMA FlightIsFinite ==
    ASSUME NEW w
    PROVE  IsFiniteSet(InFlight(w)) /\ Cardinality(InFlight(w)) \in Nat
<1>1. IsFiniteSet(Run)
    BY FS_Interval, AgentAssumption DEF Run
<1>2. InFlight(w) \subseteq Run
    BY DEF InFlight
<1> QED
    BY <1>1, <1>2, FS_Subset, FS_CardinalityType

LEMMA FlightShrinks ==
    ASSUME NEW w, InFlight(w)' \subseteq InFlight(w)
    PROVE  /\ Cardinality(InFlight(w)') <= Cardinality(InFlight(w))
           /\ Cardinality(InFlight(w)') \in Nat /\ Cardinality(InFlight(w)) \in Nat
<1>1. IsFiniteSet(InFlight(w)) /\ Cardinality(InFlight(w)) \in Nat
    BY FlightIsFinite
<1> QED
    BY <1>1, FS_Subset, FS_CardinalityType

LEMMA FlightGrows ==
    ASSUME NEW w, NEW r, InFlight(w)' \subseteq InFlight(w) \cup {r}
    PROVE  /\ Cardinality(InFlight(w)') <= Cardinality(InFlight(w)) + 1
           /\ Cardinality(InFlight(w)') \in Nat /\ Cardinality(InFlight(w)) \in Nat
<1>1. IsFiniteSet(InFlight(w)) /\ Cardinality(InFlight(w)) \in Nat
    BY FlightIsFinite
<1>2. IsFiniteSet(InFlight(w) \cup {r}) /\ Cardinality(InFlight(w) \cup {r}) <= Cardinality(InFlight(w)) + 1
    BY <1>1, FS_AddElement
<1>3. Cardinality(InFlight(w)') <= Cardinality(InFlight(w) \cup {r}) /\ IsFiniteSet(InFlight(w)')
    BY <1>2, FS_Subset
<1> QED
    BY <1>1, <1>2, <1>3, FS_CardinalityType

-----------------------------------------------------------------------------
(***************************************************************************)
(* What most steps do: rows keep their owner or lose it, executions go on  *)
(* or end, drains go on or end.                                            *)
(***************************************************************************)
RowsStay == \A q \in Run :
    row'[q].owner # None => row'[q].owner = row[q].owner /\ row'[q].status = "running"

ExecsStay == \A v \in Worker, q \in Run : exec'[v][q].at # "none" =>
    exec[v][q].at # "none" /\ exec'[v][q].current = exec[v][q].current

DrainsStay == \A v \in Worker :
    \/ drain'[v] = NoDrain
    \/ drain'[v] = drain[v] /\ dispose'[v] \in {dispose[v], "started", "draining"}

LEMMA QuietStep ==
    ASSUME IInv, TypeOK', RowsStay, ExecsStay, DrainsStay, StoppedIsIdle'
    PROVE  IInv'
<1>1. OwnedRuns'
    BY DEF RowsStay, OwnedRuns
<1>2. OwnerIsCurrent'
    BY AgentAssumption DEF IInv, RowsStay, ExecsStay, OwnerIsCurrent
<1>3. DrainsFit'
  <2> SUFFICES ASSUME NEW v \in Worker
               PROVE  /\ drain'[v].at = "idle" => drain'[v] = NoDrain
                      /\ drain'[v].at \in {"claimed", "refused"} =>
                            drain'[v].run \in Run /\ drain'[v].slots > 0
                      /\ drain'[v].at # "idle" => dispose'[v] \in {"started", "draining"}
                      /\ drain'[v].slots + Cardinality(InFlight(v)') <= Concurrency[v]
    BY DEF DrainsFit
  <2>1. InFlight(v)' \subseteq InFlight(v)
    BY DEF InFlight, ExecsStay
  <2>2. /\ Cardinality(InFlight(v)') <= Cardinality(InFlight(v))
        /\ Cardinality(InFlight(v)') \in Nat /\ Cardinality(InFlight(v)) \in Nat
    BY <2>1, FlightShrinks
  <2>3. drain[v].slots \in Nat /\ Concurrency[v] \in Nat
    BY AgentAssumption DEF IInv, TypeOK
  <2>4. CASE drain'[v] = NoDrain
    <3>1. drain'[v].slots = 0 /\ drain'[v].at = "idle"
        BY <2>4 DEF NoDrain, Drain
    <3>2. drain[v].slots + Cardinality(InFlight(v)) <= Concurrency[v]
        BY DEF IInv, DrainsFit
    <3> QED BY <2>2, <2>3, <2>4, <3>1, <3>2
  <2>5. CASE drain'[v] = drain[v] /\ dispose'[v] \in {dispose[v], "started", "draining"}
    BY <2>2, <2>3, <2>5 DEF IInv, DrainsFit
  <2> QED BY <2>4, <2>5 DEF DrainsStay
<1> QED BY <1>1, <1>2, <1>3 DEF IInv

LEMMA InitHolds == Init => IInv
<1> SUFFICES ASSUME Init PROVE IInv
    OBVIOUS
<1>1. TypeOK
    BY AgentAssumption DEF Init, TypeOK, NoRun, NoDrain, Drain, NoExec
<1>2. OwnedRuns /\ OwnerIsCurrent
    BY DEF Init, OwnedRuns, OwnerIsCurrent, NoRun, NoExec
<1>3. ASSUME NEW w \in Worker PROVE InFlight(w) = {}
    BY DEF Init, InFlight, NoExec
<1>4. DrainsFit
  <2>1. \A w \in Worker : Cardinality(InFlight(w)) = 0 /\ Concurrency[w] \in Nat
    BY <1>3, FS_EmptySet, AgentAssumption
  <2> QED BY <2>1 DEF Init, DrainsFit, NoDrain, Drain
<1> QED BY <1>1, <1>2, <1>3, <1>4 DEF IInv, StoppedIsIdle

-----------------------------------------------------------------------------
RowRec == [status : {"absent", "queued", "running"} \cup Settled,
           owner : Worker \cup {None}, lapsed : BOOLEAN]
ExecRec == [at : {"none", "granting", "executing", "failing"},
            reason : {"none", "cancelled", "shutdown", "lost", "refused"}, current : BOOLEAN]

\* The edits of a row keep its type, and its owner or none.
LEMMA LapseEdit ==
    ASSUME NEW x \in RowRec, NEW b \in BOOLEAN
    PROVE  LET y == [x EXCEPT !.lapsed = b]
           IN  y \in RowRec /\ y.owner = x.owner /\ y.status = x.status
    BY DEF RowRec

LEMMA StatusEdit ==
    ASSUME NEW x \in RowRec
    PROVE  LET y == [x EXCEPT !.status = "queued"]
           IN  y \in RowRec /\ y.owner = x.owner
    BY DEF RowRec

LEMMA OwnerEdit ==
    ASSUME NEW x \in RowRec
    PROVE  LET y == [x EXCEPT !.owner = None] IN y \in RowRec /\ y.owner = None
    BY DEF RowRec

LEMMA SettleEdit ==
    ASSUME NEW x \in RowRec, NEW s \in Settled
    PROVE  LET y == [x EXCEPT !.status = s, !.owner = None, !.lapsed = FALSE]
           IN  y \in RowRec /\ y.owner = None
    BY DEF RowRec

\* The edits of an execution keep it in flight.
LEMMA AtEdit ==
    ASSUME NEW e \in ExecRec, NEW a \in {"granting", "executing", "failing"}
    PROVE  LET y == [e EXCEPT !.at = a]
           IN  y \in ExecRec /\ y.current = e.current /\ y.at = a
    BY DEF ExecRec

LEMMA AbortEdit ==
    ASSUME NEW e \in ExecRec, NEW s \in {"cancelled", "shutdown", "lost", "refused"}
    PROVE  Aborted(e, s) \in ExecRec /\ Aborted(e, s).current = e.current /\ Aborted(e, s).at = e.at
<1>1. LET y == [e EXCEPT !.reason = s]
      IN  y \in ExecRec /\ y.current = e.current /\ y.at = e.at
    BY DEF ExecRec
<1> QED BY <1>1 DEF Aborted

LEMMA SupersedeEdit ==
    ASSUME NEW e \in ExecRec
    PROVE  LET y == [e EXCEPT !.current = FALSE] IN y \in ExecRec /\ y.at = e.at
    BY DEF ExecRec

LEMMA NoExecIsTyped == NoExec \in ExecRec /\ NoExec.at = "none"
    BY DEF NoExec, ExecRec

\* The steps of one row and one execution.
LEMMA RowExecStep ==
    ASSUME IInv, NEW w \in Worker, NEW r \in Run, NEW x \in RowRec, NEW e \in ExecRec,
           row' = [row EXCEPT ![r] = x],
           exec' = [exec EXCEPT ![w] = [@ EXCEPT ![r] = e]],
           x.owner # None => x.owner = row[r].owner /\ x.status = "running",
           e.at # "none" => exec[w][r].at # "none" /\ e.current = exec[w][r].current,
           UNCHANGED <<drain, dispose>>,
           cancel' \in [Run -> {"none", "read"}]
    PROVE  IInv'
<1>1. TypeOK'
    BY DEF IInv, TypeOK, RowRec, ExecRec
<1>2. \A q \in Run : row'[q] = IF q = r THEN x ELSE row[q]
    BY DEF IInv, TypeOK
<1>3. \A v \in Worker, q \in Run : exec'[v][q] = IF v = w /\ q = r THEN e ELSE exec[v][q]
    BY DEF IInv, TypeOK
<1>4. RowsStay
    BY <1>2 DEF RowsStay, IInv, OwnedRuns
<1>5. ExecsStay
    BY <1>3 DEF ExecsStay
<1>6. DrainsStay
    BY DEF DrainsStay
<1>7. StoppedIsIdle'
  <2>1. \A v \in Worker : InFlight(v)' \subseteq InFlight(v)
    BY <1>5 DEF InFlight, ExecsStay
  <2> QED BY <2>1 DEF StoppedIsIdle, IInv
<1> QED BY <1>1, <1>4, <1>5, <1>6, <1>7, QuietStep

-----------------------------------------------------------------------------
\* A step of one row that leaves the executions alone.
LEMMA RowStep ==
    ASSUME IInv, NEW r \in Run, NEW x \in RowRec,
           row' = [row EXCEPT ![r] = x],
           x.owner # None => x.owner = row[r].owner /\ x.status = "running",
           UNCHANGED <<exec, drain, dispose>>,
           cancel' \in [Run -> {"none", "read"}]
    PROVE  IInv'
<1>1. TypeOK'
    BY DEF IInv, TypeOK, RowRec
<1>2. RowsStay
  <2>1. \A q \in Run : row'[q] = IF q = r THEN x ELSE row[q]
    BY DEF IInv, TypeOK
  <2> QED BY <2>1 DEF RowsStay, IInv, OwnedRuns
<1>3. ExecsStay /\ DrainsStay
    BY DEF ExecsStay, DrainsStay
<1>4. StoppedIsIdle'
    BY DEF IInv, StoppedIsIdle, InFlight
<1> QED BY <1>1, <1>2, <1>3, <1>4, QuietStep

LEMMA Typed ==
    ASSUME IInv, NEW r \in Run
    PROVE  /\ row[r] \in RowRec /\ (row[r].owner # None => row[r].status = "running")
           /\ \A w \in Worker : exec[w][r] \in ExecRec
           /\ cancel \in [Run -> {"none", "read"}]
    BY DEF IInv, TypeOK, RowRec, ExecRec, OwnedRuns

LEMMA RequestsKeep ==
    ASSUME IInv, NEW r \in Run, Enqueue(r) \/ CancelReads(r) \/ Lapses(r)
    PROVE  IInv'
<1>1. CASE Enqueue(r)
  <2>1. PICK x \in RowRec : x = [row[r] EXCEPT !.status = "queued"] /\ x.owner = row[r].owner
    BY Typed, StatusEdit
  <2>2. row[r].owner = None
    BY <1>1, Typed DEF Enqueue
  <2> QED BY <1>1, <2>1, <2>2, RowStep, Typed DEF Enqueue
<1>2. CASE CancelReads(r)
  <2>1. row' = [row EXCEPT ![r] = row[r]]
    BY <1>2 DEF CancelReads, IInv, TypeOK
  <2>2. cancel' \in [Run -> {"none", "read"}]
    BY <1>2, Typed DEF CancelReads
  <2> QED BY <1>2, <2>1, <2>2, RowStep, Typed DEF CancelReads
<1>3. CASE Lapses(r)
  <2>1. PICK x \in RowRec : x = [row[r] EXCEPT !.lapsed = TRUE]
                             /\ x.owner = row[r].owner /\ x.status = row[r].status
    BY Typed, LapseEdit
  <2> QED BY <1>3, <2>1, RowStep, Typed DEF Lapses
<1> QED BY <1>1, <1>2, <1>3

\* An execution goes on, with its row as it is.
LEMMA GoesOn ==
    ASSUME IInv, NEW w \in Worker, NEW r \in Run, NEW e \in ExecRec, exec[w][r].at # "none",
           e.current = exec[w][r].current, SetExec(w, r, e),
           UNCHANGED <<row, drain, dispose, cancel>>
    PROVE  IInv'
<1>1. row' = [row EXCEPT ![r] = row[r]]
    BY DEF IInv, TypeOK
<1> QED BY <1>1, RowExecStep, Typed DEF SetExec

\* It ends, or is told to abort, with a row that is settled or stays.
LEMMA Settles ==
    ASSUME IInv, NEW w \in Worker, NEW r \in Run, NEW e \in ExecRec, NEW s \in Settled,
           e.at # "none" => exec[w][r].at # "none" /\ e.current = exec[w][r].current,
           SetExec(w, r, e), Settle(r, s) \/ UNCHANGED row,
           UNCHANGED <<drain, dispose>>, cancel' \in [Run -> {"none", "read"}]
    PROVE  IInv'
<1>1. CASE Settle(r, s)
  <2>1. PICK x \in RowRec : /\ x = [row[r] EXCEPT !.status = s, !.owner = None, !.lapsed = FALSE]
                             /\ x.owner = None
    BY Typed, SettleEdit
  <2>2. row' = [row EXCEPT ![r] = x]
    BY <1>1, <2>1 DEF Settle
  <2> QED BY <2>1, <2>2, RowExecStep DEF SetExec
<1>2. CASE UNCHANGED row
  <2>1. row' = [row EXCEPT ![r] = row[r]]
    BY <1>2 DEF IInv, TypeOK
  <2> QED BY <2>1, RowExecStep, Typed DEF SetExec
<1> QED BY <1>1, <1>2

LEMMA ExecutionKeeps ==
    ASSUME IInv, NEW w \in Worker, NEW r \in Run,
           CancelWrites(w, r) \/ Execution(w, r) \/ Renews(w, r) \/ EventRefused(w, r)
    PROVE  IInv'
<1> DEFINE e == exec[w][r]
<1>1. e \in ExecRec /\ row[r] \in RowRec
    BY Typed
<1>2. CASE CancelWrites(w, r)
  <2>1. Aborted(e, "cancelled") \in ExecRec /\ Aborted(e, "cancelled").current = e.current
        /\ Aborted(e, "cancelled").at = e.at
    BY <1>1, AbortEdit
  <2>2. cancel' \in [Run -> {"none", "read"}]
    BY <1>2, Typed DEF CancelWrites
  <2> QED BY <1>2, <2>1, <2>2, Settles DEF CancelWrites, Settled
<1>3. ASSUME NEW a \in {"granting", "executing", "failing"}, Goes(w, r, a), e.at # "none",
             UNCHANGED <<row, drain, dispose, cancel>>
      PROVE  IInv'
  <2>1. PICK y \in ExecRec : y = [e EXCEPT !.at = a] /\ y.current = e.current
    BY <1>1, AtEdit
  <2> QED BY <1>3, <2>1, GoesOn DEF Goes
<1>4. ASSUME NEW s \in Settled, Settle(r, s) \/ UNCHANGED row, Ends(w, r),
             UNCHANGED <<drain, dispose, cancel>>
      PROVE  IInv'
    BY <1>4, NoExecIsTyped, Settles, Typed DEF Ends
<1>5. CASE Grants(w, r)
    BY <1>3, <1>5 DEF Grants
<1>6. CASE HarnessRaises(w, r)
    BY <1>3, <1>6 DEF HarnessRaises
<1>7. CASE Completes(w, r)
    BY <1>3, <1>4, <1>7 DEF Completes, Settled
<1>8. CASE Fails(w, r)
    BY <1>4, <1>8 DEF Fails, Settled
<1>9. CASE Renews(w, r)
  <2>1. CASE UNCHANGED exec /\ row' = [row EXCEPT ![r] = [@ EXCEPT !.lapsed = FALSE]]
    <3>1. PICK x \in RowRec : x = [row[r] EXCEPT !.lapsed = FALSE]
                               /\ x.owner = row[r].owner /\ x.status = row[r].status
        BY <1>1, LapseEdit
    <3> QED BY <1>9, <2>1, <3>1, RowStep, Typed DEF Renews, SetExec
  <2>2. CASE SetExec(w, r, Aborted(e, "lost")) /\ UNCHANGED row
    <3>1. Aborted(e, "lost") \in ExecRec /\ Aborted(e, "lost").current = e.current
        BY <1>1, AbortEdit
    <3> QED BY <1>9, <2>2, <3>1, GoesOn DEF Renews
  <2> QED BY <1>9, <2>1, <2>2 DEF Renews
<1>10. CASE EventRefused(w, r)
  <2> DEFINE reason == IF Owns(w, r) THEN "refused" ELSE "lost"
  <2>1. PICK f \in ExecRec : f = Aborted(e, reason) /\ f.current = e.current
    BY <1>1, AbortEdit
  <2>2. PICK y \in ExecRec : y = [f EXCEPT !.at = "failing"] /\ y.current = f.current
    BY <2>1, AtEdit
  <2>3. SetExec(w, r, y) /\ UNCHANGED <<drain, dispose, cancel>> /\ exec[w][r].at # "none"
    BY <1>10, <2>1, <2>2 DEF EventRefused
  <2>4. PICK x \in RowRec : x = [row[r] EXCEPT !.lapsed = FALSE]
                             /\ x.owner = row[r].owner /\ x.status = row[r].status
    BY <1>1, LapseEdit
  <2> y.current = exec[w][r].current
    BY <2>1, <2>2
  <2> HIDE DEF e
  <2>5. CASE row' = [row EXCEPT ![r] = x]
    BY <2>3, <2>4, <2>5, RowExecStep, Typed DEF SetExec
  <2>6. CASE UNCHANGED row
    BY <2>3, <2>6, GoesOn
  <2> QED BY <1>10, <2>4, <2>5, <2>6 DEF EventRefused
<1> QED BY <1>2, <1>5, <1>6, <1>7, <1>8, <1>9, <1>10 DEF Execution

-----------------------------------------------------------------------------
LEMMA DisposeKeeps ==
    ASSUME IInv, NEW w \in Worker, Starts(w) \/ Disposes(w) \/ Stopping(w) \/ Crash(w)
    PROVE  IInv'
<1>1. dispose[w] = "stopped" => InFlight(w) = {}
    BY DEF IInv, StoppedIsIdle
<1>2. CASE Starts(w)
  <2>1. TypeOK' /\ RowsStay /\ ExecsStay
    BY <1>2 DEF Starts, IInv, TypeOK, RowsStay, ExecsStay, OwnedRuns
  <2>2. \A v \in Worker : dispose'[v] = IF v = w THEN "started" ELSE dispose[v]
    BY <1>2 DEF Starts, IInv, TypeOK
  <2>3. DrainsStay /\ StoppedIsIdle'
    BY <1>2, <2>2 DEF Starts, DrainsStay, IInv, StoppedIsIdle, InFlight
  <2> QED BY <2>1, <2>3, QuietStep
<1>3. CASE Disposes(w)
  <2>1. TypeOK' /\ RowsStay /\ ExecsStay
    BY <1>3 DEF Disposes, SetDispose, IInv, TypeOK, RowsStay, ExecsStay, OwnedRuns
  <2>2. \A v \in Worker : dispose'[v] = IF v = w THEN "draining" ELSE dispose[v]
    BY <1>3 DEF Disposes, SetDispose, IInv, TypeOK
  <2>3. DrainsStay /\ StoppedIsIdle'
    BY <1>3, <2>2 DEF Disposes, DrainsStay, IInv, StoppedIsIdle, InFlight
  <2> QED BY <2>1, <2>3, QuietStep
<1>4. CASE DisposeAborts(w)
  <2> DEFINE g == [r \in Run |-> Aborted(exec[w][r], "shutdown")]
  <2>1. \A r \in Run : /\ g[r] \in ExecRec /\ g[r].current = exec[w][r].current
                       /\ g[r].at = exec[w][r].at
    BY Typed, AbortEdit
  <2>2. g \in [Run -> ExecRec] /\ exec' = [exec EXCEPT ![w] = g]
    BY <1>4, <2>1 DEF DisposeAborts
  <2> HIDE DEF g
  <2>3. \A v \in Worker : exec'[v] = IF v = w THEN g ELSE exec[v]
    BY <2>2 DEF IInv, TypeOK
  <2>4. \A v \in Worker : dispose'[v] = IF v = w THEN "aborting" ELSE dispose[v]
    BY <1>4 DEF DisposeAborts, SetDispose, IInv, TypeOK
  <2>5. TypeOK'
    BY <1>4, <2>2 DEF DisposeAborts, SetDispose, IInv, TypeOK, ExecRec
  <2>6. RowsStay
    BY <1>4 DEF DisposeAborts, RowsStay, IInv, OwnedRuns
  <2>7. ExecsStay
    BY <2>1, <2>3 DEF ExecsStay
  <2>8. DrainsStay
    BY <1>4, <2>4 DEF DisposeAborts, DrainsStay, IInv, DrainsFit
  <2>9. StoppedIsIdle'
    BY <2>3, <2>4 DEF IInv, StoppedIsIdle, InFlight
  <2> QED BY <2>5, <2>6, <2>7, <2>8, <2>9, QuietStep
<1>5. CASE DisposeEnds(w)
  <2>1. TypeOK' /\ RowsStay /\ ExecsStay
    BY <1>5 DEF DisposeEnds, SetDispose, IInv, TypeOK, RowsStay, ExecsStay, OwnedRuns
  <2>2. \A v \in Worker : dispose'[v] = IF v = w THEN "stopped" ELSE dispose[v]
    BY <1>5 DEF DisposeEnds, SetDispose, IInv, TypeOK
  <2>3. drain[w] = NoDrain
    BY <1>5 DEF DisposeEnds, IInv, DrainsFit
  <2>4. DrainsStay
    BY <1>5, <2>2, <2>3 DEF DisposeEnds, DrainsStay
  <2>5. StoppedIsIdle'
    BY <1>5, <2>2 DEF DisposeEnds, DisposeSettled, IInv, StoppedIsIdle, InFlight
  <2> QED BY <2>1, <2>4, <2>5, QuietStep
<1>6. CASE Crash(w)
  <2> DEFINE g == [r \in Run |-> NoExec]
  <2>1. \A q \in Run : /\ row'[q] \in RowRec
                       /\ row'[q].owner # None => row'[q] = row[q]
    <3> TAKE q \in Run
    <3>1. PICK x \in RowRec : x = [row[q] EXCEPT !.owner = None] /\ x.owner = None
        BY Typed, OwnerEdit
    <3> QED BY <1>6, <3>1, Typed DEF Crash
  <2>2. \A v \in Worker : exec'[v] = IF v = w THEN g ELSE exec[v]
    BY <1>6 DEF Crash, IInv, TypeOK
  <2>3. g \in [Run -> ExecRec] /\ \A r \in Run : g[r].at = "none"
    BY NoExecIsTyped
  <2>4. \A v \in Worker : /\ dispose'[v] = IF v = w THEN "stopped" ELSE dispose[v]
                          /\ drain'[v] = IF v = w THEN NoDrain ELSE drain[v]
    BY <1>6 DEF Crash, SetDispose, SetDrain, IInv, TypeOK
  <2>5. TypeOK'
    <3>1. row' \in [Run -> RowRec]
        BY <1>6, <2>1 DEF Crash
    <3>2. exec' \in [Worker -> [Run -> ExecRec]]
        BY <1>6, <2>3 DEF Crash, IInv, TypeOK, ExecRec
    <3>3. NoDrain \in [at : {"idle", "claiming", "claimed", "refused"},
                       page : SUBSET Run, slots : Nat, run : 0 .. Runs]
        BY AgentAssumption DEF NoDrain, Drain
    <3> QED BY <1>6, <3>1, <3>2, <3>3 DEF Crash, SetDispose, SetDrain, IInv, TypeOK, RowRec, ExecRec
  <2> HIDE DEF g
  <2>6. RowsStay
    BY <2>1 DEF RowsStay, IInv, OwnedRuns
  <2>7. ExecsStay
    BY <2>2, <2>3 DEF ExecsStay
  <2>8. DrainsStay
    BY <2>4 DEF DrainsStay
  <2>9. StoppedIsIdle'
    BY <2>2, <2>3, <2>4 DEF IInv, StoppedIsIdle, InFlight
  <2> QED BY <2>5, <2>6, <2>7, <2>8, <2>9, QuietStep
<1> QED BY <1>2, <1>3, <1>4, <1>5, <1>6 DEF Stopping

\* A drain that ends, or raises, leaves everything else.
LEMMA DrainEndsKeeps ==
    ASSUME IInv, NEW w \in Worker, SetDrain(w, NoDrain), UNCHANGED <<row, dispose, exec, cancel>>
    PROVE  IInv'
<1>1. NoDrain \in [at : {"idle", "claiming", "claimed", "refused"},
                   page : SUBSET Run, slots : Nat, run : 0 .. Runs]
    BY AgentAssumption DEF NoDrain, Drain
<1>2. TypeOK' /\ RowsStay /\ ExecsStay
    BY <1>1 DEF SetDrain, IInv, TypeOK, RowsStay, ExecsStay, OwnedRuns
<1>3. DrainsStay /\ StoppedIsIdle'
    BY DEF SetDrain, DrainsStay, IInv, TypeOK, StoppedIsIdle, InFlight
<1> QED BY <1>2, <1>3, QuietStep

DrainRec == [at : {"idle", "claiming", "claimed", "refused"},
             page : SUBSET Run, slots : Nat, run : 0 .. Runs]

LEMMA DrainIsTyped ==
    ASSUME NEW at \in {"idle", "claiming", "claimed", "refused"},
           NEW page \in SUBSET Run, NEW n \in Nat, NEW r \in 0 .. Runs
    PROVE  LET d == Drain(at, page, n, r)
           IN  d \in DrainRec /\ d.at = at /\ d.slots = n /\ d.run = r
    BY DEF Drain, DrainRec

\* A drain counts its slots beside what is in flight.
LEMMA DrainBeginsKeeps ==
    ASSUME IInv, NEW w \in Worker, DrainBegins(w)
    PROVE  IInv'
<1>1. Cardinality(InFlight(w)) \in Nat /\ Concurrency[w] \in Nat
    BY FlightIsFinite, AgentAssumption
<1>2. Slots(w) \in Nat /\ Slots(w) + Cardinality(InFlight(w)) <= Concurrency[w]
    BY <1>1 DEF DrainBegins, Slots
<1>3. Page(2 * Slots(w)) \in SUBSET Run
    BY DEF Page
<1>4. PICK d \in DrainRec : /\ d = Drain("claiming", Page(2 * Slots(w)), Slots(w), 0)
                             /\ d.at = "claiming" /\ d.slots = Slots(w)
    BY <1>2, <1>3, DrainIsTyped, AgentAssumption
<1>5. drain' = [drain EXCEPT ![w] = d] /\ dispose[w] = "started"
    BY <1>4 DEF DrainBegins, SetDrain, Stopped
<1>6. TypeOK'
    BY <1>4, <1>5 DEF DrainBegins, IInv, TypeOK, DrainRec
<1>7. OwnedRuns' /\ OwnerIsCurrent' /\ StoppedIsIdle'
    BY DEF DrainBegins, IInv, OwnedRuns, OwnerIsCurrent, StoppedIsIdle, InFlight
<1>8. DrainsFit'
  <2>1. \A v \in Worker : InFlight(v)' = InFlight(v) /\ dispose'[v] = dispose[v]
    BY DEF DrainBegins, InFlight
  <2>2. \A v \in Worker : drain'[v] = IF v = w THEN d ELSE drain[v]
    BY <1>5 DEF IInv, TypeOK
  <2> QED BY <1>2, <1>4, <1>5, <2>1, <2>2 DEF IInv, DrainsFit
<1> QED BY <1>6, <1>7, <1>8 DEF IInv

\* The claimed run is not in flight here, and every execution of it elsewhere is
\* superseded.
LEMMA ClaimsKeeps ==
    ASSUME IInv, NEW w \in Worker, Claims(w)
    PROVE  IInv'
<1> DEFINE x == [status |-> "running", owner |-> w, lapsed |-> FALSE]
           at(r) == IF Recoverable(r) THEN "claimed" ELSE "refused"
           page(r) == {q \in drain[w].page : q > r}
<1>1. drain[w] \in DrainRec /\ drain[w].slots \in Nat /\ drain[w].slots > 0
      /\ drain[w].at = "claiming" /\ dispose[w] = "started" /\ drain[w].page \in SUBSET Run
    BY DEF Claims, Stopped, IInv, TypeOK, DrainRec
<1>2. PICK r \in Candidates(w) :
        /\ drain' = [drain EXCEPT ![w] = Drain(at(r), page(r), drain[w].slots, r)]
        /\ row' = IF Recoverable(r) THEN [row EXCEPT ![r] = x] ELSE row
        /\ exec' = IF Recoverable(r)
                     THEN [v \in Worker |-> [exec[v] EXCEPT ![r] = [@ EXCEPT !.current = FALSE]]]
                     ELSE exec
        /\ UNCHANGED <<dispose, cancel>>
    BY DEF Claims, SetDrain
<1>3. r \in Run /\ exec[w][r].at = "none" /\ r \in 0 .. Runs
    BY <1>1, <1>2, AgentAssumption DEF Candidates, InFlight, Run
<1>4. PICK d \in DrainRec :
        /\ d = Drain(at(r), page(r), drain[w].slots, r)
        /\ d.at \in {"claimed", "refused"} /\ d.run = r /\ d.slots = drain[w].slots
  <2>1. at(r) \in {"claimed", "refused"} /\ page(r) \in SUBSET Run
    BY <1>1
  <2> HIDE DEF at, page
  <2> QED BY <1>1, <1>3, <2>1, DrainIsTyped
<1>5. x \in RowRec /\ x.owner = w /\ x.status = "running"
    BY DEF RowRec
<1>6. /\ drain' = [drain EXCEPT ![w] = d]
      /\ row' = IF Recoverable(r) THEN [row EXCEPT ![r] = x] ELSE row
      /\ exec' = IF Recoverable(r)
                   THEN [v \in Worker |-> [exec[v] EXCEPT ![r] = [@ EXCEPT !.current = FALSE]]]
                   ELSE exec
      /\ UNCHANGED <<dispose, cancel>>
    BY <1>2, <1>4
<1> HIDE DEF x, at, page
<1>7. \A v \in Worker, q \in Run :
        /\ exec'[v][q] \in ExecRec /\ exec'[v][q].at = exec[v][q].at
        /\ q # r => exec'[v][q] = exec[v][q]
  <2> TAKE v \in Worker, q \in Run
  <2>1. PICK e \in ExecRec : e = [exec[v][r] EXCEPT !.current = FALSE] /\ e.at = exec[v][r].at
    BY <1>3, Typed, SupersedeEdit
  <2>2. CASE Recoverable(r)
    <3>1. exec'[v] = [exec[v] EXCEPT ![r] = e]
        BY <1>6, <2>1, <2>2
    <3>2. exec'[v][q] = IF q = r THEN e ELSE exec[v][q]
        BY <3>1 DEF IInv, TypeOK
    <3> QED BY <2>1, <3>2, Typed
  <2>3. CASE ~Recoverable(r)
    BY <1>6, <2>3, Typed
  <2> QED BY <2>2, <2>3
<1>8. \A v \in Worker : InFlight(v)' = InFlight(v)
    BY <1>7 DEF InFlight
<1>9. \A q \in Run : row'[q] = IF q = r /\ Recoverable(r) THEN x ELSE row[q]
    BY <1>3, <1>6 DEF IInv, TypeOK
<1>10. TypeOK'
  <2>1. row' \in [Run -> RowRec]
    BY <1>3, <1>5, <1>6 DEF IInv, TypeOK, RowRec
  <2>2. exec' \in [Worker -> [Run -> ExecRec]]
    <3>1. CASE Recoverable(r)
      <4>1. ASSUME NEW v \in Worker
            PROVE  exec'[v] \in [Run -> ExecRec]
        <5>1. exec'[v] = [exec[v] EXCEPT ![r] = [@ EXCEPT !.current = FALSE]]
            BY <1>6, <3>1
        <5>2. DOMAIN exec[v] = Run
            BY DEF IInv, TypeOK
        <5>3. exec'[v] = [q \in Run |-> exec'[v][q]]
            BY <5>1, <5>2
        <5> QED BY <1>7, <5>3
      <4> QED BY <1>6, <3>1, <4>1
    <3>2. CASE ~Recoverable(r)
        BY <1>6, <3>2 DEF IInv, TypeOK, ExecRec
    <3> QED BY <3>1, <3>2
  <2>3. drain' \in [Worker -> DrainRec]
    BY <1>4, <1>6 DEF IInv, TypeOK, DrainRec
  <2> QED BY <1>6, <2>1, <2>2, <2>3 DEF IInv, TypeOK, RowRec, ExecRec, DrainRec
<1>11. OwnedRuns'
    BY <1>5, <1>9 DEF IInv, OwnedRuns
<1>12. OwnerIsCurrent'
  <2> SUFFICES ASSUME NEW v \in Worker, NEW q \in Run,
                      row'[q].owner = v, exec'[v][q].at # "none"
               PROVE  exec'[v][q].current
    BY DEF OwnerIsCurrent
  <2>1. CASE q = r /\ Recoverable(r)
    BY <1>3, <1>5, <1>7, <1>9, <2>1
  <2>2. CASE ~(q = r /\ Recoverable(r))
    BY <1>6, <1>7, <1>9, <2>2 DEF IInv, OwnerIsCurrent
  <2> QED BY <2>1, <2>2
<1>13. DrainsFit'
  <2>1. \A v \in Worker : drain'[v] = IF v = w THEN d ELSE drain[v]
    BY <1>6 DEF IInv, TypeOK
  <2>2. \A v \in Worker : Cardinality(InFlight(v)') = Cardinality(InFlight(v)) /\ dispose'[v] = dispose[v]
    BY <1>6, <1>8
  <2> QED BY <1>1, <1>3, <1>4, <2>1, <2>2 DEF IInv, DrainsFit
<1>14. StoppedIsIdle'
    BY <1>6, <1>8 DEF IInv, StoppedIsIdle
<1> QED BY <1>10, <1>11, <1>12, <1>13, <1>14 DEF IInv

\* What is started counts for what is left of the drain's slots.
LEMMA ClaimAnswersKeeps ==
    ASSUME IInv, NEW w \in Worker, ClaimAnswers(w)
    PROVE  IInv'
<1> DEFINE r == drain[w].run
           e == [at |-> "granting", reason |-> "none", current |-> Owns(w, r)]
<1>1. /\ drain[w] \in DrainRec /\ drain[w].slots \in Nat /\ drain[w].slots > 0 /\ r \in Run
      /\ drain[w].page \in SUBSET Run /\ drain[w].slots + Cardinality(InFlight(w)) <= Concurrency[w]
    BY DEF ClaimAnswers, IInv, TypeOK, DrainRec, DrainsFit
<1>2. CASE Stopped(w)
    BY <1>2, DrainEndsKeeps DEF ClaimAnswers
<1>3. CASE ~Stopped(w) /\ drain[w].at = "refused"
  <2>1. PICK d \in DrainRec : /\ d = Drain("claiming", drain[w].page, drain[w].slots, 0)
                              /\ d.at = "claiming" /\ d.slots = drain[w].slots
    BY <1>1, DrainIsTyped, AgentAssumption
  <2>2. drain' = [drain EXCEPT ![w] = d] /\ UNCHANGED <<row, dispose, exec, cancel>>
    BY <1>3, <2>1 DEF ClaimAnswers, SetDrain
  <2>3. TypeOK'
    BY <2>1, <2>2 DEF IInv, TypeOK, DrainRec
  <2>4. OwnedRuns' /\ OwnerIsCurrent' /\ StoppedIsIdle'
    BY <2>2 DEF IInv, OwnedRuns, OwnerIsCurrent, StoppedIsIdle, InFlight
  <2>5. DrainsFit'
    <3>1. \A v \in Worker : InFlight(v)' = InFlight(v)
        BY <2>2 DEF InFlight
    <3>2. \A v \in Worker : drain'[v] = IF v = w THEN d ELSE drain[v]
        BY <2>2 DEF IInv, TypeOK
    <3> QED BY <1>1, <1>3, <2>1, <2>2, <3>1, <3>2 DEF IInv, DrainsFit, Stopped
  <2> QED BY <2>3, <2>4, <2>5 DEF IInv
<1>4. CASE ~Stopped(w) /\ drain[w].at = "claimed"
  <2>1. PICK d \in DrainRec : /\ d = Drain("claiming", drain[w].page, drain[w].slots - 1, 0)
                              /\ d.at = "claiming" /\ d.slots = drain[w].slots - 1
    BY <1>1, DrainIsTyped, AgentAssumption
  <2>2. drain' = [drain EXCEPT ![w] = d] /\ UNCHANGED <<row, dispose, cancel>>
        /\ exec' = [exec EXCEPT ![w] = [@ EXCEPT ![r] = e]]
    BY <1>4, <2>1 DEF ClaimAnswers, SetDrain, SetExec, Left
  <2>3. e \in ExecRec /\ e.at = "granting" /\ e.current = Owns(w, r)
    BY DEF ExecRec, Owns
  <2> HIDE DEF e
  <2>4. \A v \in Worker, q \in Run : exec'[v][q] = IF v = w /\ q = r THEN e ELSE exec[v][q]
    BY <1>1, <2>2 DEF IInv, TypeOK
  <2>5. \A v \in Worker : drain'[v] = IF v = w THEN d ELSE drain[v]
    BY <2>2 DEF IInv, TypeOK
  <2> HIDE DEF r
  <2>6. TypeOK'
    BY <1>1, <2>1, <2>2, <2>3 DEF IInv, TypeOK, DrainRec, ExecRec
  <2>7. OwnedRuns'
    BY <2>2 DEF IInv, OwnedRuns
  <2>8. OwnerIsCurrent'
    <3> SUFFICES ASSUME NEW v \in Worker, NEW q \in Run,
                        row[q].owner = v, exec'[v][q].at # "none"
                 PROVE  exec'[v][q].current
        BY <2>2 DEF OwnerIsCurrent
    <3>1. CASE v = w /\ q = r
      <4>1. Owns(w, r)
        BY <3>1, AgentAssumption DEF IInv, OwnedRuns, Owns
      <4> QED BY <2>3, <2>4, <3>1, <4>1
    <3>2. CASE ~(v = w /\ q = r)
        BY <2>4, <3>2 DEF IInv, OwnerIsCurrent
    <3> QED BY <3>1, <3>2
  <2>9. DrainsFit'
    <3> SUFFICES ASSUME NEW v \in Worker
                 PROVE  /\ drain'[v].at = "idle" => drain'[v] = NoDrain
                        /\ drain'[v].at \in {"claimed", "refused"} =>
                              drain'[v].run \in Run /\ drain'[v].slots > 0
                        /\ drain'[v].at # "idle" => dispose'[v] \in {"started", "draining"}
                        /\ drain'[v].slots + Cardinality(InFlight(v)') <= Concurrency[v]
        BY DEF DrainsFit
    <3>1. CASE v = w
      <4>1. InFlight(w)' \subseteq InFlight(w) \cup {r}
        BY <2>4 DEF InFlight
      <4>2. /\ Cardinality(InFlight(w)') <= Cardinality(InFlight(w)) + 1
            /\ Cardinality(InFlight(w)') \in Nat /\ Cardinality(InFlight(w)) \in Nat
        BY <4>1, FlightGrows
      <4>3. Concurrency[w] \in Nat
        BY AgentAssumption
      <4> QED BY <1>1, <1>4, <2>1, <2>2, <2>5, <3>1, <4>2, <4>3 DEF Stopped
    <3>2. CASE v # w
      <4>1. InFlight(v)' = InFlight(v)
        BY <2>4, <3>2 DEF InFlight
      <4> QED BY <2>2, <2>5, <3>2, <4>1 DEF IInv, DrainsFit
    <3> QED BY <3>1, <3>2
  <2>10. StoppedIsIdle'
    <3>1. \A v \in Worker : v # w => InFlight(v)' = InFlight(v)
        BY <2>4 DEF InFlight
    <3> QED BY <1>4, <2>2, <3>1 DEF IInv, StoppedIsIdle, Stopped
  <2> QED BY <2>6, <2>7, <2>8, <2>9, <2>10 DEF IInv
<1> QED BY <1>2, <1>3, <1>4 DEF ClaimAnswers

LEMMA NextKeeps == IInv /\ [Next]_vars => IInv'
<1> SUFFICES ASSUME IInv, [Next]_vars PROVE IInv'
    OBVIOUS
<1>1. CASE UNCHANGED vars
  <2>1. TypeOK' /\ RowsStay /\ ExecsStay /\ DrainsStay /\ StoppedIsIdle'
    BY <1>1 DEF vars, IInv, TypeOK, RowsStay, ExecsStay, DrainsStay, OwnedRuns,
                StoppedIsIdle, InFlight
  <2> QED BY <2>1, QuietStep
<1>2. ASSUME NEW r \in Run, Enqueue(r) \/ CancelReads(r) \/ Lapses(r) PROVE IInv'
    BY <1>2, RequestsKeep
<1>3. ASSUME NEW w \in Worker, NEW r \in Run,
             CancelWrites(w, r) \/ Execution(w, r) \/ Renews(w, r) \/ EventRefused(w, r)
      PROVE  IInv'
    BY <1>3, ExecutionKeeps
<1>4. ASSUME NEW w \in Worker, Drains(w) \/ DrainRaises(w) PROVE IInv'
  <2>1. CASE DrainEnds(w) \/ DrainRaises(w)
    BY <2>1, DrainEndsKeeps DEF DrainEnds, DrainRaises
  <2> QED BY <1>4, <2>1, DrainBeginsKeeps, ClaimsKeeps, ClaimAnswersKeeps DEF Drains
<1>5. ASSUME NEW w \in Worker, Starts(w) \/ Disposes(w) \/ Stopping(w) \/ Crash(w) PROVE IInv'
    BY <1>5, DisposeKeeps
<1> QED BY <1>1, <1>2, <1>3, <1>4, <1>5 DEF Next

LEMMA IInvHolds == Spec => []IInv
    BY InitHolds, NextKeeps, PTL DEF Spec

-----------------------------------------------------------------------------
\* The queue, the drains and the executions of every worker keep their types.
THEOREM TypeCorrect == Spec => []TypeOK
<1>1. IInv => TypeOK
    BY DEF IInv
<1> QED BY <1>1, IInvHolds, PTL

\* The fence on the owner of a lease is enough: what its owner still executes is
\* what the run was last claimed for, so no result of an older attempt settles it.
THEOREM OwnerExecutesItsClaim == Spec => []OwnerIsCurrent
<1>1. IInv => OwnerIsCurrent
    BY DEF IInv
<1> QED BY <1>1, IInvHolds, PTL

\* The slots counted once for a whole drain are never overdrawn.
THEOREM ConcurrencyIsKept == Spec => []WithinConcurrency
<1>1. IInv => WithinConcurrency
  <2> SUFFICES ASSUME IInv, NEW w \in Worker PROVE Cardinality(InFlight(w)) <= Concurrency[w]
    BY DEF WithinConcurrency
  <2>1. drain[w].slots \in Nat /\ Concurrency[w] \in Nat /\ Cardinality(InFlight(w)) \in Nat
    BY FlightIsFinite, AgentAssumption DEF IInv, TypeOK
  <2> QED BY <2>1 DEF IInv, DrainsFit
<1> QED BY <1>1, IInvHolds, PTL

\* A worker whose dispose() has resolved runs nothing and drains nothing.
THEOREM DisposeDrains == Spec => []StoppedHasDrained
<1>1. IInv => StoppedHasDrained
  <2> SUFFICES ASSUME IInv, NEW w \in Worker, dispose[w] = "stopped"
               PROVE  InFlight(w) = {} /\ drain[w] = NoDrain
    BY DEF StoppedHasDrained
  <2> QED BY DEF IInv, DrainsFit, StoppedIsIdle
<1> QED BY <1>1, IInvHolds, PTL

=============================================================================
