-------------------------- MODULE ExportJobsProofs --------------------------
(***************************************************************************)
(* ExportJobs implements ExportLedger, and keeps the files of completed    *)
(* jobs, for any number of processes, jobs and troubles, any page and any  *)
(* batch.                                                                  *)
(*                                                                         *)
(* The step that needs an argument is the settle: the file it names is     *)
(* stored, holds rows of its job and is named by no other.  That rests on  *)
(* every stage holding a file of its own from the moment it names it, on   *)
(* no row naming the file of a stage that still writes, and on retention   *)
(* and rotation touching only files of settled rows they have locked.      *)
(***************************************************************************)
EXTENDS ExportJobs, FiniteSetTheorems, TLAPS

RowStatus == {"absent", "requested", "running", "completed", "failed", "swept"}
Row == [status : RowStatus, file : File \cup {NoFile}, claim : Process \cup {None}]
Stage == [at : At, job : 0 .. Jobs, file : File \cup {NoFile},
          recorded : BOOLEAN, aborted : BOOLEAN]

Typed ==
    /\ row \in [Job -> Row]
    /\ store \in SUBSET File
    /\ minted \in [Job -> Nat]
    /\ route \in [Process -> [queue : Seq(Job), refillable : BOOLEAN]]
    /\ stage \in [Process -> Stage]
    /\ sweep \in [open : BOOLEAN, batch : SUBSET Job, left : SUBSET Job]
    /\ rotation \in [job : 0 .. Jobs, file : File \cup {NoFile}]

\* A file belongs to a job and to one row or stage from the moment it is named.
Owned(f, j) == f[1] = j /\ f[2] <= minted[j]

RowsOwn == \A j \in Job :
    row[j].file # NoFile => Owned(row[j].file, j) /\ row[j].status = "completed"

StagesOwn == \A p \in Process :
    /\ stage[p].at # "idle" => stage[p].job \in Job /\ row[stage[p].job].status # "absent"
    /\ stage[p].file # NoFile => Owned(stage[p].file, stage[p].job) /\ stage[p].at # "idle"
    /\ stage[p].at = "settling" => stage[p].file \in store

StagesDiffer == \A p, q \in Process :
    stage[p].file = stage[q].file /\ stage[p].file # NoFile => p = q

\* What a stage still writes no row names.
WritesAreUnnamed == \A p \in Process :
    stage[p].at \in {"writing", "settling"} =>
        stage[p].file # NoFile /\ \A j \in Job : row[j].file # stage[p].file

\* Retention and rotation hold rows that nobody else changes.
LocksHold ==
    /\ sweep.left \subseteq sweep.batch
    /\ \A j \in sweep.batch : row[j].status \in {"completed", "failed"}
    /\ \A j \in sweep.left : row[j].file # NoFile
    /\ rotation.file # NoFile =>
        /\ rotation.job \in Job \ sweep.batch
        /\ row[rotation.job].file = rotation.file

IInv == Typed /\ RowsOwn /\ StagesOwn /\ StagesDiffer /\ WritesAreUnnamed /\ LocksHold

-----------------------------------------------------------------------------
LEMMA FilesAreFiles ==
    /\ NoFile \notin File
    /\ \A f \in File : f = <<f[1], f[2]>> /\ f[1] \in Job /\ f[2] \in 1 .. MaxFiles
    /\ \A j \in Job, n \in 1 .. MaxFiles : <<j, n>> \in File
    /\ MaxFiles \in Nat
    BY ExportAssumption DEF NoFile, File, Job, MaxFiles

LEMMA NoStageIsTyped == NoStage \in Stage
    BY ExportAssumption DEF NoStage, Stage, At

\* What a process routes is all that changes.
LEMMA RoutingKeepsInv ==
    ASSUME IInv, UNCHANGED <<row, store, minted, stage, sweep, rotation>>,
           route' \in [Process -> [queue : Seq(Job), refillable : BOOLEAN]]
    PROVE  IInv'
<1>1. Typed'
    BY DEF IInv, Typed
<1>2. RowsOwn' /\ StagesOwn'
    BY DEF IInv, RowsOwn, StagesOwn, Owned
<1>3. StagesDiffer' /\ WritesAreUnnamed' /\ LocksHold'
    BY DEF IInv, StagesDiffer, WritesAreUnnamed, LocksHold
<1> QED BY <1>1, <1>2, <1>3 DEF IInv

\* What the edits of a stage leave.
LEMMA StageEdits ==
    ASSUME NEW s \in Stage, NEW a \in At
    PROVE  LET t == [s EXCEPT !.at = a]
           IN  t \in Stage /\ t.at = a /\ t.job = s.job /\ t.file = s.file
    BY DEF Stage

LEMMA StageRecords ==
    ASSUME NEW s \in Stage, NEW b \in BOOLEAN
    PROVE  LET t == [s EXCEPT !.at = "ending", !.recorded = b]
           IN  t \in Stage /\ t.at = "ending" /\ t.job = s.job /\ t.file = s.file
    BY DEF Stage, At

LEMMA CaughtIsLate ==
    ASSUME NEW s \in Stage
    PROVE  /\ Caught(s) \in Stage /\ Caught(s).at \in {"failing", "ending"}
           /\ Caught(s).job = s.job /\ Caught(s).file = s.file
<1>1. \A a \in At : LET t == [s EXCEPT !.at = a]
                    IN  t \in Stage /\ t.at = a /\ t.job = s.job /\ t.file = s.file
    BY StageEdits
<1>2. PICK a \in {"failing", "ending"} : Caught(s) = [s EXCEPT !.at = a]
    BY DEF Caught
<1>3. a \in At
    BY DEF At
<1> QED BY <1>1, <1>2, <1>3

\* A row of a job that has not settled moves on, and names no file.
LEMMA RowMoves ==
    ASSUME IInv, NEW j \in Job, NEW r \in Row, row' = [row EXCEPT ![j] = r],
           row[j].file = NoFile, r.file = NoFile, r.status # "absent",
           row[j].status \notin {"completed", "failed"},
           UNCHANGED <<store, minted, stage, sweep, rotation>>,
           route' \in [Process -> [queue : Seq(Job), refillable : BOOLEAN]]
    PROVE  IInv'
<1>1. Typed'
    BY DEF IInv, Typed
<1>2. \A k \in Job : row'[k] = IF k = j THEN r ELSE row[k]
    BY DEF IInv, Typed
<1>3. RowsOwn'
    BY <1>2 DEF IInv, RowsOwn, Owned
<1>4. StagesOwn'
    BY <1>2 DEF IInv, StagesOwn, Owned
<1>5. StagesDiffer'
    BY DEF IInv, StagesDiffer
<1>6. WritesAreUnnamed'
    BY <1>2 DEF IInv, WritesAreUnnamed
<1>7. LocksHold'
  <2>1. j \notin sweep.batch /\ j \notin sweep.left
    BY DEF IInv, LocksHold
  <2>2. rotation.file # NoFile => rotation.job # j
    BY DEF IInv, LocksHold
  <2>3. sweep.left \subseteq Job /\ sweep.batch \subseteq Job
    BY DEF IInv, Typed
  <2> QED BY <1>2, <2>1, <2>2, <2>3 DEF IInv, LocksHold
<1> QED BY <1>1, <1>3, <1>4, <1>5, <1>6, <1>7 DEF IInv

\* A stage goes on with the job and the file it has, having stored it if it
\* is to settle.
LEMMA StageAdvances ==
    ASSUME IInv, NEW p \in Process, NEW s \in Stage, stage' = [stage EXCEPT ![p] = s],
           stage[p].at # "idle", s.job = stage[p].job, s.file = stage[p].file,
           s.at \in {"settling", "failing", "ending"},
           s.at = "settling" => stage[p].at = "writing" /\ s.file \in store',
           store \subseteq store', store' \in SUBSET File,
           UNCHANGED <<row, minted, route, sweep, rotation>>
    PROVE  IInv'
<1>1. Typed'
    BY DEF IInv, Typed
<1>2. \A q \in Process : stage'[q] = IF q = p THEN s ELSE stage[q]
    BY DEF IInv, Typed
<1>3. RowsOwn'
    BY DEF IInv, RowsOwn, Owned
<1>4. StagesOwn'
  <2> SUFFICES ASSUME NEW q \in Process
               PROVE  /\ stage'[q].at # "idle" =>
                            stage'[q].job \in Job /\ row[stage'[q].job].status # "absent"
                      /\ stage'[q].file # NoFile =>
                            Owned(stage'[q].file, stage'[q].job) /\ stage'[q].at # "idle"
                      /\ stage'[q].at = "settling" => stage'[q].file \in store'
    BY DEF StagesOwn, Owned
  <2>1. CASE q = p
    BY <1>2, <2>1 DEF IInv, StagesOwn
  <2>2. CASE q # p
    BY <1>2, <2>2 DEF IInv, StagesOwn
  <2> QED BY <2>1, <2>2
<1>5. StagesDiffer'
  <2>1. \A q \in Process : stage'[q].file = stage[q].file
    BY <1>2
  <2> QED BY <2>1 DEF IInv, StagesDiffer
<1>6. WritesAreUnnamed'
  <2>1. \A q \in Process : /\ stage'[q].file = stage[q].file
                            /\ stage'[q].at \in {"writing", "settling"} =>
                                    stage[q].at \in {"writing", "settling"}
    BY <1>2
  <2> QED BY <2>1 DEF IInv, WritesAreUnnamed
<1>7. LocksHold'
    BY DEF IInv, LocksHold
<1> QED BY <1>1, <1>3, <1>4, <1>5, <1>6, <1>7 DEF IInv

\* A stage whose job is settled, by it or by another, has nothing to write.
LEMMA SettlingAdvances ==
    ASSUME IInv, NEW p \in Process, NEW s \in Stage, stage' = [stage EXCEPT ![p] = s],
           stage[p].at # "idle", s.job = stage[p].job, s.file = stage[p].file,
           s.at \in {"failing", "ending"},
           NEW x \in {"completed", "failed"},
           x = "completed" => stage[p].at = "settling",
           SettleRow(stage[p].job, x, IF x = "completed" THEN stage[p].file ELSE NoFile),
           UNCHANGED <<store, minted, route, sweep, rotation>>
    PROVE  IInv'
<1> DEFINE j == stage[p].job
           f == IF x = "completed" THEN stage[p].file ELSE NoFile
           r == [status |-> x, file |-> f, claim |-> None]
<1>1. j \in Job /\ f \in File \cup {NoFile} /\ r \in Row /\ r.file = f /\ r.status = x
    BY DEF IInv, StagesOwn, Typed, Stage, Row, RowStatus
<1>2. CASE ~Settleable(j)
  <2>1. row' = row
    BY <1>2 DEF SettleRow
  <2> QED BY <2>1, StageAdvances DEF IInv, Typed
<1>3. CASE Settleable(j)
  <2>1. row' = [row EXCEPT ![j] = r]
    BY <1>3 DEF SettleRow
  <2> HIDE DEF r
  <2>2. \A k \in Job : row'[k] = IF k = j THEN r ELSE row[k]
    BY <1>1, <2>1 DEF IInv, Typed
  <2>3. \A q \in Process : stage'[q] = IF q = p THEN s ELSE stage[q]
    BY DEF IInv, Typed
  <2>4. row[j].status = "running" /\ row[j].file = NoFile
    BY <1>1, <1>3 DEF Settleable, Status, IInv, RowsOwn
  <2>5. x = "completed" => f # NoFile /\ Owned(f, j) /\ \A k \in Job : row[k].file # f
    BY DEF IInv, StagesOwn, WritesAreUnnamed
  <2>6. Typed'
    BY <1>1, <2>1 DEF IInv, Typed
  <2>7. RowsOwn'
    BY <1>1, <2>2, <2>5 DEF IInv, RowsOwn, Owned
  <2>8. StagesOwn'
    <3> SUFFICES ASSUME NEW q \in Process
                 PROVE  /\ stage'[q].at # "idle" =>
                              stage'[q].job \in Job /\ row'[stage'[q].job].status # "absent"
                        /\ stage'[q].file # NoFile =>
                              Owned(stage'[q].file, stage'[q].job) /\ stage'[q].at # "idle"
                        /\ stage'[q].at = "settling" => stage'[q].file \in store
        BY DEF StagesOwn, Owned
    <3>1. CASE q = p
        BY <1>1, <2>2, <2>3, <3>1 DEF IInv, StagesOwn
    <3>2. CASE q # p
        BY <1>1, <2>2, <2>3, <3>2 DEF IInv, StagesOwn
    <3> QED BY <3>1, <3>2
  <2>9. StagesDiffer'
    <3>1. \A q \in Process : stage'[q].file = stage[q].file
        BY <2>3
    <3> QED BY <3>1 DEF IInv, StagesDiffer
  <2>10. WritesAreUnnamed'
    <3> SUFFICES ASSUME NEW q \in Process, stage'[q].at \in {"writing", "settling"}
                 PROVE  stage'[q].file # NoFile /\ \A k \in Job : row'[k].file # stage'[q].file
        BY DEF WritesAreUnnamed
    <3>1. q # p /\ stage'[q] = stage[q]
        BY <2>3
    <3>2. stage[q].file # NoFile /\ \A k \in Job : row[k].file # stage[q].file
        BY <3>1 DEF IInv, WritesAreUnnamed
    <3>3. stage[q].file # f
        BY <3>1, <3>2 DEF IInv, StagesDiffer
    <3> QED BY <1>1, <2>2, <3>1, <3>2, <3>3
  <2>11. LocksHold'
    <3>1. j \notin sweep.batch /\ j \notin sweep.left /\ (rotation.file # NoFile => rotation.job # j)
        BY <2>4 DEF IInv, LocksHold
    <3>2. sweep.left \subseteq Job /\ sweep.batch \subseteq Job
        BY DEF IInv, Typed
    <3> QED BY <2>2, <3>1, <3>2 DEF IInv, LocksHold
  <2> QED BY <2>6, <2>7, <2>8, <2>9, <2>10, <2>11 DEF IInv
<1> QED BY <1>2, <1>3

\* A stage that has ended, or was never begun, holds nothing; its file may go.
LEMMA StageGoes ==
    ASSUME IInv, NEW p \in Process, stage' = [stage EXCEPT ![p] = NoStage],
           store' \in {store, store \ {stage[p].file}},
           store' = store \/ stage[p].at = "ending",
           UNCHANGED <<row, minted, sweep, rotation>>,
           route' \in [Process -> [queue : Seq(Job), refillable : BOOLEAN]]
    PROVE  IInv'
<1>1. Typed'
    BY NoStageIsTyped DEF IInv, Typed
<1>2. \A q \in Process : stage'[q] = IF q = p THEN NoStage ELSE stage[q]
    BY DEF IInv, Typed
<1>3. NoStage.at = "idle" /\ NoStage.file = NoFile
    BY DEF NoStage
<1>4. RowsOwn' /\ LocksHold'
    BY DEF IInv, RowsOwn, Owned, LocksHold
<1>5. StagesOwn'
  <2> SUFFICES ASSUME NEW q \in Process, q # p
               PROVE  /\ stage[q].at # "idle" =>
                            stage[q].job \in Job /\ row[stage[q].job].status # "absent"
                      /\ stage[q].file # NoFile =>
                            Owned(stage[q].file, stage[q].job) /\ stage[q].at # "idle"
                      /\ stage[q].at = "settling" => stage[q].file \in store'
    BY <1>2, <1>3 DEF StagesOwn, Owned
  <2>1. stage[q].at = "settling" => stage[q].file # NoFile /\ stage[q].file # stage[p].file
    BY DEF IInv, StagesDiffer, WritesAreUnnamed
  <2> QED BY <2>1 DEF IInv, StagesOwn
<1>6. StagesDiffer'
    BY <1>2, <1>3 DEF IInv, StagesDiffer
<1>7. WritesAreUnnamed'
    BY <1>2, <1>3 DEF IInv, WritesAreUnnamed
<1> QED BY <1>1, <1>4, <1>5, <1>6, <1>7 DEF IInv

-----------------------------------------------------------------------------
LEMMA InitKeepsInv == Init => IInv
<1> SUFFICES ASSUME Init PROVE IInv
    OBVIOUS
<1>1. row \in [Job -> Row]
    BY DEF Init, Row, RowStatus
<1>2. stage \in [Process -> Stage]
    BY NoStageIsTyped DEF Init
<1>3. route \in [Process -> [queue : Seq(Job), refillable : BOOLEAN]]
    BY DEF Init, Empty
<1>4. rotation \in [job : 0 .. Jobs, file : File \cup {NoFile}]
    BY ExportAssumption DEF Init, Unlocked
<1>5. sweep \in [open : BOOLEAN, batch : SUBSET Job, left : SUBSET Job]
    BY DEF Init, Unswept
<1>6. minted \in [Job -> Nat] /\ store \in SUBSET File
    BY DEF Init
<1>7. RowsOwn /\ LocksHold
    BY DEF Init, RowsOwn, LocksHold, Unswept, Unlocked
<1>8. StagesOwn /\ StagesDiffer /\ WritesAreUnnamed
    BY DEF Init, StagesOwn, StagesDiffer, WritesAreUnnamed, NoStage
<1> QED BY <1>1, <1>2, <1>3, <1>4, <1>5, <1>6, <1>7, <1>8 DEF IInv, Typed

\* The routing rows of a process name jobs.
LEMMA RouteIsTyped ==
    ASSUME Typed, NEW p \in Process
    PROVE  /\ Empty \in [queue : Seq(Job), refillable : BOOLEAN]
           /\ route[p].queue # <<>> =>
                /\ NextRouted(p) \in [queue : Seq(Job), refillable : BOOLEAN]
                /\ Head(route[p].queue) \in Job
<1>1. Empty \in [queue : Seq(Job), refillable : BOOLEAN]
    BY DEF Empty
<1>2. route[p] \in [queue : Seq(Job), refillable : BOOLEAN] /\ route[p].queue \in Seq(Job)
    BY DEF Typed
<1>3. route[p].queue # <<>> => Head(route[p].queue) \in Job /\ Tail(route[p].queue) \in Seq(Job)
    BY <1>2
<1> QED BY <1>1, <1>2, <1>3 DEF NextRouted

LEMMA RoutesKeepInv ==
    ASSUME IInv, NEW p \in Process, ClaimsNothing(p) \/ ReadsPage(p) \/ Skip(p)
    PROVE  IInv'
<1>1. UNCHANGED <<row, store, minted, stage, sweep, rotation>>
    BY DEF ClaimsNothing, ReadsPage, Skip
<1>2. PICK r \in [queue : Seq(Job), refillable : BOOLEAN] : route' = [route EXCEPT ![p] = r]
  <2>1. CASE ClaimsNothing(p)
    BY <2>1, RouteIsTyped DEF ClaimsNothing, SetRoute, IInv
  <2>2. CASE Skip(p)
    BY <2>2, RouteIsTyped DEF Skip, SetRoute, Routing, IInv
  <2>3. CASE ReadsPage(p)
    <3>1. PICK q \in [1 .. PageSize -> Pending] :
            SetRoute(p, IF Pending = {} THEN Empty
                        ELSE [queue |-> q, refillable |-> PageSize = Page])
        BY <2>3 DEF ReadsPage
    <3>2. PageSize \in Nat
      <4>1. Pending \subseteq Job /\ IsFiniteSet(Job)
        BY ExportAssumption, FS_Interval DEF Pending, Job
      <4>2. Cardinality(Pending) \in Nat
        BY <4>1, FS_Subset, FS_CardinalityType
      <4> QED BY <4>2, ExportAssumption DEF PageSize
    <3>3. q \in Seq(Job)
        BY <3>1, <3>2 DEF Pending
    <3> QED BY <3>1, <3>3, RouteIsTyped DEF SetRoute, IInv
  <2> QED BY <2>1, <2>2, <2>3
<1>3. route' \in [Process -> [queue : Seq(Job), refillable : BOOLEAN]]
    BY <1>2 DEF IInv, Typed
<1> QED BY <1>1, <1>3, RoutingKeepsInv

LEMMA RequestKeepsInv ==
    ASSUME IInv, NEW j \in Job, Request(j) PROVE IInv'
<1>1. row[j] \in Row /\ row[j].status = "absent" /\ row[j].file = NoFile
    BY DEF IInv, Typed, Request, Status, RowsOwn
<1>2. [row[j] EXCEPT !.status = "requested"] \in Row
      /\ [row[j] EXCEPT !.status = "requested"].file = NoFile
      /\ [row[j] EXCEPT !.status = "requested"].status = "requested"
    BY <1>1 DEF Row, RowStatus
<1>3. row' = [row EXCEPT ![j] = [row[j] EXCEPT !.status = "requested"]]
    BY DEF Request, IInv, Typed
<1>4. UNCHANGED <<store, minted, stage, sweep, rotation, route>>
    BY DEF Request
<1> QED BY <1>1, <1>2, <1>3, <1>4, RowMoves DEF IInv, Typed

\* A claimed row is a row, and names no file.
LEMMA ClaimedRow ==
    ASSUME IInv, NEW j \in Job, Claimable(j), NEW c \in Process \cup {None},
           row' = [row EXCEPT ![j] = [@ EXCEPT !.status = "running", !.claim = c]]
    PROVE  \E r \in Row : /\ row' = [row EXCEPT ![j] = r]
                          /\ r.file = NoFile /\ r.status = "running"
                          /\ row[j].file = NoFile /\ row[j].status \in {"requested", "running"}
<1>1. row[j] \in Row /\ row[j].status \in {"requested", "running"} /\ row[j].file = NoFile
    BY DEF IInv, Typed, Claimable, Status, RowsOwn
<1> DEFINE r == [row[j] EXCEPT !.status = "running", !.claim = c]
<1>2. r \in Row /\ r.file = NoFile /\ r.status = "running"
    BY <1>1 DEF Row, RowStatus
<1>3. row' = [row EXCEPT ![j] = r]
    BY DEF IInv, Typed
<1> HIDE DEF r
<1> QED BY <1>1, <1>2, <1>3

LEMMA ClaimKeepsInv ==
    ASSUME IInv, NEW p \in Process, Claim(p) PROVE IInv'
<1> DEFINE j == Head(route[p].queue)
           s == [NoStage EXCEPT !.at = "walking", !.job = j]
<1>1. j \in Job /\ route' \in [Process -> [queue : Seq(Job), refillable : BOOLEAN]]
    BY RouteIsTyped DEF Claim, Routing, IInv, Typed, SetRoute
<1>2. Claimable(j) /\ row' = [row EXCEPT ![j] = [@ EXCEPT !.status = "running", !.claim = p]]
    BY DEF Claim
<1>3. stage' = [stage EXCEPT ![p] = s] /\ stage[p].at = "idle"
    BY DEF Claim, SetStage, Routing, Idle
<1>4. s \in Stage /\ s.at = "walking" /\ s.job = j /\ s.file = NoFile
  <2> HIDE DEF j
  <2>1. j \in 0 .. Jobs
    BY <1>1, ExportAssumption DEF Job
  <2> QED BY <2>1, ExportAssumption DEF NoStage, Stage, At
<1>5. UNCHANGED <<store, minted, sweep, rotation>>
    BY DEF Claim
<1>6. PICK r \in Row : /\ row' = [row EXCEPT ![j] = r]
                       /\ r.file = NoFile /\ r.status = "running"
                       /\ row[j].file = NoFile /\ row[j].status \in {"requested", "running"}
    BY <1>1, <1>2, ClaimedRow
<1> HIDE DEF j, s
<1>7. Typed'
    BY <1>1, <1>3, <1>4, <1>5, <1>6 DEF IInv, Typed
<1>8. /\ \A k \in Job : row'[k] = IF k = j THEN r ELSE row[k]
      /\ \A q \in Process : stage'[q] = IF q = p THEN s ELSE stage[q]
    BY <1>1, <1>3, <1>6 DEF IInv, Typed
<1>9. RowsOwn'
    BY <1>5, <1>6, <1>8 DEF IInv, RowsOwn, Owned
<1>10. StagesOwn'
  <2> SUFFICES ASSUME NEW q \in Process
               PROVE  /\ stage'[q].at # "idle" =>
                            stage'[q].job \in Job /\ row'[stage'[q].job].status # "absent"
                      /\ stage'[q].file # NoFile =>
                            Owned(stage'[q].file, stage'[q].job) /\ stage'[q].at # "idle"
                      /\ stage'[q].at = "settling" => stage'[q].file \in store
    BY <1>5 DEF StagesOwn, Owned
  <2>1. CASE q = p
    BY <1>1, <1>4, <1>6, <1>8, <2>1
  <2>2. CASE q # p
    BY <1>1, <1>6, <1>8, <2>2 DEF IInv, StagesOwn
  <2> QED BY <2>1, <2>2
<1>11. StagesDiffer' /\ WritesAreUnnamed'
    BY <1>4, <1>6, <1>8 DEF IInv, StagesDiffer, WritesAreUnnamed
<1>12. LocksHold'
  <2>1. j \notin sweep.batch /\ j \notin sweep.left /\ (rotation.file # NoFile => rotation.job # j)
    BY <1>6 DEF IInv, LocksHold
  <2>2. sweep.left \subseteq Job /\ sweep.batch \subseteq Job
    BY DEF IInv, Typed
  <2> QED BY <1>5, <1>8, <2>1, <2>2 DEF IInv, LocksHold
<1> QED BY <1>7, <1>9, <1>10, <1>11, <1>12 DEF IInv

LEMMA ClaimRaisesKeepsInv ==
    ASSUME IInv, NEW p \in Process, ClaimRaises(p) PROVE IInv'
<1> DEFINE j == Head(route[p].queue)
<1>1. j \in Job /\ route' \in [Process -> [queue : Seq(Job), refillable : BOOLEAN]]
    BY RouteIsTyped DEF ClaimRaises, Routing, IInv, Typed, SetRoute
<1>2. UNCHANGED <<store, minted, stage, sweep, rotation>>
    BY DEF ClaimRaises
<1>3. \/ row' = row
      \/ /\ Claimable(j)
         /\ row' = [row EXCEPT ![j] = [@ EXCEPT !.status = "running", !.claim = None]]
    BY DEF ClaimRaises
<1> HIDE DEF j
<1>4. CASE row' = row
    BY <1>1, <1>2, <1>4, RoutingKeepsInv
<1>5. CASE /\ Claimable(j)
           /\ row' = [row EXCEPT ![j] = [@ EXCEPT !.status = "running", !.claim = None]]
  <2>1. PICK r \in Row : /\ row' = [row EXCEPT ![j] = r]
                         /\ r.file = NoFile /\ r.status = "running"
                         /\ row[j].file = NoFile /\ row[j].status \in {"requested", "running"}
    BY <1>1, <1>5, ClaimedRow
  <2> QED BY <1>1, <1>2, <2>1, RowMoves
<1> QED BY <1>3, <1>4, <1>5

LEMMA BeatLostKeepsInv ==
    ASSUME IInv, NEW p \in Process, BeatLost(p) PROVE IInv'
<1>1. Typed'
    BY DEF IInv, Typed, BeatLost, SetStage, Stage
<1>2. \A q \in Process : /\ stage'[q].at = stage[q].at /\ stage'[q].job = stage[q].job
                         /\ stage'[q].file = stage[q].file
    BY DEF IInv, Typed, BeatLost, SetStage, Stage
<1>3. UNCHANGED <<row, store, minted, sweep, rotation>>
    BY DEF BeatLost
<1>4. RowsOwn' /\ LocksHold'
    BY <1>3 DEF IInv, RowsOwn, Owned, LocksHold
<1>5. StagesOwn'
    BY <1>2, <1>3 DEF IInv, StagesOwn, Owned
<1>6. StagesDiffer' /\ WritesAreUnnamed'
    BY <1>2, <1>3 DEF IInv, StagesDiffer, WritesAreUnnamed
<1> QED BY <1>1, <1>4, <1>5, <1>6 DEF IInv

LEMMA BeatRaisesKeepsInv ==
    ASSUME IInv, NEW p \in Process, BeatRaises(p) PROVE IInv'
<1>1. stage[p].job \in Job /\ row[stage[p].job] \in Row
    BY DEF BeatRaises, Renews, IInv, StagesOwn, Typed
<1>2. [row[stage[p].job] EXCEPT !.claim = None] \in Row
    BY <1>1 DEF Row
<1>3. Typed'
    BY <1>1, <1>2 DEF IInv, Typed, BeatRaises
<1>4. \A k \in Job : row'[k].status = row[k].status /\ row'[k].file = row[k].file
    BY <1>1 DEF IInv, Typed, BeatRaises, Row
<1>5. UNCHANGED <<store, minted, stage, sweep, rotation>>
    BY DEF BeatRaises
<1>6. RowsOwn'
    BY <1>4, <1>5 DEF IInv, RowsOwn, Owned
<1>7. StagesOwn'
    BY <1>4, <1>5 DEF IInv, StagesOwn, Owned
<1>8. StagesDiffer' /\ WritesAreUnnamed'
    BY <1>4, <1>5 DEF IInv, StagesDiffer, WritesAreUnnamed
<1>9. LocksHold'
  <2>1. sweep.left \subseteq Job /\ sweep.batch \subseteq Job
    BY DEF IInv, Typed
  <2> QED BY <1>4, <1>5, <2>1 DEF IInv, LocksHold
<1> QED BY <1>3, <1>6, <1>7, <1>8, <1>9 DEF IInv

\* The file a stage names is one nobody has named.
LEMMA WalkEndsKeepsInv ==
    ASSUME IInv, NEW p \in Process, WalkEnds(p) PROVE IInv'
<1> DEFINE j == stage[p].job
           f == <<j, minted[j] + 1>>
           s == [stage[p] EXCEPT !.at = "writing", !.file = f]
<1>1. j \in Job /\ minted[j] \in Nat /\ minted[j] < MaxFiles /\ stage[p] \in Stage
    BY DEF WalkEnds, IInv, StagesOwn, Typed
<1>2. f \in File /\ f # NoFile /\ f[1] = j /\ f[2] = minted[j] + 1
    BY <1>1, FilesAreFiles
<1>3. stage' = [stage EXCEPT ![p] = s] /\ minted' = [minted EXCEPT ![j] = minted[j] + 1]
    BY DEF WalkEnds, SetStage, IInv, Typed
<1> HIDE DEF f
<1>4. s \in Stage /\ s.at = "writing" /\ s.job = j /\ s.file = f
    BY <1>1, <1>2 DEF Stage, At
<1>5. UNCHANGED <<row, store, route, sweep, rotation>>
    BY DEF WalkEnds
<1> HIDE DEF j, s
<1>6. Typed'
    BY <1>1, <1>3, <1>4, <1>5 DEF IInv, Typed
<1>7. \A q \in Process : stage'[q] = IF q = p THEN s ELSE stage[q]
    BY <1>3 DEF IInv, Typed
<1>8. \A k \in Job : minted[k] <= minted'[k] /\ minted[k] \in Nat /\ minted'[k] \in Nat
    BY <1>1, <1>3 DEF IInv, Typed
<1>9. minted'[j] = minted[j] + 1
    BY <1>1, <1>3 DEF IInv, Typed
<1>10. \A g \in File, k \in Job :
            Owned(g, k) => g[1] = k /\ g[2] <= minted'[k] /\ g # f
  <2> SUFFICES ASSUME NEW g \in File, NEW k \in Job, Owned(g, k)
               PROVE  g[1] = k /\ g[2] <= minted'[k] /\ g # f
    OBVIOUS
  <2>1. g[2] \in Nat /\ g[1] = k /\ g[2] <= minted[k]
    BY FilesAreFiles DEF Owned
  <2>2. g[2] <= minted'[k]
    BY <1>8, <2>1
  <2>3. g # f
    BY <1>1, <1>2, <2>1
  <2> QED BY <2>1, <2>2, <2>3
<1>11. RowsOwn'
  <2>1. \A k \in Job : row[k].file # NoFile => row[k].file \in File
    BY DEF IInv, Typed, Row
  <2> QED BY <1>5, <1>10, <2>1 DEF IInv, RowsOwn, Owned
<1>12. \A q \in Process : stage[q].file # NoFile =>
            stage[q].file \in File /\ stage[q].job \in Job /\ stage[q].file # f
  <2>1. \A q \in Process : stage[q].file # NoFile =>
            stage[q].file \in File /\ stage[q].job \in Job /\ Owned(stage[q].file, stage[q].job)
    BY DEF IInv, Typed, Stage, StagesOwn
  <2> QED BY <1>10, <2>1
<1>13. StagesOwn'
  <2> DEFINE Mine(g, k) == g[1] = k /\ g[2] <= minted'[k]
  <2> SUFFICES ASSUME NEW q \in Process
               PROVE  /\ stage'[q].at # "idle" =>
                            stage'[q].job \in Job /\ row[stage'[q].job].status # "absent"
                      /\ stage'[q].file # NoFile =>
                            Mine(stage'[q].file, stage'[q].job) /\ stage'[q].at # "idle"
                      /\ stage'[q].at = "settling" => stage'[q].file \in store
    BY <1>5 DEF StagesOwn, Owned
  <2>1. CASE q = p
    <3>1. row[j].status # "absent"
        BY DEF j, WalkEnds, IInv, StagesOwn
    <3>2. Mine(f, j)
        BY <1>1, <1>2, <1>9, FilesAreFiles
    <3> HIDE DEF Mine
    <3> QED BY <1>1, <1>2, <1>4, <1>7, <2>1, <3>1, <3>2
  <2>2. CASE q # p
    <3>1. stage'[q] = stage[q]
        BY <1>7, <2>2
    <3>2. stage[q].file # NoFile => Mine(stage[q].file, stage[q].job) /\ stage[q].at # "idle"
        BY <1>10, <1>12 DEF IInv, StagesOwn
    <3> HIDE DEF Mine
    <3> QED BY <3>1, <3>2 DEF IInv, StagesOwn
  <2> QED BY <2>1, <2>2
<1>14. StagesDiffer'
    BY <1>4, <1>7, <1>12 DEF IInv, StagesDiffer
<1>15. WritesAreUnnamed'
  <2>1. \A k \in Job : row[k].file # f
    <3>1. \A k \in Job : row[k].file # NoFile => row[k].file \in File /\ Owned(row[k].file, k)
        BY DEF IInv, Typed, Row, RowsOwn
    <3> QED BY <1>2, <1>10, <3>1
  <2> QED BY <1>2, <1>4, <1>5, <1>7, <2>1 DEF IInv, WritesAreUnnamed
<1>16. LocksHold'
    BY <1>5 DEF IInv, LocksHold
<1> QED BY <1>6, <1>11, <1>13, <1>14, <1>15, <1>16 DEF IInv

LEMMA WalkRaisesKeepsInv ==
    ASSUME IInv, NEW p \in Process, WalkRaises(p) PROVE IInv'
<1>1. stage[p] \in Stage /\ stage[p].at = "walking"
    BY DEF IInv, Typed, WalkRaises
<1>2. PICK s \in Stage : /\ stage' = [stage EXCEPT ![p] = s]
                         /\ s.at \in {"failing", "ending"}
                         /\ s.job = stage[p].job /\ s.file = stage[p].file
  <2>1. "failing" \in At
    BY DEF At
  <2>2. CASE SetStage(p, Caught(stage[p]))
    BY <1>1, <2>2, CaughtIsLate DEF SetStage
  <2>3. CASE SetStage(p, [stage[p] EXCEPT !.at = "failing"])
    BY <1>1, <2>1, <2>3, StageEdits DEF SetStage
  <2> QED BY <2>2, <2>3 DEF WalkRaises
<1>3. UNCHANGED <<row, store, minted, route, sweep, rotation>>
    BY DEF WalkRaises
<1> QED BY <1>1, <1>2, <1>3, StageAdvances DEF IInv, Typed

LEMMA PutEndsKeepsInv ==
    ASSUME IInv, NEW p \in Process, PutEnds(p) PROVE IInv'
<1>1. stage[p] \in Stage /\ stage[p].at = "writing" /\ stage[p].file \in File
    BY DEF IInv, Typed, PutEnds, WritesAreUnnamed, Stage
<1>2. UNCHANGED <<row, minted, route, sweep, rotation>>
    BY DEF PutEnds
<1>3. store \subseteq store' /\ store' \in SUBSET File
    BY <1>1 DEF PutEnds, IInv, Typed
<1>4. CASE /\ store' = store \cup {stage[p].file}
           /\ SetStage(p, [stage[p] EXCEPT !.at = "settling"])
  <2>1. "settling" \in At
    BY DEF At
  <2>2. PICK s \in Stage : /\ stage' = [stage EXCEPT ![p] = s]
                           /\ s.at = "settling" /\ s.job = stage[p].job /\ s.file = stage[p].file
    BY <1>1, <1>4, <2>1, StageEdits DEF SetStage
  <2>3. s.file \in store'
    BY <1>4, <2>2
  <2> QED BY <1>1, <1>2, <1>3, <2>2, <2>3, StageAdvances
<1>5. CASE SetStage(p, Caught(stage[p]))
  <2>1. PICK s \in Stage : /\ stage' = [stage EXCEPT ![p] = s]
                           /\ s.at \in {"failing", "ending"}
                           /\ s.job = stage[p].job /\ s.file = stage[p].file
    BY <1>1, <1>5, CaughtIsLate DEF SetStage
  <2> QED BY <1>1, <1>2, <1>3, <2>1, StageAdvances
<1> QED BY <1>4, <1>5 DEF PutEnds

LEMMA SettleKeepsInv ==
    ASSUME IInv, NEW p \in Process, Settle(p) PROVE IInv'
<1>1. stage[p] \in Stage /\ stage[p].at = "settling"
    BY DEF IInv, Typed, Settle
<1>2. UNCHANGED <<store, minted, route, sweep, rotation>>
    BY DEF Settle
<1>3. PICK s \in Stage : /\ stage' = [stage EXCEPT ![p] = s]
                         /\ s.at \in {"failing", "ending"}
                         /\ s.job = stage[p].job /\ s.file = stage[p].file
  <2>1. "ending" \in At /\ Settleable(stage[p].job) \in BOOLEAN
    BY DEF At, Settleable
  <2>2. CASE SetStage(p, Caught(stage[p]))
    BY <1>1, <2>2, CaughtIsLate DEF SetStage
  <2>3. CASE SetStage(p, [stage[p] EXCEPT !.at = "ending", !.recorded = Settleable(stage[p].job)])
    BY <1>1, <2>1, <2>3, StageRecords DEF SetStage
  <2> QED BY <2>2, <2>3 DEF Settle
<1>4. CASE SettleRow(stage[p].job, "completed", stage[p].file)
  <2>1. SettleRow(stage[p].job, "completed",
                  IF "completed" = "completed" THEN stage[p].file ELSE NoFile)
    BY <1>4
  <2> QED BY <1>1, <1>2, <1>3, <2>1, SettlingAdvances
<1>5. CASE row' = row
    BY <1>1, <1>2, <1>3, <1>5, StageAdvances DEF IInv, Typed
<1> QED BY <1>4, <1>5 DEF Settle

LEMMA FailKeepsInv ==
    ASSUME IInv, NEW p \in Process, Fail(p) PROVE IInv'
<1>1. stage[p] \in Stage /\ stage[p].at = "failing"
    BY DEF IInv, Typed, Fail
<1>2. UNCHANGED <<store, minted, route, sweep, rotation>>
    BY DEF Fail
<1>3. PICK s \in Stage : /\ stage' = [stage EXCEPT ![p] = s]
                         /\ s.at = "ending"
                         /\ s.job = stage[p].job /\ s.file = stage[p].file
  <2>1. "ending" \in At
    BY DEF At
  <2> QED BY <1>1, <2>1, StageEdits DEF Fail, SetStage
<1>4. CASE SettleRow(stage[p].job, "failed", NoFile)
  <2>1. SettleRow(stage[p].job, "failed",
                  IF "failed" = "completed" THEN stage[p].file ELSE NoFile)
    BY <1>4
  <2> QED BY <1>1, <1>2, <1>3, <2>1, SettlingAdvances
<1>5. CASE row' = row
    BY <1>1, <1>2, <1>3, <1>5, StageAdvances DEF IInv, Typed
<1> QED BY <1>4, <1>5 DEF Fail

LEMMA EndKeepsInv ==
    ASSUME IInv, NEW p \in Process, End(p) PROVE IInv'
<1>1. stage' = [stage EXCEPT ![p] = NoStage] /\ stage[p].at = "ending"
    BY DEF End, SetStage
<1>2. store' \in {store, store \ {stage[p].file}}
    BY DEF End
<1>3. UNCHANGED <<row, minted, route, sweep, rotation>>
    BY DEF End
<1> QED BY <1>1, <1>2, <1>3, StageGoes DEF IInv, Typed

LEMMA CrashKeepsInv ==
    ASSUME IInv, NEW p \in Process, Crash(p) PROVE IInv'
<1>1. stage' = [stage EXCEPT ![p] = NoStage]
    BY DEF Crash, SetStage
<1>2. route' \in [Process -> [queue : Seq(Job), refillable : BOOLEAN]]
    BY RouteIsTyped DEF Crash, SetRoute, IInv, Typed
<1>3. UNCHANGED <<row, store, minted, sweep, rotation>>
    BY DEF Crash
<1> QED BY <1>1, <1>2, <1>3, StageGoes

-----------------------------------------------------------------------------
\* What is locked alone changes.
LEMMA LocksKeepInv ==
    ASSUME IInv, UNCHANGED <<row, store, minted, route, stage>>,
           sweep' \in [open : BOOLEAN, batch : SUBSET Job, left : SUBSET Job],
           rotation' \in [job : 0 .. Jobs, file : File \cup {NoFile}], LocksHold'
    PROVE  IInv'
<1>1. Typed'
    BY DEF IInv, Typed
<1>2. RowsOwn' /\ StagesOwn'
    BY DEF IInv, RowsOwn, StagesOwn, Owned
<1>3. StagesDiffer' /\ WritesAreUnnamed'
    BY DEF IInv, StagesDiffer, WritesAreUnnamed
<1> QED BY <1>1, <1>2, <1>3 DEF IInv

LEMMA SweepBeginsKeepsInv ==
    ASSUME IInv, SweepBegins PROVE IInv'
<1>1. PICK batch \in SUBSET Settled :
        /\ \A j \in batch : ~Locked(j)
        /\ sweep' = [open |-> TRUE, batch |-> batch, left |-> {j \in batch : row[j].file # NoFile}]
    BY DEF SweepBegins
<1>2. UNCHANGED <<row, store, minted, route, stage, rotation>>
    BY DEF SweepBegins
<1>3. batch \subseteq Job /\ \A j \in batch : row[j].status \in {"completed", "failed"}
    BY DEF Settled, Status
<1>4. sweep' \in [open : BOOLEAN, batch : SUBSET Job, left : SUBSET Job]
    BY <1>1, <1>3
<1>5. LocksHold'
    BY <1>1, <1>2, <1>3 DEF IInv, LocksHold, Locked
<1> QED BY <1>2, <1>4, <1>5, LocksKeepInv DEF IInv, Typed

LEMMA SweepDiscardsKeepsInv ==
    ASSUME IInv, NEW j \in Job, SweepDiscards(j) PROVE IInv'
<1>1. UNCHANGED <<row, minted, route, stage, rotation>> /\ store' \in {store, store \ {row[j].file}}
    BY DEF SweepDiscards
<1>2. j \in sweep.left /\ sweep' = [sweep EXCEPT !.left = sweep.left \ {j}]
    BY DEF SweepDiscards
<1>3. Typed'
    BY <1>1, <1>2 DEF IInv, Typed
<1>4. sweep'.batch = sweep.batch /\ sweep'.left = sweep.left \ {j}
    BY <1>2 DEF IInv, Typed
<1>5. RowsOwn' /\ LocksHold'
    BY <1>1, <1>4 DEF IInv, RowsOwn, Owned, LocksHold
<1>6. StagesOwn'
  <2>1. \A p \in Process : stage[p].at = "settling" => stage[p].file # row[j].file
    BY DEF IInv, WritesAreUnnamed
  <2> QED BY <1>1, <2>1 DEF IInv, StagesOwn, Owned
<1>7. StagesDiffer' /\ WritesAreUnnamed'
    BY <1>1 DEF IInv, StagesDiffer, WritesAreUnnamed
<1> QED BY <1>3, <1>5, <1>6, <1>7 DEF IInv

LEMMA SweepCommitsKeepsInv ==
    ASSUME IInv, SweepCommits PROVE IInv'
<1> DEFINE gone == [status |-> "swept", file |-> NoFile, claim |-> None]
<1>1. gone \in Row /\ gone.status = "swept" /\ gone.file = NoFile
    BY DEF Row, RowStatus
<1>2. row' = [j \in Job |-> IF j \in sweep.batch THEN gone ELSE row[j]]
    BY DEF SweepCommits
<1> HIDE DEF gone
<1>3. \A j \in Job : row'[j] = IF j \in sweep.batch THEN gone ELSE row[j]
    BY <1>2
<1>4. UNCHANGED <<store, minted, route, stage, rotation>> /\ sweep' = Unswept
    BY DEF SweepCommits
<1>5. Typed'
  <2>1. row' \in [Job -> Row]
    BY <1>1, <1>2 DEF IInv, Typed
  <2>2. sweep' \in [open : BOOLEAN, batch : SUBSET Job, left : SUBSET Job]
    BY <1>4 DEF Unswept
  <2> QED BY <1>4, <2>1, <2>2 DEF IInv, Typed
<1>6. RowsOwn'
    BY <1>1, <1>3, <1>4 DEF IInv, RowsOwn, Owned
<1>7. StagesOwn'
    BY <1>1, <1>3, <1>4 DEF IInv, StagesOwn, Owned
<1>8. StagesDiffer' /\ WritesAreUnnamed'
    BY <1>1, <1>3, <1>4 DEF IInv, StagesDiffer, WritesAreUnnamed
<1>9. LocksHold'
    BY <1>3, <1>4 DEF IInv, LocksHold, Unswept
<1> QED BY <1>5, <1>6, <1>7, <1>8, <1>9 DEF IInv

LEMMA SweepRollsBackKeepsInv ==
    ASSUME IInv, SweepRollsBack PROVE IInv'
<1>1. UNCHANGED <<row, store, minted, route, stage, rotation>> /\ sweep' = Unswept
    BY DEF SweepRollsBack
<1>2. sweep' \in [open : BOOLEAN, batch : SUBSET Job, left : SUBSET Job]
    BY <1>1 DEF Unswept
<1>3. LocksHold'
    BY <1>1 DEF IInv, LocksHold, Unswept
<1> QED BY <1>1, <1>2, <1>3, LocksKeepInv DEF IInv, Typed

LEMMA ResealsKeepsInv ==
    ASSUME IInv, NEW j \in Job, Reseals(j) PROVE IInv'
<1>1. UNCHANGED <<row, store, minted, route, stage, sweep>>
    BY DEF Reseals
<1>2. PICK f \in {row[j].file, NoFile} : rotation' = [job |-> j, file |-> f]
    BY DEF Reseals
<1>3. f \in File \cup {NoFile} /\ j \in 0 .. Jobs /\ j \notin sweep.batch
    BY <1>2 DEF IInv, Typed, Row, Job, Reseals, Locked
<1>4. rotation' \in [job : 0 .. Jobs, file : File \cup {NoFile}]
    BY <1>2, <1>3
<1>5. LocksHold'
    BY <1>1, <1>2, <1>3 DEF IInv, LocksHold
<1> QED BY <1>1, <1>4, <1>5, LocksKeepInv DEF IInv, Typed

LEMMA ResealedKeepsInv ==
    ASSUME IInv, Resealed PROVE IInv'
<1>1. UNCHANGED <<row, minted, route, stage, sweep>> /\ rotation' = Unlocked
    BY DEF Resealed
<1>2. store \subseteq store' /\ store' \in SUBSET File
    BY DEF Resealed, IInv, Typed
<1>3. rotation' \in [job : 0 .. Jobs, file : File \cup {NoFile}] /\ rotation'.file = NoFile
    BY <1>1, ExportAssumption DEF Unlocked
<1>4. Typed'
    BY <1>1, <1>2, <1>3 DEF IInv, Typed
<1>5. RowsOwn' /\ LocksHold'
    BY <1>1, <1>3 DEF IInv, RowsOwn, Owned, LocksHold
<1>6. StagesOwn'
    BY <1>1, <1>2 DEF IInv, StagesOwn, Owned
<1>7. StagesDiffer' /\ WritesAreUnnamed'
    BY <1>1 DEF IInv, StagesDiffer, WritesAreUnnamed
<1> QED BY <1>4, <1>5, <1>6, <1>7 DEF IInv

-----------------------------------------------------------------------------
\* Files have owners, stages and rows name different ones, locks are kept.
THEOREM ExportInvariant == Spec => []IInv
<1>1. IInv /\ [Next]_vars => IInv'
  <2> SUFFICES ASSUME IInv, [Next]_vars PROVE IInv'
    OBVIOUS
  <2>1. ASSUME NEW j \in Job, Request(j) \/ SweepDiscards(j) \/ Reseals(j) PROVE IInv'
    BY <2>1, RequestKeepsInv, SweepDiscardsKeepsInv, ResealsKeepsInv
  <2>2. ASSUME NEW p \in Process, Runs(p) PROVE IInv'
    BY <2>2, RoutesKeepInv, ClaimKeepsInv, ClaimRaisesKeepsInv, BeatLostKeepsInv,
       BeatRaisesKeepsInv, WalkEndsKeepsInv, WalkRaisesKeepsInv, PutEndsKeepsInv, SettleKeepsInv,
       FailKeepsInv, EndKeepsInv, CrashKeepsInv DEF Runs
  <2>3. CASE SweepBegins \/ SweepCommits \/ SweepRollsBack \/ Resealed
    BY <2>3, SweepBeginsKeepsInv, SweepCommitsKeepsInv, SweepRollsBackKeepsInv, ResealedKeepsInv
  <2>4. CASE UNCHANGED vars
    <3>1. UNCHANGED <<row, store, minted, stage, sweep, rotation, route>>
        BY <2>4 DEF vars
    <3> QED BY <3>1, RoutingKeepsInv DEF IInv, Typed
  <2> QED BY <2>1, <2>2, <2>3, <2>4 DEF Next
<1> QED BY <1>1, InitKeepsInv, PTL DEF Spec
-----------------------------------------------------------------------------
(***************************************************************************)
(* The refinement: every step is one of the ledger's or changes nothing it *)
(* sees.                                                                   *)
(***************************************************************************)
LedgerStatus == [j \in Job |-> row[j].status]
LedgerFile == [j \in Job |-> row[j].file]
LedgerStep == Ledger!Next \/ UNCHANGED <<LedgerStatus, LedgerFile, store>>

LEMMA Stutters ==
    ASSUME UNCHANGED <<row, store>> PROVE LedgerStep
    BY DEF LedgerStep, LedgerStatus, LedgerFile

LEMMA OneRowMoves ==
    ASSUME IInv, NEW j \in Job, NEW r \in Row, row' = [row EXCEPT ![j] = r]
    PROVE  /\ LedgerStatus' = [LedgerStatus EXCEPT ![j] = r.status]
           /\ LedgerFile' = [LedgerFile EXCEPT ![j] = r.file]
           /\ r.status = row[j].status => LedgerStatus' = LedgerStatus
           /\ r.file = row[j].file => LedgerFile' = LedgerFile
<1>1. row \in [Job -> Row] /\ row' \in [Job -> Row]
    BY DEF IInv, Typed
<1>2. \A k \in Job : row'[k] = IF k = j THEN r ELSE row[k]
    BY <1>1
<1>3. \A k \in Job : /\ row'[k].status = IF k = j THEN r.status ELSE row[k].status
                    /\ row'[k].file = IF k = j THEN r.file ELSE row[k].file
    BY <1>2
<1>4. LedgerStatus' = [k \in Job |-> row'[k].status] /\ LedgerFile' = [k \in Job |-> row'[k].file]
    BY DEF LedgerStatus, LedgerFile
<1>5. LedgerStatus' = [k \in Job |-> IF k = j THEN r.status ELSE row[k].status]
    BY <1>3, <1>4
<1>6. LedgerFile' = [k \in Job |-> IF k = j THEN r.file ELSE row[k].file]
    BY <1>3, <1>4
<1>7. LedgerStatus' = [LedgerStatus EXCEPT ![j] = r.status]
    BY <1>5 DEF LedgerStatus
<1>8. LedgerFile' = [LedgerFile EXCEPT ![j] = r.file]
    BY <1>6 DEF LedgerFile
<1>9. r.status = row[j].status => LedgerStatus' = LedgerStatus
    BY <1>5 DEF LedgerStatus
<1>10. r.file = row[j].file => LedgerFile' = LedgerFile
    BY <1>6 DEF LedgerFile
<1> QED BY <1>7, <1>8, <1>9, <1>10

LEMMA RequestMaps ==
    ASSUME IInv, NEW j \in Job, Request(j) PROVE LedgerStep
<1> DEFINE r == [row[j] EXCEPT !.status = "requested"]
<1>1. row[j] \in Row /\ "requested" \in RowStatus
    BY DEF IInv, Typed, RowStatus
<1>2. r \in Row /\ r.status = "requested" /\ r.file = row[j].file
    BY <1>1 DEF Row
<1>3. row' = [row EXCEPT ![j] = r] /\ store' = store /\ row[j].status = "absent"
    BY DEF Request, Status, IInv, Typed
<1> HIDE DEF r
<1>4. LedgerStatus' = [LedgerStatus EXCEPT ![j] = "requested"] /\ LedgerFile' = LedgerFile
    BY <1>2, <1>3, OneRowMoves
<1>5. Ledger!Request(j)
    BY <1>3, <1>4 DEF Ledger!Request, LedgerStatus, LedgerFile
<1> QED BY <1>5 DEF LedgerStep, Ledger!Next

LEMMA ClaimMaps ==
    ASSUME IInv, NEW j \in Job, NEW c \in Process \cup {None}, Claimable(j),
           row' = [row EXCEPT ![j] = [@ EXCEPT !.status = "running", !.claim = c]],
           store' = store
    PROVE  LedgerStep
<1>1. PICK r \in Row : /\ row' = [row EXCEPT ![j] = r]
                       /\ r.file = NoFile /\ r.status = "running"
                       /\ row[j].file = NoFile /\ row[j].status \in {"requested", "running"}
    BY ClaimedRow
<1>2. /\ LedgerStatus' = [LedgerStatus EXCEPT ![j] = "running"] /\ LedgerFile' = LedgerFile
      /\ row[j].status = "running" => LedgerStatus' = LedgerStatus
  <2>1. r.status = "running" /\ r.file = row[j].file
    BY <1>1
  <2>2. /\ LedgerStatus' = [LedgerStatus EXCEPT ![j] = r.status]
        /\ r.status = row[j].status => LedgerStatus' = LedgerStatus
        /\ r.file = row[j].file => LedgerFile' = LedgerFile
    BY <1>1, OneRowMoves
  <2> QED BY <2>1, <2>2
<1>3. CASE row[j].status = "requested"
  <2>1. Ledger!Claim(j)
    BY <1>2, <1>3 DEF Ledger!Claim, LedgerStatus, LedgerFile
  <2> QED BY <2>1 DEF LedgerStep, Ledger!Next
<1>4. CASE row[j].status = "running"
    BY <1>2, <1>4 DEF LedgerStep
<1> QED BY <1>1, <1>3, <1>4

\* The renewal of a claim moves the token alone.
LEMMA BeatRaisesMaps ==
    ASSUME IInv, NEW p \in Process, BeatRaises(p) PROVE LedgerStep
<1> DEFINE j == stage[p].job
           r == [row[j] EXCEPT !.claim = None]
<1>1. j \in Job /\ row[j] \in Row
    BY DEF BeatRaises, Renews, IInv, StagesOwn, Typed
<1>2. r \in Row /\ r.status = row[j].status /\ r.file = row[j].file
    BY <1>1 DEF Row
<1>3. row' = [row EXCEPT ![j] = r] /\ store' = store
    BY DEF BeatRaises, IInv, Typed
<1> HIDE DEF j, r
<1> QED BY <1>1, <1>2, <1>3, OneRowMoves DEF LedgerStep

\* The file of a settle is stored, is its job's, and no row names it.
LEMMA SettleMaps ==
    ASSUME IInv, NEW p \in Process, stage[p].at # "idle",
           NEW x \in {"completed", "failed"},
           x = "completed" => stage[p].at = "settling",
           SettleRow(stage[p].job, x, IF x = "completed" THEN stage[p].file ELSE NoFile),
           store' = store
    PROVE  LedgerStep
<1>1. PICK j \in Job : j = stage[p].job
    BY DEF IInv, StagesOwn
<1>2. PICK f \in File \cup {NoFile} : f = IF x = "completed" THEN stage[p].file ELSE NoFile
    BY DEF IInv, Typed, Stage
<1> DEFINE r == [status |-> x, file |-> f, claim |-> None]
<1>3. r \in Row /\ r.file = f /\ r.status = x
    BY DEF Row, RowStatus
<1>4. CASE ~Settleable(j)
    BY <1>1, <1>4, Stutters DEF SettleRow
<1>5. CASE Settleable(j)
  <2>1. row' = [row EXCEPT ![j] = r]
    BY <1>1, <1>2, <1>5 DEF SettleRow
  <2>2. row[j].status = "running" /\ row[j].file = NoFile
    BY <1>5 DEF Settleable, Status, IInv, RowsOwn
  <2> HIDE DEF r
  <2>3. /\ LedgerStatus' = [LedgerStatus EXCEPT ![j] = r.status]
        /\ LedgerFile' = [LedgerFile EXCEPT ![j] = r.file]
        /\ r.file = row[j].file => LedgerFile' = LedgerFile
    BY <1>3, <2>1, OneRowMoves
  <2>4. LedgerStatus[j] = "running"
    BY <2>2 DEF LedgerStatus
  <2>5. CASE x = "failed"
    <3>1. LedgerStatus' = [LedgerStatus EXCEPT ![j] = "failed"] /\ LedgerFile' = LedgerFile
        BY <1>2, <1>3, <2>2, <2>3, <2>5
    <3>2. Ledger!Fail(j)
        BY <2>4, <3>1 DEF Ledger!Fail, LedgerStatus, LedgerFile
    <3> QED BY <3>2 DEF LedgerStep, Ledger!Next
  <2>6. CASE x = "completed"
    <3>1. f \in store /\ f # NoFile /\ f[1] = j /\ \A k \in Job : row[k].file # f
        BY <1>1, <1>2, <2>6 DEF IInv, StagesOwn, WritesAreUnnamed, Owned
    <3>2. f \notin {LedgerFile[k] : k \in Job}
        BY <3>1 DEF LedgerFile
    <3>3. LedgerStatus' = [LedgerStatus EXCEPT ![j] = "completed"]
        BY <1>3, <2>3, <2>6
    <3>4. LedgerFile' = [LedgerFile EXCEPT ![j] = f]
        BY <1>3, <2>3
    <3>5. Ledger!JobOf(f) = j
        BY <3>1 DEF Ledger!JobOf
    <3>6. Ledger!Complete(j)
        BY <2>4, <3>1, <3>2, <3>3, <3>4, <3>5
           DEF Ledger!Complete, LedgerStatus, LedgerFile
    <3> QED BY <3>6 DEF LedgerStep, Ledger!Next
  <2> QED BY <2>5, <2>6
<1> QED BY <1>4, <1>5

\* A file a stage holds is stored, once, or was there.
LEMMA PutEndsMaps ==
    ASSUME IInv, NEW p \in Process, PutEnds(p) PROVE LedgerStep
<1>1. PICK f \in File : f = stage[p].file
    BY DEF PutEnds, IInv, Typed, Stage, WritesAreUnnamed
<1>2. row' = row /\ store' \in {store, store \cup {f}}
    BY <1>1 DEF PutEnds
<1>3. LedgerStatus' = LedgerStatus /\ LedgerFile' = LedgerFile
    BY <1>2 DEF LedgerStatus, LedgerFile
<1>4. CASE store' = store
    BY <1>2, <1>4, Stutters
<1>5. CASE store' # store
  <2>1. store' = store \cup {f} /\ f \notin store
    BY <1>2, <1>5
  <2>2. f[1] \in Job /\ row[f[1]].status # "absent"
    BY <1>1, FilesAreFiles DEF PutEnds, IInv, StagesOwn, Owned
  <2>3. LedgerStatus[Ledger!JobOf(f)] # "absent"
    BY <2>2 DEF LedgerStatus, Ledger!JobOf
  <2>4. Ledger!Write(f)
    BY <1>3, <2>1, <2>3 DEF Ledger!Write, LedgerStatus, LedgerFile
  <2> QED BY <2>4 DEF LedgerStep, Ledger!Next
<1> QED BY <1>4, <1>5

\* Whoever discards a file, the ledger allows it.
LEMMA DiscardMaps ==
    ASSUME row' = row, NEW f \in File \cup {NoFile}, store \subseteq File,
           store' \in {store, store \ {f}}
    PROVE  LedgerStep
<1>1. CASE store' = store
    BY <1>1, Stutters
<1>2. CASE store' # store
  <2>1. f \in File /\ store' = store \ {f}
    BY <1>2, FilesAreFiles
  <2>2. Ledger!Delete(f)
    BY <2>1 DEF Ledger!Delete
  <2> QED BY <2>1, <2>2 DEF LedgerStep, Ledger!Next
<1> QED BY <1>1, <1>2

LEMMA SweepCommitsMaps ==
    ASSUME IInv, SweepCommits PROVE LedgerStep
<1>1. PICK S \in SUBSET Job : S = sweep.batch
    BY DEF IInv, Typed
<1> DEFINE gone == [status |-> "swept", file |-> NoFile, claim |-> None]
<1>2. \A j \in Job : row'[j] = IF j \in S THEN gone ELSE row[j]
    BY <1>1 DEF SweepCommits
<1>3. LedgerStatus' = [j \in Job |-> row'[j].status] /\ LedgerFile' = [j \in Job |-> row'[j].file]
    BY DEF LedgerStatus, LedgerFile
<1>4. LedgerStatus' = [j \in Job |-> IF j \in S THEN "swept" ELSE LedgerStatus[j]]
    BY <1>2, <1>3 DEF LedgerStatus
<1>5. LedgerFile' = [j \in Job |-> IF j \in S THEN NoFile ELSE LedgerFile[j]]
    BY <1>2, <1>3 DEF LedgerFile
<1>6. \A j \in S : LedgerStatus[j] \in {"completed", "failed"}
    BY <1>1 DEF LedgerStatus, IInv, LocksHold
<1>7. store' = store
    BY DEF SweepCommits
<1>8. Ledger!Sweep(S)
    BY <1>4, <1>5, <1>6, <1>7 DEF Ledger!Sweep, LedgerStatus, LedgerFile
<1> QED BY <1>8 DEF LedgerStep, Ledger!Next

\* A re-seal writes a file its locked row still names.
LEMMA ResealedMaps ==
    ASSUME IInv, Resealed PROVE LedgerStep
<1>1. PICK f \in File \cup {NoFile} : f = rotation.file
    BY DEF IInv, Typed
<1>2. row' = row /\ store' = store \cup ({f} \ {NoFile})
    BY <1>1 DEF Resealed
<1>3. CASE f = NoFile
    BY <1>2, <1>3, Stutters
<1>4. CASE f # NoFile
  <2>1. PICK j \in Job : row[j].file = f
    BY <1>1, <1>4 DEF IInv, LocksHold
  <2>2. f[1] = j /\ f \in File
    BY <1>4, <2>1 DEF IInv, RowsOwn, Owned
  <2>3. f = LedgerFile[Ledger!JobOf(f)]
    BY <2>1, <2>2 DEF LedgerFile, Ledger!JobOf
  <2>4. LedgerStatus' = LedgerStatus /\ LedgerFile' = LedgerFile /\ store' = store \cup {f}
    BY <1>2, <1>4 DEF LedgerStatus, LedgerFile
  <2>5. Ledger!Write(f)
    BY <2>3, <2>4 DEF Ledger!Write, LedgerStatus, LedgerFile
  <2> QED BY <2>2, <2>5 DEF LedgerStep, Ledger!Next
<1> QED BY <1>3, <1>4

LEMMA RunsMaps ==
    ASSUME IInv, NEW p \in Process, Runs(p) PROVE LedgerStep
<1>1. CASE ClaimsNothing(p) \/ ReadsPage(p) \/ Skip(p) \/ BeatLost(p)
           \/ WalkEnds(p) \/ WalkRaises(p) \/ Crash(p)
  <2>1. UNCHANGED <<row, store>>
    BY <1>1 DEF ClaimsNothing, ReadsPage, Skip, BeatLost, WalkEnds, WalkRaises, Crash
  <2> QED BY <2>1, Stutters
<1>2. CASE Claim(p) \/ ClaimRaises(p)
  <2>1. PICK j \in Job : j = Head(route[p].queue)
    BY <1>2 DEF Claim, ClaimRaises, Routing, IInv, Typed
  <2>2. CASE row' = row
    BY <1>2, <2>2, Stutters DEF Claim, ClaimRaises
  <2>3. CASE row' # row
    <3>1. PICK c \in Process \cup {None} :
            row' = [row EXCEPT ![j] = [@ EXCEPT !.status = "running", !.claim = c]]
        BY <1>2, <2>1, <2>3 DEF Claim, ClaimRaises
    <3>2. Claimable(j) /\ store' = store
        BY <1>2, <2>1, <2>3 DEF Claim, ClaimRaises
    <3> QED BY <3>1, <3>2, ClaimMaps
  <2> QED BY <2>2, <2>3
<1>3. CASE Settle(p)
  <2>1. stage[p].at = "settling" /\ store' = store
    BY <1>3 DEF Settle
  <2>2. CASE SettleRow(stage[p].job, "completed", stage[p].file)
    <3>1. SettleRow(stage[p].job, "completed",
                    IF "completed" = "completed" THEN stage[p].file ELSE NoFile)
        BY <2>2
    <3> QED BY <2>1, <3>1, SettleMaps
  <2>3. CASE row' = row
    BY <2>1, <2>3, Stutters
  <2> QED BY <1>3, <2>2, <2>3 DEF Settle
<1>4. CASE Fail(p)
  <2>1. stage[p].at = "failing" /\ store' = store
    BY <1>4 DEF Fail
  <2>2. CASE SettleRow(stage[p].job, "failed", NoFile)
    <3>1. SettleRow(stage[p].job, "failed",
                    IF "failed" = "completed" THEN stage[p].file ELSE NoFile)
        BY <2>2
    <3> QED BY <2>1, <3>1, SettleMaps
  <2>3. CASE row' = row
    BY <2>1, <2>3, Stutters
  <2> QED BY <1>4, <2>2, <2>3 DEF Fail
<1>5. CASE End(p)
  <2>1. PICK f \in File \cup {NoFile} : f = stage[p].file
    BY DEF IInv, Typed, Stage
  <2>2. row' = row /\ store \subseteq File /\ store' \in {store, store \ {f}}
    BY <1>5, <2>1 DEF End, IInv, Typed
  <2> QED BY <2>2, DiscardMaps
<1> QED BY <1>1, <1>2, <1>3, <1>4, <1>5, BeatRaisesMaps, PutEndsMaps DEF Runs

LEMMA StepsMap ==
    ASSUME IInv, [Next]_vars PROVE LedgerStep
<1>1. ASSUME NEW j \in Job, SweepDiscards(j) PROVE LedgerStep
  <2>1. PICK f \in File \cup {NoFile} : f = row[j].file
    BY DEF IInv, Typed, Row
  <2>2. row' = row /\ store \subseteq File /\ store' \in {store, store \ {f}}
    BY <1>1, <2>1 DEF SweepDiscards, IInv, Typed
  <2> QED BY <2>2, DiscardMaps
<1>2. ASSUME NEW j \in Job, Reseals(j) PROVE LedgerStep
    BY <1>2, Stutters DEF Reseals
<1>3. CASE SweepBegins \/ SweepRollsBack
    BY <1>3, Stutters DEF SweepBegins, SweepRollsBack
<1>4. CASE UNCHANGED vars
    BY <1>4, Stutters DEF vars
<1> QED BY <1>1, <1>2, <1>3, <1>4, RequestMaps, RunsMaps, SweepCommitsMaps, ResealedMaps DEF Next

\* However many processes claim, lose, repeat and crash, every job behaves as
\* the ledger promises: it settles once, with one stored file of its own.
THEOREM ExportsKeepTheLedger == Spec => KeepsTheLedger
<1>1. Init => Ledger!Init
    BY DEF Init, Ledger!Init
<1>2. IInv /\ [Next]_vars => [Ledger!Next]_(Ledger!vars)
    BY StepsMap DEF LedgerStep, Ledger!vars, LedgerStatus, LedgerFile
<1> QED BY <1>1, <1>2, ExportInvariant, PTL DEF Spec, KeepsTheLedger, Ledger!Spec

-----------------------------------------------------------------------------
(***************************************************************************)
(* While no transaction and no delete has raised, a stage that is about to *)
(* discard its file has not recorded it, so what a row names is stored.    *)
(***************************************************************************)
Recorded == \A p \in Process, j \in Job :
    (stage[p].file # NoFile /\ stage[p].file = row[j].file) =>
        (stage[p].at = "ending" /\ stage[p].recorded)
Stored == \A j \in Job \ sweep.batch : row[j].status = "completed" => row[j].file \in store
Kept == (faults = 0) => (Recorded /\ Stored)

KInv == /\ IInv /\ faults \in Nat /\ Kept
        /\ sweep.open \/ sweep.batch = {}

LEMMA FaultsCount ==
    ASSUME faults \in Nat, [Next]_vars
    PROVE  /\ faults' \in Nat /\ faults' \in {faults, faults + 1}
           /\ faults' = 0 => faults = 0 /\ ~Faulty
<1>1. faults' \in {faults, faults + 1}
  <2>1. ASSUME NEW j \in Job, Request(j) \/ SweepDiscards(j) \/ Reseals(j)
        PROVE  faults' \in {faults, faults + 1}
    BY <2>1 DEF Request, SweepDiscards, Reseals, Faulty, env
  <2>2. ASSUME NEW p \in Process, Runs(p) PROVE faults' \in {faults, faults + 1}
    BY <2>2 DEF Runs, ClaimsNothing, ReadsPage, Claim, Skip, ClaimRaises, BeatLost, BeatRaises,
                WalkEnds, WalkRaises, PutEnds, Settle, Fail, End, Crash, Faulty, env
  <2>3. CASE SweepBegins \/ SweepCommits \/ SweepRollsBack \/ Resealed \/ UNCHANGED vars
    BY <2>3 DEF SweepBegins, SweepCommits, SweepRollsBack, Resealed, Faulty, vars, env
  <2> QED BY <2>1, <2>2, <2>3 DEF Next
<1>2. faults' = 0 => faults = 0
    BY <1>1
<1>3. faults' = 0 => ~Faulty
    BY DEF Faulty
<1> QED BY <1>1, <1>2, <1>3

LEMMA SweepIsOpen ==
    ASSUME IInv, [Next]_vars, sweep.open \/ sweep.batch = {} PROVE sweep'.open \/ sweep'.batch = {}
<1>1. ASSUME NEW j \in Job, SweepDiscards(j) PROVE sweep'.open = sweep.open /\ sweep'.batch = sweep.batch
    BY <1>1 DEF SweepDiscards, IInv, Typed
<1>2. ASSUME NEW j \in Job, Request(j) \/ Reseals(j) PROVE sweep' = sweep
    BY <1>2 DEF Request, Reseals
<1>3. ASSUME NEW p \in Process, Runs(p) PROVE sweep' = sweep
    BY <1>3 DEF Runs, ClaimsNothing, ReadsPage, Claim, Skip, ClaimRaises, BeatLost, BeatRaises,
                WalkEnds, WalkRaises, PutEnds, Settle, Fail, End, Crash
<1>4. CASE SweepBegins
    BY <1>4 DEF SweepBegins
<1>5. CASE SweepCommits \/ SweepRollsBack
    BY <1>5 DEF SweepCommits, SweepRollsBack, Unswept
<1>6. CASE Resealed \/ UNCHANGED vars
    BY <1>6 DEF Resealed, vars
<1> QED BY <1>1, <1>2, <1>3, <1>4, <1>5, <1>6 DEF Next

\* Rows are named and stored as they were, and a stage that changes has no
\* file a row names.
LEMMA KeptUnderRows ==
    ASSUME Recorded, Stored, IInv, store \subseteq store', sweep.batch \subseteq sweep'.batch,
           \A j \in Job : /\ row'[j].file = row[j].file
                          /\ row'[j].status = "completed" => row[j].status = "completed",
           \A p \in Process : \/ stage'[p] = stage[p]
                              \/ stage'[p].file = NoFile
                              \/ \A j \in Job : row[j].file # stage'[p].file
    PROVE  (Recorded /\ Stored)'
<1>1. Recorded'
    BY DEF Recorded
<1>2. Stored'
    BY DEF Stored
<1> QED BY <1>1, <1>2

\* The claim of a row, for a process or for nobody, names no file.
LEMMA ClaimKeepsNames ==
    ASSUME IInv, NEW j \in Job, NEW c \in Process \cup {None}, Claimable(j),
           row' = [row EXCEPT ![j] = [@ EXCEPT !.status = "running", !.claim = c]]
    PROVE  \A k \in Job : /\ row'[k].file = row[k].file
                          /\ row'[k].status = "completed" => row[k].status = "completed"
<1>1. PICK r \in Row : /\ row' = [row EXCEPT ![j] = r]
                       /\ r.file = NoFile /\ r.status = "running"
                       /\ row[j].file = NoFile /\ row[j].status \in {"requested", "running"}
    BY ClaimedRow
<1>2. \A k \in Job : row'[k] = IF k = j THEN r ELSE row[k]
    BY <1>1 DEF IInv, Typed
<1> QED BY <1>1, <1>2

LEMMA RowsKeep ==
    ASSUME IInv, Recorded, Stored, ~Faulty, NEW p \in Process,
           Claim(p) \/ ClaimRaises(p) \/ BeatRaises(p)
    PROVE  (Recorded /\ Stored)'
<1>1. Claim(p)
    BY DEF ClaimRaises, BeatRaises
<1>2. PICK j \in Job : j = Head(route[p].queue)
    BY <1>1 DEF Claim, Routing, IInv, Typed
<1>3. \A k \in Job : /\ row'[k].file = row[k].file
                     /\ row'[k].status = "completed" => row[k].status = "completed"
    BY <1>1, <1>2, ClaimKeepsNames DEF Claim
<1>4. stage' = [stage EXCEPT ![p] = [NoStage EXCEPT !.at = "walking", !.job = j]]
    BY <1>1, <1>2 DEF Claim, SetStage
<1>5. \A q \in Process : stage'[q] = stage[q] \/ stage'[q].file = NoFile
    BY <1>4 DEF NoStage, IInv, Typed
<1>6. store' = store /\ sweep' = sweep
    BY <1>1 DEF Claim
<1> QED BY <1>3, <1>5, <1>6, KeptUnderRows

LEMMA RequestKeeps ==
    ASSUME IInv, Recorded, Stored, NEW j \in Job, Request(j) PROVE (Recorded /\ Stored)'
<1>1. UNCHANGED <<store, stage, sweep>>
    BY DEF Request
<1>2. \A k \in Job : /\ row'[k].file = row[k].file
                     /\ row'[k].status = "completed" => row[k].status = "completed"
    BY DEF Request, IInv, Typed, Row
<1> QED BY <1>1, <1>2, KeptUnderRows

\* A stage that walks or writes has no file a row names.
LEMMA WalksKeep ==
    ASSUME IInv, IInv', Recorded, Stored, NEW p \in Process,
           BeatLost(p) \/ WalkEnds(p) \/ WalkRaises(p) \/ PutEnds(p)
    PROVE  (Recorded /\ Stored)'
<1>1. row' = row /\ store \subseteq store' /\ sweep' = sweep
    BY DEF BeatLost, WalkEnds, WalkRaises, PutEnds
<1>2. \A q \in Process : q # p => stage'[q] = stage[q]
    BY DEF BeatLost, WalkEnds, WalkRaises, PutEnds, SetStage, IInv, Typed
<1>3. stage'[p].file = NoFile \/ \A j \in Job : row[j].file # stage'[p].file
  <2>1. CASE WalkEnds(p)
    <3>1. stage'[p].at = "writing"
        BY <2>1 DEF WalkEnds, SetStage, IInv, Typed, Stage
    <3> QED BY <1>1, <3>1 DEF IInv, WritesAreUnnamed
  <2>2. CASE BeatLost(p) \/ WalkRaises(p) \/ PutEnds(p)
    <3>1. stage[p].at \in {"walking", "writing", "settling"}
        BY <2>2 DEF BeatLost, Renews, WalkRaises, PutEnds
    <3>2. stage'[p].file = stage[p].file
        BY <2>2 DEF BeatLost, WalkRaises, PutEnds, SetStage, Caught, IInv, Typed, Stage
    <3> QED BY <3>1, <3>2 DEF Recorded
  <2> QED BY <2>1, <2>2
<1> QED BY <1>1, <1>2, <1>3, KeptUnderRows

\* The stage that settles its job is the one that names the file.
LEMMA SettleKeeps ==
    ASSUME IInv, Recorded, Stored, ~Faulty, NEW p \in Process, Settle(p)
    PROVE  (Recorded /\ Stored)'
<1>1. PICK j \in Job : j = stage[p].job
    BY DEF Settle, IInv, StagesOwn
<1>2. PICK f \in File : f = stage[p].file
    BY DEF Settle, IInv, Typed, Stage, WritesAreUnnamed
<1>3. /\ SettleRow(j, "completed", f)
      /\ SetStage(p, [stage[p] EXCEPT !.at = "ending", !.recorded = Settleable(j)])
      /\ store' = store /\ sweep' = sweep
    BY <1>1, <1>2 DEF Settle
<1>4. /\ stage'[p].at = "ending" /\ stage'[p].file = f /\ stage'[p].recorded = Settleable(j)
      /\ \A q \in Process : q # p => stage'[q] = stage[q]
    BY <1>2, <1>3 DEF SetStage, IInv, Typed, Stage
<1>5. f \in store /\ f # NoFile /\ \A k \in Job : row[k].file # f
    BY <1>2 DEF Settle, IInv, StagesOwn, WritesAreUnnamed
<1>6. \A q \in Process : q # p => stage[q].file # f
    BY <1>2, <1>5 DEF IInv, StagesDiffer
<1>7. CASE ~Settleable(j)
  <2>1. row' = row
    BY <1>3, <1>7 DEF SettleRow
  <2> QED BY <1>3, <1>4, <1>5, <2>1, KeptUnderRows
<1>8. CASE Settleable(j)
  <2>1. row' = [row EXCEPT ![j] = [status |-> "completed", file |-> f, claim |-> None]]
    BY <1>3, <1>8 DEF SettleRow
  <2>2. row'[j].file = f /\ \A k \in Job : k # j => row'[k] = row[k]
    BY <2>1 DEF IInv, Typed
  <2>3. Recorded'
    BY <1>4, <1>5, <1>6, <1>8, <2>2 DEF Recorded
  <2>4. Stored'
    BY <1>3, <1>5, <2>2 DEF Stored
  <2> QED BY <2>3, <2>4
<1> QED BY <1>7, <1>8

LEMMA FailKeeps ==
    ASSUME IInv, Recorded, Stored, ~Faulty, NEW p \in Process, Fail(p)
    PROVE  (Recorded /\ Stored)'
<1>1. PICK j \in Job : j = stage[p].job
    BY DEF Fail, IInv, StagesOwn
<1>2. /\ SettleRow(j, "failed", NoFile) /\ store' = store /\ sweep' = sweep
      /\ SetStage(p, [stage[p] EXCEPT !.at = "ending"])
    BY <1>1 DEF Fail
<1>3. stage'[p].file = stage[p].file /\ \A q \in Process : q # p => stage'[q] = stage[q]
    BY <1>2 DEF SetStage, IInv, Typed, Stage
<1>4. stage'[p].file = NoFile \/ \A k \in Job : row[k].file # stage'[p].file
    BY <1>3 DEF Fail, Recorded
<1>5. \A k \in Job : /\ row'[k].file = row[k].file
                     /\ row'[k].status = "completed" => row[k].status = "completed"
  <2>1. CASE ~Settleable(j)
    BY <1>2, <2>1 DEF SettleRow
  <2>2. CASE Settleable(j)
    <3>1. row' = [row EXCEPT ![j] = [status |-> "failed", file |-> NoFile, claim |-> None]]
        BY <1>2, <2>2 DEF SettleRow
    <3>2. row[j].file = NoFile
        BY <2>2 DEF Settleable, Status, IInv, RowsOwn
    <3> QED BY <3>1, <3>2 DEF IInv, Typed
  <2> QED BY <2>1, <2>2
<1> QED BY <1>2, <1>3, <1>4, <1>5, KeptUnderRows

\* What a stage discards no row names.
LEMMA EndKeeps ==
    ASSUME IInv, Recorded, Stored, ~Faulty, NEW p \in Process, End(p) \/ Crash(p)
    PROVE  (Recorded /\ Stored)'
<1>1. row' = row /\ sweep' = sweep /\ stage' = [stage EXCEPT ![p] = NoStage]
    BY DEF End, Crash, SetStage
<1>2. \A q \in Process : stage'[q] = stage[q] \/ stage'[q].file = NoFile
    BY <1>1 DEF NoStage, IInv, Typed
<1>3. CASE store' = store
    BY <1>1, <1>2, <1>3, KeptUnderRows
<1>4. CASE store' # store
  <2>1. store' = store \ {stage[p].file} /\ stage[p].file # NoFile /\ ~stage[p].recorded
    BY <1>4 DEF End, Crash, Discards
  <2>2. \A j \in Job : row[j].file # stage[p].file
    BY <2>1 DEF Recorded
  <2>3. Recorded'
    BY <1>1, <1>2 DEF Recorded
  <2>4. Stored'
    BY <1>1, <2>1, <2>2 DEF Stored
  <2> QED BY <2>3, <2>4
<1> QED BY <1>3, <1>4

\* Retention takes files of the rows it is about to take.
LEMMA SweepKeeps ==
    ASSUME IInv, Recorded, Stored, sweep.open \/ sweep.batch = {}, ~Faulty,
           SweepBegins \/ (\E j \in Job : SweepDiscards(j)) \/ SweepCommits \/ SweepRollsBack
    PROVE  (Recorded /\ Stored)'
<1>1. CASE SweepBegins
  <2>1. UNCHANGED <<row, store, stage>> /\ sweep.batch = {}
    BY <1>1 DEF SweepBegins
  <2> QED BY <2>1 DEF Recorded, Stored
<1>2. ASSUME NEW j \in Job, SweepDiscards(j) PROVE (Recorded /\ Stored)'
  <2>1. UNCHANGED <<row, stage>> /\ store' = store \ {row[j].file} /\ j \in sweep.left
    BY <1>2 DEF SweepDiscards
  <2>2. sweep'.batch = sweep.batch /\ j \in sweep.batch
    BY <1>2, <2>1 DEF SweepDiscards, IInv, Typed, LocksHold
  <2>3. \A k \in Job \ sweep.batch : row[k].status = "completed" => row[k].file # row[j].file
    BY <2>1, <2>2 DEF IInv, RowsOwn, Owned, LocksHold
  <2> QED BY <2>1, <2>2, <2>3 DEF Recorded, Stored
<1>3. CASE SweepCommits
  <2>1. \A j \in Job : /\ row'[j].file = row[j].file \/ row'[j].file = NoFile
                       /\ row'[j].status = "completed" => j \notin sweep.batch /\ row'[j] = row[j]
    BY <1>3 DEF SweepCommits
  <2>2. UNCHANGED <<store, stage>>
    BY <1>3 DEF SweepCommits
  <2>3. Recorded'
    BY <2>1, <2>2 DEF Recorded
  <2>4. Stored'
    BY <2>1, <2>2 DEF Stored
  <2> QED BY <2>3, <2>4
<1> QED BY <1>1, <1>2, <1>3 DEF SweepRollsBack

\* What changes no row, no stage and no file but to add one.
LEMMA OthersKeep ==
    ASSUME IInv, Recorded, Stored,
           \/ \E p \in Process : ClaimsNothing(p) \/ ReadsPage(p) \/ Skip(p)
           \/ \E j \in Job : Reseals(j)
           \/ Resealed \/ UNCHANGED vars
    PROVE  (Recorded /\ Stored)'
<1>1. row' = row /\ stage' = stage /\ sweep' = sweep /\ store \subseteq store'
    BY DEF ClaimsNothing, ReadsPage, Skip, Reseals, Resealed, vars
<1> QED BY <1>1, KeptUnderRows

\* No lost claim, no takeover, no crash and no re-seal costs a reader the file
\* of a completed job: the stage that discards one has not recorded it.
THEOREM CompletedJobsHaveFiles == Spec => []CompletedJobHasFile
<1>1. Init => KInv
  <2>1. Init => faults \in Nat /\ (sweep.open \/ sweep.batch = {}) /\ Kept
    BY DEF Init, Kept, Recorded, Stored, NoStage, Unswept
  <2> QED BY <2>1, InitKeepsInv DEF KInv
<1>2. KInv /\ IInv' /\ [Next]_vars => KInv'
  <2> SUFFICES ASSUME KInv, IInv', [Next]_vars PROVE KInv'
    OBVIOUS
  <2>1. IInv /\ faults \in Nat /\ Kept /\ (sweep.open \/ sweep.batch = {})
    BY DEF KInv
  <2>2. faults' \in Nat /\ (faults' = 0 => faults = 0 /\ ~Faulty)
    BY <2>1, FaultsCount
  <2>3. sweep'.open \/ sweep'.batch = {}
    BY <2>1, SweepIsOpen
  <2>4. ASSUME faults' = 0 PROVE (Recorded /\ Stored)'
    <3>1. Recorded /\ Stored /\ ~Faulty
        BY <2>1, <2>2, <2>4 DEF Kept
    <3>2. ASSUME NEW p \in Process, Runs(p) PROVE (Recorded /\ Stored)'
        BY <2>1, <3>1, <3>2, RowsKeep, WalksKeep, SettleKeeps, FailKeeps, EndKeeps, OthersKeep
           DEF Runs
    <3>3. ASSUME NEW j \in Job, Request(j) \/ SweepDiscards(j) \/ Reseals(j)
          PROVE  (Recorded /\ Stored)'
        BY <2>1, <3>1, <3>3, RequestKeeps, SweepKeeps, OthersKeep
    <3> QED BY <2>1, <3>1, <3>2, <3>3, SweepKeeps, OthersKeep DEF Next
  <2> QED BY <2>1, <2>2, <2>3, <2>4 DEF KInv, Kept
<1>3. KInv => CompletedJobHasFile
    BY DEF KInv, Kept, Stored, CompletedJobHasFile, Status
<1> QED BY <1>1, <1>2, <1>3, ExportInvariant, PTL DEF Spec

-----------------------------------------------------------------------------
(***************************************************************************)
(* A stored file is spared while a row that retention has not passed over  *)
(* names it, or a stage that has not recorded it will discard it.  What is *)
(* not spared is a debt, and every debt was paid for by a crash or by a    *)
(* refused delete.  The files of a batch are counted as soon as their      *)
(* delete is refused: the row that names them is about to go.              *)
(***************************************************************************)
Spared(f) ==
    \/ \E j \in Job : row[j].file = f /\ (j \in sweep.batch => j \in sweep.left)
    \/ \E p \in Process : stage[p].file = f /\ ~stage[p].recorded
Debts == {f \in store : ~Spared(f)}

\* A stage names a file after its walk, and records it last.
RecordsLast == \A p \in Process :
    /\ stage[p].at = "walking" => stage[p].file = NoFile
    /\ stage[p].recorded => stage[p].at = "ending"

DInv == /\ IInv /\ crashes \in Nat /\ faults \in Nat /\ (sweep.open \/ sweep.batch = {})
        /\ RecordsLast
        /\ Cardinality(Debts) <= crashes + faults

\* What a step does to the debts.
Troubled == \/ faults' = faults + 1 /\ crashes' = crashes
            \/ crashes' = crashes + 1 /\ faults' = faults
Pays == \/ Debts' \subseteq Debts
        \/ Troubled /\ \E f \in File : Debts' \subseteq Debts \cup {f}

LEMMA TroublesCount ==
    ASSUME [Next]_vars PROVE UNCHANGED <<crashes, faults>> \/ Troubled
<1>1. ASSUME NEW j \in Job, Request(j) \/ SweepDiscards(j) \/ Reseals(j)
      PROVE  UNCHANGED <<crashes, faults>> \/ Troubled
    BY <1>1 DEF Request, SweepDiscards, Reseals, Faulty, env, Troubled
<1>2. ASSUME NEW p \in Process, Runs(p) PROVE UNCHANGED <<crashes, faults>> \/ Troubled
    BY <1>2 DEF Runs, ClaimsNothing, ReadsPage, Claim, Skip, ClaimRaises, BeatLost, BeatRaises,
            WalkEnds, WalkRaises, PutEnds, Settle, Fail, End, Crash, Faulty, env, Troubled
<1>3. CASE SweepBegins \/ SweepCommits \/ SweepRollsBack \/ Resealed \/ UNCHANGED vars
    BY <1>3 DEF SweepBegins, SweepCommits, SweepRollsBack, Resealed, Faulty, vars, env, Troubled
<1> QED BY <1>1, <1>2, <1>3 DEF Next

LEMMA FileSetsAreFinite ==
    ASSUME NEW S \in SUBSET File
    PROVE  /\ IsFiniteSet(S) /\ Cardinality(S) \in Nat
           /\ \A T \in SUBSET S : Cardinality(T) <= Cardinality(S)
           /\ \A f, T : T \subseteq S \cup {f} => Cardinality(T) <= Cardinality(S) + 1
<1>1. IsFiniteSet(Job) /\ IsFiniteSet(1 .. MaxFiles)
    BY ExportAssumption, FS_Interval DEF Job, MaxFiles
<1>2. IsFiniteSet(File)
    BY <1>1, FS_Product DEF File
<1>3. IsFiniteSet(S) /\ Cardinality(S) \in Nat
    BY <1>2, FS_Subset, FS_CardinalityType
<1>4. \A T \in SUBSET S : Cardinality(T) <= Cardinality(S)
    BY <1>3, FS_Subset
<1>5. ASSUME NEW f, NEW T, T \subseteq S \cup {f} PROVE Cardinality(T) <= Cardinality(S) + 1
  <2>1. /\ IsFiniteSet(S \cup {f})
        /\ Cardinality(S \cup {f}) \in {Cardinality(S), Cardinality(S) + 1}
    BY <1>3, FS_AddElement
  <2>2. Cardinality(T) <= Cardinality(S \cup {f}) /\ IsFiniteSet(T)
    BY <1>5, <2>1, FS_Subset
  <2>3. Cardinality(T) \in Nat
    BY <2>2, FS_CardinalityType
  <2> QED BY <1>3, <2>1, <2>2, <2>3
<1> QED BY <1>3, <1>4, <1>5

\* The bound follows from what each step does.
LEMMA PaysKeepsTheBound ==
    ASSUME Typed, crashes \in Nat, faults \in Nat,
           UNCHANGED <<crashes, faults>> \/ Troubled,
           Cardinality(Debts) <= crashes + faults, Pays
    PROVE  /\ crashes' \in Nat /\ faults' \in Nat
           /\ Cardinality(Debts') <= crashes' + faults'
<1> DEFINE S == Debts
           T == Debts'
<1>1. S \in SUBSET File
    BY DEF Typed, Debts
<1>2. T \subseteq S \/ (Troubled /\ \E f \in File : T \subseteq S \cup {f})
    BY DEF Pays
<1>3. Cardinality(S) <= crashes + faults
    OBVIOUS
<1> HIDE DEF S, T
<1>4. /\ Cardinality(S) \in Nat
      /\ T \subseteq S => Cardinality(T) <= Cardinality(S) /\ Cardinality(T) \in Nat
      /\ (\E f \in File : T \subseteq S \cup {f}) =>
            Cardinality(T) <= Cardinality(S) + 1 /\ Cardinality(T) \in Nat
  <2>1. T \subseteq S \/ (\E f \in File : T \subseteq S \cup {f}) => T \in SUBSET File
    BY <1>1
  <2>2. T \in SUBSET File => Cardinality(T) \in Nat
    BY FileSetsAreFinite
  <2> QED BY <1>1, <2>1, <2>2, FileSetsAreFinite
<1>5. crashes' \in Nat /\ faults' \in Nat /\ Cardinality(T) <= crashes' + faults'
    BY <1>2, <1>3, <1>4 DEF Troubled
<1> QED BY <1>5 DEF T

\* What is in store is spared after a step if it was before, and what the step
\* stores is spared.
Spares == \A f \in store' : (f \in store => Spared(f)) => Spared(f)'

LEMMA SparesPays == Spares => Pays
    BY DEF Spares, Pays, Debts

\* Rows and stages go on naming what they named.
LEMMA NamesStay ==
    ASSUME IInv, store' \subseteq store,
           \A j \in Job : row[j].file # NoFile => row'[j].file = row[j].file,
           \A j \in Job : row[j].file # NoFile /\ (j \in sweep.batch => j \in sweep.left) =>
                row[j].file \notin store' \/ (j \in sweep'.batch => j \in sweep'.left),
           \A p \in Process : stage[p].file # NoFile /\ ~stage[p].recorded =>
                \/ stage[p].file \notin store'
                \/ stage'[p].file = stage[p].file /\ ~stage'[p].recorded
    PROVE  Spares
<1> SUFFICES ASSUME NEW f \in store', Spared(f) PROVE Spared(f)'
    BY DEF Spares
<1>1. f # NoFile
    BY FilesAreFiles DEF IInv, Typed
<1>2. CASE \E j \in Job : row[j].file = f /\ (j \in sweep.batch => j \in sweep.left)
    BY <1>1, <1>2 DEF Spared
<1>3. CASE \E p \in Process : stage[p].file = f /\ ~stage[p].recorded
    BY <1>1, <1>3 DEF Spared
<1> QED BY <1>2, <1>3 DEF Spared
\* The routing, the rows of the queue and the renewals name what was named.
LEMMA QueuePays ==
    ASSUME IInv, NEW p \in Process,
           ClaimsNothing(p) \/ ReadsPage(p) \/ Skip(p) \/ ClaimRaises(p) \/ BeatRaises(p) \/ Claim(p)
    PROVE  Pays
<1>1. store' = store /\ sweep' = sweep
    BY DEF ClaimsNothing, ReadsPage, Skip, ClaimRaises, BeatRaises, Claim
<1>2. \A q \in Process : stage[q].file # NoFile => stage'[q] = stage[q]
  <2>1. CASE Claim(p)
    <3>1. stage[p].at = "idle" /\ \A q \in Process : q # p => stage'[q] = stage[q]
        BY <2>1 DEF Claim, Routing, Idle, SetStage, IInv, Typed
    <3> QED BY <3>1 DEF IInv, StagesOwn
  <2>2. CASE ~Claim(p)
    BY <2>2 DEF ClaimsNothing, ReadsPage, Skip, ClaimRaises, BeatRaises
  <2> QED BY <2>1, <2>2
<1>3. \A k \in Job : row'[k].file = row[k].file
  <2>1. CASE row' = row
    BY <2>1
  <2>2. CASE BeatRaises(p)
    <3>1. PICK j \in Job : j = stage[p].job
        BY <2>2 DEF BeatRaises, Renews, IInv, StagesOwn
    <3> QED BY <2>2, <3>1 DEF BeatRaises, IInv, Typed, Row
  <2>3. CASE row' # row /\ ~BeatRaises(p)
    <3>1. PICK j \in Job : j = Head(route[p].queue)
        BY <2>3, RouteIsTyped
           DEF ClaimsNothing, ReadsPage, Skip, ClaimRaises, Claim, Routing, IInv
    <3>2. PICK c \in Process \cup {None} :
            row' = [row EXCEPT ![j] = [@ EXCEPT !.status = "running", !.claim = c]]
        BY <2>3, <3>1 DEF ClaimsNothing, ReadsPage, Skip, ClaimRaises, Claim
    <3> QED BY <3>2 DEF IInv, Typed, Row
  <2> QED BY <2>1, <2>2, <2>3
<1> QED BY <1>1, <1>2, <1>3, NamesStay, SparesPays

\* A stage that goes on, is aborted or is caught keeps its file and its record.
LEMMA EditsKeepTheFile ==
    ASSUME NEW s \in Stage
    PROVE  /\ \A a \in At : LET t == [s EXCEPT !.at = a] IN t.file = s.file /\ t.recorded = s.recorded
           /\ LET t == [s EXCEPT !.aborted = TRUE] IN t.file = s.file /\ t.recorded = s.recorded
           /\ Caught(s).file = s.file /\ Caught(s).recorded = s.recorded
<1>1. \A a \in At : LET t == [s EXCEPT !.at = a] IN t.file = s.file /\ t.recorded = s.recorded
    BY DEF Stage
<1>2. LET t == [s EXCEPT !.aborted = TRUE] IN t.file = s.file /\ t.recorded = s.recorded
    BY DEF Stage
<1>3. PICK a \in At : Caught(s) = [s EXCEPT !.at = a]
    BY DEF Caught, At
<1> QED BY <1>1, <1>2, <1>3

LEMMA EditsKeep ==
    ASSUME IInv, NEW p \in Process, NEW s, SetStage(p, s),
           s.file = stage[p].file, s.recorded = stage[p].recorded
    PROVE  \A q \in Process : stage'[q].file = stage[q].file /\ stage'[q].recorded = stage[q].recorded
    BY DEF SetStage, IInv, Typed

LEMMA EditedKeep ==
    ASSUME IInv, NEW p \in Process, NEW a \in At,
           \/ SetStage(p, [stage[p] EXCEPT !.at = a])
           \/ SetStage(p, [stage[p] EXCEPT !.aborted = TRUE])
           \/ SetStage(p, Caught(stage[p]))
    PROVE  \A q \in Process : stage'[q].file = stage[q].file /\ stage'[q].recorded = stage[q].recorded
<1>1. stage[p] \in Stage
    BY DEF IInv, Typed
<1>2. CASE SetStage(p, [stage[p] EXCEPT !.at = a])
  <2> DEFINE s == [stage[p] EXCEPT !.at = a]
  <2>1. s.file = stage[p].file /\ s.recorded = stage[p].recorded
    BY <1>1 DEF Stage
  <2> HIDE DEF s
  <2> QED BY <1>2, <2>1, EditsKeep DEF s
<1>3. CASE SetStage(p, [stage[p] EXCEPT !.aborted = TRUE])
  <2> DEFINE s == [stage[p] EXCEPT !.aborted = TRUE]
  <2>1. s.file = stage[p].file /\ s.recorded = stage[p].recorded
    BY <1>1 DEF Stage
  <2> HIDE DEF s
  <2> QED BY <1>3, <2>1, EditsKeep DEF s
<1>4. CASE SetStage(p, Caught(stage[p]))
  <2>1. Caught(stage[p]).file = stage[p].file /\ Caught(stage[p]).recorded = stage[p].recorded
    BY <1>1, EditsKeepTheFile
  <2> QED BY <1>4, <2>1, EditsKeep
<1> QED BY <1>2, <1>3, <1>4

\* A stage keeps its file and what it knows of it while it is not settling.
LEMMA StagePays ==
    ASSUME IInv, NEW p \in Process, BeatLost(p) \/ WalkRaises(p)
    PROVE  Pays
<1>1. UNCHANGED <<row, store, sweep>>
    BY DEF BeatLost, WalkRaises
<1>2. PICK a \in At : a = "failing"
    BY DEF At
<1>3. \/ SetStage(p, [stage[p] EXCEPT !.at = a])
      \/ SetStage(p, [stage[p] EXCEPT !.aborted = TRUE])
      \/ SetStage(p, Caught(stage[p]))
    BY <1>2 DEF BeatLost, WalkRaises
<1>4. \A q \in Process : stage'[q].file = stage[q].file /\ stage'[q].recorded = stage[q].recorded
    BY <1>3, EditedKeep
<1> QED BY <1>1, <1>4, NamesStay, SparesPays

LEMMA WalkEndsPays ==
    ASSUME IInv, RecordsLast, NEW p \in Process, WalkEnds(p) PROVE Pays
<1>1. UNCHANGED <<row, store, sweep>>
    BY DEF WalkEnds
<1>2. \A q \in Process : q # p => stage'[q] = stage[q]
    BY DEF WalkEnds, SetStage, IInv, Typed
<1>3. stage[p].file = NoFile
    BY DEF WalkEnds, RecordsLast
<1> QED BY <1>1, <1>2, <1>3, NamesStay, SparesPays

LEMMA PutEndsPays ==
    ASSUME IInv, RecordsLast, NEW p \in Process, PutEnds(p) PROVE Pays
<1>1. PICK f \in File : f = stage[p].file
    BY DEF PutEnds, IInv, Typed, Stage, WritesAreUnnamed
<1>2. UNCHANGED <<row, sweep>> /\ store' \subseteq store \cup {f}
    BY <1>1 DEF PutEnds
<1>3. \A q \in Process : stage'[q].file = stage[q].file /\ stage'[q].recorded = stage[q].recorded
  <2>1. PICK a \in At : a = "settling"
    BY DEF At
  <2>2. SetStage(p, [stage[p] EXCEPT !.at = a]) \/ SetStage(p, Caught(stage[p]))
    BY <2>1 DEF PutEnds
  <2> QED BY <2>2, EditedKeep
<1>4. ~stage[p].recorded
    BY DEF PutEnds, RecordsLast
<1>5. \A g : Spared(g) => Spared(g)'
    BY <1>2, <1>3 DEF Spared
<1>6. Spared(f)'
    BY <1>1, <1>3, <1>4 DEF Spared
<1> QED BY <1>2, <1>5, <1>6, SparesPays DEF Spares

\* The file a stage records is named by its row before the stage lets go of it.
LEMMA SettlePays ==
    ASSUME IInv, RecordsLast, NEW p \in Process, Settle(p) PROVE Pays
<1>1. PICK j \in Job : j = stage[p].job
    BY DEF Settle, IInv, StagesOwn
<1>2. PICK f \in File : f = stage[p].file
    BY DEF Settle, IInv, Typed, Stage, WritesAreUnnamed
<1>3. store' = store /\ sweep' = sweep
    BY DEF Settle
<1>4. SettleRow(j, "completed", f) \/ row' = row
    BY <1>1, <1>2 DEF Settle
<1>5. \A q \in Process : q # p => stage'[q] = stage[q]
    BY DEF Settle, SetStage, IInv, Typed
<1>6. stage'[p].file = f /\ (~stage'[p].recorded \/ (Settleable(j) /\ SettleRow(j, "completed", f)))
  <2>1. CASE SetStage(p, Caught(stage[p]))
    BY <1>2, <2>1 DEF SetStage, Caught, RecordsLast, Settle, IInv, Typed, Stage
  <2>2. CASE /\ SettleRow(j, "completed", f)
             /\ SetStage(p, [stage[p] EXCEPT !.at = "ending", !.recorded = Settleable(j)])
    BY <1>2, <2>2 DEF SetStage, IInv, Typed, Stage
  <2> QED BY <1>1, <1>2, <2>1, <2>2 DEF Settle
<1>7. /\ \A k \in Job : row[k].file # NoFile => row'[k].file = row[k].file
      /\ Settleable(j) /\ SettleRow(j, "completed", f) => row'[j].file = f /\ j \notin sweep.batch
  <2>1. CASE row' = row /\ ~(Settleable(j) /\ SettleRow(j, "completed", f))
    BY <2>1
  <2>2. CASE Settleable(j) /\ SettleRow(j, "completed", f)
    <3>1. row' = [row EXCEPT ![j] = [status |-> "completed", file |-> f, claim |-> None]]
        BY <2>2 DEF SettleRow
    <3>2. row[j].file = NoFile /\ j \notin sweep.batch
        BY <2>2 DEF Settleable, Status, IInv, RowsOwn, LocksHold
    <3> QED BY <3>1, <3>2 DEF IInv, Typed
  <2> QED BY <1>4, <2>1, <2>2 DEF SettleRow
<1>8. ASSUME NEW g \in store', Spared(g) PROVE Spared(g)'
  <2>1. g # NoFile
    BY <1>3, FilesAreFiles DEF IInv, Typed
  <2>2. CASE \E k \in Job : row[k].file = g /\ (k \in sweep.batch => k \in sweep.left)
    BY <1>3, <1>7, <2>1, <2>2 DEF Spared
  <2>3. CASE \E q \in Process : q # p /\ stage[q].file = g /\ ~stage[q].recorded
    BY <1>5, <2>3 DEF Spared
  <2>4. CASE g = f
    BY <1>3, <1>6, <1>7, <2>4 DEF Spared
  <2> QED BY <1>2, <1>8, <2>2, <2>3, <2>4 DEF Spared
<1> QED BY <1>3, <1>8, SparesPays DEF Spares

LEMMA FailPays ==
    ASSUME IInv, NEW p \in Process, Fail(p) PROVE Pays
<1>1. PICK j \in Job : j = stage[p].job
    BY DEF Fail, IInv, StagesOwn
<1>2. /\ SettleRow(j, "failed", NoFile) \/ row' = row
      /\ UNCHANGED <<store, sweep>>
    BY <1>1 DEF Fail
<1>3. \A q \in Process : stage'[q].file = stage[q].file /\ stage'[q].recorded = stage[q].recorded
    BY DEF Fail, SetStage, IInv, Typed, Stage
<1>4. \A k \in Job : row'[k].file = row[k].file
  <2>1. CASE row' = row
    BY <2>1
  <2>2. CASE row' # row
    <3>1. row' = [row EXCEPT ![j] = [status |-> "failed", file |-> NoFile, claim |-> None]]
        BY <1>2, <2>2 DEF SettleRow
    <3>2. row[j].file = NoFile
        BY <1>2, <2>2 DEF SettleRow, Settleable, Status, IInv, RowsOwn
    <3> QED BY <3>1, <3>2 DEF IInv, Typed
  <2> QED BY <2>1, <2>2
<1> QED BY <1>2, <1>3, <1>4, NamesStay, SparesPays

\* A stage that ends takes its file with it, unless the delete is refused or
\* the process is gone: then that file is the one debt more.
LEMMA EndPays ==
    ASSUME IInv, NEW p \in Process, End(p) \/ Crash(p) PROVE Pays
<1>1. PICK f \in File \cup {NoFile} : f = stage[p].file
    BY DEF IInv, Typed, Stage
<1>2. UNCHANGED <<row, sweep>> /\ \A q \in Process : q # p => stage'[q] = stage[q]
    BY DEF End, Crash, SetStage, IInv, Typed
<1>3. \A g : Spared(g) /\ g # f => Spared(g)'
    BY <1>1, <1>2 DEF Spared
<1>4. store' \subseteq store
    BY DEF End, Crash
<1>5. CASE ~Discards(stage[p]) \/ f \notin store'
  <2>1. ASSUME NEW g \in store', Spared(g) PROVE Spared(g)'
    <3>1. g # NoFile
        BY <1>4, FilesAreFiles DEF IInv, Typed
    <3>2. CASE g # f
        BY <1>3, <2>1, <3>2
    <3>3. CASE g = f
        BY <1>1, <1>2, <1>5, <2>1, <3>1, <3>3 DEF Spared, Discards
    <3> QED BY <3>2, <3>3
  <2> QED BY <1>4, <2>1, SparesPays DEF Spares
<1>6. CASE Discards(stage[p]) /\ f \in store'
  <2>1. Troubled /\ f \in File
    BY <1>1, <1>6 DEF End, Crash, Faulty, Troubled, Discards
  <2>2. Debts' \subseteq Debts \cup {f}
    BY <1>3, <1>4 DEF Debts
  <2> QED BY <2>1, <2>2 DEF Pays
<1> QED BY <1>5, <1>6

\* Retention and rotation: a row of the batch is spared until it is passed
\* over, and a row is sealed again under its own name.
LEMMA SweepPays ==
    ASSUME IInv, sweep.open \/ sweep.batch = {}, SweepBegins \/ SweepCommits \/ SweepRollsBack
    PROVE  Pays
<1>1. UNCHANGED <<store, stage>>
    BY DEF SweepBegins, SweepCommits, SweepRollsBack
<1>2. CASE SweepBegins
    BY <1>1, <1>2, NamesStay, SparesPays DEF SweepBegins
<1>3. CASE SweepRollsBack
    BY <1>1, <1>3, NamesStay, SparesPays DEF SweepRollsBack, Unswept
<1>4. CASE SweepCommits
  <2>1. \A f : Spared(f) => Spared(f)'
    BY <1>1, <1>4 DEF SweepCommits, Spared, Unswept
  <2> QED BY <1>1, <2>1, SparesPays DEF Spares
<1> QED BY <1>2, <1>3, <1>4

LEMMA SweepDiscardsPays ==
    ASSUME IInv, NEW j \in Job, SweepDiscards(j) PROVE Pays
<1>1. PICK f \in File \cup {NoFile} : f = row[j].file
    BY DEF IInv, Typed, Row
<1>2. /\ UNCHANGED <<row, stage>> /\ f # NoFile /\ store' \subseteq store
      /\ sweep'.batch = sweep.batch /\ sweep'.left = sweep.left \ {j}
    BY <1>1 DEF SweepDiscards, IInv, Typed, LocksHold
<1>3. \A g : Spared(g) /\ g # f => Spared(g)'
    BY <1>1, <1>2 DEF Spared
<1>4. CASE f \notin store'
    BY <1>2, <1>3, <1>4, SparesPays DEF Spares
<1>5. CASE f \in store'
  <2>1. Troubled
    BY <1>1, <1>5 DEF SweepDiscards, Faulty, Troubled
  <2>2. Debts' \subseteq Debts \cup {f} /\ f \in File
    BY <1>2, <1>3 DEF Debts
  <2> QED BY <2>1, <2>2 DEF Pays
<1> QED BY <1>4, <1>5

LEMMA RotationPays ==
    ASSUME IInv, Resealed \/ \E j \in Job : Request(j) \/ Reseals(j) PROVE Pays
<1>1. UNCHANGED <<stage, sweep>> /\ \A k \in Job : row'[k].file = row[k].file
  <2>1. CASE Resealed \/ \E j \in Job : Reseals(j)
    BY <2>1 DEF Resealed, Reseals
  <2>2. ASSUME NEW j \in Job, Request(j)
        PROVE  UNCHANGED <<stage, sweep>> /\ \A k \in Job : row'[k].file = row[k].file
    <3>1. row' = [row EXCEPT ![j] = [row[j] EXCEPT !.status = "requested"]]
        BY <2>2 DEF Request, IInv, Typed
    <3>2. row[j] \in Row
        BY DEF IInv, Typed
    <3>3. \A k \in Job : row'[k].file = row[k].file
        BY <3>1, <3>2 DEF Row, IInv, Typed
    <3> QED BY <2>2, <3>3 DEF Request
  <2> QED BY <2>1, <2>2
<1>2. \A f : Spared(f) => Spared(f)'
    BY <1>1 DEF Spared
<1>3. \A f \in store' \ store : Spared(f)
    BY DEF Resealed, Request, Reseals, Spared, IInv, LocksHold
<1> QED BY <1>2, <1>3, SparesPays DEF Spares

LEMMA StepsPay ==
    ASSUME IInv, RecordsLast, sweep.open \/ sweep.batch = {}, [Next]_vars PROVE Pays
<1>1. ASSUME NEW p \in Process, Runs(p) PROVE Pays
    BY <1>1, QueuePays, StagePays, WalkEndsPays, PutEndsPays, SettlePays, FailPays, EndPays DEF Runs
<1>2. CASE UNCHANGED vars
    BY <1>2 DEF vars, Pays, Debts, Spared
<1> QED BY <1>1, <1>2, SweepPays, SweepDiscardsPays, RotationPays DEF Next

LEMMA StagesRecordLast ==
    ASSUME IInv, RecordsLast, [Next]_vars PROVE RecordsLast'
<1>1. CASE stage' = stage
    BY <1>1 DEF RecordsLast
<1>2. ASSUME NEW p \in Process, Runs(p), stage' # stage PROVE RecordsLast'
  <2>1. PICK s : stage' = [stage EXCEPT ![p] = s]
    BY <1>2 DEF Runs, ClaimsNothing, ReadsPage, Claim, Skip, ClaimRaises, BeatLost, BeatRaises,
            WalkEnds, WalkRaises, PutEnds, Settle, Fail, End, Crash, SetStage
  <2>2. stage[p] \in Stage
    BY DEF IInv, Typed
  <2>3. /\ stage'[p].at = "walking" => stage'[p].file = NoFile
        /\ stage'[p].recorded => stage'[p].at = "ending"
    <3>1. CASE Claim(p)
        <4>1. PICK j : stage' = [stage EXCEPT ![p] = [NoStage EXCEPT !.at = "walking", !.job = j]]
            BY <3>1 DEF Claim, SetStage
        <4> QED BY <4>1 DEF NoStage, IInv, Typed
    <3>2. CASE End(p) \/ Crash(p)
        BY <3>2 DEF End, Crash, SetStage, NoStage, IInv, Typed
    <3>3. CASE BeatLost(p)
        <4>1. stage'[p] = [stage[p] EXCEPT !.aborted = TRUE] /\ stage[p].at # "ending"
            BY <3>3 DEF BeatLost, Renews, SetStage, IInv, Typed
        <4> QED BY <2>2, <4>1 DEF RecordsLast, Stage
    <3>4. CASE WalkEnds(p)
        <4>1. PICK f : stage'[p] = [stage[p] EXCEPT !.at = "writing", !.file = f]
            BY <3>4 DEF WalkEnds, SetStage, IInv, Typed
        <4>2. ~stage[p].recorded
            BY <3>4 DEF WalkEnds, RecordsLast
        <4> QED BY <2>2, <4>1, <4>2 DEF Stage
    <3>5. CASE Settle(p) /\ SetStage(p, [stage[p] EXCEPT !.at = "ending",
                                         !.recorded = Settleable(stage[p].job)])
        <4>1. PICK b : stage'[p] = [stage[p] EXCEPT !.at = "ending", !.recorded = b]
            BY <3>5 DEF SetStage, IInv, Typed
        <4> QED BY <2>2, <4>1 DEF Stage
    <3>6. CASE WalkRaises(p) \/ PutEnds(p) \/ Fail(p) \/ (Settle(p) /\ SetStage(p, Caught(stage[p])))
        <4>1. PICK a \in {"settling", "failing", "ending"} : SetStage(p, [stage[p] EXCEPT !.at = a])
            BY <3>6 DEF WalkRaises, PutEnds, Fail, Caught
        <4>2. stage'[p] = [stage[p] EXCEPT !.at = a]
            BY <4>1 DEF SetStage, IInv, Typed
        <4>3. ~stage[p].recorded
            BY <3>6 DEF WalkRaises, PutEnds, Fail, Settle, RecordsLast
        <4> QED BY <2>2, <4>2, <4>3 DEF Stage
    <3> QED BY <1>2, <3>1, <3>2, <3>3, <3>4, <3>5, <3>6
        DEF Runs, ClaimsNothing, ReadsPage, Skip, ClaimRaises, BeatRaises, Settle
  <2>4. \A q \in Process : q # p => stage'[q] = stage[q]
    BY <2>1 DEF IInv, Typed
  <2> QED BY <2>3, <2>4 DEF RecordsLast
<1>3. stage' = stage \/ \E p \in Process : Runs(p)
    BY DEF Next, Request, SweepDiscards, Reseals, SweepBegins, SweepCommits, SweepRollsBack,
           Resealed, vars
<1> QED BY <1>1, <1>2, <1>3

\* However stages end, are repeated, are taken over or crash, and whatever
\* retention and rotation do meanwhile, the files nothing can reach are at most
\* one for each crash and each refused delete.
THEOREM FilesStayReachable == Spec => []FilesAreReachable
<1>1. Init => DInv
  <2> SUFFICES ASSUME Init PROVE DInv
    OBVIOUS
  <2>1. Debts = {} /\ crashes = 0 /\ faults = 0
    BY DEF Init, Debts
  <2>2. Cardinality(Debts) = 0
    BY <2>1, FS_EmptySet
  <2>3. RecordsLast /\ (sweep.open \/ sweep.batch = {})
    BY DEF Init, RecordsLast, NoStage, Unswept
  <2> QED BY <2>1, <2>2, <2>3, InitKeepsInv DEF DInv
<1>2. DInv /\ IInv' /\ [Next]_vars => DInv'
  <2> SUFFICES ASSUME DInv, IInv', [Next]_vars PROVE DInv'
    OBVIOUS
  <2>1. RecordsLast' /\ (sweep'.open \/ sweep'.batch = {})
    BY StagesRecordLast, SweepIsOpen DEF DInv
  <2>2. Pays /\ (UNCHANGED <<crashes, faults>> \/ Troubled)
    BY StepsPay, TroublesCount DEF DInv
  <2>3. crashes' \in Nat /\ faults' \in Nat /\ Cardinality(Debts') <= crashes' + faults'
    BY <2>2, PaysKeepsTheBound DEF DInv, IInv
  <2> QED BY <2>1, <2>3 DEF DInv
<1>3. DInv => FilesAreReachable
  <2> SUFFICES ASSUME DInv PROVE FilesAreReachable
    OBVIOUS
  <2>1. Orphans \subseteq Debts
    BY FilesAreFiles DEF Orphans, Debts, Spared, Named, DInv, IInv, Typed
  <2>2. Debts \in SUBSET File /\ Orphans \in SUBSET File
    BY DEF Debts, Orphans, DInv, IInv, Typed
  <2>3. Cardinality(Orphans) <= Cardinality(Debts) /\ Cardinality(Orphans) \in Nat
        /\ Cardinality(Debts) \in Nat
    BY <2>1, <2>2, FileSetsAreFinite
  <2> QED BY <2>3 DEF DInv, FilesAreReachable
<1> QED BY <1>1, <1>2, <1>3, ExportInvariant, PTL DEF Spec
=============================================================================
