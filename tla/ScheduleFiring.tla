---------------------------- MODULE ScheduleFiring ----------------------------
(***************************************************************************)
(* Cron schedules of automations.core: the pass of a worker, which first   *)
(* follows the changes of workspace time zones and then fires what is due, *)
(* against other workers, edits of the schedules, crashes and calls that   *)
(* raise.                                                                  *)
(*                                                                         *)
(* A workspace has one schedule.  A zone is named by the revision of the   *)
(* change that set it (0: the zone before any), and the slots of zone z    *)
(* are the times that are z modulo Period.                                 *)
(***************************************************************************)
EXTENDS Integers, Sequences, SequencesExt, FiniteSetsExt

CONSTANTS
    Workspace, Process,
    Broken,       \* workspaces whose retiming raises whenever it is tried
    Page,         \* SCHEDULE_POLL_PAGE
    HeldSkips,    \* SCHEDULE_HELD_SKIPS
    RetryLimit,   \* TIME_ZONE_RETRY_LIMIT
    Period,
    None,
    MaxTime, MaxChanges, MaxEdits,
    MaxTroubles   \* bound: crashes, calls that raise, expired cursors

ASSUME ScheduleAssumption ==
    /\ Broken \subseteq Workspace /\ None \notin Workspace /\ None \notin Int
    /\ Page \in Nat \ {0} /\ HeldSkips \in Nat /\ RetryLimit \in Nat
    /\ Period \in Nat \ {0}
    /\ MaxTime \in Nat /\ MaxChanges \in Nat /\ MaxEdits \in Nat /\ MaxTroubles \in Nat

VARIABLES
    now,
    log,       \* the committed zone changes, by revision: their workspace and time
    sched,     \* sched[w]: its row, with the zone its slot was computed in
    applied,   \* applied[w]: applied_revision
    pass,      \* pass[p]: the pass of a process, or where it is idle
    follower,  \* follower[p]: its cursor in the log, and what it owes
    after,     \* after[p]: the last row its walk examined, or None
    edit,      \* edit[w]: an update() that has read the row, or None
    edits, troubles

vars == <<now, log, sched, applied, pass, follower, after, edit, edits, troubles>>

Nothing == [w \in Workspace |-> 0]
NoTask == [ws |-> None]
Closed == [at |-> "idle", begun |-> 0, work |-> Nothing, hold |-> {}, page |-> {},
           last |-> FALSE, claimed |-> 0, skipped |-> 0, task |-> NoTask]
Fresh == [cursor |-> 0, owed |-> Nothing]

-----------------------------------------------------------------------------
(***************************************************************************)
(* Slots and zones.                                                        *)
(***************************************************************************)
SlotAfter(t, zone) == t + 1 + ((zone - t - 1) % Period)

Later(s, t) == IF s >= t THEN s ELSE t
Of(w) == {r \in DOMAIN log : log[r].ws = w}
\* The newest change of w up to a revision, and one after a cursor (0: none).
NewestUpTo(w, r) == Max({q \in Of(w) : q <= r} \cup {0})
NewestAfter(w, r) == Max({q \in Of(w) : q > r} \cup {0})

\* prime(w, {revision}): the zone of settings at least as new as that revision.
ZoneAtLeast(w, r) == {q \in Of(w) \cup {0} : q >= r}
\* Mutant: the zone is read without the revision the workspace applied.
ZoneOfMemory(w) == ZoneAtLeast(w, 0)
ZoneFor(w) == ZoneAtLeast(w, applied[w])

Init ==
    /\ now = 0 /\ log = <<>>
    /\ sched = [w \in Workspace |->
         [enabled |-> TRUE, slot |-> SlotAfter(0, 0), lastRun |-> 0, updated |-> 0,
          zone |-> 0, raced |-> FALSE]]
    /\ applied = Nothing
    /\ pass = [p \in Process |-> Closed] /\ follower = [p \in Process |-> Fresh]
    /\ after = [p \in Process |-> None]
    /\ edit = [w \in Workspace |-> None] /\ edits = 0 /\ troubles = 0

Trouble == troubles < MaxTroubles /\ troubles' = troubles + 1
At(p, at) == pass[p].at = at
Goes(p, record) == pass' = [pass EXCEPT ![p] = record]
Task(p) == pass[p].task

\* Observer: the zone of a slot now written was read under an older revision than
\* the one applied, or selected for, by now.
Raced(w, basis) ==
    \/ basis < applied[w]
    \/ \E q \in Process : At(q, "locked") /\ Task(q).ws = w /\ basis < Task(q).revision

-----------------------------------------------------------------------------
(***************************************************************************)
(* The settings, the clock and update().                                   *)
(***************************************************************************)
Tick ==
    /\ now < MaxTime /\ now' = now + 1
    /\ UNCHANGED <<log, sched, applied, pass, follower, after, edit, edits, troubles>>

ZoneChanges(w) ==
    /\ Len(log) < MaxChanges
    /\ log' = Append(log, [ws |-> w, at |-> now])
    /\ UNCHANGED <<now, sched, applied, pass, follower, after, edit, edits, troubles>>

\* update() reads the row; a changed cadence or enabled takes a first slot from
\* now on, anything else keeps the slot that was read.
EditReads(w) ==
    /\ edit[w] = None /\ edits < MaxEdits /\ edits' = edits + 1
    /\ \/ edit' = [edit EXCEPT ![w] =
            [enabled |-> sched[w].enabled, slot |-> sched[w].slot, at |-> now,
             zone |-> sched[w].zone, raced |-> sched[w].raced, basis |-> applied[w]]]
       \/ \E enabled \in BOOLEAN : \E zone \in ZoneFor(w) :
            edit' = [edit EXCEPT ![w] =
              [enabled |-> enabled, slot |-> SlotAfter(now, zone), at |-> now,
               zone |-> zone, raced |-> FALSE, basis |-> applied[w]]]
    /\ UNCHANGED <<now, log, sched, applied, pass, follower, after, troubles>>

\* The write compares nothing.
EditWrites(w) ==
    /\ edit[w] # None
    /\ LET e == edit[w]
       IN  sched' = [sched EXCEPT ![w] =
             [@ EXCEPT !.enabled = e.enabled, !.slot = e.slot, !.updated = e.at,
                       !.zone = e.zone, !.raced = e.raced \/ Raced(w, e.basis)]]
    /\ edit' = [edit EXCEPT ![w] = None]
    /\ UNCHANGED <<now, log, applied, pass, follower, after, edits, troubles>>

-----------------------------------------------------------------------------
(***************************************************************************)
(* pass() of the follower.                                                 *)
(***************************************************************************)
Opens(p) ==
    /\ At(p, "idle")
    /\ Goes(p, [Closed EXCEPT !.at = "reading", !.begun = Len(log)])
    /\ UNCHANGED <<now, log, sched, applied, follower, after, edit, edits, troubles>>

\* The page names the newest change of each workspace after the cursor; an expired
\* cursor reads from the start.  What is owed and newer goes first.
ReadsLog(p) ==
    /\ At(p, "reading")
    /\ \E from \in {follower[p].cursor, 0} :
        /\ IF from = follower[p].cursor THEN UNCHANGED troubles ELSE Trouble
        /\ Goes(p, [pass[p] EXCEPT !.at = "applying",
             !.work = [w \in Workspace |-> Later(NewestAfter(w, from), follower[p].owed[w])]])
    /\ follower' = [follower EXCEPT ![p] = [cursor |-> Len(log), owed |-> Nothing]]
    /\ UNCHANGED <<now, log, sched, applied, after, edit, edits>>

\* The cron slots of every workspace wait.
LogRaises(p) ==
    /\ At(p, "reading") /\ Trouble
    /\ Goes(p, [pass[p] EXCEPT !.at = "open", !.hold = Workspace])
    /\ UNCHANGED <<now, log, sched, applied, follower, after, edit, edits>>

-----------------------------------------------------------------------------
(***************************************************************************)
(* applyTimeZoneChange.                                                    *)
(***************************************************************************)
Done(p, w) == [pass[p] EXCEPT !.at = "applying", !.work[w] = 0, !.task = NoTask]

SkipsApplied(p, w) ==
    /\ At(p, "applying") /\ pass[p].work[w] # 0 /\ applied[w] >= pass[p].work[w]
    /\ Goes(p, Done(p, w))
    /\ UNCHANGED <<now, log, sched, applied, follower, after, edit, edits, troubles>>

ReadsZone(p, w) ==
    /\ At(p, "applying") /\ applied[w] < pass[p].work[w]
    /\ \E zone \in ZoneAtLeast(w, pass[p].work[w]) :
        Goes(p, [pass[p] EXCEPT !.at = "zoned",
          !.task = [ws |-> w, revision |-> pass[p].work[w], zone |-> zone, at |-> now]])
    /\ UNCHANGED <<now, log, sched, applied, follower, after, edit, edits, troubles>>

Locked(w) == \E q \in Process : At(q, "locked") /\ Task(q).ws = w

\* Under the lock of the applied record: a slot due by the change keeps its fire.
Selects(p) ==
    /\ At(p, "zoned") /\ ~Locked(Task(p).ws)
    /\ LET t == Task(p)
           row == sched[t.ws]
           changedAt == log[t.revision].at
       IN  IF applied[t.ws] >= t.revision THEN Goes(p, Done(p, t.ws))
           ELSE Goes(p, [pass[p] EXCEPT !.at = "locked", !.task =
                  [ws |-> t.ws, revision |-> t.revision, zone |-> t.zone, at |-> t.at,
                   slot |-> IF row.enabled /\ row.slot > changedAt THEN row.slot ELSE None,
                   next |-> SlotAfter(Later(changedAt, Later(row.lastRun, row.updated)), t.zone)]])
    /\ UNCHANGED <<now, log, sched, applied, follower, after, edit, edits, troubles>>

\* Each move compares the slot it read; the revision is recorded all the same.
Retimes(p) ==
    /\ At(p, "locked") /\ Task(p).ws \notin Broken
    /\ LET t == Task(p)
       IN  /\ sched' = IF sched[t.ws].enabled /\ sched[t.ws].slot = t.slot
                       THEN [sched EXCEPT ![t.ws] =
                              [@ EXCEPT !.slot = t.next, !.zone = t.zone, !.raced = FALSE,
                                        !.updated = IF t.next = t.slot
                                                    THEN sched[t.ws].updated ELSE t.at]]
                       ELSE sched
           /\ applied' = [applied EXCEPT ![t.ws] = t.revision]
           /\ Goes(p, Done(p, t.ws))
    /\ UNCHANGED <<now, log, follower, after, edit, edits, troubles>>

\* Mutant: a retiming that failed is left to the next change.
OwesNothing(p, w, revision) == UNCHANGED follower
Owes(p, w, revision) == follower' = [follower EXCEPT ![p].owed[w] = revision]

RetimingRaises(p) ==
    /\ pass[p].at \in {"zoned", "locked"}
    /\ LET t == Task(p)
       IN  /\ IF t.ws \in Broken THEN UNCHANGED troubles ELSE Trouble
           /\ Owes(p, t.ws, t.revision)
           /\ Goes(p, [Done(p, t.ws) EXCEPT !.hold = @ \cup {t.ws}])
    /\ UNCHANGED <<now, log, sched, applied, after, edit, edits>>

\* More than the limit owed: the next pass reads the log from its start.
FollowerEnds(p) ==
    /\ At(p, "applying") /\ pass[p].work = Nothing
    /\ Goes(p, [pass[p] EXCEPT !.at = "open"])
    /\ follower' = IF Cardinality({w \in Workspace : follower[p].owed[w] # 0}) > RetryLimit
                   THEN [follower EXCEPT ![p] = Fresh] ELSE follower
    /\ UNCHANGED <<now, log, sched, applied, after, edit, edits, troubles>>

-----------------------------------------------------------------------------
(***************************************************************************)
(* claim(): the walk over what is due.                                     *)
(***************************************************************************)
Row(w) == [ws |-> w, slot |-> sched[w].slot]
\* The order of next_run_at and id.
Id(w) == CHOOSE n \in 1 .. Cardinality(Workspace) : SetToSeq(Workspace)[n] = w
Before(a, b) == a.slot < b.slot \/ (a.slot = b.slot /\ Id(a.ws) < Id(b.ws))
Due(p) == {Row(w) : w \in {v \in Workspace : sched[v].enabled /\ sched[v].slot <= now
                             /\ (after[p] = None \/ Before(after[p], Row(v)))}}
First(rows, n) == {row \in rows : Cardinality({r \in rows : Before(r, row)}) < n}

ReadsPage(p) ==
    /\ At(p, "open") /\ pass[p].claimed < Page /\ pass[p].page = {} /\ ~pass[p].last
    /\ LET page == First(Due(p), Page)
       IN Goes(p, [pass[p] EXCEPT !.page = page, !.last = Cardinality(page) < Page])
    /\ UNCHANGED <<now, log, sched, applied, follower, after, edit, edits, troubles>>

\* Nothing due lies past the page: the next walk starts over.
WalkEnds(p) ==
    /\ At(p, "open") /\ pass[p].claimed < Page /\ pass[p].page = {} /\ pass[p].last
    /\ Goes(p, Closed) /\ after' = [after EXCEPT ![p] = None]
    /\ UNCHANGED <<now, log, sched, applied, follower, edit, edits, troubles>>

PassIsFull(p) ==
    /\ At(p, "open") /\ pass[p].claimed = Page
    /\ Goes(p, Closed)
    /\ UNCHANGED <<now, log, sched, applied, follower, after, edit, edits, troubles>>

\* Mutant: every pass walks from the start.
ForgetsRow(p, row) == UNCHANGED after
Examines(p, row) == after' = [after EXCEPT ![p] = row]

Steps(p, row) == row.ws \in pass[p].hold /\ pass[p].skipped < HeldSkips /\ Row(row.ws) = row

\* A held slot costs no claim until the limit is reached.
Claims(p) ==
    /\ At(p, "open") /\ pass[p].claimed < Page
    /\ \E row \in First(pass[p].page, 1) :
        /\ Examines(p, row)
        /\ Goes(p, IF Steps(p, row)
             THEN [pass[p] EXCEPT !.page = @ \ {row}, !.skipped = @ + 1]
             ELSE [pass[p] EXCEPT !.page = @ \ {row}, !.claimed = @ + 1, !.at = "claimed",
                     !.task = [ws |-> row.ws, slot |-> row.slot]])
    /\ UNCHANGED <<now, log, sched, applied, follower, edit, edits, troubles>>

-----------------------------------------------------------------------------
(***************************************************************************)
(* fireDue and fire.                                                       *)
(***************************************************************************)
Reopened(p) == [pass[p] EXCEPT !.at = "open", !.task = NoTask]

LetsBe(p) ==
    /\ At(p, "claimed")
    /\ sched[Task(p).ws].slot # Task(p).slot \/ Task(p).ws \in pass[p].hold
    /\ Goes(p, Reopened(p))
    /\ UNCHANGED <<now, log, sched, applied, follower, after, edit, edits, troubles>>

\* The next slot is known before anything is dispatched.
Fires(p) ==
    /\ At(p, "claimed") /\ Task(p).ws \notin pass[p].hold
    /\ LET w == Task(p).ws
           slot == Task(p).slot
       IN  /\ sched[w].slot = slot
           /\ \E zone \in ZoneFor(w) :
                Goes(p, [pass[p] EXCEPT !.at = "firing", !.task =
                  [ws |-> w, slot |-> slot, at |-> now, zone |-> zone,
                   next |-> SlotAfter(Later(slot, now), zone), basis |-> applied[w]]])
    /\ UNCHANGED <<now, log, sched, applied, follower, after, edit, edits, troubles>>

\* The run is queued under the key of its slot, or refused.
Enqueues(p) ==
    /\ At(p, "firing")
    /\ Goes(p, [pass[p] EXCEPT !.at = "queued"])
    /\ UNCHANGED <<now, log, sched, applied, follower, after, edit, edits, troubles>>

\* The target is gone; the slot is not compared.
Disables(p) ==
    /\ At(p, "firing") /\ Trouble
    /\ sched' = IF sched[Task(p).ws].enabled
                THEN [sched EXCEPT ![Task(p).ws] = [@ EXCEPT !.enabled = FALSE, !.updated = Task(p).at]]
                ELSE sched
    /\ Goes(p, Reopened(p))
    /\ UNCHANGED <<now, log, applied, follower, after, edit, edits>>

Advances(p) ==
    /\ At(p, "queued")
    /\ LET t == Task(p)
       IN  sched' = IF sched[t.ws].enabled /\ sched[t.ws].slot = t.slot
                    THEN [sched EXCEPT ![t.ws] =
                           [@ EXCEPT !.slot = t.next, !.lastRun = t.at, !.updated = t.at,
                                     !.zone = t.zone, !.raced = Raced(t.ws, t.basis)]]
                    ELSE sched
    /\ Goes(p, Reopened(p))
    /\ UNCHANGED <<now, log, applied, follower, after, edit, edits, troubles>>

\* A call raises: the claim ends the pass, a stage only itself.
Raises(p) ==
    /\ Trouble
    /\ \/ At(p, "open") /\ Goes(p, Closed)
       \/ pass[p].at \in {"claimed", "firing", "queued"} /\ Goes(p, Reopened(p))
    /\ UNCHANGED <<now, log, sched, applied, follower, after, edit, edits>>

Crashes(p) ==
    /\ Trouble
    /\ Goes(p, Closed)
    /\ follower' = [follower EXCEPT ![p] = Fresh] /\ after' = [after EXCEPT ![p] = None]
    /\ UNCHANGED <<now, log, sched, applied, edit, edits>>

-----------------------------------------------------------------------------
Works(p) ==
    \/ Opens(p) \/ ReadsLog(p) \/ Selects(p) \/ Retimes(p) \/ FollowerEnds(p)
    \/ (\E w \in Workspace : SkipsApplied(p, w) \/ ReadsZone(p, w))
    \/ (At(p, "locked") /\ Task(p).ws \in Broken /\ RetimingRaises(p))
    \/ ReadsPage(p) \/ WalkEnds(p) \/ PassIsFull(p) \/ Claims(p)
    \/ LetsBe(p) \/ Fires(p) \/ Enqueues(p) \/ Advances(p)

Next ==
    \/ Tick
    \/ \E w \in Workspace : ZoneChanges(w) \/ EditReads(w) \/ EditWrites(w)
    \/ \E p \in Process :
        Works(p) \/ LogRaises(p) \/ RetimingRaises(p) \/ Disables(p) \/ Raises(p) \/ Crashes(p)

\* The job runner keeps passing, and time goes on.
Fairness == WF_vars(Tick) /\ \A p \in Process : WF_vars(Works(p))

Spec == Init /\ [][Next]_vars
FairSpec == Spec /\ Fairness

-----------------------------------------------------------------------------
(***************************************************************************)
(* A workspace whose cron slots do not wait in a pass has applied every    *)
(* change committed before the pass began, whatever failed, expired or     *)
(* crashed in the passes before (schedule-runner.ts:88-91,                 *)
(* time-zone-follower.ts:35-40).                                           *)
(***************************************************************************)
PassIsCurrent == \A p \in Process : \A w \in Workspace :
    pass[p].at \in {"open", "claimed", "firing", "queued"} /\ w \notin pass[p].hold =>
        applied[w] >= NewestUpTo(w, pass[p].begun)

(***************************************************************************)
(* "no cron slot fires in a zone older than every change committed before  *)
(* the pass that fires it began" (automations spec/module.yaml:37), but a  *)
(* slot that was due by an applied change, and one whose writer read its   *)
(* zone before a change was applied and wrote it after.                    *)
(***************************************************************************)
ZoneIsCurrent(w, begun) ==
    LET newest == NewestUpTo(w, begun)
    IN  \/ sched[w].zone >= newest \/ sched[w].raced
        \/ \E q \in Of(w) : newest <= q /\ q <= applied[w] /\ sched[w].slot <= log[q].at

FiresInItsZone == [][\A p \in Process :
    At(p, "claimed") /\ pass'[p].at = "firing" => ZoneIsCurrent(Task(p).ws, pass[p].begun)]_vars

(***************************************************************************)
(* A slot that is due is fired, moved or disabled, also while another      *)
(* workspace's retiming fails in every pass and its slot stays due: "a slot*)
(* that stays due, held or failing, delays the slots behind it by one walk *)
(* at most" (schedule-runner.ts:71-75).                                    *)
(***************************************************************************)
DueIsServed == \A w \in Workspace \ Broken : \A slot \in 0 .. MaxTime :
    (sched[w].enabled /\ sched[w].slot = slot) ~> (~sched[w].enabled \/ sched[w].slot # slot)
===============================================================================
