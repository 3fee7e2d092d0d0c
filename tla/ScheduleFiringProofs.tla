------------------------- MODULE ScheduleFiringProofs -------------------------
(***************************************************************************)
(* A pass fires a workspace's cron slots only when every change of its     *)
(* zone committed before the pass began is applied, for any number of      *)
(* workspaces, processes and changes and any failures.                     *)
(*                                                                         *)
(* A change the cursor of a process is past is applied, owed or in the     *)
(* work of its pass: nothing is forgotten between the three.  A workspace  *)
(* that a pass leaves owing holds its slots in that pass.                  *)
(*                                                                         *)
(* And the slot it fires stands in a zone as new.  That rests on each row  *)
(* suiting the revision its workspace has applied (Suits), on each slot a  *)
(* pass has read off the rows serving the point of the log it began at     *)
(* until the slot is moved (Serves), and on the zone a retiming or a fire  *)
(* carries being no older than the revision it was read for.               *)
(***************************************************************************)
EXTENDS ScheduleFiring, TLAPS

Fields == {"at", "begun", "work", "hold", "page", "last", "claimed", "skipped", "task"}
FollowerRec == [cursor : Nat, owed : [Workspace -> Nat]]
Follows == {"applying", "zoned", "locked"}
FiresAt == {"open", "claimed", "firing", "queued"}

Shaped(r) ==
    /\ DOMAIN r = Fields /\ r.begun \in Nat
    /\ r.work \in [Workspace -> Nat] /\ r.hold \subseteq Workspace

Typed ==
    /\ now \in Nat
    /\ log \in Seq([ws : Workspace, at : Nat])
    /\ applied \in [Workspace -> Nat]
    /\ DOMAIN pass = Process /\ \A p \in Process : Shaped(pass[p])
    /\ follower \in [Process -> FollowerRec]

\* Of the changes up to any revision a workspace has a newest: kept by every commit.
NewestExists == \A w \in Workspace : \A r \in 0 .. Len(log) :
    \E n \in {q \in Of(w) : q <= r} \cup {0} : \A q \in Of(w) : q <= r => q <= n

\* Of a pass r, its follower f, the revisions ap applied and the changes lg.
Named(lg, w) == {q \in DOMAIN lg : lg[q].ws = w}

Remembered(r, f, ap, lg) == \A w \in Workspace : \A q \in Named(lg, w) :
    q <= f.cursor => q <= ap[w] \/ q <= f.owed[w] \/ q <= r.work[w]

WorkIsOpen(r, f) ==
    /\ r.at \notin Follows => \A w \in Workspace : r.work[w] = 0
    /\ r.at = "reading" => r.hold = {}
    /\ r.at \in Follows =>
         /\ r.begun <= f.cursor
         /\ \A w \in Workspace : (w \in r.hold => r.work[w] = 0) /\ (w \notin r.hold => f.owed[w] = 0)
    /\ r.at \in {"zoned", "locked"} =>
         r.task.ws \in Workspace /\ r.task.revision = r.work[r.task.ws] /\ r.task.revision > 0

UpToDate(r, ap, lg) == r.at \in FiresAt =>
    \A w \in Workspace \ r.hold : \A q \in Named(lg, w) : q <= r.begun => q <= ap[w]

Sound(r, f, ap, lg) ==
    /\ r.begun <= Len(lg) /\ f.cursor <= Len(lg)
    /\ Remembered(r, f, ap, lg) /\ WorkIsOpen(r, f) /\ UpToDate(r, ap, lg)

\* One process retimes a workspace at a time, to a revision not applied yet.
Retiming ==
    /\ \A p \in Process : At(p, "locked") => applied[Task(p).ws] < Task(p).revision
    /\ \A p, q \in Process : At(p, "locked") /\ At(q, "locked") /\ Task(p).ws = Task(q).ws => p = q

IInv == Typed /\ NewestExists /\ Retiming
        /\ \A p \in Process : Sound(pass[p], follower[p], applied, log)

-----------------------------------------------------------------------------
(***************************************************************************)
(* The changes of a workspace and their newest.                            *)
(***************************************************************************)
LEMMA NamedAre ==
    ASSUME NEW lg \in Seq([ws : Workspace, at : Nat]), NEW w
    PROVE  \A q \in Named(lg, w) : q \in Nat /\ q > 0 /\ q <= Len(lg)
    BY DEF Named

LEMMA OfIsNamed == \A w : Of(w) = Named(log, w)
    BY DEF Of, Named

LEMMA NewestUpToIs ==
    ASSUME Typed, NewestExists, NEW w \in Workspace, NEW r \in 0 .. Len(log)
    PROVE  /\ NewestUpTo(w, r) \in {q \in Of(w) : q <= r} \cup {0}
           /\ NewestUpTo(w, r) \in Nat
<1> DEFINE S == {q \in Of(w) : q <= r} \cup {0}
<1>1. \A q \in Of(w) : q \in Nat
    BY OfIsNamed, NamedAre DEF Typed
<1>2. PICK n \in S : \A q \in Of(w) : q <= r => q <= n
    BY DEF NewestExists
<1>3. n \in S /\ \A q \in S : n >= q
    BY <1>1, <1>2
<1>4. Max(S) \in S
    BY <1>3 DEF Max
<1> QED BY <1>1, <1>4 DEF NewestUpTo

LEMMA NewestAfterIs ==
    ASSUME Typed, NewestExists, NEW w \in Workspace, NEW r \in Nat
    PROVE  /\ NewestAfter(w, r) \in Nat /\ NewestAfter(w, r) \in Of(w) \cup {0}
           /\ \A q \in Of(w) : q > r => q <= NewestAfter(w, r)
<1> DEFINE S == {q \in Of(w) : q > r} \cup {0}
<1>1. \A q \in Of(w) : q \in Nat /\ q > 0 /\ q <= Len(log)
    BY OfIsNamed, NamedAre DEF Typed
<1>2. Len(log) \in 0 .. Len(log)
    BY DEF Typed
<1>3. PICK n \in {q \in Of(w) : q <= Len(log)} \cup {0} :
        \A q \in Of(w) : q <= Len(log) => q <= n
    BY <1>2 DEF NewestExists
<1>4. \E m \in S : \A q \in S : m >= q
  <2>1. CASE n > r
      BY <1>1, <1>3, <2>1
  <2>2. CASE ~(n > r)
    <3>1. \A q \in Of(w) : ~(q > r)
        BY <1>1, <1>3, <2>2
    <3>2. \A q \in S : 0 >= q
        BY <3>1
    <3> QED BY <3>2
  <2> QED BY <2>1, <2>2
<1>5. Max(S) \in S /\ \A q \in S : Max(S) >= q
    BY <1>4 DEF Max
<1>6. NewestAfter(w, r) = Max(S)
    BY DEF NewestAfter
<1> HIDE DEF S
<1>7. S \subseteq Nat
    BY <1>1 DEF S
<1> QED BY <1>1, <1>5, <1>6, <1>7 DEF S

LEMMA NewestStays ==
    ASSUME NewestExists, UNCHANGED log PROVE NewestExists'
    BY DEF NewestExists, Of

-----------------------------------------------------------------------------
(***************************************************************************)
(* What a process keeps when others move.                                  *)
(***************************************************************************)
\* Changes are applied forward.
Forward == applied' \in [Workspace -> Nat] /\ \A w \in Workspace : applied[w] <= applied'[w]

LEMMA ForwardKeeps ==
    ASSUME NEW r, NEW f \in FollowerRec, NEW lg \in Seq([ws : Workspace, at : Nat]), Shaped(r),
           applied \in [Workspace -> Nat], Forward, Sound(r, f, applied, lg)
    PROVE  Sound(r, f, applied', lg)
<1>1. \A w \in Workspace : \A q \in Named(lg, w) : q <= applied[w] => q <= applied'[w]
  <2> SUFFICES ASSUME NEW w \in Workspace, NEW q \in Named(lg, w), q <= applied[w]
               PROVE  q <= applied'[w]
      OBVIOUS
  <2>1. q \in Nat /\ applied[w] \in Nat /\ applied'[w] \in Nat /\ applied[w] <= applied'[w]
      BY NamedAre DEF Forward
  <2> QED BY <2>1
<1>2. Remembered(r, f, applied', lg)
    BY <1>1 DEF Sound, Remembered
<1>3. UpToDate(r, applied', lg)
    BY <1>1 DEF Sound, UpToDate
<1> QED BY <1>2, <1>3 DEF Sound

\* The step of a process p, to the pass r and the follower f, that retimes nothing.
Moves(p, r, f) ==
    /\ pass' = [pass EXCEPT ![p] = r] /\ follower' = [follower EXCEPT ![p] = f]
    /\ UNCHANGED <<log, applied>> /\ now' \in Nat

LEMMA MovesKeeps ==
    ASSUME IInv, NEW p \in Process, NEW r, NEW f, Moves(p, r, f), Shaped(r), f \in FollowerRec,
           Sound(r, f, applied, log), r.at # "locked"
    PROVE  IInv'
<1>1. /\ DOMAIN pass' = Process /\ pass'[p] = r /\ follower'[p] = f
      /\ \A q \in Process \ {p} : pass'[q] = pass[q] /\ follower'[q] = follower[q]
      /\ follower' \in [Process -> FollowerRec]
    BY DEF IInv, Typed, Moves
<1>2. Typed'
    BY <1>1 DEF IInv, Typed, Moves, Shaped
<1>3. NewestExists'
    BY NewestStays DEF IInv, Moves
<1>4. Retiming'
    BY <1>1 DEF IInv, Retiming, At, Task, Moves
<1>5. \A q \in Process : Sound(pass'[q], follower'[q], applied', log')
  <2> TAKE q \in Process
  <2>1. CASE q = p
      BY <1>1, <2>1 DEF Moves
  <2>2. CASE q # p
      BY <1>1, <2>2 DEF IInv, Moves
  <2> QED BY <2>1, <2>2
<1> QED BY <1>2, <1>3, <1>4, <1>5 DEF IInv

\* A step of p that keeps what its pass follows and what its follower owes.
LEMMA SameWork ==
    ASSUME IInv, NEW p \in Process, NEW r, Shaped(r),
           r.begun = pass[p].begun, r.work = pass[p].work, r.hold = pass[p].hold,
           r.at \in FiresAt, pass[p].at \in FiresAt
    PROVE  Sound(r, follower[p], applied, log)
    BY DEF IInv, Sound, Remembered, WorkIsOpen, UpToDate, FiresAt, Follows


-----------------------------------------------------------------------------
(***************************************************************************)
(* The clock, the settings and update().                                   *)
(***************************************************************************)
LEMMA InitHolds == Init => IInv
<1> SUFFICES ASSUME Init PROVE IInv
    OBVIOUS
<1>1. Shaped(Closed) /\ Fresh \in FollowerRec /\ Nothing \in [Workspace -> Nat]
    BY DEF Shaped, Closed, Fields, Fresh, FollowerRec, Nothing
<1>2. Typed
    BY <1>1 DEF Init, Typed
<1>3. NewestExists
    BY DEF Init, NewestExists, Of
<1>4. Retiming
    BY DEF Init, Retiming, At, Closed
<1>5. \A p \in Process : Sound(pass[p], follower[p], applied, log)
    BY DEF Init, Sound, Remembered, WorkIsOpen, UpToDate, Closed, Fresh, Nothing, Named,
           FiresAt, Follows
<1> QED BY <1>2, <1>3, <1>4, <1>5 DEF IInv

LEMMA QuietKeeps ==
    ASSUME IInv, UNCHANGED <<log, applied, pass, follower>>, now' \in Nat PROVE IInv'
<1>1. Typed'
    BY DEF IInv, Typed, Shaped
<1>2. NewestExists'
    BY NewestStays DEF IInv
<1>3. Retiming'
    BY DEF IInv, Retiming, At, Task
<1> QED BY <1>1, <1>2, <1>3 DEF IInv

LEMMA ZoneChangesKeeps ==
    ASSUME IInv, NEW w \in Workspace, ZoneChanges(w) PROVE IInv'
<1>1. /\ log \in Seq([ws : Workspace, at : Nat]) /\ Len(log) \in Nat
      /\ log' \in Seq([ws : Workspace, at : Nat]) /\ Len(log') = Len(log) + 1
      /\ \A q \in 1 .. Len(log) : log'[q] = log[q]
      /\ log'[Len(log) + 1].ws = w
    BY DEF IInv, Typed, ZoneChanges
<1>2. \A v \in Workspace : /\ \A q \in Named(log', v) : q \in Nat /\ (q <= Len(log) => q \in Named(log, v))
                           /\ Named(log, v) \subseteq Named(log', v)
  <2>1. DOMAIN log = 1 .. Len(log) /\ DOMAIN log' = 1 .. Len(log) + 1
      BY <1>1
  <2> SUFFICES ASSUME NEW v \in Workspace
               PROVE  /\ \A q \in Named(log', v) : q \in Nat /\ (q <= Len(log) => q \in Named(log, v))
                      /\ Named(log, v) \subseteq Named(log', v)
      OBVIOUS
  <2>2. ASSUME NEW q \in Named(log', v)
        PROVE  q \in Nat /\ (q <= Len(log) => q \in Named(log, v))
    <3>1. q \in 1 .. Len(log) + 1 /\ log'[q].ws = v
        BY <2>1 DEF Named
    <3>2. ASSUME q <= Len(log) PROVE q \in 1 .. Len(log) /\ log[q] = log'[q]
        BY <3>1, <3>2, <1>1
    <3> QED BY <3>1, <3>2, <2>1, <1>1 DEF Named
  <2>3. ASSUME NEW q \in Named(log, v) PROVE q \in Named(log', v)
    <3>1. q \in 1 .. Len(log) /\ log[q].ws = v
        BY <2>1 DEF Named
    <3>2. q \in 1 .. Len(log) + 1 /\ log'[q] = log[q]
        BY <3>1, <1>1
    <3> QED BY <3>1, <3>2, <2>1 DEF Named
  <2> QED BY <2>2, <2>3
<1>3. Typed'
    BY <1>1 DEF IInv, Typed, Shaped, ZoneChanges
<1>4. NewestExists'
  <2> SUFFICES ASSUME NEW v \in Workspace, NEW r \in 0 .. Len(log')
               PROVE  \E n \in {q \in Named(log', v) : q <= r} \cup {0} :
                        \A q \in Named(log', v) : q <= r => q <= n
      BY DEF NewestExists, Of, Named
  <2> DEFINE Upto(lg, x) == {q \in Named(lg, v) : q <= x} \cup {0}
  <2>1. ASSUME NEW x \in 0 .. Len(log)
        PROVE  \E n \in Upto(log, x) : \A q \in Named(log, v) : q <= x => q <= n
      BY OfIsNamed DEF IInv, NewestExists
  <2>2. CASE r \in 0 .. Len(log)
    <3>1. PICK n \in Upto(log, r) : \A q \in Named(log, v) : q <= r => q <= n
        BY <2>1, <2>2
    <3>2. n \in Upto(log', r)
        BY <1>2, <3>1
    <3>3. \A q \in Named(log', v) : q <= r => q <= n
        BY <1>1, <1>2, <2>2, <3>1
    <3> QED BY <3>2, <3>3
  <2>3. CASE r = Len(log) + 1
    <3>1. CASE v = w
      <4>1. r \in Named(log', v) /\ r <= r
          BY <1>1, <2>3, <3>1 DEF Named
      <4> QED BY <4>1
    <3>2. CASE v # w
      <4>1. PICK n \in Upto(log, Len(log)) : \A q \in Named(log, v) : q <= Len(log) => q <= n
          BY <1>1, <2>1
      <4>2. \A q \in Named(log', v) : q <= Len(log)
          BY <1>1, <3>2 DEF Named
      <4>3. n \in Upto(log', r)
          BY <1>1, <1>2, <2>3, <4>1
      <4>4. \A q \in Named(log', v) : q <= n
          BY <1>2, <4>1, <4>2
      <4> QED BY <4>3, <4>4
    <3> QED BY <3>1, <3>2
  <2> QED BY <1>1, <2>2, <2>3
<1>5. Retiming'
    BY DEF IInv, Retiming, At, Task, ZoneChanges
<1>6. \A p \in Process : Sound(pass'[p], follower'[p], applied', log')
  <2> TAKE p \in Process
  <2>1. Sound(pass[p], follower[p], applied, log) /\ pass' = pass /\ follower' = follower
        /\ applied' = applied
      BY DEF IInv, ZoneChanges
  <2>2. pass[p].begun \in Nat /\ follower[p].cursor \in Nat
      BY DEF IInv, Typed, Shaped, FollowerRec
  <2>3. Remembered(pass[p], follower[p], applied, log')
    <3>1. ASSUME NEW v \in Workspace, NEW q \in Named(log', v), q <= follower[p].cursor
          PROVE  q \in Named(log, v)
      <4>1. q <= Len(log)
          BY <1>1, <1>2, <2>1, <2>2, <3>1 DEF Sound
      <4> QED BY <1>2, <4>1
    <3> QED BY <2>1, <3>1 DEF Sound, Remembered
  <2>4. UpToDate(pass[p], applied, log')
    <3>1. ASSUME NEW v \in Workspace, NEW q \in Named(log', v), q <= pass[p].begun
          PROVE  q \in Named(log, v)
      <4>1. q <= Len(log)
          BY <1>1, <1>2, <2>1, <2>2, <3>1 DEF Sound
      <4> QED BY <1>2, <4>1
    <3> QED BY <2>1, <3>1 DEF Sound, UpToDate
  <2> QED BY <1>1, <2>1, <2>2, <2>3, <2>4 DEF Sound
<1> QED BY <1>3, <1>4, <1>5, <1>6 DEF IInv

-----------------------------------------------------------------------------
(***************************************************************************)
(* The follower.                                                           *)
(***************************************************************************)
\* A step that leaves the followers alone moves p with its own.
LEMMA MovesAlone ==
    ASSUME IInv, NEW p \in Process, NEW r, Goes(p, r), UNCHANGED <<now, log, applied, follower>>
    PROVE  Moves(p, r, follower[p])
    BY DEF IInv, Typed, Goes, Moves

LEMMA OpensKeeps ==
    ASSUME IInv, NEW p \in Process, Opens(p) PROVE IInv'
<1> DEFINE r == [Closed EXCEPT !.at = "reading", !.begun = Len(log)]
<1>1. /\ DOMAIN r = Fields /\ r.at = "reading" /\ r.begun = Len(log) /\ r.hold = {}
      /\ r.work = Nothing /\ Nothing \in [Workspace -> Nat]
      /\ \A w \in Workspace : Nothing[w] = 0
    BY DEF Closed, Fields, Nothing
<1>2. Moves(p, r, follower[p])
    BY MovesAlone DEF Opens
<1> HIDE DEF r
<1>3. Shaped(r)
    BY <1>1 DEF Shaped, IInv, Typed
<1>4. \A w \in Workspace : pass[p].work[w] = 0
    BY DEF IInv, Sound, WorkIsOpen, Opens, At, Follows
<1>5. Sound(r, follower[p], applied, log)
    BY <1>1, <1>4 DEF IInv, Typed, Sound, Remembered, WorkIsOpen, UpToDate, Follows, FiresAt
<1> QED BY <1>1, <1>2, <1>3, <1>5, MovesKeeps DEF IInv, Typed

LEMMA ReadsLogKeeps ==
    ASSUME IInv, NEW p \in Process, ReadsLog(p) PROVE IInv'
<1>1. PICK from \in {follower[p].cursor, 0} :
        Goes(p, [pass[p] EXCEPT !.at = "applying",
          !.work = [w \in Workspace |-> Later(NewestAfter(w, from), follower[p].owed[w])]])
    BY DEF ReadsLog
<1> DEFINE work == [w \in Workspace |-> Later(NewestAfter(w, from), follower[p].owed[w])]
           r == [pass[p] EXCEPT !.at = "applying", !.work = work]
           f == [cursor |-> Len(log), owed |-> Nothing]
<1>2. /\ follower[p] \in FollowerRec /\ Shaped(pass[p]) /\ Sound(pass[p], follower[p], applied, log)
      /\ applied \in [Workspace -> Nat] /\ Len(log) \in Nat /\ Typed /\ NewestExists
    BY DEF IInv, Typed
<1>3. from \in Nat /\ from <= follower[p].cursor /\ follower[p].owed \in [Workspace -> Nat]
    BY <1>2 DEF FollowerRec
<1>4. \A w \in Workspace :
        /\ work[w] \in Nat /\ follower[p].owed[w] <= work[w]
        /\ \A q \in Named(log, w) : q > from => q <= work[w]
  <2> TAKE w \in Workspace
  <2>1. /\ NewestAfter(w, from) \in Nat
        /\ \A q \in Named(log, w) : q > from => q <= NewestAfter(w, from)
      BY <1>2, <1>3, NewestAfterIs, OfIsNamed
  <2>2. \A q \in Named(log, w) : q \in Nat
      BY <1>2, NamedAre DEF Typed
  <2>3. work[w] = Later(NewestAfter(w, from), follower[p].owed[w])
      OBVIOUS
  <2> HIDE DEF work
  <2> QED BY <1>3, <2>1, <2>2, <2>3 DEF Later
<1>5. work \in [Workspace -> Nat]
    BY <1>4
<1>6. Nothing \in [Workspace -> Nat] /\ \A w \in Workspace : Nothing[w] = 0
    BY DEF Nothing
<1> HIDE DEF work
<1>7. /\ DOMAIN r = Fields /\ r.at = "applying" /\ r.work = work
      /\ r.begun = pass[p].begun /\ r.hold = pass[p].hold
    BY <1>2 DEF Shaped, Fields
<1>8. f \in FollowerRec /\ f.cursor = Len(log) /\ f.owed = Nothing
    BY <1>2, <1>6 DEF FollowerRec
<1>9. Moves(p, r, f)
    BY <1>1, <1>2 DEF work, Goes, Moves, ReadsLog, Typed
<1> HIDE DEF r, f
<1>10. Shaped(r)
    BY <1>2, <1>5, <1>7 DEF Shaped
<1>11. \A w \in Workspace : pass[p].work[w] = 0
    BY <1>2 DEF Sound, WorkIsOpen, ReadsLog, At, Follows
<1>12. Remembered(r, f, applied, log)
  <2> SUFFICES ASSUME NEW w \in Workspace, NEW q \in Named(log, w)
               PROVE  q <= applied[w] \/ q <= r.work[w]
      BY DEF Remembered
  <2>1. q \in Nat /\ q > 0
      BY <1>2, NamedAre DEF Typed
  <2>2. CASE q > from
      BY <1>4, <1>7, <2>2
  <2>3. CASE ~(q > from)
    <3>1. q <= follower[p].cursor
        BY <1>2, <1>3, <2>1, <2>3 DEF FollowerRec
    <3>2. q <= applied[w] \/ q <= follower[p].owed[w] \/ q <= pass[p].work[w]
        BY <1>2, <3>1 DEF Sound, Remembered
    <3>3. pass[p].work[w] = 0
        BY <1>11
    <3>4. follower[p].owed[w] \in Nat /\ work[w] \in Nat /\ follower[p].owed[w] <= work[w]
        BY <1>3, <1>4
    <3> QED BY <1>7, <2>1, <3>2, <3>3, <3>4
  <2> QED BY <2>2, <2>3
<1>13. Sound(r, f, applied, log)
  <2>1. r.begun <= Len(log) /\ r.begun <= f.cursor /\ f.cursor <= Len(log) /\ r.hold = {}
      BY <1>2, <1>7, <1>8 DEF Sound, WorkIsOpen, ReadsLog, At
  <2>2. WorkIsOpen(r, f) /\ UpToDate(r, applied, log)
      BY <1>6, <1>7, <1>8, <2>1 DEF WorkIsOpen, UpToDate, Follows, FiresAt
  <2> QED BY <1>12, <2>1, <2>2 DEF Sound
<1> QED BY <1>7, <1>8, <1>9, <1>10, <1>13, MovesKeeps

LEMMA LogRaisesKeeps ==
    ASSUME IInv, NEW p \in Process, LogRaises(p) PROVE IInv'
<1> DEFINE r == [pass[p] EXCEPT !.at = "open", !.hold = Workspace]
<1>1. /\ Shaped(pass[p]) /\ Sound(pass[p], follower[p], applied, log) /\ follower[p] \in FollowerRec
    BY DEF IInv, Typed
<1>2. /\ DOMAIN r = Fields /\ r.at = "open" /\ r.hold = Workspace
      /\ r.begun = pass[p].begun /\ r.work = pass[p].work
    BY <1>1 DEF Shaped, Fields
<1>3. Moves(p, r, follower[p])
    BY MovesAlone DEF LogRaises
<1> HIDE DEF r
<1>4. Shaped(r)
    BY <1>1, <1>2 DEF Shaped
<1>5. \A w \in Workspace : pass[p].work[w] = 0
    BY <1>1 DEF Sound, WorkIsOpen, LogRaises, At, Follows
<1>6. Sound(r, follower[p], applied, log)
    BY <1>1, <1>2, <1>5 DEF Sound, Remembered, WorkIsOpen, UpToDate, Follows, FiresAt
<1> QED BY <1>1, <1>2, <1>3, <1>4, <1>6, MovesKeeps

-----------------------------------------------------------------------------
(***************************************************************************)
(* applyTimeZoneChange.                                                    *)
(***************************************************************************)
LEMMA DoneIs ==
    ASSUME NEW p \in Process, NEW w \in Workspace, Shaped(pass[p])
    PROVE  /\ Shaped(Done(p, w)) /\ Done(p, w).at = "applying"
           /\ Done(p, w).begun = pass[p].begun /\ Done(p, w).hold = pass[p].hold
           /\ Done(p, w).work[w] = 0
           /\ \A v \in Workspace : v # w => Done(p, w).work[v] = pass[p].work[v]
<1> DEFINE work == [pass[p].work EXCEPT ![w] = 0]
<1>1. work \in [Workspace -> Nat] /\ work[w] = 0
      /\ \A v \in Workspace : v # w => work[v] = pass[p].work[v]
    BY DEF Shaped
<1>2. Done(p, w) = [pass[p] EXCEPT !.at = "applying", !.work = work, !.task = NoTask]
    BY DEF Done, Shaped, Fields
<1> HIDE DEF work
<1>3. /\ DOMAIN Done(p, w) = Fields /\ Done(p, w).at = "applying" /\ Done(p, w).work = work
      /\ Done(p, w).begun = pass[p].begun /\ Done(p, w).hold = pass[p].hold
    BY <1>2 DEF Shaped, Fields
<1> QED BY <1>1, <1>3 DEF Shaped

\* A change is let go of once it is applied.
LEMMA DoneIsSound ==
    ASSUME NEW p \in Process, NEW w \in Workspace, Shaped(pass[p]), pass[p].at \in Follows,
           NEW f \in FollowerRec, NEW ap \in [Workspace -> Nat],
           NEW lg \in Seq([ws : Workspace, at : Nat]), Sound(pass[p], f, ap, lg),
           pass[p].work[w] <= ap[w]
    PROVE  Sound(Done(p, w), f, ap, lg)
<1>1. Remembered(Done(p, w), f, ap, lg)
  <2> SUFFICES ASSUME NEW v \in Workspace, NEW q \in Named(lg, v), q <= f.cursor
               PROVE  q <= ap[v] \/ q <= f.owed[v] \/ q <= Done(p, w).work[v]
      BY DEF Remembered
  <2>1. q <= ap[v] \/ q <= f.owed[v] \/ q <= pass[p].work[v]
      BY DEF Sound, Remembered
  <2>2. CASE v = w
    <3>1. q \in Nat /\ ap[w] \in Nat /\ pass[p].work[w] \in Nat
        BY NamedAre DEF Shaped
    <3> QED BY <2>1, <2>2, <3>1
  <2>3. CASE v # w
      BY <2>1, <2>3, DoneIs
  <2> QED BY <2>2, <2>3
<1>2. WorkIsOpen(Done(p, w), f) /\ UpToDate(Done(p, w), ap, lg)
    BY DoneIs DEF Sound, WorkIsOpen, UpToDate, Follows, FiresAt
<1> QED BY <1>1, <1>2, DoneIs DEF Sound

LEMMA SkipsAppliedKeeps ==
    ASSUME IInv, NEW p \in Process, NEW w \in Workspace, SkipsApplied(p, w) PROVE IInv'
<1>1. /\ Shaped(pass[p]) /\ Sound(pass[p], follower[p], applied, log) /\ follower[p] \in FollowerRec
      /\ applied \in [Workspace -> Nat] /\ log \in Seq([ws : Workspace, at : Nat])
    BY DEF IInv, Typed
<1>2. Moves(p, Done(p, w), follower[p])
    BY MovesAlone DEF SkipsApplied
<1>3. pass[p].work[w] <= applied[w] /\ pass[p].at \in Follows
    BY <1>1 DEF SkipsApplied, At, Follows, Shaped
<1>4. Sound(Done(p, w), follower[p], applied, log)
    BY <1>1, <1>3, DoneIsSound
<1> QED BY <1>1, <1>2, <1>4, DoneIs, MovesKeeps

LEMMA ReadsZoneKeeps ==
    ASSUME IInv, NEW p \in Process, NEW w \in Workspace, ReadsZone(p, w) PROVE IInv'
<1>1. PICK zone \in ZoneAtLeast(w, pass[p].work[w]) :
        Goes(p, [pass[p] EXCEPT !.at = "zoned",
          !.task = [ws |-> w, revision |-> pass[p].work[w], zone |-> zone, at |-> now]])
    BY DEF ReadsZone
<1> DEFINE t == [ws |-> w, revision |-> pass[p].work[w], zone |-> zone, at |-> now]
           r == [pass[p] EXCEPT !.at = "zoned", !.task = t]
<1>2. /\ Shaped(pass[p]) /\ Sound(pass[p], follower[p], applied, log) /\ follower[p] \in FollowerRec
      /\ pass[p].at = "applying" /\ pass[p].work[w] \in Nat /\ applied[w] \in Nat
    BY DEF IInv, Typed, Shaped, ReadsZone, At
<1>3. t.ws = w /\ t.revision = pass[p].work[w] /\ t.revision > 0
    BY <1>2 DEF ReadsZone
<1>4. Moves(p, r, follower[p])
    BY <1>1, MovesAlone DEF ReadsZone
<1> HIDE DEF t
<1>5. /\ DOMAIN r = Fields /\ r.at = "zoned" /\ r.task = t
      /\ r.begun = pass[p].begun /\ r.work = pass[p].work /\ r.hold = pass[p].hold
    BY <1>2 DEF Shaped, Fields
<1> HIDE DEF r
<1>6. Shaped(r)
    BY <1>2, <1>5 DEF Shaped
<1>7. Sound(r, follower[p], applied, log)
    BY <1>2, <1>3, <1>5 DEF Sound, Remembered, WorkIsOpen, UpToDate, Follows, FiresAt
<1> QED BY <1>2, <1>4, <1>5, <1>6, <1>7, MovesKeeps

LEMMA SelectsKeeps ==
    ASSUME IInv, NEW p \in Process, Selects(p) PROVE IInv'
<1> DEFINE w == pass[p].task.ws
           revision == pass[p].task.revision
<1>1. /\ Shaped(pass[p]) /\ Sound(pass[p], follower[p], applied, log) /\ follower[p] \in FollowerRec
      /\ applied \in [Workspace -> Nat] /\ log \in Seq([ws : Workspace, at : Nat])
      /\ pass[p].at = "zoned"
    BY DEF IInv, Typed, Selects, At
<1>2. w \in Workspace /\ revision = pass[p].work[w] /\ revision > 0
      /\ pass[p].work[w] \in Nat /\ applied[w] \in Nat
    BY <1>1 DEF Sound, WorkIsOpen, Shaped
<1>3. CASE applied[w] >= revision
  <2>1. Moves(p, Done(p, w), follower[p])
      BY <1>3, MovesAlone DEF Selects, Task
  <2>2. Sound(Done(p, w), follower[p], applied, log)
      BY <1>1, <1>2, <1>3, DoneIsSound DEF Follows
  <2> QED BY <1>1, <1>2, <2>1, <2>2, DoneIs, MovesKeeps
<1>4. CASE ~(applied[w] >= revision)
  <2> DEFINE row == sched[w]
             changedAt == log[revision].at
             t == [ws |-> w, revision |-> revision, zone |-> pass[p].task.zone,
                   at |-> pass[p].task.at,
                   slot |-> IF row.enabled /\ row.slot > changedAt THEN row.slot ELSE None,
                   next |-> SlotAfter(Later(changedAt, Later(row.lastRun, row.updated)),
                                      pass[p].task.zone)]
             r == [pass[p] EXCEPT !.at = "locked", !.task = t]
  <2>1. Goes(p, r) /\ UNCHANGED <<now, log, applied, follower>>
      BY <1>4 DEF Selects, Task
  <2>2. t.ws = w /\ t.revision = revision
      OBVIOUS
  <2> HIDE DEF t
  <2>3. /\ DOMAIN r = Fields /\ r.at = "locked" /\ r.task = t
        /\ r.begun = pass[p].begun /\ r.work = pass[p].work /\ r.hold = pass[p].hold
      BY <1>1 DEF Shaped, Fields
  <2> HIDE DEF r
  <2>4. /\ DOMAIN pass' = Process /\ pass'[p] = r
        /\ \A q \in Process \ {p} : pass'[q] = pass[q]
      BY <2>1 DEF Goes, IInv, Typed
  <2>5. Typed'
      BY <1>1, <2>1, <2>3, <2>4 DEF IInv, Typed, Shaped
  <2>6. NewestExists'
      BY <2>1, NewestStays DEF IInv
  <2>7. \A q \in Process : At(q, "locked") => pass[q].task.ws # w
      BY DEF Selects, Locked, Task
  <2>8. Retiming'
    <3>1. ASSUME NEW q \in Process, pass'[q].at = "locked"
          PROVE  applied'[pass'[q].task.ws] < pass'[q].task.revision
      <4>1. CASE q = p
          BY <1>2, <1>4, <2>1, <2>2, <2>3, <2>4, <4>1
      <4>2. CASE q # p
          BY <2>1, <2>4, <3>1, <4>2 DEF IInv, Retiming, At, Task
      <4> QED BY <4>1, <4>2
    <3>2. ASSUME NEW q \in Process, NEW o \in Process, pass'[q].at = "locked",
                 pass'[o].at = "locked", pass'[q].task.ws = pass'[o].task.ws
          PROVE  q = o
      <4>1. CASE q # p /\ o # p
          BY <2>4, <3>2, <4>1 DEF IInv, Retiming, At, Task
      <4>2. CASE q = p /\ o # p
          BY <2>2, <2>3, <2>4, <2>7, <3>2, <4>2 DEF At
      <4>3. CASE q # p /\ o = p
          BY <2>2, <2>3, <2>4, <2>7, <3>2, <4>3 DEF At
      <4> QED BY <4>1, <4>2, <4>3
    <3> QED BY <3>1, <3>2 DEF Retiming, At, Task
  <2>9. Sound(r, follower[p], applied, log)
      BY <1>1, <1>2, <2>2, <2>3 DEF Sound, Remembered, WorkIsOpen, UpToDate, Follows, FiresAt
  <2>10. \A q \in Process : Sound(pass'[q], follower'[q], applied', log')
    <3> TAKE q \in Process
    <3>1. CASE q = p
        BY <2>1, <2>4, <2>9, <3>1
    <3>2. CASE q # p
        BY <2>1, <2>4, <3>2 DEF IInv
    <3> QED BY <3>1, <3>2
  <2> QED BY <2>5, <2>6, <2>8, <2>10 DEF IInv
<1> QED BY <1>3, <1>4

LEMMA RetimesKeeps ==
    ASSUME IInv, NEW p \in Process, Retimes(p) PROVE IInv'
<1> DEFINE w == pass[p].task.ws
           revision == pass[p].task.revision
           r == Done(p, w)
<1>1. /\ Shaped(pass[p]) /\ Sound(pass[p], follower[p], applied, log) /\ follower[p] \in FollowerRec
      /\ applied \in [Workspace -> Nat] /\ log \in Seq([ws : Workspace, at : Nat])
      /\ pass[p].at = "locked"
    BY DEF IInv, Typed, Retimes, At
<1>2. /\ w \in Workspace /\ revision = pass[p].work[w] /\ revision \in Nat
      /\ applied[w] \in Nat /\ applied[w] < revision
    BY <1>1 DEF IInv, Sound, WorkIsOpen, Shaped, Retiming, At, Task
<1>3. /\ applied' = [applied EXCEPT ![w] = revision] /\ Goes(p, r)
      /\ UNCHANGED <<now, log, follower>>
    BY DEF Retimes, Task
<1>4. Forward /\ applied'[w] = revision /\ \A v \in Workspace : v # w => applied'[v] = applied[v]
    BY <1>1, <1>2, <1>3 DEF Forward
<1>5. /\ DOMAIN pass' = Process /\ pass'[p] = r
      /\ \A q \in Process \ {p} : pass'[q] = pass[q]
    BY <1>3 DEF Goes, IInv, Typed
<1>6. Shaped(r) /\ r.at = "applying"
    BY <1>1, <1>2, DoneIs
<1> HIDE DEF r
<1>7. Typed'
    BY <1>3, <1>4, <1>5, <1>6 DEF IInv, Typed, Forward, Shaped
<1>8. NewestExists'
    BY <1>3, NewestStays DEF IInv
<1>9. Retiming'
  <2>1. ASSUME NEW q \in Process, pass'[q].at = "locked"
        PROVE  /\ q # p /\ pass'[q] = pass[q]
               /\ applied'[pass'[q].task.ws] < pass'[q].task.revision
    <3>1. q # p /\ pass'[q] = pass[q]
        BY <1>5, <1>6, <2>1
    <3>2. pass[q].task.ws \in Workspace
        BY <2>1, <3>1 DEF IInv, Sound, WorkIsOpen
    <3>3. pass[q].task.ws # w
        BY <1>1, <2>1, <3>1 DEF IInv, Retiming, At, Task
    <3> QED BY <1>4, <2>1, <3>1, <3>2, <3>3 DEF IInv, Retiming, At, Task
  <2> QED BY <2>1 DEF IInv, Retiming, At, Task
<1>10. \A q \in Process : Sound(pass'[q], follower'[q], applied', log')
  <2>1. ASSUME NEW q \in Process PROVE Sound(pass[q], follower[q], applied', log)
      BY <1>1, <1>4, ForwardKeeps DEF IInv, Typed
  <2> TAKE q \in Process
  <2>2. CASE q = p
    <3>1. pass[p].work[w] <= applied'[w] /\ applied' \in [Workspace -> Nat]
        BY <1>2, <1>4 DEF Forward
    <3>2. Sound(r, follower[p], applied', log)
        BY <1>1, <1>2, <2>1, <3>1, DoneIsSound DEF r, Follows
    <3> QED BY <1>3, <1>5, <2>2, <3>2
  <2>3. CASE q # p
      BY <1>3, <1>5, <2>1, <2>3
  <2> QED BY <2>2, <2>3
<1> QED BY <1>7, <1>8, <1>9, <1>10 DEF IInv

\* What could not be applied is owed, and held.
LEMMA RetimingRaisesKeeps ==
    ASSUME IInv, NEW p \in Process, RetimingRaises(p) PROVE IInv'
<1> DEFINE w == pass[p].task.ws
           revision == pass[p].task.revision
           d == Done(p, w)
           r == [d EXCEPT !.hold = d.hold \cup {w}]
           owed == [follower[p].owed EXCEPT ![w] = revision]
           f == [follower[p] EXCEPT !.owed = owed]
<1>1. /\ Shaped(pass[p]) /\ Sound(pass[p], follower[p], applied, log) /\ follower[p] \in FollowerRec
      /\ applied \in [Workspace -> Nat] /\ log \in Seq([ws : Workspace, at : Nat])
      /\ pass[p].at \in {"zoned", "locked"} /\ follower \in [Process -> FollowerRec]
    BY DEF IInv, Typed, RetimingRaises
<1>2. w \in Workspace /\ revision = pass[p].work[w] /\ revision \in Nat /\ revision > 0
    BY <1>1 DEF Sound, WorkIsOpen, Shaped
<1>3. /\ Shaped(d) /\ d.at = "applying" /\ d.begun = pass[p].begun /\ d.hold = pass[p].hold
      /\ d.work[w] = 0 /\ \A v \in Workspace : v # w => d.work[v] = pass[p].work[v]
    BY <1>1, <1>2, DoneIs
<1>4. /\ owed \in [Workspace -> Nat] /\ owed[w] = revision
      /\ \A v \in Workspace : v # w => owed[v] = follower[p].owed[v]
    BY <1>1, <1>2 DEF FollowerRec
<1>5. Goes(p, r)
    BY DEF RetimingRaises, Task
<1>6. follower' = [follower EXCEPT ![p] = f]
  <2>1. follower' = [follower EXCEPT ![p].owed[w] = revision]
      BY DEF RetimingRaises, Owes, Task
  <2> QED BY <1>1, <2>1 DEF FollowerRec
<1> HIDE DEF d, owed
<1>7. /\ DOMAIN r = Fields /\ r.at = "applying" /\ r.begun = pass[p].begun /\ r.work = d.work
      /\ r.hold = pass[p].hold \cup {w}
    BY <1>3 DEF Shaped, Fields
<1>8. f \in FollowerRec /\ f.cursor = follower[p].cursor /\ f.owed = owed
    BY <1>1, <1>4 DEF FollowerRec
<1> HIDE DEF r, f
<1>9. Moves(p, r, f)
    BY <1>5, <1>6 DEF Moves, Goes, RetimingRaises, IInv, Typed
<1>10. Shaped(r)
    BY <1>1, <1>2, <1>3, <1>7 DEF Shaped
<1>11. w \notin pass[p].hold /\ follower[p].owed[w] = 0
    BY <1>1, <1>2 DEF Sound, WorkIsOpen, Follows
<1>12. Remembered(r, f, applied, log)
  <2> SUFFICES ASSUME NEW v \in Workspace, NEW q \in Named(log, v), q <= follower[p].cursor
               PROVE  q <= applied[v] \/ q <= owed[v] \/ q <= d.work[v]
      BY <1>7, <1>8 DEF Remembered
  <2>1. q <= applied[v] \/ q <= follower[p].owed[v] \/ q <= pass[p].work[v]
      BY <1>1 DEF Sound, Remembered
  <2>2. CASE v = w
    <3>1. q \in Nat /\ q > 0
        BY <1>1, NamedAre
    <3> QED BY <1>2, <1>4, <1>11, <2>1, <2>2, <3>1
  <2>3. CASE v # w
      BY <1>3, <1>4, <2>1, <2>3
  <2> QED BY <2>2, <2>3
<1>13. WorkIsOpen(r, f) /\ UpToDate(r, applied, log)
  <2>1. r.begun <= f.cursor
      BY <1>1, <1>7, <1>8 DEF Sound, WorkIsOpen, Follows
  <2>2. ASSUME NEW v \in Workspace
        PROVE  (v \in r.hold => r.work[v] = 0) /\ (v \notin r.hold => f.owed[v] = 0)
    <3>1. (v \in pass[p].hold => pass[p].work[v] = 0) /\ (v \notin pass[p].hold => follower[p].owed[v] = 0)
        BY <1>1 DEF Sound, WorkIsOpen, Follows
    <3> QED BY <1>3, <1>4, <1>7, <1>8, <3>1
  <2> QED BY <1>7, <2>1, <2>2 DEF WorkIsOpen, UpToDate, Follows, FiresAt
<1>14. Sound(r, f, applied, log)
    BY <1>1, <1>7, <1>8, <1>12, <1>13 DEF Sound
<1> QED BY <1>7, <1>8, <1>9, <1>10, <1>14, MovesKeeps

LEMMA FollowerEndsKeeps ==
    ASSUME IInv, NEW p \in Process, FollowerEnds(p) PROVE IInv'
<1> DEFINE r == [pass[p] EXCEPT !.at = "open"]
           f == follower'[p]
<1>1. /\ Shaped(pass[p]) /\ Sound(pass[p], follower[p], applied, log) /\ follower[p] \in FollowerRec
      /\ applied \in [Workspace -> Nat] /\ log \in Seq([ws : Workspace, at : Nat])
      /\ pass[p].at = "applying" /\ pass[p].work = Nothing
      /\ DOMAIN follower = Process /\ follower \in [Process -> FollowerRec]
    BY DEF IInv, Typed, FollowerEnds, At
<1>2. Fresh \in FollowerRec /\ Fresh.cursor = 0
    BY DEF Fresh, FollowerRec, Nothing
<1>3. f \in {follower[p], Fresh} /\ follower' = [follower EXCEPT ![p] = f]
    BY <1>1 DEF FollowerEnds
<1>4. /\ DOMAIN r = Fields /\ r.at = "open" /\ r.work = pass[p].work
      /\ r.begun = pass[p].begun /\ r.hold = pass[p].hold
    BY <1>1 DEF Shaped, Fields
<1>5. Moves(p, r, f)
    BY <1>3 DEF Moves, Goes, FollowerEnds, IInv, Typed
<1> HIDE DEF r, f
<1>6. Shaped(r)
    BY <1>1, <1>4 DEF Shaped
<1>7. f \in FollowerRec
    BY <1>1, <1>2, <1>3
<1>8. \A w \in Workspace : pass[p].work[w] = 0
    BY <1>1 DEF Nothing
<1>9. Len(log) \in Nat /\ \A w \in Workspace : \A q \in Named(log, w) : q \in Nat /\ q > 0
  <2>1. Len(log) \in Nat
      BY <1>1
  <2>2. \A w \in Workspace : \A q \in Named(log, w) : q \in Nat /\ q > 0
      BY <1>1, NamedAre
  <2> QED BY <2>1, <2>2
<1>10. Remembered(r, f, applied, log) /\ f.cursor <= Len(log)
  <2>1. CASE f = follower[p]
      BY <1>1, <1>4, <2>1 DEF Sound, Remembered
  <2>2. CASE f = Fresh
      BY <1>2, <1>9, <2>2 DEF Remembered
  <2> QED BY <1>3, <2>1, <2>2
<1>11. UpToDate(r, applied, log)
  <2> SUFFICES ASSUME NEW w \in Workspace \ pass[p].hold, NEW q \in Named(log, w), q <= pass[p].begun
               PROVE  q <= applied[w]
      BY <1>4 DEF UpToDate
  <2>1. pass[p].begun <= follower[p].cursor /\ follower[p].owed[w] = 0
      BY <1>1 DEF Sound, WorkIsOpen, Follows
  <2>2. q <= follower[p].cursor
      BY <1>1, <1>9, <2>1 DEF Shaped, FollowerRec
  <2>3. q <= applied[w] \/ q <= follower[p].owed[w] \/ q <= pass[p].work[w]
      BY <1>1, <2>2 DEF Sound, Remembered
  <2> QED BY <1>8, <1>9, <2>1, <2>3
<1>12. Sound(r, f, applied, log)
    BY <1>1, <1>4, <1>8, <1>10, <1>11 DEF Sound, WorkIsOpen, Follows
<1> QED BY <1>4, <1>5, <1>6, <1>7, <1>12, MovesKeeps

-----------------------------------------------------------------------------
(***************************************************************************)
(* claim(), fireDue and fire: a pass keeps what it follows.                *)
(***************************************************************************)
\* A step of the walk: the stage, and what the pass is at.
Walks(p, r) ==
    /\ Goes(p, r) /\ DOMAIN r = Fields /\ r.at \in FiresAt /\ pass[p].at \in FiresAt
    /\ r.begun = pass[p].begun /\ r.work = pass[p].work /\ r.hold = pass[p].hold
    /\ UNCHANGED <<now, log, applied, follower>>

LEMMA WalksKeeps ==
    ASSUME IInv, NEW p \in Process, NEW r, Walks(p, r) PROVE IInv'
<1>1. Shaped(pass[p]) /\ follower[p] \in FollowerRec
    BY DEF IInv, Typed
<1>2. Moves(p, r, follower[p])
    BY MovesAlone DEF Walks
<1>3. Shaped(r)
    BY <1>1 DEF Shaped, Walks
<1>4. Sound(r, follower[p], applied, log)
    BY <1>3, SameWork DEF Walks
<1> QED BY <1>1, <1>2, <1>3, <1>4, MovesKeeps DEF Walks, FiresAt

\* The end of a pass, or of a process, with the follower it leaves.
LEMMA CloseKeeps ==
    ASSUME IInv, NEW p \in Process, NEW f \in {follower[p], Fresh}, Moves(p, Closed, f),
           f = Fresh \/ pass[p].at \in FiresAt
    PROVE  IInv'
<1>1. /\ Sound(pass[p], follower[p], applied, log) /\ follower[p] \in FollowerRec
      /\ log \in Seq([ws : Workspace, at : Nat]) /\ Len(log) \in Nat
    BY DEF IInv, Typed
<1>2. f \in FollowerRec /\ Fresh.cursor = 0
    BY <1>1 DEF Fresh, FollowerRec, Nothing
<1>3. /\ Shaped(Closed) /\ Closed.at = "idle" /\ Closed.begun = 0
      /\ \A w \in Workspace : Closed.work[w] = 0
    BY DEF Shaped, Closed, Fields, Nothing
<1>4. Remembered(Closed, f, applied, log) /\ f.cursor <= Len(log)
  <2>1. CASE f = Fresh
    <3>1. \A w \in Workspace : \A q \in Named(log, w) : q \in Nat /\ q > 0
        BY <1>1, NamedAre
    <3> QED BY <1>1, <1>2, <2>1, <3>1 DEF Remembered
  <2>2. CASE f = follower[p] /\ pass[p].at \in FiresAt
    <3>1. \A w \in Workspace : pass[p].work[w] = 0
        BY <1>1, <2>2 DEF Sound, WorkIsOpen, FiresAt, Follows
    <3> QED BY <1>1, <1>3, <2>2, <3>1 DEF Sound, Remembered
  <2> QED BY <2>1, <2>2
<1>5. Sound(Closed, f, applied, log)
    BY <1>1, <1>3, <1>4 DEF Sound, WorkIsOpen, UpToDate, Follows, FiresAt
<1> QED BY <1>2, <1>3, <1>5, MovesKeeps

LEMMA EndsKeeps ==
    ASSUME IInv, NEW p \in Process, Goes(p, Closed), UNCHANGED <<now, log, applied, follower>>,
           pass[p].at \in FiresAt
    PROVE  IInv'
    BY MovesAlone, CloseKeeps

LEMMA CrashesKeeps ==
    ASSUME IInv, NEW p \in Process, Crashes(p) PROVE IInv'
<1>1. Moves(p, Closed, Fresh)
    BY DEF Crashes, Moves, Goes, IInv, Typed
<1> QED BY <1>1, CloseKeeps

LEMMA ReopenedWalks ==
    ASSUME IInv, NEW p \in Process, Goes(p, Reopened(p)), pass[p].at \in FiresAt,
           UNCHANGED <<now, log, applied, follower>>
    PROVE  IInv'
<1>1. Shaped(pass[p])
    BY DEF IInv, Typed
<1>2. Walks(p, Reopened(p))
    BY <1>1 DEF Walks, Reopened, Shaped, Fields, FiresAt
<1> QED BY <1>2, WalksKeeps

LEMMA WalkKeeps ==
    ASSUME IInv, NEW p \in Process,
           ReadsPage(p) \/ WalkEnds(p) \/ PassIsFull(p) \/ Claims(p) \/ LetsBe(p) \/ Fires(p)
             \/ Enqueues(p) \/ Disables(p) \/ Advances(p) \/ Raises(p)
    PROVE  IInv'
<1>1. Shaped(pass[p])
    BY DEF IInv, Typed
<1>2. CASE ReadsPage(p)
  <2> DEFINE page == First(Due(p), Page)
             r == [pass[p] EXCEPT !.page = page, !.last = Cardinality(page) < Page]
  <2>1. Goes(p, r)
      BY <1>2 DEF ReadsPage
  <2> HIDE DEF page
  <2>2. Walks(p, r)
      BY <1>1, <1>2, <2>1 DEF Walks, Shaped, Fields, FiresAt, ReadsPage, At
  <2> QED BY <2>2, WalksKeeps
<1>3. CASE WalkEnds(p)
    BY <1>3, EndsKeeps DEF WalkEnds, At, FiresAt
<1>4. CASE PassIsFull(p)
    BY <1>4, EndsKeeps DEF PassIsFull, At, FiresAt
<1>5. CASE Claims(p)
  <2>0. PICK row : Goes(p, IF Steps(p, row)
             THEN [pass[p] EXCEPT !.page = @ \ {row}, !.skipped = @ + 1]
             ELSE [pass[p] EXCEPT !.page = @ \ {row}, !.claimed = @ + 1, !.at = "claimed",
                     !.task = [ws |-> row.ws, slot |-> row.slot]])
      BY <1>5 DEF Claims
  <2> DEFINE steps == [pass[p] EXCEPT !.page = @ \ {row}, !.skipped = @ + 1]
             takes == [pass[p] EXCEPT !.page = @ \ {row}, !.claimed = @ + 1, !.at = "claimed",
                         !.task = [ws |-> row.ws, slot |-> row.slot]]
  <2>1. Goes(p, steps) \/ Goes(p, takes)
      BY <2>0, Zenon
  <2>2. pass[p].at = "open" /\ UNCHANGED <<now, log, applied, follower>>
      BY <1>5 DEF Claims, At
  <2>3. /\ DOMAIN steps = Fields /\ steps.at = "open" /\ steps.begun = pass[p].begun
        /\ steps.work = pass[p].work /\ steps.hold = pass[p].hold
      BY <1>1, <2>2 DEF Shaped, Fields
  <2>4. /\ DOMAIN takes = Fields /\ takes.at = "claimed" /\ takes.begun = pass[p].begun
        /\ takes.work = pass[p].work /\ takes.hold = pass[p].hold
      BY <1>1, <2>2 DEF Shaped, Fields
  <2> HIDE DEF steps, takes
  <2>5. Walks(p, steps) \/ Walks(p, takes)
    <3>0. steps.at \in FiresAt /\ takes.at \in FiresAt /\ pass[p].at \in FiresAt
        BY <2>2, <2>3, <2>4 DEF FiresAt
    <3>1. ASSUME Goes(p, steps) PROVE Walks(p, steps)
        BY <3>0, <3>1, <2>2, <2>3, Zenon DEF Walks
    <3>2. ASSUME Goes(p, takes) PROVE Walks(p, takes)
        BY <3>0, <3>2, <2>2, <2>4, Zenon DEF Walks
    <3> QED BY <2>1, <3>1, <3>2
  <2> QED BY <2>5, WalksKeeps
<1>6. CASE LetsBe(p)
    BY <1>6, ReopenedWalks DEF LetsBe, At, FiresAt
<1>7. CASE Fires(p)
  <2> DEFINE w == Task(p).ws
             slot == Task(p).slot
  <2>1. PICK zone \in ZoneFor(w) : Goes(p, [pass[p] EXCEPT !.at = "firing", !.task =
          [ws |-> w, slot |-> slot, at |-> now, zone |-> zone,
           next |-> SlotAfter(Later(slot, now), zone), basis |-> applied[w]]])
      BY <1>7 DEF Fires
  <2> DEFINE t == [ws |-> w, slot |-> slot, at |-> now, zone |-> zone,
                   next |-> SlotAfter(Later(slot, now), zone), basis |-> applied[w]]
             r == [pass[p] EXCEPT !.at = "firing", !.task = t]
  <2>2. Goes(p, r)
      BY <2>1
  <2> HIDE DEF t
  <2>3. Walks(p, r)
      BY <1>1, <1>7, <2>2 DEF Walks, Shaped, Fields, FiresAt, Fires, At
  <2> QED BY <2>3, WalksKeeps
<1>8. CASE Enqueues(p)
  <2>1. Walks(p, [pass[p] EXCEPT !.at = "queued"])
      BY <1>1, <1>8 DEF Walks, Shaped, Fields, FiresAt, Enqueues, At
  <2> QED BY <2>1, WalksKeeps
<1>9. CASE Disables(p)
    BY <1>9, ReopenedWalks DEF Disables, At, FiresAt
<1>10. CASE Advances(p)
    BY <1>10, ReopenedWalks DEF Advances, At, FiresAt
<1>11. CASE Raises(p)
  <2>1. CASE At(p, "open") /\ Goes(p, Closed)
      BY <1>11, <2>1, EndsKeeps DEF Raises, At, FiresAt
  <2>2. CASE pass[p].at \in {"claimed", "firing", "queued"} /\ Goes(p, Reopened(p))
      BY <1>11, <2>2, ReopenedWalks DEF Raises, FiresAt
  <2> QED BY <1>11, <2>1, <2>2 DEF Raises
<1> QED BY <1>2, <1>3, <1>4, <1>5, <1>6, <1>7, <1>8, <1>9, <1>10, <1>11

-----------------------------------------------------------------------------
LEMMA NextKeeps == IInv /\ [Next]_vars => IInv'
<1> SUFFICES ASSUME IInv, [Next]_vars PROVE IInv'
    OBVIOUS
<1>0. now \in Nat
    BY DEF IInv, Typed
<1>1. CASE UNCHANGED vars
    BY <1>0, <1>1, QuietKeeps DEF vars
<1>2. CASE Tick
    BY <1>0, <1>2, QuietKeeps DEF Tick
<1>3. ASSUME NEW w \in Workspace, ZoneChanges(w) \/ EditReads(w) \/ EditWrites(w) PROVE IInv'
  <2>1. CASE ZoneChanges(w)
      BY <2>1, ZoneChangesKeeps
  <2>2. CASE EditReads(w)
      BY <1>0, <2>2, QuietKeeps DEF EditReads
  <2>3. CASE EditWrites(w)
      BY <1>0, <2>3, QuietKeeps DEF EditWrites
  <2> QED BY <1>3, <2>1, <2>2, <2>3
<1>4. ASSUME NEW p \in Process, Works(p) PROVE IInv'
  <2>1. CASE Opens(p) \/ ReadsLog(p) \/ FollowerEnds(p)
      BY <2>1, OpensKeeps, ReadsLogKeeps, FollowerEndsKeeps
  <2>2. CASE Selects(p) \/ Retimes(p) \/ RetimingRaises(p)
      BY <2>2, SelectsKeeps, RetimesKeeps, RetimingRaisesKeeps
  <2>3. CASE \E w \in Workspace : SkipsApplied(p, w) \/ ReadsZone(p, w)
      BY <2>3, SkipsAppliedKeeps, ReadsZoneKeeps
  <2>4. CASE \/ ReadsPage(p) \/ WalkEnds(p) \/ PassIsFull(p) \/ Claims(p)
             \/ LetsBe(p) \/ Fires(p) \/ Enqueues(p) \/ Advances(p)
      BY <2>4, WalkKeeps
  <2> QED BY <1>4, <2>1, <2>2, <2>3, <2>4 DEF Works
<1>5. ASSUME NEW p \in Process,
             LogRaises(p) \/ RetimingRaises(p) \/ Disables(p) \/ Raises(p) \/ Crashes(p)
      PROVE  IInv'
    BY <1>5, LogRaisesKeeps, RetimingRaisesKeeps, WalkKeeps, CrashesKeeps
<1> QED BY <1>1, <1>2, <1>3, <1>4, <1>5 DEF Next

LEMMA SoundIsCurrent == IInv => PassIsCurrent
<1> SUFFICES ASSUME IInv, NEW p \in Process, NEW w \in Workspace, pass[p].at \in FiresAt,
                    w \notin pass[p].hold
             PROVE  applied[w] >= NewestUpTo(w, pass[p].begun)
    BY DEF PassIsCurrent, FiresAt
<1> DEFINE begun == pass[p].begun
<1>1. /\ Sound(pass[p], follower[p], applied, log) /\ Shaped(pass[p]) /\ applied[w] \in Nat
      /\ Typed /\ NewestExists /\ Len(log) \in Nat
    BY DEF IInv, Typed
<1>2. begun \in 0 .. Len(log)
    BY <1>1 DEF Sound, Shaped
<1>3. NewestUpTo(w, begun) \in {q \in Named(log, w) : q <= begun} \cup {0}
    BY <1>1, <1>2, NewestUpToIs, OfIsNamed
<1>4. \A q \in Named(log, w) : q <= begun => q <= applied[w]
    BY <1>1 DEF Sound, UpToDate
<1>5. NewestUpTo(w, begun) \in Nat /\ NewestUpTo(w, begun) <= applied[w]
    BY <1>1, <1>2, <1>3, <1>4, NewestUpToIs
<1> QED BY <1>1, <1>5

\* For any number of workspaces, processes, changes and failures, a workspace whose
\* slots a pass may fire has applied every change committed before the pass began.
THEOREM PassesAreCurrent == Spec => []PassIsCurrent
<1>1. IInv /\ [Next]_vars => IInv'
    BY NextKeeps
<1> QED BY InitHolds, <1>1, SoundIsCurrent, PTL DEF Spec

\* What lies behind it: a change the cursor of a process is past is applied, owed or
\* in the work of its pass, and a workspace is retimed by one process at a time, to a
\* revision it has not applied.
THEOREM NoChangeIsForgotten ==
    Spec => [](Retiming /\ \A p \in Process : Remembered(pass[p], follower[p], applied, log))
<1>1. IInv /\ [Next]_vars => IInv'
    BY NextKeeps
<1>2. IInv => Retiming /\ \A p \in Process : Remembered(pass[p], follower[p], applied, log)
    BY DEF IInv, Sound
<1> QED BY InitHolds, <1>1, <1>2, PTL DEF Spec

-----------------------------------------------------------------------------
(***************************************************************************)
(* The zone a slot stands in.  Of a row or an update s of workspace w and  *)
(* the changes lg: it suits a revision r when its zone is that of r or a   *)
(* newer one, or the change r found it due; past a race it need not.       *)
(***************************************************************************)
SchedRec == [enabled : BOOLEAN, slot : Int, lastRun : Nat, updated : Nat, zone : Nat, raced : BOOLEAN]
EditRec == [enabled : BOOLEAN, slot : Int, at : Nat, zone : Nat, raced : BOOLEAN, basis : Nat]

Suits(s, w, lg, r) == s.raced \/ s.zone >= r \/ (r \in Named(lg, w) /\ s.slot <= lg[r].at)
Alike(s, e) == s.slot = e.slot /\ s.zone = e.zone /\ s.raced = e.raced

\* With revision a applied, it may fire in a pass begun at that point of the log.
Serves(s, w, a, lg, begun) == \E r \in 0 .. a :
    (\A q \in Named(lg, w) : q <= begun => q <= r) /\ Suits(s, w, lg, r)

RowIs(s, w, a, lg) == s.enabled => Suits(s, w, lg, a)

\* An update() that read the zone before the applied change is raced when it writes.
EditIs(e, s, w, a, lg) == e # None =>
    /\ e \in EditRec /\ e.basis <= a
    /\ e.basis < a \/ Suits(e, w, lg, e.basis) \/ (~e.enabled /\ ~s.enabled /\ Alike(s, e))

Examined(r) == r.page \cup (IF r.at = "claimed" THEN {r.task} ELSE {})
PageIs(r, sc, ap, lg) ==
    /\ r.at \notin FiresAt => r.page = {}
    /\ \A row \in Examined(r) :
        /\ row.ws \in Workspace
        /\ row.ws \notin r.hold /\ sc[row.ws].slot = row.slot =>
             Serves(sc[row.ws], row.ws, ap[row.ws], lg, r.begun)

\* What a retiming or a fire has read and computed.
TaskIs(r, sc, ap, lg) ==
    /\ r.at \in {"zoned", "locked"} =>
         /\ r.task.zone \in Nat /\ r.task.at \in Nat /\ r.task.revision <= r.task.zone
    /\ r.at = "locked" =>
         /\ r.task.next \in Int
         /\ sc[r.task.ws].enabled /\ ~sc[r.task.ws].raced =>
              IF r.task.slot = None THEN sc[r.task.ws].slot <= lg[r.task.revision].at
              ELSE sc[r.task.ws].slot = r.task.slot
    /\ r.at \in {"firing", "queued"} =>
         /\ r.task.ws \in Workspace /\ r.task.zone \in Nat /\ r.task.basis \in Nat
         /\ r.task.at \in Nat /\ r.task.next \in Int
         /\ r.task.basis <= r.task.zone /\ r.task.basis <= ap[r.task.ws]

\* What a process works on and owes are changes of that workspace.
WorkIs(r, f, lg) == \A w \in Workspace :
    r.work[w] \in Named(lg, w) \cup {0} /\ f.owed[w] \in Named(lg, w) \cup {0}

FInv ==
    /\ IInv /\ sched \in [Workspace -> SchedRec] /\ DOMAIN edit = Workspace
    /\ \A w \in Workspace : /\ RowIs(sched[w], w, applied[w], log)
                            /\ EditIs(edit[w], sched[w], w, applied[w], log)
    /\ \A p \in Process : /\ WorkIs(pass[p], follower[p], log)
                          /\ PageIs(pass[p], sched, applied, log)
                          /\ TaskIs(pass[p], sched, applied, log)

-----------------------------------------------------------------------------
(***************************************************************************)
(* A row, a revision and the log.                                          *)
(***************************************************************************)
LEMMA SlotIs ==
    ASSUME NEW t \in Int, NEW zone \in Int PROVE SlotAfter(t, zone) \in Int
<1>1. Period \in Nat \ {0}
    BY ScheduleAssumption
<1>2. (zone - t - 1) % Period \in Int
    BY <1>1
<1> QED BY <1>2 DEF SlotAfter

LEMMA NamedAt ==
    ASSUME NEW lg \in Seq([ws : Workspace, at : Nat]), NEW w, NEW q \in Named(lg, w)
    PROVE  q \in Nat /\ q > 0 /\ q <= Len(lg) /\ q \in DOMAIN lg /\ lg[q].at \in Nat
<1>1. ASSUME NEW E, NEW x \in Seq(E), NEW i \in DOMAIN x PROVE x[i] \in E
    BY <1>1
<1>2. q \in DOMAIN lg
    BY DEF Named
<1>3. lg[q] \in [ws : Workspace, at : Nat]
    BY <1>1, <1>2
<1> QED BY <1>2, <1>3, NamedAre

\* What holds of a state in which FInv does.
LEMMA FTypes ==
    ASSUME FInv
    PROVE  /\ Typed /\ NewestExists /\ now \in Nat /\ Len(log) \in Nat
           /\ log \in Seq([ws : Workspace, at : Nat]) /\ applied \in [Workspace -> Nat]
           /\ DOMAIN pass = Process /\ follower \in [Process -> FollowerRec]
           /\ \A w \in Workspace : /\ sched[w] \in SchedRec /\ RowIs(sched[w], w, applied[w], log)
                                   /\ EditIs(edit[w], sched[w], w, applied[w], log)
           /\ \A p \in Process : /\ Shaped(pass[p]) /\ Sound(pass[p], follower[p], applied, log)
                                 /\ follower[p] \in FollowerRec
                                 /\ UpToDate(pass[p], applied, log)
                                 /\ WorkIs(pass[p], follower[p], log)
                                 /\ PageIs(pass[p], sched, applied, log)
                                 /\ TaskIs(pass[p], sched, applied, log)
<1>1. IInv
    BY DEF FInv
<1>2. \A w \in Workspace : sched[w] \in SchedRec
    BY DEF FInv
<1> QED BY <1>1, <1>2 DEF FInv, IInv, Typed, Sound

LEMMA ServesMore ==
    ASSUME NEW s, NEW w, NEW a \in Nat, NEW b \in Nat, a <= b, NEW lg, NEW begun,
           Serves(s, w, a, lg, begun)
    PROVE  Serves(s, w, b, lg, begun)
    BY DEF Serves

LEMMA ServesAlike ==
    ASSUME NEW s, NEW e, Alike(s, e), NEW w, NEW a, NEW lg, NEW begun, Serves(s, w, a, lg, begun)
    PROVE  Serves(e, w, a, lg, begun)
    BY DEF Serves, Alike, Suits

\* The step of a process, before the row it writes: what its pass is at then.
HalfWay == \A q \in Process :
    /\ UpToDate(pass'[q], applied, log) /\ WorkIs(pass'[q], follower'[q], log)
    /\ PageIs(pass'[q], sched, applied, log) /\ TaskIs(pass'[q], sched, applied, log)

LEMMA HalfWayIs ==
    ASSUME FInv, NEW p \in Process, NEW r, NEW f, pass' = [pass EXCEPT ![p] = r],
           follower' = [follower EXCEPT ![p] = f], UpToDate(r, applied, log), WorkIs(r, f, log),
           PageIs(r, sched, applied, log), TaskIs(r, sched, applied, log)
    PROVE  HalfWay
<1>1. /\ pass'[p] = r /\ follower'[p] = f
      /\ \A q \in Process \ {p} : pass'[q] = pass[q] /\ follower'[q] = follower[q]
    BY FTypes
<1> SUFFICES ASSUME NEW q \in Process
             PROVE  /\ UpToDate(pass'[q], applied, log) /\ WorkIs(pass'[q], follower'[q], log)
                    /\ PageIs(pass'[q], sched, applied, log) /\ TaskIs(pass'[q], sched, applied, log)
    BY DEF HalfWay
<1>2. CASE q = p
    BY <1>1, <1>2
<1>3. CASE q # p
    BY <1>1, <1>3, FTypes
<1> QED BY <1>2, <1>3

\* No row is written.
LEMMA SameRows ==
    ASSUME FInv, IInv', HalfWay, UNCHANGED <<log, sched, applied, edit>>
    PROVE  FInv'
    BY DEF FInv, HalfWay

\* A process moves, and writes no row.
LEMMA StageKeeps ==
    ASSUME FInv, IInv', NEW p \in Process, NEW r, NEW f, Moves(p, r, f),
           UNCHANGED <<sched, edit>>, UpToDate(r, applied, log), WorkIs(r, f, log),
           PageIs(r, sched, applied, log), TaskIs(r, sched, applied, log)
    PROVE  FInv'
<1>1. HalfWay
    BY HalfWayIs DEF Moves
<1> QED BY <1>1, SameRows DEF Moves

-----------------------------------------------------------------------------
(***************************************************************************)
(* The row of a workspace is written, and its applied revision with it.    *)
(***************************************************************************)
\* The row s of w is written with revision a applied: it is no worse than the one
\* before for a pass that may fire it.
Writes(w, s, a) ==
    /\ w \in Workspace /\ s \in SchedRec /\ a \in Nat /\ applied[w] <= a
    /\ sched' = [sched EXCEPT ![w] = s] /\ applied' = [applied EXCEPT ![w] = a]
    /\ s.enabled => Suits(s, w, log, a)
    /\ Alike(sched[w], s) \/ \E r \in applied[w] .. a : Suits(s, w, log, r)

LEMMA WritesIs ==
    ASSUME FInv, NEW w, NEW s, NEW a, Writes(w, s, a)
    PROVE  /\ sched'[w] = s /\ applied'[w] = a
           /\ \A v \in Workspace \ {w} : sched'[v] = sched[v] /\ applied'[v] = applied[v]
           /\ \A v \in Workspace : applied[v] \in Nat /\ applied'[v] \in Nat /\ applied[v] <= applied'[v]
           /\ sched' \in [Workspace -> SchedRec]
    BY FTypes DEF Writes, FInv

LEMMA WritesPage ==
    ASSUME FInv, NEW w, NEW s, NEW a, Writes(w, s, a), NEW r, UpToDate(r, applied, log),
           PageIs(r, sched, applied, log)
    PROVE  PageIs(r, sched', applied', log)
<1> SUFFICES ASSUME NEW row \in Examined(r), row.ws \in Workspace, row.ws \notin r.hold,
                    sched'[row.ws].slot = row.slot
             PROVE  Serves(sched'[row.ws], row.ws, applied'[row.ws], log, r.begun)
    BY DEF PageIs
<1> DEFINE v == row.ws
<1>1. sched[v].slot = row.slot => Serves(sched[v], v, applied[v], log, r.begun)
    BY DEF PageIs
<1>2. applied[v] \in Nat /\ applied'[v] \in Nat /\ applied[v] <= applied'[v]
    BY WritesIs
<1>3. r.at \in FiresAt
    BY DEF PageIs, Examined, FiresAt
<1>4. \A q \in Named(log, v) : q <= r.begun => q <= applied[v]
    BY <1>3 DEF UpToDate
<1> HIDE DEF v
<1>5. CASE Serves(sched[v], v, applied[v], log, r.begun) /\ Alike(sched[v], sched'[v])
    BY <1>2, <1>5, ServesMore, ServesAlike DEF v
<1>6. CASE v = w /\ \E n \in applied[w] .. a : Suits(s, w, log, n)
  <2>1. PICK n \in applied[w] .. a : Suits(s, w, log, n)
      BY <1>6
  <2>2. n \in 0 .. a /\ \A q \in Named(log, w) : q \in Nat
    <3>1. log \in Seq([ws : Workspace, at : Nat])
        BY FTypes
    <3>2. \A q \in Named(log, w) : q \in Nat
        BY <3>1, NamedAre
    <3> QED BY <1>2, <1>6, <2>1, <3>2 DEF Writes
  <2>3. \A q \in Named(log, w) : q <= r.begun => q <= n
      BY <1>2, <1>4, <1>6, <2>1, <2>2, WritesIs
  <2> QED BY <1>6, <2>1, <2>2, <2>3, WritesIs DEF Serves, v
<1>7. CASE v = w /\ Alike(sched[w], s)
    BY <1>1, <1>5, <1>7, WritesIs DEF Alike, v
<1>8. CASE v # w
    BY <1>1, <1>5, <1>8, WritesIs DEF Alike, v
<1> QED BY <1>6, <1>7, <1>8 DEF Writes

LEMMA WritesTask ==
    ASSUME FInv, NEW w, NEW s, NEW a, Writes(w, s, a), NEW r, TaskIs(r, sched, applied, log),
           r.at = "locked" => r.task.ws \in Workspace,
           r.at = "locked" /\ r.task.ws = w => s.raced \/ ~s.enabled
    PROVE  TaskIs(r, sched', applied', log)
<1>1. CASE r.at \notin {"locked", "firing", "queued"}
    BY <1>1 DEF TaskIs
<1>2. CASE r.at = "locked"
    BY <1>2, WritesIs DEF TaskIs
<1>3. CASE r.at \in {"firing", "queued"}
    BY <1>3, WritesIs DEF TaskIs
<1> QED BY <1>1, <1>2, <1>3

LEMMA WritesEdit ==
    ASSUME FInv, NEW w, NEW s, NEW a, Writes(w, s, a), NEW v \in Workspace,
           v = w => sched[w].enabled \/ s = sched[w]
    PROVE  EditIs(edit[v], sched'[v], v, applied'[v], log)
<1>1. EditIs(edit[v], sched[v], v, applied[v], log) /\ (edit[v] # None => edit[v].basis \in Nat)
    BY FTypes DEF EditIs, EditRec
<1>2. applied[v] \in Nat /\ applied'[v] \in Nat /\ applied[v] <= applied'[v]
    BY WritesIs
<1>3. sched'[v] = sched[v] \/ sched[v].enabled
    BY WritesIs
<1> QED BY <1>1, <1>2, <1>3 DEF EditIs

LEMMA RowMoves ==
    ASSUME FInv, IInv', HalfWay, NEW w, NEW s, NEW a, Writes(w, s, a), UNCHANGED log,
           DOMAIN edit' = Workspace,
           \A v \in Workspace : edit'[v] = None \/ (edit'[v] = edit[v] /\ (v = w => sched[w].enabled \/ s = sched[w])),
           \A q \in Process : pass'[q].at = "locked" =>
               pass'[q].task.ws \in Workspace /\ (pass'[q].task.ws = w => s.raced \/ ~s.enabled)
    PROVE  FInv'
<1>1. \A v \in Workspace : RowIs(sched'[v], v, applied'[v], log)
    BY WritesIs, FTypes DEF RowIs, Writes
<1>2. ASSUME NEW v \in Workspace PROVE EditIs(edit'[v], sched'[v], v, applied'[v], log)
  <2>1. CASE edit'[v] = None
      BY <2>1 DEF EditIs
  <2>2. CASE edit'[v] = edit[v] /\ (v = w => sched[w].enabled \/ s = sched[w])
      BY <2>2, WritesEdit
  <2> QED BY <2>1, <2>2
<1>3. ASSUME NEW q \in Process
      PROVE  /\ WorkIs(pass'[q], follower'[q], log) /\ PageIs(pass'[q], sched', applied', log)
             /\ TaskIs(pass'[q], sched', applied', log)
    BY WritesPage, WritesTask DEF HalfWay
<1> QED BY <1>1, <1>2, <1>3, WritesIs DEF FInv

-----------------------------------------------------------------------------
(***************************************************************************)
(* The clock, the settings and update().                                   *)
(***************************************************************************)
LEMMA QuietFires ==
    ASSUME FInv, IInv', UNCHANGED <<log, sched, applied, pass, follower, edit>>
    PROVE  FInv'
    BY DEF FInv

\* A retiming under the lock is of a revision not applied yet.
LEMMA LockedIs ==
    ASSUME FInv, NEW p \in Process, pass[p].at = "locked"
    PROVE  /\ pass[p].task.ws \in Workspace /\ pass[p].task.revision \in Nat
           /\ applied[pass[p].task.ws] < pass[p].task.revision
<1>1. Shaped(pass[p]) /\ Sound(pass[p], follower[p], applied, log) /\ Retiming
    BY FTypes DEF FInv, IInv
<1>2. pass[p].task.ws \in Workspace /\ pass[p].task.revision = pass[p].work[pass[p].task.ws]
    BY <1>1 DEF Sound, WorkIsOpen
<1> QED BY <1>1, <1>2 DEF Shaped, Retiming, At, Task

\* A zone read for the revision that is applied is of that revision or newer.
LEMMA ZoneIs ==
    ASSUME FInv, NEW w \in Workspace, NEW r \in Nat, NEW zone \in ZoneAtLeast(w, r)
    PROVE  zone \in Nat /\ r <= zone
<1>1. log \in Seq([ws : Workspace, at : Nat])
    BY FTypes
<1>2. \A q \in Of(w) : q \in Nat
    BY <1>1, NamedAre, OfIsNamed
<1> QED BY <1>2 DEF ZoneAtLeast

LEMMA EditReadsFires ==
    ASSUME FInv, IInv', NEW w \in Workspace, EditReads(w)
    PROVE  FInv'
<1>1. sched[w] \in SchedRec /\ RowIs(sched[w], w, applied[w], log) /\ applied[w] \in Nat /\ now \in Nat
    BY FTypes
<1>2. ASSUME NEW e, edit' = [edit EXCEPT ![w] = e], EditIs(e, sched[w], w, applied[w], log)
      PROVE  FInv'
  <2>1. /\ DOMAIN edit' = Workspace /\ edit'[w] = e
        /\ \A v \in Workspace \ {w} : edit'[v] = edit[v]
      BY <1>2 DEF FInv
  <2>2. UNCHANGED <<log, sched, applied, pass, follower>>
      BY DEF EditReads
  <2>3. \A v \in Workspace : EditIs(edit'[v], sched[v], v, applied[v], log)
      BY <1>2, <2>1, FTypes
  <2> QED BY <2>1, <2>2, <2>3 DEF FInv
<1>3. CASE edit' = [edit EXCEPT ![w] =
            [enabled |-> sched[w].enabled, slot |-> sched[w].slot, at |-> now,
             zone |-> sched[w].zone, raced |-> sched[w].raced, basis |-> applied[w]]]
  <2> DEFINE e == [enabled |-> sched[w].enabled, slot |-> sched[w].slot, at |-> now,
                   zone |-> sched[w].zone, raced |-> sched[w].raced, basis |-> applied[w]]
  <2>1. /\ e \in EditRec /\ e.basis = applied[w] /\ e.enabled = sched[w].enabled
        /\ Alike(sched[w], e)
      BY <1>1 DEF EditRec, SchedRec, Alike
  <2>2. edit' = [edit EXCEPT ![w] = e]
      BY <1>3
  <2> HIDE DEF e
  <2>3. sched[w].enabled => Suits(e, w, log, e.basis)
      BY <1>1, <2>1 DEF RowIs, Suits, Alike
  <2>4. EditIs(e, sched[w], w, applied[w], log)
      BY <1>1, <2>1, <2>3 DEF EditIs
  <2> QED BY <1>2, <2>2, <2>4
<1>4. ASSUME NEW enabled \in BOOLEAN, NEW zone \in ZoneFor(w),
             edit' = [edit EXCEPT ![w] =
              [enabled |-> enabled, slot |-> SlotAfter(now, zone), at |-> now,
               zone |-> zone, raced |-> FALSE, basis |-> applied[w]]]
      PROVE  FInv'
  <2> DEFINE slot == SlotAfter(now, zone)
             e == [enabled |-> enabled, slot |-> slot, at |-> now,
                   zone |-> zone, raced |-> FALSE, basis |-> applied[w]]
  <2>1. zone \in Nat /\ applied[w] <= zone
      BY <1>1, ZoneIs DEF ZoneFor
  <2>2. slot \in Int
      BY <1>1, <2>1, SlotIs
  <2>3. edit' = [edit EXCEPT ![w] = e]
      BY <1>4
  <2> HIDE DEF slot
  <2>4. e \in EditRec /\ e.basis = applied[w] /\ e.zone = zone
      BY <1>1, <2>1, <2>2 DEF EditRec
  <2> HIDE DEF e
  <2>5. EditIs(e, sched[w], w, applied[w], log)
      BY <1>1, <2>1, <2>4 DEF EditIs, Suits
  <2> QED BY <1>2, <2>3, <2>5
<1> QED BY <1>3, <1>4 DEF EditReads

\* A row that is written as an update() or a fire computed it: raced when its zone was
\* read before a change that is applied, or selected for, by now.
LEMMA RacedIs ==
    ASSUME FInv, NEW w \in Workspace, NEW basis \in Nat, basis <= applied[w]
    PROVE  /\ ~Raced(w, basis) => basis = applied[w]
           /\ \A q \in Process : pass[q].at = "locked" /\ pass[q].task.ws = w => Raced(w, basis)
<1>1. applied[w] \in Nat
    BY FTypes
<1>2. ~Raced(w, basis) => basis = applied[w]
    BY <1>1 DEF Raced
<1>3. ASSUME NEW q \in Process, pass[q].at = "locked", pass[q].task.ws = w
      PROVE  Raced(w, basis)
  <2>1. pass[q].task.revision \in Nat /\ applied[w] < pass[q].task.revision
      BY <1>3, LockedIs
  <2>2. basis < pass[q].task.revision
      BY <1>1, <2>1
  <2> QED BY <1>3, <2>2 DEF Raced, At, Task
<1> QED BY <1>2, <1>3

LEMMA EditWritesFires ==
    ASSUME FInv, IInv', NEW w \in Workspace, EditWrites(w)
    PROVE  FInv'
<1> DEFINE e == edit[w]
           race == e.raced \/ Raced(w, e.basis)
           s == [sched[w] EXCEPT !.enabled = e.enabled, !.slot = e.slot, !.updated = e.at,
                                 !.zone = e.zone, !.raced = race]
           a == applied[w]
<1>1. /\ sched' = [sched EXCEPT ![w] = s] /\ edit' = [edit EXCEPT ![w] = None]
      /\ UNCHANGED <<log, applied, pass, follower>>
    BY DEF EditWrites
<1>2. sched[w] \in SchedRec /\ a \in Nat /\ EditIs(e, sched[w], w, a, log) /\ e # None
    BY FTypes DEF EditWrites
<1>3. e \in EditRec /\ e.basis \in Nat /\ e.basis <= a
    BY <1>2 DEF EditIs, EditRec
<1>4. race \in BOOLEAN
    OBVIOUS
<1>5. race <=> (e.raced \/ Raced(w, e.basis))
    OBVIOUS
<1> HIDE DEF race
<1>6. /\ s \in SchedRec /\ s.enabled = e.enabled /\ s.slot = e.slot /\ s.zone = e.zone
      /\ s.raced = race
    BY <1>2, <1>3, <1>4 DEF SchedRec, EditRec
<1> HIDE DEF s
<1>7. e.basis < a \/ Suits(e, w, log, e.basis) \/ (~e.enabled /\ ~sched[w].enabled /\ Alike(sched[w], e))
    BY <1>2 DEF EditIs
<1>8. Raced(w, e.basis) \/ e.basis = a
    BY <1>3, RacedIs
<1>9. ~s.raced => ~e.raced /\ e.basis = a /\ ~(e.basis < a)
    BY <1>2, <1>3, <1>5, <1>6, <1>8
<1>10. Suits(s, w, log, a) \/ (~s.enabled /\ Alike(sched[w], s))
  <2>1. CASE s.raced
      BY <2>1 DEF Suits
  <2>2. CASE ~s.raced /\ Suits(e, w, log, e.basis)
      BY <1>6, <1>9, <2>2 DEF Suits
  <2>3. CASE ~s.raced /\ ~e.enabled /\ Alike(sched[w], e)
    <3>1. s.raced = FALSE /\ e.raced = FALSE
      <4>1. s.raced \in BOOLEAN /\ e.raced \in BOOLEAN
          BY <1>3, <1>6 DEF SchedRec, EditRec
      <4> QED BY <1>9, <2>3, <4>1
    <3> QED BY <1>6, <2>3, <3>1 DEF Alike
  <2> QED BY <1>7, <1>9, <2>1, <2>2, <2>3
<1>11. Writes(w, s, a)
  <2>1. a \in a .. a /\ a <= a
      BY <1>2
  <2>2. applied' = [applied EXCEPT ![w] = a]
      BY <1>1, FTypes
  <2>3. Alike(sched[w], s) \/ \E r \in a .. a : Suits(s, w, log, r)
      BY <1>10, <2>1
  <2> QED BY <1>1, <1>2, <1>6, <1>10, <2>1, <2>2, <2>3 DEF Writes
<1>12. HalfWay
    BY <1>1, FTypes DEF HalfWay
<1>13. \A q \in Process : pass'[q].at = "locked" =>
          pass'[q].task.ws \in Workspace /\ (pass'[q].task.ws = w => s.raced \/ ~s.enabled)
  <2> TAKE q \in Process
  <2>1. pass[q].at = "locked" => pass[q].task.ws \in Workspace
      BY LockedIs
  <2>2. pass[q].at = "locked" /\ pass[q].task.ws = w => race
      BY <1>3, <1>5, RacedIs
  <2> QED BY <1>1, <1>6, <2>1, <2>2
<1>14. /\ DOMAIN edit' = Workspace
       /\ \A v \in Workspace : edit'[v] = None \/ (edit'[v] = edit[v] /\ v # w)
    BY <1>1 DEF FInv
<1> QED BY <1>1, <1>11, <1>12, <1>13, <1>14, RowMoves

\* The log grows past everything that counts so far.
LEMMA GrowsIs ==
    ASSUME FInv, NEW w \in Workspace, ZoneChanges(w), NEW v
    PROVE  /\ \A q \in Named(log, v) : q \in Named(log', v) /\ log'[q] = log[q]
           /\ \A q \in Named(log', v) : q \in Nat /\ (q <= Len(log) => q \in Named(log, v))
<1>1. /\ log \in Seq([ws : Workspace, at : Nat]) /\ Len(log) \in Nat
      /\ Len(log') = Len(log) + 1 /\ log' \in Seq([ws : Workspace, at : Nat])
      /\ \A q \in 1 .. Len(log) : log'[q] = log[q]
    BY FTypes DEF ZoneChanges
<1>2. DOMAIN log = 1 .. Len(log) /\ DOMAIN log' = 1 .. Len(log')
    BY <1>1
<1> QED BY <1>1, <1>2 DEF Named

LEMMA ServesLonger ==
    ASSUME FInv, NEW w \in Workspace, ZoneChanges(w), NEW s, NEW v, NEW a, NEW begun \in Nat,
           begun <= Len(log), Serves(s, v, a, log, begun)
    PROVE  Serves(s, v, a, log', begun)
<1>1. /\ \A q \in Named(log, v) : q \in Named(log', v) /\ log'[q] = log[q]
      /\ \A q \in Named(log', v) : q \in Nat /\ (q <= Len(log) => q \in Named(log, v))
    BY GrowsIs
<1>2. Len(log) \in Nat
    BY FTypes
<1>3. \A q \in Named(log', v) : q <= begun => q \in Named(log, v)
    BY <1>1, <1>2
<1> QED BY <1>1, <1>3 DEF Serves, Suits

LEMMA ZoneChangesFires ==
    ASSUME FInv, IInv', NEW w \in Workspace, ZoneChanges(w)
    PROVE  FInv'
<1>1. UNCHANGED <<sched, applied, pass, follower, edit>>
    BY DEF ZoneChanges
<1>2. ASSUME NEW v \in Workspace
      PROVE  RowIs(sched[v], v, applied[v], log') /\ EditIs(edit[v], sched[v], v, applied[v], log')
  <2>1. RowIs(sched[v], v, applied[v], log) /\ EditIs(edit[v], sched[v], v, applied[v], log)
      BY FTypes
  <2>2. \A q \in Named(log, v) : q \in Named(log', v) /\ log'[q] = log[q]
      BY GrowsIs
  <2>3. ASSUME NEW s, NEW r, Suits(s, v, log, r) PROVE Suits(s, v, log', r)
      BY <2>2, <2>3 DEF Suits
  <2> QED BY <2>1, <2>3 DEF RowIs, EditIs
<1>3. ASSUME NEW p \in Process
      PROVE  /\ WorkIs(pass[p], follower[p], log') /\ PageIs(pass[p], sched, applied, log')
             /\ TaskIs(pass[p], sched, applied, log')
  <2> DEFINE r == pass[p]
  <2>1. /\ WorkIs(r, follower[p], log) /\ PageIs(r, sched, applied, log)
        /\ TaskIs(r, sched, applied, log)
        /\ r.begun \in Nat /\ r.begun <= Len(log) /\ WorkIsOpen(r, follower[p])
      BY FTypes DEF Shaped, Sound
  <2> HIDE DEF r
  <2>2. WorkIs(r, follower[p], log')
      BY <2>1, GrowsIs DEF WorkIs
  <2>3. PageIs(r, sched, applied, log')
      BY <2>1, ServesLonger DEF PageIs
  <2>4. r.at = "locked" => log'[r.task.revision] = log[r.task.revision]
    <3> SUFFICES ASSUME r.at = "locked" PROVE log'[r.task.revision] = log[r.task.revision]
        OBVIOUS
    <3>1. r.task.ws \in Workspace /\ r.task.revision = r.work[r.task.ws] /\ r.task.revision # 0
        BY <2>1 DEF WorkIsOpen
    <3>2. r.task.revision \in Named(log, r.task.ws)
        BY <2>1, <3>1 DEF WorkIs
    <3> QED BY <3>2, GrowsIs
  <2>5. TaskIs(r, sched, applied, log')
      BY <2>1, <2>4 DEF TaskIs
  <2> QED BY <2>2, <2>3, <2>5 DEF r
<1> QED BY <1>1, <1>2, <1>3 DEF FInv

-----------------------------------------------------------------------------
(***************************************************************************)
(* The follower.  Its pass has no page yet.                                *)
(***************************************************************************)
LEMMA NoPage ==
    ASSUME NEW r, r.page = {}, r.at # "claimed", NEW sc, NEW ap, NEW lg
    PROVE  PageIs(r, sc, ap, lg)
    BY DEF PageIs, Examined

LEMMA FollowsIs ==
    ASSUME FInv, NEW p \in Process, pass[p].at \notin FiresAt
    PROVE  pass[p].page = {}
    BY FTypes DEF PageIs

LEMMA OpensFires ==
    ASSUME FInv, IInv', NEW p \in Process, Opens(p) PROVE FInv'
<1> DEFINE r == [Closed EXCEPT !.at = "reading", !.begun = Len(log)]
<1>1. r.at = "reading" /\ r.page = {} /\ \A w \in Workspace : r.work[w] = 0
    BY DEF Closed, Nothing
<1>2. Moves(p, r, follower[p]) /\ UNCHANGED <<sched, edit>>
    BY MovesAlone DEF Opens, FInv
<1> HIDE DEF r
<1>3. WorkIs(r, follower[p], log)
    BY <1>1, FTypes DEF WorkIs
<1>4. PageIs(r, sched, applied, log) /\ TaskIs(r, sched, applied, log) /\ UpToDate(r, applied, log)
    BY <1>1, NoPage DEF TaskIs, UpToDate, FiresAt
<1> QED BY <1>2, <1>3, <1>4, StageKeeps

LEMMA ReadsLogFires ==
    ASSUME FInv, IInv', NEW p \in Process, ReadsLog(p) PROVE FInv'
<1>1. PICK from \in {follower[p].cursor, 0} :
        Goes(p, [pass[p] EXCEPT !.at = "applying",
          !.work = [w \in Workspace |-> Later(NewestAfter(w, from), follower[p].owed[w])]])
    BY DEF ReadsLog
<1> DEFINE work == [w \in Workspace |-> Later(NewestAfter(w, from), follower[p].owed[w])]
           r == [pass[p] EXCEPT !.at = "applying", !.work = work]
           f == [cursor |-> Len(log), owed |-> Nothing]
<1>2. /\ Shaped(pass[p]) /\ WorkIs(pass[p], follower[p], log)
      /\ pass[p].at = "reading" /\ pass[p].page = {}
    BY FTypes, FollowsIs DEF ReadsLog, At, FiresAt
<1>3. \A w \in Workspace : work[w] \in Named(log, w) \cup {0} /\ f.owed[w] = 0
  <2>1. follower[p].cursor \in Nat /\ Typed /\ NewestExists
      BY FTypes DEF FollowerRec
  <2>2. \A w \in Workspace : NewestAfter(w, from) \in Named(log, w) \cup {0}
      BY <2>1, NewestAfterIs, OfIsNamed
  <2> QED BY <1>2, <2>2 DEF WorkIs, Later, Nothing
<1> HIDE DEF work
<1>4. r.at = "applying" /\ r.work = work /\ r.page = {}
    BY <1>2 DEF Shaped, Fields
<1>5. Moves(p, r, f) /\ UNCHANGED <<sched, edit>>
    BY <1>1, FTypes DEF work, Goes, Moves, ReadsLog
<1> HIDE DEF r, f
<1>6. WorkIs(r, f, log)
    BY <1>3, <1>4 DEF WorkIs
<1>7. PageIs(r, sched, applied, log) /\ TaskIs(r, sched, applied, log) /\ UpToDate(r, applied, log)
    BY <1>4, NoPage DEF TaskIs, UpToDate, FiresAt
<1> QED BY <1>5, <1>6, <1>7, StageKeeps

LEMMA LogRaisesFires ==
    ASSUME FInv, IInv', NEW p \in Process, LogRaises(p) PROVE FInv'
<1> DEFINE r == [pass[p] EXCEPT !.at = "open", !.hold = Workspace]
<1>1. /\ Shaped(pass[p]) /\ WorkIs(pass[p], follower[p], log)
      /\ pass[p].at = "reading" /\ pass[p].page = {}
    BY FTypes, FollowsIs DEF LogRaises, At, FiresAt
<1>2. r.at = "open" /\ r.page = {} /\ r.work = pass[p].work /\ r.hold = Workspace
    BY <1>1 DEF Shaped, Fields
<1>3. Moves(p, r, follower[p]) /\ UNCHANGED <<sched, edit>>
    BY MovesAlone DEF LogRaises, FInv
<1> HIDE DEF r
<1>4. WorkIs(r, follower[p], log)
    BY <1>1, <1>2 DEF WorkIs
<1>5. PageIs(r, sched, applied, log) /\ TaskIs(r, sched, applied, log) /\ UpToDate(r, applied, log)
    BY <1>2, NoPage DEF TaskIs, UpToDate
<1> QED BY <1>3, <1>4, <1>5, StageKeeps

-----------------------------------------------------------------------------
(***************************************************************************)
(* applyTimeZoneChange, and the rows it writes.                            *)
(***************************************************************************)
LEMMA DoneFires ==
    ASSUME FInv, NEW p \in Process, NEW w \in Workspace, pass[p].at \in Follows
    PROVE  /\ WorkIs(Done(p, w), follower[p], log) /\ UpToDate(Done(p, w), applied, log)
           /\ PageIs(Done(p, w), sched, applied, log) /\ TaskIs(Done(p, w), sched, applied, log)
<1> DEFINE d == Done(p, w)
<1>1. /\ Shaped(pass[p]) /\ WorkIs(pass[p], follower[p], log) /\ pass[p].page = {}
    BY FTypes, FollowsIs DEF Follows, FiresAt
<1>2. d.at = "applying" /\ d.work[w] = 0 /\ \A v \in Workspace : v # w => d.work[v] = pass[p].work[v]
    BY <1>1, DoneIs
<1>3. d.page = {}
    BY <1>1 DEF Done, Shaped, Fields
<1> HIDE DEF d
<1>4. WorkIs(d, follower[p], log)
    BY <1>1, <1>2 DEF WorkIs
<1>5. PageIs(d, sched, applied, log) /\ TaskIs(d, sched, applied, log) /\ UpToDate(d, applied, log)
    BY <1>2, <1>3, NoPage DEF TaskIs, UpToDate, FiresAt
<1> QED BY <1>4, <1>5 DEF d

LEMMA SkipsAppliedFires ==
    ASSUME FInv, IInv', NEW p \in Process, NEW w \in Workspace, SkipsApplied(p, w) PROVE FInv'
<1>1. Moves(p, Done(p, w), follower[p]) /\ UNCHANGED <<sched, edit>> /\ pass[p].at \in Follows
    BY MovesAlone DEF SkipsApplied, FInv, At, Follows
<1> QED BY <1>1, DoneFires, StageKeeps

LEMMA ReadsZoneFires ==
    ASSUME FInv, IInv', NEW p \in Process, NEW w \in Workspace, ReadsZone(p, w) PROVE FInv'
<1>1. PICK zone \in ZoneAtLeast(w, pass[p].work[w]) :
        Goes(p, [pass[p] EXCEPT !.at = "zoned",
          !.task = [ws |-> w, revision |-> pass[p].work[w], zone |-> zone, at |-> now]])
    BY DEF ReadsZone
<1> DEFINE t == [ws |-> w, revision |-> pass[p].work[w], zone |-> zone, at |-> now]
           r == [pass[p] EXCEPT !.at = "zoned", !.task = t]
<1>2. /\ Shaped(pass[p]) /\ WorkIs(pass[p], follower[p], log) /\ pass[p].page = {} /\ now \in Nat
      /\ pass[p].work[w] \in Nat
    BY FTypes, FollowsIs DEF ReadsZone, At, FiresAt, Shaped
<1>3. zone \in Nat /\ pass[p].work[w] <= zone
    BY <1>2, ZoneIs
<1>4. Moves(p, r, follower[p]) /\ UNCHANGED <<sched, edit>>
    BY <1>1, MovesAlone DEF ReadsZone, FInv
<1>5. t.zone \in Nat /\ t.at \in Nat /\ t.revision <= t.zone
    BY <1>2, <1>3
<1> HIDE DEF t
<1>6. r.at = "zoned" /\ r.task = t /\ r.work = pass[p].work /\ r.page = {}
    BY <1>2 DEF Shaped, Fields
<1> HIDE DEF r
<1>7. WorkIs(r, follower[p], log)
    BY <1>2, <1>6 DEF WorkIs
<1>8. PageIs(r, sched, applied, log) /\ TaskIs(r, sched, applied, log) /\ UpToDate(r, applied, log)
    BY <1>5, <1>6, NoPage DEF TaskIs, UpToDate, FiresAt
<1> QED BY <1>4, <1>7, <1>8, StageKeeps

\* A retiming is of a change of its workspace.
LEMMA RetimingIs ==
    ASSUME FInv, NEW p \in Process, pass[p].at \in {"zoned", "locked"}
    PROVE  /\ pass[p].task.ws \in Workspace /\ pass[p].task.revision \in Nat
           /\ pass[p].task.revision \in Named(log, pass[p].task.ws)
           /\ log[pass[p].task.revision].at \in Nat
           /\ pass[p].task.zone \in Nat /\ pass[p].task.at \in Nat
           /\ pass[p].task.revision <= pass[p].task.zone
<1> DEFINE t == pass[p].task
<1>1. /\ Sound(pass[p], follower[p], applied, log) /\ WorkIs(pass[p], follower[p], log)
      /\ TaskIs(pass[p], sched, applied, log) /\ log \in Seq([ws : Workspace, at : Nat])
    BY FTypes
<1>2. t.ws \in Workspace /\ t.revision = pass[p].work[t.ws] /\ t.revision > 0
    BY <1>1 DEF Sound, WorkIsOpen
<1>3. t.revision \in Named(log, t.ws)
    BY <1>1, <1>2 DEF WorkIs
<1>4. t.revision \in Nat /\ log[t.revision].at \in Nat
    BY <1>1, <1>3, NamedAt
<1> QED BY <1>1, <1>2, <1>3, <1>4 DEF TaskIs

LEMMA SelectsFires ==
    ASSUME FInv, IInv', NEW p \in Process, Selects(p) PROVE FInv'
<1> DEFINE w == pass[p].task.ws
           revision == pass[p].task.revision
           row == sched[w]
           changedAt == log[revision].at
<1>1. /\ Shaped(pass[p]) /\ WorkIs(pass[p], follower[p], log) /\ pass[p].page = {}
      /\ pass[p].at = "zoned" /\ UNCHANGED <<sched, edit>>
    BY FTypes, FollowsIs DEF Selects, At, FiresAt
<1>2. /\ w \in Workspace /\ revision \in Nat /\ changedAt \in Nat
      /\ pass[p].task.zone \in Nat /\ pass[p].task.at \in Nat /\ revision <= pass[p].task.zone
    BY <1>1, RetimingIs
<1>3. row \in SchedRec
    BY <1>2, FTypes
<1>4. CASE applied[w] >= revision
  <2>1. Moves(p, Done(p, w), follower[p])
      BY <1>4, MovesAlone DEF Selects, Task, FInv
  <2> QED BY <1>1, <1>2, <2>1, DoneFires, StageKeeps DEF Follows
<1>5. CASE ~(applied[w] >= revision)
  <2> DEFINE slot == IF row.enabled /\ row.slot > changedAt THEN row.slot ELSE None
             next == SlotAfter(Later(changedAt, Later(row.lastRun, row.updated)), pass[p].task.zone)
             t == [ws |-> w, revision |-> revision, zone |-> pass[p].task.zone,
                   at |-> pass[p].task.at, slot |-> slot, next |-> next]
             r == [pass[p] EXCEPT !.at = "locked", !.task = t]
  <2>1. Moves(p, r, follower[p])
      BY <1>5, MovesAlone DEF Selects, Task, FInv
  <2>2. next \in Int
    <3>1. Later(changedAt, Later(row.lastRun, row.updated)) \in Int
        BY <1>2, <1>3 DEF Later, SchedRec
    <3>2. pass[p].task.zone \in Int
        BY <1>2
    <3> QED BY <3>1, <3>2, SlotIs, Zenon
  <2>3. row.enabled => IF slot = None THEN row.slot <= changedAt ELSE row.slot = slot
      BY <1>2, <1>3, ScheduleAssumption DEF SchedRec
  <2> HIDE DEF next, slot
  <2>4. /\ t.ws = w /\ t.revision = revision /\ t.zone = pass[p].task.zone /\ t.at = pass[p].task.at
        /\ t.slot = slot /\ t.next = next
      OBVIOUS
  <2> HIDE DEF t
  <2>5. r.at = "locked" /\ r.task = t /\ r.work = pass[p].work /\ r.page = {}
      BY <1>1 DEF Shaped, Fields
  <2> HIDE DEF r
  <2>6. WorkIs(r, follower[p], log)
      BY <1>1, <2>5 DEF WorkIs
  <2>7. TaskIs(r, sched, applied, log)
      BY <1>2, <2>2, <2>3, <2>4, <2>5 DEF TaskIs
  <2>8. PageIs(r, sched, applied, log) /\ UpToDate(r, applied, log)
      BY <2>5, NoPage DEF UpToDate, FiresAt
  <2> QED BY <1>1, <2>1, <2>6, <2>7, <2>8, StageKeeps
<1> QED BY <1>4, <1>5

LEMMA RetimesFires ==
    ASSUME FInv, IInv', NEW p \in Process, Retimes(p) PROVE FInv'
<1> DEFINE t == pass[p].task
           w == t.ws
           d == Done(p, w)
<1>1. /\ pass[p].at = "locked" /\ UNCHANGED <<log, follower, edit>> /\ Goes(p, d)
      /\ applied' = [applied EXCEPT ![w] = t.revision]
    BY DEF Retimes, At, Task
<1>2. /\ w \in Workspace /\ t.revision \in Nat /\ t.revision \in Named(log, w)
      /\ t.zone \in Nat /\ t.at \in Nat /\ t.revision <= t.zone /\ log[t.revision].at \in Nat
    BY <1>1, RetimingIs
<1>3. sched[w] \in SchedRec /\ applied[w] \in Nat /\ applied[w] < t.revision
    BY <1>1, <1>2, FTypes, LockedIs
<1>4. t.next \in Int
    BY <1>1, FTypes DEF TaskIs
<1>5. HalfWay
  <2>1. follower' = [follower EXCEPT ![p] = follower[p]] /\ pass' = [pass EXCEPT ![p] = d]
      BY <1>1, FTypes DEF Goes
  <2>2. /\ WorkIs(d, follower[p], log) /\ UpToDate(d, applied, log)
        /\ PageIs(d, sched, applied, log) /\ TaskIs(d, sched, applied, log)
      BY <1>1, <1>2, DoneFires DEF Follows
  <2> HIDE DEF d
  <2> QED BY <2>1, <2>2, HalfWayIs
<1>6. \A q \in Process : pass'[q].at = "locked" => pass'[q].task.ws \in Workspace \ {w}
  <2> SUFFICES ASSUME NEW q \in Process, pass'[q].at = "locked"
               PROVE  pass'[q].task.ws \in Workspace \ {w}
      OBVIOUS
  <2>1. d.at = "applying" /\ pass'[p] = d /\ (q # p => pass'[q] = pass[q])
      BY <1>1, <1>2, FTypes, DoneIs DEF Goes
  <2>2. q # p /\ pass'[q] = pass[q] /\ pass[q].at = "locked"
      BY <2>1
  <2> HIDE DEF d
  <2> QED BY <1>1, <2>2, LockedIs DEF FInv, IInv, Retiming, At, Task
<1> HIDE DEF d
<1>7. CASE sched[w].enabled /\ sched[w].slot = t.slot
  <2> DEFINE updated == IF t.next = t.slot THEN sched[w].updated ELSE t.at
             s == [sched[w] EXCEPT !.slot = t.next, !.zone = t.zone, !.raced = FALSE,
                                   !.updated = updated]
  <2>1. sched' = [sched EXCEPT ![w] = s]
      BY <1>7 DEF Retimes, Task
  <2>2. updated \in Nat
      BY <1>2, <1>3 DEF SchedRec
  <2> HIDE DEF updated
  <2>3. s \in SchedRec /\ s.zone = t.zone
      BY <1>2, <1>3, <1>4, <2>2 DEF SchedRec
  <2> HIDE DEF s
  <2>4. Suits(s, w, log, t.revision)
      BY <1>2, <2>3 DEF Suits
  <2>5. t.revision \in applied[w] .. t.revision /\ applied[w] <= t.revision
      BY <1>2, <1>3
  <2> HIDE DEF w
  <2>6. Writes(w, s, t.revision)
      BY <1>1, <1>2, <2>1, <2>3, <2>4, <2>5 DEF Writes
  <2>7. DOMAIN edit' = Workspace /\ \A v \in Workspace : edit'[v] = edit[v]
      BY <1>1 DEF FInv
  <2> QED BY <1>1, <1>5, <1>6, <1>7, <2>6, <2>7, RowMoves
<1>8. CASE ~(sched[w].enabled /\ sched[w].slot = t.slot)
  <2> DEFINE s == sched[w]
  <2>1. sched' = [sched EXCEPT ![w] = s]
      BY <1>2, <1>8 DEF Retimes, Task, FInv
  <2>2. s.enabled /\ ~s.raced => IF t.slot = None THEN s.slot <= log[t.revision].at ELSE s.slot = t.slot
      BY <1>1, FTypes DEF TaskIs
  <2> HIDE DEF s
  <2>3. s.enabled => Suits(s, w, log, t.revision)
      BY <1>2, <1>8, <2>2 DEF Suits, s
  <2>4. Alike(sched[w], s)
      BY DEF Alike, s
  <2>5. applied[w] <= t.revision /\ s \in SchedRec /\ s = sched[w]
      BY <1>2, <1>3 DEF s
  <2> HIDE DEF w
  <2>6. Writes(w, s, t.revision)
      BY <1>1, <1>2, <2>1, <2>3, <2>4, <2>5 DEF Writes
  <2>7. DOMAIN edit' = Workspace /\ \A v \in Workspace : edit'[v] = edit[v]
      BY <1>1 DEF FInv
  <2> QED BY <1>1, <1>5, <1>6, <2>5, <2>6, <2>7, RowMoves
<1> QED BY <1>7, <1>8

LEMMA RetimingRaisesFires ==
    ASSUME FInv, IInv', NEW p \in Process, RetimingRaises(p) PROVE FInv'
<1> DEFINE w == pass[p].task.ws
           revision == pass[p].task.revision
           d == Done(p, w)
           r == [d EXCEPT !.hold = d.hold \cup {w}]
           owed == [follower[p].owed EXCEPT ![w] = revision]
           f == [follower[p] EXCEPT !.owed = owed]
<1>1. /\ pass[p].at \in {"zoned", "locked"} /\ Shaped(pass[p]) /\ follower[p] \in FollowerRec
      /\ UNCHANGED <<sched, edit, log, applied, now>> /\ follower \in [Process -> FollowerRec]
      /\ now \in Nat
    BY FTypes DEF RetimingRaises
<1>2. w \in Workspace /\ revision \in Named(log, w)
    BY <1>1, RetimingIs
<1>3. /\ WorkIs(d, follower[p], log) /\ Shaped(d) /\ d.at = "applying" /\ d.page = {}
  <2>1. pass[p].page = {}
      BY <1>1, FollowsIs DEF FiresAt
  <2>2. d.page = {}
      BY <1>1, <2>1 DEF Done, Shaped, Fields
  <2> QED BY <1>1, <1>2, <2>2, DoneFires, DoneIs DEF Follows
<1>4. Goes(p, r)
    BY DEF RetimingRaises, Task
<1>5. follower' = [follower EXCEPT ![p] = f]
  <2>1. follower' = [follower EXCEPT ![p].owed[w] = revision]
      BY DEF RetimingRaises, Owes, Task
  <2> QED BY <1>1, <2>1 DEF FollowerRec
<1>6. /\ \A v \in Workspace : owed[v] = IF v = w THEN revision ELSE follower[p].owed[v]
      /\ f.owed = owed
    BY <1>1 DEF FollowerRec
<1> HIDE DEF d, owed, f
<1>7. r.at = "applying" /\ r.page = {} /\ r.work = d.work
    BY <1>3 DEF Shaped, Fields
<1> HIDE DEF r
<1>8. WorkIs(r, f, log)
    BY <1>2, <1>3, <1>6, <1>7 DEF WorkIs
<1>9. PageIs(r, sched, applied, log) /\ TaskIs(r, sched, applied, log) /\ UpToDate(r, applied, log)
    BY <1>7, NoPage DEF TaskIs, UpToDate, FiresAt
<1>10. Moves(p, r, f)
    BY <1>1, <1>4, <1>5 DEF Moves, Goes
<1> QED BY <1>1, <1>8, <1>9, <1>10, StageKeeps

LEMMA FollowerEndsFires ==
    ASSUME FInv, IInv', NEW p \in Process, FollowerEnds(p) PROVE FInv'
<1> DEFINE r == [pass[p] EXCEPT !.at = "open"]
           f == follower'[p]
<1>1. /\ Shaped(pass[p]) /\ WorkIs(pass[p], follower[p], log) /\ pass[p].page = {}
      /\ UNCHANGED <<now, sched, edit, log, applied>> /\ now \in Nat /\ Goes(p, r)
      /\ follower \in [Process -> FollowerRec] /\ DOMAIN pass = Process
    BY FTypes, FollowsIs DEF FollowerEnds, At, FiresAt
<1>2. f \in {follower[p], Fresh} /\ follower' = [follower EXCEPT ![p] = f]
    BY <1>1 DEF FollowerEnds
<1>3. r.at = "open" /\ r.page = {} /\ r.work = pass[p].work
    BY <1>1 DEF Shaped, Fields
<1>4. Moves(p, r, f) /\ pass'[p] = r
    BY <1>1, <1>2 DEF Moves, Goes
<1> HIDE DEF r, f
<1>5. WorkIs(r, f, log)
    BY <1>1, <1>2, <1>3 DEF WorkIs, Fresh, Nothing
<1>6. UpToDate(r, applied, log)
    BY <1>1, <1>4 DEF IInv, Sound
<1>7. PageIs(r, sched, applied, log) /\ TaskIs(r, sched, applied, log)
    BY <1>3, NoPage DEF TaskIs
<1> QED BY <1>1, <1>4, <1>5, <1>6, <1>7, StageKeeps

-----------------------------------------------------------------------------
(***************************************************************************)
(* claim(), fireDue and fire.                                              *)
(***************************************************************************)
\* A step of the walk keeps what its pass has applied and works on.
LEMMA WalksAre ==
    ASSUME FInv, NEW p \in Process, NEW r, Walks(p, r)
    PROVE  UpToDate(r, applied, log) /\ WorkIs(r, follower[p], log)
<1>1. UpToDate(pass[p], applied, log) /\ WorkIs(pass[p], follower[p], log)
    BY FTypes
<1> QED BY <1>1 DEF Walks, UpToDate, WorkIs

LEMMA StepFires ==
    ASSUME FInv, IInv', NEW p \in Process, NEW r, Walks(p, r), UNCHANGED <<sched, edit>>,
           PageIs(r, sched, applied, log), TaskIs(r, sched, applied, log)
    PROVE  FInv'
<1>1. Moves(p, r, follower[p])
    BY MovesAlone DEF Walks, FInv
<1> QED BY <1>1, WalksAre, StageKeeps

\* The end of a pass, or of a process.
LEMMA CloseFires ==
    ASSUME FInv, IInv', NEW p \in Process, NEW f \in {follower[p], Fresh}, Moves(p, Closed, f),
           UNCHANGED <<sched, edit>>
    PROVE  FInv'
<1>1. Closed.at = "idle" /\ Closed.page = {} /\ \A w \in Workspace : Closed.work[w] = 0 /\ Fresh.owed[w] = 0
    BY DEF Closed, Nothing, Fresh
<1>2. WorkIs(Closed, f, log)
    BY <1>1, FTypes DEF WorkIs
<1>3. /\ PageIs(Closed, sched, applied, log) /\ TaskIs(Closed, sched, applied, log)
      /\ UpToDate(Closed, applied, log)
    BY <1>1, NoPage DEF TaskIs, UpToDate, FiresAt
<1> QED BY <1>2, <1>3, StageKeeps

\* A task is left, as the code does after it and when it raises.
LEMMA ReopenedIs ==
    ASSUME FInv, NEW p \in Process, Goes(p, Reopened(p)), pass[p].at \in FiresAt,
           UNCHANGED <<now, log, applied, follower>>
    PROVE  /\ Walks(p, Reopened(p)) /\ PageIs(Reopened(p), sched, applied, log)
           /\ TaskIs(Reopened(p), sched, applied, log)
<1> DEFINE r == Reopened(p)
<1>1. Shaped(pass[p]) /\ PageIs(pass[p], sched, applied, log)
    BY FTypes
<1>2. /\ DOMAIN r = Fields /\ r.at = "open" /\ r.begun = pass[p].begun /\ r.work = pass[p].work
      /\ r.hold = pass[p].hold /\ r.page = pass[p].page
    BY <1>1 DEF Reopened, Shaped, Fields
<1> HIDE DEF r
<1>3. Walks(p, r)
    BY <1>2 DEF Walks, FiresAt, r
<1>4. PageIs(r, sched, applied, log)
    BY <1>1, <1>2 DEF PageIs, Examined, FiresAt
<1>5. TaskIs(r, sched, applied, log)
    BY <1>2 DEF TaskIs
<1> QED BY <1>3, <1>4, <1>5 DEF r

LEMMA ReopensFires ==
    ASSUME FInv, IInv', NEW p \in Process, Goes(p, Reopened(p)), pass[p].at \in FiresAt,
           UNCHANGED <<now, log, applied, follower, sched, edit>>
    PROVE  FInv'
    BY ReopenedIs, StepFires

\* A row that is due in a workspace whose slots do not wait may fire in this pass.
LEMMA DueServes ==
    ASSUME FInv, NEW p \in Process, pass[p].at \in FiresAt, NEW row \in Due(p)
    PROVE  /\ row.ws \in Workspace
           /\ row.ws \notin pass[p].hold =>
                Serves(sched[row.ws], row.ws, applied[row.ws], log, pass[p].begun)
<1>1. PICK w \in Workspace : sched[w].enabled /\ row = Row(w)
    BY DEF Due
<1>2. row.ws = w
    BY <1>1 DEF Row
<1>3. RowIs(sched[w], w, applied[w], log) /\ applied[w] \in Nat /\ UpToDate(pass[p], applied, log)
    BY FTypes
<1>4. Suits(sched[w], w, log, applied[w]) /\ applied[w] \in 0 .. applied[w]
    BY <1>1, <1>3 DEF RowIs
<1>5. w \notin pass[p].hold => \A q \in Named(log, w) : q <= pass[p].begun => q <= applied[w]
    BY <1>3 DEF UpToDate
<1> QED BY <1>2, <1>4, <1>5 DEF Serves

LEMMA ReadsPageFires ==
    ASSUME FInv, IInv', NEW p \in Process, ReadsPage(p) PROVE FInv'
<1> DEFINE page == First(Due(p), Page)
           r == [pass[p] EXCEPT !.page = page, !.last = Cardinality(page) < Page]
<1>1. Shaped(pass[p]) /\ pass[p].at = "open" /\ Goes(p, r) /\ UNCHANGED <<sched, edit>>
    BY FTypes DEF ReadsPage, At
<1>2. page \subseteq Due(p)
    BY DEF First
<1> HIDE DEF page
<1>3. /\ DOMAIN r = Fields /\ r.at = "open" /\ r.begun = pass[p].begun /\ r.work = pass[p].work
      /\ r.hold = pass[p].hold /\ r.page = page
    BY <1>1 DEF Shaped, Fields
<1> HIDE DEF r
<1>4. Walks(p, r)
    BY <1>1, <1>3 DEF Walks, FiresAt, ReadsPage
<1>5. PageIs(r, sched, applied, log)
    BY <1>1, <1>2, <1>3, DueServes DEF PageIs, Examined, FiresAt
<1>6. TaskIs(r, sched, applied, log)
    BY <1>3 DEF TaskIs
<1> QED BY <1>1, <1>4, <1>5, <1>6, StepFires

LEMMA ClaimsFires ==
    ASSUME FInv, IInv', NEW p \in Process, Claims(p) PROVE FInv'
<1>1. PICK row \in First(pass[p].page, 1) : Goes(p, IF Steps(p, row)
             THEN [pass[p] EXCEPT !.page = @ \ {row}, !.skipped = @ + 1]
             ELSE [pass[p] EXCEPT !.page = @ \ {row}, !.claimed = @ + 1, !.at = "claimed",
                     !.task = [ws |-> row.ws, slot |-> row.slot]])
    BY DEF Claims
<1> DEFINE task == [ws |-> row.ws, slot |-> row.slot]
           steps == [pass[p] EXCEPT !.page = @ \ {row}, !.skipped = @ + 1]
           takes == [pass[p] EXCEPT !.page = @ \ {row}, !.claimed = @ + 1, !.at = "claimed",
                       !.task = task]
<1>2. Goes(p, steps) \/ Goes(p, takes)
    BY <1>1, Zenon
<1>3. /\ pass[p].at = "open" /\ UNCHANGED <<now, log, applied, follower, sched, edit>>
      /\ Shaped(pass[p]) /\ PageIs(pass[p], sched, applied, log)
    BY FTypes DEF Claims, At
<1>4. row \in pass[p].page
    BY DEF First
<1>5. task.ws = row.ws /\ task.slot = row.slot
    OBVIOUS
<1> HIDE DEF task
<1>6. /\ DOMAIN steps = Fields /\ steps.at = "open" /\ steps.begun = pass[p].begun
      /\ steps.work = pass[p].work /\ steps.hold = pass[p].hold /\ steps.page = pass[p].page \ {row}
    BY <1>3 DEF Shaped, Fields
<1>7. /\ DOMAIN takes = Fields /\ takes.at = "claimed" /\ takes.begun = pass[p].begun
      /\ takes.work = pass[p].work /\ takes.hold = pass[p].hold /\ takes.page = pass[p].page \ {row}
      /\ takes.task = task
    BY <1>3 DEF Shaped, Fields
<1> HIDE DEF steps, takes
<1>8. CASE Goes(p, steps)
  <2>1. Walks(p, steps)
      BY <1>3, <1>6, <1>8 DEF Walks, FiresAt
  <2>2. PageIs(steps, sched, applied, log) /\ TaskIs(steps, sched, applied, log)
      BY <1>3, <1>6 DEF PageIs, Examined, TaskIs, FiresAt
  <2> QED BY <1>3, <2>1, <2>2, StepFires
<1>9. CASE Goes(p, takes)
  <2>1. Walks(p, takes)
      BY <1>3, <1>7, <1>9 DEF Walks, FiresAt
  <2>2. PageIs(takes, sched, applied, log)
      BY <1>3, <1>4, <1>5, <1>7 DEF PageIs, Examined, FiresAt
  <2>3. TaskIs(takes, sched, applied, log)
      BY <1>7 DEF TaskIs
  <2> QED BY <1>3, <2>1, <2>2, <2>3, StepFires
<1> QED BY <1>2, <1>8, <1>9

\* The slot a pass has claimed is of a workspace of the page it examined.
LEMMA ClaimedIs ==
    ASSUME FInv, NEW p \in Process, pass[p].at = "claimed"
    PROVE  /\ pass[p].task.ws \in Workspace
           /\ pass[p].task.ws \notin pass[p].hold /\ sched[pass[p].task.ws].slot = pass[p].task.slot =>
                Serves(sched[pass[p].task.ws], pass[p].task.ws, applied[pass[p].task.ws], log, pass[p].begun)
<1>1. PageIs(pass[p], sched, applied, log) /\ pass[p].task \in Examined(pass[p])
    BY FTypes DEF Examined
<1> QED BY <1>1 DEF PageIs

LEMMA FiresFires ==
    ASSUME FInv, IInv', NEW p \in Process, Fires(p) PROVE FInv'
<1> DEFINE w == pass[p].task.ws
           slot == pass[p].task.slot
<1>1. PICK zone \in ZoneFor(w) : Goes(p, [pass[p] EXCEPT !.at = "firing", !.task =
          [ws |-> w, slot |-> slot, at |-> now, zone |-> zone,
           next |-> SlotAfter(Later(slot, now), zone), basis |-> applied[w]]])
    BY DEF Fires, Task
<1>2. /\ pass[p].at = "claimed" /\ w \in Workspace /\ UNCHANGED <<sched, edit>>
      /\ Shaped(pass[p]) /\ PageIs(pass[p], sched, applied, log)
    BY FTypes, ClaimedIs DEF Fires, At
<1>3. /\ applied[w] \in Nat /\ now \in Nat /\ sched[w] \in SchedRec /\ sched[w].slot = slot
    BY <1>2, FTypes DEF Fires, Task
<1>4. zone \in Nat /\ applied[w] <= zone
    BY <1>2, <1>3, ZoneIs DEF ZoneFor
<1> DEFINE next == SlotAfter(Later(slot, now), zone)
           t == [ws |-> w, slot |-> slot, at |-> now, zone |-> zone, next |-> next,
                 basis |-> applied[w]]
           r == [pass[p] EXCEPT !.at = "firing", !.task = t]
<1>5. next \in Int
  <2>1. Later(slot, now) \in Int /\ zone \in Int
      BY <1>3, <1>4 DEF Later, SchedRec
  <2> QED BY <2>1, SlotIs, Zenon
<1>6. Goes(p, r)
    BY <1>1
<1> HIDE DEF next
<1>7. t.ws = w /\ t.zone = zone /\ t.at = now /\ t.next = next /\ t.basis = applied[w]
    OBVIOUS
<1> HIDE DEF t
<1>8. /\ DOMAIN r = Fields /\ r.at = "firing" /\ r.begun = pass[p].begun /\ r.work = pass[p].work
      /\ r.hold = pass[p].hold /\ r.page = pass[p].page /\ r.task = t
    BY <1>2 DEF Shaped, Fields
<1> HIDE DEF r
<1>9. Walks(p, r)
    BY <1>2, <1>6, <1>8 DEF Walks, FiresAt, Fires
<1>10. PageIs(r, sched, applied, log)
    BY <1>2, <1>8 DEF PageIs, Examined, FiresAt
<1>11. TaskIs(r, sched, applied, log)
    BY <1>2, <1>3, <1>4, <1>5, <1>7, <1>8 DEF TaskIs
<1> QED BY <1>2, <1>9, <1>10, <1>11, StepFires

LEMMA EnqueuesFires ==
    ASSUME FInv, IInv', NEW p \in Process, Enqueues(p) PROVE FInv'
<1> DEFINE r == [pass[p] EXCEPT !.at = "queued"]
<1>1. /\ pass[p].at = "firing" /\ Goes(p, r) /\ UNCHANGED <<sched, edit>> /\ Shaped(pass[p])
      /\ PageIs(pass[p], sched, applied, log) /\ TaskIs(pass[p], sched, applied, log)
    BY FTypes DEF Enqueues, At
<1>2. /\ DOMAIN r = Fields /\ r.at = "queued" /\ r.begun = pass[p].begun /\ r.work = pass[p].work
      /\ r.hold = pass[p].hold /\ r.page = pass[p].page /\ r.task = pass[p].task
    BY <1>1 DEF Shaped, Fields
<1> HIDE DEF r
<1>3. Walks(p, r)
    BY <1>1, <1>2 DEF Walks, FiresAt, Enqueues
<1>4. PageIs(r, sched, applied, log) /\ TaskIs(r, sched, applied, log)
    BY <1>1, <1>2 DEF PageIs, Examined, TaskIs, FiresAt
<1> QED BY <1>1, <1>3, <1>4, StepFires

\* A fire that is over, before the row it writes.
LEMMA TaskOver ==
    ASSUME FInv, NEW p \in Process, pass[p].at \in {"firing", "queued"}, Goes(p, Reopened(p)),
           UNCHANGED <<now, log, applied, follower>>
    PROVE  /\ HalfWay /\ pass[p].task.ws \in Workspace /\ TaskIs(pass[p], sched, applied, log)
           /\ \A q \in Process : pass'[q].at = "locked" => pass'[q] = pass[q]
<1>1. pass[p].at \in FiresAt /\ TaskIs(pass[p], sched, applied, log)
    BY FTypes DEF FiresAt
<1> DEFINE r == Reopened(p)
<1>2. /\ Walks(p, r) /\ PageIs(r, sched, applied, log) /\ TaskIs(r, sched, applied, log)
      /\ UpToDate(r, applied, log) /\ WorkIs(r, follower[p], log)
    BY <1>1, ReopenedIs, WalksAre
<1>3. /\ follower' = [follower EXCEPT ![p] = follower[p]] /\ pass' = [pass EXCEPT ![p] = r]
      /\ r.at \in FiresAt
    BY <1>2, FTypes DEF Goes, Walks
<1> HIDE DEF r
<1>4. HalfWay
    BY <1>2, <1>3, HalfWayIs
<1>5. \A q \in Process : pass'[q].at = "locked" => pass'[q] = pass[q]
    BY <1>3, FTypes DEF FiresAt
<1> QED BY <1>1, <1>4, <1>5 DEF TaskIs

LEMMA DisablesFires ==
    ASSUME FInv, IInv', NEW p \in Process, Disables(p) PROVE FInv'
<1> DEFINE w == pass[p].task.ws
           t == pass[p].task
<1>1. /\ pass[p].at = "firing" /\ Goes(p, Reopened(p)) /\ UNCHANGED <<now, log, applied, follower, edit>>
    BY DEF Disables, At
<1>2. /\ HalfWay /\ w \in Workspace /\ TaskIs(pass[p], sched, applied, log)
      /\ \A q \in Process : pass'[q].at = "locked" => pass'[q] = pass[q]
    BY <1>1, TaskOver
<1>3. sched[w] \in SchedRec /\ applied[w] \in Nat /\ t.at \in Nat
    BY <1>1, <1>2, FTypes DEF TaskIs
<1>4. CASE sched[w].enabled
  <2> DEFINE s == [sched[w] EXCEPT !.enabled = FALSE, !.updated = t.at]
  <2>1. sched' = [sched EXCEPT ![w] = s]
      BY <1>4 DEF Disables, Task
  <2>2. s \in SchedRec /\ ~s.enabled /\ Alike(sched[w], s)
      BY <1>3 DEF SchedRec, Alike
  <2> HIDE DEF s
  <2>3. applied' = [applied EXCEPT ![w] = applied[w]] /\ applied[w] <= applied[w]
      BY <1>1, <1>3, FTypes
  <2>4. Writes(w, s, applied[w])
      BY <1>2, <1>3, <2>1, <2>2, <2>3 DEF Writes
  <2>5. \A q \in Process : pass'[q].at = "locked" => pass'[q].task.ws \in Workspace
      BY <1>2, LockedIs
  <2>6. DOMAIN edit' = Workspace /\ \A v \in Workspace : edit'[v] = edit[v]
      BY <1>1 DEF FInv
  <2> QED BY <1>1, <1>2, <1>4, <2>2, <2>4, <2>5, <2>6, RowMoves
<1>5. CASE ~sched[w].enabled
  <2>1. sched' = sched
      BY <1>5 DEF Disables, Task
  <2> QED BY <1>1, <1>2, <2>1, SameRows
<1> QED BY <1>4, <1>5

LEMMA AdvancesFires ==
    ASSUME FInv, IInv', NEW p \in Process, Advances(p) PROVE FInv'
<1> DEFINE t == pass[p].task
           w == t.ws
<1>1. /\ pass[p].at = "queued" /\ Goes(p, Reopened(p)) /\ UNCHANGED <<now, log, applied, follower, edit>>
    BY DEF Advances, At
<1>2. /\ HalfWay /\ w \in Workspace /\ TaskIs(pass[p], sched, applied, log)
      /\ \A q \in Process : pass'[q].at = "locked" => pass'[q] = pass[q]
    BY <1>1, TaskOver
<1>3. /\ sched[w] \in SchedRec /\ applied[w] \in Nat /\ t.at \in Nat /\ t.zone \in Nat
      /\ t.next \in Int /\ t.basis \in Nat /\ t.basis <= t.zone /\ t.basis <= applied[w]
    BY <1>1, <1>2, FTypes DEF TaskIs
<1>4. CASE sched[w].enabled /\ sched[w].slot = t.slot
  <2> DEFINE race == Raced(w, t.basis)
             s == [sched[w] EXCEPT !.slot = t.next, !.lastRun = t.at, !.updated = t.at,
                                   !.zone = t.zone, !.raced = race]
  <2>1. sched' = [sched EXCEPT ![w] = s]
      BY <1>4 DEF Advances, Task
  <2>2. race \in BOOLEAN /\ (~race => t.basis = applied[w])
      BY <1>2, <1>3, RacedIs DEF Raced
  <2>3. \A q \in Process : pass[q].at = "locked" /\ pass[q].task.ws = w => race
      BY <1>2, <1>3, RacedIs
  <2> HIDE DEF race
  <2>4. s \in SchedRec /\ s.zone = t.zone /\ s.raced = race
      BY <1>3, <2>2 DEF SchedRec
  <2> HIDE DEF s
  <2>5. Suits(s, w, log, applied[w])
      BY <1>3, <2>2, <2>4 DEF Suits
  <2>6. applied' = [applied EXCEPT ![w] = applied[w]] /\ applied[w] <= applied[w]
        /\ applied[w] \in applied[w] .. applied[w]
      BY <1>1, <1>3, FTypes
  <2>7. Writes(w, s, applied[w])
      BY <1>2, <1>3, <2>1, <2>4, <2>5, <2>6 DEF Writes
  <2>8. \A q \in Process : pass'[q].at = "locked" =>
          pass'[q].task.ws \in Workspace /\ (pass'[q].task.ws = w => s.raced)
      BY <1>2, <2>3, <2>4, LockedIs
  <2>9. DOMAIN edit' = Workspace /\ \A v \in Workspace : edit'[v] = edit[v]
      BY <1>1 DEF FInv
  <2> QED BY <1>1, <1>2, <1>4, <2>7, <2>8, <2>9, RowMoves
<1>5. CASE ~(sched[w].enabled /\ sched[w].slot = t.slot)
  <2>1. sched' = sched
      BY <1>5 DEF Advances, Task
  <2> QED BY <1>1, <1>2, <2>1, SameRows
<1> QED BY <1>4, <1>5

LEMMA WalkFires ==
    ASSUME FInv, IInv', NEW p \in Process,
           ReadsPage(p) \/ WalkEnds(p) \/ PassIsFull(p) \/ Claims(p) \/ LetsBe(p) \/ Fires(p)
             \/ Enqueues(p) \/ Disables(p) \/ Advances(p) \/ Raises(p) \/ Crashes(p)
    PROVE  FInv'
<1>1. ASSUME Goes(p, Closed), UNCHANGED <<now, log, applied, follower, sched, edit>> PROVE FInv'
  <2>1. Moves(p, Closed, follower[p])
      BY <1>1, MovesAlone DEF FInv
  <2> QED BY <1>1, <2>1, CloseFires
<1>2. CASE ReadsPage(p) \/ Claims(p) \/ Fires(p) \/ Enqueues(p) \/ Disables(p) \/ Advances(p)
    BY <1>2, ReadsPageFires, ClaimsFires, FiresFires, EnqueuesFires, DisablesFires, AdvancesFires
<1>3. CASE WalkEnds(p) \/ PassIsFull(p)
    BY <1>1, <1>3 DEF WalkEnds, PassIsFull
<1>4. CASE LetsBe(p)
    BY <1>4, ReopensFires DEF LetsBe, At, FiresAt
<1>5. CASE Raises(p)
  <2>1. CASE Goes(p, Closed)
      BY <1>1, <1>5, <2>1 DEF Raises
  <2>2. CASE pass[p].at \in {"claimed", "firing", "queued"} /\ Goes(p, Reopened(p))
      BY <1>5, <2>2, ReopensFires DEF Raises, FiresAt
  <2> QED BY <1>5, <2>1, <2>2 DEF Raises
<1>6. CASE Crashes(p)
  <2>1. Moves(p, Closed, Fresh)
      BY <1>6, FTypes DEF Crashes, Moves, Goes
  <2> QED BY <1>6, <2>1, CloseFires DEF Crashes
<1> QED BY <1>2, <1>3, <1>4, <1>5, <1>6

-----------------------------------------------------------------------------
LEMMA InitFires == Init => FInv
<1> SUFFICES ASSUME Init PROVE FInv
    OBVIOUS
<1>1. IInv
    BY InitHolds
<1>2. SlotAfter(0, 0) \in Int
  <2>1. 0 \in Int
      OBVIOUS
  <2> QED BY <2>1, SlotIs, Zenon
<1>3. \A w \in Workspace : sched[w].zone = 0 /\ applied[w] = 0
    BY DEF Init, Nothing
<1>4. sched \in [Workspace -> SchedRec] /\ DOMAIN edit = Workspace
    BY <1>2 DEF Init, SchedRec
<1>5. \A w \in Workspace : /\ RowIs(sched[w], w, applied[w], log)
                           /\ EditIs(edit[w], sched[w], w, applied[w], log)
    BY <1>3 DEF Init, RowIs, Suits, EditIs
<1>6. \A p \in Process : pass[p] = Closed /\ follower[p] = Fresh
    BY DEF Init
<1>7. /\ Closed.at = "idle" /\ Closed.page = {}
      /\ \A w \in Workspace : Closed.work[w] = 0 /\ Fresh.owed[w] = 0
    BY DEF Closed, Nothing, Fresh
<1>8. \A p \in Process : /\ WorkIs(pass[p], follower[p], log)
                         /\ PageIs(pass[p], sched, applied, log)
                         /\ TaskIs(pass[p], sched, applied, log)
    BY <1>6, <1>7, NoPage DEF WorkIs, TaskIs
<1> QED BY <1>1, <1>4, <1>5, <1>8 DEF FInv

LEMMA NextFires == FInv /\ [Next]_vars => FInv'
<1> SUFFICES ASSUME FInv, [Next]_vars PROVE FInv'
    OBVIOUS
<1>0. IInv'
    BY NextKeeps DEF FInv
<1>1. CASE UNCHANGED vars
    BY <1>0, <1>1, QuietFires DEF vars
<1>2. CASE Tick
    BY <1>0, <1>2, QuietFires DEF Tick
<1>3. ASSUME NEW w \in Workspace, ZoneChanges(w) \/ EditReads(w) \/ EditWrites(w) PROVE FInv'
    BY <1>0, <1>3, ZoneChangesFires, EditReadsFires, EditWritesFires
<1>4. ASSUME NEW p \in Process, Works(p) PROVE FInv'
  <2>1. CASE Opens(p) \/ ReadsLog(p) \/ FollowerEnds(p)
      BY <1>0, <2>1, OpensFires, ReadsLogFires, FollowerEndsFires
  <2>2. CASE Selects(p) \/ Retimes(p) \/ RetimingRaises(p)
      BY <1>0, <2>2, SelectsFires, RetimesFires, RetimingRaisesFires
  <2>3. CASE \E w \in Workspace : SkipsApplied(p, w) \/ ReadsZone(p, w)
      BY <1>0, <2>3, SkipsAppliedFires, ReadsZoneFires
  <2>4. CASE \/ ReadsPage(p) \/ WalkEnds(p) \/ PassIsFull(p) \/ Claims(p)
             \/ LetsBe(p) \/ Fires(p) \/ Enqueues(p) \/ Advances(p)
      BY <1>0, <2>4, WalkFires
  <2> QED BY <1>4, <2>1, <2>2, <2>3, <2>4 DEF Works
<1>5. ASSUME NEW p \in Process,
             LogRaises(p) \/ RetimingRaises(p) \/ Disables(p) \/ Raises(p) \/ Crashes(p)
      PROVE  FInv'
    BY <1>0, <1>5, LogRaisesFires, RetimingRaisesFires, WalkFires
<1> QED BY <1>1, <1>2, <1>3, <1>4, <1>5 DEF Next

\* A process moves alone, and what it claimed starts to fire in fire() only.
LEMMA OnlyFires ==
    ASSUME FInv, [Next]_vars, NEW p \in Process, pass[p].at = "claimed", pass'[p].at = "firing"
    PROVE  Fires(p)
<1>1. Shaped(pass[p]) /\ DOMAIN pass = Process
    BY FTypes
<1>2. pass'[p] # pass[p]
    OBVIOUS
<1>3. ASSUME NEW q \in Process, NEW r, Goes(q, r), r.at # "firing" PROVE FALSE
  <2>1. CASE q = p
      BY <1>1, <1>3, <2>1 DEF Goes
  <2>2. CASE q # p
      BY <1>1, <1>2, <1>3, <2>2 DEF Goes
  <2> QED BY <2>1, <2>2
<1>4. ASSUME NEW q \in Process, NEW r, Goes(q, r) PROVE q = p
    BY <1>1, <1>2, <1>4 DEF Goes
<1>5. ASSUME NEW q \in Process,
             \/ Opens(q) \/ ReadsLog(q) \/ Selects(q) \/ Retimes(q) \/ FollowerEnds(q)
             \/ (\E w \in Workspace : SkipsApplied(q, w) \/ ReadsZone(q, w))
             \/ LogRaises(q) \/ RetimingRaises(q)
      PROVE  FALSE
  <2>1. pass[q].at \notin FiresAt
      BY <1>5 DEF Opens, ReadsLog, Selects, Retimes, FollowerEnds, SkipsApplied, ReadsZone,
                  LogRaises, RetimingRaises, At, FiresAt
  <2>2. \E r : Goes(q, r)
      BY <1>5 DEF Opens, ReadsLog, Selects, Retimes, FollowerEnds, SkipsApplied, ReadsZone,
                  LogRaises, RetimingRaises
  <2> QED BY <1>4, <2>1, <2>2 DEF FiresAt
<1>6. ASSUME NEW q \in Process,
             ReadsPage(q) \/ WalkEnds(q) \/ PassIsFull(q) \/ Claims(q) \/ Enqueues(q)
               \/ Disables(q) \/ Advances(q)
      PROVE  FALSE
  <2>1. CASE Claims(q)
    <3>1. pass[q].at # "claimed"
        BY <2>1 DEF Claims, At
    <3>2. \E r : Goes(q, r)
        BY <2>1, Zenon DEF Claims
    <3> QED BY <1>4, <3>1, <3>2
  <2>2. CASE ReadsPage(q) \/ WalkEnds(q) \/ PassIsFull(q) \/ Enqueues(q) \/ Disables(q) \/ Advances(q)
    <3>1. pass[q].at # "claimed"
        BY <2>2 DEF ReadsPage, WalkEnds, PassIsFull, Enqueues, Disables, Advances, At
    <3>2. \E r : Goes(q, r)
        BY <2>2 DEF ReadsPage, WalkEnds, PassIsFull, Enqueues, Disables, Advances
    <3> QED BY <1>4, <3>1, <3>2
  <2> QED BY <1>6, <2>1, <2>2
<1>7. ASSUME NEW q \in Process, Goes(q, Closed) \/ Goes(q, Reopened(q)) PROVE FALSE
  <2>1. Closed.at = "idle"
      BY DEF Closed
  <2>2. Reopened(q).at = "open"
      BY FTypes DEF Reopened, Shaped, Fields
  <2> QED BY <1>3, <1>7, <2>1, <2>2
<1>8. ASSUME NEW q \in Process, LetsBe(q) \/ Raises(q) \/ Crashes(q) PROVE FALSE
    BY <1>7, <1>8 DEF LetsBe, Raises, Crashes
<1>9. ASSUME NEW q \in Process, Fires(q) PROVE Fires(p)
  <2>1. \E r : Goes(q, r)
      BY <1>9 DEF Fires
  <2> QED BY <1>4, <1>9, <2>1
<1>10. ~UNCHANGED pass
    BY <1>2
<1>11. ~UNCHANGED vars /\ ~Tick /\ \A w \in Workspace : ~(ZoneChanges(w) \/ EditReads(w) \/ EditWrites(w))
    BY <1>10 DEF vars, Tick, ZoneChanges, EditReads, EditWrites
<1>12. PICK q \in Process :
         Works(q) \/ LogRaises(q) \/ RetimingRaises(q) \/ Disables(q) \/ Raises(q) \/ Crashes(q)
    BY <1>11 DEF Next
<1> QED BY <1>5, <1>6, <1>8, <1>9, <1>12 DEF Works

\* A row that serves a pass is in the zone of the newest change the pass must know.
LEMMA ServesInItsZone ==
    ASSUME FInv, NEW w \in Workspace, NEW begun \in 0 .. Len(log),
           Serves(sched[w], w, applied[w], log, begun)
    PROVE  ZoneIsCurrent(w, begun)
<1> DEFINE newest == NewestUpTo(w, begun)
           s == sched[w]
<1>1. /\ Typed /\ NewestExists /\ applied[w] \in Nat /\ s \in SchedRec /\ Len(log) \in Nat
      /\ log \in Seq([ws : Workspace, at : Nat])
    BY FTypes
<1>2. newest \in {q \in Named(log, w) : q <= begun} \cup {0} /\ newest \in Nat
    BY <1>1, NewestUpToIs, OfIsNamed
<1>3. PICK r \in 0 .. applied[w] :
        (\A q \in Named(log, w) : q <= begun => q <= r) /\ Suits(s, w, log, r)
    BY DEF Serves
<1> HIDE DEF newest
<1>4. newest <= r /\ r \in Nat /\ r <= applied[w]
    BY <1>1, <1>2, <1>3
<1>5. s.raced \/ s.zone >= newest \/ (r \in Named(log, w) /\ s.slot <= log[r].at)
    BY <1>1, <1>2, <1>3, <1>4 DEF Suits, SchedRec
<1>6. \/ s.zone >= newest \/ s.raced
      \/ \E q \in Of(w) : newest <= q /\ q <= applied[w] /\ s.slot <= log[q].at
    BY <1>4, <1>5, OfIsNamed
<1> QED BY <1>6 DEF ZoneIsCurrent, newest

\* For any number of workspaces, processes, changes, edits and failures, a slot that
\* starts to fire stands in a zone no older than the newest change of its workspace
\* committed before the pass began, was due by a change applied since, or was written
\* by someone who read the zone before that change was applied.
THEOREM SlotsFireInTheirZone == Spec => FiresInItsZone
<1> DEFINE Starts == \A p \in Process : At(p, "claimed") /\ pass'[p].at = "firing" =>
               ZoneIsCurrent(Task(p).ws, pass[p].begun)
<1>1. FInv /\ [Next]_vars => Starts
  <2> SUFFICES ASSUME FInv, [Next]_vars, NEW p \in Process, pass[p].at = "claimed",
                      pass'[p].at = "firing"
               PROVE  ZoneIsCurrent(pass[p].task.ws, pass[p].begun)
      BY DEF At, Task
  <2>1. Fires(p)
      BY OnlyFires
  <2>2. /\ pass[p].task.ws \in Workspace
        /\ Serves(sched[pass[p].task.ws], pass[p].task.ws, applied[pass[p].task.ws], log, pass[p].begun)
      BY <2>1, ClaimedIs DEF Fires, Task
  <2>3. pass[p].begun \in 0 .. Len(log)
      BY FTypes DEF Sound, Shaped
  <2> QED BY <2>2, <2>3, ServesInItsZone
<1>2. FInv /\ [Next]_vars => FInv'
    BY NextFires
<1>3. FInv /\ [Next]_vars => [Starts]_vars
    BY <1>1
<1> QED BY InitFires, <1>2, <1>3, PTL DEF Spec, FiresInItsZone
===============================================================================
