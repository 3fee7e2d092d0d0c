------------------------- MODULE DeliveryQueueProofs --------------------------
(***************************************************************************)
(* The delivery queue keeps what the module promises of every event, for   *)
(* any number of processes, slots, operators, events, attempts and runs,   *)
(* whatever claims lapse, senders crash and subscriptions change.          *)
(*                                                                         *)
(* The attempts of a run are numbered without a gap and all but the last   *)
(* have failed; the retry of a failed attempt is owed by one sender, which *)
(* alone appends the next; a replay appends a run after runs that exist.   *)
(***************************************************************************)
EXTENDS DeliveryQueue, FiniteSetTheorems, WellFoundedInduction, TLAPS

Statuses == {"absent", "pending", "sending", "succeeded", "failed", "dead", "dropped"}
RowRec == [status : Statuses, by : Sender \cup {None}]
SendRec == [at : {"idle", "reading", "sending", "recording", "retrying", "burying", "releasing"},
            attempt : Attempt \cup {None}, ok : BOOLEAN]
ReplayRec == [event : Event \cup {None}, run : 0 .. MaxRuns]

Typed ==
    /\ row \in [Attempt -> RowRec]
    /\ published \subseteq Event
    /\ send \in [Sender -> SendRec]
    /\ \A s \in Sender : send[s].at # "idle" => send[s].attempt \in Attempt
    /\ replay \in [Operator -> ReplayRec]

Of(e, r, n) == Status(<<e, r, n>>)

\* The attempts of a run are 1 to t, and only the last may be other than failed.
Chain(e, r, t) == \A n \in 1 .. MaxAttempts :
    /\ Of(e, r, n) # "absent" <=> n <= t
    /\ n < t => Of(e, r, n) = "failed"
InOrder == \A e \in Event, r \in Run : \E t \in 0 .. MaxAttempts : Chain(e, r, t)
\* The last attempt of the budget does not fail: it is dead.
InBudget == \A e \in Event, r \in Run : Of(e, r, MaxAttempts) # "failed"
RunsInOrder == \A e \in Event, r \in Run :
    Of(e, r, 1) # "absent" => \A q \in 1 .. (r - 1) : Of(e, q, 1) # "absent"
Unpublished == \A e \in Event \ published, r \in Run, n \in 1 .. MaxAttempts : Of(e, r, n) = "absent"

\* A run a replay may append.
Replayable(e, r) ==
    /\ e \in Event /\ r \in Run /\ r > 1
    /\ \A q \in 1 .. (r - 1) : Of(e, q, 1) # "absent"
    /\ \E q \in 1 .. (r - 1), n \in 1 .. MaxAttempts : Of(e, q, n) = "dead"
Replays == \A o \in Operator : replay[o] # NoReplay => Replayable(replay[o].event, replay[o].run)

\* A failed attempt whose retry is still to be appended.
Owes(a) ==
    /\ Status(a) = "failed" /\ NumberOf(a) < MaxAttempts
    /\ Status(NextAttempt(a)) = "absent"
Retrying(s) == send[s].at = "retrying"
RetriesAreOwned ==
    /\ \A s \in Sender : Retrying(s) => Owes(send[s].attempt)
    /\ \A s, o \in Sender :
         Retrying(s) /\ Retrying(o) /\ send[s].attempt = send[o].attempt => s = o

RowsOrdered == InOrder /\ InBudget /\ RunsInOrder
IInv == Typed /\ RowsOrdered /\ Unpublished /\ Replays /\ RetriesAreOwned

-----------------------------------------------------------------------------
(***************************************************************************)
(* Numbers, attempts and the newest of them.                               *)
(***************************************************************************)
LEMMA Bounds == MaxAttempts \in Nat \ {0} /\ MaxRuns \in Nat \ {0} /\ Run = 1 .. MaxRuns
    BY DeliveryAssumption DEF Run

LEMMA AttemptIs ==
    ASSUME NEW a \in Attempt
    PROVE  /\ a = <<EventOf(a), RunOf(a), NumberOf(a)>>
           /\ EventOf(a) \in Event /\ RunOf(a) \in Run /\ NumberOf(a) \in 1 .. MaxAttempts
           /\ NumberOf(a) \in Nat /\ RunOf(a) \in Nat
    BY Bounds DEF Attempt, EventOf, RunOf, NumberOf

LEMMA IsAttempt ==
    ASSUME NEW e \in Event, NEW r \in Run, NEW n \in 1 .. MaxAttempts
    PROVE  /\ <<e, r, n>> \in Attempt
           /\ EventOf(<<e, r, n>>) = e /\ RunOf(<<e, r, n>>) = r /\ NumberOf(<<e, r, n>>) = n
    BY DEF Attempt, EventOf, RunOf, NumberOf

\* A set of numbers with a bound has a greatest.
LEMMA HasGreatest ==
    ASSUME NEW N \in Nat, NEW S \in SUBSET (0 .. N), S # {}
    PROVE  \E m \in S : \A k \in S : k <= m
<1> DEFINE T == {N - k : k \in S}
<1>1. \A k \in S : k \in Nat /\ N - k \in Nat
    OBVIOUS
<1>2. T \subseteq Nat
    BY <1>1
<1>3. T # {}
  <2>1. PICK k \in S : TRUE
      OBVIOUS
  <2>2. N - k \in T
      BY <2>1
  <2> QED BY <2>2
<1>4. \E x \in T : \A y \in T : <<y, x>> \notin OpToRel(<, Nat)
    BY <1>2, <1>3, NatLessThanWellFounded, WFMin
<1>5. PICK x \in T : \A y \in T : ~(y < x)
    BY <1>2, <1>4 DEF OpToRel
<1>6. PICK m \in S : x = N - m
    BY <1>5
<1>7. ASSUME NEW k \in S PROVE k <= m
  <2>1. N - k \in T
      OBVIOUS
  <2>2. ~(N - k < N - m)
      BY <1>5, <1>6, <2>1
  <2>3. k \in Nat /\ m \in Nat
      BY <1>1
  <2> QED BY <2>2, <2>3
<1> QED BY <1>6, <1>7

LEMMA GreatestIs ==
    ASSUME NEW t \in Nat, NEW ns, ns = 1 .. t
    PROVE  (IF ns = {} THEN 0 ELSE CHOOSE n \in ns : \A k \in ns : k <= n) = t
<1>1. CASE t = 0
    BY <1>1
<1>2. CASE t # 0
  <2>1. t \in ns /\ \A k \in ns : k <= t
      BY <1>2
  <2>2. \A n \in ns : (\A k \in ns : k <= n) => n = t
      BY <2>1
  <2>3. (CHOOSE n \in ns : \A k \in ns : k <= n) = t
      BY <2>1, <2>2
  <2> QED BY <2>1, <2>3
<1> QED BY <1>1, <1>2

\* The number of attempts and the state of a run, from its chain.
StateIn(status) == IF status \in {"pending", "sending", "failed"} THEN "open" ELSE status

LEMMA ChainGives ==
    ASSUME NEW e \in Event, NEW r \in Run, NEW t \in 0 .. MaxAttempts, Chain(e, r, t)
    PROVE  /\ TriesOf(e, r) = t
           /\ StateOf(e, r) = IF t = 0 THEN "none" ELSE StateIn(Of(e, r, t))
<1> DEFINE ns == {n \in 1 .. MaxAttempts : Status(<<e, r, n>>) # "absent"}
<1>1. ns = 1 .. t
    BY Bounds DEF Chain, Of
<1>2. TriesOf(e, r) = IF ns = {} THEN 0 ELSE CHOOSE n \in ns : \A k \in ns : k <= n
    BY DEF TriesOf
<1>3. t \in Nat
    BY Bounds
<1> HIDE DEF ns
<1>4. TriesOf(e, r) = t
    BY <1>1, <1>2, <1>3, GreatestIs, Zenon
<1> QED BY <1>4 DEF StateOf, StateIn, Of

LEMMA ChainGivesNext ==
    ASSUME NEW e \in Event, NEW r \in Run, NEW t \in 0 .. MaxAttempts, Chain(e, r, t)'
    PROVE  /\ TriesOf(e, r)' = t
           /\ StateOf(e, r)' = IF t = 0 THEN "none" ELSE StateIn(Of(e, r, t)')
<1> DEFINE ns == {n \in 1 .. MaxAttempts : Status(<<e, r, n>>)' # "absent"}
<1>1. ns = 1 .. t
    BY Bounds DEF Chain, Of
<1>2. TriesOf(e, r)' = IF ns = {} THEN 0 ELSE CHOOSE n \in ns : \A k \in ns : k <= n
    BY DEF TriesOf
<1>3. t \in Nat
    BY Bounds
<1> HIDE DEF ns
<1>4. TriesOf(e, r)' = t
    BY <1>1, <1>2, <1>3, GreatestIs, Zenon
<1> QED BY <1>4 DEF StateOf, StateIn, Of

\* What is neither absent nor failed is the last of its run.
LEMMA LastIs ==
    ASSUME InOrder, NEW e \in Event, NEW r \in Run, NEW n \in 1 .. MaxAttempts,
           Of(e, r, n) \notin {"absent", "failed"}
    PROVE  Chain(e, r, n)
<1>1. PICK t \in 0 .. MaxAttempts : Chain(e, r, t)
    BY DEF InOrder
<1>2. n = t
    BY <1>1, Bounds DEF Chain
<1> QED BY <1>1, <1>2

\* A failed attempt that no other follows is the last too.
LEMMA LastFailedIs ==
    ASSUME InOrder, NEW e \in Event, NEW r \in Run, NEW n \in 1 .. MaxAttempts,
           n + 1 \in 1 .. MaxAttempts, Of(e, r, n) # "absent", Of(e, r, n + 1) = "absent"
    PROVE  Chain(e, r, n)
<1>1. PICK t \in 0 .. MaxAttempts : Chain(e, r, t)
    BY DEF InOrder
<1>2. n = t
    BY <1>1, Bounds DEF Chain
<1> QED BY <1>1, <1>2

-----------------------------------------------------------------------------
(***************************************************************************)
(* What may become of the rows, and what the promise sees of it.           *)
(***************************************************************************)
\* One attempt takes a status, and the others keep theirs.
Only(e, r, n, status) == \A d \in Event, q \in Run, k \in 1 .. MaxAttempts :
    Of(d, q, k)' = IF d = e /\ q = r /\ k = n THEN status ELSE Of(d, q, k)
\* A claim or a release at most.
Alike == \A d \in Event, q \in Run, k \in 1 .. MaxAttempts :
    Of(d, q, k)' = Of(d, q, k) \/ {Of(d, q, k), Of(d, q, k)'} \subseteq {"pending", "sending"}
\* What a run has come to is kept.
Grows == \A d \in Event, q \in Run, k \in 1 .. MaxAttempts :
    /\ Of(d, q, k) # "absent" => Of(d, q, k)' # "absent"
    /\ Of(d, q, k) \in {"failed", "dead"} => Of(d, q, k)' = Of(d, q, k)
AbsentStay(D) == \A d \in Event, q \in Run, k \in 1 .. MaxAttempts :
    Of(d, q, k) = "absent" /\ <<d, q, k>> \notin D => Of(d, q, k)' = "absent"

\* The run r of e comes to t attempts and a state, and the others stay.
SeenAs(e, r, t, state) == \A d \in Event, q \in Run :
    /\ TriesOf(d, q)' = IF d = e /\ q = r THEN t ELSE TriesOf(d, q)
    /\ StateOf(d, q)' = IF d = e /\ q = r THEN state ELSE StateOf(d, q)
Unseen == \A d \in Event, q \in Run :
    TriesOf(d, q)' = TriesOf(d, q) /\ StateOf(d, q)' = StateOf(d, q)

LEMMA AlikeKeeps ==
    ASSUME RowsOrdered, Alike
    PROVE  RowsOrdered' /\ Grows /\ AbsentStay({}) /\ Unseen
<1>1. \A d \in Event, q \in Run, k \in 1 .. MaxAttempts :
        /\ Of(d, q, k)' = "absent" <=> Of(d, q, k) = "absent"
        /\ Of(d, q, k)' = "failed" <=> Of(d, q, k) = "failed"
        /\ Of(d, q, k)' = "dead" <=> Of(d, q, k) = "dead"
        /\ StateIn(Of(d, q, k)') = StateIn(Of(d, q, k))
    BY DEF Alike, StateIn
<1>2. ASSUME NEW e \in Event, NEW r \in Run, NEW t \in 0 .. MaxAttempts, Chain(e, r, t)
      PROVE  Chain(e, r, t)'
    BY <1>1, <1>2 DEF Chain
<1>3. InOrder'
    BY <1>2 DEF RowsOrdered, InOrder
<1>4. InBudget' /\ RunsInOrder'
  <2>1. MaxAttempts \in 1 .. MaxAttempts /\ 1 \in 1 .. MaxAttempts
      BY Bounds
  <2>2. \A r \in Run : 1 .. (r - 1) \subseteq Run
      BY Bounds
  <2> QED BY <1>1, <2>1, <2>2 DEF RowsOrdered, InBudget, RunsInOrder
<1>5. Unseen
  <2> SUFFICES ASSUME NEW e \in Event, NEW r \in Run
               PROVE  TriesOf(e, r)' = TriesOf(e, r) /\ StateOf(e, r)' = StateOf(e, r)
      BY DEF Unseen
  <2>1. PICK t \in 0 .. MaxAttempts : Chain(e, r, t)
      BY DEF RowsOrdered, InOrder
  <2>2. Chain(e, r, t)'
      BY <1>2, <2>1
  <2>3. t # 0 => t \in 1 .. MaxAttempts
      BY Bounds
  <2> QED BY <1>1, <2>1, <2>2, <2>3, ChainGives, ChainGivesNext
<1> QED BY <1>1, <1>3, <1>4, <1>5 DEF RowsOrdered, Grows, AbsentStay

\* A change of one run, whose attempts come to a chain of t, leaves the others.
LEMMA OneRunMoves ==
    ASSUME RowsOrdered, NEW e \in Event, NEW r \in Run, NEW n \in 1 .. MaxAttempts, NEW status,
           Only(e, r, n, status), status # "absent", status = "failed" => n < MaxAttempts,
           NEW t \in 1 .. MaxAttempts, Chain(e, r, t)',
           \A q \in 1 .. (r - 1) : Of(e, q, 1) # "absent"
    PROVE  RowsOrdered' /\ SeenAs(e, r, t, StateIn(Of(e, r, t)'))
<1>1. ASSUME NEW d \in Event, NEW q \in Run, ~(d = e /\ q = r), NEW k \in 1 .. MaxAttempts
      PROVE  Of(d, q, k)' = Of(d, q, k)
    BY <1>1 DEF Only
<1>2. ASSUME NEW d \in Event, NEW q \in Run, ~(d = e /\ q = r), NEW u \in 0 .. MaxAttempts,
             Chain(d, q, u)
      PROVE  /\ Chain(d, q, u)'
             /\ TriesOf(d, q)' = TriesOf(d, q) /\ StateOf(d, q)' = StateOf(d, q)
  <2>1. Chain(d, q, u)'
      BY <1>1, <1>2 DEF Chain
  <2>2. u # 0 => u \in 1 .. MaxAttempts
      BY Bounds
  <2> QED BY <1>1, <1>2, <2>1, <2>2, ChainGives, ChainGivesNext
<1>3. t \in 0 .. MaxAttempts /\ t # 0
    BY Bounds
<1>4. InOrder'
  <2> SUFFICES ASSUME NEW d \in Event, NEW q \in Run
               PROVE  \E u \in 0 .. MaxAttempts : Chain(d, q, u)'
      BY DEF InOrder
  <2>1. PICK u \in 0 .. MaxAttempts : Chain(d, q, u)
      BY DEF RowsOrdered, InOrder
  <2> QED BY <1>2, <1>3, <2>1
<1>5. InBudget'
  <2>1. MaxAttempts \in 1 .. MaxAttempts /\ ~(MaxAttempts < MaxAttempts)
      BY Bounds
  <2> SUFFICES ASSUME NEW d \in Event, NEW q \in Run PROVE Of(d, q, MaxAttempts)' # "failed"
      BY DEF InBudget
  <2>2. Of(d, q, MaxAttempts) # "failed"
      BY DEF RowsOrdered, InBudget
  <2> QED BY <2>1, <2>2 DEF Only
<1>6. RunsInOrder'
  <2>1. 1 \in 1 .. MaxAttempts /\ \A q \in Run : 1 .. (q - 1) \subseteq Run
      BY Bounds
  <2>2. \A d \in Event, q \in Run : Of(d, q, 1) # "absent" => Of(d, q, 1)' # "absent"
      BY <2>1 DEF Only
  <2> SUFFICES ASSUME NEW d \in Event, NEW q \in Run, Of(d, q, 1)' # "absent",
                      NEW o \in 1 .. (q - 1)
               PROVE  Of(d, o, 1)' # "absent"
      BY DEF RunsInOrder
  <2>3. o \in Run
      BY <2>1
  <2>4. CASE d = e /\ q = r
      BY <2>2, <2>3, <2>4
  <2>5. CASE ~(d = e /\ q = r)
    <3>1. Of(d, q, 1) # "absent"
        BY <1>1, <2>1, <2>5
    <3> QED BY <2>2, <2>3, <3>1 DEF RowsOrdered, RunsInOrder
  <2> QED BY <2>4, <2>5
<1>7. SeenAs(e, r, t, StateIn(Of(e, r, t)'))
  <2>1. TriesOf(e, r)' = t /\ StateOf(e, r)' = StateIn(Of(e, r, t)')
      BY <1>3, ChainGivesNext
  <2>2. ASSUME NEW d \in Event, NEW q \in Run, ~(d = e /\ q = r)
        PROVE  TriesOf(d, q)' = TriesOf(d, q) /\ StateOf(d, q)' = StateOf(d, q)
    <3>1. PICK u \in 0 .. MaxAttempts : Chain(d, q, u)
        BY DEF RowsOrdered, InOrder
    <3> QED BY <1>2, <2>2, <3>1
  <2> QED BY <2>1, <2>2 DEF SeenAs
<1> QED BY <1>4, <1>5, <1>6, <1>7 DEF RowsOrdered

LEMMA FirstExist ==
    ASSUME RowsOrdered, NEW e \in Event, NEW r \in Run, NEW n \in 1 .. MaxAttempts,
           Of(e, r, n) # "absent"
    PROVE  /\ Of(e, r, 1) # "absent"
           /\ \A q \in 1 .. (r - 1) : Of(e, q, 1) # "absent"
<1>1. PICK t \in 0 .. MaxAttempts : Chain(e, r, t)
    BY DEF RowsOrdered, InOrder
<1>2. 1 \in 1 .. MaxAttempts /\ n <= t
    BY <1>1, Bounds DEF Chain
<1>3. Of(e, r, 1) # "absent"
    BY <1>1, <1>2, Bounds DEF Chain
<1> QED BY <1>3 DEF RowsOrdered, RunsInOrder

\* An attempt under way gets its outcome.
LEMMA EndKeeps ==
    ASSUME RowsOrdered, NEW e \in Event, NEW r \in Run, NEW n \in 1 .. MaxAttempts,
           Of(e, r, n) \in {"pending", "sending"},
           NEW status \in {"succeeded", "failed", "dead"}, status = "failed" => n < MaxAttempts,
           Only(e, r, n, status)
    PROVE  /\ RowsOrdered' /\ Grows /\ AbsentStay({})
           /\ TriesOf(e, r) = n /\ StateOf(e, r) = "open"
           /\ SeenAs(e, r, n, IF status = "failed" THEN "open" ELSE status)
<1>1. Chain(e, r, n) /\ n \in 0 .. MaxAttempts /\ n # 0
    BY LastIs, Bounds DEF RowsOrdered
<1>2. TriesOf(e, r) = n /\ StateOf(e, r) = "open"
    BY <1>1, ChainGives DEF StateIn
<1>3. Of(e, r, n)' = status
    BY DEF Only
<1>4. Chain(e, r, n)'
  <2> SUFFICES ASSUME NEW k \in 1 .. MaxAttempts
               PROVE  (Of(e, r, k)' # "absent" <=> k <= n) /\ (k < n => Of(e, r, k)' = "failed")
      BY DEF Chain
  <2>1. CASE k = n
      BY <1>3, <2>1, Bounds
  <2>2. CASE k # n
    <3>1. Of(e, r, k)' = Of(e, r, k)
        BY <2>2 DEF Only
    <3> QED BY <1>1, <3>1 DEF Chain
  <2> QED BY <2>1, <2>2
<1>5. \A q \in 1 .. (r - 1) : Of(e, q, 1) # "absent"
    BY FirstExist
<1>6. RowsOrdered' /\ SeenAs(e, r, n, StateIn(Of(e, r, n)'))
    BY <1>4, <1>5, OneRunMoves
<1>7. Grows /\ AbsentStay({})
    BY DEF Only, Grows, AbsentStay
<1>8. StateIn(status) = IF status = "failed" THEN "open" ELSE status
    BY DEF StateIn
<1> QED BY <1>2, <1>3, <1>6, <1>7, <1>8

\* The retry of a failed attempt is appended.
LEMMA RetryKeeps ==
    ASSUME RowsOrdered, NEW e \in Event, NEW r \in Run, NEW n \in 1 .. MaxAttempts,
           n + 1 \in 1 .. MaxAttempts, Of(e, r, n) = "failed", Of(e, r, n + 1) = "absent",
           Only(e, r, n + 1, "pending")
    PROVE  /\ RowsOrdered' /\ Grows /\ AbsentStay({<<e, r, n + 1>>})
           /\ TriesOf(e, r) = n /\ StateOf(e, r) = "open"
           /\ SeenAs(e, r, n + 1, "open")
<1>1. Chain(e, r, n) /\ n \in 0 .. MaxAttempts /\ n # 0
    BY LastFailedIs, Bounds DEF RowsOrdered
<1>2. TriesOf(e, r) = n /\ StateOf(e, r) = "open"
    BY <1>1, ChainGives DEF StateIn
<1>3. Of(e, r, n + 1)' = "pending"
    BY DEF Only
<1>4. Chain(e, r, n + 1)'
  <2> SUFFICES ASSUME NEW k \in 1 .. MaxAttempts
               PROVE  /\ Of(e, r, k)' # "absent" <=> k <= n + 1
                      /\ k < n + 1 => Of(e, r, k)' = "failed"
      BY DEF Chain
  <2>1. CASE k = n + 1
      BY <1>3, <2>1, Bounds
  <2>2. CASE k # n + 1
    <3>1. Of(e, r, k)' = Of(e, r, k)
        BY <2>2 DEF Only
    <3>2. (k <= n <=> k <= n + 1) /\ (k < n + 1 <=> k < n \/ k = n)
        BY <2>2, Bounds
    <3> QED BY <1>1, <3>1, <3>2 DEF Chain
  <2> QED BY <2>1, <2>2
<1>5. \A q \in 1 .. (r - 1) : Of(e, q, 1) # "absent"
    BY FirstExist
<1>6. RowsOrdered' /\ SeenAs(e, r, n + 1, StateIn(Of(e, r, n + 1)'))
    BY <1>4, <1>5, OneRunMoves
<1>7. Grows /\ AbsentStay({<<e, r, n + 1>>})
    BY DEF Only, Grows, AbsentStay
<1>8. StateIn("pending") = "open"
    BY DEF StateIn
<1> QED BY <1>2, <1>3, <1>6, <1>7, <1>8

\* A run is opened, or opened again after its only attempt was dropped.
LEMMA OpenKeeps ==
    ASSUME RowsOrdered, NEW e \in Event, NEW r \in Run, Of(e, r, 1) \in {"absent", "dropped"},
           \A q \in 1 .. (r - 1) : Of(e, q, 1) # "absent", Only(e, r, 1, "pending")
    PROVE  /\ RowsOrdered' /\ Grows /\ AbsentStay({<<e, r, 1>>})
           /\ StateOf(e, r) = "none" \/ (StateOf(e, r) = "dropped" /\ TriesOf(e, r) = 1)
           /\ Of(e, r, 1) = "absent" => StateOf(e, r) = "none"
           /\ SeenAs(e, r, 1, "open")
<1>1. 1 \in 1 .. MaxAttempts /\ 0 \in 0 .. MaxAttempts /\ 1 \in 0 .. MaxAttempts
    BY Bounds
<1>2. PICK t \in {0, 1} : Chain(e, r, t) /\ (t = 0 <=> Of(e, r, 1) = "absent")
  <2>1. CASE Of(e, r, 1) = "absent"
    <3>1. PICK t \in 0 .. MaxAttempts : Chain(e, r, t)
        BY DEF RowsOrdered, InOrder
    <3>2. t = 0
        BY <1>1, <2>1, <3>1, Bounds DEF Chain
    <3> QED BY <2>1, <3>1, <3>2
  <2>2. CASE Of(e, r, 1) = "dropped"
      BY <1>1, <2>2, LastIs DEF RowsOrdered
  <2> QED BY <2>1, <2>2
<1>3. TriesOf(e, r) = t /\ StateOf(e, r) = IF t = 0 THEN "none" ELSE StateIn(Of(e, r, t))
    BY <1>1, <1>2, ChainGives
<1>4. \/ t = 0 /\ StateOf(e, r) = "none"
      \/ t = 1 /\ StateOf(e, r) = "dropped" /\ TriesOf(e, r) = 1
    BY <1>2, <1>3 DEF StateIn
<1>5. Of(e, r, 1)' = "pending"
    BY <1>1 DEF Only
<1>6. Chain(e, r, 1)'
  <2> SUFFICES ASSUME NEW k \in 1 .. MaxAttempts
               PROVE  (Of(e, r, k)' # "absent" <=> k <= 1) /\ (k < 1 => Of(e, r, k)' = "failed")
      BY DEF Chain
  <2>1. CASE k = 1
      BY <1>5, <2>1
  <2>2. CASE k # 1
    <3>1. Of(e, r, k)' = Of(e, r, k)
        BY <2>2 DEF Only
    <3>2. ~(k <= 1) /\ ~(k <= t)
        BY <1>2, <2>2, Bounds
    <3>3. Of(e, r, k) = "absent"
        BY <1>2, <3>2 DEF Chain
    <3> QED BY <3>1, <3>2, <3>3, Bounds
  <2> QED BY <2>1, <2>2
<1>7. RowsOrdered' /\ SeenAs(e, r, 1, StateIn(Of(e, r, 1)'))
    BY <1>1, <1>6, OneRunMoves
<1>8. Grows /\ AbsentStay({<<e, r, 1>>})
    BY DEF Only, Grows, AbsentStay
<1>9. StateIn("pending") = "open"
    BY DEF StateIn
<1> QED BY <1>2, <1>4, <1>5, <1>7, <1>8, <1>9

\* The queue of the subscription is dropped.
Drops == \A d \in Event, q \in Run, k \in 1 .. MaxAttempts :
    Of(d, q, k)' = IF d \notin Mailed /\ Of(d, q, k) = "pending" THEN "dropped" ELSE Of(d, q, k)
DroppedRuns == {x \in (Event \ Mailed) \X Run : \E k \in 1 .. MaxAttempts : Of(x[1], x[2], k) = "pending"}

LEMMA DropKeeps ==
    ASSUME RowsOrdered, Drops
    PROVE  /\ RowsOrdered' /\ Grows /\ AbsentStay({})
           /\ \A x \in DroppedRuns : StateOf(x[1], x[2]) = "open"
           /\ \A d \in Event, q \in Run :
                /\ TriesOf(d, q)' = TriesOf(d, q)
                /\ StateOf(d, q)' = IF <<d, q>> \in DroppedRuns THEN "dropped" ELSE StateOf(d, q)
<1>1. \A d \in Event, q \in Run, k \in 1 .. MaxAttempts :
        /\ Of(d, q, k)' = "absent" <=> Of(d, q, k) = "absent"
        /\ Of(d, q, k)' = "failed" <=> Of(d, q, k) = "failed"
        /\ Of(d, q, k) = "dead" => Of(d, q, k)' = "dead"
    BY DEF Drops
<1>2. ASSUME NEW d \in Event, NEW q \in Run, NEW t \in 0 .. MaxAttempts, Chain(d, q, t)
      PROVE  Chain(d, q, t)'
    BY <1>1, <1>2 DEF Chain
<1>3. InOrder'
    BY <1>2 DEF RowsOrdered, InOrder
<1>4. InBudget' /\ RunsInOrder'
  <2>1. MaxAttempts \in 1 .. MaxAttempts /\ 1 \in 1 .. MaxAttempts
      BY Bounds
  <2>2. \A r \in Run : 1 .. (r - 1) \subseteq Run
      BY Bounds
  <2> QED BY <1>1, <2>1, <2>2 DEF RowsOrdered, InBudget, RunsInOrder
<1>5. ASSUME NEW d \in Event, NEW q \in Run
      PROVE  /\ TriesOf(d, q)' = TriesOf(d, q)
             /\ StateOf(d, q)' = IF <<d, q>> \in DroppedRuns THEN "dropped" ELSE StateOf(d, q)
             /\ <<d, q>> \in DroppedRuns => StateOf(d, q) = "open"
  <2>1. PICK t \in 0 .. MaxAttempts : Chain(d, q, t)
      BY DEF RowsOrdered, InOrder
  <2>2. Chain(d, q, t)'
      BY <1>2, <2>1
  <2>3. t # 0 => t \in 1 .. MaxAttempts
      BY Bounds
  <2>4. CASE <<d, q>> \in DroppedRuns
    <3>1. PICK k \in 1 .. MaxAttempts : d \notin Mailed /\ Of(d, q, k) = "pending"
        BY <2>4 DEF DroppedRuns
    <3>2. k = t
        BY <2>1, <3>1, Bounds DEF Chain
    <3>3. Of(d, q, t) = "pending" /\ Of(d, q, t)' = "dropped" /\ t # 0
        BY <3>1, <3>2, Bounds DEF Drops
    <3> QED BY <2>1, <2>2, <2>4, <3>3, ChainGives, ChainGivesNext DEF StateIn
  <2>5. CASE <<d, q>> \notin DroppedRuns
    <3>1. ASSUME NEW k \in 1 .. MaxAttempts PROVE Of(d, q, k)' = Of(d, q, k)
        BY <2>5 DEF DroppedRuns, Drops
    <3> QED BY <2>1, <2>2, <2>3, <2>5, <3>1, ChainGives, ChainGivesNext
  <2> QED BY <2>4, <2>5
<1>6. \A x \in DroppedRuns : x = <<x[1], x[2]>> /\ x[1] \in Event /\ x[2] \in Run
    BY DEF DroppedRuns
<1> QED BY <1>1, <1>3, <1>4, <1>5, <1>6 DEF RowsOrdered, Grows, AbsentStay

-----------------------------------------------------------------------------
(***************************************************************************)
(* The steps of the promise.                                               *)
(***************************************************************************)
Tries == [e \in Event |-> [r \in Run |-> TriesOf(e, r)]]
States == [e \in Event |-> [r \in Run |-> StateOf(e, r)]]

LEMMA OpenIs ==
    ASSUME NEW e, NEW r
    PROVE  Promise!Open(e, r) <=>
             /\ States[e][r] = "none" \/ (States[e][r] = "dropped" /\ Tries[e][r] = 1)
             /\ r = 1 => States[e][r] = "none"
             /\ r > 1 => \E q \in 1 .. r - 1 : States[e][q] = "dead"
             /\ \A q \in 1 .. r - 1 : States[e][q] # "none"
             /\ States' = [States EXCEPT ![e][r] = "open"]
             /\ Tries' = [Tries EXCEPT ![e][r] = 1]
    BY Zenon DEF Promise!Open, Promise!Becomes, Tries, States

LEMMA RetryIs ==
    ASSUME NEW e, NEW r
    PROVE  Promise!Retry(e, r) <=>
             /\ States[e][r] = "open" /\ Tries[e][r] < MaxAttempts
             /\ Tries' = [Tries EXCEPT ![e][r] = @ + 1]
             /\ States' = States
    BY Zenon DEF Promise!Retry, Tries, States

LEMMA ConcludeIs ==
    ASSUME NEW e, NEW r
    PROVE  Promise!Conclude(e, r) <=>
             /\ States[e][r] = "open"
             /\ \/ States' = [States EXCEPT ![e][r] = "succeeded"]
                \/ States' = [States EXCEPT ![e][r] = "dead"]
             /\ Tries' = Tries
    BY Zenon DEF Promise!Conclude, Promise!Becomes, Tries, States

LEMMA UnseenStutters == Unseen => UNCHANGED Promise!vars
<1> SUFFICES ASSUME Unseen PROVE Tries' = Tries /\ States' = States
    BY DEF Promise!vars, Tries, States
<1> QED BY DEF Unseen, Tries, States

LEMMA SeenAsGives ==
    ASSUME NEW e \in Event, NEW r \in Run, NEW t, NEW state, SeenAs(e, r, t, state)
    PROVE  /\ Tries' = [Tries EXCEPT ![e][r] = t]
           /\ States' = [States EXCEPT ![e][r] = state]
           /\ Tries[e][r] = TriesOf(e, r) /\ States[e][r] = StateOf(e, r)
           /\ state = StateOf(e, r) => States' = States
           /\ t = TriesOf(e, r) => Tries' = Tries
    BY DEF SeenAs, Tries, States

\* The state of a run that exists, and of one with a dead attempt.
LEMMA Existing ==
    ASSUME Typed, RowsOrdered, NEW e \in Event, NEW r \in Run
    PROVE  /\ Of(e, r, 1) # "absent" => StateOf(e, r) # "none"
           /\ \A n \in 1 .. MaxAttempts : Of(e, r, n) = "dead" => StateOf(e, r) = "dead"
<1>1. PICK t \in 0 .. MaxAttempts : Chain(e, r, t)
    BY DEF RowsOrdered, InOrder
<1>2. /\ 1 \in 1 .. MaxAttempts /\ (t # 0 => t \in 1 .. MaxAttempts)
      /\ (1 <= t <=> t # 0)
    BY Bounds
<1>3. StateOf(e, r) = IF t = 0 THEN "none" ELSE StateIn(Of(e, r, t))
    BY <1>1, ChainGives
<1>4. ASSUME NEW n \in 1 .. MaxAttempts PROVE Of(e, r, n) \in Statuses
  <2>1. row[<<e, r, n>>] \in RowRec
      BY IsAttempt DEF Typed
  <2> QED BY <2>1 DEF Of, Status, RowRec
<1>5. ASSUME Of(e, r, 1) # "absent" PROVE StateOf(e, r) # "none"
  <2>1. t # 0
      BY <1>1, <1>2, <1>5 DEF Chain
  <2>2. Of(e, r, t) \in Statuses
      BY <1>2, <1>4, <2>1
  <2> QED BY <1>3, <2>1, <2>2 DEF StateIn, Statuses
<1>6. ASSUME NEW n \in 1 .. MaxAttempts, Of(e, r, n) = "dead" PROVE StateOf(e, r) = "dead"
  <2>1. Chain(e, r, n) /\ n \in 0 .. MaxAttempts /\ n # 0
      BY <1>6, LastIs, Bounds DEF RowsOrdered
  <2> QED BY <1>6, <2>1, ChainGives DEF StateIn
<1> QED BY <1>5, <1>6

LEMMA OpenIsPromised ==
    ASSUME Typed, RowsOrdered, NEW e \in Event, NEW r \in Run, SeenAs(e, r, 1, "open"),
           StateOf(e, r) = "none" \/ (StateOf(e, r) = "dropped" /\ TriesOf(e, r) = 1),
           (r = 1 /\ StateOf(e, r) = "none") \/ Replayable(e, r)
    PROVE  Promise!Open(e, r)
<1>1. \A q \in 1 .. (r - 1) : q \in Run /\ States[e][q] = StateOf(e, q)
    BY Bounds DEF States
<1>2. Run \subseteq Nat /\ (r = 1 => 1 .. (r - 1) = {})
    BY Bounds
<1>3. \A q \in 1 .. (r - 1) : StateOf(e, q) # "none"
    BY <1>1, <1>2, Existing DEF Replayable
<1>4. r > 1 => \E q \in 1 .. (r - 1) : StateOf(e, q) = "dead"
  <2> SUFFICES ASSUME r > 1 PROVE \E q \in 1 .. (r - 1) : StateOf(e, q) = "dead"
      OBVIOUS
  <2>1. Replayable(e, r)
      BY <1>2
  <2>2. PICK q \in 1 .. (r - 1), n \in 1 .. MaxAttempts : Of(e, q, n) = "dead"
      BY <2>1 DEF Replayable
  <2> QED BY <1>1, <2>2, Existing
<1>5. r = 1 => StateOf(e, r) = "none"
    BY <1>2 DEF Replayable
<1>6. /\ States[e][r] = StateOf(e, r) /\ Tries[e][r] = TriesOf(e, r)
      /\ States' = [States EXCEPT ![e][r] = "open"] /\ Tries' = [Tries EXCEPT ![e][r] = 1]
    BY SeenAsGives
<1> QED BY <1>1, <1>3, <1>4, <1>5, <1>6, OpenIs

LEMMA RetryIsPromised ==
    ASSUME NEW e \in Event, NEW r \in Run, NEW n \in 1 .. MaxAttempts, n + 1 \in 1 .. MaxAttempts,
           TriesOf(e, r) = n, StateOf(e, r) = "open", SeenAs(e, r, n + 1, "open")
    PROVE  Promise!Retry(e, r)
<1>1. n < MaxAttempts
    BY Bounds
<1>2. /\ Tries[e][r] = n /\ States[e][r] = "open"
      /\ Tries' = [Tries EXCEPT ![e][r] = n + 1] /\ States' = States
    BY SeenAsGives
<1>3. Tries' = [Tries EXCEPT ![e][r] = @ + 1]
    BY <1>2
<1> QED BY <1>1, <1>2, <1>3, RetryIs

LEMMA EndIsPromised ==
    ASSUME NEW e \in Event, NEW r \in Run, NEW n, NEW status \in {"succeeded", "dead"},
           TriesOf(e, r) = n, StateOf(e, r) = "open", SeenAs(e, r, n, status)
    PROVE  Promise!Conclude(e, r)
<1>1. /\ States[e][r] = "open" /\ Tries' = Tries
      /\ States' = [States EXCEPT ![e][r] = status]
    BY SeenAsGives
<1> QED BY <1>1, ConcludeIs

LEMMA DropIsPromised ==
    ASSUME RowsOrdered, Drops PROVE Promise!Drop
<1>1. /\ \A x \in DroppedRuns : States[x[1]][x[2]] = "open"
      /\ DroppedRuns \in SUBSET ((Event \ Mailed) \X Run)
    BY DropKeeps DEF States, DroppedRuns
<1>2. /\ States' = [d \in Event |-> [q \in Run |->
                     IF <<d, q>> \in DroppedRuns THEN "dropped" ELSE States[d][q]]]
      /\ Tries' = Tries
    BY DropKeeps DEF States, Tries
<1> QED BY <1>1, <1>2 DEF Promise!Drop, Tries, States

-----------------------------------------------------------------------------
(***************************************************************************)
(* What a step keeps besides the rows.                                     *)
(***************************************************************************)
LEMMA StatusIs ==
    ASSUME NEW a \in Attempt PROVE Status(a) = Of(EventOf(a), RunOf(a), NumberOf(a))
<1>1. a = <<EventOf(a), RunOf(a), NumberOf(a)>>
    BY AttemptIs
<1> QED BY <1>1 DEF Of

LEMMA NextIs ==
    ASSUME NEW a \in Attempt, NumberOf(a) < MaxAttempts
    PROVE  /\ NumberOf(a) + 1 \in 1 .. MaxAttempts
           /\ NextAttempt(a) = <<EventOf(a), RunOf(a), NumberOf(a) + 1>>
           /\ NextAttempt(a) \in Attempt
           /\ Status(NextAttempt(a)) = Of(EventOf(a), RunOf(a), NumberOf(a) + 1)
<1>1. NumberOf(a) + 1 \in 1 .. MaxAttempts
    BY AttemptIs, Bounds
<1> QED BY <1>1, AttemptIs, IsAttempt DEF NextAttempt, Of

\* The statement that writes one row.
LEMMA Writes ==
    ASSUME Typed, NEW a \in Attempt, NEW status \in Statuses, NEW by \in Sender \cup {None},
           row' = [row EXCEPT ![a] = [status |-> status, by |-> by]]
    PROVE  /\ row' \in [Attempt -> RowRec]
           /\ Only(EventOf(a), RunOf(a), NumberOf(a), status)
<1>1. [status |-> status, by |-> by] \in RowRec
    BY DEF RowRec
<1>2. row' \in [Attempt -> RowRec]
    BY <1>1 DEF Typed
<1>3. ASSUME NEW d \in Event, NEW q \in Run, NEW k \in 1 .. MaxAttempts
      PROVE  Of(d, q, k)' = IF d = EventOf(a) /\ q = RunOf(a) /\ k = NumberOf(a)
                            THEN status ELSE Of(d, q, k)
  <2>1. <<d, q, k>> \in Attempt
      BY IsAttempt
  <2>2. <<d, q, k>> = a <=> d = EventOf(a) /\ q = RunOf(a) /\ k = NumberOf(a)
      BY AttemptIs, IsAttempt
  <2>3. row'[<<d, q, k>>] = IF <<d, q, k>> = a THEN [status |-> status, by |-> by]
                            ELSE row[<<d, q, k>>]
      BY <2>1 DEF Typed
  <2> QED BY <2>2, <2>3 DEF Of, Status
<1> QED BY <1>2, <1>3 DEF Only

LEMMA SameRows ==
    ASSUME row' = row PROVE Alike
    BY DEF Alike, Of, Status

\* One sender goes on.
LEMMA SenderGoes ==
    ASSUME Typed, NEW s \in Sender, NEW x \in SendRec, x.at # "idle" => x.attempt \in Attempt,
           send' = [send EXCEPT ![s] = x]
    PROVE  /\ send' \in [Sender -> SendRec]
           /\ \A o \in Sender : send'[o] = IF o = s THEN x ELSE send[o]
           /\ \A o \in Sender : send'[o].at # "idle" => send'[o].attempt \in Attempt
<1>1. send' \in [Sender -> SendRec] /\ \A o \in Sender : send'[o] = IF o = s THEN x ELSE send[o]
    BY DEF Typed
<1> QED BY <1>1 DEF Typed

LEMMA NoSendIs == NoSend \in SendRec /\ NoSend.at = "idle"
    BY DEF NoSend, SendRec

LEMMA UnpublishedKeeps ==
    ASSUME Unpublished, NEW D, AbsentStay(D), published \subseteq published',
           \A x \in D : x[1] \in published'
    PROVE  Unpublished'
<1> SUFFICES ASSUME NEW e \in Event \ published', NEW r \in Run, NEW n \in 1 .. MaxAttempts
             PROVE  Of(e, r, n)' = "absent"
    BY DEF Unpublished
<1>1. <<e, r, n>> \notin D
  <2>1. <<e, r, n>>[1] = e
      OBVIOUS
  <2> QED BY <2>1
<1> QED BY <1>1 DEF Unpublished, AbsentStay

LEMMA ReplayableKeeps ==
    ASSUME Grows, NEW e, NEW r, Replayable(e, r) PROVE Replayable(e, r)'
<1>1. e \in Event /\ r \in Run /\ r > 1 /\ 1 \in 1 .. MaxAttempts
      /\ \A q \in 1 .. (r - 1) : q \in Run
    BY Bounds DEF Replayable
<1>2. \A q \in 1 .. (r - 1) : Of(e, q, 1)' # "absent"
    BY <1>1 DEF Replayable, Grows
<1>3. \E q \in 1 .. (r - 1), n \in 1 .. MaxAttempts : Of(e, q, n)' = "dead"
  <2>1. PICK q \in 1 .. (r - 1), n \in 1 .. MaxAttempts : Of(e, q, n) = "dead"
      BY DEF Replayable
  <2>2. Of(e, q, n)' = "dead"
      BY <1>1, <2>1 DEF Grows
  <2> QED BY <2>2
<1> QED BY <1>1, <1>2, <1>3 DEF Replayable

LEMMA ReplaysKeep ==
    ASSUME Grows, \A o \in Operator : replay'[o] # NoReplay =>
                    Replayable(replay'[o].event, replay'[o].run)
    PROVE  Replays'
<1> SUFFICES ASSUME NEW o \in Operator, replay'[o] # NoReplay
             PROVE  Replayable(replay[o].event, replay[o].run)'
    BY DEF Replays
<1>1. PICK e \in Event, r \in Run : e = replay'[o].event /\ r = replay'[o].run
    BY DEF Replayable
<1>2. Replayable(e, r)'
    BY <1>1, ReplayableKeeps
<1> QED BY <1>1, <1>2 DEF Replayable

\* Those that owe a retry go on owing it: nothing else appends the next attempt.
LEMMA OwesKeeps ==
    ASSUME Grows, NEW D, AbsentStay(D), NEW a \in Attempt, Owes(a), NextAttempt(a) \notin D
    PROVE  Owes(a)'
<1>1. /\ EventOf(a) \in Event /\ RunOf(a) \in Run /\ NumberOf(a) \in 1 .. MaxAttempts
      /\ NumberOf(a) + 1 \in 1 .. MaxAttempts /\ NumberOf(a) < MaxAttempts
      /\ NextAttempt(a) = <<EventOf(a), RunOf(a), NumberOf(a) + 1>>
      /\ a = <<EventOf(a), RunOf(a), NumberOf(a)>>
      /\ Of(EventOf(a), RunOf(a), NumberOf(a)) = "failed"
      /\ Of(EventOf(a), RunOf(a), NumberOf(a) + 1) = "absent"
    BY AttemptIs, NextIs, StatusIs DEF Owes
<1>2. /\ Of(EventOf(a), RunOf(a), NumberOf(a))' = "failed"
      /\ Of(EventOf(a), RunOf(a), NumberOf(a) + 1)' = "absent"
    BY <1>1 DEF Grows, AbsentStay
<1>3. Status(a)' = "failed" /\ Status(NextAttempt(a))' = "absent"
    BY <1>1, <1>2 DEF Of, Status
<1> QED BY <1>1, <1>3 DEF Owes

LEMMA RetriesKeep ==
    ASSUME Typed, RetriesAreOwned, Grows, NEW D, AbsentStay(D),
           \A s \in Sender : Retrying(s)' =>
             send'[s] = send[s] /\ NextAttempt(send[s].attempt) \notin D
    PROVE  RetriesAreOwned'
<1>1. ASSUME NEW s \in Sender, Retrying(s)'
      PROVE  Retrying(s) /\ send'[s] = send[s] /\ Owes(send[s].attempt)'
  <2>1. Retrying(s) /\ send'[s] = send[s]
      BY <1>1 DEF Retrying
  <2>2. PICK a \in Attempt : a = send[s].attempt
      BY <2>1 DEF Typed, Retrying
  <2>3. Owes(a) /\ NextAttempt(a) \notin D
      BY <1>1, <2>1, <2>2 DEF RetriesAreOwned
  <2>4. Owes(a)'
      BY <2>3, OwesKeeps
  <2>5. send'[s].attempt = a
      BY <2>1, <2>2
  <2>6. Owes(send[s].attempt)'
      BY <2>4, <2>5 DEF Owes
  <2> QED BY <2>1, <2>6
<1>2. \A s, o \in Sender : Retrying(s)' /\ Retrying(o)' /\ send'[s].attempt = send'[o].attempt => s = o
    BY <1>1 DEF RetriesAreOwned
<1> QED BY <1>1, <1>2 DEF RetriesAreOwned, Retrying

-----------------------------------------------------------------------------
(***************************************************************************)
(* The steps of the queue.                                                 *)
(***************************************************************************)
Promised == Promise!Next \/ UNCHANGED Promise!vars

LEMMA InitHolds == Init => IInv /\ Promise!Init
<1> SUFFICES ASSUME Init PROVE IInv /\ Promise!Init
    OBVIOUS
<1>1. Typed
  <2>1. [status |-> "absent", by |-> None] \in RowRec /\ NoReplay \in ReplayRec
      BY Bounds DEF RowRec, Statuses, NoReplay, ReplayRec
  <2> QED BY <2>1, NoSendIs DEF Init, Typed
<1>2. ASSUME NEW e \in Event, NEW r \in Run, NEW n \in 1 .. MaxAttempts
      PROVE  Of(e, r, n) = "absent"
    BY IsAttempt DEF Init, Of, Status
<1>3. ASSUME NEW e \in Event, NEW r \in Run PROVE Chain(e, r, 0)
    BY <1>2, Bounds DEF Chain
<1>4. 0 \in 0 .. MaxAttempts /\ 1 \in 1 .. MaxAttempts /\ MaxAttempts \in 1 .. MaxAttempts
    BY Bounds
<1>5. RowsOrdered
    BY <1>2, <1>3, <1>4 DEF RowsOrdered, InOrder, InBudget, RunsInOrder
<1>6. Unpublished /\ Replays /\ RetriesAreOwned
    BY <1>2 DEF Init, Unpublished, Replays, RetriesAreOwned, Retrying, NoSend
<1>7. \A e \in Event, r \in Run : TriesOf(e, r) = 0 /\ StateOf(e, r) = "none"
    BY <1>3, <1>4, ChainGives
<1>8. Promise!Init
    BY <1>7 DEF Promise!Init
<1> QED BY <1>1, <1>5, <1>6, <1>8 DEF IInv

\* A step that claims or releases at most, and begins no retry.
LEMMA QuietKeeps ==
    ASSUME IInv, Alike, row' \in [Attempt -> RowRec], UNCHANGED <<published, replay>>,
           send' \in [Sender -> SendRec],
           \A s \in Sender : send'[s].at # "idle" => send'[s].attempt \in Attempt,
           \A s \in Sender : Retrying(s)' => send'[s] = send[s]
    PROVE  IInv' /\ Promised
<1>1. RowsOrdered' /\ Grows /\ AbsentStay({}) /\ Unseen
    BY AlikeKeeps DEF IInv
<1>2. Typed'
    BY DEF IInv, Typed
<1>3. Unpublished'
    BY <1>1, UnpublishedKeeps DEF IInv
<1>4. Replays'
    BY <1>1, ReplaysKeep DEF IInv, Replays
<1>5. RetriesAreOwned'
    BY <1>1, RetriesKeep DEF IInv
<1>6. Promised
    BY <1>1, UnseenStutters DEF Promised
<1> QED BY <1>1, <1>2, <1>3, <1>4, <1>5, <1>6 DEF IInv

\* The same of one sender that goes on.
LEMMA QuietSender ==
    ASSUME IInv, Alike, row' \in [Attempt -> RowRec], UNCHANGED <<published, replay>>,
           NEW s \in Sender, NEW x \in SendRec, send' = [send EXCEPT ![s] = x],
           x.at # "idle" => x.attempt \in Attempt, x.at # "retrying"
    PROVE  IInv' /\ Promised
<1>1. /\ send' \in [Sender -> SendRec]
      /\ \A o \in Sender : send'[o] = IF o = s THEN x ELSE send[o]
      /\ \A o \in Sender : send'[o].at # "idle" => send'[o].attempt \in Attempt
    BY SenderGoes DEF IInv
<1>2. \A o \in Sender : Retrying(o)' => send'[o] = send[o]
    BY <1>1 DEF Retrying
<1> QED BY <1>1, <1>2, QuietKeeps

\* A claim, and a release, of what is under way.
LEMMA ClaimIsAlike ==
    ASSUME Typed, NEW a \in Attempt, IsOpen(a), NEW status \in {"pending", "sending"},
           NEW by \in Sender \cup {None}, row' = [row EXCEPT ![a] = [status |-> status, by |-> by]]
    PROVE  row' \in [Attempt -> RowRec] /\ Alike
<1>1. row' \in [Attempt -> RowRec] /\ Only(EventOf(a), RunOf(a), NumberOf(a), status)
    BY Writes DEF Statuses
<1>2. Of(EventOf(a), RunOf(a), NumberOf(a)) \in {"pending", "sending"}
    BY StatusIs DEF IsOpen
<1> QED BY <1>1, <1>2 DEF Only, Alike

LEMMA ClaimKeeps ==
    ASSUME IInv, NEW s \in Sender, NEW a \in Attempt, Claim(s, a) PROVE IInv' /\ Promised
<1>1. IsOpen(a)
    BY DEF Claim, Claimable, Due, Pending, IsOpen
<1>2. row' \in [Attempt -> RowRec] /\ Alike
    BY <1>1, ClaimIsAlike DEF Claim, IInv
<1>3. /\ Starts(a) \in SendRec /\ Starts(a).attempt \in Attempt /\ Starts(a).at # "retrying"
      /\ send' = [send EXCEPT ![s] = Starts(a)]
    BY DEF Starts, SendRec, Claim, SetSend
<1> QED BY <1>2, <1>3, QuietSender DEF Claim

LEMMA ClaimRaisesKeeps ==
    ASSUME IInv, NEW a \in Attempt, ClaimRaises(a) PROVE IInv' /\ Promised
<1>1. IsOpen(a)
    BY DEF ClaimRaises, Due, Pending, IsOpen
<1>2. row' \in [Attempt -> RowRec] /\ Alike
    BY <1>1, ClaimIsAlike DEF ClaimRaises, SetStatus, IInv
<1> QED BY <1>2, QuietKeeps DEF ClaimRaises, IInv, Typed, Retrying

LEMMA CrashKeeps ==
    ASSUME IInv, NEW p \in Process, Crash(p) PROVE IInv' /\ Promised
<1>1. Alike /\ row' \in [Attempt -> RowRec]
    BY SameRows DEF Crash, IInv, Typed
<1>2. \A s \in Sender : send'[s] = IF s[1] = p THEN NoSend ELSE send[s]
    BY DEF Crash
<1>3. send' \in [Sender -> SendRec]
    BY NoSendIs DEF Crash, IInv, Typed
<1>4. /\ \A s \in Sender : send'[s].at # "idle" => send'[s].attempt \in Attempt
      /\ \A s \in Sender : Retrying(s)' => send'[s] = send[s]
    BY <1>2, NoSendIs DEF IInv, Typed, Retrying
<1> QED BY <1>1, <1>3, <1>4, QuietKeeps DEF Crash

LEMMA RaisesKeeps ==
    ASSUME IInv, NEW s \in Sender, Raises(s) PROVE IInv' /\ Promised
<1>1. Alike /\ row' \in [Attempt -> RowRec]
    BY SameRows DEF Raises, IInv, Typed
<1> QED BY <1>1, NoSendIs, QuietSender DEF Raises, SetSend

LEMMA GoesIs ==
    ASSUME Typed, NEW s \in Sender, NEW at \in {"sending", "burying", "releasing"},
           send[s].at # "idle"
    PROVE  /\ [send[s] EXCEPT !.at = at] \in SendRec
           /\ [send[s] EXCEPT !.at = at].attempt \in Attempt
           /\ [send[s] EXCEPT !.at = at].at = at
<1>1. send[s] \in SendRec /\ send[s].attempt \in Attempt
    BY DEF Typed
<1> QED BY <1>1 DEF SendRec

LEMMA ReadsSubscriptionKeeps ==
    ASSUME IInv, NEW s \in Sender, ReadsSubscription(s) PROVE IInv' /\ Promised
<1>1. Alike /\ row' \in [Attempt -> RowRec]
    BY SameRows DEF ReadsSubscription, IInv, Typed
<1>2. PICK at \in {"sending", "burying", "releasing"} : send' = [send EXCEPT ![s] = [send[s] EXCEPT !.at = at]]
  <2>1. CASE sub = "active"
      BY <2>1 DEF ReadsSubscription, Goes, SetSend
  <2>2. CASE sub = "deleted"
      BY <2>2 DEF ReadsSubscription, Goes, SetSend
  <2>3. CASE sub \notin {"active", "deleted"}
      BY <2>3 DEF ReadsSubscription, Goes, SetSend
  <2> QED BY <2>1, <2>2, <2>3
<1>3. send[s].at # "idle"
    BY DEF ReadsSubscription
<1> QED BY <1>1, <1>2, <1>3, GoesIs, QuietSender DEF ReadsSubscription, IInv

LEMMA AnswerIs ==
    ASSUME NEW y \in SendRec, NEW ok \in BOOLEAN
    PROVE  LET x == [y EXCEPT !.at = "recording", !.ok = ok]
           IN  x \in SendRec /\ x.attempt = y.attempt /\ x.at = "recording"
<1>1. CASE ok = TRUE
    BY <1>1 DEF SendRec
<1>2. CASE ok = FALSE
    BY <1>2 DEF SendRec
<1> QED BY <1>1, <1>2

LEMMA SendsKeeps ==
    ASSUME IInv, NEW s \in Sender, Sends(s) PROVE IInv' /\ Promised
<1>1. Alike /\ row' \in [Attempt -> RowRec] /\ UNCHANGED <<published, replay>>
    BY SameRows DEF Sends, IInv, Typed
<1>2. send[s] \in SendRec /\ send[s].attempt \in Attempt /\ send[s].at # "idle"
    BY DEF Sends, IInv, Typed
<1>3. CASE \E ok \in BOOLEAN : SetSend(s, [send[s] EXCEPT !.at = "recording", !.ok = ok])
  <2>1. PICK ok \in BOOLEAN : SetSend(s, [send[s] EXCEPT !.at = "recording", !.ok = ok])
      BY <1>3
  <2> DEFINE x == [send[s] EXCEPT !.at = "recording", !.ok = ok]
  <2>3. x \in SendRec /\ x.attempt \in Attempt /\ x.at = "recording"
      BY <1>2, AnswerIs
  <2>4. send' = [send EXCEPT ![s] = x]
      BY <2>1 DEF SetSend
  <2> HIDE DEF x
  <2> QED BY <1>1, <2>3, <2>4, QuietSender
<1>4. CASE Goes(s, "burying")
  <2>1. send' = [send EXCEPT ![s] = [send[s] EXCEPT !.at = "burying"]]
      BY <1>4 DEF Goes, SetSend
  <2> QED BY <1>1, <1>2, <2>1, GoesIs, QuietSender DEF IInv
<1> QED BY <1>3, <1>4 DEF Sends

LEMMA ReleasesKeeps ==
    ASSUME IInv, NEW s \in Sender, Releases(s) PROVE IInv' /\ Promised
<1> DEFINE a == send[s].attempt
<1>1. a \in Attempt
    BY DEF Releases, IInv, Typed
<1>2. row' \in [Attempt -> RowRec] /\ Alike
  <2>1. CASE Status(a) = "sending"
    <3>1. IsOpen(a) /\ row' = [row EXCEPT ![a] = [status |-> "pending", by |-> None]]
        BY <2>1 DEF Releases, SetStatus, IsOpen
    <3> QED BY <1>1, <3>1, ClaimIsAlike DEF IInv
  <2>2. CASE Status(a) # "sending"
    <3>1. row' = row
        BY <2>2 DEF Releases
    <3> QED BY <3>1, SameRows DEF IInv, Typed
  <2> QED BY <2>1, <2>2
<1> QED BY <1>2, NoSendIs, QuietSender DEF Releases, SetSend

\* An attempt gets an outcome that is final.
LEMMA Concludes ==
    ASSUME IInv, NEW s \in Sender, NEW a \in Attempt, IsOpen(a),
           NEW status \in {"succeeded", "dead"}, SetStatus(a, status), SetSend(s, NoSend),
           UNCHANGED <<published, replay>>
    PROVE  IInv' /\ Promised
<1> DEFINE e == EventOf(a)
           r == RunOf(a)
           n == NumberOf(a)
<1>1. row' \in [Attempt -> RowRec] /\ Only(e, r, n, status)
    BY Writes DEF IInv, SetStatus, Statuses
<1>2. /\ e \in Event /\ r \in Run /\ n \in 1 .. MaxAttempts
      /\ Of(e, r, n) \in {"pending", "sending"}
    BY AttemptIs, StatusIs DEF IsOpen
<1> HIDE DEF e, r, n
<1>3. /\ RowsOrdered' /\ Grows /\ AbsentStay({})
      /\ TriesOf(e, r) = n /\ StateOf(e, r) = "open" /\ SeenAs(e, r, n, status)
    BY <1>1, <1>2, EndKeeps DEF IInv
<1>4. /\ send' \in [Sender -> SendRec] /\ \A o \in Sender : send'[o] = IF o = s THEN NoSend ELSE send[o]
      /\ \A o \in Sender : send'[o].at # "idle" => send'[o].attempt \in Attempt
    BY NoSendIs, SenderGoes DEF IInv, SetSend
<1>5. Typed'
    BY <1>1, <1>4 DEF IInv, Typed
<1>6. Unpublished' /\ Replays'
    BY <1>3, UnpublishedKeeps, ReplaysKeep DEF IInv, Replays
<1>7. RetriesAreOwned'
    BY <1>3, <1>4, NoSendIs, RetriesKeep DEF IInv, Retrying
<1>8. Promised
    BY <1>2, <1>3, EndIsPromised DEF Promised, Promise!Next
<1> QED BY <1>3, <1>5, <1>6, <1>7, <1>8 DEF IInv

\* A step of a sender that writes nothing, and stops.
LEMMA StopsKeeps ==
    ASSUME IInv, NEW s \in Sender, SetSend(s, NoSend), UNCHANGED <<row, published, replay>>
    PROVE  IInv' /\ Promised
<1>1. Alike /\ row' \in [Attempt -> RowRec]
    BY SameRows DEF IInv, Typed
<1> QED BY <1>1, NoSendIs, QuietSender DEF SetSend

LEMMA BuriesKeeps ==
    ASSUME IInv, NEW s \in Sender, Buries(s) PROVE IInv' /\ Promised
<1>1. send[s].attempt \in Attempt
    BY DEF Buries, IInv, Typed
<1>2. CASE IsOpen(send[s].attempt)
  <2>1. SetStatus(send[s].attempt, "dead")
      BY <1>2 DEF Buries, Complete, Completable
  <2> QED BY <1>1, <1>2, <2>1, Concludes DEF Buries
<1>3. CASE ~IsOpen(send[s].attempt)
    BY <1>3, StopsKeeps DEF Buries, Complete, Completable
<1> QED BY <1>2, <1>3

\* The outcome of an attempt that will be retried, by the sender that owes it.
LEMMA FailsKeeps ==
    ASSUME IInv, NEW s \in Sender, NEW a \in Attempt, a = send[s].attempt, IsOpen(a),
           NumberOf(a) < MaxAttempts, SetStatus(a, "failed"), Goes(s, "retrying"),
           send[s].at # "idle", UNCHANGED <<published, replay>>
    PROVE  IInv' /\ Promised
<1> DEFINE e == EventOf(a)
           r == RunOf(a)
           n == NumberOf(a)
           x == [send[s] EXCEPT !.at = "retrying"]
<1>1. row' \in [Attempt -> RowRec] /\ Only(e, r, n, "failed")
    BY Writes DEF IInv, SetStatus, Statuses
<1>2. /\ e \in Event /\ r \in Run /\ n \in 1 .. MaxAttempts /\ n + 1 \in 1 .. MaxAttempts
      /\ n < MaxAttempts /\ n \in Nat
      /\ Of(e, r, n) \in {"pending", "sending"} /\ a = <<e, r, n>>
      /\ NextAttempt(a) = <<e, r, n + 1>> /\ n = NumberOf(a)
    BY AttemptIs, StatusIs, NextIs DEF IsOpen
<1>3. send[s] \in SendRec
    BY DEF IInv, Typed
<1>4. x \in SendRec /\ x.attempt = a /\ x.at = "retrying" /\ send' = [send EXCEPT ![s] = x]
    BY <1>3 DEF SendRec, Goes, SetSend
<1> HIDE DEF e, r, n, x
<1>5. /\ RowsOrdered' /\ Grows /\ AbsentStay({})
      /\ TriesOf(e, r) = n /\ StateOf(e, r) = "open" /\ SeenAs(e, r, n, "open")
    BY <1>1, <1>2, EndKeeps DEF IInv
<1>6. /\ send' \in [Sender -> SendRec] /\ \A o \in Sender : send'[o] = IF o = s THEN x ELSE send[o]
      /\ \A o \in Sender : send'[o].at # "idle" => send'[o].attempt \in Attempt
    BY <1>4, SenderGoes DEF IInv
<1>7. Typed'
    BY <1>1, <1>6 DEF IInv, Typed
<1>8. Unpublished' /\ Replays'
    BY <1>5, UnpublishedKeeps, ReplaysKeep DEF IInv, Replays
<1>9. Owes(a)'
  <2>1. Chain(e, r, n)
      BY <1>2, LastIs DEF IInv, RowsOrdered
  <2>2. Of(e, r, n + 1) = "absent" /\ n + 1 # n
      BY <1>2, <2>1 DEF Chain
  <2>3. Of(e, r, n)' = "failed" /\ Of(e, r, n + 1)' = "absent"
      BY <1>1, <1>2, <2>2 DEF Only
  <2>4. Status(a)' = "failed" /\ Status(NextAttempt(a))' = "absent"
      BY <1>2, <2>3 DEF Of, Status
  <2> QED BY <1>2, <2>4 DEF Owes
<1>10. \A o \in Sender : o # s /\ Retrying(o)' =>
          /\ Retrying(o) /\ send'[o] = send[o]
          /\ send[o].attempt \in Attempt /\ Owes(send[o].attempt)
          /\ Status(send[o].attempt) = "failed" /\ send[o].attempt # a
    BY <1>6 DEF IInv, Typed, Retrying, RetriesAreOwned, Owes, IsOpen
<1>11. ASSUME NEW o \in Sender, Retrying(o)' PROVE Owes(send[o].attempt)'
  <2>1. CASE o = s
    <3>1. send'[o].attempt = a
        BY <1>4, <1>6, <2>1
    <3> QED BY <1>9, <3>1 DEF Owes
  <2>2. CASE o # s
    <3>1. PICK b \in Attempt : b = send[o].attempt /\ send'[o].attempt = b /\ Owes(b)
        BY <1>10, <1>11, <2>2
    <3>2. Owes(b)'
        BY <1>5, <3>1, OwesKeeps
    <3> QED BY <3>1, <3>2 DEF Owes
  <2> QED BY <2>1, <2>2
<1>12. \A o, q \in Sender : Retrying(o)' /\ Retrying(q)' /\ send'[o].attempt = send'[q].attempt => o = q
  <2> SUFFICES ASSUME NEW o \in Sender, NEW q \in Sender, Retrying(o)', Retrying(q)',
                      send'[o].attempt = send'[q].attempt
               PROVE  o = q
      OBVIOUS
  <2>1. send'[s].attempt = a
      BY <1>4, <1>6
  <2>2. CASE o = s \/ q = s
      BY <1>10, <2>1, <2>2
  <2>3. CASE o # s /\ q # s
      BY <1>10, <2>3 DEF IInv, RetriesAreOwned
  <2> QED BY <2>2, <2>3
<1>13. RetriesAreOwned'
    BY <1>11, <1>12 DEF RetriesAreOwned
<1>14. Promised
  <2>1. Unseen
      BY <1>5 DEF SeenAs, Unseen
  <2> QED BY <2>1, UnseenStutters DEF Promised
<1> QED BY <1>5, <1>7, <1>8, <1>13, <1>14 DEF IInv

LEMMA RecordsKeeps ==
    ASSUME IInv, NEW s \in Sender, Records(s) PROVE IInv' /\ Promised
<1> DEFINE a == send[s].attempt
<1>1. a \in Attempt /\ send[s].at # "idle" /\ UNCHANGED <<published, replay>>
    BY DEF Records, IInv, Typed
<1>2. CASE IsOpen(a)
  <2>1. SetStatus(a, Outcome(s))
      BY <1>2 DEF Records, Complete, Completable
  <2>2. CASE Outcome(s) = "failed"
    <3>1. NumberOf(a) < MaxAttempts
        BY <1>1, <2>2, AttemptIs, Bounds DEF Outcome
    <3>2. Goes(s, "retrying")
        BY <1>2, <2>2 DEF Records, Completable
    <3> QED BY <1>1, <1>2, <2>1, <2>2, <3>1, <3>2, FailsKeeps
  <2>3. CASE Outcome(s) # "failed"
    <3>1. Outcome(s) \in {"succeeded", "dead"}
        BY <2>3 DEF Outcome
    <3>2. SetSend(s, NoSend)
        BY <2>3 DEF Records
    <3> QED BY <1>1, <1>2, <2>1, <3>1, <3>2, Concludes
  <2> QED BY <2>2, <2>3
<1>3. CASE ~IsOpen(a)
    BY <1>3, StopsKeeps DEF Records, Complete, Completable
<1> QED BY <1>2, <1>3

LEMMA RetriesKeeps ==
    ASSUME IInv, NEW s \in Sender, Retries(s) PROVE IInv' /\ Promised
<1>1. PICK a \in Attempt : a = send[s].attempt
    BY DEF Retries, IInv, Typed
<1>2. Owes(a) /\ Retrying(s)
    BY <1>1 DEF Retries, IInv, RetriesAreOwned, Retrying
<1> DEFINE e == EventOf(a)
           r == RunOf(a)
           n == NumberOf(a)
           b == NextAttempt(a)
<1>3. /\ e \in Event /\ r \in Run /\ n \in 1 .. MaxAttempts /\ n + 1 \in 1 .. MaxAttempts
      /\ b = <<e, r, n + 1>> /\ b \in Attempt /\ n \in Nat
      /\ Of(e, r, n) = "failed" /\ Of(e, r, n + 1) = "absent"
    BY <1>2, AttemptIs, StatusIs, NextIs DEF Owes
<1>4. row' = [row EXCEPT ![b] = [status |-> "pending", by |-> None]]
    BY <1>1, <1>2 DEF Retries, Insert, Exists, Owes
<1>5. EventOf(b) = e /\ RunOf(b) = r /\ NumberOf(b) = n + 1
    BY <1>3, IsAttempt
<1> HIDE DEF e, r, n, b
<1>6. row' \in [Attempt -> RowRec] /\ Only(e, r, n + 1, "pending")
    BY <1>3, <1>4, <1>5, Writes DEF IInv, Statuses
<1>7. /\ RowsOrdered' /\ Grows /\ AbsentStay({b})
      /\ TriesOf(e, r) = n /\ StateOf(e, r) = "open" /\ SeenAs(e, r, n + 1, "open")
    BY <1>3, <1>6, RetryKeeps DEF IInv
<1>8. /\ send' \in [Sender -> SendRec] /\ \A o \in Sender : send'[o] = IF o = s THEN NoSend ELSE send[o]
      /\ \A o \in Sender : send'[o].at # "idle" => send'[o].attempt \in Attempt
    BY NoSendIs, SenderGoes DEF IInv, Retries, SetSend
<1>9. Typed'
    BY <1>6, <1>8 DEF IInv, Typed, Retries
<1>10. Unpublished' /\ Replays'
  <2>1. e \in published
      BY <1>3 DEF IInv, Unpublished
  <2>2. \A y \in {b} : y[1] \in published'
      BY <1>3, <2>1 DEF Retries
  <2>3. UNCHANGED <<published, replay>>
      BY DEF Retries
  <2>4. Unpublished'
      BY <1>7, <2>2, <2>3, UnpublishedKeeps DEF IInv
  <2>5. Replays'
      BY <1>7, <2>3, ReplaysKeep DEF IInv, Replays
  <2> QED BY <2>4, <2>5
<1>11. ASSUME NEW o \in Sender, Retrying(o)'
       PROVE  send'[o] = send[o] /\ NextAttempt(send[o].attempt) \notin {b}
  <2>1. o # s /\ send'[o] = send[o] /\ Retrying(o)
      BY <1>8, <1>11, NoSendIs DEF Retrying
  <2>2. PICK c \in Attempt : c = send[o].attempt
      BY <2>1 DEF IInv, Typed, Retrying
  <2>3. c # a
      BY <1>1, <1>2, <2>1, <2>2 DEF IInv, RetriesAreOwned
  <2>4. NextAttempt(c) # NextAttempt(a)
      BY <2>3, AttemptIs DEF NextAttempt
  <2> QED BY <2>1, <2>2, <2>4 DEF b
<1>12. RetriesAreOwned'
    BY <1>7, <1>11, RetriesKeep DEF IInv
<1>13. Promised
    BY <1>3, <1>7, RetryIsPromised DEF Promised, Promise!Next
<1> QED BY <1>7, <1>9, <1>10, <1>12, <1>13 DEF IInv

\* The statement that appends the first attempt of a run.
LEMMA OpensKeeps ==
    ASSUME IInv, NEW e \in Event, NEW r \in Run, ~Exists(<<e, r, 1>>), Insert(<<e, r, 1>>),
           (r = 1 /\ Of(e, r, 1) = "absent") \/ Replayable(e, r),
           e \in published', published \subseteq published', published' \subseteq Event,
           send' = send, replay' \in [Operator -> ReplayRec],
           \A o \in Operator : replay'[o] # NoReplay => Replayable(replay'[o].event, replay'[o].run)
    PROVE  IInv' /\ Promised
<1> DEFINE a == <<e, r, 1>>
<1>1. 1 \in 1 .. MaxAttempts /\ r \in Nat
    BY Bounds
<1>2. a \in Attempt /\ EventOf(a) = e /\ RunOf(a) = r /\ NumberOf(a) = 1
    BY <1>1, IsAttempt
<1>3. Of(e, r, 1) \in {"absent", "dropped"}
    BY DEF Exists, Of
<1>4. row' = [row EXCEPT ![a] = [status |-> "pending", by |-> None]]
    BY DEF Insert
<1> HIDE DEF a
<1>5. row' \in [Attempt -> RowRec] /\ Only(e, r, 1, "pending")
    BY <1>2, <1>4, Writes DEF IInv, Statuses
<1>6. \A q \in 1 .. (r - 1) : Of(e, q, 1) # "absent"
  <2>1. CASE r = 1
      BY <2>1
  <2>2. CASE Replayable(e, r)
      BY <2>2 DEF Replayable
  <2> QED BY <2>1, <2>2
<1>7. /\ RowsOrdered' /\ Grows /\ AbsentStay({<<e, r, 1>>})
      /\ StateOf(e, r) = "none" \/ (StateOf(e, r) = "dropped" /\ TriesOf(e, r) = 1)
      /\ Of(e, r, 1) = "absent" => StateOf(e, r) = "none"
      /\ SeenAs(e, r, 1, "open")
    BY <1>3, <1>5, <1>6, OpenKeeps DEF IInv
<1>8. Typed'
    BY <1>5 DEF IInv, Typed
<1>9. Unpublished'
  <2>1. \A x \in {<<e, r, 1>>} : x[1] \in published'
      OBVIOUS
  <2> QED BY <1>7, <2>1, UnpublishedKeeps DEF IInv
<1>10. Replays'
    BY <1>7, ReplaysKeep
<1>11. ASSUME NEW s \in Sender, Retrying(s)'
       PROVE  send'[s] = send[s] /\ NextAttempt(send[s].attempt) \notin {<<e, r, 1>>}
  <2>1. Retrying(s)
      BY <1>11 DEF Retrying
  <2>2. PICK c \in Attempt : c = send[s].attempt
      BY <2>1 DEF IInv, Typed, Retrying
  <2>3. NumberOf(c) + 1 # 1
      BY AttemptIs
  <2>4. NextAttempt(c) # <<e, r, 1>>
      BY <2>3 DEF NextAttempt
  <2> QED BY <2>2, <2>4
<1>12. RetriesAreOwned'
    BY <1>7, <1>11, RetriesKeep DEF IInv
<1>13. Promise!Open(e, r)
    BY <1>7, OpenIsPromised DEF IInv
<1>14. Promised
    BY <1>13 DEF Promised, Promise!Next
<1> QED BY <1>7, <1>8, <1>9, <1>10, <1>12, <1>14 DEF IInv

\* A step that leaves the rows and the senders as they are.
LEMMA RestKeeps ==
    ASSUME IInv, UNCHANGED <<row, send>>, published \subseteq published', published' \subseteq Event,
           replay' \in [Operator -> ReplayRec],
           \A o \in Operator : replay'[o] # NoReplay => Replayable(replay'[o].event, replay'[o].run)
    PROVE  IInv' /\ Promised
<1>1. RowsOrdered' /\ Grows /\ AbsentStay({}) /\ Unseen
    BY SameRows, AlikeKeeps DEF IInv
<1>2. Typed'
    BY DEF IInv, Typed
<1>3. Unpublished' /\ Replays'
    BY <1>1, UnpublishedKeeps, ReplaysKeep DEF IInv
<1>4. RetriesAreOwned'
    BY <1>1, RetriesKeep DEF IInv, Retrying
<1>5. Promised
    BY <1>1, UnseenStutters DEF Promised
<1> QED BY <1>1, <1>2, <1>3, <1>4, <1>5 DEF IInv

LEMMA PublishKeeps ==
    ASSUME IInv, NEW e \in Event, Publish(e) PROVE IInv' /\ Promised
<1>1. /\ published' = published \cup {e} /\ e \in published' /\ send' = send /\ replay' = replay
      /\ published \subseteq Event /\ replay \in [Operator -> ReplayRec] /\ e \notin published
    BY DEF Publish, IInv, Typed
<1>2. published \subseteq published' /\ published' \subseteq Event
    BY <1>1
<1>3. \A o \in Operator : replay'[o] # NoReplay => Replayable(replay'[o].event, replay'[o].run)
    BY <1>1 DEF IInv, Replays
<1>4. CASE Insert(FirstAttempt(e))
  <2>1. 1 \in Run /\ 1 \in 1 .. MaxAttempts
      BY Bounds
  <2>2. Of(e, 1, 1) = "absent"
      BY <1>1, <2>1 DEF IInv, Unpublished
  <2>3. ~Exists(<<e, 1, 1>>)
      BY <2>2 DEF Exists, Of
  <2>4. Insert(<<e, 1, 1>>)
      BY <1>4 DEF FirstAttempt
  <2> QED BY <1>1, <1>2, <1>3, <2>1, <2>2, <2>3, <2>4, OpensKeeps
<1>5. CASE row' = row
    BY <1>1, <1>2, <1>3, <1>5, RestKeeps
<1> QED BY <1>4, <1>5 DEF Publish

LEMMA TransitionKeeps ==
    ASSUME IInv, NEW status, Transition(status) PROVE IInv' /\ Promised
<1>1. UNCHANGED <<row, published, send, replay>>
    BY DEF Transition
<1> QED BY <1>1, RestKeeps DEF IInv, Typed, Replays

LEMMA DropsKeeps ==
    ASSUME IInv, DropsQueue, UNCHANGED <<published, send, replay>> PROVE IInv' /\ Promised
<1>1. row' \in [Attempt -> RowRec]
  <2>1. [status |-> "dropped", by |-> None] \in RowRec
      BY DEF RowRec, Statuses
  <2>2. row \in [Attempt -> RowRec]
      BY DEF IInv, Typed
  <2> QED BY <2>1, <2>2 DEF DropsQueue
<1>2. Drops
  <2> SUFFICES ASSUME NEW d \in Event, NEW q \in Run, NEW k \in 1 .. MaxAttempts
               PROVE  Of(d, q, k)' = IF d \notin Mailed /\ Of(d, q, k) = "pending"
                                     THEN "dropped" ELSE Of(d, q, k)
      BY DEF Drops
  <2>1. <<d, q, k>> \in Attempt /\ EventOf(<<d, q, k>>) = d
      BY IsAttempt
  <2>2. <<d, q, k>> \in DroppedPending <=> d \notin Mailed /\ Of(d, q, k) = "pending"
      BY <2>1 DEF DroppedPending, Of
  <2> QED BY <2>1, <2>2 DEF DropsQueue, Of, Status
<1>3. RowsOrdered' /\ Grows /\ AbsentStay({})
    BY <1>2, DropKeeps DEF IInv
<1>4. Typed'
    BY <1>1 DEF IInv, Typed
<1>5. Unpublished' /\ Replays'
    BY <1>3, UnpublishedKeeps, ReplaysKeep DEF IInv, Replays
<1>6. RetriesAreOwned'
    BY <1>3, RetriesKeep DEF IInv, Retrying
<1>7. Promised
    BY <1>2, DropIsPromised DEF IInv, Promised, Promise!Next
<1> QED BY <1>3, <1>4, <1>5, <1>6, <1>7 DEF IInv

\* The run after the newest one of an event with a dead letter.
LEMMA LatestRunIs ==
    ASSUME IInv, NEW a \in Attempt, Status(a) = "dead"
    PROVE  /\ LatestRun(EventOf(a)) \in Run
           /\ LatestRun(EventOf(a)) < MaxRuns =>
                Replayable(EventOf(a), LatestRun(EventOf(a)) + 1)
<1> DEFINE e == EventOf(a)
           runs == {r \in Run : \E b \in Attempt : EventOf(b) = e /\ RunOf(b) = r /\ Exists(b)}
           L == CHOOSE r \in runs : \A q \in runs : q <= r
<1>1. /\ e \in Event /\ RunOf(a) \in Run /\ NumberOf(a) \in 1 .. MaxAttempts
      /\ Of(e, RunOf(a), NumberOf(a)) = "dead"
    BY AttemptIs, StatusIs
<1>2. RunOf(a) \in runs
    BY <1>1 DEF Exists
<1>3. runs \in SUBSET (0 .. MaxRuns) /\ MaxRuns \in Nat
    BY Bounds
<1>4. \E r \in runs : \A q \in runs : q <= r
    BY <1>2, <1>3, HasGreatest, Zenon
<1>5. L \in runs /\ \A q \in runs : q <= L
    BY <1>4, Zenon
<1>6. LatestRun(e) = L
    BY <1>2, Zenon DEF LatestRun
<1>7. L \in Run /\ RunOf(a) <= L
    BY <1>2, <1>5
<1>8. PICK b \in Attempt : EventOf(b) = e /\ RunOf(b) = L /\ Exists(b)
    BY <1>5
<1> HIDE DEF L, runs
<1>9. Of(e, L, NumberOf(b)) # "absent" /\ NumberOf(b) \in 1 .. MaxAttempts
    BY <1>8, AttemptIs, StatusIs DEF Exists
<1>10. Of(e, L, 1) # "absent" /\ \A q \in 1 .. (L - 1) : Of(e, q, 1) # "absent"
    BY <1>1, <1>7, <1>9, FirstExist DEF IInv
<1>11. ASSUME L < MaxRuns PROVE Replayable(e, L + 1)
  <2>1. /\ L \in Nat /\ L >= 1 /\ L + 1 \in Run /\ L + 1 > 1 /\ (L + 1) - 1 = L
        /\ RunOf(a) \in 1 .. L /\ \A q \in 1 .. L : q = L \/ q \in 1 .. (L - 1)
      BY <1>1, <1>7, <1>11, Bounds
  <2> QED BY <1>1, <1>10, <2>1 DEF Replayable
<1> QED BY <1>6, <1>7, <1>11

LEMMA ReplayReadsKeeps ==
    ASSUME IInv, NEW o \in Operator, ReplayReads(o) PROVE IInv' /\ Promised
<1>1. PICK a \in Attempt :
        /\ Status(a) = "dead" /\ LatestRun(EventOf(a)) < MaxRuns
        /\ replay' = [replay EXCEPT ![o] = [event |-> EventOf(a),
                                            run |-> LatestRun(EventOf(a)) + 1]]
    BY DEF ReplayReads
<1>2. PICK e \in Event, r \in Run :
        e = EventOf(a) /\ r = LatestRun(EventOf(a)) + 1 /\ Replayable(e, r)
    BY <1>1, LatestRunIs, AttemptIs DEF Replayable
<1>3. [event |-> e, run |-> r] \in ReplayRec
    BY Bounds DEF ReplayRec
<1>4. replay' = [replay EXCEPT ![o] = [event |-> e, run |-> r]]
    BY <1>1, <1>2
<1>5. replay' \in [Operator -> ReplayRec]
    BY <1>3, <1>4 DEF IInv, Typed
<1>6. ASSUME NEW q \in Operator, replay'[q] # NoReplay
      PROVE  Replayable(replay'[q].event, replay'[q].run)
  <2>1. CASE q = o
    <3>1. replay'[q].event = e /\ replay'[q].run = r
        BY <1>4, <2>1 DEF IInv, Typed
    <3> QED BY <1>2, <3>1
  <2>2. CASE q # o
    <3>1. replay'[q] = replay[q]
        BY <1>4, <2>2 DEF IInv, Typed
    <3> QED BY <1>6, <3>1 DEF IInv, Replays
  <2> QED BY <2>1, <2>2
<1> QED BY <1>5, <1>6, RestKeeps DEF ReplayReads, IInv, Typed

LEMMA ReplayAppendsKeeps ==
    ASSUME IInv, NEW o \in Operator, ReplayAppends(o) PROVE IInv' /\ Promised
<1>1. PICK e \in Event, r \in Run : e = replay[o].event /\ r = replay[o].run /\ Replayable(e, r)
    BY DEF ReplayAppends, IInv, Replays, Replayable
<1>2. /\ Insert(<<e, r, 1>>) /\ UNCHANGED <<published, send>>
      /\ replay' = [replay EXCEPT ![o] = NoReplay]
    BY <1>1 DEF ReplayAppends
<1>3. replay' \in [Operator -> ReplayRec]
  <2>1. NoReplay \in ReplayRec
      BY Bounds DEF NoReplay, ReplayRec
  <2> QED BY <1>2, <2>1 DEF IInv, Typed
<1>4. \A q \in Operator : replay'[q] # NoReplay => Replayable(replay'[q].event, replay'[q].run)
  <2>1. \A q \in Operator : replay'[q] # NoReplay => replay'[q] = replay[q]
      BY <1>2 DEF IInv, Typed
  <2> QED BY <2>1 DEF IInv, Replays
<1>5. e \in published
  <2>1. PICK q \in 1 .. (r - 1), n \in 1 .. MaxAttempts : Of(e, q, n) = "dead"
      BY <1>1 DEF Replayable
  <2>2. q \in Run
      BY Bounds
  <2> QED BY <2>1, <2>2 DEF IInv, Unpublished
<1>6. published' \subseteq Event
    BY <1>2 DEF IInv, Typed
<1>7. CASE Exists(<<e, r, 1>>)
  <2>1. row' = row
      BY <1>2, <1>7 DEF Insert
  <2> QED BY <1>2, <1>3, <1>4, <1>6, <2>1, RestKeeps
<1>8. CASE ~Exists(<<e, r, 1>>)
    BY <1>1, <1>2, <1>3, <1>4, <1>5, <1>6, <1>8, OpensKeeps
<1> QED BY <1>7, <1>8

LEMMA NextKeeps == IInv /\ [Next]_vars => IInv' /\ Promised
<1> SUFFICES ASSUME IInv, [Next]_vars PROVE IInv' /\ Promised
    OBVIOUS
<1>1. ASSUME NEW e \in Event, Publish(e) PROVE IInv' /\ Promised
    BY <1>1, PublishKeeps
<1>2. ASSUME NEW p \in Process, Crash(p) PROVE IInv' /\ Promised
    BY <1>2, CrashKeeps
<1>3. ASSUME NEW a \in Attempt, ClaimRaises(a) PROVE IInv' /\ Promised
    BY <1>3, ClaimRaisesKeeps
<1>4. ASSUME NEW s \in Sender, Performs(s) PROVE IInv' /\ Promised
    BY <1>4, ReadsSubscriptionKeeps, SendsKeeps, RecordsKeeps, RetriesKeeps, BuriesKeeps,
       ReleasesKeeps DEF Performs
<1>5. ASSUME NEW s \in Sender, Raises(s) PROVE IInv' /\ Promised
    BY <1>5, RaisesKeeps
<1>6. ASSUME NEW s \in Sender, NEW a \in Attempt, Claim(s, a) PROVE IInv' /\ Promised
    BY <1>6, ClaimKeeps
<1>7. CASE Transition("active") \/ Transition("paused")
    BY <1>7, TransitionKeeps
<1>8. CASE Disable \/ Delete
    BY <1>8, DropsKeeps DEF Disable, Delete
<1>9. ASSUME NEW o \in Operator, ReplayReads(o) \/ ReplayAppends(o) PROVE IInv' /\ Promised
    BY <1>9, ReplayReadsKeeps, ReplayAppendsKeeps
<1>10. CASE UNCHANGED vars
    BY <1>10, RestKeeps DEF vars, IInv, Typed, Replays
<1> QED BY <1>1, <1>2, <1>3, <1>4, <1>5, <1>6, <1>7, <1>8, <1>9, <1>10 DEF Next

-----------------------------------------------------------------------------
\* Always, the attempts of a run are numbered without a gap, all but the last
\* have failed and the last of the budget is dead, and the retry of a failed
\* attempt is owed by at most one sender: its claim may have lapsed and another
\* may have sent it again, but only the one whose outcome was written goes on.
THEOREM AttemptsAreOrdered == Spec => [](RowsOrdered /\ RetriesAreOwned)
<1>1. Init => IInv
    BY InitHolds
<1>2. IInv /\ [Next]_vars => IInv'
    BY NextKeeps
<1>3. IInv => RowsOrdered /\ RetriesAreOwned
    BY DEF IInv
<1> QED BY <1>1, <1>2, <1>3, PTL DEF Spec

\* The queue implements the promise: whatever claims lapse under their senders,
\* calls raise, processes crash, operators replay and subscriptions change, each
\* step opens, retries, concludes or drops runs as the module promises, or is
\* unseen by it.
THEOREM DeliveriesKeepThePromise == Spec => KeepsThePromise
<1>1. Init => IInv /\ Promise!Init
    BY InitHolds
<1>2. IInv /\ [Next]_vars => IInv' /\ [Promise!Next]_Promise!vars
    BY NextKeeps DEF Promised
<1> QED BY <1>1, <1>2, PTL DEF Spec, KeepsThePromise, Promise!Spec

-----------------------------------------------------------------------------
(***************************************************************************)
(* Requests are caused.  A run's budget of requests is its attempts and    *)
(* the troubles; against it count the requests made, the senders that may  *)
(* still make one, and the attempt a claim may yet take: pending, dropped, *)
(* or claimed by nobody who performs it.  A claim turns the last into a    *)
(* sender, a sender turns into a request, and only a trouble gives a claim *)
(* back that was spent.                                                    *)
(***************************************************************************)
MayRequest == {"reading", "sending", "releasing"}
Performing(s, e, r) == \E n \in 1 .. MaxAttempts : send[s].attempt = <<e, r, n>>
Ready(e, r) == {s \in Sender : send[s].at \in MayRequest /\ Performing(s, e, r)}
Waiting(a) == Status(a) \in {"pending", "dropped"} \/ (Status(a) = "sending" /\ ~Held(a))
Waits(e, r) == \E n \in 1 .. MaxAttempts : Waiting(<<e, r, n>>)
Claims(e, r) == IF Waits(e, r) THEN 1 ELSE 0

Counted ==
    /\ sent \in [Event -> [Run -> Nat]] /\ troubles \in Nat
    /\ \A e \in Event, r \in Run : IsFiniteSet(Ready(e, r))
Balanced == \A e \in Event, r \in Run :
    sent[e][r] + Cardinality(Ready(e, r)) + Claims(e, r) <= TriesOf(e, r) + troubles
BInv == IInv /\ Counted /\ Balanced

\* What a step does to the account of a run.
Rests(e, r) ==
    /\ sent'[e][r] = sent[e][r] /\ Ready(e, r)' \subseteq Ready(e, r)
    /\ \/ Waits(e, r)' => Waits(e, r)
       \/ troubles' = troubles + 1
       \/ \E n \in 1 .. MaxAttempts : Of(e, r, n) = "absent" /\ Of(e, r, n)' # "absent"
IsClaimed(e, r) ==
    /\ sent'[e][r] = sent[e][r] /\ ~Waits(e, r)' /\ \E s : Ready(e, r)' \subseteq Ready(e, r) \cup {s}
    /\ Waits(e, r) \/ troubles' = troubles + 1
IsSent(e, r) ==
    /\ sent'[e][r] = sent[e][r] + 1 /\ (Waits(e, r)' => Waits(e, r))
    /\ \E s \in Ready(e, r) : Ready(e, r)' \subseteq Ready(e, r) \ {s}
IsReleased(e, r) ==
    /\ sent'[e][r] = sent[e][r]
    /\ \E s \in Ready(e, r) : Ready(e, r)' \subseteq Ready(e, r) \ {s}
Accounted(e, r) == Rests(e, r) \/ IsClaimed(e, r) \/ IsSent(e, r) \/ IsReleased(e, r)
AllAccounted == \A e \in Event, r \in Run : Accounted(e, r)

\* Attempts that exist go on existing, so a run's tries never become fewer, and
\* an attempt that was absent is one more.
Lasts == \A a \in Attempt : row'[a] = row[a] \/ row'[a].status # "absent"

LEMMA TriesGrow ==
    ASSUME IInv, IInv', Lasts, NEW e \in Event, NEW r \in Run
    PROVE  /\ TriesOf(e, r) \in Nat /\ TriesOf(e, r)' \in Nat /\ TriesOf(e, r) <= TriesOf(e, r)'
           /\ (\E n \in 1 .. MaxAttempts : Of(e, r, n) = "absent" /\ Of(e, r, n)' # "absent") =>
                TriesOf(e, r) + 1 <= TriesOf(e, r)'
<1>1. PICK t \in 0 .. MaxAttempts : Chain(e, r, t)
    BY DEF IInv, RowsOrdered, InOrder
<1>2. PICK u \in 0 .. MaxAttempts : Chain(e, r, u)'
    BY DEF IInv, RowsOrdered, InOrder
<1>3. TriesOf(e, r) = t /\ TriesOf(e, r)' = u /\ t \in Nat /\ u \in Nat
    BY <1>1, <1>2, ChainGives, ChainGivesNext, Bounds
<1>4. \A n \in 1 .. MaxAttempts : Of(e, r, n) # "absent" => Of(e, r, n)' # "absent"
    BY IsAttempt DEF Lasts, Of, Status
<1>5. t <= u
  <2>1. CASE t = 0
      BY <1>3, <2>1
  <2>2. CASE t # 0
    <3>1. t \in 1 .. MaxAttempts /\ t <= t
        BY <2>2, Bounds
    <3> QED BY <1>1, <1>2, <1>4, <3>1 DEF Chain
  <2> QED BY <2>1, <2>2
<1>6. ASSUME NEW n \in 1 .. MaxAttempts, Of(e, r, n) = "absent", Of(e, r, n)' # "absent"
      PROVE  t + 1 <= u
  <2>1. ~(n <= t) /\ n <= u
      BY <1>1, <1>2, <1>6 DEF Chain
  <2> QED BY <1>3, <2>1, Bounds
<1> QED BY <1>3, <1>5, <1>6

LEMMA AccountsKeep ==
    ASSUME BInv, IInv', Lasts, sent' \in [Event -> [Run -> Nat]],
           troubles' \in {troubles, troubles + 1}, AllAccounted
    PROVE  BInv'
<1>1. troubles \in Nat /\ troubles' \in Nat
    BY DEF BInv, Counted
<1>2. ASSUME NEW e \in Event, NEW r \in Run
      PROVE  /\ IsFiniteSet(Ready(e, r)')
             /\ sent'[e][r] + Cardinality(Ready(e, r)') + Claims(e, r)' <= TriesOf(e, r)' + troubles'
  <2> DEFINE R == Ready(e, r)
             S == Ready(e, r)'
             T == TriesOf(e, r)
             U == TriesOf(e, r)'
             w == Claims(e, r)
             v == Claims(e, r)'
             x == sent[e][r]
             y == sent'[e][r]
  <2>1. /\ x \in Nat /\ IsFiniteSet(R) /\ x + Cardinality(R) + w <= T + troubles
      BY DEF BInv, Counted, Balanced
  <2>2. /\ T \in Nat /\ U \in Nat /\ T <= U
        /\ (\E n \in 1 .. MaxAttempts : Of(e, r, n) = "absent" /\ Of(e, r, n)' # "absent") => T + 1 <= U
      BY TriesGrow DEF BInv
  <2>3. /\ w \in {0, 1} /\ v \in {0, 1}
        /\ (Waits(e, r)' => Waits(e, r)) => v <= w
        /\ ~Waits(e, r)' => v = 0
        /\ Waits(e, r) => w = 1
      BY DEF Claims
  <2>4. \/ y = x /\ S \subseteq R /\ (v <= w \/ troubles' = troubles + 1 \/ T + 1 <= U)
        \/ y = x /\ v = 0 /\ (\E s : S \subseteq R \cup {s}) /\ (w = 1 \/ troubles' = troubles + 1)
        \/ y = x + 1 /\ v <= w /\ \E s \in R : S \subseteq R \ {s}
        \/ y = x /\ \E s \in R : S \subseteq R \ {s}
    <3>1. Accounted(e, r)
        BY DEF AllAccounted
    <3> HIDE DEF v, w, T, U
    <3> QED BY <2>2, <2>3, <3>1 DEF Accounted, Rests, IsClaimed, IsSent, IsReleased
  <2> HIDE DEF R, S, T, U, w, v, x, y
  <2>5. Cardinality(R) \in Nat
      BY <2>1, FS_CardinalityType
  <2>6. IsFiniteSet(S) /\ y + Cardinality(S) + v <= U + troubles'
    <3>1. CASE S \subseteq R /\ y = x /\ (v <= w \/ troubles' = troubles + 1 \/ T + 1 <= U)
      <4>1. IsFiniteSet(S) /\ Cardinality(S) <= Cardinality(R)
          BY <2>1, <3>1, FS_Subset
      <4>2. Cardinality(S) \in Nat
          BY <4>1, FS_CardinalityType
      <4> QED BY <1>1, <2>1, <2>2, <2>3, <2>5, <3>1, <4>1, <4>2
    <3>2. CASE y = x /\ v = 0 /\ (\E s : S \subseteq R \cup {s}) /\ (w = 1 \/ troubles' = troubles + 1)
      <4>1. PICK s : S \subseteq R \cup {s}
          BY <3>2
      <4>2. IsFiniteSet(R \cup {s}) /\ Cardinality(R \cup {s}) \in {Cardinality(R), Cardinality(R) + 1}
          BY <2>1, FS_AddElement
      <4>3. IsFiniteSet(S) /\ Cardinality(S) <= Cardinality(R \cup {s})
          BY <4>1, <4>2, FS_Subset
      <4>4. Cardinality(S) \in Nat
          BY <4>3, FS_CardinalityType
      <4> QED BY <1>1, <2>1, <2>2, <2>3, <2>5, <3>2, <4>2, <4>3, <4>4
    <3>3. CASE (y = x \/ (y = x + 1 /\ v <= w)) /\ \E s \in R : S \subseteq R \ {s}
      <4>1. PICK s \in R : S \subseteq R \ {s}
          BY <3>3
      <4>2. IsFiniteSet(R \ {s}) /\ Cardinality(R \ {s}) = Cardinality(R) - 1
          BY <2>1, FS_RemoveElement
      <4>3. IsFiniteSet(S) /\ Cardinality(S) <= Cardinality(R \ {s})
          BY <4>1, <4>2, FS_Subset
      <4>4. Cardinality(S) \in Nat
          BY <4>3, FS_CardinalityType
      <4> QED BY <1>1, <2>1, <2>2, <2>3, <2>5, <3>3, <4>2, <4>3, <4>4
    <3> QED BY <2>4, <3>1, <3>2, <3>3
  <2> QED BY <2>6 DEF S, U, v, y
<1>3. Counted' /\ Balanced'
    BY <1>1, <1>2 DEF Counted, Balanced
<1> QED BY <1>3 DEF BInv

\* An attempt whose row stays goes on waiting or not, if its holder stays.
LEMMA WaitingStays ==
    ASSUME NEW a \in Attempt, row'[a] = row[a], Waiting(a)',
           Status(a) = "sending" =>
             \A s \in Sender : send[s].attempt = a => send'[s].attempt = a
    PROVE  Waiting(a)
    BY DEF Waiting, Held, Status

\* A run whose attempts wait as they did.
LEMMA RestsIf ==
    ASSUME NEW e \in Event, NEW r \in Run, sent'[e][r] = sent[e][r],
           \A s \in Sender : send'[s].at \in MayRequest /\ Performing(s, e, r)' =>
                send[s].at \in MayRequest /\ Performing(s, e, r),
           \/ \A n \in 1 .. MaxAttempts : Waiting(<<e, r, n>>)' => Waiting(<<e, r, n>>)
           \/ troubles' = troubles + 1
    PROVE  Accounted(e, r)
<1>1. Ready(e, r)' \subseteq Ready(e, r)
    BY DEF Ready
<1>2. (Waits(e, r)' => Waits(e, r)) \/ troubles' = troubles + 1
    BY DEF Waits
<1> QED BY <1>1, <1>2 DEF Accounted, Rests

LEMMA RunOfIs ==
    ASSUME NEW a \in Attempt, NEW s \in Sender, send[s].attempt = a
    PROVE  \A e \in Event, r \in Run : Performing(s, e, r) <=> e = EventOf(a) /\ r = RunOf(a)
    BY AttemptIs, IsAttempt DEF Performing

LEMMA RunOfIsNext ==
    ASSUME NEW a \in Attempt, NEW s \in Sender, send'[s].attempt = a
    PROVE  \A e \in Event, r \in Run : Performing(s, e, r)' <=> e = EventOf(a) /\ r = RunOf(a)
    BY AttemptIs, IsAttempt DEF Performing

\* Only the last attempt of a run waits.
LEMMA OneWaits ==
    ASSUME InOrder, NEW a \in Attempt, NEW b \in Attempt, EventOf(a) = EventOf(b), RunOf(a) = RunOf(b),
           Status(a) \notin {"absent", "failed"}, Status(b) \notin {"absent", "failed"}
    PROVE  a = b
<1>1. Chain(EventOf(a), RunOf(a), NumberOf(a)) /\ Chain(EventOf(a), RunOf(a), NumberOf(b))
    BY AttemptIs, StatusIs, LastIs
<1>2. NumberOf(a) \in 0 .. MaxAttempts /\ NumberOf(b) \in 0 .. MaxAttempts
    BY AttemptIs, Bounds
<1>3. NumberOf(a) = NumberOf(b)
    BY <1>1, <1>2, AttemptIs, ChainGives
<1> QED BY <1>3, AttemptIs
\* A step whose senders may request no more than before, and whose attempts
\* wait as before or at the price of a trouble.
LEMMA AllRest ==
    ASSUME Typed, \A e \in Event, r \in Run : sent'[e][r] = sent[e][r],
           \A s \in Sender : send'[s].at \in MayRequest =>
                send[s].at \in MayRequest /\ send'[s].attempt = send[s].attempt,
           \/ \A a \in Attempt : Waiting(a)' => Waiting(a)
           \/ troubles' = troubles + 1
    PROVE  AllAccounted
<1> SUFFICES ASSUME NEW e \in Event, NEW r \in Run PROVE Accounted(e, r)
    BY DEF AllAccounted
<1>1. \A s \in Sender : send'[s].at \in MayRequest /\ Performing(s, e, r)' =>
            send[s].at \in MayRequest /\ Performing(s, e, r)
    BY DEF Performing
<1>2. (\A n \in 1 .. MaxAttempts : Waiting(<<e, r, n>>)' => Waiting(<<e, r, n>>))
      \/ troubles' = troubles + 1
  <2>1. CASE troubles' = troubles + 1
      BY <2>1
  <2>2. CASE \A a \in Attempt : Waiting(a)' => Waiting(a)
    <3> SUFFICES ASSUME NEW n \in 1 .. MaxAttempts, Waiting(<<e, r, n>>)' PROVE Waiting(<<e, r, n>>)
        OBVIOUS
    <3>1. PICK a \in Attempt : a = <<e, r, n>>
        BY IsAttempt
    <3>2. Waiting(a)'
        BY <3>1 DEF Waiting, Held
    <3>3. Waiting(a)
        BY <2>2, <3>2
    <3> QED BY <3>1, <3>3
  <2> QED BY <2>1, <2>2
<1> QED BY <1>1, <1>2, RestsIf

\* What a step must do for its account to be kept.
Accounts == /\ Lasts /\ AllAccounted
            /\ sent' \in [Event -> [Run -> Nat]] /\ troubles' \in {troubles, troubles + 1}

\* A trouble leaves the rows, or claims one for nobody.
LEMMA TroublesAccount ==
    ASSUME BInv, \/ \E p \in Process : Crash(p)
                 \/ \E s \in Sender : Raises(s)
                 \/ \E a \in Attempt : ClaimRaises(a)
    PROVE  Accounts
<1>1. troubles' = troubles + 1 /\ sent' = sent
    BY DEF Crash, Raises, ClaimRaises, Trouble
<1>2. \A s \in Sender : send'[s].at \in MayRequest =>
            send[s].at \in MayRequest /\ send'[s].attempt = send[s].attempt
  <2>1. \A s \in Sender : send'[s] = send[s] \/ send'[s] = NoSend
      BY DEF Crash, Raises, ClaimRaises, SetSend, BInv, IInv, Typed
  <2>2. NoSend.at \notin MayRequest
      BY NoSendIs DEF MayRequest
  <2> QED BY <2>1, <2>2
<1>3. Lasts
  <2>1. CASE row' = row
      BY <2>1 DEF Lasts
  <2>2. ASSUME NEW a \in Attempt, ClaimRaises(a) PROVE Lasts
    <3>1. \A b \in Attempt : row'[b] = IF b = a THEN [status |-> "sending", by |-> None] ELSE row[b]
        BY <2>2 DEF ClaimRaises, SetStatus, BInv, IInv, Typed
    <3> QED BY <3>1 DEF Lasts
  <2> QED BY <2>1, <2>2 DEF Crash, Raises
<1>4. AllAccounted
    BY <1>1, <1>2, AllRest DEF BInv, IInv
<1> QED BY <1>1, <1>3, <1>4 DEF Accounts, BInv, Counted

\* What does not touch the senders and lets nothing more wait.
LEMMA ChangesAccount ==
    ASSUME BInv, \/ Transition("active") \/ Transition("paused") \/ Disable \/ Delete
                 \/ \E o \in Operator : ReplayReads(o)
                 \/ UNCHANGED vars
    PROVE  Accounts
<1>1. UNCHANGED <<sent, send, troubles>>
    BY DEF Transition, Disable, Delete, ReplayReads, vars
<1>2. \A a \in Attempt : row'[a] = row[a] \/ (Status(a) = "pending" /\ row'[a].status = "dropped")
    BY DEF Transition, Disable, Delete, ReplayReads, vars, DropsQueue, DroppedPending
<1>3. Lasts
    BY <1>2 DEF Lasts
<1>4. ASSUME NEW a \in Attempt, Waiting(a)' PROVE Waiting(a)
    BY <1>1, <1>2, <1>4, WaitingStays DEF Waiting
<1>5. AllAccounted
    BY <1>1, <1>4, AllRest DEF BInv, IInv
<1> QED BY <1>1, <1>3, <1>5 DEF Accounts, BInv, Counted

\* An attempt that is inserted is one more, or waited as dropped.
LEMMA InsertAccounts ==
    ASSUME BInv, NEW a \in Attempt, Insert(a), UNCHANGED <<sent, troubles>>,
           \A s \in Sender : \/ send'[s] = send[s]
                             \/ /\ send'[s] = NoSend
                                /\ \A b \in Attempt : send[s].attempt = b => Status(b) # "sending"
    PROVE  Accounts
<1>1. \A b \in Attempt : b # a => row'[b] = row[b]
    BY DEF Insert, BInv, IInv, Typed
<1>2. row'[a] = row[a] \/ (~Exists(a) /\ row'[a].status = "pending")
    BY DEF Insert, BInv, IInv, Typed
<1>3. Lasts
    BY <1>1, <1>2 DEF Lasts
<1>4. \A s \in Sender : send'[s].at \in MayRequest =>
            send[s].at \in MayRequest /\ send'[s].attempt = send[s].attempt
    BY NoSendIs DEF MayRequest
<1>5. ASSUME NEW b \in Attempt, Waiting(b)', Status(a) # "absent" \/ b # a PROVE Waiting(b)
  <2>1. CASE row'[b] = row[b]
      BY <1>5, <2>1, WaitingStays
  <2>2. CASE row'[b] # row[b]
      BY <1>1, <1>2, <1>5, <2>2 DEF Waiting, Exists
  <2> QED BY <2>1, <2>2
<1>6. CASE Status(a) # "absent"
    BY <1>3, <1>4, <1>5, <1>6, AllRest DEF Accounts, BInv, IInv, Counted
<1>7. CASE Status(a) = "absent"
  <2>1. /\ EventOf(a) \in Event /\ RunOf(a) \in Run /\ NumberOf(a) \in 1 .. MaxAttempts
        /\ Of(EventOf(a), RunOf(a), NumberOf(a)) = "absent"
        /\ Of(EventOf(a), RunOf(a), NumberOf(a))' = "pending"
        /\ a = <<EventOf(a), RunOf(a), NumberOf(a)>>
    <3>1. row'[a].status = "pending"
        BY <1>7 DEF Insert, Exists, BInv, IInv, Typed
    <3> QED BY <1>7, <3>1, AttemptIs DEF Of, Status
  <2>2. ASSUME NEW e \in Event, NEW r \in Run PROVE Accounted(e, r)
    <3>1. \A s \in Sender : send'[s].at \in MayRequest /\ Performing(s, e, r)' =>
            send[s].at \in MayRequest /\ Performing(s, e, r)
        BY <1>4 DEF Performing
    <3>2. CASE e = EventOf(a) /\ r = RunOf(a)
        <4>1. Ready(e, r)' \subseteq Ready(e, r)
            BY <3>1 DEF Ready
        <4> QED BY <2>1, <3>2, <4>1 DEF Accounted, Rests
    <3>3. CASE ~(e = EventOf(a) /\ r = RunOf(a))
        <4> SUFFICES ASSUME NEW n \in 1 .. MaxAttempts, Waiting(<<e, r, n>>)'
                     PROVE  Waiting(<<e, r, n>>)
            BY <3>1, RestsIf
        <4>1. PICK b \in Attempt : b = <<e, r, n>> /\ b # a
            BY <3>3, IsAttempt
        <4>2. Waiting(b)'
            BY <4>1 DEF Waiting, Held
        <4> QED BY <1>5, <4>1, <4>2
    <3> QED BY <3>2, <3>3
  <2> QED BY <1>3, <2>2 DEF Accounts, AllAccounted, BInv, Counted
<1> QED BY <1>6, <1>7

LEMMA OpeningsAccount ==
    ASSUME BInv, (\E e \in Event : Publish(e)) \/ (\E o \in Operator : ReplayAppends(o))
    PROVE  Accounts
<1>1. UNCHANGED <<sent, send, troubles>>
    BY DEF Publish, ReplayAppends
<1>2. CASE row' = row
  <2>1. \A a \in Attempt : Waiting(a)' => Waiting(a)
      BY <1>1, <1>2, WaitingStays
  <2> QED BY <1>1, <1>2, <2>1, AllRest DEF Accounts, Lasts, BInv, IInv, Counted
<1>3. CASE row' # row
  <2>1. PICK a \in Attempt : Insert(a)
    <3>1. ASSUME NEW e \in Event, Publish(e) PROVE \E a \in Attempt : Insert(a)
        BY <1>3, <3>1, IsAttempt, Bounds DEF Publish, FirstAttempt
    <3>2. ASSUME NEW o \in Operator, ReplayAppends(o) PROVE \E a \in Attempt : Insert(a)
        BY <3>2, IsAttempt, Bounds DEF ReplayAppends, BInv, IInv, Replays, Replayable
    <3> QED BY <3>1, <3>2
  <2> QED BY <1>1, <2>1, InsertAccounts
<1> QED BY <1>2, <1>3

LEMMA RetriesAccount ==
    ASSUME BInv, NEW s \in Sender, Retries(s) PROVE Accounts
<1>1. PICK a \in Attempt : a = send[s].attempt
    BY DEF Retries, BInv, IInv, Typed
<1>2. Owes(a)
    BY <1>1 DEF Retries, BInv, IInv, RetriesAreOwned, Retrying
<1>3. NextAttempt(a) \in Attempt /\ Insert(NextAttempt(a)) /\ UNCHANGED <<sent, troubles>>
    BY <1>1, <1>2, NextIs DEF Owes, Retries
<1>4. \A o \in Sender : send'[o] = IF o = s THEN NoSend ELSE send[o]
    BY DEF Retries, SetSend, BInv, IInv, Typed
<1>5. \A b \in Attempt : send[s].attempt = b => Status(b) # "sending"
    BY <1>1, <1>2 DEF Owes
<1> QED BY <1>3, <1>4, <1>5, InsertAccounts
\* A claim turns the attempt that waits into a sender; a claim that lapses
\* under its sender is a trouble.
LEMMA ClaimAccounts ==
    ASSUME BInv, NEW s \in Sender, NEW a \in Attempt, Claim(s, a) PROVE Accounts
<1>1. /\ \A b \in Attempt : row'[b] = IF b = a THEN [status |-> "sending", by |-> s] ELSE row[b]
      /\ \A o \in Sender : send'[o] = IF o = s THEN Starts(a) ELSE send[o]
      /\ sent' = sent /\ send[s] = NoSend
    BY DEF Claim, SetSend, BInv, IInv, Typed
<1>2. Starts(a).attempt = a
    BY DEF Starts
<1>3. Lasts /\ troubles' \in {troubles, troubles + 1}
  <2>1. troubles \in Nat
      BY DEF BInv, Counted
  <2> QED BY <1>1, <2>1 DEF Lasts, Claim
<1>4. Status(a) \in {"pending", "sending"}
    BY DEF Claim, Claimable, Due, Pending
<1>5. ~Waiting(a)'
  <2>1. Status(a)' = "sending" /\ row'[a].by = s /\ send'[s].attempt = a
      BY <1>1, <1>2 DEF Status
  <2> QED BY <2>1 DEF Waiting, Held
<1>6. ASSUME NEW b \in Attempt, b # a, Waiting(b)' PROVE Waiting(b)
  <2>1. None # b
      BY DeliveryAssumption
  <2>2. \A o \in Sender : send[o].attempt = b => send'[o].attempt = b
      BY <1>1, <2>1 DEF NoSend
  <2> QED BY <1>1, <1>6, <2>2, WaitingStays
<1>7. Waiting(a) \/ troubles' = troubles + 1
  <2>1. CASE Status(a) = "pending" \/ ~Held(a)
      BY <1>4, <2>1 DEF Waiting
  <2>2. CASE Status(a) = "sending" /\ Held(a)
    <3>1. TakesOver(a) /\ troubles < MaxTroubles
        BY <2>2 DEF TakesOver, Claim, Claimable, Due, Pending
    <3> QED BY <3>1 DEF Claim
  <2> QED BY <1>4, <2>1, <2>2
<1>8. ASSUME NEW e \in Event, NEW r \in Run PROVE Accounted(e, r)
  <2>1. \A o \in Sender : o # s /\ send'[o].at \in MayRequest /\ Performing(o, e, r)' =>
            send[o].at \in MayRequest /\ Performing(o, e, r)
      BY <1>1 DEF Performing
  <2>2. Performing(s, e, r)' <=> e = EventOf(a) /\ r = RunOf(a)
      BY <1>1, <1>2, RunOfIsNext
  <2>3. ASSUME NEW n \in 1 .. MaxAttempts, <<e, r, n>> # a, Waiting(<<e, r, n>>)'
        PROVE  Waiting(<<e, r, n>>)
    <3>1. PICK b \in Attempt : b = <<e, r, n>> /\ b # a
        BY <2>3, IsAttempt
    <3>2. Waiting(b)'
        BY <2>3, <3>1 DEF Waiting, Held
    <3> QED BY <1>6, <3>1, <3>2
  <2>4. CASE e = EventOf(a) /\ r = RunOf(a)
    <3>1. Ready(e, r)' \subseteq Ready(e, r) \cup {s}
        BY <2>1 DEF Ready
    <3>2. ~Waits(e, r)'
        <4> SUFFICES ASSUME NEW n \in 1 .. MaxAttempts, Waiting(<<e, r, n>>)' PROVE FALSE
            BY DEF Waits
        <4>1. PICK b \in Attempt : b = <<e, r, n>> /\ EventOf(b) = e /\ RunOf(b) = r
            BY IsAttempt
        <4>2. b # a
            BY <1>5, <4>1 DEF Waiting, Held
        <4>3. Status(b) \notin {"absent", "failed"}
            BY <2>3, <4>1, <4>2 DEF Waiting
        <4> QED BY <1>4, <2>4, <4>1, <4>2, <4>3, OneWaits DEF BInv, IInv, RowsOrdered
    <3>3. Waits(e, r) \/ troubles' = troubles + 1
        BY <1>7, <2>4, AttemptIs DEF Waits
    <3> QED BY <1>1, <3>1, <3>2, <3>3 DEF Accounted, IsClaimed
  <2>5. CASE ~(e = EventOf(a) /\ r = RunOf(a))
    <3>1. \A n \in 1 .. MaxAttempts : <<e, r, n>> # a
        BY <2>5, IsAttempt
    <3> QED BY <1>1, <2>1, <2>2, <2>3, <2>5, <3>1, RestsIf
  <2> QED BY <2>4, <2>5
<1> QED BY <1>1, <1>3, <1>8 DEF Accounts, AllAccounted, BInv, Counted

LEMMA ReadsAccount ==
    ASSUME BInv, NEW s \in Sender, ReadsSubscription(s) PROVE Accounts
<1>1. UNCHANGED <<row, sent, troubles>> /\ send[s].at = "reading" /\ send[s] \in SendRec
    BY DEF ReadsSubscription, BInv, IInv, Typed
<1>2. PICK at : send' = [send EXCEPT ![s] = [send[s] EXCEPT !.at = at]]
    BY DEF ReadsSubscription, Goes, SetSend
<1>3. \A o \in Sender : send'[o].attempt = send[o].attempt /\ (o # s => send'[o] = send[o])
    BY <1>1, <1>2 DEF SendRec, BInv, IInv, Typed
<1>4. \A o \in Sender : send'[o].at \in MayRequest =>
            send[o].at \in MayRequest /\ send'[o].attempt = send[o].attempt
    BY <1>1, <1>3 DEF MayRequest
<1>5. \A a \in Attempt : Waiting(a)' => Waiting(a)
    BY <1>1, <1>3, WaitingStays
<1> QED BY <1>1, <1>4, <1>5, AllRest DEF Accounts, Lasts, BInv, IInv, Counted

\* A sender that makes its request has none left to make.
LEMMA SendsAccount ==
    ASSUME BInv, NEW s \in Sender, Sends(s) PROVE Accounts
<1>1. PICK a \in Attempt : a = send[s].attempt
    BY DEF Sends, BInv, IInv, Typed
<1>2. UNCHANGED <<row, troubles>> /\ send[s].at = "sending" /\ send[s] \in SendRec
    BY DEF Sends, BInv, IInv, Typed
<1>3. /\ EventOf(a) \in Event /\ RunOf(a) \in Run
      /\ sent' = [sent EXCEPT ![EventOf(a)][RunOf(a)] = @ + 1]
    BY <1>1, AttemptIs DEF Sends
<1>4. /\ sent' \in [Event -> [Run -> Nat]]
      /\ \A e \in Event, r \in Run :
            sent'[e][r] = IF e = EventOf(a) /\ r = RunOf(a) THEN sent[e][r] + 1 ELSE sent[e][r]
    BY <1>3 DEF BInv, Counted
<1>5. PICK x : /\ send' = [send EXCEPT ![s] = x]
               /\ x.attempt = a /\ x.at \in {"recording", "burying"}
  <2>1. \A ok \in BOOLEAN : LET x == [send[s] EXCEPT !.at = "recording", !.ok = ok]
                            IN  x.attempt = a /\ x.at = "recording"
      BY <1>1, <1>2, AnswerIs
  <2>2. LET x == [send[s] EXCEPT !.at = "burying"] IN x.attempt = a /\ x.at = "burying"
      BY <1>1, <1>2 DEF SendRec
  <2> QED BY <2>1, <2>2 DEF Sends, Goes, SetSend
<1>6. \A o \in Sender : send'[o] = IF o = s THEN x ELSE send[o]
    BY <1>5 DEF BInv, IInv, Typed
<1>7. ASSUME NEW e \in Event, NEW r \in Run PROVE Accounted(e, r)
  <2>1. ASSUME NEW n \in 1 .. MaxAttempts, Waiting(<<e, r, n>>)' PROVE Waiting(<<e, r, n>>)
    <3>1. PICK b \in Attempt : b = <<e, r, n>>
        BY IsAttempt
    <3>2. Waiting(b)'
        BY <2>1, <3>1 DEF Waiting, Held
    <3>3. \A o \in Sender : send[o].attempt = b => send'[o].attempt = b
        BY <1>1, <1>5, <1>6
    <3>4. Waiting(b)
        BY <1>2, <3>2, <3>3, WaitingStays
    <3> QED BY <3>1, <3>4
  <2>2. Ready(e, r)' \subseteq Ready(e, r) \ {s}
      BY <1>5, <1>6 DEF Ready, Performing, MayRequest
  <2>3. CASE e = EventOf(a) /\ r = RunOf(a)
    <3>1. s \in Ready(e, r)
        BY <1>1, <1>2, <2>3, RunOfIs DEF Ready, MayRequest
    <3>2. sent'[e][r] = sent[e][r] + 1
        BY <1>4, <2>3
    <3> QED BY <2>1, <2>2, <3>1, <3>2 DEF Accounted, IsSent, Waits
  <2>4. CASE ~(e = EventOf(a) /\ r = RunOf(a))
    <3>1. sent'[e][r] = sent[e][r]
        BY <1>4, <2>4
    <3> QED BY <2>1, <2>2, <3>1 DEF Accounted, Rests, Waits
  <2> QED BY <2>3, <2>4
<1> QED BY <1>2, <1>4, <1>7 DEF Accounts, AllAccounted, Lasts

\* Who records or buries an attempt leaves it concluded, by whoever it was.
LEMMA OutcomesAccount ==
    ASSUME BInv, NEW s \in Sender, Records(s) \/ Buries(s) PROVE Accounts
<1>1. PICK a \in Attempt : a = send[s].attempt
    BY DEF Records, Buries, BInv, IInv, Typed
<1>2. UNCHANGED <<sent, troubles>>
    BY DEF Records, Buries
<1>3. PICK status \in {"succeeded", "failed", "dead"} : Complete(a, status)
    BY <1>1 DEF Records, Buries, Outcome
<1>4. /\ \A b \in Attempt : b # a => row'[b] = row[b]
      /\ row'[a].status \notin {"absent", "pending", "sending"} \/ (row' = row /\ ~IsOpen(a))
      /\ row'[a].status # "dropped" \/ row' = row
    BY <1>3 DEF Complete, Completable, SetStatus, BInv, IInv, Typed
<1>5. \A o \in Sender : o # s => send'[o] = send[o]
    BY DEF Records, Buries, Goes, SetSend, BInv, IInv, Typed
<1>6. send'[s].at \notin MayRequest
  <2>1. send[s] \in SendRec
      BY DEF BInv, IInv, Typed
  <2>2. [send[s] EXCEPT !.at = "retrying"].at = "retrying"
      BY <2>1 DEF SendRec
  <2>3. SetSend(s, NoSend) \/ SetSend(s, [send[s] EXCEPT !.at = "retrying"])
      BY DEF Records, Buries, Goes
  <2>4. send'[s].at \in {"idle", "retrying"}
      BY <2>2, <2>3, NoSendIs DEF SetSend, BInv, IInv, Typed
  <2> QED BY <2>4 DEF MayRequest
<1>7. ASSUME NEW b \in Attempt, Waiting(b)' PROVE Waiting(b)
  <2>1. CASE b = a
      BY <1>4, <1>7, <2>1 DEF Waiting, IsOpen, Status
  <2>2. CASE b # a
    <3>1. \A o \in Sender : send[o].attempt = b => send'[o].attempt = b
        BY <1>1, <1>5, <2>2
    <3> QED BY <1>4, <1>7, <2>2, <3>1, WaitingStays
  <2> QED BY <2>1, <2>2
<1>8. \A o \in Sender : send'[o].at \in MayRequest =>
            send[o].at \in MayRequest /\ send'[o].attempt = send[o].attempt
    BY <1>5, <1>6
<1>9. Lasts
    BY <1>4 DEF Lasts
<1> QED BY <1>2, <1>7, <1>8, <1>9, AllRest DEF Accounts, BInv, IInv, Counted

\* A sender that releases its attempt gives up the request it might have made.
LEMMA ReleasesAccount ==
    ASSUME BInv, NEW s \in Sender, Releases(s) PROVE Accounts
<1>1. PICK a \in Attempt : a = send[s].attempt
    BY DEF Releases, BInv, IInv, Typed
<1>2. /\ UNCHANGED <<sent, troubles>> /\ send[s].at = "releasing"
      /\ \A o \in Sender : send'[o] = IF o = s THEN NoSend ELSE send[o]
    BY DEF Releases, SetSend, BInv, IInv, Typed
<1>3. /\ \A b \in Attempt : b # a => row'[b] = row[b]
      /\ row'[a] = row[a] \/ row'[a].status = "pending"
    BY <1>1 DEF Releases, SetStatus, BInv, IInv, Typed
<1>4. Lasts
    BY <1>3 DEF Lasts
<1>5. ASSUME NEW e \in Event, NEW r \in Run PROVE Accounted(e, r)
  <2>1. Ready(e, r)' \subseteq Ready(e, r) \ {s}
      BY <1>2, NoSendIs DEF Ready, Performing, MayRequest
  <2>2. CASE e = EventOf(a) /\ r = RunOf(a)
    <3>1. s \in Ready(e, r)
        BY <1>1, <1>2, <2>2, RunOfIs DEF Ready, MayRequest
    <3> QED BY <1>2, <2>1, <3>1 DEF Accounted, IsReleased
  <2>3. CASE ~(e = EventOf(a) /\ r = RunOf(a))
    <3>1. ASSUME NEW n \in 1 .. MaxAttempts, Waiting(<<e, r, n>>)' PROVE Waiting(<<e, r, n>>)
        <4>5. <<e, r, n>> # a
            BY <2>3, IsAttempt
        <4>1. PICK b \in Attempt : b = <<e, r, n>> /\ b # a
            BY <4>5, IsAttempt
        <4>2. Waiting(b)'
            BY <3>1, <4>1 DEF Waiting, Held
        <4>3. \A o \in Sender : send[o].attempt = b => send'[o].attempt = b
            BY <1>1, <1>2, <4>1
        <4>4. Waiting(b)
            BY <1>3, <4>1, <4>2, <4>3, WaitingStays
        <4> QED BY <4>1, <4>4
    <3> QED BY <1>2, <2>1, <3>1 DEF Accounted, Rests, Waits
  <2> QED BY <2>2, <2>3
<1> QED BY <1>2, <1>4, <1>5 DEF Accounts, AllAccounted, BInv, Counted

\* Attempts are put on the wire no more often than there are attempts, claims
\* that lapsed under their sender, crashes and calls that raised: nothing else
\* makes a target hear of an attempt twice.
THEOREM RequestsStayCaused == Spec => []RequestsAreCaused
<1>1. Init => BInv
  <2> SUFFICES ASSUME Init PROVE BInv
      OBVIOUS
  <2>1. IInv
      BY InitHolds
  <2>2. ASSUME NEW e \in Event, NEW r \in Run
        PROVE  Ready(e, r) = {} /\ Claims(e, r) = 0 /\ TriesOf(e, r) \in Nat
    <3>1. Ready(e, r) = {}
        BY DEF Init, Ready, NoSend, MayRequest
    <3>2. \A n \in 1 .. MaxAttempts : Status(<<e, r, n>>) = "absent"
        BY IsAttempt DEF Init, Status
    <3>3. ~Waits(e, r)
        BY <3>2 DEF Waits, Waiting
    <3>4. PICK t \in 0 .. MaxAttempts : Chain(e, r, t)
        BY <2>1 DEF IInv, RowsOrdered, InOrder
    <3> QED BY <3>1, <3>3, <3>4, ChainGives, Bounds DEF Claims
  <2>3. Counted
      BY <2>2, FS_EmptySet DEF Init, Counted
  <2>4. Balanced
    <3> SUFFICES ASSUME NEW e \in Event, NEW r \in Run
                 PROVE  sent[e][r] + Cardinality(Ready(e, r)) + Claims(e, r)
                            <= TriesOf(e, r) + troubles
        BY DEF Balanced
    <3>1. sent[e][r] = 0 /\ troubles = 0 /\ Cardinality(Ready(e, r)) = 0
        BY <2>2, FS_EmptySet DEF Init
    <3> QED BY <2>2, <3>1
  <2> QED BY <2>1, <2>3, <2>4 DEF BInv
<1>2. BInv /\ [Next]_vars => BInv'
  <2> SUFFICES ASSUME BInv, [Next]_vars PROVE BInv'
      OBVIOUS
  <2>1. IInv'
      BY NextKeeps DEF BInv
  <2>2. ASSUME NEW s \in Sender, Performs(s) PROVE Accounts
      BY <2>2, ReadsAccount, SendsAccount, OutcomesAccount, RetriesAccount, ReleasesAccount
         DEF Performs
  <2>3. Accounts
      BY <2>2, TroublesAccount, ChangesAccount, OpeningsAccount, ClaimAccounts DEF Next
  <2> QED BY <2>1, <2>3, AccountsKeep DEF Accounts
<1>3. BInv => RequestsAreCaused
  <2> SUFFICES ASSUME BInv, NEW e \in Event, NEW r \in Run
               PROVE  sent[e][r] <= TriesOf(e, r) + troubles
      BY DEF RequestsAreCaused
  <2>1. /\ sent[e][r] \in Nat /\ Cardinality(Ready(e, r)) \in Nat /\ Claims(e, r) \in {0, 1}
        /\ troubles \in Nat
      BY FS_CardinalityType DEF BInv, Counted, Claims
  <2>2. PICK t \in 0 .. MaxAttempts : Chain(e, r, t)
      BY DEF BInv, IInv, RowsOrdered, InOrder
  <2>3. TriesOf(e, r) \in Nat
      BY <2>2, ChainGives, Bounds
  <2>4. sent[e][r] + Cardinality(Ready(e, r)) + Claims(e, r) <= TriesOf(e, r) + troubles
      BY DEF BInv, Balanced
  <2> QED BY <2>1, <2>3, <2>4
<1> QED BY <1>1, <1>2, <1>3, PTL DEF Spec
===============================================================================
