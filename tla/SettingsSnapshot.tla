--------------------------- MODULE SettingsSnapshot ---------------------------
(***************************************************************************)
(* The settings runtime of one process (packages/kernel/module-settings.ts)*)
(* over the change log the auth module keeps.  A process answers settings  *)
(* from a snapshot in memory; before it does, prime() makes sure the       *)
(* snapshot is not too old, by one shared read of the log that names what  *)
(* to load again.                                                          *)
(*                                                                         *)
(* A value is the revision of the last change it reflects.  The modules of *)
(* a tenant are loaded and named alike, so a tenant has one value; the     *)
(* platform's own is one more that is never evicted.                       *)
(***************************************************************************)
EXTENDS Naturals, Sequences, SequencesExt

CONSTANTS
    Tenant,
    Call,         \* callers of prime(), each with one call at a time
    CacheLimit,   \* tenants held in memory
    Staleness,    \* MODULE_SETTINGS_STALENESS_MS, in ticks of the clock
    PageMax,      \* MODULE_SETTINGS_CHANGES_PAGE_MAX
    None,
    MaxTime, MaxChanges,   \* bounds: ticks, and changes any process commits
    MaxTroubles,  \* bound: calls of the store that raise, expired cursors
    MaxTorn       \* bound: tenants forgotten with something under way

ASSUME SettingsAssumption ==
    /\ CacheLimit \in Nat \ {0} /\ Staleness \in Nat /\ PageMax \in Nat \ {0}
    /\ MaxTime \in Nat /\ MaxChanges \in Nat /\ MaxTroubles \in Nat
    /\ MaxTorn \in Nat
    /\ None \notin Nat

VARIABLES
    now,        \* the clock
    log,        \* the committed changes, by revision: their tenant and time
    snap,       \* snap[t]: the value held, or None
    lru,        \* the tenants of `snapshots`, the least recently primed first
    primed,
    reads,      \* reads[t]: the reads of t under way, in the order they began
    reval,      \* the revalidation under way
    mark,       \* cursor, reflected and validatedAt
    call,       \* call[c]: the prime() c waits for
    saved,      \* saved[t]: the revision of a set() that is not resolved, or 0
    wrote,      \* observer: wrote[t]: the last change a set() of this process resolved
    troubles, torn

held == <<snap, lru, primed, torn>>
vars == <<now, log, held, reads, reval, mark, call, saved, wrote, troubles>>

\* A read of the store sees the tenant as it is at some moment after it began;
\* `overtaken` says that one begun later has landed.
Read(kind, seen) == [kind |-> kind, seen |-> seen, overtaken |-> FALSE]
NoReval == [at |-> "none", started |-> 0, seen |-> 0, to |-> 0]
Idle == [at |-> "idle", tenant |-> None, begun |-> 0, asked |-> 0]

TypeOK ==
    /\ now \in 0 .. MaxTime /\ log \in Seq([tenant : Tenant, at : Nat])
    /\ snap \in [Tenant -> Nat \cup {None}]
    /\ lru \in Seq(Tenant) /\ primed \subseteq Tenant
    /\ torn \in 0 .. MaxTorn /\ troubles \in 0 .. MaxTroubles
    /\ reads \in [Tenant -> Seq([kind : {"load", "reload", "stray", "set"}, seen : Nat,
                                 overtaken : BOOLEAN])]
    /\ reval \in [at : {"none", "log", "newest", "reload"}, started : Nat, seen : Nat, to : Nat]
    /\ mark \in [cursor : Nat \cup {None}, reflected : Nat, validatedAt : Nat]
    /\ call \in [Call -> [at : {"idle", "joining", "rejoin", "validating", "ready",
                                "loading", "loaded"},
                          tenant : Tenant \cup {None}, begun : Nat, asked : Nat]]
    /\ saved \in [Tenant -> Nat] /\ wrote \in [Tenant -> Nat]

Init ==
    /\ now = 0 /\ log = <<>>
    /\ snap = [t \in Tenant |-> None] /\ lru = <<>> /\ primed = {}
    /\ reads = [t \in Tenant |-> <<>>]
    /\ reval = NoReval
    /\ mark = [cursor |-> None, reflected |-> 0, validatedAt |-> 0]
    /\ call = [c \in Call |-> Idle]
    /\ saved = [t \in Tenant |-> 0] /\ wrote = [t \in Tenant |-> 0]
    /\ troubles = 0 /\ torn = 0

Larger(m, n) == IF m >= n THEN m ELSE n
Trouble == troubles < MaxTroubles /\ troubles' = troubles + 1
NoTrouble == UNCHANGED troubles
Of(t) == {r \in DOMAIN log : log[r].tenant = t}
Newest(t) == CHOOSE r \in Of(t) \cup {0} : \A q \in Of(t) : q <= r
Reading(kind, t) == \E i \in DOMAIN reads[t] : reads[t][i].kind = kind
BeginsRead(kind, t) == reads' = [reads EXCEPT ![t] = Append(@, Read(kind, Newest(t)))]
At(c, at) == call' = [call EXCEPT ![c].at = at]

-----------------------------------------------------------------------------
(***************************************************************************)
(* Changes, and set().                                                     *)
(***************************************************************************)
Tick ==
    /\ now < MaxTime /\ now' = now + 1
    /\ UNCHANGED <<log, held, reads, reval, mark, call, saved, wrote, troubles>>

\* Appends hold one lock until they commit, so revisions commit in order.
Commits(t) ==
    /\ Len(log) < MaxChanges
    /\ log' = Append(log, [tenant |-> t, at |-> now])

\* A change another process makes.
Changes(t) ==
    /\ Commits(t)
    /\ UNCHANGED <<now, held, reads, reval, mark, call, saved, wrote, troubles>>

\* set() of this process loads its tenant, writes, and then reads it again.
Saves(t) ==
    /\ snap[t] # None /\ saved[t] = 0
    /\ Commits(t)
    /\ saved' = [saved EXCEPT ![t] = Len(log')]
    /\ UNCHANGED <<now, held, reads, reval, mark, call, wrote, troubles>>

ReadsBack(t) ==
    /\ saved[t] # 0 /\ ~Reading("set", t)
    /\ BeginsRead("set", t)
    /\ UNCHANGED <<now, log, held, reval, mark, call, saved, wrote, troubles>>

-----------------------------------------------------------------------------
(***************************************************************************)
(* tenantSnapshot, read.                                                   *)
(***************************************************************************)
\* What a later landing could undo: a read, a set() or a prime() that has its load.
UnderWay(t) ==
    \/ reads[t] # <<>> \/ saved[t] # 0
    \/ \E c \in Call : call[c].tenant = t /\ call[c].at = "loaded"

Evicted(t) == IF t \notin ToSet(lru) /\ Len(lru) >= CacheLimit THEN {Head(lru)} ELSE {}

\* tenantSnapshot(t), with the value the caller then stores in it.
Holds(t, value, isPrimed) ==
    LET out == Evicted(t)
    IN  /\ lru' = IF t \in ToSet(lru) THEN lru
                  ELSE Append(IF out = {} THEN lru ELSE Tail(lru), t)
        /\ snap' = [s \in Tenant |-> IF s = t THEN value ELSE IF s \in out THEN None ELSE snap[s]]
        /\ primed' = (primed \ out) \cup (IF isPrimed THEN {t} ELSE {})
        /\ torn' = torn + (IF \E s \in out : UnderWay(s) THEN 1 ELSE 0)
        /\ torn' <= MaxTorn

\* Mutant: the load that lands last wins.
NewerAlways(t, i) == TRUE
\* A snapshot that is gone has no order to compare with.
Newer(t, i) == snap[t] = None \/ ~reads[t][i].overtaken

Without(t, i) == [j \in 1 .. (Len(reads[t]) - 1) |-> reads[t][IF j < i THEN j ELSE j + 1]]

\* The load that a prime waits for has answered, or raised.
LoadEnds(kind, t, at) ==
    call' = IF kind # "load" THEN call
            ELSE [c \in Call |-> IF call[c].at = "loading" /\ call[c].tenant = t
                                 THEN IF at = "idle" THEN Idle ELSE [call[c] EXCEPT !.at = at]
                                 ELSE call[c]]

\* The answer is what the tenant was at a moment since the read began.
Lands(t, i) ==
    /\ i \in DOMAIN reads[t]
    /\ LET r == reads[t][i]
       IN  /\ \E value \in {r.seen} \cup {q \in Of(t) : q > r.seen} :
                Holds(t, IF Newer(t, i) THEN value ELSE snap[t], FALSE)
           /\ reads' = [reads EXCEPT ![t] =
                [j \in DOMAIN Without(t, i) |->
                    IF Newer(t, i) THEN [Without(t, i)[j] EXCEPT !.overtaken = j < i]
                    ELSE Without(t, i)[j]]]
           /\ LoadEnds(r.kind, t, "loaded")
           /\ IF r.kind = "set"
                THEN wrote' = [wrote EXCEPT ![t] = saved[t]] /\ saved' = [saved EXCEPT ![t] = 0]
                ELSE UNCHANGED <<saved, wrote>>
    /\ UNCHANGED <<now, log, reval, mark, troubles>>

\* A read that no revalidation waits for raises.
ReadFails(t, i) ==
    /\ i \in DOMAIN reads[t] /\ reads[t][i].kind # "reload" /\ Trouble
    /\ reads' = [reads EXCEPT ![t] = Without(t, i)]
    /\ LoadEnds(reads[t][i].kind, t, "idle")
    /\ saved' = IF reads[t][i].kind = "set" THEN [saved EXCEPT ![t] = 0] ELSE saved
    /\ UNCHANGED <<now, log, held, reval, mark, wrote>>

-----------------------------------------------------------------------------
(***************************************************************************)
(* revalidate.                                                             *)
(***************************************************************************)
Revalidation(at) == [at |-> at, started |-> now, seen |-> Len(log), to |-> 0]
Begins == reval' = Revalidation(IF mark.cursor = None THEN "newest" ELSE "log")

\* The page was not the last one, or the cursor had expired: back to the newest.
ReadsNewest ==
    /\ reval.at = "log"
    /\ IF Len(log) > mark.cursor + PageMax THEN NoTrouble ELSE Trouble
    /\ reval' = [Revalidation("newest") EXCEPT !.started = reval.started]
    /\ UNCHANGED <<now, log, held, reads, mark, call, saved, wrote>>

Held(t) == snap[t] # None \/ Reading("load", t)
Names(t, to) == reval.at = "newest" \/ \E r \in Of(t) : mark.cursor < r /\ r <= to

\* The log was read up to `to` some time since it was asked: what it names and is
\* held, or all that is held, is read again.  A read that a failed revalidation left
\* behind does not make its tenant held.
Reloads ==
    /\ reval.at \in {"log", "newest"}
    /\ \E to \in reval.seen .. Len(log) :
        /\ reval.at = "log" => to <= mark.cursor + PageMax
        /\ reval' = [reval EXCEPT !.at = "reload", !.to = to]
        /\ reads' = [t \in Tenant |-> IF Held(t) /\ Names(t, to)
             THEN Append(reads[t], Read("reload", Newest(t))) ELSE reads[t]]
        /\ torn' = torn + (IF \E t \in Tenant : Names(t, to) /\ ~Held(t) /\ UnderWay(t)
                           THEN 1 ELSE 0)
    /\ torn' <= MaxTorn
    /\ UNCHANGED <<now, log, snap, lru, primed, mark, call, saved, wrote, troubles>>

\* The revalidation ended: those that joined it look again, the others go on.
Answered(joined, others) ==
    call' = [c \in Call |-> CASE call[c].at = "joining" -> joined[c]
                              [] call[c].at = "validating" -> others[c]
                              [] OTHER -> call[c]]

Validates ==
    /\ reval.at = "reload" /\ \A t \in Tenant : ~Reading("reload", t)
    /\ mark' = [cursor |-> reval.to, reflected |-> Larger(mark.reflected, reval.to),
                validatedAt |-> reval.started]
    /\ reval' = NoReval
    /\ Answered([c \in Call |-> [call[c] EXCEPT !.at = "rejoin"]],
                [c \in Call |-> [call[c] EXCEPT !.at = "ready"]])
    /\ UNCHANGED <<now, log, held, reads, saved, wrote, troubles>>

Stray(s) == [i \in DOMAIN s |-> IF s[i].kind = "reload" THEN [s[i] EXCEPT !.kind = "stray"] ELSE s[i]]

\* The log, or one of the reads, raises; the other reads go on by themselves.
RevalidationFails ==
    /\ \/ reval.at \in {"log", "newest"} /\ UNCHANGED reads
       \/ /\ reval.at = "reload"
          /\ \E t \in Tenant : \E i \in DOMAIN reads[t] :
                /\ reads[t][i].kind = "reload"
                /\ reads' = [s \in Tenant |-> Stray(IF s = t THEN Without(t, i) ELSE reads[s])]
    /\ Trouble
    /\ reval' = NoReval
    /\ Answered([c \in Call |-> Idle], [c \in Call |-> Idle])
    /\ UNCHANGED <<now, log, held, mark, saved, wrote>>

-----------------------------------------------------------------------------
(***************************************************************************)
(* prime.                                                                  *)
(***************************************************************************)
\* Mutant: a revalidation of the same tick counts as begun after the call.
CoveredInTick(begun, asked) ==
    /\ mark.cursor # None
    /\ mark.validatedAt + Staleness >= begun
    /\ asked = 0 \/ mark.reflected >= asked \/ mark.validatedAt >= begun
Covered(begun, asked) ==
    /\ mark.cursor # None
    /\ mark.validatedAt + Staleness >= begun
    /\ asked = 0 \/ mark.reflected >= asked \/ mark.validatedAt > begun

\* prime(t, asked): asked is a revision the caller read from the log, or 0.
Primes(c, t, asked) ==
    /\ call[c].at = "idle"
    /\ call' = [call EXCEPT ![c] =
         [at |-> IF Covered(now, asked) THEN "ready"
                 ELSE IF reval.at # "none" THEN "joining" ELSE "validating",
          tenant |-> t, begun |-> now, asked |-> asked]]
    /\ IF reval.at = "none" /\ ~Covered(now, asked) THEN Begins ELSE UNCHANGED reval
    /\ UNCHANGED <<now, log, held, reads, mark, saved, wrote, troubles>>

\* The revalidation it joined may have begun before it asked.
Rejoins(c) ==
    /\ call[c].at = "rejoin"
    /\ IF Covered(call[c].begun, call[c].asked) THEN At(c, "ready") /\ UNCHANGED reval
       ELSE /\ At(c, "validating")
            /\ IF reval.at = "none" THEN Begins ELSE UNCHANGED reval
    /\ UNCHANGED <<now, log, held, reads, mark, saved, wrote, troubles>>

Answers(c) == call' = [call EXCEPT ![c] = Idle]

\* A primed tenant answers at once.
AnswersPrimed(c) ==
    /\ call[c].at = "ready" /\ call[c].tenant \in primed
    /\ lru' = Append(Remove(lru, call[c].tenant), call[c].tenant)
    /\ Answers(c)
    /\ UNCHANGED <<now, log, snap, primed, torn, reads, reval, mark, saved, wrote, troubles>>

LoadsModule(c) ==
    /\ call[c].at = "ready" /\ call[c].tenant \notin primed
    /\ LET t == call[c].tenant
       IN  /\ At(c, IF snap[t] # None THEN "loaded" ELSE "loading")
           /\ IF snap[t] # None \/ Reading("load", t) THEN UNCHANGED reads
              ELSE BeginsRead("load", t)
    /\ UNCHANGED <<now, log, held, reval, mark, saved, wrote, troubles>>

AnswersLoaded(c) ==
    /\ call[c].at = "loaded"
    /\ Holds(call[c].tenant, snap[call[c].tenant], TRUE)
    /\ Answers(c)
    /\ UNCHANGED <<now, log, reads, reval, mark, saved, wrote, troubles>>

-----------------------------------------------------------------------------
Continues(c) == Rejoins(c) \/ AnswersPrimed(c) \/ LoadsModule(c) \/ AnswersLoaded(c)
Revalidates == ReadsNewest \/ Reloads \/ Validates
Landing(t) == \E i \in DOMAIN reads[t] : Lands(t, i)

Next ==
    \/ Tick \/ Revalidates \/ RevalidationFails
    \/ \E t \in Tenant :
        \/ Changes(t) \/ Saves(t) \/ ReadsBack(t) \/ Landing(t)
        \/ \E i \in DOMAIN reads[t] : ReadFails(t, i)
    \/ \E c \in Call : Continues(c) \/ \E t \in Tenant : \E asked \in Of(t) \cup {0} : Primes(c, t, asked)

Spec == Init /\ [][Next]_vars

-----------------------------------------------------------------------------
(***************************************************************************)
(* "a prime begun at time p reflects every change committed before p minus *)
(* MODULE_SETTINGS_STALENESS_MS, and fails rather than serve past that     *)
(* bound", and "the prime reflects at least" the revision it names         *)
(* (module-settings.ts:198-200, 187), whatever revalidation it shared and  *)
(* whatever loads landed in whatever order.  It does not hold once a tenant*)
(* is forgotten while something of it is under way, which the code does not*)
(* guard: evicted, or not held any more as its load raised, when a reload  *)
(* that a failed revalidation left behind goes on.                         *)
(***************************************************************************)
Unforgotten == torn = 0

Reflects(c, value) ==
    /\ value # None
    /\ \A r \in Of(call[c].tenant) :
        log[r].at + Staleness < call[c].begun \/ r <= call[c].asked => r <= value

PrimeIsFresh == [][Unforgotten' => \A c \in Call :
    call[c].at \in {"ready", "loaded"} /\ call'[c].at = "idle" =>
        Reflects(c, snap'[call[c].tenant])]_vars

(***************************************************************************)
(* "no read goes back past a write this process saw commit"                *)
(* (module-settings.ts:450-452), under the same condition.                 *)
(***************************************************************************)
KeepsItsWrites == Unforgotten => \A t \in Tenant :
    snap[t] # None => snap[t] >= wrote[t]
===============================================================================
