---------------------------- MODULE DatabaseLeases ----------------------------
(***************************************************************************)
(* The leases of createDatabaseProvider (packages/database/src/provider.ts)*)
(* as the modules hold them (e.g. notifications/src/server/runtime.ts): a  *)
(* module takes its leases when its repository is first used and gives     *)
(* them back when it is disposed; disposal of the provider waits for the   *)
(* leases, but no longer than LEASE_DRAIN_TIMEOUT_MS.                      *)
(***************************************************************************)
EXTENDS WorkerTicker

VARIABLES
    provider,  \* provider[g]: "ready", "disposing" or "disposed"
    leased,    \* leased[g]: the compositions that hold leases
    disposed   \* disposed[g]: the compositions that have been disposed

LeaseTypeOK ==
    /\ provider \in [Generation -> {"ready", "disposing", "disposed"}]
    /\ {leased, disposed} \subseteq [Generation -> SUBSET Composition]

LeaseInit ==
    /\ provider = [g \in Generation |-> "ready"]
    /\ leased = [g \in Generation |-> {}]
    /\ disposed = [g \in Generation |-> {}]

\* acquire() by the repository of k; it raises once disposal has begun.  A
\* module that was disposed opens its repository again when somebody asks.
Acquires(g, k) ==
    /\ provider[g] = "ready"
    /\ leased' = [leased EXCEPT ![g] = @ \cup {k}]
    /\ UNCHANGED <<provider, disposed>>

\* dispose() of the composition k: its loops stop and drain, then its leases go.
DisposesModule(g, k) ==
    /\ disposed' = [disposed EXCEPT ![g] = @ \cup {k}]
    /\ leased' = [leased EXCEPT ![g] = @ \ {k}]
    /\ running' = [running EXCEPT ![g] = @ \ {k}]
    /\ UNCHANGED provider

\* dispose() raises: its loops have stopped, its leases are still held.
DisposeRaises(g, k) ==
    /\ disposed' = [disposed EXCEPT ![g] = @ \cup {k}]
    /\ running' = [running EXCEPT ![g] = @ \ {k}]
    /\ UNCHANGED <<provider, leased>>

DisposesProvider(g) ==
    /\ provider[g] = "ready"
    /\ provider' = [provider EXCEPT ![g] = "disposing"]
    /\ UNCHANGED <<leased, disposed>>

\* The leases are back, or the limit has passed: the pools close.
ClosesPools(g) ==
    /\ provider[g] = "disposing"
    /\ provider' = [provider EXCEPT ![g] = "disposed"]
    /\ UNCHANGED <<leased, disposed>>
=============================================================================
