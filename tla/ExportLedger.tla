---------------------------- MODULE ExportLedger ----------------------------
(***************************************************************************)
(* What exports.core promises of a job, whoever runs it and however often  *)
(* (modules/exports/spec/module.yaml): the four statuses and their         *)
(* transitions, a completed job that carries exactly one file of its own,  *)
(* and retention that deletes files of settled jobs alone.                 *)
(***************************************************************************)
EXTENDS Naturals

CONSTANTS
    Job,     \* the export jobs of a workspace
    File,    \* every file a stage may write, a pair of its job and a number
    None

\* The job whose rows a file holds.
JobOf(f) == f[1]

VARIABLES
    status,  \* status[j] of the row, "absent" before it and "swept" after
    file,    \* file[j]: the object the row names, or None
    store    \* the files in the storage port

vars == <<status, file, store>>

Init ==
    /\ status = [j \in Job |-> "absent"]
    /\ file = [j \in Job |-> None]
    /\ store = {}

Request(j) ==
    /\ status[j] = "absent"
    /\ status' = [status EXCEPT ![j] = "requested"]
    /\ UNCHANGED <<file, store>>

Claim(j) ==
    /\ status[j] = "requested"
    /\ status' = [status EXCEPT ![j] = "running"]
    /\ UNCHANGED <<file, store>>

\* A running job settles once, with a stored file of its own or without one.
Complete(j) ==
    /\ status[j] = "running"
    /\ \E f \in store : /\ JobOf(f) = j
                       /\ f \notin {file[k] : k \in Job}
                       /\ file' = [file EXCEPT ![j] = f]
    /\ status' = [status EXCEPT ![j] = "completed"]
    /\ UNCHANGED store

Fail(j) ==
    /\ status[j] = "running"
    /\ status' = [status EXCEPT ![j] = "failed"]
    /\ UNCHANGED <<file, store>>

\* Retention removes rows of settled jobs; only then is a name given up.
Sweep(S) ==
    /\ \A j \in S : status[j] \in {"completed", "failed"}
    /\ status' = [j \in Job |-> IF j \in S THEN "swept" ELSE status[j]]
    /\ file' = [j \in Job |-> IF j \in S THEN None ELSE file[j]]
    /\ UNCHANGED store

\* A stage writes a file for its job, a re-seal writes one again that its row
\* names: nothing comes back that no job and no stage knows of.
Write(f) ==
    /\ \/ status[JobOf(f)] # "absent" /\ f \notin store
       \/ f = file[JobOf(f)]
    /\ store' = store \cup {f}
    /\ UNCHANGED <<status, file>>

Delete(f) ==
    /\ store' = store \ {f}
    /\ UNCHANGED <<status, file>>

Next ==
    \/ \E j \in Job : Request(j) \/ Claim(j) \/ Complete(j) \/ Fail(j)
    \/ \E S \in SUBSET Job : Sweep(S)
    \/ \E f \in File : Write(f) \/ Delete(f)

Spec == Init /\ [][Next]_vars
=============================================================================
