------------------------------ MODULE MCAgentRun ------------------------------
(* The instance of AgentRun for TLC: one worker executes two runs at once, *)
(* the other one.                                                          *)
EXTENDS AgentRun, TLC

CONSTANTS p, q

MCWorker == {p, q}
MCConcurrency == (p :> 2) @@ (q :> 1)
===============================================================================
