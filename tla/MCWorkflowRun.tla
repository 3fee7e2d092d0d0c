--------------------------- MODULE MCWorkflowRun ---------------------------
(* The graphs on which WorkflowRun is checked. *)
EXTENDS WorkflowRun, TLC

\* input -> agent -> output
ChainOrder == <<"in", "ask", "out">>
ChainKind == [n \in {"in", "ask", "out"} |->
    CASE n = "in" -> "input" [] n = "ask" -> "agent" [] n = "out" -> "output"]
ChainEdge == {[from |-> "in", port |-> "data", to |-> "ask"],
              [from |-> "ask", port |-> "success", to |-> "out"]}

\* the same chain through an approval
SignOrder == <<"in", "sign", "out">>
SignKind == [n \in {"in", "sign", "out"} |->
    CASE n = "in" -> "input" [] n = "sign" -> "approval" [] n = "out" -> "output"]
SignEdge == {[from |-> "in", port |-> "data", to |-> "sign"],
             [from |-> "sign", port |-> "approved", to |-> "out"]}

\* a gate with an action on one branch and an agent on the other; both meet in a
\* merge, and the action's failure is a branch of its own
ForkOrder == <<"in", "gate", "act", "ask", "join", "out">>
ForkKind == [n \in {"in", "gate", "act", "ask", "join", "out"} |->
    CASE n = "in" -> "input" [] n = "gate" -> "decision" [] n = "act" -> "action"
      [] n = "ask" -> "agent" [] n = "join" -> "merge" [] n = "out" -> "output"]
ForkEdge == {[from |-> "in", port |-> "data", to |-> "gate"],
             [from |-> "gate", port |-> "pass", to |-> "act"],
             [from |-> "gate", port |-> "fail", to |-> "ask"],
             [from |-> "ask", port |-> "success", to |-> "join"],
             [from |-> "act", port |-> "success", to |-> "join"],
             [from |-> "act", port |-> "failure", to |-> "join"],
             [from |-> "join", port |-> "data", to |-> "out"]}

NoNode == {}
Act == {"act"}
AllOutcomes == {"succeeded", "failed", "cancelled", "unstarted"}
Succeeding == {"succeeded"}
=============================================================================
