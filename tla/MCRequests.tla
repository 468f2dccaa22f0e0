----------------------------- MODULE MCRequests -----------------------------
(* What a tool call and a request for a permission go through, each by      *)
(* itself: the initial state picks the one that moves.                      *)
EXTENDS MCPermission, MCToolCalls

VARIABLE moves

\* What the database holds makes a difference to Permission only.
MCInit ==
    /\ Init /\ ToolsInit
    /\ moves \in {"permission", "calls"}
    /\ moves = "calls" => approved[0] = NoRules

MCNext ==
    /\ UNCHANGED moves
    /\ \/ moves = "permission" /\ Next /\ UNCHANGED toolVars
       \/ moves = "calls" /\ ToolsNext /\ UNCHANGED vars

MCSpec ==
    /\ MCInit /\ [][MCNext]_<<vars, toolVars, moves>>
    /\ Fairness /\ WF_toolVars(CleanupStep)
=============================================================================
