---------------------------- MODULE MCPromptLoop ----------------------------
(* A small instance of PromptLoop.                                         *)
EXTENDS PromptLoop, FiniteSets

Called(X) == Cardinality({x \in X : call[x] # "new"})

\* At most three callers and reverts in one behaviour, and with three of them neither a
\* stop nor a step that goes on; at most three prompts, summaries and such steps.
Few ==
    /\ Called(Callers \cup Reverts) = 3 => stops + steps = 0
    /\ Called(Callers \cup Reverts) <= 3 /\ Called(Callers) + steps <= 3
=============================================================================
