-------------------------- MODULE MCWorkspaceSync --------------------------
(* One process writes, one of another device follows it.                   *)
EXTENDS WorkspaceSync, TLC

CONSTANTS w1, f1, home, away

MCDbOf == (w1 :> home) @@ (f1 :> away)
MCUp   == f1 :> w1

\* To a loop one change of a session is like another: of those that do not end it, the
\* writer makes one kind.  Nothing fair leads to what this leaves out.
OneKind ==
    \A s \in Sessions : \A i \in DOMAIN written[s] : written[s][i].type \notin {"updated", "unpart"}
=============================================================================
