---------------------------- MODULE MCToolCalls ----------------------------
(* Two calls and one retry, so that an id may come back while the tool that   *)
(* had it still runs.                                                         *)
EXTENDS ToolCalls, TLC

CONSTANTS c1, c2
=============================================================================
