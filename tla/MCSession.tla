----------------------------- MODULE MCSession -----------------------------
(* What belongs to a session, each by itself: its runners, the ids of the  *)
(* process it is in, the files its tools change.  The initial state picks  *)
(* the one that moves.                                                     *)
EXTENDS MCRunState, Identifier, MCFiles

VARIABLE moves

\* Other callers are left as they are: what moves most has no use for their symmetry.
FewerSymmetry == Permutations(Runners) \cup Permutations(Prompts)

MCInit == Init /\ IdInit /\ FilesInit /\ moves \in {"runners", "ids", "files"}

MCNext ==
    /\ UNCHANGED moves
    /\ \/ moves = "runners" /\ Next /\ UNCHANGED <<idVars, filesVars>>
       \/ moves = "ids" /\ IdNext /\ UNCHANGED <<vars, filesVars>>
       \/ moves = "files" /\ FilesNext /\ UNCHANGED <<vars, idVars>>

MCSpec == MCInit /\ [][MCNext]_<<vars, idVars, filesVars, moves>>
=============================================================================
