------------------------------ MODULE MCServer ------------------------------
(* The loop of a session, the instances of a server, and the events it     *)
(* writes and another device replays, each by itself: the initial state    *)
(* picks the one that moves.                                               *)
EXTENDS MCPromptLoop, Instances, MCSyncEvent

VARIABLE moves

\* Directories, requests and callers of disposeAll are interchangeable.
Symmetry == Permutations(Dirs) \cup Permutations(Requests) \cup Permutations(Alls)

MCInit == Init /\ InstancesInit /\ SyncInit /\ moves \in {"loop", "instances", "events"}

MCNext ==
    /\ UNCHANGED moves
    /\ \/ moves = "loop" /\ Next /\ UNCHANGED <<instVars, syncVars>>
       \/ moves = "instances" /\ InstancesNext /\ UNCHANGED <<vars, syncVars>>
       \/ moves = "events" /\ SyncNext /\ UNCHANGED <<vars, instVars>>

\* At most five boots, disposals and calls of disposeAll in one behaviour.
FewInstances ==
    Cardinality({b \in Boots : boot[b].is # "none"}) + Cardinality({x \in Disposals : disposal[x].at # "new"})
        + Cardinality({a \in Alls : caller[a] # "new"}) <= 5

MCSpec == MCInit /\ [][MCNext]_<<vars, instVars, syncVars, moves>>
=============================================================================
