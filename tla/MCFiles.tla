------------------------------- MODULE MCFiles -------------------------------
(* The tools that read and change files, for model checking: one           *)
(* directory, the second of whose instances has locks of its own.          *)
EXTENDS FileTools

CONSTANTS f1, f2, d1

MCDirOf == [s \in Sessions |-> d1]

MCPatches ==
    {<<[op |-> "update", file |-> f1, to |-> f1], [op |-> "delete", file |-> f2, to |-> f2]>>,
     <<[op |-> "move", file |-> f2, to |-> f1], [op |-> "drop", file |-> f2, to |-> f2]>>}
=============================================================================
