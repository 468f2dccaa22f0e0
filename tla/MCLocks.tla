------------------------------- MODULE MCLocks -------------------------------
(* Three locks of the program, each by itself: the runner of a session     *)
(* (Runner), the lock between processes (Flock), and the lock of a file    *)
(* (FileTools).  The initial state picks the one that moves.               *)
EXTENDS Flock

CONSTANTS Runners, Prompts, Shells, Cancels, None, Calls, Session, Directory, Path, Nobody

VARIABLES st, fiber, exit, kill, home, done, pc, joins, target, drops, at,
          disk, reads, lock, gen, call, acted, seen, noted, news,
          part

R == INSTANCE Runner

\* Calls of one session that want one file, and a disposal.  Patches want no lock.
F == INSTANCE FileTools WITH
    Users <- {}, Directories <- {Directory}, Sessions <- {Session},
    DirOf <- [s \in {Session} |-> Directory], Readers <- {Session}, Checking <- TRUE,
    MaxDisposals <- 1, Files <- {Path}, Patches <- {}

fileVars    == <<disk, reads, lock, gen, call, acted, seen, noted, news>>
sessionVars == <<st, fiber, exit, kill, home, done, pc, joins, target, drops, at>>
vars == <<flockVars, fileVars, sessionVars, part>>

MCInit == FlockInit /\ F!FilesInit /\ R!RunnerInit /\ part \in {"flock", "files", "runner"}

MCNext ==
    /\ UNCHANGED part
    /\ \/ part = "flock"  /\ FlockNext    /\ UNCHANGED <<fileVars, sessionVars>>
       \/ part = "files"  /\ F!FilesNext  /\ UNCHANGED <<flockVars, sessionVars>>
       \/ part = "runner" /\ R!RunnerNext /\ UNCHANGED <<flockVars, fileVars>>

\* Nothing of a part that does not move is enabled to which fairness applies.
MCSpec == MCInit /\ [][MCNext]_vars /\ FlockFairness /\ F!FilesFairness /\ R!Scheduling

CancelReturns    == R!CancelReturns
EveryCallReturns == R!EveryCallReturns
FilesComeFree    == F!FilesComeFree
=============================================================================
