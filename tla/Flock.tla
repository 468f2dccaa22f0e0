-------------------------------- MODULE Flock --------------------------------
(***************************************************************************)
(* util/flock.ts: a lock between processes, held by whoever has made the   *)
(* directory of that name.  Its owner puts a heartbeat and a file with its *)
(* token into it and touches the heartbeat while it works.  A lock whose   *)
(* heartbeat has not been touched for staleMs is broken by whoever makes   *)
(* the breaker, a second directory.                                        *)
(*                                                                         *)
(* A process calls acquire once.  Every call of the file system is a step, *)
(* the removal of a directory with its files and the three stats of stale  *)
(* one each.  Time is kept as one bit: a thing is old when it was last     *)
(* touched more than staleMs ago, and what a living process is at work     *)
(* with does not get old, unless the process is held up for that long.     *)
(***************************************************************************)
EXTENDS Naturals

CONSTANTS
    Procs,       \* processes
    MaxCrashes,  \* bound: processes that end on the way
    MaxDelays,   \* bound: times a process is held up for longer than staleMs
    NoProc       \* no process

ASSUME FlockAssumption == NoProc \notin Procs /\ {MaxCrashes, MaxDelays} \subseteq Nat

VARIABLES
    dir,      \* the lock directory: who made it, who wrote heartbeat and token, is it old
    breaker,  \* the breaker directory: who made it, is it old
    stage,    \* where each process is
    crashes, delays,
    swept     \* history: a breaker was removed as stale

flockVars == <<dir, breaker, stage, crashes, delays, swept>>

NoDir == [there |-> FALSE, of |-> NoProc, beat |-> NoProc, meta |-> NoProc, old |-> FALSE]
NoBreaker == [there |-> FALSE, of |-> NoProc, old |-> FALSE]

Making   == {"beat", "meta"}
Owning   == {"holding", "checking", "removing"}
Breaking == {"recheck", "clear", "make", "leaveWon", "leaveLost"}
Over     == {"done", "failed", "dead"}

FlockInit ==
    /\ dir = NoDir /\ breaker = NoBreaker
    /\ stage = [p \in Procs |-> "idle"]
    /\ crashes = 0 /\ delays = 0
    /\ swept = FALSE

Goes(p, where) == stage' = [stage EXCEPT ![p] = where]

Mkdir(p) ==
    dir' = [there |-> TRUE, of |-> p, beat |-> NoProc, meta |-> NoProc, old |-> FALSE]

-----------------------------------------------------------------------------
(* tryAcquireLockDir                                                       *)

Want(p) ==
    /\ stage[p] = "idle" /\ Goes(p, "trying")
    /\ UNCHANGED <<dir, breaker, crashes, delays, swept>>

Acquire(p) ==
    /\ stage[p] = "trying" /\ ~dir.there
    /\ Mkdir(p) /\ Goes(p, "beat")
    /\ UNCHANGED <<breaker, crashes, delays, swept>>

\* A lock that is there and not stale is tried again after a while, until the time is
\* over or the caller aborts.
GiveUp(p) ==
    /\ stage[p] = "trying" /\ dir.there /\ Goes(p, "failed")
    /\ UNCHANGED <<dir, breaker, crashes, delays, swept>>

Stale == dir.there /\ dir.old

FindStale(p) ==
    /\ stage[p] = "trying" /\ Stale /\ Goes(p, "claim")
    /\ UNCHANGED <<dir, breaker, crashes, delays, swept>>

Claim(p) ==
    /\ stage[p] = "claim" /\ ~breaker.there
    /\ breaker' = [there |-> TRUE, of |-> p, old |-> FALSE]
    /\ Goes(p, "recheck")
    /\ UNCHANGED <<dir, crashes, delays, swept>>

\* Mutant: a stale breaker stays.
YieldAlways(p) ==
    /\ stage[p] = "claim" /\ breaker.there
    /\ Goes(p, "trying")
    /\ UNCHANGED <<dir, breaker, crashes, delays, swept>>

\* Another process has the breaker.  A stale one is removed, and the lock tried again.
Yield(p) ==
    /\ stage[p] = "claim" /\ breaker.there
    /\ Goes(p, IF breaker.old THEN "sweep" ELSE "trying")
    /\ UNCHANGED <<dir, breaker, crashes, delays, swept>>

Sweep(p) ==
    /\ stage[p] = "sweep" /\ Goes(p, "trying")
    /\ breaker' = NoBreaker /\ swept' = TRUE
    /\ UNCHANGED <<dir, crashes, delays>>

\* Mutant: the lock is not looked at again under the breaker.
RecheckNot(p) ==
    /\ stage[p] = "recheck"
    /\ Goes(p, "clear")
    /\ UNCHANGED <<dir, breaker, crashes, delays, swept>>

Recheck(p) ==
    /\ stage[p] = "recheck"
    /\ Goes(p, IF Stale THEN "clear" ELSE "leaveLost")
    /\ UNCHANGED <<dir, breaker, crashes, delays, swept>>

Clear(p) ==
    /\ stage[p] = "clear" /\ Goes(p, "make")
    /\ dir' = NoDir
    /\ UNCHANGED <<breaker, crashes, delays, swept>>

Make(p) ==
    /\ stage[p] = "make"
    /\ IF dir.there THEN Goes(p, "leaveLost") /\ UNCHANGED dir
                    ELSE Goes(p, "leaveWon") /\ Mkdir(p)
    /\ UNCHANGED <<breaker, crashes, delays, swept>>

\* The breaker is removed, whoever has made it.
Leave(p) ==
    /\ stage[p] \in {"leaveWon", "leaveLost"}
    /\ breaker' = NoBreaker
    /\ Goes(p, IF stage[p] = "leaveWon" THEN "beat" ELSE "trying")
    /\ UNCHANGED <<dir, crashes, delays, swept>>

\* The heartbeat and then the token are written, unless there is one or the directory is
\* gone.
Beat(p) ==
    /\ stage[p] = "beat"
    /\ IF dir.there /\ dir.beat = NoProc
       THEN Goes(p, "meta") /\ dir' = [dir EXCEPT !.beat = p, !.old = FALSE]
       ELSE Goes(p, "spoilt") /\ UNCHANGED dir
    /\ UNCHANGED <<breaker, crashes, delays, swept>>

Meta(p) ==
    /\ stage[p] = "meta"
    /\ IF dir.there /\ dir.meta = NoProc
       THEN Goes(p, "holding") /\ dir' = [dir EXCEPT !.meta = p]
       ELSE Goes(p, "spoilt") /\ UNCHANGED dir
    /\ UNCHANGED <<breaker, crashes, delays, swept>>

\* The lock seems compromised: it is removed and acquire fails.
Spoil(p) ==
    /\ stage[p] = "spoilt" /\ Goes(p, "failed")
    /\ dir' = NoDir
    /\ UNCHANGED <<breaker, crashes, delays, swept>>

-----------------------------------------------------------------------------
(* The owner.                                                              *)

Touch(p) ==
    /\ stage[p] = "holding" /\ dir.beat # NoProc
    /\ dir' = [dir EXCEPT !.old = FALSE]
    /\ UNCHANGED <<breaker, stage, crashes, delays, swept>>

\* What needed the lock has ended: release reads the token.
Finish(p) ==
    /\ stage[p] = "holding" /\ Goes(p, "checking")
    /\ UNCHANGED <<dir, breaker, crashes, delays, swept>>

CheckToken(p) ==
    /\ stage[p] = "checking"
    /\ Goes(p, IF dir.meta = p THEN "removing" ELSE "failed")
    /\ UNCHANGED <<dir, breaker, crashes, delays, swept>>

Remove(p) ==
    /\ stage[p] = "removing" /\ Goes(p, "done")
    /\ dir' = NoDir
    /\ UNCHANGED <<breaker, crashes, delays, swept>>

-----------------------------------------------------------------------------
(* Crashes and time.                                                       *)

Crash(p) ==
    /\ crashes < MaxCrashes /\ stage[p] \notin Over \cup {"idle"}
    /\ crashes' = crashes + 1
    /\ Goes(p, "dead")
    /\ UNCHANGED <<dir, breaker, delays, swept>>

\* What a living process is at work with gets old only when the process is held up.
Ages(kept) == IF kept THEN delays < MaxDelays /\ delays' = delays + 1 ELSE UNCHANGED delays

AgeLock ==
    /\ dir.there /\ ~dir.old
    /\ Ages(\/ dir.of # NoProc /\ stage[dir.of] \in Making \cup {"leaveWon"}
            \/ dir.beat # NoProc /\ \E p \in Procs : stage[p] \in Owning)
    /\ dir' = [dir EXCEPT !.old = TRUE]
    /\ UNCHANGED <<breaker, stage, crashes, swept>>

AgeBreaker ==
    /\ breaker.there /\ ~breaker.old
    /\ Ages(stage[breaker.of] \in Breaking)
    /\ breaker' = [breaker EXCEPT !.old = TRUE]
    /\ UNCHANGED <<dir, stage, crashes, swept>>

FlockStep(p) ==
    \/ Acquire(p) \/ FindStale(p) \/ Claim(p) \/ Yield(p) \/ Sweep(p) \/ Recheck(p)
    \/ Clear(p) \/ Make(p) \/ Leave(p) \/ Beat(p) \/ Meta(p) \/ Spoil(p)
    \/ Finish(p) \/ CheckToken(p) \/ Remove(p)

FlockNext ==
    \/ \E p \in Procs : Want(p) \/ GiveUp(p) \/ FlockStep(p) \/ Touch(p) \/ Crash(p)
    \/ AgeLock \/ AgeBreaker

FlockSpec == FlockInit /\ [][FlockNext]_flockVars

\* Processes go on unless they crash, what needs the lock ends, and time passes.
FlockFairness ==
    /\ \A p \in Procs : WF_flockVars(FlockStep(p))
    /\ WF_flockVars(AgeLock) /\ WF_flockVars(AgeBreaker)

-----------------------------------------------------------------------------
Holders == {p \in Procs : stage[p] = "holding"}

\* Two processes never hold the lock at once as long as no process is held up and no
\* stale breaker was removed; breaking a lock after a crash is safe.
OneOwner ==
    delays = 0 /\ ~swept => \A p, q \in Holders : p = q

\* A process that wants the lock is not kept from it by crashes, of owners or breakers.
LockComes ==
    \A p \in Procs : stage[p] = "trying" ~> stage[p] \in Owning \cup Over

\* One process at a time cleans a stale lock up.
OneCleansUp ==
    delays = 0 => \A p, q \in Procs : {stage[p], stage[q]} \subseteq {"clear", "make"} => p = q
=============================================================================
