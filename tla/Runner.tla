------------------------------- MODULE Runner -------------------------------
(***************************************************************************)
(* The session runner of effect/runner.ts: a state cell that serialises    *)
(* prompt loops ("runs") and shell commands, with callers that join a run  *)
(* in progress, a run queued behind a shell, and cancellation.             *)
(*                                                                         *)
(* Every caller makes one call, so a run, its Deferred `done` and its      *)
(* fiber are named by the prompt that created them, and a shell by its     *)
(* caller: the fresh `id` of the code is that name.  One action is one     *)
(* effect of the code: SynchronizedRef.modify is atomic, the effect it     *)
(* returns runs afterwards, in the same fiber, and other fibers may run in *)
(* between.  The work itself is external: it ends when it likes, or runs   *)
(* its finalizers when it is interrupted.                                  *)
(***************************************************************************)
EXTENDS Naturals

CONSTANTS
    Runners,    \* runner objects
    Prompts,    \* callers of ensureRunning
    Shells,     \* callers of startShell
    Cancels,    \* callers of cancel
    None        \* no run, no shell, no runner

ASSUME CallersAssumption ==
    /\ Prompts \cap Shells = {}
    /\ Prompts \cap Cancels = {}
    /\ Shells \cap Cancels = {}
    /\ None \notin Prompts \cup Shells \cup Cancels \cup Runners

Works   == Prompts \cup Shells
Callers == Works \cup Cancels

VARIABLES
    st,         \* the SynchronizedRef of each runner
    fiber,      \* how far the fiber of each work is
    exit,       \* how the work of a fiber ended
    kill,       \* an interrupt was requested for the fiber
    home,       \* the runner whose closures the fiber calls when it ends
    done,       \* the Deferred of each run
    pc,         \* how far each caller is
    joins,      \* the run whose Deferred a prompt awaits
    target,     \* the fiber a cancel stops
    drops,      \* the queued run a cancel drops
    at          \* the runner a cancel works on

runVars    == <<st, fiber, exit, kill, home, done>>
callVars   == <<pc, joins, target, drops, at>>
runnerVars == <<runVars, callVars>>

Idle               == [tag |-> "Idle", run |-> None, shell |-> None]
Running(p)         == [tag |-> "Running", run |-> p, shell |-> None]
Shell(s)           == [tag |-> "Shell", run |-> None, shell |-> s]
ShellThenRun(s, p) == [tag |-> "ShellThenRun", run |-> p, shell |-> s]

State == {Idle} \cup {Running(p) : p \in Prompts} \cup {Shell(s) : s \in Shells}
         \cup {ShellThenRun(s, p) : s \in Shells, p \in Prompts}

\* As Busy, blind to shells.
BusyRunning(r) == st[r].tag = "Running"

Busy(r) == st[r].tag # "Idle"

RunnerInit ==
    /\ st     = [r \in Runners |-> Idle]
    /\ fiber  = [w \in Works |-> "unborn"]
    /\ exit   = [w \in Works |-> "none"]
    /\ kill   = [w \in Works |-> FALSE]
    /\ home   = [w \in Works |-> None]
    /\ done   = [p \in Prompts |-> "none"]
    /\ pc     = [x \in Callers |-> "start"]
    /\ joins  = [p \in Prompts |-> None]
    /\ target = [c \in Cancels |-> None]
    /\ drops  = [c \in Cancels |-> None]
    /\ at     = [c \in Cancels |-> None]

-----------------------------------------------------------------------------
(* The calls.                                                              *)

\* Join the run in progress, or the run queued behind a shell.
Join(p, r) ==
    /\ st[r].tag \in {"Running", "ShellThenRun"}
    /\ joins' = [joins EXCEPT ![p] = st[r].run]
    /\ UNCHANGED runVars

\* Queue a run behind the shell.
Queue(p, r) ==
    /\ st[r].tag = "Shell"
    /\ st'    = [st EXCEPT ![r] = ShellThenRun(st[r].shell, p)]
    /\ done'  = [done EXCEPT ![p] = "open"]
    /\ home'  = [home EXCEPT ![p] = r]
    /\ joins' = [joins EXCEPT ![p] = p]
    /\ UNCHANGED <<fiber, exit, kill>>

\* Start a run.
Start(p, r) ==
    /\ st[r].tag = "Idle"
    /\ st'    = [st EXCEPT ![r] = Running(p)]
    /\ done'  = [done EXCEPT ![p] = "open"]
    /\ home'  = [home EXCEPT ![p] = r]
    /\ fiber' = [fiber EXCEPT ![p] = "working"]
    /\ joins' = [joins EXCEPT ![p] = p]
    /\ UNCHANGED <<exit, kill>>

EnsureRunning(p, r) ==
    /\ pc[p] = "start"
    /\ Join(p, r) \/ Queue(p, r) \/ Start(p, r)
    /\ pc' = [pc EXCEPT ![p] = "waiting"]
    /\ UNCHANGED <<target, drops, at>>

StartShell(s, r) ==
    /\ pc[s] = "start"
    /\ IF Busy(r)
       THEN /\ pc' = [pc EXCEPT ![s] = "refused"]
            /\ UNCHANGED runVars
       ELSE /\ pc'    = [pc EXCEPT ![s] = "waiting"]
            /\ st'    = [st EXCEPT ![r] = Shell(s)]
            /\ home'  = [home EXCEPT ![s] = r]
            /\ fiber' = [fiber EXCEPT ![s] = "working"]
            /\ UNCHANGED <<exit, kill, done>>
    /\ UNCHANGED <<joins, target, drops, at>>

\* The await on the Deferred, or on the shell's fiber, comes back.
Return(x) ==
    /\ pc[x] = "waiting"
    /\ x \in Prompts => done[joins[x]] \in {"exit", "cancelled"}
    /\ x \in Shells  => fiber[x] = "dead"
    /\ pc' = [pc EXCEPT ![x] = "returned"]
    /\ UNCHANGED <<runVars, joins, target, drops, at>>

-----------------------------------------------------------------------------
(* The fiber of a run or of a shell.                                       *)

\* The work ends by itself, with a value or a failure.
WorkEnds(w) ==
    /\ fiber[w] = "working"
    /\ fiber' = [fiber EXCEPT ![w] = "ended"]
    /\ exit'  = [exit EXCEPT ![w] = "exit"]
    /\ UNCHANGED <<st, kill, home, done, callVars>>

\* The interrupt reaches the work, whose finalizers start.
Interrupted(w) ==
    /\ fiber[w] = "working" /\ kill[w]
    /\ fiber' = [fiber EXCEPT ![w] = "stopping"]
    /\ UNCHANGED <<st, exit, kill, home, done, callVars>>

\* The finalizers end; a failing finalizer makes the cause more than an interrupt.
WorkStops(w) ==
    /\ fiber[w] = "stopping"
    /\ fiber' = [fiber EXCEPT ![w] = "ended"]
    /\ \E e \in {"interrupt", "exit"} : exit' = [exit EXCEPT ![w] = e]
    /\ UNCHANGED <<st, kill, home, done, callVars>>

\* As IsCurrent, whichever run the runner has.
IsAnyRun(p) == st[home[p]].tag = "Running"

\* The run is still the run of its runner.
IsCurrent(p) == st[home[p]] = Running(p)

\* As Vacate, doing nothing, and doing nothing when a run is queued.
VacateNot(r)   == st' = st
VacateQueue(r) == st' = [st EXCEPT ![r] = IF @.tag = "ShellThenRun" THEN @ ELSE Idle]

Vacate(r) == st' = [st EXCEPT ![r] = Idle]

\* onExit of a run: the runner goes idle if the run is still its run.
FinishRun(p) ==
    /\ fiber[p] = "ended"
    /\ IF IsCurrent(p)
       THEN /\ Vacate(home[p])
            /\ fiber' = [fiber EXCEPT ![p] = "idling"]
       ELSE /\ fiber' = [fiber EXCEPT ![p] = "completing"]
            /\ UNCHANGED st
    /\ UNCHANGED <<exit, kill, home, done, callVars>>

\* The onIdle hook returns, in the fiber that made its runner idle.
WorkIdled(w) ==
    /\ fiber[w] = "idling"
    /\ fiber' = [fiber EXCEPT ![w] = IF w \in Prompts THEN "completing" ELSE "dead"]
    /\ UNCHANGED <<st, exit, kill, home, done, callVars>>

\* As Settle, leaving the Deferred of a cancelled run open.
SettleExits(d, result) == IF d = "open" /\ result = "exit" THEN result ELSE d

\* A Deferred is completed once: a later completion has no effect.
Settle(d, result) == IF d = "open" THEN result ELSE d

\* An exit with interrupts only becomes Cancelled.
Outcome(p) == IF exit[p] = "interrupt" THEN "cancelled" ELSE "exit"

Complete(p) ==
    /\ fiber[p] = "completing"
    /\ fiber' = [fiber EXCEPT ![p] = "dead"]
    /\ done'  = [done EXCEPT ![p] = Settle(@, Outcome(p))]
    /\ UNCHANGED <<st, exit, kill, home, callVars>>

\* Mutant: the queued run is forgotten.
LoseQueued(s, r) ==
    /\ st[r].tag = "ShellThenRun" /\ st[r].shell = s
    /\ st'    = [st EXCEPT ![r] = Idle]
    /\ fiber' = [fiber EXCEPT ![s] = "idling"]

StartQueued(s, r) ==
    /\ st[r].tag = "ShellThenRun" /\ st[r].shell = s
    /\ st'    = [st EXCEPT ![r] = Running(st[r].run)]
    /\ fiber' = [fiber EXCEPT ![s] = "dead", ![st[r].run] = "working"]

\* ensuring of a shell: go idle, or start the queued run, or leave a runner
\* that has moved on alone.
FinishShell(s) ==
    LET r == home[s] IN
    /\ fiber[s] = "ended"
    /\ \/ /\ st[r] = Shell(s)
          /\ Vacate(r)
          /\ fiber' = [fiber EXCEPT ![s] = "idling"]
       \/ StartQueued(s, r)
       \/ /\ st[r].shell # s
          /\ fiber' = [fiber EXCEPT ![s] = "dead"]
          /\ UNCHANGED st
    /\ UNCHANGED <<exit, kill, home, done, callVars>>

-----------------------------------------------------------------------------
(* Cancellation.                                                           *)

Cancel(c, r) ==
    /\ pc[c] = "start"
    /\ at' = [at EXCEPT ![c] = r]
    /\ \/ /\ st[r].tag = "Idle"
          /\ pc' = [pc EXCEPT ![c] = "returned"]
          /\ UNCHANGED <<target, drops>>
       \/ /\ st[r].tag = "Running"
          /\ pc'     = [pc EXCEPT ![c] = "killing"]
          /\ target' = [target EXCEPT ![c] = st[r].run]
          /\ UNCHANGED drops
       \/ /\ st[r].tag = "Shell"
          /\ pc'     = [pc EXCEPT ![c] = "killing"]
          /\ target' = [target EXCEPT ![c] = st[r].shell]
          /\ UNCHANGED drops
       \/ /\ st[r].tag = "ShellThenRun"
          /\ pc'     = [pc EXCEPT ![c] = "dropping"]
          /\ target' = [target EXCEPT ![c] = st[r].shell]
          /\ drops'  = [drops EXCEPT ![c] = st[r].run]
    /\ Vacate(r)
    /\ UNCHANGED <<fiber, exit, kill, home, done, joins>>

\* As Drop, without failing the Deferred.
DropSilently(c) ==
    /\ pc[c] = "dropping"
    /\ pc' = [pc EXCEPT ![c] = "killing"]
    /\ UNCHANGED <<runVars, joins, target, drops, at>>

\* Deferred.fail of the queued run.
Drop(c) ==
    /\ pc[c] = "dropping"
    /\ pc'   = [pc EXCEPT ![c] = "killing"]
    /\ done' = [done EXCEPT ![drops[c]] = Settle(@, "cancelled")]
    /\ UNCHANGED <<st, fiber, exit, kill, home, joins, target, drops, at>>

\* Fiber.interrupt requests the interrupt ...
Kill(c) ==
    /\ pc[c] = "killing"
    /\ pc'   = [pc EXCEPT ![c] = "reaping"]
    /\ kill' = [kill EXCEPT ![target[c]] = TRUE]
    /\ UNCHANGED <<st, fiber, exit, home, done, joins, target, drops, at>>

\* As Reap, without awaiting the fiber.
ReapAtOnce(c) ==
    /\ pc[c] = "reaping"
    /\ pc' = [pc EXCEPT ![c] = "checking"]
    /\ UNCHANGED <<runVars, joins, target, drops, at>>

\* ... and awaits the fiber, and a run's cancel awaits its Deferred too.
Reap(c) ==
    /\ pc[c] = "reaping"
    /\ fiber[target[c]] = "dead"
    /\ target[c] \in Prompts => done[target[c]] # "open"
    /\ pc' = [pc EXCEPT ![c] = "checking"]
    /\ UNCHANGED <<runVars, joins, target, drops, at>>

\* As IdleIfCurrent, leaving the hook to the fiber that was stopped.
IdleNever(c) ==
    /\ pc[c] = "checking"
    /\ pc' = [pc EXCEPT ![c] = "returned"]
    /\ UNCHANGED <<runVars, joins, target, drops, at>>

IdleIfCurrent(c) ==
    /\ pc[c] = "checking"
    /\ pc' = [pc EXCEPT ![c] = IF Busy(at[c]) THEN "returned" ELSE "idling"]
    /\ UNCHANGED <<runVars, joins, target, drops, at>>

\* The onIdle hook returns, in the cancel that found its runner idle.
CancelIdled(c) ==
    /\ pc[c] = "idling"
    /\ pc' = [pc EXCEPT ![c] = "returned"]
    /\ UNCHANGED <<runVars, joins, target, drops, at>>

-----------------------------------------------------------------------------
RunStep(p)    == FinishRun(p) \/ Complete(p)
WorkStep(w)   == WorkEnds(w) \/ Interrupted(w) \/ WorkStops(w) \/ WorkIdled(w)
CancelStep(c) == Drop(c) \/ Kill(c) \/ Reap(c) \/ IdleIfCurrent(c) \/ CancelIdled(c)

RunnerNext ==
    \/ \E p \in Prompts, r \in Runners : EnsureRunning(p, r)
    \/ \E s \in Shells, r \in Runners : StartShell(s, r)
    \/ \E c \in Cancels, r \in Runners : Cancel(c, r)
    \/ \E x \in Works : Return(x)
    \/ \E w \in Works : WorkStep(w)
    \/ \E p \in Prompts : RunStep(p)
    \/ \E s \in Shells : FinishShell(s)
    \/ \E c \in Cancels : CancelStep(c)

RunnerSpec == RunnerInit /\ [][RunnerNext]_runnerVars

\* The scheduler runs every fiber that can run, and an interrupted work stops.
\* Nothing makes a work end by itself, or a client call.
Scheduling ==
    /\ \A x \in Works : WF_runnerVars(Return(x))
    /\ \A w \in Works : WF_runnerVars(Interrupted(w) \/ WorkStops(w) \/ WorkIdled(w))
    /\ \A p \in Prompts : WF_runnerVars(RunStep(p))
    /\ \A s \in Shells : WF_runnerVars(FinishShell(s))
    /\ \A c \in Cancels : WF_runnerVars(CancelStep(c))

FairRunnerSpec == RunnerSpec /\ Scheduling

-----------------------------------------------------------------------------
FiberState == {"unborn", "working", "stopping", "ended", "idling", "completing", "dead"}
Alive(w)   == fiber[w] \notin {"unborn", "dead"}

\* The types of the variables.
TypeOK ==
    /\ st     \in [Runners -> State]
    /\ fiber  \in [Works -> FiberState]
    /\ exit   \in [Works -> {"none", "exit", "interrupt"}]
    /\ kill   \in [Works -> BOOLEAN]
    /\ home   \in [Works -> Runners \cup {None}]
    /\ done   \in [Prompts -> {"none", "open", "exit", "cancelled"}]
    /\ pc     \in [Callers -> {"start", "waiting", "returned", "refused", "dropping",
                               "killing", "reaping", "checking", "idling"}]
    /\ joins  \in [Prompts -> Prompts \cup {None}]
    /\ target \in [Cancels -> Works \cup {None}]
    /\ drops  \in [Cancels -> Prompts \cup {None}]
    /\ at     \in [Cancels -> Runners \cup {None}]

Owns(r, w) == st[r].run = w \/ st[r].shell = w

\* What a runner's state names is really there: the run or shell it holds has a
\* fiber that has not finished, and a queued run has not started.  A finish
\* without the id check, or a cancel that forgets the state, breaks it.
HeldIsLive ==
    \A r \in Runners :
        /\ st[r].tag = "Running" =>
              fiber[st[r].run] \in {"working", "stopping", "ended"}
        /\ st[r].shell # None =>
              fiber[st[r].shell] \in {"working", "stopping", "ended"}
        /\ st[r].tag = "ShellThenRun" =>
              fiber[st[r].run] = "unborn" /\ done[st[r].run] = "open"

\* No work is lost track of: a fiber still working is the one its runner holds,
\* or an interrupt has been requested for it, or a cancel is about to.
NoOrphanWork ==
    \A w \in Works : fiber[w] = "working" =>
        \/ kill[w]
        \/ Owns(home[w], w)
        \/ \E c \in Cancels : pc[c] \in {"dropping", "killing"} /\ target[c] = w

\* No waiter is stranded: every run a prompt waits for has been answered, or
\* its fiber is alive, or a shell will start it, or a cancel is about to fail it.
NoStrandedWaiter ==
    \A p \in Prompts : pc[p] = "waiting" =>
        LET q == joins[p] IN
        \/ done[q] \in {"exit", "cancelled"}
        \/ Alive(q)
        \/ \E r \in Runners : st[r].tag = "ShellThenRun" /\ st[r].run = q
        \/ \E c \in Cancels : pc[c] = "dropping" /\ drops[c] = q

\* A cancel that has returned, or is past its await, has outlived the fiber it
\* was asked to stop, and left no caller of that run unanswered.
CancelOutlivesTarget ==
    \A c \in Cancels :
        pc[c] \in {"checking", "idling", "returned"} /\ target[c] # None =>
            /\ fiber[target[c]] = "dead"
            /\ target[c] \in Prompts => done[target[c]] \in {"exit", "cancelled"}
            /\ drops[c] # None => done[drops[c]] \in {"exit", "cancelled"}

\* One runner has at most one work that nobody has asked to stop.
OneWorkPerRunner ==
    \A v, w \in Works :
        /\ fiber[v] = "working" /\ fiber[w] = "working"
        /\ ~kill[v] /\ ~kill[w]
        /\ \A c \in Cancels : pc[c] \in {"dropping", "killing"} => target[c] \notin {v, w}
        /\ home[v] = home[w]
        => v = w

\* A run whose Deferred a cancel failed while it was queued never starts.
DroppedNeverStarts ==
    [][\A p \in Prompts : done[p] = "cancelled" /\ fiber[p] = "unborn"
                            => fiber'[p] = "unborn"]_runnerVars

\* A shell is followed, not joined, by the run queued behind it: a run starts
\* out of the queue only in the step in which its shell is over.
QueuedRunFollowsShell ==
    [][\A r \in Runners :
          st[r].tag = "ShellThenRun" /\ st'[r].tag = "Running"
            => fiber'[st[r].shell] = "dead" /\ st'[r].run = st[r].run]_runnerVars

\* Every cancel returns, whether or not the work would end by itself.
CancelReturns ==
    \A c \in Cancels : pc[c] # "start" ~> pc[c] = "returned"

\* If every work ends, by itself or because it is stopped, every call returns or
\* was refused.
EveryCallReturns ==
    (\A w \in Works : []<>(fiber[w] # "working"))
        => \A x \in Works : pc[x] # "start" ~> pc[x] \in {"returned", "refused"}

-----------------------------------------------------------------------------
\* The callers of ensureRunning see single flight: the leader of a runner is the
\* run its state holds, running or queued behind a shell.
Flight == INSTANCE SingleFlight WITH
    leader  <- [r \in Runners |-> st[r].run],
    answer  <- done,
    follows <- joins,
    phase   <- [p \in Prompts |-> pc[p]]

\* Overlapping prompts share one run, and none gets the answer of a run that
\* was over before it asked.
IsSingleFlight == Flight!Spec
=============================================================================
