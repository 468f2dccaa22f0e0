---------------------------- MODULE RunnerProofs ----------------------------
(***************************************************************************)
(* Proofs about Runner, for any sets of runners, prompts, shells and       *)
(* cancels.  The inductive invariant IInv ties the four pieces of state    *)
(* that must agree: what a runner holds, how far the fibers are, what the  *)
(* Deferreds say, and what the cancels are about to do.                    *)
(***************************************************************************)
EXTENDS Runner, TLAPS

\* What a runner holds is there, and belongs to it.
Holding ==
    \A r \in Runners :
        /\ st[r].tag = "Running" =>
              /\ fiber[st[r].run] \in {"working", "stopping", "ended"}
              /\ home[st[r].run] = r /\ done[st[r].run] = "open"
        /\ st[r].shell # None =>
              /\ fiber[st[r].shell] \in {"working", "stopping", "ended"}
              /\ home[st[r].shell] = r
        /\ st[r].tag = "ShellThenRun" =>
              /\ fiber[st[r].run] = "unborn"
              /\ home[st[r].run] = r /\ done[st[r].run] = "open"

\* Nothing of a caller exists before its call, and what exists has a runner.
Unused ==
    /\ \A w \in Works : pc[w] = "start" => fiber[w] = "unborn"
    /\ \A p \in Prompts : pc[p] = "start" => done[p] = "none"
    /\ \A p \in Prompts : done[p] = "none" => fiber[p] = "unborn"
    /\ \A w \in Works : fiber[w] # "unborn" => home[w] \in Runners
    /\ \A c \in Cancels : pc[c] = "start" => target[c] = None /\ drops[c] = None

\* Somebody will answer an open Deferred.
Answered ==
    \A p \in Prompts : done[p] = "open" =>
        \/ Alive(p)
        \/ \E r \in Runners : st[r].tag = "ShellThenRun" /\ st[r].run = p
        \/ \E c \in Cancels : pc[c] = "dropping" /\ drops[c] = p

\* A prompt waits for a run that has a Deferred.
Joined ==
    \A p \in Prompts : pc[p] = "waiting" => joins[p] \in Prompts /\ done[joins[p]] # "none"

\* A cancel under way has a fiber to stop.
Aiming ==
    \A c \in Cancels :
        pc[c] \in {"dropping", "killing", "reaping"} =>
            target[c] \in Works /\ fiber[target[c]] # "unborn"

\* The run a cancel drops is out of every runner, and then out of use.
Dropping ==
    \A c \in Cancels :
        /\ pc[c] = "dropping" =>
              /\ drops[c] \in Prompts /\ done[drops[c]] # "none"
              /\ fiber[drops[c]] = "unborn"
              /\ \A r \in Runners : st[r].run # drops[c]
        /\ drops[c] # None /\ pc[c] # "dropping" => done[drops[c]] \in {"exit", "cancelled"}

\* A cancel past its await has outlived its fiber.
Reaped ==
    \A c \in Cancels :
        pc[c] \in {"checking", "idling", "returned"} /\ target[c] # None =>
            /\ fiber[target[c]] = "dead"
            /\ target[c] \in Prompts => done[target[c]] \in {"exit", "cancelled"}

IInv == /\ TypeOK /\ Holding /\ NoOrphanWork /\ Unused /\ Answered
        /\ Joined /\ Aiming /\ Dropping /\ Reaped

-----------------------------------------------------------------------------
(* The values of a runner's state.                                         *)

\* The four kinds of state, by their tags.
LEMMA StateShape ==
    ASSUME NEW x \in State
    PROVE  /\ x.tag \in {"Idle", "Running", "Shell", "ShellThenRun"}
           /\ x.tag = "Idle" => x = Idle /\ x.run = None /\ x.shell = None
           /\ x.tag = "Running" => x.run \in Prompts /\ x.shell = None /\ x = Running(x.run)
           /\ x.tag = "Shell" => x.run = None /\ x.shell \in Shells /\ x = Shell(x.shell)
           /\ x.tag = "ShellThenRun" => x.run \in Prompts /\ x.shell \in Shells
           /\ x.run # None => x.run \in Prompts /\ x.tag \in {"Running", "ShellThenRun"}
           /\ x.shell # None => x.shell \in Shells /\ x.tag \in {"Shell", "ShellThenRun"}
  BY CallersAssumption DEF State, Idle, Running, Shell, ShellThenRun, Works

\* The fields of the states the actions make.
LEMMA StateFields ==
    /\ Idle \in State /\ Idle.tag = "Idle" /\ Idle.run = None /\ Idle.shell = None
    /\ \A p \in Prompts : /\ Running(p) \in State /\ Running(p).tag = "Running"
                          /\ Running(p).run = p /\ Running(p).shell = None
    /\ \A s \in Shells : /\ Shell(s) \in State /\ Shell(s).tag = "Shell"
                         /\ Shell(s).run = None /\ Shell(s).shell = s
    /\ \A s \in Shells, p \in Prompts :
          /\ ShellThenRun(s, p) \in State /\ ShellThenRun(s, p).tag = "ShellThenRun"
          /\ ShellThenRun(s, p).run = p /\ ShellThenRun(s, p).shell = s
  <1>1. /\ Idle \in State /\ Idle.tag = "Idle" /\ Idle.run = None /\ Idle.shell = None
    BY DEF State, Idle
  <1>2. ASSUME NEW p \in Prompts
        PROVE  /\ Running(p) \in State /\ Running(p).tag = "Running"
               /\ Running(p).run = p /\ Running(p).shell = None
    BY DEF State, Running
  <1>3. ASSUME NEW s \in Shells
        PROVE  /\ Shell(s) \in State /\ Shell(s).tag = "Shell"
               /\ Shell(s).run = None /\ Shell(s).shell = s
    BY DEF State, Shell
  <1>4. ASSUME NEW s \in Shells, NEW p \in Prompts
        PROVE  /\ ShellThenRun(s, p) \in State /\ ShellThenRun(s, p).tag = "ShellThenRun"
               /\ ShellThenRun(s, p).run = p /\ ShellThenRun(s, p).shell = s
    BY DEF State, ShellThenRun
  <1> QED
    BY <1>1, <1>2, <1>3, <1>4

\* A prompt, a shell and a cancel are different callers, and none is None.
LEMMA CallersDiffer ==
    /\ \A p \in Prompts : p \in Works /\ p \in Callers /\ p \notin Shells /\ p \notin Cancels
    /\ \A s \in Shells : s \in Works /\ s \in Callers /\ s \notin Prompts /\ s \notin Cancels
    /\ \A c \in Cancels : c \in Callers /\ c \notin Works
    /\ \A w \in Works : w \in Callers /\ w # None /\ (w \in Prompts \/ w \in Shells)
    /\ None \notin Runners /\ None \notin Works /\ None \notin Prompts /\ None \notin Shells
  BY CallersAssumption DEF Works, Callers

-----------------------------------------------------------------------------
(* Every action keeps the invariant.                                       *)

LEMMA InitIInv == RunnerInit => IInv
  <1> SUFFICES ASSUME RunnerInit PROVE IInv
    OBVIOUS
  <1>1. TypeOK
    BY StateFields DEF RunnerInit, TypeOK, FiberState
  <1>2. QED
    BY <1>1, StateFields, CallersDiffer
       DEF RunnerInit, IInv, Holding, NoOrphanWork, Unused, Answered, Joined, Aiming,
           Dropping, Reaped, Callers

LEMMA EnsureRunningIInv ==
    ASSUME IInv, NEW p \in Prompts, NEW r \in Runners, EnsureRunning(p, r)
    PROVE  IInv'
  <1> USE CallersDiffer
  <1>s. st[r] \in State
    BY DEF IInv, TypeOK
  <1>1. CASE Join(p, r)
    <2>1. joins'[p] = st[r].run /\ st[r].run \in Prompts
      BY <1>1, <1>s, StateShape DEF Join, IInv, TypeOK
    <2>2. done[st[r].run] # "none"
      BY <1>1, <1>s, StateShape DEF Join, IInv, Holding
    <2>3. TypeOK'
      BY <1>1, <2>1 DEF Join, EnsureRunning, IInv, TypeOK, runVars
    <2>4. Holding' /\ NoOrphanWork' /\ Unused' /\ Answered' /\ Aiming' /\ Dropping' /\ Reaped'
      BY <1>1 DEF Join, EnsureRunning, IInv, TypeOK, Holding, NoOrphanWork, Owns, Unused,
         Answered, Alive, Aiming, Dropping, Reaped, runVars
    <2>5. Joined'
      BY <1>1, <2>1, <2>2 DEF Join, EnsureRunning, IInv, TypeOK, Joined, runVars
    <2> QED
      BY <2>3, <2>4, <2>5 DEF IInv
  <1>2. CASE Queue(p, r)
    <2>1. /\ st[r].shell \in Shells /\ st[r].run = None
          /\ st' = [st EXCEPT ![r] = ShellThenRun(st[r].shell, p)]
          /\ st'[r].tag = "ShellThenRun" /\ st'[r].run = p /\ st'[r].shell = st[r].shell
      BY <1>2, <1>s, StateShape, StateFields DEF Queue, IInv, TypeOK
    <2>2. fiber[p] = "unborn" /\ done[p] = "none"
      BY DEF EnsureRunning, IInv, Unused
    <2>3. TypeOK'
      BY <1>2, <2>1, StateFields DEF Queue, EnsureRunning, IInv, TypeOK
    <2>4. \A x \in Runners : st[x].run # p
      BY <2>2, StateShape DEF IInv, TypeOK, Holding
    <2>5. Holding'
      BY <1>2, <2>1, <2>2, <2>4, StateShape DEF Queue, IInv, TypeOK, Holding
    <2>6. NoOrphanWork'
      BY <1>2, <2>1, <2>2 DEF Queue, EnsureRunning, IInv, TypeOK, NoOrphanWork, Owns
    <2>7. Unused' /\ Joined' /\ Aiming'
      BY <1>2, <2>2 DEF Queue, EnsureRunning, IInv, TypeOK, Unused, Joined, Aiming
    <2>8. Answered'
      BY <1>2, <2>1 DEF Queue, EnsureRunning, IInv, TypeOK, Answered, Alive
    <2>9. Dropping' /\ Reaped'
      BY <1>2, <2>1, <2>2 DEF Queue, EnsureRunning, IInv, TypeOK, Dropping, Reaped
    <2> QED
      BY <2>3, <2>5, <2>6, <2>7, <2>8, <2>9 DEF IInv
  <1>3. CASE Start(p, r)
    <2>1. st' = [st EXCEPT ![r] = Running(p)] /\ st[r].run = None /\ st[r].shell = None
      BY <1>3, <1>s, StateShape DEF Start
    <2>2. fiber[p] = "unborn" /\ done[p] = "none"
      BY DEF EnsureRunning, IInv, Unused
    <2>3. TypeOK'
      BY <1>3, <2>1, StateFields DEF Start, EnsureRunning, IInv, TypeOK, FiberState
    <2>4. \A x \in Runners : st[x].run # p /\ st[x].shell # p
      BY <2>2, StateShape DEF IInv, TypeOK, Holding
    <2>5. Holding'
      BY <1>3, <2>1, <2>2, <2>4, StateShape, StateFields DEF Start, IInv, TypeOK, Holding
    <2>6. NoOrphanWork'
      BY <1>3, <2>1, <2>2, StateFields DEF Start, EnsureRunning, IInv, TypeOK, NoOrphanWork, Owns
    <2>7. Unused' /\ Joined' /\ Aiming'
      BY <1>3, <2>2 DEF Start, EnsureRunning, IInv, TypeOK, Unused, Joined, Aiming
    <2>8. Answered'
      BY <1>3, <2>1, StateFields DEF Start, EnsureRunning, IInv, TypeOK, Answered, Alive
    <2>9. Dropping' /\ Reaped'
      BY <1>3, <2>1, <2>2, StateFields DEF Start, EnsureRunning, IInv, TypeOK, Dropping, Reaped
    <2> QED
      BY <2>3, <2>5, <2>6, <2>7, <2>8, <2>9 DEF IInv
  <1> QED
    BY <1>1, <1>2, <1>3 DEF EnsureRunning

LEMMA StartShellIInv ==
    ASSUME IInv, NEW s \in Shells, NEW r \in Runners, StartShell(s, r)
    PROVE  IInv'
  <1> USE CallersDiffer
  <1>1. CASE Busy(r)
    <2>1. TypeOK' /\ Unused' /\ Joined' /\ Aiming'
      BY <1>1 DEF StartShell, IInv, TypeOK, Unused, Joined, Aiming, runVars
    <2>2. Holding' /\ NoOrphanWork' /\ Answered' /\ Dropping' /\ Reaped'
      BY <1>1 DEF StartShell, IInv, TypeOK, Holding, NoOrphanWork, Owns, Answered, Alive,
         Dropping, Reaped, runVars
    <2> QED
      BY <2>1, <2>2 DEF IInv
  <1>2. CASE ~Busy(r)
    <2>1. /\ st' = [st EXCEPT ![r] = Shell(s)] /\ st[r].run = None /\ st[r].shell = None
          /\ home' = [home EXCEPT ![s] = r] /\ fiber' = [fiber EXCEPT ![s] = "working"]
          /\ pc' = [pc EXCEPT ![s] = "waiting"] /\ pc[s] = "start"
          /\ UNCHANGED <<exit, kill, done, joins, target, drops, at>>
      BY <1>2, StateShape DEF StartShell, Busy, IInv, TypeOK
    <2>2. fiber[s] = "unborn" /\ \A x \in Runners : st[x].shell # s
      BY <2>1, StateShape DEF IInv, TypeOK, Unused, Holding
    <2>3. TypeOK'
      BY <2>1, StateFields DEF IInv, TypeOK, FiberState
    <2>4. Holding'
      BY <2>1, <2>2, StateShape, StateFields DEF IInv, TypeOK, Holding
    <2>5. NoOrphanWork'
      BY <2>1, <2>2, StateFields DEF IInv, TypeOK, NoOrphanWork, Owns
    <2>6. Unused' /\ Joined' /\ Aiming'
      BY <2>1, <2>2 DEF IInv, TypeOK, Unused, Joined, Aiming
    <2>7. Answered'
      BY <2>1, StateShape, StateFields DEF IInv, TypeOK, Answered, Alive
    <2>8. Dropping' /\ Reaped'
      BY <2>1, <2>2, StateFields DEF IInv, TypeOK, Dropping, Reaped
    <2> QED
      BY <2>3, <2>4, <2>5, <2>6, <2>7, <2>8 DEF IInv
  <1> QED
    BY <1>1, <1>2

LEMMA ReturnIInv ==
    ASSUME IInv, NEW x \in Works, Return(x)
    PROVE  IInv'
  <1> USE CallersDiffer
  <1>1. TypeOK' /\ Unused' /\ Joined' /\ Aiming'
    BY DEF Return, IInv, TypeOK, Unused, Joined, Aiming, runVars
  <1>2. Holding' /\ NoOrphanWork' /\ Answered' /\ Dropping' /\ Reaped'
    BY DEF Return, IInv, TypeOK, Holding, NoOrphanWork, Owns, Answered, Alive, Dropping,
       Reaped, runVars
  <1> QED
    BY <1>1, <1>2 DEF IInv

\* The steps of a fiber that touch nothing but the fiber and its exit.
LEMMA WorkStepIInv ==
    ASSUME IInv, NEW w \in Works, WorkStep(w)
    PROVE  IInv'
  <1> USE CallersDiffer
  <1>1. /\ fiber' = [fiber EXCEPT ![w] = fiber'[w]]
        /\ \/ fiber[w] \in {"working", "stopping"} /\ fiber'[w] \in {"stopping", "ended"}
           \/ fiber[w] = "idling" /\ fiber'[w] \in {"completing", "dead"}
                                  /\ (w \in Prompts => fiber'[w] = "completing")
        /\ exit' \in [Works -> {"none", "exit", "interrupt"}]
        /\ UNCHANGED <<st, kill, home, done, pc, joins, target, drops, at>>
    BY DEF WorkStep, WorkEnds, Interrupted, WorkStops, WorkIdled, IInv, TypeOK, callVars
  <1>2. TypeOK'
    BY <1>1 DEF IInv, TypeOK, FiberState
  <1>3. Holding'
    BY <1>1, StateShape DEF IInv, TypeOK, Holding
  <1>4. NoOrphanWork' /\ Unused' /\ Answered'
    BY <1>1 DEF IInv, TypeOK, NoOrphanWork, Owns, Unused, Answered, Alive
  <1>5. Joined' /\ Aiming' /\ Dropping' /\ Reaped'
    BY <1>1 DEF IInv, TypeOK, Joined, Aiming, Dropping, Reaped
  <1> QED
    BY <1>2, <1>3, <1>4, <1>5 DEF IInv

LEMMA FinishRunIInv ==
    ASSUME IInv, NEW p \in Prompts, FinishRun(p)
    PROVE  IInv'
  <1> USE CallersDiffer
  <1> DEFINE r == home[p]
  <1>r. r \in Runners /\ st[r] \in State
    BY DEF FinishRun, IsCurrent, Vacate, IInv, TypeOK, Unused
  <1>1. CASE st[r] = Running(p)
    <2>1. /\ st' = [st EXCEPT ![r] = Idle] /\ fiber' = [fiber EXCEPT ![p] = "idling"]
          /\ UNCHANGED <<exit, kill, home, done, pc, joins, target, drops, at>>
          /\ st[r].tag = "Running" /\ st[r].run = p /\ fiber[p] = "ended"
      BY <1>1, StateFields DEF FinishRun, IsCurrent, Vacate, callVars
    <2> HIDE DEF r
    <2>2. TypeOK'
      BY <2>1, <1>r, StateFields DEF IInv, TypeOK, FiberState
    <2>3. Holding'
      BY <2>1, <1>r, StateShape, StateFields DEF IInv, TypeOK, Holding
    <2>4. NoOrphanWork'
      BY <2>1, <1>r, StateShape, StateFields DEF IInv, TypeOK, NoOrphanWork, Owns
    <2>5. Unused' /\ Answered' /\ Joined' /\ Aiming'
      BY <2>1, <1>r DEF IInv, TypeOK, Unused, Answered, Alive, Joined, Aiming
    <2>6. Dropping' /\ Reaped'
      BY <2>1, <1>r, StateFields DEF IInv, TypeOK, Dropping, Reaped
    <2> QED
      BY <2>2, <2>3, <2>4, <2>5, <2>6 DEF IInv
  <1>2. CASE st[r] # Running(p)
    <2>1. /\ fiber' = [fiber EXCEPT ![p] = "completing"] /\ fiber[p] = "ended"
          /\ UNCHANGED <<st, exit, kill, home, done, pc, joins, target, drops, at>>
      BY <1>2 DEF FinishRun, IsCurrent, Vacate, callVars
    <2>2. \A x \in Runners : st[x].tag = "Running" => st[x].run # p
      BY <1>2, StateShape DEF IInv, TypeOK, Holding
    <2>3. TypeOK'
      BY <2>1 DEF IInv, TypeOK, FiberState
    <2>4. Holding'
      BY <2>1, <2>2, StateShape DEF IInv, TypeOK, Holding
    <2>5. NoOrphanWork' /\ Unused' /\ Answered' /\ Joined' /\ Aiming'
      BY <2>1 DEF IInv, TypeOK, NoOrphanWork, Owns, Unused, Answered, Alive, Joined, Aiming
    <2>6. Dropping' /\ Reaped'
      BY <2>1 DEF IInv, TypeOK, Dropping, Reaped
    <2> QED
      BY <2>3, <2>4, <2>5, <2>6 DEF IInv
  <1> QED
    BY <1>1, <1>2

LEMMA CompleteIInv ==
    ASSUME IInv, NEW p \in Prompts, Complete(p)
    PROVE  IInv'
  <1> USE CallersDiffer
  <1>1. /\ fiber' = [fiber EXCEPT ![p] = "dead"] /\ fiber[p] = "completing"
        /\ done' = [done EXCEPT ![p] = done'[p]]
        /\ done'[p] \in {"none", "exit", "cancelled"}
        /\ done'[p] = "none" => done[p] = "none"
        /\ done[p] # "open" => done'[p] = done[p]
        /\ UNCHANGED <<st, exit, kill, home, pc, joins, target, drops, at>>
    BY DEF Complete, Outcome, Settle, callVars, IInv, TypeOK
  <1>2. TypeOK'
    BY <1>1 DEF IInv, TypeOK, FiberState
  <1>3. Holding'
    BY <1>1, StateShape DEF IInv, TypeOK, Holding
  <1>4. NoOrphanWork' /\ Unused' /\ Answered'
    BY <1>1 DEF IInv, TypeOK, NoOrphanWork, Owns, Unused, Answered, Alive
  <1>5. Joined' /\ Aiming' /\ Dropping' /\ Reaped'
    BY <1>1 DEF IInv, TypeOK, Unused, Joined, Aiming, Dropping, Reaped
  <1> QED
    BY <1>2, <1>3, <1>4, <1>5 DEF IInv

LEMMA FinishShellIInv ==
    ASSUME IInv, NEW s \in Shells, FinishShell(s)
    PROVE  IInv'
  <1> USE CallersDiffer
  <1> DEFINE r == home[s]
  <1>r. r \in Runners /\ st[r] \in State /\ fiber[s] = "ended"
    BY DEF FinishShell, StartQueued, Vacate, IInv, TypeOK, Unused
  <1>u. UNCHANGED <<exit, kill, home, done, pc, joins, target, drops, at>>
    BY DEF FinishShell, StartQueued, Vacate, callVars
  <1>1. CASE st[r] = Shell(s)
    <2>1. /\ st' = [st EXCEPT ![r] = Idle] /\ fiber' = [fiber EXCEPT ![s] = "idling"]
          /\ st[r].run = None /\ st[r].shell = s
      BY <1>1, StateFields DEF FinishShell, StartQueued, Vacate
    <2> HIDE DEF r
    <2>2. TypeOK'
      BY <2>1, <1>r, <1>u, StateFields DEF IInv, TypeOK, FiberState
    <2>3. Holding'
      BY <2>1, <1>r, <1>u, StateShape, StateFields DEF IInv, TypeOK, Holding
    <2>4. NoOrphanWork'
      BY <2>1, <1>r, <1>u, StateShape, StateFields DEF IInv, TypeOK, NoOrphanWork, Owns
    <2>5. Unused' /\ Answered' /\ Joined' /\ Aiming'
      BY <2>1, <1>r, <1>u DEF IInv, TypeOK, Unused, Answered, Alive, Joined, Aiming
    <2>6. Dropping' /\ Reaped'
      BY <2>1, <1>r, <1>u, StateFields DEF IInv, TypeOK, Dropping, Reaped
    <2> QED
      BY <2>2, <2>3, <2>4, <2>5, <2>6 DEF IInv
  <1>2. CASE st[r].tag = "ShellThenRun" /\ st[r].shell = s
    <2> DEFINE p == st[r].run
    <2>1. /\ st' = [st EXCEPT ![r] = Running(p)]
          /\ fiber' = [fiber EXCEPT ![s] = "dead", ![p] = "working"]
          /\ p \in Prompts
      BY <1>2, <1>r, StateShape, StateFields DEF FinishShell, StartQueued, Vacate
    <2>2. fiber[p] = "unborn" /\ done[p] = "open" /\ home[p] = r /\ p # s
      BY <1>2, <1>r, <2>1 DEF IInv, Holding
    <2>p. st[r].run = p
      OBVIOUS
    <2> HIDE DEF r, p
    <2>3. TypeOK'
      BY <2>1, <1>r, <1>u, StateFields DEF IInv, TypeOK, FiberState
    <2>4. Holding'
      BY <2>1, <2>2, <2>p, <1>2, <1>r, <1>u, StateShape, StateFields DEF IInv, TypeOK, Holding
    <2>5. NoOrphanWork'
      BY <2>1, <2>2, <2>p, <1>2, <1>r, <1>u, StateShape, StateFields
         DEF IInv, TypeOK, NoOrphanWork, Owns
    <2>6. Unused' /\ Joined' /\ Aiming'
      BY <2>1, <2>2, <1>r, <1>u DEF IInv, TypeOK, Unused, Joined, Aiming
    <2>7. Answered'
      BY <2>1, <2>2, <2>p, <1>r, <1>u, StateFields DEF IInv, TypeOK, Answered, Alive
    <2>8. Dropping' /\ Reaped'
      BY <2>1, <2>2, <2>p, <1>r, <1>u, StateFields DEF IInv, TypeOK, Dropping, Reaped
    <2> QED
      BY <2>3, <2>4, <2>5, <2>6, <2>7, <2>8 DEF IInv
  <1>3. CASE st[r].shell # s
    <2>1. fiber' = [fiber EXCEPT ![s] = "dead"] /\ UNCHANGED st
      BY <1>3, StateFields DEF FinishShell, StartQueued, Vacate
    <2>2. \A x \in Runners : st[x].shell # s
      BY <1>3 DEF IInv, Holding
    <2>3. TypeOK'
      BY <2>1, <1>u DEF IInv, TypeOK, FiberState
    <2>4. Holding'
      BY <2>1, <2>2, <1>u, StateShape DEF IInv, TypeOK, Holding
    <2>5. NoOrphanWork' /\ Unused' /\ Answered'
      BY <2>1, <1>r, <1>u DEF IInv, TypeOK, NoOrphanWork, Owns, Unused, Answered, Alive
    <2>6. Joined' /\ Aiming' /\ Dropping' /\ Reaped'
      BY <2>1, <1>r, <1>u DEF IInv, TypeOK, Joined, Aiming, Dropping, Reaped
    <2> QED
      BY <2>3, <2>4, <2>5, <2>6 DEF IInv
  <1> QED
    BY <1>1, <1>2, <1>3 DEF FinishShell, StartQueued, Vacate

LEMMA CancelIInv ==
    ASSUME IInv, NEW c \in Cancels, NEW r \in Runners, Cancel(c, r)
    PROVE  IInv'
  <1> USE CallersDiffer
  <1>1. /\ st' = [st EXCEPT ![r] = Idle] /\ at' = [at EXCEPT ![c] = r] /\ pc[c] = "start"
        /\ target[c] = None /\ drops[c] = None /\ st[r] \in State
        /\ UNCHANGED <<fiber, exit, kill, home, done, joins>>
    BY DEF Cancel, Vacate, IInv, TypeOK, Unused
  <1>2. CASE st[r].tag = "Idle"
    <2>1. pc' = [pc EXCEPT ![c] = "returned"] /\ UNCHANGED <<target, drops>> /\ st' = st
      BY <1>1, <1>2, StateShape DEF Cancel, Vacate, IInv, TypeOK
    <2>2. TypeOK' /\ Unused' /\ Joined' /\ Aiming'
      BY <1>1, <2>1 DEF IInv, TypeOK, Unused, Joined, Aiming
    <2>3. Holding' /\ NoOrphanWork' /\ Answered'
      BY <1>1, <2>1 DEF IInv, TypeOK, Holding, NoOrphanWork, Owns, Answered, Alive
    <2>4. Dropping' /\ Reaped'
      BY <1>1, <2>1 DEF IInv, TypeOK, Dropping, Reaped
    <2> QED
      BY <2>2, <2>3, <2>4 DEF IInv
  <1>3. ASSUME NEW w \in Works, st[r].tag \in {"Running", "Shell"}, Owns(r, w),
               pc' = [pc EXCEPT ![c] = "killing"], target' = [target EXCEPT ![c] = w],
               UNCHANGED drops
        PROVE  IInv'
    <2>1. /\ fiber[w] \in {"working", "stopping", "ended"} /\ home[w] = r
          /\ \A v \in Works : Owns(r, v) => v = w
      BY <1>1, <1>3, StateShape DEF IInv, Holding, Owns
    <2>2. TypeOK'
      BY <1>1, <1>3, StateFields DEF IInv, TypeOK
    <2>3. Holding'
      BY <1>1, StateFields DEF IInv, TypeOK, Holding
    <2>4. NoOrphanWork'
      <3> SUFFICES ASSUME NEW v \in Works, fiber[v] = "working", ~kill[v], ~Owns(home[v], v)',
                          \A d \in Cancels : ~(pc'[d] \in {"dropping", "killing"} /\ target'[d] = v)
                   PROVE  FALSE
        BY <1>1 DEF NoOrphanWork
      <3>1. v # w
        BY <1>1, <1>3 DEF IInv, TypeOK
      <3>2. ~Owns(home[v], v)
        BY <3>1, <2>1, <1>1 DEF Owns, IInv, TypeOK, Unused
      <3> QED
        BY <3>2, <1>1, <1>3 DEF IInv, NoOrphanWork, TypeOK
    <2>5. Unused' /\ Joined' /\ Aiming'
      BY <1>1, <1>3, <2>1 DEF IInv, TypeOK, Unused, Joined, Aiming
    <2>6. Answered'
      BY <1>1, <1>3, StateShape DEF IInv, TypeOK, Answered, Alive
    <2>7. Dropping' /\ Reaped'
      BY <1>1, <1>3, StateFields DEF IInv, TypeOK, Dropping, Reaped
    <2> QED
      BY <2>2, <2>3, <2>4, <2>5, <2>6, <2>7 DEF IInv
  <1>4. CASE st[r].tag = "ShellThenRun"
    <2> DEFINE s == st[r].shell
               p == st[r].run
    <2>1. /\ pc' = [pc EXCEPT ![c] = "dropping"] /\ target' = [target EXCEPT ![c] = s]
          /\ drops' = [drops EXCEPT ![c] = p] /\ s \in Shells /\ p \in Prompts
      BY <1>1, <1>4, StateShape DEF Cancel, Vacate
    <2>2. /\ fiber[s] \in {"working", "stopping", "ended"} /\ home[s] = r
          /\ fiber[p] = "unborn" /\ home[p] = r /\ done[p] = "open"
          /\ \A v \in Works : Owns(r, v) => v \in {s, p}
          /\ \A x \in Runners : x # r => st[x].run # p
      BY <1>1, <1>4, <2>1, StateShape DEF IInv, TypeOK, Holding, Owns
    <2>p. st[r].run = p
      OBVIOUS
    <2> HIDE DEF s, p
    <2>3. TypeOK'
      BY <1>1, <2>1, StateFields DEF IInv, TypeOK
    <2>4. Holding'
      BY <1>1, StateFields DEF IInv, TypeOK, Holding
    <2>5. NoOrphanWork'
      <3> SUFFICES ASSUME NEW v \in Works, fiber[v] = "working", ~kill[v], ~Owns(home[v], v)',
                          \A d \in Cancels : ~(pc'[d] \in {"dropping", "killing"} /\ target'[d] = v)
                   PROVE  FALSE
        BY <1>1 DEF NoOrphanWork
      <3>1. v # s /\ v # p
        BY <1>1, <2>1, <2>2 DEF IInv, TypeOK
      <3>2. ~Owns(home[v], v)
        BY <3>1, <2>2, <1>1 DEF Owns, IInv, TypeOK, Unused
      <3> QED
        BY <3>2, <1>1, <2>1 DEF IInv, NoOrphanWork, TypeOK
    <2>6. Unused' /\ Joined' /\ Aiming'
      BY <1>1, <2>1, <2>2 DEF IInv, TypeOK, Unused, Joined, Aiming
    <2>7. Answered'
      BY <1>1, <2>1, <2>p, StateShape DEF IInv, TypeOK, Answered, Alive
    <2>8. Dropping' /\ Reaped'
      BY <1>1, <2>1, <2>2, StateFields DEF IInv, TypeOK, Dropping, Reaped
    <2> QED
      BY <2>3, <2>4, <2>5, <2>6, <2>7, <2>8 DEF IInv
  <1>5. CASE st[r].tag = "Running"
    <2>1. st[r].run \in Works /\ Owns(r, st[r].run)
      BY <1>1, <1>5, StateShape DEF Owns
    <2> QED
      BY <1>3, <1>5, <2>1 DEF Cancel, Vacate
  <1>6. CASE st[r].tag = "Shell"
    <2>1. st[r].shell \in Works /\ Owns(r, st[r].shell)
      BY <1>1, <1>6, StateShape DEF Owns
    <2> QED
      BY <1>3, <1>6, <2>1 DEF Cancel, Vacate
  <1> QED
    BY <1>2, <1>4, <1>5, <1>6 DEF Cancel, Vacate

LEMMA DropIInv ==
    ASSUME IInv, NEW c \in Cancels, Drop(c)
    PROVE  IInv'
  <1> USE CallersDiffer
  <1> DEFINE p == drops[c]
  <1>1. /\ pc' = [pc EXCEPT ![c] = "killing"] /\ pc[c] = "dropping" /\ p \in Prompts
        /\ \A x \in Runners : st[x].run # p
        /\ UNCHANGED <<st, fiber, exit, kill, home, joins, target, drops, at>>
    BY DEF Drop, IInv, Dropping
  <1>2. /\ done' = [done EXCEPT ![p] = done'[p]] /\ done'[p] \in {"exit", "cancelled"}
        /\ done[p] # "open" => done'[p] = done[p]
    BY <1>1 DEF Drop, Settle, IInv, TypeOK, Dropping
  <1>3. TypeOK'
    BY <1>1, <1>2 DEF IInv, TypeOK
  <1>4. Holding'
    BY <1>1, <1>2, StateShape DEF IInv, TypeOK, Holding
  <1>5. NoOrphanWork' /\ Unused' /\ Answered'
    BY <1>1, <1>2 DEF IInv, TypeOK, NoOrphanWork, Owns, Unused, Answered, Alive
  <1>6. Joined' /\ Aiming' /\ Dropping' /\ Reaped'
    BY <1>1, <1>2 DEF IInv, TypeOK, Joined, Aiming, Dropping, Reaped
  <1> QED
    BY <1>3, <1>4, <1>5, <1>6 DEF IInv

LEMMA KillIInv ==
    ASSUME IInv, NEW c \in Cancels, Kill(c)
    PROVE  IInv'
  <1> USE CallersDiffer
  <1>1. /\ pc' = [pc EXCEPT ![c] = "reaping"] /\ pc[c] = "killing"
        /\ kill' = [kill EXCEPT ![target[c]] = TRUE] /\ target[c] \in Works
        /\ UNCHANGED <<st, fiber, exit, home, done, joins, target, drops, at>>
    BY DEF Kill, IInv, Aiming
  <1>2. TypeOK' /\ Unused' /\ Joined' /\ Aiming'
    BY <1>1 DEF IInv, TypeOK, Unused, Joined, Aiming
  <1>3. Holding' /\ NoOrphanWork' /\ Answered'
    BY <1>1 DEF IInv, TypeOK, Holding, NoOrphanWork, Owns, Answered, Alive
  <1>4. Dropping' /\ Reaped'
    BY <1>1 DEF IInv, TypeOK, Dropping, Reaped
  <1> QED
    BY <1>2, <1>3, <1>4 DEF IInv

\* The steps of a cancel after its interrupt request.
LEMMA ReapIInv ==
    ASSUME IInv, NEW c \in Cancels, Reap(c) \/ IdleIfCurrent(c) \/ CancelIdled(c)
    PROVE  IInv'
  <1> USE CallersDiffer
  <1>1. /\ pc' = [pc EXCEPT ![c] = pc'[c]] /\ pc'[c] \in {"checking", "idling", "returned"}
        /\ pc[c] \in {"reaping", "checking", "idling"}
        /\ pc[c] = "reaping" => /\ fiber[target[c]] = "dead"
                                /\ target[c] \in Prompts => done[target[c]] # "open"
        /\ UNCHANGED <<st, fiber, exit, kill, home, done, joins, target, drops, at>>
    BY DEF Reap, IdleIfCurrent, CancelIdled, runVars, IInv, TypeOK
  <1>2. TypeOK' /\ Unused' /\ Joined' /\ Aiming'
    BY <1>1 DEF IInv, TypeOK, Unused, Joined, Aiming
  <1>3. Holding' /\ NoOrphanWork' /\ Answered'
    BY <1>1 DEF IInv, TypeOK, Holding, NoOrphanWork, Owns, Answered, Alive
  <1>4. Dropping' /\ Reaped'
    BY <1>1 DEF IInv, TypeOK, Unused, Dropping, Reaped
  <1> QED
    BY <1>2, <1>3, <1>4 DEF IInv

LEMMA NextIInv == IInv /\ [RunnerNext]_runnerVars => IInv'
  <1> SUFFICES ASSUME IInv, [RunnerNext]_runnerVars PROVE IInv'
    OBVIOUS
  <1>1. CASE UNCHANGED runnerVars
    BY <1>1 DEF runnerVars, runVars, callVars, IInv, TypeOK, Holding, NoOrphanWork, Owns,
       Unused, Answered, Alive, Joined, Aiming, Dropping, Reaped
  <1>2. CASE RunnerNext
    BY <1>2, EnsureRunningIInv, StartShellIInv, CancelIInv, ReturnIInv, WorkStepIInv,
       FinishRunIInv, CompleteIInv, FinishShellIInv, DropIInv, KillIInv, ReapIInv
       DEF RunnerNext, RunStep, CancelStep
  <1> QED
    BY <1>1, <1>2

-----------------------------------------------------------------------------
(* The theorems.                                                           *)

\* The invariant holds in every reachable state.
THEOREM Invariance == RunnerSpec => []IInv
  BY InitIInv, NextIInv, PTL DEF RunnerSpec

\* The variables keep their types.
THEOREM TypeCorrect == RunnerSpec => []TypeOK
  BY Invariance, PTL DEF IInv

\* What a runner's state names is really there.
THEOREM HeldLive == RunnerSpec => []HeldIsLive
  <1>1. IInv => HeldIsLive
    BY DEF IInv, Holding, HeldIsLive
  <1> QED
    BY <1>1, Invariance, PTL

\* No work goes on that no runner holds and no cancel is about to stop.
THEOREM NoOrphan == RunnerSpec => []NoOrphanWork
  BY Invariance, PTL DEF IInv

\* Every caller that waits for a run waits for something that will answer.
THEOREM NobodyStranded == RunnerSpec => []NoStrandedWaiter
  <1>1. IInv => NoStrandedWaiter
    <2> SUFFICES ASSUME IInv, NEW p \in Prompts, pc[p] = "waiting"
                 PROVE  LET q == joins[p] IN
                        \/ done[q] \in {"exit", "cancelled"}
                        \/ Alive(q)
                        \/ \E r \in Runners : st[r].tag = "ShellThenRun" /\ st[r].run = q
                        \/ \E c \in Cancels : pc[c] = "dropping" /\ drops[c] = q
      BY DEF NoStrandedWaiter
    <2>1. joins[p] \in Prompts /\ done[joins[p]] \in {"open", "exit", "cancelled"}
      BY DEF IInv, TypeOK, Joined
    <2> QED
      BY <2>1 DEF IInv, Answered
  <1> QED
    BY <1>1, Invariance, PTL

\* A cancel returns only when its fiber is dead and its waiters are answered.
THEOREM CancelOutlives == RunnerSpec => []CancelOutlivesTarget
  <1>1. IInv => CancelOutlivesTarget
    BY DEF IInv, TypeOK, Reaped, Dropping, CancelOutlivesTarget
  <1> QED
    BY <1>1, Invariance, PTL

\* One runner never has two works that nobody has asked to stop.
THEOREM OneWork == RunnerSpec => []OneWorkPerRunner
  <1>1. IInv => OneWorkPerRunner
    <2> SUFFICES ASSUME IInv, NEW v \in Works, NEW w \in Works,
                        fiber[v] = "working", fiber[w] = "working", ~kill[v], ~kill[w],
                        \A c \in Cancels : pc[c] \in {"dropping", "killing"}
                                              => target[c] \notin {v, w},
                        home[v] = home[w]
                 PROVE  v = w
      BY DEF OneWorkPerRunner
    <2>1. Owns(home[v], v) /\ Owns(home[v], w) /\ home[v] \in Runners
      BY DEF IInv, NoOrphanWork, Unused
    <2>2. st[home[v]] \in State
      BY <2>1 DEF IInv, TypeOK
    <2> QED
      BY <2>1, <2>2, StateShape, CallersDiffer DEF Owns, IInv, Holding
  <1> QED
    BY <1>1, Invariance, PTL

\* A queued run whose Deferred a cancel failed never starts.
THEOREM DroppedStays == RunnerSpec => DroppedNeverStarts
  <1>1. IInv /\ [RunnerNext]_runnerVars =>
          [\A p \in Prompts : done[p] = "cancelled" /\ fiber[p] = "unborn"
                                => fiber'[p] = "unborn"]_runnerVars
    <2> SUFFICES ASSUME IInv, RunnerNext, NEW p \in Prompts, done[p] = "cancelled",
                        fiber[p] = "unborn"
                 PROVE  fiber'[p] = "unborn"
      OBVIOUS
    <2>1. pc[p] # "start" /\ p \in Works
      BY CallersDiffer DEF IInv, Unused
    <2>2. ASSUME NEW q \in Prompts, NEW r \in Runners, EnsureRunning(q, r)
          PROVE  fiber'[p] = "unborn"
      BY <2>1, <2>2 DEF EnsureRunning, Join, Queue, Start, runVars, IInv, TypeOK
    <2>3. ASSUME NEW s \in Shells, NEW r \in Runners, StartShell(s, r)
          PROVE  fiber'[p] = "unborn"
      BY <2>1, <2>3 DEF StartShell, runVars, IInv, TypeOK
    <2>4. ASSUME NEW s \in Shells, FinishShell(s)
          PROVE  fiber'[p] = "unborn"
      <3>1. home[s] \in Runners /\ st[home[s]] \in State
        BY <2>4, CallersDiffer DEF FinishShell, StartQueued, Vacate, IInv, TypeOK, Unused
      <3>2. st[home[s]].tag = "ShellThenRun" => st[home[s]].run # p
        BY <3>1 DEF IInv, Holding
      <3>3. s # p
        BY CallersDiffer
      <3> QED
        BY <2>1, <2>4, <3>2, <3>3 DEF FinishShell, StartQueued, Vacate, IInv, TypeOK
    <2>5. ASSUME NEW w \in Works, WorkStep(w)
          PROVE  fiber'[p] = "unborn"
      BY <2>1, <2>5 DEF WorkStep, WorkEnds, Interrupted, WorkStops, WorkIdled, IInv, TypeOK
    <2>6. ASSUME NEW q \in Prompts, RunStep(q)
          PROVE  fiber'[p] = "unborn"
      BY <2>6, CallersDiffer DEF RunStep, FinishRun, Vacate, Complete, IInv, TypeOK
    <2>7. ASSUME NEW c \in Cancels, NEW r \in Runners, Cancel(c, r)
          PROVE  fiber'[p] = "unborn"
      BY <2>7 DEF Cancel, Vacate
    <2>8. ASSUME NEW c \in Cancels, CancelStep(c)
          PROVE  fiber'[p] = "unborn"
      BY <2>8 DEF CancelStep, Drop, Kill, Reap, IdleIfCurrent, CancelIdled, runVars
    <2>9. ASSUME NEW x \in Works, Return(x)
          PROVE  fiber'[p] = "unborn"
      BY <2>9 DEF Return, runVars
    <2> QED
      BY <2>2, <2>3, <2>4, <2>5, <2>6, <2>7, <2>8, <2>9 DEF RunnerNext
  <1> QED
    BY <1>1, Invariance, PTL DEF RunnerSpec, DroppedNeverStarts

\* A queued run starts only in the step in which its shell is over.
THEOREM QueueOrder == RunnerSpec => QueuedRunFollowsShell
  <1>1. IInv /\ [RunnerNext]_runnerVars =>
          [\A r \in Runners : st[r].tag = "ShellThenRun" /\ st'[r].tag = "Running"
              => fiber'[st[r].shell] = "dead" /\ st'[r].run = st[r].run]_runnerVars
    <2> SUFFICES ASSUME IInv, RunnerNext, NEW r \in Runners,
                        st[r].tag = "ShellThenRun", st'[r].tag = "Running"
                 PROVE  fiber'[st[r].shell] = "dead" /\ st'[r].run = st[r].run
      OBVIOUS
    <2>1. st[r] \in State /\ st[r].shell \in Shells /\ st[r].run \in Prompts
      BY StateShape DEF IInv, TypeOK
    <2>2. ASSUME NEW q \in Prompts, NEW x \in Runners, EnsureRunning(q, x)
          PROVE  FALSE
      BY <2>1, <2>2, StateFields, StateShape
         DEF EnsureRunning, Join, Queue, Start, runVars, IInv, TypeOK
    <2>3. ASSUME NEW s \in Shells, NEW x \in Runners, StartShell(s, x)
          PROVE  FALSE
      BY <2>1, <2>3, StateFields DEF StartShell, runVars, IInv, TypeOK
    <2>4. ASSUME NEW s \in Shells, FinishShell(s)
          PROVE  fiber'[st[r].shell] = "dead" /\ st'[r].run = st[r].run
      <3>1. home[s] \in Runners /\ st[home[s]] \in State /\ s \in Works
        BY <2>4, CallersDiffer DEF FinishShell, StartQueued, Vacate, IInv, TypeOK, Unused
      <3>2. home[s] = r /\ st[r].shell = s
        BY <2>4, <3>1, StateFields, StateShape DEF FinishShell, StartQueued, Vacate, IInv, TypeOK
      <3> QED
        BY <2>1, <2>4, <3>1, <3>2, StateFields, CallersDiffer DEF FinishShell, StartQueued, Vacate, IInv, TypeOK
    <2>5. ASSUME NEW c \in Cancels, NEW x \in Runners, Cancel(c, x)
          PROVE  FALSE
      BY <2>5, StateFields DEF Cancel, Vacate, IInv, TypeOK
    <2>6. ASSUME NEW q \in Prompts, RunStep(q)
          PROVE  FALSE
      BY <2>6, StateFields DEF RunStep, FinishRun, Vacate, Complete, IInv, TypeOK
    <2>7. ASSUME \/ \E w \in Works : WorkStep(w) \/ Return(w)
                 \/ \E c \in Cancels : CancelStep(c)
          PROVE  FALSE
      BY <2>7 DEF WorkStep, WorkEnds, Interrupted, WorkStops, WorkIdled, Return, CancelStep,
         Drop, Kill, Reap, IdleIfCurrent, CancelIdled, runVars
    <2> QED
      BY <2>2, <2>3, <2>4, <2>5, <2>6, <2>7 DEF RunnerNext
  <1> QED
    BY <1>1, Invariance, PTL DEF RunnerSpec, QueuedRunFollowsShell

-----------------------------------------------------------------------------
(* Single flight.                                                          *)

Leader == [r \in Runners |-> st[r].run]
Phase  == [p \in Prompts |-> pc[p]]

\* The leaders and the phases after a step that changes one of them.
LEMMA LeaderStep ==
    ASSUME NEW r \in Runners, NEW x \in State, st \in [Runners -> State],
           st' = [st EXCEPT ![r] = x]
    PROVE  Leader' = [Leader EXCEPT ![r] = x.run]
  BY DEF Leader

LEMMA PhaseStep ==
    ASSUME NEW x \in Callers, NEW to, pc' = [pc EXCEPT ![x] = to], TypeOK
    PROVE  /\ x \in Prompts => Phase' = [Phase EXCEPT ![x] = to]
           /\ x \notin Prompts => Phase' = Phase
  <1>1. pc = [y \in Callers |-> pc[y]] /\ \A p \in Prompts : p \in Callers
    BY CallersDiffer DEF TypeOK
  <1>2. \A p \in Prompts : pc'[p] = IF p = x THEN to ELSE pc[p]
    BY <1>1
  <1> QED
    BY <1>2 DEF Phase

\* A call of ensureRunning leads a run or follows one.
LEMMA EnsureRunningFlies ==
    ASSUME IInv, NEW p \in Prompts, NEW r \in Runners, EnsureRunning(p, r)
    PROVE  Flight!Lead(p, r) \/ Flight!Follow(p, r)
  <1>1. st[r] \in State /\ Leader[r] = st[r].run /\ Phase[p] = "start"
    BY DEF IInv, TypeOK, Leader, Phase, EnsureRunning
  <1>2. Phase' = [Phase EXCEPT ![p] = "waiting"]
    BY CallersDiffer, PhaseStep DEF EnsureRunning, IInv
  <1>3. CASE Join(p, r)
    <2>1. Leader' = Leader /\ Leader[r] # None
      BY <1>1, <1>3, StateShape, CallersDiffer DEF Join, runVars, Leader
    <2> QED
      BY <1>1, <1>2, <1>3, <2>1 DEF Join, runVars, Flight!Follow, Leader, Phase
  <1>4. CASE Queue(p, r)
    <2>1. st[r].shell \in Shells /\ st[r].run = None
      BY <1>1, <1>4, StateShape DEF Queue
    <2> DEFINE x == ShellThenRun(st[r].shell, p)
    <2>a. st' = [st EXCEPT ![r] = x] /\ x \in State /\ x.run = p
      BY <1>4, <2>1, StateFields DEF Queue
    <2> HIDE DEF x
    <2>2. Leader' = [Leader EXCEPT ![r] = p]
      BY <2>a, LeaderStep DEF IInv, TypeOK
    <2> QED
      BY <1>1, <1>2, <1>4, <2>1, <2>2 DEF Queue, Flight!Lead, Leader, Phase
  <1>5. CASE Start(p, r)
    <2>1. st[r].run = None
      BY <1>1, <1>5, StateShape DEF Start
    <2> DEFINE x == Running(p)
    <2>a. st' = [st EXCEPT ![r] = x] /\ x \in State /\ x.run = p
      BY <1>5, StateFields DEF Start
    <2> HIDE DEF x
    <2>2. Leader' = [Leader EXCEPT ![r] = p]
      BY <2>a, LeaderStep DEF IInv, TypeOK
    <2> QED
      BY <1>1, <1>2, <1>5, <2>1, <2>2 DEF Start, Flight!Lead, Leader, Phase
  <1> QED
    BY <1>3, <1>4, <1>5 DEF EnsureRunning

\* A step that makes a runner idle releases its leader, if it has one.
LEMMA IdlingFlies ==
    ASSUME IInv, NEW r \in Runners, st' = [st EXCEPT ![r] = Idle],
           Phase' = Phase, UNCHANGED <<done, joins>>
    PROVE  Flight!Release(r) \/ UNCHANGED Flight!vars
  <1>1. Leader' = [Leader EXCEPT ![r] = None] /\ Leader[r] = st[r].run
    BY StateFields, LeaderStep DEF IInv, TypeOK, Leader
  <1>2. CASE Leader[r] = None
    BY <1>1, <1>2 DEF Flight!vars, Leader, Phase
  <1>3. CASE Leader[r] # None
    BY <1>1, <1>3 DEF Flight!Release, Leader, Phase
  <1> QED
    BY <1>2, <1>3

\* A step that settles the Deferred of a run out of every runner answers it.
LEMMA SettlingFlies ==
    ASSUME IInv, NEW p \in Prompts, NEW v \in {"exit", "cancelled"},
           done' = [done EXCEPT ![p] = Settle(@, v)], \A r \in Runners : st[r].run # p,
           UNCHANGED <<st, joins>>, Phase' = Phase
    PROVE  Flight!Answer(p) \/ UNCHANGED Flight!vars
  <1>1. Leader' = Leader /\ \A r \in Runners : Leader[r] # p
    BY DEF Leader
  <1>2. CASE done[p] = "open"
    BY <1>1, <1>2 DEF Settle, Flight!Answer, Leader, Phase
  <1>3. CASE done[p] # "open"
    <2>1. done' = done
      BY <1>3 DEF Settle, IInv, TypeOK
    <2> QED
      BY <1>1, <2>1 DEF Flight!vars, Leader, Phase
  <1> QED
    BY <1>2, <1>3

\* Every step of a runner is a step of single flight, or leaves it as it is.
LEMMA NextFlies ==
    ASSUME IInv, [RunnerNext]_runnerVars
    PROVE  [Flight!Next]_Flight!vars
  <1> USE CallersDiffer
  <1>1. ASSUME UNCHANGED <<Leader, Phase, done, joins>>
        PROVE  UNCHANGED Flight!vars
    BY <1>1 DEF Flight!vars, Leader, Phase
  <1>2. CASE UNCHANGED runnerVars
    BY <1>1, <1>2 DEF runnerVars, runVars, callVars, Leader, Phase
  <1>3. ASSUME NEW p \in Prompts, NEW r \in Runners, EnsureRunning(p, r)
        PROVE  Flight!Next
    BY <1>3, EnsureRunningFlies DEF Flight!Next
  <1>4. ASSUME NEW s \in Shells, NEW r \in Runners, StartShell(s, r)
        PROVE  UNCHANGED Flight!vars
    <2>1. Phase' = Phase /\ UNCHANGED <<done, joins>>
      BY <1>4, PhaseStep DEF StartShell, IInv, runVars
    <2>2. CASE Busy(r)
      BY <1>1, <1>4, <2>1, <2>2 DEF StartShell, runVars, Leader
    <2>3. CASE ~Busy(r)
      <3>1. st' = [st EXCEPT ![r] = Shell(s)] /\ st[r].run = None
        BY <1>4, <2>3, StateShape DEF StartShell, Busy, IInv, TypeOK
      <3> DEFINE x == Shell(s)
      <3>a. st' = [st EXCEPT ![r] = x] /\ x \in State /\ x.run = None
        BY <3>1, StateFields
      <3> HIDE DEF x
      <3>2. Leader' = [Leader EXCEPT ![r] = None]
        BY <3>a, LeaderStep DEF IInv, TypeOK
      <3>3. Leader' = Leader
        BY <3>1, <3>2 DEF Leader
      <3> QED
        BY <1>1, <2>1, <3>3
    <2> QED
      BY <2>2, <2>3
  <1>5. ASSUME NEW c \in Cancels, NEW r \in Runners, Cancel(c, r)
        PROVE  Flight!Release(r) \/ UNCHANGED Flight!vars
    <2>1. Phase' = Phase
      BY <1>5, PhaseStep DEF Cancel, Vacate, IInv
    <2> QED
      BY <1>5, <2>1, IdlingFlies DEF Cancel, Vacate
  <1>6. ASSUME NEW x \in Works, Return(x)
        PROVE  (x \in Prompts /\ Flight!Get(x)) \/ UNCHANGED Flight!vars
    <2>1. CASE x \in Prompts
      <3>1. Phase' = [Phase EXCEPT ![x] = "returned"] /\ Phase[x] = "waiting"
        BY <1>6, <2>1, PhaseStep DEF Return, IInv, Phase
      <3> QED
        BY <1>6, <2>1, <3>1 DEF Return, runVars, Flight!Get, Leader, Phase
    <2>2. CASE x \notin Prompts
      BY <1>1, <1>6, <2>2, PhaseStep DEF Return, runVars, IInv, Leader
    <2> QED
      BY <2>1, <2>2
  <1>7. ASSUME NEW w \in Works, WorkStep(w)
        PROVE  UNCHANGED Flight!vars
    BY <1>1, <1>7 DEF WorkStep, WorkEnds, Interrupted, WorkStops, WorkIdled, callVars, Leader, Phase
  <1>8. ASSUME NEW p \in Prompts, FinishRun(p)
        PROVE  (\E r \in Runners : Flight!Release(r)) \/ UNCHANGED Flight!vars
    <2>1. home[p] \in Runners
      BY <1>8 DEF FinishRun, IsCurrent, Vacate, IInv, Unused
    <2>2. Phase' = Phase /\ UNCHANGED <<done, joins>>
      BY <1>8 DEF FinishRun, IsCurrent, Vacate, callVars, Phase
    <2>3. CASE st[home[p]] = Running(p)
      BY <1>8, <2>1, <2>2, <2>3, IdlingFlies DEF FinishRun, IsCurrent, Vacate
    <2>4. CASE st[home[p]] # Running(p)
      BY <1>1, <1>8, <2>2, <2>4 DEF FinishRun, IsCurrent, Vacate, Leader
    <2> QED
      BY <2>3, <2>4
  <1>9. ASSUME NEW p \in Prompts, Complete(p)
        PROVE  Flight!Answer(p) \/ UNCHANGED Flight!vars
    <2>1. \A r \in Runners : st[r].run # p
      BY <1>9, StateShape DEF Complete, IInv, TypeOK, Holding
    <2>2. /\ done' = [done EXCEPT ![p] = Settle(@, Outcome(p))]
          /\ Phase' = Phase /\ UNCHANGED <<st, joins>>
      BY <1>9 DEF Complete, callVars, Phase
    <2>3. Outcome(p) \in {"exit", "cancelled"}
      BY DEF Outcome
    <2> QED
      BY <2>1, <2>2, <2>3, SettlingFlies
  <1>10. ASSUME NEW s \in Shells, FinishShell(s)
         PROVE  UNCHANGED Flight!vars
    <2>1. home[s] \in Runners /\ st[home[s]] \in State
      BY <1>10 DEF FinishShell, StartQueued, Vacate, IInv, TypeOK, Unused
    <2>2. Phase' = Phase /\ UNCHANGED <<done, joins>>
      BY <1>10 DEF FinishShell, StartQueued, Vacate, callVars, Phase
    <2>3. CASE st[home[s]] = Shell(s)
      <3>1. st' = [st EXCEPT ![home[s]] = Idle] /\ st[home[s]].run = None
        BY <1>10, <2>3, StateFields DEF FinishShell, StartQueued, Vacate
      <3>2. Leader' = Leader
        BY <2>1, <3>1, StateFields, LeaderStep DEF IInv, TypeOK, Leader
      <3> QED
        BY <1>1, <2>2, <3>2
    <2>4. CASE st[home[s]].tag = "ShellThenRun" /\ st[home[s]].shell = s
      <3> DEFINE p == st[home[s]].run
      <3>1. st' = [st EXCEPT ![home[s]] = Running(p)] /\ p \in Prompts
        BY <1>10, <2>1, <2>4, StateShape, StateFields DEF FinishShell, StartQueued, Vacate
      <3>2. Leader' = Leader
        BY <2>1, <3>1, StateFields, LeaderStep DEF IInv, TypeOK, Leader
      <3> QED
        BY <1>1, <2>2, <3>2
    <2>5. CASE st[home[s]].shell # s
      BY <1>1, <1>10, <2>2, <2>5, StateFields DEF FinishShell, StartQueued, Vacate, Leader
    <2> QED
      BY <1>10, <2>3, <2>4, <2>5 DEF FinishShell, StartQueued, Vacate
  <1>11. ASSUME NEW c \in Cancels, Drop(c)
         PROVE  Flight!Answer(drops[c]) \/ UNCHANGED Flight!vars
    <2>1. drops[c] \in Prompts /\ \A r \in Runners : st[r].run # drops[c]
      BY <1>11 DEF Drop, IInv, Dropping
    <2>2. Phase' = Phase
      BY <1>11, PhaseStep DEF Drop, IInv
    <2> QED
      BY <1>11, <2>1, <2>2, SettlingFlies DEF Drop
  <1>12. ASSUME NEW c \in Cancels, Kill(c) \/ Reap(c) \/ IdleIfCurrent(c) \/ CancelIdled(c)
         PROVE  UNCHANGED Flight!vars
    <2>1. Phase' = Phase
      BY <1>12, PhaseStep DEF Kill, Reap, IdleIfCurrent, CancelIdled, IInv
    <2> QED
      BY <1>1, <1>12, <2>1 DEF Kill, Reap, IdleIfCurrent, CancelIdled, runVars, Leader
  <1>13. \A c \in Cancels : Drop(c) => drops[c] \in Prompts
    BY DEF Drop, IInv, Dropping
  <1> QED
    BY <1>2, <1>3, <1>4, <1>5, <1>6, <1>7, <1>8, <1>9, <1>10, <1>11, <1>12, <1>13
       DEF RunnerNext, RunStep, CancelStep, Flight!Next

\* A runner implements single flight.
THEOREM FliesSingle == RunnerSpec => IsSingleFlight
  <1>1. RunnerInit => Flight!Init
    BY StateFields, CallersDiffer DEF RunnerInit, Flight!Init
  <1> QED
    BY <1>1, NextFlies, Invariance, PTL DEF RunnerSpec, IsSingleFlight, Flight!Spec
=============================================================================
