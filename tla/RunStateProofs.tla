--------------------------- MODULE RunStateProofs ---------------------------
(***************************************************************************)
(* Whatever the session's map and status do, each runner of a session is a *)
(* runner: RunState implements Runner, and what RunnerProofs shows of      *)
(* runners holds of sessions, whichever way fibers are scheduled.  What a  *)
(* session promises beyond that needs more: that a fiber yields at awaits  *)
(* only, so that a look-up and its use, or the end of a work and its hook, *)
(* are not torn apart.                                                     *)
(***************************************************************************)
EXTENDS RunState, RunnerProofs

LEMMA WorkNextRuns ==
    ASSUME NEW w \in Works, WorkNext(w)
    PROVE  RunnerNext \/ UNCHANGED runnerVars
  BY DEF WorkNext, LookUp, HookOfWork, Unwind, WorkStep, RunnerNext

LEMMA PromptNextRuns ==
    ASSUME NEW p \in Prompts, PromptNext(p), MapTypeOK
    PROVE  RunnerNext \/ UNCHANGED runnerVars
  <1>1. CASE Prompt(p)
    <2>1. held[p] \in Runners
      BY <1>1, CallersDiffer DEF Prompt, MapTypeOK
    <2> QED
      BY <1>1, <2>1 DEF Prompt, RunnerNext
  <1>2. CASE SayBusy(p) \/ Halt(p)
    BY <1>2 DEF SayBusy, Halt
  <1>3. CASE RunFiber(p)
    BY <1>3 DEF RunFiber, RunStep, RunnerNext
  <1> QED
    BY <1>1, <1>2, <1>3 DEF PromptNext

LEMMA ShellNextRuns ==
    ASSUME NEW s \in Shells, ShellNext(s), MapTypeOK
    PROVE  RunnerNext
  <1>1. held[s] # None => held[s] \in Runners
    BY CallersDiffer DEF MapTypeOK
  <1> QED
    BY <1>1 DEF ShellNext, StartOrRefuse, RunnerNext

LEMMA CancelNextRuns ==
    ASSUME NEW c \in Cancels, CancelNext(c)
    PROVE  RunnerNext \/ UNCHANGED runnerVars
  BY DEF CancelNext, LookUpToCancel, CancelHeld, HookOfCancel, CancelAway, CancelStep, RunnerNext

\* Every step of a session is a step of its runners, or leaves them alone.
LEMMA NextRuns ==
    ASSUME MapTypeOK, [Next]_vars
    PROVE  [RunnerNext]_runnerVars
  BY WorkNextRuns, PromptNextRuns, ShellNextRuns, CancelNextRuns
     DEF Next, vars, AssertNotBusy

\* The map, the lookups, the status and the verdicts keep their types.
LEMMA MapStep ==
    ASSUME MapTypeOK, TypeOK', [Next]_vars
    PROVE  MapTypeOK'
  <1> USE CallersDiffer, ChecksAssumption
  <1>1. ASSUME UNCHANGED mapVars
        PROVE  MapTypeOK'
    BY <1>1 DEF mapVars, MapTypeOK
  <1>2. ASSUME OnIdle
        PROVE  MapTypeOK'
    BY <1>2 DEF OnIdle, MapTypeOK
  <1>3. ASSUME NEW w \in Works, LookUp(w)
        PROVE  MapTypeOK'
    <2>1. CASE current # None
      BY <1>3, <2>1 DEF LookUp, MapTypeOK
    <2>2. CASE current = None
      <3>1. PICK r \in Runners \ used : /\ held' = [held EXCEPT ![w] = r]
                                        /\ current' = r /\ used' = used \cup {r}
        BY <1>3, <2>2 DEF LookUp
      <3> QED
        BY <1>3, <3>1 DEF LookUp, MapTypeOK
    <2> QED
      BY <2>1, <2>2
  <1>4. ASSUME NEW w \in Works, WorkNext(w)
        PROVE  MapTypeOK'
    BY <1>1, <1>2, <1>3, <1>4 DEF WorkNext, HookOfWork
  <1>5. ASSUME NEW p \in Prompts, PromptNext(p)
        PROVE  MapTypeOK'
    <2>1. CASE Prompt(p) \/ (RunFiber(p) /\ UNCHANGED mapVars)
      BY <1>1, <2>1 DEF Prompt
    <2>2. CASE SayBusy(p) \/ Halt(p)
      BY <2>2 DEF SayBusy, Halt, MapTypeOK
    <2> QED
      BY <1>5, <2>1, <2>2 DEF PromptNext
  <1>6. ASSUME NEW s \in Shells, ShellNext(s)
        PROVE  MapTypeOK'
    BY <1>1, <1>6 DEF ShellNext, StartOrRefuse, MapTypeOK
  <1>7. ASSUME NEW c \in Cancels, CancelNext(c)
        PROVE  MapTypeOK'
    <2>1. CASE LookUpToCancel(c)
      BY <2>1 DEF LookUpToCancel, MapTypeOK
    <2>2. CASE CancelHeld(c) \/ HookOfCancel(c) \/ (CancelAway(c) /\ UNCHANGED mapVars)
      BY <1>1, <1>2, <2>2 DEF CancelHeld, HookOfCancel
    <2> QED
      BY <1>7, <2>1, <2>2 DEF CancelNext
  <1>8. ASSUME NEW k \in Checks, AssertNotBusy(k)
        PROVE  MapTypeOK'
    BY <1>8 DEF AssertNotBusy, MapTypeOK
  <1>9. CASE UNCHANGED vars
    BY <1>1, <1>9 DEF vars
  <1> QED
    BY <1>4, <1>5, <1>6, <1>7, <1>8, <1>9 DEF Next

\* The types of a session's variables, and the runners' invariant.
THEOREM SessionInvariance == Spec => [](MapTypeOK /\ IInv)
  <1>1. Init => MapTypeOK /\ IInv
    BY InitIInv, CallersDiffer, ChecksAssumption DEF Init, MapTypeOK, IInv
  <1>2. MapTypeOK /\ IInv /\ [Next]_vars => (MapTypeOK /\ IInv)'
    BY NextRuns, NextIInv, MapStep DEF IInv
  <1> QED
    BY <1>1, <1>2, PTL DEF Spec

\* The variables of a session keep their types.
THEOREM SessionTypes == Spec => []MapTypeOK
  BY SessionInvariance, PTL

\* A session's runners behave as runners do.
THEOREM SessionRuns == Spec => RunnerSpec
  <1>1. Init => RunnerInit
    BY DEF Init
  <1>2. MapTypeOK /\ [Next]_vars => [RunnerNext]_runnerVars
    BY NextRuns
  <1> QED
    BY <1>1, <1>2, SessionInvariance, PTL DEF Spec, RunnerSpec

\* In a session, too, no work is lost track of and no waiter is stranded.
THEOREM SessionNoOrphan == Spec => []NoOrphanWork
  BY SessionRuns, NoOrphan, PTL

THEOREM SessionNobodyStranded == Spec => []NoStrandedWaiter
  BY SessionRuns, NobodyStranded, PTL

-----------------------------------------------------------------------------
(* What awaits give: unless Preemptive, a fiber goes on alone from one     *)
(* await to the next, and a session at rest is idle.                       *)

\* c is to stop w, or awaits its end.
Stops(c, w) == target[c] = w /\ pc[c] \in {"dropping", "killing", "reaping"}

\* One fiber at a time is between two awaits.
OneBursts == \A x, y \in Callers : Bursting(x) /\ Bursting(y) => x = y

\* Who has called has looked a runner up.
Called ==
    /\ \A w \in Works : held[w] = None => pc[w] = "start"
    /\ \A c \in Cancels : /\ pc[c] # "start" => held[c] \in Runners /\ at[c] \in Runners
                         /\ pc[c] \notin {"waiting", "refused"}

\* A fiber is stopped by one cancel, and its runner has let go of it.
OneStops ==
    \A c \in Cancels : target[c] # None =>
        /\ \A d \in Cancels : target[d] = target[c] => d = c
        /\ \A r \in Runners : ~Owns(r, target[c])

\* A fiber that has not yet called its runner back is held by it, or awaited.
Accounted ==
    \A w \in Works : fiber[w] \in {"working", "stopping", "ended"} =>
        Owns(home[w], w) \/ \E c \in Cancels : Stops(c, w)

\* A run about to answer has told the session it is idle, or leaves that to a cancel.
Told ==
    \A w \in Works : fiber[w] = "completing" =>
        \/ status = "idle" /\ current = None
        \/ \E c \in Cancels : Stops(c, w)

\* What a cancel has looked up is still busy when it gets there.
StillBusy == \A c \in Cancels : held[c] \in Runners /\ pc[c] = "start" => Busy(held[c])

\* Nothing runs, and no call but a waiting one is under way.
Rest ==
    /\ \A w \in Works : ~Alive(w) /\ (pc[w] = "start" => held[w] = None)
    /\ \A c \in Cancels : pc[c] = "returned" \/ held[c] \in {None, Skipped}

RestIsIdle == Rest => status = "idle" /\ current = None

\* Until somebody cancels, only the runner of the map is busy, callers are about
\* to use it, and the fiber that forgets it has just left it idle.
Unhurt ==
    Uncancelled =>
        /\ \A w \in Works : ~kill[w] /\ fiber[w] # "stopping"
        /\ \A r \in Runners : Busy(r) => r = current
        /\ \A w \in Works : pc[w] = "start" /\ held[w] # None => held[w] = current
        /\ \A w \in Works : fiber[w] = "idling" => home[w] = current /\ ~Busy(current)

SessInv ==
    /\ OneBursts /\ Called /\ OneStops /\ Accounted /\ Told /\ StillBusy
    /\ RestIsIdle /\ Unhurt

Alone(x) == \A y \in Callers \ {x} : ~Bursting(y)

Known == MapTypeOK /\ IInv /\ SessInv

\* A step of x that makes nobody else burst leaves x alone, if anyone.
LEMMA BurstsOfOne ==
    ASSUME NEW x \in Callers, Alone(x), \A y \in Callers \ {x} : Bursting(y)' => Bursting(y)
    PROVE  OneBursts'
  BY DEF OneBursts, Alone

\* A fiber that dies hands over to the one cancel that awaits it.
LEMMA BurstsOfReaper ==
    ASSUME NEW w \in Works, OneStops', ~Bursting(w)',
           \A y \in Callers \ {w} : Bursting(y)' => y \in Cancels /\ target'[y] = w
    PROVE  OneBursts'
  BY CallersDiffer DEF OneBursts, OneStops

\* A busy runner has a fiber that is alive.
LEMMA BusyIsNoRest ==
    ASSUME IInv', NEW r \in Runners, st'[r].tag # "Idle"
    PROVE  ~Rest'
  <1>1. st'[r] \in State
    BY DEF IInv, TypeOK
  <1>2. \/ st'[r].tag = "Running" /\ st'[r].run \in Works
        \/ st'[r].shell \in Works /\ st'[r].shell # None
    BY <1>1, StateShape, CallersDiffer
  <1> QED
    BY <1>2 DEF IInv, Holding, Rest, Alive

\* No cancel stops a fiber that was not born.
LEMMA NotAimed ==
    ASSUME Known, NEW w \in Works, fiber[w] = "unborn", NEW c \in Cancels
    PROVE  target[c] # w
  <1>1. pc[c] \in {"start", "dropping", "killing", "reaping", "checking", "idling", "returned"}
    BY CallersDiffer DEF Known, MapTypeOK, TypeOK, SessInv, Called
  <1> QED
    BY <1>1, CallersDiffer DEF Known, IInv, Aiming, Reaped, Unused

LEMMA LookUpSess ==
    ASSUME Known, NEW w \in Works, Alone(w), LookUp(w)
    PROVE  SessInv'
  <1> USE CallersDiffer
  <1>1. /\ UNCHANGED <<st, fiber, exit, kill, home, done, pc, joins, target, drops, at, status, verdict>>
        /\ held[w] = None /\ held'[w] \in Runners
        /\ \A x \in Callers \ {w} : held'[x] = held[x]
        /\ current' = held'[w] /\ (current # None => current' = current)
        /\ pc[w] = "start"
    <2>1. UNCHANGED <<st, fiber, exit, kill, home, done, pc, joins, target, drops, at, status, verdict>>
      BY DEF LookUp, runnerVars, runVars, callVars
    <2>2. held[w] = None /\ pc[w] = "start"
      BY DEF LookUp, Known, SessInv, Called
    <2> QED
      BY <2>1, <2>2 DEF LookUp, Known, MapTypeOK
  <1>2. OneBursts'
    BY <1>1, BurstsOfOne DEF Bursting
  <1>3. Called' /\ OneStops' /\ Accounted'
    BY <1>1 DEF Known, SessInv, Called, OneStops, Accounted, Stops, Owns
  <1>4. Told'
    <2> SUFFICES ASSUME NEW v \in Works, fiber[v] = "completing",
                        status = "idle" /\ current = None
                 PROVE  FALSE
      BY <1>1 DEF Known, SessInv, Told, Stops
    <2>1. v # w
      BY <1>1 DEF Known, IInv, Unused
    <2> QED
      BY <2>1 DEF Alone, Bursting
  <1>5. StillBusy' /\ RestIsIdle'
    BY <1>1 DEF Known, SessInv, StillBusy, Busy, RestIsIdle, Rest
  <1>6. Unhurt'
    <2> SUFFICES ASSUME Uncancelled'
                 PROVE  Unhurt'
      BY DEF Unhurt
    <2>1. Uncancelled
      BY <1>1 DEF Uncancelled
    <2>2. \A v \in Works : fiber[v] # "idling"
      BY <1>1 DEF Alone, Bursting, Known, IInv, Unused
    <2>3. \A v \in Works \ {w} : pc[v] = "start" => held[v] = None
      BY DEF Alone, Bursting
    <2>4. \A r \in Runners : Busy(r) => r = current'
      BY <1>1, <2>1 DEF Known, SessInv, Unhurt
    <2> QED
      BY <1>1, <2>1, <2>2, <2>3, <2>4 DEF Known, SessInv, Unhurt, Busy
  <1> QED
    BY <1>2, <1>3, <1>4, <1>5, <1>6 DEF SessInv

LEMMA HookOfWorkSess ==
    ASSUME Known, NEW w \in Works, Alone(w), HookOfWork(w)
    PROVE  SessInv'
  <1> USE CallersDiffer
  <1>1. /\ UNCHANGED <<st, exit, kill, home, done, pc, joins, target, drops, at, used, held, verdict>>
        /\ fiber[w] = "idling" /\ fiber'[w] \in {"completing", "dead"}
        /\ \A v \in Works \ {w} : fiber'[v] = fiber[v]
        /\ current' = None /\ status' = "idle"
    BY DEF HookOfWork, WorkIdled, OnIdle, callVars, Known, MapTypeOK, TypeOK
  <1>2. Called' /\ OneStops' /\ StillBusy' /\ RestIsIdle'
    BY <1>1 DEF Known, SessInv, Called, OneStops, StillBusy, RestIsIdle, Owns, Busy
  <1>3. Accounted' /\ Told'
    BY <1>1 DEF Known, SessInv, Accounted, Told, Owns, Stops
  <1>p. pc[w] # "start"
    BY <1>1 DEF Known, IInv, Unused
  <1>4. OneBursts'
    <2>1. \A y \in Callers \ {w} : Bursting(y)' => y \in Cancels /\ target'[y] = w
      <3> SUFFICES ASSUME NEW y \in Callers \ {w}, Bursting(y)'
                   PROVE  y \in Cancels /\ target'[y] = w
        OBVIOUS
      <3>1. ~Bursting(y)
        BY DEF Alone
      <3>2. CASE y \in Works
        BY <1>1, <3>1, <3>2 DEF Bursting
      <3>3. CASE y \in Cancels
        <4>1. pc[y] = "reaping" /\ fiber'[target[y]] = "dead" /\ fiber[target[y]] # "dead"
          BY <1>1, <3>1, <3>3 DEF Bursting
        <4>2. target[y] \in Works
          BY <3>3, <4>1 DEF Known, IInv, Aiming
        <4> QED
          BY <1>1, <3>3, <4>1, <4>2
      <3> QED
        BY <3>2, <3>3 DEF Callers
    <2>2. CASE fiber'[w] = "dead"
      <3>1. ~Bursting(w)'
        BY <1>1, <1>p, <2>2 DEF Bursting
      <3> QED
        BY <1>2, <2>1, <3>1, BurstsOfReaper
    <2>3. CASE fiber'[w] = "completing"
      <3>1. \A y \in Callers \ {w} : Bursting(y)' => Bursting(y)
        BY <1>1, <2>1, <2>3 DEF Bursting
      <3> QED
        BY <3>1, BurstsOfOne
    <2> QED
      BY <1>1, <2>2, <2>3
  <1>5. Unhurt'
    <2> SUFFICES ASSUME Uncancelled'
                 PROVE  Unhurt'
      BY DEF Unhurt
    <2>1. Uncancelled
      BY <1>1 DEF Uncancelled
    <2>2. \A r \in Runners : ~Busy(r)
      BY <1>1, <2>1 DEF Known, SessInv, Unhurt
    <2>3. \A v \in Works : fiber'[v] # "idling" /\ (pc[v] = "start" => held[v] = None)
      BY <1>1, <1>p DEF Alone, Bursting
    <2> QED
      BY <1>1, <2>1, <2>2, <2>3 DEF Known, SessInv, Unhurt, Busy
  <1> QED
    BY <1>2, <1>3, <1>4, <1>5 DEF SessInv

LEMMA ReturnSess ==
    ASSUME Known, NEW w \in Works, Alone(w), Return(w), UNCHANGED mapVars
    PROVE  SessInv'
  <1> USE CallersDiffer
  <1>1. /\ UNCHANGED <<st, fiber, exit, kill, home, done, joins, target, drops, at, mapVars>>
        /\ pc[w] = "waiting" /\ pc'[w] = "returned"
        /\ \A x \in Callers \ {w} : pc'[x] = pc[x]
    BY DEF Return, runVars, Known, MapTypeOK, TypeOK
  <1>2. OneBursts'
    BY <1>1, BurstsOfOne DEF Bursting, mapVars
  <1>3. Called' /\ OneStops' /\ Accounted' /\ Told' /\ StillBusy'
    BY <1>1 DEF Known, SessInv, Called, OneStops, Accounted, Told, StillBusy, Stops, Owns,
       Busy, mapVars
  <1>4. RestIsIdle'
    BY <1>1 DEF Known, SessInv, RestIsIdle, Rest, Alive, mapVars
  <1>5. Unhurt'
    BY <1>1 DEF Known, SessInv, Unhurt, Uncancelled, Busy, mapVars
  <1> QED
    BY <1>2, <1>3, <1>4, <1>5 DEF SessInv

\* A work ends by itself, or is interrupted, or its finalizers end.
LEMMA EndSess ==
    ASSUME Known, NEW w \in Works, Alone(w), WorkEnds(w) \/ Unwind(w), UNCHANGED mapVars
    PROVE  SessInv'
  <1> USE CallersDiffer
  <1>1. /\ UNCHANGED <<st, kill, home, done, pc, joins, target, drops, at, mapVars>>
        /\ fiber[w] \in {"working", "stopping"} /\ fiber'[w] \in {"stopping", "ended"}
        /\ fiber'[w] = "stopping" => kill[w]
        /\ \A v \in Works \ {w} : fiber'[v] = fiber[v]
    BY DEF WorkEnds, Unwind, Interrupted, WorkStops, callVars, Known, MapTypeOK, TypeOK
  <1>2. OneBursts'
    <2>1. ASSUME NEW y \in Callers \ {w}, Bursting(y)'
          PROVE  Bursting(y)
      <3>1. CASE y \in Works
        BY <1>1, <2>1, <3>1 DEF Bursting, mapVars
      <3>2. CASE y \in Cancels
        <4>1. pc[y] = "reaping" => target[y] \in Works
          BY <3>2 DEF Known, IInv, Aiming
        <4> QED
          BY <1>1, <2>1, <3>2, <4>1 DEF Bursting, mapVars
      <3> QED
        BY <3>1, <3>2 DEF Callers
    <2> QED
      BY <2>1, BurstsOfOne
  <1>3. Called' /\ OneStops' /\ StillBusy'
    BY <1>1 DEF Known, SessInv, Called, OneStops, StillBusy, Owns, Busy, mapVars
  <1>4. Accounted' /\ Told'
    BY <1>1 DEF Known, SessInv, Accounted, Told, Owns, Stops, mapVars
  <1>5. RestIsIdle'
    BY <1>1 DEF RestIsIdle, Rest, Alive
  <1>6. Unhurt'
    BY <1>1 DEF Known, SessInv, Unhurt, Uncancelled, Busy, mapVars
  <1> QED
    BY <1>2, <1>3, <1>4, <1>5, <1>6 DEF SessInv

LEMMA PromptSess ==
    ASSUME Known, IInv', NEW p \in Prompts, Alone(p), Prompt(p)
    PROVE  SessInv'
  <1> USE CallersDiffer
  <1> DEFINE r == held[p]
  <1>r. r \in Runners /\ pc[p] = "start" /\ fiber[p] = "unborn"
    BY DEF Prompt, EnsureRunning, Known, MapTypeOK, IInv, Unused
  <1>1. /\ UNCHANGED <<mapVars, target, drops, at, kill, exit>>
        /\ pc'[p] = "waiting" /\ \A x \in Callers \ {p} : pc'[x] = pc[x]
        /\ \A v \in Works \ {p} : fiber'[v] = fiber[v] /\ home'[v] = home[v]
        /\ \A x \in Runners \ {r} : st'[x] = st[x]
        /\ st[r].tag # "Idle" \/ st'[r].tag # "Idle" => st'[r].tag # "Idle"
        /\ st'[r].tag # "Idle"
        /\ st'[r].shell = st[r].shell
        /\ \/ st'[r].run = st[r].run /\ fiber'[p] = "unborn"
           \/ st[r].run = None /\ st'[r].run = p /\ home'[p] = r /\ fiber'[p] \in {"unborn", "working"}
    <2>s. st[r] \in State
      BY <1>r DEF Known, IInv, TypeOK
    <2>1. CASE Join(p, r)
      BY <1>r, <2>1 DEF Prompt, EnsureRunning, Join, runVars, Known, MapTypeOK, TypeOK
    <2>2. CASE Queue(p, r)
      BY <1>r, <2>2, <2>s, StateShape, StateFields
         DEF Prompt, EnsureRunning, Queue, Known, MapTypeOK, TypeOK
    <2>3. CASE Start(p, r)
      BY <1>r, <2>3, <2>s, StateShape, StateFields
         DEF Prompt, EnsureRunning, Start, Known, MapTypeOK, TypeOK
    <2> QED
      BY <2>1, <2>2, <2>3 DEF Prompt, EnsureRunning
  <1> HIDE DEF r
  <1>p. \A c \in Cancels : target[c] # p
    BY <1>r, NotAimed
  <1>2. OneBursts'
    <2>1. ASSUME NEW y \in Callers \ {p}, Bursting(y)'
          PROVE  Bursting(y)
      <3>1. CASE y \in Works
        BY <1>1, <2>1, <3>1 DEF Bursting, mapVars
      <3>2. CASE y \in Cancels
        <4>1. pc[y] = "reaping" => target[y] \in Works
          BY <3>2 DEF Known, IInv, Aiming
        <4> QED
          BY <1>1, <1>p, <2>1, <3>2, <4>1 DEF Bursting, mapVars
      <3> QED
        BY <3>1, <3>2 DEF Callers
    <2> QED
      BY <2>1, BurstsOfOne
  <1>3. Called'
    BY <1>1, <1>r DEF r, Known, SessInv, Called, mapVars
  <1>4. OneStops'
    BY <1>1, <1>r, <1>p DEF Known, SessInv, OneStops, Owns
  <1>5. Accounted'
    <2> SUFFICES ASSUME NEW v \in Works, fiber'[v] \in {"working", "stopping", "ended"}
                 PROVE  Owns(home[v], v)' \/ \E c \in Cancels : Stops(c, v)'
      BY DEF Accounted
    <2>1. CASE v = p
      BY <1>1, <1>r, <2>1 DEF Owns
    <2>2. CASE v # p
      <3>1. home[v] \in Runners /\ home'[v] = home[v] /\ fiber'[v] = fiber[v]
        BY <1>1, <2>2 DEF Known, IInv, Unused
      <3>2. CASE \E c \in Cancels : Stops(c, v)
        BY <1>1, <3>2 DEF Stops
      <3>3. CASE Owns(home[v], v)
        BY <1>1, <3>1, <3>3 DEF Owns
      <3> QED
        BY <3>1, <3>2, <3>3 DEF Known, SessInv, Accounted
    <2> QED
      BY <2>1, <2>2
  <1>6. Told'
    BY <1>1, <1>r DEF Known, SessInv, Told, Stops, mapVars
  <1>7. StillBusy'
    BY <1>1, <1>r DEF Known, SessInv, StillBusy, Busy, mapVars
  <1>8. ~Rest'
    BY <1>1, <1>r, BusyIsNoRest
  <1>9. Unhurt'
    <2> SUFFICES ASSUME Uncancelled
                 PROVE  Unhurt'
      BY <1>1 DEF Unhurt, Uncancelled, mapVars
    <2>1. r = current
      BY <1>r DEF r, Known, SessInv, Unhurt
    <2>2. \A v \in Works : fiber[v] # "idling"
      BY <1>r DEF Alone, Bursting
    <2> QED
      BY <1>1, <1>r, <2>1, <2>2 DEF Known, SessInv, Unhurt, Busy, mapVars
  <1> QED
    BY <1>2, <1>3, <1>4, <1>5, <1>6, <1>7, <1>8, <1>9 DEF SessInv, RestIsIdle

\* The prompt loop and the processor publish a status.
LEMMA SaySess ==
    ASSUME Known, NEW p \in Prompts, Alone(p), SayBusy(p) \/ Halt(p)
    PROVE  SessInv'
  <1> USE CallersDiffer
  <1>1. /\ UNCHANGED <<runnerVars, current, used, held, verdict>>
        /\ fiber[p] \in {"working", "stopping"}
        /\ status' = "busy" => fiber[p] = "working"
    BY DEF SayBusy, Halt
  <1>2. OneBursts' /\ Called' /\ OneStops' /\ Accounted' /\ StillBusy'
    BY <1>1 DEF Known, SessInv, OneBursts, Bursting, Called, OneStops, Accounted, StillBusy,
       Stops, Owns, Busy, runnerVars, runVars, callVars
  <1>3. Told'
    <2> SUFFICES ASSUME NEW v \in Works, fiber[v] = "completing"
                 PROVE  \E c \in Cancels : Stops(c, v)
      BY <1>1 DEF Told, Stops, runnerVars, runVars, callVars
    <2> QED
      BY <1>1 DEF Alone, Bursting
  <1>4. RestIsIdle'
    BY <1>1 DEF RestIsIdle, Rest, Alive, runnerVars, runVars
  <1>5. Unhurt'
    BY <1>1 DEF Known, SessInv, Unhurt, Uncancelled, Busy, runnerVars, runVars, callVars
  <1> QED
    BY <1>2, <1>3, <1>4, <1>5 DEF SessInv

LEMMA FinishRunSess ==
    ASSUME Known, NEW p \in Prompts, Alone(p), FinishRun(p), UNCHANGED mapVars
    PROVE  SessInv'
  <1> USE CallersDiffer
  <1> DEFINE r == home[p]
  <1>r. r \in Runners /\ fiber[p] = "ended" /\ pc[p] # "start"
    BY DEF FinishRun, Known, IInv, Unused
  <1>1. /\ UNCHANGED <<exit, kill, home, done, pc, joins, target, drops, at, mapVars>>
        /\ \A v \in Works \ {p} : fiber'[v] = fiber[v]
        /\ \A x \in Runners \ {r} : st'[x] = st[x]
        /\ \/ st[r] = Running(p) /\ st'[r] = Idle /\ fiber'[p] = "idling"
           \/ st[r] # Running(p) /\ st'[r] = st[r] /\ fiber'[p] = "completing"
    BY <1>r DEF FinishRun, IsCurrent, Vacate, callVars, Known, MapTypeOK, TypeOK
  <1>s. st[r] \in State
    BY <1>r DEF Known, IInv, TypeOK
  <1>i. Idle.tag = "Idle" /\ Idle.run = None /\ Idle.shell = None
    BY StateFields
  <1>o. Owns(r, p) => st[r] = Running(p)
    BY <1>r, <1>s, StateShape DEF Owns, Known, IInv, Holding
  <1> HIDE DEF r
  <1>2. OneBursts'
    <2>1. ASSUME NEW y \in Callers \ {p}, Bursting(y)'
          PROVE  Bursting(y)
      <3>1. CASE y \in Works
        BY <1>1, <2>1, <3>1 DEF Bursting, mapVars
      <3>2. CASE y \in Cancels
        <4>1. pc[y] = "reaping" => target[y] \in Works
          BY <3>2 DEF Known, IInv, Aiming
        <4> QED
          BY <1>1, <1>r, <2>1, <3>2, <4>1 DEF Bursting, mapVars
      <3> QED
        BY <3>1, <3>2 DEF Callers
    <2> QED
      BY <2>1, BurstsOfOne
  <1>3. Called'
    BY <1>1 DEF Known, SessInv, Called, mapVars
  <1>4. OneStops'
    BY <1>1, <1>r, <1>i DEF Known, SessInv, OneStops, Owns
  <1>5. Accounted'
    <2> SUFFICES ASSUME NEW v \in Works \ {p}, fiber'[v] \in {"working", "stopping", "ended"}
                 PROVE  Owns(home[v], v)' \/ \E c \in Cancels : Stops(c, v)'
      BY <1>1 DEF Accounted
    <2>1. home[v] \in Runners /\ home'[v] = home[v] /\ fiber'[v] = fiber[v]
      BY <1>1 DEF Known, IInv, Unused
    <2>2. CASE \E c \in Cancels : Stops(c, v)
      BY <1>1, <2>2 DEF Stops
    <2>3. CASE Owns(home[v], v)
      <3>1. st[r] = Running(p) => home[v] # r
        BY <2>3, StateFields DEF Owns
      <3> QED
        BY <1>1, <2>1, <2>3, <3>1 DEF Owns
    <2> QED
      BY <2>1, <2>2, <2>3 DEF Known, SessInv, Accounted
  <1>6. Told'
    <2>1. fiber'[p] = "completing" => \E c \in Cancels : Stops(c, p)
      BY <1>1, <1>r, <1>o DEF r, Known, SessInv, Accounted
    <2>2. \A v \in Works \ {p} : fiber'[v] # "completing"
      BY <1>1 DEF Alone, Bursting
    <2> QED
      BY <1>1, <2>1, <2>2 DEF Told, Stops
  <1>7. StillBusy'
    BY <1>1 DEF Alone, Bursting, StillBusy, mapVars
  <1>8. RestIsIdle'
    BY <1>1 DEF RestIsIdle, Rest, Alive
  <1>9. Unhurt'
    <2> SUFFICES ASSUME Uncancelled
                 PROVE  Unhurt'
      BY <1>1 DEF Unhurt, Uncancelled, mapVars
    <2>1. \A v \in Works \ {p} : fiber'[v] # "idling"
      BY <1>1 DEF Alone, Bursting
    <2>2. fiber'[p] = "idling" => r = current /\ st'[current].tag = "Idle"
      <3> SUFFICES ASSUME fiber'[p] = "idling"
                   PROVE  r = current
        BY <1>1, <1>i
      <3>1. Busy(r)
        BY <1>1, StateFields DEF Busy
      <3> QED
        BY <1>r, <3>1 DEF Known, SessInv, Unhurt
    <2> QED
      BY <1>1, <1>r, <1>i, <2>1, <2>2 DEF r, Known, SessInv, Unhurt, Busy, mapVars
  <1> QED
    BY <1>2, <1>3, <1>4, <1>5, <1>6, <1>7, <1>8, <1>9 DEF SessInv

LEMMA CompleteSess ==
    ASSUME Known, NEW p \in Prompts, Alone(p), Complete(p), UNCHANGED mapVars
    PROVE  SessInv'
  <1> USE CallersDiffer
  <1>1. /\ UNCHANGED <<st, exit, kill, home, pc, joins, target, drops, at, mapVars>>
        /\ fiber[p] = "completing" /\ fiber'[p] = "dead"
        /\ \A v \in Works \ {p} : fiber'[v] = fiber[v]
    BY DEF Complete, callVars, Known, MapTypeOK, TypeOK
  <1>p. pc[p] # "start"
    BY <1>1 DEF Known, IInv, Unused
  <1>2. Called' /\ OneStops' /\ StillBusy'
    BY <1>1 DEF Known, SessInv, Called, OneStops, StillBusy, Owns, Busy, mapVars
  <1>3. Accounted' /\ Told'
    BY <1>1 DEF Known, SessInv, Accounted, Told, Owns, Stops, mapVars
  <1>4. OneBursts'
    <2>1. \A y \in Callers \ {p} : Bursting(y)' => y \in Cancels /\ target'[y] = p
      <3> SUFFICES ASSUME NEW y \in Callers \ {p}, Bursting(y)'
                   PROVE  y \in Cancels /\ target'[y] = p
        OBVIOUS
      <3>1. ~Bursting(y)
        BY DEF Alone
      <3>2. CASE y \in Works
        BY <1>1, <3>1, <3>2 DEF Bursting, mapVars
      <3>3. CASE y \in Cancels
        <4>1. pc[y] = "reaping" => target[y] \in Works
          BY <3>3 DEF Known, IInv, Aiming
        <4> QED
          BY <1>1, <3>1, <3>3, <4>1 DEF Bursting, mapVars
      <3> QED
        BY <3>2, <3>3 DEF Callers
    <2>2. ~Bursting(p)'
      BY <1>1, <1>p DEF Bursting
    <2> QED
      BY <1>2, <2>1, <2>2, BurstsOfReaper
  <1>5. RestIsIdle'
    <2> SUFFICES ASSUME Rest', NEW c \in Cancels, Stops(c, p)
                 PROVE  FALSE
      BY <1>1 DEF RestIsIdle, Known, SessInv, Told, mapVars
    <2>1. held[c] \in Runners
      BY DEF Stops, Known, SessInv, Called
    <2> QED
      BY <1>1, <2>1, ChecksAssumption DEF Rest, Stops, mapVars
  <1>6. Unhurt'
    BY <1>1 DEF Known, SessInv, Unhurt, Uncancelled, Busy, mapVars
  <1> QED
    BY <1>2, <1>3, <1>4, <1>5, <1>6 DEF SessInv

LEMMA StartOrRefuseSess ==
    ASSUME Known, IInv', NEW s \in Shells, Alone(s), StartOrRefuse(s)
    PROVE  SessInv'
  <1> USE CallersDiffer
  <1> DEFINE r == held[s]
  <1>r. r \in Runners /\ pc[s] = "start" /\ fiber[s] = "unborn"
    BY DEF StartOrRefuse, StartShell, Known, MapTypeOK, IInv, Unused
  <1>1. /\ UNCHANGED <<current, used, held, verdict, target, drops, at, kill, exit>>
        /\ pc'[s] # "start" /\ \A x \in Callers \ {s} : pc'[x] = pc[x]
        /\ \A v \in Works \ {s} : fiber'[v] = fiber[v] /\ home'[v] = home[v]
        /\ \A x \in Runners \ {r} : st'[x] = st[x]
        /\ st'[r].tag # "Idle"
        /\ \/ st'[r] = st[r] /\ fiber'[s] = "unborn" /\ status' = status
           \/ st[r].run = None /\ st[r].shell = None /\ st'[r].run = None /\ st'[r].shell = s
              /\ home'[s] = r /\ fiber'[s] = "working" /\ status' = "busy"
    <2>s. st[r] \in State
      BY <1>r DEF Known, IInv, TypeOK
    <2>1. CASE Busy(r)
      BY <1>r, <2>1 DEF StartOrRefuse, StartShell, Busy, runVars, Known, MapTypeOK, TypeOK
    <2>2. CASE ~Busy(r)
      BY <1>r, <2>2, <2>s, StateShape, StateFields
         DEF StartOrRefuse, StartShell, Busy, Known, MapTypeOK, TypeOK
    <2> QED
      BY <2>1, <2>2
  <1> HIDE DEF r
  <1>p. \A c \in Cancels : target[c] # s
    BY <1>r, NotAimed
  <1>2. OneBursts'
    <2>1. ASSUME NEW y \in Callers \ {s}, Bursting(y)'
          PROVE  Bursting(y)
      <3>1. CASE y \in Works
        BY <1>1, <2>1, <3>1 DEF Bursting
      <3>2. CASE y \in Cancels
        <4>1. pc[y] = "reaping" => target[y] \in Works
          BY <3>2 DEF Known, IInv, Aiming
        <4> QED
          BY <1>1, <1>p, <2>1, <3>2, <4>1 DEF Bursting
      <3> QED
        BY <3>1, <3>2 DEF Callers
    <2> QED
      BY <2>1, BurstsOfOne
  <1>3. Called'
    BY <1>1, <1>r DEF r, Known, SessInv, Called
  <1>4. OneStops'
    BY <1>1, <1>r, <1>p DEF Known, SessInv, OneStops, Owns
  <1>5. Accounted'
    <2> SUFFICES ASSUME NEW v \in Works, fiber'[v] \in {"working", "stopping", "ended"}
                 PROVE  Owns(home[v], v)' \/ \E c \in Cancels : Stops(c, v)'
      BY DEF Accounted
    <2>1. CASE v = s
      BY <1>1, <1>r, <2>1 DEF Owns
    <2>2. CASE v # s
      <3>1. home[v] \in Runners /\ home'[v] = home[v] /\ fiber'[v] = fiber[v]
        BY <1>1, <2>2 DEF Known, IInv, Unused
      <3>2. CASE \E c \in Cancels : Stops(c, v)
        BY <1>1, <3>2 DEF Stops
      <3>3. CASE Owns(home[v], v)
        BY <1>1, <3>1, <3>3 DEF Owns
      <3> QED
        BY <3>1, <3>2, <3>3 DEF Known, SessInv, Accounted
    <2> QED
      BY <2>1, <2>2
  <1>6. Told'
    <2>1. \A v \in Works : fiber[v] # "completing"
      BY <1>r DEF Alone, Bursting
    <2> QED
      BY <1>1, <2>1 DEF Told
  <1>7. StillBusy'
    BY <1>1, <1>r DEF Known, SessInv, StillBusy, Busy
  <1>8. ~Rest'
    BY <1>1, <1>r, BusyIsNoRest
  <1>9. Unhurt'
    <2> SUFFICES ASSUME Uncancelled
                 PROVE  Unhurt'
      BY <1>1 DEF Unhurt, Uncancelled
    <2>1. r = current
      BY <1>r DEF r, Known, SessInv, Unhurt
    <2>2. \A v \in Works : fiber[v] # "idling"
      BY <1>r DEF Alone, Bursting
    <2> QED
      BY <1>1, <1>r, <2>1, <2>2 DEF Known, SessInv, Unhurt, Busy
  <1> QED
    BY <1>2, <1>3, <1>4, <1>5, <1>6, <1>7, <1>8, <1>9 DEF SessInv, RestIsIdle

LEMMA FinishShellSess ==
    ASSUME Known, IInv', NEW s \in Shells, Alone(s), FinishShell(s), UNCHANGED mapVars
    PROVE  SessInv'
  <1> USE CallersDiffer
  <1> DEFINE r == home[s]
             q == st[r].run
  <1>r. r \in Runners /\ fiber[s] = "ended" /\ pc[s] # "start" /\ st[r] \in State
    BY DEF FinishShell, Known, IInv, TypeOK, Unused
  <1>1. /\ UNCHANGED <<exit, kill, home, done, pc, joins, target, drops, at, mapVars>>
        /\ \A x \in Runners \ {r} : st'[x] = st[x]
        /\ \/ /\ st[r] = Shell(s) /\ st'[r] = Idle /\ fiber'[s] = "idling"
              /\ \A v \in Works \ {s} : fiber'[v] = fiber[v]
           \/ /\ st[r].tag = "ShellThenRun" /\ st[r].shell = s /\ st'[r] = Running(q)
              /\ fiber'[s] = "dead" /\ fiber'[q] = "working"
              /\ \A v \in Works \ {s, q} : fiber'[v] = fiber[v]
           \/ /\ st[r].shell # s /\ st'[r] = st[r] /\ fiber'[s] = "dead"
              /\ \A v \in Works \ {s} : fiber'[v] = fiber[v]
    <2>1. UNCHANGED <<exit, kill, home, done, pc, joins, target, drops, at, mapVars>>
      BY DEF FinishShell, callVars
    <2>2. CASE st[r] = Shell(s) /\ Vacate(r) /\ fiber' = [fiber EXCEPT ![s] = "idling"]
      BY <1>r, <2>1, <2>2 DEF Vacate, Known, MapTypeOK, TypeOK
    <2>3. CASE StartQueued(s, r)
      <3>1. q \in Prompts
        BY <1>r, <2>3, StateShape DEF StartQueued
      <3> QED
        BY <1>r, <2>1, <2>3, <3>1 DEF StartQueued, Known, MapTypeOK, TypeOK
    <2>4. CASE st[r].shell # s /\ fiber' = [fiber EXCEPT ![s] = "dead"] /\ UNCHANGED st
      BY <1>r, <2>1, <2>4 DEF Known, MapTypeOK, TypeOK
    <2> QED
      BY <2>2, <2>3, <2>4 DEF FinishShell
  <1>i. Idle.tag = "Idle" /\ Idle.run = None /\ Idle.shell = None
    BY StateFields
  <1>o. Owns(r, s) => st[r].shell = s
    BY <1>r, StateShape DEF Owns
  <1>q. st[r].tag = "ShellThenRun" =>
           /\ q \in Prompts /\ fiber[q] = "unborn" /\ home[q] = r /\ done[q] = "open"
           /\ pc[q] # "start" /\ Running(q).tag = "Running"
           /\ Running(q).run = q /\ Running(q).shell = None
           /\ \A c \in Cancels : target[c] # q
    <2> SUFFICES ASSUME st[r].tag = "ShellThenRun"
                 PROVE  /\ q \in Prompts /\ fiber[q] = "unborn" /\ home[q] = r /\ done[q] = "open"
                        /\ pc[q] # "start" /\ Running(q).tag = "Running"
                        /\ Running(q).run = q /\ Running(q).shell = None
                        /\ \A c \in Cancels : target[c] # q
      OBVIOUS
    <2>1. q \in Prompts /\ fiber[q] = "unborn" /\ home[q] = r /\ done[q] = "open"
      BY <1>r, StateShape DEF Known, IInv, Holding
    <2>2. pc[q] # "start"
      BY <2>1 DEF Known, IInv, Unused
    <2> QED
      BY <2>1, <2>2, StateFields, NotAimed
  <1> HIDE DEF r, q
  <1>2. Called'
    BY <1>1 DEF Known, SessInv, Called, mapVars
  <1>3. OneStops'
    <2> SUFFICES ASSUME NEW c \in Cancels, target[c] # None, NEW x \in Runners, Owns(x, target[c])'
                 PROVE  FALSE
      BY <1>1 DEF Known, SessInv, OneStops
    <2>1. ~Owns(x, target[c])
      BY DEF Known, SessInv, OneStops
    <2> QED
      BY <1>1, <1>i, <1>q, <2>1 DEF Owns
  <1>4. OneBursts'
    <2>1. \A y \in Callers \ {s} : Bursting(y)' => y \in Cancels /\ target'[y] = s
      <3> SUFFICES ASSUME NEW y \in Callers \ {s}, Bursting(y)'
                   PROVE  y \in Cancels /\ target'[y] = s
        OBVIOUS
      <3>1. ~Bursting(y)
        BY DEF Alone
      <3>2. CASE y \in Works
        BY <1>1, <1>q, <3>1, <3>2 DEF Bursting, mapVars
      <3>3. CASE y \in Cancels
        <4>1. pc[y] = "reaping" => target[y] \in Works
          BY <3>3 DEF Known, IInv, Aiming
        <4> QED
          BY <1>1, <1>q, <3>1, <3>3, <4>1 DEF Bursting, mapVars
      <3> QED
        BY <3>2, <3>3 DEF Callers
    <2>2. CASE fiber'[s] = "idling"
      <3>1. \A y \in Callers \ {s} : Bursting(y)' => Bursting(y)
        <4> SUFFICES ASSUME NEW y \in Callers \ {s}, Bursting(y)'
                     PROVE  Bursting(y)
          OBVIOUS
        <4>1. y \in Cancels /\ target[y] = s
          BY <1>1, <2>1
        <4> QED
          BY <1>1, <2>2, <4>1 DEF Bursting, mapVars
      <3> QED
        BY <3>1, BurstsOfOne
    <2>3. CASE fiber'[s] = "dead"
      <3>1. ~Bursting(s)'
        BY <1>1, <1>r, <2>3 DEF Bursting
      <3> QED
        BY <1>3, <2>1, <3>1, BurstsOfReaper
    <2> QED
      BY <1>1, <2>2, <2>3
  <1>5. Accounted'
    <2> SUFFICES ASSUME NEW v \in Works \ {s}, fiber'[v] \in {"working", "stopping", "ended"}
                 PROVE  Owns(home[v], v)' \/ \E c \in Cancels : Stops(c, v)'
      BY <1>1 DEF Accounted
    <2>1. CASE st[r].tag = "ShellThenRun" /\ v = q
      BY <1>1, <1>r, <1>q, <2>1 DEF Owns
    <2>2. CASE ~(st[r].tag = "ShellThenRun" /\ v = q)
      <3>1. home[v] \in Runners /\ home'[v] = home[v] /\ fiber'[v] = fiber[v]
        BY <1>1, <2>2 DEF Known, IInv, Unused
      <3>2. CASE \E c \in Cancels : Stops(c, v)
        BY <1>1, <3>2 DEF Stops
      <3>3. CASE Owns(home[v], v)
        <4>1. home[v] = r => st'[r] = st[r]
          BY <1>1, <2>2, <3>3, StateFields DEF Owns, q
        <4> QED
          BY <1>1, <3>1, <3>3, <4>1 DEF Owns
      <3> QED
        BY <3>1, <3>2, <3>3 DEF Known, SessInv, Accounted
    <2> QED
      BY <2>1, <2>2
  <1>6. Told'
    BY <1>1, <1>q DEF Alone, Bursting, Told
  <1>7. StillBusy'
    BY <1>1 DEF Alone, Bursting, StillBusy, mapVars
  <1>8. RestIsIdle'
    <2> SUFFICES ASSUME Rest'
                 PROVE  FALSE
      BY DEF RestIsIdle
    <2>1. fiber'[s] = "dead"
      BY <1>1 DEF Rest, Alive
    <2>2. st[r].shell # s
      BY <1>1, <1>q, <2>1 DEF Rest, Alive
    <2>3. PICK c \in Cancels : Stops(c, s)
      BY <1>r, <1>o, <2>2 DEF r, Known, SessInv, Accounted
    <2>4. held[c] \in Runners
      BY <2>3 DEF Stops, Known, SessInv, Called
    <2> QED
      BY <1>1, <2>3, <2>4, ChecksAssumption DEF Rest, Stops, mapVars
  <1>9. Unhurt'
    <2> SUFFICES ASSUME Uncancelled
                 PROVE  Unhurt'
      BY <1>1 DEF Unhurt, Uncancelled, mapVars
    <2>1. \A v \in Works \ {s} : fiber'[v] # "idling"
      BY <1>1, <1>q DEF Alone, Bursting
    <2>2. \A v \in Works : ~kill'[v] /\ fiber'[v] # "stopping"
      BY <1>1, <1>q DEF Known, SessInv, Unhurt
    <2>3. st'[r] # st[r] => r = current
      <3> SUFFICES ASSUME st'[r] # st[r]
                   PROVE  r = current
        OBVIOUS
      <3>1. Busy(r)
        BY <1>1, StateFields DEF Busy
      <3> QED
        BY <1>r, <3>1 DEF Known, SessInv, Unhurt
    <2>4. \A x \in Runners : st'[x].tag # "Idle" => x = current
      BY <1>1, <2>3 DEF Known, SessInv, Unhurt, Busy
    <2>5. fiber'[s] = "idling" => r = current /\ st'[current].tag = "Idle"
      BY <1>1, <1>i, <2>3, StateFields
    <2> QED
      BY <1>1, <1>r, <2>1, <2>2, <2>4, <2>5 DEF r, Known, SessInv, Unhurt, Busy, mapVars
  <1> QED
    BY <1>2, <1>3, <1>4, <1>5, <1>6, <1>7, <1>8, <1>9 DEF SessInv

\* Somebody has cancelled.
LEMMA Hurt ==
    ASSUME NEW c \in Cancels, held'[c] # None
    PROVE  Unhurt'
  BY DEF Unhurt, Uncancelled

LEMMA LookUpToCancelSess ==
    ASSUME Known, NEW c \in Cancels, Alone(c), LookUpToCancel(c)
    PROVE  SessInv'
  <1> USE CallersDiffer
  <1>1. /\ UNCHANGED <<runnerVars, current, used, verdict>>
        /\ held[c] = None /\ \A x \in Callers \ {c} : held'[x] = held[x]
        /\ \/ current # None /\ Busy(current) /\ held'[c] = current /\ status' = status
           \/ held'[c] = Skipped /\ status' = "idle"
    BY DEF LookUpToCancel, Known, MapTypeOK
  <1>p. pc[c] = "start" /\ held'[c] # None
    BY <1>1, ChecksAssumption DEF Known, SessInv, Called
  <1>2. OneBursts'
    BY <1>1, BurstsOfOne DEF Bursting, runnerVars, runVars, callVars
  <1>3. Called' /\ OneStops' /\ Accounted'
    BY <1>1, <1>p DEF Known, SessInv, Called, OneStops, Accounted, Stops, Owns, runnerVars,
       runVars, callVars
  <1>4. Told'
    BY <1>1 DEF Known, SessInv, Told, Stops, runnerVars, runVars, callVars
  <1>5. StillBusy'
    BY <1>1, ChecksAssumption DEF Known, SessInv, StillBusy, Busy, runnerVars, runVars, callVars
  <1>6. RestIsIdle'
    <2> SUFFICES ASSUME Rest'
                 PROVE  status' = "idle" /\ current' = None
      BY DEF RestIsIdle
    <2>1. held'[c] = Skipped
      BY <1>1, <1>p DEF Rest, runnerVars, callVars, Known, MapTypeOK
    <2>2. Rest
      BY <1>1 DEF Rest, Alive, runnerVars, runVars, callVars
    <2> QED
      BY <1>1, <2>1, <2>2, ChecksAssumption DEF Known, SessInv, RestIsIdle, MapTypeOK
  <1> QED
    BY <1>2, <1>3, <1>4, <1>5, <1>6, <1>p, Hurt DEF SessInv

LEMMA CancelHeldSess ==
    ASSUME Known, IInv', NEW c \in Cancels, Alone(c), CancelHeld(c)
    PROVE  SessInv'
  <1> USE CallersDiffer
  <1> DEFINE r == held[c]
  <1>r. r \in Runners /\ pc[c] = "start" /\ st[r] \in State /\ Busy(r) /\ target[c] = None
    BY DEF CancelHeld, Cancel, Known, IInv, TypeOK, SessInv, StillBusy, Unused
  <1>i. Idle.tag = "Idle" /\ Idle.run = None /\ Idle.shell = None
    BY StateFields
  <1>1. /\ UNCHANGED <<fiber, exit, kill, home, done, joins, mapVars>>
        /\ at'[c] = r /\ pc'[c] \in {"dropping", "killing"}
        /\ \A d \in Cancels \ {c} : target'[d] = target[d] /\ at'[d] = at[d]
        /\ \A x \in Callers \ {c} : pc'[x] = pc[x]
        /\ \A x \in Runners \ {r} : st'[x] = st[x]
        /\ st'[r] = Idle
        /\ target'[c] \in Works
        /\ st[r].shell # None => target'[c] = st[r].shell
        /\ st[r].shell = None => target'[c] = st[r].run
        /\ st[r].tag = "ShellThenRun" => fiber[st[r].run] = "unborn"
    BY <1>r, StateShape
       DEF CancelHeld, Cancel, Vacate, Busy, Known, MapTypeOK, IInv, TypeOK, Holding
  <1>s. st[r].shell # None /\ st[r].run # None => st[r].tag = "ShellThenRun"
    BY <1>r, StateShape
  <1>o. \A v \in Works : Owns(r, v) => v = target'[c] \/ fiber[v] = "unborn"
    BY <1>1, <1>s DEF Owns
  <1>t. Owns(r, target'[c])
    BY <1>1 DEF Owns
  <1> HIDE DEF r
  <1>f. target'[c] \in Works /\ \A d \in Cancels \ {c} : target[d] # target'[c]
    BY <1>1, <1>t, <1>r DEF Known, SessInv, OneStops
  <1>2. OneBursts'
    <2>1. ASSUME NEW y \in Callers \ {c}, Bursting(y)'
          PROVE  Bursting(y)
      BY <1>1, <2>1 DEF Bursting, mapVars, Callers
    <2> QED
      BY <2>1, BurstsOfOne
  <1>3. Called'
    BY <1>1, <1>r DEF r, Known, SessInv, Called, mapVars
  <1>4. OneStops'
    <2>1. \A d \in Cancels, x \in Runners : target'[d] # None => ~Owns(x, target[d])'
      <3> SUFFICES ASSUME NEW d \in Cancels, NEW x \in Runners, target'[d] # None,
                          Owns(x, target[d])'
                   PROVE  FALSE
        OBVIOUS
      <3>1. x # r /\ Owns(x, target'[d])
        BY <1>1, <1>i DEF Owns
      <3>2. d = c
        BY <1>1, <3>1 DEF Known, SessInv, OneStops
      <3>3. st[x] \in State
        BY DEF Known, IInv, TypeOK
      <3>4. home[target'[c]] = x /\ home[target'[c]] = r
        BY <1>r, <1>t, <1>f, <3>1, <3>2, <3>3, StateShape DEF Owns, Known, IInv, Holding
      <3> QED
        BY <3>1, <3>4
    <2>2. \A d, e \in Cancels : target'[d] # None /\ target'[e] = target'[d] => e = d
      BY <1>1, <1>f DEF Known, SessInv, OneStops
    <2> QED
      BY <2>1, <2>2 DEF OneStops
  <1>5. Accounted'
    <2> SUFFICES ASSUME NEW v \in Works, fiber[v] \in {"working", "stopping", "ended"}
                 PROVE  Owns(home[v], v)' \/ \E d \in Cancels : Stops(d, v)'
      BY <1>1 DEF Accounted
    <2>1. CASE \E d \in Cancels : Stops(d, v)
      <3>1. PICK d \in Cancels : Stops(d, v)
        BY <2>1
      <3>2. d # c
        BY <1>r, <3>1 DEF Stops
      <3> QED
        BY <1>1, <3>1, <3>2 DEF Stops
    <2>2. CASE Owns(home[v], v)
      <3>1. CASE home[v] = r
        <4>1. v = target'[c]
          BY <1>o, <2>2, <3>1
        <4> QED
          BY <1>1, <4>1 DEF Stops
      <3>2. CASE home[v] # r
        <4>1. home[v] \in Runners
          BY DEF Known, IInv, Unused
        <4> QED
          BY <1>1, <2>2, <3>2, <4>1 DEF Owns
      <3> QED
        BY <3>1, <3>2
    <2> QED
      BY <2>1, <2>2 DEF Known, SessInv, Accounted
  <1>6. Told'
    BY <1>1 DEF Alone, Bursting, Told
  <1>7. StillBusy'
    BY <1>1 DEF Alone, Bursting, StillBusy, mapVars
  <1>8. ~Rest'
    BY <1>1, <1>r, ChecksAssumption DEF r, Rest, mapVars
  <1>9. held'[c] # None
    BY <1>1, <1>r DEF r, mapVars
  <1> QED
    BY <1>2, <1>3, <1>4, <1>5, <1>6, <1>7, <1>8, <1>9, Hurt DEF SessInv, RestIsIdle

LEMMA HookOfCancelSess ==
    ASSUME Known, NEW c \in Cancels, Alone(c), HookOfCancel(c)
    PROVE  SessInv'
  <1> USE CallersDiffer
  <1>1. /\ UNCHANGED <<runVars, joins, target, drops, at, used, held, verdict>>
        /\ pc[c] = "idling" /\ pc'[c] = "returned"
        /\ \A x \in Callers \ {c} : pc'[x] = pc[x]
        /\ current' = None /\ status' = "idle"
    BY DEF HookOfCancel, CancelIdled, OnIdle, Known, MapTypeOK, TypeOK
  <1>2. OneBursts'
    BY <1>1, BurstsOfOne DEF Bursting, runVars
  <1>3. Called' /\ OneStops' /\ StillBusy' /\ RestIsIdle'
    BY <1>1 DEF Known, SessInv, Called, OneStops, StillBusy, RestIsIdle, Owns, Busy, runVars
  <1>4. Accounted' /\ Told'
    BY <1>1 DEF Known, SessInv, Accounted, Told, Owns, Stops, runVars
  <1>5. held'[c] # None
    BY <1>1 DEF Known, SessInv, Called
  <1> QED
    BY <1>2, <1>3, <1>4, <1>5, Hurt DEF SessInv

LEMMA CancelAwaySess ==
    ASSUME Known, IInv', NEW c \in Cancels, Alone(c), CancelAway(c), UNCHANGED mapVars
    PROVE  SessInv'
  <1> USE CallersDiffer
  <1>1. /\ UNCHANGED <<st, fiber, exit, home, joins, target, drops, at, mapVars>>
        /\ \A x \in Callers \ {c} : pc'[x] = pc[x]
        /\ pc[c] \in {"dropping", "killing", "reaping", "checking"}
        /\ \/ pc'[c] \in {"killing", "reaping"}
           \/ pc'[c] = "checking" /\ pc[c] = "reaping" /\ fiber[target[c]] = "dead"
           \/ pc'[c] = "idling" /\ pc[c] = "checking"
           \/ pc'[c] = "returned" /\ pc[c] = "checking" /\ Busy(at[c])
    BY DEF CancelAway, Drop, Kill, Reap, IdleIfCurrent, runVars, Known, MapTypeOK, TypeOK
  <1>p. held[c] \in Runners /\ at[c] \in Runners
    BY <1>1 DEF Known, SessInv, Called
  <1>2. OneBursts'
    BY <1>1, BurstsOfOne DEF Bursting, mapVars
  <1>3. Called' /\ OneStops' /\ StillBusy'
    BY <1>1, <1>p DEF Known, SessInv, Called, OneStops, StillBusy, Owns, Busy, mapVars
  <1>4. Accounted'
    BY <1>1 DEF Known, SessInv, Accounted, Owns, Stops
  <1>5. Told'
    BY <1>1 DEF Known, SessInv, Told, Stops, mapVars
  <1>6. ~Rest'
    <2>1. CASE pc'[c] = "returned"
      BY <1>1, <1>p, <2>1, BusyIsNoRest DEF Busy
    <2>2. CASE pc'[c] # "returned"
      BY <1>1, <1>p, <2>2, ChecksAssumption DEF Rest, mapVars
    <2> QED
      BY <2>1, <2>2
  <1>7. held'[c] # None
    BY <1>1, <1>p DEF mapVars
  <1> QED
    BY <1>2, <1>3, <1>4, <1>5, <1>6, <1>7, Hurt DEF SessInv, RestIsIdle

\* A check, or a step of something else.
LEMMA StillSess ==
    ASSUME Known, UNCHANGED <<runnerVars, current, used, held, status>>
    PROVE  SessInv'
  BY DEF Known, SessInv, OneBursts, Bursting, Called, OneStops, Accounted, Told, StillBusy,
     RestIsIdle, Rest, Alive, Unhurt, Uncancelled, Stops, Owns, Busy, runnerVars, runVars, callVars

LEMMA NextSess ==
    ASSUME ~Preemptive, Known, IInv', [Next]_vars
    PROVE  SessInv'
  <1>1. ASSUME NEW w \in Works, MayRun(w), WorkNext(w)
        PROVE  SessInv'
    <2>1. Alone(w)
      BY <1>1 DEF MayRun, Alone
    <2> QED
      BY <1>1, <2>1, LookUpSess, HookOfWorkSess, ReturnSess, EndSess DEF WorkNext
  <1>2. ASSUME NEW p \in Prompts, MayRun(p), PromptNext(p)
        PROVE  SessInv'
    <2>1. Alone(p)
      BY <1>2 DEF MayRun, Alone
    <2> QED
      BY <1>2, <2>1, PromptSess, SaySess, FinishRunSess, CompleteSess DEF PromptNext, RunFiber
  <1>3. ASSUME NEW s \in Shells, MayRun(s), ShellNext(s)
        PROVE  SessInv'
    <2>1. Alone(s)
      BY <1>3 DEF MayRun, Alone
    <2> QED
      BY <1>3, <2>1, StartOrRefuseSess, FinishShellSess DEF ShellNext
  <1>4. ASSUME NEW c \in Cancels, MayRun(c), CancelNext(c)
        PROVE  SessInv'
    <2>1. Alone(c)
      BY <1>4 DEF MayRun, Alone
    <2> QED
      BY <1>4, <2>1, LookUpToCancelSess, CancelHeldSess, HookOfCancelSess, CancelAwaySess
         DEF CancelNext
  <1>5. ASSUME NEW k \in Checks, AssertNotBusy(k)
        PROVE  SessInv'
    BY <1>5, StillSess DEF AssertNotBusy
  <1>6. CASE UNCHANGED vars
    BY <1>6, StillSess DEF vars, mapVars
  <1> QED
    BY <1>1, <1>2, <1>3, <1>4, <1>5, <1>6 DEF Next

\* Only a check changes what a check was told.
LEMMA VerdictOfCheck ==
    ASSUME MapTypeOK, [Next]_vars, NEW k \in Checks, verdict[k] = "none", verdict'[k] = "free"
    PROVE  current = None \/ ~Busy(current)
  <1>1. PICK j \in Checks : AssertNotBusy(j)
    BY DEF Next, vars, mapVars, WorkNext, PromptNext, ShellNext, CancelNext, LookUp, HookOfWork,
       HookOfCancel, OnIdle, Prompt, SayBusy, Halt, StartOrRefuse, LookUpToCancel, CancelHeld
  <1>2. verdict' = [verdict EXCEPT ![j] = IF current # None /\ Busy(current) THEN "busy" ELSE "free"]
    BY <1>1 DEF AssertNotBusy
  <1> QED
    BY <1>2 DEF MapTypeOK

\* While fibers yield at awaits only, what a session keeps hangs together.
THEOREM SessionAwaits == ~Preemptive => (Spec => []Known)
  <1> SUFFICES ASSUME ~Preemptive
               PROVE  Spec => []Known
    OBVIOUS
  <1>1. Init => SessInv
    BY CallersDiffer, StateFields, ChecksAssumption
       DEF Init, RunnerInit, SessInv, OneBursts, Bursting, Called, OneStops, Accounted, Told,
           StillBusy, RestIsIdle, Unhurt, Busy, Works, Callers
  <1>2. MapTypeOK /\ IInv /\ SessInv /\ [Next]_vars => SessInv'
    BY NextSess, NextRuns, NextIInv DEF Known
  <1>3. Spec => []SessInv
    BY <1>1, <1>2, SessionInvariance, PTL DEF Spec
  <1> QED
    BY <1>3, SessionInvariance, PTL DEF Known

\* A session in which nothing runs is published as idle, and is not in the map.
THEOREM QuietMeansIdleHolds == ~Preemptive => (Spec => []QuietMeansIdle)
  <1> SUFFICES ASSUME ~Preemptive
               PROVE  Spec => []QuietMeansIdle
    OBVIOUS
  <1>1. Known => QuietMeansIdle
    <2> SUFFICES ASSUME Known, Quiet
                 PROVE  Rest
      BY DEF QuietMeansIdle, Known, SessInv, RestIsIdle
    <2>1. \A w \in Works : pc[w] = "start" => held[w] = None
      BY CallersDiffer DEF Quiet, Known, MapTypeOK
    <2>2. \A c \in Cancels : pc[c] = "returned" \/ held[c] \in {None, Skipped}
      BY CallersDiffer DEF Quiet, Known, SessInv, Called
    <2> QED
      BY <2>1, <2>2 DEF Quiet, Rest
  <1> QED
    BY <1>1, SessionAwaits, PTL

\* Until somebody cancels, one work of the session goes on at a time, whichever
\* runners its callers have looked up.
THEOREM OneWorkPerSessionHolds == ~Preemptive => (Spec => []OneWorkPerSession)
  <1> SUFFICES ASSUME ~Preemptive
               PROVE  Spec => []OneWorkPerSession
    OBVIOUS
  <1>1. Known => OneWorkPerSession
    <2> SUFFICES ASSUME Known, Uncancelled, NEW v \in Works, NEW w \in Works,
                        Wanted(v), Wanted(w)
                 PROVE  v = w
      BY DEF OneWorkPerSession
    <2>1. ASSUME NEW x \in Works, Wanted(x)
          PROVE  current \in Runners /\ Owns(current, x) /\ fiber[x] = "working"
      <3>1. home[x] \in Runners /\ Owns(home[x], x) /\ fiber[x] = "working"
        BY <2>1 DEF Wanted, Known, IInv, Unused, NoOrphanWork
      <3>2. Busy(home[x])
        BY <3>1, StateShape, CallersDiffer DEF Owns, Busy, Known, IInv, TypeOK
      <3> QED
        BY <3>1, <3>2 DEF Known, SessInv, Unhurt
    <2>2. /\ current \in Runners /\ Owns(current, v) /\ Owns(current, w)
          /\ fiber[v] = "working" /\ fiber[w] = "working"
      BY <2>1
    <2>3. /\ st[current] \in State
          /\ st[current].tag = "ShellThenRun" => fiber[st[current].run] = "unborn"
      BY <2>2 DEF Known, IInv, TypeOK, Holding
    <2> QED
      BY <2>2, <2>3, StateShape, CallersDiffer DEF Owns
  <1> QED
    BY <1>1, SessionAwaits, PTL

\* Until somebody cancels, assertNotBusy lets a caller go ahead only when no work
\* of the session is under way.
THEOREM FreeMeansNobodyWorksHolds == ~Preemptive => (Spec => FreeMeansNobodyWorks)
  <1> SUFFICES ASSUME ~Preemptive
               PROVE  Spec => FreeMeansNobodyWorks
    OBVIOUS
  <1>1. ASSUME Known, [Next]_vars, NEW k \in Checks, Uncancelled,
               verdict[k] = "none", verdict'[k] = "free", NEW w \in Works
        PROVE  fiber[w] \notin {"working", "stopping"}
    <2>1. current = None \/ ~Busy(current)
      BY <1>1, VerdictOfCheck DEF Known
    <2>2. \A r \in Runners : ~Busy(r)
      BY <1>1, <2>1, CallersDiffer DEF Known, SessInv, Unhurt
    <2>3. ASSUME NEW x \in Runners
          PROVE  ~Owns(x, w)
      <3>1. st[x] \in State /\ st[x].tag = "Idle"
        BY <1>1, <2>2 DEF Busy, Known, IInv, TypeOK
      <3> QED
        BY <3>1, StateShape, CallersDiffer DEF Owns
    <2>4. \A c \in Cancels : ~Stops(c, w)
      BY <1>1, CallersDiffer DEF Uncancelled, Stops, Known, SessInv, Called
    <2>5. fiber[w] # "unborn" => home[w] \in Runners
      BY <1>1 DEF Known, IInv, Unused
    <2> QED
      BY <1>1, <2>3, <2>4, <2>5 DEF Known, SessInv, Accounted
  <1>2. Known /\ [Next]_vars =>
          [\A k \in Checks : Uncancelled /\ verdict[k] = "none" /\ verdict'[k] = "free"
             => \A w \in Works : fiber[w] \notin {"working", "stopping"}]_vars
    BY <1>1
  <1> QED
    BY <1>2, SessionAwaits, PTL DEF Spec, FreeMeansNobodyWorks
=============================================================================
