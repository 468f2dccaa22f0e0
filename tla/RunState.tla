------------------------------ MODULE RunState ------------------------------
(***************************************************************************)
(* session/run-state.ts: the map from a session to its runner, and the     *)
(* session status of session/status.ts, around the runners of Runner.      *)
(* One session; sessions share nothing here.  A runner is created at the   *)
(* first call that finds none in the map, its onIdle hook takes it out of  *)
(* the map, and calls that looked it up before keep using it.              *)
(***************************************************************************)
EXTENDS Runner

CONSTANTS
    Checks,     \* callers of assertNotBusy: revert, unrevert, delete message
    Skipped,    \* a cancel that found nothing to cancel
    Preemptive  \* fibers may yield between any two effects, not only at an await

ASSUME ChecksAssumption ==
    /\ Checks \cap Callers = {}
    /\ Skipped \notin Runners \cup {None}
    /\ Preemptive \in BOOLEAN

VARIABLES
    current,    \* the runner the map has for the session
    used,       \* the runner objects created so far
    held,       \* the runner object each caller has looked up
    status,     \* the published status of the session
    verdict     \* what assertNotBusy said to each check

mapVars == <<current, used, held, status, verdict>>
vars    == <<runnerVars, mapVars>>

Init ==
    /\ RunnerInit
    /\ current = None
    /\ used    = {}
    /\ held    = [x \in Callers |-> None]
    /\ status  = "idle"
    /\ verdict = [k \in Checks |-> "none"]

-----------------------------------------------------------------------------
(* The calls: look the runner up, then use it.                             *)

\* As LookUp, without putting the runner it creates into the map.
LookUpUnstored(x) ==
    /\ x \in Works /\ held[x] = None
    /\ \/ /\ current # None
          /\ held' = [held EXCEPT ![x] = current]
          /\ UNCHANGED used
       \/ /\ current = None
          /\ \E r \in Runners \ used :
                /\ held' = [held EXCEPT ![x] = r]
                /\ used' = used \cup {r}
    /\ UNCHANGED <<runnerVars, current, status, verdict>>

\* runner(): get or create.
LookUp(x) ==
    /\ x \in Works /\ held[x] = None
    /\ \/ /\ current # None
          /\ held' = [held EXCEPT ![x] = current]
          /\ UNCHANGED <<current, used>>
       \/ /\ current = None
          /\ \E r \in Runners \ used :
                /\ held'    = [held EXCEPT ![x] = r]
                /\ current' = r
                /\ used'    = used \cup {r}
    /\ UNCHANGED <<runnerVars, status, verdict>>

Prompt(p) ==
    /\ held[p] # None
    /\ EnsureRunning(p, held[p])
    /\ UNCHANGED mapVars

\* onBusy runs under the lock of the runner's state.
StartOrRefuse(s) ==
    /\ held[s] # None
    /\ StartShell(s, held[s])
    /\ status' = IF Busy(held[s]) THEN status ELSE "busy"
    /\ UNCHANGED <<current, used, held, verdict>>

LookUpToCancel(c) ==
    /\ held[c] = None
    /\ IF current # None /\ Busy(current)
       THEN /\ held' = [held EXCEPT ![c] = current]
            /\ UNCHANGED status
       ELSE /\ held'   = [held EXCEPT ![c] = Skipped]
            /\ status' = "idle"
    /\ UNCHANGED <<runnerVars, current, used, verdict>>

CancelHeld(c) ==
    /\ held[c] \in Runners
    /\ Cancel(c, held[c])
    /\ UNCHANGED mapVars

AssertNotBusy(k) ==
    /\ verdict[k] = "none"
    /\ verdict' = [verdict EXCEPT ![k] =
                     IF current # None /\ Busy(current) THEN "busy" ELSE "free"]
    /\ UNCHANGED <<runnerVars, current, used, held, status>>

-----------------------------------------------------------------------------
(* The steps of the fibers.                                                *)

\* The onIdle hook: forget the session's runner, whichever it is, and say so.
OnIdle ==
    /\ current' = None
    /\ status'  = "idle"
    /\ UNCHANGED <<used, held, verdict>>

HookOfWork(w)   == WorkIdled(w) /\ OnIdle
HookOfCancel(c) == CancelIdled(c) /\ OnIdle

\* The prompt loop says "busy" at the top of each iteration, the processor at
\* the start of each stream and, between retries, "retry" (not told apart here).
SayBusy(p) ==
    /\ fiber[p] = "working"
    /\ status' = "busy"
    /\ UNCHANGED <<runnerVars, current, used, held, verdict>>

\* The processor's halt, on an interrupt or when a stream fails for good.
Halt(p) ==
    /\ fiber[p] \in {"working", "stopping"}
    /\ status' = "idle"
    /\ UNCHANGED <<runnerVars, current, used, held, verdict>>

\* Between two awaits: the fiber of a work that ends, a call under way, and a
\* cancel whose fiber has just died.
Bursting(x) ==
    \/ x \in Works /\ fiber[x] \in {"ended", "idling", "completing"}
    \/ x \in Works /\ held[x] # None /\ pc[x] = "start"
    \/ x \in Cancels /\ held[x] \in Runners
                    /\ \/ pc[x] \in {"start", "dropping", "killing", "checking", "idling"}
                       \/ pc[x] = "reaping" /\ fiber[target[x]] = "dead"

MayRun(x) == Preemptive \/ \A y \in Callers \ {x} : ~Bursting(y)

RunFiber(p)   == FinishRun(p) \/ Complete(p)
Unwind(w)     == Interrupted(w) \/ WorkStops(w)
CancelAway(c) == Drop(c) \/ Kill(c) \/ Reap(c) \/ IdleIfCurrent(c)

WorkNext(w) ==
    \/ LookUp(w)
    \/ HookOfWork(w)
    \/ (Return(w) \/ WorkEnds(w) \/ Unwind(w)) /\ UNCHANGED mapVars

PromptNext(p) ==
    \/ Prompt(p)
    \/ SayBusy(p)
    \/ Halt(p)
    \/ RunFiber(p) /\ UNCHANGED mapVars

ShellNext(s) ==
    \/ StartOrRefuse(s)
    \/ FinishShell(s) /\ UNCHANGED mapVars

CancelNext(c) ==
    \/ LookUpToCancel(c)
    \/ CancelHeld(c)
    \/ HookOfCancel(c)
    \/ CancelAway(c) /\ UNCHANGED mapVars

Next ==
    \/ \E w \in Works : MayRun(w) /\ WorkNext(w)
    \/ \E p \in Prompts : MayRun(p) /\ PromptNext(p)
    \/ \E s \in Shells : MayRun(s) /\ ShellNext(s)
    \/ \E c \in Cancels : MayRun(c) /\ CancelNext(c)
    \/ \E k \in Checks : MayRun(k) /\ AssertNotBusy(k)

Spec == Init /\ [][Next]_vars

-----------------------------------------------------------------------------
\* The types of the variables.
MapTypeOK ==
    /\ TypeOK
    /\ current \in Runners \cup {None}
    /\ used \in SUBSET Runners
    /\ held \in [Callers -> Runners \cup {None, Skipped}]
    /\ \A w \in Works : held[w] # Skipped
    /\ status \in {"idle", "busy"}
    /\ verdict \in [Checks -> {"none", "busy", "free"}]

Quiet ==
    /\ \A w \in Works : ~Alive(w)
    /\ \A x \in Callers : pc[x] \in {"returned", "refused"} \/ held[x] \in {None, Skipped}

\* When nothing of the session runs and no call is in progress, the session is
\* published as idle and the map has no runner for it: no client waits for an
\* idle status that never comes, and the map does not keep finished runners.
QuietMeansIdle == Quiet => status = "idle" /\ current = None

\* A work that goes on, with no cancel stopping it or about to.
Wanted(w) ==
    /\ fiber[w] = "working"
    /\ ~kill[w]
    /\ \A c \in Cancels : pc[c] \in {"dropping", "killing"} => target[c] # w

Uncancelled == \A c \in Cancels : held[c] = None

\* Until somebody cancels, at most one work of the session goes on, across all of
\* its runner objects.
OneWorkPerSession ==
    Uncancelled => \A v, w \in Works : Wanted(v) /\ Wanted(w) => v = w

\* Until somebody cancels, assertNotBusy lets a revert or a deletion go ahead only
\* when no work of the session is under way, its finalizers included.
FreeMeansNobodyWorks ==
    [][\A k \in Checks : Uncancelled /\ verdict[k] = "none" /\ verdict'[k] = "free"
          => \A w \in Works : fiber[w] \notin {"working", "stopping"}]_vars

\* An abort that finds nothing to stop leaves nothing running.
AbortStopsProcessing ==
    [][\A c \in Cancels : held[c] = None /\ held'[c] = Skipped
          => \A w \in Works : ~Wanted(w)]_vars
=============================================================================
