------------------------------ MODULE Instances ------------------------------
(***************************************************************************)
(* project/instance.ts: the cache of instances, one per directory, and     *)
(* what disposes of them: dispose, reload and disposeAll.  The states that *)
(* effect/instance-state.ts keeps per directory, for one service, and that *)
(* service: question/index.ts, whose callers wait in such a state.         *)
(*                                                                         *)
(* An instance is known by the number of its boot.  Whoever runs in an     *)
(* instance keeps it, also when the cache has dropped it: requests, and    *)
(* the fibers of sessions, which ask questions.  A state belongs to the    *)
(* directory, and whoever looks for one when there is none makes it.  What *)
(* runs between two awaits is one step.                                    *)
(***************************************************************************)
EXTENDS Naturals, FiniteSets

CONSTANTS
    Dirs,       \* directories
    Requests,   \* requests: calls of provide
    Disposals,  \* calls of dispose and reload
    Alls,       \* calls of disposeAll
    Questions,
    MaxBoots,   \* bound: instances made
    MaxStates,  \* bound: states made
    NoDir

ASSUME InstancesAssumption ==
    /\ NoDir \notin Dirs
    /\ {MaxBoots, MaxStates} \subseteq Nat

Boots == 1..MaxBoots
States == 1..MaxStates

VARIABLES
    cache,     \* per directory, the instance whose promise the cache has, or 0
    boot,      \* the instances: their directory, and how far they are
    live,      \* per directory, the state to be found, or 0
    state,     \* the states: how far they are, whose they are, the questions in them
    request,   \* per request: where it is, and in which instance
    question,  \* per question: where it is, and in which state
    disposal,  \* per dispose or reload: where it is, what it disposes of
    walk,      \* the walk of disposeAll: where it is, the entries it has not come to
    caller,    \* per call of disposeAll: where it is
    overdue,   \* history: the states made by an instance on its way out
    mine       \* history: per call of disposeAll, the instances there were when it came

instVars == <<cache, boot, live, state, request, question, disposal, walk, caller,
              overdue, mine>>

InstancesInit ==
    /\ cache = [d \in Dirs |-> 0]
    /\ boot = [b \in Boots |-> [is |-> "none", dir |-> NoDir]]
    /\ live = [d \in Dirs |-> 0]
    /\ state = [s \in States |-> [is |-> "none", of |-> 0, has |-> {}]]
    /\ request = [r \in Requests |-> [at |-> "new", on |-> 0]]
    /\ question = [q \in Questions |-> [at |-> "new", in |-> 0]]
    /\ disposal = [x \in Disposals |-> [at |-> "new", dir |-> NoDir, state |-> 0]]
    /\ walk = [at |-> "off", left |-> {}, on |-> 0, state |-> 0]
    /\ caller = [a \in Alls |-> "new"]
    /\ overdue = {}
    /\ mine = [a \in Alls |-> {}]

-----------------------------------------------------------------------------
(* Instances.                                                              *)

Ready(b) == boot[b].is = "ready"
DirOf(b) == boot[b].dir

NewBoot  == Cardinality({b \in Boots : boot[b].is # "none"}) + 1
NewState == Cardinality({s \in States : state[s].is # "none"}) + 1

\* track: the cache has the promise of a new boot.
Track(d) ==
    /\ NewBoot \in Boots
    /\ boot' = [boot EXCEPT ![NewBoot] = [is |-> "booting", dir |-> d]]
    /\ cache' = [cache EXCEPT ![d] = NewBoot]

\* provide, up to the instance that is there or being made.
Provide(r, d) ==
    /\ request[r].at = "new"
    /\ IF cache[d] = 0 THEN Track(d) ELSE UNCHANGED <<cache, boot>>
    /\ request' = [request EXCEPT ![r] = [at |-> "waiting", on |-> cache'[d]]]
    /\ UNCHANGED <<live, state, question, disposal, walk, caller, overdue, mine>>

Admit(r) ==
    LET b == request[r].on IN
    /\ request[r].at = "waiting"
    /\ \/ Ready(b) /\ request' = [request EXCEPT ![r].at = "inside"]
       \/ boot[b].is = "failed" /\ request' = [request EXCEPT ![r].at = "failed"]
    /\ UNCHANGED <<cache, boot, live, state, question, disposal, walk, caller, overdue, mine>>

-----------------------------------------------------------------------------
(* States: InstanceState.get in instance b.                                *)

\* A disposal of directory d is under way.
Closing(d) ==
    \/ \E x \in Disposals : disposal[x].at \in {"disposing", "reloading"} /\ disposal[x].dir = d
    \/ walk.at = "disposing" /\ DirOf(walk.on) = d

Found(b) == IF live[DirOf(b)] # 0 THEN live[DirOf(b)] ELSE NewState

\* The states, with the one that is found.
With(b) ==
    IF live[DirOf(b)] # 0 THEN state
    ELSE [state EXCEPT ![NewState] = [is |-> "open", of |-> b, has |-> {}]]

LookUp(b) ==
    LET d == DirOf(b) IN
    /\ Found(b) \in States
    /\ live' = [live EXCEPT ![d] = Found(b)]
    /\ overdue' = IF live[d] = 0 /\ (cache[d] # b \/ Closing(d)) THEN overdue \cup {NewState} ELSE overdue

\* The services are started in the new instance, which is then ready.
BootEnds(b) ==
    /\ boot[b].is = "booting"
    /\ boot' = [boot EXCEPT ![b].is = "ready"]
    /\ LookUp(b) /\ state' = With(b)
    /\ UNCHANGED <<cache, request, question, disposal, walk, caller, mine>>

\* Mutant: the catch drops whatever the cache has.
BootFailsAnyway(b) ==
    /\ boot[b].is = "booting"
    /\ boot' = [boot EXCEPT ![b].is = "failed"]
    /\ cache' = [cache EXCEPT ![DirOf(b)] = 0]
    /\ UNCHANGED <<live, state, request, question, disposal, walk, caller, overdue, mine>>

\* The cache drops the promise, if it still has it, before anybody sees it fail.  A
\* service that was started stays.
BootFails(b) ==
    /\ boot[b].is = "booting"
    /\ boot' = [boot EXCEPT ![b].is = "failed"]
    /\ cache' = [d \in Dirs |-> IF cache[d] = b THEN 0 ELSE cache[d]]
    /\ \/ LookUp(b) /\ state' = With(b)
       \/ UNCHANGED <<live, state, overdue>>
    /\ UNCHANGED <<request, question, disposal, walk, caller, mine>>

-----------------------------------------------------------------------------
(* Questions.                                                              *)

\* A tool asks, in the instance of its session.
Ask(q, b) ==
    /\ question[q].at = "new" /\ Ready(b)
    /\ LookUp(b)
    /\ state' = [With(b) EXCEPT ![Found(b)].has = @ \cup {q}]
    /\ question' = [question EXCEPT ![q] = [at |-> "waiting", in |-> Found(b)]]
    /\ UNCHANGED <<cache, boot, request, disposal, walk, caller, mine>>

\* A request does its work: it uses the service, or answers or rejects a question
\* that the service knows.
Serve(r) ==
    LET b == request[r].on IN
    /\ request[r].at = "inside"
    /\ request' = [request EXCEPT ![r].at = "done"]
    /\ LookUp(b)
    /\ \/ state' = With(b) /\ UNCHANGED question
       \/ \E q \in With(b)[Found(b)].has, how \in {"answered", "rejected"} :
             /\ state' = [state EXCEPT ![Found(b)].has = @ \ {q}]
             /\ question' = [question EXCEPT ![q].at = how]
    /\ UNCHANGED <<cache, boot, disposal, walk, caller, mine>>

-----------------------------------------------------------------------------
(* Disposal.                                                               *)

\* disposeInstance: the service gives its state up, and the finalizer starts.
Invalidate(d) ==
    /\ live' = [live EXCEPT ![d] = 0]
    /\ state' = IF live[d] = 0 THEN state ELSE [state EXCEPT ![live[d]].is = "closing"]

\* Mutant: the questions are forgotten.
FinalizeQuietly(s) ==
    /\ state[s].is = "closing"
    /\ state' = [state EXCEPT ![s].is = "closed", ![s].has = {}]
    /\ UNCHANGED <<cache, boot, live, request, question, disposal, walk, caller, overdue, mine>>

\* The finalizer rejects the questions.
Finalize(s) ==
    /\ state[s].is = "closing"
    /\ state' = [state EXCEPT ![s].is = "closed", ![s].has = {}]
    /\ question' = [q \in Questions |-> IF q \in state[s].has
                                        THEN [question[q] EXCEPT !.at = "rejected"] ELSE question[q]]
    /\ UNCHANGED <<cache, boot, live, request, disposal, walk, caller, overdue, mine>>

Closed(s) == s \in States => state[s].is = "closed"

\* Somebody in an instance disposes of it, or a directory is reloaded.
Dispose(x) ==
    /\ disposal[x].at = "new"
    /\ \E d \in Dirs, to \in {"disposing", "reloading"} :
          /\ to = "disposing" => \E b \in Boots : Ready(b) /\ DirOf(b) = d
          /\ disposal' = [disposal EXCEPT ![x] = [at |-> to, dir |-> d, state |-> live[d]]]
          /\ Invalidate(d)
    /\ UNCHANGED <<cache, boot, request, question, walk, caller, overdue, mine>>

\* The cache loses whatever it has by now, also an instance made since.
EndDispose(x) ==
    LET d == disposal[x].dir IN
    /\ disposal[x].at = "disposing" /\ Closed(disposal[x].state)
    /\ disposal' = [disposal EXCEPT ![x].at = "done"]
    /\ cache' = [cache EXCEPT ![d] = 0]
    /\ UNCHANGED <<boot, live, state, request, question, walk, caller, overdue, mine>>

EndReload(x) ==
    LET d == disposal[x].dir IN
    /\ disposal[x].at = "reloading" /\ Closed(disposal[x].state)
    /\ disposal' = [disposal EXCEPT ![x].at = "done"]
    /\ Track(d)
    /\ UNCHANGED <<live, state, request, question, walk, caller, overdue, mine>>

-----------------------------------------------------------------------------
(* disposeAll.                                                             *)

Entries == {cache[d] : d \in Dirs} \ {0}

\* The first caller starts the walk, others that come while it goes on join it.
DisposeAll(a) ==
    /\ caller[a] = "new"
    /\ caller' = [caller EXCEPT ![a] = IF walk.at = "off" THEN "waiting" ELSE "joined"]
    /\ walk' = IF walk.at = "off" THEN [walk EXCEPT !.at = "next", !.left = Entries] ELSE walk
    /\ mine' = [mine EXCEPT ![a] = Entries]
    /\ UNCHANGED <<cache, boot, live, state, request, question, disposal, overdue>>

Has(b) == cache[DirOf(b)] = b

WalkOn == [walk EXCEPT !.at = "next", !.left = @ \ {walk.on}, !.on = 0, !.state = 0]

\* The next entry, whose promise is awaited; one that is no longer there is passed over.
WalkNext ==
    /\ walk.at = "next"
    /\ \E b \in walk.left :
          walk' = IF Has(b) THEN [walk EXCEPT !.at = "awaiting", !.on = b]
                            ELSE [walk EXCEPT !.left = @ \ {b}]
    /\ UNCHANGED <<cache, boot, live, state, request, question, disposal, caller, overdue, mine>>

\* Mutant: an instance that is still being made is passed over.
WalkAwaitNot ==
    LET b == walk.on IN
    /\ walk.at = "awaiting"
    /\ IF Has(b) /\ Ready(b)
       THEN Invalidate(DirOf(b)) /\ walk' = [walk EXCEPT !.at = "disposing", !.state = live[DirOf(b)]]
       ELSE walk' = WalkOn /\ UNCHANGED <<live, state>>
    /\ UNCHANGED <<cache, boot, request, question, disposal, caller, overdue, mine>>

\* The instance is there: it is disposed of, unless the cache has another by now.
WalkAwait ==
    LET b == walk.on IN
    /\ walk.at = "awaiting" /\ boot[b].is # "booting"
    /\ IF Has(b)
       THEN Invalidate(DirOf(b)) /\ walk' = [walk EXCEPT !.at = "disposing", !.state = live[DirOf(b)]]
       ELSE walk' = WalkOn /\ UNCHANGED <<live, state>>
    /\ UNCHANGED <<cache, boot, request, question, disposal, caller, overdue, mine>>

WalkDisposed ==
    LET d == DirOf(walk.on) IN
    /\ walk.at = "disposing" /\ Closed(walk.state)
    /\ walk' = WalkOn
    /\ cache' = [cache EXCEPT ![d] = 0]
    /\ UNCHANGED <<boot, live, state, request, question, disposal, caller, overdue, mine>>

WalkEnds ==
    /\ walk.at = "next" /\ walk.left = {}
    /\ walk' = [walk EXCEPT !.at = "off"]
    /\ caller' = [a \in Alls |-> IF caller[a] = "waiting" THEN "done"
                                 ELSE IF caller[a] = "joined" THEN "followed" ELSE caller[a]]
    /\ UNCHANGED <<cache, boot, live, state, request, question, disposal, overdue, mine>>

-----------------------------------------------------------------------------
DisposeStep ==
    \/ \E s \in States : Finalize(s)
    \/ \E x \in Disposals : EndDispose(x) \/ EndReload(x)
    \/ WalkNext \/ WalkAwait \/ WalkDisposed \/ WalkEnds

InstancesNext ==
    \/ \E r \in Requests : (\E d \in Dirs : Provide(r, d)) \/ Admit(r) \/ Serve(r)
    \/ \E b \in Boots : BootEnds(b) \/ BootFails(b) \/ \E q \in Questions : Ask(q, b)
    \/ \E x \in Disposals : Dispose(x)
    \/ \E a \in Alls : DisposeAll(a)
    \/ DisposeStep

InstancesSpec == InstancesInit /\ [][InstancesNext]_instVars

-----------------------------------------------------------------------------
\* A question that waits is in the state that every request of its directory finds, so
\* that a client can answer it, or is about to be rejected with its state.
QuestionsAreReachable ==
    \A q \in Questions : question[q].at = "waiting" =>
        LET s == question[q].in IN
        /\ q \in state[s].has
        /\ state[s].is = "closing" \/ \E d \in Dirs : live[d] = s

\* What a service keeps for a directory was made by the instance that the cache has, as
\* nothing of an instance outlives its disposal; but for what runs in an instance on its
\* way out, and what a failed boot leaves behind.
StatesFollowInstance ==
    \A d \in Dirs :
        LET s == live[d] IN
        s \in States \ overdue /\ boot[state[s].of].is # "failed" => state[s].of = cache[d]

\* When disposeAll returns, the instances that it found are gone, and so are their
\* states; but for those of a boot that failed.  A call that joins an earlier one may
\* miss what was made in between.
DisposeAllIsThorough ==
    \A a \in Alls : caller[a] = "done" =>
        \A b \in mine[a] :
            /\ ~Has(b)
            /\ boot[b].is = "failed" \/ \A s \in States \ overdue : state[s].of = b => state[s].is # "open"
=============================================================================
