---------------------------- MODULE WorkspaceSync ----------------------------
(***************************************************************************)
(* Workspaces that follow another device (control-plane/workspace.ts): for *)
(* each one an event loop that connects to the device, replays the events  *)
(* of the stream it gets, and connects again when the stream breaks; and   *)
(* the operations that start and stop the loop.                            *)
(*                                                                         *)
(* Every follower process has one workspace.  If that is remote, it        *)
(* follows one writer process.  A stream has the events its writer runs    *)
(* while it is open, in order, and nothing from before, each in one of two *)
(* forms, of which the loop understands one.  Each call of startSync that  *)
(* gets past its guard makes a new loop, with an abort signal of its own;  *)
(* a loop may outlive its abort, for it sleeps and fetches before it looks *)
(* again.  If the workspace is a worktree, startSync has no loop and only  *)
(* looks whether the directory is there.                                   *)
(***************************************************************************)
EXTENDS SyncEvent

CONSTANTS
    Loops,          \* event loops
    Up,             \* the writer each follower's workspace is connected to
    Forms,          \* the forms in which the devices followed send an event
    MaxOps,         \* bound on the calls of create and remove in progress in a process, and on looks
    MaxBreaks       \* bound on broken streams and restarts

ASSUME LoopsAssumption ==
    /\ Up \in [Followers -> Writers]
    /\ Nothing \notin Loops
    /\ Forms \subseteq {"bare", "payload"}
    /\ MaxOps \in Nat /\ MaxBreaks \in Nat

VARIABLES
    loop,       \* how far each loop is
    owner,      \* the process it runs in
    signal,     \* its signal is aborted
    queue,      \* the messages of its stream it has not seen yet
    aborts,     \* the loop each process has an AbortController for
    conn,       \* the status each process publishes for its workspace
    space,      \* the row of the workspace of each database is there
    kind,       \* what kind of workspace that is
    creating,   \* the calls of create in progress in each process
    removing,   \* the calls of remove
    checking,   \* the looks at the worktree's directory
    breaks      \* streams broken and restarts so far

loopVars  == <<loop, owner, signal, queue>>
calls     == <<creating, removing, checking>>
spaceVars == <<aborts, conn, space, kind, calls>>
vars      == <<syncVars, loopVars, spaceVars, breaks>>

Message == [form : {"bare", "payload"}, event : Event]

LoopInit ==
    /\ loop   = [l \in Loops |-> "unborn"]
    /\ owner  = [l \in Loops |-> Nothing]
    /\ signal = [l \in Loops |-> FALSE]
    /\ queue  = [l \in Loops |-> <<>>]
    /\ aborts = [f \in Followers |-> Nothing]
    /\ conn   = [f \in Followers |-> "none"]
    /\ space  = [d \in FollowerDbs |-> FALSE]
    /\ kind   \in [FollowerDbs -> {"worktree", "remote"}]
    /\ creating = [f \in Followers |-> 0]
    /\ removing = [f \in Followers |-> 0]
    /\ checking = [f \in Followers |-> 0]
    /\ breaks = 0

Init == SyncInit /\ LoopInit

Live(l) == loop[l] \notin {"unborn", "ended", "given up"}

-----------------------------------------------------------------------------
(* The device that is followed: what it runs goes to every open stream.    *)

\* Every stream open from the process that runs an event gets it.
Reaches(p, l) == loop[l] = "streaming" /\ ~signal[l] /\ Up[owner[l]] = p

\* The server of this repository wraps the event in a payload (global.ts:176).
Emit(p, s) ==
    \E form \in Forms :
        queue' = [l \in Loops |->
                     IF Reaches(p, l)
                     THEN Append(queue[l], [form |-> form, event |-> written'[s][Len(written'[s])]])
                     ELSE queue[l]]

\* An event runs in a writer, and its effects emit it.
WriterRuns(p) ==
    /\ \E s \in Sessions :
          /\ \/ Create(p, s) \/ RemoveRun(p, s)
             \/ \E t \in {"updated", "part", "unpart"} : Write(p, s, t)
          /\ Emit(p, s)
    /\ UNCHANGED <<loop, owner, signal, spaceVars, breaks>>

WriterSteps(p) ==
    /\ RemoveLog(p) \/ \E s \in Sessions : RemoveGet(p, s)
    /\ UNCHANGED <<loopVars, spaceVars, breaks>>

-----------------------------------------------------------------------------
(* The operations on a workspace.                                          *)

\* As MayStart, without the check for a loop that is already there.
MayStartAgain(f) == TRUE

\* startSync does nothing when there is an AbortController.
MayStart(f) == aborts[f] = Nothing

\* startSync: a look at the directory, or the loop up to its first await.
StartSync(f) ==
    CASE kind[DbOf[f]] = "worktree" ->
            /\ checking[f] < MaxOps
            /\ checking' = [checking EXCEPT ![f] = @ + 1]
            /\ UNCHANGED <<loopVars, aborts, conn>>
      [] kind[DbOf[f]] = "remote" /\ MayStart(f) ->
            /\ \E l \in Loops :
                  /\ loop[l] = "unborn"
                  /\ loop'   = [loop EXCEPT ![l] = "fetching"]
                  /\ owner'  = [owner EXCEPT ![l] = f]
                  /\ aborts' = [aborts EXCEPT ![f] = l]
            /\ conn' = [conn EXCEPT ![f] = "connecting"]
            /\ UNCHANGED <<signal, queue, checking>>
      [] OTHER -> UNCHANGED <<loopVars, aborts, conn, checking>>

\* The look at the directory publishes what it has found, whatever came in between.
CheckEnds(f) ==
    /\ checking[f] > 0 /\ step[f] = "free"
    /\ checking' = [checking EXCEPT ![f] = @ - 1]
    /\ \E status \in {"connected", "error"} : conn' = [conn EXCEPT ![f] = status]
    /\ UNCHANGED <<syncVars, loopVars, aborts, space, kind, creating, removing, breaks>>

\* create inserts the row, and awaits the adaptor.
CreateSpace(f) ==
    /\ ~space[DbOf[f]] /\ step[f] = "free" /\ creating[f] + removing[f] < MaxOps
    /\ space'    = [space EXCEPT ![DbOf[f]] = TRUE]
    /\ creating' = [creating EXCEPT ![f] = @ + 1]
    /\ UNCHANGED <<syncVars, loopVars, aborts, conn, kind, removing, checking, breaks>>

\* The adaptor has made the workspace; or it throws, and the row stays.
SpaceCreated(f) ==
    /\ creating[f] > 0 /\ step[f] = "free"
    /\ creating' = [creating EXCEPT ![f] = @ - 1]
    /\ StartSync(f) \/ UNCHANGED <<loopVars, aborts, conn, checking>>
    /\ UNCHANGED <<syncVars, space, kind, removing, breaks>>

\* list and get start the loop of a workspace whose row they read, whatever else is in
\* progress.
ListSpaces(f) ==
    /\ space[DbOf[f]] /\ step[f] = "free" /\ MayStart(f)
    /\ StartSync(f)
    /\ UNCHANGED <<syncVars, space, kind, creating, removing, breaks>>

\* As StopSync, leaving the status that was published.
StopSyncQuietly(f) ==
    /\ signal' = [l \in Loops |-> signal[l] \/ aborts[f] = l]
    /\ aborts' = [aborts EXCEPT ![f] = Nothing]
    /\ conn'   = conn

StopSync(f) ==
    /\ signal' = [l \in Loops |-> signal[l] \/ aborts[f] = l]
    /\ aborts' = [aborts EXCEPT ![f] = Nothing]
    /\ conn'   = [conn EXCEPT ![f] = "none"]

\* remove stops the loop, and awaits the adaptor before it deletes the row.
RemoveSpace(f) ==
    /\ space[DbOf[f]] /\ step[f] = "free" /\ creating[f] + removing[f] < MaxOps
    /\ StopSync(f)
    /\ removing' = [removing EXCEPT ![f] = @ + 1]
    /\ UNCHANGED <<syncVars, loop, owner, queue, space, kind, creating, checking, breaks>>

\* The row that has the id goes; or there is no adaptor of its type, and it stays.
SpaceRemoved(f) ==
    /\ removing[f] > 0 /\ step[f] = "free"
    /\ removing' = [removing EXCEPT ![f] = @ - 1]
    /\ space' = [space EXCEPT ![DbOf[f]] = FALSE] \/ space' = space
    /\ UNCHANGED <<syncVars, loopVars, aborts, conn, kind, creating, checking, breaks>>

-----------------------------------------------------------------------------
(* A loop.                                                                 *)

Published(l, status) == conn' = [conn EXCEPT ![owner[l]] = status]

Goes(l, state, status) ==
    /\ step[owner[l]] = "free"
    /\ loop' = [loop EXCEPT ![l] = state]
    /\ Published(l, status)
    /\ UNCHANGED <<owner, signal>>

\* The response arrives and the stream is open, unless the loop was aborted since: then
\* the stream is not read.
Connect(l) ==
    /\ loop[l] = "fetching"
    /\ Goes(l, IF signal[l] THEN "cut" ELSE "streaming", "connected")
    /\ UNCHANGED <<syncVars, queue, aborts, space, kind, calls, breaks>>

\* The fetch fails, or its signal is aborted, or the response is no stream.
FetchFails(l) ==
    /\ loop[l] = "fetching"
    /\ signal[l] \/ breaks < MaxBreaks
    /\ breaks' = IF signal[l] THEN breaks ELSE breaks + 1
    /\ Goes(l, "failing", "error")
    /\ UNCHANGED <<syncVars, queue, aborts, space, kind, calls>>

\* The adaptor throws, or says that the target is local: the loop is over, and
\* its AbortController stays.
AdaptorEnds(l) ==
    /\ loop[l] = "fetching" /\ breaks < MaxBreaks
    /\ breaks' = breaks + 1
    /\ \E status \in {"error", "connecting"} : Goes(l, "given up", status)
    /\ UNCHANGED <<syncVars, queue, aborts, space, kind, calls>>

\* A message of the stream, which is handled also when the signal was aborted after it
\* came.  What has a type is an event, replayed if it is the next, else ignored or refused;
\* what has none throws.  What throws is logged, and the stream goes on.
Deliver(l) ==
    /\ loop[l] \in {"streaming", "cut"} /\ queue[l] # <<>>
    /\ step[owner[l]] = "free"
    /\ LET m == Head(queue[l]) IN
          \/ m.form = "bare" /\ ReplayRead(owner[l], m.event)
          \/ m.form = "bare" /\ ~Expected(DbOf[owner[l]], m.event) /\ UNCHANGED syncVars
          \/ m.form = "payload" /\ UNCHANGED syncVars
    /\ queue' = [queue EXCEPT ![l] = Tail(@)]
    /\ UNCHANGED <<loop, owner, signal, spaceVars, breaks>>

Replay(f) ==
    /\ ReplayCommit(f)
    /\ UNCHANGED <<loopVars, spaceVars, breaks>>

\* The stream ends, or is cancelled because its signal is aborted.
Break(l) ==
    /\ loop[l] \in {"streaming", "cut"}
    /\ signal[l] \/ loop[l] = "cut" \/ breaks < MaxBreaks
    /\ breaks' = IF signal[l] \/ loop[l] = "cut" THEN breaks ELSE breaks + 1
    /\ Goes(l, "closing", "disconnected")
    /\ queue' = [queue EXCEPT ![l] = <<>>]
    /\ UNCHANGED <<syncVars, aborts, space, kind, calls>>

\* As Over, for a loop that goes on whatever happens.
OverNever(l) == FALSE

\* As Over, for a loop that gives up when it fails.
OverOnFailure(l) == signal[l] \/ loop[l] = "failing"

Over(l) == signal[l]

\* The sleep is over: look at the signal, and connect again.
Wake(l) ==
    /\ loop[l] \in {"failing", "closing"}
    /\ IF Over(l)
       THEN Goes(l, "ended", conn[owner[l]])
       ELSE Goes(l, "fetching", "connecting")
    /\ UNCHANGED <<syncVars, queue, aborts, space, kind, calls, breaks>>

-----------------------------------------------------------------------------
(* Restarts.                                                               *)

Restarting(p) == (step[p] = "free" /\ removals[p] = {} /\ UNCHANGED syncVars) \/ Killed(p)

\* Everything in the memory of a follower is gone.
FollowerRestarts(f) ==
    /\ breaks < MaxBreaks
    /\ breaks' = breaks + 1
    /\ Restarting(f)
    /\ loop'   = [l \in Loops |-> IF owner[l] = f THEN "ended" ELSE loop[l]]
    /\ queue'  = [l \in Loops |-> IF owner[l] = f THEN <<>> ELSE queue[l]]
    /\ aborts' = [aborts EXCEPT ![f] = Nothing]
    /\ conn'   = [conn EXCEPT ![f] = "none"]
    /\ creating' = [creating EXCEPT ![f] = 0]
    /\ removing' = [removing EXCEPT ![f] = 0]
    /\ checking' = [checking EXCEPT ![f] = 0]
    /\ UNCHANGED <<owner, signal, space, kind>>

\* The streams of a writer that restarts get nothing more.
WriterRestarts(w) ==
    /\ breaks < MaxBreaks
    /\ breaks' = breaks + 1
    /\ Restarting(w)
    /\ loop' = [l \in Loops |-> IF Reaches(w, l) THEN "cut" ELSE loop[l]]
    /\ UNCHANGED <<owner, signal, queue, spaceVars>>

-----------------------------------------------------------------------------
LoopStep(l) == FetchFails(l) \/ Connect(l) \/ AdaptorEnds(l) \/ Deliver(l) \/ Break(l) \/ Wake(l)
SpaceStep(f) ==
    \/ CreateSpace(f) \/ SpaceCreated(f) \/ ListSpaces(f) \/ CheckEnds(f)
    \/ RemoveSpace(f) \/ SpaceRemoved(f)

Next ==
    \/ \E w \in Writers : WriterRuns(w) \/ WriterSteps(w) \/ WriterRestarts(w)
    \/ \E f \in Followers : Replay(f) \/ SpaceStep(f) \/ FollowerRestarts(f)
    \/ \E l \in Loops : LoopStep(l)

Spec == Init /\ [][Next]_vars

\* Loops and replays get their turn, an aborted fetch or read comes back, a
\* connection that is cut is noticed, and a device that is fetched from long
\* enough answers.  Nobody has to write, and
\* nothing has to break.
Fairness ==
    /\ \A l \in Loops : WF_vars(Wake(l) \/ Connect(l)) /\ WF_vars(Deliver(l))
    /\ \A l \in Loops : WF_vars((signal[l] \/ loop[l] = "cut") /\ (FetchFails(l) \/ Break(l)))
    /\ \A f \in Followers : WF_vars(Replay(f))

FairSpec == Spec /\ Fairness

-----------------------------------------------------------------------------
LoopState == {"unborn", "fetching", "streaming", "cut", "failing", "closing", "ended", "given up"}

\* The types of the variables.
LoopTypeOK ==
    /\ EventTypeOK
    /\ loop   \in [Loops -> LoopState]
    /\ owner  \in [Loops -> Followers \cup {Nothing}]
    /\ signal \in [Loops -> BOOLEAN]
    /\ queue  \in [Loops -> Seq(Message)]
    /\ aborts \in [Followers -> Loops \cup {Nothing}]
    /\ conn   \in [Followers -> {"none", "connecting", "connected", "error", "disconnected"}]
    /\ space  \in [FollowerDbs -> BOOLEAN]
    /\ kind   \in [FollowerDbs -> {"worktree", "remote"}]
    /\ creating \in [Followers -> Nat]
    /\ removing \in [Followers -> Nat]
    /\ checking \in [Followers -> Nat]
    /\ breaks \in 0..MaxBreaks

\* A loop that nobody has aborted can be: it is the one its process has an
\* AbortController for.  So a workspace has one such loop at most.
LoopIsKnown ==
    \A l \in Loops : Live(l) /\ ~signal[l] => aborts[owner[l]] = l

\* A remote workspace that is published as connected has a stream that nobody aborted, or
\* one that is over and is about to be published as such; although loops that were aborted
\* go on publishing for a while.
ConnectedIsTrue ==
    \A f \in Followers : kind[DbOf[f]] = "remote" /\ conn[f] = "connected" =>
        \E l \in Loops : /\ owner[l] = f
                         /\ loop[l] = "cut" \/ (loop[l] = "streaming" /\ ~signal[l])

Following(f) == \E l \in Loops : owner[l] = f /\ loop[l] = "streaming" /\ ~signal[l]

\* A loop that was aborted ends.
AbortedLoopEnds == \A l \in Loops : signal[l] ~> ~Live(l)

\* The loop a process has an AbortController for gets its stream back after every
\* break, unless the adaptor gives up.
LoopReconnects ==
    \A f \in Followers, l \in Loops : 
        aborts[f] = l ~> loop[l] \in {"streaming", "given up"} \/ aborts[f] # l

\* An event that comes in over a stream in some form, and is the next for the follower's
\* database, is replayed, unless the stream goes down first or numbers start over.
Replayed(form) ==
    \A l \in Loops, f \in Followers, s \in Sessions, n \in 0..MaxEvents :
        /\ loop[l] = "streaming" /\ aborts[f] = l
        /\ latest[DbOf[f]][s] = n - 1
        /\ \E i \in DOMAIN queue[l] :
              /\ queue[l][i].form = form
              /\ queue[l][i].event.agg = s /\ queue[l][i].event.seq = n
        ~> latest[DbOf[f]][s] >= n \/ loop[l] # "streaming" \/ aborts[f] # l \/ Renumbered(s)

\* A device gets every event that comes in as such over a stream, and is its next.
NextIsReplayed == Replayed("bare")

-----------------------------------------------------------------------------
(* What the repository says of devices that follow and the code does not   *)
(* keep: TLC refutes both.                                                 *)

\* A device that is connected for good gets all of a session in the end.
FollowersCatchUp ==
    \A f \in Followers, s \in Sessions :
        <>[]Following(f) => []<>(log[DbOf[f]][s] = written[s])

\* A device that follows another of its kind gets what that one sends.
WrappedIsReplayed == Replayed("payload")
=============================================================================
