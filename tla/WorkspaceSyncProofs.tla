------------------------ MODULE WorkspaceSyncProofs ------------------------
(***************************************************************************)
(* Proofs about WorkspaceSync.  LoopInv is about the loops of each process *)
(* and what it publishes; it needs nothing of the logs.  StreamInv says    *)
(* that the streams hold nothing but what was run, which is all it takes   *)
(* for every step here to be a step of SyncEvent.                          *)
(***************************************************************************)
EXTENDS WorkspaceSync, SyncEventProofs

Statuses == {"none", "connecting", "connected", "error", "disconnected"}

LoopsTyped ==
    /\ loop   \in [Loops -> LoopState]
    /\ owner  \in [Loops -> Followers \cup {Nothing}]
    /\ signal \in [Loops -> BOOLEAN]
    /\ aborts \in [Followers -> Loops \cup {Nothing}]
    /\ conn   \in [Followers -> Statuses]
    /\ kind   \in [FollowerDbs -> {"worktree", "remote"}]
    /\ checking \in [Followers -> Nat]

\* A loop that was started has a process; one that was not has no aborted signal.
Owning ==
    \A l \in Loops : IF loop[l] = "unborn" THEN ~signal[l] ELSE owner[l] \in Followers

\* An AbortController is of a loop of its process, and was not used.
Controlled ==
    \A f \in Followers : aborts[f] # Nothing =>
        LET l == aborts[f] IN owner[l] = f /\ ~signal[l] /\ loop[l] # "unborn"

\* Only the directory of a worktree is looked at.
LooksAtTrees == \A f \in Followers : checking[f] > 0 => kind[DbOf[f]] = "worktree"

LoopInv ==
    LoopsTyped /\ Owning /\ Controlled /\ LooksAtTrees /\ LoopIsKnown /\ ConnectedIsTrue

\* The stream that shows that f is connected.
Shows(l, f) == /\ owner[l] = f
               /\ loop[l] = "cut" \/ (loop[l] = "streaming" /\ ~signal[l])

-----------------------------------------------------------------------------
(* The loops.                                                              *)

LEMMA InitLoopInv == Init => LoopInv
  BY LoopsAssumption
     DEF Init, LoopInit, LoopInv, LoopsTyped, Owning, Controlled, LooksAtTrees, LoopIsKnown,
         ConnectedIsTrue, Live, LoopState, Statuses

\* A loop that goes on publishes that it is connected only when it is.
LEMMA GoesKeeps ==
    ASSUME LoopInv, NEW l \in Loops, NEW state \in LoopState \ {"unborn"}, NEW status \in Statuses,
           Live(l), Goes(l, state, status), UNCHANGED <<aborts, kind, checking>>,
           \/ status # "connected"
           \/ state = "cut" \/ (state = "streaming" /\ ~signal[l])
           \/ status = conn[owner[l]] /\ loop[l] \in {"failing", "closing"}
    PROVE  LoopInv'
  <1> USE DEF LoopInv, LoopsTyped
  <1>1. /\ loop' = [loop EXCEPT ![l] = state]
        /\ conn' = [conn EXCEPT ![owner[l]] = status]
        /\ owner' = owner /\ signal' = signal
    BY DEF Goes, Published
  <1>2. owner[l] \in Followers
    BY DEF Live, Owning
  <1>3. LoopsTyped' /\ Owning' /\ Controlled' /\ LooksAtTrees'
    BY <1>1, <1>2 DEF Owning, Controlled, LooksAtTrees
  <1>4. LoopIsKnown'
    BY <1>1, <1>2 DEF LoopIsKnown, Live
  <1>5. ConnectedIsTrue'
    <2> SUFFICES ASSUME NEW f \in Followers, kind[DbOf[f]] = "remote", conn'[f] = "connected"
                 PROVE  \E k \in Loops : Shows(k, f)'
      BY DEF ConnectedIsTrue, Shows
    <2>1. CASE owner[l] = f /\ (state = "cut" \/ (state = "streaming" /\ ~signal[l]))
      BY <1>1, <2>1 DEF Shows
    <2>2. CASE conn[f] = "connected" /\ (owner[l] = f => loop[l] \in {"failing", "closing"})
      <3>1. PICK k \in Loops : Shows(k, f)
        BY <2>2 DEF ConnectedIsTrue, Shows
      <3>2. k # l
        BY <3>1, <2>2 DEF Shows
      <3> QED
        BY <1>1, <3>1, <3>2 DEF Shows
    <2> QED
      BY <1>1, <1>2, <2>1, <2>2
  <1> QED
    BY <1>3, <1>4, <1>5

\* The steps that leave the loops and their status alone.
LoopsRest == UNCHANGED <<loop, owner, signal, aborts, conn, kind, checking>>

LEMMA RestKeeps ==
    ASSUME LoopInv, LoopsRest
    PROVE  LoopInv'
  <1> USE DEF LoopsRest
  <1>1. LoopsTyped' /\ LooksAtTrees'
    BY DEF LoopInv, LoopsTyped, LooksAtTrees
  <1>2. Owning' /\ Controlled'
    BY DEF LoopInv, Owning, Controlled
  <1>3. LoopIsKnown'
    BY DEF LoopInv, LoopIsKnown, Live
  <1>4. ConnectedIsTrue'
    BY DEF LoopInv, ConnectedIsTrue
  <1> QED
    BY <1>1, <1>2, <1>3, <1>4 DEF LoopInv

LEMMA StartKeeps ==
    ASSUME LoopInv, NEW f \in Followers, StartSync(f), UNCHANGED kind
    PROVE  LoopInv'
  <1> USE DEF LoopInv, LoopsTyped
  <1>1. CASE UNCHANGED <<loopVars, aborts, conn, checking>>
    BY <1>1, RestKeeps DEF LoopsRest, loopVars
  <1>3. CASE /\ kind[DbOf[f]] = "worktree"
             /\ checking' = [checking EXCEPT ![f] = @ + 1]
             /\ UNCHANGED <<loopVars, aborts, conn>>
    <2>1. LoopsTyped' /\ LooksAtTrees'
      BY <1>3 DEF loopVars, LooksAtTrees
    <2>2. Owning' /\ Controlled' /\ LoopIsKnown' /\ ConnectedIsTrue'
      BY <1>3 DEF loopVars, Owning, Controlled, LoopIsKnown, ConnectedIsTrue, Live
    <2> QED
      BY <2>1, <2>2
  <1>2. CASE /\ aborts[f] = Nothing
             /\ checking' = checking
             /\ \E l \in Loops :
                   /\ loop[l] = "unborn"
                   /\ loop'   = [loop EXCEPT ![l] = "fetching"]
                   /\ owner'  = [owner EXCEPT ![l] = f]
                   /\ aborts' = [aborts EXCEPT ![f] = l]
                   /\ conn'   = [conn EXCEPT ![f] = "connecting"]
                   /\ UNCHANGED <<signal, queue>>
    <2>1. PICK l \in Loops :
             /\ loop[l] = "unborn"
             /\ loop'   = [loop EXCEPT ![l] = "fetching"]
             /\ owner'  = [owner EXCEPT ![l] = f]
             /\ aborts' = [aborts EXCEPT ![f] = l]
             /\ conn'   = [conn EXCEPT ![f] = "connecting"]
             /\ UNCHANGED <<signal, queue>>
      BY <1>2
    <2>2. LoopsTyped' /\ LooksAtTrees'
      BY <1>2, <2>1 DEF LoopState, Statuses, LooksAtTrees
    <2>3. Owning' /\ LoopIsKnown'
      <3>1. \A k \in Loops \ {l} : Live(k) /\ ~signal[k] =>
                owner[k] \in Followers \ {f} /\ aborts[owner[k]] = k
        <4> SUFFICES ASSUME NEW k \in Loops \ {l}, Live(k), ~signal[k]
                     PROVE  owner[k] \in Followers \ {f} /\ aborts[owner[k]] = k
          OBVIOUS
        <4>1. owner[k] \in Followers
          BY DEF Owning, Live
        <4>2. aborts[owner[k]] = k
          BY DEF LoopIsKnown
        <4>3. aborts[f] = Nothing /\ Nothing # k
          BY <1>2, LoopsAssumption
        <4> QED
          BY <4>1, <4>2, <4>3
      <3>2. ASSUME NEW k \in Loops \ {l}, Live(k)', ~signal'[k] PROVE aborts'[owner'[k]] = k
        BY <2>1, <3>1, <3>2 DEF Live
      <3>3. aborts'[owner'[l]] = l
        BY <2>1
      <3>4. LoopIsKnown'
        BY <3>2, <3>3 DEF LoopIsKnown
      <3>5. Owning'
        BY <2>1 DEF Owning
      <3> QED
        BY <3>4, <3>5
    <2>4. Controlled'
      <3>1. ASSUME NEW g \in Followers \ {f}, aborts[g] # Nothing
            PROVE  /\ aborts'[g] = aborts[g] /\ aborts[g] \in Loops \ {l}
                   /\ owner'[aborts[g]] = g /\ ~signal'[aborts[g]] /\ loop'[aborts[g]] # "unborn"
        BY <2>1, <3>1 DEF Controlled
      <3>2. aborts'[f] = l /\ owner'[l] = f /\ ~signal'[l] /\ loop'[l] # "unborn"
        BY <2>1 DEF Owning
      <3> QED
        BY <2>1, <3>1, <3>2 DEF Controlled
    <2>5. ConnectedIsTrue'
      <3> SUFFICES ASSUME NEW g \in Followers, kind[DbOf[g]] = "remote", conn'[g] = "connected"
                   PROVE  \E k \in Loops : Shows(k, g)'
        BY DEF ConnectedIsTrue, Shows
      <3>1. conn[g] = "connected"
        BY <2>1
      <3>2. PICK k \in Loops : Shows(k, g)
        BY <3>1 DEF ConnectedIsTrue, Shows
      <3>3. k # l
        BY <2>1, <3>2 DEF Shows
      <3> QED
        BY <2>1, <3>2, <3>3 DEF Shows
    <2> QED
      BY <2>2, <2>3, <2>4, <2>5
  <1> QED
    BY <1>1, <1>2, <1>3 DEF StartSync, MayStart

LEMMA StopKeeps ==
    ASSUME LoopInv, NEW f \in Followers, StopSync(f), UNCHANGED <<loop, owner, kind, checking>>
    PROVE  LoopInv'
  <1> USE DEF LoopInv, LoopsTyped
  <1>1. /\ signal' = [l \in Loops |-> signal[l] \/ aborts[f] = l]
        /\ aborts' = [aborts EXCEPT ![f] = Nothing]
        /\ conn'   = [conn EXCEPT ![f] = "none"]
        /\ loop' = loop /\ owner' = owner
    BY DEF StopSync
  <1>2. LoopsTyped' /\ LooksAtTrees'
    BY <1>1 DEF Statuses, LooksAtTrees
  <1>3. \A l \in Loops : signal'[l] <=> signal[l] \/ aborts[f] = l
    BY <1>1
  <1>4. Owning' /\ Controlled'
    BY <1>1, <1>3, LoopsAssumption DEF Owning, Controlled
  <1>5. LoopIsKnown'
    BY <1>1, <1>3, LoopsAssumption DEF Owning, LoopIsKnown, Live
  <1>6. ConnectedIsTrue'
    <2> SUFFICES ASSUME NEW g \in Followers, kind[DbOf[g]] = "remote", conn'[g] = "connected"
                 PROVE  \E l \in Loops : Shows(l, g)'
      BY DEF ConnectedIsTrue, Shows
    <2>1. g # f /\ conn[g] = "connected"
      BY <1>1
    <2>2. PICK l \in Loops : Shows(l, g)
      BY <2>1 DEF ConnectedIsTrue, Shows
    <2>3. aborts[f] # l
      BY <2>1, <2>2, LoopsAssumption DEF Controlled, Shows
    <2> QED
      BY <1>1, <1>3, <2>2, <2>3 DEF Shows
  <1> QED
    BY <1>2, <1>4, <1>5, <1>6

LEMMA RestartKeeps ==
    ASSUME LoopInv, NEW f \in Followers, FollowerRestarts(f)
    PROVE  LoopInv'
  <1> USE DEF LoopInv, LoopsTyped
  <1>1. /\ loop'   = [l \in Loops |-> IF owner[l] = f THEN "ended" ELSE loop[l]]
        /\ aborts' = [aborts EXCEPT ![f] = Nothing]
        /\ conn'   = [conn EXCEPT ![f] = "none"]
        /\ checking' = [checking EXCEPT ![f] = 0]
        /\ owner' = owner /\ signal' = signal /\ kind' = kind
    BY DEF FollowerRestarts
  <1>2. LoopsTyped' /\ LooksAtTrees'
    <2>1. LoopsTyped'
      BY <1>1 DEF Statuses, LoopState
    <2>2. LooksAtTrees'
      BY <1>1 DEF LooksAtTrees
    <2> QED
      BY <2>1, <2>2
  <1>3. Owning' /\ LoopIsKnown'
    BY <1>1 DEF Owning, LoopIsKnown, Live
  <1>4. Controlled'
    <2> SUFFICES ASSUME NEW g \in Followers, aborts'[g] # Nothing
                 PROVE  owner[aborts[g]] = g /\ ~signal[aborts[g]] /\ loop'[aborts[g]] # "unborn"
                        /\ aborts'[g] = aborts[g]
      BY <1>1 DEF Controlled
    <2>1. g # f /\ aborts'[g] = aborts[g] /\ aborts[g] \in Loops
      BY <1>1
    <2> QED
      BY <1>1, <2>1 DEF Controlled
  <1>5. ConnectedIsTrue'
    <2> SUFFICES ASSUME NEW g \in Followers, kind[DbOf[g]] = "remote", conn'[g] = "connected"
                 PROVE  \E l \in Loops : Shows(l, g)'
      BY <1>1 DEF ConnectedIsTrue, Shows
    <2>1. g # f /\ conn[g] = "connected"
      BY <1>1
    <2>2. PICK l \in Loops : Shows(l, g)
      BY <2>1 DEF ConnectedIsTrue, Shows
    <2> QED
      BY <1>1, <2>1, <2>2 DEF Shows
  <1> QED
    BY <1>2, <1>3, <1>4, <1>5

LEMMA CutKeeps ==
    ASSUME LoopInv, NEW w \in Writers, WriterRestarts(w)
    PROVE  LoopInv'
  <1> USE DEF LoopInv, LoopsTyped
  <1>1. /\ loop' = [l \in Loops |-> IF Reaches(w, l) THEN "cut" ELSE loop[l]]
        /\ aborts' = aborts /\ conn' = conn /\ owner' = owner /\ signal' = signal
        /\ kind' = kind /\ checking' = checking
    BY DEF WriterRestarts, spaceVars, calls
  <1>2. \A l \in Loops : \/ loop'[l] = loop[l]
                         \/ loop[l] = "streaming" /\ loop'[l] = "cut"
    BY <1>1 DEF Reaches
  <1>3. LoopsTyped' /\ LooksAtTrees'
    BY <1>1 DEF LoopState, LooksAtTrees
  <1>4. Owning' /\ LoopIsKnown'
    BY <1>1, <1>2 DEF Owning, LoopIsKnown, Live
  <1>5. Controlled'
    <2>1. \A f \in Followers : aborts[f] # Nothing => aborts[f] \in Loops
      OBVIOUS
    <2> QED
      BY <1>1, <1>2, <2>1 DEF Controlled
  <1>6. ConnectedIsTrue'
    BY <1>1, <1>2 DEF ConnectedIsTrue
  <1> QED
    BY <1>3, <1>4, <1>5, <1>6

\* The status a look at the directory publishes is that of a worktree.
LEMMA CheckKeeps ==
    ASSUME LoopInv, NEW f \in Followers, CheckEnds(f)
    PROVE  LoopInv'
  <1> USE DEF LoopInv, LoopsTyped
  <1>1. PICK status \in {"connected", "error"} : conn' = [conn EXCEPT ![f] = status]
    BY DEF CheckEnds
  <1>2. /\ checking[f] > 0 /\ checking' = [checking EXCEPT ![f] = @ - 1]
        /\ UNCHANGED <<loop, owner, signal, aborts, kind>>
    BY DEF CheckEnds, loopVars
  <1>3. LoopsTyped' /\ LooksAtTrees'
    BY <1>1, <1>2 DEF Statuses, LooksAtTrees
  <1>4. Owning' /\ Controlled' /\ LoopIsKnown'
    BY <1>2 DEF Owning, Controlled, LoopIsKnown, Live
  <1>5. ConnectedIsTrue'
    <2> SUFFICES ASSUME NEW g \in Followers, kind[DbOf[g]] = "remote", conn'[g] = "connected"
                 PROVE  \E l \in Loops : Shows(l, g)
      BY <1>2 DEF ConnectedIsTrue, Shows
    <2>1. kind[DbOf[f]] = "worktree"
      BY <1>2 DEF LooksAtTrees
    <2> QED
      BY <1>1, <2>1 DEF ConnectedIsTrue, Shows
  <1> QED
    BY <1>3, <1>4, <1>5

LEMMA LoopStepKeeps ==
    ASSUME LoopInv, NEW l \in Loops, LoopStep(l)
    PROVE  LoopInv'
  <1> USE DEF LoopState, Statuses
  <1>1. CASE FetchFails(l)
    BY <1>1, GoesKeeps DEF FetchFails, Live, calls
  <1>2. CASE Connect(l)
    BY <1>2, GoesKeeps DEF Connect, Live, calls
  <1>3. CASE AdaptorEnds(l)
    <2>1. PICK status \in {"error", "connecting"} : Goes(l, "given up", status)
      BY <1>3 DEF AdaptorEnds
    <2> QED
      BY <1>3, <2>1, GoesKeeps DEF AdaptorEnds, Live, calls
  <1>4. CASE Deliver(l)
    BY <1>4, RestKeeps DEF Deliver, LoopsRest, spaceVars, calls
  <1>5. CASE Break(l)
    BY <1>5, GoesKeeps DEF Break, Live, calls
  <1>6. CASE Wake(l)
    <2>1. /\ Live(l) /\ UNCHANGED <<aborts, kind, checking>>
          /\ loop[l] \in {"failing", "closing"}
      BY <1>6 DEF Wake, Live, calls
    <2>2. CASE Goes(l, "ended", conn[owner[l]])
      <3>1. conn[owner[l]] \in Statuses
        BY <2>1 DEF LoopInv, LoopsTyped, Owning, Live
      <3> QED
        BY <2>1, <2>2, <3>1, GoesKeeps
    <2>3. CASE Goes(l, "fetching", "connecting")
      BY <2>1, <2>3, GoesKeeps
    <2> QED
      BY <1>6, <2>2, <2>3 DEF Wake, Over
  <1> QED
    BY <1>1, <1>2, <1>3, <1>4, <1>5, <1>6 DEF LoopStep

LEMMA SpaceStepKeeps ==
    ASSUME LoopInv, NEW f \in Followers, SpaceStep(f)
    PROVE  LoopInv'
  <1>1. CASE CreateSpace(f) \/ SpaceRemoved(f)
    BY <1>1, RestKeeps DEF CreateSpace, SpaceRemoved, LoopsRest, loopVars
  <1>2. CASE SpaceCreated(f) \/ ListSpaces(f)
    BY <1>2, StartKeeps, RestKeeps DEF SpaceCreated, ListSpaces, LoopsRest, loopVars
  <1>3. CASE RemoveSpace(f)
    BY <1>3, StopKeeps DEF RemoveSpace
  <1>4. CASE CheckEnds(f)
    BY <1>4, CheckKeeps
  <1> QED
    BY <1>1, <1>2, <1>3, <1>4 DEF SpaceStep

LEMMA StepLoopInv ==
    ASSUME LoopInv, [Next]_vars
    PROVE  LoopInv'
  <1>1. ASSUME NEW w \in Writers, WriterRuns(w) \/ WriterSteps(w) PROVE LoopInv'
    BY <1>1, RestKeeps DEF WriterRuns, WriterSteps, LoopsRest, loopVars, spaceVars, calls
  <1>2. ASSUME NEW w \in Writers, WriterRestarts(w) PROVE LoopInv'
    BY <1>2, CutKeeps
  <1>3. ASSUME NEW f \in Followers, Replay(f) PROVE LoopInv'
    BY <1>3, RestKeeps DEF Replay, LoopsRest, loopVars, spaceVars, calls
  <1>4. ASSUME NEW f \in Followers, SpaceStep(f) PROVE LoopInv'
    BY <1>4, SpaceStepKeeps
  <1>5. ASSUME NEW f \in Followers, FollowerRestarts(f) PROVE LoopInv'
    BY <1>5, RestartKeeps
  <1>6. ASSUME NEW l \in Loops, LoopStep(l) PROVE LoopInv'
    BY <1>6, LoopStepKeeps
  <1>7. CASE UNCHANGED vars
    BY <1>7, RestKeeps DEF vars, LoopsRest, loopVars, spaceVars, calls
  <1> QED
    BY <1>1, <1>2, <1>3, <1>4, <1>5, <1>6, <1>7 DEF Next

LEMMA LoopInvariance == Spec => []LoopInv
  BY InitLoopInv, StepLoopInv, PTL DEF Spec

\* Whatever is listed, created and removed, and whenever streams break: a loop that
\* nobody has aborted can be, and so a workspace has one at most.
THEOREM LoopIsKnownHolds == Spec => []LoopIsKnown
<1>1. LoopInv => LoopIsKnown
  BY DEF LoopInv
<1> QED
  BY <1>1, LoopInvariance, PTL

\* What a process publishes as connected is, if it is remote.
THEOREM ConnectedIsTrueHolds == Spec => []ConnectedIsTrue
<1>1. LoopInv => ConnectedIsTrue
  BY DEF LoopInv
<1> QED
  BY <1>1, LoopInvariance, PTL

-----------------------------------------------------------------------------
(* Streams.                                                                *)

\* All that was run, and the messages there can be of it.
AllRun == {e \in Event : \E s \in Sessions : \E n \in DOMAIN written[s] : e = written[s][n]}
Sent   == [form : {"bare", "payload"}, event : AllRun]

\* A stream has nothing that was not run.
StreamInv == queue \in [Loops -> Seq(Sent)]

LEMMA InitStreamInv == Init => StreamInv
  BY DEF Init, LoopInit, StreamInv

LEMMA SeqGrows ==
    ASSUME NEW S, NEW T, S \subseteq T, NEW q \in Seq(S)
    PROVE  q \in Seq(T)
  <1>1. /\ Len(q) \in Nat /\ DOMAIN q = 1..Len(q)
        /\ q = [i \in 1..Len(q) |-> q[i]]
        /\ \A i \in 1..Len(q) : q[i] \in T
    OBVIOUS
  <1>2. \A n \in Nat : [i \in 1..n |-> q[i]] \in Seq(T) <=> \A i \in 1..n : q[i] \in T
    OBVIOUS
  <1> QED
    BY <1>1, <1>2

\* What was run is never taken back.
LEMMA SentGrows ==
    ASSUME StreamInv, AllRun \subseteq AllRun'
    PROVE  /\ Sent \subseteq Sent'
           /\ queue \in [Loops -> Seq(Sent')]
  <1>1. Sent \subseteq Sent'
    BY DEF Sent
  <1>2. /\ \A l \in Loops : queue[l] \in Seq(Sent)
        /\ queue = [l \in Loops |-> queue[l]]
    BY DEF StreamInv
  <1>3. \A l \in Loops : queue[l] \in Seq(Sent')
    BY <1>1, <1>2, SeqGrows
  <1> QED
    BY <1>1, <1>2, <1>3

\* What a writer runs, and its streams get.
LEMMA RunsEmit ==
    ASSUME StreamInv, NEW p \in Writers, NEW s \in Sessions, NEW t \in Types,
           EventTypeOK, EventTypeOK', Run(p, s, t), Emit(p, s)
    PROVE  StreamInv'
  <1> DEFINE e == NewEvent(DbOf[p], s, t)
  <1>1. written' = [written EXCEPT ![s] = Append(@, e)]
    BY DEF Run
  <1> HIDE DEF e
  <1>2. written \in [Sessions -> Seq(Event)] /\ written' \in [Sessions -> Seq(Event)]
    BY DEF EventTypeOK
  <1>3. /\ written'[s] = Append(written[s], e)
        /\ \A a \in Sessions \ {s} : written'[a] = written[a]
    BY <1>1, <1>2
  <1>4. /\ Len(written[s]) \in Nat /\ DOMAIN written[s] = 1..Len(written[s])
        /\ Len(written'[s]) = Len(written[s]) + 1
        /\ DOMAIN written'[s] = 1..Len(written[s]) + 1
        /\ written'[s][Len(written[s]) + 1] = e
        /\ \A n \in 1..Len(written[s]) : written'[s][n] = written[s][n]
    <2>1. written[s] \in Seq(Event) /\ written'[s] \in Seq(Event)
      BY <1>2
    <2> QED
      BY <1>3, <2>1
  <1>5. e \in Event
    <2>1. written'[s] \in Seq(Event)
      BY <1>2
    <2> QED
      BY <1>4, <2>1
  <1> HIDE DEF Event
  <1>6. AllRun \subseteq AllRun' /\ e \in AllRun'
    BY <1>3, <1>4, <1>5 DEF AllRun
  <1>7. PICK form \in Forms :
           queue' = [l \in Loops |->
                       IF Reaches(p, l) THEN Append(queue[l], [form |-> form, event |-> e]) ELSE queue[l]]
    BY <1>4 DEF Emit
  <1>8. [form |-> form, event |-> e] \in Sent'
    BY <1>6, LoopsAssumption DEF Sent
  <1>9. \A l \in Loops : /\ queue[l] \in Seq(Sent')
                         /\ Append(queue[l], [form |-> form, event |-> e]) \in Seq(Sent')
    BY <1>6, <1>8, SentGrows
  <1> QED
    BY <1>7, <1>9 DEF StreamInv

-----------------------------------------------------------------------------
(* Every step here is one of SyncEvent.                                    *)

\* What a message brings was run.
LEMMA DeliverRun ==
    ASSUME StreamInv, NEW l \in Loops, queue[l] # <<>>
    PROVE  \E s \in Sessions : \E i \in DOMAIN written[s] : Head(queue[l]).event = written[s][i]
  <1>1. queue[l] \in Seq(Sent)
    BY DEF StreamInv
  <1>2. Head(queue[l]) \in Sent
    BY <1>1
  <1> QED
    BY <1>2 DEF Sent, AllRun

LEMMA StepSync ==
    ASSUME LoopInv, StreamInv, [Next]_vars
    PROVE  [SyncNext]_syncVars
  <1>1. Writers \subseteq Procs /\ Followers \subseteq Procs
    BY SyncAssumption DEF Followers
  <1>2. ASSUME NEW w \in Writers, WriterRuns(w) \/ WriterSteps(w) PROVE SyncNext
    BY <1>1, <1>2 DEF WriterRuns, WriterSteps, SyncNext, WriterNext
  <1>3. ASSUME NEW p \in Procs, Restarting(p) PROVE [SyncNext]_syncVars
    BY <1>3 DEF Restarting, SyncNext
  <1>4. ASSUME NEW f \in Followers, Replay(f) PROVE SyncNext
    BY <1>4 DEF Replay, SyncNext, FollowerNext
  <1>5. ASSUME NEW f \in Followers, SpaceStep(f) PROVE UNCHANGED syncVars
    BY <1>5 DEF SpaceStep, CreateSpace, SpaceCreated, ListSpaces, CheckEnds, RemoveSpace, SpaceRemoved
  <1>6. ASSUME NEW l \in Loops, Deliver(l) PROVE [SyncNext]_syncVars
    <2>1. CASE ReplayRead(owner[l], Head(queue[l]).event)
      <3>1. owner[l] \in Followers /\ queue[l] # <<>>
        BY <1>6 DEF Deliver, LoopInv, Owning
      <3> QED
        BY <2>1, <3>1, DeliverRun DEF SyncNext, FollowerNext
    <2> QED
      BY <1>6, <2>1 DEF Deliver
  <1>7. ASSUME NEW l \in Loops, LoopStep(l) PROVE [SyncNext]_syncVars
    BY <1>6, <1>7 DEF LoopStep, FetchFails, Connect, AdaptorEnds, Break, Wake
  <1>8. CASE UNCHANGED vars
    BY <1>8 DEF vars
  <1>9. ASSUME NEW w \in Writers, WriterRestarts(w) PROVE [SyncNext]_syncVars
    BY <1>1, <1>3, <1>9 DEF WriterRestarts
  <1>10. ASSUME NEW f \in Followers, FollowerRestarts(f) PROVE [SyncNext]_syncVars
    BY <1>1, <1>3, <1>10 DEF FollowerRestarts
  <1> QED
    BY <1>2, <1>4, <1>5, <1>7, <1>8, <1>9, <1>10 DEF Next

\* A step that runs nothing leaves each queue as it is, or takes something out of it.
LEMMA OtherStreams ==
    ASSUME StreamInv, written' = written,
           \/ queue' = queue
           \/ \E l \in Loops : queue' = [queue EXCEPT ![l] = <<>>]
           \/ \E l \in Loops : queue[l] # <<>> /\ queue' = [queue EXCEPT ![l] = Tail(@)]
           \/ \E f : queue' = [l \in Loops |-> IF owner[l] = f THEN <<>> ELSE queue[l]]
    PROVE  StreamInv'
  <1>1. Sent' = Sent
    BY DEF Sent, AllRun
  <1>2. /\ queue \in [Loops -> Seq(Sent)]
        /\ <<>> \in Seq(Sent)
        /\ \A l \in Loops : queue[l] # <<>> => Tail(queue[l]) \in Seq(Sent)
    <2> HIDE DEF Sent
    <2> QED
      BY DEF StreamInv
  <1>3. queue' \in [Loops -> Seq(Sent)]
    <2> HIDE DEF Sent
    <2> QED
      BY <1>2
  <1> QED
    BY <1>1, <1>3 DEF StreamInv

LEMMA StepStreamInv ==
    ASSUME LoopInv, StreamInv, EventTypeOK, EventTypeOK', [Next]_vars
    PROVE  StreamInv'
  <1>1. ASSUME NEW w \in Writers, WriterRuns(w) PROVE StreamInv'
    <2>1. PICK s \in Sessions :
            /\ \/ Create(w, s) \/ RemoveRun(w, s)
               \/ \E t \in {"updated", "part", "unpart"} : Write(w, s, t)
            /\ Emit(w, s)
      BY <1>1 DEF WriterRuns
    <2>2. \E t \in Types : Run(w, s, t)
      BY <2>1 DEF Create, RemoveRun, Write, Types
    <2> QED
      BY <2>1, <2>2, RunsEmit
  <1>2. ASSUME NEW w \in Writers, WriterSteps(w) PROVE StreamInv'
    BY <1>2, OtherStreams DEF WriterSteps, RemoveLog, RemoveGet, loopVars
  <1>3. ASSUME NEW w \in Writers, WriterRestarts(w) PROVE StreamInv'
    BY <1>3, OtherStreams DEF WriterRestarts, Restarting, Killed, syncVars
  <1>4. ASSUME NEW f \in Followers, Replay(f) PROVE StreamInv'
    BY <1>4, OtherStreams DEF Replay, ReplayCommit, loopVars
  <1>5. ASSUME NEW f \in Followers, FollowerRestarts(f) PROVE StreamInv'
    BY <1>5, OtherStreams DEF FollowerRestarts, Restarting, Killed, syncVars
  <1>6. ASSUME NEW f \in Followers, SpaceStep(f) PROVE StreamInv'
    <2>1. written' = written
      BY <1>6 DEF SpaceStep, CreateSpace, SpaceCreated, ListSpaces, CheckEnds, RemoveSpace,
                  SpaceRemoved, syncVars
    <2>2. queue' = queue
      BY <1>6 DEF SpaceStep, CreateSpace, SpaceCreated, ListSpaces, CheckEnds, RemoveSpace,
                  SpaceRemoved, StartSync, loopVars
    <2> QED
      BY <2>1, <2>2, OtherStreams
  <1>7. ASSUME NEW l \in Loops, LoopStep(l) PROVE StreamInv'
    <2>1. CASE Deliver(l)
      BY <2>1, OtherStreams DEF Deliver, ReplayRead, syncVars
    <2>2. CASE FetchFails(l) \/ Connect(l) \/ AdaptorEnds(l) \/ Wake(l)
      BY <2>2, OtherStreams DEF FetchFails, Connect, AdaptorEnds, Wake, syncVars
    <2>3. CASE Break(l)
      BY <2>3, OtherStreams DEF Break, syncVars
    <2> QED
      BY <1>7, <2>1, <2>2, <2>3 DEF LoopStep
  <1>8. CASE UNCHANGED vars
    BY <1>8, OtherStreams DEF vars, syncVars, loopVars
  <1> QED
    BY <1>1, <1>2, <1>3, <1>4, <1>5, <1>6, <1>7, <1>8 DEF Next

LEMMA StreamInvariance ==
    ASSUME Recording
    PROVE  Spec => [](LoopInv /\ StreamInv /\ IInv)
  <1>1. Init => LoopInv /\ StreamInv /\ IInv
    BY InitLoopInv, InitStreamInv, InitIInv DEF Init
  <1>2. LoopInv /\ StreamInv /\ IInv /\ [Next]_vars => (LoopInv /\ StreamInv /\ IInv)'
    BY StepLoopInv, StepSync, StepIInv, StepStreamInv DEF IInv
  <1> QED
    BY <1>1, <1>2, PTL DEF Spec

\* Following another device over streams, with all that breaks and restarts on the way,
\* implements the replay of SyncEvent, in which any event may come at any time: all that is
\* proved of SyncEvent holds of it.
THEOREM FollowingIsSync ==
    ASSUME Recording
    PROVE  Spec => SyncSpec
  <1>1. Init => SyncInit
    BY DEF Init
  <1>2. LoopInv /\ StreamInv /\ IInv /\ [Next]_vars => [SyncNext]_syncVars
    BY StepSync
  <1> QED
    BY <1>1, <1>2, StreamInvariance, PTL DEF Spec, SyncSpec
=============================================================================
