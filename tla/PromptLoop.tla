----------------------------- MODULE PromptLoop -----------------------------
(***************************************************************************)
(* session/prompt.ts: prompts that are stored in the history of a session, *)
(* and the loop that reads the history and has the model answer, with the  *)
(* compaction of session/compaction.ts, the window that message-v2.ts cuts *)
(* out of the history, and the clean-up after a revert of revert.ts.       *)
(*                                                                         *)
(* One session.  Its runner is taken as SingleFlight says: a call starts   *)
(* the loop or joins the one that runs.  Ids and times of creation follow  *)
(* one clock, in the order in which they are handed out; the clock of a    *)
(* client may be ahead of it.  Whether the stream of a step succeeds,      *)
(* calls tools, overflows or fails is open.                                *)
(* What runs between two awaits is one step.                               *)
(***************************************************************************)
EXTENDS Naturals

CONSTANTS
    Prompts,    \* callers of prompt and command
    Commands,   \* the prompts that are commands run as a subtask
    Brings,     \* the prompts whose client made the message id, as the TUI does
    Summaries,  \* callers of the summarize route
    Reverts,    \* callers of revert
    Skew,       \* how far the clocks of those clients are ahead of the server's
    MaxSteps,   \* bound: streams that end with tool calls or an overflow
    MaxStops,   \* bound: cancels and crashes
    None        \* no caller

Callers == Prompts \cup Summaries

ASSUME LoopAssumption ==
    /\ Commands \subseteq Prompts
    /\ Brings \subseteq Prompts
    /\ Prompts \cap Summaries = {} /\ Reverts \cap Callers = {}
    /\ None \notin Callers
    /\ {Skew, MaxSteps, MaxStops} \subseteq Nat

VARIABLES
    clock,  \* ids and times handed out so far
    hist,   \* the stored messages of the session
    revert, \* session.revert: the id from which on messages are taken back, 0 if none
    pc,     \* where the loop is
    job,    \* what this iteration does
    read,   \* the messages it read at its top
    draft,  \* the assistant message it is writing
    call,   \* where each caller is
    slip,   \* the id and time each prompt has taken for its message
    plan,   \* the id each revert has chosen
    steps,  \* streams that ended with tool calls or an overflow
    stops,  \* cancels and crashes so far
    heard,  \* history: the callers whose words a finished stream was given
    late,   \* history: the prompts stored below a newer answer, also one being written, or request
    blind,  \* history: the callers whose message came between a read and its answer's id
    undone  \* history: the callers of whose messages a revert removed one

loopVars == <<pc, job, read, draft>>
marks == <<late, blind, undone>>
vars == <<clock, hist, revert, loopVars, call, slip, plan, steps, stops, heard, marks>>

-----------------------------------------------------------------------------
(* Messages.  Only what the loop looks at is kept of them.                 *)

Finish == {"", "stop", "tool-calls", "error"}

Message ==
    [id: Nat, at: Nat, role: {"user", "assistant"}, of: Callers \cup {None},
     task: {"none", "compact", "subtask"}, auto: BOOLEAN, over: BOOLEAN,
     parent: Nat, finish: Finish, summary: BOOLEAN, error: BOOLEAN,
     calls: BOOLEAN, full: BOOLEAN]

UserMessage(id, at, of, task) ==
    [id |-> id, at |-> at, role |-> "user", of |-> of, task |-> task,
     auto |-> FALSE, over |-> FALSE, parent |-> 0, finish |-> "",
     summary |-> FALSE, error |-> FALSE, calls |-> FALSE, full |-> FALSE]

\* Ids follow the clock of their maker.  Random characters keep those of the server
\* and of a client apart: the server's are the even ones.
ServerId(n) == 2 * n
ClientId(n) == 2 * (n + Skew) + 1

\* A user message that the server makes at time n.
Made(n, of, task) == UserMessage(ServerId(n), n, of, task)

\* compaction.create
Request(n, of, auto, over) ==
    [Made(n, of, "compact") EXCEPT !.auto = auto, !.over = over]

Answer(n, parent, summary) ==
    [Made(n, None, "none") EXCEPT
        !.role = "assistant", !.parent = parent, !.summary = summary]

Blank == UserMessage(0, 0, None, "none")

\* updateMessage inserts a message, or replaces the one with its id.
Put(m) == {n \in hist : n.id # m.id} \cup {m}

Users(S)      == {m \in S : m.role = "user"}
Assistants(S) == {m \in S : m.role = "assistant"}
Finished(S)   == {m \in Assistants(S) : m.finish # ""}
Plain(S)      == {m \in Users(S) : m.task # "compact"}

\* The callers whose messages, or copies of them, are in S.
Words(S) == {m.of : m \in S} \ {None}

\* History is ordered by the time of creation.
IsNewest(m, S) == m \in S /\ \A n \in S : n.at <= m.at
IsOldest(m, S) == m \in S /\ \A n \in S : m.at <= n.at

\* Mutant: a summary that failed cuts the history too.
CutsFailed(S) ==
    {c \in Users(S) : /\ c.task = "compact"
                      /\ \E s \in Finished(S) :
                            s.summary /\ s.parent = c.id /\ s.at > c.at}

\* A request whose summary is complete: the walk from the newest message back
\* ends there.
Cuts(S) ==
    {c \in Users(S) : /\ c.task = "compact"
                      /\ \E s \in Finished(S) :
                            s.summary /\ ~s.error /\ s.parent = c.id /\ s.at > c.at}

\* filterCompacted
Window == {m \in hist : \A c \in Cuts(hist) : c.at <= m.at}

\* Requests and subtasks that no finished answer follows.
Pending(S) == {m \in S : m.task # "none" /\ \A f \in Finished(S) : f.at < m.at}

\* Mutant: a complete answer ends the loop, whatever was asked since.
AnsweredOnce(S) ==
    \E a \in S, u \in S :
        /\ IsNewest(a, Assistants(S)) /\ IsNewest(u, Users(S))
        /\ a.finish \notin {"", "tool-calls"}
        /\ ~a.calls

\* Mutant: the newest answer must be to the newest prompt, whatever else it is.
AnsweredByParent(S) ==
    \E a \in S, u \in S :
        /\ IsNewest(a, Assistants(S)) /\ IsNewest(u, Users(S))
        /\ a.finish \notin {"", "tool-calls"}
        /\ ~a.calls
        /\ a.parent = u.id /\ ~a.summary

\* The newest answer is complete, asks for no tools, and is newer than the newest
\* prompt, as their ids go.
Answered(S) ==
    \E a \in S, u \in S :
        /\ IsNewest(a, Assistants(S)) /\ IsNewest(u, Users(S))
        /\ a.finish \notin {"", "tool-calls"}
        /\ ~a.calls
        /\ u.id < a.id

Overflowed(S) == \E f \in S : IsNewest(f, Finished(S)) /\ f.full /\ ~f.summary

-----------------------------------------------------------------------------
Init ==
    /\ clock = 0 /\ hist = {} /\ revert = 0
    /\ pc = "off" /\ job = "step" /\ read = {} /\ draft = Blank
    /\ call = [x \in Callers \cup Reverts |-> "new"]
    /\ slip = [p \in Prompts |-> [id |-> 0, at |-> 0]]
    /\ plan = [k \in Reverts |-> 0]
    /\ steps = 0 /\ stops = 0
    /\ heard = {} /\ late = {} /\ blind = {} /\ undone = {}

-----------------------------------------------------------------------------
(* The callers.                                                            *)

\* ensureRunning: start the loop, or join it.
Join(x) ==
    /\ call' = [call EXCEPT ![x] = "waiting"]
    /\ pc'   = IF pc = "off" THEN "top" ELSE pc

\* revert.cleanup: what was reverted is removed for good.
Kept == IF revert = 0 THEN hist ELSE {m \in hist : m.id < revert}

\* The client makes the id of its message.
Draw(p) ==
    /\ p \in Brings /\ call[p] = "new"
    /\ call'  = [call EXCEPT ![p] = "drawn"]
    /\ slip'  = [slip EXCEPT ![p].id = ClientId(clock + 1)]
    /\ clock' = clock + 1
    /\ UNCHANGED <<hist, revert, loopVars, plan, steps, stops, heard, marks>>

\* prompt up to the resolving of the message's parts: files and resources are
\* read, plugins are asked.
Enter(p) ==
    /\ call[p] = IF p \in Brings THEN "drawn" ELSE "new"
    /\ call'   = [call EXCEPT ![p] = "resolving"]
    /\ slip'   = [slip EXCEPT ![p] = [id |-> IF p \in Brings THEN @.id ELSE ServerId(clock + 1),
                                      at |-> clock + 1]]
    /\ clock'  = clock + 1
    /\ hist'   = Kept
    /\ undone' = undone \cup Words(hist \ Kept)
    /\ revert' = 0
    /\ UNCHANGED <<loopVars, plan, steps, stops, heard, late, blind>>

\* The loop has read the history and will not look at it again before its answer
\* has an id.
Reading == pc = "ready" /\ job # "shrink"

\* The message is stored, and the loop asked to run unless no reply is wanted.
Store(p) ==
    LET s == slip[p] IN
    /\ call[p] = "resolving"
    /\ \/ Join(p)
       \/ call' = [call EXCEPT ![p] = "answered"] /\ UNCHANGED pc
    /\ hist' = Put(UserMessage(s.id, s.at, p, IF p \in Commands THEN "subtask" ELSE "none"))
    /\ late' = IF \E m \in Assistants(hist \cup {draft}) \cup (Users(hist) \ Plain(hist)) :
                     m.id > s.id \/ m.at > s.at
               THEN late \cup {p} ELSE late
    /\ blind' = IF Reading THEN blind \cup {p} ELSE blind
    /\ UNCHANGED <<clock, revert, job, read, draft, slip, plan, steps, stops, heard, undone>>

\* The summarize route: the clean-up, the request, which the client may want to be
\* continued, and the loop, with awaits between them.
Clean(x) ==
    /\ x \in Summaries /\ call[x] = "new"
    /\ call'   = [call EXCEPT ![x] = "cleaned"]
    /\ hist'   = Kept
    /\ revert' = 0
    /\ undone' = undone \cup Words(hist \ Kept)
    /\ UNCHANGED <<clock, loopVars, slip, plan, steps, stops, heard, late, blind>>

Summarize(x) ==
    /\ call[x] = "cleaned"
    /\ call'  = [call EXCEPT ![x] = "stored"]
    /\ \E auto \in BOOLEAN : hist' = hist \cup {Request(clock + 1, x, auto, FALSE)}
    /\ clock' = clock + 1
    /\ blind' = IF Reading THEN blind \cup {x} ELSE blind
    /\ UNCHANGED <<revert, loopVars, slip, plan, steps, stops, heard, late, undone>>

JoinStored(x) ==
    /\ call[x] = "stored" /\ Join(x)
    /\ UNCHANGED <<clock, hist, revert, job, read, draft, slip, plan, steps, stops, heard, marks>>

\* revert, refused while the session is busy.  Between its check and its result
\* it takes a snapshot and restores files.
ChooseRevert(k) ==
    /\ pc = "off" /\ call[k] = "new"
    /\ call' = [call EXCEPT ![k] = "reverting"]
    /\ \E m \in Users(hist) : plan' = [plan EXCEPT ![k] = m.id]
    /\ UNCHANGED <<clock, hist, revert, loopVars, slip, steps, stops, heard, marks>>

SetRevert(k) ==
    /\ call[k] = "reverting"
    /\ call'   = [call EXCEPT ![k] = "answered"]
    /\ revert' = plan[k]
    /\ UNCHANGED <<clock, hist, loopVars, slip, plan, steps, stops, heard, marks>>

Unrevert ==
    /\ pc = "off" /\ revert # 0
    /\ revert' = 0
    /\ UNCHANGED <<clock, hist, loopVars, call, slip, plan, steps, stops, heard, marks>>

-----------------------------------------------------------------------------
(* The loop.                                                               *)

\* The run is over: whoever joined it gets its result.
Leave(how) ==
    /\ pc' = "off" /\ job' = "step" /\ read' = {} /\ draft' = Blank
    /\ call' = [x \in DOMAIN call |-> IF call[x] = "waiting" THEN how ELSE call[x]]

\* No user message is left.
Die ==
    /\ pc = "top" /\ Users(Window) = {}
    /\ Leave("failed")
    /\ UNCHANGED <<clock, hist, revert, slip, plan, steps, stops, heard, marks>>

Exit ==
    /\ pc = "top" /\ Answered(Window)
    /\ Leave("answered")
    /\ UNCHANGED <<clock, hist, revert, slip, plan, steps, stops, heard, marks>>

\* The oldest pending task comes first.  Without one, a newest answer whose tokens
\* do not fit asks for a compaction, else there is a step to be made.
Job(t, S) ==
    \/ t # Blank /\ IsOldest(t, Pending(S)) /\ job' = t.task
    \/ t = Blank /\ Pending(S) = {} /\ job' = IF Overflowed(S) THEN "shrink" ELSE "step"

Turn ==
    /\ pc = "top" /\ Users(Window) # {} /\ ~Answered(Window)
    /\ \E t \in Window \cup {Blank} : Job(t, Window) /\ draft' = t
    /\ read' = Window
    /\ pc'   = "ready"
    /\ UNCHANGED <<clock, hist, revert, call, slip, plan, steps, stops, heard, marks>>

\* There is no such model or agent.
Falter ==
    /\ pc = "ready"
    /\ Leave("failed")
    /\ UNCHANGED <<clock, hist, revert, slip, plan, steps, stops, heard, marks>>

Shrink ==
    /\ pc = "ready" /\ job = "shrink"
    /\ hist'  = hist \cup {Request(clock + 1, None, TRUE, FALSE)}
    /\ clock' = clock + 1
    /\ pc' = "top" /\ job' = "step" /\ read' = {} /\ draft' = Blank
    /\ UNCHANGED <<revert, call, slip, plan, steps, stops, heard, marks>>

\* The answer is given its id and stored, to be filled by a stream or a subtask.
\* It keeps of a compaction's task what its end looks at.
Begin ==
    /\ pc = "ready" /\ job # "shrink"
    /\ \E u \in read :
          /\ IsNewest(u, Users(read))
          /\ LET a == Answer(clock + 1, u.id, job = "compact") IN
             /\ hist'  = hist \cup {a}
             /\ draft' = [a EXCEPT !.auto = draft.auto, !.over = draft.over]
    /\ clock' = clock + 1
    /\ pc'    = "streaming"
    /\ UNCHANGED <<revert, job, read, call, slip, plan, steps, stops, heard, marks>>

\* The stream of a step has ended and left m of its message.
Streamed(m) ==
    /\ pc = "streaming" /\ job = "step"
    /\ hist'  = Put(m)
    /\ heard' = IF m.finish = "" THEN heard ELSE heard \cup Words(read)

\* The model has answered.
StepDone ==
    /\ Streamed([draft EXCEPT !.finish = "stop"])
    /\ pc' = "top" /\ read' = {} /\ draft' = Blank
    /\ UNCHANGED <<clock, revert, job, call, slip, plan, steps, stops, marks>>

\* The model has called tools; some providers say "stop" even then.
StepCalls ==
    /\ steps < MaxSteps
    /\ \E f \in {"stop", "tool-calls"} :
          Streamed([draft EXCEPT !.finish = f, !.calls = TRUE])
    /\ steps' = steps + 1
    /\ pc' = "top" /\ read' = {} /\ draft' = Blank
    /\ UNCHANGED <<clock, revert, job, call, slip, plan, stops, marks>>

\* The answer filled the context, or the provider refused the input.
StepOverflows ==
    /\ steps < MaxSteps
    /\ \E f \in {"", "stop", "tool-calls"} :
          /\ Streamed([draft EXCEPT !.finish = f, !.full = f # "", !.calls = f = "tool-calls"])
          /\ draft' = [draft EXCEPT !.over = f = ""]
    /\ steps' = steps + 1
    /\ pc' = "full"
    /\ UNCHANGED <<clock, revert, job, read, call, slip, plan, stops, marks>>

\* An error, a rejected permission or a structured answer ends the loop.
StepBreaks ==
    /\ \E f \in {"", "stop", "tool-calls"}, e \in BOOLEAN :
          Streamed([draft EXCEPT !.finish = f, !.error = e, !.calls = f = "tool-calls"])
    /\ Leave("stopped")
    /\ UNCHANGED <<clock, revert, slip, plan, steps, stops, marks>>

\* The loop asks for a compaction after an overflow.
Compress ==
    /\ pc = "full"
    /\ hist'  = hist \cup {Request(clock + 1, None, TRUE, draft.over)}
    /\ clock' = clock + 1
    /\ pc' = "top" /\ read' = {} /\ draft' = Blank
    /\ UNCHANGED <<revert, job, call, slip, plan, steps, stops, heard, marks>>

\* The message to be given to the model again: the newest one that is no request,
\* before the summary's parent, if there are others before it.
IsReplayed(r) ==
    \E u \in read :
        /\ u.id = draft.parent
        /\ draft.over
        /\ IsNewest(r, {m \in Plain(read) : m.at < u.at})
        /\ \E m \in Plain(read) : m.at < r.at

\* What the summary is made of: the messages before the replayed one, or all.
Summarised(m) == \A r \in read : IsReplayed(r) => m.at < r.at

\* After a compaction that the loop asked for, it goes on with the replayed
\* message, or with one that tells the model to continue.
AddAfter(h) ==
    IF ~draft.auto
    THEN /\ hist' = h
         /\ UNCHANGED clock
    ELSE /\ \/ \E r \in read : /\ IsReplayed(r)
                               /\ hist' = h \cup {Made(clock + 1, r.of, r.task)}
            \/ /\ \A r \in read : ~IsReplayed(r)
               /\ hist' = h \cup {Made(clock + 1, None, "none")}
         /\ clock' = clock + 1

CompactDone ==
    /\ pc = "streaming" /\ job = "compact"
    /\ AddAfter(Put([draft EXCEPT !.finish = "stop", !.auto = FALSE, !.over = FALSE]))
    /\ heard' = heard \cup Words({m \in read : Summarised(m)})
    /\ pc' = "top" /\ job' = "step" /\ read' = {} /\ draft' = Blank
    /\ UNCHANGED <<revert, call, slip, plan, steps, stops, marks>>

\* The summary fails: an error of the provider, or a history that is too large.
CompactFails ==
    /\ pc = "streaming" /\ job = "compact"
    /\ \E f \in {"", "error"} :
          hist' = Put([draft EXCEPT !.finish = f, !.error = TRUE, !.auto = FALSE, !.over = FALSE])
    /\ Leave("stopped")
    /\ UNCHANGED <<clock, revert, slip, plan, steps, stops, heard, marks>>

\* The subtask has run; a user message asks the model to sum it up.
SubtaskDone ==
    /\ pc = "streaming" /\ job = "subtask"
    /\ hist'  = Put([draft EXCEPT !.finish = "tool-calls", !.calls = TRUE])
                \cup {Made(clock + 1, None, "none")}
    /\ clock' = clock + 1
    /\ pc' = "top" /\ job' = "step" /\ read' = {} /\ draft' = Blank
    /\ UNCHANGED <<revert, call, slip, plan, steps, stops, heard, marks>>

-----------------------------------------------------------------------------
(* Stops.                                                                  *)

\* The run is interrupted: its message is closed as aborted, a subtask's as done.
Interrupted ==
    IF job = "subtask" THEN [draft EXCEPT !.finish = "tool-calls", !.calls = TRUE]
                       ELSE [draft EXCEPT !.error = TRUE, !.auto = FALSE, !.over = FALSE]

Cancel ==
    /\ stops < MaxStops /\ pc # "off"
    /\ stops' = stops + 1
    /\ hist'  = IF pc = "streaming" THEN Put(Interrupted) ELSE hist
    /\ Leave("cancelled")
    /\ UNCHANGED <<clock, revert, slip, plan, steps, heard, marks>>

\* The process ends; the history stays as it is.
Crash ==
    /\ stops < MaxStops /\ pc # "off"
    /\ stops' = stops + 1
    /\ pc' = "off" /\ job' = "step" /\ read' = {} /\ draft' = Blank
    /\ call' = [x \in DOMAIN call |->
                   IF call[x] \in {"resolving", "cleaned", "stored", "waiting", "reverting"} THEN "gone" ELSE call[x]]
    /\ UNCHANGED <<clock, hist, revert, slip, plan, steps, heard, marks>>

-----------------------------------------------------------------------------
LoopStep ==
    \/ Die \/ Exit \/ Turn \/ Falter \/ Shrink \/ Begin \/ Compress
    \/ StepDone \/ StepCalls \/ StepOverflows \/ StepBreaks
    \/ CompactDone \/ CompactFails \/ SubtaskDone

Next ==
    \/ \E p \in Prompts : Draw(p) \/ Enter(p) \/ Store(p)
    \/ \E x \in Summaries : Clean(x) \/ Summarize(x) \/ JoinStored(x)
    \/ \E k \in Reverts : ChooseRevert(k) \/ SetRevert(k)
    \/ Unrevert
    \/ LoopStep
    \/ Cancel \/ Crash

Spec == Init /\ [][Next]_vars

\* The runtime goes on with every fiber that can; parts get resolved, streams end,
\* snapshots are taken.
FairSpec ==
    /\ Spec
    /\ WF_vars(LoopStep)
    /\ \A p \in Prompts : WF_vars(Store(p))
    /\ \A x \in Summaries : WF_vars(Summarize(x) \/ JoinStored(x))
    /\ \A k \in Reverts : WF_vars(SetRevert(k))

-----------------------------------------------------------------------------
\* The types of the variables.
TypeOK ==
    /\ clock \in Nat /\ revert \in Nat /\ steps \in Nat /\ stops \in Nat
    /\ hist \in SUBSET Message /\ read \in SUBSET Message
    /\ draft \in Message
    /\ pc \in {"off", "top", "ready", "streaming", "full"}
    /\ job \in {"step", "shrink", "compact", "subtask"}
    /\ call \in [Callers \cup Reverts ->
                   {"new", "drawn", "resolving", "cleaned", "stored", "waiting", "reverting",
                    "answered", "stopped", "cancelled", "failed", "gone"}]
    /\ slip \in [Prompts -> [id: Nat, at: Nat]]
    /\ plan \in [Reverts -> Nat]
    /\ heard \in SUBSET Callers /\ late \in SUBSET Prompts /\ blind \in SUBSET Callers

Unheard(S) == {m \in S : m.of \in Prompts \ heard}

\* What a compaction cuts off has been given to the model: a stored prompt that no
\* stream has had is in the window that the next iteration reads, unless it was
\* stored below an answer or a request that is newer by its stamp.
NothingForgotten ==
    \A m \in Unheard(hist) :
        m.of \notin late \cup undone => \E n \in Window : n.of = m.of

Exits == pc = "top" /\ \E x \in Callers : call[x] = "waiting" /\ call'[x] = "answered"

Unread == {m.of : m \in {n \in Unheard(hist) : call[n.of] = "waiting"}}

\* The loop answers its callers only when a stream has had the prompts of all of
\* them, unless the history has a prompt that was stored when an answer with a
\* newer id was there or about to be, or one that a revert took away: these also
\* hide others.
ExitHasRead ==
    [][Exits /\ {m.of : m \in hist} \cap (late \cup blind \cup undone) = {} => Unread = {}]_vars

\* A step is made only when there is something to say: a user message newer than
\* the last answer, or an answer that is incomplete or has called tools.
StepsHaveWork ==
    [][pc = "ready" /\ pc' = "streaming" /\ job = "step" =>
          \A a \in read : IsNewest(a, Assistants(read)) =>
              \/ a.finish \in {"", "tool-calls"} \/ a.calls
              \/ \E u \in Users(read) : u.at > a.at]_vars

\* A caller of prompt is answered when the model has been given its message.
PromptsAreRead == [][Exits => Unread = {}]_vars
=============================================================================
