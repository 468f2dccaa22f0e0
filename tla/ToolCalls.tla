----------------------------- MODULE ToolCalls -----------------------------
(***************************************************************************)
(* src/src/session/processor.ts: one assistant message and the tools the   *)
(* model calls in it, from process to the end of cleanup, and what becomes *)
(* of the tools afterwards.                                                *)
(*                                                                         *)
(* Two kinds of fibers work on the parts of the message.  The fiber of the *)
(* session takes the events of the model's stream one after the other; it  *)
(* is what an abort interrupts.  Every tool has a fiber of its own, started *)
(* by the AI SDK through run.promise (prompt.ts): nothing interrupts it,   *)
(* an abort only reaches its signal.  Both read and write parts through    *)
(* the registry toolcalls.  getPart and updatePart are synchronous, so a   *)
(* read and the write that follows it are one step here.                   *)
(*                                                                         *)
(* After an error that can be retried the stream starts again, with the    *)
(* registry and the tools of the attempt before still there.  Providers    *)
(* choose the ids of calls: an id of one attempt may come again in the     *)
(* next.  A part is a pair of an id and the attempt that created it, a run *)
(* of a tool a pair of an id and the attempt that called it.               *)
(*                                                                         *)
(* Text, reasoning and snapshots are left out, and so is the status of the *)
(* session, which RunState has.                                            *)
(***************************************************************************)
EXTENDS Naturals

CONSTANTS
    Calls,          \* the ids of tool calls
    MaxAttempts,    \* bound: the code retries as long as errors allow it
    Reusable,       \* the ids that may come again in another attempt
    BreakOnReject   \* the configuration does not set continue_loop_on_deny

ASSUME ReuseAssumption == Reusable \subseteq Calls
ASSUME AttemptAssumption == MaxAttempts \in Nat \ {0}
ASSUME BreakAssumption == BreakOnReject \in BOOLEAN

Attempts == 1..MaxAttempts
Keys == Calls \X Attempts

Open == {"pending", "running"}
Closed == {"completed", "error"}
Heard == {"no", "started", "called", "answered"}
RunStates == {"idle", "asking", "acting", "finished", "failed", "rejected"}

VARIABLES
    fiber,          \* the fiber of the session
    attempt,        \* the attempt that streams, or the last one
    heard,          \* the last event of each call the fiber took in this attempt
    toolcalls,      \* the registry: the attempt that made the part, 0 for no entry
    part,           \* the status of each part, "none" before it is written
    run,            \* the tools
    left,           \* the calls that cleanup has yet to look at
    failure,        \* the message has an error
    blocked,
    compact,        \* needsCompaction
    aborted         \* the fiber was interrupted

stream == <<attempt, heard, failure, compact, aborted>>
toolVars == <<fiber, attempt, heard, toolcalls, part, run, left, failure, blocked, compact, aborted>>

ToolsInit ==
    /\ fiber = "streaming"
    /\ attempt = 1
    /\ heard = [c \in Calls |-> "no"]
    /\ toolcalls = [c \in Calls |-> 0]
    /\ part = [p \in Keys |-> "none"]
    /\ run = [r \in Keys |-> "idle"]
    /\ left = {}
    /\ failure = FALSE
    /\ blocked = FALSE
    /\ compact = FALSE
    /\ aborted = FALSE

-----------------------------------------------------------------------------
(* The registry and the parts *)

Registered(c) == toolcalls[c] # 0
PartOf(c) == <<c, toolcalls[c]>>
Current(c) == <<c, attempt>>
StreamIsOpen == fiber \in {"streaming", "asking"}

UsedIn(c, k) == part[<<c, k>>] # "none" \/ run[<<c, k>>] # "idle"
MayAppear(c) == c \in Reusable \/ \A k \in Attempts : UsedIn(c, k) => k = attempt

\* readToolCall found a part with this status.
Reads(c, statuses) == Registered(c) /\ part[PartOf(c)] \in statuses

\* Mutant: the status that was read is not looked at.
SettleAnyway(c, status) ==
    IF Registered(c)
        THEN /\ part' = [part EXCEPT ![PartOf(c)] = status]
             /\ toolcalls' = [toolcalls EXCEPT ![c] = 0]
        ELSE UNCHANGED <<part, toolcalls>>

\* completeToolCall, and failToolCall but for what a rejection does.
SettleAs(c, status) ==
    IF Reads(c, {"running"})
        THEN /\ part' = [part EXCEPT ![PartOf(c)] = status]
             /\ toolcalls' = [toolcalls EXCEPT ![c] = 0]
        ELSE UNCHANGED <<part, toolcalls>>

\* Mutant: every call that fails says anew whether to stop.
BlockedByLast(c) ==
    IF Reads(c, {"running"}) THEN BreakOnReject /\ run[Current(c)] = "rejected" ELSE blocked

BlockedBy(c) ==
    IF Reads(c, {"running"}) /\ run[Current(c)] = "rejected" THEN BreakOnReject ELSE blocked

-----------------------------------------------------------------------------
(* The fiber of the session: handleEvent and process *)

\* tool-input-start.  An id that is still registered keeps its part.
HearStart(c) ==
    /\ fiber = "streaming" /\ heard[c] = "no" /\ MayAppear(c)
    /\ LET made == IF Registered(c) THEN toolcalls[c] ELSE attempt
       IN  /\ toolcalls' = [toolcalls EXCEPT ![c] = made]
           /\ part' = [part EXCEPT ![<<c, made>>] = "pending"]
    /\ heard' = [heard EXCEPT ![c] = "started"]
    /\ UNCHANGED <<fiber, attempt, run, left, failure, blocked, compact, aborted>>

\* tool-call.  When the last parts are the same call again and again, the
\* fiber itself asks for permission to go on (doom_loop).
HearCall(c) ==
    /\ fiber = "streaming" /\ heard[c] = "started"
    /\ part' = IF Registered(c) THEN [part EXCEPT ![PartOf(c)] = "running"] ELSE part
    /\ heard' = [heard EXCEPT ![c] = "called"]
    /\ fiber' \in {"streaming", "asking"}
    /\ UNCHANGED <<attempt, toolcalls, run, left, failure, blocked, compact, aborted>>

\* tool-result.
HearResult(c) ==
    /\ fiber = "streaming" /\ heard[c] = "called" /\ run[Current(c)] = "finished"
    /\ SettleAs(c, "completed")
    /\ heard' = [heard EXCEPT ![c] = "answered"]
    /\ UNCHANGED <<fiber, attempt, run, left, failure, blocked, compact, aborted>>

\* tool-error: the tool failed, or the SDK refused to run it.
HearError(c) ==
    /\ fiber = "streaming" /\ heard[c] = "called"
    /\ run[Current(c)] \in {"failed", "rejected", "idle"}
    /\ SettleAs(c, "error")
    /\ blocked' = BlockedBy(c)
    /\ heard' = [heard EXCEPT ![c] = "answered"]
    /\ UNCHANGED <<fiber, attempt, run, left, failure, compact, aborted>>

GoOn ==
    /\ fiber = "asking"
    /\ fiber' = "streaming"
    /\ UNCHANGED <<toolcalls, part, run, left, blocked, stream>>

\* The SDK ends the stream when every call it made has been answered.  The
\* usage it reports may exceed the context (finish-step).
StreamEnds ==
    /\ fiber = "streaming"
    /\ \A c \in Calls :
        /\ heard[c] # "called"
        /\ run[Current(c)] # "idle" => heard[c] = "answered"
    /\ fiber' = "settling"
    /\ compact' \in BOOLEAN
    /\ UNCHANGED <<attempt, heard, toolcalls, part, run, left, failure, blocked, aborted>>

\* halt, for an error of the stream that is not retried or a doom loop that
\* is not allowed to go on.
Halt ==
    /\ StreamIsOpen
    /\ fiber' = "settling"
    /\ \/ failure' = TRUE /\ UNCHANGED compact
       \/ fiber = "streaming" /\ compact' = TRUE /\ UNCHANGED failure
    /\ UNCHANGED <<attempt, heard, toolcalls, part, run, left, blocked, aborted>>

BackOff ==
    /\ fiber = "streaming" /\ attempt < MaxAttempts
    /\ fiber' = "waiting"
    /\ UNCHANGED <<toolcalls, part, run, left, blocked, stream>>

Retry ==
    /\ fiber = "waiting"
    /\ fiber' = "streaming"
    /\ attempt' = attempt + 1
    /\ heard' = [c \in Calls |-> "no"]
    /\ UNCHANGED <<toolcalls, part, run, left, failure, blocked, compact, aborted>>

\* The abort of the session.  onInterrupt covers the stream only, so an abort
\* between two attempts leaves no error on the message.
Abort ==
    /\ StreamIsOpen \/ fiber = "waiting"
    /\ fiber' = "settling"
    /\ aborted' = TRUE
    /\ failure' = (failure \/ StreamIsOpen)
    /\ UNCHANGED <<attempt, heard, toolcalls, part, run, left, blocked, compact>>

-----------------------------------------------------------------------------
(* cleanup, whatever way process ended *)

\* Mutant: cleanup waits until the tools have settled their calls.
SettleAll ==
    /\ fiber = "settling" /\ \A c \in Calls : ~Registered(c)
    /\ fiber' = "closing"
    /\ left' = {}
    /\ UNCHANGED <<toolcalls, part, run, blocked, stream>>

\* The tools have 250 milliseconds to settle their calls; the wait may end
\* before any of them has.
SettleRunning ==
    /\ fiber = "settling"
    /\ fiber' = "closing"
    /\ left' = {c \in Calls : Registered(c)}
    /\ UNCHANGED <<toolcalls, part, run, blocked, stream>>

\* Mutant: a call whose input was still coming is left as it is.
CloseRunning(c) ==
    /\ fiber = "closing" /\ c \in left
    /\ part' = IF Reads(c, {"running"}) THEN [part EXCEPT ![PartOf(c)] = "error"] ELSE part
    /\ left' = left \ {c}
    /\ UNCHANGED <<fiber, toolcalls, run, blocked, stream>>

\* Entries that are gone by now are passed over.
CloseCall(c) ==
    /\ fiber = "closing" /\ c \in left
    /\ part' = IF Registered(c) THEN [part EXCEPT ![PartOf(c)] = "error"] ELSE part
    /\ left' = left \ {c}
    /\ UNCHANGED <<fiber, toolcalls, run, blocked, stream>>

EndCleanup ==
    /\ fiber = "closing" /\ left = {}
    /\ fiber' = "done"
    /\ toolcalls' = [c \in Calls |-> 0]
    /\ UNCHANGED <<part, run, left, blocked, stream>>

\* What process returns to the loop of the session.
Outcome ==
    IF compact THEN "compact" ELSE IF blocked \/ failure THEN "stop" ELSE "continue"

-----------------------------------------------------------------------------
(* The tools *)

\* Leaving the scope of the stream aborts the signal of its attempt.
SignalAborted(r) == ~(StreamIsOpen /\ r[2] = attempt)

\* The SDK starts a tool as the call passes through it, perhaps before the
\* fiber has taken the events of that call.  Before it acts the tool asks; a
\* request that the rules allow is answered at once.
Execute(c) ==
    /\ StreamIsOpen /\ heard[c] # "answered" /\ run[Current(c)] = "idle" /\ MayAppear(c)
    /\ run' = [run EXCEPT ![Current(c)] = "asking"]
    /\ UNCHANGED <<fiber, toolcalls, part, left, blocked, stream>>

\* ctx.metadata goes by the id of the call alone.
Metadata(r) ==
    /\ run[r] \in {"asking", "acting"}
    /\ Reads(r[1], {"pending"})
    /\ part' = [part EXCEPT ![PartOf(r[1])] = "running"]
    /\ UNCHANGED <<fiber, toolcalls, run, left, blocked, stream>>

\* The answer comes from Permission, at any time or never.  What the tool does
\* then - it writes a file, it runs a command - is to act.
Answered(r) ==
    /\ run[r] = "asking"
    /\ \E answer \in {"acting", "rejected"} : run' = [run EXCEPT ![r] = answer]
    /\ UNCHANGED <<fiber, toolcalls, part, left, blocked, stream>>

\* A tool whose signal was aborted settles its call itself.
Finish(r) ==
    /\ run[r] = "acting"
    /\ run' = [run EXCEPT ![r] = "finished"]
    /\ IF SignalAborted(r) THEN SettleAs(r[1], "completed") ELSE UNCHANGED <<part, toolcalls>>
    /\ UNCHANGED <<fiber, left, blocked, stream>>

Fail(r) ==
    /\ run[r] \in {"asking", "acting"}
    /\ run' = [run EXCEPT ![r] = "failed"]
    /\ UNCHANGED <<fiber, toolcalls, part, left, blocked, stream>>

-----------------------------------------------------------------------------

EventStep ==
    \/ \E c \in Calls : HearStart(c) \/ HearCall(c) \/ HearResult(c) \/ HearError(c)
    \/ GoOn \/ StreamEnds \/ Halt \/ BackOff \/ Retry \/ Abort
CleanupStep == SettleRunning \/ (\E c \in Calls : CloseCall(c)) \/ EndCleanup
ToolStep ==
    \/ \E c \in Calls : Execute(c)
    \/ \E r \in Keys : Metadata(r) \/ Answered(r) \/ Finish(r) \/ Fail(r)

ToolsNext == EventStep \/ CleanupStep \/ ToolStep

ToolsSpec == ToolsInit /\ [][ToolsNext]_toolVars

\* The finalizer of process cannot be interrupted and waits on nothing but its
\* timer; nobody has to answer a request, and no tool has to end.
FairTools == ToolsSpec /\ WF_toolVars(CleanupStep)

-----------------------------------------------------------------------------
(* Properties *)

ToolTypeOK ==
    /\ fiber \in {"streaming", "asking", "waiting", "settling", "closing", "done"}
    /\ attempt \in Attempts
    /\ heard \in [Calls -> Heard]
    /\ toolcalls \in [Calls -> 0..MaxAttempts]
    /\ part \in [Keys -> {"none"} \cup Open \cup Closed]
    /\ run \in [Keys -> RunStates]
    /\ left \subseteq Calls
    /\ failure \in BOOLEAN /\ blocked \in BOOLEAN
    /\ compact \in BOOLEAN /\ aborted \in BOOLEAN

\* Once the message is complete, no call in it is shown as under way, however
\* many tools still run, or will end later: nothing closes a part that stays open,
\* so clients would show it as running for as long as the session lives, and the
\* model would be told that it was interrupted, whatever came of it.
NothingLeftOpen == fiber = "done" => \A p \in Keys : part[p] \notin Open

\* A part is settled once.  A tool that ends late, an event of another attempt
\* with the same id and cleanup never overwrite what the client was told.
VerdictsStand == [][\A p \in Keys : part[p] \in Closed => part'[p] = part[p]]_toolVars

UsedOnce(c) == \A j, k \in Attempts : UsedIn(c, j) /\ UsedIn(c, k) => j = k

\* Unless the configuration says to go on, process does not return "continue"
\* after the client rejected a call of the attempt that streamed to its end,
\* whatever other calls, their failures and the tools of earlier attempts did.
\* The provider has to use an id once.
RejectionsStop ==
    /\ fiber = "done" /\ ~aborted
    /\ BreakOnReject
    /\ \A c \in Calls : UsedOnce(c)
    /\ \E c \in Calls : run[Current(c)] = "rejected" /\ heard[c] = "answered"
    => Outcome # "continue"

\* The abort of the session does not wait on its tools, which may be waiting
\* for an answer that nobody gives.
AbortsEnd == aborted ~> fiber = "done"

\* "Abort an active session and stop any ongoing AI processing or command
\* execution.": after the abort has returned, no tool begins to act.
AbortedToolsStay ==
    [][aborted /\ fiber = "done" => \A r \in Keys : run'[r] = "acting" => run[r] = "acting"]_toolVars
=============================================================================
