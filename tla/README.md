# HDP in TLA+

HDP is a coding agent: a server that keeps sessions with a language model, runs
the model's tool calls in a project directory, and streams what happens to
clients (a terminal UI, editors, other devices). This directory holds TLA+
models of the parts of it whose correctness depends on the order in which
things happen, the TLC configurations that check them on small instances, and
TLAPS proofs of what can be shown for instances of any size. Paths below are
relative to the repository's root.

## 1. Inventory

| Component | State it keeps | Operations | Talks to |
|---|---|---|---|
| Session runner (`src/src/effect/runner.ts`) | a cell Idle / Running / Shell / ShellThenRun, a fiber and a Deferred per run | ensureRunning, startShell, cancel, the finish of a run or a shell | run state (hooks), fibers of the Effect runtime |
| Session run state and status (`src/src/session/run-state.ts`, `status.ts`) | map from session to runner; map from session to status | ensureRunning, startShell, cancel, assertNotBusy; set, get | runner, bus |
| Permission (`src/src/permission`) | pending requests with a Deferred each, approved rules | ask, reply (once, always, reject), list, disposal | tools, clients over the bus |
| Question (`src/src/question`) | pending questions with a Deferred each | ask, reply, reject, list, disposal | tools, clients over the bus |
| Sync events (`src/src/sync`) | the event log and the last sequence number of each aggregate, in SQLite; projectors and versions | define, init, run, replay, remove, subscribeAll | database, projectors, bus, workspace sync |
| Database transactions (`src/src/storage/db.ts`) | the current transaction and its effects | use, transaction, effect | sync events, session store |
| Workspace sync (`src/src/control-plane`) | one event loop per workspace, connection status | connect, replay a stream, reconnect, stop | sync events of another server |
| Session store (`src/src/session/index.ts`, `projectors.ts`, `message-v2.ts`) | sessions, messages and parts | create, fork, remove, update, patch | sync events |
| Prompt loop (`src/src/session/prompt.ts`) | the history it reads at each step | prompt, loop, shell, command, subtask | runner, processor, compaction |
| Processor (`src/src/session/processor.ts`) | open tool calls with a Deferred each, flags for compaction and blocking | one handler per stream event, cleanup, halt | model stream, session store, permission |
| Compaction, summary, revert, todo, retry (`src/src/session`) | markers in the history | create, process, prune, revert, unrevert, cleanup | session store, snapshot |
| File locks (`src/src/util/flock.ts`) | lock, breaker, heartbeat and token files | acquire, break a stale lock, heartbeat, release | other processes on the same file system |
| In-process locks and queues (`src/src/util/lock.ts`, `queue.ts`) | readers, writers, waiters; items and waiting consumers | read, write, release; push, next | callers in the same process |
| File times (`src/src/file/time.ts`) | in the instance of each directory: when each session last read a file, one semaphore per file | read, assert, withLock | edit and write tools |
| Identifiers (`src/src/id/id.ts`, `src/src/tool/truncate.ts`) | the last time and a count; a directory of stored outputs | create, timestamp; store, cleanup | everything that names or orders something |
| Instances (`src/src/project/instance.ts`, `src/src/effect/instance-*.ts`) | a cache of contexts per directory, disposers | provide, reload, dispose, disposeAll | every service with per-directory state |
| Bus and event streams (`src/src/bus`, `src/src/server/instance/event.ts`, `global.ts`) | subscriptions, one queue per client | publish, subscribe, stop | clients |
| Snapshots and worktrees (`src/src/snapshot`, `src/src/worktree`) | a shadow git repository, sandbox directories | track, patch, restore, revert, create, remove, reset | git |
| Patch and edit tools (`src/src/patch`, `src/src/tool`) | files of the project | parse and apply a patch, replace text, write, read, run | file times, permission, LSP |
| Terminals (`src/src/pty`) | a child process, a bounded buffer, subscribers with cursors | create, write, connect, resize, remove | clients over web sockets |
| MCP, LSP, providers, plugins, auth, account, config, skills, commands, formatters | connections, caches and credentials | connect, call, refresh | external programs and services |
| Terminal UI and command line (`src/src/cli`) | what is on the screen | rendering, key handling | the server |

### What is hard here

* *Effects interleave.* The server runs on one JavaScript thread, but every
  effect runs in a fiber: between two effects of a fiber, others may run.
  State is read, an await happens, and the state is used.
* *Cancellation.* An interrupt reaches a fiber at an await; its finalizers
  run, for as long as they like, while the rest of the program goes on.
* *Deferreds.* Prompts, permission requests, questions and tool calls all wait
  for somebody else to complete a Deferred. Each one needs exactly one owner
  who will complete it on every path, disposal and cancellation included.
* *Processes.* File locks are shared by processes that crash and stall; event
  logs are replicated over connections that break.

### What makes each component correct

* *Runner, run state.* One work per session that nobody asked to stop; every
  caller of a run gets the exit of that run; a cancel comes back, and only
  after what it stops is dead; the map forgets a runner only when it is idle.
* *Permission.* Nothing runs that was neither allowed nor granted; an answer
  reaches every request it speaks for, once; nobody waits for a state that is gone.
* *Sync events, database, session store.* The log of a session has all that was
  run since it was erased last, numbered without holes; the tables are what the log
  says; what was removed is not shown again; a copy is a prefix until numbers start over.
* *Workspace sync.* A remote workspace has at most one live loop, which comes back
  after every break; what is published about it is true.
* *Processor and tools.* No call stays open in a complete message, a settled
  call stays settled, an abort waits on nobody, and nothing acts after it.
* *Prompt loop.* Every prompt that is in the history when the loop looks is
  given to the model before its caller is answered; compaction loses none; no
  step is made for nothing.
* *File times and writing tools.* No tool overwrites what came after its session's
  stamp, but for what came after its own look; edits of a file under one instance
  exclude one another; a waiting edit gets its file.
* *File locks.* One holder among live processes; a crashed holder's lock is
  broken by one process at a time; whoever wants the lock gets it.
* *Question.* A question that waits can be answered by a client, or is about to
  be rejected with its state.
* *Identifiers.* Ids rise in a process, and decode to the time they encode; a
  stored output stays for as long as outputs are retained.
* *Instances, bus, streams.* One context per directory; what a service keeps for
  a directory belongs to the context in the cache; disposing of all leaves
  nothing; a slow client loses nothing.
* *Revert, snapshots.* A revert and its undoing restore the files and the
  history together.

## 2. Modules

| Module | Models | Extends / uses |
|---|---|---|
| `SingleFlight` | what a runner promises its callers, abstractly | - |
| `Runner` | `effect/runner.ts` | refines `SingleFlight` |
| `RunState` | `session/run-state.ts`, `session/status.ts` | extends `Runner` |
| `PromptLoop` | `session/prompt.ts` (prompt, command, loop), `compaction.ts`, `revert.ts`, the window of `message-v2.ts` | takes the runner as `SingleFlight` has it |
| `ToolCalls` | tool calls in `session/processor.ts`, `llm.ts`, and `resolveTools` of `prompt.ts` | - |
| `Permission` | `permission/index.ts`, `evaluate.ts` and the disposal of its state | - |
| `Instances` | `project/instance.ts`, `effect/instance-state.ts`, `question/index.ts` | - |
| `FileTools` | `file/time.ts` and the tools `read`, `edit`, `write`, `apply_patch` | - |
| `Flock` | `util/flock.ts` | - |
| `LogCopies` | what replication promises, abstractly: copies are growing prefixes, until numbers start over | - |
| `Identifier` | `id/id.ts`, the cleanup of `tool/truncate.ts` | - |
| `SyncEvent` | `sync/index.ts`, `storage/db.ts`, the projectors of sessions | refines `LogCopies` |
| `WorkspaceSync` | `control-plane/workspace.ts`, `sse.ts`, the stream of `server/instance/global.ts` | extends `SyncEvent` |
| `...Proofs` (of `Runner`, `RunState`, `SyncEvent`, `WorkspaceSync`, `Permission`, `ToolCalls`) | the theorems and their proofs | extend the module they speak of |
| `FilesProofs`, `ServerProofs` | the same of `FileTools`, `Flock` and `Identifier`, and of `PromptLoop` and `Instances` | extend these |
| `MC...` | small instances for TLC | extend the modules they instantiate |

`MCSession` (RunState, Identifier, FileTools), `MCRequests` (Permission, ToolCalls),
`MCServer` (PromptLoop, Instances, SyncEvent) and `MCLocks` (Flock, Runner, and FileTools once
more, for its locks) check modules that share no variable: a
variable, `moves` or `part`, is chosen in the initial state and says which of
them takes steps in a behaviour, so the states of the parts add up instead of
multiplying. The others stay in their initial states, in which none of the
properties of such a run can fail.

In each module a comment marked `Mutant` precedes an operator that is a wrong
version of the next one. Nothing uses it; substituting it for the right one makes
TLC refute the property it is paired with in `PROJECT.json`.

### Runner and RunState

One action is one effect of `runner.ts`: `SynchronizedRef.modify` is atomic, and
the effect it returns runs later, in the same fiber. `st` is the cell, `fiber`,
`exit` and `kill` the fiber of each work, `done` the Deferred of each run; a run
is named by the prompt that made it, so the `id` of the code needs no counter.
`EnsureRunning`, `StartShell` and `Cancel` are the calls; `FinishRun`,
`Complete` and `FinishShell` what the fibers do at their end; `Drop`, `Kill`
and `Reap` the rest of a cancel. `RunState` adds the map (`current`), the runner
that each caller looked up (`held`), and the status. Its `Preemptive` says
whether the runtime yields between any two effects (TRUE) or at awaits only
(FALSE, as the runs have it).

### PromptLoop

`hist` is what is stored, a set of messages with the fields the loop looks at;
times are ticks of one clock. Ids are ordered by the
tick they are made at; those of the server are even and those of a client odd, since
ids of two processes differ in their random part, and `Skew` is how far
a client's clock is ahead. A prompt takes its id and time (`Draw`,
where the client does so as the TUI does, and `Enter`) and is stored later
(`Store`), since its parts are resolved in between; then it starts the loop or
joins it. The loop reads the `Window` that `filterCompacted` leaves (`Turn`,
`Exit`, `Die`), and takes the id of its answer only in a later step (`Begin`,
`Compress`): loading the model and the agent is awaited in between. What a
stream comes to is open (`StepDone`, `StepCalls`, `StepOverflows`, `StepBreaks`),
so are those of a compaction (`CompactDone`, `CompactFails`) and of a subtask. A
revert chooses its message, restores files, and sets its mark (`ChooseRevert`,
`SetRevert`); the messages go with the next prompt (`Clean`). `Cancel` closes the
message being written, `Crash` leaves the history as it is.

### ToolCalls

`fiber` is the fiber of the session (streaming, asking because of a doom loop,
waiting for a retry, settling and closing in cleanup, done); `toolcalls` the
registry, with the attempt that made the part; `part` the status of each part;
`run` the tools, each in a fiber of its own that no abort interrupts. `Hear...`
are the cases of handleEvent; `SettleAs` is completeToolCall and failToolCall.
An id of a call may come again in another attempt (`Reusable`).

### Permission

`gen` numbers the states of an instance: disposing of it moves the callers to the
next, and its finalizer (`FailOne`, `Clear`) works on the old one. A call goes
through `Judge`, `Enter`, and `Resume` or `Interrupt`; an answer through `Take`,
`AnswerOne`, `Approve`, the walk `Meet` and `AnswerMet`, and `EndReply`. Rules are
functions from a thing asked for to an action, since the last rule that matches
decides.

### Instances

An instance is a number of a boot; `cache` has at most one per directory.
`Provide` and `Admit` are a request that finds or makes it, `BootEnds` and
`BootFails` the end of its boot. Services keep a state per directory (`live`),
made by whoever looks for it when there is none (`LookUp`, in `BootEnds`, `Serve`
and `Ask`). dispose and reload close the states (`Invalidate`), wait for the
finalizers (`Finalize` rejects the questions of a state), and drop the entry of
the cache (`EndDispose`, `EndReload`); `DisposeAll` and the `Walk...` actions are
the loop of disposeAll over a copy of the cache, which later calls join.

### FileTools

What a file holds is the set of changes in it; a call adds itself to what it has
read (edit, update) or replaces all of it (write, add). `reads` has the stamps of
`FileTime.read`, `lock` the semaphores of `withLock`. Both are in the state of an
instance: `lock` has a table for each of the `Homes`, a directory and how many of its instances
came before, and `Dispose` takes the stamps of a directory's sessions away and gives
it a new table, while calls go on with the lock that they looked up when they
began (`home`, `Begin`). A session that is used in two directories is two sessions
here. A call goes through `Lock` (edit only), `Check` (the assertion of the stamp, if `Checking`:
the flag `HDP_DISABLE_FILETIME_CHECK` is not set), `Read`, the wait for a client
(`Answer`), `Apply` and `Stamp`; a patch repeats this over its hunks, looking at all
of them first and applying them one by one, and may fail on the way (`ApplyFails`).
The tool `read` gets any part of the file (`Parts`), and its stamp is that of all of
it as it is then. `Meddle` is a change from outside. `seen`, `noted` and `news` are history:
what a session was shown of a file, what the file held when the session's stamp was
taken, and what has come since a call looked.

### Flock

`dir` and `breaker` are the two directories, `stage` where each process is in
acquire, break and release, each call of the file system a step. Time is one
bit per directory: it is older than staleMs or not. `Touch` is the heartbeat;
`AgeLock` and `AgeBreaker` let time pass, which counts as a delay
(`MaxDelays`) when a living process is at work with what gets old. `Crash` leaves both as they are.

### Identifier

`Give` is generateID with create: the time and the `Number` of the id among those of
its time, of which `Encode` keeps the low bits, inverted for a session. `Remember`
is what an id leaves behind for the next, the cutoff that `CleanupBegins` asks for
included. The cleanup awaits its listing and each removal, and goes on when
one fails. `Tick` and `SetBack` are the clock. `given`, `backs` and `cleanups` are history.

### SyncEvent and WorkspaceSync

One action is one transaction, or one read outside a transaction; processes
interleave between them and crash between them. `latest`, `log` and `row` are the
tables of each database; `written` is a history variable. Nothing that writes to a
session looks whether it is there: `Write` needs somebody who knows its id, and
only the projectors look at its row. `RemoveGet` is the reading
that a removal begins with, `removals` those that have got so far, of which each then deletes
the session (`RemoveRun`) and erases the log (`RemoveLog`). After a removal, what is
run late or by a second removal finds no number and begins again with 0
(`Renumbered`). Replay gets any event
that was ever run, at any time, any number of times, so every loss, duplication
and reordering of the transport is in the model.

`WorkspaceSync` delivers events only through streams, which have what their writer
runs while they are open. A message has one of two forms: "payload", as
the server of this repository sends it, or "bare", as the loop reads it; `Forms` says
which of them come, `Emit` sends them and `Deliver` replays the bare ones only. The `kind` of a
workspace says what startSync does: a worktree has no loop, and what is published
is the outcome of a look at its directory (`CheckEnds`). create, list, get and remove
overlap as calls of one process do (`creating`, `removing`, `checking` count them), and create
may end with the adaptor's error, its row staying. Loops sleep, fetch, read, break,
and are aborted as in the code; an abort may come between the answer to a fetch and
what the loop does with it (`Connect`), and what a reader has is handled after it (`Deliver`).

## 3. Runs

| Run | What it asks | Bounds |
|---|---|---|
| `session` | Are the cell, fibers and Deferreds consistent, is every waiter kept, is it single flight; is a quiet session idle, is there one work at a time until somebody cancels, does assertNotBusy tell the truth? Do ids rise? Is what came into a file after a stamp or a look kept, do edits under one instance exclude one another? | 3 runners, 2 prompts, 2 shells, 2 cancels, 1 check; 3 ids, 3 ticks of which the second starts the bits over, 1 setting back, 1 cleanup; 2 tool calls, 2 sessions of one directory, 1 disposal, 2 files, 2 patches, 1 change from outside |
| `session_abort` (violated) | Does an abort stop the run in progress? | 3 runners, 4 prompts, 3 cancels |
| `loop` | Does compaction forget no prompt, does the loop answer when it has read, has each step something to say? Can questions be answered, do states follow their instance, is disposeAll thorough? Does the log have all that was run, are tables what the logs say, does what was removed stay away, are copies prefixes until numbers start over? | loop: 2 prompts (one a command), 1 summarize, 1 revert, 2 steps that go on, 1 cancel or crash, with `Few`; instances: 2 directories, 2 requests, 1 dispose or reload, 2 disposeAll, 1 question, 3 boots, 2 states, with `FewInstances`; events: 1 session, 2 devices with 2 processes each, 4 events |
| `loop_unread` (violated) | Is every prompt read before it is answered? | 2 prompts, nothing else |
| `requests` | Is nothing let through unasked, nobody left behind, told wrongly, left waiting? Is no call left open, do verdicts stand, do rejections stop the loop, do aborts end? | 3 requests of 2 sessions, 2 answers, 1 disposal; 2 calls, 2 attempts, one id that comes again |
| `permission_restart` (violated) | Does "always" last until the restart? | as in `requests` |
| `toolcalls_abort` (violated) | Does nothing begin to act after an abort? | as in `requests` |
| `locks` | Has the lock between processes one owner, and does it come? Does a cancel return, and every call? Does a file come free? | 3 processes, 2 crashes, 1 delay; 1 runner, 2 prompts, 1 shell, 2 cancels; 2 tool calls of 1 session, 1 file, 1 disposal |
| `ids_wrap` (violated) | Does an output stay as long as outputs are retained? | 2 ids, 6 ticks, 4 to a start of the bits, 1 cleanup |
| `flock_breaker` (violated) | Does one process at a time clean up? | 4 processes, 2 crashes, no delay |
| `workspace` | Is there one live loop, does it end and come back, is what it publishes true, is what it understands replayed? | 2 loops, both kinds and both forms, 2 calls of create or remove at a time, 2 events of three types (`OneKind`), 1 break |
| `workspace_gap` (violated) | Does a follower get the sessions of the device it follows? | 1 loop, 2 events, bare, no break |

Why these bounds are enough to be interesting. A hand-over from a cancelled run
to a new one needs two prompts and a cancel, a shell that takes the place of a
shell two shells; a late idleIfCurrent that hurts a third run needs the four
prompts of `session_abort`. A prompt that the loop may overlook needs another
that is being answered; a compaction that might cut it off the summarize request
or an overflow; a replay of the overflowed message a second step. All pairs and
triples of callers of the loop happen, all three of them with neither stop nor
step that goes on: `Few` is a constraint of the configuration, so
a step into a state beyond it is still checked. A disposal races with a reload, a
second disposeAll, a new boot and a failed boot; `FewInstances` allows five of them
in a behaviour. A lost update needs two calls of one file, of one session or of
two; a patch that fails on the way two files; locks that do not know of each other a
disposal, which is like a second directory in this. A stale lock is broken under the
eyes of a third process; the breaker of a breaker takes a second crash. A race for
a number takes two processes on one database; four events are a creation, a removal,
and two that come late to the erased log, of which a follower that has the creation alone takes
the second for its next. Two loops overlap when a workspace is removed and created again, or
removed twice. `OneKind` leaves one of three types of changes to the writer, who
is under no fairness, so what is checked of the loops is checked of all their behaviours. Answers race with two of them on one request, reach
peers with a second request of the same session and must not reach the third,
which is of another. A late tool meets a reused id with two attempts; the second
call has an id of its own, so that both happen at once.

`CHECK_DEADLOCK FALSE` stands in every configuration: callers make one call each
and events, retries and breaks are bounded, so all behaviours come to rest.

### Findings

* `session_abort`: a cancel's onIdle hook (`run-state.ts:58`) deletes whichever
  runner the map has. If it comes late, it forgets a newer, busy runner, and the
  next abort returns without stopping it.
* `loop_unread`: a prompt that is stored after the loop has read the history and
  before its answer takes its id is, by the ids, older than that answer: the
  loop stops, and the caller of the prompt gets the answer to another one
  (`prompt.ts:1361-1365`).
* `workspace_gap`: a stream has only what is run while it is open, and replay
  takes only the next number of a session, so a session whose first event was
  missed never arrives (`workspace.ts:170-187`, `sync/index.ts:187`).
* `permission_restart`: what was allowed "until HDP is restarted" is lost when
  the instance is disposed of, which a change of the configuration does.
* `toolcalls_abort`: a tool that waits in `ctx.ask` is not interrupted by an
  abort; answering its request later makes it act.
* `ids_wrap`: of the time in an id 36 bits are kept (`id.ts:66-73`), which start over
  every 795 days, next on 2026-08-14 at 11:19 UTC. For the seven days after, the
  cleanup finds every new output older than its cutoff, and removes it
  (`truncate.ts:51-58`). The prompt loop compares ids, too: a prompt made
  after the start is below the answers made before it, and taken for answered
  (`prompt.ts:1365`), and a revert leaves what is newer (`revert.ts:114`).
* `flock_breaker`: two contenders find the breaker of a crashed process stale;
  the second to remove it removes the new breaker of the first
  (`flock.ts:158`), and then two clean the lock up at once.

More that the repository says and the models do not keep. Each is stated as a property
at the end of its module, and TLC refutes it with the constants of the runs above; they have no run
of their own, since what holds in their place is checked.

* `TotalOrder` ("we implement total ordering with a simple sequence id", `sync/README.md:33`): the
  last number goes with the log (`sync/index.ts:231-236`), so a part that is written late,
  or a second removal, is number 0 again (`sync/index.ts:215-220`). What holds is
  `LogIsWhole`, and what it makes of the copies `IsLogCopies`.
* `ErasedStaysErased` ("permanently remove all associated data", `server/instance/session.ts:222`): the route that
  deletes a session stops nobody (`server/instance/session.ts:242-245`); what its fiber still
  writes is projected nowhere (`projectors.ts:98-101`) and recorded in the log that was erased,
  where it stays, since a removal begins with reading the session. What holds is `GoneStaysGone`.
* `WrappedIsReplayed` ("allow multiple other devices to sync", `sync/README.md:31`): the server wraps an event in
  `payload` and serves `/global/sync-event` (`global.ts:168-183`); the loop fetches `/sync/event`,
  which nothing in the repository serves, and reads `type` off the message
  (`workspace.ts:170-187`), so that between two devices of this repository nothing is replayed. What
  holds is `NextIsReplayed`, of messages in the other form.
* `EditsHaveRead` ("This tool will error if you attempt an edit without reading the file", `tool/edit.txt:4`): an edit
  with an empty old string overwrites a file without a check (`edit.ts:76-98`).
* `NothingUnseenIsLost` ("you MUST use the Read tool first to read the file's contents", `tool/write.txt:5`): a read shows a part
  of a file and stamps all of it (`read.ts:175-199`), so a write may replace what was never shown.
* `NothingLateIsLost` ("Please read the file again before modifying it", `file/time.ts:101`): between the check
  of a write or an edit and its writing a client may be asked (`write.ts:44-57`,
  `edit.ts:103-130`), and what comes in between is lost. What holds of both is `NewsIsKept`.

Behaviour the models have that nothing in the repository speaks about:

* Runner and processor: assertNotBusy passes while a cancelled run is still in
  its finalizers. A rejection in a step that also overflows the context does not
  stop the loop: needsCompaction is looked at first (`processor.ts:578`). A tool
  that finished just before an abort may be shown as aborted. An abort between
  two attempts of the stream leaves no error on the message. A call of a retried
  attempt may be shown with the output of the tool that had its id before.
* Permission: an "always" answer overrides rules that deny, since approved rules
  come last. An interrupted request disappears without an event, so clients
  still show it. A call that enters a state after its finalizer waits for ever;
  only a yield of the runtime between look-up and entry makes that possible.
* Prompt loop: a summarize request stored in the window of `loop_unread` is
  skipped in the same way. A compaction that fails with finish "error" counts as
  an answer. With `Skew = 1`, a client whose clock is ahead of the server's, TLC
  refutes `StepsHaveWork`: the answer stays below its prompt, and the loop makes
  another. With reverts besides, the id of a prompt taken back can lie between messages
  whose times are the other way round; the proof of `ExitHasRead` leaves that case
  out (`ClocksAgree`). A prompt that starts while a revert restores files runs in a history
  of which the next prompt takes messages away: the loop can find no user message
  and die (`prompt.ts:1349`), and a summary can be put back after the revert
  removed its request.
* Instances: a second dispose finds no state left, and returns while the
  finalizers of the first still run. dispose deletes the entry of its directory
  without looking whose it is (`instance.ts:147`), also that of an instance made
  since. A disposeAll that joins a running one (`instance.ts:162`) misses the
  instances made since the copy was taken. A state that is made during a disposal
  outlives its instance, and so do the states of a boot that fails.
* Files: edits that began under two instances, of two directories or before and after
  a disposal, do not wait for each other; with that condition dropped from `EditsKeepEdits` TLC
  refutes it. A patch that fails on the way leaves what
  it did. A patch that names a file twice computes both changes from the
  file as it was, so the later undoes the earlier; `FilesAssumption` leaves
  such patches out.
* File locks: a process that is held up longer than staleMs can share the lock
  with another, and a failure to write the heartbeat removes the directory of
  whoever has it then. `OneOwner` therefore speaks of behaviours without delays
  and without a swept breaker.
* Identifiers: ids are in no order within a millisecond in which a cleanup has
  begun, since its cutoff starts the count over; nor when the clock was set back.
  `IdsRise` names these cases, and TLC refutes it without any one of them.
* Sync: with `Recording = FALSE` (the flag `HDP_EXPERIMENTAL_WORKSPACES` unset) no log
  is kept, and every event has the number 0. After the numbers of a session have started
  over, a follower takes a late event whose number is its next for the next, and
  is at the number of the writer with another history; `IsLogCopies` promises
  then only that it takes no event twice.
* Workspaces: an adaptor that throws ends its loop for good, since its AbortController
  stays. The look at a worktree's directory may publish its outcome after the workspace was
  removed. A loop that was aborted may publish "disconnected" over a
  newer one's "connected".

### Fairness

* `Scheduling` in Runner: the runtime runs every fiber that can go on. Works are
  not assumed to end: `CancelReturns` holds although a work would run for ever,
  because an interrupt ends it; `EveryCallReturns` says that calls return if the
  works do.
* `FairSpec` in PromptLoop (used by `loop_unread` only): the loop goes on, parts
  are resolved and stored. Nobody has to prompt, revert or cancel.
* `Fairness` in Permission: every fiber that can go on does, and so do the
  steps of an answer and of a finalizer. Nobody has to ask, answer or dispose.
* `WF(CleanupStep)` in ToolCalls: only cleanup is fair, which has its timer and
  cannot be interrupted. No tool, client or provider has to do anything.
* `FilesFairness` in FileTools: a call that waits for nobody's answer goes on.
  Clients need not answer, so `FilesComeFree` allows the holder of a lock to wait for one.
* `FlockFairness` in Flock: processes go on unless they crash, what needs the
  lock ends, and time passes, so that what nobody touches gets old. Delays and
  crashes are bounded, since a process that is always held up gets no lock.
* `Fairness` in WorkspaceSync: sleeps end, fetches and reads of an aborted
  loop fail, what is in a stream is delivered and replayed. Nobody has to
  write, list, remove or break anything.

## 4. Proofs

All theorems hold for every value of the constants that the named assumptions
allow. Each module of proofs has an inductive invariant, one lemma per action, and
the theorems as its consequences.

* `RunnerProofs`: `Holding` ties the cell to the fibers it names, `Unused` says
  what a caller that has not called yet has left untouched, `Answered`, `Joined`
  and `Reaped` tie each Deferred to who will complete it, `Aiming` and `Dropping`
  what a cancel holds on to. Consequences: the invariants of `session` that speak
  of one runner, one work per runner, that a queued run follows its shell, that
  dropped runs never start, and the refinement of `SingleFlight`.
* `RunStateProofs`: the steps of the map are steps of `Runner` or leave it alone, so
  `Spec => RunnerSpec`, and the theorems carry over to sessions. What `session` checks
  of a session itself needs `~Preemptive`, and `SessInv`: `OneBursts` says that one fiber at
  a time is between two awaits, so that the runner a caller has looked up is
  still the map's when it is used (`Unhurt`, `StillBusy`), and that the end of a work and
  its hook are one; `Accounted` and `Told` find a cancel for every fiber that its
  runner has let go of, which will say idle (`RestIsIdle`); `OneStops` makes that
  cancel the only one. Consequences: `QuietMeansIdle`, `OneWorkPerSession`, `FreeMeansNobodyWorks`.
* `SyncEventProofs`: `IInv == EventTypeOK /\ DbInv /\ Replaying /\ Removing`. `DbInv` has the
  invariants of the events in `loop` and describes the logs between transactions: a follower's is a prefix
  of what was written as long as numbers have not started over (`FollowerLog`). `Lasts`
  says that the last event of a kind in a log exists, from which `ShownAppend` gets
  that one event more changes what a log shows as its projector changes the tables.
  `Replaying` and `Removing` say what a process may rely on between its read and its
  write. The theorems assume `Recording` and nothing else: late writes, removals
  that overlap and crashes between two transactions are in them. Consequences: `LogIsWhole`,
  `TablesFollowLog`, `GoneStaysGone`, the refinement of `LogCopies`, and `CopiesAgree`: two databases
  at one number of a session show the same, unless its numbers have started over.
* `PermissionProofs`: `PendingWaits`, `EarlyIsOpen` and `PeersAreOld` say whose Deferred
  is still open; `EndsAreEarned`, `GrantsAreJust` and `RulesAreIn` where a grant
  comes from; `EventsAreTaken`, `OneEventEach`, `EventsAreKept` and `RepliesPublish`
  match events to answers; `MetIsSettled` follows the walk over the Map, which
  `NoPeerLeftBehind` needs. Consequences: all safety properties of Permission in
  `requests`.
* `ToolCallsProofs`: the open parts are exactly what is registered
  (`OpenIsRegistered`, `RegisteredIsOpen`), but for calls cleanup has just closed;
  a new part was never written (`NewIsFresh`); a call whose id is of this attempt
  alone keeps its entry until it is answered (`OwnEntry`). Consequences:
  all safety properties of ToolCalls in `requests`.
* `FilesProofs`, of the tools: `FilesInv`. `LocksHeld` says that a call in the guarded part of
  an edit has the lock of its file in the state it looked it up in, which is
  `EditsKeepEdits`. `StampsTell` says what a stamp that is still the file's time is
  worth: what the file holds was there when the stamp was taken (`noted`), though the session
  need not have been shown it. `CallsKnow` carries that from the check of a write to its change
  (`KnowsFile`), and what an edit or a hunk has read to its own (`ReadIsKept`), through the other hunks
  of a patch, changes by others, and a disposal in between (`DisposeInv`). Consequence: `NewsIsKept`, which assumes
  `Checking`.
* `FilesProofs`, of the lock: `FlockInv` says, of behaviours without delay and without a swept
  breaker, that whoever works on the lock directory made it and finds it
  young, and that whoever breaks a lock made the breaker that is there and finds
  the lock old until it clears it. Consequences: `OneOwner`, and that one
  process at a time cleans up until a breaker is removed as stale; `flock_breaker`
  shows that this condition is needed.
* `FilesProofs`, of the ids: `IdInv` orders what was given by time and count, and
  says that what the process remembers is not below any of it, so
  that the next is above. `IdsRise` follows for ids in the cases it names, and
  the one arithmetic step is that `Encode` keeps that order within a turn of the
  bits. `OutputsStayUntilWrap` is `OutputsStay` for behaviours of which each state
  satisfies `TimesFit`: the bits have not started over, a millisecond makes no more ids
  than its factor has room for, and the clock is not set back. `ids_wrap` shows that
  without the first of these it is false.
* `ServerProofs`, of the loop: `DifferInv` says that ids and times tell the messages
  apart, those that prompts have drawn and not yet stored included. Over
  it, `NothingForgotten` is not inductive: a compaction cuts the history where the
  loop has read it, so `CutsBelow` says that no summary ends the window later than
  that read begins, and `Remembered` that a prompt nobody heard was read, or is in the window
  above all requests that were; the replay of an overflowed prompt needs both.
  For `ExitHasRead`, `WaitingIsOpen` says that as long as a prompt waits to be heard
  some user message is above all complete answers, `ReadOrOnTop` that it was read or
  is such a message itself, `RevertsLeaveOpen` that a revert keeps this so, and
  `AnswersAreOld` that ids then agree with times, which is what the loop compares.
  `ExitHasRead` is proved under `ClocksAgree` (no client's clock is ahead, or nobody
  reverts), and `StepsHaveWork` for `Skew = 0`, without which it is false
  (see section 3); `StepsHaveNewWork` is what is left of it for any skew: a step is made for
  a message that came after the last complete answer, or before it by less than the skew.
* `ServerProofs`, of the instances: `InstancesInv`. `Numbered` says that new
  instances and states get fresh numbers, `InstancesKnown` that whoever names an
  instance names one that was made, and the cache one of the right directory that
  has not failed; `StatesKnown` that a service finds the one open state of a directory, and
  `QuestionsKept` that a state has the questions that wait in it. `ClosingIsOverdue`
  says which states outlive their instance, and `WalkIsThorough`
  what the loop of disposeAll has left to do. Consequences: `QuestionsAreReachable`,
  `StatesFollowInstance`, `DisposeAllIsThorough`.
* `WorkspaceSyncProofs`: `LoopInv`. `Controlled` says that the AbortController of a process is that
  of a loop it started and has not aborted, `Owning` that a loop that was started has a process,
  `LooksAtTrees` that only worktrees are looked at, which keeps the outcome of
  a look out of a remote workspace's status; with `LoopIsKnown` and
  `ConnectedIsTrue` themselves that is inductive, without an assumption. `FollowingIsSync` shows that every step is one
  of SyncEvent, or leaves it alone, so its theorems hold of workspaces; it needs that a stream has
  nothing that was not run (`StreamInv`), and assumes `Recording` as those theorems do.

Every safety property of a passing run is stated by a theorem. Model-checked only:
liveness (`CancelReturns`, `EveryCallReturns`, `AskReturns`, `AbortsEnd`, `AbortedLoopEnds`,
`LoopReconnects`, `NextIsReplayed`, `FilesComeFree`, `LockComes`), since fairness and
ENABLED are out of the prover's reach, and the seven violations.

## 5. What is not modelled

In the components above: the finalizer of RunState when its instance is
disposed of; more than one session in RunState (they share nothing); more than
one call per caller; in the loop, shell messages, titles, reminders, the
resolving of parts, the child session of a subtask, reverts to a part of a
message, ids that start over (`Identifier` has them), pruning, snapshots and todo lists; what services do in a boot besides
keeping a state; that the terminal UI goes on showing questions and
requests of a state that was disposed of; formatters that run after a change of
a file, and two changes of a file within a tick of its clock; the stamps of files that
a prompt attaches (`prompt.ts:1199`), and that images and PDFs are read without one; the transport
between devices, taken as external; more than one workspace per
following process, what an adaptor configures before the row is there, the restoring of a session into a workspace; busy timeouts of SQLite; the conversion of events for
subscribers; text, reasoning, cost and snapshots of the processor; the runtime's
own yield between the synchronous reads and writes of a part. The components
without a module are listed with their reasons in `PROJECT.json`: those on the
plan below, algorithms on text, tables of data, and the adapters to git, language
servers, MCP servers, providers and terminals, where the state is in the other program.

## 6. Plan

1. The event streams of clients: the bus, `util/queue.ts`, and the streams of
   `event.ts` and `global.ts`. The queue has no interleaving of its own: push and next
   do not await between reading and writing. `util/lock.ts` is used by nothing.
2. The revert with its snapshots: what is restored when a prompt comes in between.
3. The composition of RunState with ToolCalls: a cancelled run closes its calls
   while the next one streams.
4. Proofs: that the loop calls the runner as `SingleFlight` allows; whether
   `ExitHasRead` holds for a client whose clock is ahead while others revert.
