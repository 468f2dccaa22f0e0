---------------------------- MODULE ServerProofs ----------------------------
(***************************************************************************)
(* What is proved of the loop of a session and of the instances of a       *)
(* server, for every number of callers, directories and steps: the two     *)
(* that MCServer checks on a small instance.  First the loop.              *)
(***************************************************************************)
EXTENDS PromptLoop, Instances, Integers, FiniteSetTheorems, TLAPS

\* The answer that is being written, and all messages that the loop can come upon.
Writing == IF pc = "streaming" THEN {draft} ELSE {}
Known == hist \cup read \cup Writing

\* Two states of one message; what a user said does not change.
Twins(m, n) ==
    /\ m.id = n.id /\ m.at = n.at /\ m.role = n.role /\ m.summary = n.summary
    /\ m.role = "user" => m = n

\* Messages that are made by the server have its ids, prompts may have a client's, which
\* was made before they came.
Stamped(m) ==
    /\ m.at \in 1..clock
    /\ \/ m.id = ServerId(m.at)
       \/ m.role = "user" /\ \E k \in 1..(m.at - 1) : m.id = ClientId(k)

\* Only users speak for a caller, only a summary's caller asks for one, and what is to
\* be replayed is what the loop has asked for.
KindOK(m) ==
    /\ m.role = "assistant" => m.of = None
    /\ m.task = "compact" => m.of \notin Prompts
    /\ m.over => m.auto

\* Ids and times tell the messages apart.
MessagesDiffer ==
    /\ \A m \in Known : Stamped(m) /\ KindOK(m)
    /\ \A m, n \in Known : m.id = n.id \/ m.at = n.at => Twins(m, n)

\* So they do those which prompts have taken and not yet used.
SlipsDiffer ==
    /\ \A p \in Prompts : call[p] = "drawn" =>
          /\ \E k \in 1..clock : slip[p].id = ClientId(k)
          /\ \A m \in Known : m.id # slip[p].id
    /\ \A p \in Prompts : call[p] = "resolving" =>
          /\ slip[p].at \in 1..clock
          /\ \/ slip[p].id = ServerId(slip[p].at)
             \/ \E k \in 1..(slip[p].at - 1) : slip[p].id = ClientId(k)
          /\ \A m \in Known : m.id # slip[p].id /\ m.at # slip[p].at
    /\ \A p, q \in Prompts :
          p # q /\ call[p] \in {"drawn", "resolving"} /\ call[q] \in {"drawn", "resolving"} =>
             /\ slip[p].id # slip[q].id
             /\ call[p] = "resolving" /\ call[q] = "resolving" => slip[p].at # slip[q].at

\* What the loop keeps from its read to its write.
DraftOK ==
    /\ pc \in {"ready", "streaming"} /\ draft.over => draft.auto
    /\ pc = "streaming" =>
          /\ draft.role = "assistant" /\ draft.task = "none" /\ draft.id = ServerId(draft.at)
          /\ draft.of = None /\ draft.summary = (job = "compact")
          /\ \E u \in read : IsNewest(u, Users(read)) /\ u.id = draft.parent

\* No summary ends the window later than where the loop's read begins.
CutsBelow ==
    pc \in {"ready", "streaming"} => \A c \in Cuts(hist), n \in read : c.at <= n.at

Waits(p) == p \in Prompts \ (heard \cup late \cup undone)

\* A prompt in the history that no stream has had was read, or is above all requests
\* that were.
Remembered ==
    pc \in {"ready", "streaming"} =>
        \A m \in hist : Waits(m.of) =>
            \/ \E n \in read \cap hist : n.of = m.of
            \/ \E n \in Window : /\ n.of = m.of
                                 /\ \A c \in Users(hist \cap read) : c.task = "compact" => c.at <= n.at

\* Of a prompt that was not stored too late, the id says whether it is below an answer.
AnswersAreOld ==
    \A a \in Assistants(hist \cup Writing), m \in Users(hist) :
        m.of \notin late /\ a.at < m.at => a.id < m.id

Ended(m) == m.finish # ""
Complete(a) == a.finish \notin {"", "tool-calls"} /\ ~a.calls

\* Above all complete answers.
OnTop(n) == n \in Users(hist) /\ \A a \in Assistants(hist) : Complete(a) => a.at < n.at

Expects(p) == Waits(p) /\ p \notin blind /\ call[p] = "waiting"

\* As long as a prompt waits to be heard, a message is above all complete answers.
WaitingIsOpen ==
    \A m \in hist : Expects(m.of) => \E n \in hist : OnTop(n)

\* It was read, or it is itself above them, and above the answer that is being written.
ReadOrOnTop ==
    Reading \/ pc = "streaming" =>
        \A m \in hist : Expects(m.of) =>
            \/ m.of \in Words(read)
            \/ pc = "streaming" /\ \E n \in hist : n.of = m.of /\ OnTop(n) /\ draft.at < n.at

\* The ids from which on messages are taken back, or are going to be.
RevertIds == ({revert} \ {0}) \cup {plan[k] : k \in {x \in Reverts : call[x] = "reverting"}}

RevertsAreOld ==
    \A R \in RevertIds : R <= ServerId(clock) /\ (pc = "streaming" => R <= draft.id)

NobodyWaits == pc = "off" => \A x \in Callers : call[x] # "waiting"

\* A revert takes a message of who waits to be heard, or leaves one above all complete
\* answers that it leaves.
RevertsLeaveOpen ==
    \A R \in RevertIds : \A m \in hist : Expects(m.of) =>
        \/ \E n \in hist : n.of = m.of /\ R <= n.id
        \/ \E n \in Users(hist) :
              /\ n.id < R
              /\ \A a \in Assistants(hist) : Complete(a) /\ a.id < R => a.at < n.at

\* The loop goes on with what is not answered.
ReadIsOpen == pc = "ready" => ~Answered(read)

-----------------------------------------------------------------------------
(* Messages and their types.                                               *)

USE LoopAssumption

LEMMA IdTypes == ASSUME NEW n \in Nat PROVE ServerId(n) \in Nat /\ ClientId(n) \in Nat
  BY DEF ServerId, ClientId

LEMMA UserMessageTypes ==
    ASSUME NEW id \in Nat, NEW n \in Nat, NEW of \in Callers \cup {None},
           NEW task \in {"none", "compact", "subtask"}
    PROVE  UserMessage(id, n, of, task) \in Message
  BY DEF UserMessage, Message, Finish

LEMMA BlankTypes == Blank \in Message
  BY UserMessageTypes DEF Blank

LEMMA MadeTypes ==
    ASSUME NEW n \in Nat, NEW of \in Callers \cup {None},
           NEW task \in {"none", "compact", "subtask"}
    PROVE  Made(n, of, task) \in Message
  BY UserMessageTypes, IdTypes DEF Made

LEMMA RequestTypes ==
    ASSUME NEW n \in Nat, NEW of \in Callers \cup {None}, NEW a \in BOOLEAN, NEW b \in BOOLEAN
    PROVE  Request(n, of, a, b) \in Message
<1>1. Made(n, of, "compact") \in Message
  BY MadeTypes
<1> QED
  BY <1>1 DEF Request, Message

LEMMA AnswerTypes ==
    ASSUME NEW n \in Nat, NEW id \in Nat, NEW a \in BOOLEAN
    PROVE  Answer(n, id, a) \in Message
<1>1. Made(n, None, "none") \in Message
  BY MadeTypes
<1> QED
  BY <1>1 DEF Answer, Message

\* What a message says that has just been made.
LEMMA UserMessageSays ==
    \A id, n, of, task :
       LET m == UserMessage(id, n, of, task) IN
       /\ m.id = id /\ m.at = n /\ m.role = "user" /\ m.of = of /\ m.task = task
       /\ ~m.over /\ ~m.auto /\ ~m.summary
  BY DEF UserMessage

LEMMA MadeSays ==
    \A n, of, task :
       LET m == Made(n, of, task) IN
       /\ m.id = ServerId(n) /\ m.at = n /\ m.role = "user" /\ m.of = of /\ m.task = task
       /\ ~m.over /\ ~m.auto /\ ~m.summary
  BY DEF UserMessage, Made

LEMMA RequestSays ==
    \A n, of : \A a, b \in BOOLEAN :
       LET m == Request(n, of, a, b) IN
       /\ m.id = ServerId(n) /\ m.at = n /\ m.role = "user" /\ m.of = of
       /\ m.task = "compact" /\ m.over = b /\ m.auto = a /\ ~m.summary
  BY DEF UserMessage, Made, Request

LEMMA AnswerSays ==
    \A n, id : \A a \in BOOLEAN :
       LET m == Answer(n, id, a) IN
       /\ m.id = ServerId(n) /\ m.at = n /\ m.role = "assistant" /\ m.of = None
       /\ m.task = "none" /\ m.parent = id /\ m.summary = a /\ ~m.over
       /\ ~m.auto /\ ~m.calls /\ ~m.error
  BY DEF UserMessage, Made, Answer

Calls == {"new", "drawn", "resolving", "cleaned", "stored", "waiting", "reverting",
          "answered", "stopped", "cancelled", "failed", "gone"}

LEMMA KeptTypes == ASSUME TypeOK PROVE Kept \subseteq hist
  BY DEF Kept

LEMMA WordsTypes ==
    ASSUME NEW S \in SUBSET Message PROVE Words(S) \subseteq Callers
  BY DEF Words, Message

LEMMA PutTypes ==
    ASSUME TypeOK, NEW m \in Message PROVE Put(m) \in SUBSET Message
  BY DEF TypeOK, Put

LEMMA LeaveTypes ==
    ASSUME TypeOK, NEW how \in Calls, Leave(how)
    PROVE  /\ pc' = "off" /\ job' = "step" /\ read' = {} /\ draft' \in Message
           /\ call' \in [Callers \cup Reverts -> Calls]
           /\ \A x \in Callers \cup Reverts :
                 call'[x] = IF call[x] = "waiting" THEN how ELSE call[x]
<1>1. draft' \in Message
  BY BlankTypes DEF Leave
<1> QED
  BY <1>1 DEF TypeOK, Leave, Calls

LEMMA JoinTypes ==
    ASSUME TypeOK, NEW x \in Callers, Join(x)
    PROVE  /\ call' \in [Callers \cup Reverts -> Calls]
           /\ pc' \in {"off", "top", "ready", "streaming", "full"}
  BY DEF TypeOK, Join, Calls

LEMMA InitTypes == Init => TypeOK
<1> SUFFICES ASSUME Init PROVE TypeOK
  OBVIOUS
<1>1. Blank \in Message
  BY BlankTypes
<1> QED
  BY <1>1 DEF Init, TypeOK

\* The callers' steps.
LEMMA CallerTypes ==
    ASSUME TypeOK,
           \/ \E p \in Prompts : Draw(p) \/ Enter(p) \/ Store(p)
           \/ \E x \in Summaries : Clean(x) \/ Summarize(x) \/ JoinStored(x)
           \/ \E k \in Reverts : ChooseRevert(k) \/ SetRevert(k)
           \/ Unrevert
    PROVE  TypeOK'
<1> USE DEF Calls
<1>1. ASSUME NEW p \in Prompts, Draw(p) PROVE TypeOK'
  <2>1. ClientId(clock + 1) \in Nat
    BY DEF TypeOK, ClientId
  <2> QED
    BY <1>1, <2>1 DEF TypeOK, Draw, loopVars, marks, Callers
<1>2. ASSUME NEW p \in Prompts, Enter(p) PROVE TypeOK'
  <2>1. slip' \in [Prompts -> [id: Nat, at: Nat]]
    <3>1. ServerId(clock + 1) \in Nat /\ clock + 1 \in Nat
      BY DEF TypeOK, ServerId
    <3> QED
      BY <1>2, <3>1 DEF TypeOK, Enter
  <2>2. hist' \in SUBSET Message
    BY <1>2, KeptTypes DEF TypeOK, Enter
  <2> QED
    BY <1>2, <2>1, <2>2 DEF TypeOK, Enter, loopVars, Callers
<1>3. ASSUME NEW p \in Prompts, Store(p) PROVE TypeOK'
  <2>1. call' \in [Callers \cup Reverts -> Calls] /\ pc' \in {"off", "top", "ready", "streaming", "full"}
    BY <1>3, JoinTypes DEF TypeOK, Store, Callers
  <2>2. hist' \in SUBSET Message
    <3>1. UserMessage(slip[p].id, slip[p].at, p, IF p \in Commands THEN "subtask" ELSE "none") \in Message
      BY UserMessageTypes DEF TypeOK, Callers
    <3> QED
      BY <1>3, <3>1, PutTypes DEF Store
  <2> QED
    BY <1>3, <2>1, <2>2 DEF TypeOK, Store, Callers
<1>4. ASSUME NEW x \in Summaries, Clean(x) PROVE TypeOK'
  <2>1. hist' \in SUBSET Message
    BY <1>4, KeptTypes DEF TypeOK, Clean
  <2> QED
    BY <1>4, <2>1 DEF TypeOK, Clean, loopVars, Callers
<1>5. ASSUME NEW x \in Summaries, Summarize(x) PROVE TypeOK'
  <2>1. hist' \in SUBSET Message
    <3>0. clock + 1 \in Nat /\ x \in Callers \cup {None} /\ FALSE \in BOOLEAN
      BY DEF TypeOK, Callers
    <3>1. \A auto \in BOOLEAN : Request(clock + 1, x, auto, FALSE) \in Message
      BY <3>0, RequestTypes, Zenon
    <3> QED
      BY <1>5, <3>1 DEF TypeOK, Summarize
  <2>2. blind' \in SUBSET Callers /\ call' \in [Callers \cup Reverts -> Calls] /\ clock' \in Nat
    BY <1>5 DEF TypeOK, Summarize, Callers
  <2> QED
    BY <1>5, <2>1, <2>2 DEF TypeOK, Summarize, loopVars
<1>6. ASSUME NEW x \in Summaries, JoinStored(x) PROVE TypeOK'
  BY <1>6, JoinTypes DEF TypeOK, JoinStored, Callers, marks
<1>7. ASSUME NEW k \in Reverts, ChooseRevert(k) PROVE TypeOK'
  <2>1. plan' \in [Reverts -> Nat]
    BY <1>7 DEF TypeOK, ChooseRevert, Users, Message
  <2> QED
    BY <1>7, <2>1 DEF TypeOK, ChooseRevert, loopVars, marks
<1>8. ASSUME NEW k \in Reverts, SetRevert(k) PROVE TypeOK'
  BY <1>8 DEF TypeOK, SetRevert, loopVars, marks
<1>9. CASE Unrevert
  BY <1>9 DEF TypeOK, Unrevert, loopVars, marks
<1> QED
  BY <1>1, <1>2, <1>3, <1>4, <1>5, <1>6, <1>7, <1>8, <1>9

\* The answer that is being written, changed.
LEMMA ChangedTypes ==
    ASSUME TypeOK, NEW f \in Finish, NEW e \in BOOLEAN, NEW c \in BOOLEAN, NEW l \in BOOLEAN
    PROVE  /\ [draft EXCEPT !.finish = f] \in Message
           /\ [draft EXCEPT !.finish = f, !.calls = c] \in Message
           /\ [draft EXCEPT !.finish = f, !.full = l, !.calls = c] \in Message
           /\ [draft EXCEPT !.over = l] \in Message
           /\ [draft EXCEPT !.finish = f, !.error = e, !.calls = c] \in Message
           /\ [draft EXCEPT !.finish = f, !.auto = e, !.over = l] \in Message
           /\ [draft EXCEPT !.finish = f, !.error = e, !.auto = c, !.over = l] \in Message
           /\ [draft EXCEPT !.error = e, !.auto = c, !.over = l] \in Message
<1>1. draft \in Message
  BY DEF TypeOK
<1> QED
  BY <1>1 DEF Message

LEMMA InterruptedTypes == ASSUME TypeOK PROVE Interrupted \in Message
<1>1. draft \in Message
  BY DEF TypeOK
<1> QED
  BY <1>1 DEF Interrupted, Message, Finish

LEMMA LoopTypes == ASSUME TypeOK, LoopStep PROVE TypeOK'
<1> USE DEF Calls
<1>0. /\ draft \in Message /\ Blank \in Message /\ {} \in SUBSET Message /\ clock + 1 \in Nat
      /\ Words(read) \subseteq Callers
  BY BlankTypes, WordsTypes DEF TypeOK
<1>1. CASE Die \/ Exit \/ Falter
  BY <1>1, LeaveTypes DEF TypeOK, Die, Exit, Falter, marks
<1>2. CASE Turn
  <2>1. read' \in SUBSET Message
    BY <1>2 DEF TypeOK, Turn, Window
  <2>2. draft' \in Message /\ job' \in {"step", "shrink", "compact", "subtask"}
    <3>1. PICK t \in Window \cup {Blank} : Job(t, Window) /\ draft' = t
      BY <1>2 DEF Turn
    <3>2. t \in Message
      BY <1>0, <3>1 DEF TypeOK, Window
    <3>3. t # Blank => t.task \in {"compact", "subtask"}
      BY <3>1, <3>2 DEF Job, IsOldest, Pending, Message
    <3> QED
      BY <3>1, <3>2, <3>3 DEF Job
  <2> QED
    BY <1>2, <2>1, <2>2 DEF TypeOK, Turn, marks
<1>3. CASE Shrink
  <2>1. hist' \in SUBSET Message
    <3>1. Request(clock + 1, None, TRUE, FALSE) \in Message
      BY <1>0, RequestTypes
    <3> QED
      BY <1>3, <3>1 DEF TypeOK, Shrink
  <2> QED
    BY <1>0, <1>3, <2>1 DEF TypeOK, Shrink, marks
<1>4. CASE Begin
  <2>1. PICK u \in read : LET a == Answer(clock + 1, u.id, job = "compact") IN
                          /\ hist' = hist \cup {a}
                          /\ draft' = [a EXCEPT !.auto = draft.auto, !.over = draft.over]
    BY <1>4 DEF Begin
  <2>2. PICK b \in BOOLEAN : b = (job = "compact")
    OBVIOUS
  <2>3. PICK a \in Message : a = Answer(clock + 1, u.id, job = "compact")
    <3>1. u.id \in Nat
      BY DEF TypeOK, Message
    <3>2. Answer(clock + 1, u.id, b) \in Message
      BY <1>0, <3>1, AnswerTypes
    <3> QED
      BY <2>2, <3>2, Zenon
  <2>4. hist' = hist \cup {a} /\ draft' = [a EXCEPT !.auto = draft.auto, !.over = draft.over]
    BY <2>1, <2>3, Zenon
  <2>5. draft' \in Message
    BY <1>0, <2>4 DEF Message
  <2> QED
    BY <1>4, <2>4, <2>5 DEF TypeOK, Begin, marks
<1>5. CASE Compress
  <2>1. hist' \in SUBSET Message
    <3>0. draft.over \in BOOLEAN
      BY <1>0 DEF Message
    <3>1. Request(clock + 1, None, TRUE, draft.over) \in Message
      BY <1>0, <3>0, RequestTypes, Zenon
    <3> QED
      BY <1>5, <3>1 DEF TypeOK, Compress
  <2> QED
    BY <1>0, <1>5, <2>1 DEF TypeOK, Compress, marks
<1>6. CASE StepDone
  <2>1. hist' \in SUBSET Message
    BY <1>6, ChangedTypes, PutTypes DEF StepDone, Streamed, Finish
  <2> QED
    BY <1>0, <1>6, <2>1 DEF TypeOK, StepDone, Streamed, marks
<1>7. CASE StepCalls
  <2>1. PICK f \in {"stop", "tool-calls"} : Streamed([draft EXCEPT !.finish = f, !.calls = TRUE])
    BY <1>7 DEF StepCalls
  <2>2. hist' \in SUBSET Message
    BY <2>1, ChangedTypes, PutTypes DEF Streamed, Finish
  <2>3. heard' \in SUBSET Callers
    BY <1>0, <2>1 DEF TypeOK, Streamed
  <2> QED
    BY <1>0, <1>7, <2>2, <2>3 DEF TypeOK, StepCalls, marks
<1>8. CASE StepOverflows
  <2>1. PICK f \in Finish :
          /\ Streamed([draft EXCEPT !.finish = f, !.full = f # "", !.calls = f = "tool-calls"])
          /\ draft' = [draft EXCEPT !.over = f = ""]
    BY <1>8, Zenon DEF StepOverflows, Finish
  <2>2. hist' \in SUBSET Message /\ draft' \in Message
    BY <2>1, ChangedTypes, PutTypes, Zenon DEF Streamed
  <2>3. heard' \in SUBSET Callers
    BY <1>0, <2>1, Zenon DEF TypeOK, Streamed
  <2> QED
    <3>1. steps' = steps + 1 /\ pc' = "full"
          /\ UNCHANGED <<clock, revert, job, read, call, slip, plan, stops, late, blind, undone>>
      BY <1>8, Zenon DEF StepOverflows, marks
    <3> QED
      BY <2>2, <2>3, <3>1 DEF TypeOK
<1>9. CASE StepBreaks
  <2>1. PICK f \in {"", "stop", "tool-calls"}, e \in BOOLEAN :
          Streamed([draft EXCEPT !.finish = f, !.error = e, !.calls = f = "tool-calls"])
    BY <1>9 DEF StepBreaks
  <2>2. hist' \in SUBSET Message
    BY <2>1, ChangedTypes, PutTypes DEF Streamed, Finish
  <2>3. heard' \in SUBSET Callers
    BY <1>0, <2>1 DEF TypeOK, Streamed
  <2> QED
    BY <1>9, <2>2, <2>3, LeaveTypes DEF TypeOK, StepBreaks, marks
<1>10. CASE CompactDone
  <2>1. PICK h \in SUBSET Message : AddAfter(h)
    BY <1>10, ChangedTypes, PutTypes DEF CompactDone, Finish
  <2>2. hist' \in SUBSET Message /\ clock' \in Nat
    <3>1. \A r \in read : Made(clock + 1, r.of, r.task) \in Message
      <4>1. \A r \in read : r.of \in Callers \cup {None} /\ r.task \in {"none", "compact", "subtask"}
        BY DEF TypeOK, Message
      <4> QED
        BY <1>0, <4>1, MadeTypes
    <3>2. Made(clock + 1, None, "none") \in Message
      BY <1>0, MadeTypes
    <3> QED
      BY <1>0, <2>1, <3>1, <3>2 DEF TypeOK, AddAfter
  <2>3. heard' \in SUBSET Callers
    <3>1. {m \in read : Summarised(m)} \in SUBSET Message
      BY DEF TypeOK
    <3> QED
      BY <1>10, <3>1, WordsTypes DEF TypeOK, CompactDone
  <2> QED
    BY <1>0, <1>10, <2>2, <2>3 DEF TypeOK, CompactDone, marks
<1>11. CASE CompactFails
  <2>1. hist' \in SUBSET Message
    BY <1>11, ChangedTypes, PutTypes DEF CompactFails, Finish
  <2> QED
    BY <1>11, <2>1, LeaveTypes DEF TypeOK, CompactFails, marks
<1>12. CASE SubtaskDone
  <2>1. hist' \in SUBSET Message
    <3>1. Made(clock + 1, None, "none") \in Message
      BY <1>0, MadeTypes
    <3>2. Put([draft EXCEPT !.finish = "tool-calls", !.calls = TRUE]) \in SUBSET Message
      BY ChangedTypes, PutTypes DEF Finish
    <3> QED
      BY <1>12, <3>1, <3>2 DEF SubtaskDone
  <2> QED
    BY <1>0, <1>12, <2>1 DEF TypeOK, SubtaskDone, marks
<1> QED
  BY <1>1, <1>2, <1>3, <1>4, <1>5, <1>6, <1>7, <1>8, <1>9, <1>10, <1>11, <1>12 DEF LoopStep

LEMMA StopTypes == ASSUME TypeOK, Cancel \/ Crash PROVE TypeOK'
<1> USE DEF Calls
<1>1. CASE Cancel
  <2>1. hist' \in SUBSET Message
    BY <1>1, InterruptedTypes, PutTypes DEF TypeOK, Cancel
  <2> QED
    BY <1>1, <2>1, LeaveTypes DEF TypeOK, Cancel, marks
<1>2. CASE Crash
  BY <1>2, BlankTypes DEF TypeOK, Crash, marks
<1> QED
  BY <1>1, <1>2

LEMMA StepTypes == TypeOK /\ [Next]_vars => TypeOK'
<1> SUFFICES ASSUME TypeOK, [Next]_vars PROVE TypeOK'
  OBVIOUS
<1>1. CASE UNCHANGED vars
  BY <1>1 DEF vars, loopVars, marks, TypeOK
<1> QED
  BY <1>1, CallerTypes, LoopTypes, StopTypes DEF Next

-----------------------------------------------------------------------------
(* What the steps of the loop come to.                                     *)

\* The answer being written, with its end.
Version(m) ==
    /\ m \in Message
    /\ m.id = draft.id /\ m.at = draft.at /\ m.role = draft.role /\ m.of = draft.of
    /\ m.task = draft.task /\ m.summary = draft.summary /\ m.parent = draft.parent
    /\ m.over => m.auto

\* A message of the next time.
Fresh(m) == m \in Message /\ m.at = clock + 1 /\ m.id = ServerId(clock + 1)

\* The run ends, for all who wait for it, and nobody begins to prompt or revert.
CallsLeft ==
    /\ pc' = "off"
    /\ \A x \in Callers \cup Reverts :
          /\ call'[x] # "waiting"
          /\ call'[x] = call[x] \/ call'[x] \notin {"drawn", "resolving", "reverting"}

\* The answer that is being written becomes m, and next is added: nothing, or what the
\* user is made to say.
Closes(m, next) ==
    /\ pc = "streaming" /\ Version(m)
    /\ hist' = Put(m) \cup next
    /\ \/ next = {} /\ clock' = clock
       \/ /\ \E f : next = {f} /\ Fresh(f) /\ f.role = "user" /\ KindOK(f) /\ f.task # "compact"
          /\ clock' = clock + 1
    /\ pc' \in {"top", "full", "off"} /\ read' \subseteq read
    /\ heard \subseteq heard'
    /\ (call' = call /\ pc' # "off") \/ CallsLeft
    /\ UNCHANGED <<revert, slip, plan, marks>>

\* It cuts nothing off.
Calm(m) == ~m.summary \/ m.error \/ ~Ended(m)

\* Whoever waits has been heard, or the loop goes on.
GoesOn(m, next) ==
    \/ pc' = "off" \/ next # {} \/ ~Complete(m)
    \/ Words(read) \subseteq heard'

LEMMA LeaveCalls ==
    ASSUME TypeOK, NEW how \in {"answered", "stopped", "cancelled", "failed"}, Leave(how)
    PROVE  CallsLeft /\ read' = {}
  BY DEF TypeOK, Leave, CallsLeft

\* The changes to the answer that is being written.
LEMMA Versions ==
    ASSUME TypeOK, DraftOK, pc = "streaming",
           NEW f \in Finish, NEW e \in BOOLEAN, NEW c \in BOOLEAN, NEW l \in BOOLEAN
    PROVE  /\ Version([draft EXCEPT !.finish = f])
           /\ Version([draft EXCEPT !.finish = f, !.calls = c])
           /\ Version([draft EXCEPT !.finish = f, !.full = l, !.calls = c])
           /\ Version([draft EXCEPT !.finish = f, !.error = e, !.calls = c])
           /\ Version([draft EXCEPT !.finish = f, !.auto = FALSE, !.over = FALSE])
           /\ Version([draft EXCEPT !.finish = f, !.error = e, !.auto = FALSE, !.over = FALSE])
           /\ Version([draft EXCEPT !.error = e, !.auto = FALSE, !.over = FALSE])
<1>1. draft \in Message /\ (draft.over => draft.auto)
  BY DEF TypeOK, DraftOK
<1>2. /\ [draft EXCEPT !.finish = f] \in Message
      /\ [draft EXCEPT !.finish = f, !.calls = c] \in Message
      /\ [draft EXCEPT !.finish = f, !.full = l, !.calls = c] \in Message
      /\ [draft EXCEPT !.finish = f, !.error = e, !.calls = c] \in Message
      /\ [draft EXCEPT !.finish = f, !.auto = FALSE, !.over = FALSE] \in Message
      /\ [draft EXCEPT !.finish = f, !.error = e, !.auto = FALSE, !.over = FALSE] \in Message
      /\ [draft EXCEPT !.error = e, !.auto = FALSE, !.over = FALSE] \in Message
  BY <1>1 DEF Message
<1> QED
  BY <1>1, <1>2 DEF Version, Message

LEMMA StepCloses ==
    ASSUME TypeOK, DraftOK, StepDone \/ StepCalls \/ StepOverflows \/ StepBreaks
    PROVE  \E m : Closes(m, {}) /\ Calm(m) /\ GoesOn(m, {})
<1>1. ASSUME NEW m, Streamed(m), Version(m), UNCHANGED <<clock, revert, slip, plan, marks>>,
             pc' \in {"top", "full", "off"}, read' \subseteq read,
             (call' = call /\ pc' # "off") \/ CallsLeft
      PROVE  Closes(m, {}) /\ Calm(m) /\ GoesOn(m, {})
  <2>1. /\ pc = "streaming" /\ job = "step" /\ hist' = Put(m) \cup {}
        /\ heard \subseteq heard'
    BY <1>1, Zenon DEF Streamed
  <2>2. Calm(m)
    <3>1. ~draft.summary
      BY <2>1 DEF DraftOK
    <3> QED
      BY <1>1, <3>1 DEF Calm, Version
  <2>3. ~Complete(m) \/ Words(read) \subseteq heard'
    BY <1>1, Zenon DEF Streamed, Complete
  <2> QED
    BY <1>1, <2>1, <2>2, <2>3 DEF Closes, GoesOn
<1>2. CASE StepDone
  <2>1. Streamed([draft EXCEPT !.finish = "stop"]) /\ "stop" \in Finish
    BY <1>2 DEF StepDone, Finish
  <2>2. pc = "streaming"
    BY <2>1, Zenon DEF Streamed
  <2>3. Version([draft EXCEPT !.finish = "stop"])
    BY <2>1, <2>2, Versions
  <2> QED
    BY <1>1, <1>2, <2>1, <2>3 DEF StepDone, marks
<1>3. CASE StepCalls
  <2>1. PICK f \in Finish : Streamed([draft EXCEPT !.finish = f, !.calls = TRUE])
    BY <1>3, Zenon DEF StepCalls, Finish
  <2>2. pc = "streaming"
    BY <2>1, Zenon DEF Streamed
  <2>3. Version([draft EXCEPT !.finish = f, !.calls = TRUE])
    BY <2>2, Versions
  <2> QED
    BY <1>1, <1>3, <2>1, <2>3 DEF StepCalls, marks
<1>4. CASE StepOverflows
  <2>1. PICK f \in Finish, l \in BOOLEAN, c \in BOOLEAN :
           Streamed([draft EXCEPT !.finish = f, !.full = l, !.calls = c])
    BY <1>4, Zenon DEF StepOverflows, Finish
  <2>2. pc = "streaming"
    BY <2>1, Zenon DEF Streamed
  <2>3. Version([draft EXCEPT !.finish = f, !.full = l, !.calls = c])
    BY <2>2, Versions
  <2>4. pc' = "full" /\ UNCHANGED <<clock, revert, read, call, slip, plan, marks>>
    BY <1>4, Zenon DEF StepOverflows
  <2> QED
    BY <1>1, <2>1, <2>3, <2>4
<1>5. CASE StepBreaks
  <2>1. PICK f \in Finish, e \in BOOLEAN, c \in BOOLEAN :
           Streamed([draft EXCEPT !.finish = f, !.error = e, !.calls = c])
    BY <1>5, Zenon DEF StepBreaks, Finish
  <2>2. pc = "streaming"
    BY <2>1, Zenon DEF Streamed
  <2>3. Version([draft EXCEPT !.finish = f, !.error = e, !.calls = c])
    BY <2>2, Versions
  <2>4. Leave("stopped") /\ UNCHANGED <<clock, revert, slip, plan, marks>>
    BY <1>5, Zenon DEF StepBreaks
  <2>5. CallsLeft /\ read' = {}
    BY <2>4, LeaveCalls
  <2>6. pc' = "off"
    BY <2>5 DEF CallsLeft
  <2> QED
    BY <1>1, <2>1, <2>3, <2>4, <2>5, <2>6
<1> QED
  BY <1>2, <1>3, <1>4, <1>5

LEMMA EndCloses ==
    ASSUME TypeOK, DraftOK, CompactFails \/ (Cancel /\ pc = "streaming")
    PROVE  \E m : Closes(m, {}) /\ Calm(m) /\ GoesOn(m, {})
<1>1. ASSUME NEW m, Version(m), Calm(m), hist' = Put(m), CallsLeft, read' = {},
             pc = "streaming", UNCHANGED <<clock, revert, slip, plan, marks, heard>>
      PROVE  Closes(m, {}) /\ Calm(m) /\ GoesOn(m, {})
  BY <1>1 DEF Closes, GoesOn, CallsLeft
<1>2. CASE CompactFails
  <2>1. PICK f \in Finish :
          hist' = Put([draft EXCEPT !.finish = f, !.error = TRUE, !.auto = FALSE, !.over = FALSE])
    BY <1>2, Zenon DEF CompactFails, Finish
  <2>2. /\ pc = "streaming" /\ Leave("stopped")
        /\ UNCHANGED <<clock, revert, slip, plan, marks, heard>>
    BY <1>2, Zenon DEF CompactFails
  <2>3. Version([draft EXCEPT !.finish = f, !.error = TRUE, !.auto = FALSE, !.over = FALSE])
    BY <2>2, Versions
  <2>4. Calm([draft EXCEPT !.finish = f, !.error = TRUE, !.auto = FALSE, !.over = FALSE])
    BY DEF Calm, TypeOK, Message
  <2> QED
    BY <1>1, <2>1, <2>2, <2>3, <2>4, LeaveCalls
<1>3. CASE Cancel /\ pc = "streaming"
  <2>1. /\ hist' = Put(Interrupted) /\ Leave("cancelled")
        /\ UNCHANGED <<clock, revert, slip, plan, marks, heard>>
    BY <1>3 DEF Cancel
  <2>2. CallsLeft /\ read' = {}
    BY <2>1, LeaveCalls
  <2>3. CASE job = "subtask"
    <3>1. PICK f \in Finish : Interrupted = [draft EXCEPT !.finish = f, !.calls = TRUE]
      BY <2>3, Zenon DEF Interrupted, Finish
    <3>2. Version(Interrupted)
      BY <1>3, <3>1, Versions
    <3>3. Calm(Interrupted)
      <4>1. ~draft.summary
        BY <1>3, <2>3 DEF DraftOK
      <4> QED
        BY <3>2, <4>1 DEF Calm, Version
    <3> QED
      BY <1>1, <1>3, <2>1, <2>2, <3>2, <3>3
  <2>4. CASE job # "subtask"
    <3>1. Interrupted = [draft EXCEPT !.error = TRUE, !.auto = FALSE, !.over = FALSE]
      BY <2>4, Zenon DEF Interrupted
    <3>2. Version(Interrupted)
      <4>1. TRUE \in BOOLEAN /\ draft.finish \in Finish
        BY DEF TypeOK, Message
      <4>2. Version([draft EXCEPT !.error = TRUE, !.auto = FALSE, !.over = FALSE])
        BY <1>3, <4>1, Versions, Zenon
      <4> QED
        BY <3>1, <4>2, Zenon
    <3>3. Calm(Interrupted)
      BY <3>1 DEF Calm, TypeOK, Message
    <3> QED
      BY <1>1, <1>3, <2>1, <2>2, <3>2, <3>3
  <2> QED
    BY <2>3, <2>4
<1> QED
  BY <1>2, <1>3

LEMMA SubtaskCloses ==
    ASSUME TypeOK, DraftOK, SubtaskDone
    PROVE  \E m, next : Closes(m, next) /\ Calm(m) /\ GoesOn(m, next)
<1> DEFINE next == {Made(clock + 1, None, "none")}
<1>1. PICK f \in Finish : hist' = Put([draft EXCEPT !.finish = f, !.calls = TRUE]) \cup next
  BY Zenon DEF SubtaskDone, Finish
<1>2. PICK m : m = [draft EXCEPT !.finish = f, !.calls = TRUE]
  OBVIOUS
<1>3. /\ pc = "streaming" /\ job = "subtask" /\ pc' = "top" /\ read' = {} /\ clock' = clock + 1
      /\ UNCHANGED <<revert, call, slip, plan, marks, heard>>
  BY Zenon DEF SubtaskDone
<1>4. Version(m)
  BY <1>2, <1>3, Versions
<1>5. Calm(m)
  <2>1. ~draft.summary
    BY <1>3 DEF DraftOK
  <2> QED
    BY <1>4, <2>1 DEF Calm, Version
<1>6. \E g : next = {g} /\ Fresh(g) /\ g.role = "user" /\ KindOK(g) /\ g.task # "compact"
  <2>1. PICK n : n = clock + 1
    OBVIOUS
  <2>0. PICK g : g = Made(n, None, "none")
    OBVIOUS
  <2>2. g \in Message
    BY <2>0, <2>1, MadeTypes DEF TypeOK
  <2>3. /\ g.id = ServerId(n) /\ g.at = n /\ g.role = "user" /\ g.of = None
        /\ g.task = "none" /\ ~g.over
    BY <2>0, MadeSays
  <2> QED
    BY <2>0, <2>1, <2>2, <2>3 DEF Fresh, KindOK
<1>7. Closes(m, next)
  <2> HIDE DEF next
  <2> QED
    BY <1>1, <1>2, <1>3, <1>4, <1>6 DEF Closes
<1>8. GoesOn(m, next)
  BY DEF GoesOn
<1> QED
  BY <1>5, <1>7, <1>8

LEMMA CompactCloses ==
    ASSUME TypeOK, DraftOK, CompactDone
    PROVE  \E m, next : Closes(m, next) /\ GoesOn(m, next)
<1>1. PICK f \in Finish :
         AddAfter(Put([draft EXCEPT !.finish = f, !.auto = FALSE, !.over = FALSE]))
  BY Zenon DEF CompactDone, Finish
<1>2. PICK m : m = [draft EXCEPT !.finish = f, !.auto = FALSE, !.over = FALSE]
  OBVIOUS
<1>3. /\ pc = "streaming" /\ pc' = "top" /\ read' = {}
      /\ heard' = heard \cup Words({n \in read : Summarised(n)})
      /\ UNCHANGED <<revert, call, slip, plan, marks>>
  BY Zenon DEF CompactDone
<1>4. Version(m)
  BY <1>2, <1>3, Versions
<1>5. AddAfter(Put(m))
  BY <1>1, <1>2
<1>6. CASE ~draft.auto
  <2>1. hist' = Put(m) \cup {} /\ clock' = clock
    BY <1>5, <1>6 DEF AddAfter
  <2>2. Words(read) \subseteq heard'
    <3>1. ~draft.over
      BY <1>3, <1>6 DEF DraftOK
    <3>2. {n \in read : Summarised(n)} = read
      BY <3>1 DEF Summarised, IsReplayed
    <3> QED
      BY <1>3, <3>2
  <2>3. Closes(m, {})
    BY <1>3, <1>4, <2>1 DEF Closes
  <2> QED
    BY <2>2, <2>3 DEF GoesOn
<1>7. CASE draft.auto
  <2>1. PICK f1, of, task :
           /\ f1 = Made(clock + 1, of, task) /\ of \in Callers \cup {None}
           /\ task \in {"none", "subtask"} /\ hist' = Put(m) \cup {f1}
    <3>1. \A r \in read : IsReplayed(r) => r.of \in Callers \cup {None} /\ r.task \in {"none", "subtask"}
      BY DEF IsReplayed, IsNewest, Plain, Users, TypeOK, Message
    <3> QED
      BY <1>5, <1>7, <3>1 DEF AddAfter
  <2>2. clock' = clock + 1
    BY <1>5, <1>7 DEF AddAfter
  <2>3. f1 \in Message
    BY <2>1, MadeTypes DEF TypeOK
  <2>4. /\ f1.id = ServerId(clock + 1) /\ f1.at = clock + 1 /\ f1.role = "user"
        /\ f1.of = of /\ f1.task = task /\ ~f1.over
    BY <2>1, MadeSays
  <2>5. Fresh(f1) /\ KindOK(f1) /\ f1.task # "compact"
    BY <2>1, <2>3, <2>4 DEF Fresh, KindOK
  <2>6. Closes(m, {f1})
    BY <1>3, <1>4, <2>1, <2>2, <2>4, <2>5 DEF Closes
  <2> QED
    BY <2>6 DEF GoesOn
<1> QED
  BY <1>6, <1>7

\* No prompt begins, and none has its result.
CallsStay ==
    /\ \A p \in Prompts : call'[p] = call[p]
    /\ \A x \in Callers : pc' = "off" /\ call'[x] = "waiting" => call[x] = "waiting"

\* The history stays as it is, and the loop does, or it starts or ends.
Idle ==
    /\ UNCHANGED <<hist, heard, marks>>
    /\ clock' = clock /\ slip' = slip
    /\ \/ /\ UNCHANGED <<job, read, draft>> /\ CallsStay
          /\ pc' = pc \/ (pc = "off" /\ pc' = "top")
       \/ CallsLeft /\ read' = {}
    /\ \A R \in RevertIds' :
          R \in RevertIds \/ (pc' = "off" /\ Reverts # {} /\ \E m \in Users(hist) : R = m.id)

\* A compaction is asked for, by the loop or by a client.
Asks(g) ==
    /\ Fresh(g) /\ g.role = "user" /\ g.task = "compact" /\ KindOK(g)
    /\ hist' = hist \cup {g} /\ clock' = clock + 1
    /\ UNCHANGED <<revert, slip, plan, heard, late, undone>>
    /\ \/ pc' = "top" /\ read' = {} /\ UNCHANGED <<call, blind>>
       \/ UNCHANGED <<pc, job, read, draft>> /\ CallsStay /\ blind \subseteq blind'
    /\ \A k \in Reverts : call'[k] = call[k]

\* What a revert has taken back is removed.
Trims ==
    /\ hist' = Kept /\ revert' = 0 /\ undone' = undone \cup Words(hist \ Kept)
    /\ UNCHANGED <<pc, job, read, draft, plan, heard, late, blind>>
    /\ \A x \in Callers : call'[x] = "waiting" => call[x] = "waiting"
    /\ \A k \in Reverts : call'[k] = call[k]

LEMMA IdleSteps ==
    ASSUME TypeOK,
           \/ \E x \in Summaries : JoinStored(x)
           \/ \E k \in Reverts : ChooseRevert(k) \/ SetRevert(k)
           \/ Unrevert \/ Die \/ Exit \/ Falter \/ Crash
           \/ Cancel /\ pc # "streaming"
           \/ UNCHANGED vars
    PROVE  Idle
<1>1. ASSUME NEW x \in Summaries, JoinStored(x) PROVE Idle
  <2>1. CallsStay /\ (pc' = pc \/ (pc = "off" /\ pc' = "top"))
    BY <1>1 DEF JoinStored, Join, CallsStay, TypeOK, Callers
  <2>2. RevertIds' \subseteq RevertIds
    BY <1>1 DEF JoinStored, Join, RevertIds, TypeOK, Callers
  <2> QED
    BY <1>1, <2>1, <2>2 DEF JoinStored, Idle, marks
<1>2. ASSUME NEW k \in Reverts, ChooseRevert(k) PROVE Idle
  <2>1. CallsStay
    BY <1>2 DEF ChooseRevert, CallsStay, TypeOK, Callers, loopVars
  <2>2. \A R \in RevertIds' : R \in RevertIds \/ \E m \in Users(hist) : R = m.id
    BY <1>2 DEF ChooseRevert, RevertIds, TypeOK, Callers
  <2> QED
    BY <1>2, <2>1, <2>2 DEF ChooseRevert, Idle, loopVars, marks
<1>3. ASSUME NEW k \in Reverts, SetRevert(k) PROVE Idle
  <2>1. CallsStay
    BY <1>3 DEF SetRevert, CallsStay, TypeOK, Callers, loopVars
  <2>2. RevertIds' \subseteq RevertIds
    BY <1>3 DEF SetRevert, RevertIds, TypeOK, Callers
  <2> QED
    BY <1>3, <2>1, <2>2 DEF SetRevert, Idle, loopVars, marks
<1>4. CASE Unrevert
  <2>1. RevertIds' \subseteq RevertIds
    BY <1>4 DEF Unrevert, RevertIds
  <2> QED
    BY <1>4, <2>1 DEF Unrevert, CallsStay, Idle, loopVars, marks
<1>5. ASSUME CallsLeft, read' = {}, UNCHANGED <<clock, hist, revert, slip, plan, heard, marks>> PROVE Idle
  <2>1. RevertIds' \subseteq RevertIds
    BY <1>5 DEF RevertIds, CallsLeft
  <2> QED
    BY <1>5, <2>1 DEF Idle
<1>6. CASE Die \/ Exit \/ Falter \/ (Cancel /\ pc # "streaming")
  <2>1. CallsLeft /\ read' = {}
    BY <1>6, LeaveCalls DEF Die, Exit, Falter, Cancel
  <2>2. UNCHANGED <<clock, hist, revert, slip, plan, heard, marks>>
    BY <1>6 DEF Die, Exit, Falter, Cancel
  <2> QED
    BY <1>5, <2>1, <2>2
<1>7. CASE Crash
  <2>1. CallsLeft
    BY <1>7 DEF Crash, CallsLeft, TypeOK
  <2> QED
    BY <1>5, <1>7, <2>1 DEF Crash
<1>8. CASE UNCHANGED vars
  <2>1. UNCHANGED <<revert, call, plan>> /\ RevertIds' \subseteq RevertIds
    BY <1>8 DEF vars, RevertIds
  <2> QED
    BY <1>8, <2>1 DEF vars, loopVars, marks, CallsStay, Idle
<1> QED
  BY <1>1, <1>2, <1>3, <1>4, <1>6, <1>7, <1>8

LEMMA AskSteps ==
    ASSUME TypeOK, Shrink \/ Compress \/ \E x \in Summaries : Summarize(x), draft.over \in BOOLEAN
    PROVE  \E g : Asks(g)
<1>1. PICK n \in Nat : n = clock + 1
  BY DEF TypeOK
<1>2. ASSUME NEW of \in (Callers \cup {None}) \ Prompts, NEW auto \in BOOLEAN, NEW over \in BOOLEAN,
             over => auto, NEW g, g = Request(n, of, auto, over)
      PROVE  /\ Fresh(g) /\ g.role = "user" /\ g.task = "compact" /\ KindOK(g)
  <2>1. g \in Message
    BY <1>2, RequestTypes, Zenon
  <2>2. /\ g.id = ServerId(n) /\ g.at = n /\ g.role = "user" /\ g.of = of
        /\ g.task = "compact" /\ g.over = over /\ g.auto = auto
    BY <1>2, RequestSays
  <2> QED
    BY <1>1, <1>2, <2>1, <2>2 DEF Fresh, KindOK
<1>3. None \in (Callers \cup {None}) \ Prompts
  BY DEF Callers
<1>4. CASE Shrink
  <2>1. PICK g : g = Request(n, None, TRUE, FALSE)
    OBVIOUS
  <2>2. Fresh(g) /\ g.role = "user" /\ g.task = "compact" /\ KindOK(g)
    <3>1. TRUE \in BOOLEAN /\ FALSE \in BOOLEAN
      OBVIOUS
    <3> QED
      BY <1>2, <1>3, <2>1, <3>1, Zenon
  <2>3. hist' = hist \cup {g}
    BY <1>1, <1>4, <2>1, Zenon DEF Shrink
  <2> QED
    BY <1>4, <2>2, <2>3 DEF Shrink, Asks, marks
<1>5. CASE Compress
  <2>1. PICK g : g = Request(n, None, TRUE, draft.over)
    OBVIOUS
  <2>2. Fresh(g) /\ g.role = "user" /\ g.task = "compact" /\ KindOK(g)
    BY <1>2, <1>3, <2>1, Zenon
  <2>3. hist' = hist \cup {g}
    BY <1>1, <1>5, <2>1, Zenon DEF Compress
  <2> QED
    BY <1>5, <2>2, <2>3 DEF Compress, Asks, marks
<1>6. ASSUME NEW x \in Summaries, Summarize(x) PROVE \E g : Asks(g)
  <2>1. PICK auto \in BOOLEAN : hist' = hist \cup {Request(clock + 1, x, auto, FALSE)}
    BY <1>6 DEF Summarize
  <2>2. PICK g : g = Request(n, x, auto, FALSE)
    OBVIOUS
  <2>3. Fresh(g) /\ g.role = "user" /\ g.task = "compact" /\ KindOK(g)
    <3>1. x \in (Callers \cup {None}) \ Prompts /\ FALSE \in BOOLEAN
      BY DEF Callers
    <3> QED
      BY <1>2, <2>2, <3>1, Zenon
  <2>4. hist' = hist \cup {g}
    BY <1>1, <2>1, <2>2, Zenon
  <2>5. /\ CallsStay /\ \A k \in Reverts : call'[k] = call[k]
        /\ blind \subseteq blind'
    BY <1>6 DEF Summarize, CallsStay, TypeOK, Callers
  <2> QED
    BY <1>6, <2>3, <2>4, <2>5 DEF Summarize, Asks, loopVars
<1> QED
  BY <1>4, <1>5, <1>6

LEMMA TrimSteps ==
    ASSUME TypeOK, (\E p \in Prompts : Enter(p)) \/ (\E x \in Summaries : Clean(x))
    PROVE  Trims
<1>1. ASSUME NEW p \in Prompts, Enter(p) PROVE Trims
  BY <1>1 DEF Enter, Trims, TypeOK, Callers, loopVars
<1>2. ASSUME NEW x \in Summaries, Clean(x) PROVE Trims
  BY <1>2 DEF Clean, Trims, TypeOK, Callers, loopVars
<1> QED
  BY <1>1, <1>2

\* Every step is one of these.
LEMMA Steps ==
    ASSUME TypeOK, DraftOK, [Next]_vars
    PROVE  \/ Idle \/ Turn \/ Begin
           \/ Trims /\ ((\E p \in Prompts : Enter(p)) \/ (\E x \in Summaries : Clean(x)))
           \/ \E g : Asks(g)
           \/ \E p \in Prompts : Draw(p) \/ Store(p)
           \/ \E m, next : /\ Closes(m, next) /\ GoesOn(m, next)
                           /\ Calm(m) \/ CompactDone
<1>1. draft.over \in BOOLEAN
  BY DEF TypeOK, Message
<1>2. CASE StepDone \/ StepCalls \/ StepOverflows \/ StepBreaks
  BY <1>2, StepCloses, Zenon
<1>3. CASE CompactFails \/ (Cancel /\ pc = "streaming")
  BY <1>3, EndCloses, Zenon
<1>4. CASE SubtaskDone
  BY <1>4, SubtaskCloses, Zenon
<1>5. CASE CompactDone
  BY <1>5, CompactCloses, Zenon
<1>6. CASE Shrink \/ Compress \/ \E x \in Summaries : Summarize(x)
  BY <1>1, <1>6, AskSteps, Zenon
<1>7. CASE (\E p \in Prompts : Enter(p)) \/ (\E x \in Summaries : Clean(x))
  BY <1>7, TrimSteps, Zenon
<1>8. CASE \/ \E x \in Summaries : JoinStored(x)
           \/ \E k \in Reverts : ChooseRevert(k) \/ SetRevert(k)
           \/ Unrevert \/ Die \/ Exit \/ Falter \/ Crash
           \/ Cancel /\ pc # "streaming"
           \/ UNCHANGED vars
  BY <1>8, IdleSteps, Zenon
<1>9. CASE Turn \/ Begin \/ \E p \in Prompts : Draw(p) \/ Store(p)
  BY <1>9, Zenon
<1> QED
  BY <1>2, <1>3, <1>4, <1>5, <1>6, <1>7, <1>8, <1>9 DEF Next, LoopStep

-----------------------------------------------------------------------------
(* Messages differ.                                                        *)

DifferInv == TypeOK /\ MessagesDiffer /\ SlipsDiffer /\ DraftOK

LEMMA KnownTypes == ASSUME TypeOK PROVE Known \in SUBSET Message
  BY DEF TypeOK, Known, Writing

LEMMA TwinsAre ==
    ASSUME NEW m \in Message, NEW n \in Message, NEW o \in Message
    PROVE  /\ Twins(m, m)
           /\ Twins(m, n) => Twins(n, m)
           /\ Twins(m, n) /\ Twins(n, o) => Twins(m, o)
  BY DEF Twins, Message

\* New messages are states of known ones or made at the next time.
LEMMA DifferKept ==
    ASSUME DifferInv, TypeOK', clock' \in {clock, clock + 1}, slip' = slip, NEW f, Fresh(f),
           \A p \in Prompts : call'[p] \in {"drawn", "resolving"} => call'[p] = call[p],
           \A m \in Known' : KindOK(m) /\ \/ \E n \in Known : Twins(m, n)
                                          \/ clock' = clock + 1 /\ Twins(m, f)
    PROVE  MessagesDiffer' /\ SlipsDiffer'
<1>1. /\ Known \in SUBSET Message /\ Known' \in SUBSET Message /\ f \in Message
      /\ clock \in Nat /\ clock' \in Nat /\ Skew \in Nat
  BY KnownTypes DEF DifferInv, TypeOK, Known, Writing, Fresh
<1>2. \A m \in Known' : Stamped(m)'
  <2>1. ASSUME NEW m \in Known', NEW n \in Known, Twins(m, n) PROVE Stamped(m)'
    BY <1>1, <2>1 DEF DifferInv, MessagesDiffer, Stamped, Twins
  <2>2. ASSUME NEW m \in Known', clock' = clock + 1, Twins(m, f) PROVE Stamped(m)'
    BY <1>1, <2>2 DEF Stamped, Twins, Fresh
  <2> QED
    BY <2>1, <2>2
<1>3. \A n \in Known : n.id # f.id /\ n.at # f.at
  BY <1>1 DEF DifferInv, MessagesDiffer, Stamped, Fresh, ServerId, ClientId
<1>4. ASSUME NEW m \in Known', NEW n \in Known', m.id = n.id \/ m.at = n.at
      PROVE  Twins(m, n)
  <2>1. ASSUME NEW m0 \in Known, NEW n0 \in Known, Twins(m, m0), Twins(n, n0)
        PROVE  Twins(m, n)
    <3>1. m0.id = n0.id \/ m0.at = n0.at
      BY <1>4, <2>1 DEF Twins
    <3>2. Twins(m0, n0)
      BY <3>1 DEF DifferInv, MessagesDiffer
    <3> QED
      BY <1>1, <2>1, <3>2, TwinsAre
  <2>2. ASSUME NEW m0 \in Known, Twins(m, m0), Twins(n, f) PROVE FALSE
    BY <1>3, <1>4, <2>2 DEF Twins
  <2>3. ASSUME NEW n0 \in Known, Twins(n, n0), Twins(m, f) PROVE FALSE
    BY <1>3, <1>4, <2>3 DEF Twins
  <2>4. ASSUME Twins(m, f), Twins(n, f) PROVE Twins(m, n)
    BY <1>1, <2>4, TwinsAre
  <2> QED
    BY <2>1, <2>2, <2>3, <2>4
<1>5. MessagesDiffer'
  BY <1>2, <1>4 DEF MessagesDiffer
<1>6. \A p \in Prompts : slip[p].id \in Nat /\ slip[p].at \in Nat
  BY DEF DifferInv, TypeOK
<1>7. ASSUME NEW p \in Prompts, call'[p] = "drawn"
      PROVE  /\ \E k \in 1..clock' : slip'[p].id = ClientId(k)
             /\ \A m \in Known' : m.id # slip'[p].id
  <2>1. /\ \E k \in 1..clock : slip[p].id = ClientId(k)
        /\ \A m \in Known : m.id # slip[p].id
    BY <1>7 DEF DifferInv, SlipsDiffer
  <2>2. f.id # slip[p].id
    BY <1>1, <2>1 DEF Fresh, ServerId, ClientId
  <2> QED
    BY <1>1, <2>1, <2>2 DEF Twins
<1>8. ASSUME NEW p \in Prompts, call'[p] = "resolving"
      PROVE  /\ slip'[p].at \in 1..clock'
             /\ \/ slip'[p].id = ServerId(slip'[p].at)
                \/ \E k \in 1..(slip'[p].at - 1) : slip'[p].id = ClientId(k)
             /\ \A m \in Known' : m.id # slip'[p].id /\ m.at # slip'[p].at
  <2>1. /\ slip[p].at \in 1..clock
        /\ \/ slip[p].id = ServerId(slip[p].at)
           \/ \E k \in 1..(slip[p].at - 1) : slip[p].id = ClientId(k)
        /\ \A m \in Known : m.id # slip[p].id /\ m.at # slip[p].at
    BY <1>8 DEF DifferInv, SlipsDiffer
  <2>2. f.id # slip[p].id /\ f.at # slip[p].at
    BY <1>1, <1>6, <2>1 DEF Fresh, ServerId, ClientId
  <2>3. \A m \in Known' : m.id # slip[p].id /\ m.at # slip[p].at
    BY <2>1, <2>2 DEF Twins
  <2> QED
    BY <1>1, <2>1, <2>3
<1>9. \A p, q \in Prompts :
          p # q /\ call'[p] \in {"drawn", "resolving"} /\ call'[q] \in {"drawn", "resolving"} =>
             /\ slip'[p].id # slip'[q].id
             /\ call'[p] = "resolving" /\ call'[q] = "resolving" => slip'[p].at # slip'[q].at
  BY DEF DifferInv, SlipsDiffer
<1>10. SlipsDiffer'
  BY <1>7, <1>8, <1>9 DEF SlipsDiffer
<1> QED
  BY <1>5, <1>10

\* There is such a message, whether a step makes one or not.
LEMMA SomeFresh == ASSUME TypeOK PROVE \E f : Fresh(f)
<1>1. PICK g : g = Made(clock + 1, None, "none")
  OBVIOUS
<1>2. clock + 1 \in Nat
  BY DEF TypeOK
<1>3. g \in Message
  BY <1>1, <1>2, MadeTypes
<1>4. g.id = ServerId(clock + 1) /\ g.at = clock + 1
  BY <1>1, MadeSays
<1> QED
  BY <1>3, <1>4 DEF Fresh

\* What a prompt brings with it, it has not shared.
LEMMA EnterDiffers ==
    ASSUME DifferInv, TypeOK', NEW p \in Prompts, Draw(p) \/ Enter(p)
    PROVE  MessagesDiffer' /\ SlipsDiffer'
<1>1. /\ Known' \subseteq Known /\ Known \in SUBSET Message
      /\ clock \in Nat /\ clock' = clock + 1 /\ Skew \in Nat
  BY KnownTypes DEF DifferInv, TypeOK, Known, Writing, Draw, Enter, loopVars, Kept
<1>2. \A m \in Known : Stamped(m) /\ m.id \in Nat /\ m.at \in Nat
  BY <1>1 DEF DifferInv, MessagesDiffer, Message
<1>3. \A m \in Known : Stamped(m)'
  BY <1>1, <1>2 DEF Stamped
<1>4. MessagesDiffer'
  BY <1>1, <1>3 DEF DifferInv, MessagesDiffer
<1>5. \A q \in Prompts : slip[q].id \in Nat /\ slip[q].at \in Nat
  BY DEF DifferInv, TypeOK
<1>6. \A q \in Prompts : q # p => slip'[q] = slip[q] /\ call'[q] = call[q]
  BY DEF Draw, Enter, DifferInv, TypeOK, Callers
<1>7. ASSUME NEW q \in Prompts, q # p, call[q] = "drawn"
      PROVE  /\ \E k \in 1..clock : slip[q].id = ClientId(k)
             /\ \A m \in Known : m.id # slip[q].id
             /\ slip[q].id # ServerId(clock + 1) /\ slip[q].id # ClientId(clock + 1)
  <2>1. /\ \E k \in 1..clock : slip[q].id = ClientId(k)
        /\ \A m \in Known : m.id # slip[q].id
    BY <1>7 DEF DifferInv, SlipsDiffer
  <2> QED
    BY <1>1, <2>1 DEF ServerId, ClientId
<1>8. ASSUME NEW q \in Prompts, q # p, call[q] = "resolving"
      PROVE  /\ slip[q].at \in 1..clock
             /\ \/ slip[q].id = ServerId(slip[q].at)
                \/ \E k \in 1..(slip[q].at - 1) : slip[q].id = ClientId(k)
             /\ \A m \in Known : m.id # slip[q].id /\ m.at # slip[q].at
             /\ slip[q].id # ServerId(clock + 1) /\ slip[q].id # ClientId(clock + 1)
  <2>1. /\ slip[q].at \in 1..clock
        /\ \/ slip[q].id = ServerId(slip[q].at)
           \/ \E k \in 1..(slip[q].at - 1) : slip[q].id = ClientId(k)
        /\ \A m \in Known : m.id # slip[q].id /\ m.at # slip[q].at
    BY <1>8 DEF DifferInv, SlipsDiffer
  <2> QED
    BY <1>1, <1>5, <2>1 DEF ServerId, ClientId
<1>9. CASE Draw(p)
  <2>1. call'[p] = "drawn" /\ slip'[p].id = ClientId(clock + 1)
    BY <1>9 DEF Draw, DifferInv, TypeOK, Callers
  <2>2. \A m \in Known : m.id # ClientId(clock + 1)
    BY <1>1, <1>2 DEF Stamped, ServerId, ClientId
  <2>3. \A q \in Prompts : call'[q] = "drawn" =>
          /\ \E k \in 1..clock' : slip'[q].id = ClientId(k)
          /\ \A m \in Known' : m.id # slip'[q].id
    BY <1>1, <1>6, <1>7, <2>1, <2>2
  <2>4. \A q \in Prompts : call'[q] = "resolving" =>
          /\ slip'[q].at \in 1..clock'
          /\ \/ slip'[q].id = ServerId(slip'[q].at)
             \/ \E k \in 1..(slip'[q].at - 1) : slip'[q].id = ClientId(k)
          /\ \A m \in Known' : m.id # slip'[q].id /\ m.at # slip'[q].at
    BY <1>1, <1>6, <1>8, <2>1
  <2>5. \A q, r \in Prompts :
          q # r /\ call'[q] \in {"drawn", "resolving"} /\ call'[r] \in {"drawn", "resolving"} =>
             /\ slip'[q].id # slip'[r].id
             /\ call'[q] = "resolving" /\ call'[r] = "resolving" => slip'[q].at # slip'[r].at
    BY <1>6, <1>7, <1>8, <2>1 DEF DifferInv, SlipsDiffer
  <2> QED
    BY <1>4, <2>3, <2>4, <2>5 DEF SlipsDiffer
<1>10. CASE Enter(p)
  <2>1. /\ call'[p] = "resolving" /\ slip'[p].at = clock + 1
        /\ \/ slip'[p].id = ServerId(clock + 1)
           \/ call[p] = "drawn" /\ slip'[p].id = slip[p].id
    BY <1>10 DEF Enter, DifferInv, TypeOK, Callers
  <2>2. \A m \in Known : m.id # ServerId(clock + 1) /\ m.at # clock + 1
    BY <1>1, <1>2 DEF Stamped, ServerId, ClientId
  <2>3. call[p] = "drawn" =>
          /\ \E k \in 1..clock : slip[p].id = ClientId(k)
          /\ \A m \in Known : m.id # slip[p].id
    BY DEF DifferInv, SlipsDiffer
  <2>4. \A q \in Prompts : call'[q] = "drawn" =>
          /\ \E k \in 1..clock' : slip'[q].id = ClientId(k)
          /\ \A m \in Known' : m.id # slip'[q].id
    BY <1>1, <1>6, <1>7, <2>1
  <2>5. /\ slip'[p].at \in 1..clock'
        /\ \/ slip'[p].id = ServerId(slip'[p].at)
           \/ \E k \in 1..(slip'[p].at - 1) : slip'[p].id = ClientId(k)
        /\ \A m \in Known' : m.id # slip'[p].id /\ m.at # slip'[p].at
    BY <1>1, <2>1, <2>2, <2>3
  <2>6. \A q \in Prompts : call'[q] = "resolving" /\ q # p =>
          /\ slip'[q].at \in 1..clock'
          /\ \/ slip'[q].id = ServerId(slip'[q].at)
             \/ \E k \in 1..(slip'[q].at - 1) : slip'[q].id = ClientId(k)
          /\ \A m \in Known' : m.id # slip'[q].id /\ m.at # slip'[q].at
    BY <1>1, <1>6, <1>8
  <2>7. ASSUME NEW q \in Prompts, q # p, call'[q] \in {"drawn", "resolving"}
        PROVE  /\ slip'[q].id # slip'[p].id
               /\ call'[q] = "resolving" => slip'[q].at # slip'[p].at
    <3>1. slip[q].id # ServerId(clock + 1)
      BY <1>6, <1>7, <1>8, <2>7
    <3>2. call[p] = "drawn" => slip[q].id # slip[p].id
      BY <1>6, <2>7 DEF DifferInv, SlipsDiffer
    <3>3. call[q] = "resolving" => slip[q].at # clock + 1
      BY <1>1, <1>5, <1>8, <2>7
    <3> QED
      BY <1>6, <2>1, <2>7, <3>1, <3>2, <3>3
  <2>8. \A q, r \in Prompts :
          q # r /\ call'[q] \in {"drawn", "resolving"} /\ call'[r] \in {"drawn", "resolving"} =>
             /\ slip'[q].id # slip'[r].id
             /\ call'[q] = "resolving" /\ call'[r] = "resolving" => slip'[q].at # slip'[r].at
    BY <1>6, <2>7 DEF DifferInv, SlipsDiffer
  <2> QED
    BY <1>4, <2>4, <2>5, <2>6, <2>8 DEF SlipsDiffer
<1> QED
  BY <1>9, <1>10

\* The message that a prompt stores.
Said(p) == UserMessage(slip[p].id, slip[p].at, p, IF p \in Commands THEN "subtask" ELSE "none")

LEMMA SaidSays ==
    ASSUME TypeOK, NEW p \in Prompts
    PROVE  \E m \in Message : /\ m = Said(p) /\ m.id = slip[p].id /\ m.at = slip[p].at
                              /\ m.role = "user" /\ m.of = p /\ m.task # "compact" /\ KindOK(m)
<1>1. PICK task \in {"none", "subtask"} : task = IF p \in Commands THEN "subtask" ELSE "none"
  BY Zenon
<1>2. PICK m : m = UserMessage(slip[p].id, slip[p].at, p, task)
  OBVIOUS
<1>3. m = Said(p)
  BY <1>1, <1>2, Zenon DEF Said
<1>4. m \in Message
  BY <1>2, UserMessageTypes DEF TypeOK, Callers
<1>5. /\ m.id = slip[p].id /\ m.at = slip[p].at /\ m.role = "user" /\ m.of = p /\ m.task = task
      /\ ~m.over
  BY <1>2, UserMessageSays
<1> QED
  BY <1>1, <1>3, <1>4, <1>5 DEF KindOK

LEMMA StoreSteps ==
    ASSUME TypeOK, NEW p \in Prompts, Store(p)
    PROVE  /\ call[p] = "resolving" /\ call'[p] \in {"waiting", "answered"}
           /\ \A x \in Callers \cup Reverts : x # p => call'[x] = call[x]
           /\ pc' = pc \/ (pc = "off" /\ pc' = "top")
           /\ call'[p] = "waiting" => pc' # "off"
           /\ hist' = Put(Said(p))
           /\ UNCHANGED <<clock, revert, job, read, draft, slip, plan, heard, undone>>
           /\ late \subseteq late' /\ blind \subseteq blind'
           /\ Reading => p \in blind'
           /\ \/ p \in late'
              \/ \A m \in hist \cup {draft} :
                    m.role = "assistant" \/ (m \in hist /\ m.task = "compact") =>
                       m.id <= slip[p].id /\ m.at <= slip[p].at
<1>1. /\ call[p] = "resolving" /\ call'[p] \in {"waiting", "answered"}
      /\ \A x \in Callers \cup Reverts : x # p => call'[x] = call[x]
      /\ pc' = pc \/ (pc = "off" /\ pc' = "top")
      /\ call'[p] = "waiting" => pc' # "off"
  BY DEF Store, Join, TypeOK, Callers
<1>2. /\ hist' = Put(Said(p)) /\ UNCHANGED <<clock, revert, job, read, draft, slip, plan, heard, undone>>
      /\ late \subseteq late' /\ blind \subseteq blind' /\ (Reading => p \in blind')
  BY DEF Store, Said
<1>3. p \in late' \/ ~\E m \in Assistants(hist \cup {draft}) \cup (Users(hist) \ Plain(hist)) :
                       m.id > slip[p].id \/ m.at > slip[p].at
  BY DEF Store
<1>4. ASSUME ~\E m \in Assistants(hist \cup {draft}) \cup (Users(hist) \ Plain(hist)) :
                       m.id > slip[p].id \/ m.at > slip[p].at,
             NEW m \in hist \cup {draft},
             m.role = "assistant" \/ (m \in hist /\ m.task = "compact")
      PROVE  m.id <= slip[p].id /\ m.at <= slip[p].at
  <2>1. m \in Message /\ slip[p].id \in Nat /\ slip[p].at \in Nat
    BY DEF TypeOK
  <2>2. m \in Assistants(hist \cup {draft}) \cup (Users(hist) \ Plain(hist))
    BY <1>4, <2>1 DEF Assistants, Users, Plain, Message
  <2> QED
    BY <1>4, <2>1, <2>2 DEF Message
<1> QED
  BY <1>1, <1>2, <1>3, <1>4

LEMMA StoreDiffers ==
    ASSUME DifferInv, TypeOK', NEW p \in Prompts, Store(p)
    PROVE  MessagesDiffer' /\ SlipsDiffer'
<1>0. TypeOK
  BY DEF DifferInv
<1>1. PICK m \in Message : /\ m = Said(p) /\ m.id = slip[p].id /\ m.at = slip[p].at
                           /\ m.role = "user" /\ m.of = p /\ m.task # "compact" /\ KindOK(m)
  BY <1>0, SaidSays
<1>2. /\ call[p] = "resolving" /\ call'[p] \notin {"drawn", "resolving"}
      /\ \A q \in Prompts : q # p => call'[q] = call[q]
      /\ pc' = pc \/ (pc = "off" /\ pc' = "top")
      /\ hist' = Put(m) /\ UNCHANGED <<clock, read, draft, slip>>
  BY <1>0, <1>1, StoreSteps DEF Callers
<1>3. Known' \subseteq Known \cup {m} /\ Known \in SUBSET Message
  BY <1>0, <1>2, KnownTypes DEF Known, Writing, Put
<1>4. /\ Stamped(m) /\ \A n \in Known : n.id # m.id /\ n.at # m.at
  BY <1>1, <1>2 DEF DifferInv, SlipsDiffer, Stamped
<1>5. MessagesDiffer'
  <2>1. \A n \in Known' : Stamped(n)' /\ KindOK(n)
    BY <1>1, <1>2, <1>3, <1>4 DEF DifferInv, MessagesDiffer, Stamped
  <2>2. \A n, o \in Known' : n.id = o.id \/ n.at = o.at => Twins(n, o)
    BY <1>1, <1>3, <1>4, TwinsAre DEF DifferInv, MessagesDiffer
  <2> QED
    BY <2>1, <2>2 DEF MessagesDiffer
<1>6. \A q \in Prompts : q # p /\ call[q] \in {"drawn", "resolving"} =>
          /\ m.id # slip[q].id
          /\ call[q] = "resolving" => m.at # slip[q].at
  BY <1>1, <1>2 DEF DifferInv, SlipsDiffer
<1>7. SlipsDiffer'
  BY <1>2, <1>3, <1>6 DEF DifferInv, SlipsDiffer
<1> QED
  BY <1>5, <1>7

LEMMA DraftKept == ASSUME DifferInv, TypeOK', [Next]_vars PROVE DraftOK'
<1>0. TypeOK /\ DraftOK
  BY DEF DifferInv
<1>1. ASSUME \/ pc' = pc /\ UNCHANGED <<job, read, draft>>
             \/ pc' \notin {"ready", "streaming"}
      PROVE  DraftOK'
  BY <1>0, <1>1 DEF DraftOK
<1>2. CASE Idle
  BY <1>1, <1>2 DEF Idle, CallsLeft
<1>3. CASE Trims
  BY <1>1, <1>3 DEF Trims
<1>4. CASE \E g : Asks(g)
  <2>1. PICK g : Asks(g)
    BY <1>4
  <2> QED
    <3>1. CASE pc' = "top"
      BY <3>1 DEF DraftOK
    <3>2. CASE UNCHANGED <<pc, job, read, draft>>
      BY <1>1, <3>2
    <3> QED
      BY <2>1, <3>1, <3>2 DEF Asks
<1>5. CASE \E p \in Prompts : Draw(p) \/ Store(p)
  <2>1. UNCHANGED <<job, read, draft>> /\ (pc' = pc \/ pc' = "top")
    BY <1>0, <1>5, StoreSteps DEF Draw, loopVars
  <2> QED
    BY <1>1, <2>1
<1>6. CASE \E m, next : Closes(m, next)
  BY <1>6 DEF Closes, DraftOK
<1>7. CASE Turn
  <2>1. PICK t \in Window \cup {Blank} : draft' = t /\ pc' = "ready"
    BY <1>7 DEF Turn
  <2>2. t.over => t.auto
    <3>1. ~Blank.over
      BY UserMessageSays DEF Blank
    <3>2. \A m \in Window : m.over => m.auto
      BY DEF Window, DifferInv, MessagesDiffer, Known, KindOK
    <3> QED
      BY <3>1, <3>2
  <2> QED
    BY <2>1, <2>2 DEF DraftOK
<1>8. CASE Begin
  <2>1. PICK u \in read :
          /\ IsNewest(u, Users(read))
          /\ draft' = [Answer(clock + 1, u.id, job = "compact") EXCEPT !.auto = draft.auto, !.over = draft.over]
    BY <1>8 DEF Begin
  <2>2. PICK b \in BOOLEAN : b = (job = "compact")
    OBVIOUS
  <2>3. PICK a : a = Answer(clock + 1, u.id, b)
    OBVIOUS
  <2>4. draft' = [a EXCEPT !.auto = draft.auto, !.over = draft.over]
    BY <2>1, <2>2, <2>3, Zenon
  <2>5. /\ a.id = ServerId(clock + 1) /\ a.at = clock + 1 /\ a.role = "assistant" /\ a.of = None
        /\ a.task = "none" /\ a.parent = u.id /\ a.summary = b
    BY <2>3, AnswerSays
  <2>6. u.id \in Nat /\ clock + 1 \in Nat
    BY <1>0 DEF TypeOK, Message
  <2>7. a \in Message
    BY <2>3, <2>6, AnswerTypes, Zenon
  <2>8. /\ draft'.over = draft.over /\ draft'.auto = draft.auto
        /\ draft'.id = a.id /\ draft'.at = a.at /\ draft'.role = a.role /\ draft'.of = a.of
        /\ draft'.task = a.task /\ draft'.parent = a.parent /\ draft'.summary = a.summary
    BY <2>4, <2>7 DEF Message
  <2>9. pc = "ready" /\ pc' = "streaming" /\ read' = read /\ job' = job
    BY <1>8 DEF Begin
  <2>10. draft.over => draft.auto
    BY <1>0, <2>9 DEF DraftOK
  <2> QED
    BY <2>1, <2>2, <2>5, <2>8, <2>9, <2>10 DEF DraftOK
<1> QED
  BY <1>0, <1>2, <1>3, <1>4, <1>5, <1>6, <1>7, <1>8, Steps

LEMMA BeginDiffers ==
    ASSUME DifferInv, Begin
    PROVE  \E a \in Message, d \in Message :
              /\ Fresh(a) /\ Twins(d, a) /\ KindOK(a) /\ KindOK(d) /\ a.role = "assistant"
              /\ ~Ended(a) /\ a.of = None /\ a.at = d.at /\ a.id = d.id
              /\ hist' = hist \cup {a} /\ draft' = d
<1>0. TypeOK /\ DraftOK /\ pc = "ready"
  BY DEF DifferInv, Begin
<1>1. PICK u \in read :
          /\ hist' = hist \cup {Answer(clock + 1, u.id, job = "compact")}
          /\ draft' = [Answer(clock + 1, u.id, job = "compact") EXCEPT !.auto = draft.auto, !.over = draft.over]
  BY DEF Begin
<1>2. PICK b \in BOOLEAN : b = (job = "compact")
  OBVIOUS
<1>3. PICK a : a = Answer(clock + 1, u.id, b)
  OBVIOUS
<1>4. hist' = hist \cup {a} /\ draft' = [a EXCEPT !.auto = draft.auto, !.over = draft.over]
  BY <1>1, <1>2, <1>3, Zenon
<1>5. /\ a.id = ServerId(clock + 1) /\ a.at = clock + 1 /\ a.role = "assistant" /\ a.of = None
      /\ a.task = "none" /\ a.parent = u.id /\ a.summary = b /\ ~a.over
  BY <1>3, AnswerSays
<1>6. u.id \in Nat /\ clock + 1 \in Nat /\ draft \in Message
  BY <1>0 DEF TypeOK, Message
<1>7. a \in Message
  BY <1>3, <1>6, AnswerTypes, Zenon
<1>8. ~Ended(a)
  BY <1>3 DEF Ended, Answer, Made, UserMessage
<1>9. PICK d : d = draft'
  OBVIOUS
<1>10. /\ d \in Message /\ d.over = draft.over /\ d.auto = draft.auto
       /\ d.id = a.id /\ d.at = a.at /\ d.role = a.role /\ d.of = a.of
       /\ d.task = a.task /\ d.parent = a.parent /\ d.summary = a.summary
  BY <1>4, <1>6, <1>7, <1>9 DEF Message
<1>11. draft.over => draft.auto
  BY <1>0 DEF DraftOK
<1>12. Fresh(a) /\ Twins(d, a) /\ KindOK(a) /\ KindOK(d)
  BY <1>5, <1>7, <1>10, <1>11 DEF Fresh, Twins, KindOK
<1> QED
  BY <1>4, <1>5, <1>7, <1>8, <1>9, <1>10, <1>12

LEMMA CloseDiffers ==
    ASSUME DifferInv, NEW m, NEW next, Closes(m, next)
    PROVE  /\ m.role = "assistant" /\ m.of = None /\ m.id = draft.id /\ m.at = draft.at
           /\ Twins(m, draft) /\ draft \in Known /\ KindOK(m) /\ m \in Message
           /\ \A n \in hist : n.role = "user" => n.id # m.id
           /\ \A n \in hist : n.role = "user" => n \in hist'
           /\ \A n \in hist' : n \in hist \/ n = m \/ n \in next
<1>1. /\ TypeOK /\ DraftOK /\ Version(m) /\ pc = "streaming" /\ hist' = Put(m) \cup next
  BY DEF DifferInv, Closes
<1>2. /\ m.role = "assistant" /\ m.of = None /\ m.id = draft.id /\ m.at = draft.at
      /\ Twins(m, draft) /\ draft \in Known /\ KindOK(m) /\ m \in Message
  BY <1>1 DEF DraftOK, Version, Twins, Known, Writing, KindOK
<1>3. \A n \in hist : n.role = "user" => n.id # m.id
  BY <1>2 DEF DifferInv, MessagesDiffer, Twins, Known
<1> QED
  BY <1>1, <1>2, <1>3 DEF Put

LEMMA StepDiffers == ASSUME DifferInv, [Next]_vars PROVE DifferInv'
<1>0. TypeOK /\ DraftOK /\ TypeOK'
  BY StepTypes DEF DifferInv
<1>1. DraftOK'
  BY <1>0, DraftKept
<1> SUFFICES MessagesDiffer' /\ SlipsDiffer'
  BY <1>0, <1>1 DEF DifferInv
<1>2. Known \in SUBSET Message
  BY <1>0, KnownTypes
<1>3. PICK f : Fresh(f)
  BY <1>0, SomeFresh
<1>4. ASSUME Known' \subseteq Known, UNCHANGED <<clock, slip>>,
             \A p \in Prompts : call'[p] \in {"drawn", "resolving"} => call'[p] = call[p]
      PROVE  MessagesDiffer' /\ SlipsDiffer'
  <2>1. \A m \in Known' : KindOK(m) /\ \E n \in Known : Twins(m, n)
    BY <1>2, <1>4, TwinsAre DEF DifferInv, MessagesDiffer
  <2> QED
    BY <1>0, <1>3, <1>4, <2>1, DifferKept
<1>5. CASE Idle
  BY <1>4, <1>5 DEF Idle, CallsLeft, CallsStay, Known, Writing, Callers
<1>6. CASE Turn
  BY <1>4, <1>6 DEF Turn, Known, Writing, Window
<1>7. CASE \E x \in Summaries : Clean(x)
  BY <1>0, <1>4, <1>7 DEF Clean, Known, Writing, loopVars, Kept, TypeOK, Callers
<1>8. CASE \E p \in Prompts : Draw(p) \/ Enter(p)
  BY <1>0, <1>8, EnterDiffers
<1>9. CASE \E p \in Prompts : Store(p)
  BY <1>0, <1>9, StoreDiffers
<1>10. CASE Begin
  <2>1. PICK a \in Message, d \in Message :
              /\ Fresh(a) /\ Twins(d, a) /\ KindOK(a) /\ KindOK(d)
              /\ hist' = hist \cup {a} /\ draft' = d
    BY <1>10, BeginDiffers
  <2>2. clock' = clock + 1 /\ UNCHANGED <<slip, call, read>>
    BY <1>10 DEF Begin
  <2>3. Known' \subseteq Known \cup {a, d}
    BY <2>1, <2>2 DEF Known, Writing
  <2>4. \A m \in Known' : KindOK(m) /\ ((\E n \in Known : Twins(m, n)) \/ Twins(m, a))
    BY <1>2, <2>1, <2>3, TwinsAre DEF DifferInv, MessagesDiffer
  <2> QED
    BY <1>0, <2>1, <2>2, <2>4, DifferKept
<1>11. CASE \E g : Asks(g)
  <2>1. PICK g : Asks(g)
    BY <1>11
  <2>2. /\ Fresh(g) /\ KindOK(g) /\ g \in Message /\ Known' \subseteq Known \cup {g}
        /\ clock' = clock + 1 /\ slip' = slip
    BY <1>0, <2>1 DEF Asks, Fresh, Known, Writing
  <2>3. \A p \in Prompts : call'[p] = call[p]
    BY <2>1 DEF Asks, CallsStay
  <2>4. \A m \in Known' : KindOK(m) /\ ((\E n \in Known : Twins(m, n)) \/ Twins(m, g))
    BY <1>2, <2>2, TwinsAre DEF DifferInv, MessagesDiffer
  <2> QED
    BY <1>0, <2>2, <2>3, <2>4, DifferKept
<1>12. CASE \E m, next : Closes(m, next)
  <2>1. PICK m, next : Closes(m, next)
    BY <1>12
  <2>2. Twins(m, draft) /\ draft \in Known /\ KindOK(m) /\ m \in Message
    BY <2>1, CloseDiffers
  <2>3. /\ Known' \subseteq Known \cup {m} \cup next
        /\ slip' = slip /\ \A p \in Prompts : call'[p] \in {"drawn", "resolving"} => call'[p] = call[p]
    BY <2>1 DEF Closes, Known, Writing, Put, CallsLeft, Callers
  <2>4. PICK g : /\ Fresh(g)
                 /\ \/ next = {} /\ clock' = clock
                    \/ next = {g} /\ clock' = clock + 1 /\ KindOK(g)
    BY <1>3, <2>1 DEF Closes
  <2>5. \A n \in Known' : /\ KindOK(n)
                          /\ (\E o \in Known : Twins(n, o)) \/ (clock' = clock + 1 /\ Twins(n, g))
    BY <1>2, <2>2, <2>3, <2>4, TwinsAre DEF DifferInv, MessagesDiffer, Fresh
  <2>6. clock' \in {clock, clock + 1}
    BY <2>4
  <2> QED
    BY <1>0, <2>3, <2>4, <2>5, <2>6, DifferKept
<1> QED
  BY <1>0, <1>5, <1>6, <1>7, <1>8, <1>9, <1>10, <1>11, <1>12, Steps

-----------------------------------------------------------------------------
(* What compactions cut off.                                               *)

MemoryInv == DifferInv /\ CutsBelow /\ Remembered /\ NothingForgotten

LEMMA CutsAre ==
    ASSUME NEW S, NEW c
    PROVE  c \in Cuts(S) <=>
              /\ c \in S /\ c.role = "user" /\ c.task = "compact"
              /\ \E s \in S : /\ s.role = "assistant" /\ Ended(s)
                              /\ s.summary /\ ~s.error /\ s.parent = c.id /\ s.at > c.at
  BY Zenon DEF Cuts, Users, Finished, Assistants, Ended

LEMMA KnownTimes ==
    ASSUME DifferInv, NEW m \in Known
    PROVE  m \in Message /\ m.at \in Nat /\ m.at <= clock /\ m.id \in Nat
  BY KnownTypes DEF DifferInv, MessagesDiffer, Stamped, Message, TypeOK

\* Messages that a step adds without cutting anything off: of the next time; an answer
\* that is no summary; a prompt, which is late or above all requests.
New(m) ==
    \/ m.role = "user" /\ m.at = clock + 1 /\ clock' = clock + 1
    \/ m.role = "assistant" /\ m.of = None /\ Calm(m)
    \/ /\ m.role = "user" /\ m.task # "compact"
       /\ m.of \in late' \/ \A c \in Users(hist) : c.task = "compact" => c.at <= m.at

LEMMA CutsKept ==
    ASSUME DifferInv', \A m \in hist' : m \in hist \/ New(m)
    PROVE  Cuts(hist') \subseteq Cuts(hist)
<1> SUFFICES ASSUME NEW c \in Cuts(hist') PROVE c \in Cuts(hist)
  OBVIOUS
<1>1. /\ c \in hist' /\ c.role = "user" /\ c.task = "compact"
      /\ \E s \in hist' : /\ s.role = "assistant" /\ Ended(s)
                          /\ s.summary /\ ~s.error /\ s.parent = c.id /\ s.at > c.at
  BY CutsAre
<1>2. PICK s \in hist' : /\ s.role = "assistant" /\ Ended(s)
                         /\ s.summary /\ ~s.error /\ s.parent = c.id /\ s.at > c.at
  BY <1>1
<1>3. s \in hist
  BY <1>2 DEF New, Calm
<1>4. s.at \in Nat /\ s.at <= clock' /\ clock' \in Nat
  BY <1>2 DEF DifferInv, MessagesDiffer, Known, Stamped, TypeOK
<1>5. c \in hist
  <2>1. ~New(c)
    BY <1>1, <1>2, <1>4 DEF New
  <2> QED
    BY <1>1, <2>1
<1> QED
  BY <1>1, <1>2, <1>3, <1>5, CutsAre

LEMMA MemoryKept ==
    ASSUME MemoryInv, DifferInv', heard \subseteq heard', late \subseteq late', undone \subseteq undone',
           \A m \in hist : m.of \in Prompts => m \in hist' \/ m.of \in undone',
           \A m \in hist' : m \in hist \/ New(m),
           pc' \in {"ready", "streaming"} => pc \in {"ready", "streaming"} /\ read' = read
    PROVE  MemoryInv'
<1>1. Cuts(hist') \subseteq Cuts(hist)
  BY CutsKept
<1>2. \A m \in hist \cup read : m \in Message /\ m.at \in Nat /\ m.at <= clock /\ KindOK(m)
  BY KnownTimes DEF MemoryInv, DifferInv, MessagesDiffer, Known
<1>3. clock \in Nat
  BY DEF MemoryInv, DifferInv, TypeOK
<1>4. CutsBelow'
  BY <1>1 DEF MemoryInv, CutsBelow
<1>5. \A c \in Cuts(hist) : c \in Users(hist) /\ c.task = "compact"
  BY CutsAre DEF Users
<1>6. ASSUME NEW p, Waits(p)' PROVE Waits(p) /\ p \in Prompts /\ p \notin late' \cup undone'
  BY <1>6 DEF Waits
<1>7. ASSUME NEW n \in Window, Waits(n.of)' PROVE n \in Window'
  BY <1>1, <1>6, <1>7 DEF Window
<1>8. ASSUME NEW m \in hist', m \notin hist, Waits(m.of)'
      PROVE  \A c \in Users(hist) : c.task = "compact" => c.at <= m.at
  <2>1. New(m) /\ m.of # None
    BY <1>6, <1>8 DEF Callers
  <2>2. CASE m.at = clock + 1
    BY <1>2, <1>3, <2>2 DEF Users
  <2>3. CASE m.at # clock + 1
    BY <1>6, <1>8, <2>1, <2>3 DEF New
  <2> QED
    BY <2>2, <2>3
<1>9. ASSUME NEW m \in hist', m \notin hist, Waits(m.of)' PROVE m \in Window'
  BY <1>1, <1>5, <1>8, <1>9 DEF Window
<1>10. NothingForgotten'
  <2> SUFFICES ASSUME NEW m \in hist', Waits(m.of)' PROVE \E n \in Window' : n.of = m.of
    BY DEF NothingForgotten, Unheard, Waits
  <2>1. CASE m \in hist
    <3>1. Waits(m.of)
      BY <1>6
    <3>2. PICK n \in Window : n.of = m.of
      BY <2>1, <3>1 DEF MemoryInv, NothingForgotten, Unheard, Waits
    <3> QED
      BY <1>7, <3>2
  <2> QED
    BY <1>9, <2>1
<1>11. Remembered'
  <2> SUFFICES ASSUME pc' \in {"ready", "streaming"}, NEW m \in hist', Waits(m.of)'
               PROVE  \/ \E n \in read' \cap hist' : n.of = m.of
                      \/ \E n \in Window' :
                            /\ n.of = m.of
                            /\ \A c \in Users(hist' \cap read') : c.task = "compact" => c.at <= n.at
    BY DEF Remembered
  <2>0. pc \in {"ready", "streaming"} /\ read' = read
    OBVIOUS
  <2>1. \A c \in Users(hist' \cap read') : c.task = "compact" => c \in Users(hist \cap read)
    <3>1. ASSUME NEW c \in hist', c \in read, c.role = "user", c.task = "compact" PROVE c \in hist
      <4>1. c.at <= clock /\ c.at \in Nat
        BY <1>2, <3>1
      <4> QED
        BY <1>3, <3>1, <4>1 DEF New
    <3> QED
      BY <2>0, <3>1 DEF Users
  <2>2. CASE m \in hist
    <3>1. Waits(m.of)
      BY <1>6
    <3>2. CASE \E n \in read \cap hist : n.of = m.of
      BY <1>6, <2>0, <3>2
    <3>3. CASE \E n \in Window : /\ n.of = m.of
                                 /\ \A c \in Users(hist \cap read) : c.task = "compact" => c.at <= n.at
      BY <1>7, <2>0, <2>1, <3>3
    <3> QED
      BY <2>0, <2>2, <3>1, <3>2, <3>3 DEF MemoryInv, Remembered
  <2>3. CASE m \notin hist
    <3>1. m \in Window' /\ \A c \in Users(hist) : c.task = "compact" => c.at <= m.at
      BY <1>8, <1>9, <2>3
    <3> QED
      BY <2>1, <3>1 DEF Users
  <2> QED
    BY <2>2, <2>3
<1> QED
  BY <1>4, <1>10, <1>11 DEF MemoryInv

\* The end of a compaction.
LEMMA CompactKeeps ==
    ASSUME MemoryInv, DifferInv', CompactDone, NEW m, NEW next, Closes(m, next)
    PROVE  MemoryInv'
<1>1. /\ TypeOK /\ DraftOK /\ pc = "streaming" /\ pc' = "top" /\ clock \in Nat
      /\ heard' = heard \cup Words({n \in read : Summarised(n)})
      /\ late' = late /\ undone' = undone
  BY Zenon DEF MemoryInv, DifferInv, CompactDone, TypeOK, marks
<1>2. /\ m.role = "assistant" /\ m.of = None /\ m.id = draft.id /\ m.at = draft.at
      /\ \A n \in hist : n.role = "user" => n \in hist'
      /\ \A n \in hist' : n \in hist \/ n = m \/ n \in next
  BY CloseDiffers DEF MemoryInv
<1>3. \A n \in hist \cup read : n \in Message /\ n.at \in Nat /\ n.at <= clock /\ KindOK(n)
  BY KnownTimes DEF MemoryInv, DifferInv, MessagesDiffer, Known
<1>4. \A n, o \in hist \cup read : (n.at = o.at \/ n.id = o.id) /\ n.role = "user" => n = o
  BY DEF MemoryInv, DifferInv, MessagesDiffer, Known, Twins
<1>5. PICK u \in read : IsNewest(u, Users(read)) /\ u.id = draft.parent
  BY <1>1 DEF DraftOK
<1>6. m.parent = draft.parent
  BY DEF Closes, Version
<1>7. \A n \in next : n.role = "user" /\ n.task # "compact" /\ n.at = clock + 1
  BY DEF Closes, Fresh
<1>8. \A c \in Cuts(hist') : c \in Cuts(hist) \/ (c = u /\ u \in hist /\ u.task = "compact")
  <2> SUFFICES ASSUME NEW c \in Cuts(hist'), c \notin Cuts(hist)
               PROVE  c = u /\ u \in hist /\ u.task = "compact"
    OBVIOUS
  <2>1. /\ c \in hist' /\ c.role = "user" /\ c.task = "compact"
        /\ \E s \in hist' : /\ s.role = "assistant" /\ Ended(s)
                            /\ s.summary /\ ~s.error /\ s.parent = c.id /\ s.at > c.at
    BY CutsAre
  <2>2. PICK s \in hist' : /\ s.role = "assistant" /\ Ended(s)
                           /\ s.summary /\ ~s.error /\ s.parent = c.id /\ s.at > c.at
    BY <2>1
  <2>3. c \in hist
    BY <1>2, <1>7, <2>1
  <2>4. s = m
    <3>1. s \notin next
      BY <1>7, <2>2
    <3>2. s \notin hist
      BY <2>1, <2>2, <2>3, CutsAre
    <3> QED
      BY <1>2, <3>1, <3>2
  <2>5. c = u
    BY <1>4, <1>5, <1>6, <2>1, <2>2, <2>3, <2>4
  <2> QED
    BY <2>1, <2>3, <2>5
<1>9. ASSUME NEW n \in hist, n.role = "user", \A c \in Cuts(hist) : c.at <= n.at,
             u \in hist /\ u.task = "compact" => u.at <= n.at
      PROVE  n \in Window'
  BY <1>2, <1>8, <1>9 DEF Window
<1>10. ASSUME NEW n \in next PROVE n \in Window'
  <2>1. n \in hist' /\ n.at = clock + 1
    BY <1>7 DEF Closes
  <2>2. \A c \in Cuts(hist') : c \in hist \cup read
    BY <1>8, CutsAre
  <2> QED
    BY <1>1, <1>3, <2>1, <2>2 DEF Window
<1>11. ASSUME NEW k \in hist, Waits(k.of)' PROVE \E n \in Window' : n.of = k.of
  <2>1. Waits(k.of) /\ k.of \in Prompts
    BY <1>1, <1>11 DEF Waits
  <2>2. ASSUME NEW n \in read, n \in hist, n.of = k.of PROVE \E o \in Window' : o.of = k.of
    <3>1. n.role = "user" /\ n.task # "compact" /\ n \in Plain(read)
      BY <1>3, <2>1, <2>2 DEF KindOK, Plain, Users, Message, Callers
    <3>2. PICK r \in read : IsReplayed(r) /\ ~(n.at < r.at)
      <4>1. ~Summarised(n)
        BY <1>1, <1>11, <2>2, <2>1 DEF Waits, Words, Callers
      <4> QED
        BY <4>1 DEF Summarised
    <3>3. /\ draft.over /\ IsNewest(r, {o \in Plain(read) : o.at < u.at})
      BY <1>4, <1>5, <3>2 DEF IsReplayed, IsNewest, Users
    <3>4. CASE n.at < u.at
      <4>1. n = r
        BY <1>3, <1>4, <3>1, <3>2, <3>3, <3>4 DEF IsNewest
      <4>2. draft.auto
        BY <1>1, <3>3 DEF DraftOK
      <4>3. \E h : \E o \in read : IsReplayed(o) /\ hist' = h \cup {Made(clock + 1, o.of, o.task)}
        BY <3>2, <4>2 DEF CompactDone, AddAfter
      <4>4. PICK o \in read : IsReplayed(o) /\ Made(clock + 1, o.of, o.task) \in hist'
        BY <4>3
      <4>5. IsNewest(o, {x \in Plain(read) : x.at < u.at})
        BY <1>4, <1>5, <4>4 DEF IsReplayed, IsNewest, Users
      <4>6. o = n
        BY <1>3, <1>4, <3>3, <4>1, <4>5 DEF IsNewest, Plain, Users
      <4>7. PICK g \in hist' : g = Made(clock + 1, o.of, o.task)
        BY <4>4
      <4>8. g.at = clock + 1 /\ g.of = k.of /\ g.role = "user"
        BY <2>2, <4>6, <4>7, MadeSays
      <4>9. g \in next
        BY <1>1, <1>2, <1>3, <4>8
      <4> QED
        BY <1>10, <4>8, <4>9
    <3>5. CASE ~(n.at < u.at)
      <4>1. n = u
        <5>1. n.at <= u.at
          BY <1>5, <2>2, <3>1 DEF IsNewest, Users
        <5> QED
          BY <1>3, <1>4, <3>1, <3>5, <5>1
      <4>2. \A c \in Cuts(hist) : c.at <= n.at
        BY <1>1, <2>2 DEF MemoryInv, CutsBelow
      <4> QED
        BY <1>9, <2>2, <3>1, <4>1, <4>2
    <3> QED
      BY <3>4, <3>5
  <2>3. ASSUME NEW n \in Window, n.of = k.of,
               \A c \in Users(hist \cap read) : c.task = "compact" => c.at <= n.at
        PROVE  \E o \in Window' : o.of = k.of
    <3>1. n \in hist /\ \A c \in Cuts(hist) : c.at <= n.at
      BY DEF Window
    <3>2. n.role = "user"
      BY <1>3, <2>1, <2>3, <3>1 DEF KindOK, Message, Callers
    <3>3. u \in hist /\ u.task = "compact" => u.at <= n.at
      BY <1>5, <2>3 DEF Users, IsNewest
    <3> QED
      BY <1>9, <2>3, <3>1, <3>2, <3>3
  <2> QED
    BY <1>1, <2>1, <2>2, <2>3 DEF MemoryInv, Remembered
<1>12. NothingForgotten'
  <2> SUFFICES ASSUME NEW k \in hist', Waits(k.of)' PROVE \E n \in Window' : n.of = k.of
    BY DEF NothingForgotten, Unheard, Waits
  <2>1. k.of # None
    BY DEF Waits, Callers
  <2> QED
    BY <1>2, <1>10, <1>11, <2>1
<1>13. CutsBelow' /\ Remembered'
  BY <1>1 DEF CutsBelow, Remembered
<1> QED
  BY <1>12, <1>13 DEF MemoryInv

LEMMA StepRemembers == ASSUME MemoryInv, [Next]_vars PROVE MemoryInv'
<1>0. DifferInv /\ DifferInv' /\ TypeOK /\ DraftOK
  BY StepDiffers DEF MemoryInv, DifferInv
<1>1. CASE Idle
  BY <1>0, <1>1, MemoryKept DEF Idle, CallsLeft, marks
<1>2. CASE Trims
  BY <1>0, <1>2, MemoryKept DEF Trims, Kept, Words, Callers
<1>3. CASE \E g : Asks(g)
  BY <1>0, <1>3, MemoryKept DEF Asks, New, Fresh
<1>4. ASSUME NEW p \in Prompts, Draw(p) PROVE MemoryInv'
  BY <1>0, <1>4, MemoryKept DEF Draw, loopVars, marks
<1>5. ASSUME NEW p \in Prompts, Store(p) PROVE MemoryInv'
  <2>1. PICK m \in Message : /\ m = Said(p) /\ m.id = slip[p].id /\ m.at = slip[p].at
                             /\ m.role = "user" /\ m.of = p /\ m.task # "compact"
    BY <1>0, SaidSays
  <2>2. /\ hist' = Put(m) /\ call[p] = "resolving"
        /\ pc' = pc \/ (pc = "off" /\ pc' = "top")
        /\ UNCHANGED <<read, heard, undone>> /\ late \subseteq late'
        /\ \/ p \in late'
           \/ \A n \in hist \cup {draft} :
                    n.role = "assistant" \/ (n \in hist /\ n.task = "compact") =>
                       n.id <= slip[p].id /\ n.at <= slip[p].at
    BY <1>0, <1>5, <2>1, StoreSteps
  <2>3. New(m)
    BY <2>1, <2>2 DEF New, Users
  <2>4. hist' = hist \cup {m}
    BY <1>0, <2>1, <2>2 DEF Put, DifferInv, SlipsDiffer, Known
  <2> QED
    BY <1>0, <2>2, <2>3, <2>4, MemoryKept
<1>6. CASE Begin
  <2>1. PICK a \in Message : /\ a.role = "assistant" /\ ~Ended(a) /\ a.of = None
                             /\ hist' = hist \cup {a}
    BY <1>0, <1>6, BeginDiffers
  <2>2. New(a)
    BY <2>1 DEF New, Calm
  <2> QED
    BY <1>0, <1>6, <2>1, <2>2, MemoryKept DEF Begin, marks
<1>7. CASE Turn
  <2>1. /\ UNCHANGED <<hist, heard, marks>> /\ read' = Window /\ pc' = "ready"
    BY <1>7 DEF Turn
  <2>2. NothingForgotten'
    BY <2>1 DEF MemoryInv, NothingForgotten, Unheard, Window, marks
  <2>3. CutsBelow'
    BY <2>1 DEF CutsBelow, Window
  <2>4. Remembered'
    BY <2>1 DEF MemoryInv, NothingForgotten, Unheard, Waits, Remembered, Window, marks
  <2> QED
    BY <1>0, <2>2, <2>3, <2>4 DEF MemoryInv
<1>8. ASSUME NEW m, NEW next, Closes(m, next), Calm(m) PROVE MemoryInv'
  <2>1. /\ m.role = "assistant" /\ m.of = None
        /\ \A n \in hist : n.role = "user" => n \in hist'
        /\ \A n \in hist' : n \in hist \/ n = m \/ n \in next
    BY <1>0, <1>8, CloseDiffers
  <2>2. New(m) /\ \A n \in next : New(n)
    BY <1>8, <2>1 DEF New, Closes, Fresh
  <2>3. \A n \in hist : n.of \in Prompts => n.role = "user"
    BY <1>0 DEF DifferInv, TypeOK, MessagesDiffer, Known, KindOK, Message, Callers
  <2>4. heard \subseteq heard' /\ late' = late /\ undone' = undone /\ pc' \notin {"ready", "streaming"}
    BY <1>8 DEF Closes, marks
  <2> QED
    BY <1>0, <2>1, <2>2, <2>3, <2>4, MemoryKept
<1>9. ASSUME CompactDone, NEW m, NEW next, Closes(m, next) PROVE MemoryInv'
  BY <1>0, <1>9, CompactKeeps
<1> QED
  BY <1>0, <1>1, <1>2, <1>3, <1>4, <1>5, <1>6, <1>7, <1>8, <1>9, Steps

-----------------------------------------------------------------------------
(* Answers, and who waits for them.                                        *)

LoopInv == MemoryInv /\ AnswersAreOld /\ NobodyWaits /\ ReadOrOnTop /\ ReadIsOpen

\* New users have ids and times in step, or are above the answers; new answers are the
\* newest of all.
LEMMA AnswersKept ==
    ASSUME DifferInv, DifferInv', AnswersAreOld, late \subseteq late',
           \A m \in Users(hist') : \/ m \in hist \/ m.id = ServerId(m.at)
                                   \/ \A a \in Assistants(hist \cup Writing) : a.at < m.at => a.id < m.id,
           \A a \in Assistants(hist' \cup Writing') :
              \/ a.at = clock'
              \/ \E b \in Assistants(hist \cup Writing) : b.id = a.id /\ b.at = a.at
    PROVE  AnswersAreOld'
<1> SUFFICES ASSUME NEW a \in Assistants(hist' \cup Writing'), NEW m \in Users(hist'),
                    m.of \notin late', a.at < m.at
             PROVE  a.id < m.id
  BY DEF AnswersAreOld
<1>1. /\ a \in Known' /\ m \in Known' /\ a.role = "assistant"
      /\ a.at \in Nat /\ m.at \in Nat /\ m.at <= clock' /\ clock' \in Nat /\ a.id = ServerId(a.at)
  BY DEF DifferInv, MessagesDiffer, Known, Assistants, Users, Stamped, TypeOK
<1>2. PICK b \in Assistants(hist \cup Writing) : b.id = a.id /\ b.at = a.at
  <2>1. a.at # clock'
    BY <1>1
  <2> QED
    BY <2>1
<1>3. CASE m \in hist
  BY <1>2, <1>3 DEF AnswersAreOld, Users
<1>4. CASE m.id = ServerId(m.at)
  BY <1>1, <1>4 DEF ServerId
<1>5. CASE \A c \in Assistants(hist \cup Writing) : c.at < m.at => c.id < m.id
  BY <1>2, <1>5
<1> QED
  BY <1>3, <1>4, <1>5

LEMMA StepAnswers == ASSUME LoopInv, [Next]_vars PROVE AnswersAreOld'
<1>0. DifferInv /\ DifferInv' /\ TypeOK /\ TypeOK' /\ DraftOK /\ AnswersAreOld
  BY StepDiffers DEF LoopInv, MemoryInv, DifferInv
<1>1. ASSUME hist' \subseteq hist, Writing' \subseteq Writing, late' = late PROVE AnswersAreOld'
  BY <1>0, <1>1 DEF AnswersAreOld, Assistants, Users
<1>2. CASE Idle
  BY <1>1, <1>2 DEF Idle, CallsLeft, Writing, marks
<1>3. CASE Trims
  BY <1>1, <1>3 DEF Trims, Kept, Writing
<1>4. CASE \E g : Asks(g)
  <2>1. PICK g : Asks(g)
    BY <1>4
  <2>2. g.id = ServerId(g.at) /\ g.role = "user" /\ hist' = hist \cup {g} /\ late' = late
    BY <2>1 DEF Asks, Fresh
  <2>3. Writing' \subseteq Writing
    BY <2>1 DEF Asks, Writing
  <2> QED
    BY <1>0, <2>2, <2>3, AnswersKept DEF Assistants, Users
<1>5. ASSUME NEW p \in Prompts, Draw(p) PROVE AnswersAreOld'
  BY <1>1, <1>5 DEF Draw, loopVars, marks, Writing
<1>6. ASSUME NEW p \in Prompts, Store(p) PROVE AnswersAreOld'
  <2>1. PICK m \in Message : /\ m = Said(p) /\ m.id = slip[p].id /\ m.at = slip[p].at
                             /\ m.role = "user" /\ m.of = p
    BY <1>0, SaidSays
  <2>2. /\ hist' = Put(m) /\ call[p] = "resolving"
        /\ pc' = pc \/ (pc = "off" /\ pc' = "top")
        /\ UNCHANGED draft /\ late \subseteq late'
        /\ \/ p \in late'
           \/ \A n \in hist \cup {draft} : n.role = "assistant" => n.id <= m.id
    BY <1>0, <1>6, <2>1, StoreSteps
  <2>3. hist' \subseteq hist \cup {m} /\ Writing' \subseteq Writing /\ Writing \subseteq {draft}
    BY <2>2 DEF Put, Writing
  <2>4. \A n \in Known : n.id # m.id /\ n.id \in Nat /\ m.id \in Nat
    BY <1>0, <2>1, <2>2, KnownTimes DEF DifferInv, SlipsDiffer, Message
  <2>5. p \notin late' => \A a \in Assistants(hist \cup Writing) : a.id < m.id
    BY <2>2, <2>3, <2>4 DEF Assistants, Known
  <2> QED
    BY <1>0, <2>1, <2>2, <2>3, <2>5 DEF AnswersAreOld, Assistants, Users
<1>7. CASE Begin
  <2>1. PICK a \in Message, d \in Message :
              /\ Fresh(a) /\ a.role = "assistant" /\ a.at = d.at
              /\ hist' = hist \cup {a} /\ draft' = d
    BY <1>0, <1>7, BeginDiffers
  <2>2. Writing' = {d} /\ late' = late /\ clock' = clock + 1
    BY <1>7, <2>1 DEF Begin, Writing, marks
  <2>3. a.at = clock' /\ d.at = clock'
    BY <2>1, <2>2 DEF Fresh
  <2>4. \A b \in Assistants(hist' \cup Writing') :
              \/ b.at = clock'
              \/ \E c \in Assistants(hist \cup Writing) : c.id = b.id /\ c.at = b.at
    BY <2>1, <2>2, <2>3 DEF Assistants
  <2>5. \A n \in Users(hist') : n \in hist
    BY <2>1 DEF Users
  <2> QED
    BY <1>0, <2>2, <2>4, <2>5, AnswersKept
<1>8. CASE Turn
  BY <1>1, <1>8 DEF Turn, Writing, marks
<1>9. ASSUME NEW m, NEW next, Closes(m, next) PROVE AnswersAreOld'
  <2>1. /\ m.role = "assistant" /\ m.id = draft.id /\ m.at = draft.at
        /\ \A n \in hist' : n \in hist \/ n = m \/ n \in next
    BY <1>0, <1>9, CloseDiffers
  <2>2. /\ \A n \in next : n.role = "user" /\ n.id = ServerId(n.at)
        /\ Writing' = {} /\ Writing = {draft} /\ late' = late
    BY <1>9 DEF Closes, Fresh, Writing, marks
  <2>3. draft.role = "assistant"
    BY <1>0, <1>9 DEF DraftOK, Closes
  <2> QED
    BY <1>0, <2>1, <2>2, <2>3, AnswersKept DEF Assistants, Users
<1> QED
  BY <1>0, <1>2, <1>3, <1>4, <1>5, <1>6, <1>7, <1>8, <1>9, Steps

LEMMA StepWaits == ASSUME LoopInv, [Next]_vars PROVE NobodyWaits'
<1>0. TypeOK /\ DraftOK /\ NobodyWaits
  BY DEF LoopInv, MemoryInv, DifferInv
<1>1. CASE Idle
  BY <1>0, <1>1 DEF Idle, CallsStay, CallsLeft, NobodyWaits
<1>2. CASE Trims
  BY <1>0, <1>2 DEF Trims, NobodyWaits
<1>3. CASE \E g : Asks(g)
  BY <1>0, <1>3 DEF Asks, CallsStay, NobodyWaits
<1>4. ASSUME NEW p \in Prompts, Draw(p) PROVE NobodyWaits'
  BY <1>0, <1>4 DEF Draw, loopVars, NobodyWaits, TypeOK, Callers
<1>5. ASSUME NEW p \in Prompts, Store(p) PROVE NobodyWaits'
  <2>1. /\ \A x \in Callers : x # p => call'[x] = call[x]
        /\ pc' = "off" => pc = "off"
        /\ call'[p] = "waiting" => pc' # "off"
    BY <1>0, <1>5, StoreSteps
  <2> QED
    BY <1>0, <2>1 DEF NobodyWaits
<1>6. CASE Begin \/ Turn
  BY <1>6 DEF Begin, Turn, NobodyWaits
<1>7. ASSUME NEW m, NEW next, Closes(m, next) PROVE NobodyWaits'
  BY <1>7 DEF Closes, CallsLeft, NobodyWaits
<1> QED
  BY <1>0, <1>1, <1>2, <1>3, <1>4, <1>5, <1>6, <1>7, Steps

\* Messages of prompts are the users'.
LEMMA PromptsSpeak ==
    ASSUME DifferInv, NEW m \in Known, m.of \in Prompts
    PROVE  m.role = "user" /\ m.task # "compact"
  BY KnownTimes DEF DifferInv, MessagesDiffer, KindOK, Message, Callers

LEMMA StepReads == ASSUME LoopInv, [Next]_vars PROVE ReadOrOnTop'
<1>0. /\ DifferInv /\ DifferInv' /\ TypeOK /\ TypeOK' /\ DraftOK /\ ReadOrOnTop /\ NothingForgotten
      /\ NobodyWaits
  BY StepDiffers DEF LoopInv, MemoryInv, DifferInv
<1>1. ASSUME UNCHANGED <<pc, job, read, draft>>,
             NEW m \in hist', m \in hist, Expects(m.of)', Expects(m.of), Reading \/ pc = "streaming",
             \A n \in hist : n.of = m.of => n \in hist',
             Assistants(hist') \subseteq Assistants(hist)
      PROVE  \/ m.of \in Words(read')
             \/ pc' = "streaming" /\ \E n \in hist' : n.of = m.of /\ OnTop(n)' /\ draft'.at < n.at
  <2>1. CASE m.of \in Words(read)
    BY <1>1, <2>1
  <2>2. CASE pc = "streaming" /\ \E n \in hist : n.of = m.of /\ OnTop(n) /\ draft.at < n.at
    <3>1. PICK n \in hist : n.of = m.of /\ OnTop(n) /\ draft.at < n.at
      BY <2>2
    <3>2. OnTop(n)'
      BY <1>1, <3>1 DEF OnTop, Users
    <3> QED
      BY <1>1, <2>2, <3>1, <3>2
  <2> QED
    BY <1>0, <1>1, <2>1, <2>2 DEF ReadOrOnTop
<1>2. ASSUME UNCHANGED <<pc, job, read, draft>>, heard \subseteq heard', late \subseteq late',
             blind \subseteq blind', undone \subseteq undone',
             \A p \in Prompts : call'[p] = "waiting" => call[p] = "waiting",
             \A n \in hist : n.of \in Prompts => n \in hist' \/ n.of \in undone',
             \A n \in hist' : n.of \in Prompts => n \in hist,
             Assistants(hist') \subseteq Assistants(hist)
      PROVE  ReadOrOnTop'
  <2> SUFFICES ASSUME (Reading \/ pc = "streaming")', NEW m \in hist', Expects(m.of)'
               PROVE  \/ m.of \in Words(read')
                      \/ /\ pc' = "streaming"
                         /\ \E n \in hist' : n.of = m.of /\ OnTop(n)' /\ draft'.at < n.at
    BY DEF ReadOrOnTop
  <2>1. Reading \/ pc = "streaming"
    BY <1>2 DEF Reading
  <2>2. Expects(m.of) /\ m.of \in Prompts /\ m.of \notin undone'
    BY <1>2 DEF Expects, Waits
  <2> QED
    BY <1>1, <1>2, <2>1, <2>2
<1>3. ASSUME pc' \notin {"ready", "streaming"} PROVE ReadOrOnTop'
  BY <1>3 DEF ReadOrOnTop, Reading
<1>4. CASE Idle
  <2>1. CASE UNCHANGED <<pc, job, read, draft>> /\ CallsStay
    BY <1>2, <1>4, <2>1 DEF Idle, CallsStay, marks
  <2>2. CASE pc' = "top" \/ CallsLeft
    BY <1>3, <2>2 DEF CallsLeft
  <2> QED
    BY <1>4, <2>1, <2>2 DEF Idle
<1>5. CASE Trims
  <2>1. \A n \in hist : n.of \in Prompts => n \in hist' \/ n.of \in undone'
    BY <1>5 DEF Trims, Words, Callers
  <2>2. hist' \subseteq hist
    BY <1>5 DEF Trims, Kept
  <2> QED
    BY <1>2, <1>5, <2>1, <2>2 DEF Trims, Assistants, Callers
<1>6. CASE \E g : Asks(g)
  <2>1. PICK g : Asks(g)
    BY <1>6
  <2>2. CASE pc' = "top"
    BY <1>3, <2>2
  <2>3. CASE UNCHANGED <<pc, job, read, draft>> /\ CallsStay /\ blind \subseteq blind'
    <3>1. g.of \notin Prompts /\ g.role = "user" /\ hist' = hist \cup {g}
          /\ UNCHANGED <<heard, late, undone>>
      BY <2>1 DEF Asks, KindOK
    <3>2. Assistants(hist') \subseteq Assistants(hist)
      BY <3>1 DEF Assistants
    <3> QED
      BY <1>2, <2>3, <3>1, <3>2 DEF CallsStay
  <2> QED
    BY <2>1, <2>2, <2>3 DEF Asks
<1>7. ASSUME NEW p \in Prompts, Draw(p) PROVE ReadOrOnTop'
  <2>1. \A q \in Prompts : call'[q] = "waiting" => call[q] = "waiting"
    BY <1>0, <1>7 DEF Draw, TypeOK, Callers
  <2> QED
    BY <1>2, <1>7, <2>1 DEF Draw, loopVars, marks
<1>8. ASSUME NEW p \in Prompts, Store(p) PROVE ReadOrOnTop'
  <2>1. PICK s \in Message : /\ s = Said(p) /\ s.id = slip[p].id /\ s.at = slip[p].at
                             /\ s.role = "user" /\ s.of = p
    BY <1>0, SaidSays
  <2>2. /\ hist' = Put(s) /\ call[p] = "resolving" /\ call'[p] \in {"waiting", "answered"}
        /\ \A x \in Prompts : x # p => call'[x] = call[x]
        /\ pc' = pc \/ (pc = "off" /\ pc' = "top")
        /\ UNCHANGED <<job, read, draft, heard, undone>> /\ late \subseteq late' /\ blind \subseteq blind'
        /\ (Reading => p \in blind')
        /\ \/ p \in late'
           \/ \A n \in hist \cup {draft} : n.role = "assistant" => n.at <= s.at
    BY <1>0, <1>8, <2>1, StoreSteps DEF Callers
  <2>3. hist' = hist \cup {s} /\ \A n \in Known : n.at # s.at /\ n.at \in Nat /\ s.at \in Nat
    BY <1>0, <2>1, <2>2, KnownTimes DEF Put, DifferInv, SlipsDiffer, Known, Message
  <2> SUFFICES ASSUME (Reading \/ pc = "streaming")', NEW m \in hist', Expects(m.of)'
               PROVE  \/ m.of \in Words(read')
                      \/ /\ pc' = "streaming"
                         /\ \E n \in hist' : n.of = m.of /\ OnTop(n)' /\ draft'.at < n.at
    BY DEF ReadOrOnTop
  <2>4. (Reading \/ pc = "streaming") /\ pc' = pc
    BY <2>2 DEF Reading
  <2>5. CASE m.of = p
    <3>1. pc = "streaming" /\ p \notin late'
      BY <2>2, <2>4, <2>5 DEF Expects, Waits
    <3>2. draft.role = "assistant" /\ draft \in Known
      BY <1>0, <3>1 DEF DraftOK, Known, Writing
    <3>3. \A a \in hist \cup {draft} : a.role = "assistant" => a.at < s.at
      BY <2>2, <2>3, <3>1, <3>2 DEF Known
    <3>4. OnTop(s)'
      BY <2>1, <2>3, <3>3 DEF OnTop, Users, Assistants
    <3> QED
      BY <2>1, <2>2, <2>3, <2>4, <2>5, <3>1, <3>2, <3>3, <3>4
  <2>6. CASE m.of # p
    <3>1. m.of \in Prompts /\ Expects(m.of) /\ m \in hist
      BY <2>1, <2>2, <2>3, <2>6 DEF Expects, Waits
    <3>2. Assistants(hist') \subseteq Assistants(hist)
      BY <2>1, <2>3 DEF Assistants
    <3> QED
      BY <1>1, <2>2, <2>3, <2>4, <3>1, <3>2
  <2> QED
    BY <2>5, <2>6
<1>9. CASE Begin
  <2>1. PICK a \in Message : a.of = None /\ hist' = hist \cup {a}
    BY <1>0, <1>9, BeginDiffers
  <2>2. Reading /\ pc = "ready" /\ UNCHANGED <<read, call, heard, marks>>
    BY <1>9 DEF Begin, Reading
  <2> SUFFICES ASSUME NEW m \in hist', Expects(m.of)' PROVE m.of \in Words(read')
    BY DEF ReadOrOnTop
  <2>3. Expects(m.of) /\ m.of \in Prompts
    BY <2>2 DEF Expects, Waits, marks
  <2>4. m \in hist
    BY <2>1, <2>3 DEF Callers
  <2> QED
    BY <1>0, <2>2, <2>3, <2>4 DEF ReadOrOnTop
<1>10. CASE Turn
  <2>1. read' = Window /\ UNCHANGED <<hist, call, heard, marks>>
    BY <1>10 DEF Turn
  <2> SUFFICES ASSUME NEW m \in hist', Expects(m.of)' PROVE m.of \in Words(read')
    BY DEF ReadOrOnTop
  <2>2. m \in hist /\ Waits(m.of) /\ m.of \in Prompts /\ m.of # None
    BY <2>1 DEF Expects, Waits, marks, Callers
  <2>3. PICK n \in Window : n.of = m.of
    BY <1>0, <2>2 DEF NothingForgotten, Unheard, Waits
  <2> QED
    BY <2>1, <2>2, <2>3 DEF Words
<1>11. ASSUME NEW m, NEW next, Closes(m, next) PROVE ReadOrOnTop'
  BY <1>3, <1>11 DEF Closes
<1> QED
  BY <1>0, <1>4, <1>5, <1>6, <1>7, <1>8, <1>9, <1>10, <1>11, Steps

LEMMA StepOpens == ASSUME LoopInv, [Next]_vars PROVE ReadIsOpen'
<1>0. TypeOK /\ DraftOK /\ ReadIsOpen
  BY DEF LoopInv, MemoryInv, DifferInv
<1>1. ASSUME pc' = "ready" => pc = "ready" /\ read' = read PROVE ReadIsOpen'
  BY <1>0, <1>1 DEF ReadIsOpen
<1>2. CASE Idle \/ Trims \/ \E g : Asks(g)
  BY <1>1, <1>2 DEF Idle, CallsLeft, Trims, Asks
<1>3. ASSUME NEW p \in Prompts, Draw(p) \/ Store(p) PROVE ReadIsOpen'
  BY <1>0, <1>1, <1>3, StoreSteps DEF Draw, loopVars
<1>4. CASE Begin
  BY <1>1, <1>4 DEF Begin
<1>5. CASE Turn
  BY <1>5 DEF Turn, ReadIsOpen
<1>6. ASSUME NEW m, NEW next, Closes(m, next) PROVE ReadIsOpen'
  BY <1>1, <1>6 DEF Closes
<1> QED
  BY <1>0, <1>2, <1>3, <1>4, <1>5, <1>6, Steps

LEMMA StepLoops == ASSUME LoopInv, [Next]_vars PROVE LoopInv'
<1>1. MemoryInv'
  BY StepRemembers DEF LoopInv
<1>2. AnswersAreOld' /\ NobodyWaits' /\ ReadOrOnTop' /\ ReadIsOpen'
  BY StepAnswers, StepWaits, StepReads, StepOpens
<1> QED
  BY <1>1, <1>2 DEF LoopInv

-----------------------------------------------------------------------------
(* Whoever waits to be heard has something above the answers.  With the    *)
(* clock of a client ahead a revert can keep a summary and the prompt, and *)
(* take what would have had the loop go on.                                *)

ClocksAgree == Skew = 0 \/ Reverts = {}

OpenInv == LoopInv /\ WaitingIsOpen /\ RevertsAreOld /\ RevertsLeaveOpen

LEMMA StepOld ==
    ASSUME ClocksAgree, OpenInv, [Next]_vars
    PROVE  RevertsAreOld'
<1>0. /\ DifferInv /\ DifferInv' /\ TypeOK /\ DraftOK /\ RevertsAreOld /\ clock \in Nat
      /\ \A R \in RevertIds : R \in Nat
  BY StepDiffers DEF OpenInv, LoopInv, MemoryInv, DifferInv, TypeOK, RevertIds
<1>1. ASSUME RevertIds' \subseteq RevertIds, clock' \in {clock, clock + 1},
             pc' = "streaming" => pc = "streaming" /\ draft' = draft
      PROVE  RevertsAreOld'
  BY <1>0, <1>1 DEF RevertsAreOld, ServerId
<1>2. CASE Idle
  <2>1. pc' = "streaming" => pc = "streaming" /\ draft' = draft
    BY <1>2 DEF Idle, CallsLeft
  <2>2. ASSUME NEW R \in RevertIds', R \notin RevertIds
        PROVE  R <= ServerId(clock') /\ pc' # "streaming"
    <3>1. pc' = "off" /\ Reverts # {} /\ clock' = clock
      BY <1>2, <2>2 DEF Idle
    <3>2. PICK m \in Users(hist) : R = m.id
      BY <1>2, <2>2 DEF Idle
    <3>3. m \in Known /\ Stamped(m)
      BY <1>0 DEF DifferInv, MessagesDiffer, Known, Users
    <3>4. Skew = 0
      BY <3>1 DEF ClocksAgree
    <3>5. m.at \in 1..clock /\ (m.id = 2 * m.at \/ \E k \in 1..(m.at - 1) : m.id = 2 * (k + 0) + 1)
      BY <3>3, <3>4 DEF Stamped, ServerId, ClientId
    <3>6. m.id <= 2 * clock
      BY <1>0, <3>5
    <3> QED
      BY <3>1, <3>2, <3>6 DEF ServerId
  <2>3. ASSUME NEW R \in RevertIds', R \in RevertIds
        PROVE  R <= ServerId(clock') /\ (pc' = "streaming" => R <= draft'.id)
    BY <1>0, <1>2, <2>1, <2>3 DEF RevertsAreOld, Idle
  <2> QED
    BY <2>2, <2>3 DEF RevertsAreOld
<1>3. CASE Trims /\ ((\E p \in Prompts : Enter(p)) \/ (\E x \in Summaries : Clean(x)))
  <2>1. RevertIds' \subseteq RevertIds
    BY <1>3 DEF Trims, RevertIds
  <2>2. clock' \in {clock, clock + 1}
    BY <1>3 DEF Enter, Clean
  <2> QED
    BY <1>1, <1>3, <2>1, <2>2 DEF Trims
<1>4. CASE \E g : Asks(g)
  <2>1. RevertIds' \subseteq RevertIds
    BY <1>4 DEF Asks, RevertIds
  <2> QED
    BY <1>1, <1>4, <2>1 DEF Asks
<1>5. ASSUME NEW p \in Prompts, Draw(p) PROVE RevertsAreOld'
  <2>1. RevertIds' \subseteq RevertIds
    BY <1>0, <1>5 DEF Draw, RevertIds, TypeOK, Callers
  <2> QED
    BY <1>1, <1>5, <2>1 DEF Draw, loopVars
<1>6. ASSUME NEW p \in Prompts, Store(p) PROVE RevertsAreOld'
  <2>1. /\ \A k \in Reverts : call'[k] = call[k]
        /\ pc' = pc \/ pc' = "top"
        /\ UNCHANGED <<clock, revert, plan, draft>>
    BY <1>0, <1>6, StoreSteps DEF Callers
  <2>2. RevertIds' \subseteq RevertIds
    BY <2>1 DEF RevertIds
  <2> QED
    BY <1>1, <2>1, <2>2
<1>7. CASE Begin
  <2>1. PICK d \in Message : Fresh(d) /\ draft' = d
    BY <1>0, <1>7, BeginDiffers DEF Fresh
  <2>2. clock' = clock + 1 /\ UNCHANGED <<revert, plan, call>>
    BY <1>7 DEF Begin
  <2>3. RevertIds' = RevertIds
    BY <2>2 DEF RevertIds
  <2> QED
    BY <1>0, <2>1, <2>2, <2>3 DEF RevertsAreOld, Fresh, ServerId
<1>8. CASE Turn
  <2>1. RevertIds' = RevertIds
    BY <1>8 DEF Turn, RevertIds
  <2> QED
    BY <1>1, <1>8, <2>1 DEF Turn
<1>9. ASSUME NEW m, NEW next, Closes(m, next) PROVE RevertsAreOld'
  <2>1. RevertIds' \subseteq RevertIds
    BY <1>9 DEF Closes, CallsLeft, RevertIds
  <2>2. clock' \in {clock, clock + 1} /\ pc' # "streaming"
    BY <1>9 DEF Closes
  <2> QED
    BY <1>1, <2>1, <2>2
<1> QED
  BY <1>0, <1>2, <1>3, <1>4, <1>5, <1>6, <1>7, <1>8, <1>9, Steps

\* A revert leaves a message above the answers that stay.
LeftOpen(R, S, m) ==
    \/ \E n \in S : n.of = m.of /\ R <= n.id
    \/ \E n \in Users(S) :
          /\ n.id < R
          /\ \A a \in Assistants(S) : Complete(a) /\ a.id < R => a.at < n.at

LEMMA TrimLeaves ==
    ASSUME OpenInv, Trims, NEW m \in hist', Expects(m.of)'
    PROVE  /\ \E n \in hist' : OnTop(n)'
           /\ \A R \in RevertIds' : LeftOpen(R, hist', m)
<1>0. /\ DifferInv /\ TypeOK /\ WaitingIsOpen /\ RevertsLeaveOpen /\ hist' \subseteq hist
      /\ RevertIds' \subseteq RevertIds /\ \A R \in RevertIds : R \in Nat
      /\ \A n \in hist : n.id \in Nat
  BY DEF OpenInv, LoopInv, MemoryInv, DifferInv, Trims, Kept, TypeOK, RevertIds, Message
<1>1. /\ Expects(m.of) /\ m \in hist /\ m.of \in Prompts
      /\ \A n \in hist : n.of = m.of => n \in hist'
  BY <1>0 DEF Expects, Waits, Trims, Words, Callers
<1>2. PICK t \in Users(hist') : \A a \in Assistants(hist') : Complete(a) => a.at < t.at
  <2>1. CASE revert = 0
    <3>1. hist' = hist
      BY <2>1 DEF Trims, Kept
    <3> QED
      BY <1>0, <1>1, <3>1 DEF WaitingIsOpen, OnTop
  <2>2. CASE revert # 0
    <3>1. revert \in RevertIds /\ hist' = {n \in hist : n.id < revert}
      BY <2>2 DEF RevertIds, Trims, Kept
    <3>2. ~\E n \in hist : n.of = m.of /\ revert <= n.id
      BY <1>0, <1>1, <3>1
    <3>3. PICK n \in Users(hist) :
              /\ n.id < revert
              /\ \A a \in Assistants(hist) : Complete(a) /\ a.id < revert => a.at < n.at
      BY <1>0, <1>1, <3>1, <3>2 DEF RevertsLeaveOpen
    <3> QED
      BY <3>1, <3>3 DEF Users, Assistants
  <2> QED
    BY <2>1, <2>2
<1>3. t \in hist' /\ OnTop(t)'
  BY <1>2 DEF OnTop, Users
<1>4. ASSUME NEW R \in RevertIds' PROVE LeftOpen(R, hist', m)
  <2>1. R \in RevertIds /\ R \in Nat
    BY <1>0
  <2>2. CASE \E n \in hist : n.of = m.of /\ R <= n.id
    BY <1>1, <2>2 DEF LeftOpen
  <2>3. CASE t.id < R
    BY <1>2, <2>3 DEF LeftOpen
  <2>4. CASE ~(\E n \in hist : n.of = m.of /\ R <= n.id) /\ ~(t.id < R)
    <3>1. PICK n \in Users(hist) :
              /\ n.id < R
              /\ \A a \in Assistants(hist) : Complete(a) /\ a.id < R => a.at < n.at
      BY <1>0, <1>1, <2>1, <2>4 DEF RevertsLeaveOpen
    <3>2. n \in Users(hist')
      <4>1. n.id < t.id
        <5>1. n.id \in Nat /\ t.id \in Nat
          BY <1>0, <1>3, <3>1 DEF Users
        <5> QED
          BY <2>1, <2>4, <3>1, <5>1
      <4>2. \A x \in hist : x \in hist' <=> (revert = 0 \/ x.id < revert)
        BY DEF Trims, Kept
      <4>3. n \in hist /\ n.id \in Nat /\ t \in hist /\ t.id \in Nat /\ revert \in Nat
        BY <1>0, <1>3, <3>1 DEF Users, TypeOK
      <4>4. n \in hist'
        BY <1>3, <4>1, <4>2, <4>3
      <4> QED
        BY <3>1, <4>4 DEF Users
    <3> QED
      BY <1>0, <3>1, <3>2 DEF LeftOpen, Assistants
  <2> QED
    BY <2>2, <2>3, <2>4
<1> QED
  BY <1>3, <1>4

\* Complete answers stay as they were, and messages of users too.
LEMMA OpenKept ==
    ASSUME OpenInv, NEW m \in hist, Expects(m.of),
           Users(hist) \subseteq hist', \A n \in hist : n.of = m.of => n \in hist',
           \A a \in Assistants(hist') : Complete(a) => a \in hist
    PROVE  /\ \E n \in hist' : OnTop(n)'
           /\ \A R \in RevertIds : LeftOpen(R, hist', m)
<1>1. PICK t \in hist : OnTop(t)
  BY DEF OpenInv, WaitingIsOpen
<1>2. t \in hist' /\ OnTop(t)'
  BY <1>1 DEF OnTop, Users, Assistants
<1>3. ASSUME NEW R \in RevertIds PROVE LeftOpen(R, hist', m)
  <2>1. CASE \E n \in hist : n.of = m.of /\ R <= n.id
    BY <2>1 DEF LeftOpen
  <2>2. CASE \E n \in Users(hist) :
              /\ n.id < R
              /\ \A a \in Assistants(hist) : Complete(a) /\ a.id < R => a.at < n.at
    BY <2>2 DEF LeftOpen, Users, Assistants
  <2> QED
    BY <2>1, <2>2 DEF OpenInv, RevertsLeaveOpen
<1> QED
  BY <1>2, <1>3

LEMMA StoreLeaves ==
    ASSUME OpenInv, NEW p \in Prompts, Store(p), NEW m \in hist', Expects(m.of)'
    PROVE  /\ \E n \in hist' : OnTop(n)'
           /\ \A R \in RevertIds' : LeftOpen(R, hist', m)
<1>0. DifferInv /\ TypeOK /\ \A R \in RevertIds : R \in Nat
  BY DEF OpenInv, LoopInv, MemoryInv, DifferInv, TypeOK, RevertIds
<1>1. PICK s \in Message : /\ s = Said(p) /\ s.id = slip[p].id /\ s.at = slip[p].at
                           /\ s.role = "user" /\ s.of = p
  BY <1>0, SaidSays
<1>2. /\ hist' = Put(s) /\ call[p] = "resolving"
      /\ \A x \in Callers \cup Reverts : x # p => call'[x] = call[x]
      /\ UNCHANGED <<revert, plan, heard, undone>> /\ late \subseteq late' /\ blind \subseteq blind'
      /\ \/ p \in late'
         \/ \A n \in hist \cup {draft} : n.role = "assistant" => n.at <= s.at
  BY <1>0, <1>1, StoreSteps
<1>3. hist' = hist \cup {s} /\ \A n \in hist : n.at # s.at /\ n.at \in Nat /\ s.at \in Nat /\ s.id \in Nat
  BY <1>0, <1>1, <1>2, KnownTimes DEF Put, DifferInv, SlipsDiffer, Known, Message
<1>4. RevertIds' = RevertIds
  BY <1>2 DEF RevertIds, Callers
<1>5. CASE m.of = p
  <2>1. \A a \in Assistants(hist') : a.at < s.at
    BY <1>1, <1>2, <1>3, <1>5 DEF Expects, Waits, Assistants
  <2>2. OnTop(s)'
    BY <1>1, <1>3, <2>1 DEF OnTop, Users
  <2>3. ASSUME NEW R \in RevertIds PROVE LeftOpen(R, hist', m)
    <3>1. CASE R <= s.id
      BY <1>1, <1>3, <1>5, <3>1 DEF LeftOpen
    <3>2. CASE ~(R <= s.id)
      <4>1. s.id < R /\ s \in Users(hist')
        BY <1>0, <1>1, <1>3, <3>2 DEF Users, Message
      <4> QED
        BY <2>1, <4>1 DEF LeftOpen
    <3> QED
      BY <3>1, <3>2
  <2> QED
    BY <1>3, <1>4, <2>2, <2>3
<1>6. CASE m.of # p
  <2>1. m \in hist /\ Expects(m.of)
    BY <1>1, <1>2, <1>3, <1>6 DEF Expects, Waits, Callers
  <2>2. \A a \in Assistants(hist') : a \in hist
    BY <1>1, <1>3 DEF Assistants
  <2> QED
    BY <1>3, <1>4, <2>1, <2>2, OpenKept DEF Users
<1> QED
  BY <1>5, <1>6

LEMMA CloseLeaves ==
    ASSUME OpenInv, NEW a, NEW next, Closes(a, next), GoesOn(a, next),
           NEW m \in hist', Expects(m.of)'
    PROVE  /\ \E n \in hist' : OnTop(n)'
           /\ \A R \in RevertIds' : LeftOpen(R, hist', m)
<1>0. /\ DifferInv /\ TypeOK /\ DraftOK /\ \A R \in RevertIds : R \in Nat
      /\ clock \in Nat /\ RevertsAreOld
  BY DEF OpenInv, LoopInv, MemoryInv, DifferInv, TypeOK, RevertIds
<1>1. /\ a.role = "assistant" /\ a.of = None /\ a.id = draft.id /\ a.at = draft.at /\ a \in Message
      /\ \A n \in hist : n.role = "user" => n \in hist'
      /\ \A n \in hist' : n \in hist \/ n = a \/ n \in next
      /\ draft \in Known
  BY <1>0, CloseDiffers
<1>2. /\ pc = "streaming" /\ pc' # "off" /\ call' = call /\ m.of \in Prompts
      /\ revert' = revert /\ plan' = plan
  BY DEF Closes, CallsLeft, Expects, Waits, Callers
<1>3. RevertIds' = RevertIds
  BY <1>2 DEF RevertIds
<1>4. Expects(m.of)
  BY <1>2 DEF Expects, Waits, Closes, marks
<1>5. \A n \in hist : n.of = m.of => n.role = "user" /\ n \in hist'
  BY <1>0, <1>1, <1>2, PromptsSpeak DEF Known
<1>6. \A n \in hist \cup {a} : n.at \in Nat /\ n.at <= clock
  BY <1>0, <1>1, KnownTimes DEF Known
<1>7. \A g \in next : g.role = "user" /\ g.at = clock + 1 /\ g.id = ServerId(clock + 1) /\ g \in hist'
  BY DEF Closes, Fresh
<1>8. ASSUME NEW R \in RevertIds PROVE LeftOpen(R, hist', m)
  <2>1. R <= ServerId(clock) /\ R <= a.id /\ R \in Nat /\ a.id \in Nat
    BY <1>0, <1>1, <1>2 DEF RevertsAreOld, Message
  <2>2. CASE m \in next
    <3>1. R <= m.id
      BY <1>0, <1>7, <2>1, <2>2 DEF ServerId
    <3> QED
      BY <3>1 DEF LeftOpen
  <2>3. CASE m \notin next
    <3>1. m \in hist
      BY <1>1, <1>2, <2>3 DEF Callers
    <3>2. CASE \E n \in hist : n.of = m.of /\ R <= n.id
      BY <1>5, <3>2 DEF LeftOpen
    <3>3. CASE \E n \in Users(hist) :
              /\ n.id < R
              /\ \A b \in Assistants(hist) : Complete(b) /\ b.id < R => b.at < n.at
      <4>1. PICK n \in Users(hist) :
              /\ n.id < R
              /\ \A b \in Assistants(hist) : Complete(b) /\ b.id < R => b.at < n.at
        BY <3>3
      <4>2. n \in Users(hist')
        BY <1>1, <4>1 DEF Users
      <4>3. \A b \in Assistants(hist') : b.id < R => b \in Assistants(hist)
        BY <1>1, <1>7, <2>1 DEF Assistants
      <4> QED
        BY <4>1, <4>2, <4>3 DEF LeftOpen
    <3> QED
      BY <1>4, <3>1, <3>2, <3>3 DEF OpenInv, RevertsLeaveOpen
  <2> QED
    BY <2>2, <2>3
<1>9. \E n \in hist' : OnTop(n)'
  <2>1. CASE next # {}
    <3>1. PICK g \in next : g.role = "user" /\ g.at = clock + 1 /\ g \in hist'
      BY <1>7, <2>1
    <3>2. \A b \in Assistants(hist') : b.at < g.at
      BY <1>0, <1>1, <1>6, <1>7, <3>1 DEF Assistants
    <3> QED
      BY <3>1, <3>2 DEF OnTop, Users
  <2>2. CASE next = {}
    <3>1. m \in hist
      BY <1>1, <1>2, <2>2 DEF Callers
    <3>2. CASE ~Complete(a)
      <4>1. \A b \in Assistants(hist') : Complete(b) => b \in hist
        BY <1>1, <2>2, <3>2 DEF Assistants
      <4> QED
        BY <1>1, <1>4, <1>5, <3>1, <4>1, OpenKept DEF Users
    <3>3. CASE Words(read) \subseteq heard'
      <4>1. m.of \notin Words(read)
        BY <3>3 DEF Expects, Waits
      <4>2. PICK n \in hist : OnTop(n) /\ draft.at < n.at
        BY <1>2, <1>4, <3>1, <4>1 DEF OpenInv, LoopInv, ReadOrOnTop
      <4>3. \A b \in Assistants(hist') : Complete(b) => b.at < n.at
        BY <1>1, <2>2, <4>2 DEF OnTop, Assistants
      <4> QED
        BY <1>1, <4>2, <4>3 DEF OnTop, Users
    <3> QED
      BY <1>2, <2>2, <3>2, <3>3 DEF GoesOn
  <2> QED
    BY <2>1, <2>2
<1> QED
  BY <1>3, <1>8, <1>9

LEMMA StepLeaves ==
    ASSUME ClocksAgree, OpenInv, [Next]_vars
    PROVE  WaitingIsOpen' /\ RevertsLeaveOpen'
<1>0. /\ DifferInv /\ TypeOK /\ DraftOK /\ clock \in Nat
  BY DEF OpenInv, LoopInv, MemoryInv, DifferInv, TypeOK
<1>1. SUFFICES ASSUME NEW m \in hist', Expects(m.of)'
               PROVE  /\ \E n \in hist' : OnTop(n)'
                      /\ \A R \in RevertIds' : LeftOpen(R, hist', m)
  BY DEF WaitingIsOpen, RevertsLeaveOpen, LeftOpen
<1>2. ASSUME UNCHANGED hist, Expects(m.of), RevertIds' \subseteq RevertIds
      PROVE  /\ \E n \in hist' : OnTop(n)'
             /\ \A R \in RevertIds' : LeftOpen(R, hist', m)
  <2>1. /\ m \in hist /\ Users(hist) \subseteq hist'
        /\ \A n \in hist : n.of = m.of => n \in hist'
        /\ \A a \in Assistants(hist') : Complete(a) => a \in hist
    BY <1>2 DEF Users, Assistants
  <2> QED
    BY <1>2, <2>1, OpenKept
<1>3. m.of \in Prompts /\ m.of # None
  BY <1>1 DEF Expects, Waits, Callers
<1>4. CASE Idle
  <2>1. call'[m.of] = "waiting" /\ pc' # "off"
    BY <1>1, <1>3, StepWaits DEF OpenInv, NobodyWaits, Expects, Callers
  <2>2. CallsStay /\ RevertIds' \subseteq RevertIds
    BY <1>4, <2>1 DEF Idle, CallsLeft
  <2>3. Expects(m.of)
    BY <1>1, <1>3, <1>4, <2>2 DEF Expects, Waits, Idle, CallsStay, marks
  <2> QED
    BY <1>2, <1>4, <2>2, <2>3 DEF Idle
<1>5. CASE Trims
  BY <1>1, <1>5, TrimLeaves
<1>6. CASE \E g : Asks(g)
  <2>1. PICK g : Asks(g)
    BY <1>6
  <2>2. /\ g.role = "user" /\ g.of \notin Prompts /\ hist' = hist \cup {g}
        /\ UNCHANGED <<revert, plan, heard, late, undone>> /\ blind \subseteq blind'
        /\ \A k \in Reverts : call'[k] = call[k]
        /\ \A p \in Prompts : call'[p] = call[p]
    BY <2>1 DEF Asks, KindOK, CallsStay
  <2>3. m \in hist /\ Expects(m.of) /\ RevertIds' = RevertIds
    BY <1>1, <1>3, <2>2 DEF Expects, Waits, RevertIds
  <2> QED
    BY <2>2, <2>3, OpenKept DEF Users, Assistants
<1>7. ASSUME NEW p \in Prompts, Draw(p)
      PROVE  /\ \E n \in hist' : OnTop(n)'
             /\ \A R \in RevertIds' : LeftOpen(R, hist', m)
  <2>1. Expects(m.of) /\ RevertIds' \subseteq RevertIds
    BY <1>0, <1>1, <1>3, <1>7 DEF Draw, Expects, Waits, RevertIds, TypeOK, Callers, marks
  <2> QED
    BY <1>2, <1>7, <2>1 DEF Draw
<1>8. ASSUME NEW p \in Prompts, Store(p)
      PROVE  /\ \E n \in hist' : OnTop(n)'
             /\ \A R \in RevertIds' : LeftOpen(R, hist', m)
  BY <1>1, <1>8, StoreLeaves
<1>9. CASE Begin
  <2>1. PICK a \in Message : /\ a.role = "assistant" /\ ~Ended(a) /\ a.of = None
                             /\ hist' = hist \cup {a}
    BY <1>0, <1>9, BeginDiffers
  <2>2. ~Complete(a)
    BY <2>1, Zenon DEF Ended, Complete
  <2>3. UNCHANGED <<revert, plan, call, heard, marks>>
    BY <1>9 DEF Begin
  <2>4. m \in hist /\ Expects(m.of) /\ RevertIds' = RevertIds
    BY <1>1, <1>3, <2>1, <2>3 DEF Expects, Waits, RevertIds, marks
  <2> QED
    BY <2>1, <2>2, <2>4, OpenKept DEF Users, Assistants
<1>10. CASE Turn
  <2>1. Expects(m.of) /\ RevertIds' = RevertIds /\ hist' = hist
    BY <1>1, <1>10 DEF Turn, Expects, Waits, RevertIds, marks
  <2> QED
    BY <1>2, <2>1
<1>11. ASSUME NEW a, NEW next, Closes(a, next), GoesOn(a, next)
      PROVE  /\ \E n \in hist' : OnTop(n)'
             /\ \A R \in RevertIds' : LeftOpen(R, hist', m)
  BY <1>1, <1>11, CloseLeaves
<1> QED
  BY <1>0, <1>4, <1>5, <1>6, <1>7, <1>8, <1>9, <1>10, <1>11, Steps

LEMMA StepStaysOpen == ASSUME ClocksAgree, OpenInv, [Next]_vars PROVE OpenInv'
<1>1. LoopInv'
  BY StepLoops DEF OpenInv
<1> QED
  BY <1>1, StepOld, StepLeaves DEF OpenInv

-----------------------------------------------------------------------------
(* The theorems.                                                           *)

LEMMA InitOpens == Init => OpenInv
<1> SUFFICES ASSUME Init PROVE OpenInv
  OBVIOUS
<1>1. TypeOK
  BY InitTypes
<1>2. /\ Known = {} /\ Writing = {} /\ hist = {} /\ read = {} /\ pc = "off"
      /\ \A x \in Callers \cup Reverts : call[x] = "new"
      /\ RevertIds = {}
  BY DEF Init, Known, Writing, RevertIds, Callers
<1>3. MessagesDiffer /\ SlipsDiffer /\ DraftOK
  BY <1>2 DEF MessagesDiffer, SlipsDiffer, DraftOK, Callers
<1>4. CutsBelow /\ Remembered /\ NothingForgotten
  BY <1>2 DEF CutsBelow, Remembered, NothingForgotten, Unheard
<1>5. AnswersAreOld /\ NobodyWaits /\ ReadOrOnTop /\ ReadIsOpen
  BY <1>2 DEF AnswersAreOld, Users, NobodyWaits, ReadOrOnTop, Reading, ReadIsOpen
<1>6. WaitingIsOpen /\ RevertsAreOld /\ RevertsLeaveOpen
  BY <1>2 DEF WaitingIsOpen, RevertsAreOld, RevertsLeaveOpen
<1> QED
  BY <1>1, <1>3, <1>4, <1>5, <1>6 DEF OpenInv, LoopInv, MemoryInv, DifferInv

\* The inductive invariant of the prompts and the loop, whatever clocks and callers there
\* are: session/prompt.ts with session/compaction.ts and session/revert.ts.
THEOREM LoopInvHolds == Spec => []LoopInv
<1>1. Init => LoopInv
  BY InitOpens DEF OpenInv
<1>2. LoopInv /\ [Next]_vars => LoopInv'
  BY StepLoops
<1> QED
  BY <1>1, <1>2, PTL DEF Spec

\* The variables of the loop keep their types.
THEOREM LoopTypeOKHolds == Spec => []TypeOK
<1>1. LoopInv => TypeOK
  BY DEF LoopInv, MemoryInv, DifferInv
<1> QED
  BY <1>1, LoopInvHolds, PTL

\* What a compaction cuts off has been given to the model: filterCompacted of
\* session/message-v2.ts and the replay of session/compaction.ts.
THEOREM NothingForgottenHolds == Spec => []NothingForgotten
<1>1. LoopInv => NothingForgotten
  BY DEF LoopInv, MemoryInv
<1> QED
  BY <1>1, LoopInvHolds, PTL

\* Only the exit of the loop answers who waits.
LEMMA ExitsAnswer ==
    ASSUME TypeOK, [Next]_vars, Exits
    PROVE  Exit
<1>1. PICK x \in Callers : pc = "top" /\ call[x] = "waiting" /\ call'[x] = "answered"
  BY DEF Exits
<1>2. ASSUME NEW how, how # "answered", Leave(how) PROVE FALSE
  BY <1>1, <1>2 DEF Leave, TypeOK
<1>3. ~Die /\ ~Falter /\ ~StepBreaks /\ ~CompactFails /\ ~Cancel
  BY <1>1, <1>2, Zenon DEF Die, Falter, StepBreaks, CompactFails, Cancel
<1>4. call' # call
  BY <1>1
<1>5. ~Turn /\ ~Shrink /\ ~Begin /\ ~Compress /\ ~StepDone /\ ~StepCalls /\ ~StepOverflows
      /\ ~CompactDone /\ ~SubtaskDone /\ ~Unrevert
  BY <1>4, Zenon DEF Turn, Shrink, Begin, Compress, StepDone, StepCalls, StepOverflows,
                     CompactDone, SubtaskDone, Unrevert
<1>6. \A p \in Prompts : ~Draw(p) /\ ~Enter(p) /\ ~Store(p)
  BY <1>1 DEF Draw, Enter, Store, Join, TypeOK, Callers
<1>7. \A y \in Summaries : ~Clean(y) /\ ~Summarize(y) /\ ~JoinStored(y)
  BY <1>1 DEF Clean, Summarize, JoinStored, Join, TypeOK, Callers
<1>8. \A k \in Reverts : ~ChooseRevert(k) /\ ~SetRevert(k)
  BY <1>1 DEF ChooseRevert, SetRevert, TypeOK, Callers
<1>9. ~Crash
  BY <1>1 DEF Crash, TypeOK, Callers
<1>10. ~UNCHANGED vars
  BY <1>4 DEF vars
<1> QED
  BY <1>3, <1>5, <1>6, <1>7, <1>8, <1>9, <1>10 DEF Next, LoopStep

LEMMA AnsweredSays ==
    ASSUME NEW S, Answered(S)
    PROVE  \E a \in S, u \in S : /\ IsNewest(a, Assistants(S)) /\ IsNewest(u, Users(S))
                                 /\ Complete(a) /\ u.id < a.id
  BY Zenon DEF Answered, Complete

LEMMA NotAnsweredSays ==
    ASSUME NEW S, ~Answered(S), NEW a \in S, NEW u \in S,
           IsNewest(a, Assistants(S)), IsNewest(u, Users(S)), Complete(a)
    PROVE  ~(u.id < a.id)
  BY Zenon DEF Answered, Complete

LEMMA ExitReads ==
    ASSUME OpenInv, Exit, {m.of : m \in hist} \cap (late \cup blind \cup undone) = {}
    PROVE  Unread = {}
<1>0. DifferInv /\ TypeOK /\ WaitingIsOpen /\ AnswersAreOld
  BY DEF OpenInv, LoopInv, MemoryInv, DifferInv
<1> SUFFICES ASSUME NEW m \in hist, m.of \in Prompts \ heard, call[m.of] = "waiting" PROVE FALSE
  BY DEF Unread, Unheard
<1>1. Expects(m.of)
  BY DEF Expects, Waits
<1>2. PICK n \in hist : OnTop(n)
  BY <1>0, <1>1 DEF WaitingIsOpen
<1>3. PICK a \in Window, u \in Window :
         /\ IsNewest(a, Assistants(Window)) /\ IsNewest(u, Users(Window))
         /\ Complete(a) /\ u.id < a.id
  BY AnsweredSays DEF Exit
<1>4. /\ \A x \in hist : x.at \in Nat /\ x.id \in Nat
      /\ \A c \in Cuts(hist) : c.at \in Nat
  BY <1>0, CutsAre DEF TypeOK, Message
<1>5. a \in Assistants(hist) /\ u \in Users(hist)
  BY <1>3 DEF IsNewest, Assistants, Users, Window
<1>6. a.at < n.at
  BY <1>2, <1>3, <1>5 DEF OnTop
<1>7. n \in Users(Window)
  <2>1. \A c \in Cuts(hist) : c.at <= a.at
    BY <1>3 DEF Window
  <2>2. \A c \in Cuts(hist) : c.at <= n.at
    BY <1>4, <1>5, <1>6, <2>1 DEF Assistants
  <2> QED
    BY <1>2, <2>2 DEF Window, OnTop, Users
<1>8. a.at < u.at
  <2>1. n.at <= u.at
    BY <1>3, <1>7 DEF IsNewest
  <2> QED
    BY <1>2, <1>4, <1>5, <1>6, <2>1 DEF Assistants, Users
<1>9. u.of \notin late
  BY <1>5 DEF Users
<1>10. a.id < u.id
  BY <1>0, <1>5, <1>8, <1>9 DEF AnswersAreOld, Assistants
<1> QED
  BY <1>3, <1>4, <1>5, <1>10 DEF Assistants, Users

\* Whoever waits for the loop and has not been heard has a message above all complete
\* answers, also after the clean-ups of session/revert.ts.
THEOREM OpenInvHolds == ClocksAgree => (Spec => []OpenInv)
<1> SUFFICES ASSUME ClocksAgree PROVE Spec => []OpenInv
  OBVIOUS
<1>1. OpenInv /\ [Next]_vars => OpenInv'
  BY StepStaysOpen
<1> QED
  BY <1>1, InitOpens, PTL DEF Spec

\* The loop answers its callers only when a stream has had the prompts of all of them,
\* but for the cases the property names: the exit of the loop in session/prompt.ts.
THEOREM ExitHasReadHolds == ClocksAgree => (Spec => ExitHasRead)
<1> SUFFICES ASSUME ClocksAgree PROVE Spec => ExitHasRead
  OBVIOUS
<1>1. OpenInv /\ [Next]_vars =>
        [Exits /\ {m.of : m \in hist} \cap (late \cup blind \cup undone) = {} => Unread = {}]_vars
  BY ExitsAnswer, ExitReads DEF OpenInv, LoopInv, MemoryInv, DifferInv
<1>2. Spec => []OpenInv
  BY OpenInvHolds
<1> QED
  BY <1>1, <1>2, PTL DEF Spec, ExitHasRead

\* Only Begin has a step streamed.
LEMMA StreamsBegin ==
    ASSUME TypeOK, DraftOK, [Next]_vars, pc = "ready", pc' = "streaming"
    PROVE  Begin
<1>1. ~Idle /\ ~Turn /\ ~Trims /\ (\A g : ~Asks(g)) /\ \A m, next : ~Closes(m, next)
  BY DEF Idle, CallsLeft, Turn, Trims, Asks, Closes
<1>2. \A p \in Prompts : ~Draw(p)
  BY DEF Draw, loopVars
<1>3. \A p \in Prompts : ~Store(p)
  BY StoreSteps
<1> QED
  BY <1>1, <1>2, <1>3, Steps

\* A step is made with a user message that is newer than the last complete answer, or
\* older by less than the skew of the clocks.
StepsHaveNewWork ==
    [][pc = "ready" /\ pc' = "streaming" /\ job = "step" =>
          \A a \in read : IsNewest(a, Assistants(read)) =>
              ~Complete(a) \/ \E u \in Users(read) : u.at + Skew > a.at]_vars

LEMMA BeginHasWork ==
    ASSUME LoopInv, Begin, NEW a \in read, IsNewest(a, Assistants(read)), Complete(a)
    PROVE  \E u \in Users(read) : u.at \in Nat /\ a.at \in Nat /\ Skew \in Nat /\ u.at + Skew > a.at
<1>0. DifferInv /\ ReadIsOpen /\ pc = "ready"
  BY DEF LoopInv, MemoryInv, Begin
<1>1. PICK u \in read : IsNewest(u, Users(read))
  BY DEF Begin
<1>2. ~(u.id < a.id)
  BY <1>0, <1>1, NotAnsweredSays DEF ReadIsOpen
<1>3. a.role = "assistant" /\ u.role = "user" /\ u \in Users(read)
  BY <1>1 DEF IsNewest, Assistants, Users
<1>4. /\ a.id = ServerId(a.at) /\ a.at \in Nat /\ u.at \in Nat /\ u.id \in Nat /\ a.id \in Nat
      /\ Stamped(u) /\ (u.at # a.at) /\ Skew \in Nat
  BY <1>0, <1>3, KnownTimes DEF DifferInv, MessagesDiffer, Known, Stamped, Twins
<1>5. u.id >= a.id
  BY <1>2, <1>4
<1>6. CASE u.id = ServerId(u.at)
  BY <1>3, <1>4, <1>5, <1>6 DEF ServerId
<1>7. CASE \E k \in 1..(u.at - 1) : u.id = ClientId(k)
  <2>1. PICK k \in 1..(u.at - 1) : u.id = 2 * (k + Skew) + 1
    BY <1>7 DEF ClientId
  <2>2. a.at <= k + Skew
    BY <1>4, <1>5, <2>1 DEF ServerId
  <2> QED
    BY <1>3, <1>4, <2>1, <2>2
<1> QED
  BY <1>4, <1>6, <1>7 DEF Stamped

\* Whatever the clocks of the clients are, a step has a user message to answer that is
\* newer than the last complete answer, or older by less than their skew.
THEOREM StepsHaveNewWorkHolds == Spec => StepsHaveNewWork
<1>1. LoopInv /\ [Next]_vars =>
        [pc = "ready" /\ pc' = "streaming" /\ job = "step" =>
          \A a \in read : IsNewest(a, Assistants(read)) =>
              ~Complete(a) \/ \E u \in Users(read) : u.at + Skew > a.at]_vars
  <2> SUFFICES ASSUME LoopInv, [Next]_vars, pc = "ready", pc' = "streaming",
                      NEW a \in read, IsNewest(a, Assistants(read)), Complete(a)
               PROVE  \E u \in Users(read) : u.at + Skew > a.at
    OBVIOUS
  <2>1. Begin
    BY StreamsBegin DEF LoopInv, MemoryInv, DifferInv
  <2> QED
    BY <2>1, BeginHasWork
<1> QED
  BY <1>1, LoopInvHolds, PTL DEF Spec, StepsHaveNewWork

\* When the clocks agree, a step is made only for a user message that is newer than the
\* last complete answer: the loop of session/prompt.ts.
THEOREM StepsHaveWorkHolds == Skew = 0 => (Spec => StepsHaveWork)
<1> SUFFICES ASSUME Skew = 0 PROVE Spec => StepsHaveWork
  OBVIOUS
<1>1. LoopInv /\ [Next]_vars =>
        [pc = "ready" /\ pc' = "streaming" /\ job = "step" =>
          \A a \in read : IsNewest(a, Assistants(read)) =>
              \/ a.finish \in {"", "tool-calls"} \/ a.calls
              \/ \E u \in Users(read) : u.at > a.at]_vars
  <2> SUFFICES ASSUME LoopInv, [Next]_vars, pc = "ready", pc' = "streaming",
                      NEW a \in read, IsNewest(a, Assistants(read)), Complete(a)
               PROVE  \E u \in Users(read) : u.at > a.at
    BY Zenon DEF Complete
  <2>1. Begin
    BY StreamsBegin DEF LoopInv, MemoryInv, DifferInv
  <2> QED
    BY <2>1, BeginHasWork
<1> QED
  BY <1>1, LoopInvHolds, PTL DEF Spec, StepsHaveWork

HIDE LoopAssumption

-----------------------------------------------------------------------------
(* The instances, their states and the questions in them.                  *)

BootRows  == [is: {"none", "booting", "ready", "failed"}, dir: Dirs \cup {NoDir}]
StateRows == [is: {"none", "open", "closing", "closed"}, of: Boots \cup {0},
              has: SUBSET Questions]

InstancesTypeOK ==
    /\ cache \in [Dirs -> Boots \cup {0}]
    /\ boot \in [Boots -> BootRows]
    /\ live \in [Dirs -> States \cup {0}]
    /\ state \in [States -> StateRows]
    /\ request \in [Requests -> [at: {"new", "waiting", "inside", "done", "failed"},
                                 on: Boots \cup {0}]]
    /\ question \in [Questions -> [at: {"new", "waiting", "answered", "rejected"},
                                   in: States \cup {0}]]
    /\ disposal \in [Disposals -> [at: {"new", "disposing", "reloading", "done"},
                                   dir: Dirs \cup {NoDir}, state: States \cup {0}]]
    /\ walk \in [at: {"off", "next", "awaiting", "disposing"}, left: SUBSET Boots,
                 on: Boots \cup {0}, state: States \cup {0}]
    /\ caller \in [Alls -> {"new", "waiting", "joined", "done", "followed"}]
    /\ overdue \in SUBSET States
    /\ mine \in [Alls -> SUBSET Boots]

MadeBoots  == {b \in Boots : boot[b].is # "none"}
MadeStates == {s \in States : state[s].is # "none"}

\* Boots and states are numbered in the order in which they are made.
Numbered ==
    /\ \E n \in Nat : MadeBoots = 1..n
    /\ \E n \in Nat : MadeStates = 1..n

\* Whoever names an instance names one that was made, and the cache has, for a
\* directory, one of that directory which has not failed.
InstancesKnown ==
    /\ \A b \in MadeBoots : DirOf(b) \in Dirs
    /\ \A d \in Dirs : cache[d] # 0 => /\ DirOf(cache[d]) = d
                                       /\ boot[cache[d]].is \in {"booting", "ready"}
    /\ \A r \in Requests : request[r].at = "waiting" => request[r].on \in MadeBoots
    /\ \A r \in Requests : request[r].at = "inside" => request[r].on \in MadeBoots
    /\ \A x \in Disposals : disposal[x].at \in {"disposing", "reloading"} => disposal[x].dir \in Dirs
    /\ walk.left \subseteq MadeBoots
    /\ walk.at \in {"awaiting", "disposing"} => walk.on \in walk.left
    /\ \A a \in Alls : mine[a] \subseteq MadeBoots

\* The state to be found in a directory is the open one made by an instance of it.
StatesKnown ==
    /\ \A s \in MadeStates : state[s].of \in MadeBoots
    /\ \A d \in Dirs : live[d] # 0 =>
          /\ state[live[d]].is = "open"
          /\ DirOf(state[live[d]].of) = d
    /\ \A s \in States : state[s].is = "open" => live[DirOf(state[s].of)] = s

\* The questions in the states are those that wait.
QuestionsKept ==
    /\ \A q \in Questions : question[q].at = "waiting" =>
          question[q].in \in States /\ q \in state[question[q].in].has
    /\ \A s \in States : \A q \in state[s].has :
          /\ question[q].at = "waiting" /\ question[q].in = s
          /\ state[s].is \in {"open", "closing"}

\* What is made in a directory that is being disposed of is overdue.
ClosingIsOverdue == \A d \in Dirs : Closing(d) => live[d] \in overdue \cup {0}

\* What a call of disposeAll found is gone, or the walk has yet to come to it.
WalkIsThorough ==
    \A a \in Alls :
        /\ caller[a] = "waiting" => walk.at # "off"
        /\ caller[a] \in {"waiting", "done"} =>
              \A b \in mine[a] : Has(b) => caller[a] = "waiting" /\ b \in walk.left

InstancesInv ==
    /\ InstancesTypeOK /\ Numbered /\ InstancesKnown /\ StatesKnown /\ QuestionsKept
    /\ ClosingIsOverdue /\ StatesFollowInstance /\ WalkIsThorough

USE InstancesAssumption

-----------------------------------------------------------------------------
(* Numbers of new instances and states.                                    *)

LEMMA NextNumber ==
    ASSUME NEW S, NEW n \in Nat, S = 1..n
    PROVE  /\ Cardinality(S) + 1 = n + 1
           /\ n + 1 \notin S
           /\ S \cup {n + 1} = 1..(n + 1)
<1>1. Cardinality(1..n) = n
  <2>1. 1 \in Int /\ n \in Int
    OBVIOUS
  <2>2. Cardinality(1..n) = IF 1 > n THEN 0 ELSE n - 1 + 1
    BY <2>1, FS_Interval, Zenon
  <2> QED
    BY <2>2
<1> QED
  BY <1>1

LEMMA BootIsNew ==
    ASSUME Numbered
    PROVE  /\ NewBoot \in Nat \ {0} /\ NewBoot \notin MadeBoots
           /\ \E n \in Nat : MadeBoots \cup {NewBoot} = 1..n
<1>1. PICK n \in Nat : MadeBoots = 1..n
  BY DEF Numbered
<1>2. NewBoot = n + 1
  BY <1>1, NextNumber DEF NewBoot, MadeBoots
<1>3. n + 1 \notin MadeBoots /\ MadeBoots \cup {n + 1} = 1..(n + 1)
  BY <1>1, NextNumber
<1>4. n + 1 \in Nat \ {0}
  OBVIOUS
<1> QED
  BY <1>2, <1>3, <1>4

LEMMA StateIsNew ==
    ASSUME Numbered
    PROVE  /\ NewState \in Nat \ {0} /\ NewState \notin MadeStates
           /\ \E n \in Nat : MadeStates \cup {NewState} = 1..n
<1>1. PICK n \in Nat : MadeStates = 1..n
  BY DEF Numbered
<1>2. NewState = n + 1
  BY <1>1, NextNumber DEF NewState, MadeStates
<1>3. n + 1 \notin MadeStates /\ MadeStates \cup {n + 1} = 1..(n + 1)
  BY <1>1, NextNumber
<1>4. n + 1 \in Nat \ {0}
  OBVIOUS
<1> QED
  BY <1>2, <1>3, <1>4

LEMMA InstancesInitInv == InstancesInit => InstancesInv
<1> SUFFICES ASSUME InstancesInit PROVE InstancesInv
  OBVIOUS
<1> USE DEF InstancesInit, Boots, States
<1>1. InstancesTypeOK
  BY DEF InstancesTypeOK, BootRows, StateRows
<1>2. Numbered
  <2>1. MadeBoots = 1..0 /\ MadeStates = 1..0
    BY DEF MadeBoots, MadeStates
  <2> QED
    BY <2>1 DEF Numbered
<1>3. InstancesKnown /\ StatesKnown /\ QuestionsKept /\ ClosingIsOverdue /\ StatesFollowInstance
      /\ WalkIsThorough
  BY DEF InstancesKnown, StatesKnown, QuestionsKept, ClosingIsOverdue, StatesFollowInstance,
         WalkIsThorough, MadeBoots, MadeStates, DirOf
<1> QED
  BY <1>1, <1>2, <1>3 DEF InstancesInv

-----------------------------------------------------------------------------
(* Looking for a state, and its making.                                    *)

LEMMA LookUpFacts ==
    ASSUME InstancesInv, NEW b \in MadeBoots, LookUp(b)
    PROVE  /\ Found(b) \in States /\ DirOf(b) \in Dirs
           /\ With(b) \in [States -> StateRows]
           /\ With(b)[Found(b)].is = "open"
           /\ With(b)[Found(b)].of \in MadeBoots
           /\ DirOf(With(b)[Found(b)].of) = DirOf(b)
           /\ live' = [live EXCEPT ![DirOf(b)] = Found(b)]
           /\ overdue' \in SUBSET States /\ overdue \subseteq overdue'
           /\ \A s \in States \ {Found(b)} : With(b)[s] = state[s]
           /\ \/ live[DirOf(b)] = Found(b) /\ With(b) = state
              \/ /\ live[DirOf(b)] = 0 /\ Found(b) = NewState /\ NewState \notin MadeStates
                 /\ state[NewState].is = "none"
                 /\ With(b)[NewState] = [is |-> "open", of |-> b, has |-> {}]
                 /\ NewState \notin overdue' => cache[DirOf(b)] = b /\ ~Closing(DirOf(b))
<1>0. InstancesTypeOK /\ Numbered /\ InstancesKnown /\ StatesKnown
  BY DEF InstancesInv
<1>1. b \in Boots /\ DirOf(b) \in Dirs /\ NewState \notin MadeStates /\ NewState # 0
  BY <1>0, StateIsNew DEF MadeBoots, InstancesKnown
<1>2. Found(b) \in States /\ live' = [live EXCEPT ![DirOf(b)] = Found(b)]
  BY DEF LookUp
<1>3. CASE live[DirOf(b)] # 0
  <2>1. Found(b) = live[DirOf(b)] /\ With(b) = state /\ overdue' = overdue
    BY <1>3 DEF Found, With, LookUp
  <2>2. Found(b) \in MadeStates
    BY <1>0, <1>1, <1>2, <1>3, <2>1 DEF StatesKnown, MadeStates
  <2> QED
    BY <1>0, <1>1, <1>2, <1>3, <2>1, <2>2 DEF InstancesTypeOK, StatesKnown
<1>4. CASE live[DirOf(b)] = 0
  <2>1. Found(b) = NewState
        /\ With(b) = [state EXCEPT ![NewState] = [is |-> "open", of |-> b, has |-> {}]]
        /\ overdue' = IF cache[DirOf(b)] # b \/ Closing(DirOf(b)) THEN overdue \cup {NewState}
                                                                  ELSE overdue
    BY <1>4 DEF Found, With, LookUp
  <2>2. [is |-> "open", of |-> b, has |-> {}] \in StateRows
    BY <1>1 DEF StateRows
  <2>3. state[NewState].is = "none"
    BY <1>1, <1>2, <2>1 DEF MadeStates
  <2> QED
    BY <1>0, <1>1, <1>2, <1>4, <2>1, <2>2, <2>3 DEF InstancesTypeOK
<1> QED
  BY <1>3, <1>4

\* What is true of the instances as a step leaves them alone, but for one that becomes
\* ready or fails; the cache may lose what fails.
BootsStay ==
    /\ boot' \in [Boots -> BootRows]
    /\ MadeBoots' = MadeBoots
    /\ \A b \in Boots : /\ boot'[b].dir = boot[b].dir
                        /\ boot[b].is = "failed" => boot'[b].is = "failed"
    /\ \A d \in Dirs : \/ cache'[d] = cache[d]
                       \/ cache'[d] = 0 /\ cache[d] # 0 /\ boot'[cache[d]].is = "failed"

\* A step that looks for a state, and may change what questions are in it.
LEMMA LookUpKeeps ==
    ASSUME InstancesInv, NEW b \in MadeBoots, LookUp(b), BootsStay,
           state' \in [States -> StateRows],
           \A s \in States : state'[s].is = With(b)[s].is /\ state'[s].of = With(b)[s].of,
           UNCHANGED <<disposal, walk>>
    PROVE  /\ live' \in [Dirs -> States \cup {0}] /\ overdue' \in SUBSET States
           /\ Numbered' /\ StatesKnown' /\ ClosingIsOverdue' /\ StatesFollowInstance'
<1>0. InstancesTypeOK /\ Numbered /\ InstancesKnown /\ StatesKnown /\ ClosingIsOverdue
      /\ StatesFollowInstance
  BY DEF InstancesInv
<1> DEFINE d == DirOf(b)
           s == Found(b)
<1>1. d \in Dirs /\ s \in States /\ live' = [live EXCEPT ![d] = s] /\ overdue' \in SUBSET States
      /\ overdue \subseteq overdue'
  BY LookUpFacts
<1>2. live' \in [Dirs -> States \cup {0}]
  BY <1>0, <1>1 DEF InstancesTypeOK
<1>3. state'[s].is = "open" /\ state'[s].of \in MadeBoots /\ DirOf(state'[s].of) = d
  BY LookUpFacts
<1>4. \A t \in States \ {s} : state'[t].is = state[t].is /\ state'[t].of = state[t].of
  BY LookUpFacts
<1>5. \/ live[d] = s /\ \A t \in States : state'[t].is = state[t].is /\ state'[t].of = state[t].of
      \/ /\ live[d] = 0 /\ s = NewState /\ s \notin MadeStates /\ state'[s].of = b
         /\ s \notin overdue' => cache[d] = b /\ ~Closing(d)
  <2>1. CASE live[d] = s /\ With(b) = state
    BY <2>1
  <2>2. CASE /\ live[d] = 0 /\ s = NewState /\ NewState \notin MadeStates
             /\ With(b)[NewState] = [is |-> "open", of |-> b, has |-> {}]
             /\ NewState \notin overdue' => cache[d] = b /\ ~Closing(d)
    <3>1. state'[s].of = b
      BY <1>1, <2>2
    <3> QED
      BY <2>2, <3>1
  <2> QED
    BY <2>1, <2>2, LookUpFacts
<1>6. \A c \in Boots : DirOf(c)' = DirOf(c) /\ boot'[c].dir = DirOf(c)
  BY DEF BootsStay, DirOf
<1>7. MadeStates' = MadeStates \cup {s}
  <2>1. \A t \in States : t \in MadeStates' <=> state'[t].is # "none"
    BY DEF MadeStates, States
  <2>2. \A t \in States : t \in MadeStates <=> state[t].is # "none"
    BY DEF MadeStates
  <2>3. MadeStates' \subseteq States /\ MadeStates \subseteq States
    BY DEF MadeStates, States
  <2> QED
    BY <1>1, <1>3, <1>4, <2>1, <2>2, <2>3
<1>8. Numbered'
  <2>1. CASE live[d] = s /\ \A t \in States : state'[t].is = state[t].is
    <3>1. s \in MadeStates
      BY <1>1, <1>3, <2>1 DEF MadeStates
    <3> QED
      BY <1>0, <1>7, <3>1 DEF Numbered, BootsStay
  <2>2. CASE s = NewState
    BY <1>0, <1>7, <2>2, StateIsNew DEF Numbered, BootsStay
  <2> QED
    BY <1>5, <2>1, <2>2
<1>9. StatesKnown'
  <2>1. \A t \in MadeStates' : state'[t].of \in MadeBoots'
    <3> SUFFICES ASSUME NEW t \in MadeStates \cup {s} PROVE state'[t].of \in MadeBoots
      BY <1>7 DEF BootsStay
    <3>1. CASE t = s
      BY <1>3, <3>1
    <3>2. CASE t # s
      BY <1>0, <1>4, <3>2 DEF StatesKnown, MadeStates
    <3> QED
      BY <3>1, <3>2
  <2>2. \A e \in Dirs : live'[e] # 0 => state'[live'[e]].is = "open" /\ boot'[state'[live'[e]].of].dir = e
    <3> SUFFICES ASSUME NEW e \in Dirs, live'[e] # 0
                 PROVE  state'[live'[e]].is = "open" /\ boot'[state'[live'[e]].of].dir = e
      OBVIOUS
    <3>1. CASE e = d
      <4>1. live'[e] = s
        BY <1>0, <1>1, <3>1 DEF InstancesTypeOK
      <4>2. state'[s].of \in Boots
        BY <1>3 DEF MadeBoots
      <4> QED
        BY <1>3, <1>6, <3>1, <4>1, <4>2
    <3>2. CASE e # d
      <4>1. live'[e] = live[e] /\ live[e] \in States
        BY <1>0, <1>1, <3>2 DEF InstancesTypeOK
      <4>2. state[live[e]].is = "open" /\ DirOf(state[live[e]].of) = e
        BY <1>0, <4>1 DEF StatesKnown
      <4>3. live[e] \in MadeStates /\ state[live[e]].of \in Boots
        BY <1>0, <4>1, <4>2 DEF StatesKnown, MadeStates, MadeBoots
      <4>4. live[e] # s
        <5>1. CASE live[d] = s
          BY <1>0, <1>1, <3>2, <4>2, <5>1 DEF StatesKnown
        <5>2. CASE s \notin MadeStates
          BY <4>3, <5>2
        <5> QED
          BY <1>5, <5>1, <5>2
      <4> QED
        BY <1>4, <1>6, <4>1, <4>2, <4>3, <4>4
    <3> QED
      BY <3>1, <3>2
  <2>3. \A t \in States : state'[t].is = "open" => live'[boot'[state'[t].of].dir] = t
    <3> SUFFICES ASSUME NEW t \in States, state'[t].is = "open"
                 PROVE  live'[boot'[state'[t].of].dir] = t
      OBVIOUS
    <3>1. CASE t = s
      <4>1. state'[s].of \in Boots
        BY <1>3 DEF MadeBoots
      <4> QED
        BY <1>0, <1>1, <1>3, <1>6, <3>1, <4>1 DEF InstancesTypeOK
    <3>2. CASE t # s
      <4>1. state[t].is = "open" /\ state'[t].of = state[t].of /\ t \in MadeStates
        BY <1>4, <3>2 DEF MadeStates
      <4>2. state[t].of \in MadeBoots /\ live[DirOf(state[t].of)] = t
        BY <1>0, <4>1 DEF StatesKnown
      <4>3. state[t].of \in Boots /\ DirOf(state[t].of) \in Dirs
        BY <1>0, <4>2 DEF InstancesKnown, MadeBoots
      <4>4. DirOf(state[t].of) # d
        <5>1. t \in Nat \ {0}
          BY DEF States
        <5> QED
          BY <1>5, <3>2, <4>2, <5>1
      <4> QED
        BY <1>0, <1>1, <1>6, <4>1, <4>2, <4>3, <4>4 DEF InstancesTypeOK
    <3> QED
      BY <3>1, <3>2
  <2>4. States' = States /\ Dirs' = Dirs
    BY DEF States
  <2> QED
    BY <2>1, <2>2, <2>3, <2>4 DEF StatesKnown, DirOf
<1>10. \A e \in Dirs : Closing(e)' => Closing(e)
  <2>1. walk.at = "disposing" => walk.on \in Boots
    BY <1>0 DEF InstancesKnown, MadeBoots
  <2> QED
    BY <1>6, <2>1 DEF Closing
<1>11. ClosingIsOverdue'
  <2> SUFFICES ASSUME NEW e \in Dirs, Closing(e) PROVE live'[e] \in overdue' \cup {0}
    BY <1>10 DEF ClosingIsOverdue
  <2>1. live[e] \in overdue \cup {0}
    BY <1>0 DEF ClosingIsOverdue
  <2> QED
    BY <1>0, <1>1, <1>5, <2>1 DEF InstancesTypeOK
<1>12. StatesFollowInstance'
  <2> SUFFICES ASSUME NEW e \in Dirs, live'[e] \in States \ overdue',
                      boot'[state'[live'[e]].of].is # "failed"
               PROVE  state'[live'[e]].of = cache'[e]
    BY DEF StatesFollowInstance, States
  <2> DEFINE t == live'[e]
  <2>1. state'[t].of = cache[e]
    <3>1. CASE live[e] = t /\ state'[t].of = state[t].of
      <4>1. state[t].of \in MadeBoots
        <5>1. t # 0
          BY DEF States
        <5>2. t \in MadeStates
          BY <1>0, <3>1, <5>1 DEF StatesKnown, MadeStates
        <5> QED
          BY <1>0, <5>2 DEF StatesKnown
      <4>2. boot[state[t].of].is # "failed"
        BY <3>1, <4>1 DEF BootsStay, MadeBoots
      <4> QED
        BY <1>0, <1>1, <3>1, <4>2 DEF StatesFollowInstance
    <3>2. CASE e = d /\ t = s /\ state'[s].of = b /\ s \notin overdue' /\ cache[d] = b
      BY <3>2
    <3>3. CASE e # d
      <4>1. t = live[e]
        BY <1>0, <1>1, <3>3 DEF InstancesTypeOK
      <4>2. t # s
        <5>1. t # 0 /\ state[t].is = "open" /\ DirOf(state[t].of) = e
          BY <1>0, <4>1 DEF StatesKnown, States
        <5>2. t \in MadeStates
          BY <5>1 DEF MadeStates
        <5> QED
          BY <1>0, <1>1, <1>5, <3>3, <5>1, <5>2 DEF StatesKnown
      <4> QED
        BY <1>4, <3>1, <4>1, <4>2
    <3>4. e = d => t = s
      BY <1>0, <1>1 DEF InstancesTypeOK
    <3> QED
      BY <1>5, <3>1, <3>2, <3>3, <3>4
  <2>2. cache'[e] = cache[e] \/ boot'[cache[e]].is = "failed"
    BY DEF BootsStay
  <2> QED
    BY <2>1, <2>2
<1> QED
  BY <1>1, <1>2, <1>8, <1>9, <1>11, <1>12

-----------------------------------------------------------------------------
(* What the cache has.                                                     *)

\* The cache gets a new instance of a directory, or loses the one it has, where it had
\* none or a disposal is under way.
LEMMA CacheMoves ==
    ASSUME InstancesInv, NEW d \in Dirs, NEW k \in {0} \cup (Boots \ MadeBoots),
           cache[d] = 0 \/ Closing(d),
           cache' = [cache EXCEPT ![d] = k],
           boot' = IF k = 0 THEN boot ELSE [boot EXCEPT ![k] = [is |-> "booting", dir |-> d]],
           Numbered', \A e \in Dirs : Closing(e)' => Closing(e),
           UNCHANGED <<live, state, overdue>>
    PROVE  /\ cache' \in [Dirs -> Boots \cup {0}] /\ boot' \in [Boots -> BootRows]
           /\ MadeBoots' = MadeBoots \cup ({k} \ {0})
           /\ \A b \in MadeBoots : boot'[b] = boot[b] /\ (Has(b)' => Has(b))
           /\ \A b \in MadeBoots' : DirOf(b)' \in Dirs
           /\ \A e \in Dirs : cache'[e] # 0 => /\ boot'[cache'[e]].dir = e
                                               /\ boot'[cache'[e]].is \in {"booting", "ready"}
           /\ StatesKnown' /\ ClosingIsOverdue' /\ StatesFollowInstance'
<1>0. InstancesTypeOK /\ InstancesKnown /\ StatesKnown /\ ClosingIsOverdue /\ StatesFollowInstance
  BY DEF InstancesInv
<1>1. cache' \in [Dirs -> Boots \cup {0}]
  BY <1>0 DEF InstancesTypeOK
<1>2. boot' \in [Boots -> BootRows]
  BY <1>0 DEF InstancesTypeOK, BootRows
<1>3. \A b \in MadeBoots : boot'[b] = boot[b] /\ b \in Boots
  BY <1>0 DEF MadeBoots, InstancesTypeOK
<1>4. k # 0 => k \in Boots /\ boot'[k] = [is |-> "booting", dir |-> d]
  BY <1>0 DEF InstancesTypeOK
<1>5. \A b \in Boots : b # k => boot'[b] = boot[b]
  BY <1>0 DEF InstancesTypeOK
<1>6. MadeBoots' = MadeBoots \cup ({k} \ {0})
  <2>1. \A b \in Boots : b \in MadeBoots' <=> boot'[b].is # "none"
    BY DEF MadeBoots, Boots
  <2>2. \A b \in Boots : b \in MadeBoots <=> boot[b].is # "none"
    BY DEF MadeBoots
  <2>3. MadeBoots' \subseteq Boots /\ MadeBoots \subseteq Boots /\ 0 \notin Boots
    BY DEF MadeBoots, Boots
  <2> QED
    BY <1>4, <1>5, <2>1, <2>2, <2>3
<1>7. \A b \in MadeBoots' : DirOf(b)' \in Dirs
  BY <1>0, <1>3, <1>4, <1>6 DEF InstancesKnown, DirOf
<1>8. \A b \in MadeBoots : Has(b)' => Has(b)
  <2> SUFFICES ASSUME NEW b \in MadeBoots, cache'[boot'[b].dir] = b PROVE cache[boot[b].dir] = b
    BY DEF Has, DirOf
  <2>1. boot'[b].dir = boot[b].dir /\ boot[b].dir \in Dirs /\ b # 0 /\ b # k
    BY <1>0, <1>3 DEF InstancesKnown, DirOf, Boots
  <2> QED
    BY <1>0, <2>1 DEF InstancesTypeOK
<1>9. \A e \in Dirs : cache'[e] # 0 => /\ boot'[cache'[e]].dir = e
                                       /\ boot'[cache'[e]].is \in {"booting", "ready"}
  <2> SUFFICES ASSUME NEW e \in Dirs, cache'[e] # 0
               PROVE  /\ boot'[cache'[e]].dir = e
                      /\ boot'[cache'[e]].is \in {"booting", "ready"}
    OBVIOUS
  <2>1. CASE e = d
    <3>1. cache'[e] = k
      BY <1>0, <2>1 DEF InstancesTypeOK
    <3> QED
      BY <1>4, <2>1, <3>1
  <2>2. CASE e # d
    <3>1. cache'[e] = cache[e] /\ cache[e] \in Boots
      BY <1>0, <2>2 DEF InstancesTypeOK
    <3>2. boot[cache[e]].dir = e /\ boot[cache[e]].is \in {"booting", "ready"}
      BY <1>0, <3>1 DEF InstancesKnown, DirOf
    <3>3. cache[e] \in MadeBoots
      BY <3>1, <3>2 DEF MadeBoots
    <3> QED
      BY <1>3, <3>1, <3>2, <3>3
  <2> QED
    BY <2>1, <2>2
<1>10. \A s \in MadeStates : state[s].of \in MadeBoots /\ boot'[state[s].of] = boot[state[s].of]
  BY <1>0, <1>3 DEF StatesKnown
<1>11. \A s \in States : state[s].is = "open" => s \in MadeStates
  BY DEF MadeStates
<1>12. StatesKnown'
  <2>1. MadeStates' = MadeStates
    BY DEF MadeStates, States
  <2>2. \A s \in MadeStates' : state'[s].of \in MadeBoots'
    BY <1>6, <1>10, <2>1
  <2>3. \A e \in Dirs : live'[e] # 0 => state'[live'[e]].is = "open" /\ boot'[state'[live'[e]].of].dir = e
    <3> SUFFICES ASSUME NEW e \in Dirs, live[e] # 0
                 PROVE  state[live[e]].is = "open" /\ boot'[state[live[e]].of].dir = e
      OBVIOUS
    <3>1. live[e] \in States /\ state[live[e]].is = "open" /\ boot[state[live[e]].of].dir = e
      BY <1>0 DEF InstancesTypeOK, StatesKnown, DirOf
    <3> QED
      BY <1>10, <1>11, <3>1
  <2>4. \A s \in States : state'[s].is = "open" => live'[boot'[state'[s].of].dir] = s
    BY <1>0, <1>10, <1>11 DEF StatesKnown, DirOf
  <2> QED
    BY <2>2, <2>3, <2>4 DEF StatesKnown, DirOf, States
<1>13. ClosingIsOverdue'
  BY <1>0 DEF ClosingIsOverdue
<1>14. StatesFollowInstance'
  <2> SUFFICES ASSUME NEW e \in Dirs, live[e] \in States \ overdue,
                      boot'[state[live[e]].of].is # "failed"
               PROVE  state[live[e]].of = cache'[e]
    BY DEF StatesFollowInstance, States
  <2>1. live[e] \in MadeStates
    BY <1>0 DEF StatesKnown, MadeStates, States
  <2>2. state[live[e]].of = cache[e] /\ state[live[e]].of # 0
    BY <1>0, <1>3, <1>10, <2>1 DEF StatesFollowInstance, Boots
  <2>3. ~Closing(e)
    BY <1>0 DEF ClosingIsOverdue, States
  <2>4. e # d
    BY <2>2, <2>3
  <2> QED
    BY <1>0, <2>2, <2>4 DEF InstancesTypeOK
<1> QED
  BY <1>1, <1>2, <1>3, <1>6, <1>7, <1>8, <1>9, <1>12, <1>13, <1>14

\* What a call of disposeAll found stays gone.
LEMMA WalkGoesOn ==
    ASSUME InstancesInv, \A b \in MadeBoots : Has(b)' => Has(b), UNCHANGED <<walk, caller, mine>>
    PROVE  WalkIsThorough'
<1>1. \A a \in Alls : mine[a] \subseteq MadeBoots
  BY DEF InstancesInv, InstancesKnown
<1> QED
  BY <1>1 DEF InstancesInv, WalkIsThorough

LEMMA TrackFacts ==
    ASSUME InstancesInv, NEW d \in Dirs, Track(d), UNCHANGED state
    PROVE  /\ NewBoot \in Boots \ MadeBoots
           /\ cache' = [cache EXCEPT ![d] = NewBoot]
           /\ boot' = [boot EXCEPT ![NewBoot] = [is |-> "booting", dir |-> d]]
           /\ Numbered'
<1>0. InstancesTypeOK /\ Numbered
  BY DEF InstancesInv
<1>1. NewBoot \in Boots \ MadeBoots
  BY <1>0, BootIsNew DEF Track
<1>2. boot' = [boot EXCEPT ![NewBoot] = [is |-> "booting", dir |-> d]]
  BY DEF Track
<1>3. MadeBoots' = MadeBoots \cup {NewBoot}
  <2>1. \A b \in Boots : boot'[b] = IF b = NewBoot THEN [is |-> "booting", dir |-> d] ELSE boot[b]
    BY <1>0, <1>2 DEF InstancesTypeOK
  <2>2. \A b \in Boots : b \in MadeBoots' <=> boot'[b].is # "none"
    BY DEF MadeBoots, Boots
  <2>3. \A b \in Boots : b \in MadeBoots <=> boot[b].is # "none"
    BY DEF MadeBoots
  <2>4. MadeBoots' \subseteq Boots /\ MadeBoots \subseteq Boots
    BY DEF MadeBoots, Boots
  <2> QED
    BY <1>1, <2>1, <2>2, <2>3, <2>4
<1>4. MadeStates' = MadeStates
  BY DEF MadeStates, States
<1>5. Numbered'
  BY <1>0, <1>3, <1>4, BootIsNew DEF Numbered
<1> QED
  BY <1>1, <1>2, <1>5 DEF Track

-----------------------------------------------------------------------------
(* The steps.                                                              *)

LEMMA ProvideInv ==
    ASSUME InstancesInv, NEW r \in Requests, NEW d \in Dirs, Provide(r, d)
    PROVE  InstancesInv'
<1> USE DEF InstancesInv
<1>1. UNCHANGED <<live, state, question, disposal, walk, caller, overdue, mine>>
  BY DEF Provide
<1>2. PICK k \in {0} \cup (Boots \ MadeBoots) :
        /\ \/ k # 0 /\ cache[d] = 0 /\ cache' = [cache EXCEPT ![d] = k]
           \/ k = 0 /\ cache[d] # 0 /\ cache' = cache
        /\ boot' = IF k = 0 THEN boot ELSE [boot EXCEPT ![k] = [is |-> "booting", dir |-> d]]
        /\ Numbered'
  <2>1. CASE cache[d] = 0
    <3>1. Track(d)
      BY <2>1 DEF Provide
    <3>2. NewBoot # 0
      BY BootIsNew
    <3> QED
      BY <1>1, <2>1, <3>1, <3>2, TrackFacts
  <2>2. CASE cache[d] # 0
    <3>1. cache' = cache /\ boot' = boot
      BY <2>2 DEF Provide
    <3>2. Numbered'
      BY <1>1, <3>1 DEF Numbered, MadeBoots, MadeStates, Boots, States
    <3> QED
      BY <2>2, <3>1, <3>2
  <2> QED
    BY <2>1, <2>2
<1>3. /\ cache' \in [Dirs -> Boots \cup {0}] /\ boot' \in [Boots -> BootRows]
      /\ MadeBoots' = MadeBoots \cup ({k} \ {0})
      /\ \A b \in MadeBoots : boot'[b] = boot[b] /\ (Has(b)' => Has(b))
      /\ \A b \in MadeBoots' : DirOf(b)' \in Dirs
      /\ \A e \in Dirs : cache'[e] # 0 => /\ boot'[cache'[e]].dir = e
                                          /\ boot'[cache'[e]].is \in {"booting", "ready"}
      /\ StatesKnown' /\ ClosingIsOverdue' /\ StatesFollowInstance'
  <2>1. CASE k # 0
    <3>1. \A e \in Dirs : Closing(e)' => Closing(e)
      <4>1. walk.at = "disposing" => walk.on \in MadeBoots
        BY DEF InstancesKnown
      <4>2. \A b \in MadeBoots : DirOf(b)' = DirOf(b)
        BY <1>2 DEF DirOf, InstancesTypeOK, MadeBoots
      <4> QED
        BY <1>1, <4>1, <4>2 DEF Closing
    <3> QED
      BY <1>1, <1>2, <2>1, <3>1, CacheMoves
  <2>2. CASE k = 0
    <3>1. UNCHANGED <<cache, boot, live, state, disposal, walk, overdue>>
      BY <1>1, <1>2, <2>2
    <3> QED
      BY <2>2, <3>1 DEF InstancesTypeOK, InstancesKnown, StatesKnown, ClosingIsOverdue,
            StatesFollowInstance, MadeBoots, MadeStates, Closing, DirOf, Has, Boots, States
  <2> QED
    BY <2>1, <2>2
<1>4. request' = [request EXCEPT ![r] = [at |-> "waiting", on |-> cache'[d]]]
  BY DEF Provide
<1>5. cache'[d] \in MadeBoots'
  <2>1. cache'[d] \in Boots
    BY <1>2, <1>3 DEF InstancesTypeOK
  <2>2. cache'[d] # 0
    BY <2>1 DEF Boots
  <2>3. boot'[cache'[d]].is # "none"
    BY <1>3, <2>2
  <2> QED
    BY <2>1, <2>3 DEF MadeBoots, Boots
<1>6. InstancesTypeOK'
  <2>1. cache'[d] \in Boots
    BY <1>5 DEF MadeBoots, Boots
  <2> QED
    BY <1>1, <1>3, <1>4, <2>1 DEF InstancesTypeOK, Boots, States, StateRows, BootRows
<1>7. InstancesKnown'
  <2>1. \A q \in Requests : request'[q].at \in {"waiting", "inside"} => request'[q].on \in MadeBoots'
    BY <1>3, <1>4, <1>5 DEF InstancesKnown, InstancesTypeOK
  <2>2. /\ \A x \in Disposals : disposal'[x].at \in {"disposing", "reloading"} => disposal'[x].dir \in Dirs
        /\ walk'.left \subseteq MadeBoots'
        /\ walk'.at \in {"awaiting", "disposing"} => walk'.on \in walk'.left
        /\ \A a \in Alls : mine'[a] \subseteq MadeBoots'
    BY <1>1, <1>3 DEF InstancesKnown
  <2> QED
    BY <1>3, <2>1, <2>2 DEF InstancesKnown, DirOf
<1>8. QuestionsKept'
  BY <1>1 DEF QuestionsKept, States
<1>9. WalkIsThorough'
  BY <1>1, <1>3, WalkGoesOn
<1> QED
  BY <1>2, <1>3, <1>6, <1>7, <1>8, <1>9

LEMMA AdmitInv ==
    ASSUME InstancesInv, NEW r \in Requests, Admit(r) PROVE InstancesInv'
<1>1. UNCHANGED <<cache, boot, live, state, question, disposal, walk, caller, overdue, mine>>
  BY DEF Admit
<1>2. request' = [request EXCEPT ![r].at = "inside"] \/ request' = [request EXCEPT ![r].at = "failed"]
  BY DEF Admit
<1>3. request[r].at = "waiting"
  BY DEF Admit
<1>4. InstancesTypeOK'
  <2>1. request' \in [Requests -> [at: {"new", "waiting", "inside", "done", "failed"},
                                   on: Boots \cup {0}]]
    <3>1. InstancesTypeOK
      BY DEF InstancesInv
    <3> QED
      BY <1>2, <3>1 DEF InstancesTypeOK
  <2> QED
    BY <1>1, <2>1 DEF InstancesInv, InstancesTypeOK, Boots, States, StateRows, BootRows
<1>5. MadeBoots' = MadeBoots /\ MadeStates' = MadeStates
  BY <1>1 DEF MadeBoots, MadeStates, Boots, States
<1>6. InstancesKnown'
  <2>1. \A q \in Requests : request'[q].at \in {"waiting", "inside"} => request'[q].on \in MadeBoots
    BY <1>2, <1>3 DEF InstancesInv, InstancesKnown, InstancesTypeOK
  <2> QED
    BY <1>1, <1>5, <2>1 DEF InstancesInv, InstancesKnown, DirOf
<1> QED
  BY <1>1, <1>4, <1>5, <1>6 DEF InstancesInv, Numbered, StatesKnown, QuestionsKept,
     ClosingIsOverdue, StatesFollowInstance, WalkIsThorough, Closing, DirOf, Has, States, Boots

\* A step that looks for a state in the instance of somebody who is in it.
LEMMA LookingInv ==
    ASSUME InstancesInv, NEW b \in MadeBoots, LookUp(b), BootsStay,
           state' \in [States -> StateRows],
           \A s \in States : state'[s].is = With(b)[s].is /\ state'[s].of = With(b)[s].of,
           cache' \in [Dirs -> Boots \cup {0}],
           \A e \in Dirs : cache'[e] # 0 => boot'[cache'[e]].is \in {"booting", "ready"},
           UNCHANGED <<disposal, walk, caller, mine>>,
           request' \in [Requests -> [at: {"new", "waiting", "inside", "done", "failed"},
                                      on: Boots \cup {0}]],
           \A q \in Requests : request'[q].at \in {"waiting", "inside"} => request'[q] = request[q],
           question' \in [Questions -> [at: {"new", "waiting", "answered", "rejected"},
                                        in: States \cup {0}]],
           QuestionsKept'
    PROVE  InstancesInv'
<1>1. /\ live' \in [Dirs -> States \cup {0}] /\ overdue' \in SUBSET States
      /\ Numbered' /\ StatesKnown' /\ ClosingIsOverdue' /\ StatesFollowInstance'
  BY LookUpKeeps
<1>2. boot' \in [Boots -> BootRows] /\ MadeBoots' = MadeBoots
      /\ \A c \in Boots : boot'[c].dir = boot[c].dir
  BY DEF BootsStay
<1>3. InstancesTypeOK'
  BY <1>1, <1>2 DEF InstancesInv, InstancesTypeOK, Boots, States, StateRows, BootRows
<1>4. InstancesKnown'
  <2>1. \A c \in MadeBoots' : boot'[c].dir \in Dirs
    BY <1>2 DEF InstancesInv, InstancesKnown, DirOf, MadeBoots
  <2>2. \A e \in Dirs : cache'[e] # 0 => boot'[cache'[e]].dir = e
    <3> SUFFICES ASSUME NEW e \in Dirs, cache'[e] # 0 PROVE boot'[cache'[e]].dir = e
      OBVIOUS
    <3>1. cache'[e] = cache[e] /\ cache[e] \in Boots
      BY DEF BootsStay
    <3> QED
      BY <1>2, <3>1 DEF InstancesInv, InstancesKnown, DirOf
  <2>3. \A q \in Requests : request'[q].at \in {"waiting", "inside"} => request'[q].on \in MadeBoots'
    BY <1>2 DEF InstancesInv, InstancesKnown
  <2> QED
    BY <1>2, <2>1, <2>2, <2>3 DEF InstancesInv, InstancesKnown, DirOf
<1>5. WalkIsThorough'
  <2>1. \A c \in MadeBoots : Has(c)' => Has(c)
    <3> SUFFICES ASSUME NEW c \in MadeBoots, cache'[boot'[c].dir] = c PROVE cache[boot[c].dir] = c
      BY DEF Has, DirOf
    <3>1. c \in Boots /\ boot[c].dir \in Dirs /\ c # 0
      BY DEF InstancesInv, InstancesKnown, DirOf, MadeBoots, Boots
    <3> QED
      BY <1>2, <3>1 DEF BootsStay
  <2> QED
    BY <2>1, WalkGoesOn
<1> QED
  BY <1>1, <1>3, <1>4, <1>5 DEF InstancesInv

LEMMA QuestionsFound ==
    ASSUME InstancesInv, NEW b \in MadeBoots, LookUp(b), state' = With(b), UNCHANGED question
    PROVE  QuestionsKept'
<1>1. InstancesTypeOK /\ QuestionsKept
  BY DEF InstancesInv
<1>2. \A s \in States : \/ state'[s] = state[s]
                        \/ state[s].is = "none" /\ state'[s].has = {}
  <2>1. CASE With(b) = state
    BY <2>1
  <2>2. CASE /\ Found(b) = NewState /\ state[NewState].is = "none"
             /\ With(b)[NewState] = [is |-> "open", of |-> b, has |-> {}]
    BY <2>2, LookUpFacts
  <2> QED
    BY <2>1, <2>2, LookUpFacts
<1>3. \A s \in States : state'[s].has = state[s].has /\ (state[s].has # {} => state'[s] = state[s])
  <2> SUFFICES ASSUME NEW s \in States, state[s].is = "none" PROVE state[s].has = {}
    BY <1>2
  <2>1. state[s].has \subseteq Questions
    BY <1>1 DEF InstancesTypeOK, StateRows
  <2> QED
    BY <1>1, <2>1 DEF QuestionsKept
<1> QED
  BY <1>1, <1>3 DEF QuestionsKept, States

LEMMA BootEndsInv ==
    ASSUME InstancesInv, NEW b \in Boots, BootEnds(b) PROVE InstancesInv'
<1>0. InstancesTypeOK /\ InstancesKnown
  BY DEF InstancesInv
<1>1. b \in MadeBoots /\ LookUp(b) /\ state' = With(b)
      /\ UNCHANGED <<cache, request, question, disposal, walk, caller, mine>>
      /\ boot' = [boot EXCEPT ![b].is = "ready"] /\ boot[b].is = "booting"
  BY DEF BootEnds, MadeBoots
<1>2. \A c \in Boots : boot'[c] = IF c = b THEN [boot[b] EXCEPT !.is = "ready"] ELSE boot[c]
  BY <1>0, <1>1 DEF InstancesTypeOK, BootRows
<1>3. BootsStay
  <2>1. boot' \in [Boots -> BootRows]
    BY <1>0, <1>1 DEF InstancesTypeOK, BootRows
  <2>2. \A c \in Boots : boot'[c].is # "none" <=> boot[c].is # "none"
    BY <1>0, <1>1, <1>2 DEF InstancesTypeOK, BootRows
  <2>3. MadeBoots' = MadeBoots
    BY <2>2 DEF MadeBoots, Boots
  <2> QED
    BY <1>0, <1>1, <1>2, <2>1, <2>3 DEF BootsStay, InstancesTypeOK, BootRows
<1>4. state' \in [States -> StateRows] /\ QuestionsKept'
  BY <1>1, LookUpFacts, QuestionsFound
<1>5. \A e \in Dirs : cache'[e] # 0 => boot'[cache'[e]].is \in {"booting", "ready"}
  BY <1>0, <1>1, <1>2 DEF InstancesTypeOK, InstancesKnown, BootRows
<1> QED
  BY <1>0, <1>1, <1>3, <1>4, <1>5, LookingInv DEF InstancesTypeOK

LEMMA BootFailsInv ==
    ASSUME InstancesInv, NEW b \in Boots, BootFails(b) PROVE InstancesInv'
<1>0. InstancesTypeOK /\ InstancesKnown
  BY DEF InstancesInv
<1>1. b \in MadeBoots /\ b # 0
      /\ UNCHANGED <<request, question, disposal, walk, caller, mine>>
      /\ boot' = [boot EXCEPT ![b].is = "failed"] /\ boot[b].is = "booting"
      /\ cache' = [d \in Dirs |-> IF cache[d] = b THEN 0 ELSE cache[d]]
  BY DEF BootFails, MadeBoots, Boots
<1>2. \A c \in Boots : boot'[c] = IF c = b THEN [boot[b] EXCEPT !.is = "failed"] ELSE boot[c]
  BY <1>0, <1>1 DEF InstancesTypeOK, BootRows
<1>3. BootsStay
  <2>1. boot' \in [Boots -> BootRows]
    BY <1>0, <1>1 DEF InstancesTypeOK, BootRows
  <2>2. \A c \in Boots : boot'[c].is # "none" <=> boot[c].is # "none"
    BY <1>0, <1>1, <1>2 DEF InstancesTypeOK, BootRows
  <2>3. MadeBoots' = MadeBoots
    BY <2>2 DEF MadeBoots, Boots
  <2> QED
    BY <1>0, <1>1, <1>2, <2>1, <2>3 DEF BootsStay, InstancesTypeOK, BootRows
<1>4. /\ cache' \in [Dirs -> Boots \cup {0}]
      /\ \A e \in Dirs : cache'[e] # 0 => boot'[cache'[e]].is \in {"booting", "ready"}
  BY <1>0, <1>1, <1>2 DEF InstancesTypeOK, InstancesKnown, BootRows
<1>5. CASE LookUp(b) /\ state' = With(b)
  <2>1. state' \in [States -> StateRows] /\ QuestionsKept'
    BY <1>1, <1>5, LookUpFacts, QuestionsFound
  <2> QED
    BY <1>0, <1>1, <1>3, <1>4, <1>5, <2>1, LookingInv DEF InstancesTypeOK
<1>6. CASE UNCHANGED <<live, state, overdue>>
  <2>1. MadeBoots' = MadeBoots /\ MadeStates' = MadeStates
    BY <1>3, <1>6 DEF BootsStay, MadeStates, States
  <2>2. \A c \in Boots : boot'[c].dir = boot[c].dir /\ DirOf(c)' = DirOf(c)
    BY <1>3 DEF BootsStay, DirOf
  <2>3. \A c \in MadeBoots : c \in Boots /\ boot[c].dir \in Dirs /\ c # 0
    BY <1>0 DEF MadeBoots, Boots, InstancesKnown, DirOf
  <2>4. \A c \in MadeBoots : Has(c)' => Has(c)
    <3> SUFFICES ASSUME NEW c \in MadeBoots, cache'[boot'[c].dir] = c PROVE cache[boot[c].dir] = c
      BY DEF Has, DirOf
    <3> QED
      BY <1>1, <2>2, <2>3
  <2>5. \A s \in MadeStates : state[s].of \in MadeBoots
    BY DEF InstancesInv, StatesKnown
  <2>6. \A s \in States : state[s].is = "open" => s \in MadeStates
    BY DEF MadeStates
  <2>7. \A d \in Dirs : live[d] # 0 => live[d] \in MadeStates
    BY <1>0, <2>6 DEF InstancesInv, InstancesTypeOK, StatesKnown
  <2>8. InstancesTypeOK'
    BY <1>0, <1>1, <1>3, <1>4, <1>6 DEF InstancesTypeOK, Boots, States, StateRows, BootRows, BootsStay
  <2>9. InstancesKnown'
    <3>1. \A c \in MadeBoots' : boot'[c].dir \in Dirs
      BY <2>1, <2>2, <2>3
    <3>2. \A e \in Dirs : cache'[e] # 0 => boot'[cache'[e]].dir = e
      BY <1>0, <1>1, <2>2 DEF InstancesTypeOK, InstancesKnown, DirOf
    <3> QED
      BY <1>0, <1>1, <1>4, <2>1, <3>1, <3>2 DEF InstancesKnown, DirOf
  <2>10. StatesKnown'
    <3>1. \A s \in MadeStates' : state'[s].of \in MadeBoots'
      BY <1>6, <2>1, <2>5
    <3>2. \A d \in Dirs : live'[d] # 0 => state'[live'[d]].is = "open" /\ boot'[state'[live'[d]].of].dir = d
      BY <1>6, <2>2, <2>3, <2>5, <2>7 DEF InstancesInv, StatesKnown, DirOf
    <3>3. \A s \in States : state'[s].is = "open" => live'[boot'[state'[s].of].dir] = s
      BY <1>6, <2>2, <2>3, <2>5, <2>6 DEF InstancesInv, StatesKnown, DirOf
    <3> QED
      BY <3>1, <3>2, <3>3 DEF StatesKnown, DirOf, States
  <2>11. QuestionsKept'
    BY <1>1, <1>6 DEF InstancesInv, QuestionsKept, States
  <2>12. ClosingIsOverdue'
    <3>1. walk.at = "disposing" => walk.on \in Boots
      BY <1>0, <2>3 DEF InstancesKnown
    <3>2. \A e \in Dirs : Closing(e)' => Closing(e)
      BY <1>1, <2>2, <3>1 DEF Closing
    <3> QED
      BY <1>6, <3>2 DEF InstancesInv, ClosingIsOverdue
  <2>13. StatesFollowInstance'
    <3> SUFFICES ASSUME NEW e \in Dirs, live[e] \in States \ overdue,
                        boot'[state[live[e]].of].is # "failed"
                 PROVE  state[live[e]].of = cache'[e]
      BY <1>6 DEF StatesFollowInstance, States
    <3>1. state[live[e]].of \in Boots /\ state[live[e]].of # b
      BY <1>0, <1>2, <2>3, <2>5, <2>7 DEF States, InstancesTypeOK, BootRows
    <3>2. boot[state[live[e]].of].is # "failed"
      BY <1>2, <3>1
    <3>3. state[live[e]].of = cache[e]
      BY <3>2 DEF InstancesInv, StatesFollowInstance
    <3> QED
      BY <1>1, <3>1, <3>3
  <2> QED
    BY <1>1, <1>6, <2>1, <2>4, <2>8, <2>9, <2>10, <2>11, <2>12, <2>13, WalkGoesOn
       DEF InstancesInv, Numbered
<1> QED
  BY <1>5, <1>6 DEF BootFails
LEMMA BootsUnchanged ==
    ASSUME InstancesInv, UNCHANGED <<boot, cache>>
    PROVE  /\ BootsStay /\ cache' \in [Dirs -> Boots \cup {0}]
           /\ \A e \in Dirs : cache'[e] # 0 => boot'[cache'[e]].is \in {"booting", "ready"}
           /\ \A c \in MadeBoots : Has(c)' => Has(c)
  BY DEF InstancesInv, InstancesTypeOK, InstancesKnown, BootsStay, MadeBoots, Boots, Has, DirOf

LEMMA AskInv ==
    ASSUME InstancesInv, NEW q \in Questions, NEW b \in Boots, Ask(q, b) PROVE InstancesInv'
<1>0. InstancesTypeOK /\ QuestionsKept
  BY DEF InstancesInv
<1>1. b \in MadeBoots /\ LookUp(b) /\ question[q].at = "new"
      /\ state' = [With(b) EXCEPT ![Found(b)].has = @ \cup {q}]
      /\ question' = [question EXCEPT ![q] = [at |-> "waiting", in |-> Found(b)]]
      /\ UNCHANGED <<cache, boot, request, disposal, walk, caller, mine>>
  BY DEF Ask, MadeBoots, Ready
<1>2. Found(b) \in States /\ With(b) \in [States -> StateRows] /\ With(b)[Found(b)].is = "open"
  BY <1>1, LookUpFacts
<1>3. /\ state' \in [States -> StateRows]
      /\ \A s \in States : /\ state'[s].is = With(b)[s].is /\ state'[s].of = With(b)[s].of
                           /\ state'[s].has = IF s = Found(b) THEN With(b)[s].has \cup {q}
                                                              ELSE With(b)[s].has
  BY <1>1, <1>2 DEF StateRows
<1>4. question' \in [Questions -> [at: {"new", "waiting", "answered", "rejected"},
                                    in: States \cup {0}]]
  BY <1>0, <1>1, <1>2 DEF InstancesTypeOK
<1>5. \A s \in States : With(b)[s].has \subseteq state[s].has
                        /\ (state[s].has # {} => With(b)[s] = state[s])
  <2> SUFFICES ASSUME NEW s \in States
               PROVE  With(b)[s].has \subseteq state[s].has
                      /\ (state[s].has # {} => With(b)[s] = state[s])
    OBVIOUS
  <2>1. CASE With(b)[s] = state[s]
    BY <2>1
  <2>2. CASE s = NewState /\ state[s].is = "none" /\ With(b)[s] = [is |-> "open", of |-> b, has |-> {}]
    <3>1. state[s].has \subseteq Questions
      BY <1>0 DEF InstancesTypeOK, StateRows
    <3>2. state[s].has = {}
      BY <1>0, <2>2, <3>1 DEF QuestionsKept
    <3> QED
      BY <2>2, <3>2
  <2> QED
    BY <1>1, <2>1, <2>2, LookUpFacts
<1>6. QuestionsKept'
  <2>1. \A p \in Questions : question'[p].at = "waiting" =>
           question'[p].in \in States /\ p \in state'[question'[p].in].has
    <3> SUFFICES ASSUME NEW p \in Questions, question'[p].at = "waiting"
                 PROVE  question'[p].in \in States /\ p \in state'[question'[p].in].has
      OBVIOUS
    <3>1. CASE p = q
      BY <1>0, <1>1, <1>2, <1>3, <3>1 DEF InstancesTypeOK
    <3>2. CASE p # q
      <4>1. question'[p] = question[p]
        BY <1>0, <1>1, <3>2 DEF InstancesTypeOK
      <4>2. question[p].in \in States /\ p \in state[question[p].in].has
        BY <1>0, <4>1 DEF QuestionsKept
      <4>3. With(b)[question[p].in].has = state[question[p].in].has
        BY <1>5, <4>2
      <4>4. p \in state'[question[p].in].has
        BY <1>3, <4>2, <4>3
      <4> QED
        BY <4>1, <4>2, <4>4
    <3> QED
      BY <3>1, <3>2
  <2>2. \A s \in States : \A p \in state'[s].has :
           /\ question'[p].at = "waiting" /\ question'[p].in = s
           /\ state'[s].is \in {"open", "closing"}
    <3> SUFFICES ASSUME NEW s \in States, NEW p \in state'[s].has
                 PROVE  /\ question'[p].at = "waiting" /\ question'[p].in = s
                        /\ state'[s].is \in {"open", "closing"}
      OBVIOUS
    <3>1. CASE p \in state[s].has
      <4>1. p \in Questions /\ p # q /\ question[p].at = "waiting" /\ question[p].in = s
            /\ state[s].is \in {"open", "closing"}
        BY <1>0, <1>1, <3>1 DEF QuestionsKept, InstancesTypeOK, StateRows
      <4>2. question'[p] = question[p]
        BY <1>0, <1>1, <4>1 DEF InstancesTypeOK
      <4>3. state'[s].is = state[s].is
        BY <1>3, <1>5, <3>1
      <4> QED
        BY <4>1, <4>2, <4>3
    <3>2. CASE p \notin state[s].has
      <4>1. s = Found(b) /\ p = q
        BY <1>3, <1>5, <3>2
      <4> QED
        BY <1>0, <1>1, <1>2, <1>3, <4>1 DEF InstancesTypeOK
    <3> QED
      BY <3>1, <3>2
  <2> QED
    BY <2>1, <2>2 DEF QuestionsKept, States
<1> QED
  BY <1>0, <1>1, <1>3, <1>4, <1>6, BootsUnchanged, LookingInv DEF InstancesTypeOK

LEMMA ServeInv ==
    ASSUME InstancesInv, NEW r \in Requests, Serve(r) PROVE InstancesInv'
<1> DEFINE b == request[r].on
<1>0. InstancesTypeOK /\ QuestionsKept
  BY DEF InstancesInv
<1>1. b \in MadeBoots /\ LookUp(b) /\ request' = [request EXCEPT ![r].at = "done"]
      /\ UNCHANGED <<cache, boot, disposal, walk, caller, mine>>
  BY DEF Serve, InstancesInv, InstancesKnown
<1>2. /\ request' \in [Requests -> [at: {"new", "waiting", "inside", "done", "failed"},
                                     on: Boots \cup {0}]]
      /\ \A p \in Requests : request'[p].at \in {"waiting", "inside"} => request'[p] = request[p]
  BY <1>0, <1>1 DEF InstancesTypeOK
<1>3. Found(b) \in States /\ With(b) \in [States -> StateRows] /\ With(b)[Found(b)].is = "open"
  BY <1>1, LookUpFacts
<1>4. CASE state' = With(b) /\ UNCHANGED question
  <2>1. QuestionsKept'
    BY <1>1, <1>4, QuestionsFound
  <2> QED
    BY <1>0, <1>1, <1>2, <1>3, <1>4, <2>1, BootsUnchanged, LookingInv DEF InstancesTypeOK
<1>5. ASSUME NEW q \in With(b)[Found(b)].has, NEW how \in {"answered", "rejected"},
             state' = [state EXCEPT ![Found(b)].has = @ \ {q}],
             question' = [question EXCEPT ![q].at = how]
      PROVE  InstancesInv'
  <2>1. With(b) = state
    <3>1. CASE Found(b) = NewState /\ With(b)[NewState] = [is |-> "open", of |-> b, has |-> {}]
      BY <1>5, <3>1
    <3> QED
      BY <1>1, <3>1, LookUpFacts
  <2>2. q \in Questions /\ q \in state[Found(b)].has
    BY <1>0, <1>3, <1>5, <2>1 DEF InstancesTypeOK, StateRows
  <2>3. /\ state' \in [States -> StateRows]
        /\ \A s \in States : /\ state'[s].is = With(b)[s].is /\ state'[s].of = With(b)[s].of
                             /\ state'[s].has = IF s = Found(b) THEN state[s].has \ {q}
                                                                ELSE state[s].has
    BY <1>3, <1>5, <2>1 DEF StateRows
  <2>4. /\ question' \in [Questions -> [at: {"new", "waiting", "answered", "rejected"},
                                        in: States \cup {0}]]
        /\ question'[q].at # "waiting"
        /\ \A p \in Questions : p # q => question'[p] = question[p]
    BY <1>0, <1>5, <2>2 DEF InstancesTypeOK
  <2>5. QuestionsKept'
    <3>1. \A p \in Questions : question'[p].at = "waiting" =>
             question'[p].in \in States /\ p \in state'[question'[p].in].has
      <4> SUFFICES ASSUME NEW p \in Questions, question'[p].at = "waiting"
                   PROVE  question'[p].in \in States /\ p \in state'[question'[p].in].has
        OBVIOUS
      <4>1. p # q /\ question'[p] = question[p]
        BY <2>4
      <4>2. question[p].in \in States /\ p \in state[question[p].in].has
        BY <1>0, <4>1 DEF QuestionsKept
      <4>3. p \in state'[question[p].in].has
        BY <2>3, <4>1, <4>2
      <4> QED
        BY <4>1, <4>2, <4>3
    <3>2. \A s \in States : \A p \in state'[s].has :
             /\ question'[p].at = "waiting" /\ question'[p].in = s
             /\ state'[s].is \in {"open", "closing"}
      <4> SUFFICES ASSUME NEW s \in States, NEW p \in state'[s].has
                   PROVE  /\ question'[p].at = "waiting" /\ question'[p].in = s
                          /\ state'[s].is \in {"open", "closing"}
        OBVIOUS
      <4>1. p \in state[s].has
        BY <2>3
      <4>2. question[p].at = "waiting" /\ question[p].in = s /\ state[s].is \in {"open", "closing"}
        BY <1>0, <4>1 DEF QuestionsKept
      <4>3. p \in Questions
        BY <1>0, <4>1 DEF InstancesTypeOK, StateRows
      <4>4. p # q
        <5>1. question[q].in = Found(b)
          BY <1>0, <1>3, <2>2 DEF QuestionsKept
        <5> QED
          BY <2>3, <4>2, <5>1
      <4> QED
        BY <2>1, <2>3, <2>4, <4>2, <4>3, <4>4
    <3> QED
      BY <3>1, <3>2 DEF QuestionsKept, States
  <2> QED
    BY <1>1, <1>2, <2>3, <2>4, <2>5, BootsUnchanged, LookingInv
<1> QED
  BY <1>4, <1>5 DEF Serve
-----------------------------------------------------------------------------
(* Disposal.                                                               *)

\* A step that changes neither which states there are nor whose they are, and leaves to
\* be found what is open.
LEMMA StatesStay ==
    ASSUME InstancesInv, UNCHANGED <<boot, overdue>>,
           live' \in [Dirs -> States \cup {0}], state' \in [States -> StateRows],
           \A e \in Dirs : live'[e] = live[e] \/ live'[e] = 0,
           \A s \in States : /\ state'[s].of = state[s].of
                             /\ state'[s].is = "none" <=> state[s].is = "none"
                             /\ state'[s].is = "open" <=> \E e \in Dirs : live'[e] = s
    PROVE  Numbered' /\ StatesKnown' /\ (UNCHANGED cache => StatesFollowInstance')
<1>0. InstancesTypeOK /\ InstancesKnown /\ StatesKnown /\ Numbered /\ StatesFollowInstance
  BY DEF InstancesInv
<1>1. MadeStates' = MadeStates
  BY DEF MadeStates, States
<1>2. MadeBoots' = MadeBoots
  BY DEF MadeBoots, Boots
<1>3. \A s \in MadeStates : s \in States /\ s # 0 /\ state'[s].of = state[s].of
  BY DEF MadeStates, States
<1>4. \A e \in Dirs : live'[e] # 0 => /\ live'[e] = live[e] /\ live'[e] \in MadeStates
                                      /\ state[live[e]].is = "open" /\ boot[state[live[e]].of].dir = e
  <2> SUFFICES ASSUME NEW e \in Dirs, live'[e] # 0
               PROVE  /\ live'[e] = live[e] /\ live'[e] \in MadeStates
                      /\ state[live[e]].is = "open" /\ boot[state[live[e]].of].dir = e
    OBVIOUS
  <2>1. live'[e] = live[e]
    OBVIOUS
  <2> QED
    BY <1>0, <2>1 DEF InstancesTypeOK, StatesKnown, MadeStates, DirOf
<1>5. StatesKnown'
  <2>1. \A s \in MadeStates' : state'[s].of \in MadeBoots'
    BY <1>0, <1>1, <1>2, <1>3 DEF StatesKnown
  <2>2. \A e \in Dirs : live'[e] # 0 => state'[live'[e]].is = "open" /\ boot'[state'[live'[e]].of].dir = e
    BY <1>3, <1>4
  <2>3. \A s \in States : state'[s].is = "open" => live'[boot'[state'[s].of].dir] = s
    <3> SUFFICES ASSUME NEW s \in States, NEW e \in Dirs, live'[e] = s
                 PROVE  live'[boot'[state'[s].of].dir] = s
      OBVIOUS
    <3>1. s # 0
      BY DEF States
    <3> QED
      BY <1>3, <1>4, <3>1
  <2> QED
    BY <2>1, <2>2, <2>3 DEF StatesKnown, DirOf, States
<1>6. ASSUME UNCHANGED cache PROVE StatesFollowInstance'
  <2> SUFFICES ASSUME NEW e \in Dirs, live'[e] \in States \ overdue,
                      boot[state'[live'[e]].of].is # "failed"
               PROVE  state'[live'[e]].of = cache[e]
    BY <1>6 DEF StatesFollowInstance, States
  <2>1. live'[e] = live[e] /\ state'[live'[e]].of = state[live[e]].of
    BY <1>3, <1>4 DEF States
  <2> QED
    BY <1>0, <2>1 DEF StatesFollowInstance
<1> QED
  BY <1>0, <1>1, <1>2, <1>5, <1>6 DEF Numbered

LEMMA InvalidateFacts ==
    ASSUME InstancesInv, NEW d \in Dirs, Invalidate(d), UNCHANGED <<boot, cache, overdue, question>>
    PROVE  /\ live' \in [Dirs -> States \cup {0}] /\ state' \in [States -> StateRows]
           /\ live'[d] = 0 /\ \A e \in Dirs : live'[e] = live[e] \/ live'[e] = 0
           /\ Numbered' /\ StatesKnown' /\ QuestionsKept' /\ StatesFollowInstance'
<1>0. InstancesTypeOK /\ StatesKnown /\ QuestionsKept
  BY DEF InstancesInv
<1>1. live' = [live EXCEPT ![d] = 0]
      /\ state' = IF live[d] = 0 THEN state ELSE [state EXCEPT ![live[d]].is = "closing"]
  BY DEF Invalidate
<1>2. /\ live' \in [Dirs -> States \cup {0}]
      /\ \A e \in Dirs : live'[e] = IF e = d THEN 0 ELSE live[e]
  BY <1>0, <1>1 DEF InstancesTypeOK
<1>3. /\ state' \in [States -> StateRows]
      /\ \A s \in States : /\ state'[s].of = state[s].of /\ state'[s].has = state[s].has
                           /\ state'[s].is = IF s = live[d] THEN "closing" ELSE state[s].is
  <2>1. CASE live[d] = 0
    BY <1>0, <1>1, <2>1 DEF InstancesTypeOK, States
  <2>2. CASE live[d] # 0
    BY <1>0, <1>1, <2>2 DEF InstancesTypeOK, StateRows
  <2> QED
    BY <2>1, <2>2
<1>4. \A e \in Dirs : live[e] # 0 =>
         live[e] \in States /\ state[live[e]].is = "open" /\ boot[state[live[e]].of].dir = e
  BY <1>0 DEF InstancesTypeOK, StatesKnown, DirOf
<1>5. \A s \in States : state'[s].is = "none" <=> state[s].is = "none"
  BY <1>3, <1>4 DEF States
<1>6. \A s \in States : state'[s].is = "open" <=> \E e \in Dirs : live'[e] = s
  <2> TAKE s \in States
  <2>1. s # 0
    BY DEF States
  <2>2. ASSUME state'[s].is = "open" PROVE \E e \in Dirs : live'[e] = s
    <3>1. state[s].is = "open" /\ s # live[d]
      BY <1>3, <2>2
    <3>2. live[DirOf(state[s].of)] = s /\ DirOf(state[s].of) \in Dirs
      BY <1>0, <3>1 DEF StatesKnown, InstancesInv, InstancesKnown, MadeStates
    <3> QED
      BY <1>2, <3>1, <3>2
  <2>3. ASSUME NEW e \in Dirs, live'[e] = s PROVE state'[s].is = "open"
    <3>1. e # d /\ live[e] = s
      BY <1>2, <2>1, <2>3
    <3>2. s # live[d]
      BY <1>4, <2>1, <3>1
    <3> QED
      BY <1>3, <1>4, <2>1, <3>1, <3>2
  <2> QED
    BY <2>2, <2>3
<1>7. Numbered' /\ StatesKnown' /\ StatesFollowInstance'
  <2>1. \A e \in Dirs : live'[e] = live[e] \/ live'[e] = 0
    BY <1>2
  <2> QED
    BY <1>2, <1>3, <1>5, <1>6, <2>1, StatesStay
<1>8. QuestionsKept'
  <2>1. \A q \in Questions : question'[q].at = "waiting" =>
           question'[q].in \in States /\ q \in state'[question'[q].in].has
    BY <1>0, <1>3 DEF QuestionsKept
  <2>2. \A s \in States : \A q \in state'[s].has :
           /\ question'[q].at = "waiting" /\ question'[q].in = s
           /\ state'[s].is \in {"open", "closing"}
    BY <1>0, <1>3 DEF QuestionsKept
  <2> QED
    BY <2>1, <2>2 DEF QuestionsKept, States
<1> QED
  BY <1>2, <1>3, <1>7, <1>8

LEMMA FinalizeInv ==
    ASSUME InstancesInv, NEW t \in States, Finalize(t) PROVE InstancesInv'
<1>0. InstancesTypeOK /\ StatesKnown /\ QuestionsKept
  BY DEF InstancesInv
<1>1. /\ state[t].is = "closing"
      /\ state' = [state EXCEPT ![t].is = "closed", ![t].has = {}]
      /\ question' = [q \in Questions |-> IF q \in state[t].has
                                          THEN [question[q] EXCEPT !.at = "rejected"] ELSE question[q]]
      /\ UNCHANGED <<cache, boot, live, request, disposal, walk, caller, overdue, mine>>
  BY DEF Finalize
<1>2. /\ state' \in [States -> StateRows]
      /\ \A s \in States : /\ state'[s].of = state[s].of
                           /\ state'[s].has = IF s = t THEN {} ELSE state[s].has
                           /\ state'[s].is = IF s = t THEN "closed" ELSE state[s].is
  BY <1>0, <1>1 DEF InstancesTypeOK, StateRows
<1>3. question' \in [Questions -> [at: {"new", "waiting", "answered", "rejected"},
                                    in: States \cup {0}]]
  BY <1>0, <1>1 DEF InstancesTypeOK
<1>4. \A s \in States : state'[s].is = "open" <=> \E e \in Dirs : live'[e] = s
  <2> TAKE s \in States
  <2>1. s # 0
    BY DEF States
  <2>2. state'[s].is = "open" <=> state[s].is = "open"
    BY <1>1, <1>2
  <2>3. ASSUME state[s].is = "open" PROVE \E e \in Dirs : live[e] = s
    <3>1. live[DirOf(state[s].of)] = s /\ DirOf(state[s].of) \in Dirs
      BY <1>0, <2>3 DEF StatesKnown, InstancesInv, InstancesKnown, MadeStates
    <3> QED
      BY <3>1
  <2>4. ASSUME NEW e \in Dirs, live[e] = s PROVE state[s].is = "open"
    BY <1>0, <2>1, <2>4 DEF StatesKnown
  <2> QED
    BY <1>1, <2>2, <2>3, <2>4
<1>5. Numbered' /\ StatesKnown' /\ StatesFollowInstance'
  <2>1. live' \in [Dirs -> States \cup {0}]
    BY <1>0, <1>1 DEF InstancesTypeOK
  <2>2. \A s \in States : state'[s].is = "none" <=> state[s].is = "none"
    BY <1>1, <1>2
  <2> QED
    BY <1>1, <1>2, <1>4, <2>1, <2>2, StatesStay
<1>6. QuestionsKept'
  <2>1. \A q \in Questions : question'[q].at = "waiting" =>
           question'[q].in \in States /\ q \in state'[question'[q].in].has
    <3> SUFFICES ASSUME NEW q \in Questions, question'[q].at = "waiting"
                 PROVE  question'[q].in \in States /\ q \in state'[question'[q].in].has
      OBVIOUS
    <3>1. q \notin state[t].has /\ question'[q] = question[q]
      BY <1>0, <1>1 DEF InstancesTypeOK
    <3>2. question[q].in \in States /\ q \in state[question[q].in].has
      BY <1>0, <3>1 DEF QuestionsKept
    <3> QED
      BY <1>2, <3>1, <3>2
  <2>2. \A s \in States : \A q \in state'[s].has :
           /\ question'[q].at = "waiting" /\ question'[q].in = s
           /\ state'[s].is \in {"open", "closing"}
    <3> SUFFICES ASSUME NEW s \in States, NEW q \in state'[s].has
                 PROVE  /\ question'[q].at = "waiting" /\ question'[q].in = s
                        /\ state'[s].is \in {"open", "closing"}
      OBVIOUS
    <3>1. s # t /\ q \in state[s].has
      BY <1>2
    <3>2. /\ question[q].at = "waiting" /\ question[q].in = s
          /\ state[s].is \in {"open", "closing"}
      BY <1>0, <3>1 DEF QuestionsKept
    <3>3. q \in Questions /\ q \notin state[t].has
      BY <1>0, <3>1, <3>2 DEF QuestionsKept, InstancesTypeOK, StateRows
    <3> QED
      BY <1>1, <1>2, <3>1, <3>2, <3>3
  <2> QED
    BY <2>1, <2>2 DEF QuestionsKept, States
<1>7. InstancesTypeOK'
  BY <1>0, <1>1, <1>2, <1>3 DEF InstancesTypeOK, Boots, States, StateRows, BootRows
<1>8. InstancesKnown' /\ ClosingIsOverdue' /\ WalkIsThorough'
  BY <1>1 DEF InstancesInv, InstancesKnown, ClosingIsOverdue, WalkIsThorough, Closing, DirOf, Has,
     MadeBoots, Boots
<1> QED
  BY <1>5, <1>6, <1>7, <1>8 DEF InstancesInv

LEMMA DisposeInv ==
    ASSUME InstancesInv, NEW x \in Disposals, Dispose(x) PROVE InstancesInv'
<1>0. InstancesTypeOK /\ InstancesKnown /\ ClosingIsOverdue
  BY DEF InstancesInv
<1>1. UNCHANGED <<cache, boot, request, question, walk, caller, overdue, mine>>
  BY DEF Dispose
<1>2. PICK d \in Dirs, to \in {"disposing", "reloading"} :
         /\ disposal' = [disposal EXCEPT ![x] = [at |-> to, dir |-> d, state |-> live[d]]]
         /\ Invalidate(d)
  BY DEF Dispose
<1>3. /\ live' \in [Dirs -> States \cup {0}] /\ state' \in [States -> StateRows]
      /\ live'[d] = 0 /\ \A e \in Dirs : live'[e] = live[e] \/ live'[e] = 0
      /\ Numbered' /\ StatesKnown' /\ QuestionsKept' /\ StatesFollowInstance'
  BY <1>1, <1>2, InvalidateFacts
<1>4. /\ disposal' \in [Disposals -> [at: {"new", "disposing", "reloading", "done"},
                                       dir: Dirs \cup {NoDir}, state: States \cup {0}]]
      /\ disposal'[x].dir = d
      /\ \A y \in Disposals : y # x => disposal'[y] = disposal[y]
  BY <1>0, <1>2 DEF InstancesTypeOK
<1>5. InstancesTypeOK'
  BY <1>0, <1>1, <1>3, <1>4 DEF InstancesTypeOK, Boots, States, StateRows, BootRows
<1>6. InstancesKnown'
  <2>1. \A y \in Disposals : disposal'[y].at \in {"disposing", "reloading"} => disposal'[y].dir \in Dirs
    BY <1>0, <1>4 DEF InstancesKnown
  <2>2. MadeBoots' = MadeBoots
    BY <1>1 DEF MadeBoots, Boots
  <2> QED
    BY <1>0, <1>1, <2>1, <2>2 DEF InstancesKnown, DirOf
<1>7. ClosingIsOverdue'
  <2>1. \A e \in Dirs : Closing(e)' => Closing(e) \/ e = d
    BY <1>1, <1>4 DEF Closing, DirOf
  <2> QED
    BY <1>0, <1>1, <1>3, <2>1 DEF ClosingIsOverdue
<1>8. WalkIsThorough'
  BY <1>1 DEF InstancesInv, WalkIsThorough, Has, DirOf
<1> QED
  BY <1>3, <1>5, <1>6, <1>7, <1>8 DEF InstancesInv
LEMMA EndDisposeInv ==
    ASSUME InstancesInv, NEW x \in Disposals, EndDispose(x) PROVE InstancesInv'
<1> DEFINE d == disposal[x].dir
<1>0. InstancesTypeOK /\ InstancesKnown
  BY DEF InstancesInv
<1>1. /\ disposal[x].at = "disposing" /\ d \in Dirs
      /\ disposal' = [disposal EXCEPT ![x].at = "done"] /\ cache' = [cache EXCEPT ![d] = 0]
      /\ UNCHANGED <<boot, live, state, request, question, walk, caller, overdue, mine>>
  BY <1>0 DEF EndDispose, InstancesKnown
<1>2. /\ disposal' \in [Disposals -> [at: {"new", "disposing", "reloading", "done"},
                                       dir: Dirs \cup {NoDir}, state: States \cup {0}]]
      /\ \A y \in Disposals : disposal'[y].at \in {"disposing", "reloading"} => disposal'[y] = disposal[y]
  BY <1>0, <1>1 DEF InstancesTypeOK
<1>3. \A e \in Dirs : Closing(e)' => Closing(e)
  BY <1>1, <1>2 DEF Closing, DirOf
<1>4. Closing(d)
  BY <1>1 DEF Closing
<1>5. MadeBoots' = MadeBoots /\ MadeStates' = MadeStates
  BY <1>1 DEF MadeBoots, MadeStates, Boots, States
<1>6. Numbered'
  BY <1>5 DEF InstancesInv, Numbered
<1>7. /\ cache' \in [Dirs -> Boots \cup {0}]
      /\ \A b \in MadeBoots : Has(b)' => Has(b)
      /\ \A e \in Dirs : cache'[e] # 0 => /\ boot'[cache'[e]].dir = e
                                          /\ boot'[cache'[e]].is \in {"booting", "ready"}
      /\ StatesKnown' /\ ClosingIsOverdue' /\ StatesFollowInstance'
  BY <1>1, <1>3, <1>4, <1>6, CacheMoves
<1>8. InstancesTypeOK'
  BY <1>0, <1>1, <1>2, <1>7 DEF InstancesTypeOK, Boots, States, StateRows, BootRows
<1>9. InstancesKnown'
  BY <1>0, <1>1, <1>2, <1>5, <1>7 DEF InstancesKnown, DirOf
<1>10. QuestionsKept' /\ WalkIsThorough'
  BY <1>1, <1>7, WalkGoesOn DEF InstancesInv, QuestionsKept, States
<1> QED
  BY <1>6, <1>7, <1>8, <1>9, <1>10 DEF InstancesInv

LEMMA EndReloadInv ==
    ASSUME InstancesInv, NEW x \in Disposals, EndReload(x) PROVE InstancesInv'
<1> DEFINE d == disposal[x].dir
           k == NewBoot
<1>0. InstancesTypeOK /\ InstancesKnown
  BY DEF InstancesInv
<1>1. /\ disposal[x].at = "reloading" /\ d \in Dirs
      /\ disposal' = [disposal EXCEPT ![x].at = "done"] /\ Track(d)
      /\ UNCHANGED <<live, state, request, question, walk, caller, overdue, mine>>
  BY <1>0 DEF EndReload, InstancesKnown
<1>2. /\ disposal' \in [Disposals -> [at: {"new", "disposing", "reloading", "done"},
                                       dir: Dirs \cup {NoDir}, state: States \cup {0}]]
      /\ \A y \in Disposals : disposal'[y].at \in {"disposing", "reloading"} => disposal'[y] = disposal[y]
  BY <1>0, <1>1 DEF InstancesTypeOK
<1>3. /\ k \in Boots \ MadeBoots /\ k # 0 /\ cache' = [cache EXCEPT ![d] = k]
      /\ boot' = [boot EXCEPT ![k] = [is |-> "booting", dir |-> d]] /\ Numbered'
  BY <1>1, TrackFacts DEF Boots
<1>4. \A e \in Dirs : Closing(e)' => Closing(e)
  <2>1. walk.at = "disposing" => walk.on \in MadeBoots
    BY <1>0 DEF InstancesKnown
  <2>2. \A b \in MadeBoots : DirOf(b)' = DirOf(b)
    BY <1>0, <1>3 DEF DirOf, InstancesTypeOK, MadeBoots
  <2> QED
    BY <1>1, <1>2, <2>1, <2>2 DEF Closing
<1>5. Closing(d)
  BY <1>1 DEF Closing
<1>6. /\ cache' \in [Dirs -> Boots \cup {0}] /\ boot' \in [Boots -> BootRows]
      /\ MadeBoots' = MadeBoots \cup ({k} \ {0})
      /\ \A b \in MadeBoots : boot'[b] = boot[b] /\ (Has(b)' => Has(b))
      /\ \A b \in MadeBoots' : DirOf(b)' \in Dirs
      /\ \A e \in Dirs : cache'[e] # 0 => /\ boot'[cache'[e]].dir = e
                                          /\ boot'[cache'[e]].is \in {"booting", "ready"}
      /\ StatesKnown' /\ ClosingIsOverdue' /\ StatesFollowInstance'
  BY <1>1, <1>3, <1>4, <1>5, CacheMoves
<1>7. InstancesTypeOK'
  BY <1>0, <1>1, <1>2, <1>6 DEF InstancesTypeOK, Boots, States, StateRows, BootRows
<1>8. InstancesKnown'
  BY <1>0, <1>1, <1>2, <1>6 DEF InstancesKnown, DirOf
<1>9. QuestionsKept' /\ WalkIsThorough'
  BY <1>1, <1>6, WalkGoesOn DEF InstancesInv, QuestionsKept, States
<1> QED
  BY <1>3, <1>6, <1>7, <1>8, <1>9 DEF InstancesInv

LEMMA DisposeAllInv ==
    ASSUME InstancesInv, NEW a \in Alls, DisposeAll(a) PROVE InstancesInv'
<1>0. InstancesTypeOK /\ InstancesKnown /\ WalkIsThorough
  BY DEF InstancesInv
<1>1. /\ caller[a] = "new"
      /\ caller' = [caller EXCEPT ![a] = IF walk.at = "off" THEN "waiting" ELSE "joined"]
      /\ walk' = IF walk.at = "off" THEN [walk EXCEPT !.at = "next", !.left = Entries] ELSE walk
      /\ mine' = [mine EXCEPT ![a] = Entries]
      /\ UNCHANGED <<cache, boot, live, state, request, question, disposal, overdue>>
  BY DEF DisposeAll
<1>2. Entries \subseteq MadeBoots
  <2> SUFFICES ASSUME NEW d \in Dirs, cache[d] # 0 PROVE cache[d] \in MadeBoots
    BY DEF Entries
  <2> QED
    BY <1>0 DEF InstancesTypeOK, InstancesKnown, MadeBoots
<1>3. MadeBoots' = MadeBoots /\ MadeBoots \subseteq Boots
  BY <1>1 DEF MadeBoots, Boots
<1>4. walk' \in [at: {"off", "next", "awaiting", "disposing"}, left: SUBSET Boots,
                 on: Boots \cup {0}, state: States \cup {0}]
  BY <1>0, <1>1, <1>2, <1>3 DEF InstancesTypeOK
<1>5. caller' \in [Alls -> {"new", "waiting", "joined", "done", "followed"}]
      /\ mine' \in [Alls -> SUBSET Boots]
  BY <1>0, <1>1, <1>2, <1>3 DEF InstancesTypeOK
<1>6. InstancesTypeOK'
  BY <1>0, <1>1, <1>4, <1>5 DEF InstancesTypeOK, Boots, States, StateRows, BootRows
<1>7. walk'.left \subseteq MadeBoots /\ (walk'.at \in {"awaiting", "disposing"} => walk' = walk)
  BY <1>0, <1>1, <1>2 DEF InstancesTypeOK, InstancesKnown
<1>8. InstancesKnown'
  <2>1. \A c \in Alls : mine'[c] \subseteq MadeBoots
    BY <1>0, <1>1, <1>2 DEF InstancesTypeOK, InstancesKnown
  <2> QED
    BY <1>0, <1>1, <1>3, <1>7, <2>1 DEF InstancesKnown, DirOf
<1>9. ClosingIsOverdue'
  <2>1. \A e \in Dirs : Closing(e)' => Closing(e)
    BY <1>1, <1>7 DEF Closing, DirOf
  <2> QED
    BY <1>1, <2>1 DEF InstancesInv, ClosingIsOverdue
<1>10. WalkIsThorough'
  <2> SUFFICES ASSUME NEW c \in Alls
               PROVE  /\ caller'[c] = "waiting" => walk'.at # "off"
                      /\ caller'[c] \in {"waiting", "done"} =>
                            \A b \in mine'[c] : Has(b) => caller'[c] = "waiting" /\ b \in walk'.left
    BY <1>1 DEF WalkIsThorough, Has, DirOf
  <2>1. CASE c = a
    BY <1>0, <1>1, <2>1 DEF InstancesTypeOK
  <2>2. CASE c # a
    <3>1. caller'[c] = caller[c] /\ mine'[c] = mine[c]
      BY <1>0, <1>1, <2>2 DEF InstancesTypeOK
    <3>2. walk.at # "off" => walk' = walk
      BY <1>1
    <3>3. walk.at = "off" => caller[c] # "waiting"
      BY <1>0 DEF WalkIsThorough
    <3> QED
      BY <1>0, <3>1, <3>2, <3>3 DEF WalkIsThorough
  <2> QED
    BY <2>1, <2>2
<1> QED
  BY <1>1, <1>3, <1>6, <1>8, <1>9, <1>10 DEF InstancesInv, Numbered, StatesKnown, QuestionsKept,
     StatesFollowInstance, MadeStates, DirOf, States
-----------------------------------------------------------------------------
(* The walk of disposeAll.                                                 *)

WalkRows == [at: {"off", "next", "awaiting", "disposing"}, left: SUBSET Boots,
             on: Boots \cup {0}, state: States \cup {0}]

\* The walk goes on to an entry, or past one that is gone.
LEMMA WalkMoves ==
    ASSUME InstancesInv, walk.at # "off", walk' \in WalkRows, walk'.at # "off",
           walk'.left \subseteq walk.left,
           walk'.at \in {"awaiting", "disposing"} => walk'.on \in walk'.left,
           \A b \in walk.left \ walk'.left : ~Has(b)',
           \A b \in MadeBoots : Has(b)' => Has(b),
           UNCHANGED <<boot, disposal, caller, mine, request, question>>
    PROVE  /\ walk'.left \subseteq MadeBoots'
           /\ \A r \in Requests : request'[r].at \in {"waiting", "inside"} => request'[r].on \in MadeBoots'
           /\ \A x \in Disposals : disposal'[x].at \in {"disposing", "reloading"} => disposal'[x].dir \in Dirs
           /\ \A a \in Alls : mine'[a] \subseteq MadeBoots'
           /\ \A b \in MadeBoots' : DirOf(b)' \in Dirs
           /\ MadeBoots' = MadeBoots
           /\ WalkIsThorough'
<1>1. MadeBoots' = MadeBoots
  BY DEF MadeBoots, Boots
<1>2. WalkIsThorough'
  <2> SUFFICES ASSUME NEW a \in Alls, caller[a] \in {"waiting", "done"}, NEW b \in mine[a], Has(b)'
               PROVE  caller[a] = "waiting" /\ b \in walk'.left
    BY DEF WalkIsThorough
  <2>1. b \in MadeBoots /\ Has(b)
    BY DEF InstancesInv, InstancesKnown
  <2>2. caller[a] = "waiting" /\ b \in walk.left
    BY <2>1 DEF InstancesInv, WalkIsThorough
  <2> QED
    BY <2>2
<1> QED
  BY <1>1, <1>2 DEF InstancesInv, InstancesKnown, DirOf

\* Where instances, states and questions stay as they are.
LEMMA NothingMoves ==
    ASSUME InstancesInv, cache' = cache, boot' = boot, live' = live, state' = state,
           question' = question, overdue' = overdue
    PROVE  Numbered' /\ StatesKnown' /\ QuestionsKept' /\ StatesFollowInstance'
<1>1. MadeBoots' = MadeBoots /\ MadeStates' = MadeStates
  BY DEF MadeBoots, MadeStates, Boots, States
<1>2. Numbered'
  BY <1>1 DEF InstancesInv, Numbered
<1>3. StatesKnown'
  BY <1>1 DEF InstancesInv, StatesKnown, DirOf
<1>4. QuestionsKept'
  BY DEF InstancesInv, QuestionsKept
<1>5. StatesFollowInstance'
  BY DEF InstancesInv, StatesFollowInstance
<1> QED
  BY <1>2, <1>3, <1>4, <1>5

LEMMA WalkNextInv == ASSUME InstancesInv, WalkNext PROVE InstancesInv'
<1>0. InstancesTypeOK /\ InstancesKnown
  BY DEF InstancesInv
<1>1. walk.at = "next" /\ walk \in WalkRows
      /\ UNCHANGED <<cache, boot, live, state, request, question, disposal, caller, overdue, mine>>
  BY <1>0 DEF WalkNext, InstancesTypeOK, WalkRows
<1>2. PICK b \in walk.left :
         walk' = IF Has(b) THEN [walk EXCEPT !.at = "awaiting", !.on = b]
                           ELSE [walk EXCEPT !.left = @ \ {b}]
  BY DEF WalkNext
<1>3. b \in Boots
  BY <1>1 DEF WalkRows
<1>4. /\ walk' \in WalkRows /\ walk'.at \in {"next", "awaiting"}
      /\ walk'.left = IF Has(b) THEN walk.left ELSE walk.left \ {b}
      /\ walk'.at = "awaiting" => walk'.on \in walk'.left
  BY <1>1, <1>2, <1>3 DEF WalkRows
<1>5. \A c \in Boots : Has(c)' <=> Has(c)
  BY <1>1 DEF Has, DirOf
<1>6. /\ walk'.left \subseteq MadeBoots' /\ WalkIsThorough' /\ MadeBoots' = MadeBoots
      /\ \A c \in MadeBoots' : DirOf(c)' \in Dirs
  <2>1. MadeBoots \subseteq Boots
    BY DEF MadeBoots
  <2> QED
    BY <1>1, <1>4, <1>5, <2>1, <1>3, WalkMoves
<1>7. InstancesTypeOK'
  BY <1>0, <1>1, <1>4 DEF InstancesTypeOK, WalkRows, Boots, States, StateRows, BootRows
<1>8. InstancesKnown'
  BY <1>0, <1>1, <1>4, <1>6 DEF InstancesKnown, DirOf
<1>9. ClosingIsOverdue'
  <2>1. \A e \in Dirs : Closing(e)' => Closing(e)
    BY <1>1, <1>4 DEF Closing, DirOf
  <2> QED
    BY <1>1, <2>1 DEF InstancesInv, ClosingIsOverdue
<1>10. Numbered' /\ StatesKnown' /\ QuestionsKept' /\ StatesFollowInstance'
  BY <1>1, NothingMoves
<1> QED
  BY <1>6, <1>7, <1>8, <1>9, <1>10 DEF InstancesInv

LEMMA WalkAwaitInv == ASSUME InstancesInv, WalkAwait PROVE InstancesInv'
<1> DEFINE b == walk.on
           d == DirOf(walk.on)
<1>0. InstancesTypeOK /\ InstancesKnown /\ ClosingIsOverdue
  BY DEF InstancesInv
<1>1. walk.at = "awaiting" /\ walk \in WalkRows /\ b \in walk.left /\ b \in Boots /\ d \in Dirs
      /\ UNCHANGED <<cache, boot, request, question, disposal, caller, overdue, mine>>
  BY <1>0 DEF WalkAwait, InstancesTypeOK, InstancesKnown, WalkRows, MadeBoots
<1>2. \A c \in Boots : (Has(c)' <=> Has(c)) /\ DirOf(c)' = DirOf(c)
  BY <1>1 DEF Has, DirOf
<1>3. MadeBoots \subseteq Boots
  BY DEF MadeBoots
<1>4. CASE ~Has(b)
  <2>1. walk' = WalkOn /\ UNCHANGED <<live, state>>
    BY <1>4 DEF WalkAwait
  <2>2. walk' \in WalkRows /\ walk'.at = "next" /\ walk'.left = walk.left \ {b}
    BY <1>1, <2>1 DEF WalkOn, WalkRows
  <2>3. /\ walk'.left \subseteq MadeBoots' /\ WalkIsThorough' /\ MadeBoots' = MadeBoots
        /\ \A c \in MadeBoots' : DirOf(c)' \in Dirs
    BY <1>1, <1>2, <1>3, <1>4, <2>2, WalkMoves
  <2>4. InstancesTypeOK'
    BY <1>0, <1>1, <2>1, <2>2 DEF InstancesTypeOK, WalkRows, Boots, States, StateRows, BootRows
  <2>5. InstancesKnown'
    BY <1>0, <1>1, <2>2, <2>3 DEF InstancesKnown, DirOf
  <2>6. ClosingIsOverdue'
    <3>1. \A e \in Dirs : Closing(e)' => Closing(e)
      BY <1>1, <2>2 DEF Closing, DirOf
    <3> QED
      BY <1>0, <1>1, <2>1, <3>1 DEF ClosingIsOverdue
  <2>7. Numbered' /\ StatesKnown' /\ QuestionsKept' /\ StatesFollowInstance'
    BY <1>1, <2>1, NothingMoves
  <2> QED
    BY <2>3, <2>4, <2>5, <2>6, <2>7 DEF InstancesInv
<1>5. CASE Has(b)
  <2>1. Invalidate(d) /\ walk' = [walk EXCEPT !.at = "disposing", !.state = live[d]]
    BY <1>5 DEF WalkAwait
  <2>2. /\ live' \in [Dirs -> States \cup {0}] /\ state' \in [States -> StateRows]
        /\ live'[d] = 0 /\ \A e \in Dirs : live'[e] = live[e] \/ live'[e] = 0
        /\ Numbered' /\ StatesKnown' /\ QuestionsKept' /\ StatesFollowInstance'
    BY <1>1, <2>1, InvalidateFacts
  <2>3. walk' \in WalkRows /\ walk'.at = "disposing" /\ walk'.left = walk.left /\ walk'.on = b
    BY <1>0, <1>1, <2>1 DEF WalkRows, InstancesTypeOK
  <2>4. /\ walk'.left \subseteq MadeBoots' /\ WalkIsThorough' /\ MadeBoots' = MadeBoots
        /\ \A c \in MadeBoots' : DirOf(c)' \in Dirs
    BY <1>1, <1>2, <1>3, <2>3, WalkMoves
  <2>5. InstancesTypeOK'
    BY <1>0, <1>1, <2>2, <2>3 DEF InstancesTypeOK, WalkRows, Boots, States, StateRows, BootRows
  <2>6. InstancesKnown'
    BY <1>0, <1>1, <2>3, <2>4 DEF InstancesKnown, DirOf
  <2>7. ClosingIsOverdue'
    <3>1. \A e \in Dirs : Closing(e)' => Closing(e) \/ e = d
      BY <1>1, <2>3 DEF Closing, DirOf
    <3> QED
      BY <1>0, <1>1, <2>2, <3>1 DEF ClosingIsOverdue
  <2> QED
    BY <2>2, <2>4, <2>5, <2>6, <2>7 DEF InstancesInv
<1> QED
  BY <1>4, <1>5

LEMMA WalkDisposedInv == ASSUME InstancesInv, WalkDisposed PROVE InstancesInv'
<1> DEFINE d == DirOf(walk.on)
<1>b. PICK b : b = walk.on
  OBVIOUS
<1>0. InstancesTypeOK /\ InstancesKnown
  BY DEF InstancesInv
<1>1. walk.at = "disposing" /\ walk \in WalkRows /\ b \in walk.left /\ b \in Boots /\ d \in Dirs
      /\ walk' = WalkOn /\ cache' = [cache EXCEPT ![d] = 0]
      /\ UNCHANGED <<boot, live, state, request, question, disposal, caller, overdue, mine>>
  BY <1>0, <1>b DEF WalkDisposed, InstancesTypeOK, InstancesKnown, WalkRows, MadeBoots
<1>2. walk' \in WalkRows /\ walk'.at = "next" /\ walk'.left = walk.left \ {b}
  BY <1>1, <1>b DEF WalkOn, WalkRows
<1>3. \A e \in Dirs : Closing(e)' => Closing(e)
  BY <1>1, <1>2 DEF Closing, DirOf
<1>4. Closing(d)
  BY <1>1 DEF Closing
<1>5. MadeBoots' = MadeBoots /\ MadeStates' = MadeStates /\ MadeBoots \subseteq Boots
  BY <1>1 DEF MadeBoots, MadeStates, Boots, States
<1>6. Numbered'
  BY <1>5 DEF InstancesInv, Numbered
<1>7. /\ cache' \in [Dirs -> Boots \cup {0}]
      /\ \A c \in MadeBoots : Has(c)' => Has(c)
      /\ \A e \in Dirs : cache'[e] # 0 => /\ boot'[cache'[e]].dir = e
                                          /\ boot'[cache'[e]].is \in {"booting", "ready"}
      /\ StatesKnown' /\ ClosingIsOverdue' /\ StatesFollowInstance'
  BY <1>1, <1>3, <1>4, <1>6, CacheMoves
<1>8. ~Has(b)'
  <2>1. boot'[b].dir = d /\ cache'[d] = 0 /\ b # 0
    BY <1>0, <1>1, <1>b DEF InstancesTypeOK, DirOf, Boots
  <2> QED
    BY <2>1 DEF Has, DirOf
<1>9. walk'.left \subseteq MadeBoots' /\ WalkIsThorough' /\ \A c \in MadeBoots' : DirOf(c)' \in Dirs
  <2>1. walk'.left \subseteq walk.left /\ walk'.at # "off"
    BY <1>2
  <2>2. \A c \in walk.left \ walk'.left : ~Has(c)'
    BY <1>2, <1>8
  <2> QED
    BY <1>1, <1>2, <1>7, <2>1, <2>2, WalkMoves
<1>10. InstancesTypeOK'
  BY <1>0, <1>1, <1>2, <1>7 DEF InstancesTypeOK, WalkRows, Boots, States, StateRows, BootRows
<1>11. InstancesKnown'
  BY <1>0, <1>1, <1>2, <1>5, <1>7, <1>9 DEF InstancesKnown, DirOf
<1> QED
  BY <1>1, <1>6, <1>7, <1>9, <1>10, <1>11 DEF InstancesInv, QuestionsKept, States

LEMMA WalkEndsInv == ASSUME InstancesInv, WalkEnds PROVE InstancesInv'
<1>0. InstancesTypeOK /\ InstancesKnown /\ WalkIsThorough
  BY DEF InstancesInv
<1>1. walk.at = "next" /\ walk.left = {} /\ walk \in WalkRows
      /\ walk' = [walk EXCEPT !.at = "off"]
      /\ caller' = [a \in Alls |-> IF caller[a] = "waiting" THEN "done"
                                   ELSE IF caller[a] = "joined" THEN "followed" ELSE caller[a]]
      /\ UNCHANGED <<cache, boot, live, state, request, question, disposal, overdue, mine>>
  BY <1>0 DEF WalkEnds, InstancesTypeOK, WalkRows
<1>2. walk' \in WalkRows /\ walk'.at = "off" /\ walk'.left = {}
  BY <1>1 DEF WalkRows
<1>3. caller' \in [Alls -> {"new", "waiting", "joined", "done", "followed"}]
  BY <1>0, <1>1 DEF InstancesTypeOK
<1>4. InstancesTypeOK'
  BY <1>0, <1>1, <1>2, <1>3 DEF InstancesTypeOK, WalkRows, Boots, States, StateRows, BootRows
<1>5. InstancesKnown'
  <2>1. MadeBoots' = MadeBoots
    BY <1>1 DEF MadeBoots, Boots
  <2> QED
    BY <1>0, <1>1, <1>2, <2>1 DEF InstancesKnown, DirOf
<1>6. ClosingIsOverdue'
  <2>1. \A e \in Dirs : Closing(e)' => Closing(e)
    BY <1>1, <1>2 DEF Closing, DirOf
  <2> QED
    BY <1>1, <2>1 DEF InstancesInv, ClosingIsOverdue
<1>7. WalkIsThorough'
  <2> SUFFICES ASSUME NEW a \in Alls
               PROVE  /\ caller'[a] # "waiting"
                      /\ caller'[a] = "done" => \A b \in mine[a] : ~Has(b)
    BY <1>1 DEF WalkIsThorough, Has, DirOf
  <2> QED
    BY <1>0, <1>1 DEF WalkIsThorough, InstancesTypeOK
<1>8. Numbered' /\ StatesKnown' /\ QuestionsKept' /\ StatesFollowInstance'
  BY <1>1, NothingMoves
<1> QED
  BY <1>4, <1>5, <1>6, <1>7, <1>8 DEF InstancesInv

-----------------------------------------------------------------------------
(* The theorems.                                                           *)

LEMMA InstancesStepInv == InstancesInv /\ [InstancesNext]_instVars => InstancesInv'
<1> SUFFICES ASSUME InstancesInv, [InstancesNext]_instVars PROVE InstancesInv'
  OBVIOUS
<1>1. CASE UNCHANGED instVars
  <2> USE <1>1 DEF instVars
  <2>1. InstancesTypeOK'
    BY DEF InstancesInv, InstancesTypeOK, Boots, States
  <2>2. Numbered' /\ InstancesKnown' /\ StatesKnown' /\ QuestionsKept'
    BY DEF InstancesInv, Numbered, InstancesKnown, StatesKnown, QuestionsKept, MadeBoots,
       MadeStates, DirOf, Boots, States
  <2>3. ClosingIsOverdue' /\ StatesFollowInstance' /\ WalkIsThorough'
    BY DEF InstancesInv, ClosingIsOverdue, StatesFollowInstance, WalkIsThorough, Closing, Has,
       DirOf, States
  <2> QED
    BY <2>1, <2>2, <2>3 DEF InstancesInv
<1>2. CASE InstancesNext
  BY <1>2, ProvideInv, AdmitInv, BootEndsInv, BootFailsInv, AskInv, ServeInv, FinalizeInv,
     DisposeInv, EndDisposeInv, EndReloadInv, DisposeAllInv, WalkNextInv, WalkAwaitInv,
     WalkDisposedInv, WalkEndsInv
     DEF InstancesNext, DisposeStep
<1> QED
  BY <1>1, <1>2

\* The inductive invariant of the instances, their states and the questions in them.
THEOREM InstancesInvHolds == InstancesSpec => []InstancesInv
  BY InstancesInitInv, InstancesStepInv, PTL DEF InstancesSpec

\* A question that waits can be answered by a client of its directory, or is about to be
\* rejected with its state: question/index.ts and the finalizer of its state.
THEOREM QuestionsAreReachableHolds == InstancesSpec => []QuestionsAreReachable
<1>1. InstancesInv => QuestionsAreReachable
  <2> SUFFICES ASSUME InstancesInv, NEW q \in Questions, question[q].at = "waiting"
               PROVE  LET s == question[q].in IN
                      /\ q \in state[s].has
                      /\ state[s].is = "closing" \/ \E d \in Dirs : live[d] = s
    BY DEF QuestionsAreReachable
  <2> DEFINE s == question[q].in
  <2>1. s \in States /\ q \in state[s].has
    BY DEF InstancesInv, QuestionsKept
  <2>2. state[s].is \in {"open", "closing"}
    BY <2>1 DEF InstancesInv, QuestionsKept
  <2>3. ASSUME state[s].is = "open" PROVE \E d \in Dirs : live[d] = s
    <3>1. live[DirOf(state[s].of)] = s /\ DirOf(state[s].of) \in Dirs
      BY <2>1, <2>3 DEF InstancesInv, StatesKnown, InstancesKnown, MadeStates
    <3> QED
      BY <3>1
  <2> QED
    BY <2>1, <2>2, <2>3
<1> QED
  BY <1>1, InstancesInvHolds, PTL

\* What a service keeps for a directory was made by the instance in the cache, but for
\* what was made on the way out or by a boot that failed: project/instance.ts.
THEOREM StatesFollowInstanceHolds == InstancesSpec => []StatesFollowInstance
  BY InstancesInvHolds, PTL DEF InstancesInv

\* When disposeAll returns, the instances it found and their states are gone, however
\* many calls there are and whatever happens during its awaits.
THEOREM DisposeAllIsThoroughHolds == InstancesSpec => []DisposeAllIsThorough
<1>1. InstancesInv => DisposeAllIsThorough
  <2> SUFFICES ASSUME InstancesInv, NEW a \in Alls, caller[a] = "done", NEW b \in mine[a]
               PROVE  /\ ~Has(b)
                      /\ \/ boot[b].is = "failed"
                         \/ \A s \in States \ overdue : state[s].of = b => state[s].is # "open"
    BY DEF DisposeAllIsThorough
  <2>1. ~Has(b)
    BY DEF InstancesInv, WalkIsThorough
  <2>2. ASSUME boot[b].is # "failed", NEW s \in States \ overdue, state[s].of = b,
               state[s].is = "open"
        PROVE  FALSE
    <3>1. live[DirOf(b)] = s
      BY <2>2 DEF InstancesInv, StatesKnown
    <3>2. DirOf(b) \in Dirs
      BY DEF InstancesInv, InstancesKnown
    <3>3. cache[DirOf(b)] = b
      BY <2>2, <3>1, <3>2 DEF InstancesInv, StatesFollowInstance
    <3> QED
      BY <2>1, <3>3 DEF Has
  <2> QED
    BY <2>1, <2>2
<1> QED
  BY <1>1, InstancesInvHolds, PTL
=============================================================================
