------------------------- MODULE ToolCallsProofs -------------------------
(***************************************************************************)
(* Proofs about ToolCalls: no part stays open, a verdict stands, and a     *)
(* rejected call stops the loop, for any number of calls and attempts.     *)
(*                                                                         *)
(* The registry is what the argument goes by: the open parts are just the  *)
(* registered ones, but for those that cleanup has closed and not yet      *)
(* forgotten.  A new part is always one that was never written.            *)
(***************************************************************************)
EXTENDS ToolCalls, TLAPS

\* An open part is registered, and cleanup has yet to come to it.
OpenIsRegistered ==
    \A c \in Calls, k \in Attempts : part[<<c, k>>] \in Open =>
        /\ toolcalls[c] = k
        /\ fiber # "done"
        /\ fiber = "closing" => c \in left

\* What is registered is open, or cleanup has just closed it.
RegisteredIsOpen ==
    \A c \in Calls : toolcalls[c] # 0 =>
        \/ part[<<c, toolcalls[c]>>] \in Open
        \/ /\ part[<<c, toolcalls[c]>>] = "error"
           /\ fiber = "closing" /\ c \notin left

\* An attempt writes a part of its own only when it hears of the call.
NewIsFresh ==
    \A c \in Calls, k \in Attempts :
        (k > attempt \/ (k = attempt /\ heard[c] = "no")) => part[<<c, k>>] = "none"

\* A call that was answered has a tool that is done, or never had one.
AnsweredIsOver ==
    \A c \in Calls : heard[c] = "answered" =>
        run[<<c, attempt>>] \in {"finished", "failed", "rejected", "idle"}

OnlyNow(c) == \A k \in Attempts : UsedIn(c, k) => k = attempt

\* Where the id is of this attempt alone, the call keeps its entry until it is
\* answered, so that its answer is not lost.
OwnEntry ==
    \A c \in Calls : (StreamIsOpen /\ heard[c] \in {"started", "called"} /\ OnlyNow(c)) =>
        /\ toolcalls[c] = attempt
        /\ heard[c] = "called" => part[<<c, attempt>>] = "running"

\* There is an attempt left while one is waited for (the bound).
OneMoreLeft == fiber = "waiting" => attempt < MaxAttempts

RejectionIsKept ==
    \A c \in Calls :
        (/\ BreakOnReject /\ heard[c] = "answered"
         /\ run[<<c, attempt>>] = "rejected" /\ OnlyNow(c)) => blocked

IInv ==
    /\ ToolTypeOK
    /\ OpenIsRegistered
    /\ RegisteredIsOpen
    /\ NewIsFresh
    /\ AnsweredIsOver
    /\ OwnEntry
    /\ RejectionIsKept
    /\ OneMoreLeft

USE AttemptAssumption, BreakAssumption

\* Settling a call keeps the types, and leaves the other calls alone.
LEMMA SettleTypes ==
    ASSUME ToolTypeOK, NEW d \in Calls, NEW status \in Closed, SettleAs(d, status)
    PROVE  /\ part' \in [Keys -> {"none"} \cup Open \cup Closed]
           /\ toolcalls' \in [Calls -> 0..MaxAttempts]
<1>1. CASE Reads(d, {"running"})
  <2>1. PartOf(d) \in Keys
    BY <1>1 DEF Reads, Registered, PartOf, Keys, Attempts, ToolTypeOK
  <2>2. part' = [part EXCEPT ![PartOf(d)] = status] /\ toolcalls' = [toolcalls EXCEPT ![d] = 0]
    BY <1>1 DEF SettleAs
  <2>3. part' \in [Keys -> {"none"} \cup Open \cup Closed]
    BY <2>1, <2>2 DEF ToolTypeOK
  <2>4. QED  BY <2>2, <2>3 DEF ToolTypeOK
<1>2. CASE ~Reads(d, {"running"})
  BY <1>2 DEF SettleAs, ToolTypeOK
<1>3. QED  BY <1>1, <1>2

LEMMA HearStartKeeps == ASSUME IInv, NEW d \in Calls, HearStart(d) PROVE IInv'
<1>1. ToolTypeOK'
    BY DEF IInv, ToolTypeOK, HearStart, Keys, Attempts, Open, Heard, Registered
<1>2. OpenIsRegistered'
    BY DEF IInv, ToolTypeOK, HearStart, Attempts, Registered, OpenIsRegistered
<1>3. RegisteredIsOpen'
    BY DEF IInv, ToolTypeOK, HearStart, Keys, RegisteredIsOpen, Open
<1>4. NewIsFresh'
    BY DEF IInv, ToolTypeOK, HearStart, Attempts, NewIsFresh, RegisteredIsOpen, Open
<1>5. AnsweredIsOver'
    BY DEF IInv, ToolTypeOK, HearStart, AnsweredIsOver
<1>6. OwnEntry'
    BY DEF IInv, ToolTypeOK, HearStart, Keys, Attempts, Registered, OwnEntry, OnlyNow, UsedIn, StreamIsOpen
<1>7. RejectionIsKept'
    BY DEF IInv, ToolTypeOK, HearStart, RejectionIsKept, OnlyNow, UsedIn
<1>8. OneMoreLeft'
    BY DEF IInv, ToolTypeOK, HearStart, OneMoreLeft
<1>9. QED  BY <1>1, <1>2, <1>3, <1>4, <1>5, <1>6, <1>7, <1>8 DEF IInv

LEMMA HearCallKeeps == ASSUME IInv, NEW d \in Calls, HearCall(d) PROVE IInv'
<1>1. ToolTypeOK'
    BY DEF IInv, ToolTypeOK, HearCall, Open, Heard
<1>2. OpenIsRegistered'
    BY DEF IInv, ToolTypeOK, HearCall, PartOf, OpenIsRegistered
<1>3. RegisteredIsOpen'
    BY DEF IInv, ToolTypeOK, HearCall, RegisteredIsOpen, Open
<1>4. NewIsFresh'
    BY DEF IInv, ToolTypeOK, HearCall, Attempts, PartOf, NewIsFresh, RegisteredIsOpen, Open
<1>5. AnsweredIsOver'
    BY DEF IInv, ToolTypeOK, HearCall, AnsweredIsOver
<1>6. OwnEntry'
    BY DEF IInv, ToolTypeOK, HearCall, Keys, Attempts, Registered, PartOf, OwnEntry, OnlyNow, UsedIn, StreamIsOpen
<1>7. RejectionIsKept'
    BY DEF IInv, ToolTypeOK, HearCall, RejectionIsKept, OnlyNow, UsedIn
<1>8. OneMoreLeft'
    BY DEF IInv, ToolTypeOK, HearCall, OneMoreLeft
<1>9. QED  BY <1>1, <1>2, <1>3, <1>4, <1>5, <1>6, <1>7, <1>8 DEF IInv

LEMMA HearResultKeeps == ASSUME IInv, NEW d \in Calls, HearResult(d) PROVE IInv'
<1>1. ToolTypeOK'
  <2>1. part' \in [Keys -> {"none"} \cup Open \cup Closed] /\ toolcalls' \in [Calls -> 0..MaxAttempts]
    BY SettleTypes DEF IInv, HearResult, Closed
  <2>2. QED  BY <2>1 DEF IInv, ToolTypeOK, HearResult, Heard
<1>2. OpenIsRegistered'
    BY DEF IInv, ToolTypeOK, HearResult, Keys, SettleAs, PartOf, RegisteredIsOpen, OpenIsRegistered, Open
<1>3. RegisteredIsOpen'
    BY DEF IInv, ToolTypeOK, HearResult, Keys, Attempts, SettleAs, PartOf, RegisteredIsOpen
<1>4. NewIsFresh'
    BY DEF IInv, ToolTypeOK, HearResult, Keys, SettleAs, Reads, NewIsFresh
<1>5. AnsweredIsOver'
    BY DEF IInv, ToolTypeOK, HearResult, Current, AnsweredIsOver
<1>6. OwnEntry'
    BY DEF IInv, ToolTypeOK, HearResult, Keys, SettleAs, PartOf, OwnEntry, OnlyNow, UsedIn, StreamIsOpen
<1>7. RejectionIsKept'
    BY DEF IInv, ToolTypeOK, HearResult, Keys, Current, SettleAs, RejectionIsKept, OnlyNow, UsedIn
<1>8. OneMoreLeft'
    BY DEF IInv, ToolTypeOK, HearResult, OneMoreLeft
<1>9. QED  BY <1>1, <1>2, <1>3, <1>4, <1>5, <1>6, <1>7, <1>8 DEF IInv

LEMMA HearErrorKeeps == ASSUME IInv, NEW d \in Calls, HearError(d) PROVE IInv'
<1>1. ToolTypeOK'
  <2>1. part' \in [Keys -> {"none"} \cup Open \cup Closed] /\ toolcalls' \in [Calls -> 0..MaxAttempts]
    BY SettleTypes DEF IInv, HearError, Closed
  <2>2. blocked' \in BOOLEAN
    <3>1. CASE Reads(d, {"running"}) /\ run[Current(d)] = "rejected"
      BY <3>1 DEF HearError, BlockedBy
    <3>2. CASE ~(Reads(d, {"running"}) /\ run[Current(d)] = "rejected")
      BY <3>2 DEF IInv, ToolTypeOK, HearError, BlockedBy
    <3>3. QED  BY <3>1, <3>2
  <2>3. QED  BY <2>1, <2>2 DEF IInv, ToolTypeOK, HearError, Heard
<1>2. OpenIsRegistered'
    BY DEF IInv, ToolTypeOK, HearError, Keys, SettleAs, PartOf, RegisteredIsOpen, OpenIsRegistered, Open
<1>3. RegisteredIsOpen'
    BY DEF IInv, ToolTypeOK, HearError, Keys, Attempts, SettleAs, PartOf, RegisteredIsOpen
<1>4. NewIsFresh'
    BY DEF IInv, ToolTypeOK, HearError, Keys, SettleAs, Reads, NewIsFresh
<1>5. AnsweredIsOver'
    BY DEF IInv, ToolTypeOK, HearError, Current, AnsweredIsOver
<1>6. OwnEntry'
    BY DEF IInv, ToolTypeOK, HearError, Keys, SettleAs, PartOf, OwnEntry, OnlyNow, UsedIn, StreamIsOpen
<1>7. RejectionIsKept'
  <2>1. SUFFICES ASSUME NEW c \in Calls, BreakOnReject, heard'[c] = "answered",
                        run'[<<c, attempt'>>] = "rejected", OnlyNow(c)'
                 PROVE  blocked' = TRUE
    BY Zenon DEF RejectionIsKept
  <2>2. OnlyNow(c)
    <3>1. \A k \in Attempts : part[<<c, k>>] # "none" => part'[<<c, k>>] # "none"
      BY DEF IInv, ToolTypeOK, HearError, SettleAs, Reads, PartOf, Keys, Attempts
    <3>2. QED  BY <2>1, <3>1 DEF OnlyNow, UsedIn, HearError
  <2>3. run[<<c, attempt>>] = "rejected"
    BY <2>1 DEF HearError
  <2>4. CASE c = d
    <3>1. toolcalls[d] = attempt /\ part[<<d, attempt>>] = "running"
      BY <2>2, <2>4 DEF IInv, OwnEntry, HearError, StreamIsOpen
    <3>2. toolcalls[d] # 0
      BY <3>1 DEF IInv, ToolTypeOK, Attempts
    <3>3. QED  BY <2>1, <2>3, <2>4, <3>1, <3>2 DEF HearError, BlockedBy, Reads, Registered, PartOf, Current
  <2>5. CASE c # d
    <3>1. heard[c] = "answered"
      BY <2>1, <2>5 DEF HearError, IInv, ToolTypeOK
    <3>2. blocked = TRUE
      BY <2>1, <2>2, <2>3, <3>1 DEF IInv, ToolTypeOK, RejectionIsKept
    <3>3. QED  BY <2>1, <3>2 DEF HearError, BlockedBy
  <2>6. QED  BY <2>4, <2>5
<1>8. OneMoreLeft'
    BY DEF IInv, ToolTypeOK, HearError, OneMoreLeft
<1>9. QED  BY <1>1, <1>2, <1>3, <1>4, <1>5, <1>6, <1>7, <1>8 DEF IInv

LEMMA GoOnKeeps == ASSUME IInv, GoOn PROVE IInv'
<1>1. ToolTypeOK'
    BY DEF IInv, ToolTypeOK, GoOn, stream
<1>2. OpenIsRegistered'
    BY DEF IInv, ToolTypeOK, GoOn, stream, OpenIsRegistered
<1>3. RegisteredIsOpen'
    BY DEF IInv, ToolTypeOK, GoOn, stream, RegisteredIsOpen
<1>4. NewIsFresh'
    BY DEF IInv, ToolTypeOK, GoOn, stream, NewIsFresh
<1>5. AnsweredIsOver'
    BY DEF IInv, ToolTypeOK, GoOn, stream, AnsweredIsOver
<1>6. OwnEntry'
    BY DEF IInv, ToolTypeOK, GoOn, stream, OwnEntry, OnlyNow, UsedIn, StreamIsOpen
<1>7. RejectionIsKept'
    BY DEF IInv, ToolTypeOK, GoOn, stream, RejectionIsKept, OnlyNow, UsedIn
<1>8. OneMoreLeft'
    BY DEF IInv, ToolTypeOK, GoOn, stream, OneMoreLeft
<1>9. QED  BY <1>1, <1>2, <1>3, <1>4, <1>5, <1>6, <1>7, <1>8 DEF IInv

LEMMA StreamEndsKeeps == ASSUME IInv, StreamEnds PROVE IInv'
<1>1. ToolTypeOK'
    BY DEF IInv, ToolTypeOK, StreamEnds
<1>2. OpenIsRegistered'
    BY DEF IInv, ToolTypeOK, StreamEnds, OpenIsRegistered
<1>3. RegisteredIsOpen'
    BY DEF IInv, ToolTypeOK, StreamEnds, RegisteredIsOpen
<1>4. NewIsFresh'
    BY DEF IInv, ToolTypeOK, StreamEnds, NewIsFresh
<1>5. AnsweredIsOver'
    BY DEF IInv, ToolTypeOK, StreamEnds, AnsweredIsOver
<1>6. OwnEntry'
    BY DEF IInv, ToolTypeOK, StreamEnds, OwnEntry, OnlyNow, StreamIsOpen
<1>7. RejectionIsKept'
    BY DEF IInv, ToolTypeOK, StreamEnds, RejectionIsKept, OnlyNow, UsedIn
<1>8. OneMoreLeft'
    BY DEF IInv, ToolTypeOK, StreamEnds, OneMoreLeft
<1>9. QED  BY <1>1, <1>2, <1>3, <1>4, <1>5, <1>6, <1>7, <1>8 DEF IInv

LEMMA HaltKeeps == ASSUME IInv, Halt PROVE IInv'
<1>1. ToolTypeOK'
    BY DEF IInv, ToolTypeOK, Halt
<1>2. OpenIsRegistered'
    BY DEF IInv, ToolTypeOK, Halt, OpenIsRegistered
<1>3. RegisteredIsOpen'
    BY DEF IInv, ToolTypeOK, Halt, StreamIsOpen, RegisteredIsOpen
<1>4. NewIsFresh'
    BY DEF IInv, ToolTypeOK, Halt, NewIsFresh
<1>5. AnsweredIsOver'
    BY DEF IInv, ToolTypeOK, Halt, AnsweredIsOver
<1>6. OwnEntry'
    BY DEF IInv, ToolTypeOK, Halt, OwnEntry, OnlyNow, UsedIn
<1>7. RejectionIsKept'
    BY DEF IInv, ToolTypeOK, Halt, RejectionIsKept, OnlyNow, UsedIn
<1>8. OneMoreLeft'
    BY DEF IInv, ToolTypeOK, Halt, OneMoreLeft
<1>9. QED  BY <1>1, <1>2, <1>3, <1>4, <1>5, <1>6, <1>7, <1>8 DEF IInv

LEMMA BackOffKeeps == ASSUME IInv, BackOff PROVE IInv'
<1>1. ToolTypeOK'
    BY DEF IInv, ToolTypeOK, BackOff, stream
<1>2. OpenIsRegistered'
    BY DEF IInv, ToolTypeOK, BackOff, stream, OpenIsRegistered
<1>3. RegisteredIsOpen'
    BY DEF IInv, ToolTypeOK, BackOff, stream, RegisteredIsOpen
<1>4. NewIsFresh'
    BY DEF IInv, ToolTypeOK, BackOff, stream, NewIsFresh
<1>5. AnsweredIsOver'
    BY DEF IInv, ToolTypeOK, BackOff, stream, Attempts, AnsweredIsOver
<1>6. OwnEntry'
    BY DEF IInv, ToolTypeOK, BackOff, stream, OwnEntry, OnlyNow, StreamIsOpen
<1>7. RejectionIsKept'
    BY DEF IInv, ToolTypeOK, BackOff, stream, RejectionIsKept, OnlyNow, UsedIn
<1>8. OneMoreLeft'
    BY DEF IInv, ToolTypeOK, BackOff, stream, OneMoreLeft
<1>9. QED  BY <1>1, <1>2, <1>3, <1>4, <1>5, <1>6, <1>7, <1>8 DEF IInv

LEMMA RetryKeeps == ASSUME IInv, Retry PROVE IInv'
<1>1. ToolTypeOK'
    BY DEF IInv, ToolTypeOK, Retry, Attempts, Heard, OneMoreLeft
<1>2. OpenIsRegistered'
    BY DEF IInv, ToolTypeOK, Retry, OpenIsRegistered
<1>3. RegisteredIsOpen'
    BY DEF IInv, ToolTypeOK, Retry, RegisteredIsOpen
<1>4. NewIsFresh'
    BY DEF IInv, ToolTypeOK, Retry, Attempts, NewIsFresh
<1>5. AnsweredIsOver'
    BY DEF IInv, ToolTypeOK, Retry, AnsweredIsOver
<1>6. OwnEntry'
    BY DEF IInv, ToolTypeOK, Retry, OwnEntry, OnlyNow
<1>7. RejectionIsKept'
    BY DEF IInv, ToolTypeOK, Retry, RejectionIsKept, OnlyNow
<1>8. OneMoreLeft'
    BY DEF IInv, ToolTypeOK, Retry, OneMoreLeft
<1>9. QED  BY <1>1, <1>2, <1>3, <1>4, <1>5, <1>6, <1>7, <1>8 DEF IInv

LEMMA InterruptKeeps == ASSUME IInv, Abort PROVE IInv'
<1>1. ToolTypeOK'
    BY DEF IInv, ToolTypeOK, Abort
<1>2. OpenIsRegistered'
    BY DEF IInv, ToolTypeOK, Abort, OpenIsRegistered
<1>3. RegisteredIsOpen'
    BY DEF IInv, ToolTypeOK, Abort, StreamIsOpen, RegisteredIsOpen
<1>4. NewIsFresh'
    BY DEF IInv, ToolTypeOK, Abort, NewIsFresh
<1>5. AnsweredIsOver'
    BY DEF IInv, ToolTypeOK, Abort, AnsweredIsOver
<1>6. OwnEntry'
    BY DEF IInv, ToolTypeOK, Abort, StreamIsOpen, OwnEntry, OnlyNow
<1>7. RejectionIsKept'
    BY DEF IInv, ToolTypeOK, Abort, RejectionIsKept, OnlyNow, UsedIn
<1>8. OneMoreLeft'
    BY DEF IInv, ToolTypeOK, Abort, OneMoreLeft
<1>9. QED  BY <1>1, <1>2, <1>3, <1>4, <1>5, <1>6, <1>7, <1>8 DEF IInv

LEMMA SettleKeeps == ASSUME IInv, SettleRunning PROVE IInv'
<1>1. ToolTypeOK'
    BY DEF IInv, ToolTypeOK, SettleRunning, stream
<1>2. OpenIsRegistered'
    BY DEF IInv, ToolTypeOK, SettleRunning, stream, Attempts, Registered, OpenIsRegistered
<1>3. RegisteredIsOpen'
    BY DEF IInv, ToolTypeOK, SettleRunning, stream, RegisteredIsOpen
<1>4. NewIsFresh'
    BY DEF IInv, ToolTypeOK, SettleRunning, stream, NewIsFresh
<1>5. AnsweredIsOver'
    BY DEF IInv, ToolTypeOK, SettleRunning, stream, AnsweredIsOver
<1>6. OwnEntry'
    BY DEF IInv, ToolTypeOK, SettleRunning, stream, OwnEntry, OnlyNow, StreamIsOpen
<1>7. RejectionIsKept'
    BY DEF IInv, ToolTypeOK, SettleRunning, stream, RejectionIsKept, OnlyNow, UsedIn
<1>8. OneMoreLeft'
    BY DEF IInv, ToolTypeOK, SettleRunning, stream, OneMoreLeft
<1>9. QED  BY <1>1, <1>2, <1>3, <1>4, <1>5, <1>6, <1>7, <1>8 DEF IInv

LEMMA CloseCallKeeps == ASSUME IInv, NEW d \in Calls, CloseCall(d) PROVE IInv'
<1>1. ToolTypeOK'
    BY DEF IInv, ToolTypeOK, CloseCall, stream, Closed
<1>2. OpenIsRegistered'
    BY DEF IInv, ToolTypeOK, CloseCall, stream, Keys, Attempts, Registered, PartOf, OpenIsRegistered, Open
<1>3. RegisteredIsOpen'
    BY DEF IInv, ToolTypeOK, CloseCall, stream, PartOf, RegisteredIsOpen
<1>4. NewIsFresh'
    BY DEF IInv, ToolTypeOK, CloseCall, stream, Attempts, PartOf, NewIsFresh, RegisteredIsOpen, Open
<1>5. AnsweredIsOver'
    BY DEF IInv, ToolTypeOK, CloseCall, stream, Keys, Attempts, Registered, PartOf, AnsweredIsOver
<1>6. OwnEntry'
    BY DEF IInv, ToolTypeOK, CloseCall, stream, OwnEntry, OnlyNow, StreamIsOpen
<1>7. RejectionIsKept'
    BY DEF IInv, ToolTypeOK, CloseCall, stream, RejectionIsKept, OnlyNow, UsedIn
<1>8. OneMoreLeft'
    BY DEF IInv, ToolTypeOK, CloseCall, stream, OneMoreLeft
<1>9. QED  BY <1>1, <1>2, <1>3, <1>4, <1>5, <1>6, <1>7, <1>8 DEF IInv

LEMMA EndCleanupKeeps == ASSUME IInv, EndCleanup PROVE IInv'
<1>1. ToolTypeOK'
    BY DEF IInv, ToolTypeOK, EndCleanup, stream
<1>2. OpenIsRegistered'
    BY DEF IInv, ToolTypeOK, EndCleanup, stream, OpenIsRegistered
<1>3. RegisteredIsOpen'
    BY DEF IInv, ToolTypeOK, EndCleanup, stream, Keys, Attempts, RegisteredIsOpen, Open
<1>4. NewIsFresh'
    BY DEF IInv, ToolTypeOK, EndCleanup, stream, NewIsFresh
<1>5. AnsweredIsOver'
    BY DEF IInv, ToolTypeOK, EndCleanup, stream, AnsweredIsOver
<1>6. OwnEntry'
    BY DEF IInv, ToolTypeOK, EndCleanup, stream, OwnEntry, OnlyNow, StreamIsOpen
<1>7. RejectionIsKept'
    BY DEF IInv, ToolTypeOK, EndCleanup, stream, RejectionIsKept, OnlyNow, UsedIn
<1>8. OneMoreLeft'
    BY DEF IInv, ToolTypeOK, EndCleanup, stream, OneMoreLeft
<1>9. QED  BY <1>1, <1>2, <1>3, <1>4, <1>5, <1>6, <1>7, <1>8 DEF IInv

LEMMA ExecuteKeeps == ASSUME IInv, NEW d \in Calls, Execute(d) PROVE IInv'
<1>1. ToolTypeOK'
    BY DEF IInv, ToolTypeOK, Execute, stream, RunStates
<1>2. OpenIsRegistered'
    BY DEF IInv, ToolTypeOK, Execute, stream, OpenIsRegistered
<1>3. RegisteredIsOpen'
    BY DEF IInv, ToolTypeOK, Execute, stream, RegisteredIsOpen
<1>4. NewIsFresh'
    BY DEF IInv, ToolTypeOK, Execute, stream, NewIsFresh
<1>5. AnsweredIsOver'
    BY DEF IInv, ToolTypeOK, Execute, stream, Current, AnsweredIsOver
<1>6. OwnEntry'
    BY DEF IInv, ToolTypeOK, Execute, stream, OwnEntry, OnlyNow, UsedIn
<1>7. RejectionIsKept'
    BY DEF IInv, ToolTypeOK, Execute, stream, RejectionIsKept, OnlyNow, UsedIn
<1>8. OneMoreLeft'
    BY DEF IInv, ToolTypeOK, Execute, stream, OneMoreLeft
<1>9. QED  BY <1>1, <1>2, <1>3, <1>4, <1>5, <1>6, <1>7, <1>8 DEF IInv

LEMMA MetadataKeeps == ASSUME IInv, NEW r \in Keys, Metadata(r) PROVE IInv'
<1>1. ToolTypeOK'
    BY DEF IInv, ToolTypeOK, Metadata, stream, Open
<1>2. OpenIsRegistered'
    BY DEF IInv, ToolTypeOK, Metadata, stream, Reads, OpenIsRegistered, Open
<1>3. RegisteredIsOpen'
    BY DEF IInv, ToolTypeOK, Metadata, stream, RegisteredIsOpen, Open
<1>4. NewIsFresh'
    BY DEF IInv, ToolTypeOK, Metadata, stream, Reads, NewIsFresh
<1>5. AnsweredIsOver'
    BY DEF IInv, ToolTypeOK, Metadata, stream, AnsweredIsOver
<1>6. OwnEntry'
    BY DEF IInv, ToolTypeOK, Metadata, stream, OwnEntry, OnlyNow, UsedIn, StreamIsOpen
<1>7. RejectionIsKept'
    BY DEF IInv, ToolTypeOK, Metadata, stream, RejectionIsKept, OnlyNow, UsedIn
<1>8. OneMoreLeft'
    BY DEF IInv, ToolTypeOK, Metadata, stream, OneMoreLeft
<1>9. QED  BY <1>1, <1>2, <1>3, <1>4, <1>5, <1>6, <1>7, <1>8 DEF IInv

LEMMA AnsweredKeeps == ASSUME IInv, NEW r \in Keys, Answered(r) PROVE IInv'
<1>1. ToolTypeOK'
    BY DEF IInv, ToolTypeOK, Answered, stream, RunStates
<1>2. OpenIsRegistered'
    BY DEF IInv, ToolTypeOK, Answered, stream, OpenIsRegistered
<1>3. RegisteredIsOpen'
    BY DEF IInv, ToolTypeOK, Answered, stream, RegisteredIsOpen
<1>4. NewIsFresh'
    BY DEF IInv, ToolTypeOK, Answered, stream, NewIsFresh
<1>5. AnsweredIsOver'
    BY DEF IInv, ToolTypeOK, Answered, stream, AnsweredIsOver
<1>6. OwnEntry'
    BY DEF IInv, ToolTypeOK, Answered, stream, OwnEntry, OnlyNow, UsedIn, StreamIsOpen
<1>7. RejectionIsKept'
    BY DEF IInv, ToolTypeOK, Answered, stream, RejectionIsKept, OnlyNow, UsedIn, AnsweredIsOver
<1>8. OneMoreLeft'
    BY DEF IInv, ToolTypeOK, Answered, stream, OneMoreLeft
<1>9. QED  BY <1>1, <1>2, <1>3, <1>4, <1>5, <1>6, <1>7, <1>8 DEF IInv

LEMMA FinishKeeps == ASSUME IInv, NEW r \in Keys, Finish(r) PROVE IInv'
<1>1. ToolTypeOK'
  <2>1. r[1] \in Calls
    BY DEF Keys
  <2>2. part' \in [Keys -> {"none"} \cup Open \cup Closed] /\ toolcalls' \in [Calls -> 0..MaxAttempts]
    BY <2>1, SettleTypes DEF IInv, ToolTypeOK, Finish, Closed
  <2>3. QED  BY <2>2 DEF IInv, ToolTypeOK, Finish, stream, RunStates
<1>2. OpenIsRegistered'
  <2>1. PICK d \in Calls : d = r[1]
    BY DEF Keys
  <2>2. CASE UNCHANGED <<part, toolcalls>>
    BY <2>2 DEF IInv, OpenIsRegistered, Finish
  <2>3. CASE SettleAs(d, "completed") /\ Reads(d, {"running"})
    <3>1. /\ part' = [part EXCEPT ![<<d, toolcalls[d]>>] = "completed"]
          /\ toolcalls' = [toolcalls EXCEPT ![d] = 0]
          /\ toolcalls[d] \in Attempts
          /\ fiber' = fiber /\ left' = left
      BY <2>3 DEF Finish, SettleAs, Reads, Registered, PartOf, IInv, ToolTypeOK, Attempts
    <3>2. QED  BY <3>1 DEF IInv, ToolTypeOK, OpenIsRegistered, Open, Keys
  <2>4. QED  BY <2>1, <2>2, <2>3 DEF Finish, SettleAs
<1>3. RegisteredIsOpen'
    BY DEF IInv, ToolTypeOK, Finish, stream, Keys, Attempts, SettleAs, PartOf, RegisteredIsOpen
<1>4. NewIsFresh'
    BY DEF IInv, ToolTypeOK, Finish, stream, Keys, SettleAs, Reads, NewIsFresh
<1>5. AnsweredIsOver'
    BY DEF IInv, ToolTypeOK, Finish, stream, AnsweredIsOver
<1>6. OwnEntry'
    BY DEF IInv, ToolTypeOK, Finish, stream, Keys, SignalAborted, SettleAs, PartOf, StreamIsOpen, OwnEntry, OnlyNow, UsedIn
<1>7. RejectionIsKept'
    BY DEF IInv, ToolTypeOK, Finish, stream, Keys, SettleAs, RejectionIsKept, OnlyNow, UsedIn
<1>8. OneMoreLeft'
    BY DEF IInv, ToolTypeOK, Finish, stream, OneMoreLeft
<1>9. QED  BY <1>1, <1>2, <1>3, <1>4, <1>5, <1>6, <1>7, <1>8 DEF IInv

LEMMA FailKeeps == ASSUME IInv, NEW r \in Keys, Fail(r) PROVE IInv'
<1>1. ToolTypeOK'
    BY DEF IInv, ToolTypeOK, Fail, stream, RunStates
<1>2. OpenIsRegistered'
    BY DEF IInv, ToolTypeOK, Fail, stream, OpenIsRegistered
<1>3. RegisteredIsOpen'
    BY DEF IInv, ToolTypeOK, Fail, stream, RegisteredIsOpen
<1>4. NewIsFresh'
    BY DEF IInv, ToolTypeOK, Fail, stream, NewIsFresh
<1>5. AnsweredIsOver'
    BY DEF IInv, ToolTypeOK, Fail, stream, AnsweredIsOver
<1>6. OwnEntry'
    BY DEF IInv, ToolTypeOK, Fail, stream, OwnEntry, OnlyNow, UsedIn, StreamIsOpen
<1>7. RejectionIsKept'
    BY DEF IInv, ToolTypeOK, Fail, stream, RejectionIsKept, OnlyNow, UsedIn
<1>8. OneMoreLeft'
    BY DEF IInv, ToolTypeOK, Fail, stream, OneMoreLeft
<1>9. QED  BY <1>1, <1>2, <1>3, <1>4, <1>5, <1>6, <1>7, <1>8 DEF IInv

LEMMA StutterKeeps == ASSUME IInv, UNCHANGED toolVars PROVE IInv'
BY DEF IInv, ToolTypeOK, OpenIsRegistered, RegisteredIsOpen, NewIsFresh, AnsweredIsOver, OwnEntry,
       OnlyNow, UsedIn, StreamIsOpen, RejectionIsKept, OneMoreLeft, toolVars

LEMMA InitHolds == ToolsInit => IInv
<1> SUFFICES ASSUME ToolsInit PROVE IInv
  OBVIOUS
<1>1. ToolTypeOK
  <2>1. 1 \in Attempts /\ 0 \in 0..MaxAttempts
    BY DEF Attempts
  <2>2. QED  BY <2>1 DEF ToolsInit, ToolTypeOK, Heard, RunStates
<1>2. OpenIsRegistered /\ RegisteredIsOpen /\ NewIsFresh
  BY DEF ToolsInit, OpenIsRegistered, RegisteredIsOpen, NewIsFresh, Open, Keys
<1>3. AnsweredIsOver /\ OwnEntry /\ RejectionIsKept /\ OneMoreLeft
  BY DEF ToolsInit, AnsweredIsOver, OwnEntry, RejectionIsKept, OneMoreLeft
<1>4. QED  BY <1>1, <1>2, <1>3 DEF IInv

LEMMA StepHolds == ASSUME IInv, [ToolsNext]_toolVars PROVE IInv'
<1>1. CASE EventStep
  BY <1>1, HearStartKeeps, HearCallKeeps, HearResultKeeps, HearErrorKeeps, GoOnKeeps,
     StreamEndsKeeps, HaltKeeps, BackOffKeeps, RetryKeeps, InterruptKeeps, Zenon DEF EventStep
<1>2. CASE CleanupStep
  BY <1>2, SettleKeeps, CloseCallKeeps, EndCleanupKeeps, Zenon DEF CleanupStep
<1>3. CASE ToolStep
  BY <1>3, ExecuteKeeps, MetadataKeeps, AnsweredKeeps, FinishKeeps, FailKeeps, Zenon DEF ToolStep
<1>4. CASE UNCHANGED toolVars
  BY <1>4, StutterKeeps
<1>5. QED  BY <1>1, <1>2, <1>3, <1>4 DEF ToolsNext

LEMMA InvariantHolds == ToolsSpec => []IInv
BY InitHolds, StepHolds, PTL DEF ToolsSpec

-----------------------------------------------------------------------------
(* The theorems *)

\* The variables keep to their types, and attempts to their bound.
THEOREM TypesHold == ToolsSpec => []ToolTypeOK
<1>1. IInv => ToolTypeOK
  BY DEF IInv
<1>2. QED  BY <1>1, InvariantHolds, PTL

\* cleanup leaves no call under way in a message that is complete: an open part
\* is registered until the registry is emptied, and cleanup closes what is.
THEOREM NothingLeftOpenHolds == ToolsSpec => []NothingLeftOpen
<1>1. IInv => NothingLeftOpen
  BY DEF IInv, NothingLeftOpen, OpenIsRegistered, Keys
<1>2. QED  BY <1>1, InvariantHolds, PTL

\* No step of the session or of a tool writes over a settled part: completing
\* and failing look at the status, cleanup and the stream at the registry.
THEOREM VerdictsStandHolds == ToolsSpec => VerdictsStand
<1> DEFINE Stands == \A p \in Keys : part[p] \in Closed => part'[p] = part[p]
<1>1. ASSUME IInv, [ToolsNext]_toolVars PROVE Stands
  <2>1. SUFFICES ASSUME NEW c \in Calls, NEW k \in Attempts, part[<<c, k>>] \in Closed
                 PROVE  part'[<<c, k>>] = part[<<c, k>>]
    BY DEF Keys
  <2>2. part[<<c, k>>] # "none" /\ part[<<c, k>>] \notin Open
    BY <2>1 DEF Closed, Open
  <2>3. toolcalls[c] = k => (fiber = "closing" /\ c \notin left /\ part[<<c, k>>] = "error")
    BY <1>1, <2>2 DEF IInv, RegisteredIsOpen, Attempts
  <2>4. \A d \in Calls, status \in Closed : SettleAs(d, status) => part'[<<c, k>>] = part[<<c, k>>]
    BY <1>1, <2>2, <2>3 DEF SettleAs, Reads, PartOf, Open, IInv, ToolTypeOK, Keys
  <2>5. ASSUME NEW d \in Calls, HearStart(d) PROVE part'[<<c, k>>] = part[<<c, k>>]
    BY <1>1, <2>2, <2>3, <2>5 DEF HearStart, Registered, IInv, ToolTypeOK, NewIsFresh, Keys, Attempts
  <2>6. ASSUME NEW d \in Calls, HearCall(d) PROVE part'[<<c, k>>] = part[<<c, k>>]
    BY <1>1, <2>3, <2>6 DEF HearCall, PartOf, IInv, ToolTypeOK, Keys
  <2>7. ASSUME NEW d \in Calls, CloseCall(d) PROVE part'[<<c, k>>] = part[<<c, k>>]
    BY <1>1, <2>3, <2>7 DEF CloseCall, PartOf, IInv, ToolTypeOK, Keys
  <2>8. ASSUME NEW r \in Keys, Metadata(r) PROVE part'[<<c, k>>] = part[<<c, k>>]
    BY <1>1, <2>2, <2>8 DEF Metadata, Reads, PartOf, Open, IInv, ToolTypeOK, Keys
  <2>9. CASE EventStep
    <3>1. CASE \E d \in Calls : HearStart(d) \/ HearCall(d)
      BY <3>1, <2>5, <2>6, Zenon
    <3>2. CASE \E d \in Calls : HearResult(d) \/ HearError(d)
      BY <3>2, <2>4 DEF HearResult, HearError, Closed
    <3>3. CASE GoOn \/ StreamEnds \/ Halt \/ BackOff \/ Retry \/ Abort
      BY <3>3 DEF GoOn, StreamEnds, Halt, BackOff, Retry, Abort
    <3>4. QED  BY <2>9, <3>1, <3>2, <3>3, Zenon DEF EventStep
  <2>10. CASE CleanupStep
    BY <2>10, <2>7 DEF CleanupStep, SettleRunning, EndCleanup
  <2>11. CASE ToolStep
    <3>1. CASE \E r \in Keys : Finish(r)
      BY <3>1, <2>4 DEF Finish, Closed, Keys
    <3>2. QED  BY <2>11, <2>8, <3>1 DEF ToolStep, Execute, Answered, Fail
  <2>12. QED  BY <1>1, <2>9, <2>10, <2>11 DEF ToolsNext, toolVars
<1>2. QED  BY <1>1, InvariantHolds, PTL DEF ToolsSpec, VerdictsStand

\* A rejection that was heard in the last attempt keeps process from returning
\* "continue", where the id of the call is not one of an earlier attempt.
THEOREM RejectionsStopHolds == ToolsSpec => []RejectionsStop
<1>1. ASSUME IInv PROVE RejectionsStop
  <2>1. SUFFICES ASSUME BreakOnReject, NEW c \in Calls, UsedOnce(c),
                        run[Current(c)] = "rejected", heard[c] = "answered"
                 PROVE  Outcome # "continue"
    BY Zenon DEF RejectionsStop
  <2>2. attempt \in Attempts /\ UsedIn(c, attempt)
    BY <1>1, <2>1 DEF IInv, ToolTypeOK, UsedIn, Current
  <2>3. OnlyNow(c)
    BY <2>1, <2>2 DEF UsedOnce, OnlyNow
  <2>4. blocked
    BY <1>1, <2>1, <2>3 DEF IInv, RejectionIsKept, Current
  <2>5. QED  BY <2>4 DEF Outcome
<1>2. QED  BY <1>1, InvariantHolds, PTL
=============================================================================
