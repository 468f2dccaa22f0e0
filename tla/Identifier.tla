----------------------------- MODULE Identifier -----------------------------
(***************************************************************************)
(* The ids of id/id.ts: the time in milliseconds and a counter, in the 48  *)
(* bits that are kept of them, and then random characters, left out here.  *)
(* What ids are compared for is their order, as in "which message is       *)
(* newer", and the time that can be read back from them, by which          *)
(* tool/truncate.ts cleans the outputs up that it has stored.  One         *)
(* process; its clock may be set back.                                     *)
(***************************************************************************)
EXTENDS Naturals, Sequences

CONSTANTS
    PerTick,    \* numbers there are to a tick of the clock: 4096 to a millisecond
    Wrap,       \* ticks until the bits that are kept start over: 2^36
    Retention,  \* ticks an output is kept
    MaxClock,   \* bound on the clock
    MaxGiven,   \* bound on the ids given out
    MaxBacks,   \* bound on the times the clock is set back
    MaxCleanups \* bound on the cleanups

ASSUME IdentifierAssumption ==
    /\ PerTick \in Nat \ {0} /\ Wrap \in Nat \ {0}
    /\ Retention \in Nat /\ MaxClock \in Nat /\ MaxGiven \in Nat
    /\ MaxBacks \in Nat /\ MaxCleanups \in Nat

VARIABLES
    clock,          \* what Date.now() gives
    lastTimestamp,
    counter,
    outputs,        \* the directory of stored outputs: ids, with the time they were stored
    cleaner,        \* how far the cleanup is: its cutoff, and what it has listed
    given,          \* every id given out, in order (history)
    backs,          \* how often the clock was set back (history)
    cleanups        \* how many cleanups have begun (history)

idVars == <<clock, lastTimestamp, counter, outputs, cleaner, given, backs, cleanups>>

AtRest == [at |-> "rest", cutoff |-> 0, listed |-> {}]

IdInit ==
    /\ clock = Retention
    /\ lastTimestamp = 0 /\ counter = 0
    /\ outputs = {} /\ cleaner = AtRest
    /\ given = <<>> /\ backs = 0 /\ cleanups = 0

-----------------------------------------------------------------------------
\* As Number, not counting the ids of one time.
NumberOnce(time) == IF time # lastTimestamp THEN 1 ELSE counter

\* Ids of one time are counted; another time starts the count over.
Number(time) == IF time # lastTimestamp THEN 1 ELSE counter + 1

\* The bits that are kept; those of a descending id are inverted.
Space == Wrap * PerTick
Encode(time, n, descending) ==
    LET now == (time * PerTick + n) % Space IN
    IF descending THEN Space - 1 - now ELSE now

\* The time that timestamp() reads from an ascending id.
Timestamp(id) == id \div PerTick

\* create: the state that all ids of the process share.
Remember(time) ==
    /\ lastTimestamp' = time
    /\ counter'       = Number(time)

\* A new id, that names an output when one is stored.
Give(descending, stored) ==
    LET id == Encode(clock, Number(clock), descending) IN
    /\ Len(given) < MaxGiven
    /\ Remember(clock)
    /\ given' = Append(given, [id |-> id, descending |-> descending, time |-> clock,
                               number |-> Number(clock), backs |-> backs, cleanups |-> cleanups])
    /\ outputs' = IF stored THEN outputs \cup {[id |-> id, time |-> clock]} ELSE outputs
    /\ UNCHANGED <<clock, cleaner, backs, cleanups>>

\* ToolID.ascending() of an output that is stored, other ids, and those of sessions.
Store      == Give(FALSE, TRUE)
Ascending  == Give(FALSE, FALSE)
Descending == Give(TRUE, FALSE)

-----------------------------------------------------------------------------
(* The cleanup of every hour: it makes an id of the time of the cutoff, and *)
(* awaits the listing and each removal, either of which may fail.           *)

CleanupBegins ==
    /\ cleaner.at = "rest" /\ cleanups < MaxCleanups
    /\ LET time == clock - Retention IN
       /\ Remember(time)
       /\ cleaner' = [at |-> "list", listed |-> {},
                      cutoff |-> Timestamp(Encode(time, Number(time), FALSE))]
    /\ cleanups' = cleanups + 1
    /\ UNCHANGED <<clock, outputs, given, backs>>

CleanupLists ==
    /\ cleaner.at = "list"
    /\ \E found \in {outputs, {}} :
          cleaner' = [cleaner EXCEPT !.at = "remove", !.listed = found]
    /\ UNCHANGED <<clock, lastTimestamp, counter, outputs, given, backs, cleanups>>

CleanupRemoves ==
    /\ cleaner.at = "remove"
    /\ \E entry \in cleaner.listed :
          /\ cleaner' = [cleaner EXCEPT !.listed = @ \ {entry}]
          /\ \/ Timestamp(entry.id) < cleaner.cutoff /\ outputs' = outputs \ {entry}
             \/ UNCHANGED outputs
    /\ UNCHANGED <<clock, lastTimestamp, counter, given, backs, cleanups>>

CleanupEnds ==
    /\ cleaner.at = "remove" /\ cleaner.listed = {}
    /\ cleaner' = AtRest
    /\ UNCHANGED <<clock, lastTimestamp, counter, outputs, given, backs, cleanups>>

Cleanup == CleanupBegins \/ CleanupLists \/ CleanupRemoves \/ CleanupEnds

Tick ==
    /\ clock < MaxClock
    /\ clock' = clock + 1
    /\ UNCHANGED <<lastTimestamp, counter, outputs, cleaner, given, backs, cleanups>>

SetBack ==
    /\ backs < MaxBacks /\ clock > Retention
    /\ clock' = clock - 1
    /\ backs' = backs + 1
    /\ UNCHANGED <<lastTimestamp, counter, outputs, cleaner, given, cleanups>>

IdNext == Store \/ Ascending \/ Descending \/ Cleanup \/ Tick \/ SetBack

IdSpec == IdInit /\ [][IdNext]_idVars

-----------------------------------------------------------------------------
\* Between the two ids the bits started over, or the clock was set back, or a
\* cleanup started the count of their millisecond over, or the earlier was past
\* the last number of its millisecond.
OutOfOrder(a, b) ==
    \/ a.time \div Wrap # b.time \div Wrap
    \/ a.backs # b.backs
    \/ a.time = b.time /\ a.cleanups # b.cleanups
    \/ a.number >= PerTick \/ b.number >= PerTick

\* An id is greater than every earlier one of its process, and a descending one
\* is smaller, apart from the four cases of OutOfOrder: it is by ids that the
\* prompt loop tells whether a prompt has been answered, and a revert which
\* messages go.
IdsRise ==
    \A i, j \in DOMAIN given :
        LET a == given[i]
            b == given[j]
        IN  i < j /\ a.descending = b.descending =>
               \/ IF a.descending THEN b.id < a.id ELSE a.id < b.id
               \/ OutOfOrder(a, b)

\* An output that is stored stays for as long as outputs are retained.
OutputsStay == [][\A entry \in outputs \ outputs' : entry.time + Retention <= clock]_idVars
=============================================================================
