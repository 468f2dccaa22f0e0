----------------------------- MODULE SyncEvent -----------------------------
(***************************************************************************)
(* Event sourcing of sessions (sync/index.ts) over the transactions of     *)
(* storage/db.ts and the projectors of session/projectors.ts.              *)
(*                                                                         *)
(* Processes share databases: the writers run events, remove sessions and  *)
(* have one database between them, the followers replay events into        *)
(* databases of their own.  One action is one transaction of the code, or  *)
(* one read outside a transaction; a process is single-threaded, so its    *)
(* own steps between two awaits are not interleaved, and other processes   *)
(* may come in between any two of its transactions.  Replay is given any   *)
(* event ever run, in any order and any number of times.                   *)
(*                                                                         *)
(* Nothing keeps a fiber from writing to a session that was removed, or    *)
(* from removing it once more: what a transaction looks at is the row of   *)
(* the session at most, and that only when it updates it.  The numbers of  *)
(* such a session start over.                                              *)
(***************************************************************************)
EXTENDS Integers, Sequences

CONSTANTS
    Dbs,        \* databases
    Procs,      \* processes
    DbOf,       \* the database of each process
    Writers,    \* the processes that run events
    Sessions,   \* aggregates
    Nothing,    \* no session
    Recording,  \* the flag HDP_EXPERIMENTAL_WORKSPACES
    MaxEvents   \* bound on the number of events run

ASSUME SyncAssumption ==
    /\ DbOf \in [Procs -> Dbs]
    /\ Writers \subseteq Procs
    /\ Nothing \notin Sessions
    /\ Recording \in BOOLEAN
    /\ MaxEvents \in Nat

\* One device writes: the writers share a database, and nobody else has it.
ASSUME OneWriterAssumption ==
    \A w \in Writers, p \in Procs : DbOf[p] = DbOf[w] <=> p \in Writers

Followers   == Procs \ Writers
WriterDbs   == {DbOf[w] : w \in Writers}
FollowerDbs == {DbOf[f] : f \in Followers}

VARIABLES
    latest,     \* event_sequence: the last seq of each aggregate, -1 without a row
    log,        \* event: the rows of each aggregate, in the order of insertion
    row,        \* session, and the part written last, as the projectors left them
    written,    \* every event run, in order of commit (a history variable)
    ids,        \* the last event id given out
    step,       \* where each process is between two transactions
    event,      \* the event a follower replays
    removals,   \* the sessions that removals of a process have read
    doomed      \* the session a process has deleted, and whose log it erases next

dbVars   == <<latest, log, row>>
procVars == <<step, event, removals, doomed>>
syncVars == <<dbVars, written, ids, procVars>>

Types == {"created", "updated", "part", "unpart", "deleted"}
Ids   == 1..MaxEvents
Event == [id : Ids, seq : Nat, agg : Sessions, type : Types]
Row   == [info : {0} \cup Ids, part : {0} \cup Ids]

NoEvent == [id |-> 0]
NoRow   == [info |-> 0, part |-> 0]

Exists(d, s) == row[d][s] # NoRow

SyncInit ==
    /\ latest  = [d \in Dbs |-> [s \in Sessions |-> -1]]
    /\ log     = [d \in Dbs |-> [s \in Sessions |-> <<>>]]
    /\ row     = [d \in Dbs |-> [s \in Sessions |-> NoRow]]
    /\ written = [s \in Sessions |-> <<>>]
    /\ ids     = 0
    /\ step    = [p \in Procs |-> "free"]
    /\ event   = [p \in Procs |-> NoEvent]
    /\ removals = [p \in Procs |-> {}]
    /\ doomed  = [p \in Procs |-> Nothing]

-----------------------------------------------------------------------------
(* One event in one database.                                              *)

\* As NextSeq, the number of the last event.
NextSeqLast(d, s) == latest[d][s]

\* The number of the next event: 0 when the aggregate has no row.
NextSeq(d, s) == latest[d][s] + 1

\* As Project, without the foreign key from a part to its session.
ProjectLate(r, e) ==
    CASE e.type \in {"created", "updated"} -> [r EXCEPT !.info = e.id]
      [] e.type = "part"    -> [r EXCEPT !.part = e.id]
      [] e.type = "unpart"  -> [r EXCEPT !.part = 0]
      [] e.type = "deleted" -> NoRow

\* As Project, keeping the part of a session that is deleted.
ProjectLeaving(r, e) ==
    CASE e.type \in {"created", "updated"} -> [r EXCEPT !.info = e.id]
      [] e.type = "part"    -> IF r = NoRow THEN r ELSE [r EXCEPT !.part = e.id]
      [] e.type = "unpart"  -> [r EXCEPT !.part = 0]
      [] e.type = "deleted" -> [r EXCEPT !.info = 0]

\* The projectors: messages and parts go with their session, and the part of a
\* session that is gone is ignored.
Project(r, e) ==
    CASE e.type \in {"created", "updated"} -> [r EXCEPT !.info = e.id]
      [] e.type = "part"    -> IF r = NoRow THEN r ELSE [r EXCEPT !.part = e.id]
      [] e.type = "unpart"  -> [r EXCEPT !.part = 0]
      [] e.type = "deleted" -> NoRow

\* A session is created once and updated only while it is there.
ProjectorFails(r, e) ==
    \/ e.type = "created" /\ r # NoRow
    \/ e.type = "updated" /\ r = NoRow

\* The id is a primary key of the event table.
Logged(d, e) == \E i \in DOMAIN log[d][e.agg] : log[d][e.agg][i].id = e.id

\* A throw in the transaction rolls everything back.
Throws(d, e) == ProjectorFails(row[d][e.agg], e) \/ (Recording /\ Logged(d, e))

\* The upsert of the number and the row of the event.
Record(d, e) ==
    /\ latest' = [latest EXCEPT ![d][e.agg] = e.seq]
    /\ log'    = [log EXCEPT ![d][e.agg] = Append(@, e)]

\* The transaction of process commits; its effects run next, before the process
\* does anything else.
Commit(d, e) ==
    /\ ~Throws(d, e)
    /\ row' = [row EXCEPT ![d][e.agg] = Project(@, e)]
    /\ IF Recording THEN Record(d, e) ELSE UNCHANGED <<latest, log>>

-----------------------------------------------------------------------------
(* The writers.                                                            *)

\* The event a writer runs next: its number is read in the same transaction.
NewEvent(d, s, t) == [id |-> ids + 1, seq |-> NextSeq(d, s), agg |-> s, type |-> t]

Run(p, s, t) ==
    LET e == NewEvent(DbOf[p], s, t) IN
    /\ ids < MaxEvents
    /\ ids' = ids + 1
    /\ Commit(DbOf[p], e)
    /\ written' = [written EXCEPT ![s] = Append(@, e)]

\* createNext: the session's id is new.
Create(p, s) ==
    /\ step[p] # "deleted" /\ written[s] = <<>>
    /\ Run(p, s, "created")
    /\ UNCHANGED procVars

\* patch, updateMessage, updatePart, removeMessage, removePart, of whoever knows the id
\* of the session, whether it is still there or not.
Write(p, s, t) ==
    /\ step[p] # "deleted" /\ written[s] # <<>>
    /\ Run(p, s, t)
    /\ UNCHANGED procVars

\* remove reads the session, and awaits.  Any number of removals may get as far.
RemoveGet(p, s) ==
    /\ step[p] = "free" /\ Exists(DbOf[p], s)
    /\ removals' = [removals EXCEPT ![p] = @ \cup {s}]
    /\ UNCHANGED <<dbVars, written, ids, step, event, doomed>>

\* The transaction of Deleted, of one of the removals that have read the session: there
\* may be others, and this one does not look whether the session is still there.
RemoveRun(p, s) ==
    /\ step[p] = "free" /\ s \in removals[p]
    /\ Run(p, s, "deleted")
    /\ step' = [step EXCEPT ![p] = "deleted"]
    /\ doomed' = [doomed EXCEPT ![p] = s]
    /\ \E more \in {{}, {s}} : removals' = [removals EXCEPT ![p] = (@ \ {s}) \cup more]
    /\ UNCHANGED event

EraseLog(d, s) ==
    /\ latest' = [latest EXCEPT ![d][s] = -1]
    /\ log'    = [log EXCEPT ![d][s] = <<>>]

\* The transaction of SyncEvent.remove, at once after that of Deleted.
RemoveLog(p) ==
    /\ step[p] = "deleted"
    /\ EraseLog(DbOf[p], doomed[p])
    /\ step'   = [step EXCEPT ![p] = "free"]
    /\ doomed' = [doomed EXCEPT ![p] = Nothing]
    /\ UNCHANGED <<row, written, ids, event, removals>>

-----------------------------------------------------------------------------
(* The followers.                                                          *)

\* As Expected, accepting events that leave a gap.
ExpectedLater(d, e) == e.seq >= NextSeq(d, e.agg)

\* As Expected, ignoring aggregates without a row.
ExpectedKnown(d, e) == latest[d][e.agg] >= 0 /\ e.seq = NextSeq(d, e.agg)

\* Older events are ignored, later ones refused with "Sequence mismatch".
Expected(d, e) == e.seq = NextSeq(d, e.agg)

\* replay reads the last number outside the transaction.
ReplayRead(f, e) ==
    /\ step[f] = "free"
    /\ Expected(DbOf[f], e)
    /\ step'  = [step EXCEPT ![f] = "replaying"]
    /\ event' = [event EXCEPT ![f] = e]
    /\ UNCHANGED <<dbVars, written, ids, removals, doomed>>

ReplayCommit(f) ==
    /\ step[f] = "replaying"
    /\ \/ Commit(DbOf[f], event[f])
       \/ Throws(DbOf[f], event[f]) /\ UNCHANGED dbVars
    /\ step'  = [step EXCEPT ![f] = "free"]
    /\ event' = [event EXCEPT ![f] = NoEvent]
    /\ UNCHANGED <<written, ids, removals, doomed>>

\* A process dies between two transactions and is started again.
Killed(p) ==
    /\ step[p] # "free" \/ removals[p] # {}
    /\ step'   = [step EXCEPT ![p] = "free"]
    /\ event'  = [event EXCEPT ![p] = NoEvent]
    /\ removals' = [removals EXCEPT ![p] = {}]
    /\ doomed' = [doomed EXCEPT ![p] = Nothing]
    /\ UNCHANGED <<dbVars, written, ids>>

-----------------------------------------------------------------------------
WriterNext ==
    \E p \in Writers :
        \/ \E s \in Sessions : Create(p, s) \/ RemoveGet(p, s) \/ RemoveRun(p, s)
        \/ \E s \in Sessions, t \in {"updated", "part", "unpart"} : Write(p, s, t)
        \/ RemoveLog(p)

\* Any event ever run may reach a follower, at any time.
FollowerNext ==
    \E f \in Followers :
        \/ \E s \in Sessions : \E i \in DOMAIN written[s] : ReplayRead(f, written[s][i])
        \/ ReplayCommit(f)

SyncNext == WriterNext \/ FollowerNext \/ \E p \in Procs : Killed(p)

SyncSpec == SyncInit /\ [][SyncNext]_syncVars

-----------------------------------------------------------------------------
\* The types of the variables.
EventTypeOK ==
    /\ latest  \in [Dbs -> [Sessions -> Nat \cup {-1}]]
    /\ log     \in [Dbs -> [Sessions -> Seq(Event)]]
    /\ row     \in [Dbs -> [Sessions -> Row]]
    /\ written \in [Sessions -> Seq(Event)]
    /\ ids     \in 0..MaxEvents
    /\ step    \in [Procs -> {"free", "deleted", "replaying"}]
    /\ event   \in [Procs -> Event \cup {NoEvent}]
    /\ removals \in [Procs -> SUBSET Sessions]
    /\ doomed  \in [Procs -> Sessions \cup {Nothing}]

\* On the device that writes, whatever is run late or twice, and whichever process runs
\* it: the log of a session is what was run since it was erased last, in that order and
\* without exception, its events numbered from 0, and event_sequence has the last number.
LogIsWhole ==
    \A d \in WriterDbs, s \in Sessions :
        LET l == log[d][s]
            w == written[s]
        IN  /\ latest[d][s] = Len(l) - 1 /\ Len(l) <= Len(w)
            /\ \A i \in DOMAIN l : l[i].seq = i - 1 /\ l[i] = w[Len(w) - Len(l) + i]

\* The numbers of a session have started over.
Renumbered(s) == \E i \in DOMAIN written[s] : written[s][i].seq # i - 1

\* Two databases that are at the same number of a session show the same session, as long
\* as its numbers have not started over.
CopiesAgree ==
    \A c, d \in Dbs, s \in Sessions :
        ~Renumbered(s) /\ latest[c][s] = latest[d][s] /\ latest[c][s] >= 0 => row[c][s] = row[d][s]

\* The position of the last event of a log among those of some types, or 0.
Of(l, T)   == {i \in DOMAIN l : l[i].type \in T}
Last(l, T) == CHOOSE i \in Of(l, T) \cup {0} : \A j \in Of(l, T) : j <= i

\* What a log says about its session: nothing unless it was created and not deleted since,
\* else the last info, and the last part since then that was not removed.
Shown(l) ==
    LET born == Last(l, {"created"})
        info == Last(l, {"created", "updated"})
        part == Last(l, {"part", "unpart"})
    IN  IF born <= Last(l, {"deleted"}) THEN NoRow
        ELSE [info |-> l[info].id,
              part |-> IF part < born \/ l[part].type = "unpart" THEN 0 ELSE l[part].id]

\* The tables of every database are what its log says, also when the log mixes what was
\* written before and after the session was removed: no projection without its event, no
\* event without its projection, none projected twice, and what comes too late or too early
\* for its session is projected nowhere.
TablesFollowLog ==
    \A d \in Dbs, s \in Sessions : row[d][s] = Shown(log[d][s])

\* The device that writes shows nothing of a session that was removed, whatever fibers
\* that do not know of it still write to it, and however often it is removed.
GoneStaysGone ==
    \A d \in WriterDbs, s \in Sessions :
        (\E i \in DOMAIN written[s] : written[s][i].type = "deleted") => row[d][s] = NoRow

-----------------------------------------------------------------------------
\* Replay keeps every follower's log a prefix of what was written, unless the numbers of
\* the session have started over.
Copies == INSTANCE LogCopies WITH
    Followers <- FollowerDbs,
    log       <- written,
    copy      <- [d \in FollowerDbs |-> log[d]]

\* The followers' databases implement the abstract log and its copies.
IsLogCopies == Copies!Spec

-----------------------------------------------------------------------------
(* What the repository says of events and the code does not keep: TLC      *)
(* refutes both.                                                           *)

\* The order is total: the events of a session are numbered 0, 1, 2, ... in the
\* order in which they were run, for good (sync/README.md:33).
TotalOrder ==
    \A s \in Sessions : \A i \in DOMAIN written[s] : written[s][i].seq = i - 1

\* The history of a session that was removed stays removed: the route that deletes a
\* session is to "permanently remove all associated data" (server/instance/session.ts:222).
ErasedStaysErased ==
    [][\A d \in WriterDbs, s \in Sessions :
          log[d][s] = <<>> /\ written[s] # <<>> => log'[d][s] = <<>>]_syncVars
=============================================================================
