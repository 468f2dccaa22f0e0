--------------------------- MODULE SyncEventProofs ---------------------------
(***************************************************************************)
(* Proofs about SyncEvent, for any devices, processes and sessions, while  *)
(* events are recorded.  The inductive invariant IInv says how each log    *)
(* relates to what was written, and what a follower between its read and   *)
(* its transaction may still rely on, although others have moved the log   *)
(* on in between.  What it says of a follower's log holds only as long as  *)
(* the numbers of the session have not started over.                       *)
(***************************************************************************)
EXTENDS SyncEvent, TLAPS

\* There is a last event of some types in a log, or none.
HasLast(l, T) == \E i \in Of(l, T) \cup {0} : \A j \in Of(l, T) : j <= i

Lasting(l) == \A T \in SUBSET Types : HasLast(l, T)

Lasts == \A d \in Dbs, s \in Sessions : Lasting(log[d][s])

\* What is written of a session is about that session.
Owned == \A s \in Sessions : \A i \in DOMAIN written[s] : written[s][i].agg = s

\* A follower's log is a prefix of what was written, and event_sequence its length.
FollowerLog ==
    \A d \in FollowerDbs, s \in Sessions : ~Renumbered(s) =>
        /\ latest[d][s] = Len(log[d][s]) - 1
        /\ Len(log[d][s]) <= Len(written[s])
        /\ \A i \in 1..Len(log[d][s]) : log[d][s][i] = written[s][i]

\* The event was written, and is in the log of the database or comes next.
Current(d, e) ==
    /\ e \in Event
    /\ \E i \in DOMAIN written[e.agg] : written[e.agg][i] = e
    /\ ~Renumbered(e.agg) => e.seq <= Len(log[d][e.agg])

Replaying ==
    \A p \in Procs : step[p] = "replaying" => p \in Followers /\ Current(DbOf[p], event[p])

\* A process that erases a log next has run the Deleted of its session.
Gone(s) == \E i \in DOMAIN written[s] : written[s][i].type = "deleted"

Removing ==
    \A p \in Procs : step[p] = "deleted" =>
        p \in Writers /\ doomed[p] \in Sessions /\ Gone(doomed[p])

DbInv == /\ Lasts /\ TablesFollowLog
         /\ LogIsWhole /\ GoneStaysGone /\ Owned /\ FollowerLog

IInv == EventTypeOK /\ DbInv /\ Replaying /\ Removing

-----------------------------------------------------------------------------
(* Logs and what they show.                                                *)

\* The elements of a log with one event more.
LEMMA AppendFacts ==
    ASSUME NEW l \in Seq(Event), NEW e \in Event
    PROVE  /\ Append(l, e) \in Seq(Event)
           /\ Len(Append(l, e)) = Len(l) + 1
           /\ Len(l) \in Nat
           /\ \A i \in 1..Len(l) : Append(l, e)[i] = l[i]
           /\ Append(l, e)[Len(l) + 1] = e
           /\ DOMAIN Append(l, e) = 1..(Len(l) + 1)
           /\ DOMAIN l = 1..Len(l)
           /\ Append(l, e) # <<>>
  OBVIOUS

\* Where the last event of some types is.
LEMMA LastFacts ==
    ASSUME NEW l \in Seq(Event), NEW T, HasLast(l, T)
    PROVE  /\ Last(l, T) \in 0..Len(l)
           /\ Last(l, T) # 0 => l[Last(l, T)] \in Event /\ l[Last(l, T)].type \in T
           /\ \A j \in 1..Len(l) : l[j].type \in T => j <= Last(l, T)
  <1> DEFINE m == Last(l, T)
  <1>1. m \in Of(l, T) \cup {0} /\ \A j \in Of(l, T) : j <= m
    BY DEF HasLast, Last
  <1>2. Of(l, T) \subseteq 1..Len(l) /\ DOMAIN l = 1..Len(l) /\ Len(l) \in Nat
    BY DEF Of
  <1>3. m \in 0..Len(l)
    BY <1>1, <1>2
  <1>4. \A j \in 1..Len(l) : l[j].type \in T => j <= m
    BY <1>1, <1>2 DEF Of
  <1>5. m # 0 => m \in 1..Len(l) /\ l[m].type \in T
    BY <1>1, <1>2 DEF Of
  <1> HIDE DEF m
  <1>6. m # 0 => l[m] \in Event
    BY <1>5
  <1> QED
    BY <1>3, <1>4, <1>5, <1>6 DEF m

\* It is the new one when that is of these types.
LEMMA LastOfHit ==
    ASSUME NEW l \in Seq(Event), NEW e \in Event, NEW T, e.type \in T
    PROVE  HasLast(Append(l, e), T) /\ Last(Append(l, e), T) = Len(l) + 1
  <1> DEFINE a == Append(l, e)
             S == Of(a, T)
  <1>1. DOMAIN a = 1..(Len(l) + 1) /\ a[Len(l) + 1] = e /\ Len(l) \in Nat
    BY AppendFacts
  <1>2. Len(l) + 1 \in S /\ \A j \in S : j <= Len(l) + 1 /\ j \in Nat
    BY <1>1 DEF Of
  <1> HIDE DEF S
  <1>3. \A i \in S \cup {0} : (\A j \in S : j <= i) => i = Len(l) + 1
    BY <1>1, <1>2
  <1>4. (CHOOSE i \in S \cup {0} : \A j \in S : j <= i) = Len(l) + 1
    BY <1>2, <1>3
  <1> QED
    BY <1>2, <1>4 DEF Last, HasLast, S

\* ... and the same as before when it is not.
LEMMA LastOfMiss ==
    ASSUME NEW l \in Seq(Event), NEW e \in Event, NEW T, e.type \notin T
    PROVE  /\ HasLast(l, T) => HasLast(Append(l, e), T)
           /\ Last(Append(l, e), T) = Last(l, T)
  <1>1. Of(Append(l, e), T) = Of(l, T)
    BY AppendFacts DEF Of
  <1> QED
    BY <1>1 DEF Last, HasLast

LEMMA LastingAppend ==
    ASSUME NEW l \in Seq(Event), NEW e \in Event, Lasting(l)
    PROVE  Lasting(Append(l, e))
  BY LastOfHit, LastOfMiss DEF Lasting

\* The empty log shows nothing.
LEMMA EmptyShows ==
    Lasting(<<>>) /\ Shown(<<>>) = NoRow /\ <<>> \in Seq(Event)
  <1>1. \A T : Of(<<>>, T) = {}
    BY DEF Of
  <1>2. \A T : HasLast(<<>>, T) /\ Last(<<>>, T) = 0
    BY <1>1 DEF HasLast, Last
  <1> QED
    BY <1>2 DEF Lasting, Shown

Born(l) == Last(l, {"created"})
Died(l) == Last(l, {"deleted"})
Info(l) == Last(l, {"created", "updated"})
Part(l) == Last(l, {"part", "unpart"})

\* What a log shows, by the places of its last events of each kind.
LEMMA ShownFacts ==
    ASSUME NEW l \in Seq(Event), Lasting(l)
    PROVE  /\ Born(l) \in 0..Len(l) /\ Died(l) \in 0..Len(l)
           /\ Info(l) \in 0..Len(l) /\ Part(l) \in 0..Len(l)
           /\ Born(l) <= Died(l) => Shown(l) = NoRow
           /\ Born(l) > Died(l) =>
                 /\ Info(l) \in 1..Len(l) /\ l[Info(l)].id # 0 /\ Shown(l) # NoRow
                 /\ Shown(l) = [info |-> l[Info(l)].id,
                                part |-> IF Part(l) < Born(l) \/ l[Part(l)].type = "unpart" THEN 0
                                         ELSE l[Part(l)].id]
  <1> DEFINE C == {"created"}
             D == {"deleted"}
             I == {"created", "updated"}
             P == {"part", "unpart"}
  <1>1. HasLast(l, C) /\ HasLast(l, D) /\ HasLast(l, I) /\ HasLast(l, P)
    BY DEF Lasting, Types
  <1>2. Born(l) \in 0..Len(l) /\ Died(l) \in 0..Len(l) /\ Info(l) \in 0..Len(l) /\ Part(l) \in 0..Len(l)
    BY <1>1, LastFacts DEF Born, Died, Info, Part
  <1>3. Born(l) <= Died(l) => Shown(l) = NoRow
    BY DEF Shown, Born, Died
  <1>4. ASSUME Born(l) > Died(l)
        PROVE  /\ Info(l) \in 1..Len(l) /\ l[Info(l)].id # 0
               /\ Shown(l) = [info |-> l[Info(l)].id,
                              part |-> IF Part(l) < Born(l) \/ l[Part(l)].type = "unpart" THEN 0
                                       ELSE l[Part(l)].id]
    <2>1. Born(l) \in 1..Len(l) /\ l[Born(l)].type = "created"
      BY <1>1, <1>2, <1>4, LastFacts DEF Born
    <2>2. Born(l) <= Info(l)
      BY <1>1, <2>1, LastFacts DEF Info
    <2>3. Info(l) \in 1..Len(l) /\ l[Info(l)] \in Event
      BY <1>2, <2>1, <2>2
    <2>4. l[Info(l)].id # 0
      BY <2>3 DEF Event, Ids
    <2>5. ~(Born(l) <= Died(l))
      BY <1>2, <1>4
    <2> QED
      BY <2>3, <2>4, <2>5 DEF Shown, Born, Died, Info, Part
  <1> QED
    BY <1>2, <1>3, <1>4 DEF NoRow

\* An event more shows what its projector makes of what was shown before, whatever the
\* log, if the projector does not throw.
LEMMA ShownAppend ==
    ASSUME NEW l \in Seq(Event), NEW e \in Event, Lasting(l), ~ProjectorFails(Shown(l), e)
    PROVE  Shown(Append(l, e)) = Project(Shown(l), e)
  <1> DEFINE a == Append(l, e)
  <1>0. /\ a \in Seq(Event) /\ Lasting(a) /\ e.type \in Types /\ Len(l) \in Nat
        /\ Len(a) = Len(l) + 1 /\ a[Len(l) + 1] = e
        /\ \A i \in 1..Len(l) : a[i] = l[i]
    BY AppendFacts, LastingAppend DEF Event
  <1> HIDE DEF a
  <1>c. Born(a) = IF e.type = "created" THEN Len(l) + 1 ELSE Born(l)
    BY LastOfHit, LastOfMiss DEF a, Born
  <1>d. Died(a) = IF e.type = "deleted" THEN Len(l) + 1 ELSE Died(l)
    BY LastOfHit, LastOfMiss DEF a, Died
  <1>i. Info(a) = IF e.type \in {"created", "updated"} THEN Len(l) + 1 ELSE Info(l)
    BY LastOfHit, LastOfMiss DEF a, Info
  <1>p. Part(a) = IF e.type \in {"part", "unpart"} THEN Len(l) + 1 ELSE Part(l)
    BY LastOfHit, LastOfMiss DEF a, Part
  <1>r. /\ Born(l) \in 0..Len(l) /\ Died(l) \in 0..Len(l)
        /\ Info(l) \in 0..Len(l) /\ Part(l) \in 0..Len(l)
    BY ShownFacts
  <1> DEFINE info == l[Info(l)].id
             part == IF Part(l) < Born(l) \/ l[Part(l)].type = "unpart" THEN 0 ELSE l[Part(l)].id
  <1>n. Born(l) <= Died(l) => Shown(l) = NoRow
    BY ShownFacts
  <1>s. Born(l) > Died(l) =>
            Info(l) \in 1..Len(l) /\ Shown(l) # NoRow /\ Shown(l) = [info |-> info, part |-> part]
    BY ShownFacts
  <1>1. CASE e.type = "created"
    <2>1. Shown(l) = NoRow
      BY <1>1 DEF ProjectorFails
    <2>2. /\ Born(a) > Died(a) /\ Info(a) = Len(l) + 1 /\ Part(a) < Born(a)
      BY <1>0, <1>1, <1>c, <1>d, <1>i, <1>p, <1>r
    <2>3. Shown(a) = [info |-> e.id, part |-> 0]
      BY <1>0, <2>2, ShownFacts
    <2> QED
      BY <1>1, <2>1, <2>3 DEF Project, NoRow, a
  <1>2. CASE e.type = "updated"
    <2>1. Shown(l) # NoRow /\ Born(l) > Died(l)
      BY <1>2, <1>n, <1>r DEF ProjectorFails
    <2>2. Born(a) > Died(a) /\ Info(a) = Len(l) + 1 /\ Part(a) = Part(l) /\ Born(a) = Born(l)
      BY <1>2, <1>c, <1>d, <1>i, <1>p, <2>1
    <2>3. ~(Part(l) < Born(l)) => a[Part(l)] = l[Part(l)]
      BY <1>0, <1>r, <2>1
    <2>4. Shown(a) = [info |-> e.id, part |-> part]
      BY <1>0, <2>2, <2>3, ShownFacts
    <2> QED
      BY <1>2, <1>s, <2>1, <2>4 DEF Project, a
  <1>3. CASE e.type \in {"part", "unpart"}
    <2>1. CASE Born(l) <= Died(l)
      <3>1. Shown(a) = NoRow
        BY <1>0, <1>3, <1>c, <1>d, <2>1, ShownFacts
      <3> QED
        BY <1>3, <1>n, <2>1, <3>1 DEF Project, NoRow, a
    <2>2. CASE Born(l) > Died(l)
      <3>1. /\ Born(a) > Died(a) /\ Info(a) = Info(l) /\ Part(a) = Len(l) + 1
            /\ ~(Part(a) < Born(a))
        BY <1>0, <1>3, <1>c, <1>d, <1>i, <1>p, <1>r, <2>2
      <3>2. a[Info(l)] = l[Info(l)]
        BY <1>0, <1>s, <2>2
      <3>3. Shown(a) = [info |-> info, part |-> IF e.type = "unpart" THEN 0 ELSE e.id]
        BY <1>0, <3>1, <3>2, ShownFacts
      <3> QED
        BY <1>3, <1>s, <2>2, <3>3 DEF Project, a
    <2> QED
      BY <1>r, <2>1, <2>2
  <1>4. CASE e.type = "deleted"
    <2>1. Shown(a) = NoRow
      BY <1>0, <1>4, <1>c, <1>d, <1>r, ShownFacts
    <2> QED
      BY <1>4, <2>1 DEF Project, a
  <1> QED
    BY <1>0, <1>1, <1>2, <1>3, <1>4 DEF Types

-----------------------------------------------------------------------------
(* What is written.                                                        *)

\* Who has which database.
LEMMA Devices ==
    /\ \A p \in Writers : DbOf[p] \in WriterDbs /\ p \in Procs /\ p \notin Followers
    /\ \A p \in Followers : DbOf[p] \in FollowerDbs /\ p \in Procs /\ p \notin Writers
    /\ WriterDbs \subseteq Dbs /\ FollowerDbs \subseteq Dbs
    /\ WriterDbs \cap FollowerDbs = {}
    /\ \A c, d \in WriterDbs : c = d
  BY SyncAssumption, OneWriterAssumption DEF WriterDbs, FollowerDbs, Followers

\* It only grows, and numbers that have started over stay so.
LEMMA Grows ==
    ASSUME written \in [Sessions -> Seq(Event)], NEW s \in Sessions, NEW e \in Event,
           written' = [written EXCEPT ![s] = Append(@, e)]
    PROVE  /\ written' \in [Sessions -> Seq(Event)]
           /\ written'[s] = Append(written[s], e)
           /\ \A u \in Sessions : u # s => written'[u] = written[u]
           /\ \A u \in Sessions : /\ DOMAIN written[u] \subseteq DOMAIN written'[u]
                                  /\ Len(written[u]) <= Len(written'[u])
                                  /\ \A i \in DOMAIN written[u] : written'[u][i] = written[u][i]
           /\ \A u \in Sessions : Renumbered(u) => Renumbered(u)'
           /\ \A u \in Sessions : Gone(u) => Gone(u)'
  <1>1. /\ written[s] \in Seq(Event) /\ written'[s] = Append(written[s], e)
        /\ \A u \in Sessions : u # s => written'[u] = written[u]
    OBVIOUS
  <1>2. ASSUME NEW u \in Sessions
        PROVE  /\ DOMAIN written[u] \subseteq DOMAIN written'[u]
               /\ Len(written[u]) <= Len(written'[u])
               /\ \A i \in DOMAIN written[u] : written'[u][i] = written[u][i]
    <2>1. CASE u = s
      BY <1>1, <2>1, AppendFacts
    <2>2. CASE u # s
      <3>1. written[u] \in Seq(Event)
        OBVIOUS
      <3> QED
        BY <1>1, <2>2, <3>1
    <2> QED
      BY <2>1, <2>2
  <1>3. written' \in [Sessions -> Seq(Event)]
    BY <1>1, AppendFacts
  <1>4. ASSUME NEW u \in Sessions, Renumbered(u) PROVE Renumbered(u)'
    BY <1>2, <1>4 DEF Renumbered
  <1>5. ASSUME NEW u \in Sessions, Gone(u) PROVE Gone(u)'
    BY <1>2, <1>5 DEF Gone
  <1> QED
    BY <1>1, <1>2, <1>3, <1>4, <1>5

\* Where an event stands, as long as the numbers have not started over.
LEMMA Place ==
    ASSUME IInv, NEW d, NEW e, Current(d, e), ~Renumbered(e.agg)
    PROVE  /\ e.seq \in Nat /\ e.seq + 1 \in 1..Len(written[e.agg])
           /\ written[e.agg][e.seq + 1] = e
  <1>1. e.agg \in Sessions /\ e.seq \in Nat
    BY DEF Current, Event
  <1>2. written[e.agg] \in Seq(Event)
    BY <1>1 DEF IInv, EventTypeOK
  <1>3. PICK i \in DOMAIN written[e.agg] : written[e.agg][i] = e
    BY DEF Current
  <1>4. i \in 1..Len(written[e.agg]) /\ i - 1 = e.seq
    BY <1>2, <1>3 DEF Renumbered
  <1>5. i = e.seq + 1
    BY <1>1, <1>4
  <1> QED
    BY <1>1, <1>3, <1>4, <1>5

-----------------------------------------------------------------------------
(* Every action keeps the invariant.                                       *)

LEMMA InitIInv == SyncInit => IInv
  <1> SUFFICES ASSUME SyncInit PROVE IInv
    OBVIOUS
  <1>1. EventTypeOK
    BY SyncAssumption DEF SyncInit, EventTypeOK, Row, NoRow, Ids
  <1>2. LogIsWhole /\ GoneStaysGone /\ Owned /\ FollowerLog
    BY Devices DEF SyncInit, LogIsWhole, GoneStaysGone, Owned, FollowerLog
  <1>3. Lasts /\ TablesFollowLog
    BY EmptyShows DEF SyncInit, Lasts, TablesFollowLog
  <1> QED
    BY <1>1, <1>2, <1>3 DEF SyncInit, IInv, DbInv, Replaying, Removing

\* One more event in a database: the part of the argument that a run and a
\* replay share.
LEMMA CommitDb ==
    ASSUME EventTypeOK, DbInv, Recording, NEW d \in Dbs, NEW e \in Event, Commit(d, e)
    PROVE  /\ latest' \in [Dbs -> [Sessions -> Nat \cup {-1}]]
           /\ log' \in [Dbs -> [Sessions -> Seq(Event)]]
           /\ row' \in [Dbs -> [Sessions -> Row]]
           /\ Lasts' /\ TablesFollowLog'
           /\ log'[d][e.agg] = Append(log[d][e.agg], e)
           /\ latest'[d][e.agg] = e.seq
           /\ row'[d][e.agg] = Project(row[d][e.agg], e)
           /\ \A c \in Dbs, s \in Sessions : c # d \/ s # e.agg =>
                 log'[c][s] = log[c][s] /\ row'[c][s] = row[c][s] /\ latest'[c][s] = latest[c][s]
           /\ \A c \in Dbs : c # d => log'[c] = log[c]
  <1> DEFINE s == e.agg
             l == log[d][s]
  <1>0. s \in Sessions /\ e.seq \in Nat /\ e.id \in Ids /\ e.type \in Types
    BY DEF Event
  <1>e. l \in Seq(Event) /\ row[d][s] \in Row /\ Lasting(l) /\ row[d][s] = Shown(l)
    BY <1>0 DEF DbInv, EventTypeOK, Lasts, TablesFollowLog
  <1>1. /\ latest' = [latest EXCEPT ![d][s] = e.seq]
        /\ log' = [log EXCEPT ![d][s] = Append(@, e)]
        /\ row' = [row EXCEPT ![d][s] = Project(@, e)]
        /\ ~ProjectorFails(row[d][s], e)
    BY DEF Commit, Record, Throws
  <1>2. Project(row[d][s], e) \in Row
    <2> DEFINE r == row[d][s]
    <2>1. r \in Row /\ NoRow \in Row
      BY <1>e DEF Row, NoRow
    <2>2. [r EXCEPT !.info = e.id] \in Row /\ [r EXCEPT !.part = e.id] \in Row
          /\ [r EXCEPT !.part = 0] \in Row
      BY <1>0, <1>e DEF Row
    <2> HIDE DEF r
    <2> QED
      BY <1>0, <2>1, <2>2 DEF Project, Types, r
  <1>3. /\ latest' \in [Dbs -> [Sessions -> Nat \cup {-1}]]
        /\ log' \in [Dbs -> [Sessions -> Seq(Event)]]
        /\ row' \in [Dbs -> [Sessions -> Row]]
    BY <1>0, <1>1, <1>2, AppendFacts DEF EventTypeOK
  <1>4. /\ log'[d][s] = Append(l, e) /\ latest'[d][s] = e.seq
        /\ row'[d][s] = Project(row[d][s], e)
    BY <1>0, <1>1 DEF EventTypeOK
  <1>5. \A c \in Dbs, t \in Sessions : c # d \/ t # s =>
            log'[c][t] = log[c][t] /\ row'[c][t] = row[c][t] /\ latest'[c][t] = latest[c][t]
    BY <1>0, <1>1 DEF EventTypeOK
  <1>6. \A c \in Dbs : c # d => log'[c] = log[c]
    BY <1>1 DEF EventTypeOK
  <1> HIDE DEF l, s
  <1>7. Shown(Append(l, e)) = Project(row[d][s], e) /\ Lasting(Append(l, e))
    BY <1>e, <1>1, ShownAppend, LastingAppend
  <1>8. Lasts' /\ TablesFollowLog'
    <2> SUFFICES ASSUME NEW c \in Dbs, NEW t \in Sessions
                 PROVE  Lasting(log'[c][t]) /\ row'[c][t] = Shown(log'[c][t])
      BY DEF Lasts, TablesFollowLog
    <2>1. CASE c = d /\ t = s
      BY <1>4, <1>7, <2>1
    <2>2. CASE c # d \/ t # s
      BY <1>5, <2>2 DEF DbInv, Lasts, TablesFollowLog
    <2> QED
      BY <2>1, <2>2
  <1> QED
    BY <1>3, <1>4, <1>5, <1>6, <1>8 DEF s, l

\* The writers' device runs an event, whatever the session has come to.
LEMMA RunDb ==
    ASSUME EventTypeOK, DbInv, Recording, NEW p \in Writers, NEW s \in Sessions, NEW t \in Types,
           Run(p, s, t), t = "created" => written[s] = <<>>
    PROVE  /\ latest' \in [Dbs -> [Sessions -> Nat \cup {-1}]]
           /\ log' \in [Dbs -> [Sessions -> Seq(Event)]]
           /\ row' \in [Dbs -> [Sessions -> Row]]
           /\ written' \in [Sessions -> Seq(Event)]
           /\ ids' \in 0..MaxEvents
           /\ DbInv'
           /\ \E e \in Event :
                 /\ e.agg = s /\ e.type = t /\ e.seq = Len(log[DbOf[p]][s])
                 /\ written' = [written EXCEPT ![s] = Append(@, e)]
           /\ \A d \in FollowerDbs : log'[d] = log[d]
  <1> DEFINE d == DbOf[p]
             e == NewEvent(d, s, t)
             l == log[d][s]
             w == written[s]
  <1>1. d \in WriterDbs /\ d \in Dbs /\ d \notin FollowerDbs /\ \A c \in WriterDbs : c = d
    BY Devices
  <1>2. /\ l \in Seq(Event) /\ w \in Seq(Event) /\ Len(l) \in Nat /\ Len(w) \in Nat
        /\ latest[d][s] = Len(l) - 1 /\ Len(l) <= Len(w)
        /\ \A i \in DOMAIN l : l[i].seq = i - 1 /\ l[i] = w[Len(w) - Len(l) + i]
    BY <1>1 DEF DbInv, EventTypeOK, LogIsWhole
  <1>3. e.id = ids + 1 /\ e.seq = Len(l) /\ e.agg = s /\ e.type = t
    BY <1>2 DEF NewEvent, NextSeq
  <1>4. ids + 1 \in Ids /\ ids' \in 0..MaxEvents
    BY SyncAssumption DEF Run, Ids, EventTypeOK
  <1>5. e \in Event
    BY <1>2, <1>4 DEF NewEvent, NextSeq, Event
  <1>6. Commit(d, e) /\ written' = [written EXCEPT ![s] = Append(@, e)]
    BY DEF Run
  <1> HIDE DEF e
  <1>7. /\ latest' \in [Dbs -> [Sessions -> Nat \cup {-1}]]
        /\ log' \in [Dbs -> [Sessions -> Seq(Event)]]
        /\ row' \in [Dbs -> [Sessions -> Row]]
        /\ Lasts' /\ TablesFollowLog'
        /\ log'[d][s] = Append(l, e) /\ latest'[d][s] = Len(l)
        /\ row'[d][s] = Project(row[d][s], e)
        /\ \A c \in Dbs, u \in Sessions : c # d \/ u # s =>
              log'[c][u] = log[c][u] /\ row'[c][u] = row[c][u] /\ latest'[c][u] = latest[c][u]
        /\ \A c \in Dbs : c # d => log'[c] = log[c]
    <2>1. /\ latest' \in [Dbs -> [Sessions -> Nat \cup {-1}]]
          /\ log' \in [Dbs -> [Sessions -> Seq(Event)]]
          /\ row' \in [Dbs -> [Sessions -> Row]]
          /\ Lasts' /\ TablesFollowLog'
          /\ log'[d][e.agg] = Append(log[d][e.agg], e)
          /\ latest'[d][e.agg] = e.seq
          /\ row'[d][e.agg] = Project(row[d][e.agg], e)
          /\ \A c \in Dbs, u \in Sessions : c # d \/ u # e.agg =>
                log'[c][u] = log[c][u] /\ row'[c][u] = row[c][u] /\ latest'[c][u] = latest[c][u]
          /\ \A c \in Dbs : c # d => log'[c] = log[c]
      <3> HIDE DEF d
      <3> QED
        BY <1>1, <1>5, <1>6, CommitDb
    <2> QED
      BY <1>3, <2>1
  <1>8. /\ written' \in [Sessions -> Seq(Event)]
        /\ written'[s] = Append(w, e)
        /\ \A u \in Sessions : u # s => written'[u] = written[u]
        /\ \A u \in Sessions : /\ DOMAIN written[u] \subseteq DOMAIN written'[u]
                               /\ Len(written[u]) <= Len(written'[u])
                               /\ \A i \in DOMAIN written[u] : written'[u][i] = written[u][i]
        /\ \A u \in Sessions : Renumbered(u) => Renumbered(u)'
    BY <1>5, <1>6, Grows DEF EventTypeOK
  <1> HIDE DEF l, w
  <1>9. LogIsWhole'
    <2> SUFFICES ASSUME NEW c \in WriterDbs, NEW u \in Sessions
                 PROVE  /\ latest'[c][u] = Len(log'[c][u]) - 1
                        /\ Len(log'[c][u]) <= Len(written'[u])
                        /\ \A i \in DOMAIN log'[c][u] :
                              /\ log'[c][u][i].seq = i - 1
                              /\ log'[c][u][i] = written'[u][Len(written'[u]) - Len(log'[c][u]) + i]
      BY DEF LogIsWhole
    <2>1. c = d /\ c \in Dbs
      BY <1>1
    <2>2. CASE u = s
      <3> DEFINE m == Append(l, e)
                 v == Append(w, e)
      <3>1. /\ Len(m) = Len(l) + 1 /\ Len(v) = Len(w) + 1 /\ DOMAIN m = 1..(Len(l) + 1)
            /\ m[Len(l) + 1] = e /\ v[Len(w) + 1] = e /\ DOMAIN l = 1..Len(l)
            /\ \A i \in 1..Len(l) : m[i] = l[i]
            /\ \A i \in 1..Len(w) : v[i] = w[i]
        BY <1>2, <1>5, AppendFacts
      <3>2. log'[c][u] = m /\ written'[u] = v /\ latest'[c][u] = Len(l)
        BY <1>7, <1>8, <2>1, <2>2
      <3> HIDE DEF m, v
      <3>3. ASSUME NEW i \in 1..(Len(l) + 1) PROVE m[i].seq = i - 1 /\ m[i] = v[Len(v) - Len(m) + i]
        <4>1. CASE i = Len(l) + 1
          <5>1. Len(v) - Len(m) + i = Len(w) + 1
            BY <1>2, <3>1, <4>1
          <5> QED
            BY <1>2, <1>3, <3>1, <4>1, <5>1
        <4>2. CASE i \in 1..Len(l)
          <5>1. Len(v) - Len(m) + i = Len(w) - Len(l) + i /\ Len(w) - Len(l) + i \in 1..Len(w)
            BY <1>2, <3>1, <4>2
          <5>2. l[i].seq = i - 1 /\ l[i] = w[Len(w) - Len(l) + i]
            BY <1>2, <3>1, <4>2
          <5> QED
            BY <3>1, <4>2, <5>1, <5>2
        <4> QED
          BY <1>2, <4>1, <4>2
      <3>4. DOMAIN m = 1..(Len(l) + 1) /\ Len(l) = Len(m) - 1 /\ Len(m) <= Len(v)
        BY <1>2, <3>1
      <3> QED
        BY <3>2, <3>3, <3>4
    <2>3. CASE u # s
      <3>1. log'[c][u] = log[c][u] /\ latest'[c][u] = latest[c][u] /\ written'[u] = written[u]
        BY <1>7, <1>8, <2>1, <2>3
      <3> QED
        BY <3>1 DEF DbInv, LogIsWhole
    <2> QED
      BY <2>2, <2>3
  <1>10. GoneStaysGone'
    <2> SUFFICES ASSUME NEW c \in WriterDbs, NEW u \in Sessions,
                        NEW i \in DOMAIN written'[u], written'[u][i].type = "deleted"
                 PROVE  row'[c][u] = NoRow
      BY DEF GoneStaysGone
    <2>1. c = d /\ c \in Dbs
      BY <1>1
    <2>2. CASE u # s
      <3>1. row'[c][u] = row[c][u] /\ written'[u] = written[u]
        BY <1>7, <1>8, <2>1, <2>2
      <3> QED
        BY <3>1 DEF DbInv, GoneStaysGone
    <2>3. CASE u = s
      <3>1. row'[c][u] = Project(row[d][s], e) /\ written'[u] = Append(w, e)
        BY <1>7, <1>8, <2>1, <2>3
      <3>2. CASE t = "deleted"
        BY <1>3, <3>1, <3>2 DEF Project
      <3>3. CASE t # "deleted"
        <4>1. i \in 1..Len(w) /\ w[i].type = "deleted"
          BY <1>2, <1>3, <1>5, <3>1, <3>3, AppendFacts
        <4>2. row[d][s] = NoRow
          BY <1>1, <1>2, <4>1 DEF DbInv, GoneStaysGone, w
        <4>3. t # "created"
          BY <1>2, <4>1 DEF w
        <4>4. ~ProjectorFails(row[d][s], e)
          BY <1>3, <1>6 DEF Commit, Throws
        <4> QED
          BY <1>3, <3>1, <3>3, <4>2, <4>3, <4>4 DEF Project, ProjectorFails, NoRow, Types
      <3> QED
        BY <3>2, <3>3
    <2> QED
      BY <2>2, <2>3
  <1>11. Owned'
    <2> SUFFICES ASSUME NEW u \in Sessions, NEW i \in DOMAIN written'[u]
                 PROVE  written'[u][i].agg = u
      BY DEF Owned
    <2>1. CASE u # s
      BY <1>8, <2>1 DEF DbInv, Owned
    <2>2. CASE u = s
      <3>1. CASE i = Len(w) + 1
        BY <1>2, <1>3, <1>5, <1>8, <2>2, <3>1, AppendFacts
      <3>2. CASE i # Len(w) + 1
        <4>1. i \in DOMAIN w /\ written'[u][i] = w[i]
          <5>1. written'[u] = Append(w, e)
            BY <1>8, <2>2
          <5> QED
            BY <1>2, <1>5, <3>2, <5>1, AppendFacts
        <4> QED
          BY <2>2, <4>1 DEF DbInv, Owned, w
      <3> QED
        BY <3>1, <3>2
    <2> QED
      BY <2>1, <2>2
  <1>12. \A c \in FollowerDbs : c # d /\ c \in Dbs
    BY <1>1, Devices
  <1>13. FollowerLog'
    <2> SUFFICES ASSUME NEW c \in FollowerDbs, NEW u \in Sessions, ~Renumbered(u)'
                 PROVE  /\ latest'[c][u] = Len(log'[c][u]) - 1
                        /\ Len(log'[c][u]) <= Len(written'[u])
                        /\ \A i \in 1..Len(log'[c][u]) : log'[c][u][i] = written'[u][i]
      BY DEF FollowerLog
    <2>1. /\ latest[c][u] = Len(log[c][u]) - 1 /\ Len(log[c][u]) <= Len(written[u])
          /\ \A i \in 1..Len(log[c][u]) : log[c][u][i] = written[u][i]
      BY <1>8 DEF DbInv, FollowerLog
    <2>2. log'[c][u] = log[c][u] /\ latest'[c][u] = latest[c][u]
      BY <1>7, <1>12
    <2>3. /\ DOMAIN written[u] = 1..Len(written[u]) /\ Len(written[u]) \in Nat
          /\ Len(written'[u]) \in Nat /\ Len(log[c][u]) \in Nat
      BY <1>8, <1>12 DEF EventTypeOK
    <2>4. Len(written[u]) <= Len(written'[u]) /\ \A i \in DOMAIN written[u] : written'[u][i] = written[u][i]
      BY <1>8
    <2> QED
      BY <2>1, <2>2, <2>3, <2>4
  <1>14. \A c \in FollowerDbs : log'[c] = log[c]
    BY <1>7, <1>12
  <1>15. e \in Event /\ e.agg = s /\ e.type = t /\ e.seq = Len(log[d][s])
    BY <1>3, <1>5 DEF l
  <1> QED
    BY <1>4, <1>6, <1>7, <1>8, <1>9, <1>10, <1>11, <1>13, <1>14, <1>15 DEF DbInv

\* What is in progress stays so when more is written.
LEMMA RunKeeps ==
    ASSUME IInv, Recording, NEW p \in Writers, NEW s \in Sessions, NEW t \in Types,
           Run(p, s, t), t = "created" => written[s] = <<>>
    PROVE  /\ \A d \in FollowerDbs : \A e : Current(d, e) => Current(d, e)'
           /\ \A u \in Sessions : Gone(u) => Gone(u)'
           /\ t = "deleted" => Gone(s)'
  <1>1. /\ \E e \in Event : e.type = t /\ written' = [written EXCEPT ![s] = Append(@, e)]
        /\ \A d \in FollowerDbs : log'[d] = log[d]
    BY RunDb DEF IInv
  <1>2. PICK e \in Event : e.type = t /\ written' = [written EXCEPT ![s] = Append(@, e)]
    BY <1>1
  <1>3. /\ written'[s] = Append(written[s], e)
        /\ \A u \in Sessions : /\ DOMAIN written[u] \subseteq DOMAIN written'[u]
                               /\ \A i \in DOMAIN written[u] : written'[u][i] = written[u][i]
        /\ \A u \in Sessions : Renumbered(u) => Renumbered(u)'
        /\ \A u \in Sessions : Gone(u) => Gone(u)'
    BY <1>2, Grows DEF IInv, EventTypeOK
  <1>4. ASSUME NEW d \in FollowerDbs, NEW g, Current(d, g) PROVE Current(d, g)'
    <2>1. g.agg \in Sessions
      BY <1>4 DEF Current, Event
    <2> QED
      BY <1>1, <1>3, <1>4, <2>1 DEF Current
  <1>5. t = "deleted" => Gone(s)'
    <2>1. written[s] \in Seq(Event)
      BY DEF IInv, EventTypeOK
    <2> QED
      BY <1>2, <1>3, <2>1, AppendFacts DEF Gone
  <1> QED
    BY <1>3, <1>4, <1>5

LEMMA CreateIInv ==
    ASSUME IInv, Recording, NEW p \in Writers, NEW s \in Sessions, Create(p, s)
    PROVE  IInv'
  <1>1. Run(p, s, "created") /\ written[s] = <<>> /\ "created" \in Types
        /\ UNCHANGED <<step, event, removals, doomed>>
    BY DEF Create, procVars, Types
  <1>2. EventTypeOK' /\ DbInv'
    BY <1>1, RunDb DEF IInv, EventTypeOK
  <1>3. Replaying' /\ Removing'
    BY <1>1, RunKeeps, Devices DEF IInv, Replaying, Removing
  <1> QED
    BY <1>2, <1>3 DEF IInv

LEMMA WriteIInv ==
    ASSUME IInv, Recording, NEW p \in Writers, NEW s \in Sessions,
           NEW t \in {"updated", "part", "unpart"}, Write(p, s, t)
    PROVE  IInv'
  <1>1. Run(p, s, t) /\ t # "created" /\ t \in Types
        /\ UNCHANGED <<step, event, removals, doomed>>
    BY DEF Write, procVars, Types
  <1>2. EventTypeOK' /\ DbInv'
    BY <1>1, RunDb DEF IInv, EventTypeOK
  <1>3. Replaying' /\ Removing'
    BY <1>1, RunKeeps, Devices DEF IInv, Replaying, Removing
  <1> QED
    BY <1>2, <1>3 DEF IInv

LEMMA RemoveRunIInv ==
    ASSUME IInv, Recording, NEW p \in Writers, NEW s \in Sessions, RemoveRun(p, s)
    PROVE  IInv'
  <1>1. /\ p \in Procs /\ Run(p, s, "deleted") /\ "deleted" \in Types
        /\ step' = [step EXCEPT ![p] = "deleted"] /\ doomed' = [doomed EXCEPT ![p] = s]
        /\ UNCHANGED event
        /\ \E more \in {{}, {s}} : removals' = [removals EXCEPT ![p] = (@ \ {s}) \cup more]
    BY Devices DEF RemoveRun, Types
  <1>2. EventTypeOK' /\ DbInv'
    BY <1>1, RunDb DEF IInv, EventTypeOK
  <1>3. /\ \A d \in FollowerDbs : \A e : Current(d, e) => Current(d, e)'
        /\ \A u \in Sessions : Gone(u) => Gone(u)'
        /\ Gone(s)'
    BY <1>1, RunKeeps
  <1>4. /\ step'[p] = "deleted" /\ doomed'[p] = s
        /\ \A q \in Procs : q # p => step'[q] = step[q] /\ doomed'[q] = doomed[q]
    BY <1>1 DEF IInv, EventTypeOK
  <1>5. Replaying'
    BY <1>1, <1>3, <1>4, Devices DEF IInv, Replaying
  <1>6. Removing'
    <2> SUFFICES ASSUME NEW q \in Procs, step'[q] = "deleted"
                 PROVE  q \in Writers /\ doomed'[q] \in Sessions /\ Gone(doomed[q])'
      BY DEF Removing
    <2>1. CASE q = p
      BY <1>3, <1>4, <2>1
    <2>2. CASE q # p
      BY <1>3, <1>4, <2>2 DEF IInv, Removing
    <2> QED
      BY <2>1, <2>2
  <1> QED
    BY <1>2, <1>5, <1>6 DEF IInv

\* A step that leaves the databases and what was written alone.
LEMMA DbUntouched ==
    ASSUME DbInv, UNCHANGED <<latest, log, row, written>>
    PROVE  /\ DbInv'
           /\ \A d, e : Current(d, e) => Current(d, e)'
           /\ \A s \in Sessions : Gone(s) => Gone(s)'
  BY DEF DbInv, Lasts, TablesFollowLog, LogIsWhole, GoneStaysGone, Owned, FollowerLog,
         Current, Renumbered, Gone

LEMMA RemoveGetIInv ==
    ASSUME IInv, NEW p \in Writers, NEW s \in Sessions, RemoveGet(p, s)
    PROVE  IInv'
  <1>1. /\ p \in Procs /\ UNCHANGED <<latest, log, row, written, ids, step, event, doomed>>
        /\ removals' = [removals EXCEPT ![p] = @ \cup {s}]
    BY Devices DEF RemoveGet, dbVars
  <1>2. EventTypeOK'
    BY <1>1 DEF IInv, EventTypeOK
  <1>3. DbInv' /\ Replaying' /\ Removing'
    BY <1>1, DbUntouched DEF IInv, Replaying, Removing
  <1> QED
    BY <1>2, <1>3 DEF IInv

\* The log of a session that is gone is erased: what is in no table was in none before.
LEMMA RemoveLogIInv ==
    ASSUME IInv, NEW p \in Writers, RemoveLog(p)
    PROVE  IInv'
  <1> DEFINE d == DbOf[p]
             s == doomed[p]
  <1>1. /\ p \in Procs /\ d \in WriterDbs /\ d \in Dbs /\ d \notin FollowerDbs
        /\ s \in Sessions /\ Gone(s)
    BY Devices DEF RemoveLog, IInv, Removing
  <1>2. /\ latest' = [latest EXCEPT ![d][s] = -1] /\ log' = [log EXCEPT ![d][s] = <<>>]
        /\ UNCHANGED <<row, written, ids, event, removals>>
        /\ step' = [step EXCEPT ![p] = "free"] /\ doomed' = [doomed EXCEPT ![p] = Nothing]
    BY DEF RemoveLog, EraseLog
  <1>3. EventTypeOK'
    BY <1>1, <1>2, EmptyShows DEF IInv, EventTypeOK
  <1>4. /\ log'[d][s] = <<>> /\ latest'[d][s] = -1
        /\ \A c \in Dbs, u \in Sessions : c # d \/ u # s =>
              log'[c][u] = log[c][u] /\ latest'[c][u] = latest[c][u]
    BY <1>1, <1>2 DEF IInv, EventTypeOK
  <1>5. row[d][s] = NoRow
    BY <1>1 DEF IInv, DbInv, GoneStaysGone, Gone
  <1> HIDE DEF d, s
  <1>6. Lasts' /\ TablesFollowLog'
    BY <1>2, <1>4, <1>5, EmptyShows DEF IInv, DbInv, Lasts, TablesFollowLog
  <1>7. LogIsWhole'
    <2> SUFFICES ASSUME NEW c \in WriterDbs, NEW u \in Sessions
                 PROVE  /\ latest'[c][u] = Len(log'[c][u]) - 1
                        /\ Len(log'[c][u]) <= Len(written[u])
                        /\ \A i \in DOMAIN log'[c][u] :
                              /\ log'[c][u][i].seq = i - 1
                              /\ log'[c][u][i] = written[u][Len(written[u]) - Len(log'[c][u]) + i]
      BY <1>2 DEF LogIsWhole
    <2>1. CASE c = d /\ u = s
      <3>1. written[u] \in Seq(Event)
        BY DEF IInv, EventTypeOK
      <3> QED
        BY <1>4, <2>1, <3>1
    <2>2. CASE c # d \/ u # s
      <3>1. c \in Dbs /\ log'[c][u] = log[c][u] /\ latest'[c][u] = latest[c][u]
        BY <1>4, <2>2, Devices
      <3> QED
        BY <3>1 DEF IInv, DbInv, LogIsWhole
    <2> QED
      BY <2>1, <2>2
  <1>8. \A c \in FollowerDbs : c \in Dbs /\ log'[c] = log[c] /\ latest'[c] = latest[c]
    BY <1>1, <1>2, Devices DEF IInv, EventTypeOK, d, s
  <1>9. FollowerLog' /\ GoneStaysGone' /\ Owned'
    BY <1>2, <1>8 DEF IInv, DbInv, FollowerLog, GoneStaysGone, Owned, Renumbered
  <1>10. \A q \in Procs : step'[q] # "free" => step'[q] = step[q] /\ doomed'[q] = doomed[q]
    BY <1>1, <1>2 DEF IInv, EventTypeOK
  <1>11. Replaying'
    <2> SUFFICES ASSUME NEW f \in Procs, step'[f] = "replaying"
                 PROVE  f \in Followers /\ Current(DbOf[f], event[f])'
      BY <1>2 DEF Replaying
    <2>1. f \in Followers /\ Current(DbOf[f], event[f])
      BY <1>10 DEF IInv, Replaying
    <2> QED
      BY <1>2, <1>8, <2>1, Devices DEF Current, Renumbered
  <1>12. Removing'
    BY <1>2, <1>10 DEF IInv, Removing, Gone
  <1> QED
    BY <1>3, <1>6, <1>7, <1>9, <1>11, <1>12 DEF IInv, DbInv

LEMMA ReplayReadIInv ==
    ASSUME IInv, NEW f \in Followers, NEW s \in Sessions, NEW i \in DOMAIN written[s],
           ReplayRead(f, written[s][i])
    PROVE  IInv'
  <1> DEFINE e == written[s][i]
             d == DbOf[f]
  <1>1. /\ f \in Procs /\ d \in Dbs /\ d \in FollowerDbs
        /\ UNCHANGED <<latest, log, row, written, ids, removals, doomed>>
        /\ step' = [step EXCEPT ![f] = "replaying"] /\ event' = [event EXCEPT ![f] = e]
        /\ e.seq = NextSeq(d, e.agg)
    BY Devices DEF ReplayRead, dbVars, Expected
  <1>2. e \in Event /\ e.agg = s
    BY DEF IInv, DbInv, EventTypeOK, Owned
  <1>3. ~Renumbered(s) => e.seq <= Len(log[d][s])
    <2>1. latest[d][s] \in Nat \cup {-1} /\ Len(log[d][s]) \in Nat
      BY <1>1 DEF IInv, EventTypeOK
    <2> QED
      BY <1>1, <1>2, <2>1 DEF IInv, DbInv, FollowerLog, NextSeq
  <1>4. Current(d, e)
    BY <1>2, <1>3 DEF Current
  <1> HIDE DEF e, d
  <1>5. EventTypeOK'
    BY <1>1, <1>2 DEF IInv, EventTypeOK
  <1>6. /\ step'[f] = "replaying" /\ event'[f] = e
        /\ \A g \in Procs : g # f => step'[g] = step[g] /\ event'[g] = event[g]
    BY <1>1 DEF IInv, EventTypeOK
  <1>7. DbInv' /\ Removing'
    BY <1>1, <1>6, DbUntouched, Devices DEF IInv, Removing
  <1>8. Replaying'
    <2> SUFFICES ASSUME NEW g \in Procs, step'[g] = "replaying"
                 PROVE  g \in Followers /\ Current(DbOf[g], event[g])'
      BY DEF Replaying
    <2>1. CASE g = f
      BY <1>1, <1>4, <1>6, <2>1, DbUntouched DEF IInv, d
    <2>2. CASE g # f
      BY <1>1, <1>6, <2>2, DbUntouched DEF IInv, Replaying
    <2> QED
      BY <2>1, <2>2
  <1> QED
    BY <1>5, <1>7, <1>8 DEF IInv

LEMMA KilledIInv ==
    ASSUME IInv, NEW p \in Procs, Killed(p)
    PROVE  IInv'
  <1>1. /\ UNCHANGED <<latest, log, row, written, ids>>
        /\ step' = [step EXCEPT ![p] = "free"] /\ event' = [event EXCEPT ![p] = NoEvent]
        /\ removals' = [removals EXCEPT ![p] = {}]
        /\ doomed' = [doomed EXCEPT ![p] = Nothing]
    BY DEF Killed, dbVars
  <1>2. EventTypeOK'
    BY <1>1 DEF IInv, EventTypeOK
  <1>3. \A q \in Procs : step'[q] # "free" =>
            step'[q] = step[q] /\ event'[q] = event[q] /\ doomed'[q] = doomed[q]
    BY <1>1 DEF IInv, EventTypeOK
  <1>4. DbInv' /\ Replaying' /\ Removing'
    BY <1>1, <1>3, DbUntouched DEF IInv, Replaying, Removing
  <1> QED
    BY <1>2, <1>4 DEF IInv

\* What a follower's transaction finds: the event already there, for others may have
\* replayed it since the read, or a log that ends right before it.
LEMMA ReplayFinds ==
    ASSUME IInv, Recording, NEW f \in Followers, step[f] = "replaying"
    PROVE  LET d == DbOf[f]
               e == event[f]
               s == e.agg
               l == log[d][s]
           IN  /\ e \in Event /\ s \in Sessions /\ d \in FollowerDbs /\ d \in Dbs /\ f \in Procs
               /\ \E i \in DOMAIN written[s] : written[s][i] = e
               /\ ~Renumbered(s) /\ ~Throws(d, e) =>
                     /\ e.seq = Len(l) /\ Len(l) + 1 <= Len(written[s])
                     /\ written[s][Len(l) + 1] = e
  <1> DEFINE d == DbOf[f]
             e == event[f]
             s == e.agg
             l == log[d][s]
  <1>1. d \in FollowerDbs /\ d \in Dbs /\ f \in Procs
    BY Devices
  <1>2. Current(d, e)
    BY <1>1 DEF IInv, Replaying
  <1>3. e \in Event /\ s \in Sessions /\ e.seq \in Nat /\ \E i \in DOMAIN written[s] : written[s][i] = e
    BY <1>2 DEF Current, Event
  <1> HIDE DEF d, e
  <1>4. ASSUME ~Renumbered(s), ~Throws(d, e)
        PROVE  e.seq = Len(l) /\ Len(l) + 1 <= Len(written[s]) /\ written[s][Len(l) + 1] = e
    <2>1. e.seq + 1 \in 1..Len(written[s]) /\ written[s][e.seq + 1] = e
      BY <1>2, <1>4, Place
    <2>2. l \in Seq(Event) /\ Len(l) \in Nat /\ DOMAIN l = 1..Len(l)
      BY <1>1, <1>3 DEF IInv, EventTypeOK
    <2>3. e.seq <= Len(l) /\ \A i \in 1..Len(l) : l[i] = written[s][i]
      BY <1>1, <1>2, <1>3, <1>4 DEF Current, IInv, DbInv, FollowerLog
    <2>4. ~(e.seq + 1 \in 1..Len(l))
      <3>1. ~Logged(d, e)
        BY <1>4 DEF Throws
      <3> QED
        BY <2>1, <2>2, <2>3, <3>1 DEF Logged
    <2>5. e.seq = Len(l)
      BY <1>3, <2>2, <2>3, <2>4
    <2> QED
      BY <2>1, <2>5, <1>3
  <1> QED
    BY <1>1, <1>3, <1>4 DEF d, e

LEMMA ReplayCommitIInv ==
    ASSUME IInv, Recording, NEW f \in Followers, ReplayCommit(f)
    PROVE  IInv'
  <1> DEFINE d == DbOf[f]
             e == event[f]
             s == e.agg
             l == log[d][s]
  <1>1. /\ step[f] = "replaying" /\ UNCHANGED <<written, ids, removals, doomed>>
        /\ step' = [step EXCEPT ![f] = "free"] /\ event' = [event EXCEPT ![f] = NoEvent]
        /\ Commit(d, e) \/ UNCHANGED <<latest, log, row>>
    BY DEF ReplayCommit, dbVars
  <1>2. /\ e \in Event /\ s \in Sessions /\ d \in FollowerDbs /\ d \in Dbs /\ f \in Procs
        /\ ~Renumbered(s) /\ ~Throws(d, e) =>
              /\ e.seq = Len(l) /\ Len(l) + 1 <= Len(written[s])
              /\ written[s][Len(l) + 1] = e
    BY <1>1, ReplayFinds
  <1> HIDE DEF d, e
  <1>3. \A q \in Procs : step'[q] # "free" =>
            step'[q] = step[q] /\ event'[q] = event[q] /\ doomed'[q] = doomed[q]
    BY <1>1 DEF IInv, EventTypeOK
  <1>4. /\ step' \in [Procs -> {"free", "deleted", "replaying"}]
        /\ event' \in [Procs -> Event \cup {NoEvent}]
    BY <1>1 DEF IInv, EventTypeOK
  <1>5. CASE UNCHANGED <<latest, log, row>>
    <2>1. EventTypeOK'
      BY <1>1, <1>4, <1>5 DEF IInv, EventTypeOK
    <2>2. DbInv' /\ Replaying' /\ Removing'
      BY <1>1, <1>3, <1>5, DbUntouched DEF IInv, Replaying, Removing
    <2> QED
      BY <2>1, <2>2 DEF IInv
  <1>6. CASE Commit(d, e)
    <2>1. /\ latest' \in [Dbs -> [Sessions -> Nat \cup {-1}]]
          /\ log' \in [Dbs -> [Sessions -> Seq(Event)]]
          /\ row' \in [Dbs -> [Sessions -> Row]]
          /\ Lasts' /\ TablesFollowLog'
          /\ log'[d][s] = Append(l, e) /\ latest'[d][s] = e.seq
          /\ \A c \in Dbs, t \in Sessions : c # d \/ t # s =>
                log'[c][t] = log[c][t] /\ row'[c][t] = row[c][t] /\ latest'[c][t] = latest[c][t]
      BY <1>2, <1>6, CommitDb DEF IInv
    <2>2. EventTypeOK'
      BY <1>1, <1>4, <2>1 DEF IInv, EventTypeOK
    <2>3. l \in Seq(Event) /\ ~Throws(d, e)
      BY <1>2, <1>6 DEF IInv, EventTypeOK, Commit
    <2>4. /\ Len(log'[d][s]) = Len(l) + 1 /\ Len(l) \in Nat
          /\ \A i \in 1..Len(l) : log'[d][s][i] = l[i]
          /\ log'[d][s][Len(l) + 1] = e
      <3> HIDE DEF l
      <3> QED
        BY <1>2, <2>1, <2>3, AppendFacts
    <2>5. \A c \in WriterDbs, t \in Sessions :
              log'[c][t] = log[c][t] /\ row'[c][t] = row[c][t] /\ latest'[c][t] = latest[c][t]
      BY <1>2, <2>1, Devices
    <2>6. LogIsWhole' /\ GoneStaysGone' /\ Owned'
      <3>1. LogIsWhole'
        <4> SUFFICES ASSUME NEW c \in WriterDbs, NEW u \in Sessions
                     PROVE  /\ latest'[c][u] = Len(log'[c][u]) - 1
                            /\ Len(log'[c][u]) <= Len(written[u])
                            /\ \A i \in DOMAIN log'[c][u] :
                                  /\ log'[c][u][i].seq = i - 1
                                  /\ log'[c][u][i]
                                        = written[u][Len(written[u]) - Len(log'[c][u]) + i]
          BY <1>1 DEF LogIsWhole
        <4>1. log'[c][u] = log[c][u] /\ latest'[c][u] = latest[c][u]
          BY <2>5
        <4> QED
          BY <4>1 DEF IInv, DbInv, LogIsWhole
      <3>2. GoneStaysGone'
        BY <1>1, <2>5 DEF IInv, DbInv, GoneStaysGone
      <3>3. Owned'
        BY <1>1 DEF IInv, DbInv, Owned
      <3> QED
        BY <3>1, <3>2, <3>3
    <2>7. FollowerLog'
      <3> SUFFICES ASSUME NEW c \in FollowerDbs, NEW t \in Sessions, ~Renumbered(t)
                   PROVE  /\ latest'[c][t] = Len(log'[c][t]) - 1
                          /\ Len(log'[c][t]) <= Len(written[t])
                          /\ \A i \in 1..Len(log'[c][t]) : log'[c][t][i] = written[t][i]
        BY <1>1 DEF FollowerLog, Renumbered
      <3>1. /\ latest[c][t] = Len(log[c][t]) - 1 /\ Len(log[c][t]) <= Len(written[t])
            /\ \A i \in 1..Len(log[c][t]) : log[c][t][i] = written[t][i]
            /\ c \in Dbs
        BY Devices DEF IInv, DbInv, FollowerLog
      <3>2. CASE c = d /\ t = s
        <4>1. /\ e.seq = Len(l) /\ Len(l) + 1 <= Len(written[s]) /\ written[s][Len(l) + 1] = e
          BY <1>2, <2>3, <3>2
        <4>2. \A i \in 1..Len(l) : l[i] = written[s][i]
          BY <3>1, <3>2
        <4>3. latest'[d][s] = Len(l)
          BY <2>1, <4>1
        <4> HIDE DEF l, s
        <4>4. ASSUME NEW i \in 1..(Len(l) + 1) PROVE log'[d][s][i] = written[s][i]
          <5>1. CASE i = Len(l) + 1
            BY <2>4, <4>1, <5>1
          <5>2. CASE i \in 1..Len(l)
            BY <2>4, <4>2, <5>2
          <5> QED
            BY <2>4, <5>1, <5>2
        <4> QED
          BY <2>4, <3>2, <4>1, <4>3, <4>4
      <3>3. CASE c # d \/ t # s
        BY <2>1, <3>1, <3>3
      <3> QED
        BY <3>2, <3>3
    <2>8. \A c \in FollowerDbs : \A g : Current(c, g) => Current(c, g)'
      <3> SUFFICES ASSUME NEW c \in FollowerDbs, NEW g, Current(c, g)
                   PROVE  Current(c, g)'
        OBVIOUS
      <3>1. g \in Event /\ g.agg \in Sessions /\ g.seq \in Nat /\ c \in Dbs
        BY Devices DEF Current, Event
      <3>2. Len(log[c][g.agg]) \in Nat /\ Len(log[c][g.agg]) <= Len(log'[c][g.agg])
        <4>1. Len(log[c][g.agg]) \in Nat
          BY <3>1 DEF IInv, EventTypeOK
        <4>2. CASE c = d /\ g.agg = s
          BY <2>4, <4>2
        <4>3. CASE c # d \/ g.agg # s
          BY <2>1, <3>1, <4>1, <4>3
        <4> QED
          BY <4>1, <4>2, <4>3
      <3>3. Len(log'[c][g.agg]) \in Nat
        BY <2>1, <3>1
      <3>4. ~Renumbered(g.agg) => g.seq <= Len(log'[c][g.agg])
        BY <3>1, <3>2, <3>3 DEF Current
      <3> QED
        BY <1>1, <3>4 DEF Current, Renumbered
    <2>9. Replaying' /\ Removing'
      BY <1>1, <1>3, <2>8, Devices DEF IInv, Replaying, Removing, Gone
    <2> QED
      BY <2>1, <2>2, <2>6, <2>7, <2>9 DEF IInv, DbInv
  <1> QED
    BY <1>1, <1>5, <1>6

LEMMA StepIInv ==
    ASSUME IInv, Recording, [SyncNext]_syncVars
    PROVE  IInv'
  <1>1. ASSUME NEW p \in Writers, NEW s \in Sessions, Create(p, s) PROVE IInv'
    BY <1>1, CreateIInv
  <1>2. ASSUME NEW p \in Writers, NEW s \in Sessions, RemoveGet(p, s) PROVE IInv'
    BY <1>2, RemoveGetIInv
  <1>3. ASSUME NEW p \in Writers, NEW s \in Sessions, NEW t \in {"updated", "part", "unpart"},
               Write(p, s, t) PROVE IInv'
    BY <1>3, WriteIInv
  <1>4. ASSUME NEW p \in Writers, NEW s \in Sessions, RemoveRun(p, s) PROVE IInv'
    BY <1>4, RemoveRunIInv
  <1>5. ASSUME NEW p \in Writers, RemoveLog(p) PROVE IInv'
    BY <1>5, RemoveLogIInv
  <1>6. ASSUME NEW f \in Followers, NEW s \in Sessions, NEW i \in DOMAIN written[s],
               ReplayRead(f, written[s][i]) PROVE IInv'
    BY <1>6, ReplayReadIInv
  <1>7. ASSUME NEW f \in Followers, ReplayCommit(f) PROVE IInv'
    BY <1>7, ReplayCommitIInv
  <1>8. ASSUME NEW p \in Procs, Killed(p) PROVE IInv'
    BY <1>8, KilledIInv
  <1>9. CASE UNCHANGED syncVars
    <2>1. UNCHANGED <<latest, log, row, written, ids, step, event, removals, doomed>>
      BY <1>9 DEF syncVars, dbVars, procVars
    <2>2. EventTypeOK'
      BY <2>1 DEF IInv, EventTypeOK
    <2>3. DbInv' /\ Replaying' /\ Removing'
      BY <2>1, DbUntouched DEF IInv, Replaying, Removing
    <2> QED
      BY <2>2, <2>3 DEF IInv
  <1> QED
    BY <1>1, <1>2, <1>3, <1>4, <1>5, <1>6, <1>7, <1>8, <1>9
       DEF SyncNext, WriterNext, FollowerNext

-----------------------------------------------------------------------------
(* The theorems.                                                           *)

\* The invariant of everything that follows.
LEMMA Invariance ==
    ASSUME Recording
    PROVE  SyncSpec => []IInv
  <1>1. SyncInit => IInv
    BY InitIInv
  <1>2. IInv /\ [SyncNext]_syncVars => IInv'
    BY StepIInv
  <1> QED
    BY <1>1, <1>2, PTL DEF SyncSpec

\* The variables keep their types.
THEOREM SyncTypes ==
    ASSUME Recording
    PROVE  SyncSpec => []EventTypeOK
  <1>1. IInv => EventTypeOK
    BY DEF IInv
  <1> QED
    BY <1>1, Invariance, PTL

\* However many processes write and remove at once, and whatever they write to sessions
\* that are gone, the log of the device is all that was run since it was erased last.
THEOREM SyncWhole ==
    ASSUME Recording
    PROVE  SyncSpec => []LogIsWhole
  <1>1. IInv => LogIsWhole
    BY DEF IInv, DbInv
  <1> QED
    BY <1>1, Invariance, PTL

\* Every table is what the log beside it says, on every device.
THEOREM SyncTables ==
    ASSUME Recording
    PROVE  SyncSpec => []TablesFollowLog
  <1>1. IInv => TablesFollowLog
    BY DEF IInv, DbInv
  <1> QED
    BY <1>1, Invariance, PTL

\* A session that was removed shows nothing again where it was removed.
THEOREM SyncGone ==
    ASSUME Recording
    PROVE  SyncSpec => []GoneStaysGone
  <1>1. IInv => GoneStaysGone
    BY DEF IInv, DbInv
  <1> QED
    BY <1>1, Invariance, PTL

\* The log of the device that writes.
LEMMA WriterLogFacts ==
    ASSUME IInv, NEW d \in WriterDbs, NEW s \in Sessions
    PROVE  /\ log[d][s] \in Seq(Event) /\ written[s] \in Seq(Event)
           /\ Len(log[d][s]) \in Nat /\ Len(written[s]) \in Nat
           /\ latest[d][s] = Len(log[d][s]) - 1 /\ Len(log[d][s]) <= Len(written[s])
           /\ \A i \in 1..Len(log[d][s]) :
                 /\ log[d][s][i].seq = i - 1
                 /\ log[d][s][i] = written[s][Len(written[s]) - Len(log[d][s]) + i]
  <1>1. d \in Dbs
    BY Devices
  <1>2. log[d][s] \in Seq(Event) /\ written[s] \in Seq(Event)
    BY <1>1 DEF IInv, EventTypeOK
  <1>3. DOMAIN log[d][s] = 1..Len(log[d][s]) /\ Len(log[d][s]) \in Nat /\ Len(written[s]) \in Nat
    BY <1>2
  <1> QED
    BY <1>2, <1>3 DEF IInv, DbInv, LogIsWhole

\* A log that is not empty begins like what was written.
LEMMA LogIsPrefix ==
    ASSUME IInv, NEW d \in WriterDbs \cup FollowerDbs, NEW s \in Sessions, ~Renumbered(s), latest[d][s] >= 0
    PROVE  /\ latest[d][s] = Len(log[d][s]) - 1
           /\ \A i \in 1..Len(log[d][s]) : log[d][s][i] = written[s][i]
  <1>1. CASE d \in FollowerDbs
    BY <1>1 DEF IInv, DbInv, FollowerLog
  <1>2. CASE d \in WriterDbs
    <2> DEFINE l == log[d][s]
               w == written[s]
    <2>1. /\ l \in Seq(Event) /\ w \in Seq(Event) /\ latest[d][s] = Len(l) - 1 /\ Len(l) <= Len(w)
          /\ \A i \in 1..Len(l) : l[i].seq = i - 1 /\ l[i] = w[Len(w) - Len(l) + i]
      BY <1>2, WriterLogFacts
    <2>2. \A i \in 1..Len(w) : w[i].seq = i - 1
      BY <2>1 DEF Renumbered
    <2> HIDE DEF l, w
    <2>3. Len(l) \in Nat /\ Len(w) \in Nat /\ Len(l) > 0
      BY <2>1
    <2>4. l[1].seq = 0 /\ l[1] = w[Len(w) - Len(l) + 1] /\ Len(w) - Len(l) + 1 \in 1..Len(w)
      BY <2>1, <2>3
    <2>5. Len(w) = Len(l)
      BY <2>2, <2>3, <2>4
    <2>6. \A i \in 1..Len(l) : l[i] = w[i]
      BY <2>1, <2>3, <2>5
    <2> QED
      BY <2>1, <2>6 DEF l, w
  <1> QED
    BY <1>1, <1>2

\* Databases at the same number of a session show the same session, unless its numbers
\* have started over, and if somebody has them.
THEOREM SyncAgree ==
    ASSUME Recording, Dbs = WriterDbs \cup FollowerDbs
    PROVE  SyncSpec => []CopiesAgree
  <1>1. ASSUME IInv, NEW c \in Dbs, NEW d \in Dbs, NEW s \in Sessions,
               ~Renumbered(s), latest[c][s] = latest[d][s], latest[c][s] >= 0
        PROVE  row[c][s] = row[d][s]
    <2>1. /\ log[c][s] \in Seq(Event) /\ log[d][s] \in Seq(Event)
      BY <1>1 DEF IInv, EventTypeOK
    <2>2. /\ latest[c][s] = Len(log[c][s]) - 1
          /\ \A i \in 1..Len(log[c][s]) : log[c][s][i] = written[s][i]
          /\ latest[d][s] = Len(log[d][s]) - 1
          /\ \A i \in 1..Len(log[d][s]) : log[d][s][i] = written[s][i]
      <3>1. latest[d][s] >= 0 /\ c \in WriterDbs \cup FollowerDbs /\ d \in WriterDbs \cup FollowerDbs
        BY <1>1
      <3> QED
        BY <1>1, <3>1, LogIsPrefix
    <2>3. Len(log[c][s]) = Len(log[d][s])
      <3>1. Len(log[c][s]) \in Nat /\ Len(log[d][s]) \in Nat
        BY <2>1
      <3>2. Len(log[c][s]) - 1 = Len(log[d][s]) - 1
        BY <1>1, <2>2
      <3> QED
        BY <3>1, <3>2
    <2>4. log[c][s] = log[d][s]
      <3>1. \A i \in 1..Len(log[c][s]) : log[c][s][i] = log[d][s][i]
        BY <2>2, <2>3
      <3> QED
        BY <2>1, <2>3, <3>1
    <2> QED
      BY <1>1, <2>4 DEF IInv, DbInv, TablesFollowLog
  <1>2. IInv => CopiesAgree
    BY <1>1 DEF CopiesAgree
  <1> QED
    BY <1>2, Invariance, PTL

\* The databases implement the abstract log and its copies: each step of a writer adds to
\* the log or changes no copy, each step of a follower copies an event it does not have,
\* and the next one unless numbers have started over, or nothing.
THEOREM SyncCopies ==
    ASSUME Recording
    PROVE  SyncSpec => IsLogCopies
  <1> DEFINE copies == [d \in FollowerDbs |-> log[d]]
  <1>1. SyncInit => Copies!Init
    BY Devices DEF SyncInit, Copies!Init
  <1>2. ASSUME IInv, IInv', [SyncNext]_syncVars PROVE [Copies!Step]_Copies!vars
    <2>1. ASSUME NEW p \in Writers, NEW s \in Sessions, NEW t \in Types, Run(p, s, t),
                 t = "created" => written[s] = <<>>
          PROVE  Copies!Write(s)
      <3> DEFINE l == log[DbOf[p]][s]
                 w == written[s]
      <3>1. /\ \E e \in Event : e.seq = Len(l) /\ written' = [written EXCEPT ![s] = Append(@, e)]
            /\ \A d \in FollowerDbs : log'[d] = log[d]
        <4>1. EventTypeOK /\ DbInv
          BY <1>2 DEF IInv
        <4> HIDE DEF l, w
        <4> QED
          BY <2>1, <4>1, RunDb DEF l
      <3>2. PICK e \in Event : e.seq = Len(l) /\ written' = [written EXCEPT ![s] = Append(@, e)]
        BY <3>1
      <3>3. /\ l \in Seq(Event) /\ w \in Seq(Event) /\ Len(l) <= Len(w)
            /\ \A i \in 1..Len(l) : l[i].seq = i - 1 /\ l[i] = w[Len(w) - Len(l) + i]
        <4>1. ASSUME NEW d \in WriterDbs
              PROVE  /\ log[d][s] \in Seq(Event) /\ written[s] \in Seq(Event)
                     /\ Len(log[d][s]) <= Len(written[s])
                     /\ \A i \in 1..Len(log[d][s]) :
                           /\ log[d][s][i].seq = i - 1
                           /\ log[d][s][i] = written[s][Len(written[s]) - Len(log[d][s]) + i]
          BY <1>2, WriterLogFacts
        <4>2. DbOf[p] \in WriterDbs
          BY Devices
        <4> QED
          BY <4>1, <4>2
      <3>4. written \in [Sessions -> Seq(Event)]
        BY <1>2 DEF IInv, EventTypeOK
      <3>5. written'[s] = Append(w, e)
        BY <3>2, <3>4
      <3> HIDE DEF l, w
      <3>6. Len(written'[s]) = Len(w) + 1 /\ written'[s][Len(w) + 1] = e /\ Len(w) \in Nat /\ Len(l) \in Nat
        BY <3>3, <3>5, AppendFacts
      <3>7. e.seq \in {0, IF w = <<>> THEN 0 ELSE w[Len(w)].seq + 1}
        <4>1. CASE Len(l) = 0
          BY <3>2, <4>1
        <4>2. CASE Len(l) # 0
          <5>1. l[Len(l)].seq = Len(l) - 1 /\ l[Len(l)] = w[Len(w) - Len(l) + Len(l)]
            BY <3>3, <3>6, <4>2
          <5>2. w # <<>> /\ w[Len(w)].seq + 1 = Len(l)
            BY <3>3, <3>6, <4>2, <5>1
          <5> QED
            BY <3>2, <5>2
        <4> QED
          BY <4>1, <4>2
      <3>8. written' = [written EXCEPT ![s] = Append(@, written'[s][Len(@) + 1])]
        BY <3>2, <3>6 DEF w
      <3>9. copies' = copies
        BY <3>1
      <3> QED
        BY <3>6, <3>7, <3>8, <3>9 DEF Copies!Write, Copies!Next, w
    <2>2. ASSUME NEW f \in Followers, ReplayCommit(f)
          PROVE  UNCHANGED <<written, copies>> \/ \E d \in FollowerDbs, s \in Sessions : Copies!Copy(d, s)
      <3> DEFINE d == DbOf[f]
                 e == event[f]
                 s == e.agg
                 l == log[d][s]
      <3>1. step[f] = "replaying" /\ UNCHANGED written
        BY <2>2 DEF ReplayCommit
      <3>2. /\ e \in Event /\ d \in FollowerDbs /\ d \in Dbs /\ s \in Sessions
            /\ \E i \in DOMAIN written[s] : written[s][i] = e
            /\ ~Renumbered(s) /\ ~Throws(d, e) =>
                  Len(l) + 1 <= Len(written[s]) /\ written[s][Len(l) + 1] = e
        BY <1>2, <3>1, ReplayFinds
      <3>3. CASE UNCHANGED dbVars
        BY <3>1, <3>3 DEF dbVars
      <3>4. CASE Commit(d, e)
        <4>1. /\ log' = [log EXCEPT ![d][s] = Append(@, e)] /\ ~Throws(d, e) /\ ~Logged(d, e)
          BY <3>4 DEF Commit, Record, Throws
        <4>2. log \in [Dbs -> [Sessions -> Seq(Event)]] /\ written \in [Sessions -> Seq(Event)]
              /\ l \in Seq(Event)
          BY <1>2, <3>2 DEF IInv, EventTypeOK
        <4>3. \A j \in DOMAIN l : l[j] # e
          BY <4>1 DEF Logged
        <4>4. PICK i \in DOMAIN written[s] : written[s][i] = e /\ (~Renumbered(s) => i = Len(l) + 1)
          <5>1. CASE Renumbered(s)
            BY <3>2, <5>1
          <5>2. CASE ~Renumbered(s)
            <6>1. Len(l) + 1 \in DOMAIN written[s] /\ written[s][Len(l) + 1] = e
              BY <3>2, <4>1, <4>2, <5>2
            <6> QED
              BY <6>1
          <5> QED
            BY <5>1, <5>2
        <4>5. copies' = [copies EXCEPT ![d][s] = Append(@, written[s][i])]
          BY <3>2, <4>1, <4>2, <4>4, Devices
        <4>6. copies[d][s] = l /\ \A j \in DOMAIN copies[d][s] : copies[d][s][j] # written[s][i]
          BY <3>2, <4>3, <4>4
        <4>7. ~Copies!Renumbered(s) => i = Len(copies[d][s]) + 1
          BY <4>4, <4>6 DEF Renumbered, Copies!Renumbered
        <4>8. d \in FollowerDbs /\ s \in Sessions
          BY <3>2
        <4> HIDE DEF d, s, l
        <4> QED
          BY <3>1, <4>5, <4>6, <4>7, <4>8 DEF Copies!Copy
      <3> QED
        BY <2>2, <3>3, <3>4 DEF ReplayCommit
    <2>3. ASSUME NEW p \in Writers, RemoveLog(p)
          PROVE  UNCHANGED <<written, copies>>
      <3>1. \A d \in FollowerDbs : d # DbOf[p] /\ d \in Dbs
        BY Devices
      <3> QED
        BY <1>2, <2>3, <3>1 DEF RemoveLog, EraseLog, IInv, EventTypeOK
    <2>4. ASSUME NEW p \in Writers, NEW s \in Sessions, Create(p, s)
          PROVE  Copies!Step
      BY <2>1, <2>4 DEF Create, Types, Copies!Step
    <2>5. ASSUME NEW p \in Writers, NEW s \in Sessions, NEW t \in {"updated", "part", "unpart"},
                 Write(p, s, t)
          PROVE  Copies!Step
      BY <2>1, <2>5 DEF Write, Types, Copies!Step
    <2>6. ASSUME NEW p \in Writers, NEW s \in Sessions, RemoveRun(p, s)
          PROVE  Copies!Step
      BY <2>1, <2>6 DEF RemoveRun, Types, Copies!Step
    <2> QED
      BY <1>2, <2>2, <2>3, <2>4, <2>5, <2>6
         DEF SyncNext, WriterNext, FollowerNext, RemoveGet, ReplayRead, Killed,
             syncVars, dbVars, Copies!Step, Copies!vars
  <1>3. IInv /\ IInv' /\ [SyncNext]_syncVars => [Copies!Step]_Copies!vars
    BY <1>2
  <1> QED
    BY <1>1, <1>3, Invariance, PTL DEF SyncSpec, IsLogCopies, Copies!Spec
=============================================================================
