---------------------------- MODULE FilesProofs -----------------------------
(***************************************************************************)
(* Proofs about what is kept in files, for any instance.                   *)
(*                                                                         *)
(* FileTools: the lock of a file keeps its edits apart under one instance, *)
(* and a write replaces only what its session's stamp was taken of, but    *)
(* for the gap between a call's look and its change.                       *)
(*                                                                         *)
(* Flock: as long as no process is held up for longer than staleMs and no  *)
(* breaker is removed as stale, the lock between processes has one owner,  *)
(* wherever they end.                                                      *)
(*                                                                         *)
(* Identifier: ids rise, but for the cases that the model names, and the   *)
(* outputs named by them stay until the bits of their time start over.     *)
(***************************************************************************)
EXTENDS FileTools, Flock, Identifier, Integers, TLAPS

-----------------------------------------------------------------------------
(* FileTools.                                                              *)

Pcs == {"new", "waiting", "checking", "reading", "asking", "applying", "stamping", "done",
        "failed"}

Disks == [there: BOOLEAN, has: SUBSET Marks, at: Nat]
Olds  == UNION {[DOMAIN h -> SUBSET Marks] : h \in Batches \cup {<<>>}}
CallRows == [pc: Pcs, session: Sessions, home: Homes, hunks: Batches \cup {<<>>}, i: Nat, old: Olds]

FilesTypeOK ==
    /\ disk \in [Files -> Disks]
    /\ reads \in [Sessions -> [Files -> SUBSET Nat]]
    /\ lock \in [Homes -> [Files -> Calls \cup {Nobody}]]
    /\ gen \in [Directories -> 0..MaxDisposals]
    /\ call \in [Calls -> CallRows]
    /\ seen \in [Sessions -> [Files -> SUBSET Marks]]
    /\ noted \in [Sessions -> [Files -> SUBSET Marks]]
    /\ news \in [Calls -> [Files -> SUBSET Marks]]

Live(c) == call[c].pc \notin {"new", "done", "failed"}

\* Where a call can be, with what it does.
CallOK(c) ==
    /\ Live(c) =>
         /\ call[c].hunks \in Batches
         /\ call[c].i \in DOMAIN call[c].hunks
         /\ call[c].old \in [DOMAIN call[c].hunks -> SUBSET Marks]
    /\ call[c].pc = "waiting" => Op(c) \in {"edit", "create"}
    /\ call[c].pc = "checking" => Op(c) \in {"edit", "write"}
    /\ call[c].pc = "reading" => Op(c) \notin {"create", "write"}
    /\ call[c].pc = "asking" => call[c].i = 1
    /\ call[c].pc = "applying" => Op(c) # "read"
    /\ call[c].pc = "stamping" => Op(c) \in Simple

CallsOK == \A c \in Calls : CallOK(c)

\* Who edits a file has its lock, in the state in which it asked for it.
LocksHeld == \A c \in Calls, f \in Files : Edits(c, f) => LockOf(c, f) = c

\* A file that is gone holds nothing; no stamp is ahead of the file.
DisksOK ==
    \A f \in Files :
        /\ ~disk[f].there => disk[f].has = {}
        /\ disk[f].at > 0
        /\ \A s \in Sessions : \A t \in reads[s][f] : t <= disk[f].at

\* A stamp that is the file's time was taken of what the file holds.
StampsTell ==
    \A s \in Sessions, f \in Files :
        disk[f].there /\ reads[s][f] = {disk[f].at} => disk[f].has \subseteq noted[s][f]

\* After its check a write knows what is in the file, but for what came later.
KnowsFile(c) ==
    Checking /\ Op(c) = "write" /\ call[c].pc \in {"asking", "applying"} =>
        disk[File(c)].has \subseteq noted[call[c].session][File(c)] \cup news[c][File(c)]

\* The hunks that have been read and not yet applied.
HasRead(c, j) ==
    \/ call[c].pc = "reading" /\ j < call[c].i
    \/ call[c].pc = "asking" /\ Op(c) # "read"
    \/ call[c].pc = "applying" /\ j >= call[c].i

\* What has come into a file since a hunk was read is news to its call.
ReadIsKept(c) ==
    \A j \in DOMAIN call[c].hunks :
        HasRead(c, j) /\ call[c].hunks[j].op \in {"edit", "update"} =>
            disk[call[c].hunks[j].file].has
                \subseteq call[c].old[j] \cup news[c][call[c].hunks[j].file]

CallsKnow == \A c \in Calls : Live(c) => KnowsFile(c) /\ ReadIsKept(c)

FilesInv == FilesTypeOK /\ CallsOK /\ LocksHeld /\ DisksOK /\ StampsTell /\ CallsKnow

-----------------------------------------------------------------------------
(* Batches of hunks, and the rows of the calls.                            *)

LEMMA BatchFacts ==
    ASSUME NEW h \in Batches
    PROVE  /\ h \in Seq(Hunk) /\ Len(h) \in Nat /\ Len(h) > 0 /\ DOMAIN h = 1..Len(h)
           /\ \A j \in DOMAIN h : /\ h[j] \in Hunk
                                  /\ h[j].op \in Simple => Len(h) = 1
                                  /\ h[j].op # "move" => h[j].to = h[j].file
           /\ \A j \in DOMAIN h : \A k \in DOMAIN h \ {j} :
                 h[j].to # h[k].to /\ (h[j].op = "update" => h[j].file # h[k].file)
<1>1. CASE h \in Patches
  <2>1. h \in Seq(Hunk) /\ Len(h) > 0
    BY <1>1, FilesAssumption
  <2>2. Len(h) \in Nat /\ DOMAIN h = 1..Len(h) /\ \A j \in DOMAIN h : h[j] \in Hunk
    BY <2>1
  <2>3. \A j \in DOMAIN h :
           /\ h[j].op # "move" => h[j].to = h[j].file
           /\ h[j].op \notin Simple
           /\ \A k \in DOMAIN h \ {j} :
                 h[j].to # h[k].to /\ (h[j].op = "update" => h[j].file # h[k].file)
    BY <1>1, FilesAssumption
  <2> QED
    BY <2>1, <2>2, <2>3
<1>2. CASE h \in Singles
  <2>1. PICK o \in Simple, f \in Files : h = <<[op |-> o, file |-> f, to |-> f]>>
    BY <1>2 DEF Singles
  <2>2. [op |-> o, file |-> f, to |-> f] \in Hunk
    BY DEF Hunk
  <2>3. h \in Seq(Hunk) /\ Len(h) = 1 /\ DOMAIN h = 1..1 /\ h[1] = [op |-> o, file |-> f, to |-> f]
    BY <2>1, <2>2
  <2> QED
    BY <2>2, <2>3
<1> QED
  BY <1>1, <1>2 DEF Batches

\* The row of a call changes in these fields, those of the others do not.
RowIs(c, p, n, o) ==
    /\ call'[c].pc = p /\ call'[c].i = n /\ call'[c].old = o
    /\ call'[c].session = call[c].session /\ call'[c].home = call[c].home
    /\ call'[c].hunks = call[c].hunks
    /\ \A d \in Calls \ {c} : call'[d] = call[d]

LEMMA RowFields ==
    ASSUME FilesTypeOK, NEW c \in Calls
    PROVE  /\ call[c].pc \in Pcs /\ call[c].session \in Sessions /\ call[c].home \in Homes
           /\ call[c].hunks \in Batches \cup {<<>>} /\ call[c].i \in Nat
           /\ call[c].old \in Olds
  BY DEF FilesTypeOK, CallRows

LEMMA RowChanged ==
    ASSUME FilesTypeOK, NEW c \in Calls, NEW row \in CallRows,
           call' = [call EXCEPT ![c] = row],
           row.session = call[c].session, row.home = call[c].home, row.hunks = call[c].hunks
    PROVE  call' \in [Calls -> CallRows] /\ RowIs(c, row.pc, row.i, row.old)
<1>1. call \in [Calls -> CallRows]
  BY DEF FilesTypeOK
<1> QED
  BY <1>1 DEF RowIs

LEMMA ToRow ==
    ASSUME FilesTypeOK, NEW c \in Calls, NEW p \in Pcs, To(c, p)
    PROVE  call' \in [Calls -> CallRows] /\ RowIs(c, p, call[c].i, call[c].old)
<1> DEFINE row == [call[c] EXCEPT !.pc = p]
<1>1. row \in CallRows
  BY DEF FilesTypeOK, CallRows
<1>2. /\ row.pc = p /\ row.session = call[c].session /\ row.home = call[c].home
      /\ row.hunks = call[c].hunks
      /\ row.i = call[c].i /\ row.old = call[c].old
  BY DEF FilesTypeOK, CallRows
<1>3. call' = [call EXCEPT ![c] = row]
  BY DEF To
<1> HIDE DEF row
<1> QED
  BY <1>1, <1>2, <1>3, RowChanged

LEMMA NoOld == <<>> \in Olds
<1>1. <<>> \in [DOMAIN <<>> -> SUBSET Marks]
  OBVIOUS
<1> QED
  BY <1>1 DEF Olds

LEMMA EndRow ==
    ASSUME FilesTypeOK, NEW c \in Calls, NEW how \in {"done", "failed"}, End(c, how)
    PROVE  /\ call' \in [Calls -> CallRows] /\ RowIs(c, how, call[c].i, <<>>)
           /\ Free(c)
<1> DEFINE row == [call[c] EXCEPT !.pc = how, !.old = <<>>]
<1>1. row \in CallRows
  BY NoOld DEF FilesTypeOK, CallRows, Pcs
<1>2. /\ row.pc = how /\ row.session = call[c].session /\ row.home = call[c].home
      /\ row.hunks = call[c].hunks
      /\ row.i = call[c].i /\ row.old = <<>>
  BY DEF FilesTypeOK, CallRows
<1>3. call' = [call EXCEPT ![c] = row]
  BY DEF End
<1> HIDE DEF row
<1>4. call' \in [Calls -> CallRows] /\ RowIs(c, how, call[c].i, <<>>)
  BY <1>1, <1>2, <1>3, RowChanged
<1> QED
  BY <1>4 DEF End

\* What a call has read of its hunks, with one more.
LEMMA OldGrows ==
    ASSUME NEW c \in Calls, CallOK(c), Live(c), NEW x \in SUBSET Marks
    PROVE  /\ [call[c].old EXCEPT ![call[c].i] = x] \in [DOMAIN call[c].hunks -> SUBSET Marks]
           /\ [call[c].old EXCEPT ![call[c].i] = x] \in Olds
<1>1. [call[c].old EXCEPT ![call[c].i] = x] \in [DOMAIN call[c].hunks -> SUBSET Marks]
  BY DEF CallOK
<1> QED
  BY <1>1 DEF Olds, CallOK

LEMMA ReadRow ==
    ASSUME FilesTypeOK, NEW c \in Calls, CallOK(c), Live(c), NEW x \in SUBSET Marks,
           NEW n \in Nat, NEW p \in Pcs,
           call' = [call EXCEPT ![c].old[call[c].i] = x, ![c].i = n, ![c].pc = p]
    PROVE  /\ call' \in [Calls -> CallRows]
           /\ RowIs(c, p, n, [call[c].old EXCEPT ![call[c].i] = x])
<1> DEFINE old == [call[c].old EXCEPT ![call[c].i] = x]
           row == [call[c] EXCEPT !.old = old, !.i = n, !.pc = p]
<1>1. old \in Olds
  BY OldGrows
<1>2. call' = [call EXCEPT ![c] = row]
  OBVIOUS
<1> HIDE DEF old
<1>3. row \in CallRows
  BY <1>1 DEF FilesTypeOK, CallRows
<1>4. /\ row.pc = p /\ row.session = call[c].session /\ row.home = call[c].home
      /\ row.hunks = call[c].hunks
      /\ row.i = n /\ row.old = old
  BY DEF FilesTypeOK, CallRows
<1> HIDE DEF row
<1>5. call' \in [Calls -> CallRows] /\ RowIs(c, p, n, old)
  BY <1>2, <1>3, <1>4, RowChanged
<1> QED
  BY <1>5 DEF old

LEMMA ApplyRow ==
    ASSUME FilesTypeOK, NEW c \in Calls, NEW n \in Nat, NEW p \in Pcs,
           call' = [call EXCEPT ![c].i = n, ![c].pc = p]
    PROVE  call' \in [Calls -> CallRows] /\ RowIs(c, p, n, call[c].old)
<1> DEFINE row == [call[c] EXCEPT !.i = n, !.pc = p]
<1>1. call' = [call EXCEPT ![c] = row]
  OBVIOUS
<1>2. row \in CallRows
  BY DEF FilesTypeOK, CallRows
<1>3. /\ row.pc = p /\ row.session = call[c].session /\ row.home = call[c].home
      /\ row.hunks = call[c].hunks
      /\ row.i = n /\ row.old = call[c].old
  BY DEF FilesTypeOK, CallRows
<1> HIDE DEF row
<1> QED
  BY <1>1, <1>2, <1>3, RowChanged

\* A call begins with nothing read.
LEMMA BeginRow ==
    ASSUME FilesTypeOK, NEW c \in Calls, NEW s \in Sessions, NEW m \in Homes,
           NEW h \in Batches, NEW p \in Pcs,
           call' = [call EXCEPT ![c] = [pc |-> p, session |-> s, home |-> m, hunks |-> h,
                                        i |-> 1, old |-> [j \in DOMAIN h |-> {}]]]
    PROVE  /\ call' \in [Calls -> CallRows]
           /\ call'[c].pc = p /\ call'[c].session = s /\ call'[c].hunks = h
           /\ call'[c].i = 1 /\ call'[c].old \in [DOMAIN h -> SUBSET Marks]
           /\ \A d \in Calls \ {c} : call'[d] = call[d]
<1> DEFINE old == [j \in DOMAIN h |-> {}]
           row == [pc |-> p, session |-> s, home |-> m, hunks |-> h, i |-> 1, old |-> old]
<1>1. old \in [DOMAIN h -> SUBSET Marks]
  OBVIOUS
<1>2. old \in Olds
  BY <1>1 DEF Olds
<1>3. call' = [call EXCEPT ![c] = row] /\ call \in [Calls -> CallRows]
  BY DEF FilesTypeOK
<1> HIDE DEF old
<1>4. row \in CallRows
  BY <1>2 DEF CallRows
<1>5. row.pc = p /\ row.session = s /\ row.hunks = h /\ row.i = 1 /\ row.old = old
  OBVIOUS
<1> HIDE DEF row
<1> QED
  BY <1>1, <1>3, <1>4, <1>5

-----------------------------------------------------------------------------
(* The disk, and what is news to the calls.                                *)

\* What a step leaves of the files of a call: what has come into them is news to it.
Noticed(d) ==
    /\ \A f \in Files : news[d][f] \subseteq news'[d][f]
    /\ \A f \in FilesOf(d) \cap Files : disk'[f].has \subseteq disk[f].has \cup news'[d][f]

LEMMA ChangeFacts ==
    ASSUME FilesTypeOK, NEW f \in Files, NEW m \in Marks, NEW has \in SUBSET Marks,
           Change(f, m, has)
    PROVE  /\ disk' \in [Files -> Disks] /\ news' \in [Calls -> [Files -> SUBSET Marks]]
           /\ disk'[f].there /\ disk'[f].has = has /\ disk'[f].at = disk[f].at + 1
           /\ \A g \in Files \ {f} : disk'[g] = disk[g]
           /\ \A d \in Calls, g \in Files \ {f} : news'[d][g] = news[d][g]
           /\ m \in Calls => news'[m][f] = news[m][f] \cap has
           /\ \A d \in Calls \ {m} : Live(d) => Noticed(d)
<1> DEFINE row == [there |-> TRUE, has |-> has, at |-> disk[f].at + 1]
<1>1. disk' = [disk EXCEPT ![f] = row]
  BY DEF Change
<1>2. row \in Disks /\ row.has = has /\ row.at = disk[f].at + 1
  BY DEF FilesTypeOK, Disks
<1>3. row.there
  OBVIOUS
<1> HIDE DEF row
<1>4. /\ disk' \in [Files -> Disks] /\ disk'[f] = row
      /\ \A g \in Files \ {f} : disk'[g] = disk[g]
  BY <1>1, <1>2 DEF FilesTypeOK
<1> DEFINE new(c) == IF c = m THEN news[c][f] \cap has
                     ELSE IF f \in FilesOf(c) /\ ~Ended(c) THEN news[c][f] \cup (has \ disk[f].has)
                     ELSE news[c][f]
<1>5. news' = [c \in Calls |-> [news[c] EXCEPT ![f] = new(c)]]
  BY DEF Change
<1>6. \A c \in Calls : new(c) \in SUBSET Marks
  BY DEF FilesTypeOK
<1>7. \A d \in Calls \ {m} : Live(d) /\ f \in FilesOf(d) =>
         new(d) = news[d][f] \cup (has \ disk[f].has)
  BY DEF Live, Ended
<1>8. \A d \in Calls \ {m} : news[d][f] \subseteq new(d)
  OBVIOUS
<1>9. m \in Calls => new(m) = news[m][f] \cap has
  OBVIOUS
<1> HIDE DEF new
<1>10. /\ news' \in [Calls -> [Files -> SUBSET Marks]]
       /\ \A d \in Calls : news'[d][f] = new(d)
       /\ \A d \in Calls, g \in Files \ {f} : news'[d][g] = news[d][g]
  BY <1>5, <1>6 DEF FilesTypeOK
<1>11. ASSUME NEW d \in Calls \ {m}, Live(d) PROVE Noticed(d)
  BY <1>2, <1>4, <1>7, <1>8, <1>10, <1>11 DEF Noticed
<1> QED
  BY <1>2, <1>3, <1>4, <1>9, <1>10, <1>11

LEMMA UnlinkFacts ==
    ASSUME FilesTypeOK, NEW f \in Files, Unlink(f)
    PROVE  /\ disk' \in [Files -> Disks] /\ news' = news
           /\ ~disk'[f].there /\ disk'[f].has = {} /\ disk'[f].at = disk[f].at + 1
           /\ \A g \in Files \ {f} : disk'[g] = disk[g]
           /\ \A d \in Calls : Noticed(d)
<1> DEFINE row == [there |-> FALSE, has |-> {}, at |-> disk[f].at + 1]
<1>1. disk' = [disk EXCEPT ![f] = row] /\ news' = news
  BY DEF Unlink
<1>2. row \in Disks /\ row.has = {} /\ row.at = disk[f].at + 1
  BY DEF FilesTypeOK, Disks
<1>3. ~row.there
  OBVIOUS
<1> HIDE DEF row
<1>4. /\ disk' \in [Files -> Disks] /\ disk'[f] = row
      /\ \A g \in Files \ {f} : disk'[g] = disk[g]
  BY <1>1, <1>2 DEF FilesTypeOK
<1> QED
  BY <1>1, <1>2, <1>3, <1>4 DEF Noticed

LEMMA FilesOfCall ==
    ASSUME NEW c \in Calls, CallOK(c), Live(c)
    PROVE  /\ call[c].hunks \in Batches /\ call[c].i \in DOMAIN call[c].hunks
           /\ File(c) \in Files \cap FilesOf(c) /\ Target(c) \in Files
           /\ Op(c) \in Simple \cup {"add", "update", "delete", "move", "drop"}
           /\ \A j \in DOMAIN call[c].hunks : call[c].hunks[j].file \in Files \cap FilesOf(c)
<1>1. call[c].hunks \in Batches /\ call[c].i \in DOMAIN call[c].hunks
  BY DEF CallOK
<1>2. \A j \in DOMAIN call[c].hunks : call[c].hunks[j] \in Hunk
  BY <1>1, BatchFacts
<1>3. \A j \in DOMAIN call[c].hunks : call[c].hunks[j].file \in FilesOf(c)
  BY DEF FilesOf
<1> QED
  BY <1>1, <1>2, <1>3 DEF File, Target, Op, Hunk

LEMMA LookFacts ==
    ASSUME FilesTypeOK, NEW c \in Calls, File(c) \in Files, Look(c)
    PROVE  /\ news' \in [Calls -> [Files -> SUBSET Marks]]
           /\ news'[c][File(c)] = {}
           /\ \A g \in Files \ {File(c)} : news'[c][g] = news[c][g]
           /\ \A d \in Calls \ {c} : news'[d] = news[d]
  BY DEF Look, FilesTypeOK

\* What was noted of a file stays, or it is noted what the file holds.
NotedKeeps ==
    \A s \in Sessions, f \in Files :
        noted'[s][f] = noted[s][f] \/ disk'[f].has \subseteq noted'[s][f]

\* A step of another call, or of a user, leaves a call with what it knows.
LEMMA OthersKnow ==
    ASSUME FilesTypeOK, NEW d \in Calls, CallOK(d), Live(d), KnowsFile(d), ReadIsKept(d),
           call'[d] = call[d], Noticed(d), NotedKeeps
    PROVE  KnowsFile(d)' /\ ReadIsKept(d)'
<1>1. /\ File(d) \in Files \cap FilesOf(d) /\ call[d].session \in Sessions
      /\ \A j \in DOMAIN call[d].hunks : call[d].hunks[j].file \in Files \cap FilesOf(d)
  BY FilesOfCall, RowFields
<1>2. File(d)' = File(d) /\ Op(d)' = Op(d) /\ call'[d].session = call[d].session
  BY DEF File, Op
<1>3. /\ news[d][File(d)] \subseteq news'[d][File(d)]
      /\ disk'[File(d)].has \subseteq disk[File(d)].has \cup news'[d][File(d)]
  BY <1>1 DEF Noticed
<1>4. \A f \in Files \cap FilesOf(d) : disk'[f].has \subseteq disk[f].has \cup news'[d][f]
  BY DEF Noticed
<1>5. KnowsFile(d)'
  BY <1>1, <1>2, <1>3 DEF KnowsFile, NotedKeeps
<1>6. ReadIsKept(d)'
  <2>1. \A j \in DOMAIN call[d].hunks : HasRead(d, j)' <=> HasRead(d, j)
    BY <1>2 DEF HasRead
  <2>2. \A f \in Files : news[d][f] \subseteq news'[d][f]
    BY DEF Noticed
  <2> QED
    BY <1>1, <1>4, <2>1, <2>2 DEF ReadIsKept
<1> QED
  BY <1>5, <1>6

LEMMA CallsKeep ==
    ASSUME FilesTypeOK, CallsOK, CallsKnow, NEW c \in Calls, NotedKeeps,
           \A d \in Calls \ {c} : call'[d] = call[d] /\ (Live(d) => Noticed(d)),
           CallOK(c)', Live(c)' => KnowsFile(c)' /\ ReadIsKept(c)'
    PROVE  CallsOK' /\ CallsKnow'
<1>1. ASSUME NEW d \in Calls \ {c} PROVE CallOK(d)'
  <2>1. CallOK(d) /\ call'[d] = call[d]
    BY DEF CallsOK
  <2> QED
    BY <2>1 DEF CallOK, Live, Op
<1>2. ASSUME NEW d \in Calls \ {c}, Live(d)' PROVE KnowsFile(d)' /\ ReadIsKept(d)'
  <2>1. Live(d) /\ call'[d] = call[d]
    BY <1>2 DEF Live
  <2> QED
    BY <2>1, OthersKnow DEF CallsOK, CallsKnow
<1> QED
  BY <1>1, <1>2 DEF CallsOK, CallsKnow

LEMMA LocksKeep ==
    ASSUME FilesTypeOK, LocksHeld, NEW c \in Calls,
           \A d \in Calls \ {c} : call'[d] = call[d],
           lock' = lock \/ Free(c),
           \A f \in Files : Edits(c, f)' => LockOf(c, f)' = c
    PROVE  LocksHeld'
<1>1. ASSUME NEW d \in Calls \ {c}, NEW f \in Files, Edits(d, f)' PROVE LockOf(d, f)' = d
  <2>1. Edits(d, f) /\ call'[d].home = call[d].home /\ call[d].home \in Homes
    BY <1>1, RowFields DEF Edits, Op, File
  <2> QED
    BY <2>1 DEF LocksHeld, LockOf, Free, FilesTypeOK
<1> QED
  BY <1>1 DEF LocksHeld

LEMMA DisksKeep ==
    ASSUME FilesTypeOK, DisksOK, StampsTell, disk' = disk, NotedKeeps,
           \A s \in Sessions, f \in Files : reads'[s][f] \in {reads[s][f], {}}
    PROVE  DisksOK' /\ StampsTell'
<1>1. DisksOK'
  BY DEF DisksOK
<1>2. StampsTell'
  BY DEF StampsTell, NotedKeeps
<1> QED
  BY <1>1, <1>2

\* After a change no stamp tells of the file any more.
LEMMA DisksMove ==
    ASSUME FilesTypeOK, DisksOK, StampsTell, NEW f \in Files,
           disk'[f].at = disk[f].at + 1, ~disk'[f].there => disk'[f].has = {},
           \A g \in Files \ {f} : disk'[g] = disk[g],
           reads' = reads, noted' = noted
    PROVE  DisksOK' /\ StampsTell'
<1>1. \A g \in Files : disk[g].at \in Nat /\ \A s \in Sessions : reads[s][g] \subseteq Nat
  BY DEF FilesTypeOK, Disks
<1>2. DisksOK'
  BY <1>1 DEF DisksOK
<1>3. \A s \in Sessions : reads[s][f] # {disk'[f].at}
  BY <1>1 DEF DisksOK
<1>4. StampsTell'
  BY <1>3 DEF StampsTell
<1> QED
  BY <1>2, <1>4

\* A step that leaves the disk, and at most takes a look, is noticed by the others.
LEMMA Quiet ==
    ASSUME NEW c, disk' = disk, \A d \in Calls \ {c} : news'[d] = news[d]
    PROVE  \A d \in Calls \ {c} : Noticed(d)
  BY DEF Noticed

-----------------------------------------------------------------------------
(* The steps.                                                              *)

LEMMA BeginInv == ASSUME FilesInv, NEW c \in Calls, Begin(c) PROVE FilesInv'
<1> USE DEF FilesInv
<1>1. PICK s \in Sessions, h \in Batches :
         call' = [call EXCEPT ![c] = [pc |-> First(Head(h).op), session |-> s, home |-> Home(s),
                                      hunks |-> h, i |-> 1, old |-> [j \in DOMAIN h |-> {}]]]
  BY DEF Begin
<1>2. Home(s) \in Homes
  BY FilesAssumption DEF Home, Homes, FilesTypeOK
<1> DEFINE p == First(Head(h).op)
<1>3. Head(h) = h[1] /\ 1 \in DOMAIN h
  BY BatchFacts
<1>4. /\ h[1].op \in {"edit", "create"} => p = "waiting"
      /\ h[1].op = "write" => p = "checking"
      /\ h[1].op = "read" => p = "asking"
      /\ h[1].op \notin Simple => p = "reading"
      /\ p \in {"waiting", "checking", "asking", "reading"}
      /\ h[1].op \in Simple \cup {"add", "update", "delete", "move", "drop"}
  BY <1>3, BatchFacts DEF First, Simple, Hunk
<1> HIDE DEF p
<1>5. p \in Pcs
  BY <1>4 DEF Pcs
<1>6. /\ call' \in [Calls -> CallRows]
      /\ call'[c].pc = p /\ call'[c].session = s /\ call'[c].hunks = h
      /\ call'[c].i = 1 /\ call'[c].old \in [DOMAIN h -> SUBSET Marks]
      /\ \A d \in Calls \ {c} : call'[d] = call[d]
  BY <1>1, <1>5, <1>2, BeginRow DEF p
<1>7. UNCHANGED <<disk, reads, lock, gen, acted, seen, noted, news>>
  BY DEF Begin
<1>8. FilesTypeOK'
  BY <1>6, <1>7 DEF FilesTypeOK
<1>9. Op(c)' = h[1].op /\ File(c)' = h[1].file
  BY <1>6 DEF Op, File
<1>10. CallOK(c)'
  BY <1>3, <1>4, <1>6, <1>9 DEF CallOK, Simple
<1>11. KnowsFile(c)'
  BY <1>4, <1>6, <1>9 DEF KnowsFile, Simple
<1>12. ReadIsKept(c)'
  <2>1. \A j \in DOMAIN h : ~(j < 1)
    BY BatchFacts
  <2>2. \A j \in DOMAIN h : ~HasRead(c, j)'
    BY <1>4, <1>6, <1>9, <2>1 DEF HasRead, Simple
  <2> QED
    BY <1>6, <2>2 DEF ReadIsKept
<1>13. NotedKeeps /\ \A d \in Calls \ {c} : Noticed(d)
  BY <1>7, Quiet DEF NotedKeeps
<1>14. CallsOK' /\ CallsKnow'
  BY <1>6, <1>10, <1>11, <1>12, <1>13, CallsKeep
<1>15. LocksHeld'
  <2>1. \A f \in Files : ~Edits(c, f)'
    BY <1>4, <1>6, <1>9 DEF Edits, Simple
  <2> QED
    BY <1>6, <1>7, <2>1, LocksKeep
<1>16. DisksOK' /\ StampsTell'
  BY <1>7, <1>13, DisksKeep
<1> QED
  BY <1>8, <1>14, <1>15, <1>16

LEMMA LockInv == ASSUME FilesInv, NEW c \in Calls, Lock(c) PROVE FilesInv'
<1> USE DEF FilesInv
<1> DEFINE p == IF Op(c) = "create" THEN "asking" ELSE "checking"
<1> DEFINE h == call[c].home
<1>1. /\ call[c].pc = "waiting" /\ LockOf(c, File(c)) = Nobody
      /\ lock' = [lock EXCEPT ![h][File(c)] = c]
      /\ UNCHANGED <<disk, reads, gen, acted, seen, noted, news>> /\ To(c, p)
  BY DEF Lock
<1>2. p \in Pcs /\ p \in {"asking", "checking"}
  BY DEF Pcs
<1>3. call' \in [Calls -> CallRows] /\ RowIs(c, p, call[c].i, call[c].old)
  BY <1>1, <1>2, ToRow
<1>4. CallOK(c) /\ Live(c) /\ Op(c) \in {"edit", "create"}
  BY <1>1 DEF CallsOK, CallOK, Live
<1>5. Op(c)' = Op(c) /\ File(c)' = File(c) /\ File(c) \in Files
  BY <1>3, <1>4, FilesOfCall DEF RowIs, Op, File
<1>6. call[c].i = 1 /\ DOMAIN call[c].hunks = {1}
  BY <1>4, FilesOfCall, BatchFacts DEF Op, Simple
<1>7. h \in Homes /\ call'[c].home = h
  BY <1>3, RowFields DEF RowIs
<1>8. /\ lock' \in [Homes -> [Files -> Calls \cup {Nobody}]] /\ lock'[h][File(c)] = c
       /\ \A m \in Homes, f \in Files : m # h \/ f # File(c) => lock'[m][f] = lock[m][f]
  BY <1>1, <1>5, <1>7 DEF FilesTypeOK
<1>9. FilesTypeOK'
  BY <1>1, <1>3, <1>8 DEF FilesTypeOK
<1>10. CallOK(c)'
  BY <1>2, <1>3, <1>4, <1>5, <1>6 DEF CallOK, Live, RowIs
<1>11. KnowsFile(c)'
  BY <1>2, <1>3, <1>4, <1>5 DEF KnowsFile, RowIs
<1>12. ReadIsKept(c)'
  BY <1>3, <1>4, <1>5, <1>6 DEF ReadIsKept, RowIs, HasRead, Op
<1>13. NotedKeeps /\ \A d \in Calls \ {c} : Noticed(d)
  BY <1>1, Quiet DEF NotedKeeps
<1>14. CallsOK' /\ CallsKnow'
  BY <1>3, <1>10, <1>11, <1>12, <1>13, CallsKeep DEF RowIs
<1>15. LocksHeld'
  <2>1. ASSUME NEW d \in Calls \ {c}, NEW f \in Files, Edits(d, f)' PROVE LockOf(d, f)' = d
    <3>1. Edits(d, f) /\ call'[d].home = call[d].home /\ call[d].home \in Homes
      BY <1>3, <2>1, RowFields DEF Edits, Op, File, RowIs
    <3>2. LockOf(d, f) = d /\ (call[d].home # h \/ f # File(c))
      BY <1>1, <3>1, FilesAssumption DEF LocksHeld, LockOf
    <3> QED
      BY <1>8, <3>1, <3>2 DEF LockOf
  <2>2. ASSUME NEW f \in Files, Edits(c, f)' PROVE LockOf(c, f)' = c
    BY <1>5, <1>7, <1>8, <2>2 DEF Edits, LockOf
  <2> QED
    BY <2>1, <2>2 DEF LocksHeld
<1>16. DisksOK' /\ StampsTell'
  BY <1>1, <1>13, DisksKeep
<1> QED
  BY <1>9, <1>14, <1>15, <1>16

\* A call that ends has nothing to keep.
LEMMA EndKeeps ==
    ASSUME FilesTypeOK, NEW c \in Calls, NEW how \in {"done", "failed"}, End(c, how)
    PROVE  /\ call' \in [Calls -> CallRows] /\ lock' \in [Homes -> [Files -> Calls \cup {Nobody}]]
           /\ \A d \in Calls \ {c} : call'[d] = call[d]
           /\ CallOK(c)' /\ ~Live(c)' /\ \A f \in Files : ~Edits(c, f)'
           /\ Free(c)
<1>1. /\ call' \in [Calls -> CallRows] /\ RowIs(c, how, call[c].i, <<>>)
      /\ Free(c)
  BY EndRow
<1>2. lock' \in [Homes -> [Files -> Calls \cup {Nobody}]]
  BY <1>1 DEF FilesTypeOK, Free
<1> QED
  BY <1>1, <1>2 DEF RowIs, CallOK, Live, Edits

\* A single call is at its only hunk.
LEMMA OneHunk ==
    ASSUME NEW c \in Calls, CallOK(c), Live(c), NEW j \in DOMAIN call[c].hunks,
           call[c].hunks[j].op \in Simple
    PROVE  /\ DOMAIN call[c].hunks = {1} /\ Len(call[c].hunks) = 1 /\ call[c].i = 1 /\ j = 1
           /\ IsLast(c) /\ Target(c) = File(c)
<1>1. call[c].hunks \in Batches /\ call[c].i \in DOMAIN call[c].hunks
  BY DEF CallOK
<1>2. Len(call[c].hunks) = 1 /\ DOMAIN call[c].hunks = 1..1
  BY <1>1, BatchFacts
<1>3. call[c].i = 1 /\ j = 1
  BY <1>1, <1>2
<1> QED
  BY <1>1, <1>2, <1>3, BatchFacts DEF IsLast, Target, File, Simple

LEMMA CheckInv == ASSUME FilesInv, NEW c \in Calls, Check(c) PROVE FilesInv'
<1> USE DEF FilesInv
<1> DEFINE f == File(c)
           s == call[c].session
           p == IF Op(c) = "write" THEN "asking" ELSE "reading"
<1>1. /\ call[c].pc = "checking" /\ Look(c)
      /\ UNCHANGED <<disk, reads, gen, acted, seen, noted>>
  BY DEF Check
<1>2. CallOK(c) /\ Live(c) /\ Op(c) \in {"edit", "write"}
  BY <1>1 DEF CallsOK, CallOK, Live
<1>3. f \in Files /\ s \in Sessions
  BY <1>2, FilesOfCall, RowFields
<1>4. /\ news' \in [Calls -> [Files -> SUBSET Marks]]
      /\ \A d \in Calls \ {c} : news'[d] = news[d]
  BY <1>1, <1>3, LookFacts
<1>5. NotedKeeps /\ \A d \in Calls \ {c} : Noticed(d)
  BY <1>1, <1>4, Quiet DEF NotedKeeps
<1>6. DisksOK' /\ StampsTell'
  BY <1>1, <1>5, DisksKeep
<1>7. CASE /\ IF disk[f].there THEN AssertTime(s, f) ELSE Op(c) = "write"
           /\ To(c, p) /\ lock' = lock
  <2>1. p \in Pcs /\ p \in {"asking", "reading"} /\ (Op(c) = "write" <=> p = "asking")
    BY DEF Pcs
  <2>2. call' \in [Calls -> CallRows] /\ RowIs(c, p, call[c].i, call[c].old)
    BY <1>7, <2>1, ToRow
  <2>3. FilesTypeOK'
    BY <1>1, <1>4, <1>7, <2>2 DEF FilesTypeOK
  <2>4. Op(c)' = Op(c) /\ File(c)' = f
    BY <2>2 DEF RowIs, Op, File
  <2>5. DOMAIN call[c].hunks = {1} /\ call[c].i = 1
    BY <1>2, OneHunk DEF CallOK, Op, Simple
  <2>6. CallOK(c)'
    BY <1>2, <2>1, <2>2, <2>4, <2>5 DEF CallOK, Live, RowIs
  <2>7. Checking => disk[f].has \subseteq noted[s][f]
    <3>1. CASE disk[f].there
      BY <1>3, <1>7, <3>1 DEF AssertTime, Time, StampsTell
    <3>2. CASE ~disk[f].there
      BY <1>3, <3>2 DEF DisksOK
    <3> QED
      BY <3>1, <3>2
  <2>8. Checking => disk'[f].has \subseteq noted'[s][f]
    BY <1>1, <2>7
  <2>9. KnowsFile(c)'
    BY <1>2, <2>1, <2>2, <2>4, <2>8 DEF KnowsFile, RowIs
  <2>10. ReadIsKept(c)'
    BY <1>2, <2>1, <2>2, <2>4, <2>5 DEF ReadIsKept, RowIs, HasRead, Op
  <2>11. CallsOK' /\ CallsKnow'
    BY <1>5, <2>2, <2>6, <2>9, <2>10, CallsKeep DEF RowIs
  <2>12. \A g \in Files : Edits(c, g)' => LockOf(c, g)' = c
    BY <1>1, <1>7, <2>2, <2>4 DEF LocksHeld, Edits, RowIs, LockOf
  <2>13. LocksHeld'
    BY <1>7, <2>2, <2>12, LocksKeep DEF RowIs
  <2> QED
    BY <1>6, <2>3, <2>11, <2>13
<1>8. CASE End(c, "failed")
  <2>1. FilesTypeOK'
    BY <1>1, <1>4, <1>8, EndKeeps DEF FilesTypeOK
  <2>2. CallsOK' /\ CallsKnow'
    BY <1>5, <1>8, EndKeeps, CallsKeep
  <2>3. LocksHeld'
    BY <1>8, EndKeeps, LocksKeep
  <2> QED
    BY <1>6, <2>1, <2>2, <2>3
<1> QED
  BY <1>7, <1>8 DEF Check

LEMMA AnswerInv == ASSUME FilesInv, NEW c \in Calls, Answer(c) PROVE FilesInv'
<1> USE DEF FilesInv
<1> DEFINE p == IF Op(c) = "read" THEN "reading" ELSE "applying"
<1>1. call[c].pc = "asking" /\ UNCHANGED <<disk, reads, gen, acted, seen, noted, news>>
  BY DEF Answer
<1>2. CallOK(c) /\ Live(c) /\ call[c].i = 1
  BY <1>1 DEF CallsOK, CallOK, Live
<1>3. NotedKeeps /\ \A d \in Calls \ {c} : Noticed(d)
  BY <1>1, Quiet DEF NotedKeeps
<1>4. DisksOK' /\ StampsTell'
  BY <1>1, <1>3, DisksKeep
<1>5. CASE To(c, p) /\ lock' = lock
  <2>1. p \in Pcs /\ p \in {"reading", "applying"} /\ (Op(c) = "read" <=> p = "reading")
    BY DEF Pcs
  <2>2. call' \in [Calls -> CallRows] /\ RowIs(c, p, call[c].i, call[c].old)
    BY <1>5, <2>1, ToRow
  <2>3. FilesTypeOK'
    BY <1>1, <1>5, <2>2 DEF FilesTypeOK
  <2>4. Op(c)' = Op(c) /\ File(c)' = File(c)
    BY <2>2 DEF RowIs, Op, File
  <2>5. CallOK(c)'
    BY <1>2, <2>1, <2>2, <2>4 DEF CallOK, Live, RowIs
  <2>6. KnowsFile(c) /\ ReadIsKept(c)
    BY <1>2 DEF CallsKnow
  <2>8. KnowsFile(c)'
    BY <1>1, <2>1, <2>2, <2>4, <2>6 DEF KnowsFile, RowIs
  <2>9. \A j \in DOMAIN call[c].hunks : HasRead(c, j)' => HasRead(c, j)
    <3>1. \A j \in DOMAIN call[c].hunks : ~(j < 1)
      BY <1>2, FilesOfCall, BatchFacts
    <3> QED
      BY <1>1, <1>2, <2>1, <2>2, <2>4, <3>1 DEF HasRead, RowIs
  <2>10. ReadIsKept(c)'
    BY <1>1, <2>2, <2>6, <2>9 DEF ReadIsKept, RowIs
  <2>11. CallsOK' /\ CallsKnow'
    BY <1>3, <2>2, <2>5, <2>8, <2>10, CallsKeep DEF RowIs
  <2>12. \A g \in Files : Edits(c, g)' => LockOf(c, g)' = c
    BY <1>1, <1>5, <2>2, <2>4 DEF LocksHeld, Edits, RowIs, LockOf
  <2>13. LocksHeld'
    BY <1>5, <2>2, <2>12, LocksKeep DEF RowIs
  <2> QED
    BY <1>4, <2>3, <2>11, <2>13
<1>6. CASE End(c, "failed")
  <2>1. FilesTypeOK'
    BY <1>1, <1>6, EndKeeps DEF FilesTypeOK
  <2>2. CallsOK' /\ CallsKnow'
    BY <1>3, <1>6, EndKeeps, CallsKeep
  <2>3. LocksHeld'
    BY <1>6, EndKeeps, LocksKeep
  <2> QED
    BY <1>4, <2>1, <2>2, <2>3
<1> QED
  BY <1>5, <1>6 DEF Answer

LEMMA ReadInv == ASSUME FilesInv, NEW c \in Calls, Read(c) PROVE FilesInv'
<1> USE DEF FilesInv
<1> DEFINE f == File(c)
           i == call[c].i
           h == call[c].hunks
<1>1. /\ call[c].pc = "reading" /\ UNCHANGED <<disk, reads, gen, acted, seen, noted>>
      /\ IF Op(c) # "edit" THEN Look(c) ELSE UNCHANGED news
  BY DEF Read
<1>2. /\ CallOK(c) /\ Live(c) /\ Op(c) \notin {"create", "write"}
      /\ KnowsFile(c) /\ ReadIsKept(c)
  BY <1>1 DEF CallsOK, CallOK, Live, CallsKnow
<1>3. f \in Files /\ h \in Batches /\ i \in DOMAIN h /\ i \in Nat
  BY <1>2, FilesOfCall, RowFields
<1>4. /\ news' \in [Calls -> [Files -> SUBSET Marks]]
      /\ \A g \in Files \ {f} : news'[c][g] = news[c][g]
      /\ \A d \in Calls \ {c} : news'[d] = news[d]
      /\ Op(c) = "edit" => news' = news
  BY <1>1, <1>3, LookFacts DEF FilesTypeOK
<1>5. NotedKeeps /\ \A d \in Calls \ {c} : Noticed(d)
  BY <1>1, <1>4, Quiet DEF NotedKeeps
<1>6. DisksOK' /\ StampsTell'
  BY <1>1, <1>5, DisksKeep
<1> DEFINE n == IF IsLast(c) THEN 1 ELSE i + 1
           p == IF ~IsLast(c) THEN "reading" ELSE IF Op(c) = "read" THEN "stamping" ELSE "asking"
<1>7. ASSUME NEW x \in Parts(c), call' = [call EXCEPT ![c].old[i] = x, ![c].i = n, ![c].pc = p],
             lock' = lock
      PROVE  FilesInv'
  <2> DEFINE o == [call[c].old EXCEPT ![i] = x]
  <2>1. x \in SUBSET Marks /\ n \in Nat /\ p \in Pcs
    BY <1>3 DEF FilesTypeOK, Disks, Pcs, Parts
  <2>2. call' \in [Calls -> CallRows] /\ RowIs(c, p, n, o)
    BY <1>2, <1>7, <2>1, ReadRow
  <2>3. o \in [DOMAIN h -> SUBSET Marks]
    BY <1>2, <2>1, OldGrows
  <2>4. o[i] = x /\ \A j \in DOMAIN h \ {i} : o[j] = call[c].old[j]
    BY <1>2, <1>3 DEF CallOK
  <2>5. Op(c)' = h[n].op /\ File(c)' = h[n].file
    BY <2>2 DEF RowIs, Op, File
  <2>6. FilesTypeOK'
    BY <1>1, <1>4, <1>7, <2>2 DEF FilesTypeOK
  <2>7. /\ p = "reading" => ~IsLast(c) /\ n = i + 1
        /\ p = "asking" => n = 1 /\ IsLast(c) /\ Op(c) # "read"
        /\ p = "stamping" => n = 1 /\ IsLast(c) /\ Op(c) = "read"
        /\ p \in {"reading", "asking", "stamping"}
    OBVIOUS
  <2>8. n \in DOMAIN h
    BY <1>3, BatchFacts DEF IsLast
  <2>9. h[n].op \in Simple => n = 1 /\ i = 1 /\ IsLast(c) /\ h[n].op = Op(c) /\ DOMAIN h = {1}
    BY <1>2, <2>8, OneHunk DEF Op
  <2>10. Op(c) \in Simple => n = 1 /\ i = 1 /\ IsLast(c) /\ h[n].op = Op(c) /\ DOMAIN h = {1}
    BY <1>2, <1>3, OneHunk DEF Op
  <2> HIDE DEF n, p, o
  <2>11. CallOK(c)'
    BY <1>2, <1>3, <2>2, <2>3, <2>5, <2>7, <2>8, <2>9, <2>10 DEF CallOK, Live, RowIs, Simple
  <2>12. KnowsFile(c)'
    BY <1>2, <2>2, <2>5, <2>7, <2>9 DEF KnowsFile, RowIs, Simple
  <2>13. ReadIsKept(c)'
    <3> SUFFICES ASSUME NEW j \in DOMAIN h, HasRead(c, j)',
                        h[j].op \in {"edit", "update"}
                 PROVE  disk[h[j].file].has \subseteq o[j] \cup news'[c][h[j].file]
      BY <1>1, <2>2 DEF ReadIsKept, RowIs
    <3>1. j < i \/ j = i
      BY <1>3, <2>2, <2>5, <2>7, <2>8, BatchFacts DEF HasRead, RowIs, IsLast
    <3>2. CASE j = i
      BY <2>1, <2>4, <3>2 DEF File, Parts, Op
    <3>3. CASE j < i
      <4>1. HasRead(c, j)
        BY <1>1, <3>3 DEF HasRead
      <4>2. h[j].op = "update"
        BY <1>2, <1>3, <3>3, OneHunk DEF Simple
      <4>3. h[j].file # f /\ h[j].file \in Files
        BY <1>2, <1>3, <3>3, <4>2, BatchFacts, FilesOfCall DEF File
      <4> QED
        BY <1>2, <1>3, <1>4, <2>1, <2>4, <3>3, <4>1, <4>3 DEF ReadIsKept
    <3> QED
      BY <3>1, <3>2, <3>3
  <2>14. CallsOK' /\ CallsKnow'
    BY <1>5, <2>2, <2>11, <2>12, <2>13, CallsKeep DEF RowIs
  <2>15. \A g \in Files : Edits(c, g)' => Edits(c, g)
    BY <1>1, <2>2, <2>5, <2>9 DEF Edits, RowIs, Simple, Op, File
  <2>16. LocksHeld'
    BY <1>7, <2>2, <2>15, LocksKeep DEF RowIs, LocksHeld, LockOf
  <2> QED
    BY <1>6, <2>6, <2>14, <2>16
<1>8. CASE End(c, "failed")
  <2>1. FilesTypeOK'
    BY <1>1, <1>4, <1>8, EndKeeps DEF FilesTypeOK
  <2>2. CallsOK' /\ CallsKnow'
    BY <1>5, <1>8, EndKeeps, CallsKeep
  <2>3. LocksHeld'
    BY <1>8, EndKeeps, LocksKeep
  <2> QED
    BY <1>6, <2>1, <2>2, <2>3
<1> QED
  BY <1>7, <1>8 DEF Read

\* After a hunk of a patch the call is at the next, or done.
LEMMA PatchGoesOn ==
    ASSUME NEW c \in Calls, CallOK(c), Live(c), call[c].pc = "applying", IsPatch(c),
           NEW n \in Nat, NEW p,
           RowIs(c, p, n, call[c].old),
           n = IF IsLast(c) THEN 1 ELSE call[c].i + 1,
           p = IF ~IsLast(c) THEN "applying" ELSE "done",
           \A g \in Files \ {Target(c)} : disk'[g] = disk[g] /\ news'[c][g] = news[c][g],
           ReadIsKept(c)
    PROVE  /\ CallOK(c)' /\ (Live(c)' => KnowsFile(c)' /\ ReadIsKept(c)')
           /\ \A f \in Files : ~Edits(c, f)'
<1> DEFINE i == call[c].i
           h == call[c].hunks
<1>1. h \in Batches /\ i \in DOMAIN h /\ i \in Nat
  BY FilesOfCall, BatchFacts
<1>2. \A j \in DOMAIN h : h[j].op \notin Simple
  BY OneHunk DEF IsPatch, Op
<1>3. Op(c)' = h[n].op /\ File(c)' = h[n].file
  BY DEF RowIs, Op, File
<1>4. n \in DOMAIN h
  BY <1>1, BatchFacts DEF IsLast
<1>5. CallOK(c)'
  BY <1>1, <1>2, <1>3, <1>4 DEF CallOK, Live, RowIs, Simple
<1>6. KnowsFile(c)'
  BY <1>2, <1>3, <1>4 DEF KnowsFile, Simple
<1>7. ASSUME Live(c)' PROVE ReadIsKept(c)'
  <2>1. p = "applying" /\ n = i + 1
    BY <1>7 DEF Live, RowIs
  <2> SUFFICES ASSUME NEW j \in DOMAIN h, j >= n, h[j].op \in {"edit", "update"}
               PROVE  disk'[h[j].file].has \subseteq call[c].old[j] \cup news'[c][h[j].file]
    BY <2>1 DEF ReadIsKept, RowIs, HasRead
  <2>2. j # i /\ HasRead(c, j)
    BY <1>1, <2>1, BatchFacts DEF HasRead
  <2>3. h[j].file = h[j].to /\ h[j].to # h[i].to /\ h[j].file \in Files
    BY <1>1, <2>2, BatchFacts, FilesOfCall
  <2> QED
    BY <2>2, <2>3 DEF ReadIsKept, Target
<1>8. \A f \in Files : ~Edits(c, f)'
  BY <1>2, <1>3, <1>4 DEF Edits, Simple
<1> QED
  BY <1>5, <1>6, <1>7, <1>8

LEMMA ApplyInv == ASSUME FilesInv, NEW c \in Calls, Apply(c) PROVE FilesInv'
<1> USE DEF FilesInv
<1> DEFINE i == call[c].i
           h == call[c].hunks
           n == IF IsLast(c) THEN 1 ELSE i + 1
           p == IF ~IsLast(c) THEN "applying" ELSE IF IsPatch(c) THEN "done" ELSE "stamping"
<1>1. /\ call[c].pc = "applying" /\ UNCHANGED <<reads, lock, gen, acted, seen, noted>>
      /\ call' = [call EXCEPT ![c].i = n, ![c].pc = p]
  BY DEF Apply
<1>2. /\ CallOK(c) /\ Live(c) /\ Op(c) # "read" /\ KnowsFile(c) /\ ReadIsKept(c)
  BY <1>1 DEF CallsOK, CallOK, Live, CallsKnow
<1>3. /\ File(c) \in Files /\ Target(c) \in Files
      /\ h \in Batches /\ i \in DOMAIN h /\ i \in Nat
      /\ Op(c) # "move" => Target(c) = File(c)
  BY <1>2, FilesOfCall, RowFields, BatchFacts DEF Op, Target, File
<1>4. n \in Nat /\ p \in Pcs
  BY <1>3 DEF Pcs
<1>5. call' \in [Calls -> CallRows] /\ RowIs(c, p, n, call[c].old)
  BY <1>1, <1>4, ApplyRow
<1>6. NotedKeeps
  BY <1>1 DEF NotedKeeps
<1>7. CASE Op(c) \notin {"delete", "drop"} /\ Change(Target(c), c, Result(c))
  <2> DEFINE f == Target(c)
  <2>1. Result(c) \in SUBSET Marks /\ c \in Marks
    BY <1>2 DEF Result, CallOK, Marks
  <2>2. /\ disk' \in [Files -> Disks] /\ news' \in [Calls -> [Files -> SUBSET Marks]]
        /\ disk'[f].there /\ disk'[f].has = Result(c) /\ disk'[f].at = disk[f].at + 1
        /\ \A g \in Files \ {f} : disk'[g] = disk[g]
        /\ \A d \in Calls, g \in Files \ {f} : news'[d][g] = news[d][g]
        /\ news'[c][f] = news[c][f] \cap Result(c)
        /\ \A d \in Calls \ {c} : Live(d) => Noticed(d)
    BY <1>3, <1>7, <2>1, ChangeFacts
  <2>3. FilesTypeOK'
    BY <1>1, <1>5, <2>2 DEF FilesTypeOK
  <2>4. DisksOK' /\ StampsTell'
    BY <1>1, <1>3, <2>2, DisksMove
  <2>5. CASE IsPatch(c)
    <3>1. /\ CallOK(c)' /\ (Live(c)' => KnowsFile(c)' /\ ReadIsKept(c)')
          /\ \A g \in Files : ~Edits(c, g)'
      BY <1>1, <1>2, <1>4, <1>5, <2>2, <2>5, PatchGoesOn
    <3>2. CallsOK' /\ CallsKnow'
      BY <1>5, <1>6, <2>2, <3>1, CallsKeep DEF RowIs
    <3>3. LocksHeld'
      BY <1>1, <1>5, <3>1, LocksKeep DEF RowIs
    <3> QED
      BY <2>3, <2>4, <3>2, <3>3
  <2>6. CASE ~IsPatch(c)
    <3>1. Op(c) \in {"edit", "create", "write"}
      BY <1>2, <2>6 DEF IsPatch, Simple
    <3>2. DOMAIN h = {1} /\ i = 1 /\ IsLast(c) /\ n = 1 /\ p = "stamping" /\ f = File(c)
      BY <1>2, <1>3, <2>6, OneHunk DEF IsPatch, Op
    <3> HIDE DEF n, p
    <3>3. Op(c)' = Op(c) /\ File(c)' = File(c)
      BY <1>5, <3>2 DEF RowIs, Op, File
    <3>4. CallOK(c)'
      BY <1>2, <1>5, <3>1, <3>2, <3>3 DEF CallOK, Live, RowIs, Simple
    <3>6. KnowsFile(c)'
      BY <1>5, <3>1, <3>2, <3>3 DEF KnowsFile, RowIs
    <3>7. ReadIsKept(c)'
      BY <1>5, <3>1, <3>2, <3>3 DEF ReadIsKept, HasRead, RowIs
    <3>8. CallsOK' /\ CallsKnow'
      BY <1>5, <1>6, <2>2, <3>4, <3>6, <3>7, CallsKeep DEF RowIs
    <3>9. \A g \in Files : Edits(c, g)' => Edits(c, g)
      BY <1>1, <1>5, <3>3 DEF Edits, RowIs
    <3>10. LocksHeld'
      BY <1>1, <1>5, <3>9, LocksKeep DEF RowIs, LocksHeld, LockOf
    <3> QED
      BY <2>3, <2>4, <3>8, <3>10
  <2> QED
    BY <2>5, <2>6
<1>8. CASE Op(c) \in {"delete", "drop"} /\ disk[File(c)].there /\ Unlink(File(c))
  <2> DEFINE f == File(c)
  <2>1. /\ disk' \in [Files -> Disks] /\ news' = news
        /\ ~disk'[f].there /\ disk'[f].has = {} /\ disk'[f].at = disk[f].at + 1
        /\ \A g \in Files \ {f} : disk'[g] = disk[g]
        /\ \A d \in Calls : Noticed(d)
    BY <1>3, <1>8, UnlinkFacts
  <2>2. FilesTypeOK'
    BY <1>1, <1>5, <2>1 DEF FilesTypeOK
  <2>3. DisksOK' /\ StampsTell'
    BY <1>1, <1>3, <2>1, DisksMove
  <2>4. IsPatch(c) /\ Target(c) = f
    BY <1>3, <1>8 DEF IsPatch, Simple
  <2>5. /\ CallOK(c)' /\ (Live(c)' => KnowsFile(c)' /\ ReadIsKept(c)')
        /\ \A g \in Files : ~Edits(c, g)'
    BY <1>1, <1>2, <1>4, <1>5, <2>1, <2>4, PatchGoesOn
  <2>6. CallsOK' /\ CallsKnow'
    BY <1>5, <1>6, <2>1, <2>5, CallsKeep DEF RowIs
  <2>7. LocksHeld'
    BY <1>1, <1>5, <2>5, LocksKeep DEF RowIs
  <2> QED
    BY <2>2, <2>3, <2>6, <2>7
<1> QED
  BY <1>7, <1>8 DEF Apply

LEMMA ApplyFailsInv == ASSUME FilesInv, NEW c \in Calls, ApplyFails(c) PROVE FilesInv'
<1> USE DEF FilesInv
<1>1. End(c, "failed") /\ UNCHANGED <<disk, reads, gen, acted, seen, noted, news>>
  BY DEF ApplyFails
<1>2. NotedKeeps /\ \A d \in Calls \ {c} : Noticed(d)
  BY <1>1, Quiet DEF NotedKeeps
<1>3. FilesTypeOK'
  BY <1>1, EndKeeps DEF FilesTypeOK
<1>4. CallsOK' /\ CallsKnow'
  BY <1>1, <1>2, EndKeeps, CallsKeep
<1>5. LocksHeld'
  BY <1>1, EndKeeps, LocksKeep
<1>6. DisksOK' /\ StampsTell'
  BY <1>1, <1>2, DisksKeep
<1> QED
  BY <1>3, <1>4, <1>5, <1>6

LEMMA StampInv == ASSUME FilesInv, NEW c \in Calls, Stamp(c) PROVE FilesInv'
<1> USE DEF FilesInv
<1> DEFINE s == call[c].session
           f == File(c)
           shown == IF Op(c) = "read" THEN call[c].old[1] ELSE {c}
<1>1. /\ call[c].pc = "stamping" /\ disk' = disk /\ Look(c) /\ End(c, "done")
      /\ reads' = [reads EXCEPT ![s][f] = {Time(f)}]
      /\ seen' = [seen EXCEPT ![s][f] = @ \cup shown]
      /\ noted' = [noted EXCEPT ![s][f] = disk[f].has] /\ gen' = gen
  BY DEF Stamp
<1>2. CallOK(c) /\ Live(c) /\ Op(c) \in Simple /\ KnowsFile(c) /\ ReadIsKept(c)
  BY <1>1 DEF CallsOK, CallOK, Live, CallsKnow
<1>3. f \in Files /\ s \in Sessions
  BY <1>2, FilesOfCall, RowFields
<1>4. DOMAIN call[c].hunks = {1} /\ call[c].i = 1
  BY <1>2, OneHunk DEF CallOK, Op
<1>5. shown \in SUBSET Marks /\ Time(f) \in Nat
  BY <1>2, <1>3, <1>4 DEF CallOK, Marks, Time, FilesTypeOK, Disks
<1> HIDE DEF shown
<1>6. /\ news' \in [Calls -> [Files -> SUBSET Marks]]
      /\ \A d \in Calls \ {c} : news'[d] = news[d]
  BY <1>1, <1>3, LookFacts
<1>7. /\ reads' \in [Sessions -> [Files -> SUBSET Nat]]
      /\ seen' \in [Sessions -> [Files -> SUBSET Marks]]
      /\ noted' \in [Sessions -> [Files -> SUBSET Marks]]
  BY <1>1, <1>3, <1>5 DEF FilesTypeOK, Disks
<1>8. /\ reads'[s][f] = {Time(f)}
      /\ noted'[s][f] = disk[f].has
      /\ \A t \in Sessions, g \in Files : t # s \/ g # f =>
            reads'[t][g] = reads[t][g] /\ noted'[t][g] = noted[t][g]
  BY <1>1, <1>3 DEF FilesTypeOK
<1>9. FilesTypeOK'
  BY <1>1, <1>6, <1>7, EndKeeps DEF FilesTypeOK
<1>10. NotedKeeps
  BY <1>1, <1>8 DEF NotedKeeps
<1>11. CallsOK' /\ CallsKnow'
  BY <1>1, <1>6, <1>10, EndKeeps, Quiet, CallsKeep
<1>12. LocksHeld'
  BY <1>1, EndKeeps, LocksKeep
<1>13. DisksOK'
  <2>1. Time(f) <= disk[f].at
    BY <1>3 DEF Time, DisksOK, FilesTypeOK, Disks
  <2> QED
    BY <1>1, <1>8, <2>1 DEF DisksOK
<1>14. StampsTell'
  BY <1>1, <1>8 DEF StampsTell
<1> QED
  BY <1>9, <1>11, <1>12, <1>13, <1>14

LEMMA MeddleInv == ASSUME FilesInv, NEW u \in Users, Meddle(u) PROVE FilesInv'
<1> USE DEF FilesInv
<1>1. UNCHANGED <<reads, lock, gen, call, seen, noted>>
  BY DEF Meddle
<1>2. PICK f \in Files : \/ Change(f, u, disk[f].has \cup {u})
                         \/ disk[f].there /\ Unlink(f)
  BY DEF Meddle
<1>3. disk[f].has \cup {u} \in SUBSET Marks /\ u \in Marks /\ u \notin Calls
  BY FilesAssumption DEF FilesTypeOK, Disks, Marks
<1>4. /\ disk' \in [Files -> Disks] /\ news' \in [Calls -> [Files -> SUBSET Marks]]
      /\ disk'[f].at = disk[f].at + 1 /\ (~disk'[f].there => disk'[f].has = {})
      /\ \A g \in Files \ {f} : disk'[g] = disk[g]
      /\ \A d \in Calls : Live(d) => Noticed(d)
  <2>1. CASE Change(f, u, disk[f].has \cup {u})
    BY <1>3, <2>1, ChangeFacts
  <2>2. CASE Unlink(f)
    BY <2>2, UnlinkFacts DEF FilesTypeOK
  <2> QED
    BY <1>2, <2>1, <2>2
<1>5. FilesTypeOK'
  BY <1>1, <1>4 DEF FilesTypeOK
<1>6. CallsOK'
  BY <1>1 DEF CallsOK, CallOK, Live, Op
<1>7. NotedKeeps
  BY <1>1 DEF NotedKeeps
<1>8. CallsKnow'
  <2>1. ASSUME NEW d \in Calls, Live(d)' PROVE KnowsFile(d)' /\ ReadIsKept(d)'
    <3>1. Live(d) /\ call'[d] = call[d]
      BY <1>1, <2>1 DEF Live
    <3> QED
      BY <1>4, <1>7, <3>1, OthersKnow DEF CallsOK, CallsKnow
  <2> QED
    BY <2>1 DEF CallsKnow
<1>9. LocksHeld'
  BY <1>1 DEF LocksHeld, Edits, Op, File, LockOf
<1>10. DisksOK' /\ StampsTell'
  BY <1>1, <1>4, DisksMove
<1> QED
  BY <1>5, <1>6, <1>8, <1>9, <1>10

\* A stamp that is taken away tells nothing; locks are of the states they were asked in.
LEMMA DisposeInv == ASSUME FilesInv, NEW d \in Directories, Dispose(d) PROVE FilesInv'
<1> USE DEF FilesInv
<1>1. /\ UNCHANGED <<disk, lock, call, seen, noted, news>>
      /\ gen[d] < MaxDisposals /\ gen' = [gen EXCEPT ![d] = @ + 1]
      /\ reads' = [s \in Sessions |->
                      IF DirOf[s] = d THEN [f \in Files |-> {}] ELSE reads[s]]
  BY DEF Dispose
<1>2. gen' \in [Directories -> 0..MaxDisposals]
  BY <1>1, FilesAssumption DEF FilesTypeOK
<1>3. reads' \in [Sessions -> [Files -> SUBSET Nat]]
  BY <1>1 DEF FilesTypeOK
<1>4. FilesTypeOK'
  BY <1>1, <1>2, <1>3 DEF FilesTypeOK
<1>5. \A s \in Sessions, f \in Files : reads'[s][f] \in {reads[s][f], {}}
  BY <1>1
<1>6. DisksOK' /\ StampsTell'
  BY <1>1, <1>5, DisksKeep DEF NotedKeeps
<1>7. LocksHeld'
  BY <1>1 DEF LocksHeld, Edits, Op, File, LockOf
<1>8. CallsOK'
  BY <1>1 DEF CallsOK, CallOK, Live, Op
<1>9. ASSUME NEW c \in Calls, Live(c)' PROVE KnowsFile(c)' /\ ReadIsKept(c)'
  <2>1. Live(c) /\ call'[c] = call[c] /\ Noticed(c) /\ NotedKeeps
    BY <1>1, <1>9 DEF Live, Noticed, NotedKeeps
  <2> QED
    BY <2>1, OthersKnow DEF CallsOK, CallsKnow
<1> QED
  BY <1>4, <1>6, <1>7, <1>8, <1>9 DEF CallsKnow

LEMMA FilesInitInv == FilesInit => FilesInv
<1> SUFFICES ASSUME FilesInit PROVE FilesInv
  OBVIOUS
<1>1. \A c \in Calls : call[c] = Resting
  BY DEF FilesInit
<1>2. Resting.pc = "new" /\ Resting.hunks = <<>>
  BY DEF Resting
<1>3. Resting \in CallRows
  <2> DEFINE s == CHOOSE s \in Sessions : TRUE
  <2>1. s \in Sessions
    BY FilesAssumption
  <2>2. <<DirOf[s], 0>> \in Homes
    BY <2>1, FilesAssumption DEF Homes
  <2>3. /\ Resting.pc = "new" /\ Resting.session = s /\ Resting.home = <<DirOf[s], 0>>
        /\ Resting.hunks = <<>> /\ Resting.i = 1 /\ Resting.old = <<>>
        /\ Resting = [pc |-> "new", session |-> s, home |-> <<DirOf[s], 0>>, hunks |-> <<>>,
                      i |-> 1, old |-> <<>>]
    BY DEF Resting
  <2> HIDE DEF s
  <2> QED
    BY <2>1, <2>2, <2>3, NoOld DEF CallRows, Pcs
<1>4. gen \in [Directories -> 0..MaxDisposals]
  BY FilesAssumption DEF FilesInit
<1>5. FilesTypeOK
  BY <1>3, <1>4 DEF FilesInit, FilesTypeOK, Disks
<1>6. CallsOK /\ LocksHeld /\ CallsKnow
  BY <1>1, <1>2 DEF CallsOK, CallOK, Live, LocksHeld, Edits, CallsKnow
<1>7. DisksOK /\ StampsTell
  BY DEF FilesInit, DisksOK, StampsTell
<1> QED
  BY <1>5, <1>6, <1>7 DEF FilesInv

LEMMA FilesStepInv == FilesInv /\ [FilesNext]_filesVars => FilesInv'
<1> SUFFICES ASSUME FilesInv, [FilesNext]_filesVars PROVE FilesInv'
  OBVIOUS
<1>1. ASSUME NEW c \in Calls, Begin(c) \/ CallStep(c) \/ Answer(c) PROVE FilesInv'
  BY <1>1, BeginInv, LockInv, CheckInv, ReadInv, AnswerInv, ApplyInv, ApplyFailsInv, StampInv
     DEF CallStep
<1>2. ASSUME NEW u \in Users, Meddle(u) PROVE FilesInv'
  BY <1>2, MeddleInv
<1>3. ASSUME NEW d \in Directories, Dispose(d) PROVE FilesInv'
  BY <1>3, DisposeInv
<1>4. CASE UNCHANGED filesVars
  <2>1. UNCHANGED <<disk, reads, lock, gen, call, seen, noted, news>>
    BY <1>4 DEF filesVars
  <2>2. FilesTypeOK' /\ LocksHeld'
    BY <2>1 DEF FilesInv, FilesTypeOK, LocksHeld, Edits, Op, File, LockOf
  <2>3. CallsOK'
    BY <2>1 DEF FilesInv, CallsOK, CallOK, Live, Op
  <2>4. DisksOK' /\ StampsTell'
    BY <2>1 DEF FilesInv, DisksOK, StampsTell
  <2>5. CallsKnow'
    <3>1. \A c \in Calls : (Live(c)' <=> Live(c)) /\ (KnowsFile(c)' <=> KnowsFile(c))
      BY <2>1 DEF Live, Op, File, KnowsFile
    <3>2. \A c \in Calls : ReadIsKept(c)' <=> ReadIsKept(c)
      BY <2>1 DEF ReadIsKept, HasRead, Op
    <3> QED
      BY <3>1, <3>2 DEF FilesInv, CallsKnow
  <2> QED
    BY <2>2, <2>3, <2>4, <2>5 DEF FilesInv
<1> QED
  BY <1>1, <1>2, <1>4, <1>3 DEF FilesNext

-----------------------------------------------------------------------------
(* The theorems.                                                           *)

\* The invariant: who edits a file has its lock, in the state in which it asked for it
\* (FileTime.withLock); a stamp that is the file's time was taken of what the file holds
\* (FileTime.assert); and what came into a file since a call looked is all it does not know.
THEOREM FilesInvHolds == FilesSpec => []FilesInv
  BY FilesInitInv, FilesStepInv, PTL DEF FilesSpec

\* FileTime.withLock keeps edits of one file apart under one instance, whichever sessions
\* they are of: none changes the file while another is between its look and its stamp.
\* Whatever is disposed of: a call asks for the lock of the state that it began in.
THEOREM EditsKeepEditsHolds == FilesSpec => EditsKeepEdits
<1>1. FilesInv => \A c, d \in Calls :
                     c # d /\ Acts(c, {"edit", "create"}) /\ call[c].home = call[d].home =>
                         ~Edits(d, File(c))
  <2> SUFFICES ASSUME FilesInv, NEW c \in Calls, NEW d \in Calls, c # d,
                      Acts(c, {"edit", "create"}), call[c].home = call[d].home,
                      Edits(d, File(c))
               PROVE  FALSE
    OBVIOUS
  <2>1. CallOK(c) /\ Live(c) /\ call[c].pc = "applying" /\ Op(c) \in {"edit", "create"}
    BY DEF FilesInv, CallsOK, CallOK, Live, Acts
  <2>2. File(c) \in Files /\ call[c].hunks # <<>>
    BY <2>1, FilesOfCall, BatchFacts
  <2>3. Edits(c, File(c))
    BY <2>1, <2>2 DEF Edits
  <2> QED
    BY <2>2, <2>3 DEF FilesInv, LocksHeld, LockOf
<1> QED
  BY FilesInvHolds, <1>1, PTL DEF EditsKeepEdits

\* Edits and updates (edit.ts, apply_patch.ts) lose nothing, writes (write.ts) only what
\* the file held when their session's stamp was taken, but for what came between the
\* call's own look and its change.  With FileTime.assert switched off a write keeps nothing.
THEOREM NewsIsKeptHolds == ASSUME Checking PROVE FilesSpec => NewsIsKept
<1> DEFINE P == \A c \in Calls :
                  LET s == call[c].session
                      f == File(c) IN
                  /\ Acts(c, {"edit", "update"}) => Lost(f) \subseteq news[c][f]
                  /\ Acts(c, {"write"}) =>
                        Lost(f) \subseteq noted[s][f] \cup news[c][f]
<1>1. FilesInv /\ [FilesNext]_filesVars => P
  <2> SUFFICES ASSUME FilesInv, [FilesNext]_filesVars, NEW c \in Calls,
                      Acts(c, {"edit", "update", "write"})
               PROVE  LET s == call[c].session
                          f == File(c) IN
                      /\ Op(c) \in {"edit", "update"} => Lost(f) \subseteq news[c][f]
                      /\ Op(c) = "write" =>
                            Lost(f) \subseteq noted[s][f] \cup news[c][f]
    BY DEF Acts
  <2>1. /\ FilesTypeOK /\ CallOK(c) /\ Live(c) /\ KnowsFile(c) /\ ReadIsKept(c)
        /\ call[c].pc = "applying" /\ Op(c) \in {"edit", "update", "write"}
    BY DEF FilesInv, CallsOK, CallsKnow, Live, Acts
  <2>2. /\ File(c) \in Files /\ Target(c) = File(c)
        /\ call[c].hunks \in Batches /\ call[c].i \in DOMAIN call[c].hunks /\ call[c].i \in Nat
    BY <2>1, FilesOfCall, RowFields, BatchFacts DEF Op, Target, File
  <2>3. Apply(c)
    <3>1. ASSUME NEW d \in Calls \ {c}, Begin(d) \/ CallStep(d) \/ Answer(d) PROVE call'[c] = call[c]
      BY <2>1, <3>1 DEF Begin, CallStep, Answer, Lock, Check, Read, Apply, ApplyFails, Stamp, To,
                        End, FilesTypeOK
    <3>2. ASSUME NEW u \in Users, Meddle(u) PROVE call'[c] = call[c]
      BY <3>2 DEF Meddle
    <3>3. ASSUME NEW e \in Directories, Dispose(e) PROVE call'[c] = call[c]
      BY <3>3 DEF Dispose
    <3>4. call'[c] # call[c]
      BY DEF Acts
    <3>5. Begin(c) \/ CallStep(c) \/ Answer(c)
      BY <3>1, <3>2, <3>4, <3>3 DEF FilesNext, filesVars
    <3> QED
      BY <2>1, <3>5 DEF Begin, CallStep, Answer, Lock, Check, Read, ApplyFails, Stamp
  <2>4. Result(c) \in SUBSET Marks /\ c \in Marks
    BY <2>1 DEF Result, CallOK, Marks
  <2>5. disk'[File(c)].has = Result(c)
    BY <2>1, <2>2, <2>3, <2>4, ChangeFacts DEF Apply
  <2>6. Op(c) \in {"edit", "update"} => Lost(File(c)) \subseteq news[c][File(c)]
    <3> SUFFICES ASSUME Op(c) \in {"edit", "update"}
                 PROVE  Lost(File(c)) \subseteq news[c][File(c)]
      OBVIOUS
    <3> DEFINE i == call[c].i
    <3>1. HasRead(c, i) /\ call[c].hunks[i].op \in {"edit", "update"}
      BY <2>1, <2>2 DEF HasRead, Op
    <3>2. disk[call[c].hunks[i].file].has
              \subseteq call[c].old[i] \cup news[c][call[c].hunks[i].file]
      BY <2>1, <2>2, <3>1 DEF ReadIsKept
    <3>3. disk[File(c)].has \subseteq call[c].old[i] \cup news[c][File(c)]
      BY <3>2 DEF File
    <3>4. call[c].old[i] \subseteq disk'[File(c)].has
      BY <2>5 DEF Result
    <3> QED
      BY <3>3, <3>4 DEF Lost
  <2>7. Op(c) = "write" =>
            Lost(File(c)) \subseteq noted[call[c].session][File(c)] \cup news[c][File(c)]
    BY <2>1 DEF KnowsFile, Lost
  <2> QED
    BY <2>6, <2>7
<1>2. FilesSpec => [][P]_filesVars
  BY FilesInvHolds, <1>1, PTL DEF FilesSpec
<1> QED
  BY <1>2 DEF NewsIsKept

-----------------------------------------------------------------------------
(* Flock.                                                                  *)

Stages ==
    {"idle", "trying", "claim", "sweep", "spoilt"} \cup Making \cup Owning \cup Breaking
        \cup Over

Dirs == [there: BOOLEAN, of: Procs \cup {NoProc}, beat: Procs \cup {NoProc},
         meta: Procs \cup {NoProc}, old: BOOLEAN]

Breakers == [there: BOOLEAN, of: Procs \cup {NoProc}, old: BOOLEAN]

FlockTypeOK ==
    /\ dir \in Dirs /\ breaker \in Breakers
    /\ stage \in [Procs -> Stages]
    /\ delays \in Nat /\ swept \in BOOLEAN

\* Those to whom the directory belongs: they made it and have not yet removed it.
Own == Making \cup {"leaveWon"} \cup Owning

\* Who breaks the lock is the one whose breaker is there.
BreakerIsMine ==
    \A p \in Procs : stage[p] \in Breaking => breaker.there /\ breaker.of = p

\* Who made the lock and has not given it back finds it there, young, and with nothing
\* in it that another process wrote.
LockIsMine ==
    \A p \in Procs : stage[p] \in Own =>
        /\ dir.there /\ dir.of = p /\ ~dir.old
        /\ dir.beat = IF stage[p] \in {"leaveWon", "beat"} THEN NoProc ELSE p
        /\ dir.meta = IF stage[p] \in Owning THEN p ELSE NoProc

\* What is going to be cleared is still the stale lock.
ClearsStale == \A p \in Procs : stage[p] = "clear" => dir.there /\ dir.old

NoneSpoilt == \A p \in Procs : stage[p] # "spoilt"

Sound == BreakerIsMine /\ LockIsMine /\ ClearsStale /\ NoneSpoilt

FlockInv == FlockTypeOK /\ (delays = 0 /\ ~swept => Sound)

USE FlockAssumption

LEMMA DirsMade ==
    /\ NoDir \in Dirs /\ NoBreaker \in Breakers
    /\ \A p \in Procs : [there |-> TRUE, of |-> p, old |-> FALSE] \in Breakers
    /\ \A p \in Procs :
          [there |-> TRUE, of |-> p, beat |-> NoProc, meta |-> NoProc, old |-> FALSE] \in Dirs
  BY DEF Dirs, Breakers, NoDir, NoBreaker

LEMMA DirsChanged ==
    ASSUME NEW d \in Dirs, NEW b \in Breakers
    PROVE  /\ \A p \in Procs : /\ [d EXCEPT !.beat = p, !.old = FALSE] \in Dirs
                              /\ [d EXCEPT !.meta = p] \in Dirs
           /\ [d EXCEPT !.old = FALSE] \in Dirs
           /\ [d EXCEPT !.old = TRUE] \in Dirs
           /\ [b EXCEPT !.old = TRUE] \in Breakers
  BY DEF Dirs, Breakers

LEMMA FlockInitInv == FlockInit => FlockInv
<1> SUFFICES ASSUME FlockInit PROVE FlockInv
  OBVIOUS
<1>1. FlockTypeOK
  BY DirsMade DEF FlockInit, FlockTypeOK, Stages
<1>2. Sound
  BY DEF FlockInit, Sound, BreakerIsMine, LockIsMine, ClearsStale, NoneSpoilt, Own, Making,
         Owning, Breaking
<1> QED
  BY <1>1, <1>2 DEF FlockInv

\* What a step can do to each variable.
LEMMA FlockChanges ==
    ASSUME [FlockNext]_flockVars
    PROVE  /\ \/ dir' = dir \/ dir' = NoDir \/ dir' = [dir EXCEPT !.old = FALSE]
              \/ dir' = [dir EXCEPT !.old = TRUE]
              \/ \E p \in Procs : Mkdir(p) \/ dir' = [dir EXCEPT !.beat = p, !.old = FALSE]
                                  \/ dir' = [dir EXCEPT !.meta = p]
           /\ \/ breaker' = breaker \/ breaker' = NoBreaker
              \/ breaker' = [breaker EXCEPT !.old = TRUE]
              \/ \E p \in Procs : breaker' = [there |-> TRUE, of |-> p, old |-> FALSE]
           /\ delays' = delays \/ delays' = delays + 1
           /\ swept' = swept \/ swept' = TRUE
<1> USE DEF FlockNext, FlockStep, flockVars, Want, GiveUp, FindStale, CheckToken, Finish,
            Crash, Acquire, Clear, Make, Spoil, Remove, Claim, Yield, Sweep, Recheck, Leave,
            Beat, Meta, Touch, AgeLock, AgeBreaker
<1>1. \/ dir' = dir \/ dir' = NoDir \/ dir' = [dir EXCEPT !.old = FALSE]
      \/ dir' = [dir EXCEPT !.old = TRUE]
      \/ \E p \in Procs : Mkdir(p) \/ dir' = [dir EXCEPT !.beat = p, !.old = FALSE]
                          \/ dir' = [dir EXCEPT !.meta = p]
  BY Zenon
<1>2. \/ breaker' = breaker \/ breaker' = NoBreaker
      \/ breaker' = [breaker EXCEPT !.old = TRUE]
      \/ \E p \in Procs : breaker' = [there |-> TRUE, of |-> p, old |-> FALSE]
  BY Zenon
<1>3. delays' = delays \/ delays' = delays + 1
  BY Zenon DEF Ages
<1>4. swept' = swept \/ swept' = TRUE
  BY Zenon
<1> QED
  BY <1>1, <1>2, <1>3, <1>4, Zenon

LEMMA StagesChange ==
    ASSUME FlockTypeOK, [FlockNext]_flockVars
    PROVE  stage' \in [Procs -> Stages]
<1>1. \A p \in Procs, w \in Stages : [stage EXCEPT ![p] = w] \in [Procs -> Stages]
  BY DEF FlockTypeOK
<1> QED
  BY <1>1, ZenonT(40) DEF FlockTypeOK, Goes, Stages, Making, Owning, Breaking, Over, FlockNext,
              FlockStep, flockVars, Want, GiveUp, FindStale, CheckToken, Finish, Crash, Acquire, Clear,
              Make, Spoil, Remove, Claim, Yield, Sweep, Recheck, Leave, Beat, Meta, Touch,
              AgeLock, AgeBreaker

LEMMA FlockTyped == FlockTypeOK /\ [FlockNext]_flockVars => FlockTypeOK'
<1> SUFFICES ASSUME FlockTypeOK, [FlockNext]_flockVars PROVE FlockTypeOK'
  OBVIOUS
<1>1. dir' \in Dirs
  BY FlockChanges, DirsMade, DirsChanged DEF FlockTypeOK, Mkdir
<1>2. breaker' \in Breakers
  BY FlockChanges, DirsMade, DirsChanged DEF FlockTypeOK
<1>3. delays' \in Nat
  <2>1. \A n \in Nat : n + 1 \in Nat
    OBVIOUS
  <2> QED
    BY <2>1, FlockChanges, Zenon DEF FlockTypeOK
<1>4. swept' \in BOOLEAN
  BY FlockChanges, Zenon DEF FlockTypeOK
<1> QED
  BY <1>1, <1>2, <1>3, <1>4, StagesChange, Zenon DEF FlockTypeOK

\* The conditions under which the lock is sound never come back once they are gone.
LEMMA ConditionsStay ==
    ASSUME FlockTypeOK, [FlockNext]_flockVars, delays' = 0, ~swept'
    PROVE  delays = 0 /\ ~swept
<1>1. \A n \in Nat : n + 1 # 0
  OBVIOUS
<1> QED
  BY <1>1, FlockChanges, Zenon DEF FlockTypeOK

LEMMA FlockSound ==
    ASSUME FlockTypeOK, Sound, [FlockNext]_flockVars, delays = 0, delays' = 0, ~swept'
    PROVE  Sound'
<1> USE DEF FlockTypeOK, Goes, Own, Making, Owning, Breaking, Over, Stages,
            Dirs, Breakers, Sound, BreakerIsMine, LockIsMine, ClearsStale, NoneSpoilt
<1>1. ASSUME NEW p \in Procs, Want(p) \/ GiveUp(p) \/ FindStale(p) \/ Yield(p) \/ Crash(p)
      PROVE  Sound'
  BY <1>1 DEF Want, GiveUp, FindStale, Yield, Crash
<1>2. ASSUME NEW p \in Procs, Finish(p) \/ CheckToken(p) PROVE Sound'
  BY <1>2 DEF Finish, CheckToken
<1>3. ASSUME NEW p \in Procs, Acquire(p) PROVE Sound'
  BY <1>3 DEF Acquire, Mkdir
<1>4. ASSUME NEW p \in Procs, Claim(p) PROVE Sound'
  BY <1>4 DEF Claim
<1>5. ASSUME NEW p \in Procs, Sweep(p) PROVE Sound'
  BY <1>5 DEF Sweep
<1>6. ASSUME NEW p \in Procs, Recheck(p) PROVE Sound'
  BY <1>6 DEF Recheck, Stale
<1>7. ASSUME NEW p \in Procs, Clear(p) PROVE Sound'
  <2>1. \A q \in Procs : stage[q] \notin Own
    BY <1>7 DEF Clear
  <2>2. \A q \in Procs \ {p} : stage[q] # "clear"
    BY <1>7 DEF Clear
  <2> QED
    BY <1>7, <2>1, <2>2 DEF Clear, NoDir
<1>8. ASSUME NEW p \in Procs, Make(p) PROVE Sound'
  <2>1. CASE dir.there
    BY <1>8, <2>1 DEF Make
  <2>2. CASE ~dir.there
    BY <1>8, <2>2 DEF Make, Mkdir
  <2> QED
    BY <2>1, <2>2
<1>9. ASSUME NEW p \in Procs, Leave(p) PROVE Sound'
  <2>1. \A q \in Procs \ {p} : stage[q] \notin Breaking
    BY <1>9 DEF Leave
  <2> QED
    BY <1>9, <2>1 DEF Leave, NoBreaker
<1>10. ASSUME NEW p \in Procs, Beat(p) PROVE Sound'
  <2>1. dir.there /\ dir.of = p /\ dir.beat = NoProc /\ dir.meta = NoProc /\ ~dir.old
    BY <1>10 DEF Beat
  <2>2. dir' = [dir EXCEPT !.beat = p, !.old = FALSE] /\ stage' = [stage EXCEPT ![p] = "meta"]
    BY <1>10, <2>1 DEF Beat
  <2>3. dir'.there /\ dir'.of = p /\ dir'.beat = p /\ dir'.meta = NoProc /\ ~dir'.old
    BY <2>1, <2>2
  <2>4. \A q \in Procs \ {p} : stage[q] \notin Own /\ stage[q] # "clear"
    BY <2>1
  <2> QED
    BY <1>10, <2>2, <2>3, <2>4 DEF Beat
<1>11. ASSUME NEW p \in Procs, Meta(p) PROVE Sound'
  BY <1>11 DEF Meta
<1>12. ASSUME NEW p \in Procs, Spoil(p) PROVE Sound'
  BY <1>12 DEF Spoil
<1>13. ASSUME NEW p \in Procs, Touch(p) PROVE Sound'
  BY <1>13 DEF Touch
<1>14. ASSUME NEW p \in Procs, Remove(p) PROVE Sound'
  <2>1. \A q \in Procs \ {p} : stage[q] \notin Own
    BY <1>14 DEF Remove
  <2>2. \A q \in Procs : stage[q] # "clear"
    BY <1>14 DEF Remove
  <2> QED
    BY <1>14, <2>1, <2>2 DEF Remove, NoDir
<1>15. CASE AgeLock
  <2>1. \A q \in Procs : stage[q] \notin Own
    BY <1>15 DEF AgeLock, Ages
  <2> QED
    BY <1>15, <2>1 DEF AgeLock
<1>16. CASE AgeBreaker
  BY <1>16 DEF AgeBreaker
<1>17. CASE UNCHANGED flockVars
  BY <1>17 DEF flockVars
<1> QED
  BY <1>1, <1>2, <1>3, <1>4, <1>5, <1>6, <1>7, <1>8, <1>9, <1>10, <1>11, <1>12, <1>13,
     <1>14, <1>15, <1>16, <1>17 DEF FlockNext, FlockStep

\* While no process is held up and no breaker swept, whoever is at work with the lock
\* directory is the one that made it, and whoever breaks the lock holds the breaker.
THEOREM FlockInvHolds == FlockSpec => []FlockInv
<1>1. FlockInv /\ [FlockNext]_flockVars => FlockInv'
  BY FlockTyped, ConditionsStay, FlockSound DEF FlockInv
<1> QED
  BY FlockInitInv, <1>1, PTL DEF FlockSpec

\* Two processes never hold the lock of util/flock.ts at once, and owners or breakers that
\* crash anywhere do not change that: for any number of processes and of crashes.
THEOREM OneOwnerHolds == FlockSpec => []OneOwner
<1>1. FlockInv => OneOwner
  BY DEF FlockInv, OneOwner, Holders, Sound, LockIsMine, Own, Owning
<1> QED
  BY FlockInvHolds, <1>1, PTL

\* One process at a time clears a stale lock away and makes it anew, when no breaker was
\* swept.
THEOREM OneCleansUpHolds == FlockSpec => [](~swept => OneCleansUp)
<1>1. FlockInv => (~swept => OneCleansUp)
  BY DEF FlockInv, OneCleansUp, Sound, BreakerIsMine, Breaking
<1> QED
  BY FlockInvHolds, <1>1, PTL

-----------------------------------------------------------------------------
USE IdentifierAssumption

-----------------------------------------------------------------------------
(* Identifier: the arithmetic of ids.                                      *)

LEMMA Remainder ==
    ASSUME NEW S \in Nat \ {0}, NEW k \in Nat, NEW m \in Nat, m < S
    PROVE  /\ (k * S + m) % S = m
           /\ (k * S + m) \div S = k
  OBVIOUS

LEMMA Quotient ==
    ASSUME NEW S \in Nat \ {0}, NEW t \in Nat
    PROVE  /\ t \div S \in Nat /\ t % S \in Nat
           /\ \E q \in Nat, r \in Nat : t = q * S + r /\ r < S /\ q = t \div S /\ r = t % S
<1>1. t \div S \in Nat /\ t % S \in Nat /\ t % S < S
  OBVIOUS
<1>2. PICK q \in Nat, r \in Nat : q = t \div S /\ r = t % S
  BY <1>1
<1>3. t = S * q + r
  BY <1>2
<1>4. t = q * S + r /\ r < S
  BY <1>1, <1>2, <1>3
<1> QED
  BY <1>1, <1>2, <1>4, Zenon

\* Of time and number, what is kept is the time since the bits started over, and the number.
LEMMA EncodeKeeps ==
    ASSUME NEW t \in Nat, NEW n \in Nat, n < PerTick
    PROVE  /\ Encode(t, n, FALSE) = (t % Wrap) * PerTick + n
           /\ Encode(t, n, TRUE) = Space - 1 - ((t % Wrap) * PerTick + n)
<1>1. PICK q \in Nat, r \in Nat : t = q * Wrap + r /\ r < Wrap /\ q = t \div Wrap /\ r = t % Wrap
  BY Quotient
<1>2. t * PerTick + n = q * (Wrap * PerTick) + (r * PerTick + n)
  <2>1. t = q * Wrap + r
    BY <1>1
  <2>2. (q * Wrap + r) * PerTick = q * (Wrap * PerTick) + r * PerTick
    OBVIOUS
  <2> QED
    BY <2>1, <2>2
<1>3. r * PerTick + n \in Nat /\ r * PerTick + n < Wrap * PerTick
  <2>1. (r + 1) * PerTick <= Wrap * PerTick
    BY <1>1
  <2> QED
    BY <1>1, <2>1
<1>4. Wrap * PerTick \in Nat \ {0}
  OBVIOUS
<1>5. (q * (Wrap * PerTick) + (r * PerTick + n)) % (Wrap * PerTick) = r * PerTick + n
  BY <1>1, <1>3, <1>4, Remainder
<1> QED
  BY <1>1, <1>2, <1>5 DEF Encode, Space

\* Ids of the same round of the bits are in the order of time and number.
LEMMA EncodeRises ==
    ASSUME NEW t \in Nat, NEW u \in Nat, NEW n \in Nat, NEW m \in Nat, n < PerTick, m < PerTick,
           t \div Wrap = u \div Wrap, t < u \/ (t = u /\ n < m)
    PROVE  /\ Encode(t, n, FALSE) < Encode(u, m, FALSE)
           /\ Encode(u, m, TRUE) < Encode(t, n, TRUE)
<1>t. PICK q \in Nat, r \in Nat : t = q * Wrap + r /\ r < Wrap /\ q = t \div Wrap /\ r = t % Wrap
  BY Quotient
<1>u. PICK p \in Nat, s \in Nat : u = p * Wrap + s /\ s < Wrap /\ p = u \div Wrap /\ s = u % Wrap
  BY Quotient
<1>1. q = p
  BY <1>t, <1>u
<1>2. r < s \/ (r = s /\ n < m)
  BY <1>1, <1>t, <1>u
<1>3. r * PerTick + n < s * PerTick + m
  <2>1. CASE r = s /\ n < m
    BY <1>1, <2>1
  <2>2. CASE r < s
    <3>1. (r + 1) * PerTick <= s * PerTick
      BY <1>1, <2>2
    <3> QED
      BY <1>1, <3>1
  <2> QED
    BY <1>2, <2>1, <2>2
<1>4. /\ Encode(t, n, FALSE) = r * PerTick + n /\ Encode(u, m, FALSE) = s * PerTick + m
      /\ Encode(t, n, TRUE) = Space - 1 - (r * PerTick + n)
      /\ Encode(u, m, TRUE) = Space - 1 - (s * PerTick + m)
  <2>1. /\ Encode(t, n, FALSE) = (t % Wrap) * PerTick + n
        /\ Encode(u, m, FALSE) = (u % Wrap) * PerTick + m
        /\ Encode(t, n, TRUE) = Space - 1 - ((t % Wrap) * PerTick + n)
        /\ Encode(u, m, TRUE) = Space - 1 - ((u % Wrap) * PerTick + m)
    BY EncodeKeeps
  <2> QED
    BY <1>t, <1>u, <2>1, Zenon
<1>5. r * PerTick + n \in Nat /\ s * PerTick + m \in Nat /\ Space \in Nat
  BY <1>1 DEF Space
<1> DEFINE x == r * PerTick + n
           y == s * PerTick + m
<1>6. /\ x \in Nat /\ y \in Nat /\ Space \in Nat /\ x < y
      /\ Encode(t, n, FALSE) = x /\ Encode(u, m, FALSE) = y
      /\ Encode(t, n, TRUE) = Space - 1 - x /\ Encode(u, m, TRUE) = Space - 1 - y
  BY <1>3, <1>4, <1>5
<1> HIDE DEF x, y
<1>7. Space - 1 - y < Space - 1 - x
  BY <1>6
<1> QED
  BY <1>6, <1>7, Zenon

-----------------------------------------------------------------------------
(* Identifier: its invariant.                                              *)

Ids == [id: Int, descending: BOOLEAN, time: Nat, number: Nat, backs: Nat, cleanups: Nat]

IdTypeOK ==
    /\ clock \in Nat /\ clock >= Retention
    /\ lastTimestamp \in Nat /\ counter \in Nat /\ backs \in Nat /\ cleanups \in Nat
    /\ given \in Seq(Ids)
    /\ outputs \in SUBSET [id: Int, time: Nat]
    /\ cleaner \in [at: {"rest", "list", "remove"}, cutoff: Int, listed: SUBSET [id: Int, time: Nat]]

\* What an id tells of its making, and of the time and count since.
GivenOK(g) ==
    /\ g.id = Encode(g.time, g.number, g.descending)
    /\ g.backs <= backs /\ g.cleanups <= cleanups
    /\ g.backs = backs => g.time <= clock
    /\ g.backs = backs /\ g.cleanups = cleanups =>
          /\ g.time <= lastTimestamp /\ lastTimestamp <= clock
          /\ g.time = lastTimestamp => g.number <= counter

\* As long as the clock is not set back times do not fall, and of the same time, as long
\* as no cleanup comes between, the numbers rise.
Later(a, b) ==
    a.backs = b.backs =>
        /\ a.time <= b.time
        /\ a.time = b.time /\ a.cleanups = b.cleanups => a.number < b.number

IdInv ==
    /\ IdTypeOK
    /\ \A i \in DOMAIN given : GivenOK(given[i])
    /\ \A i, j \in DOMAIN given : i < j => Later(given[i], given[j])

LEMMA IdInitInv == IdInit => IdInv
  BY DEF IdInit, IdInv, IdTypeOK, AtRest, Ids

LEMMA NumberIsNat == ASSUME IdTypeOK, NEW time \in Nat PROVE Number(time) \in Nat
  BY DEF IdTypeOK, Number

LEMMA EncodeIsInt ==
    ASSUME NEW t \in Nat, NEW n \in Nat, NEW d \in BOOLEAN
    PROVE  Encode(t, n, d) \in Int /\ Encode(t, n, FALSE) \in Nat
<1> DEFINE x == t * PerTick + n
<1>1. x \in Nat /\ Wrap * PerTick \in Nat \ {0}
  OBVIOUS
<1> HIDE DEF x
<1>2. x % (Wrap * PerTick) \in Nat
  BY <1>1, Quotient
<1> QED
  BY <1>1, <1>2 DEF Encode, Space, x

LEMMA GiveInv ==
    ASSUME IdInv, NEW descending \in BOOLEAN, NEW stored \in BOOLEAN, Give(descending, stored)
    PROVE  IdInv'
<1> DEFINE n == Number(clock)
<1>g. PICK g : g = [id |-> Encode(clock, n, descending), descending |-> descending, time |-> clock,
                    number |-> n, backs |-> backs, cleanups |-> cleanups]
  OBVIOUS
<1>1. IdTypeOK
  BY DEF IdInv
<1>2. n \in Nat /\ Encode(clock, n, descending) \in Int
  BY <1>1, NumberIsNat, EncodeIsInt DEF IdTypeOK
<1>3. /\ lastTimestamp' = clock /\ counter' = n /\ given' = Append(given, g)
      /\ UNCHANGED <<clock, cleaner, backs, cleanups>>
      /\ outputs' \in {outputs, outputs \cup {[id |-> g.id, time |-> clock]}}
  BY <1>g DEF Give, Remember
<1>4. g \in Ids
  BY <1>1, <1>2, <1>g DEF Ids, IdTypeOK
<1>5. IdTypeOK'
  <2>1. given' \in Seq(Ids)
    BY <1>1, <1>3, <1>4 DEF IdTypeOK
  <2>2. outputs' \in SUBSET [id: Int, time: Nat]
    BY <1>1, <1>3, <1>4 DEF IdTypeOK, Ids
  <2> QED
    BY <1>1, <1>2, <1>3, <2>1, <2>2 DEF IdTypeOK
<1>6. /\ DOMAIN given' = DOMAIN given \cup {Len(given) + 1} /\ given'[Len(given) + 1] = g
      /\ \A i \in DOMAIN given : /\ given'[i] = given[i] /\ given[i] \in Ids
                                 /\ i < Len(given) + 1 /\ i \in Nat
      /\ Len(given) \in Nat
  BY <1>1, <1>3, <1>4 DEF IdTypeOK
<1> HIDE DEF n
<1>7. ASSUME NEW i \in DOMAIN given PROVE GivenOK(given[i])' /\ Later(given[i], g)
  <2>1. GivenOK(given[i]) /\ given[i] \in Ids
    BY <1>6 DEF IdInv
  <2>2. GivenOK(given[i])'
    <3>1. /\ given'[i] = given[i] /\ given[i].backs <= backs' /\ given[i].cleanups <= cleanups'
          /\ given[i].backs = backs' => given[i].time <= clock'
      BY <1>1, <1>3, <1>6, <2>1 DEF GivenOK
    <3>2. ASSUME given[i].backs = backs, given[i].cleanups = cleanups, given[i].time = clock
          PROVE  given[i].number <= n
      BY <1>1, <1>2, <2>1, <3>2 DEF GivenOK, Number, IdTypeOK, Ids, n
    <3>3. /\ given[i].id = Encode(given[i].time, given[i].number, given[i].descending)
          /\ given[i].backs = backs => given[i].time <= clock
      BY <2>1 DEF GivenOK
    <3>4. lastTimestamp' <= clock'
      BY <1>1, <1>3 DEF IdTypeOK
    <3> QED
      BY <1>3, <3>1, <3>2, <3>3, <3>4 DEF GivenOK
  <2>3. Later(given[i], g)
    BY <1>1, <1>2, <1>g, <2>1 DEF GivenOK, Later, Number, IdTypeOK, Ids, n
  <2> QED
    BY <2>2, <2>3
<1>8. GivenOK(g)'
  BY <1>1, <1>2, <1>3, <1>g DEF GivenOK, IdTypeOK
<1>9. \A i \in DOMAIN given' : GivenOK(given[i])'
  BY <1>6, <1>7, <1>8
<1>10. ASSUME NEW i \in DOMAIN given', NEW j \in DOMAIN given', i < j
       PROVE  Later(given'[i], given'[j])
  <2>1. i \in DOMAIN given
    BY <1>6, <1>10
  <2>2. CASE j \in DOMAIN given
    BY <1>6, <1>10, <2>1, <2>2 DEF IdInv
  <2>3. CASE j = Len(given) + 1
    BY <1>6, <1>7, <2>1, <2>3
  <2> QED
    BY <1>6, <2>2, <2>3
<1> QED
  BY <1>5, <1>9, <1>10 DEF IdInv, Later

LEMMA CleanupBeginsInv == ASSUME IdInv, CleanupBegins PROVE IdInv'
<1> DEFINE time == clock - Retention
           n == Number(time)
<1>1. IdTypeOK /\ time \in Nat
  BY DEF IdInv, IdTypeOK
<1>2. n \in Nat
  BY <1>1, NumberIsNat
<1>3. Timestamp(Encode(time, n, FALSE)) \in Int
  <2>1. Encode(time, n, FALSE) \in Nat
    BY <1>1, <1>2, EncodeIsInt
  <2> QED
    <3>1. PICK e \in Nat : e = Encode(time, n, FALSE)
      BY <2>1
    <3>2. e \div PerTick \in Nat
      BY Quotient
    <3>3. Timestamp(e) \in Int
      BY <3>2 DEF Timestamp
    <3> QED
      BY <3>1, <3>3, Zenon
<1>4. /\ lastTimestamp' = time /\ counter' = n /\ cleanups' = cleanups + 1
      /\ cleaner' = [at |-> "list", listed |-> {}, cutoff |-> Timestamp(Encode(time, n, FALSE))]
      /\ UNCHANGED <<clock, outputs, given, backs>>
  BY DEF CleanupBegins, Remember
<1> HIDE DEF time, n
<1>5. IdTypeOK'
  <2>1. cleaner' \in [at: {"rest", "list", "remove"}, cutoff: Int, listed: SUBSET [id: Int, time: Nat]]
    BY <1>3, <1>4
  <2> QED
    <3>1. clock' \in Nat /\ clock' >= Retention /\ given' \in Seq(Ids) /\ backs' \in Nat
          /\ outputs' \in SUBSET [id: Int, time: Nat]
      BY <1>1, <1>4 DEF IdTypeOK
    <3>2. lastTimestamp' \in Nat /\ counter' \in Nat /\ cleanups' \in Nat
      BY <1>1, <1>2, <1>4 DEF IdTypeOK
    <3> QED
      BY <2>1, <3>1, <3>2 DEF IdTypeOK
<1>6. ASSUME NEW i \in DOMAIN given PROVE GivenOK(given[i])'
  <2>1. GivenOK(given[i]) /\ given[i] \in Ids
    BY <1>1 DEF IdInv, IdTypeOK
  <2>2. given[i].cleanups <= cleanups /\ given[i].cleanups \in Nat /\ cleanups \in Nat
    BY <1>1, <2>1 DEF GivenOK, IdTypeOK, Ids
  <2>3. given[i].cleanups # cleanups' /\ given[i].cleanups <= cleanups'
    BY <1>4, <2>2
  <2> QED
    BY <1>4, <2>1, <2>3 DEF GivenOK
<1> QED
  BY <1>4, <1>5, <1>6 DEF IdInv, Later

LEMMA ClockInv ==
    ASSUME IdInv, IdTypeOK',
           UNCHANGED <<lastTimestamp, counter, given, cleanups>>,
           (clock' >= clock /\ backs' = backs) \/ backs' = backs + 1
    PROVE  IdInv'
<1>1. ASSUME NEW i \in DOMAIN given PROVE GivenOK(given[i])'
  <2>1. GivenOK(given[i]) /\ given[i] \in Ids /\ IdTypeOK
    BY DEF IdInv, IdTypeOK
  <2>2. CASE backs' = backs + 1
    <3>1. given[i].backs <= backs /\ given[i].backs \in Nat /\ backs \in Nat
      BY <2>1 DEF GivenOK, IdTypeOK, Ids
    <3>2. given[i].backs # backs' /\ given[i].backs <= backs'
      BY <2>2, <3>1
    <3> QED
      BY <2>1, <3>2 DEF GivenOK
  <2>3. CASE clock' >= clock /\ backs' = backs
    <3>1. given[i].time \in Nat /\ clock \in Nat /\ clock' \in Nat /\ lastTimestamp \in Nat
      BY <2>1 DEF IdTypeOK, Ids
    <3>2. /\ given[i].time <= clock => given[i].time <= clock'
          /\ lastTimestamp <= clock => lastTimestamp <= clock'
      BY <2>3, <3>1
    <3> QED
      BY <2>1, <2>3, <3>2 DEF GivenOK
  <2> QED
    BY <2>2, <2>3
<1> QED
  BY <1>1 DEF IdInv, Later

LEMMA IdStepInv == IdInv /\ [IdNext]_idVars => IdInv'
<1> SUFFICES ASSUME IdInv, [IdNext]_idVars PROVE IdInv'
  OBVIOUS
<1>1. IdTypeOK
  BY DEF IdInv
<1>2. CASE Store \/ Ascending \/ Descending
  BY <1>2, GiveInv DEF Store, Ascending, Descending
<1>3. CASE CleanupBegins
  BY <1>3, CleanupBeginsInv
<1>4. CASE CleanupLists
  <2>1. IdTypeOK'
    BY <1>1, <1>4 DEF CleanupLists, IdTypeOK
  <2> QED
    BY <1>1, <1>4, <2>1, ClockInv DEF CleanupLists, IdTypeOK
<1>5. CASE CleanupRemoves
  <2>1. PICK entry \in cleaner.listed :
          /\ cleaner' = [cleaner EXCEPT !.listed = @ \ {entry}]
          /\ outputs' \in {outputs, outputs \ {entry}}
    BY <1>5 DEF CleanupRemoves
  <2>2. IdTypeOK'
    BY <1>1, <1>5, <2>1 DEF CleanupRemoves, IdTypeOK
  <2> QED
    BY <1>1, <1>5, <2>2, ClockInv DEF CleanupRemoves, IdTypeOK
<1>6. CASE CleanupEnds
  <2>1. IdTypeOK'
    BY <1>1, <1>6 DEF CleanupEnds, IdTypeOK, AtRest
  <2> QED
    BY <1>1, <1>6, <2>1, ClockInv DEF CleanupEnds, IdTypeOK
<1>7. CASE Tick \/ SetBack
  <2>1. IdTypeOK'
    BY <1>1, <1>7 DEF Tick, SetBack, IdTypeOK
  <2> QED
    BY <1>1, <1>7, <2>1, ClockInv DEF Tick, SetBack, IdTypeOK
<1>8. CASE UNCHANGED idVars
  <2>1. IdTypeOK'
    BY <1>1, <1>8 DEF idVars, IdTypeOK
  <2> QED
    BY <1>1, <1>8, <2>1, ClockInv DEF idVars, IdTypeOK
<1> QED
  BY <1>2, <1>3, <1>4, <1>5, <1>6, <1>7, <1>8 DEF IdNext, Cleanup

\* The inductive invariant of the ids of a process: id/id.ts.
THEOREM IdInvHolds == IdSpec => []IdInv
  BY IdInitInv, IdStepInv, PTL DEF IdSpec

\* The ids of a process rise, and those of sessions fall, apart from the cases of
\* OutOfOrder: create in id/id.ts.
THEOREM IdsRiseHolds == IdSpec => []IdsRise
<1>1. IdInv => IdsRise
  <2> SUFFICES ASSUME IdInv, NEW i \in DOMAIN given, NEW j \in DOMAIN given, i < j,
                      given[i].descending = given[j].descending,
                      ~OutOfOrder(given[i], given[j])
               PROVE  IF given[i].descending THEN given[j].id < given[i].id
                                             ELSE given[i].id < given[j].id
    BY DEF IdsRise
  <2> DEFINE a == given[i]
             b == given[j]
  <2>1. a \in Ids /\ b \in Ids
    BY DEF IdInv, IdTypeOK
  <2>2. /\ a.id = Encode(a.time, a.number, a.descending)
        /\ b.id = Encode(b.time, b.number, b.descending)
        /\ Later(a, b)
    BY DEF IdInv, GivenOK
  <2>4. a.time \in Nat /\ b.time \in Nat /\ a.number \in Nat /\ b.number \in Nat
        /\ a.descending \in BOOLEAN
    BY <2>1 DEF Ids
  <2>3. /\ a.time < b.time \/ (a.time = b.time /\ a.number < b.number)
        /\ a.time \div Wrap = b.time \div Wrap
        /\ a.number < PerTick /\ b.number < PerTick
    <3>1. /\ a.time \div Wrap = b.time \div Wrap /\ a.backs = b.backs
          /\ a.time = b.time => a.cleanups = b.cleanups
          /\ a.number < PerTick /\ b.number < PerTick
      BY <2>4 DEF OutOfOrder
    <3> QED
      BY <2>2, <2>4, <3>1 DEF Later
  <2> HIDE DEF a, b
  <2>5. /\ Encode(a.time, a.number, FALSE) < Encode(b.time, b.number, FALSE)
        /\ Encode(b.time, b.number, TRUE) < Encode(a.time, a.number, TRUE)
    BY <2>3, <2>4, EncodeRises
  <2>6. a.descending = b.descending
    BY DEF a, b
  <2>7. CASE a.descending = TRUE
    BY <2>2, <2>5, <2>6, <2>7 DEF a, b
  <2>8. CASE a.descending = FALSE
    BY <2>2, <2>5, <2>6, <2>8 DEF a, b
  <2> QED
    BY <2>4, <2>7, <2>8
<1> QED
  BY <1>1, IdInvHolds, PTL

-----------------------------------------------------------------------------
(* Identifier: the stored outputs, as long as ids are what they are taken for. *)

\* The bits have not started over, no millisecond has run out of numbers, and the clock
\* was not set back.
TimesFit == clock < Wrap /\ counter < PerTick /\ backs = 0

\* The id of an output reads as a time that is not before the output's, and the cutoff
\* of a cleanup is not after the time from which on outputs are retained.
CutoffIsOld ==
    /\ \A entry \in outputs : entry.id \in Nat /\ entry.time <= Timestamp(entry.id)
    /\ cleaner.at # "rest" => cleaner.cutoff + Retention <= clock

LEMMA EncodeReads ==
    ASSUME NEW t \in Nat, NEW n \in Nat, n < PerTick, t < Wrap
    PROVE  Encode(t, n, FALSE) \in Nat /\ Timestamp(Encode(t, n, FALSE)) = t
<1>1. PICK x : x = t * PerTick + n
  OBVIOUS
<1>2. x \in Nat /\ x < Wrap * PerTick
  <2>1. (t + 1) * PerTick <= Wrap * PerTick
    OBVIOUS
  <2> QED
    BY <1>1, <2>1
<1>3. PICK S \in Nat \ {0} : S = Wrap * PerTick
  OBVIOUS
<1>4. x % S = x
  <2>1. x = 0 * S + x /\ x < S
    BY <1>2, <1>3
  <2> QED
    BY <1>2, <1>3, <2>1, Remainder
<1>5. Encode(t, n, FALSE) = x
  BY <1>1, <1>3, <1>4 DEF Encode, Space
<1>6. x \div PerTick = t
  BY <1>1, Remainder
<1>7. Timestamp(x) = t
  BY <1>6 DEF Timestamp
<1> QED
  BY <1>2, <1>5, <1>7, Zenon

LEMMA CutoffStep ==
    ASSUME IdInv, CutoffIsOld, TimesFit, TimesFit', [IdNext]_idVars
    PROVE  CutoffIsOld'
<1>1. IdTypeOK
  BY DEF IdInv
<1>2. ASSUME NEW d \in BOOLEAN, NEW stored \in BOOLEAN, Give(d, stored), d = FALSE \/ ~stored
      PROVE  CutoffIsOld'
  <2>1. UNCHANGED <<clock, cleaner>> /\ counter' = Number(clock)
    BY <1>2 DEF Give, Remember
  <2>2. Number(clock) \in Nat /\ Number(clock) < PerTick /\ clock \in Nat /\ clock < Wrap
    BY <1>1, <2>1, NumberIsNat DEF TimesFit, IdTypeOK
  <2>3. PICK id \in Nat : id = Encode(clock, Number(clock), FALSE) /\ Timestamp(id) = clock
    BY <2>2, EncodeReads, Zenon
  <2>4. outputs' \in {outputs, outputs \cup {[id |-> id, time |-> clock]}}
    <3>1. CASE stored
      BY <1>2, <2>3, <3>1, Zenon DEF Give
    <3>2. CASE ~stored
      BY <1>2, <3>2 DEF Give
    <3> QED
      BY <3>1, <3>2
  <2> QED
    <3>1. clock \in Nat /\ clock <= clock
      BY <1>1 DEF IdTypeOK
    <3>2. \A entry \in outputs' : entry \in outputs \/ (entry.id = id /\ entry.time = clock)
      BY <2>4
    <3>3. \A entry \in outputs' : entry.id \in Nat /\ entry.time <= Timestamp(entry.id)
      BY <2>3, <3>1, <3>2 DEF CutoffIsOld
    <3> QED
      BY <2>1, <3>3 DEF CutoffIsOld
<1>3. CASE Store \/ Ascending \/ Descending
  BY <1>2, <1>3 DEF Store, Ascending, Descending
<1>4. CASE CleanupBegins
  <2>1. PICK time \in Nat : time = clock - Retention
    BY <1>1 DEF IdTypeOK
  <2>2. Number(time) \in Nat /\ Number(time) < PerTick /\ time < Wrap
    BY <1>1, <1>4, <2>1, NumberIsNat DEF CleanupBegins, Remember, TimesFit, IdTypeOK
  <2>3. Timestamp(Encode(time, Number(time), FALSE)) = time
    BY <2>2, EncodeReads
  <2>4. cleaner'.cutoff = time /\ UNCHANGED <<clock, outputs>>
    BY <1>4, <2>1, <2>3 DEF CleanupBegins
  <2> QED
    BY <1>1, <2>1, <2>4 DEF CutoffIsOld, IdTypeOK
<1>5. CASE CleanupLists
  BY <1>1, <1>5 DEF CutoffIsOld, CleanupLists, IdTypeOK
<1>6. CASE CleanupRemoves
  <2>1. outputs' \subseteq outputs /\ cleaner'.at = cleaner.at /\ cleaner'.cutoff = cleaner.cutoff
        /\ clock' = clock
    BY <1>1, <1>6 DEF CleanupRemoves, IdTypeOK
  <2> QED
    BY <2>1 DEF CutoffIsOld
<1>7. CASE CleanupEnds
  BY <1>7 DEF CutoffIsOld, CleanupEnds, AtRest
<1>8. CASE Tick
  BY <1>1, <1>8 DEF CutoffIsOld, Tick, IdTypeOK
<1>9. CASE SetBack
  BY <1>1, <1>9 DEF SetBack, TimesFit, IdTypeOK
<1>10. CASE UNCHANGED idVars
  BY <1>10 DEF CutoffIsOld, idVars
<1> QED
  BY <1>3, <1>4, <1>5, <1>6, <1>7, <1>8, <1>9, <1>10 DEF IdNext, Cleanup

\* An output stays for as long as outputs are retained, as long as the bits of the time
\* have not started over, no millisecond has run out of numbers and the clock was not
\* set back: cleanup in tool/truncate.ts.
THEOREM OutputsStayUntilWrap == IdSpec /\ []TimesFit => OutputsStay
<1>1. IdInit => CutoffIsOld
  BY DEF IdInit, CutoffIsOld, AtRest
<1>2. IdInv /\ CutoffIsOld /\ [IdNext]_idVars =>
         [\A entry \in outputs \ outputs' : entry.time + Retention <= clock]_idVars
  <2> SUFFICES ASSUME IdInv, CutoffIsOld, IdNext,
                      NEW entry \in outputs \ outputs'
               PROVE  entry.time + Retention <= clock
    BY DEF idVars
  <2>1. IdTypeOK
    BY DEF IdInv
  <2>2. CleanupRemoves
    BY DEF IdNext, Store, Ascending, Descending, Give, Cleanup, CleanupBegins, CleanupLists,
       CleanupEnds, Tick, SetBack
  <2>3. Timestamp(entry.id) < cleaner.cutoff /\ cleaner.at = "remove"
    BY <2>2 DEF CleanupRemoves
  <2>4. /\ entry.time \in Nat /\ cleaner.cutoff \in Int /\ clock \in Nat /\ entry.id \in Nat
        /\ entry.time <= Timestamp(entry.id) /\ cleaner.cutoff + Retention <= clock
    BY <2>1, <2>3 DEF IdTypeOK, CutoffIsOld
  <2>5. Timestamp(entry.id) \in Nat
    BY <2>4, Quotient DEF Timestamp
  <2> QED
    BY <2>3, <2>4, <2>5
<1> QED
  BY <1>1, <1>2, IdInvHolds, CutoffStep, PTL DEF IdSpec, OutputsStay
=============================================================================
