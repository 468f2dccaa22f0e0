------------------------------ MODULE FileTools ------------------------------
(***************************************************************************)
(* The tools that read and change files (tool/read.ts, edit.ts, write.ts,  *)
(* apply_patch.ts) and the stamps and locks of file/time.ts by which they  *)
(* are to keep out of each other's way, and of the user's.                 *)
(*                                                                         *)
(* Stamps and locks are in the state of the instance of a directory: two   *)
(* directories have locks of their own for one file, and when an instance  *)
(* is disposed of the next has neither stamps nor locks, while calls that  *)
(* hold a lock go on.  A session that is used in two directories is two    *)
(* sessions here.                                                          *)
(*                                                                         *)
(* What a file holds is the set of the changes that are in it: a call that *)
(* edits adds itself to what it has read, one that writes leaves only      *)
(* itself.  A modification time is a number that every change raises, so   *)
(* two changes within a clock tick that leave one size are told apart,     *)
(* which the program cannot.  What runs between two awaits is one step.    *)
(***************************************************************************)
EXTENDS Naturals, Sequences

CONSTANTS
    Calls,     \* tool calls
    Users,     \* changes made from outside, by an editor or a shell
    Directories,
    Sessions,
    DirOf,     \* the directory whose instance a session is used in
    Readers,   \* the sessions that have read the files before
    Checking,  \* the flag HDP_DISABLE_FILETIME_CHECK is not set
    MaxDisposals, \* bound on the disposals of an instance
    Files,
    Patches,   \* the patches a call may apply: sequences of hunks
    Nobody     \* no holder of a lock

Marks == Calls \cup Users

Simple == {"read", "edit", "create", "write"}
Hunk == [op: Simple \cup {"add", "update", "delete", "move", "drop"}, file: Files, to: Files]

ASSUME FilesAssumption ==
    /\ Calls \cap Users = {} /\ Nobody \notin Calls
    /\ Sessions # {} /\ Readers \subseteq Sessions
    /\ DirOf \in [Sessions -> Directories]
    /\ Checking \in BOOLEAN /\ MaxDisposals \in Nat
    /\ Patches \subseteq Seq(Hunk) /\ \A p \in Patches : Len(p) > 0
    /\ \A p \in Patches : \A i \in DOMAIN p :
          /\ p[i].op # "move" => p[i].to = p[i].file
          /\ p[i].op \notin Simple
          \* No file twice, but for the one that a move leaves and drops.
          /\ \A j \in DOMAIN p \ {i} :
                p[i].to # p[j].to /\ (p[i].op = "update" => p[i].file # p[j].file)

VARIABLES
    disk,    \* of each file: is it there, the changes it holds, its modification time
    reads,   \* FileTime's stamps: for a session and a file, the time noted, if any
    lock,    \* FileTime's locks: in each state there was, of each file
    gen,     \* how many instances of each directory have been disposed of
    call,    \* the tool calls
    acted,   \* the users' changes made so far
    seen,    \* history: the changes of a file that a session has been shown
    noted,   \* history: what a file held when a session's stamp of it was taken
    news     \* history: the changes of a call's files since the call last looked at them

filesVars == <<disk, reads, lock, gen, call, acted, seen, noted, news>>

\* The modification time that stat gives, 0 for a file that is not there.
Time(f) == IF disk[f].there THEN disk[f].at ELSE 0

\* The states of FileTime: of an instance of a directory.
Homes == Directories \X (0..MaxDisposals)

\* hunks: what the call does, in order; i: the hunk it is at; old: what it read;
\* home: the state in which it asks for a lock.
Resting == LET s == CHOOSE s \in Sessions : TRUE IN
           [pc |-> "new", session |-> s, home |-> <<DirOf[s], 0>>, hunks |-> <<>>,
            i |-> 1, old |-> <<>>]

FilesInit ==
    /\ disk = [f \in Files |-> [there |-> TRUE, has |-> {}, at |-> 1]]
    /\ reads = [s \in Sessions |-> [f \in Files |-> IF s \in Readers THEN {1} ELSE {}]]
    /\ lock = [h \in Homes |-> [f \in Files |-> Nobody]]
    /\ gen = [d \in Directories |-> 0]
    /\ call = [c \in Calls |-> Resting]
    /\ acted = {}
    /\ seen = [s \in Sessions |-> [f \in Files |-> {}]]
    /\ noted = [s \in Sessions |-> [f \in Files |-> {}]]
    /\ news = [c \in Calls |-> [f \in Files |-> {}]]

-----------------------------------------------------------------------------
Op(c)    == call[c].hunks[call[c].i].op
File(c)  == call[c].hunks[call[c].i].file
Target(c) == call[c].hunks[call[c].i].to
FilesOf(c) == {call[c].hunks[j].file : j \in DOMAIN call[c].hunks}
                  \cup {call[c].hunks[j].to : j \in DOMAIN call[c].hunks}
IsPatch(c) == Op(c) \notin Simple
IsLast(c)  == call[c].i = Len(call[c].hunks)

To(c, pc) == call' = [call EXCEPT ![c].pc = pc]

Home(s) == <<DirOf[s], gen[DirOf[s]]>>

\* The lock of file f that call c asks for, or has.
LockOf(c, f) == lock[call[c].home][f]

Free(c) == lock' = [h \in Homes |->
                       [f \in Files |-> IF lock[h][f] = c THEN Nobody ELSE lock[h][f]]]

\* Mutant: a call that fails keeps its lock.
EndKept(c, how) ==
    /\ call' = [call EXCEPT ![c].pc = how, ![c].old = <<>>]
    /\ IF how = "failed" THEN UNCHANGED lock ELSE Free(c)

\* A call that ends, also by an error, gives its lock back.
End(c, how) ==
    /\ call' = [call EXCEPT ![c].pc = how, ![c].old = <<>>]
    /\ Free(c)

Ended(c) == call[c].pc \in {"done", "failed"}

\* A change m of file f reaches the disk.  The other calls that work on f do not know
\* of it; the one that made it may have kept some that it does not know of.
Change(f, m, has) ==
    /\ disk' = [disk EXCEPT ![f] = [there |-> TRUE, has |-> has, at |-> @.at + 1]]
    /\ news' = [c \in Calls |-> [news[c] EXCEPT ![f] =
                   IF c = m THEN @ \cap has
                   ELSE IF f \in FilesOf(c) /\ ~Ended(c) THEN @ \cup (has \ disk[f].has)
                   ELSE @]]

Unlink(f) ==
    /\ disk' = [disk EXCEPT ![f] = [there |-> FALSE, has |-> {}, at |-> @.at + 1]]
    /\ UNCHANGED news

\* The call takes a look at its file: what came before it, it knows.
Look(c) == news' = [news EXCEPT ![c][File(c)] = {}]

-----------------------------------------------------------------------------
(* The steps of a call.                                                    *)

\* What a call may be asked to do.
Singles == {<<[op |-> o, file |-> f, to |-> f]>> : o \in Simple, f \in Files}
Batches == Patches \cup Singles

\* An edit begins by asking for the lock, a write by checking, a read by asking, a patch
\* by reading.
First(op) == CASE op \in {"edit", "create"} -> "waiting"
               [] op = "write" -> "checking"
               [] op = "read" -> "asking"
               [] OTHER -> "reading"

\* A call begins, but for the read of a file that is not there, which fails.  withLock
\* looks the lock up in the state there is now.
Begin(c) ==
    /\ call[c].pc = "new"
    /\ \E s \in Sessions, hunks \in Batches :
          /\ Head(hunks).op = "read" => disk[Head(hunks).file].there
          /\ call' = [call EXCEPT ![c] =
                [pc |-> First(Head(hunks).op), session |-> s, home |-> Home(s), hunks |-> hunks,
                 i |-> 1, old |-> [j \in DOMAIN hunks |-> {}]]]
    /\ UNCHANGED <<disk, reads, lock, gen, acted, seen, noted, news>>

\* Mutant: every call has a lock of its own.
LockOwn(c) ==
    /\ call[c].pc = "waiting"
    /\ lock' = [lock EXCEPT ![call[c].home][File(c)] = c]
    /\ To(c, IF Op(c) = "create" THEN "asking" ELSE "checking")
    /\ UNCHANGED <<disk, reads, gen, acted, seen, noted, news>>

\* withLock.  An edit that has no old string goes on without a check.
Lock(c) ==
    /\ call[c].pc = "waiting" /\ LockOf(c, File(c)) = Nobody
    /\ lock' = [lock EXCEPT ![call[c].home][File(c)] = c]
    /\ To(c, IF Op(c) = "create" THEN "asking" ELSE "checking")
    /\ UNCHANGED <<disk, reads, gen, acted, seen, noted, news>>

\* Mutant: that the file was read is enough.
AssertRead(s, f) == ~Checking \/ reads[s][f] # {}

\* FileTime.assert
AssertTime(s, f) == ~Checking \/ reads[s][f] = {Time(f)}

\* A write may make a new file; an edit needs one.
Check(c) ==
    /\ call[c].pc = "checking"
    /\ Look(c)
    /\ LET f == File(c)
           ok == IF disk[f].there THEN AssertTime(call[c].session, f) ELSE Op(c) = "write" IN
       \/ ok  /\ To(c, IF Op(c) = "write" THEN "asking" ELSE "reading") /\ UNCHANGED lock
       \/ ~ok /\ End(c, "failed")
    /\ UNCHANGED <<disk, reads, gen, acted, seen, noted>>

\* What a call gets of its file: the tool read shows some of it, from the line asked for
\* and up to a number of lines and bytes; the others read all of it.
Parts(c) == IF Op(c) = "read" THEN SUBSET disk[File(c)].has ELSE {disk[File(c)].has}

\* The text of a file is read.  An edit or a patch that does not fit it fails; a patch
\* goes on to its next hunk, and reads nothing for a file it adds.
Read(c) ==
    /\ call[c].pc = "reading"
    /\ \/ /\ Op(c) \in {"add", "drop"} \/ disk[File(c)].there
          /\ \E part \in Parts(c) :
                call' = [call EXCEPT
                   ![c].old[call[c].i] = part,
                   ![c].i  = IF IsLast(c) THEN 1 ELSE @ + 1,
                   ![c].pc = IF ~IsLast(c) THEN "reading"
                             ELSE IF Op(c) = "read" THEN "stamping" ELSE "asking"]
          /\ UNCHANGED lock
       \/ End(c, "failed")
    /\ IF Op(c) # "edit" THEN Look(c) ELSE UNCHANGED news
    /\ UNCHANGED <<disk, reads, gen, acted, seen, noted>>

\* ctx.ask: the rules or a client let the call go on, or reject it.
Answer(c) ==
    /\ call[c].pc = "asking"
    /\ \/ To(c, IF Op(c) = "read" THEN "reading" ELSE "applying") /\ UNCHANGED lock
       \/ End(c, "failed")
    /\ UNCHANGED <<disk, reads, gen, acted, seen, noted, news>>

\* What the file holds when the hunk has been applied to what was read of it.
Result(c) ==
    IF Op(c) \in {"edit", "update", "move"} THEN call[c].old[call[c].i] \cup {c} ELSE {c}

Apply(c) ==
    /\ call[c].pc = "applying"
    /\ \/ /\ Op(c) \notin {"delete", "drop"}
          /\ Change(Target(c), c, Result(c))
       \/ /\ Op(c) \in {"delete", "drop"} /\ disk[File(c)].there
          /\ Unlink(File(c))
    /\ call' = [call EXCEPT ![c].i  = IF IsLast(c) THEN 1 ELSE @ + 1,
                            ![c].pc = IF ~IsLast(c) THEN "applying"
                                      ELSE IF IsPatch(c) THEN "done" ELSE "stamping"]
    /\ UNCHANGED <<reads, lock, gen, acted, seen, noted>>

\* The file to be removed is gone: the call fails, and what it did stays.
ApplyFails(c) ==
    /\ call[c].pc = "applying"
    /\ Op(c) \in {"delete", "drop"} /\ ~disk[File(c)].there
    /\ End(c, "failed")
    /\ UNCHANGED <<disk, reads, gen, acted, seen, noted, news>>

\* FileTime.read, after a look at the text or after the write: the stamp is that of the
\* whole file, as it is now.
Stamp(c) ==
    LET s == call[c].session
        f == File(c) IN
    /\ call[c].pc = "stamping"
    /\ reads' = [reads EXCEPT ![s][f] = {Time(f)}]
    /\ seen'  = [seen EXCEPT ![s][f] = @ \cup IF Op(c) = "read" THEN call[c].old[1] ELSE {c}]
    /\ noted' = [noted EXCEPT ![s][f] = disk[f].has]
    /\ End(c, "done")
    /\ Look(c)
    /\ UNCHANGED <<disk, gen, acted>>

\* The instance of directory d is disposed of: the next one has no stamps, and no locks.
Dispose(d) ==
    /\ gen[d] < MaxDisposals
    /\ gen' = [gen EXCEPT ![d] = @ + 1]
    /\ reads' = [s \in Sessions |->
                    IF DirOf[s] = d THEN [f \in Files |-> {}] ELSE reads[s]]
    /\ UNCHANGED <<disk, lock, call, acted, seen, noted, news>>

\* Somebody else changes a file, or removes it.
Meddle(u) ==
    /\ u \notin acted
    /\ acted' = acted \cup {u}
    /\ \E f \in Files :
          \/ Change(f, u, disk[f].has \cup {u})
          \/ disk[f].there /\ Unlink(f)
    /\ UNCHANGED <<reads, lock, gen, call, seen, noted>>

CallStep(c) ==
    \/ Lock(c) \/ Check(c) \/ Read(c) \/ Apply(c) \/ ApplyFails(c) \/ Stamp(c)

FilesNext ==
    \/ \E c \in Calls : Begin(c) \/ CallStep(c) \/ Answer(c)
    \/ \E u \in Users : Meddle(u)
    \/ \E d \in Directories : Dispose(d)

FilesSpec == FilesInit /\ [][FilesNext]_filesVars

\* Calls that need nobody's answer go on.
FilesFairness == \A c \in Calls : WF_filesVars(CallStep(c))

-----------------------------------------------------------------------------
Acts(c, ops) == call[c].pc = "applying" /\ Op(c) \in ops /\ call'[c] # call[c]

Lost(f) == disk[f].has \ disk'[f].has

\* What is lost is what the stamp was to tell the session of: a write replaces only what
\* was in the file when its session last read or wrote it, an edit or an update nothing at
\* all, but for what came after the call itself has looked.
NewsIsKept ==
    [][\A c \in Calls :
          LET s == call[c].session
              f == File(c) IN
          /\ Acts(c, {"edit", "update"}) => Lost(f) \subseteq news[c][f]
          /\ Acts(c, {"write"}) => Lost(f) \subseteq noted[s][f] \cup news[c][f]]_filesVars

Edits(c, f) ==
    /\ call[c].hunks # <<>> /\ Op(c) \in {"edit", "create"} /\ File(c) = f
    /\ call[c].pc \in {"checking", "reading", "asking", "applying", "stamping"}

\* Of two edits under one instance, of whichever sessions, none changes the file while the
\* other is between its look and its stamp.
EditsKeepEdits ==
    [][\A c, d \in Calls :
          c # d /\ Acts(c, {"edit", "create"}) /\ call[c].home = call[d].home =>
              ~Edits(d, File(c))]_filesVars

\* An edit that waits for its file gets it, or the one that has it waits for a client.
FilesComeFree ==
    \A c \in Calls : call[c].pc = "waiting" ~>
        \/ call[c].pc # "waiting"
        \/ \E d \in Calls : LockOf(c, File(c)) = d /\ call[d].pc = "asking"

-----------------------------------------------------------------------------
(* What the repository says of these tools and the code does not keep: TLC *)
(* refutes each.                                                           *)

\* "You must use your `Read` tool at least once in the conversation before editing. This
\* tool will error if you attempt an edit without reading the file." (tool/edit.txt:4)
EditsHaveRead ==
    [][\A c \in Calls :
          Acts(c, {"edit", "create"}) /\ disk[File(c)].there =>
              reads[call[c].session][File(c)] # {}]_filesVars

\* What a write replaces its session was shown, but for what came after the call has
\* looked: "If this is an existing file, you MUST use the Read tool first to read the
\* file's contents." (tool/write.txt:5)
NothingUnseenIsLost ==
    [][\A c \in Calls :
          Acts(c, {"write"}) =>
              Lost(File(c)) \subseteq seen[call[c].session][File(c)] \cup news[c][File(c)]]_filesVars

\* What has been modified since the session read it is read again before it is modified
\* (file/time.ts:101): nothing is lost that came after the stamp.
NothingLateIsLost ==
    [][\A c \in Calls :
          Acts(c, {"edit", "write"}) => Lost(File(c)) \subseteq noted[call[c].session][File(c)]]_filesVars
=============================================================================
