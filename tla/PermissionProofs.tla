-------------------------- MODULE PermissionProofs --------------------------
(***************************************************************************)
(* Proofs about Permission, for any number of requests, replies, patterns  *)
(* and disposals: no request goes ahead unless the rules or a client let   *)
(* it, and clients are told of every request at most once, and truly.      *)
(***************************************************************************)
EXTENDS Permission, TLAPS

Unanswered(a) == \A e \in published : e.of # a

\* A pending request waits in the state that lists it, nobody has answered it,
\* and only a finalizer may have settled it.
PendingWaits ==
    \A g \in States : \A a \in pending[g] :
        /\ ask[a].at = "waiting"
        /\ ask[a].gen = g
        /\ Unanswered(a)
        /\ deferred[a] # "open" => closing[g] # "open"

\* A call that has not entered the Map is untouched.
EarlyIsOpen ==
    \A a \in Asks : ask[a].at \in {"idle", "asking"} =>
        deferred[a] = "open" /\ Unanswered(a)

\* What the end of a call says of its Deferred.
EndsAreEarned ==
    \A a \in Asks :
        /\ ask[a].at # "done" => ask[a].outcome = "none"
        /\ ask[a].outcome = "denied" => Unanswered(a)
        /\ ask[a].outcome = "rejected" => deferred[a] = "rejected"
        /\ ask[a].outcome = "allowed" =>
            \/ deferred[a] = "granted"
            \/ Unanswered(a) /\ AllowedByRule(ask[a].gen, a)

\* Every event is the work of a reply, about a call that waits or waited.
EventsAreTaken ==
    \A e \in published : reply[e.by].at # "idle" /\ ask[e.of].at \in {"waiting", "done"}

OneEventEach == \A e, f \in published : e.of = f.of => e = f

\* A reply has published what it holds in its hands.
RepliesPublish ==
    \A r \in Replies :
        /\ reply[r].at # "idle" =>
            /\ reply[r].of \in Asks
            /\ reply[r].kind \in Kinds
            /\ Event(reply[r].of, reply[r].kind, r) \in published
        /\ reply[r].hand # NoAsk =>
            /\ reply[r].at # "idle"
            /\ Event(reply[r].hand, reply[r].kind, r) \in published
            /\ reply[r].kind \in Grants => AllowedByRule(ask[reply[r].hand].gen, reply[r].hand)
        /\ reply[r].at \in {"granted", "walking"} => reply[r].kind # "once"

\* The Deferred says what was published, unless a finalizer was there first.
EventsAreKept ==
    \A e \in published : closing[ask[e.of].gen] = "open" =>
        deferred[e.of] \in {"open", Verdict(e.kind)}

GrantsAreJust ==
    \A a \in Asks : deferred[a] = "granted" =>
        AllowedByRule(ask[a].gen, a) \/ DirectGrant(a)

PeersAreOld ==
    \A r \in Replies : \A a \in reply[r].peers :
        /\ SessionOf[a] = SessionOf[reply[r].of]
        /\ ask[a].at \in {"waiting", "done"}

\* During the walk of an "always" its rules are in the state.
RulesAreIn ==
    \A r \in Replies : reply[r].at = "walking" /\ reply[r].kind = "always" =>
        \A t \in Always[reply[r].of] : approved[reply[r].gen][t] = "allow"

\* The walk has left no peer behind it that it speaks for.
MetIsSettled ==
    \A r \in Replies :
        /\ reply[r].at # "walking" => reply[r].met = {} /\ reply[r].hand = NoAsk
        /\ \A a \in reply[r].peers \cap reply[r].met \cap pending[reply[r].gen] :
            reply[r].kind = "always" /\ ~(Wants[a] \subseteq Always[reply[r].of])

IInv ==
    /\ TypeOK
    /\ PendingWaits
    /\ EarlyIsOpen
    /\ EndsAreEarned
    /\ EventsAreTaken
    /\ OneEventEach
    /\ RepliesPublish
    /\ EventsAreKept
    /\ GrantsAreJust
    /\ PeersAreOld
    /\ RulesAreIn
    /\ MetIsSettled
    /\ NoPeerLeftBehind

-----------------------------------------------------------------------------
(* Rules only ever become "allow", so what was allowed stays allowed.      *)

ApprovedGrows ==
    \A g \in States, t \in Things : approved'[g][t] \in {approved[g][t], "allow"}

\* What the rules of a state allow, they go on to allow.
LEMMA RulesStay ==
    ASSUME RequestAssumption, ApprovedGrows, NEW g \in States, NEW a \in Asks, AllowedByRule(g, a)
    PROVE  AllowedByRule(g, a)'
<1>1. ASSUME NEW t \in Wants[a]
      PROVE  Evaluate(g, a, t)' = "allow"
    <2>1. t \in Things
        BY DEF RequestAssumption
    <2>2. Evaluate(g, a, t) = "allow"
        BY DEF AllowedByRule
    <2>3. approved'[g][t] \in {approved[g][t], "allow"}
        BY <2>1 DEF ApprovedGrows
    <2> QED BY <2>2, <2>3 DEF Evaluate
<1> QED BY <1>1 DEF AllowedByRule

\* A grant that a client gave stays given.
LEMMA GrantStays ==
    ASSUME TypeOK, EventsAreTaken, published \subseteq published',
           \A r \in Replies : reply[r].at # "idle" => reply'[r].of = reply[r].of,
           NEW a \in Asks, DirectGrant(a)
    PROVE  DirectGrant(a)'
<1>1. PICK e \in published : e.of = a /\ e.kind \in Grants /\ reply[e.by].of = a
    BY DEF DirectGrant
<1>2. e \in published' /\ e.by \in Replies /\ reply[e.by].at # "idle"
    BY DEF TypeOK, Events, EventsAreTaken
<1>3. reply'[e.by].of = a
    BY <1>1, <1>2
<1> QED BY <1>1, <1>2, <1>3 DEF DirectGrant

\* The types of the fields, one by one.
TypeFacts ==
    /\ gen \in States
    /\ \A g \in States : pending[g] \subseteq Asks
    /\ \A a \in Asks : ask[a].gen \in States /\ deferred[a] \in {"open", "granted", "rejected"}
    /\ \A r \in Replies :
        /\ reply[r].gen \in States
        /\ reply[r].of \in Asks \cup {NoAsk}
        /\ reply[r].kind \in Kinds \cup {"none"}
        /\ reply[r].peers \subseteq Asks
        /\ reply[r].hand \in Asks \cup {NoAsk}
    /\ \A e \in published : e.of \in Asks /\ e.by \in Replies /\ e.kind \in Kinds

\* What the type invariant says of each field.
LEMMA TypesByField == TypeOK => TypeFacts
<1> SUFFICES ASSUME TypeOK PROVE TypeFacts
    OBVIOUS
<1>1. \A a \in Asks : ask[a].gen \in States
    BY DEF TypeOK, AskRows
<1>2. \A r \in Replies : reply[r] \in ReplyRows
    BY DEF TypeOK
<1>3. \A e \in published : e \in Events
    BY DEF TypeOK
<1> QED BY <1>1, <1>2, <1>3 DEF TypeOK, TypeFacts, ReplyRows, Events

-----------------------------------------------------------------------------
(* Every step keeps the invariant.  In each proof the first step says what *)
(* the action does to each field, and the rest follows from that.          *)

\* A call is judged: it ends, or it is about to ask.
LEMMA JudgeKeeps ==
    ASSUME RequestAssumption, RulesAssumption, DisposalAssumption, IInv, NEW a \in Asks, Judge(a)
    PROVE  IInv'
<1> USE DEF IInv
<1>1. /\ ask' \in [Asks -> AskRows]
      /\ \A b \in Asks \ {a} : ask'[b] = ask[b]
      /\ ask[a].at = "idle"
      /\ ask'[a].at \in {"asking", "done"}
      /\ ask'[a].gen = gen
      /\ ask'[a].outcome \in {"none", "denied", "allowed"}
      /\ ask'[a].at = "asking" => ask'[a].outcome = "none"
      /\ ask'[a].outcome = "allowed" => AllowedByRule(gen, a)
      /\ UNCHANGED <<gen, approved, closing, failed, deferred, reply, published>>
      /\ UNCHANGED pending
    <2>1. CASE (\E t \in Wants[a] : Evaluate(gen, a, t) = "deny") /\ EndAsk(a, "denied")
        BY <2>1 DEF TypeOK, Judge, EndAsk, AskUnchanged, AskRows, Outcomes, AskStages
    <2>2. CASE AllowedByRule(gen, a) /\ EndAsk(a, "allowed")
        <3> DEFINE row == [ask[a] EXCEPT !.at = "done", !.gen = gen, !.outcome = "allowed"]
        <3>1. ask[a] \in AskRows
            BY DEF TypeOK
        <3>2. row \in AskRows /\ row.at = "done" /\ row.gen = gen /\ row.outcome = "allowed"
            BY <3>1 DEF TypeOK, AskRows, AskStages, Outcomes
        <3>3. ask' = [ask EXCEPT ![a] = row]
            BY <2>2 DEF EndAsk
        <3> HIDE DEF row
        <3>4. ask' \in [Asks -> AskRows] /\ ask'[a] = row /\ \A b \in Asks \ {a} : ask'[b] = ask[b]
            BY <3>2, <3>3 DEF TypeOK
        <3> QED BY <2>2, <3>2, <3>4 DEF Judge, AskUnchanged
    <2>3. CASE ask' = [ask EXCEPT ![a].at = "asking", ![a].gen = gen]
        BY <2>3 DEF TypeOK, Judge, AskUnchanged, EndsAreEarned, AskRows, Outcomes, AskStages
    <2> QED BY <2>1, <2>2, <2>3 DEF Judge
<1>2. TypeOK'
    BY <1>1 DEF TypeOK
<1>3. TypeFacts /\ TypeFacts'
    BY <1>2, TypesByField, PTL
<1>4. ApprovedGrows
    BY <1>1 DEF TypeOK, ApprovedGrows, Rules
<1>5. PendingWaits'
    BY <1>3, <1>1 DEF TypeFacts, PendingWaits, Unanswered
<1>6. EarlyIsOpen'
    BY <1>3, <1>1 DEF TypeFacts, EarlyIsOpen, EventsAreTaken, PendingWaits, Unanswered
<1>7. EndsAreEarned'
    BY <1>3, <1>1, <1>4, RulesStay DEF TypeFacts, EndsAreEarned, PendingWaits, EarlyIsOpen, Unanswered
<1>8. EventsAreTaken'
    BY <1>3, <1>1 DEF TypeFacts, EventsAreTaken, PendingWaits
<1>9. OneEventEach'
    BY <1>3, <1>1 DEF TypeFacts, OneEventEach, PendingWaits, Unanswered
<1>10. RepliesPublish'
    BY <1>3, <1>1, <1>4, RulesStay DEF TypeFacts, RepliesPublish, EventsAreTaken, Event
<1>11. EventsAreKept'
    BY <1>3, <1>1 DEF TypeFacts, EventsAreKept, EventsAreTaken, PendingWaits, Unanswered
<1>12. GrantsAreJust'
    BY <1>3, <1>1, <1>4, RulesStay, GrantStays DEF TypeFacts, GrantsAreJust, EarlyIsOpen
<1>13. PeersAreOld'
    BY <1>3, <1>1 DEF TypeFacts, PeersAreOld, PendingWaits
<1>14. RulesAreIn'
    <2>1. UNCHANGED <<approved, reply>>
        BY <1>1
    <2> QED BY <2>1 DEF RulesAreIn
<1>15. MetIsSettled'
    BY <1>3, <1>1 DEF TypeFacts, PeersAreOld, MetIsSettled
<1>16. NoPeerLeftBehind'
    BY <1>3, <1>1 DEF TypeFacts, PeersAreOld, MetIsSettled, NoPeerLeftBehind
<1> QED BY <1>2, <1>5, <1>6, <1>7, <1>8, <1>9, <1>10, <1>11, <1>12, <1>13, <1>14, <1>15, <1>16

\* A call enters the Map of the state it holds.
LEMMA EnterKeeps ==
    ASSUME RequestAssumption, RulesAssumption, DisposalAssumption, IInv, NEW a \in Asks, Enter(a)
    PROVE  IInv'
<1> USE DEF IInv
<1>1. /\ ask' \in [Asks -> AskRows]
      /\ \A b \in Asks \ {a} : ask'[b] = ask[b]
      /\ ask[a].at = "asking"
      /\ ask'[a].at = "waiting"
      /\ ask'[a].gen = ask[a].gen
      /\ ask'[a].outcome = ask[a].outcome
      /\ pending' \in [States -> SUBSET Asks]
      /\ \A g \in States : pending'[g] = IF g = ask[a].gen THEN pending[g] \cup {a} ELSE pending[g]
      /\ UNCHANGED <<gen, approved, closing, failed, deferred, reply, published>>
    <2>1. ask' \in [Asks -> AskRows]
        <3> DEFINE row == [ask[a] EXCEPT !.at = "waiting", !.late = closing[ask[a].gen] # "open"]
        <3>1. ask[a] \in AskRows
            BY DEF TypeOK
        <3>2. row \in AskRows
            BY <3>1, ZenonT(20) DEF TypeOK, AskRows, AskStages, Outcomes
        <3>3. ask' = [ask EXCEPT ![a] = row]
            BY DEF Enter
        <3> HIDE DEF row
        <3> QED BY <3>2, <3>3 DEF TypeOK
    <2>2. /\ \A b \in Asks \ {a} : ask'[b] = ask[b]
          /\ ask[a].at = "asking"
          /\ ask'[a].at = "waiting"
          /\ ask'[a].gen = ask[a].gen
          /\ ask'[a].outcome = ask[a].outcome
          /\ pending' \in [States -> SUBSET Asks]
          /\ \A g \in States : pending'[g] = IF g = ask[a].gen THEN pending[g] \cup {a} ELSE pending[g]
          /\ UNCHANGED <<gen, approved, closing, failed, deferred, reply, published>>
        BY DEF TypeOK, Enter, AskUnchanged, AskRows, AskStages
    <2> QED BY <2>1, <2>2
<1>2. TypeOK'
    BY <1>1 DEF TypeOK
<1>3. TypeFacts /\ TypeFacts'
    BY <1>2, TypesByField, PTL
<1>4. ApprovedGrows
    BY <1>1 DEF TypeOK, ApprovedGrows, Rules
<1>5. PendingWaits'
    <2> SUFFICES ASSUME NEW g \in States, NEW b \in pending'[g]
                 PROVE  /\ ask'[b].at = "waiting" /\ ask'[b].gen = g
                        /\ \A e \in published : e.of # b
                        /\ deferred[b] # "open" => closing[g] # "open"
        BY <1>1 DEF PendingWaits, Unanswered
    <2>1. CASE b = a
        <3>1. a \notin pending[g] /\ deferred[a] = "open" /\ \A e \in published : e.of # a
            BY <1>1 DEF PendingWaits, EarlyIsOpen, Unanswered
        <3> QED BY <1>1, <2>1, <3>1
    <2>2. CASE b # a
        <3>1. b \in pending[g] /\ b \in Asks
            BY <1>3, <1>1, <2>2 DEF TypeFacts
        <3> QED BY <1>1, <2>2, <3>1 DEF PendingWaits, Unanswered
    <2> QED BY <2>1, <2>2
<1>6. EarlyIsOpen'
    BY <1>3, <1>1 DEF TypeFacts, EarlyIsOpen, EventsAreTaken, PendingWaits, Unanswered
<1>7. EndsAreEarned'
    BY <1>3, <1>1, <1>4, RulesStay DEF TypeFacts, EndsAreEarned, PendingWaits, EarlyIsOpen, Unanswered
<1>8. EventsAreTaken'
    BY <1>3, <1>1 DEF TypeFacts, EventsAreTaken, PendingWaits
<1>9. OneEventEach'
    BY <1>3, <1>1 DEF TypeFacts, OneEventEach, PendingWaits, Unanswered
<1>10. RepliesPublish'
    BY <1>3, <1>1, <1>4, RulesStay DEF TypeFacts, RepliesPublish, EventsAreTaken, Event
<1>11. EventsAreKept'
    BY <1>3, <1>1 DEF TypeFacts, EventsAreKept, EventsAreTaken, PendingWaits, Unanswered
<1>12. GrantsAreJust'
    BY <1>3, <1>1, <1>4, RulesStay, GrantStays DEF TypeFacts, GrantsAreJust, EarlyIsOpen
<1>13. PeersAreOld'
    BY <1>3, <1>1 DEF TypeFacts, PeersAreOld, PendingWaits
<1>14. RulesAreIn'
    <2>1. UNCHANGED <<approved, reply>>
        BY <1>1
    <2> QED BY <2>1 DEF RulesAreIn
<1>15. MetIsSettled'
    BY <1>3, <1>1 DEF TypeFacts, PeersAreOld, MetIsSettled
<1>16. NoPeerLeftBehind'
    BY <1>3, <1>1 DEF TypeFacts, PeersAreOld, MetIsSettled, NoPeerLeftBehind
<1> QED BY <1>2, <1>5, <1>6, <1>7, <1>8, <1>9, <1>10, <1>11, <1>12, <1>13, <1>14, <1>15, <1>16

\* A settled call returns.
LEMMA ResumeKeeps ==
    ASSUME RequestAssumption, RulesAssumption, DisposalAssumption, IInv, NEW a \in Asks, Resume(a)
    PROVE  IInv'
<1> USE DEF IInv
<1>1. /\ ask' \in [Asks -> AskRows]
      /\ \A b \in Asks \ {a} : ask'[b] = ask[b]
      /\ ask[a].at \in {"asking", "waiting"}
      /\ ask'[a].at = "done"
      /\ ask'[a].gen = ask[a].gen
      /\ ask'[a].outcome = IF deferred[a] = "granted" THEN "allowed" ELSE "rejected"
      /\ deferred[a] # "open"
      /\ pending' \in [States -> SUBSET Asks]
      /\ \A g \in States : pending'[g] = IF g = ask[a].gen THEN pending[g] \ {a} ELSE pending[g]
      /\ UNCHANGED <<gen, approved, closing, failed, deferred, reply, published>>
    <2>1. ask' \in [Asks -> AskRows]
        <3> DEFINE row == [ask[a] EXCEPT !.at = "done", !.late = FALSE,
                             !.outcome = IF deferred[a] = "granted" THEN "allowed" ELSE "rejected"]
        <3>1. ask[a] \in AskRows
            BY DEF TypeOK
        <3>2. row \in AskRows
            BY <3>1 DEF TypeOK, AskRows, AskStages, Outcomes
        <3>3. ask' = [ask EXCEPT ![a] = row]
            BY DEF Resume, Return
        <3> HIDE DEF row
        <3> QED BY <3>2, <3>3 DEF TypeOK
    <2>2. /\ \A b \in Asks \ {a} : ask'[b] = ask[b]
          /\ ask[a].at \in {"asking", "waiting"}
          /\ ask'[a].at = "done"
          /\ ask'[a].gen = ask[a].gen
          /\ ask'[a].outcome = IF deferred[a] = "granted" THEN "allowed" ELSE "rejected"
          /\ deferred[a] # "open"
          /\ pending' \in [States -> SUBSET Asks]
          /\ \A g \in States : pending'[g] = IF g = ask[a].gen THEN pending[g] \ {a} ELSE pending[g]
          /\ UNCHANGED <<gen, approved, closing, failed, deferred, reply, published>>
        BY DEF TypeOK, Resume, Return, AskUnchanged, AskRows, AskStages, Outcomes
    <2> QED BY <2>1, <2>2
<1>2. TypeOK'
    BY <1>1 DEF TypeOK
<1>3. TypeFacts /\ TypeFacts'
    BY <1>2, TypesByField, PTL
<1>4. ApprovedGrows
    BY <1>1 DEF TypeOK, ApprovedGrows, Rules
<1>5. PendingWaits'
    BY <1>3, <1>1 DEF TypeFacts, PendingWaits, Unanswered
<1>6. EarlyIsOpen'
    BY <1>3, <1>1 DEF TypeFacts, EarlyIsOpen, EventsAreTaken, PendingWaits, Unanswered
<1>7. EndsAreEarned'
    BY <1>3, <1>1, <1>4, RulesStay DEF TypeFacts, EndsAreEarned, PendingWaits, EarlyIsOpen, Unanswered
<1>8. EventsAreTaken'
    BY <1>3, <1>1 DEF TypeFacts, EventsAreTaken, PendingWaits
<1>9. OneEventEach'
    BY <1>3, <1>1 DEF TypeFacts, OneEventEach, PendingWaits, Unanswered
<1>10. RepliesPublish'
    BY <1>3, <1>1, <1>4, RulesStay DEF TypeFacts, RepliesPublish, EventsAreTaken, Event
<1>11. EventsAreKept'
    BY <1>3, <1>1 DEF TypeFacts, EventsAreKept, EventsAreTaken, PendingWaits, Unanswered
<1>12. GrantsAreJust'
    BY <1>3, <1>1, <1>4, RulesStay, GrantStays DEF TypeFacts, GrantsAreJust, EarlyIsOpen
<1>13. PeersAreOld'
    BY <1>3, <1>1 DEF TypeFacts, PeersAreOld, PendingWaits
<1>14. RulesAreIn'
    <2>1. UNCHANGED <<approved, reply>>
        BY <1>1
    <2> QED BY <2>1 DEF RulesAreIn
<1>15. MetIsSettled'
    BY <1>3, <1>1 DEF TypeFacts, PeersAreOld, MetIsSettled
<1>16. NoPeerLeftBehind'
    BY <1>3, <1>1 DEF TypeFacts, PeersAreOld, MetIsSettled, NoPeerLeftBehind
<1> QED BY <1>2, <1>5, <1>6, <1>7, <1>8, <1>9, <1>10, <1>11, <1>12, <1>13, <1>14, <1>15, <1>16

\* A call is interrupted.
LEMMA InterruptKeeps ==
    ASSUME RequestAssumption, RulesAssumption, DisposalAssumption, IInv, NEW a \in Asks, Interrupt(a)
    PROVE  IInv'
<1> USE DEF IInv
<1>1. /\ ask' \in [Asks -> AskRows]
      /\ \A b \in Asks \ {a} : ask'[b] = ask[b]
      /\ ask[a].at \in {"asking", "waiting"}
      /\ ask'[a].at = "done"
      /\ ask'[a].gen = ask[a].gen
      /\ ask'[a].outcome = "interrupted"
      /\ pending' \in [States -> SUBSET Asks]
      /\ \A g \in States : pending'[g] = IF g = ask[a].gen THEN pending[g] \ {a} ELSE pending[g]
      /\ UNCHANGED <<gen, approved, closing, failed, deferred, reply, published>>
    <2>1. ask' \in [Asks -> AskRows]
        <3> DEFINE row == [ask[a] EXCEPT !.at = "done", !.late = FALSE, !.outcome = "interrupted"]
        <3>1. ask[a] \in AskRows
            BY DEF TypeOK
        <3>2. row \in AskRows
            BY <3>1 DEF TypeOK, AskRows, AskStages, Outcomes
        <3>3. ask' = [ask EXCEPT ![a] = row]
            BY DEF Interrupt, Return
        <3> HIDE DEF row
        <3> QED BY <3>2, <3>3 DEF TypeOK
    <2>2. /\ \A b \in Asks \ {a} : ask'[b] = ask[b]
          /\ ask[a].at \in {"asking", "waiting"}
          /\ ask'[a].at = "done"
          /\ ask'[a].gen = ask[a].gen
          /\ ask'[a].outcome = "interrupted"
          /\ pending' \in [States -> SUBSET Asks]
          /\ \A g \in States : pending'[g] = IF g = ask[a].gen THEN pending[g] \ {a} ELSE pending[g]
          /\ UNCHANGED <<gen, approved, closing, failed, deferred, reply, published>>
        BY DEF TypeOK, Interrupt, Return, AskUnchanged, AskRows, AskStages, Outcomes
    <2> QED BY <2>1, <2>2
<1>2. TypeOK'
    BY <1>1 DEF TypeOK
<1>3. TypeFacts /\ TypeFacts'
    BY <1>2, TypesByField, PTL
<1>4. ApprovedGrows
    BY <1>1 DEF TypeOK, ApprovedGrows, Rules
<1>5. PendingWaits'
    BY <1>3, <1>1 DEF TypeFacts, PendingWaits, Unanswered
<1>6. EarlyIsOpen'
    BY <1>3, <1>1 DEF TypeFacts, EarlyIsOpen, EventsAreTaken, PendingWaits, Unanswered
<1>7. EndsAreEarned'
    BY <1>3, <1>1, <1>4, RulesStay DEF TypeFacts, EndsAreEarned, PendingWaits, EarlyIsOpen, Unanswered
<1>8. EventsAreTaken'
    BY <1>3, <1>1 DEF TypeFacts, EventsAreTaken, PendingWaits
<1>9. OneEventEach'
    BY <1>3, <1>1 DEF TypeFacts, OneEventEach, PendingWaits, Unanswered
<1>10. RepliesPublish'
    BY <1>3, <1>1, <1>4, RulesStay DEF TypeFacts, RepliesPublish, EventsAreTaken, Event
<1>11. EventsAreKept'
    BY <1>3, <1>1 DEF TypeFacts, EventsAreKept, EventsAreTaken, PendingWaits, Unanswered
<1>12. GrantsAreJust'
    BY <1>3, <1>1, <1>4, RulesStay, GrantStays DEF TypeFacts, GrantsAreJust, EarlyIsOpen
<1>13. PeersAreOld'
    BY <1>3, <1>1 DEF TypeFacts, PeersAreOld, PendingWaits
<1>14. RulesAreIn'
    <2>1. UNCHANGED <<approved, reply>>
        BY <1>1
    <2> QED BY <2>1 DEF RulesAreIn
<1>15. MetIsSettled'
    BY <1>3, <1>1 DEF TypeFacts, PeersAreOld, MetIsSettled
<1>16. NoPeerLeftBehind'
    BY <1>3, <1>1 DEF TypeFacts, PeersAreOld, MetIsSettled, NoPeerLeftBehind
<1> QED BY <1>2, <1>5, <1>6, <1>7, <1>8, <1>9, <1>10, <1>11, <1>12, <1>13, <1>14, <1>15, <1>16

\* A reply takes its request.
LEMMA TakeKeeps ==
    ASSUME RequestAssumption, RulesAssumption, DisposalAssumption, IInv, NEW r \in Replies, NEW a \in Asks, NEW kind \in Kinds, Take(r, a, kind)
    PROVE  IInv'
<1> USE DEF IInv
<1>1. /\ reply' \in [Replies -> ReplyRows]
      /\ \A q \in Replies \ {r} : reply'[q] = reply[q]
      /\ reply[r].at = "idle"
      /\ reply'[r].at = "taken"
      /\ reply'[r].gen = gen
      /\ reply'[r].of = a
      /\ reply'[r].kind = kind
      /\ reply'[r].met = reply[r].met
      /\ reply'[r].hand = reply[r].hand
      /\ \A b \in reply'[r].peers : b \in pending[gen] /\ SessionOf[b] = SessionOf[a]
      /\ a \in pending[gen]
      /\ pending' \in [States -> SUBSET Asks]
      /\ \A g \in States : pending'[g] = IF g = gen THEN pending[g] \ {a} ELSE pending[g]
      /\ published' = published \cup {Event(a, kind, r)}
      /\ Event(a, kind, r) \in Events
      /\ Event(a, kind, r).of = a /\ Event(a, kind, r).by = r /\ Event(a, kind, r).kind = kind
      /\ UNCHANGED <<gen, approved, closing, failed, ask, deferred>>
    <2>1. reply' \in [Replies -> ReplyRows]
        <3> DEFINE row == [reply[r] EXCEPT !.at = "taken", !.gen = gen, !.of = a, !.kind = kind,
                                 !.peers = Peers(gen, a) \ {a}]
        <3>1. reply[r] \in ReplyRows
            BY DEF TypeOK
        <3>2. row \in ReplyRows
            BY <3>1 DEF TypeOK, ReplyRows, ReplyStages, Kinds, Grants, Peers
        <3>3. reply' = [reply EXCEPT ![r] = row]
            BY DEF Take
        <3> HIDE DEF row
        <3> QED BY <3>2, <3>3 DEF TypeOK
    <2>2. /\ \A q \in Replies \ {r} : reply'[q] = reply[q]
          /\ reply[r].at = "idle"
          /\ reply'[r].at = "taken"
          /\ reply'[r].gen = gen
          /\ reply'[r].of = a
          /\ reply'[r].kind = kind
          /\ reply'[r].met = reply[r].met
          /\ reply'[r].hand = reply[r].hand
        BY DEF TypeOK, Take, Peers, Event, Events, ReplyRows, ReplyStages
    <2>3. /\ \A b \in reply'[r].peers : b \in pending[gen] /\ SessionOf[b] = SessionOf[a]
          /\ a \in pending[gen]
          /\ pending' \in [States -> SUBSET Asks]
          /\ \A g \in States : pending'[g] = IF g = gen THEN pending[g] \ {a} ELSE pending[g]
        BY DEF TypeOK, Take, Peers, Event, Events, ReplyRows, ReplyStages
    <2>4. /\ published' = published \cup {Event(a, kind, r)}
          /\ Event(a, kind, r) \in Events
          /\ Event(a, kind, r).of = a /\ Event(a, kind, r).by = r /\ Event(a, kind, r).kind = kind
          /\ UNCHANGED <<gen, approved, closing, failed, ask, deferred>>
        BY DEF TypeOK, Take, Peers, Event, Events, ReplyRows, ReplyStages
    <2> QED BY <2>1, <2>2, <2>3, <2>4
<1>2. TypeOK'
    BY <1>1 DEF TypeOK, Events
<1>3. TypeFacts /\ TypeFacts'
    BY <1>2, TypesByField, PTL
<1>4. ApprovedGrows
    BY <1>1 DEF TypeOK, ApprovedGrows, Rules
<1>5. PendingWaits'
    BY <1>3, <1>1 DEF TypeFacts, PendingWaits, Unanswered
<1>6. EarlyIsOpen'
    BY <1>3, <1>1 DEF TypeFacts, EarlyIsOpen, EventsAreTaken, PendingWaits, Unanswered
<1>7. EndsAreEarned'
    BY <1>3, <1>1, <1>4, RulesStay DEF TypeFacts, EndsAreEarned, PendingWaits, EarlyIsOpen, Unanswered
<1>8. EventsAreTaken'
    BY <1>3, <1>1 DEF TypeFacts, EventsAreTaken, PendingWaits
<1>9. OneEventEach'
    BY <1>3, <1>1 DEF TypeFacts, OneEventEach, PendingWaits, Unanswered
<1>10. RepliesPublish'
    <2> SUFFICES ASSUME NEW q \in Replies
                 PROVE  /\ reply'[q].at # "idle" =>
                            /\ reply'[q].of \in Asks
                            /\ reply'[q].kind \in Kinds
                            /\ Event(reply'[q].of, reply'[q].kind, q) \in published'
                        /\ reply'[q].hand # NoAsk =>
                            /\ reply'[q].at # "idle"
                            /\ Event(reply'[q].hand, reply'[q].kind, q) \in published'
                            /\ reply'[q].kind \in Grants => AllowedByRule(ask[reply[q].hand].gen, reply[q].hand)'
                        /\ reply'[q].at \in {"granted", "walking"} => reply'[q].kind # "once"
        BY DEF RepliesPublish
    <2>0. UNCHANGED ask /\ published \subseteq published'
        BY <1>1
    <2>1. CASE reply'[q].hand = reply[q].hand /\ reply[q].hand # NoAsk
        <3>1. reply[q].hand \in Asks /\ ask[reply[q].hand].gen \in States
            BY <1>3, <2>1 DEF TypeFacts
        <3>2. reply[q].kind \in Grants => AllowedByRule(ask[reply[q].hand].gen, reply[q].hand)'
            BY <2>0, <2>1, <3>1, <1>4, RulesStay DEF RepliesPublish
        <3> QED BY <1>1, <2>0, <2>1, <3>2 DEF RepliesPublish
    <2>2. CASE reply'[q].hand = NoAsk
        BY <1>1, <2>0, <2>2 DEF RepliesPublish, Kinds
    <2>3. reply'[q].hand = reply[q].hand
        BY <1>1
    <2> QED BY <2>1, <2>2, <2>3
<1>11. EventsAreKept'
    BY <1>3, <1>1 DEF TypeFacts, EventsAreKept, EventsAreTaken, PendingWaits, Unanswered
<1>12. GrantsAreJust'
    BY <1>3, <1>1, <1>4, RulesStay, GrantStays DEF TypeFacts, GrantsAreJust, EarlyIsOpen
<1>13. PeersAreOld'
    BY <1>3, <1>1 DEF TypeFacts, PeersAreOld, PendingWaits
<1>14. RulesAreIn'
    <2> SUFFICES ASSUME NEW q \in Replies, reply'[q].at = "walking", reply'[q].kind = "always",
                        NEW t \in Always[reply'[q].of]
                 PROVE  approved'[reply'[q].gen][t] = "allow"
        BY DEF RulesAreIn
    <2>1. q # r => reply'[q] = reply[q]
        BY <1>1
    <2>2. reply'[q] = reply[q] /\ UNCHANGED approved
        BY <1>1
    <2> QED BY <2>2 DEF RulesAreIn
<1>15. MetIsSettled'
    BY <1>3, <1>1 DEF TypeFacts, PeersAreOld, MetIsSettled
<1>16. NoPeerLeftBehind'
    <2> SUFFICES ASSUME NEW q \in Replies, reply'[q].at = "done",
                        NEW b \in reply'[q].peers \cap pending'[reply'[q].gen]
                 PROVE  \/ reply'[q].kind = "once"
                        \/ reply'[q].kind = "always" /\ ~(Wants[b] \subseteq Always[reply'[q].of])
        BY DEF NoPeerLeftBehind
    <2>1. q # r /\ reply'[q] = reply[q]
        BY <1>1
    <2>2. b \in pending[reply[q].gen]
        BY <1>3, <1>1, <2>1 DEF TypeFacts
    <2> QED BY <2>1, <2>2 DEF NoPeerLeftBehind
<1> QED BY <1>2, <1>5, <1>6, <1>7, <1>8, <1>9, <1>10, <1>11, <1>12, <1>13, <1>14, <1>15, <1>16

\* A reply settles its request.
LEMMA AnswerOneKeeps ==
    ASSUME RequestAssumption, RulesAssumption, DisposalAssumption, IInv, NEW r \in Replies, AnswerOne(r)
    PROVE  IInv'
<1> USE DEF IInv
<1>1. /\ reply' \in [Replies -> ReplyRows]
      /\ \A q \in Replies \ {r} : reply'[q] = reply[q]
      /\ reply[r].at = "taken"
      /\ reply'[r].at = CASE reply[r].kind = "once" -> "done" [] reply[r].kind = "always" -> "granted" [] OTHER -> "walking"
      /\ reply'[r].gen = reply[r].gen
      /\ reply'[r].of = reply[r].of
      /\ reply'[r].kind = reply[r].kind
      /\ reply'[r].peers = reply[r].peers
      /\ reply'[r].met = reply[r].met
      /\ reply'[r].hand = reply[r].hand
      /\ deferred' \in [Asks -> {"open", "granted", "rejected"}]
      /\ \A b \in Asks : deferred'[b] = IF b = reply[r].of /\ deferred[b] = "open" THEN Verdict(reply[r].kind) ELSE deferred[b]
      /\ UNCHANGED <<gen, pending, approved, closing, failed, ask, published>>
    <2>1. reply' \in [Replies -> ReplyRows]
        <3> DEFINE row == [reply[r] EXCEPT !.at = CASE reply[r].kind = "once" -> "done"
                                     [] reply[r].kind = "always" -> "granted"
                                     [] OTHER -> "walking"]
        <3>1. reply[r] \in ReplyRows
            BY DEF TypeOK
        <3>2. row \in ReplyRows
            BY <3>1 DEF TypeOK, ReplyRows, ReplyStages, Kinds, Grants
        <3>3. reply' = [reply EXCEPT ![r] = row]
            BY DEF AnswerOne
        <3> HIDE DEF row
        <3> QED BY <3>2, <3>3 DEF TypeOK
    <2>2. /\ \A q \in Replies \ {r} : reply'[q] = reply[q]
          /\ reply[r].at = "taken"
          /\ reply'[r].at = CASE reply[r].kind = "once" -> "done" [] reply[r].kind = "always" -> "granted" [] OTHER -> "walking"
          /\ reply'[r].gen = reply[r].gen
          /\ reply'[r].of = reply[r].of
          /\ reply'[r].kind = reply[r].kind
          /\ reply'[r].peers = reply[r].peers
          /\ reply'[r].met = reply[r].met
          /\ reply'[r].hand = reply[r].hand
          /\ deferred' \in [Asks -> {"open", "granted", "rejected"}]
          /\ \A b \in Asks : deferred'[b] = IF b = reply[r].of /\ deferred[b] = "open" THEN Verdict(reply[r].kind) ELSE deferred[b]
          /\ UNCHANGED <<gen, pending, approved, closing, failed, ask, published>>
        BY DEF TypeOK, AnswerOne, Settle, Verdict, ReplyRows, ReplyStages
    <2> QED BY <2>1, <2>2
<1>2. TypeOK'
    BY <1>1 DEF TypeOK
<1>3. TypeFacts /\ TypeFacts'
    BY <1>2, TypesByField, PTL
<1>4. ApprovedGrows
    BY <1>1 DEF TypeOK, ApprovedGrows, Rules
<1>17. /\ Event(reply[r].of, reply[r].kind, r) \in published
      /\ Event(reply[r].of, reply[r].kind, r).of = reply[r].of
      /\ Event(reply[r].of, reply[r].kind, r).kind = reply[r].kind
      /\ Event(reply[r].of, reply[r].kind, r).by = r
      /\ reply[r].of \in Asks
    BY <1>3, <1>1 DEF RepliesPublish, Event, TypeFacts
<1>5. PendingWaits'
    <2>1. \A g \in States : reply[r].of \notin pending[g]
        BY <1>17 DEF PendingWaits, Unanswered
    <2> QED BY <1>3, <1>1, <2>1 DEF PendingWaits, Unanswered, TypeFacts
<1>6. EarlyIsOpen'
    <2>1. ask[reply[r].of].at \notin {"idle", "asking"}
        BY <1>17 DEF EventsAreTaken
    <2> QED BY <1>1, <2>1 DEF EarlyIsOpen, Unanswered
<1>7. EndsAreEarned'
    BY <1>3, <1>1, <1>4, RulesStay DEF TypeFacts, EndsAreEarned, PendingWaits, EarlyIsOpen, Unanswered
<1>8. EventsAreTaken'
    BY <1>3, <1>1 DEF TypeFacts, EventsAreTaken, PendingWaits
<1>9. OneEventEach'
    BY <1>3, <1>1 DEF TypeFacts, OneEventEach, PendingWaits, Unanswered
<1>10. RepliesPublish'
    BY <1>3, <1>1, <1>4, RulesStay DEF TypeFacts, RepliesPublish, EventsAreTaken, Event
<1>11. EventsAreKept'
    <2> SUFFICES ASSUME NEW f \in published, closing[ask[f.of].gen] = "open"
                 PROVE  deferred'[f.of] \in {"open", Verdict(f.kind)}
        BY <1>1 DEF EventsAreKept, Verdict
    <2>1. deferred[f.of] \in {"open", Verdict(f.kind)} /\ f.of \in Asks
        BY <1>3 DEF EventsAreKept, TypeFacts
    <2>2. CASE f.of = reply[r].of
        <3>1. f = Event(reply[r].of, reply[r].kind, r)
            BY <1>17, <2>2 DEF OneEventEach
        <3> QED BY <1>1, <1>17, <2>1, <2>2, <3>1
    <2>3. CASE f.of # reply[r].of
        BY <1>1, <2>1, <2>3
    <2> QED BY <2>2, <2>3
<1>12. GrantsAreJust'
    <2> SUFFICES ASSUME NEW b \in Asks, deferred'[b] = "granted"
                 PROVE  AllowedByRule(ask[b].gen, b)' \/ DirectGrant(b)'
        BY DEF GrantsAreJust
    <2>1. ask'[b].gen = ask[b].gen /\ ask[b].gen \in States /\ published' = published
        BY <1>3, <1>1 DEF TypeFacts
    <2>2. \A q \in Replies : reply'[q].of = reply[q].of
        BY <1>1
    <2>3. CASE deferred[b] = "granted"
        <3>1. AllowedByRule(ask[b].gen, b) \/ DirectGrant(b)
            BY <2>3 DEF GrantsAreJust
        <3> QED BY <2>1, <2>2, <3>1, <1>4, RulesStay, GrantStays
    <2>4. CASE deferred[b] # "granted"
        <3>1. b = reply[r].of /\ Verdict(reply[r].kind) = "granted"
            BY <1>1, <2>4
        <3>2. reply[r].kind \in Grants
            BY <3>1 DEF Verdict
        <3>3. DirectGrant(b)
            BY <1>17, <3>1, <3>2 DEF DirectGrant
        <3> QED BY <2>1, <2>2, <3>3, GrantStays
    <2> QED BY <2>3, <2>4
<1>13. PeersAreOld'
    BY <1>3, <1>1 DEF TypeFacts, PeersAreOld, PendingWaits
<1>14. RulesAreIn'
    <2> SUFFICES ASSUME NEW q \in Replies, reply'[q].at = "walking", reply'[q].kind = "always",
                        NEW t \in Always[reply'[q].of]
                 PROVE  approved'[reply'[q].gen][t] = "allow"
        BY DEF RulesAreIn
    <2>1. q # r => reply'[q] = reply[q]
        BY <1>1
    <2>2. reply'[q] = reply[q] /\ UNCHANGED approved
        BY <1>1
    <2> QED BY <2>2 DEF RulesAreIn
<1>15. MetIsSettled'
    BY <1>3, <1>1 DEF TypeFacts, PeersAreOld, MetIsSettled
<1>16. NoPeerLeftBehind'
    BY <1>3, <1>1 DEF TypeFacts, PeersAreOld, MetIsSettled, NoPeerLeftBehind
<1> QED BY <1>2, <1>5, <1>6, <1>7, <1>8, <1>9, <1>10, <1>11, <1>12, <1>13, <1>14, <1>15, <1>16

\* An "always" adds its rules.
LEMMA ApproveKeeps ==
    ASSUME RequestAssumption, RulesAssumption, DisposalAssumption, IInv, NEW r \in Replies, Approve(r)
    PROVE  IInv'
<1> USE DEF IInv
<1>1. /\ reply' \in [Replies -> ReplyRows]
      /\ \A q \in Replies \ {r} : reply'[q] = reply[q]
      /\ reply[r].at = "granted"
      /\ reply'[r].at = "walking"
      /\ reply'[r].gen = reply[r].gen
      /\ reply'[r].of = reply[r].of
      /\ reply'[r].kind = reply[r].kind
      /\ reply'[r].peers = reply[r].peers
      /\ reply'[r].met = reply[r].met
      /\ reply'[r].hand = reply[r].hand
      /\ approved' \in [States -> Rules]
      /\ \A t \in Always[reply[r].of] \cap Things : approved'[reply[r].gen][t] = "allow"
      /\ UNCHANGED <<gen, pending, closing, failed, ask, deferred, published>>
    <2>1. reply' \in [Replies -> ReplyRows]
        <3> DEFINE row == [reply[r] EXCEPT !.at = "walking"]
        <3>1. reply[r] \in ReplyRows
            BY DEF TypeOK
        <3>2. row \in ReplyRows
            BY <3>1 DEF TypeOK, ReplyRows, ReplyStages, Kinds, Grants
        <3>3. reply' = [reply EXCEPT ![r] = row]
            BY DEF Approve
        <3> HIDE DEF row
        <3> QED BY <3>2, <3>3 DEF TypeOK
    <2>2. /\ \A q \in Replies \ {r} : reply'[q] = reply[q]
          /\ reply[r].at = "granted"
          /\ reply'[r].at = "walking"
          /\ reply'[r].gen = reply[r].gen
          /\ reply'[r].of = reply[r].of
          /\ reply'[r].kind = reply[r].kind
          /\ reply'[r].peers = reply[r].peers
          /\ reply'[r].met = reply[r].met
          /\ reply'[r].hand = reply[r].hand
          /\ approved' \in [States -> Rules]
          /\ \A t \in Always[reply[r].of] \cap Things : approved'[reply[r].gen][t] = "allow"
          /\ UNCHANGED <<gen, pending, closing, failed, ask, deferred, published>>
        BY DEF TypeOK, Approve, ReplyRows, ReplyStages, Rules, Action
    <2> QED BY <2>1, <2>2
<1>2. TypeOK'
    BY <1>1 DEF TypeOK
<1>3. TypeFacts /\ TypeFacts'
    BY <1>2, TypesByField, PTL
<1>4. ApprovedGrows
    BY DEF TypeOK, Approve, ApprovedGrows, Rules
<1>5. PendingWaits'
    BY <1>3, <1>1 DEF TypeFacts, PendingWaits, Unanswered
<1>6. EarlyIsOpen'
    BY <1>3, <1>1 DEF TypeFacts, EarlyIsOpen, EventsAreTaken, PendingWaits, Unanswered
<1>7. EndsAreEarned'
    BY <1>3, <1>1, <1>4, RulesStay DEF TypeFacts, EndsAreEarned, PendingWaits, EarlyIsOpen, Unanswered
<1>8. EventsAreTaken'
    BY <1>3, <1>1 DEF TypeFacts, EventsAreTaken, PendingWaits
<1>9. OneEventEach'
    BY <1>3, <1>1 DEF TypeFacts, OneEventEach, PendingWaits, Unanswered
<1>10. RepliesPublish'
    <2> SUFFICES ASSUME NEW q \in Replies
                 PROVE  /\ reply'[q].at # "idle" =>
                            /\ reply'[q].of \in Asks
                            /\ reply'[q].kind \in Kinds
                            /\ Event(reply'[q].of, reply'[q].kind, q) \in published'
                        /\ reply'[q].hand # NoAsk =>
                            /\ reply'[q].at # "idle"
                            /\ Event(reply'[q].hand, reply'[q].kind, q) \in published'
                            /\ reply'[q].kind \in Grants => AllowedByRule(ask[reply[q].hand].gen, reply[q].hand)'
                        /\ reply'[q].at \in {"granted", "walking"} => reply'[q].kind # "once"
        BY DEF RepliesPublish
    <2>0. UNCHANGED ask /\ published \subseteq published'
        BY <1>1
    <2>1. CASE reply'[q].hand = reply[q].hand /\ reply[q].hand # NoAsk
        <3>1. reply[q].hand \in Asks /\ ask[reply[q].hand].gen \in States
            BY <1>3, <2>1 DEF TypeFacts
        <3>2. reply[q].kind \in Grants => AllowedByRule(ask[reply[q].hand].gen, reply[q].hand)'
            BY <2>0, <2>1, <3>1, <1>4, RulesStay DEF RepliesPublish
        <3> QED BY <1>1, <2>0, <2>1, <3>2 DEF RepliesPublish
    <2>2. CASE reply'[q].hand = NoAsk
        BY <1>1, <2>0, <2>2 DEF RepliesPublish, Kinds
    <2>3. reply'[q].hand = reply[q].hand
        BY <1>1
    <2> QED BY <2>1, <2>2, <2>3
<1>11. EventsAreKept'
    BY <1>3, <1>1 DEF TypeFacts, EventsAreKept, EventsAreTaken, PendingWaits, Unanswered
<1>12. GrantsAreJust'
    BY <1>3, <1>1, <1>4, RulesStay, GrantStays DEF TypeFacts, GrantsAreJust, EarlyIsOpen
<1>13. PeersAreOld'
    BY <1>3, <1>1 DEF TypeFacts, PeersAreOld, PendingWaits
<1>14. RulesAreIn'
    <2> SUFFICES ASSUME NEW q \in Replies, reply'[q].at = "walking", reply'[q].kind = "always",
                        NEW t \in Always[reply'[q].of]
                 PROVE  approved'[reply'[q].gen][t] = "allow"
        BY DEF RulesAreIn
    <2>1. q # r => reply'[q] = reply[q]
        BY <1>1
    <2>2. reply'[q].at # "idle" /\ reply'[q].of \in Asks /\ reply'[q].gen \in States
        BY <1>3, <1>1 DEF RepliesPublish, TypeFacts
    <2>3. t \in Things
        BY <2>2 DEF RequestAssumption
    <2>4. CASE q = r
        BY <1>1, <2>3, <2>4
    <2>5. CASE q # r
        <3>1. approved[reply[q].gen][t] = "allow"
            BY <2>1, <2>5 DEF RulesAreIn
        <3> QED BY <1>4, <2>1, <2>2, <2>3, <2>5, <3>1 DEF ApprovedGrows
    <2> QED BY <2>4, <2>5
<1>15. MetIsSettled'
    BY <1>3, <1>1 DEF TypeFacts, PeersAreOld, MetIsSettled
<1>16. NoPeerLeftBehind'
    BY <1>3, <1>1 DEF TypeFacts, PeersAreOld, MetIsSettled, NoPeerLeftBehind
<1> QED BY <1>2, <1>5, <1>6, <1>7, <1>8, <1>9, <1>10, <1>11, <1>12, <1>13, <1>14, <1>15, <1>16

\* A walk takes an entry it speaks for.
LEMMA MeetSettlesKeeps ==
    ASSUME RequestAssumption, RulesAssumption, DisposalAssumption, IInv, NEW r \in Replies, NEW a \in Asks, Meet(r, a), Concerns(r, a)
    PROVE  IInv'
<1> USE DEF IInv
<1>1. /\ reply' \in [Replies -> ReplyRows]
      /\ \A q \in Replies \ {r} : reply'[q] = reply[q]
      /\ reply[r].at = "walking" /\ reply[r].hand = NoAsk
      /\ reply'[r].at = "walking"
      /\ reply'[r].gen = reply[r].gen
      /\ reply'[r].of = reply[r].of
      /\ reply'[r].kind = reply[r].kind
      /\ reply'[r].peers = reply[r].peers
      /\ reply'[r].met = reply[r].met \cup {a}
      /\ a \in pending[reply[r].gen]
      /\ reply'[r].hand = a
      /\ pending' \in [States -> SUBSET Asks]
      /\ \A g \in States : pending'[g] = IF g = reply[r].gen THEN pending[g] \ {a} ELSE pending[g]
      /\ published' = published \cup {Event(a, reply[r].kind, r)}
      /\ Event(a, reply[r].kind, r).of = a /\ Event(a, reply[r].kind, r).by = r /\ Event(a, reply[r].kind, r).kind = reply[r].kind
      /\ UNCHANGED <<gen, approved, closing, failed, ask, deferred>>
    <2>1. reply' \in [Replies -> ReplyRows]
        <3> DEFINE row == [reply[r] EXCEPT !.met = @ \cup {a}, !.hand = a]
        <3>1. reply[r] \in ReplyRows
            BY DEF TypeOK
        <3>2. row \in ReplyRows
            BY <3>1 DEF TypeOK, ReplyRows, ReplyStages, Kinds, Grants
        <3>3. reply' = [reply EXCEPT ![r] = row]
            BY DEF Meet
        <3> HIDE DEF row
        <3> QED BY <3>2, <3>3 DEF TypeOK
    <2>2. /\ \A q \in Replies \ {r} : reply'[q] = reply[q]
          /\ reply[r].at = "walking" /\ reply[r].hand = NoAsk
          /\ reply'[r].at = "walking"
          /\ reply'[r].gen = reply[r].gen
          /\ reply'[r].of = reply[r].of
          /\ reply'[r].kind = reply[r].kind
          /\ reply'[r].peers = reply[r].peers
          /\ reply'[r].met = reply[r].met \cup {a}
          /\ a \in pending[reply[r].gen]
          /\ reply'[r].hand = a
          /\ pending' \in [States -> SUBSET Asks]
          /\ \A g \in States : pending'[g] = IF g = reply[r].gen THEN pending[g] \ {a} ELSE pending[g]
          /\ published' = published \cup {Event(a, reply[r].kind, r)}
          /\ Event(a, reply[r].kind, r).of = a /\ Event(a, reply[r].kind, r).by = r /\ Event(a, reply[r].kind, r).kind = reply[r].kind
          /\ UNCHANGED <<gen, approved, closing, failed, ask, deferred>>
        BY DEF TypeOK, Meet, ReplyRows, ReplyStages, Event
    <2> QED BY <2>1, <2>2
<1>2. TypeOK'
    <2>1. Event(a, reply[r].kind, r) \in Events
        BY <1>1 DEF RepliesPublish, Event, Events
    <2> QED BY <1>1, <2>1 DEF TypeOK
<1>3. TypeFacts /\ TypeFacts'
    BY <1>2, TypesByField, PTL
<1>4. ApprovedGrows
    BY <1>1 DEF TypeOK, ApprovedGrows, Rules
<1>5. PendingWaits'
    BY <1>3, <1>1 DEF TypeFacts, PendingWaits, Unanswered
<1>6. EarlyIsOpen'
    BY <1>3, <1>1 DEF TypeFacts, EarlyIsOpen, EventsAreTaken, PendingWaits, Unanswered
<1>7. EndsAreEarned'
    BY <1>3, <1>1, <1>4, RulesStay DEF TypeFacts, EndsAreEarned, PendingWaits, EarlyIsOpen, Unanswered
<1>8. EventsAreTaken'
    BY <1>3, <1>1 DEF TypeFacts, EventsAreTaken, PendingWaits
<1>9. OneEventEach'
    BY <1>3, <1>1 DEF TypeFacts, OneEventEach, PendingWaits, Unanswered
<1>10. RepliesPublish'
    <2> SUFFICES ASSUME NEW q \in Replies
                 PROVE  /\ reply'[q].at # "idle" =>
                            /\ reply'[q].of \in Asks
                            /\ reply'[q].kind \in Kinds
                            /\ Event(reply'[q].of, reply'[q].kind, q) \in published'
                        /\ reply'[q].hand # NoAsk =>
                            /\ reply'[q].at # "idle"
                            /\ Event(reply'[q].hand, reply'[q].kind, q) \in published'
                            /\ reply'[q].kind \in Grants => AllowedByRule(ask[reply[q].hand].gen, reply[q].hand)'
                        /\ reply'[q].at \in {"granted", "walking"} => reply'[q].kind # "once"
        BY DEF RepliesPublish
    <2>0. UNCHANGED ask /\ published \subseteq published'
        BY <1>1
    <2>1. CASE reply'[q].hand = reply[q].hand /\ reply[q].hand # NoAsk
        <3>1. reply[q].hand \in Asks /\ ask[reply[q].hand].gen \in States
            BY <1>3, <2>1 DEF TypeFacts
        <3>2. reply[q].kind \in Grants => AllowedByRule(ask[reply[q].hand].gen, reply[q].hand)'
            BY <2>0, <2>1, <3>1, <1>4, RulesStay DEF RepliesPublish
        <3> QED BY <1>1, <2>0, <2>1, <3>2 DEF RepliesPublish
    <2>2. CASE reply'[q].hand = NoAsk
        BY <1>1, <2>0, <2>2 DEF RepliesPublish, Kinds
    <2>3. CASE q = r
        <3>1. reply[r].kind \in Grants => AllowedByRule(ask[a].gen, a)
            <4>1. ASSUME reply[r].kind \in Grants
                  PROVE  \A t \in Wants[a] : Evaluate(ask[a].gen, a, t) = "allow"
                <5>1. reply[r].kind = "always" /\ ask[a].gen = reply[r].gen
                    BY <1>3, <1>1, <4>1 DEF RepliesPublish, PendingWaits, Grants, TypeFacts
                <5>2. Covered(ask[a].gen, a)
                    BY <5>1 DEF Concerns
                <5> QED BY <5>2 DEF Covered, Evaluate
            <4> QED BY <4>1 DEF AllowedByRule
        <3>2. reply[r].kind \in Grants => AllowedByRule(ask[a].gen, a)'
            BY <1>3, <2>0, <3>1, <1>4, RulesStay DEF TypeFacts
        <3> QED BY <1>1, <2>0, <2>3, <3>2 DEF RepliesPublish
    <2>4. q # r => reply'[q].hand = reply[q].hand
        BY <1>1
    <2> QED BY <2>1, <2>2, <2>3, <2>4
<1>11. EventsAreKept'
    BY <1>3, <1>1 DEF TypeFacts, EventsAreKept, EventsAreTaken, PendingWaits, Unanswered
<1>12. GrantsAreJust'
    BY <1>3, <1>1, <1>4, RulesStay, GrantStays DEF TypeFacts, GrantsAreJust, EarlyIsOpen
<1>13. PeersAreOld'
    BY <1>3, <1>1 DEF TypeFacts, PeersAreOld, PendingWaits
<1>14. RulesAreIn'
    <2> SUFFICES ASSUME NEW q \in Replies, reply'[q].at = "walking", reply'[q].kind = "always",
                        NEW t \in Always[reply'[q].of]
                 PROVE  approved'[reply'[q].gen][t] = "allow"
        BY DEF RulesAreIn
    <2>1. q # r => reply'[q] = reply[q]
        BY <1>1
    <2>2. /\ reply[q].at = "walking" /\ reply[q].kind = "always"
          /\ reply'[q].of = reply[q].of /\ reply'[q].gen = reply[q].gen
          /\ UNCHANGED approved
        BY <1>1, <2>1
    <2> QED BY <2>2 DEF RulesAreIn
<1>15. MetIsSettled'
    BY <1>3, <1>1 DEF TypeFacts, PeersAreOld, MetIsSettled
<1>16. NoPeerLeftBehind'
    BY <1>3, <1>1 DEF TypeFacts, PeersAreOld, MetIsSettled, NoPeerLeftBehind
<1> QED BY <1>2, <1>5, <1>6, <1>7, <1>8, <1>9, <1>10, <1>11, <1>12, <1>13, <1>14, <1>15, <1>16

\* A walk passes an entry it does not speak for.
LEMMA MeetPassesKeeps ==
    ASSUME RequestAssumption, RulesAssumption, DisposalAssumption, IInv, NEW r \in Replies, NEW a \in Asks, Meet(r, a), ~Concerns(r, a)
    PROVE  IInv'
<1> USE DEF IInv
<1>1. /\ reply' \in [Replies -> ReplyRows]
      /\ \A q \in Replies \ {r} : reply'[q] = reply[q]
      /\ reply[r].at = "walking" /\ reply[r].hand = NoAsk
      /\ reply'[r].at = "walking"
      /\ reply'[r].gen = reply[r].gen
      /\ reply'[r].of = reply[r].of
      /\ reply'[r].kind = reply[r].kind
      /\ reply'[r].peers = reply[r].peers
      /\ reply'[r].met = reply[r].met \cup {a}
      /\ a \in pending[reply[r].gen]
      /\ reply'[r].hand = NoAsk
      /\ UNCHANGED <<pending, published>>
      /\ UNCHANGED <<gen, approved, closing, failed, ask, deferred>>
    <2>1. reply' \in [Replies -> ReplyRows]
        <3> DEFINE row == [reply[r] EXCEPT !.met = @ \cup {a}]
        <3>1. reply[r] \in ReplyRows
            BY DEF TypeOK
        <3>2. row \in ReplyRows
            BY <3>1 DEF TypeOK, ReplyRows, ReplyStages, Kinds, Grants
        <3>3. reply' = [reply EXCEPT ![r] = row]
            BY DEF Meet
        <3> HIDE DEF row
        <3> QED BY <3>2, <3>3 DEF TypeOK
    <2>2. /\ \A q \in Replies \ {r} : reply'[q] = reply[q]
          /\ reply[r].at = "walking" /\ reply[r].hand = NoAsk
          /\ reply'[r].at = "walking"
          /\ reply'[r].gen = reply[r].gen
          /\ reply'[r].of = reply[r].of
          /\ reply'[r].kind = reply[r].kind
          /\ reply'[r].peers = reply[r].peers
          /\ reply'[r].met = reply[r].met \cup {a}
          /\ a \in pending[reply[r].gen]
          /\ reply'[r].hand = NoAsk
          /\ UNCHANGED <<pending, published>>
          /\ UNCHANGED <<gen, approved, closing, failed, ask, deferred>>
        BY DEF TypeOK, Meet, ReplyRows, ReplyStages
    <2> QED BY <2>1, <2>2
<1>2. TypeOK'
    BY <1>1 DEF TypeOK
<1>3. TypeFacts /\ TypeFacts'
    BY <1>2, TypesByField, PTL
<1>4. ApprovedGrows
    BY <1>1 DEF TypeOK, ApprovedGrows, Rules
<1>5. PendingWaits'
    BY <1>3, <1>1 DEF TypeFacts, PendingWaits, Unanswered
<1>6. EarlyIsOpen'
    BY <1>3, <1>1 DEF TypeFacts, EarlyIsOpen, EventsAreTaken, PendingWaits, Unanswered
<1>7. EndsAreEarned'
    BY <1>3, <1>1, <1>4, RulesStay DEF TypeFacts, EndsAreEarned, PendingWaits, EarlyIsOpen, Unanswered
<1>8. EventsAreTaken'
    BY <1>3, <1>1 DEF TypeFacts, EventsAreTaken, PendingWaits
<1>9. OneEventEach'
    BY <1>3, <1>1 DEF TypeFacts, OneEventEach, PendingWaits, Unanswered
<1>10. RepliesPublish'
    BY <1>3, <1>1, <1>4, RulesStay DEF TypeFacts, RepliesPublish, EventsAreTaken, Event
<1>11. EventsAreKept'
    BY <1>3, <1>1 DEF TypeFacts, EventsAreKept, EventsAreTaken, PendingWaits, Unanswered
<1>12. GrantsAreJust'
    BY <1>3, <1>1, <1>4, RulesStay, GrantStays DEF TypeFacts, GrantsAreJust, EarlyIsOpen
<1>13. PeersAreOld'
    BY <1>3, <1>1 DEF TypeFacts, PeersAreOld, PendingWaits
<1>14. RulesAreIn'
    <2> SUFFICES ASSUME NEW q \in Replies, reply'[q].at = "walking", reply'[q].kind = "always",
                        NEW t \in Always[reply'[q].of]
                 PROVE  approved'[reply'[q].gen][t] = "allow"
        BY DEF RulesAreIn
    <2>1. q # r => reply'[q] = reply[q]
        BY <1>1
    <2>2. /\ reply[q].at = "walking" /\ reply[q].kind = "always"
          /\ reply'[q].of = reply[q].of /\ reply'[q].gen = reply[q].gen
          /\ UNCHANGED approved
        BY <1>1, <2>1
    <2> QED BY <2>2 DEF RulesAreIn
<1>15. MetIsSettled'
    <2>1. ASSUME a \in reply[r].peers
          PROVE  reply[r].kind = "always" /\ ~(Wants[a] \subseteq Always[reply[r].of])
        <3>1. reply[r].kind = "always" /\ ~Covered(reply[r].gen, a)
            BY <2>1 DEF Concerns, PeersAreOld
        <3>2. \A t \in Always[reply[r].of] : approved[reply[r].gen][t] = "allow"
            BY <1>1, <3>1 DEF RulesAreIn
        <3> QED BY <3>1, <3>2 DEF Covered
    <2>2. \A q \in Replies : reply'[q].peers = reply[q].peers /\ reply'[q].of = reply[q].of
                              /\ reply'[q].kind = reply[q].kind /\ reply'[q].gen = reply[q].gen
        BY <1>1
    <2> QED BY <1>1, <2>1, <2>2 DEF MetIsSettled
<1>16. NoPeerLeftBehind'
    BY <1>3, <1>1 DEF TypeFacts, PeersAreOld, MetIsSettled, NoPeerLeftBehind
<1> QED BY <1>2, <1>5, <1>6, <1>7, <1>8, <1>9, <1>10, <1>11, <1>12, <1>13, <1>14, <1>15, <1>16

\* A walk settles the entry it took.
LEMMA AnswerMetKeeps ==
    ASSUME RequestAssumption, RulesAssumption, DisposalAssumption, IInv, NEW r \in Replies, AnswerMet(r)
    PROVE  IInv'
<1> USE DEF IInv
<1>1. /\ reply' \in [Replies -> ReplyRows]
      /\ \A q \in Replies \ {r} : reply'[q] = reply[q]
      /\ reply[r].at = "walking" /\ reply[r].hand # NoAsk
      /\ reply'[r].at = "walking"
      /\ reply'[r].gen = reply[r].gen
      /\ reply'[r].of = reply[r].of
      /\ reply'[r].kind = reply[r].kind
      /\ reply'[r].peers = reply[r].peers
      /\ reply'[r].met = reply[r].met
      /\ reply'[r].hand = NoAsk
      /\ deferred' \in [Asks -> {"open", "granted", "rejected"}]
      /\ \A b \in Asks : deferred'[b] = IF b = reply[r].hand /\ deferred[b] = "open" THEN Verdict(reply[r].kind) ELSE deferred[b]
      /\ UNCHANGED <<gen, pending, approved, closing, failed, ask, published>>
    <2>1. reply' \in [Replies -> ReplyRows]
        <3> DEFINE row == [reply[r] EXCEPT !.hand = NoAsk]
        <3>1. reply[r] \in ReplyRows
            BY DEF TypeOK
        <3>2. row \in ReplyRows
            BY <3>1 DEF TypeOK, ReplyRows, ReplyStages, Kinds, Grants
        <3>3. reply' = [reply EXCEPT ![r] = row]
            BY DEF AnswerMet
        <3> HIDE DEF row
        <3> QED BY <3>2, <3>3 DEF TypeOK
    <2>2. /\ \A q \in Replies \ {r} : reply'[q] = reply[q]
          /\ reply[r].at = "walking" /\ reply[r].hand # NoAsk
          /\ reply'[r].at = "walking"
          /\ reply'[r].gen = reply[r].gen
          /\ reply'[r].of = reply[r].of
          /\ reply'[r].kind = reply[r].kind
          /\ reply'[r].peers = reply[r].peers
          /\ reply'[r].met = reply[r].met
          /\ reply'[r].hand = NoAsk
          /\ deferred' \in [Asks -> {"open", "granted", "rejected"}]
          /\ \A b \in Asks : deferred'[b] = IF b = reply[r].hand /\ deferred[b] = "open" THEN Verdict(reply[r].kind) ELSE deferred[b]
          /\ UNCHANGED <<gen, pending, approved, closing, failed, ask, published>>
        BY DEF TypeOK, AnswerMet, Settle, Verdict, ReplyRows, ReplyStages
    <2> QED BY <2>1, <2>2
<1>2. TypeOK'
    BY <1>1 DEF TypeOK
<1>3. TypeFacts /\ TypeFacts'
    BY <1>2, TypesByField, PTL
<1>4. ApprovedGrows
    BY <1>1 DEF TypeOK, ApprovedGrows, Rules
<1>17. /\ Event(reply[r].hand, reply[r].kind, r) \in published
      /\ Event(reply[r].hand, reply[r].kind, r).of = reply[r].hand
      /\ Event(reply[r].hand, reply[r].kind, r).kind = reply[r].kind
      /\ Event(reply[r].hand, reply[r].kind, r).by = r
      /\ reply[r].hand \in Asks
    BY <1>3, <1>1 DEF RepliesPublish, Event, TypeFacts
<1>5. PendingWaits'
    <2>1. \A g \in States : reply[r].hand \notin pending[g]
        BY <1>17 DEF PendingWaits, Unanswered
    <2> QED BY <1>3, <1>1, <2>1 DEF PendingWaits, Unanswered, TypeFacts
<1>6. EarlyIsOpen'
    <2>1. ask[reply[r].hand].at \notin {"idle", "asking"}
        BY <1>17 DEF EventsAreTaken
    <2> QED BY <1>1, <2>1 DEF EarlyIsOpen, Unanswered
<1>7. EndsAreEarned'
    BY <1>3, <1>1, <1>4, RulesStay DEF TypeFacts, EndsAreEarned, PendingWaits, EarlyIsOpen, Unanswered
<1>8. EventsAreTaken'
    BY <1>3, <1>1 DEF TypeFacts, EventsAreTaken, PendingWaits
<1>9. OneEventEach'
    BY <1>3, <1>1 DEF TypeFacts, OneEventEach, PendingWaits, Unanswered
<1>10. RepliesPublish'
    <2> SUFFICES ASSUME NEW q \in Replies
                 PROVE  /\ reply'[q].at # "idle" =>
                            /\ reply'[q].of \in Asks
                            /\ reply'[q].kind \in Kinds
                            /\ Event(reply'[q].of, reply'[q].kind, q) \in published'
                        /\ reply'[q].hand # NoAsk =>
                            /\ reply'[q].at # "idle"
                            /\ Event(reply'[q].hand, reply'[q].kind, q) \in published'
                            /\ reply'[q].kind \in Grants => AllowedByRule(ask[reply[q].hand].gen, reply[q].hand)'
                        /\ reply'[q].at \in {"granted", "walking"} => reply'[q].kind # "once"
        BY DEF RepliesPublish
    <2>0. UNCHANGED ask /\ published \subseteq published'
        BY <1>1
    <2>1. CASE reply'[q].hand = reply[q].hand /\ reply[q].hand # NoAsk
        <3>1. reply[q].hand \in Asks /\ ask[reply[q].hand].gen \in States
            BY <1>3, <2>1 DEF TypeFacts
        <3>2. reply[q].kind \in Grants => AllowedByRule(ask[reply[q].hand].gen, reply[q].hand)'
            BY <2>0, <2>1, <3>1, <1>4, RulesStay DEF RepliesPublish
        <3> QED BY <1>1, <2>0, <2>1, <3>2 DEF RepliesPublish
    <2>2. CASE reply'[q].hand = NoAsk
        BY <1>1, <2>0, <2>2 DEF RepliesPublish, Kinds
    <2>3. reply'[q].hand \in {reply[q].hand, NoAsk}
        BY <1>1
    <2> QED BY <2>1, <2>2, <2>3
<1>11. EventsAreKept'
    <2> SUFFICES ASSUME NEW f \in published, closing[ask[f.of].gen] = "open"
                 PROVE  deferred'[f.of] \in {"open", Verdict(f.kind)}
        BY <1>1 DEF EventsAreKept, Verdict
    <2>1. deferred[f.of] \in {"open", Verdict(f.kind)} /\ f.of \in Asks
        BY <1>3 DEF EventsAreKept, TypeFacts
    <2>2. CASE f.of = reply[r].hand
        <3>1. f = Event(reply[r].hand, reply[r].kind, r)
            BY <1>17, <2>2 DEF OneEventEach
        <3> QED BY <1>1, <1>17, <2>1, <2>2, <3>1
    <2>3. CASE f.of # reply[r].hand
        BY <1>1, <2>1, <2>3
    <2> QED BY <2>2, <2>3
<1>12. GrantsAreJust'
    <2> SUFFICES ASSUME NEW b \in Asks, deferred'[b] = "granted"
                 PROVE  AllowedByRule(ask[b].gen, b)' \/ DirectGrant(b)'
        BY DEF GrantsAreJust
    <2>1. ask'[b].gen = ask[b].gen /\ ask[b].gen \in States /\ published' = published
        BY <1>3, <1>1 DEF TypeFacts
    <2>2. \A q \in Replies : reply'[q].of = reply[q].of
        BY <1>1
    <2>3. CASE deferred[b] = "granted"
        <3>1. AllowedByRule(ask[b].gen, b) \/ DirectGrant(b)
            BY <2>3 DEF GrantsAreJust
        <3> QED BY <2>1, <2>2, <3>1, <1>4, RulesStay, GrantStays
    <2>4. CASE deferred[b] # "granted"
        <3>1. b = reply[r].hand /\ Verdict(reply[r].kind) = "granted"
            BY <1>1, <2>4
        <3>2. reply[r].kind \in Grants
            BY <3>1 DEF Verdict
        <3>3. AllowedByRule(ask[b].gen, b)
            BY <1>1, <3>1, <3>2 DEF RepliesPublish
        <3> QED BY <2>1, <3>3, <1>4, RulesStay
    <2> QED BY <2>3, <2>4
<1>13. PeersAreOld'
    BY <1>3, <1>1 DEF TypeFacts, PeersAreOld, PendingWaits
<1>14. RulesAreIn'
    <2> SUFFICES ASSUME NEW q \in Replies, reply'[q].at = "walking", reply'[q].kind = "always",
                        NEW t \in Always[reply'[q].of]
                 PROVE  approved'[reply'[q].gen][t] = "allow"
        BY DEF RulesAreIn
    <2>1. q # r => reply'[q] = reply[q]
        BY <1>1
    <2>2. /\ reply[q].at = "walking" /\ reply[q].kind = "always"
          /\ reply'[q].of = reply[q].of /\ reply'[q].gen = reply[q].gen
          /\ UNCHANGED approved
        BY <1>1, <2>1
    <2> QED BY <2>2 DEF RulesAreIn
<1>15. MetIsSettled'
    BY <1>3, <1>1 DEF TypeFacts, PeersAreOld, MetIsSettled
<1>16. NoPeerLeftBehind'
    BY <1>3, <1>1 DEF TypeFacts, PeersAreOld, MetIsSettled, NoPeerLeftBehind
<1> QED BY <1>2, <1>5, <1>6, <1>7, <1>8, <1>9, <1>10, <1>11, <1>12, <1>13, <1>14, <1>15, <1>16

\* A walk is over.
LEMMA EndReplyKeeps ==
    ASSUME RequestAssumption, RulesAssumption, DisposalAssumption, IInv, NEW r \in Replies, EndReply(r)
    PROVE  IInv'
<1> USE DEF IInv
<1>1. /\ reply' \in [Replies -> ReplyRows]
      /\ \A q \in Replies \ {r} : reply'[q] = reply[q]
      /\ reply[r].at = "walking" /\ reply[r].hand = NoAsk
      /\ reply'[r].at = "done"
      /\ reply'[r].gen = reply[r].gen
      /\ reply'[r].of = reply[r].of
      /\ reply'[r].kind = reply[r].kind
      /\ reply'[r].peers = reply[r].peers
      /\ reply'[r].met = {}
      /\ reply'[r].hand = NoAsk
      /\ pending[reply[r].gen] \subseteq reply[r].met
      /\ UNCHANGED <<gen, pending, approved, closing, failed, ask, deferred, published>>
    <2>1. reply' \in [Replies -> ReplyRows]
        <3> DEFINE row == [reply[r] EXCEPT !.at = "done", !.met = {}]
        <3>1. reply[r] \in ReplyRows
            BY DEF TypeOK
        <3>2. row \in ReplyRows
            BY <3>1 DEF TypeOK, ReplyRows, ReplyStages, Kinds, Grants
        <3>3. reply' = [reply EXCEPT ![r] = row]
            BY DEF EndReply
        <3> HIDE DEF row
        <3> QED BY <3>2, <3>3 DEF TypeOK
    <2>2. /\ \A q \in Replies \ {r} : reply'[q] = reply[q]
          /\ reply[r].at = "walking" /\ reply[r].hand = NoAsk
          /\ reply'[r].at = "done"
          /\ reply'[r].gen = reply[r].gen
          /\ reply'[r].of = reply[r].of
          /\ reply'[r].kind = reply[r].kind
          /\ reply'[r].peers = reply[r].peers
          /\ reply'[r].met = {}
          /\ reply'[r].hand = NoAsk
          /\ pending[reply[r].gen] \subseteq reply[r].met
          /\ UNCHANGED <<gen, pending, approved, closing, failed, ask, deferred, published>>
        BY DEF TypeOK, EndReply, ReplyRows, ReplyStages
    <2> QED BY <2>1, <2>2
<1>2. TypeOK'
    BY <1>1 DEF TypeOK
<1>3. TypeFacts /\ TypeFacts'
    BY <1>2, TypesByField, PTL
<1>4. ApprovedGrows
    BY <1>1 DEF TypeOK, ApprovedGrows, Rules
<1>5. PendingWaits'
    BY <1>3, <1>1 DEF TypeFacts, PendingWaits, Unanswered
<1>6. EarlyIsOpen'
    BY <1>3, <1>1 DEF TypeFacts, EarlyIsOpen, EventsAreTaken, PendingWaits, Unanswered
<1>7. EndsAreEarned'
    BY <1>3, <1>1, <1>4, RulesStay DEF TypeFacts, EndsAreEarned, PendingWaits, EarlyIsOpen, Unanswered
<1>8. EventsAreTaken'
    BY <1>3, <1>1 DEF TypeFacts, EventsAreTaken, PendingWaits
<1>9. OneEventEach'
    BY <1>3, <1>1 DEF TypeFacts, OneEventEach, PendingWaits, Unanswered
<1>10. RepliesPublish'
    BY <1>3, <1>1, <1>4, RulesStay DEF TypeFacts, RepliesPublish, EventsAreTaken, Event
<1>11. EventsAreKept'
    BY <1>3, <1>1 DEF TypeFacts, EventsAreKept, EventsAreTaken, PendingWaits, Unanswered
<1>12. GrantsAreJust'
    BY <1>3, <1>1, <1>4, RulesStay, GrantStays DEF TypeFacts, GrantsAreJust, EarlyIsOpen
<1>13. PeersAreOld'
    BY <1>3, <1>1 DEF TypeFacts, PeersAreOld, PendingWaits
<1>14. RulesAreIn'
    <2> SUFFICES ASSUME NEW q \in Replies, reply'[q].at = "walking", reply'[q].kind = "always",
                        NEW t \in Always[reply'[q].of]
                 PROVE  approved'[reply'[q].gen][t] = "allow"
        BY DEF RulesAreIn
    <2>1. q # r => reply'[q] = reply[q]
        BY <1>1
    <2>2. reply'[q] = reply[q] /\ UNCHANGED approved
        BY <1>1
    <2> QED BY <2>2 DEF RulesAreIn
<1>15. MetIsSettled'
    BY <1>3, <1>1 DEF TypeFacts, PeersAreOld, MetIsSettled
<1>16. NoPeerLeftBehind'
    BY <1>3, <1>1 DEF TypeFacts, PeersAreOld, MetIsSettled, NoPeerLeftBehind
<1> QED BY <1>2, <1>5, <1>6, <1>7, <1>8, <1>9, <1>10, <1>11, <1>12, <1>13, <1>14, <1>15, <1>16

\* The cache lets go of a state.
LEMMA DisposeKeeps ==
    ASSUME RequestAssumption, RulesAssumption, DisposalAssumption, IInv, Dispose
    PROVE  IInv'
<1> USE DEF IInv
<1>1. /\ gen \in States /\ gen' \in States
      /\ closing' \in [States -> {"open", "failing", "closed"}]
      /\ \A g \in States : closing'[g] = IF g = gen THEN "failing" ELSE closing[g]
      /\ UNCHANGED <<pending, approved, failed, ask, deferred, reply, published>>
    BY DEF TypeOK, Dispose, States
<1>2. TypeOK'
    BY <1>1 DEF TypeOK
<1>3. TypeFacts /\ TypeFacts'
    BY <1>2, TypesByField, PTL
<1>4. ApprovedGrows
    BY <1>1 DEF TypeOK, ApprovedGrows, Rules
<1>5. PendingWaits'
    BY <1>3, <1>1 DEF TypeFacts, PendingWaits, Unanswered
<1>6. EarlyIsOpen'
    BY <1>3, <1>1 DEF TypeFacts, EarlyIsOpen, EventsAreTaken, PendingWaits, Unanswered
<1>7. EndsAreEarned'
    BY <1>3, <1>1, <1>4, RulesStay DEF TypeFacts, EndsAreEarned, PendingWaits, EarlyIsOpen, Unanswered
<1>8. EventsAreTaken'
    BY <1>3, <1>1 DEF TypeFacts, EventsAreTaken, PendingWaits
<1>9. OneEventEach'
    BY <1>3, <1>1 DEF TypeFacts, OneEventEach, PendingWaits, Unanswered
<1>10. RepliesPublish'
    BY <1>3, <1>1, <1>4, RulesStay DEF TypeFacts, RepliesPublish, EventsAreTaken, Event
<1>11. EventsAreKept'
    BY <1>3, <1>1 DEF TypeFacts, EventsAreKept, EventsAreTaken, PendingWaits, Unanswered
<1>12. GrantsAreJust'
    BY <1>3, <1>1, <1>4, RulesStay, GrantStays DEF TypeFacts, GrantsAreJust, EarlyIsOpen
<1>13. PeersAreOld'
    BY <1>3, <1>1 DEF TypeFacts, PeersAreOld, PendingWaits
<1>14. RulesAreIn'
    <2>1. UNCHANGED <<approved, reply>>
        BY <1>1
    <2> QED BY <2>1 DEF RulesAreIn
<1>15. MetIsSettled'
    BY <1>3, <1>1 DEF TypeFacts, PeersAreOld, MetIsSettled
<1>16. NoPeerLeftBehind'
    BY <1>3, <1>1 DEF TypeFacts, PeersAreOld, MetIsSettled, NoPeerLeftBehind
<1> QED BY <1>2, <1>5, <1>6, <1>7, <1>8, <1>9, <1>10, <1>11, <1>12, <1>13, <1>14, <1>15, <1>16

\* The finalizer fails an entry.
LEMMA FailOneKeeps ==
    ASSUME RequestAssumption, RulesAssumption, DisposalAssumption, IInv, NEW g \in States, NEW a \in Asks, FailOne(g, a)
    PROVE  IInv'
<1> USE DEF IInv
<1>1. /\ closing[g] = "failing" /\ a \in pending[g]
      /\ deferred' \in [Asks -> {"open", "granted", "rejected"}]
      /\ \A b \in Asks : deferred'[b] = IF b = a /\ deferred[b] = "open" THEN "rejected" ELSE deferred[b]
      /\ failed' \in [States -> SUBSET Asks]
      /\ UNCHANGED <<gen, pending, approved, closing, ask, reply, published>>
    BY DEF TypeOK, FailOne, Settle
<1>2. TypeOK'
    BY <1>1 DEF TypeOK
<1>3. TypeFacts /\ TypeFacts'
    BY <1>2, TypesByField, PTL
<1>4. ApprovedGrows
    BY <1>1 DEF TypeOK, ApprovedGrows, Rules
<1>5. PendingWaits'
    BY <1>3, <1>1 DEF TypeFacts, PendingWaits, Unanswered
<1>6. EarlyIsOpen'
    BY <1>3, <1>1 DEF TypeFacts, EarlyIsOpen, EventsAreTaken, PendingWaits, Unanswered
<1>7. EndsAreEarned'
    BY <1>3, <1>1, <1>4, RulesStay DEF TypeFacts, EndsAreEarned, PendingWaits, EarlyIsOpen, Unanswered
<1>8. EventsAreTaken'
    BY <1>3, <1>1 DEF TypeFacts, EventsAreTaken, PendingWaits
<1>9. OneEventEach'
    BY <1>3, <1>1 DEF TypeFacts, OneEventEach, PendingWaits, Unanswered
<1>10. RepliesPublish'
    BY <1>3, <1>1, <1>4, RulesStay DEF TypeFacts, RepliesPublish, EventsAreTaken, Event
<1>11. EventsAreKept'
    BY <1>3, <1>1 DEF TypeFacts, EventsAreKept, EventsAreTaken, PendingWaits, Unanswered
<1>12. GrantsAreJust'
    BY <1>3, <1>1, <1>4, RulesStay, GrantStays DEF TypeFacts, GrantsAreJust, EarlyIsOpen
<1>13. PeersAreOld'
    BY <1>3, <1>1 DEF TypeFacts, PeersAreOld, PendingWaits
<1>14. RulesAreIn'
    <2>1. UNCHANGED <<approved, reply>>
        BY <1>1
    <2> QED BY <2>1 DEF RulesAreIn
<1>15. MetIsSettled'
    BY <1>3, <1>1 DEF TypeFacts, PeersAreOld, MetIsSettled
<1>16. NoPeerLeftBehind'
    BY <1>3, <1>1 DEF TypeFacts, PeersAreOld, MetIsSettled, NoPeerLeftBehind
<1> QED BY <1>2, <1>5, <1>6, <1>7, <1>8, <1>9, <1>10, <1>11, <1>12, <1>13, <1>14, <1>15, <1>16

\* The finalizer clears the Map.
LEMMA ClearKeeps ==
    ASSUME RequestAssumption, RulesAssumption, DisposalAssumption, IInv, NEW g \in States, Clear(g)
    PROVE  IInv'
<1> USE DEF IInv
<1>1. /\ pending' \in [States -> SUBSET Asks]
      /\ \A h \in States : pending'[h] = IF h = g THEN {} ELSE pending[h]
      /\ closing' \in [States -> {"open", "failing", "closed"}]
      /\ \A h \in States : closing'[h] = IF h = g THEN "closed" ELSE closing[h]
      /\ failed' \in [States -> SUBSET Asks]
      /\ UNCHANGED <<gen, approved, ask, deferred, reply, published>>
    BY DEF TypeOK, Clear
<1>2. TypeOK'
    BY <1>1 DEF TypeOK
<1>3. TypeFacts /\ TypeFacts'
    BY <1>2, TypesByField, PTL
<1>4. ApprovedGrows
    BY <1>1 DEF TypeOK, ApprovedGrows, Rules
<1>5. PendingWaits'
    BY <1>3, <1>1 DEF TypeFacts, PendingWaits, Unanswered
<1>6. EarlyIsOpen'
    BY <1>3, <1>1 DEF TypeFacts, EarlyIsOpen, EventsAreTaken, PendingWaits, Unanswered
<1>7. EndsAreEarned'
    BY <1>3, <1>1, <1>4, RulesStay DEF TypeFacts, EndsAreEarned, PendingWaits, EarlyIsOpen, Unanswered
<1>8. EventsAreTaken'
    BY <1>3, <1>1 DEF TypeFacts, EventsAreTaken, PendingWaits
<1>9. OneEventEach'
    BY <1>3, <1>1 DEF TypeFacts, OneEventEach, PendingWaits, Unanswered
<1>10. RepliesPublish'
    BY <1>3, <1>1, <1>4, RulesStay DEF TypeFacts, RepliesPublish, EventsAreTaken, Event
<1>11. EventsAreKept'
    BY <1>3, <1>1 DEF TypeFacts, EventsAreKept, EventsAreTaken, PendingWaits, Unanswered
<1>12. GrantsAreJust'
    BY <1>3, <1>1, <1>4, RulesStay, GrantStays DEF TypeFacts, GrantsAreJust, EarlyIsOpen
<1>13. PeersAreOld'
    BY <1>3, <1>1 DEF TypeFacts, PeersAreOld, PendingWaits
<1>14. RulesAreIn'
    <2>1. UNCHANGED <<approved, reply>>
        BY <1>1
    <2> QED BY <2>1 DEF RulesAreIn
<1>15. MetIsSettled'
    BY <1>3, <1>1 DEF TypeFacts, PeersAreOld, MetIsSettled
<1>16. NoPeerLeftBehind'
    BY <1>3, <1>1 DEF TypeFacts, PeersAreOld, MetIsSettled, NoPeerLeftBehind
<1> QED BY <1>2, <1>5, <1>6, <1>7, <1>8, <1>9, <1>10, <1>11, <1>12, <1>13, <1>14, <1>15, <1>16

-----------------------------------------------------------------------------

\* The invariant holds at first.
LEMMA InitHolds ==
    ASSUME RequestAssumption, RulesAssumption, DisposalAssumption, Init
    PROVE  IInv
<1>1. TypeOK
    <2>1. idleAsk \in AskRows
        BY DEF DisposalAssumption, idleAsk, AskRows, AskStages, Outcomes, States
    <2>2. idleReply \in ReplyRows
        BY DEF DisposalAssumption, idleReply, ReplyRows, ReplyStages, States
    <2>3. approved \in [States -> Rules]
        BY DEF Init, RulesAssumption
    <2> QED BY <2>1, <2>2, <2>3, DisposalAssumption DEF Init, TypeOK, States
<1>2. /\ \A a \in Asks : /\ ask[a].at = "idle" /\ ask[a].outcome = "none"
                         /\ deferred[a] = "open"
      /\ \A r \in Replies : /\ reply[r].at = "idle" /\ reply[r].peers = {}
                            /\ reply[r].met = {} /\ reply[r].hand = NoAsk
      /\ \A g \in States : pending[g] = {}
      /\ published = {}
    BY DEF Init, idleAsk, idleReply
<1> QED BY <1>1, <1>2 DEF IInv, PendingWaits, EarlyIsOpen, EndsAreEarned, EventsAreTaken,
        OneEventEach, RepliesPublish, EventsAreKept, GrantsAreJust, PeersAreOld, RulesAreIn,
        MetIsSettled, NoPeerLeftBehind, Unanswered

\* Nothing happens.
LEMMA StutterKeeps ==
    ASSUME IInv, UNCHANGED vars
    PROVE  IInv'
BY DEF vars, IInv, TypeOK, PendingWaits, EarlyIsOpen, EndsAreEarned, EventsAreTaken,
       OneEventEach, RepliesPublish, EventsAreKept, GrantsAreJust, PeersAreOld, RulesAreIn,
       MetIsSettled, NoPeerLeftBehind, Unanswered, AllowedByRule, Evaluate, DirectGrant

\* All steps together.
LEMMA NextKeeps ==
    ASSUME RequestAssumption, RulesAssumption, DisposalAssumption, IInv, Next
    PROVE  IInv'
<1>1. ASSUME NEW a \in Asks, AskStep(a) \/ Interrupt(a)
      PROVE  IInv'
    BY <1>1, JudgeKeeps, EnterKeeps, ResumeKeeps, InterruptKeeps DEF AskStep
<1>2. ASSUME NEW r \in Replies, NEW a \in Asks, NEW kind \in Kinds, Take(r, a, kind)
      PROVE  IInv'
    BY <1>2, TakeKeeps
<1>3. ASSUME NEW r \in Replies, ReplyStep(r)
      PROVE  IInv'
    BY <1>3, AnswerOneKeeps, ApproveKeeps, MeetSettlesKeeps, MeetPassesKeeps, AnswerMetKeeps,
       EndReplyKeeps DEF ReplyStep
<1>4. ASSUME NEW g \in States, Finalize(g)
      PROVE  IInv'
    BY <1>4, FailOneKeeps, ClearKeeps DEF Finalize
<1> QED BY <1>1, <1>2, <1>3, <1>4, DisposeKeeps DEF Next

\* The invariant is one.
THEOREM Invariance == Spec => []IInv
<1>1. Init => IInv
    BY InitHolds, RequestAssumption, RulesAssumption, DisposalAssumption
<1>2. IInv /\ [Next]_vars => IInv'
    BY NextKeeps, StutterKeeps, RequestAssumption, RulesAssumption, DisposalAssumption
<1> QED BY <1>1, <1>2, PTL DEF Spec

\* The variables keep to their types.
THEOREM TypesHold == Spec => []TypeOK
<1>1. IInv => TypeOK
    BY DEF IInv
<1> QED BY <1>1, Invariance, PTL

\* What was let through was allowed by the rules of the state it asked in, or
\* a client granted that very request (permission/index.ts:172-182, 235-259).
THEOREM NothingGoesUnaskedHolds == Spec => []NothingGoesUnasked
<1>1. IInv => NothingGoesUnasked
    BY DEF IInv, NothingGoesUnasked, EndsAreEarned, GrantsAreJust
<1> QED BY <1>1, Invariance, PTL

\* A finished reply leaves no request of its session behind that it speaks for
\* (permission/index.ts:222-233, 246-259).
THEOREM NoPeerLeftBehindHolds == Spec => []NoPeerLeftBehind
<1>1. IInv => NoPeerLeftBehind
    BY DEF IInv
<1> QED BY <1>1, Invariance, PTL

\* A request has at most one Replied event, and its caller ended the way the
\* event says unless its state was disposed of (permission/index.ts:206-221).
THEOREM AnswersAreHeardHolds == Spec => []AnswersAreHeard
<1>1. ASSUME IInv
      PROVE  AnswersAreHeard
    <2> SUFFICES ASSUME NEW e \in published
                 PROVE  /\ \A f \in published : f.of = e.of => f = e
                        /\ \/ ask[e.of].outcome \in {"none", "interrupted"}
                           \/ closing[ask[e.of].gen] # "open"
                           \/ (ask[e.of].outcome = "allowed") = (e.kind \in Grants)
        BY DEF AnswersAreHeard
    <2>1. \A f \in published : f.of = e.of => f = e
        BY <1>1 DEF IInv, OneEventEach
    <2>2. e.of \in Asks /\ ask[e.of].outcome \in Outcomes
        BY <1>1 DEF IInv, TypeOK, Events, AskRows
    <2>3. ASSUME ask[e.of].outcome \in {"allowed", "denied", "rejected"}, closing[ask[e.of].gen] = "open"
          PROVE  (ask[e.of].outcome = "allowed") = (e.kind \in Grants)
        <3>1. ~Unanswered(e.of) /\ deferred[e.of] \in {"open", Verdict(e.kind)}
            BY <1>1, <2>3 DEF IInv, Unanswered, EventsAreKept
        <3>2. \/ ask[e.of].outcome = "allowed" /\ deferred[e.of] = "granted"
              \/ ask[e.of].outcome = "rejected" /\ deferred[e.of] = "rejected"
            BY <1>1, <2>2, <2>3, <3>1 DEF IInv, EndsAreEarned
        <3> QED BY <3>1, <3>2 DEF Verdict
    <2> QED BY <2>1, <2>2, <2>3 DEF Outcomes
<1> QED BY <1>1, Invariance, PTL

=============================================================================
