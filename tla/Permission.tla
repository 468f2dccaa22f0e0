----------------------------- MODULE Permission -----------------------------
(***************************************************************************)
(* src/src/permission/index.ts: a tool asks before it acts, a client      *)
(* answers.                                                                *)
(*                                                                         *)
(* Every directory has a state of its own - the pending requests and the   *)
(* approved rules - kept in a scoped cache.  Disposing of the instance     *)
(* drops the entry and runs its finalizer; the next look-up makes a new    *)
(* state.  gen numbers those states.  Callers hold on to the state they    *)
(* looked up, so late callers work on a state that has been disposed of.   *)
(*                                                                         *)
(* Each step below is what a fiber does between two effects: the runtime   *)
(* may let other fibers run at any effect (it yields by itself after some  *)
(* thousands of them).  Two places are taken as one step each: looking the *)
(* state up and judging or taking a request in it.  A reply walks over the live Map, so it meets the   *)
(* entries that are added while it walks; the order of the walk does not   *)
(* matter to any property and is left open.                                *)
(*                                                                         *)
(* A permission name with a pattern, as a tool asks for it, is a member of *)
(* Things.  A list of rules is a function from Things to the action of the *)
(* last rule that matches, "none" where no rule does.                      *)
(***************************************************************************)
EXTENDS Naturals, FiniteSets

CONSTANTS
    Asks,           \* the calls of ask, each with a request id of its own
    NoAsk,
    Replies,        \* the calls of reply
    Sessions,
    Things,
    SessionOf,      \* the session of a request
    Wants,          \* the patterns of a request
    Always,         \* what the rules match that "always" adds for it
    Ruleset,        \* the rules the caller brings: agent, config and session
    Stored,         \* what the database may hold as the rules of the project
    Interruptible,  \* the asks that run in the fiber of the session
    MaxDisposals

ASSUME RequestAssumption ==
    /\ NoAsk \notin Asks
    /\ SessionOf \in [Asks -> Sessions]
    /\ Wants \in [Asks -> SUBSET Things]
    /\ Always \in [Asks -> SUBSET Things]

Action == {"allow", "deny", "ask"}
Rules == [Things -> Action \cup {"none"}]

ASSUME RulesAssumption ==
    /\ Ruleset \in [Asks -> Rules]
    /\ Stored \in SUBSET Rules \ {{}}
ASSUME InterruptAssumption == Interruptible \subseteq Asks
ASSUME DisposalAssumption == MaxDisposals \in Nat

States == 0..MaxDisposals

\* A rejection may bring feedback for the model: the error is then another
\* one, and nothing else differs.
Grants == {"once", "always"}
Kinds == {"reject"} \cup Grants

VARIABLES
    gen,        \* the state the cache hands out
    pending,    \* per state, the requests in the Map
    approved,   \* per state, the approved rules
    closing,    \* per state: "open", then "failing", then "closed"
    failed,     \* per state, the entries its finalizer has met
    ask,        \* per call: where it is, the state it holds, how it ended
    deferred,   \* per call: the Deferred it waits on
    reply,      \* per call: where it is, what it holds, the entries it met
    published   \* the Replied events: request, reply and call that sent it

vars == <<gen, pending, approved, closing, failed, ask, deferred, reply, published>>

idleAsk == [at |-> "idle", gen |-> 0, late |-> FALSE, outcome |-> "none"]
idleReply == [at |-> "idle", gen |-> 0, of |-> NoAsk, kind |-> "none",
              peers |-> {}, met |-> {}, hand |-> NoAsk]

AskStages == {"idle", "asking", "waiting", "done"}
Outcomes == {"none", "allowed", "denied", "rejected", "interrupted"}
ReplyStages == {"idle", "taken", "granted", "walking", "done"}

AskRows == [at : AskStages, gen : States, late : BOOLEAN, outcome : Outcomes]
ReplyRows == [at : ReplyStages, gen : States, of : Asks \cup {NoAsk},
              kind : Kinds \cup {"none"}, peers : SUBSET Asks,
              met : SUBSET Asks, hand : Asks \cup {NoAsk}]
Events == [of : Asks, kind : Kinds, by : Replies]

TypeOK ==
    /\ gen \in States
    /\ pending \in [States -> SUBSET Asks]
    /\ approved \in [States -> Rules]
    /\ closing \in [States -> {"open", "failing", "closed"}]
    /\ failed \in [States -> SUBSET Asks]
    /\ ask \in [Asks -> AskRows]
    /\ deferred \in [Asks -> {"open", "granted", "rejected"}]
    /\ reply \in [Replies -> ReplyRows]
    /\ published \subseteq Events

Init ==
    /\ gen = 0
    /\ pending = [g \in States |-> {}]
    /\ \E rules \in Stored : approved = [g \in States |-> rules]
    /\ closing = [g \in States |-> "open"]
    /\ failed = [g \in States |-> {}]
    /\ ask = [a \in Asks |-> idleAsk]
    /\ deferred = [a \in Asks |-> "open"]
    /\ reply = [r \in Replies |-> idleReply]
    /\ published = {}

-----------------------------------------------------------------------------
(* Evaluation                                                              *)

\* The approved rules come after the caller's, and the last match wins.
Evaluate(g, a, t) ==
    IF approved[g][t] # "none" THEN approved[g][t]
    ELSE IF Ruleset[a][t] # "none" THEN Ruleset[a][t] ELSE "ask"

AllowedByRule(g, a) == \A t \in Wants[a] : Evaluate(g, a, t) = "allow"

\* Mutant: some where the code says every.
CoveredInPart(g, a) == \E t \in Wants[a] : approved[g][t] = "allow"

\* What the walk of an "always" looks at: the approved rules by themselves.
Covered(g, a) == \A t \in Wants[a] : approved[g][t] = "allow"

\* Completing a Deferred a second time does nothing.
Settle(a, how) == deferred' = [deferred EXCEPT ![a] = IF @ = "open" THEN how ELSE @]

Verdict(kind) == IF kind \in Grants THEN "granted" ELSE "rejected"

Event(a, kind, r) == [of |-> a, kind |-> kind, by |-> r]

-----------------------------------------------------------------------------
(* ask                                                                     *)

AskUnchanged == UNCHANGED <<gen, approved, closing, failed, deferred, reply, published>>

EndAsk(a, outcome) == ask' = [ask EXCEPT ![a].at = "done", ![a].gen = gen, ![a].outcome = outcome]

Judge(a) ==
    /\ ask[a].at = "idle"
    /\ \/ /\ \E t \in Wants[a] : Evaluate(gen, a, t) = "deny"
          /\ EndAsk(a, "denied")
       \/ /\ AllowedByRule(gen, a)
          /\ EndAsk(a, "allowed")
       \/ /\ \A t \in Wants[a] : Evaluate(gen, a, t) # "deny"
          /\ ~AllowedByRule(gen, a)
          /\ ask' = [ask EXCEPT ![a].at = "asking", ![a].gen = gen]
    /\ UNCHANGED pending
    /\ AskUnchanged

\* Adds the entry, publishes Asked and waits.
Enter(a) ==
    /\ ask[a].at = "asking"
    /\ pending' = [pending EXCEPT ![ask[a].gen] = @ \cup {a}]
    /\ ask' = [ask EXCEPT ![a].at = "waiting", ![a].late = closing[ask[a].gen] # "open"]
    /\ AskUnchanged

Return(a, outcome) ==
    /\ ask' = [ask EXCEPT ![a].at = "done", ![a].late = FALSE, ![a].outcome = outcome]
    /\ pending' = [pending EXCEPT ![ask[a].gen] = @ \ {a}]
    /\ AskUnchanged

Resume(a) ==
    /\ ask[a].at = "waiting"
    /\ deferred[a] # "open"
    /\ Return(a, IF deferred[a] = "granted" THEN "allowed" ELSE "rejected")

Interrupt(a) ==
    /\ a \in Interruptible
    /\ ask[a].at \in {"asking", "waiting"}
    /\ Return(a, "interrupted")

-----------------------------------------------------------------------------
(* reply                                                                   *)

Peers(g, a) == {b \in pending[g] : SessionOf[b] = SessionOf[a]}

\* Mutant: the entry stays in the Map until its caller resumes.
TakeLater(r, a, kind) ==
    /\ reply[r].at = "idle"
    /\ a \in pending[gen]
    /\ published' = published \cup {Event(a, kind, r)}
    /\ reply' = [reply EXCEPT ![r].at = "taken", ![r].gen = gen, ![r].of = a,
                              ![r].kind = kind, ![r].peers = Peers(gen, a) \ {a}]
    /\ UNCHANGED <<gen, pending, approved, closing, failed, ask, deferred>>

\* Takes the entry out of the Map and publishes Replied; a reply to a request
\* that is no longer pending ends here.
Take(r, a, kind) ==
    /\ reply[r].at = "idle"
    /\ a \in pending[gen]
    /\ pending' = [pending EXCEPT ![gen] = @ \ {a}]
    /\ published' = published \cup {Event(a, kind, r)}
    /\ reply' = [reply EXCEPT ![r].at = "taken", ![r].gen = gen, ![r].of = a,
                              ![r].kind = kind, ![r].peers = Peers(gen, a) \ {a}]
    /\ UNCHANGED <<gen, approved, closing, failed, ask, deferred>>

AnswerOne(r) ==
    /\ reply[r].at = "taken"
    /\ Settle(reply[r].of, Verdict(reply[r].kind))
    /\ reply' = [reply EXCEPT ![r].at = CASE reply[r].kind = "once" -> "done"
                                          [] reply[r].kind = "always" -> "granted"
                                          [] OTHER -> "walking"]
    /\ UNCHANGED <<gen, pending, approved, closing, failed, ask, published>>

Approve(r) ==
    /\ reply[r].at = "granted"
    /\ approved' = [approved EXCEPT ![reply[r].gen] =
                        [t \in Things |-> IF t \in Always[reply[r].of] THEN "allow" ELSE @[t]]]
    /\ reply' = [reply EXCEPT ![r].at = "walking"]
    /\ UNCHANGED <<gen, pending, closing, failed, ask, deferred, published>>

\* Mutant: a rejection looks at the rules, too.
ConcernsCovered(r, a) ==
    /\ SessionOf[a] = SessionOf[reply[r].of]
    /\ Covered(reply[r].gen, a)

\* Whether the walk of r settles the entry of a.
Concerns(r, a) ==
    /\ SessionOf[a] = SessionOf[reply[r].of]
    /\ reply[r].kind = "always" => Covered(reply[r].gen, a)

Meet(r, a) ==
    LET g == reply[r].gen IN
    /\ reply[r].at = "walking"
    /\ reply[r].hand = NoAsk
    /\ a \in pending[g] \ reply[r].met
    /\ IF Concerns(r, a)
       THEN /\ pending' = [pending EXCEPT ![g] = @ \ {a}]
            /\ published' = published \cup {Event(a, reply[r].kind, r)}
            /\ reply' = [reply EXCEPT ![r].met = @ \cup {a}, ![r].hand = a]
       ELSE /\ reply' = [reply EXCEPT ![r].met = @ \cup {a}]
            /\ UNCHANGED <<pending, published>>
    /\ UNCHANGED <<gen, approved, closing, failed, ask, deferred>>

AnswerMet(r) ==
    /\ reply[r].at = "walking"
    /\ reply[r].hand # NoAsk
    /\ Settle(reply[r].hand, Verdict(reply[r].kind))
    /\ reply' = [reply EXCEPT ![r].hand = NoAsk]
    /\ UNCHANGED <<gen, pending, approved, closing, failed, ask, published>>

EndReply(r) ==
    /\ reply[r].at = "walking"
    /\ reply[r].hand = NoAsk
    /\ pending[reply[r].gen] \subseteq reply[r].met
    /\ reply' = [reply EXCEPT ![r].at = "done", ![r].met = {}]
    /\ UNCHANGED <<gen, pending, approved, closing, failed, ask, deferred, published>>

-----------------------------------------------------------------------------
(* Disposal of the instance                                                *)

\* The cache entry goes first; the next look-up reads the stored rules again.
Dispose ==
    /\ gen < MaxDisposals
    /\ gen' = gen + 1
    /\ closing' = [closing EXCEPT ![gen] = "failing"]
    /\ UNCHANGED <<pending, approved, failed, ask, deferred, reply, published>>

FailOne(g, a) ==
    /\ closing[g] = "failing"
    /\ a \in pending[g] \ failed[g]
    /\ Settle(a, "rejected")
    /\ failed' = [failed EXCEPT ![g] = @ \cup {a}]
    /\ UNCHANGED <<gen, pending, approved, closing, ask, reply, published>>

\* Mutant: the Map is cleared and nobody is failed.
ClearAtOnce(g) ==
    /\ closing[g] = "failing"
    /\ pending' = [pending EXCEPT ![g] = {}]
    /\ closing' = [closing EXCEPT ![g] = "closed"]
    /\ UNCHANGED <<gen, approved, failed, ask, deferred, reply, published>>

Clear(g) ==
    /\ closing[g] = "failing"
    /\ pending[g] \subseteq failed[g]
    /\ pending' = [pending EXCEPT ![g] = {}]
    /\ closing' = [closing EXCEPT ![g] = "closed"]
    /\ failed' = [failed EXCEPT ![g] = {}]
    /\ UNCHANGED <<gen, approved, ask, deferred, reply, published>>

-----------------------------------------------------------------------------

AskStep(a) == Judge(a) \/ Enter(a) \/ Resume(a)

ReplyStep(r) ==
    \/ AnswerOne(r)
    \/ Approve(r)
    \/ \E a \in Asks : Meet(r, a)
    \/ AnswerMet(r)
    \/ EndReply(r)

Finalize(g) == Clear(g) \/ \E a \in Asks : FailOne(g, a)

Next ==
    \/ \E a \in Asks : AskStep(a) \/ Interrupt(a)
    \/ \E r \in Replies, a \in Asks, kind \in Kinds : Take(r, a, kind)
    \/ \E r \in Replies : ReplyStep(r)
    \/ Dispose
    \/ \E g \in States : Finalize(g)

\* The runtime runs every fiber that can run.  Nothing makes a client answer,
\* a tool ask, or anybody dispose of the instance.
Fairness ==
    /\ \A a \in Asks : WF_vars(Enter(a) \/ Resume(a))
    /\ \A r \in Replies : WF_vars(ReplyStep(r))
    /\ \A g \in States : WF_vars(Finalize(g))

Spec == Init /\ [][Next]_vars
FairSpec == Spec /\ Fairness

-----------------------------------------------------------------------------
(* Properties                                                              *)

DirectGrant(a) == \E e \in published : /\ e.of = a
                                       /\ e.kind \in Grants
                                       /\ reply[e.by].of = a

\* Nothing goes ahead by accident: a call that was let through is allowed in
\* every one of its patterns by the rules of the state it holds, or a client
\* granted that very request (the walk of an "always" answer settles only what
\* the approved rules now allow as a whole, index.ts:246-250).
NothingGoesUnasked ==
    \A a \in Asks : ask[a].outcome = "allowed" =>
        AllowedByRule(ask[a].gen, a) \/ DirectGrant(a)

\* When the walk of a reply is over, no request that was pending in its session
\* when it was taken is left that it speaks for: a rejection speaks for all of
\* them, an "always" for those that its own rules allow (index.ts:222-233,
\* 246-259), however many other calls changed the Map meanwhile.
NoPeerLeftBehind ==
    \A r \in Replies : reply[r].at = "done" =>
        \A a \in reply[r].peers \cap pending[reply[r].gen] :
            \/ reply[r].kind = "once"
            \/ reply[r].kind = "always" /\ ~(Wants[a] \subseteq Always[reply[r].of])

\* Clients are told the truth: there is at most one Replied event of a request,
\* and a caller that waited ended the way the event says, unless the finalizer
\* of its state came in between (index.ts:208-221).
AnswersAreHeard ==
    \A e \in published :
        /\ \A f \in published : f.of = e.of => f = e
        /\ \/ ask[e.of].outcome \in {"none", "interrupted"}
           \/ closing[ask[e.of].gen] # "open"
           \/ (ask[e.of].outcome = "allowed") = (e.kind \in Grants)

\* A caller that waits returns once it has been answered, and once the state it
\* waits in is disposed of, if it entered it before (index.ts:154-161).
AskReturns ==
    \A a \in Asks :
        (/\ ask[a].at = "waiting"
         /\ \/ \E e \in published : e.of = a
            \/ closing[ask[a].gen] # "open" /\ ~ask[a].late)
        ~> ask[a].at = "done"

\* What the dialog of the terminal UI says of an "always" answer: "This will
\* allow the following patterns until HDP is restarted"
\* (cli/cmd/tui/routes/session/permission.tsx:167).
AlwaysLastsUntilRestart ==
    \A r \in Replies :
        reply[r].at = "done" /\ Event(reply[r].of, "always", r) \in published
            => \A t \in Always[reply[r].of] : approved[gen][t] = "allow"

=============================================================================
