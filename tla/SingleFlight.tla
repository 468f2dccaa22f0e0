---------------------------- MODULE SingleFlight ----------------------------
(***************************************************************************)
(* What a runner promises the callers of ensureRunning, whatever shells    *)
(* and cancellations do: calls that overlap share one run.  A caller       *)
(* follows the leader its runner has, or becomes the leader; a leader is   *)
(* answered, once, only after it has been released, and so nobody ever     *)
(* follows a run that was answered before the call.                        *)
(***************************************************************************)
CONSTANTS Runners, Prompts, None

VARIABLES
    leader,     \* the run that new callers of a runner join
    answer,     \* the answer of each run
    follows,    \* the run each caller waits for
    phase       \* how far each caller is

vars == <<leader, answer, follows, phase>>

Init ==
    /\ leader  = [r \in Runners |-> None]
    /\ answer  = [p \in Prompts |-> "none"]
    /\ follows = [p \in Prompts |-> None]
    /\ phase   = [p \in Prompts |-> "start"]

Lead(p, r) ==
    /\ phase[p] = "start" /\ leader[r] = None
    /\ leader'  = [leader EXCEPT ![r] = p]
    /\ answer'  = [answer EXCEPT ![p] = "open"]
    /\ follows' = [follows EXCEPT ![p] = p]
    /\ phase'   = [phase EXCEPT ![p] = "waiting"]

Follow(p, r) ==
    /\ phase[p] = "start" /\ leader[r] # None
    /\ follows' = [follows EXCEPT ![p] = leader[r]]
    /\ phase'   = [phase EXCEPT ![p] = "waiting"]
    /\ UNCHANGED <<leader, answer>>

Release(r) ==
    /\ leader[r] # None
    /\ leader' = [leader EXCEPT ![r] = None]
    /\ UNCHANGED <<answer, follows, phase>>

Answer(p) ==
    /\ answer[p] = "open"
    /\ \A r \in Runners : leader[r] # p
    /\ \E a \in {"exit", "cancelled"} : answer' = [answer EXCEPT ![p] = a]
    /\ UNCHANGED <<leader, follows, phase>>

Get(p) ==
    /\ phase[p] = "waiting"
    /\ answer[follows[p]] \in {"exit", "cancelled"}
    /\ phase' = [phase EXCEPT ![p] = "returned"]
    /\ UNCHANGED <<leader, answer, follows>>

Next ==
    \/ \E p \in Prompts, r \in Runners : Lead(p, r) \/ Follow(p, r)
    \/ \E r \in Runners : Release(r)
    \/ \E p \in Prompts : Answer(p) \/ Get(p)

Spec == Init /\ [][Next]_vars
=============================================================================
