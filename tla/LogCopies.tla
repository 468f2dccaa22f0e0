----------------------------- MODULE LogCopies -----------------------------
(***************************************************************************)
(* What event replay promises the devices that follow a session, whatever  *)
(* their connections do: each one's copy of a session's log is a prefix of *)
(* the log the writing device has written.  The promise ends when the      *)
(* numbers of a session start over, which they do when something is        *)
(* written to a session that was removed: what a copy takes then is some   *)
(* event that was written and that it does not have.                       *)
(***************************************************************************)
EXTENDS Naturals, Sequences

CONSTANTS Followers, Sessions

VARIABLES
    log,        \* everything ever written about each session, in order
    copy        \* each follower's copy

vars == <<log, copy>>

Init ==
    /\ log  = [s \in Sessions |-> <<>>]
    /\ copy = [f \in Followers |-> [s \in Sessions |-> <<>>]]

\* The number of the next event, unless numbers start over.
Next(s) == IF log[s] = <<>> THEN 0 ELSE log[s][Len(log[s])].seq + 1

Renumbered(s) == \E i \in DOMAIN log[s] : log[s][i].seq # i - 1

\* One more event, whichever it is.
Write(s) ==
    /\ Len(log'[s]) = Len(log[s]) + 1
    /\ log'[s][Len(log'[s])].seq \in {0, Next(s)}
    /\ log' = [log EXCEPT ![s] = Append(@, log'[s][Len(@) + 1])]
    /\ UNCHANGED copy

\* The next event only: no gap, no duplicate, nothing out of order.
Copy(f, s) ==
    \E i \in DOMAIN log[s] :
        /\ ~Renumbered(s) => i = Len(copy[f][s]) + 1
        /\ \A j \in DOMAIN copy[f][s] : copy[f][s][j] # log[s][i]
        /\ copy' = [copy EXCEPT ![f][s] = Append(@, log[s][i])]
        /\ UNCHANGED log

Step ==
    \/ \E s \in Sessions : Write(s)
    \/ \E f \in Followers, s \in Sessions : Copy(f, s)

Spec == Init /\ [][Step]_vars
=============================================================================
