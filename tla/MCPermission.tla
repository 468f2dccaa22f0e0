---------------------------- MODULE MCPermission ----------------------------
(* A small instance of Permission: two sessions, a request with two patterns, *)
(* and a database that holds nothing, or a rule for one of the patterns.      *)
EXTENDS Permission, TLC

CONSTANTS a1, a2, a3, s1, s2, main, env

MCSessionOf == a1 :> s1 @@ a2 :> s1 @@ a3 :> s2
MCWants == a1 :> {main} @@ a2 :> {main, env} @@ a3 :> {env}
MCAlways == MCWants
NoRules == [t \in {main, env} |-> "none"]
MCRuleset == a1 :> NoRules @@ a2 :> [NoRules EXCEPT ![main] = "allow"] @@ a3 :> NoRules
MCStored == {[NoRules EXCEPT ![env] = action] : action \in {"none", "allow", "deny"}}
=============================================================================
