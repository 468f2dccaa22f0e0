----------------------------- MODULE MCRunState -----------------------------
(* A small instance of RunState: one session, every caller makes one call. *)
EXTENDS RunState, TLC

Symmetry == Permutations(Prompts) \cup Permutations(Shells) \cup Permutations(Cancels)
            \cup Permutations(Runners) \cup Permutations(Checks)
=============================================================================
