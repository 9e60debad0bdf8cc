----------------------------- MODULE MCB13Runner -----------------------------
(* Two processes that race for the windows of one preparation.               *)
EXTENDS B13Runner, TLC

\* Processes, requests and proposals are interchangeable.
Symmetry ==
    Permutations(Runners) \union Permutations(Requests) \union Permutations(Proposals)
=============================================================================
