-------------------------- MODULE GenerationPolicy --------------------------
(***************************************************************************)
(* What the stages of B1 share: the marker for what is not there, and the  *)
(* semantic rounds a generation policy allows.                             *)
(***************************************************************************)
CONSTANTS
    None,        \* a field without a value, a file that is not there
    MaxRounds    \* max_rounds of the policies of B1.2 and of a window of B1.3
=============================================================================
