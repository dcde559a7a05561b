--------------------------- MODULE MCSolveRail ---------------------------
(***************************************************************************)
(* Instances of SolveRail for TLC.                                         *)
(***************************************************************************)
EXTENDS SolveRail, TLC

\* Worker processes, tournaments and keys are interchangeable.
Symmetry ==
    Permutations(Workers) \cup Permutations(Tournaments) \cup Permutations(Keys)
=============================================================================
