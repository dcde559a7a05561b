--------------------------- MODULE MCSyncPipeline ---------------------------
(* SyncPipeline for TLC: nodes are alike, and so are the cloud's threads. *)
EXTENDS SyncPipeline, TLC

Symmetry ==
    Permutations(Nodes) \cup Permutations(Admins) \cup Permutations(Calls)
=============================================================================
