---------------------------- MODULE MCSyncEdge ----------------------------
(* TLC instances of SyncEdge.  Handles that start in the same state, and    *)
(* wakers, are interchangeable.                                             *)
EXTENDS SyncEdge, TLC

Symmetry == Permutations(Minted) \cup Permutations(Wakers)
============================================================================
