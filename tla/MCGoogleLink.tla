----------------------------- MODULE MCGoogleLink -----------------------------
(***************************************************************************)
(* GoogleLink on a small instance.  Replicas and row ids are only compared *)
(* with each other.                                                        *)
(***************************************************************************)
EXTENDS GoogleLink, TLC

Interchangeable ==
    Permutations(Challenges) \cup Permutations(Sessions) \cup Permutations(Replicas)
=============================================================================
