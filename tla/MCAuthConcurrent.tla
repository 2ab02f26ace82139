--------------------------- MODULE MCAuthConcurrent ---------------------------
(***************************************************************************)
(* AuthConcurrent on small instances.                                      *)
(***************************************************************************)
EXTENDS AuthConcurrent, TLC

\* Workers and row ids are only ever compared.
Interchangeable ==
    Permutations(Workers) \cup Permutations(Challenges)
      \cup Permutations(Accounts) \cup Permutations(Sessions)
=============================================================================
