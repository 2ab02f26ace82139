---------------------------- MODULE MCAuthService ----------------------------
(***************************************************************************)
(* AuthService on small instances.  Row ids are interchangeable uuids.     *)
(***************************************************************************)
EXTENDS AuthService, TLC

\* Row ids are only ever compared; every property the runs check is safety.
RowIds == Permutations(Challenges) \cup Permutations(Accounts) \cup Permutations(Sessions)
=============================================================================
