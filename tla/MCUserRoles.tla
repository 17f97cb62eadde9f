---------------------------- MODULE MCUserRoles ----------------------------
(***************************************************************************)
(* UserRoles for TLC.                                                      *)
(***************************************************************************)
EXTENDS UserRoles, TLC

\* Requests differ only in what they ask for, and keys in who claimed them.
Symmetry == Permutations(Requests) \cup Permutations(Keys)
=============================================================================
