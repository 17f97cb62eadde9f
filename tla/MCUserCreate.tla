---------------------------- MODULE MCUserCreate ----------------------------
(***************************************************************************)
(* UserCreate for TLC.                                                     *)
(***************************************************************************)
EXTENDS UserCreate, TLC

\* Which request, which key, which username and which id of a kind is which
\* does not matter to the safety properties.
Symmetry == Permutations(Requests) \cup Permutations(Keys)
            \cup Permutations(Usernames) \cup Permutations(GuidIds)
=============================================================================
