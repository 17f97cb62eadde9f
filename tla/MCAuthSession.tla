--------------------------- MODULE MCAuthSession ---------------------------
(***************************************************************************)
(* AuthSession for TLC: two logins, the first with a token and its         *)
(* refreshed successor.                                                    *)
(***************************************************************************)
EXTENDS AuthSession, TLC

CONSTANTS l1, l2, old, new, other

MCLoginOf == (old :> l1) @@ (new :> l1) @@ (other :> l2)

MCExpOf == (old :> 1) @@ (new :> 2) @@ (other :> 1)

\* Which request is which does not matter; the logins differ in their tokens.
Symmetry == Permutations(Requests)
=============================================================================
