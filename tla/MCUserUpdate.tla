---------------------------- MODULE MCUserUpdate ----------------------------
(***************************************************************************)
(* UserUpdate for TLC.                                                     *)
(***************************************************************************)
EXTENDS UserUpdate
=============================================================================
