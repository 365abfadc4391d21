--------------------------- MODULE MCAuthorization ---------------------------
(***************************************************************************)
(* Authorization for TLC: the slots for requests are interchangeable.      *)
(***************************************************************************)
EXTENDS Authorization, TLC

Symmetry == Permutations(Requests)
=============================================================================
