---------------------------- MODULE MCCredentials ----------------------------
(***************************************************************************)
(* Credentials for TLC: what the generators produce, and the slots, are    *)
(* interchangeable.                                                        *)
(***************************************************************************)
EXTENDS Credentials, TLC

Symmetry == Permutations(Codes) \union Permutations(Requests)
              \union Permutations(Factors) \union Permutations(Challenges)
=============================================================================
