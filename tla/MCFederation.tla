---------------------------- MODULE MCFederation ----------------------------
(***************************************************************************)
(* Federation for TLC.  AppSecret and EnvClient are told apart, the other  *)
(* secrets are not.                                                        *)
(***************************************************************************)
EXTENDS Federation, TLC

Symmetry ==
    Permutations(Secrets \ {AppSecret}) \union Permutations(Requests)
        \union Permutations(Admins) \union Permutations(Browsers)
=============================================================================
