----------------------------- MODULE MCSessions -----------------------------
(* Small instances of Sessions for TLC. *)
EXTENDS Sessions, TLC

(* Pairs and session ids are only compared for equality. *)
Symmetry == Permutations(PairIds) \union Permutations(SessionIds)
              \union Permutations(Requests)

=============================================================================
