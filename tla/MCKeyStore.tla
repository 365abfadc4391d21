----------------------------- MODULE MCKeyStore -----------------------------
(* Small instances of KeyStore for TLC. *)
EXTENDS KeyStore, TLC

(* Key ids, calls and servers are only compared for equality. *)
Symmetry == Permutations(Kids) \union Permutations(Tasks)
              \union Permutations(Servers)

=============================================================================
