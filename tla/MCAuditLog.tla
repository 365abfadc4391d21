----------------------------- MODULE MCAuditLog -----------------------------
(***************************************************************************)
(* AuditLog for TLC: a log of two chained rows and one of the retention    *)
(* job, and three events of which two share a millisecond.                 *)
(***************************************************************************)
EXTENDS AuditLog, TLC

MCFirstChain == LET first == Chain(4, 0, NoHash) IN <<first, Chain(3, 1, first.hash)>>

MCFirstEvents == {[id |-> 11, at |-> 0, us |-> 1], [id |-> 13, at |-> 1, us |-> 0],
                  [id |-> 12, at |-> 1, us |-> 1]}

Symmetry == Permutations(Requests)
=============================================================================
