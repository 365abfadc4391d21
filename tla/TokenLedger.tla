---------------------------- MODULE TokenLedger ----------------------------
(***************************************************************************)
(* What the refresh-token half of the identity provider promises, with no  *)
(* table, request or interleaving left: a pair of tokens (one access and   *)
(* one refresh token, minted together) is issued once, is exchanged at     *)
(* most once for a new pair, and once withdrawn never counts again.        *)
(* Module Sessions implements this specification.                          *)
(***************************************************************************)

CONSTANTS
    PairIds,            \* every pair of tokens that could ever be minted
    NoPair

VARIABLES
    issued,             \* the pairs minted so far
    valid,              \* the pairs a client can still exchange
    origin              \* the pair each pair was obtained with

TypeOK ==
    /\ issued \subseteq PairIds
    /\ valid \subseteq issued
    /\ origin \in [PairIds -> issued \union {NoPair}]

Init ==
    /\ issued = {}
    /\ valid = {}
    /\ origin = [k \in PairIds |-> NoPair]

(* A login opens a session with a pair nobody has seen before. *)
Issue(k) ==
    /\ k \in PairIds \ issued
    /\ issued' = issued \union {k}
    /\ valid' = valid \union {k}
    /\ UNCHANGED origin

(* A refresh trades a valid pair for a new one.  The pair the client shows   *)
(* is the pair that is spent: a spent one never obtains another.             *)
Exchange(old, k) ==
    /\ old \in valid
    /\ k \in PairIds \ issued
    /\ issued' = issued \union {k}
    /\ valid' = (valid \ {old}) \union {k}
    /\ origin' = [origin EXCEPT ![k] = old]

(* Logout, revocation and account deletion withdraw any number of pairs. *)
Withdraw ==
    /\ valid' \in SUBSET valid
    /\ valid' # valid
    /\ UNCHANGED <<issued, origin>>

Next ==
    \/ \E k \in PairIds : Issue(k)
    \/ \E old, k \in PairIds : Exchange(old, k)
    \/ Withdraw

Spec == Init /\ [][Next]_<<issued, valid, origin>>

=============================================================================
