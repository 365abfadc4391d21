--------------------------- MODULE OneTimeSecret ---------------------------
(***************************************************************************)
(* What recovery codes, e-mail verification tokens and password reset      *)
(* tokens promise.  A secret is issued once; while it is live it can be    *)
(* spent or withdrawn, and neither can be undone; what it stands for (a    *)
(* sign-in, a verified address, a new password) is granted at most once,   *)
(* and only after it was spent.                                            *)
(***************************************************************************)
EXTENDS Naturals

CONSTANT Secrets

VARIABLES
    state,      \* "unissued", "live", "spent" or "dead"
    granted     \* how often the secret got its bearer what it stands for

oneTimeVars == <<state, granted>>

OneTimeInit ==
    /\ state = [x \in Secrets |-> "unissued"]
    /\ granted = [x \in Secrets |-> 0]

(* new secrets replace live ones, or live ones run out *)
Replace ==
    /\ state' \in [Secrets -> {"unissued", "live", "spent", "dead"}]
    /\ \A x \in Secrets :
          \/ state'[x] = state[x]
          \/ state[x] = "unissued" /\ state'[x] = "live"
          \/ state[x] = "live" /\ state'[x] = "dead"
    /\ UNCHANGED granted

Spend(x) ==
    /\ state[x] = "live"
    /\ state' = [state EXCEPT ![x] = "spent"]
    /\ UNCHANGED granted

Grant(x) ==
    /\ state[x] = "spent"
    /\ granted[x] = 0
    /\ granted' = [granted EXCEPT ![x] = 1]
    /\ UNCHANGED state

OneTimeNext == Replace \/ \E x \in Secrets : Spend(x) \/ Grant(x)

OneTimeSpec == OneTimeInit /\ [][OneTimeNext]_oneTimeVars
=============================================================================
