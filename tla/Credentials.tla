----------------------------- MODULE Credentials -----------------------------
(***************************************************************************)
(* Everything a user can present, together: passwords, Google, one-time    *)
(* tokens, TOTP, recovery codes and passkeys, with requests of all kinds   *)
(* in flight at once.                                                      *)
(***************************************************************************)
EXTENDS SecondFactor

vars == <<accountVars, factorVars>>

Init == AccountsInit /\ SecondFactorInit

(* codes and factors a request may name: ones that exist, or none *)
Named == {c \in Codes : code[c].state # "unissued"} \union {None}

NamedFactors == {f \in Factors : factor[f] # NoFactor} \union {None}

AccountRequest(r) ==
    \/ \E u \in Users :
          \/ Signup(r, u)
          \/ RequestEmailVerification(r, u)
          \/ RequestPasswordReset(r, u)
          \/ \E s \in Subjects :
                \/ LinkGoogle(r, u, s)
                \/ \E c \in Named, f \in NamedFactors : GoogleLogin(r, s, u, c, f)
    \/ \E t \in Tokens : ConfirmEmailVerification(r, t) \/ ConfirmPasswordReset(r, t)

FactorRequest(r) ==
    \E u \in Users :
       \/ RegenerateCodes(r, u)
       \/ \E f \in Factors : VerifyMfa(r, u, f)
       \/ \E c \in Named, f \in NamedFactors : Login(r, u, c, f)
       \/ \E x \in Challenges : VerifyRegistration(r, u, x) \/ VerifyAuthentication(r, u, x)

(* a handler of module Accounts goes on *)
AccountStep(r) ==
    \/ CreateUser(r)
    \/ \E t \in Tokens : InsertToken(r, t)
    \/ ConfirmUser(r)
    \/ ApplyToken(r)
    \/ GoogleByEmail(r)
    \/ GoogleCreate(r)
    \/ GoogleLink(r)
    \/ LinkInsert(r)
    \/ Abort(r)

(* a handler of module SecondFactor goes on *)
FactorStep(r) ==
    \/ GoogleUser(r)
    \/ RiskRefuses(r)
    \/ CheckMfa(r)
    \/ EnforceTotp(r)
    \/ FindCode(r)
    \/ MarkUsed(r)
    \/ CreateSession(r)
    \/ CountActive(r)
    \/ RevokeActive(r)
    \/ \E C \in SUBSET Codes : StoreBatch(r, C)
    \/ EndSessions(r)
    \/ \E f \in Factors : InsertKey(r, f) \/ FindKey(r, f)
    \/ DropRegistration(r)
    \/ UpdateCounter(r)
    \/ DropChallenge(r)
    \/ PasskeyUser(r)

(* requests of one statement, and what happens outside the server *)
AccountEvent ==
    \/ \E u \in Users :
          \/ DeleteAccount(u)
          \/ \E s \in Subjects : UnlinkGoogle(u, s)
    \/ \E t \in Tokens : ExpireToken(t)

FactorEvent ==
    \/ \E u \in Users :
          \/ \E f \in Factors : EnrollMfa(u, f)
          \/ \E p \in Purposes :
                \/ ExpireChallenge(u, p)
                \/ \E x \in Challenges : GenerateOptions(u, p, x)
    \/ \E x \in Challenges, k \in Passkeys : Sign(x, k)

Next ==
    \/ \E r \in Requests : AccountRequest(r) /\ UNCHANGED factorVars
    \/ \E r \in Requests : AccountStep(r) /\ UNCHANGED factorVars
    \/ AccountEvent /\ UNCHANGED factorVars
    \/ \E r \in Requests : FactorRequest(r) \/ FactorStep(r)
    \/ FactorEvent

Spec == Init /\ [][Next]_vars

-----------------------------------------------------------------------------
(* Properties. *)

(* All tables, keys and handlers keep their shape. *)
TypeOK ==
    /\ users \in [Users -> Account]
    /\ token \in [Tokens -> Token]
    /\ identity \in [Subjects -> Users \union {None}]
    /\ open \in [Users -> Nat]
    /\ req \in [Requests -> Request]
    /\ begun \in 0..MaxRequests
    /\ granted \in [Secrets -> Nat]
    /\ severed \subseteq Subjects \X Users
    /\ factor \in [Factors -> Factor]
    /\ code \in [Codes -> RecoveryCode]
    /\ challenge \in [Users -> [Purposes -> Challenges \union {None}]]
    /\ answer \in [Challenges -> Answer]
    /\ counter \in [Passkeys -> Nat]
    /\ signIns \in [Challenges -> Nat]

secretState ==
    [x \in Secrets |-> IF x \in Codes THEN code[x].state ELSE token[x].state]

Abstract == INSTANCE OneTimeSecret WITH state <- secretState

(* A recovery code signs in once and a token verifies an address or sets a   *)
(* password once, only after it was spent while live, however many requests  *)
(* carry it and whatever regenerates or expires it meanwhile (markUsed,      *)
(* consumeValidEmailTokenByHash, consumeValidPasswordTokenByHash).           *)
ImplementsOneTime == Abstract!OneTimeSpec

(* createBatch: a live code never stands beside a live code that its own     *)
(* batch had found when it revoked.  Two batches of one user can be live     *)
(* only when their transactions overlapped.                                  *)
OldCodesDie ==
    \A c \in Codes : code[c].state = "live" =>
        \A d \in code[c].past : code[d].state # "live"

Opens(r) == req[r].at = "session" /\ open' # open /\ req'[r].at = "idle"

(* login and loginWithGoogle: a session opened with a password or by Google  *)
(* for an account that has a password, and had a factor when the handler     *)
(* found the account, rests on a second factor of that account: a TOTP       *)
(* secret of its own, or a recovery code of its own that this login spent.   *)
SecondFactorShown ==
    [][\A r \in Requests :
         Opens(r) /\ req[r].guarded =>
            \/ \E f \in Factors : req[r].proof = f /\ factor[f].user = req[r].user
            \/ \E c \in Codes : /\ req[r].proof = c
                                /\ code[c].user = req[r].user
                                /\ code[c].state = "spent"
                                /\ granted[c] = 0]_open

(* verifyAuthenticationResponse: an answer that has signed somebody in does  *)
(* not sign in a request that begins later.                                  *)
LateReplayRefused ==
    [][\A r \in Requests :
         Opens(r) /\ req[r].challenge # None => req[r].prior = 0]_open

(* loginWithGoogle: the account a Google sign-in goes on with is the one its *)
(* subject is linked to, though other logins and links raced it to the       *)
(* INSERT, unless the link was taken away since.                             *)
GoogleStaysLinked ==
    \A r \in Requests :
        req[r].subject # None /\ req[r].at \in {"googleUser", "mfa", "enforce",
                                                "markUsed", "session"} =>
            \/ identity[req[r].subject] = req[r].user
            \/ <<req[r].subject, req[r].user>> \in severed
=============================================================================
