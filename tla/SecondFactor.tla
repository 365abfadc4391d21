---------------------------- MODULE SecondFactor ----------------------------
(***************************************************************************)
(* Second factors: TOTP secrets, recovery codes and passkeys, and what a   *)
(* login makes of them.  PostgreSQL runs at READ COMMITTED: an UPDATE      *)
(* works on the rows it saw when it began and looks at each again before   *)
(* it changes it.  Challenges are Redis keys, one per user and purpose.    *)
(***************************************************************************)
EXTENDS Accounts

CONSTANTS
    Passkeys,       \* credentials on authenticators
    CountingKeys,   \* those whose authenticator counts; others always send 0
    CodeCount       \* MFA_RECOVERY_CODE_COUNT

ASSUME SecondFactorAssumption ==
    /\ CountingKeys \subseteq Passkeys
    /\ None \notin Passkeys
    /\ CodeCount \in Nat \ {0}

VARIABLES
    factor,         \* rows of mfa_factors; all are enabled
    code,           \* rows of mfa_recovery_codes
    challenge,      \* Redis: the challenge of a user for each purpose
    answer,         \* what an authenticator has signed for a challenge
    counter,        \* signature counters of the authenticators
    signIns         \* history: sign-ins with the answer to a challenge

factorVars == <<factor, code, challenge, answer, counter, signIns>>

-----------------------------------------------------------------------------
(* State. *)

Factor == [user : Users \union {None}, type : {"none", "totp", "webauthn"},
           key : Passkeys \union {None}, counter : Nat]

NoFactor == [user |-> None, type |-> "none", key |-> None, counter |-> 0]

Totp(u) == [NoFactor EXCEPT !.user = u, !.type = "totp"]

Passkey(u, k, n) == [user |-> u, type |-> "webauthn", key |-> k, counter |-> n]

RecoveryCode == [state : {"unissued", "live", "spent", "dead"},
                 user : Users \union {None}, past : SUBSET Codes]

Purposes == {"registration", "authentication"}

Unasked == [user |-> None, key |-> None, counter |-> 0]

Answer == [user : Users \union {None}, key : Passkeys \union {None}, counter : Nat]

(* a registered account starts without a factor, with a TOTP secret or with *)
(* a passkey, and has spent the recovery codes it may have had              *)
FirstFactors ==
    {NoFactor} \union {Totp(u) : u \in Registered}
       \union {Passkey(u, k, 0) : u \in Registered, k \in Passkeys}

SecondFactorInit ==
    /\ \E f \in Factors, row \in FirstFactors :
          factor = [g \in Factors |-> IF g = f THEN row ELSE NoFactor]
    /\ code = [c \in Codes |-> [state |-> "unissued", user |-> None, past |-> {}]]
    /\ challenge = [u \in Users |-> [p \in Purposes |-> None]]
    /\ answer = [x \in Challenges |-> Unasked]
    /\ counter = [k \in Passkeys |-> 0]
    /\ signIns = [x \in Challenges |-> 0]

-----------------------------------------------------------------------------
(* Queries. *)

(* hasEnabledMfa *)
HasEnabledMfa(u) == \E f \in Factors : factor[f].user = u

LiveCodes(u) == {c \in Codes : code[c].user = u /\ code[c].state = "live"}

(* mutant of IsTotpOf: whose factor it is does not matter *)
IsTotpOfAnyone(f, u) == f # None /\ factor[f].type = "totp"

(* the checks of verifyMfa, given a right code *)
IsTotpOf(f, u) ==
    /\ f # None
    /\ factor[f].user = u
    /\ factor[f].type = "totp"

(* the library's check of the signature counter *)
CounterAdvances(stored, n) == n > stored \/ (n = 0 /\ stored = 0)

-----------------------------------------------------------------------------
(* TOTP and recovery codes. *)

(* enrollMfa: the factor is enabled at once *)
EnrollMfa(u, f) ==
    /\ Active(u)
    /\ factor[f] = NoFactor
    /\ Serve
    /\ factor' = [factor EXCEPT ![f] = Totp(u)]
    /\ UNCHANGED <<users, token, identity, open, req, granted, severed,
                   code, challenge, answer, counter, signIns>>

(* POST /v1/mfa/verify *)
VerifyMfa(r, u, f) ==
    /\ Active(u)
    /\ IsTotpOf(f, u)
    /\ Begin(r, [Idle EXCEPT !.at = "count", !.user = u])
    /\ UNCHANGED <<users, token, identity, open, granted, severed, factorVars>>

(* POST /v1/mfa/recovery-codes/regenerate: the password or a TOTP code *)
RegenerateCodes(r, u) ==
    /\ Active(u)
    /\ HasPassword(u) \/ \E f \in Factors : IsTotpOf(f, u)
    /\ Begin(r, [Idle EXCEPT !.at = "revoke", !.user = u, !.regenerate = TRUE])
    /\ UNCHANGED <<users, token, identity, open, granted, severed, factorVars>>

(* generateCodesIfMissing *)
CountActive(r) ==
    /\ req[r].at = "count"
    /\ Proceed(r, LiveCodes(req[r].user) = {}, "revoke")
    /\ UNCHANGED <<users, token, identity, open, granted, severed, factorVars>>

(* mutant of RevokeActive: nothing is selected for revocation *)
RevokeNothing(r) ==
    /\ req[r].at = "revoke"
    /\ req' = [req EXCEPT ![r].at = "store",
                          ![r].past = {c \in Codes : code[c].user = req[r].user}]
    /\ UNCHANGED <<users, token, identity, open, begun, granted, severed, factorVars>>

(* createBatch: the UPDATE of revokeActiveByUserId has found its rows *)
RevokeActive(r) ==
    /\ req[r].at = "revoke"
    /\ req' = [req EXCEPT ![r].at = "store",
                          ![r].seen = LiveCodes(req[r].user),
                          ![r].past = {c \in Codes : code[c].user = req[r].user}]
    /\ UNCHANGED <<users, token, identity, open, begun, granted, severed, factorVars>>

(* createBatch commits: what it saw and is still live is revoked, and the   *)
(* new codes C are there                                                    *)
StoreBatch(r, C) ==
    /\ req[r].at = "store"
    /\ Cardinality(C) = CodeCount
    /\ \A c \in C : code[c].state = "unissued"
    /\ code' = [c \in Codes |->
                  IF c \in C
                  THEN [state |-> "live", user |-> req[r].user, past |-> req[r].past]
                  ELSE IF c \in req[r].seen /\ code[c].state = "live"
                  THEN [code[c] EXCEPT !.state = "dead"]
                  ELSE code[c]]
    /\ Proceed(r, req[r].regenerate, "endSessions")
    /\ UNCHANGED <<users, token, identity, open, granted, severed,
                   factor, challenge, answer, counter, signIns>>

(* regenerate ends with revokeAllSessions *)
EndSessions(r) ==
    /\ req[r].at = "endSessions"
    /\ open' = [open EXCEPT ![req[r].user] = 0]
    /\ Done(r)
    /\ UNCHANGED <<users, token, identity, granted, severed, factorVars>>

-----------------------------------------------------------------------------
(* Login. *)

(* login: the password is right and the account active.  The request may    *)
(* carry a recovery code or name a factor                                   *)
Login(r, u, c, f) ==
    /\ Active(u) /\ HasPassword(u)
    /\ c = None \/ f = None
    /\ Begin(r, [Idle EXCEPT !.at = "mfa", !.user = u, !.secret = c, !.factor = f,
                             !.guarded = HasEnabledMfa(u)])
    /\ UNCHANGED <<users, token, identity, open, granted, severed, factorVars>>

(* mutant of GoogleUser: an account with a password skips the second factor *)
GoogleUserTrusted(r) ==
    /\ req[r].at = "googleUser"
    /\ req' = [req EXCEPT ![r] =
                 [@ EXCEPT !.at = "session",
                           !.guarded = HasPassword(req[r].user)
                                          /\ HasEnabledMfa(req[r].user)]]
    /\ UNCHANGED <<users, token, identity, open, begun, granted, severed, factorVars>>

(* loginWithGoogle, findById and findWithPasswordById: only an account with *)
(* a password is asked for a second factor                                  *)
GoogleUser(r) ==
    /\ req[r].at = "googleUser"
    /\ LET u == req[r].user
       IN  IF Active(u)
           THEN /\ req' = [req EXCEPT
                             ![r].at = IF HasPassword(u) THEN "mfa" ELSE "session",
                             ![r].guarded = HasPassword(u) /\ HasEnabledMfa(u)]
                /\ UNCHANGED begun
           ELSE Done(r)
    /\ UNCHANGED <<users, token, identity, open, granted, severed, factorVars>>

(* assessAdaptiveRisk: the risk is high, or medium without a factor *)
RiskRefuses(r) ==
    /\ req[r].at \in {"googleUser", "mfa"}
    /\ Done(r)
    /\ UNCHANGED <<users, token, identity, open, granted, severed, factorVars>>

(* hasEnabledMfa: no factor, no question; a factor and no code, mfaRequired *)
CheckMfa(r) ==
    /\ req[r].at = "mfa"
    /\ IF ~HasEnabledMfa(req[r].user) THEN Goto(r, "session")
       ELSE IF req[r].secret = None /\ req[r].factor = None THEN Done(r)
       ELSE Goto(r, "enforce")
    /\ UNCHANGED <<users, token, identity, open, granted, severed, factorVars>>

(* enforceMfaForLogin with a TOTP code *)
EnforceTotp(r) ==
    /\ req[r].at = "enforce"
    /\ req[r].secret = None
    /\ IF IsTotpOf(req[r].factor, req[r].user)
       THEN /\ req' = [req EXCEPT ![r].at = "session", ![r].proof = req[r].factor]
            /\ UNCHANGED begun
       ELSE Done(r)
    /\ UNCHANGED <<users, token, identity, open, granted, severed, factorVars>>

(* consumeCode: findActiveByLookupHash, the owner, and the hash *)
FindCode(r) ==
    /\ req[r].at = "enforce"
    /\ req[r].secret # None
    /\ Proceed(r, req[r].secret \in LiveCodes(req[r].user), "markUsed")
    /\ UNCHANGED <<users, token, identity, open, granted, severed, factorVars>>

(* mutant of CanMarkUsed: the UPDATE goes by id *)
CanMarkUsedById(c) == code[c].user # None

(* the WHERE clause of markUsed *)
CanMarkUsed(c) == code[c].state = "live"

MarkUsed(r) ==
    /\ req[r].at = "markUsed"
    /\ LET c == req[r].secret
       IN  IF CanMarkUsed(c)
           THEN /\ code' = [code EXCEPT ![c].state = "spent"]
                /\ req' = [req EXCEPT ![r].at = "session", ![r].proof = c]
                /\ UNCHANGED begun
           ELSE Done(r) /\ UNCHANGED code
    /\ UNCHANGED <<users, token, identity, open, granted, severed,
                   factor, challenge, answer, counter, signIns>>

(* createSession: the status of the account is not looked at again *)
CreateSession(r) ==
    /\ req[r].at = "session"
    /\ LET p == req[r].proof
       IN  /\ open' = [open EXCEPT ![req[r].user] = @ + 1]
           /\ granted' = [x \in Secrets |-> granted[x] + IF x = p THEN 1 ELSE 0]
           /\ signIns' = [x \in Challenges |-> signIns[x] + IF x = p THEN 1 ELSE 0]
    /\ Done(r)
    /\ UNCHANGED <<users, token, identity, severed,
                   factor, code, challenge, answer, counter>>

-----------------------------------------------------------------------------
(* Passkeys. *)

(* generateRegistrationOptions, generateAuthenticationOptions: SET *)
GenerateOptions(u, purpose, x) ==
    /\ Active(u)
    /\ answer[x] = Unasked
    /\ Serve
    /\ challenge' = [challenge EXCEPT ![u][purpose] = x]
    /\ answer' = [answer EXCEPT ![x].user = u]
    /\ UNCHANGED <<users, token, identity, open, req, granted, severed,
                   factor, code, counter, signIns>>

(* the key's 300 seconds are over *)
ExpireChallenge(u, purpose) ==
    /\ challenge[u][purpose] # None
    /\ challenge' = [challenge EXCEPT ![u][purpose] = None]
    /\ UNCHANGED <<accountVars, factor, code, answer, counter, signIns>>

(* external: an authenticator signs a challenge *)
Sign(x, k) ==
    /\ answer[x].user # None
    /\ answer[x].key = None
    /\ LET n == IF k \in CountingKeys THEN counter[k] + 1 ELSE 0
       IN  /\ counter' = [counter EXCEPT ![k] = n]
           /\ answer' = [answer EXCEPT ![x].key = k, ![x].counter = n]
    /\ UNCHANGED <<accountVars, factor, code, challenge, signIns>>

(* verifyRegistrationResponse: GET, and the answer is to that challenge *)
VerifyRegistration(r, u, x) ==
    /\ Active(u)
    /\ challenge[u]["registration"] = x
    /\ answer[x].key # None
    /\ Begin(r, [Idle EXCEPT !.at = "insertKey", !.user = u, !.challenge = x])
    /\ UNCHANGED <<users, token, identity, open, granted, severed, factorVars>>

(* the INSERT: nothing makes a credential unique *)
InsertKey(r, f) ==
    /\ req[r].at = "insertKey"
    /\ factor[f] = NoFactor
    /\ LET a == answer[req[r].challenge]
       IN  factor' = [factor EXCEPT ![f] = Passkey(req[r].user, a.key, a.counter)]
    /\ Goto(r, "dropRegistration")
    /\ UNCHANGED <<users, token, identity, open, granted, severed,
                   code, challenge, answer, counter, signIns>>

(* DEL, then generateCodesIfMissing *)
DropRegistration(r) ==
    /\ req[r].at = "dropRegistration"
    /\ challenge' = [challenge EXCEPT ![req[r].user]["registration"] = None]
    /\ Goto(r, "count")
    /\ UNCHANGED <<users, token, identity, open, granted, severed,
                   factor, code, answer, counter, signIns>>

(* verifyAuthenticationResponse: GET *)
VerifyAuthentication(r, u, x) ==
    /\ Active(u)
    /\ challenge[u]["authentication"] = x
    /\ answer[x].key # None
    /\ Begin(r, [Idle EXCEPT !.at = "findKey", !.user = u, !.challenge = x,
                             !.prior = signIns[x]])
    /\ UNCHANGED <<users, token, identity, open, granted, severed, factorVars>>

(* a row with the credential, and the library accepts the answer; without   *)
(* one the handler throws, which is an Abort                                *)
FindKey(r, f) ==
    /\ req[r].at = "findKey"
    /\ LET a == answer[req[r].challenge]
       IN  /\ factor[f].user = req[r].user
           /\ factor[f].key = a.key
           /\ CounterAdvances(factor[f].counter, a.counter)
    /\ req' = [req EXCEPT ![r].at = "updateCounter", ![r].factor = f]
    /\ UNCHANGED <<users, token, identity, open, begun, granted, severed, factorVars>>

(* the UPDATE goes by id and does not look at the counter again *)
UpdateCounter(r) ==
    /\ req[r].at = "updateCounter"
    /\ factor' = [factor EXCEPT ![req[r].factor].counter =
                     answer[req[r].challenge].counter]
    /\ Goto(r, "dropChallenge")
    /\ UNCHANGED <<users, token, identity, open, granted, severed,
                   code, challenge, answer, counter, signIns>>

(* mutant of DropChallenge: the challenge is left to its time limit *)
KeepChallenge(r) ==
    /\ req[r].at = "dropChallenge"
    /\ Goto(r, "passkeyUser")
    /\ UNCHANGED <<users, token, identity, open, granted, severed, factorVars>>

(* DEL goes by user: it takes whatever challenge is there now *)
DropChallenge(r) ==
    /\ req[r].at = "dropChallenge"
    /\ challenge' = [challenge EXCEPT ![req[r].user]["authentication"] = None]
    /\ Goto(r, "passkeyUser")
    /\ UNCHANGED <<users, token, identity, open, granted, severed,
                   factor, code, answer, counter, signIns>>

(* createSessionForUser: findById *)
PasskeyUser(r) ==
    /\ req[r].at = "passkeyUser"
    /\ IF Active(req[r].user)
       THEN /\ req' = [req EXCEPT ![r].at = "session", ![r].proof = req[r].challenge]
            /\ UNCHANGED begun
       ELSE Done(r)
    /\ UNCHANGED <<users, token, identity, open, granted, severed, factorVars>>
=============================================================================
