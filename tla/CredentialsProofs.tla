------------------------- MODULE CredentialsProofs -------------------------
(***************************************************************************)
(* Proofs about module Credentials, for any accounts, secrets, factors,    *)
(* passkeys and number of handlers in flight: one-time secrets work once,  *)
(* old recovery codes die, a guarded login shows a second factor, a        *)
(* passkey's answer that has signed in is refused later, and a Google      *)
(* sign-in goes on with the account its subject is linked to.              *)
(***************************************************************************)
EXTENDS Credentials, TLAPS

-----------------------------------------------------------------------------
(* The inductive invariant. *)

TokenSteps == {"tokenUser", "tokenApply"}

GoogleSteps == {"googleUser", "mfa", "enforce", "markUsed", "session"}

LoginSteps == {"googleEmail", "googleCreate", "googleLink", "googleUser", "mfa", "enforce",
               "markUsed"}

KeySteps == {"insertKey", "dropRegistration", "findKey", "updateCounter", "dropChallenge",
             "passkeyUser"}

(* What a handler carries at each of its steps. *)
RequestOK(q) ==
    /\ q.at # "idle" => q.user \in Users
    /\ q.at \in TokenSteps => q.secret \in Tokens
    /\ q.at \in LoginSteps => q.secret \in Codes \union {None} /\ q.challenge = None
    /\ q.at = "markUsed" => q.secret \in Codes
    /\ q.at \in KeySteps => q.challenge \in Challenges
    /\ q.at # "session" => q.proof = None
    /\ q.challenge # None => q.subject = None /\ q.guarded = FALSE /\ q.prior = 0

(* Its subject is linked to its account, or was until the link was taken away. *)
GoogleOK(q) ==
    (q.subject # None /\ q.at \in GoogleSteps) =>
        identity[q.subject] = q.user \/ <<q.subject, q.user>> \in severed

(* It has spent x and has not yet got what x stands for. *)
Holds(q, x) ==
    \/ q.at \in TokenSteps /\ q.secret = x
    \/ q.at = "session" /\ q.proof = x

(* A batch that has revoked knows every live code of those it found. *)
StoreOK(q) ==
    q.at = "store" =>
        \A d \in q.past : /\ code[d].state # "unissued"
                          /\ code[d].state = "live" => d \in q.seen

(* A guarded login meets a factor, and then shows one, or a code. *)
FactorOK(q) ==
    /\ (q.at \in {"mfa", "enforce", "markUsed"} /\ q.guarded = TRUE) => HasEnabledMfa(q.user)
    /\ q.at = "markUsed" => code[q.secret].user = q.user
    /\ (q.at = "session" /\ q.guarded = TRUE) =>
          \/ q.proof \in Factors /\ factor[q.proof].user = q.user
          \/ q.proof \in Codes /\ code[q.proof].user = q.user

(* A challenge that was asked and that Redis no longer has. *)
Gone(x) == answer[x].user # None /\ \A u \in Users : challenge[u]["authentication"] # x

(* Its challenge was put to its account, and is gone before it signs in. *)
PasskeyOK(q) ==
    /\ q.at \in {"findKey", "updateCounter", "dropChallenge", "passkeyUser"} =>
          answer[q.challenge].user = q.user
    /\ q.at = "passkeyUser" => Gone(q.challenge)
    /\ (q.at = "session" /\ q.proof \in Challenges) => Gone(q.proof)

RequestsInv == \A r \in Requests : RequestOK(req[r])

(* A token that was issued belongs to an account. *)
TokensInv == \A t \in Tokens : token[t].state # "unissued" => token[t].user \in Users

GoogleInv == \A r \in Requests : GoogleOK(req[r])

(* A secret stands for one grant, and one handler can claim it. *)
SecretsInv ==
    /\ \A x \in Secrets : granted[x] \in {0, 1} /\ (granted[x] = 1 => secretState[x] = "spent")
    /\ \A r \in Requests, x \in Secrets :
          Holds(req[r], x) => secretState[x] = "spent" /\ granted[x] = 0
    /\ \A r, s \in Requests, x \in Secrets :
          (Holds(req[r], x) /\ Holds(req[s], x)) => r = s

BatchInv ==
    /\ \A c \in Codes :
          /\ code[c].state = "unissued" => code[c].user = None
          /\ \A d \in code[c].past :
                /\ code[d].state # "unissued"
                /\ code[c].state = "live" => code[d].state # "live"
    /\ \A r \in Requests : StoreOK(req[r])

FactorInv == \A r \in Requests : FactorOK(req[r])

PasskeyInv ==
    /\ \A u \in Users, p \in Purposes :
          challenge[u][p] # None => answer[challenge[u][p]].user = u
    /\ \A x \in Challenges : signIns[x] # 0 => Gone(x)
    /\ \A r \in Requests : PasskeyOK(req[r])

IInv ==
    /\ TypeOK /\ RequestsInv /\ TokensInv /\ GoogleInv /\ SecretsInv
    /\ BatchInv /\ FactorInv /\ PasskeyInv

-----------------------------------------------------------------------------
(* Secrets and requests. *)

(* Names of different kinds differ. *)
LEMMA Kinds ==
  /\ \A t \in Tokens : t \in Secrets /\ t \notin Codes /\ t # None
  /\ \A c \in Codes : c \in Secrets /\ c \notin Tokens /\ c \notin Factors
                        /\ c \notin Challenges /\ c # None
  /\ \A x \in Secrets : (x \in Codes \/ x \in Tokens) /\ x \notin Factors
                        /\ x \notin Challenges /\ x # None
  /\ \A x \in Challenges : x \notin Factors /\ x \notin Codes /\ x # None
  /\ \A f \in Factors : f # None
  /\ None \notin Users /\ None \notin Subjects /\ None \notin Passkeys
  BY AccountsAssumption, SecondFactorAssumption DEF Secrets, Tokens

(* The state of a secret is that of its row. *)
LEMMA SecretRows ==
  /\ \A c \in Codes : secretState[c] = code[c].state
  /\ \A t \in Tokens : secretState[t] = token[t].state
  /\ DOMAIN secretState = Secrets
  BY Kinds DEF secretState

(* A free slot. *)
LEMMA IdleOK ==
  /\ Idle \in Request
  /\ Idle.at = "idle" /\ Idle.user = None /\ Idle.subject = None /\ Idle.secret = None
  /\ Idle.factor = None /\ Idle.challenge = None /\ Idle.proof = None
  /\ Idle.regenerate = FALSE /\ Idle.guarded = FALSE /\ Idle.prior = 0
  BY DEF Idle, Request, Steps

(* It satisfies every part of the invariant and claims nothing. *)
LEMMA IdleKeeps ==
  /\ RequestOK(Idle) /\ GoogleOK(Idle) /\ StoreOK(Idle) /\ FactorOK(Idle) /\ PasskeyOK(Idle)
  /\ \A x : ~Holds(Idle, x)
  BY IdleOK DEF RequestOK, GoogleOK, StoreOK, FactorOK, PasskeyOK, Holds,
                TokenSteps, GoogleSteps, LoginSteps, KeySteps

(* A handler that goes on changes its step only. *)
LEMMA GotoFields ==
  ASSUME NEW p \in Request, NEW step \in Steps
  PROVE  /\ [p EXCEPT !.at = step] \in Request
         /\ [p EXCEPT !.at = step].at = step
         /\ [p EXCEPT !.at = step].user = p.user
         /\ [p EXCEPT !.at = step].subject = p.subject
         /\ [p EXCEPT !.at = step].secret = p.secret
         /\ [p EXCEPT !.at = step].factor = p.factor
         /\ [p EXCEPT !.at = step].challenge = p.challenge
         /\ [p EXCEPT !.at = step].proof = p.proof
         /\ [p EXCEPT !.at = step].regenerate = p.regenerate
         /\ [p EXCEPT !.at = step].seen = p.seen
         /\ [p EXCEPT !.at = step].past = p.past
         /\ [p EXCEPT !.at = step].guarded = p.guarded
         /\ [p EXCEPT !.at = step].prior = p.prior
  BY DEF Request

-----------------------------------------------------------------------------
(* Frames: a part of the invariant survives a step that leaves its tables    *)
(* alone, when every handler that moved satisfies it.                        *)

(* identity and severed *)
LEMMA GoogleFrame ==
  ASSUME GoogleInv, UNCHANGED <<identity, severed>>,
         \A s \in Requests : req'[s] = req[s] \/ GoogleOK(req'[s])
  PROVE  GoogleInv'
  BY DEF GoogleInv, GoogleOK

(* token, code and granted: what is not spent may change, and claims may end *)
LEMMA SecretsFrame ==
  ASSUME SecretsInv, UNCHANGED granted,
         \A x \in Secrets : secretState[x] = "spent" => secretState'[x] = "spent",
         \A s \in Requests, x \in Secrets : Holds(req'[s], x) => Holds(req[s], x)
  PROVE  SecretsInv'
  <1> DEFINE H(s, x) == Holds(req[s], x)
             N(s, x) == Holds(req'[s], x)
  <1>1. \A s \in Requests, x \in Secrets : N(s, x) => H(s, x)
    OBVIOUS
  <1>2. /\ \A x \in Secrets : granted[x] \in {0, 1} /\ (granted[x] = 1 => secretState[x] = "spent")
        /\ \A r \in Requests, x \in Secrets :
              H(r, x) => secretState[x] = "spent" /\ granted[x] = 0
        /\ \A r, s \in Requests, x \in Secrets : (H(r, x) /\ H(s, x)) => r = s
    BY DEF SecretsInv
  <1>3. \A s, x : Holds(req[s], x)' = N(s, x)
    BY DEF Holds
  <1> HIDE DEF H, N
  <1>4. QED
    BY <1>1, <1>2, <1>3 DEF SecretsInv

(* code *)
LEMMA BatchFrame ==
  ASSUME BatchInv, UNCHANGED code,
         \A s \in Requests : req'[s] = req[s] \/ StoreOK(req'[s])
  PROVE  BatchInv'
  BY DEF BatchInv, StoreOK

(* factor and code *)
LEMMA FactorFrame ==
  ASSUME FactorInv, UNCHANGED <<factor, code>>,
         \A s \in Requests : req'[s] = req[s] \/ FactorOK(req'[s])
  PROVE  FactorInv'
  <1>1. \A u : HasEnabledMfa(u)' = HasEnabledMfa(u)
    BY DEF HasEnabledMfa
  <1>2. ASSUME NEW s \in Requests PROVE FactorOK(req[s])'
    <2>1. FactorOK(req'[s])
      BY DEF FactorInv
    <2>2. QED
      BY <1>1, <2>1 DEF FactorOK
  <1>3. QED
    BY <1>2 DEF FactorInv

(* challenge, answer and signIns *)
LEMMA PasskeyFrame ==
  ASSUME PasskeyInv, UNCHANGED <<challenge, answer, signIns>>,
         \A s \in Requests : req'[s] = req[s] \/ PasskeyOK(req'[s])
  PROVE  PasskeyInv'
  <1>1. \A x : Gone(x)' = Gone(x)
    BY DEF Gone
  <1>2. ASSUME NEW s \in Requests PROVE PasskeyOK(req[s])'
    <2>1. PasskeyOK(req'[s])
      BY DEF PasskeyInv
    <2>2. QED
      BY <1>1, <2>1 DEF PasskeyOK
  <1>3. QED
    BY <1>1, <1>2 DEF PasskeyInv

(* The state of secrets is that of their rows. *)
LEMMA StateFrame ==
  ASSUME UNCHANGED <<code, token>>
  PROVE  UNCHANGED secretState
  BY DEF secretState

(* What one handler that moves does to the others. *)
LEMMA OneMoves ==
  ASSUME IInv, NEW r \in Requests, NEW q \in Request, req' = [req EXCEPT ![r] = q], RequestOK(q)
  PROVE  /\ req' \in [Requests -> Request]
         /\ \A s \in Requests : req'[s] = IF s = r THEN q ELSE req[s]
         /\ RequestsInv'
  <1>1. /\ req' \in [Requests -> Request]
        /\ \A s \in Requests : req'[s] = IF s = r THEN q ELSE req[s]
    BY DEF IInv, TypeOK
  <1>2. ASSUME NEW s \in Requests PROVE RequestOK(req'[s])
    BY <1>1 DEF IInv, RequestsInv
  <1>3. \A s : RequestOK(req[s])' = RequestOK(req'[s])
    BY DEF RequestOK
  <1>4. QED
    BY <1>1, <1>2, <1>3 DEF RequestsInv

(* A step of one handler that leaves the tables of the invariant alone. *)
LEMMA QuietMove ==
  ASSUME IInv, NEW r \in Requests, NEW q \in Request, req' = [req EXCEPT ![r] = q],
         RequestOK(q), GoogleOK(q), StoreOK(q), FactorOK(q), PasskeyOK(q),
         \A x \in Secrets : Holds(q, x) => Holds(req[r], x),
         users' \in [Users -> Account], open' \in [Users -> Nat], begun' \in 0..MaxRequests,
         UNCHANGED <<token, identity, granted, severed>>, UNCHANGED factorVars
  PROVE  IInv'
  <1>1. /\ req' \in [Requests -> Request]
        /\ \A s \in Requests : req'[s] = IF s = r THEN q ELSE req[s]
        /\ RequestsInv'
    BY OneMoves
  <1>2. UNCHANGED <<factor, code, challenge, answer, counter, signIns>>
    BY DEF factorVars
  <1>3. TypeOK'
    BY <1>1, <1>2 DEF IInv, TypeOK
  <1>4. TokensInv'
    BY DEF IInv, TokensInv
  <1>5. GoogleInv'
    BY <1>1, GoogleFrame DEF IInv
  <1>6. SecretsInv'
    <2>1. UNCHANGED secretState
      BY <1>2, StateFrame
    <2>2. \A s \in Requests, x \in Secrets : Holds(req'[s], x) => Holds(req[s], x)
      BY <1>1
    <2>3. QED
      BY <2>1, <2>2, SecretsFrame DEF IInv
  <1>7. BatchInv'
    BY <1>1, <1>2, BatchFrame DEF IInv
  <1>8. FactorInv'
    BY <1>1, <1>2, FactorFrame DEF IInv
  <1>9. PasskeyInv'
    BY <1>1, <1>2, PasskeyFrame DEF IInv
  <1>10. QED
    BY <1>1, <1>3, <1>4, <1>5, <1>6, <1>7, <1>8, <1>9 DEF IInv

-----------------------------------------------------------------------------
(* Steps that touch no table of the invariant. *)

(* A handler ends. *)
LEMMA DoneMove ==
  ASSUME IInv, NEW r \in Requests, Done(r),
         users' \in [Users -> Account], open' \in [Users -> Nat],
         UNCHANGED <<token, identity, granted, severed>>, UNCHANGED factorVars
  PROVE  IInv'
  <1>1. req' = [req EXCEPT ![r] = Idle] /\ begun' \in 0..MaxRequests
    BY DEF Done, IInv, TypeOK
  <1>2. QED
    BY <1>1, IdleOK, IdleKeeps, QuietMove

(* What Goto makes of a handler. *)
LEMMA GotoMove ==
  ASSUME IInv, NEW r \in Requests, NEW step \in Steps, Goto(r, step)
  PROVE  \E q \in Request :
            /\ req' = [req EXCEPT ![r] = q] /\ begun' \in 0..MaxRequests
            /\ q.at = step /\ q.user = req[r].user /\ q.subject = req[r].subject
            /\ q.secret = req[r].secret /\ q.factor = req[r].factor
            /\ q.challenge = req[r].challenge /\ q.proof = req[r].proof
            /\ q.guarded = req[r].guarded /\ q.prior = req[r].prior
  <1>1. PICK p \in Request : p = req[r]
    BY DEF IInv, TypeOK
  <1>2. PICK q \in Request :
            /\ q = [p EXCEPT !.at = step]
            /\ q.at = step /\ q.user = p.user /\ q.subject = p.subject
            /\ q.secret = p.secret /\ q.factor = p.factor
            /\ q.challenge = p.challenge /\ q.proof = p.proof
            /\ q.guarded = p.guarded /\ q.prior = p.prior
    BY GotoFields
  <1>3. req' = [req EXCEPT ![r] = q] /\ begun' \in 0..MaxRequests
    BY <1>1, <1>2 DEF Goto, IInv, TypeOK
  <1>4. QED
    BY <1>1, <1>2, <1>3

(* A handler goes on, with what it has found. *)
LEMMA GotoQuiet ==
  ASSUME IInv, NEW r \in Requests, NEW step \in Steps, Goto(r, step),
         users' \in [Users -> Account], open' \in [Users -> Nat],
         UNCHANGED <<token, identity, granted, severed>>, UNCHANGED factorVars,
         \/ req[r].at = "tokenUser" /\ step = "tokenApply"
         \/ req[r].at = "signup" /\ step = "emailToken"
         \/ req[r].at = "googleEmail" /\ step \in {"googleCreate", "googleLink"}
         \/ req[r].at = "googleCreate" /\ step = "googleLink"
         \/ req[r].at = "count" /\ step = "revoke"
         \/ req[r].at = "mfa" /\ step = "session" /\ ~HasEnabledMfa(req[r].user)
         \/ req[r].at = "mfa" /\ step = "enforce"
         \/ req[r].at = "enforce" /\ step = "markUsed"
              /\ req[r].secret \in LiveCodes(req[r].user)
  PROVE  IInv'
  <1>1. PICK p \in Request :
          /\ p = req[r]
          /\ RequestOK(p) /\ GoogleOK(p) /\ FactorOK(p)
    BY DEF IInv, TypeOK, RequestsInv, GoogleInv, FactorInv
  <1>2. PICK q \in Request :
            /\ req' = [req EXCEPT ![r] = q] /\ begun' \in 0..MaxRequests
            /\ q.at = step /\ q.user = p.user /\ q.subject = p.subject
            /\ q.secret = p.secret /\ q.factor = p.factor
            /\ q.challenge = p.challenge /\ q.proof = p.proof
            /\ q.guarded = p.guarded /\ q.prior = p.prior
    BY <1>1, GotoMove
  <1>3. RequestOK(q)
    BY <1>1, <1>2 DEF RequestOK, TokenSteps, LoginSteps, KeySteps, LiveCodes
  <1>4. GoogleOK(q)
    BY <1>1, <1>2 DEF GoogleOK, GoogleSteps
  <1>5. StoreOK(q)
    BY <1>2 DEF StoreOK
  <1>6. p.proof = None
    BY <1>1 DEF RequestOK
  <1>7. FactorOK(q)
    BY <1>1, <1>2 DEF FactorOK, LiveCodes
  <1>8. PasskeyOK(q)
    BY <1>2, <1>6, Kinds DEF PasskeyOK
  <1>9. \A x \in Secrets : Holds(q, x) => Holds(req[r], x)
    BY <1>1, <1>2, <1>6, Kinds DEF Holds, TokenSteps
  <1>10. QED
    BY <1>2, <1>3, <1>4, <1>5, <1>7, <1>8, <1>9, QuietMove

(* Answers of handlers that change accounts or nothing. *)
LEMMA QuietSteps ==
  ASSUME IInv, NEW r \in Requests,
         \/ CreateUser(r) /\ UNCHANGED factorVars
         \/ ConfirmUser(r) /\ UNCHANGED factorVars
         \/ GoogleByEmail(r) /\ UNCHANGED factorVars
         \/ GoogleCreate(r) /\ UNCHANGED factorVars
         \/ Abort(r) /\ UNCHANGED factorVars
         \/ RiskRefuses(r) \/ CheckMfa(r) \/ FindCode(r) \/ CountActive(r) \/ EndSessions(r)
  PROVE  IInv'
  <1>1. UNCHANGED <<token, identity, granted, severed>> /\ UNCHANGED factorVars
    BY DEF CreateUser, ConfirmUser, GoogleByEmail, GoogleCreate, Abort, RiskRefuses, CheckMfa,
           FindCode, CountActive, EndSessions
  <1>2. open' \in [Users -> Nat]
    <2>1. open \in [Users -> Nat]
      BY DEF IInv, TypeOK
    <2>2. CASE open' = open
      BY <2>1, <2>2
    <2>3. CASE EndSessions(r)
      BY <2>1, <2>3 DEF EndSessions
    <2>4. QED
      BY <2>2, <2>3 DEF CreateUser, ConfirmUser, GoogleByEmail, GoogleCreate, Abort, RiskRefuses,
                        CheckMfa, FindCode, CountActive
  <1>3. users' \in [Users -> Account]
    <2>1. users \in [Users -> Account]
      BY DEF IInv, TypeOK
    <2>2. NewAccount \in Account /\ GoogleAccount \in Account
      BY DEF NewAccount, GoogleAccount, Account
    <2>3. CASE users' = users
      BY <2>1, <2>3
    <2>4. CASE CreateUser(r) \/ GoogleCreate(r)
      BY <2>1, <2>2, <2>4 DEF CreateUser, GoogleCreate
    <2>5. QED
      BY <2>3, <2>4 DEF ConfirmUser, GoogleByEmail, Abort, RiskRefuses, CheckMfa,
                        FindCode, CountActive, EndSessions
  <1>4. CASE Done(r)
    BY <1>1, <1>2, <1>3, <1>4, DoneMove
  <1>5. CASE \E step \in Steps :
           /\ Goto(r, step)
           /\ \/ req[r].at = "tokenUser" /\ step = "tokenApply"
              \/ req[r].at = "signup" /\ step = "emailToken"
              \/ req[r].at = "googleEmail" /\ step \in {"googleCreate", "googleLink"}
              \/ req[r].at = "googleCreate" /\ step = "googleLink"
              \/ req[r].at = "count" /\ step = "revoke"
              \/ req[r].at = "mfa" /\ step = "session" /\ ~HasEnabledMfa(req[r].user)
              \/ req[r].at = "mfa" /\ step = "enforce"
              \/ req[r].at = "enforce" /\ step = "markUsed"
                   /\ req[r].secret \in LiveCodes(req[r].user)
    BY <1>1, <1>2, <1>3, <1>5, GotoQuiet
  <1>6. QED
    <2>1. {"tokenApply", "emailToken", "googleCreate", "googleLink", "revoke", "session",
           "enforce", "markUsed"} \subseteq Steps
      BY DEF Steps
    <2>2. CASE CreateUser(r) \/ ConfirmUser(r) \/ GoogleCreate(r) \/ CountActive(r) \/ FindCode(r)
      BY <1>4, <1>5, <2>1, <2>2
      DEF CreateUser, ConfirmUser, GoogleCreate, CountActive, FindCode, Proceed
    <2>3. CASE GoogleByEmail(r)
      BY <1>4, <1>5, <2>1, <2>3 DEF GoogleByEmail
    <2>4. CASE CheckMfa(r)
      BY <1>4, <1>5, <2>1, <2>4 DEF CheckMfa
    <2>5. CASE Abort(r) \/ RiskRefuses(r) \/ EndSessions(r)
      BY <1>4, <2>5 DEF Abort, RiskRefuses, EndSessions
    <2>6. QED
      BY <2>2, <2>3, <2>4, <2>5

(* A request is received: it is about an account, claims nothing yet and has *)
(* been promised nothing.                                                    *)
LEMMA BeginMove ==
  ASSUME IInv, NEW r \in Requests, NEW q \in Request, Begin(r, q),
         RequestOK(q), GoogleOK(q), FactorOK(q), PasskeyOK(q),
         q.at \notin {"tokenUser", "tokenApply", "session", "store"},
         UNCHANGED <<users, open, token, identity, granted, severed>>, UNCHANGED factorVars
  PROVE  IInv'
  <1>1. req' = [req EXCEPT ![r] = q]
    BY DEF Begin
  <1>2. begun' \in 0..MaxRequests
    BY AccountsAssumption DEF Begin, Serve, IInv, TypeOK
  <1>3. StoreOK(q) /\ \A x \in Secrets : Holds(q, x) => Holds(req[r], x)
    BY DEF StoreOK, Holds, TokenSteps
  <1>4. users' \in [Users -> Account] /\ open' \in [Users -> Nat]
    BY DEF IInv, TypeOK
  <1>5. QED
    BY <1>1, <1>2, <1>3, <1>4, QuietMove

(* A token or a batch of codes is asked for, or an account is to be made or  *)
(* linked.                                                                   *)
LEMMA PlainRequests ==
  ASSUME IInv, NEW r \in Requests, NEW u \in Users, UNCHANGED factorVars,
         \/ Signup(r, u) \/ RequestEmailVerification(r, u) \/ RequestPasswordReset(r, u)
         \/ \E s \in Subjects : LinkGoogle(r, u, s)
         \/ \E f \in Factors : VerifyMfa(r, u, f)
         \/ RegenerateCodes(r, u)
  PROVE  IInv'
  <1>1. PICK n \in Request :
          /\ n = Idle /\ n.subject = None /\ n.secret = None /\ n.challenge = None
          /\ n.proof = None /\ n.regenerate = FALSE
    BY IdleOK
  <1>2. \E s \in Subjects \union {None}, step \in {"signup", "emailToken", "resetToken", "link",
                                                   "count", "revoke"}, b \in BOOLEAN :
          Begin(r, [n EXCEPT !.at = step, !.user = u, !.subject = s, !.regenerate = b])
    <2>1. CASE Signup(r, u)
      <3>1. [n EXCEPT !.at = "signup", !.user = u]
              = [n EXCEPT !.at = "signup", !.user = u, !.subject = None, !.regenerate = FALSE]
        BY <1>1 DEF Request
      <3>2. Begin(r, [n EXCEPT !.at = "signup", !.user = u])
        BY <1>1, <2>1 DEF Signup
      <3>3. QED
        BY <3>1, <3>2
    <2>2. CASE RequestEmailVerification(r, u) \/ RequestPasswordReset(r, u)
      <3>1. PICK step \in {"emailToken", "resetToken"} : RequestToken(r, u, step)
        BY <2>2 DEF RequestEmailVerification, RequestPasswordReset
      <3>2. [n EXCEPT !.at = step, !.user = u]
              = [n EXCEPT !.at = step, !.user = u, !.subject = None, !.regenerate = FALSE]
        BY <1>1 DEF Request
      <3>3. Begin(r, [n EXCEPT !.at = step, !.user = u])
        BY <1>1, <3>1 DEF RequestToken
      <3>4. QED
        BY <3>2, <3>3
    <2>3. CASE \E s \in Subjects : LinkGoogle(r, u, s)
      <3>1. PICK s \in Subjects : LinkGoogle(r, u, s)
        BY <2>3
      <3>2. [n EXCEPT !.at = "link", !.user = u, !.subject = s]
              = [n EXCEPT !.at = "link", !.user = u, !.subject = s, !.regenerate = FALSE]
        BY <1>1 DEF Request
      <3>3. Begin(r, [n EXCEPT !.at = "link", !.user = u, !.subject = s])
        BY <1>1, <3>1 DEF LinkGoogle
      <3>4. QED
        BY <3>2, <3>3
    <2>4. CASE \E f \in Factors : VerifyMfa(r, u, f)
      <3>1. [n EXCEPT !.at = "count", !.user = u]
              = [n EXCEPT !.at = "count", !.user = u, !.subject = None, !.regenerate = FALSE]
        BY <1>1 DEF Request
      <3>2. Begin(r, [n EXCEPT !.at = "count", !.user = u])
        BY <1>1, <2>4 DEF VerifyMfa
      <3>3. QED
        BY <3>1, <3>2
    <2>5. CASE RegenerateCodes(r, u)
      <3>1. [n EXCEPT !.at = "revoke", !.user = u, !.regenerate = TRUE]
              = [n EXCEPT !.at = "revoke", !.user = u, !.subject = None, !.regenerate = TRUE]
        BY <1>1 DEF Request
      <3>2. Begin(r, [n EXCEPT !.at = "revoke", !.user = u, !.regenerate = TRUE])
        BY <1>1, <2>5 DEF RegenerateCodes
      <3>3. QED
        BY <3>1, <3>2
    <2>6. QED
      BY <2>1, <2>2, <2>3, <2>4, <2>5
  <1>3. PICK s \in Subjects \union {None}, step \in {"signup", "emailToken", "resetToken", "link",
                                                     "count", "revoke"}, b \in BOOLEAN :
          Begin(r, [n EXCEPT !.at = step, !.user = u, !.subject = s, !.regenerate = b])
    BY <1>2
  <1> DEFINE q == [n EXCEPT !.at = step, !.user = u, !.subject = s, !.regenerate = b]
  <1>4. /\ q \in Request /\ q.at = step /\ q.user = u /\ q.secret = n.secret
        /\ q.challenge = n.challenge /\ q.proof = n.proof
    <2>1. step \in Steps
      BY DEF Steps
    <2>2. QED
      BY <2>1 DEF Request
  <1>5. Begin(r, q)
    BY <1>3
  <1> HIDE DEF q
  <1>6. RequestOK(q) /\ GoogleOK(q) /\ FactorOK(q) /\ PasskeyOK(q)
    BY <1>1, <1>4 DEF RequestOK, GoogleOK, FactorOK, PasskeyOK, TokenSteps, GoogleSteps,
                      LoginSteps, KeySteps
  <1>7. UNCHANGED <<users, open, token, identity, granted, severed>>
    BY DEF Signup, RequestEmailVerification, RequestPasswordReset, RequestToken, LinkGoogle,
           VerifyMfa, RegenerateCodes
  <1>8. QED
    BY <1>4, <1>5, <1>6, <1>7, BeginMove

(* A login, with Google or with a password. *)
LEMMA LoginRequests ==
  ASSUME IInv, NEW r \in Requests, NEW u \in Users, NEW c \in Named, NEW f \in NamedFactors,
         UNCHANGED factorVars,
         (\E s \in Subjects : GoogleLogin(r, s, u, c, f)) \/ Login(r, u, c, f)
  PROVE  IInv'
  <1>1. PICK n \in Request : /\ n = Idle /\ n.subject = None /\ n.challenge = None
                             /\ n.proof = None /\ n.guarded = FALSE
    BY IdleOK
  <1>2. c \in Codes \union {None} /\ f \in Factors \union {None}
    BY DEF Named, NamedFactors
  <1>3. c \in Secrets \union {None}
    BY <1>2 DEF Secrets
  <1>4. UNCHANGED <<users, open, token, identity, granted, severed>>
    BY DEF GoogleLogin, Login
  <1>5. CASE \E s \in Subjects : GoogleLogin(r, s, u, c, f)
    <2>1. PICK s \in Subjects : GoogleLogin(r, s, u, c, f)
      BY <1>5
    <2>2. identity[s] \in Users \union {None}
      BY DEF IInv, TypeOK
    <2>3. PICK step \in {"googleUser", "googleEmail"} :
            step = IF identity[s] # None THEN "googleUser" ELSE "googleEmail"
      OBVIOUS
    <2>4. PICK v \in Users : v = IF identity[s] # None THEN identity[s] ELSE u
      BY <2>2
    <2> DEFINE q == [n EXCEPT !.at = step, !.user = v, !.subject = s, !.secret = c, !.factor = f]
    <2>5. /\ q \in Request /\ q.at = step /\ q.user = v /\ q.subject = s /\ q.secret = c
          /\ q.challenge = n.challenge /\ q.proof = n.proof
      <3>1. step \in Steps
        BY DEF Steps
      <3>2. QED
        BY <1>2, <1>3, <3>1 DEF Request
    <2>6. Begin(r, q)
      BY <1>1, <2>1, <2>3, <2>4 DEF GoogleLogin
    <2> HIDE DEF q
    <2>7. RequestOK(q) /\ FactorOK(q) /\ PasskeyOK(q)
      BY <1>1, <1>2, <2>5 DEF RequestOK, FactorOK, PasskeyOK, TokenSteps, LoginSteps, KeySteps
    <2>8. GoogleOK(q)
      BY <2>3, <2>4, <2>5 DEF GoogleOK, GoogleSteps
    <2>9. QED
      BY <1>4, <2>5, <2>6, <2>7, <2>8, BeginMove
  <1>6. CASE Login(r, u, c, f)
    <2>1. PICK g \in BOOLEAN : g = HasEnabledMfa(u)
      BY DEF HasEnabledMfa
    <2> DEFINE q == [n EXCEPT !.at = "mfa", !.user = u, !.secret = c, !.factor = f, !.guarded = g]
    <2>2. /\ q \in Request /\ q.at = "mfa" /\ q.user = u /\ q.subject = n.subject /\ q.secret = c
          /\ q.challenge = n.challenge /\ q.proof = n.proof /\ q.guarded = g
      <3>1. "mfa" \in Steps
        BY DEF Steps
      <3>2. QED
        BY <1>2, <1>3, <3>1, ZenonT(60) DEF Request
    <2>3. Begin(r, q)
      BY <1>1, <1>6, <2>1 DEF Login
    <2> HIDE DEF q
    <2>4. RequestOK(q) /\ GoogleOK(q) /\ PasskeyOK(q)
      BY <1>1, <1>2, <2>2 DEF RequestOK, GoogleOK, PasskeyOK, TokenSteps, LoginSteps, KeySteps
    <2>5. FactorOK(q)
      BY <2>1, <2>2 DEF FactorOK
    <2>6. QED
      BY <1>4, <2>2, <2>3, <2>4, <2>5, BeginMove
  <1>7. QED
    BY <1>5, <1>6

(* An answer of an authenticator: one to a challenge that is there has not   *)
(* signed anybody in.                                                        *)
LEMMA PasskeyRequests ==
  ASSUME IInv, NEW r \in Requests, NEW u \in Users, NEW x \in Challenges,
         VerifyRegistration(r, u, x) \/ VerifyAuthentication(r, u, x)
  PROVE  IInv'
  <1>1. PICK n \in Request : /\ n = Idle /\ n.subject = None /\ n.guarded = FALSE
                             /\ n.proof = None /\ n.prior = 0
    BY IdleOK
  <1>2. UNCHANGED <<users, open, token, identity, granted, severed>> /\ UNCHANGED factorVars
    BY DEF VerifyRegistration, VerifyAuthentication
  <1>3. CASE VerifyRegistration(r, u, x)
    <2> DEFINE q == [n EXCEPT !.at = "insertKey", !.user = u, !.challenge = x]
    <2>1. /\ q \in Request /\ q.at = "insertKey" /\ q.user = u /\ q.subject = n.subject
          /\ q.challenge = x /\ q.proof = n.proof /\ q.guarded = n.guarded /\ q.prior = n.prior
      BY ZenonT(60) DEF Request, Steps
    <2>2. Begin(r, q)
      BY <1>1, <1>3 DEF VerifyRegistration
    <2> HIDE DEF q
    <2>3. RequestOK(q) /\ GoogleOK(q) /\ FactorOK(q) /\ PasskeyOK(q)
      BY <1>1, <2>1 DEF RequestOK, GoogleOK, FactorOK, PasskeyOK, TokenSteps, LoginSteps, KeySteps
    <2>4. QED
      BY <1>2, <2>1, <2>2, <2>3, BeginMove
  <1>4. CASE VerifyAuthentication(r, u, x)
    <2>1. challenge[u]["authentication"] = x /\ x # None
      BY <1>4, Kinds DEF VerifyAuthentication
    <2>2. answer[x].user = u
      BY <2>1 DEF IInv, PasskeyInv, Purposes
    <2>3. signIns[x] = 0
      BY <2>1 DEF IInv, PasskeyInv, Gone
    <2> DEFINE q == [n EXCEPT !.at = "findKey", !.user = u, !.challenge = x, !.prior = 0]
    <2>4. /\ q \in Request /\ q.at = "findKey" /\ q.user = u /\ q.subject = n.subject
          /\ q.challenge = x /\ q.proof = n.proof /\ q.guarded = n.guarded /\ q.prior = 0
      BY ZenonT(60) DEF Request, Steps
    <2>5. Begin(r, q)
      BY <1>1, <1>4, <2>3 DEF VerifyAuthentication
    <2> HIDE DEF q
    <2>6. RequestOK(q) /\ GoogleOK(q) /\ FactorOK(q) /\ PasskeyOK(q)
      BY <1>1, <2>2, <2>4 DEF RequestOK, GoogleOK, FactorOK, PasskeyOK, TokenSteps, LoginSteps,
                              KeySteps
    <2>7. QED
      BY <1>2, <2>4, <2>5, <2>6, BeginMove
  <1>5. QED
    BY <1>3, <1>4

(* The rows to revoke are found. *)
LEMMA RevokeStep ==
  ASSUME IInv, NEW r \in Requests, RevokeActive(r)
  PROVE  IInv'
  <1>1. PICK p \in Request : p = req[r] /\ RequestOK(p) /\ p.at = "revoke"
    BY DEF IInv, TypeOK, RequestsInv, RevokeActive
  <1>2. PICK A \in SUBSET Codes : A = LiveCodes(p.user)
    BY DEF LiveCodes
  <1>3. PICK B \in SUBSET Codes : B = {c \in Codes : code[c].user = p.user}
    OBVIOUS
  <1> DEFINE q == [p EXCEPT !.at = "store", !.seen = A, !.past = B]
  <1>4. /\ q \in Request /\ q.at = "store" /\ q.seen = A /\ q.past = B /\ q.user = p.user
        /\ q.subject = p.subject /\ q.challenge = p.challenge /\ q.proof = p.proof
        /\ q.guarded = p.guarded /\ q.prior = p.prior
    <2>1. "store" \in Steps
      BY DEF Steps
    <2>2. q \in Request
      BY <2>1 DEF Request
    <2>3. QED
      BY <2>2 DEF Request
  <1>5. req' = [req EXCEPT ![r] = q]
    BY <1>1, <1>2, <1>3 DEF RevokeActive, IInv, TypeOK
  <1>6. /\ UNCHANGED <<token, identity, granted, severed>> /\ UNCHANGED factorVars
        /\ users' \in [Users -> Account] /\ open' \in [Users -> Nat] /\ begun' \in 0..MaxRequests
    BY DEF RevokeActive, IInv, TypeOK
  <1> HIDE DEF q
  <1>7. RequestOK(q) /\ GoogleOK(q) /\ FactorOK(q) /\ PasskeyOK(q)
    BY <1>1, <1>4 DEF RequestOK, GoogleOK, FactorOK, PasskeyOK, TokenSteps, GoogleSteps,
                      LoginSteps, KeySteps
  <1>8. StoreOK(q)
    <2>1. p.user # None
      BY <1>1, Kinds DEF RequestOK
    <2>2. ASSUME NEW d \in B
          PROVE  code[d].state # "unissued" /\ (code[d].state = "live" => d \in A)
      BY <1>2, <1>3, <2>1 DEF IInv, BatchInv, LiveCodes
    <2>3. QED
      BY <1>4, <2>2 DEF StoreOK
  <1>9. \A x \in Secrets : Holds(q, x) => Holds(req[r], x)
    BY <1>4 DEF Holds, TokenSteps
  <1>10. QED
    BY <1>4, <1>5, <1>6, <1>7, <1>8, <1>9, QuietMove

(* The account of a Google sign-in, a TOTP code, a passkey's row and its     *)
(* account are looked at.                                                    *)
LEMMA CheckSteps ==
  ASSUME IInv, NEW r \in Requests,
         \/ GoogleUser(r) \/ EnforceTotp(r) \/ PasskeyUser(r)
         \/ \E f \in Factors : FindKey(r, f)
  PROVE  IInv'
  <1>1. PICK p \in Request : /\ p = req[r] /\ RequestOK(p) /\ GoogleOK(p) /\ FactorOK(p)
                             /\ PasskeyOK(p)
                             /\ p.at \in {"googleUser", "enforce", "passkeyUser", "findKey"}
    <2>1. req[r].at \in {"googleUser", "enforce", "passkeyUser", "findKey"}
      BY DEF GoogleUser, EnforceTotp, PasskeyUser, FindKey
    <2>2. QED
      BY <2>1 DEF IInv, TypeOK, RequestsInv, GoogleInv, FactorInv, PasskeyInv
  <1>2. /\ UNCHANGED <<token, identity, granted, severed>> /\ UNCHANGED factorVars
        /\ users' \in [Users -> Account] /\ open' \in [Users -> Nat]
    BY DEF GoogleUser, EnforceTotp, PasskeyUser, FindKey, IInv, TypeOK
  <1>3. CASE Done(r)
    BY <1>2, <1>3, DoneMove
  <1>4. p.proof = None /\ p.user \in Users
    BY <1>1 DEF RequestOK
  <1>5. SUFFICES ASSUME NEW q \in Request, req' = [req EXCEPT ![r] = q], begun' = begun,
                        RequestOK(q), GoogleOK(q), FactorOK(q), PasskeyOK(q),
                        q.at \notin {"tokenUser", "tokenApply", "store"},
                        q.at = "session" => q.proof \notin Secrets
                 PROVE  IInv'
    <2>1. CASE GoogleUser(r) /\ ~Done(r)
      <3>1. PICK step \in {"mfa", "session"} : step = IF HasPassword(p.user) THEN "mfa" ELSE "session"
        OBVIOUS
      <3>2. PICK g \in BOOLEAN : g = (HasPassword(p.user) /\ HasEnabledMfa(p.user))
        OBVIOUS
      <3> DEFINE q == [p EXCEPT !.at = step, !.guarded = g]
      <3>3. /\ q \in Request /\ q.at = step /\ q.guarded = g /\ q.user = p.user
            /\ q.subject = p.subject /\ q.secret = p.secret /\ q.challenge = p.challenge
            /\ q.proof = p.proof /\ q.prior = p.prior
        <4>1. step \in Steps
          BY DEF Steps
        <4>2. QED
          BY <4>1 DEF Request
      <3>4. req' = [req EXCEPT ![r] = q] /\ begun' = begun /\ p.at = "googleUser"
        BY <1>1, <2>1, <3>1, <3>2 DEF GoogleUser, IInv, TypeOK
      <3> HIDE DEF q
      <3>5. RequestOK(q) /\ GoogleOK(q)
        BY <1>1, <3>3, <3>4 DEF RequestOK, GoogleOK, TokenSteps, GoogleSteps, LoginSteps, KeySteps
      <3>6. FactorOK(q)
        BY <3>1, <3>2, <3>3 DEF FactorOK
      <3>7. PasskeyOK(q) /\ q.proof \notin Secrets
        BY <1>4, <3>3, Kinds DEF PasskeyOK
      <3>8. QED
        BY <1>5, <3>3, <3>4, <3>5, <3>6, <3>7
    <2>2. CASE EnforceTotp(r) /\ ~Done(r)
      <3>1. PICK f \in Factors : f = p.factor /\ factor[f].user = p.user
        BY <1>1, <2>2 DEF EnforceTotp, IsTotpOf, Request
      <3> DEFINE q == [p EXCEPT !.at = "session", !.proof = f]
      <3>2. /\ q \in Request /\ q.at = "session" /\ q.guarded = p.guarded /\ q.user = p.user
            /\ q.subject = p.subject /\ q.secret = p.secret /\ q.challenge = p.challenge
            /\ q.proof = f /\ q.prior = p.prior
        BY ZenonT(60) DEF Request, Steps
      <3>3. req' = [req EXCEPT ![r] = q] /\ begun' = begun /\ p.at = "enforce"
        BY <1>1, <2>2, <3>1 DEF EnforceTotp, IInv, TypeOK
      <3> HIDE DEF q
      <3>4. RequestOK(q) /\ GoogleOK(q)
        BY <1>1, <3>2, <3>3 DEF RequestOK, GoogleOK, TokenSteps, GoogleSteps, LoginSteps, KeySteps
      <3>5. FactorOK(q)
        BY <3>1, <3>2 DEF FactorOK
      <3>6. PasskeyOK(q) /\ q.proof \notin Secrets
        BY <3>2, Kinds DEF PasskeyOK
      <3>7. QED
        BY <1>5, <3>2, <3>3, <3>4, <3>5, <3>6
    <2>3. CASE PasskeyUser(r) /\ ~Done(r)
      <3>1. p.at = "passkeyUser"
        BY <1>1, <2>3 DEF PasskeyUser
      <3>2. PICK x \in Challenges : x = p.challenge /\ Gone(x)
        BY <1>1, <3>1 DEF RequestOK, PasskeyOK, KeySteps
      <3> DEFINE q == [p EXCEPT !.at = "session", !.proof = x]
      <3>3. /\ q \in Request /\ q.at = "session" /\ q.guarded = p.guarded /\ q.user = p.user
            /\ q.subject = p.subject /\ q.secret = p.secret /\ q.challenge = p.challenge
            /\ q.proof = x /\ q.prior = p.prior
        BY ZenonT(60) DEF Request, Steps
      <3>4. req' = [req EXCEPT ![r] = q] /\ begun' = begun
        BY <1>1, <2>3, <3>2 DEF PasskeyUser, IInv, TypeOK
      <3> HIDE DEF q
      <3>5. p.subject = None /\ p.guarded = FALSE /\ p.prior = 0
        BY <1>1, <3>2, Kinds DEF RequestOK
      <3>6. RequestOK(q) /\ GoogleOK(q)
        BY <1>4, <3>3, <3>5 DEF RequestOK, GoogleOK, TokenSteps, GoogleSteps, LoginSteps, KeySteps
      <3>7. FactorOK(q)
        BY <3>3, <3>5 DEF FactorOK
      <3>8. PasskeyOK(q) /\ q.proof \notin Secrets
        BY <3>2, <3>3, Kinds DEF PasskeyOK
      <3>9. QED
        BY <1>5, <3>3, <3>4, <3>6, <3>7, <3>8
    <2>4. CASE \E f \in Factors : FindKey(r, f)
      <3>1. PICK f \in Factors : FindKey(r, f)
        BY <2>4
      <3> DEFINE q == [p EXCEPT !.at = "updateCounter", !.factor = f]
      <3>2. /\ q \in Request /\ q.at = "updateCounter" /\ q.guarded = p.guarded /\ q.user = p.user
            /\ q.subject = p.subject /\ q.secret = p.secret /\ q.challenge = p.challenge
            /\ q.proof = p.proof /\ q.prior = p.prior
        BY ZenonT(60) DEF Request, Steps
      <3>3. req' = [req EXCEPT ![r] = q] /\ begun' = begun /\ p.at = "findKey"
        BY <1>1, <3>1 DEF FindKey, IInv, TypeOK
      <3> HIDE DEF q
      <3>4. RequestOK(q) /\ GoogleOK(q)
        BY <1>1, <3>2, <3>3 DEF RequestOK, GoogleOK, TokenSteps, GoogleSteps, LoginSteps, KeySteps
      <3>5. FactorOK(q) /\ PasskeyOK(q)
        BY <1>1, <3>2, <3>3 DEF FactorOK, PasskeyOK
      <3>6. QED
        BY <1>5, <3>2, <3>3, <3>4, <3>5
    <2>5. QED
      BY <1>3, <2>1, <2>2, <2>3, <2>4
  <1>6. StoreOK(q) /\ \A x \in Secrets : Holds(q, x) => Holds(req[r], x)
    BY <1>5 DEF StoreOK, Holds, TokenSteps
  <1>7. begun' \in 0..MaxRequests
    BY <1>5 DEF IInv, TypeOK
  <1>8. QED
    BY <1>2, <1>5, <1>6, <1>7, QuietMove

-----------------------------------------------------------------------------
(* Steps on accounts, tokens and identities. *)

(* They leave what module SecondFactor keeps. *)
LEMMA FactorPartsKept ==
  ASSUME IInv, UNCHANGED factorVars,
         \A s \in Requests : \/ req'[s] = req[s]
                             \/ StoreOK(req'[s]) /\ FactorOK(req'[s]) /\ PasskeyOK(req'[s])
  PROVE  BatchInv' /\ FactorInv' /\ PasskeyInv'
  <1>1. UNCHANGED <<factor, code, challenge, answer, counter, signIns>>
    BY DEF factorVars
  <1>2. BatchInv /\ FactorInv /\ PasskeyInv
    BY DEF IInv
  <1>3. BatchInv'
    BY <1>1, <1>2, BatchFrame
  <1>4. FactorInv'
    BY <1>1, <1>2, FactorFrame
  <1>5. PasskeyInv'
    BY <1>1, <1>2, PasskeyFrame
  <1>6. QED
    BY <1>3, <1>4, <1>5

(* Handlers that do not move stay well formed. *)
LEMMA NoneMoves ==
  ASSUME IInv, req' = req
  PROVE  RequestsInv'
  BY DEF IInv, RequestsInv, RequestOK

(* One row of a token changes. *)
LEMMA TokenRow ==
  ASSUME NEW t \in Tokens, NEW row \in Token, token \in [Tokens -> Token],
         token' = [token EXCEPT ![t] = row], UNCHANGED code
  PROVE  /\ token' \in [Tokens -> Token]
         /\ token'[t] = row /\ \A v \in Tokens \ {t} : token'[v] = token[v]
         /\ secretState'[t] = row.state /\ secretState[t] = token[t].state
         /\ \A x \in Secrets \ {t} : secretState'[x] = secretState[x]
  <1>1. /\ token' \in [Tokens -> Token]
        /\ token'[t] = row /\ \A v \in Tokens \ {t} : token'[v] = token[v]
    OBVIOUS
  <1>2. secretState' = [x \in Secrets |-> IF x \in Codes THEN code[x].state ELSE token'[x].state]
    BY DEF secretState
  <1>3. QED
    BY <1>1, <1>2, Kinds DEF secretState

(* A token is issued or runs out. *)
LEMMA TokenSteps1 ==
  ASSUME IInv, NEW t \in Tokens, UNCHANGED factorVars,
         ExpireToken(t) \/ \E r \in Requests : InsertToken(r, t)
  PROVE  IInv'
  <1>1. UNCHANGED <<users, identity, open, granted, severed>> /\ begun' = begun
    BY DEF ExpireToken, InsertToken, Done
  <1>2. token \in [Tokens -> Token] /\ token[t] \in Token
    BY DEF IInv, TypeOK
  <1>3. PICK row \in Token : /\ token' = [token EXCEPT ![t] = row]
                             /\ token[t].state # "spent" /\ row.user \in Users
    <2>1. CASE ExpireToken(t)
      <3>1. PICK k \in Token : k = token[t] /\ k.state = "live"
        BY <1>2, <2>1 DEF ExpireToken
      <3>2. k.user \in Users
        BY <3>1 DEF IInv, TokensInv
      <3> DEFINE row == [k EXCEPT !.state = "dead"]
      <3>3. row \in Token /\ row.user = k.user
        BY DEF Token
      <3>4. token' = [token EXCEPT ![t] = row]
        BY <1>2, <2>1, <3>1 DEF ExpireToken
      <3> HIDE DEF row
      <3>5. QED
        BY <3>1, <3>2, <3>3, <3>4
    <2>2. CASE \E r \in Requests : InsertToken(r, t)
      <3>1. PICK r \in Requests : InsertToken(r, t)
        BY <2>2
      <3>2. req[r].user \in Users
        BY <3>1 DEF InsertToken, IInv, RequestsInv, RequestOK
      <3> DEFINE row == [state |-> "live", user |-> req[r].user]
      <3>3. row \in Token /\ row.user = req[r].user
        BY <3>2 DEF Token
      <3>4. token' = [token EXCEPT ![t] = row] /\ token[t].state # "spent"
        BY <3>1 DEF InsertToken
      <3> HIDE DEF row
      <3>5. QED
        BY <3>2, <3>3, <3>4
    <2>3. QED
      BY <2>1, <2>2
  <1>4. UNCHANGED <<factor, code, challenge, answer, counter, signIns>>
    BY DEF factorVars
  <1>5. /\ token' \in [Tokens -> Token]
        /\ token'[t] = row /\ \A v \in Tokens \ {t} : token'[v] = token[v]
        /\ secretState[t] = token[t].state
        /\ \A x \in Secrets \ {t} : secretState'[x] = secretState[x]
    BY <1>2, <1>3, <1>4, TokenRow
  <1>6. /\ req' \in [Requests -> Request] /\ RequestsInv'
        /\ \A s \in Requests : req'[s] = req[s] \/ req'[s] = Idle
    <2>1. CASE ExpireToken(t)
      <3>1. req' = req
        BY <2>1 DEF ExpireToken
      <3>2. QED
        BY <3>1, NoneMoves DEF IInv, TypeOK
    <2>2. CASE \E r \in Requests : InsertToken(r, t)
      <3>1. PICK r \in Requests : req' = [req EXCEPT ![r] = Idle]
        BY <2>2 DEF InsertToken, Done
      <3>2. QED
        BY <3>1, IdleOK, IdleKeeps, OneMoves
    <2>3. QED
      BY <2>1, <2>2
  <1>7. TypeOK'
    BY <1>1, <1>4, <1>5, <1>6 DEF IInv, TypeOK
  <1>8. TokensInv'
    BY <1>3, <1>5 DEF IInv, TokensInv
  <1>9. GoogleInv'
    BY <1>1, <1>6, IdleKeeps, GoogleFrame DEF IInv
  <1>10. SecretsInv'
    <2>1. \A s \in Requests, x \in Secrets : Holds(req'[s], x) => Holds(req[s], x)
      BY <1>6, IdleKeeps
    <2>2. \A x \in Secrets : secretState[x] = "spent" => secretState'[x] = "spent"
      BY <1>3, <1>5
    <2>3. QED
      BY <1>1, <2>1, <2>2, SecretsFrame DEF IInv
  <1>11. BatchInv' /\ FactorInv' /\ PasskeyInv'
    BY <1>6, IdleKeeps, FactorPartsKept
  <1>12. QED
    BY <1>6, <1>7, <1>8, <1>9, <1>10, <1>11 DEF IInv

(* A live secret is spent by one handler. *)
LEMMA SecretSpent ==
  ASSUME SecretsInv, UNCHANGED granted, NEW r \in Requests, NEW y \in Secrets,
         secretState[y] = "live", secretState'[y] = "spent",
         \A x \in Secrets \ {y} : secretState'[x] = secretState[x],
         \A s \in Requests \ {r} : req'[s] = req[s],
         \A x \in Secrets : Holds(req'[r], x) => x = y
  PROVE  SecretsInv'
  <1> DEFINE H(s, x) == Holds(req[s], x)
             N(s, x) == Holds(req'[s], x)
  <1>1. /\ \A s \in Requests \ {r}, x \in Secrets : N(s, x) => H(s, x)
        /\ \A x \in Secrets : N(r, x) => x = y
    OBVIOUS
  <1>2. /\ \A x \in Secrets : granted[x] \in {0, 1} /\ (granted[x] = 1 => secretState[x] = "spent")
        /\ \A s \in Requests, x \in Secrets :
              H(s, x) => secretState[x] = "spent" /\ granted[x] = 0
        /\ \A q, s \in Requests, x \in Secrets : (H(q, x) /\ H(s, x)) => q = s
    BY DEF SecretsInv
  <1>3. \A s, x : Holds(req[s], x)' = N(s, x)
    BY DEF Holds
  <1> HIDE DEF H, N
  <1>4. \A s \in Requests : ~H(s, y)
    BY <1>2
  <1>5. QED
    BY <1>1, <1>2, <1>3, <1>4 DEF SecretsInv

(* What a claimed secret stands for is granted. *)
LEMMA SecretGranted ==
  ASSUME SecretsInv, UNCHANGED secretState, NEW r \in Requests, NEW y \in Secrets,
         Holds(req[r], y),
         \A x \in Secrets : granted'[x] = IF x = y THEN granted[x] + 1 ELSE granted[x],
         \A s \in Requests \ {r} : req'[s] = req[s],
         \A x \in Secrets : ~Holds(req'[r], x)
  PROVE  SecretsInv'
  <1> DEFINE H(s, x) == Holds(req[s], x)
             N(s, x) == Holds(req'[s], x)
  <1>1. /\ \A s \in Requests \ {r}, x \in Secrets : N(s, x) => H(s, x)
        /\ \A x \in Secrets : ~N(r, x)
        /\ H(r, y)
    OBVIOUS
  <1>2. /\ \A x \in Secrets : granted[x] \in {0, 1} /\ (granted[x] = 1 => secretState[x] = "spent")
        /\ \A s \in Requests, x \in Secrets :
              H(s, x) => secretState[x] = "spent" /\ granted[x] = 0
        /\ \A q, s \in Requests, x \in Secrets : (H(q, x) /\ H(s, x)) => q = s
    BY DEF SecretsInv
  <1>3. \A s, x : Holds(req[s], x)' = N(s, x)
    BY DEF Holds
  <1> HIDE DEF H, N
  <1>4. \A s \in Requests : ~N(s, y)
    BY <1>1, <1>2
  <1>5. granted'[y] = 1 /\ secretState[y] = "spent"
    BY <1>1, <1>2
  <1>6. \A x \in Secrets \ {y} : granted'[x] = granted[x]
    OBVIOUS
  <1>7. QED
    BY <1>1, <1>2, <1>3, <1>4, <1>5, <1>6 DEF SecretsInv

(* A token is consumed: the handler that did it has its claim. *)
LEMMA ConsumeStep ==
  ASSUME IInv, NEW r \in Requests, NEW t \in Tokens, ConsumeToken(r, t), UNCHANGED factorVars
  PROVE  IInv'
  <1>1. /\ UNCHANGED <<users, identity, open, granted, severed>>
        /\ UNCHANGED <<factor, code, challenge, answer, counter, signIns>>
    BY DEF ConsumeToken, factorVars
  <1>2. token \in [Tokens -> Token] /\ token[t].state = "live" /\ token[t].user \in Users
    BY DEF ConsumeToken, CanConsume, IInv, TypeOK, TokensInv
  <1>3. PICK k \in Token : k = token[t] /\ k.user \in Users
    BY <1>2
  <1> DEFINE row == [k EXCEPT !.state = "spent"]
  <1>4. row \in Token /\ row.user = k.user /\ row.state = "spent"
    BY DEF Token
  <1>5. token' = [token EXCEPT ![t] = row]
    BY <1>2, <1>3 DEF ConsumeToken
  <1> HIDE DEF row
  <1>6. /\ token' \in [Tokens -> Token]
        /\ token'[t] = row /\ \A v \in Tokens \ {t} : token'[v] = token[v]
        /\ secretState'[t] = "spent" /\ secretState[t] = "live"
        /\ \A x \in Secrets \ {t} : secretState'[x] = secretState[x]
    BY <1>1, <1>2, <1>4, <1>5, TokenRow
  <1>7. PICK n \in Request : /\ n = Idle /\ n.subject = None /\ n.challenge = None
                             /\ n.proof = None /\ n.guarded = FALSE
    BY IdleOK
  <1> DEFINE q == [n EXCEPT !.at = "tokenUser", !.user = k.user, !.secret = t]
  <1>8. /\ q \in Request /\ q.at = "tokenUser" /\ q.user = k.user /\ q.secret = t
        /\ q.subject = n.subject /\ q.challenge = n.challenge /\ q.proof = n.proof
    BY <1>3, ZenonT(60) DEF Request, Steps, Secrets
  <1>9. req' = [req EXCEPT ![r] = q] /\ begun' \in 0..MaxRequests
    BY <1>3, <1>7, AccountsAssumption DEF ConsumeToken, Begin, Serve, IInv, TypeOK
  <1> HIDE DEF q
  <1>10. RequestOK(q) /\ GoogleOK(q) /\ StoreOK(q) /\ FactorOK(q) /\ PasskeyOK(q)
    BY <1>3, <1>7, <1>8 DEF RequestOK, GoogleOK, StoreOK, FactorOK, PasskeyOK, TokenSteps,
                            GoogleSteps, LoginSteps, KeySteps
  <1>11. /\ req' \in [Requests -> Request] /\ RequestsInv'
         /\ \A s \in Requests : req'[s] = IF s = r THEN q ELSE req[s]
    BY <1>8, <1>9, <1>10, OneMoves
  <1>12. TypeOK'
    BY <1>1, <1>6, <1>9, <1>11 DEF IInv, TypeOK
  <1>13. TokensInv'
    BY <1>3, <1>4, <1>6 DEF IInv, TokensInv
  <1>14. GoogleInv'
    BY <1>1, <1>10, <1>11, GoogleFrame DEF IInv
  <1>15. SecretsInv'
    <2>1. \A x \in Secrets : Holds(req'[r], x) => x = t
      BY <1>8, <1>11 DEF Holds, TokenSteps
    <2>2. t \in Secrets
      BY Kinds
    <2>3. \A s \in Requests \ {r} : req'[s] = req[s]
      BY <1>11
    <2>4. SecretsInv
      BY DEF IInv
    <2>5. QED
      BY <1>1, <1>6, <2>1, <2>2, <2>3, <2>4, SecretSpent
  <1>16. BatchInv' /\ FactorInv' /\ PasskeyInv'
    BY <1>10, <1>11, FactorPartsKept
  <1>17. QED
    BY <1>11, <1>12, <1>13, <1>14, <1>15, <1>16 DEF IInv

(* What a token stands for is done. *)
LEMMA ApplyStep ==
  ASSUME IInv, NEW r \in Requests, ApplyToken(r), UNCHANGED factorVars
  PROVE  IInv'
  <1>1. /\ UNCHANGED <<token, identity, open, severed>> /\ begun' = begun
        /\ UNCHANGED <<factor, code, challenge, answer, counter, signIns>>
        /\ req' = [req EXCEPT ![r] = Idle]
    BY DEF ApplyToken, Done, factorVars
  <1>2. PICK p \in Request : p = req[r] /\ p.at = "tokenApply" /\ RequestOK(p)
    BY DEF ApplyToken, IInv, TypeOK, RequestsInv
  <1>3. PICK u \in Users, t \in Tokens : u = p.user /\ t = p.secret
    BY <1>2 DEF RequestOK, TokenSteps
  <1>4. /\ req' \in [Requests -> Request] /\ RequestsInv'
        /\ \A s \in Requests : req'[s] = IF s = r THEN Idle ELSE req[s]
    BY <1>1, IdleOK, IdleKeeps, OneMoves
  <1>5. users' \in [Users -> Account]
    <2>1. users \in [Users -> Account]
      BY DEF IInv, TypeOK
    <2>2. PICK a \in Account : a = users[u]
      BY <2>1
    <2>3. CASE t \in EmailTokens
      <3>1. [a EXCEPT !.verified = TRUE] \in Account
        BY DEF Account
      <3>2. users' = [users EXCEPT ![u] = [a EXCEPT !.verified = TRUE]]
        BY <1>2, <1>3, <2>1, <2>2, <2>3 DEF ApplyToken
      <3>3. QED
        BY <2>1, <3>1, <3>2
    <2>4. CASE t \notin EmailTokens
      <3>1. t \in ResetTokens
        BY <2>4 DEF Tokens
      <3>2. [a EXCEPT !.password = t] \in Account
        BY <3>1 DEF Account
      <3>3. users' = [users EXCEPT ![u] = [a EXCEPT !.password = t]] \/ users' = users
        BY <1>2, <1>3, <2>1, <2>2, <2>4 DEF ApplyToken
      <3>4. QED
        BY <2>1, <3>2, <3>3
    <2>5. QED
      BY <2>3, <2>4
  <1>6. /\ granted' \in [Secrets -> Nat]
        /\ \A x \in Secrets : granted'[x] = IF x = t THEN granted[x] + 1 ELSE granted[x]
    <2>1. granted \in [Secrets -> Nat] /\ t \in Secrets
      BY Kinds DEF IInv, TypeOK
    <2>2. granted' = [granted EXCEPT ![t] = @ + 1]
      BY <1>2, <1>3 DEF ApplyToken
    <2>3. QED
      BY <2>1, <2>2
  <1>7. TypeOK'
    BY <1>1, <1>4, <1>5, <1>6 DEF IInv, TypeOK
  <1>8. TokensInv'
    BY <1>1 DEF IInv, TokensInv
  <1>9. GoogleInv'
    BY <1>1, <1>4, IdleKeeps, GoogleFrame DEF IInv
  <1>10. SecretsInv'
    <2>1. UNCHANGED secretState
      BY <1>1, StateFrame
    <2>2. t \in Secrets /\ Holds(req[r], t)
      BY <1>2, <1>3, Kinds DEF Holds, TokenSteps
    <2>3. SecretsInv
      BY DEF IInv
    <2>4. /\ \A s \in Requests \ {r} : req'[s] = req[s]
          /\ \A x \in Secrets : ~Holds(req'[r], x)
      BY <1>4, IdleKeeps
    <2>5. QED
      BY <1>6, <2>1, <2>2, <2>3, <2>4, SecretGranted
  <1>11. BatchInv' /\ FactorInv' /\ PasskeyInv'
    BY <1>4, IdleKeeps, FactorPartsKept
  <1>12. QED
    BY <1>4, <1>7, <1>8, <1>9, <1>10, <1>11 DEF IInv

(* Links come, and go when they are severed. *)
LEMMA IdentityMove ==
  ASSUME IInv, UNCHANGED factorVars, UNCHANGED <<token, granted>>,
         users' \in [Users -> Account], open' \in [Users -> Nat], begun' \in 0..MaxRequests,
         req' \in [Requests -> Request], RequestsInv',
         identity' \in [Subjects -> Users \union {None}], severed' \subseteq Subjects \X Users,
         severed \subseteq severed',
         \A x \in Subjects : \/ identity'[x] = identity[x] \/ identity[x] = None
                             \/ <<x, identity[x]>> \in severed',
         \A s \in Requests : \/ req'[s] = req[s]
                             \/ /\ StoreOK(req'[s]) /\ FactorOK(req'[s]) /\ PasskeyOK(req'[s])
                                /\ \A x \in Secrets : ~Holds(req'[s], x)
                                /\ (req'[s].subject # None /\ req'[s].at \in GoogleSteps) =>
                                      identity'[req'[s].subject] = req'[s].user
  PROVE  IInv'
  <1>1. UNCHANGED <<factor, code, challenge, answer, counter, signIns>>
    BY DEF factorVars
  <1>2. TypeOK'
    BY <1>1 DEF IInv, TypeOK
  <1>3. TokensInv'
    BY DEF IInv, TokensInv
  <1>4. GoogleInv'
    <2>1. ASSUME NEW s \in Requests PROVE GoogleOK(req[s])'
      <3>1. CASE req'[s] = req[s]
        <4>1. PICK p \in Request : p = req[s] /\ GoogleOK(p) /\ RequestOK(p)
          BY DEF IInv, TypeOK, GoogleInv, RequestsInv
        <4>2. SUFFICES ASSUME p.subject # None, p.at \in GoogleSteps
                       PROVE  identity'[p.subject] = p.user \/ <<p.subject, p.user>> \in severed'
          BY <3>1, <4>1 DEF GoogleOK
        <4>3. p.user \in Users /\ p.subject \in Subjects
          BY <4>1, <4>2 DEF Request, RequestOK, GoogleSteps
        <4>4. identity[p.subject] = p.user \/ <<p.subject, p.user>> \in severed
          BY <4>1, <4>2 DEF GoogleOK
        <4>5. QED
          BY <4>3, <4>4, Kinds
      <3>2. CASE req'[s] # req[s]
        BY <3>2 DEF GoogleOK
      <3>3. QED
        BY <3>1, <3>2
    <2>2. QED
      BY <2>1 DEF GoogleInv
  <1>5. SecretsInv'
    <2>1. UNCHANGED secretState
      BY <1>1, StateFrame
    <2>2. \A s \in Requests, x \in Secrets : Holds(req'[s], x) => Holds(req[s], x)
      OBVIOUS
    <2>3. QED
      BY <2>1, <2>2, SecretsFrame DEF IInv
  <1>6. BatchInv' /\ FactorInv' /\ PasskeyInv'
    BY FactorPartsKept
  <1>7. QED
    BY <1>2, <1>3, <1>4, <1>5, <1>6 DEF IInv

(* A Google sign-in or a user links a subject that has no link. *)
LEMMA LinkSteps ==
  ASSUME IInv, NEW r \in Requests, UNCHANGED factorVars, GoogleLink(r) \/ LinkInsert(r)
  PROVE  IInv'
  <1>1. PICK p \in Request : /\ p = req[r] /\ p.at \in {"googleLink", "link"}
                             /\ RequestOK(p) /\ p.proof = None /\ p.user \in Users
    BY DEF GoogleLink, LinkInsert, IInv, TypeOK, RequestsInv, RequestOK
  <1>2. /\ UNCHANGED <<users, open, token, granted, severed>> /\ begun' = begun
    BY DEF GoogleLink, LinkInsert, Proceed, Goto, Done
  <1>3. identity \in [Subjects -> Users \union {None}]
    BY DEF IInv, TypeOK
  <1>4. /\ identity' \in [Subjects -> Users \union {None}]
        /\ \A x \in Subjects : identity'[x] = identity[x] \/ identity[x] = None
    <2>1. CASE GoogleLink(r)
      BY <1>1, <1>3, <2>1 DEF GoogleLink
    <2>2. CASE LinkInsert(r)
      BY <1>1, <1>3, <2>2 DEF LinkInsert
    <2>3. QED
      BY <2>1, <2>2
  <1>5. /\ users' \in [Users -> Account] /\ open' \in [Users -> Nat]
        /\ begun' \in 0..MaxRequests /\ severed' \subseteq Subjects \X Users
        /\ severed \subseteq severed'
    BY <1>2 DEF IInv, TypeOK
  <1>6. CASE Done(r)
    <2>1. /\ req' \in [Requests -> Request] /\ RequestsInv'
          /\ \A s \in Requests : req'[s] = IF s = r THEN Idle ELSE req[s]
      BY <1>6, IdleOK, IdleKeeps, OneMoves DEF Done
    <2>2. Idle.at \notin GoogleSteps
      BY IdleOK DEF GoogleSteps
    <2>3. QED
      BY <1>2, <1>4, <1>5, <2>1, <2>2, IdleKeeps, IdentityMove
  <1>7. CASE GoogleLink(r) /\ ~Done(r)
    <2>1. Goto(r, "googleUser") /\ identity' = [identity EXCEPT ![p.subject] = p.user]
          /\ p.at = "googleLink"
      BY <1>1, <1>7 DEF GoogleLink, Proceed
    <2>2. "googleUser" \in Steps
      BY DEF Steps
    <2>3. PICK q \in Request :
            /\ req' = [req EXCEPT ![r] = q]
            /\ q.at = "googleUser" /\ q.user = p.user /\ q.subject = p.subject
            /\ q.secret = p.secret /\ q.factor = p.factor
            /\ q.challenge = p.challenge /\ q.proof = p.proof
            /\ q.guarded = p.guarded /\ q.prior = p.prior
      BY <1>1, <2>1, <2>2, GotoMove
    <2>4. RequestOK(q)
      BY <1>1, <2>1, <2>3 DEF RequestOK, TokenSteps, LoginSteps, KeySteps
    <2>5. StoreOK(q) /\ FactorOK(q) /\ PasskeyOK(q) /\ \A x \in Secrets : ~Holds(q, x)
      BY <2>3 DEF StoreOK, FactorOK, PasskeyOK, Holds, TokenSteps
    <2>6. /\ req' \in [Requests -> Request] /\ RequestsInv'
          /\ \A s \in Requests : req'[s] = IF s = r THEN q ELSE req[s]
      BY <2>3, <2>4, OneMoves
    <2>7. q.subject # None => identity'[q.subject] = q.user
      BY <1>3, <2>1, <2>3 DEF Request
    <2>8. QED
      BY <1>2, <1>4, <1>5, <2>5, <2>6, <2>7, IdentityMove
  <1>8. QED
    BY <1>6, <1>7 DEF LinkInsert

(* A link is taken away, or an account is deleted. *)
LEMMA UserEvents ==
  ASSUME IInv, NEW u \in Users, UNCHANGED factorVars,
         DeleteAccount(u) \/ \E x \in Subjects : UnlinkGoogle(u, x)
  PROVE  IInv'
  <1>1. UNCHANGED <<token, granted, req>> /\ begun' \in 0..MaxRequests
    BY AccountsAssumption DEF DeleteAccount, UnlinkGoogle, Serve, IInv, TypeOK
  <1>2. req' \in [Requests -> Request] /\ RequestsInv'
    BY <1>1, NoneMoves DEF IInv, TypeOK
  <1>3. /\ users \in [Users -> Account] /\ open \in [Users -> Nat]
        /\ identity \in [Subjects -> Users \union {None}] /\ severed \subseteq Subjects \X Users
    BY DEF IInv, TypeOK
  <1>4. CASE DeleteAccount(u)
    <2>1. UNCHANGED <<identity, severed>>
      BY <1>4 DEF DeleteAccount
    <2>2. PICK a \in Account : a = users[u]
      BY <1>3
    <2>3. [a EXCEPT !.status = "deleted"] \in Account
      BY DEF Account
    <2>4. users' = [users EXCEPT ![u] = [a EXCEPT !.status = "deleted"]]
      BY <1>3, <1>4, <2>2 DEF DeleteAccount
    <2>5. users' \in [Users -> Account]
      BY <1>3, <2>3, <2>4
    <2>6. open' \in [Users -> Nat]
      BY <1>3, <1>4 DEF DeleteAccount
    <2>7. QED
      BY <1>1, <1>2, <1>3, <2>1, <2>5, <2>6, IdentityMove
  <1>5. CASE \E x \in Subjects : UnlinkGoogle(u, x)
    <2>1. PICK x \in Subjects : UnlinkGoogle(u, x)
      BY <1>5
    <2>2. UNCHANGED <<users, open>> /\ identity[x] = u
          /\ severed' = severed \union {<<x, u>>} /\ identity' = [identity EXCEPT ![x] = None]
      BY <2>1 DEF UnlinkGoogle
    <2>3. severed' \subseteq Subjects \X Users /\ severed \subseteq severed'
      BY <1>3, <2>2
    <2>4. /\ identity' \in [Subjects -> Users \union {None}]
          /\ \A y \in Subjects : identity'[y] = identity[y] \/ <<y, identity[y]>> \in severed'
      BY <1>3, <2>2
    <2>5. QED
      BY <1>1, <1>2, <1>3, <2>2, <2>3, <2>4, IdentityMove
  <1>6. QED
    BY <1>4, <1>5

-----------------------------------------------------------------------------
(* Steps on factors and recovery codes. *)

(* A factor keeps its account, and only free rows are given one. *)
LEMMA FactorMove ==
  ASSUME IInv, factor' \in [Factors -> Factor],
         \A f \in Factors : factor'[f].user = factor[f].user \/ factor[f].user = None,
         UNCHANGED <<users, open, token, identity, granted, severed>>,
         UNCHANGED <<code, challenge, answer, counter, signIns>>, begun' \in 0..MaxRequests,
         req' \in [Requests -> Request], RequestsInv',
         \A s \in Requests : \/ req'[s] = req[s]
                             \/ /\ req'[s].at \notin GoogleSteps \union TokenSteps \union {"store"}
                                /\ PasskeyOK(req'[s])
  PROVE  IInv'
  <1>1. TypeOK'
    BY DEF IInv, TypeOK
  <1>2. TokensInv'
    BY DEF IInv, TokensInv
  <1>3. GoogleInv'
    <2>1. \A s \in Requests : req'[s] = req[s] \/ GoogleOK(req'[s])
      BY DEF GoogleOK
    <2>2. QED
      BY <2>1, GoogleFrame DEF IInv
  <1>4. SecretsInv'
    <2>1. UNCHANGED secretState
      BY StateFrame
    <2>2. \A s \in Requests, x \in Secrets : Holds(req'[s], x) => Holds(req[s], x)
      BY DEF Holds, GoogleSteps
    <2>3. QED
      BY <2>1, <2>2, SecretsFrame DEF IInv
  <1>5. BatchInv'
    <2>1. \A s \in Requests : req'[s] = req[s] \/ StoreOK(req'[s])
      BY DEF StoreOK
    <2>2. QED
      BY <2>1, BatchFrame DEF IInv
  <1>6. FactorInv'
    <2>1. ASSUME NEW v \in Users, HasEnabledMfa(v) PROVE HasEnabledMfa(v)'
      <3>1. PICK f \in Factors : factor[f].user = v
        BY <2>1 DEF HasEnabledMfa
      <3>2. factor'[f].user = v
        BY <3>1, Kinds
      <3>3. QED
        BY <3>2 DEF HasEnabledMfa
    <2>2. ASSUME NEW s \in Requests PROVE FactorOK(req[s])'
      <3>1. CASE req'[s].at \notin GoogleSteps
        BY <3>1 DEF FactorOK, GoogleSteps
      <3>2. CASE req'[s] = req[s] /\ req[s].at \in GoogleSteps
        <4>1. PICK p \in Request : p = req[s] /\ FactorOK(p) /\ RequestOK(p)
          BY DEF IInv, TypeOK, FactorInv, RequestsInv
        <4>2. p.user \in Users
          BY <3>2, <4>1 DEF RequestOK, GoogleSteps
        <4>3. \A f \in Factors : factor[f].user = p.user => factor'[f].user = p.user
          BY <4>2, Kinds
        <4>4. QED
          BY <2>1, <3>2, <4>1, <4>2, <4>3 DEF FactorOK
      <3>3. QED
        BY <3>1, <3>2
    <2>3. QED
      BY <2>2 DEF FactorInv
  <1>7. PasskeyInv'
    BY PasskeyFrame DEF IInv
  <1>8. QED
    BY <1>1, <1>2, <1>3, <1>4, <1>5, <1>6, <1>7 DEF IInv

(* A free row. *)
LEMMA NoFactorOK == NoFactor \in Factor /\ NoFactor.user = None
  BY DEF NoFactor, Factor

(* A TOTP secret is stored. *)
LEMMA EnrollStep ==
  ASSUME IInv, NEW u \in Users, NEW f \in Factors, EnrollMfa(u, f)
  PROVE  IInv'
  <1>1. /\ UNCHANGED <<users, open, token, identity, granted, severed, req>>
        /\ UNCHANGED <<code, challenge, answer, counter, signIns>>
        /\ begun' \in 0..MaxRequests /\ factor \in [Factors -> Factor]
    BY AccountsAssumption DEF EnrollMfa, Serve, IInv, TypeOK
  <1>2. PICK n \in Factor : n = NoFactor /\ n.user = None
    BY NoFactorOK
  <1> DEFINE row == [n EXCEPT !.user = u, !.type = "totp"]
  <1>3. row \in Factor
    BY DEF Factor
  <1>4. factor' = [factor EXCEPT ![f] = row] /\ factor[f].user = None
    BY <1>2 DEF EnrollMfa, Totp
  <1> HIDE DEF row
  <1>5. /\ factor' \in [Factors -> Factor]
        /\ \A g \in Factors : factor'[g].user = factor[g].user \/ factor[g].user = None
    BY <1>1, <1>3, <1>4
  <1>6. req' \in [Requests -> Request] /\ RequestsInv'
    BY <1>1, NoneMoves DEF IInv, TypeOK
  <1>7. QED
    BY <1>1, <1>5, <1>6, FactorMove

(* A passkey is stored, or its counter is. *)
LEMMA KeyRowSteps ==
  ASSUME IInv, NEW r \in Requests, UpdateCounter(r) \/ \E f \in Factors : InsertKey(r, f)
  PROVE  IInv'
  <1>1. /\ UNCHANGED <<users, open, token, identity, granted, severed>>
        /\ UNCHANGED <<code, challenge, answer, counter, signIns>>
        /\ factor \in [Factors -> Factor]
    BY DEF UpdateCounter, InsertKey, IInv, TypeOK
  <1>2. PICK p \in Request : /\ p = req[r] /\ p.at \in {"insertKey", "updateCounter"}
                             /\ RequestOK(p) /\ PasskeyOK(p)
    BY DEF UpdateCounter, InsertKey, IInv, TypeOK, RequestsInv, PasskeyInv
  <1>3. p.user \in Users /\ p.challenge \in Challenges
    BY <1>2 DEF RequestOK, KeySteps
  <1>4. PICK a \in Answer : a = answer[p.challenge]
    BY <1>3 DEF IInv, TypeOK
  <1>5. /\ factor' \in [Factors -> Factor]
        /\ \A g \in Factors : factor'[g].user = factor[g].user \/ factor[g].user = None
    <2>1. CASE UpdateCounter(r)
      <3>1. CASE p.factor \in Factors
        <4>1. PICK h \in Factor : h = factor[p.factor]
          BY <1>1, <3>1
        <4> DEFINE row == [h EXCEPT !.counter = a.counter]
        <4>2. row \in Factor /\ row.user = h.user
          BY DEF Factor, Answer
        <4>3. factor' = [factor EXCEPT ![p.factor] = row]
          BY <1>1, <1>2, <1>4, <2>1, <3>1, <4>1 DEF UpdateCounter
        <4> HIDE DEF row
        <4>4. QED
          BY <1>1, <3>1, <4>1, <4>2, <4>3
      <3>2. CASE p.factor \notin Factors
        <4>1. factor' = factor
          BY <1>1, <1>2, <2>1, <3>2 DEF UpdateCounter
        <4>2. QED
          BY <1>1, <4>1
      <3>3. QED
        BY <3>1, <3>2
    <2>2. CASE \E f \in Factors : InsertKey(r, f)
      <3>1. PICK f \in Factors : InsertKey(r, f)
        BY <2>2
      <3> DEFINE row == Passkey(p.user, a.key, a.counter)
      <3>2. row \in Factor
        BY <1>3 DEF Factor, Answer, Passkey
      <3>3. factor' = [factor EXCEPT ![f] = row] /\ factor[f].user = None
        BY <1>2, <1>4, <3>1 DEF InsertKey, NoFactor
      <3> HIDE DEF row
      <3>4. QED
        BY <1>1, <3>2, <3>3
    <2>3. QED
      BY <2>1, <2>2
  <1>6. PICK step \in Steps : /\ Goto(r, step)
                              /\ \/ p.at = "insertKey" /\ step = "dropRegistration"
                                 \/ p.at = "updateCounter" /\ step = "dropChallenge"
    <2>1. {"dropRegistration", "dropChallenge"} \subseteq Steps
      BY DEF Steps
    <2>2. QED
      BY <1>2, <2>1 DEF UpdateCounter, InsertKey
  <1>7. PICK q \in Request :
          /\ req' = [req EXCEPT ![r] = q] /\ begun' \in 0..MaxRequests
          /\ q.at = step /\ q.user = p.user /\ q.subject = p.subject
          /\ q.secret = p.secret /\ q.factor = p.factor
          /\ q.challenge = p.challenge /\ q.proof = p.proof
          /\ q.guarded = p.guarded /\ q.prior = p.prior
    BY <1>2, <1>6, GotoMove
  <1>8. RequestOK(q)
    BY <1>2, <1>6, <1>7 DEF RequestOK, TokenSteps, LoginSteps, KeySteps
  <1>9. PasskeyOK(q)
    BY <1>2, <1>6, <1>7 DEF PasskeyOK
  <1>10. /\ req' \in [Requests -> Request] /\ RequestsInv'
         /\ \A s \in Requests : req'[s] = IF s = r THEN q ELSE req[s]
    BY <1>7, <1>8, OneMoves
  <1>11. q.at \notin GoogleSteps \union TokenSteps \union {"store"}
    BY <1>6, <1>7 DEF GoogleSteps, TokenSteps
  <1>12. QED
    BY <1>1, <1>5, <1>7, <1>9, <1>10, <1>11, FactorMove

(* A code that was issued keeps its account. *)
LEMMA CodeUsersKept ==
  ASSUME IInv, UNCHANGED factor,
         \A c \in Codes : code[c].user # None => code'[c].user = code[c].user,
         \A s \in Requests : req'[s] = req[s] \/ FactorOK(req[s])'
  PROVE  FactorInv'
  <1>1. \A u : HasEnabledMfa(u)' = HasEnabledMfa(u)
    BY DEF HasEnabledMfa
  <1>2. ASSUME NEW s \in Requests, req'[s] = req[s] PROVE FactorOK(req[s])'
    <2>1. PICK p \in Request : p = req[s] /\ FactorOK(p) /\ RequestOK(p)
      BY DEF IInv, TypeOK, FactorInv, RequestsInv
    <2>2. \A c \in Codes : (p.at # "idle" /\ code[c].user = p.user) => code'[c].user = p.user
      BY <2>1, Kinds DEF RequestOK
    <2>3. p.at = "markUsed" => p.secret \in Codes
      BY <2>1 DEF RequestOK
    <2>4. QED
      BY <1>1, <1>2, <2>1, <2>2, <2>3 DEF FactorOK
  <1>3. QED
    BY <1>2 DEF FactorInv

(* The states of codes follow their rows. *)
LEMMA CodeRows ==
  ASSUME UNCHANGED token
  PROVE  /\ \A c \in Codes : secretState'[c] = code'[c].state /\ secretState[c] = code[c].state
         /\ \A t \in Tokens : secretState'[t] = secretState[t]
  <1>1. secretState' = [x \in Secrets |-> IF x \in Codes THEN code'[x].state ELSE token[x].state]
    BY DEF secretState
  <1>2. QED
    BY <1>1, Kinds DEF secretState

(* A batch is stored: what it found live is dead, and it is live. *)
LEMMA StoreStep ==
  ASSUME IInv, NEW r \in Requests, NEW C \in SUBSET Codes, StoreBatch(r, C)
  PROVE  IInv'
  <1>1. /\ UNCHANGED <<users, token, identity, open, granted, severed>>
        /\ UNCHANGED <<factor, challenge, answer, counter, signIns>>
    BY DEF StoreBatch
  <1>2. PICK p \in Request : /\ p = req[r] /\ p.at = "store" /\ RequestOK(p) /\ StoreOK(p)
                             /\ p.user \in Users
    BY DEF StoreBatch, IInv, TypeOK, RequestsInv, BatchInv, RequestOK
  <1>3. code \in [Codes -> RecoveryCode] /\ \A c \in C : code[c].state = "unissued"
    BY DEF StoreBatch, IInv, TypeOK
  <1>4. PICK new \in RecoveryCode : /\ new = [state |-> "live", user |-> p.user, past |-> p.past]
                                    /\ new.state = "live" /\ new.user = p.user /\ new.past = p.past
    <2> DEFINE new == [state |-> "live", user |-> p.user, past |-> p.past]
    <2>1. new \in RecoveryCode /\ new.state = "live" /\ new.user = p.user /\ new.past = p.past
      BY <1>2 DEF RecoveryCode, Request
    <2>2. QED
      BY <2>1
  <1>5. \A c \in Codes :
          code'[c] = IF c \in C THEN new
                     ELSE IF c \in p.seen /\ code[c].state = "live"
                     THEN [code[c] EXCEPT !.state = "dead"] ELSE code[c]
    BY <1>2, <1>4 DEF StoreBatch
  <1>6. ASSUME NEW c \in Codes
        PROVE  /\ code'[c] \in RecoveryCode
               /\ c \in C => code'[c] = new
               /\ c \notin C => /\ code'[c].user = code[c].user /\ code'[c].past = code[c].past
                                /\ IF c \in p.seen /\ code[c].state = "live"
                                   THEN code'[c].state = "dead"
                                   ELSE code'[c].state = code[c].state
    <2>1. PICK k \in RecoveryCode : k = code[c]
      BY <1>3
    <2> DEFINE row == [k EXCEPT !.state = "dead"]
    <2>2. row \in RecoveryCode /\ row.user = k.user /\ row.past = k.past /\ row.state = "dead"
      BY DEF RecoveryCode
    <2>3. code'[c] = IF c \in C THEN new
                     ELSE IF c \in p.seen /\ k.state = "live" THEN row ELSE k
      BY <1>5, <2>1
    <2> HIDE DEF row
    <2>4. QED
      BY <2>1, <2>2, <2>3
  <1>7. code' \in [Codes -> RecoveryCode]
    <2>1. DOMAIN code' = Codes /\ code' = [c \in Codes |-> code'[c]]
      BY DEF StoreBatch
    <2>2. QED
      BY <1>6, <2>1
  <1>8. PICK q \in Request :
          /\ req' = [req EXCEPT ![r] = q] /\ begun' \in 0..MaxRequests
          /\ q.at \in {"idle", "endSessions"} /\ RequestOK(q)
    <2>1. CASE Done(r)
      BY <2>1, IdleOK, IdleKeeps DEF Done, IInv, TypeOK
    <2>2. CASE Goto(r, "endSessions")
      <3>1. "endSessions" \in Steps
        BY DEF Steps
      <3>2. PICK q \in Request :
              /\ req' = [req EXCEPT ![r] = q] /\ begun' \in 0..MaxRequests
              /\ q.at = "endSessions" /\ q.user = p.user /\ q.subject = p.subject
              /\ q.secret = p.secret /\ q.factor = p.factor
              /\ q.challenge = p.challenge /\ q.proof = p.proof
              /\ q.guarded = p.guarded /\ q.prior = p.prior
        BY <1>2, <2>2, <3>1, GotoMove
      <3>3. RequestOK(q)
        BY <1>2, <3>2 DEF RequestOK, TokenSteps, LoginSteps, KeySteps
      <3>4. QED
        BY <3>2, <3>3
    <2>3. QED
      BY <2>1, <2>2 DEF StoreBatch, Proceed
  <1>9. /\ req' \in [Requests -> Request] /\ RequestsInv'
        /\ \A s \in Requests : req'[s] = IF s = r THEN q ELSE req[s]
    BY <1>8, OneMoves
  <1>10. TypeOK'
    BY <1>1, <1>7, <1>8, <1>9 DEF IInv, TypeOK
  <1>11. TokensInv'
    BY <1>1 DEF IInv, TokensInv
  <1>12. GoogleInv'
    <2>1. GoogleOK(q)
      BY <1>8 DEF GoogleOK, GoogleSteps
    <2>2. QED
      BY <1>1, <1>9, <2>1, GoogleFrame DEF IInv
  <1>13. SecretsInv'
    <2>1. \A s \in Requests, x \in Secrets : Holds(req'[s], x) => Holds(req[s], x)
      BY <1>8, <1>9 DEF Holds, TokenSteps
    <2>2. \A c \in Codes : code[c].state = "spent" => code'[c].state = "spent"
      BY <1>3, <1>6
    <2>3. \A x \in Secrets : secretState[x] = "spent" => secretState'[x] = "spent"
      BY <1>1, <2>2, CodeRows, Kinds
    <2>4. QED
      BY <1>1, <2>1, <2>3, SecretsFrame DEF IInv
  <1>14. \A d \in Codes : code[d].state # "unissued" =>
            /\ code'[d].state # "unissued"
            /\ code'[d].state = "live" => code[d].state = "live" /\ d \notin p.seen
    BY <1>3, <1>6
  <1>15. BatchInv'
    <2>1. ASSUME NEW c \in Codes PROVE code'[c].state = "unissued" => code'[c].user = None
      BY <1>4, <1>6 DEF IInv, BatchInv
    <2>2. ASSUME NEW c \in Codes, NEW d \in code'[c].past
          PROVE  /\ code'[d].state # "unissued"
                 /\ code'[c].state = "live" => code'[d].state # "live"
      <3>1. d \in Codes
        BY <1>6 DEF RecoveryCode
      <3>2. CASE c \in C
        <4>1. d \in p.past
          BY <1>4, <1>6, <3>2
        <4>2. code[d].state # "unissued" /\ (code[d].state = "live" => d \in p.seen)
          BY <1>2, <4>1 DEF StoreOK
        <4>3. QED
          BY <1>14, <3>1, <4>2
      <3>3. CASE c \notin C
        <4>1. d \in code[c].past /\ (code'[c].state = "live" => code[c].state = "live")
          BY <1>6, <3>3
        <4>2. /\ code[d].state # "unissued"
              /\ code[c].state = "live" => code[d].state # "live"
          BY <4>1 DEF IInv, BatchInv
        <4>3. QED
          BY <1>14, <3>1, <4>1, <4>2
      <3>4. QED
        BY <3>2, <3>3
    <2>3. ASSUME NEW s \in Requests PROVE StoreOK(req[s])'
      <3>1. CASE s = r
        BY <1>8, <1>9, <3>1 DEF StoreOK
      <3>2. CASE s # r
        <4>1. PICK o \in Request : o = req[s] /\ req'[s] = o /\ StoreOK(o)
          BY <1>9, <3>2 DEF IInv, TypeOK, BatchInv
        <4>2. \A d \in o.past : d \in Codes
          BY DEF Request
        <4>3. QED
          BY <1>14, <4>1, <4>2 DEF StoreOK
      <3>3. QED
        BY <3>1, <3>2
    <2>4. QED
      BY <2>1, <2>2, <2>3 DEF BatchInv
  <1>16. FactorInv'
    <2>1. FactorOK(req[r])'
      BY <1>8, <1>9 DEF FactorOK
    <2>2. \A c \in Codes : code[c].user # None => code'[c].user = code[c].user
      BY <1>3, <1>6 DEF IInv, BatchInv
    <2>3. QED
      BY <1>1, <1>9, <2>1, <2>2, CodeUsersKept
  <1>17. PasskeyInv'
    <2>1. PasskeyOK(q)
      BY <1>8 DEF PasskeyOK
    <2>2. QED
      BY <1>1, <1>9, <2>1, PasskeyFrame DEF IInv
  <1>18. QED
    BY <1>9, <1>10, <1>11, <1>12, <1>13, <1>15, <1>16, <1>17 DEF IInv

(* A code is used: the login that did it has its claim. *)
LEMMA MarkStep ==
  ASSUME IInv, NEW r \in Requests, MarkUsed(r)
  PROVE  IInv'
  <1>1. /\ UNCHANGED <<users, token, identity, open, granted, severed>>
        /\ UNCHANGED <<factor, challenge, answer, counter, signIns>>
    BY DEF MarkUsed
  <1>2. PICK p \in Request : /\ p = req[r] /\ p.at = "markUsed"
                             /\ RequestOK(p) /\ GoogleOK(p) /\ FactorOK(p)
    BY DEF MarkUsed, IInv, TypeOK, RequestsInv, GoogleInv, FactorInv
  <1>3. PICK c \in Codes : c = p.secret /\ code[c].user = p.user
    BY <1>2 DEF RequestOK, FactorOK
  <1>4. CASE ~CanMarkUsed(c)
    <2>1. Done(r) /\ UNCHANGED code
      BY <1>2, <1>3, <1>4 DEF MarkUsed
    <2>2. UNCHANGED factorVars
      BY <1>1, <2>1 DEF factorVars
    <2>3. users' \in [Users -> Account] /\ open' \in [Users -> Nat]
      BY <1>1 DEF IInv, TypeOK
    <2>4. QED
      BY <1>1, <2>1, <2>2, <2>3, DoneMove
  <1>5. CASE CanMarkUsed(c)
    <2>1. code \in [Codes -> RecoveryCode] /\ code[c].state = "live"
      BY <1>5 DEF CanMarkUsed, IInv, TypeOK
    <2>2. PICK k \in RecoveryCode : k = code[c]
      BY <2>1
    <2> DEFINE row == [k EXCEPT !.state = "spent"]
    <2>3. row \in RecoveryCode /\ row.user = k.user /\ row.past = k.past /\ row.state = "spent"
      BY DEF RecoveryCode
    <2>4. code' = [code EXCEPT ![c] = row]
      BY <1>2, <1>3, <1>5, <2>1, <2>2 DEF MarkUsed
    <2> HIDE DEF row
    <2>5. /\ code' \in [Codes -> RecoveryCode] /\ code'[c].state = "spent"
          /\ \A d \in Codes : code'[d].user = code[d].user /\ code'[d].past = code[d].past
          /\ \A d \in Codes \ {c} : code'[d].state = code[d].state
      BY <2>1, <2>2, <2>3, <2>4
    <2> DEFINE q == [p EXCEPT !.at = "session", !.proof = c]
    <2>6. /\ q \in Request /\ q.at = "session" /\ q.proof = c /\ q.user = p.user
          /\ q.subject = p.subject /\ q.challenge = p.challenge /\ q.guarded = p.guarded
      BY ZenonT(60) DEF Request, Steps
    <2>7. req' = [req EXCEPT ![r] = q] /\ begun' = begun
      BY <1>2, <1>3, <1>5 DEF MarkUsed, IInv, TypeOK
    <2> HIDE DEF q
    <2>8. RequestOK(q)
      BY <1>2, <2>6 DEF RequestOK, TokenSteps, LoginSteps, KeySteps
    <2>9. /\ req' \in [Requests -> Request] /\ RequestsInv'
          /\ \A s \in Requests : req'[s] = IF s = r THEN q ELSE req[s]
      BY <2>6, <2>7, <2>8, OneMoves
    <2>10. TypeOK'
      BY <1>1, <2>5, <2>7, <2>9 DEF IInv, TypeOK
    <2>11. TokensInv'
      BY <1>1 DEF IInv, TokensInv
    <2>12. GoogleInv'
      <3>1. GoogleOK(q)
        BY <1>2, <2>6 DEF GoogleOK, GoogleSteps
      <3>2. QED
        BY <1>1, <2>9, <3>1, GoogleFrame DEF IInv
    <2>13. SecretsInv'
      <3>1. c \in Secrets /\ secretState[c] = "live" /\ secretState'[c] = "spent"
        BY <1>1, <2>1, <2>5, CodeRows, Kinds
      <3>2. \A x \in Secrets \ {c} : secretState'[x] = secretState[x]
        BY <1>1, <2>5, CodeRows, Kinds
      <3>3. \A x \in Secrets : Holds(req'[r], x) => x = c
        BY <2>6, <2>9 DEF Holds, TokenSteps
      <3>4. SecretsInv /\ \A s \in Requests \ {r} : req'[s] = req[s]
        BY <2>9 DEF IInv
      <3>5. QED
        BY <1>1, <3>1, <3>2, <3>3, <3>4, SecretSpent
    <2>14. \A d \in Codes : /\ code'[d].state = "live" => code[d].state = "live"
                            /\ code'[d].state = "unissued" <=> code[d].state = "unissued"
      BY <2>1, <2>5
    <2>15. BatchInv'
      <3>1. ASSUME NEW e \in Codes
            PROVE  /\ code'[e].state = "unissued" => code'[e].user = None
                   /\ \A d \in code'[e].past :
                         /\ code'[d].state # "unissued"
                         /\ code'[e].state = "live" => code'[d].state # "live"
        <4>1. \A d \in code[e].past : d \in Codes
          BY <2>1 DEF RecoveryCode
        <4>2. QED
          BY <2>5, <2>14, <4>1 DEF IInv, BatchInv
      <3>2. ASSUME NEW s \in Requests PROVE StoreOK(req[s])'
        <4>1. CASE s = r
          BY <2>6, <2>9, <4>1 DEF StoreOK
        <4>2. CASE s # r
          <5>1. PICK o \in Request : o = req[s] /\ req'[s] = o /\ StoreOK(o)
            BY <2>9, <4>2 DEF IInv, TypeOK, BatchInv
          <5>2. \A d \in o.past : d \in Codes
            BY DEF Request
          <5>3. QED
            BY <2>14, <5>1, <5>2 DEF StoreOK
        <4>3. QED
          BY <4>1, <4>2
      <3>3. QED
        BY <3>1, <3>2 DEF BatchInv
    <2>16. FactorInv'
      <3>1. FactorOK(req[r])'
        BY <1>3, <2>5, <2>6, <2>9 DEF FactorOK
      <3>2. QED
        BY <1>1, <2>5, <2>9, <3>1, CodeUsersKept
    <2>17. PasskeyInv'
      <3>1. PasskeyOK(q)
        BY <2>6, Kinds DEF PasskeyOK
      <3>2. QED
        BY <1>1, <2>9, <3>1, PasskeyFrame DEF IInv
    <2>18. QED
      BY <2>9, <2>10, <2>11, <2>12, <2>13, <2>15, <2>16, <2>17 DEF IInv
  <1>6. QED
    BY <1>4, <1>5

(* A session is opened: what the login claimed is granted. *)
LEMMA SessionStep ==
  ASSUME IInv, NEW r \in Requests, CreateSession(r)
  PROVE  IInv'
  <1>1. /\ UNCHANGED <<users, token, identity, severed>> /\ begun' = begun
        /\ UNCHANGED <<factor, code, challenge, answer, counter>>
        /\ req' = [req EXCEPT ![r] = Idle]
    BY DEF CreateSession, Done
  <1>2. PICK p \in Request : p = req[r] /\ p.at = "session" /\ PasskeyOK(p) /\ p.user \in Users
    BY DEF CreateSession, IInv, TypeOK, PasskeyInv, RequestsInv, RequestOK
  <1>3. /\ req' \in [Requests -> Request] /\ RequestsInv'
        /\ \A s \in Requests : req'[s] = IF s = r THEN Idle ELSE req[s]
    BY <1>1, IdleOK, IdleKeeps, OneMoves
  <1>4. open' \in [Users -> Nat]
    <2>1. open \in [Users -> Nat] /\ open' = [open EXCEPT ![p.user] = open[p.user] + 1]
      BY <1>2 DEF CreateSession, IInv, TypeOK
    <2>2. QED
      BY <1>2, <2>1
  <1>5. /\ granted' \in [Secrets -> Nat]
        /\ \A x \in Secrets : granted'[x] = IF x = p.proof THEN granted[x] + 1 ELSE granted[x]
    <2>1. /\ granted \in [Secrets -> Nat]
          /\ granted' = [x \in Secrets |-> granted[x] + IF x = p.proof THEN 1 ELSE 0]
      BY <1>2 DEF CreateSession, IInv, TypeOK
    <2>2. QED
      BY <2>1
  <1>6. /\ signIns' \in [Challenges -> Nat]
        /\ \A x \in Challenges : x # p.proof => signIns'[x] = signIns[x]
    <2>1. /\ signIns \in [Challenges -> Nat]
          /\ signIns' = [x \in Challenges |-> signIns[x] + IF x = p.proof THEN 1 ELSE 0]
      BY <1>2 DEF CreateSession, IInv, TypeOK
    <2>2. QED
      BY <2>1
  <1>7. TypeOK'
    BY <1>1, <1>3, <1>4, <1>5, <1>6 DEF IInv, TypeOK
  <1>8. TokensInv'
    BY <1>1 DEF IInv, TokensInv
  <1>9. GoogleInv'
    BY <1>1, <1>3, IdleKeeps, GoogleFrame DEF IInv
  <1>10. SecretsInv'
    <2>1. UNCHANGED secretState /\ SecretsInv
      BY <1>1, StateFrame DEF IInv
    <2>2. CASE p.proof \in Secrets
      <3>1. Holds(req[r], p.proof)
        BY <1>2 DEF Holds
      <3>2. /\ \A s \in Requests \ {r} : req'[s] = req[s]
            /\ \A x \in Secrets : ~Holds(req'[r], x)
        BY <1>3, IdleKeeps
      <3>3. QED
        BY <1>5, <2>1, <2>2, <3>1, <3>2, SecretGranted
    <2>3. CASE p.proof \notin Secrets
      <3>1. granted' = granted
        <4>1. granted \in [Secrets -> Nat]
          BY DEF IInv, TypeOK
        <4>2. \A x \in Secrets : granted'[x] = granted[x]
          BY <1>5, <2>3
        <4>3. QED
          BY <1>5, <4>1, <4>2
      <3>2. \A s \in Requests, x \in Secrets : Holds(req'[s], x) => Holds(req[s], x)
        BY <1>3, IdleKeeps
      <3>3. QED
        BY <2>1, <3>1, <3>2, SecretsFrame
    <2>4. QED
      BY <2>2, <2>3
  <1>11. BatchInv'
    BY <1>1, <1>3, IdleKeeps, BatchFrame DEF IInv
  <1>12. FactorInv'
    BY <1>1, <1>3, IdleKeeps, FactorFrame DEF IInv
  <1>13. PasskeyInv'
    <2>1. \A x : Gone(x)' = Gone(x)
      BY <1>1 DEF Gone
    <2>2. ASSUME NEW s \in Requests PROVE PasskeyOK(req[s])'
      <3>1. PasskeyOK(req'[s])
        BY <1>3, IdleKeeps DEF IInv, PasskeyInv
      <3>2. QED
        BY <1>1, <2>1, <3>1 DEF PasskeyOK
    <2>3. ASSUME NEW x \in Challenges, signIns'[x] # 0 PROVE Gone(x)
      BY <1>2, <1>6, <2>3 DEF IInv, PasskeyInv, PasskeyOK
    <2>4. QED
      BY <1>1, <2>1, <2>2, <2>3 DEF IInv, PasskeyInv
  <1>14. QED
    BY <1>3, <1>7, <1>8, <1>9, <1>10, <1>11, <1>12, <1>13 DEF IInv

-----------------------------------------------------------------------------
(* Steps on challenges. *)

(* A challenge is put to one account once, and what Redis holds for an       *)
(* account was put to it.                                                    *)
LEMMA ChallengeMove ==
  ASSUME IInv, UNCHANGED <<users, token, identity, open, granted, severed>>,
         UNCHANGED <<factor, code, signIns>>, begun' \in 0..MaxRequests,
         challenge' \in [Users -> [Purposes -> Challenges \union {None}]],
         answer' \in [Challenges -> Answer], counter' \in [Passkeys -> Nat],
         req' \in [Requests -> Request], RequestsInv',
         \A x \in Challenges : answer[x].user # None => answer'[x].user = answer[x].user,
         \A u \in Users, p \in Purposes :
            \/ challenge'[u][p] = challenge[u][p]
            \/ challenge'[u][p] = None
            \/ /\ challenge'[u][p] \in Challenges
               /\ answer[challenge'[u][p]].user = None
               /\ answer'[challenge'[u][p]].user = u,
         \A s \in Requests : \/ req'[s] = req[s]
                             \/ /\ req'[s].at \notin GoogleSteps \union TokenSteps \union {"store"}
                                /\ PasskeyOK(req[s])'
  PROVE  IInv'
  <1>1. TypeOK'
    BY DEF IInv, TypeOK
  <1>2. TokensInv'
    BY DEF IInv, TokensInv
  <1>3. GoogleInv'
    <2>1. \A s \in Requests : req'[s] = req[s] \/ GoogleOK(req'[s])
      BY DEF GoogleOK
    <2>2. QED
      BY <2>1, GoogleFrame DEF IInv
  <1>4. SecretsInv'
    <2>1. UNCHANGED secretState
      BY StateFrame
    <2>2. \A s \in Requests, x \in Secrets : Holds(req'[s], x) => Holds(req[s], x)
      BY DEF Holds, GoogleSteps
    <2>3. QED
      BY <2>1, <2>2, SecretsFrame DEF IInv
  <1>5. BatchInv'
    <2>1. \A s \in Requests : req'[s] = req[s] \/ StoreOK(req'[s])
      BY DEF StoreOK
    <2>2. QED
      BY <2>1, BatchFrame DEF IInv
  <1>6. FactorInv'
    <2>1. \A s \in Requests : req'[s] = req[s] \/ FactorOK(req'[s])
      BY DEF FactorOK, GoogleSteps
    <2>2. QED
      BY <2>1, FactorFrame DEF IInv
  <1>7. \A u \in Users, p \in Purposes : challenge[u][p] \in Challenges \union {None}
    BY DEF IInv, TypeOK
  <1>8. ASSUME NEW u \in Users, NEW p \in Purposes, challenge'[u][p] # None
        PROVE  answer'[challenge'[u][p]].user = u
    <2>1. CASE challenge'[u][p] = challenge[u][p]
      <3>1. PICK x \in Challenges : x = challenge[u][p]
        BY <1>7, <1>8, <2>1
      <3>2. answer[x].user = u
        BY <1>8, <2>1, <3>1 DEF IInv, PasskeyInv
      <3>3. QED
        BY <2>1, <3>1, <3>2, Kinds
    <2>2. QED
      BY <1>8, <2>1
  <1>9. ASSUME NEW x \in Challenges, Gone(x) PROVE Gone(x)'
    <2>1. answer[x].user # None /\ answer'[x].user # None
      BY <1>9 DEF Gone
    <2>2. "authentication" \in Purposes
      BY DEF Purposes
    <2>3. ASSUME NEW u \in Users PROVE challenge'[u]["authentication"] # x
      BY <1>9, <2>1, <2>2, Kinds DEF Gone
    <2>4. QED
      BY <2>1, <2>3 DEF Gone
  <1>10. ASSUME NEW s \in Requests, req'[s] = req[s] PROVE PasskeyOK(req[s])'
    <2>1. PICK p \in Request : p = req[s] /\ PasskeyOK(p) /\ RequestOK(p)
      BY DEF IInv, TypeOK, PasskeyInv, RequestsInv
    <2>2. ASSUME p.at \in {"findKey", "updateCounter", "dropChallenge", "passkeyUser"}
          PROVE  p.challenge \in Challenges /\ answer'[p.challenge].user = p.user
      <3>1. p.challenge \in Challenges /\ p.user \in Users
        BY <2>1, <2>2 DEF RequestOK, KeySteps
      <3>2. answer[p.challenge].user = p.user
        BY <2>1, <2>2 DEF PasskeyOK
      <3>3. QED
        BY <3>1, <3>2, Kinds
    <2>3. p.at = "passkeyUser" => Gone(p.challenge)'
      <3>1. CASE p.at = "passkeyUser"
        BY <1>9, <2>1, <2>2, <3>1 DEF PasskeyOK
      <3>2. QED
        BY <3>1
    <2>4. (p.at = "session" /\ p.proof \in Challenges) => Gone(p.proof)'
      BY <1>9, <2>1 DEF PasskeyOK
    <2>5. QED
      BY <1>10, <2>1, <2>2, <2>3, <2>4 DEF PasskeyOK
  <1>11. PasskeyInv'
    <2>1. \A x \in Challenges : signIns'[x] # 0 => Gone(x)'
      BY <1>9 DEF IInv, PasskeyInv
    <2>2. \A s \in Requests : PasskeyOK(req[s])'
      BY <1>10
    <2>3. QED
      BY <1>8, <2>1, <2>2 DEF PasskeyInv
  <1>12. QED
    BY <1>1, <1>2, <1>3, <1>4, <1>5, <1>6, <1>11 DEF IInv

(* One key of Redis is set or dropped. *)
LEMMA ChallengeRow ==
  ASSUME challenge \in [Users -> [Purposes -> Challenges \union {None}]],
         NEW u \in Users, NEW purpose \in Purposes, NEW x \in Challenges \union {None},
         challenge' = [challenge EXCEPT ![u][purpose] = x]
  PROVE  /\ challenge' \in [Users -> [Purposes -> Challenges \union {None}]]
         /\ challenge'[u][purpose] = x
         /\ \A v \in Users, p \in Purposes :
              (v # u \/ p # purpose) => challenge'[v][p] = challenge[v][p]
  OBVIOUS

(* A challenge is asked for, signed, or runs out. *)
LEMMA ChallengeEvents ==
  ASSUME IInv,
         \/ \E u \in Users, p \in Purposes :
               ExpireChallenge(u, p) \/ \E x \in Challenges : GenerateOptions(u, p, x)
         \/ \E x \in Challenges, k \in Passkeys : Sign(x, k)
  PROVE  IInv'
  <1>1. /\ UNCHANGED <<users, token, identity, open, granted, severed, req>>
        /\ UNCHANGED <<factor, code, signIns>> /\ begun' \in 0..MaxRequests
    <2>1. /\ UNCHANGED <<users, token, identity, open, granted, severed, req>>
          /\ UNCHANGED <<factor, code, signIns>> /\ (begun' = begun \/ Serve)
      BY DEF ExpireChallenge, GenerateOptions, Sign, accountVars
    <2>2. QED
      BY <2>1, AccountsAssumption DEF Serve, IInv, TypeOK
  <1>2. req' \in [Requests -> Request] /\ RequestsInv'
    BY <1>1, NoneMoves DEF IInv, TypeOK
  <1>3. /\ challenge \in [Users -> [Purposes -> Challenges \union {None}]]
        /\ answer \in [Challenges -> Answer] /\ counter \in [Passkeys -> Nat]
    BY DEF IInv, TypeOK
  <1>4. CASE \E u \in Users, p \in Purposes : ExpireChallenge(u, p)
    <2>1. PICK u \in Users, p \in Purposes : ExpireChallenge(u, p)
      BY <1>4
    <2>2. UNCHANGED <<answer, counter>> /\ challenge' = [challenge EXCEPT ![u][p] = None]
      BY <2>1 DEF ExpireChallenge
    <2>3. /\ challenge' \in [Users -> [Purposes -> Challenges \union {None}]]
          /\ challenge'[u][p] = None
          /\ \A v \in Users, o \in Purposes :
               (v # u \/ o # p) => challenge'[v][o] = challenge[v][o]
      BY <1>3, <2>2, ChallengeRow
    <2>4. \A v \in Users, o \in Purposes :
             challenge'[v][o] = challenge[v][o] \/ challenge'[v][o] = None
      BY <2>3
    <2>5. QED
      BY <1>1, <1>2, <1>3, <2>2, <2>3, <2>4, ChallengeMove
  <1>5. CASE \E u \in Users, p \in Purposes, x \in Challenges : GenerateOptions(u, p, x)
    <2>1. PICK u \in Users, p \in Purposes, x \in Challenges : GenerateOptions(u, p, x)
      BY <1>5
    <2>2. /\ UNCHANGED counter /\ challenge' = [challenge EXCEPT ![u][p] = x]
          /\ answer' = [answer EXCEPT ![x].user = u] /\ answer[x].user = None
      BY <2>1 DEF GenerateOptions, Unasked
    <2>3. /\ challenge' \in [Users -> [Purposes -> Challenges \union {None}]]
          /\ challenge'[u][p] = x
          /\ \A v \in Users, o \in Purposes :
               (v # u \/ o # p) => challenge'[v][o] = challenge[v][o]
      BY <1>3, <2>2, ChallengeRow
    <2>4. PICK a \in Answer : a = answer[x]
      BY <1>3
    <2> DEFINE b == [a EXCEPT !.user = u]
    <2>5. b \in Answer /\ b.user = u
      BY DEF Answer
    <2>6. answer' = [answer EXCEPT ![x] = b]
      BY <1>3, <2>2, <2>4
    <2> HIDE DEF b
    <2>7. /\ answer' \in [Challenges -> Answer] /\ answer'[x].user = u
          /\ \A y \in Challenges : answer[y].user # None => answer'[y].user = answer[y].user
      BY <1>3, <2>2, <2>5, <2>6
    <2>8. \A v \in Users, o \in Purposes :
            \/ challenge'[v][o] = challenge[v][o]
            \/ /\ challenge'[v][o] \in Challenges
               /\ answer[challenge'[v][o]].user = None
               /\ answer'[challenge'[v][o]].user = v
      BY <2>2, <2>3, <2>7
    <2>9. counter' \in [Passkeys -> Nat]
      BY <1>3, <2>2
    <2>10. QED
      BY <1>1, <1>2, <2>3, <2>7, <2>8, <2>9, ChallengeMove
  <1>6. CASE \E x \in Challenges, k \in Passkeys : Sign(x, k)
    <2>1. PICK x \in Challenges, k \in Passkeys : Sign(x, k)
      BY <1>6
    <2>2. PICK n \in Nat : n = IF k \in CountingKeys THEN counter[k] + 1 ELSE 0
      BY <1>3
    <2>3. /\ UNCHANGED challenge /\ counter' = [counter EXCEPT ![k] = n]
          /\ answer' = [answer EXCEPT ![x].key = k, ![x].counter = n]
      BY <2>1, <2>2 DEF Sign
    <2>4. PICK a \in Answer : a = answer[x]
      BY <1>3
    <2> DEFINE b == [a EXCEPT !.key = k, !.counter = n]
    <2>5. b \in Answer /\ b.user = a.user
      BY DEF Answer
    <2>6. answer' = [answer EXCEPT ![x] = b]
      BY <1>3, <2>3, <2>4
    <2> HIDE DEF b
    <2>7. /\ answer' \in [Challenges -> Answer]
          /\ \A y \in Challenges : answer'[y].user = answer[y].user
      BY <1>3, <2>4, <2>5, <2>6
    <2>8. counter' \in [Passkeys -> Nat]
      BY <1>3, <2>3
    <2>9. QED
      BY <1>1, <1>2, <1>3, <2>3, <2>7, <2>8, ChallengeMove
  <1>7. QED
    BY <1>4, <1>5, <1>6

(* A handler drops the challenge of its account: the one it answered is not  *)
(* there for any other account, so it is gone.                               *)
LEMMA DropSteps ==
  ASSUME IInv, NEW r \in Requests, DropRegistration(r) \/ DropChallenge(r)
  PROVE  IInv'
  <1>1. /\ UNCHANGED <<users, token, identity, open, granted, severed>>
        /\ UNCHANGED <<factor, code, answer, counter, signIns>>
    BY DEF DropRegistration, DropChallenge
  <1>2. PICK p \in Request : /\ p = req[r] /\ RequestOK(p) /\ PasskeyOK(p)
                             /\ p.at \in {"dropRegistration", "dropChallenge"}
    BY DEF DropRegistration, DropChallenge, IInv, TypeOK, RequestsInv, PasskeyInv
  <1>3. p.user \in Users /\ p.challenge \in Challenges /\ p.proof = None
    BY <1>2 DEF RequestOK, KeySteps
  <1>4. PICK purpose \in Purposes, step \in Steps :
          /\ challenge' = [challenge EXCEPT ![p.user][purpose] = None] /\ Goto(r, step)
          /\ \/ p.at = "dropRegistration" /\ step = "count"
             \/ p.at = "dropChallenge" /\ step = "passkeyUser" /\ purpose = "authentication"
    <2>1. {"count", "passkeyUser"} \subseteq Steps /\ Purposes = {"registration", "authentication"}
      BY DEF Steps, Purposes
    <2>2. QED
      BY <1>2, <2>1 DEF DropRegistration, DropChallenge
  <1>5. /\ challenge \in [Users -> [Purposes -> Challenges \union {None}]]
        /\ answer' \in [Challenges -> Answer] /\ counter' \in [Passkeys -> Nat]
    BY <1>1 DEF IInv, TypeOK
  <1>6. /\ challenge' \in [Users -> [Purposes -> Challenges \union {None}]]
        /\ challenge'[p.user][purpose] = None
        /\ \A v \in Users, o \in Purposes :
             (v # p.user \/ o # purpose) => challenge'[v][o] = challenge[v][o]
    BY <1>3, <1>4, <1>5, ChallengeRow
  <1>7. \A v \in Users, o \in Purposes :
           challenge'[v][o] = challenge[v][o] \/ challenge'[v][o] = None
    BY <1>6
  <1>8. PICK q \in Request :
          /\ req' = [req EXCEPT ![r] = q] /\ begun' \in 0..MaxRequests
          /\ q.at = step /\ q.user = p.user /\ q.subject = p.subject
          /\ q.secret = p.secret /\ q.factor = p.factor
          /\ q.challenge = p.challenge /\ q.proof = p.proof
          /\ q.guarded = p.guarded /\ q.prior = p.prior
    BY <1>2, <1>4, GotoMove
  <1>9. RequestOK(q)
    BY <1>2, <1>3, <1>4, <1>8 DEF RequestOK, TokenSteps, LoginSteps, KeySteps
  <1>10. /\ req' \in [Requests -> Request] /\ RequestsInv'
         /\ \A s \in Requests : req'[s] = IF s = r THEN q ELSE req[s]
    BY <1>8, <1>9, OneMoves
  <1>11. q.at \notin GoogleSteps \union TokenSteps \union {"store"}
    BY <1>4, <1>8 DEF GoogleSteps, TokenSteps
  <1>12. ASSUME p.at = "dropChallenge"
         PROVE  answer'[p.challenge].user = p.user /\ Gone(p.challenge)'
    <2>1. answer'[p.challenge].user = p.user /\ answer[p.challenge].user = p.user
      BY <1>1, <1>2, <1>12 DEF PasskeyOK
    <2>2. ASSUME NEW v \in Users PROVE challenge'[v]["authentication"] # p.challenge
      <3>1. purpose = "authentication" /\ purpose \in Purposes
        BY <1>4, <1>12
      <3>2. CASE v = p.user
        BY <1>3, <1>6, <3>1, <3>2, Kinds
      <3>3. CASE v # p.user
        <4>1. challenge'[v][purpose] = challenge[v][purpose]
          BY <1>6, <3>1, <3>3
        <4>2. challenge[v][purpose] # None => answer[challenge[v][purpose]].user = v
          BY <3>1 DEF IInv, PasskeyInv
        <4>3. QED
          BY <1>3, <2>1, <3>1, <3>3, <4>1, <4>2, Kinds
      <3>4. QED
        BY <3>2, <3>3
    <2>3. QED
      BY <1>3, <2>1, <2>2, Kinds DEF Gone
  <1>13. PasskeyOK(req[r])'
    <2>1. req'[r] = q
      BY <1>10
    <2>2. CASE p.at = "dropRegistration"
      BY <1>4, <1>8, <2>1, <2>2 DEF PasskeyOK
    <2>3. CASE p.at = "dropChallenge"
      BY <1>4, <1>8, <1>12, <2>1, <2>3 DEF PasskeyOK
    <2>4. QED
      BY <1>2, <2>2, <2>3
  <1>14. QED
    BY <1>1, <1>5, <1>6, <1>7, <1>8, <1>10, <1>11, <1>13, ChallengeMove

-----------------------------------------------------------------------------
(* The invariant. *)

LEMMA InitInv == Init => IInv
  <1> SUFFICES ASSUME Init PROVE IInv
    OBVIOUS
  <1> USE DEF Init, AccountsInit, SecondFactorInit
  <1>1. \A r \in Requests : req[r] = Idle
    OBVIOUS
  <1>2. \A x \in Secrets : granted[x] = 0
    OBVIOUS
  <1>3. TypeOK
    <2>1. users \in [Users -> Account]
      <3>1. NewAccount \in Account /\ NoAccount \in Account
        BY DEF NewAccount, NoAccount, Account
      <3>2. QED
        BY <3>1
    <2>2. token \in [Tokens -> Token]
      <3>1. [state |-> "unissued", user |-> None] \in Token
        BY DEF Token
      <3>2. QED
        BY <3>1
    <2>3. /\ identity \in [Subjects -> Users \union {None}] /\ open \in [Users -> Nat]
          /\ granted \in [Secrets -> Nat] /\ severed \subseteq Subjects \X Users
          /\ counter \in [Passkeys -> Nat] /\ signIns \in [Challenges -> Nat]
          /\ challenge \in [Users -> [Purposes -> Challenges \union {None}]]
      OBVIOUS
    <2>4. req \in [Requests -> Request] /\ begun \in 0..MaxRequests
      BY IdleOK, AccountsAssumption
    <2>5. factor \in [Factors -> Factor]
      <3>1. PICK n \in Factor : n = NoFactor
        BY NoFactorOK
      <3>2. Registered \subseteq Users
        BY AccountsAssumption
      <3>3. ASSUME NEW u \in Registered PROVE Totp(u) \in Factor
        <4>1. [n EXCEPT !.user = u, !.type = "totp"] \in Factor
          BY <3>2 DEF Factor
        <4>2. QED
          BY <3>1, <4>1 DEF Totp
      <3>4. ASSUME NEW u \in Registered, NEW k \in Passkeys PROVE Passkey(u, k, 0) \in Factor
        BY <3>2 DEF Passkey, Factor
      <3>5. PICK f \in Factors, row \in FirstFactors :
              factor = [g \in Factors |-> IF g = f THEN row ELSE NoFactor]
        OBVIOUS
      <3>6. row \in Factor
        BY <3>1, <3>3, <3>4 DEF FirstFactors
      <3>7. QED
        BY <3>1, <3>5, <3>6
    <2>6. code \in [Codes -> RecoveryCode]
      <3>1. [state |-> "unissued", user |-> None, past |-> {}] \in RecoveryCode
        BY DEF RecoveryCode
      <3>2. QED
        BY <3>1
    <2>7. answer \in [Challenges -> Answer]
      <3>1. Unasked \in Answer
        BY DEF Unasked, Answer
      <3>2. QED
        BY <3>1
    <2>8. QED
      BY <2>1, <2>2, <2>3, <2>4, <2>5, <2>6, <2>7 DEF TypeOK
  <1>4. RequestsInv /\ GoogleInv /\ FactorInv
    BY <1>1, IdleKeeps DEF RequestsInv, GoogleInv, FactorInv
  <1>5. TokensInv
    BY DEF TokensInv
  <1>6. SecretsInv
    BY <1>1, <1>2, IdleKeeps DEF SecretsInv
  <1>7. BatchInv
    BY <1>1, IdleKeeps DEF BatchInv
  <1>8. PasskeyInv
    BY <1>1, IdleKeeps DEF PasskeyInv
  <1>9. QED
    BY <1>3, <1>4, <1>5, <1>6, <1>7, <1>8 DEF IInv

LEMMA NextInv ==
  ASSUME IInv, Next
  PROVE  IInv'
  <1>1. ASSUME NEW r \in Requests, AccountRequest(r), UNCHANGED factorVars PROVE IInv'
    BY <1>1, PlainRequests, LoginRequests, ConsumeStep
    DEF AccountRequest, ConfirmEmailVerification, ConfirmPasswordReset
  <1>2. ASSUME NEW r \in Requests, AccountStep(r), UNCHANGED factorVars PROVE IInv'
    BY <1>2, QuietSteps, TokenSteps1, ApplyStep, LinkSteps DEF AccountStep
  <1>3. ASSUME AccountEvent, UNCHANGED factorVars PROVE IInv'
    BY <1>3, UserEvents, TokenSteps1 DEF AccountEvent
  <1>4. ASSUME NEW r \in Requests, FactorRequest(r) PROVE IInv'
    <2>1. UNCHANGED factorVars
      BY <1>4 DEF FactorRequest, RegenerateCodes, VerifyMfa, Login, VerifyRegistration,
                  VerifyAuthentication
    <2>2. QED
      BY <1>4, <2>1, PlainRequests, LoginRequests, PasskeyRequests DEF FactorRequest
  <1>5. ASSUME NEW r \in Requests, FactorStep(r) PROVE IInv'
    BY <1>5, QuietSteps, CheckSteps, MarkStep, SessionStep, RevokeStep, StoreStep, KeyRowSteps,
       DropSteps
    DEF FactorStep
  <1>6. ASSUME FactorEvent PROVE IInv'
    BY <1>6, EnrollStep, ChallengeEvents DEF FactorEvent
  <1>7. QED
    BY <1>1, <1>2, <1>3, <1>4, <1>5, <1>6 DEF Next

LEMMA StutterInv ==
  ASSUME IInv, UNCHANGED vars
  PROVE  IInv'
  <1>1. /\ UNCHANGED <<users, token, identity, open, req, begun, granted, severed>>
        /\ UNCHANGED factorVars
    BY DEF vars, accountVars
  <1>2. req' \in [Requests -> Request] /\ RequestsInv'
    BY <1>1, NoneMoves DEF IInv, TypeOK
  <1>3. /\ users' \in [Users -> Account] /\ open' \in [Users -> Nat] /\ begun' \in 0..MaxRequests
        /\ identity' \in [Subjects -> Users \union {None}] /\ severed' \subseteq Subjects \X Users
    BY <1>1 DEF IInv, TypeOK
  <1>4. QED
    BY <1>1, <1>2, <1>3, IdentityMove

(* Every table and every handler is always as IInv says, in whatever order   *)
(* the statements of concurrent handlers run.                                *)
THEOREM Invariance == Spec => []IInv
  <1>1. IInv /\ [Next]_vars => IInv'
    BY NextInv, StutterInv
  <1>2. QED
    BY <1>1, InitInv, PTL DEF Spec

-----------------------------------------------------------------------------
(* Results. *)

(* The tables, the keys and the handlers in flight keep their shape. *)
THEOREM TypeCorrect == Spec => []TypeOK
  <1>1. IInv => TypeOK
    BY DEF IInv
  <1>2. QED
    BY <1>1, Invariance, PTL

(* createBatch: a live recovery code never stands beside a live code that    *)
(* its own batch had found when it revoked, for any number of users, codes   *)
(* and requests that regenerate at once.                                     *)
THEOREM OldCodesAreDead == Spec => []OldCodesDie
  <1>1. IInv => OldCodesDie
    BY DEF IInv, BatchInv, OldCodesDie
  <1>2. QED
    BY <1>1, Invariance, PTL

(* loginWithGoogle: a sign-in goes on with the account its Google subject is *)
(* linked to, or was until the link was taken away.                          *)
THEOREM GoogleIsLinked == Spec => []GoogleStaysLinked
  <1>1. IInv => GoogleStaysLinked
    BY DEF IInv, GoogleInv, GoogleOK, GoogleSteps, GoogleStaysLinked
  <1>2. QED
    BY <1>1, Invariance, PTL

(* login and loginWithGoogle: the session of an account that had a factor    *)
(* when the handler found it rests on a factor or a spent code of its own.   *)
THEOREM SecondFactorIsShown == Spec => SecondFactorShown
  <1>1. ASSUME IInv, NEW r \in Requests, req[r].at = "session", req[r].guarded
        PROVE  \/ \E f \in Factors : req[r].proof = f /\ factor[f].user = req[r].user
               \/ \E c \in Codes : /\ req[r].proof = c
                                   /\ code[c].user = req[r].user
                                   /\ code[c].state = "spent"
                                   /\ granted[c] = 0
    <2>1. PICK p \in Request : p = req[r] /\ FactorOK(p) /\ p.at = "session" /\ p.guarded = TRUE
      BY <1>1 DEF IInv, TypeOK, FactorInv, Request
    <2>2. \/ p.proof \in Factors /\ factor[p.proof].user = p.user
          \/ p.proof \in Codes /\ code[p.proof].user = p.user
      BY <2>1 DEF FactorOK
    <2>3. ASSUME NEW c \in Codes, c = p.proof PROVE code[c].state = "spent" /\ granted[c] = 0
      <3>1. c \in Secrets /\ secretState[c] = code[c].state
        BY Kinds, SecretRows
      <3>2. Holds(req[r], c)
        BY <2>1, <2>3 DEF Holds
      <3>3. QED
        BY <1>1, <3>1, <3>2 DEF IInv, SecretsInv
    <2>4. QED
      BY <2>1, <2>2, <2>3
  <1>2. IInv => [\A r \in Requests :
                   Opens(r) /\ req[r].guarded =>
                      \/ \E f \in Factors : req[r].proof = f /\ factor[f].user = req[r].user
                      \/ \E c \in Codes : /\ req[r].proof = c
                                          /\ code[c].user = req[r].user
                                          /\ code[c].state = "spent"
                                          /\ granted[c] = 0]_open
    BY <1>1 DEF Opens
  <1>3. QED
    BY <1>2, Invariance, PTL DEF SecondFactorShown

(* verifyAuthenticationResponse: an answer that has signed somebody in does  *)
(* not sign in a request that begins later.                                  *)
THEOREM LateReplayIsRefused == Spec => LateReplayRefused
  <1>1. IInv => [\A r \in Requests :
                   Opens(r) /\ req[r].challenge # None => req[r].prior = 0]_open
    BY DEF IInv, RequestsInv, RequestOK
  <1>2. QED
    BY <1>1, Invariance, PTL DEF LateReplayRefused

-----------------------------------------------------------------------------
(* Refinement of module OneTimeSecret. *)

(* States of secrets, after a step. *)
LEMMA StatesOK ==
  ASSUME IInv'
  PROVE  secretState' \in [Secrets -> {"unissued", "live", "spent", "dead"}]
  <1>1. \A c \in Codes : code'[c].state \in {"unissued", "live", "spent", "dead"}
    BY DEF IInv, TypeOK, RecoveryCode
  <1>2. \A t \in Tokens : token'[t].state \in {"unissued", "live", "spent", "dead"}
    BY DEF IInv, TypeOK, Token
  <1>3. secretState' = [x \in Secrets |-> IF x \in Codes THEN code'[x].state ELSE token'[x].state]
    BY DEF secretState
  <1>4. QED
    BY <1>1, <1>2, <1>3, Kinds

(* Nothing has been issued at first. *)
LEMMA InitAbstract == Init => Abstract!OneTimeInit
  BY Kinds DEF Init, AccountsInit, SecondFactorInit, secretState, Abstract!OneTimeInit

(* A token is issued or runs out. *)
LEMMA ReplaceToken ==
  ASSUME IInv, IInv', NEW t \in Tokens, UNCHANGED factorVars,
         ExpireToken(t) \/ \E r \in Requests : InsertToken(r, t)
  PROVE  Abstract!Replace
  <1>1. UNCHANGED code /\ UNCHANGED granted
    BY DEF factorVars, ExpireToken, InsertToken
  <1>2. token \in [Tokens -> Token] /\ token' \in [Tokens -> Token]
    BY DEF IInv, TypeOK
  <1>3. \A v \in Tokens : \/ token'[v] = token[v]
                          \/ token[v].state = "unissued" /\ token'[v].state = "live"
                          \/ token[v].state = "live" /\ token'[v].state = "dead"
    <2>1. CASE ExpireToken(t)
      BY <1>2, <2>1 DEF ExpireToken, Token
    <2>2. CASE \E r \in Requests : InsertToken(r, t)
      BY <1>2, <2>2 DEF InsertToken
    <2>3. QED
      BY <2>1, <2>2
  <1>4. /\ \A v \in Tokens : secretState[v] = token[v].state /\ secretState'[v] = token'[v].state
        /\ \A c \in Codes : secretState'[c] = secretState[c]
    <2>1. secretState' = [x \in Secrets |-> IF x \in Codes THEN code[x].state ELSE token'[x].state]
      BY <1>1 DEF secretState
    <2>2. QED
      BY <2>1, Kinds DEF secretState
  <1>5. \A x \in Secrets : \/ secretState'[x] = secretState[x]
                           \/ secretState[x] = "unissued" /\ secretState'[x] = "live"
                           \/ secretState[x] = "live" /\ secretState'[x] = "dead"
    BY <1>3, <1>4, Kinds
  <1>6. secretState' \in [Secrets -> {"unissued", "live", "spent", "dead"}]
    BY StatesOK
  <1>7. QED
    BY <1>1, <1>5, <1>6 DEF Abstract!Replace

(* A batch replaces the codes it found. *)
LEMMA ReplaceCodes ==
  ASSUME IInv, IInv', NEW r \in Requests, NEW C \in SUBSET Codes, StoreBatch(r, C)
  PROVE  Abstract!Replace
  <1>1. UNCHANGED token /\ UNCHANGED granted
    BY DEF StoreBatch
  <1>2. code \in [Codes -> RecoveryCode]
    BY DEF IInv, TypeOK
  <1>3. ASSUME NEW c \in Codes
        PROVE  \/ code'[c].state = code[c].state
               \/ code[c].state = "unissued" /\ code'[c].state = "live"
               \/ code[c].state = "live" /\ code'[c].state = "dead"
    <2>1. PICK k \in RecoveryCode : k = code[c]
      BY <1>2
    <2>2. [k EXCEPT !.state = "dead"].state = "dead"
      BY DEF RecoveryCode
    <2>3. \/ code'[c].state = "live" /\ code[c].state = "unissued"
          \/ code'[c] = [k EXCEPT !.state = "dead"] /\ k.state = "live"
          \/ code'[c] = k
      BY <2>1 DEF StoreBatch
    <2>4. QED
      BY <2>1, <2>2, <2>3
  <1>4. \A x \in Secrets : \/ secretState'[x] = secretState[x]
                           \/ secretState[x] = "unissued" /\ secretState'[x] = "live"
                           \/ secretState[x] = "live" /\ secretState'[x] = "dead"
    BY <1>1, <1>3, CodeRows, Kinds
  <1>5. secretState' \in [Secrets -> {"unissued", "live", "spent", "dead"}]
    BY StatesOK
  <1>6. QED
    BY <1>1, <1>4, <1>5 DEF Abstract!Replace

(* One secret is spent. *)
LEMMA SpendAbstract ==
  ASSUME NEW y \in Secrets, UNCHANGED granted, secretState[y] = "live", secretState'[y] = "spent",
         \A x \in Secrets \ {y} : secretState'[x] = secretState[x]
  PROVE  Abstract!Spend(y)
  <1>1. /\ secretState = [x \in Secrets |-> secretState[x]]
        /\ secretState' = [x \in Secrets |-> secretState'[x]]
    BY DEF secretState
  <1>2. secretState' = [secretState EXCEPT ![y] = "spent"]
    BY <1>1
  <1>3. QED
    BY <1>2 DEF Abstract!Spend

(* A token is consumed. *)
LEMMA SpendToken ==
  ASSUME IInv, NEW r \in Requests, NEW t \in Tokens, ConsumeToken(r, t), UNCHANGED factorVars
  PROVE  Abstract!Spend(t)
  <1>1. UNCHANGED code /\ UNCHANGED granted
    BY DEF factorVars, ConsumeToken
  <1>2. token \in [Tokens -> Token] /\ token[t].state = "live" /\ t \in Secrets
    BY Kinds DEF ConsumeToken, CanConsume, IInv, TypeOK
  <1>3. PICK k \in Token : k = token[t]
    BY <1>2
  <1> DEFINE row == [k EXCEPT !.state = "spent"]
  <1>4. row \in Token /\ row.state = "spent"
    BY DEF Token
  <1>5. token' = [token EXCEPT ![t] = row]
    BY <1>2, <1>3 DEF ConsumeToken
  <1> HIDE DEF row
  <1>6. /\ secretState'[t] = "spent" /\ secretState[t] = "live"
        /\ \A x \in Secrets \ {t} : secretState'[x] = secretState[x]
    BY <1>1, <1>2, <1>4, <1>5, TokenRow
  <1>7. QED
    BY <1>1, <1>2, <1>6, SpendAbstract

(* A code is used, or was not live any more. *)
LEMMA SpendCode ==
  ASSUME IInv, NEW r \in Requests, MarkUsed(r)
  PROVE  (\E x \in Secrets : Abstract!Spend(x)) \/ UNCHANGED <<secretState, granted>>
  <1>1. UNCHANGED token /\ UNCHANGED granted
    BY DEF MarkUsed
  <1>2. PICK c \in Codes : c = req[r].secret /\ c \in Secrets
    BY Kinds DEF MarkUsed, IInv, RequestsInv, RequestOK
  <1>3. CASE CanMarkUsed(c)
    <2>1. code \in [Codes -> RecoveryCode] /\ code[c].state = "live"
      BY <1>3 DEF CanMarkUsed, IInv, TypeOK
    <2>2. PICK k \in RecoveryCode : k = code[c]
      BY <2>1
    <2> DEFINE row == [k EXCEPT !.state = "spent"]
    <2>3. row \in RecoveryCode /\ row.state = "spent"
      BY DEF RecoveryCode
    <2>4. code' = [code EXCEPT ![c] = row]
      BY <1>2, <1>3, <2>1, <2>2 DEF MarkUsed
    <2> HIDE DEF row
    <2>5. code'[c].state = "spent" /\ \A d \in Codes \ {c} : code'[d].state = code[d].state
      BY <2>1, <2>3, <2>4
    <2>6. /\ secretState[c] = "live" /\ secretState'[c] = "spent"
          /\ \A x \in Secrets \ {c} : secretState'[x] = secretState[x]
      BY <1>1, <2>1, <2>5, CodeRows, Kinds
    <2>7. QED
      BY <1>1, <1>2, <2>6, SpendAbstract
  <1>4. CASE ~CanMarkUsed(c)
    <2>1. UNCHANGED code
      BY <1>2, <1>4 DEF MarkUsed
    <2>2. QED
      BY <1>1, <2>1, StateFrame
  <1>5. QED
    BY <1>3, <1>4

(* One secret gets its bearer what it stands for. *)
LEMMA GrantAbstract ==
  ASSUME IInv, NEW r \in Requests, NEW y \in Secrets, Holds(req[r], y), UNCHANGED <<code, token>>,
         granted' = [granted EXCEPT ![y] = granted[y] + 1]
  PROVE  Abstract!Grant(y)
  <1>1. UNCHANGED secretState
    BY StateFrame
  <1>2. secretState[y] = "spent" /\ granted[y] = 0
    BY DEF IInv, SecretsInv
  <1>3. granted' = [granted EXCEPT ![y] = 1]
    BY <1>2
  <1>4. QED
    BY <1>1, <1>2, <1>3 DEF Abstract!Grant

(* A token verifies an address or sets a password. *)
LEMMA GrantToken ==
  ASSUME IInv, NEW r \in Requests, ApplyToken(r), UNCHANGED factorVars
  PROVE  \E x \in Secrets : Abstract!Grant(x)
  <1>1. UNCHANGED <<code, token>>
    BY DEF factorVars, ApplyToken
  <1>2. PICK t \in Tokens : t = req[r].secret /\ t \in Secrets
    BY Kinds DEF ApplyToken, IInv, RequestsInv, RequestOK, TokenSteps
  <1>3. Holds(req[r], t) /\ granted' = [granted EXCEPT ![t] = granted[t] + 1]
    BY <1>2 DEF ApplyToken, Holds, TokenSteps
  <1>4. QED
    BY <1>1, <1>2, <1>3, GrantAbstract

(* A session is opened, with a recovery code or without. *)
LEMMA GrantCode ==
  ASSUME IInv, NEW r \in Requests, CreateSession(r)
  PROVE  (\E x \in Secrets : Abstract!Grant(x)) \/ UNCHANGED <<secretState, granted>>
  <1>1. UNCHANGED <<code, token>>
    BY DEF CreateSession
  <1>2. PICK p \in Request : p = req[r] /\ p.at = "session"
    BY DEF CreateSession, IInv, TypeOK
  <1>3. /\ granted \in [Secrets -> Nat]
        /\ granted' = [x \in Secrets |-> granted[x] + IF x = p.proof THEN 1 ELSE 0]
    BY <1>2 DEF CreateSession, IInv, TypeOK
  <1>4. CASE p.proof \in Secrets
    <2>1. granted' = [granted EXCEPT ![p.proof] = granted[p.proof] + 1]
      <3>1. \A x \in Secrets :
               granted'[x] = IF x = p.proof THEN granted[p.proof] + 1 ELSE granted[x]
        BY <1>3
      <3>2. granted' = [x \in Secrets |-> granted'[x]] /\ granted = [x \in Secrets |-> granted[x]]
        BY <1>3
      <3>3. QED
        BY <1>4, <3>1, <3>2
    <2>2. Holds(req[r], p.proof)
      BY <1>2 DEF Holds
    <2>3. QED
      BY <1>1, <1>4, <2>1, <2>2, GrantAbstract
  <1>5. CASE p.proof \notin Secrets
    <2>1. granted' = granted
      BY <1>3, <1>5
    <2>2. QED
      BY <1>1, <2>1, StateFrame
  <1>6. QED
    BY <1>4, <1>5

(* The other steps leave secrets alone. *)
LEMMA QuietTables ==
  ASSUME \/ \E r \in Requests, u \in Users :
               \/ Signup(r, u) \/ RequestEmailVerification(r, u) \/ RequestPasswordReset(r, u)
               \/ \E s \in Subjects : LinkGoogle(r, u, s)
               \/ \E s \in Subjects, c \in Named, f \in NamedFactors : GoogleLogin(r, s, u, c, f)
         \/ \E r \in Requests :
               \/ CreateUser(r) \/ ConfirmUser(r) \/ GoogleByEmail(r) \/ GoogleCreate(r)
               \/ GoogleLink(r) \/ LinkInsert(r) \/ Abort(r)
         \/ \E u \in Users : DeleteAccount(u) \/ \E s \in Subjects : UnlinkGoogle(u, s),
         UNCHANGED factorVars
  PROVE  UNCHANGED <<secretState, granted>>
  <1>1. UNCHANGED <<code, token>> /\ UNCHANGED granted
    BY DEF factorVars, Signup, RequestEmailVerification, RequestPasswordReset, RequestToken,
           LinkGoogle, GoogleLogin, CreateUser, ConfirmUser, GoogleByEmail, GoogleCreate,
           GoogleLink, LinkInsert, Abort, DeleteAccount, UnlinkGoogle
  <1>2. QED
    BY <1>1, StateFrame

LEMMA QuietFactorTables ==
  ASSUME \/ \E r \in Requests :
               \/ FactorRequest(r)
               \/ GoogleUser(r) \/ RiskRefuses(r) \/ CheckMfa(r) \/ EnforceTotp(r) \/ FindCode(r)
               \/ CountActive(r) \/ RevokeActive(r) \/ EndSessions(r)
               \/ \E f \in Factors : InsertKey(r, f) \/ FindKey(r, f)
               \/ DropRegistration(r) \/ UpdateCounter(r) \/ DropChallenge(r) \/ PasskeyUser(r)
         \/ FactorEvent
  PROVE  UNCHANGED <<secretState, granted>>
  <1>1. UNCHANGED <<code, token>> /\ UNCHANGED granted
    <2>1. CASE \E r \in Requests : FactorRequest(r)
      BY <2>1 DEF factorVars, FactorRequest, VerifyMfa, RegenerateCodes, Login, VerifyRegistration,
                  VerifyAuthentication
    <2>2. CASE FactorEvent
      BY <2>2 DEF accountVars, FactorEvent, EnrollMfa, ExpireChallenge, GenerateOptions, Sign
    <2>3. CASE \E r \in Requests :
               GoogleUser(r) \/ RiskRefuses(r) \/ CheckMfa(r) \/ EnforceTotp(r) \/ FindCode(r)
      BY <2>3 DEF factorVars, GoogleUser, RiskRefuses, CheckMfa, EnforceTotp, FindCode
    <2>4. CASE \E r \in Requests : CountActive(r) \/ RevokeActive(r) \/ EndSessions(r)
      BY <2>4 DEF factorVars, CountActive, RevokeActive, EndSessions
    <2>5. CASE \E r \in Requests, f \in Factors : InsertKey(r, f) \/ FindKey(r, f)
      BY <2>5 DEF factorVars, InsertKey, FindKey
    <2>6. CASE \E r \in Requests :
               DropRegistration(r) \/ UpdateCounter(r) \/ DropChallenge(r) \/ PasskeyUser(r)
      BY <2>6 DEF factorVars, DropRegistration, UpdateCounter, DropChallenge, PasskeyUser
    <2>7. QED
      BY <2>1, <2>2, <2>3, <2>4, <2>5, <2>6
  <1>2. QED
    BY <1>1, StateFrame

(* Every step of a handler is a step of OneTimeSecret or none. *)
LEMMA NextAbstract ==
  ASSUME IInv, IInv', Next
  PROVE  Abstract!OneTimeNext \/ UNCHANGED <<secretState, granted>>
  <1>1. ASSUME NEW r \in Requests, AccountRequest(r), UNCHANGED factorVars
        PROVE  Abstract!OneTimeNext \/ UNCHANGED <<secretState, granted>>
    <2>1. CASE \E t \in Tokens : ConfirmEmailVerification(r, t) \/ ConfirmPasswordReset(r, t)
      BY <1>1, <2>1, SpendToken, Kinds
      DEF ConfirmEmailVerification, ConfirmPasswordReset, Abstract!OneTimeNext
    <2>2. QED
      BY <1>1, <2>1, QuietTables DEF AccountRequest
  <1>2. ASSUME NEW r \in Requests, AccountStep(r), UNCHANGED factorVars
        PROVE  Abstract!OneTimeNext \/ UNCHANGED <<secretState, granted>>
    <2>1. CASE \E t \in Tokens : InsertToken(r, t)
      BY <1>2, <2>1, ReplaceToken DEF Abstract!OneTimeNext
    <2>2. CASE ApplyToken(r)
      BY <1>2, <2>2, GrantToken DEF Abstract!OneTimeNext
    <2>3. QED
      BY <1>2, <2>1, <2>2, QuietTables DEF AccountStep
  <1>3. ASSUME AccountEvent, UNCHANGED factorVars
        PROVE  Abstract!OneTimeNext \/ UNCHANGED <<secretState, granted>>
    <2>1. CASE \E t \in Tokens : ExpireToken(t)
      BY <1>3, <2>1, ReplaceToken DEF Abstract!OneTimeNext
    <2>2. QED
      BY <1>3, <2>1, QuietTables DEF AccountEvent
  <1>4. ASSUME NEW r \in Requests, FactorStep(r)
        PROVE  Abstract!OneTimeNext \/ UNCHANGED <<secretState, granted>>
    <2>1. CASE \E C \in SUBSET Codes : StoreBatch(r, C)
      BY <2>1, ReplaceCodes DEF Abstract!OneTimeNext
    <2>2. CASE MarkUsed(r)
      BY <2>2, SpendCode DEF Abstract!OneTimeNext
    <2>3. CASE CreateSession(r)
      BY <2>3, GrantCode DEF Abstract!OneTimeNext
    <2>4. QED
      BY <1>4, <2>1, <2>2, <2>3, QuietFactorTables DEF FactorStep
  <1>5. ASSUME FactorEvent \/ \E r \in Requests : FactorRequest(r)
        PROVE  UNCHANGED <<secretState, granted>>
    BY <1>5, QuietFactorTables
  <1>6. QED
    BY <1>1, <1>2, <1>3, <1>4, <1>5 DEF Next

(* Recovery codes, e-mail verification tokens and password reset tokens are  *)
(* one-time secrets: the handlers with their races implement OneTimeSecret.  *)
THEOREM SecretsWorkOnce == Spec => ImplementsOneTime
  <1>1. IInv /\ IInv' /\ [Next]_vars => [Abstract!OneTimeNext]_<<secretState, granted>>
    <2>1. ASSUME UNCHANGED vars PROVE UNCHANGED <<secretState, granted>>
      BY <2>1, StateFrame DEF vars, accountVars, factorVars
    <2>2. QED
      BY <2>1, NextAbstract
  <1>2. QED
    BY <1>1, InitAbstract, Invariance, PTL
    DEF Spec, ImplementsOneTime, Abstract!OneTimeSpec, Abstract!oneTimeVars

=============================================================================
