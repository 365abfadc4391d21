------------------------------ MODULE Accounts ------------------------------
(***************************************************************************)
(* Accounts and the ways to prove who one is without a second factor:      *)
(* signup, e-mail verification and password reset tokens, Google sign-in   *)
(* and linking.  A handler is a sequence of awaited statements, so other   *)
(* handlers run between any two of its steps.  An account is named by its  *)
(* e-mail address, which is unique in user_emails.                         *)
(***************************************************************************)
EXTENDS Naturals, FiniteSets

CONSTANTS
    Users,                      \* accounts, one per e-mail address
    Registered,                 \* the accounts there are at the start
    Subjects,                   \* Google subjects
    EmailTokens, ResetTokens,   \* tokens the generator can produce
    Codes,                      \* recovery codes it can produce
    Factors,                    \* rows of mfa_factors
    Challenges,                 \* WebAuthn challenges
    Requests,                   \* slots for handlers in flight
    None,
    MaxRequests                 \* bound: requests served

Tokens == EmailTokens \union ResetTokens
Secrets == Codes \union Tokens

ASSUME AccountsAssumption ==
    /\ Registered \subseteq Users
    /\ MaxRequests \in Nat
    /\ EmailTokens \intersect ResetTokens = {}
    /\ Codes \intersect Tokens = {}
    /\ Secrets \intersect (Factors \union Challenges) = {}
    /\ Factors \intersect Challenges = {}
    /\ None \notin Users \union Subjects \union Secrets \union Factors \union Challenges

VARIABLES
    users,      \* status, password and e-mail verification
    token,      \* rows of email_verification_tokens and password_reset_tokens
    identity,   \* rows of external_identities: the account of a subject
    open,       \* number of open sessions
    req,        \* handlers in flight
    begun,      \* requests served so far
    granted,    \* history: what each secret was good for
    severed     \* history: links that were taken away

accountVars == <<users, token, identity, open, req, begun, granted, severed>>

-----------------------------------------------------------------------------
(* State. *)

(* password: "none" for accounts Google created, or what set it last *)
Account == [status : {"none", "active", "deleted"},
            password : {"none", "first"} \union ResetTokens,
            verified : BOOLEAN]

NoAccount == [status |-> "none", password |-> "none", verified |-> FALSE]

NewAccount == [status |-> "active", password |-> "first", verified |-> FALSE]

(* mutant of GoogleAccount: a status the other handlers do not know *)
GoogleAccountInvited == [status |-> "invited", password |-> "none", verified |-> TRUE]

GoogleAccount == [status |-> "active", password |-> "none", verified |-> TRUE]

Token == [state : {"unissued", "live", "spent", "dead"}, user : Users \union {None}]

Steps == {"idle", "emailToken", "resetToken", "signup", "tokenUser", "tokenApply",
          "googleEmail", "googleCreate", "googleLink", "googleUser", "link",
          "mfa", "enforce", "markUsed", "session",
          "count", "revoke", "store", "endSessions",
          "insertKey", "dropRegistration",
          "findKey", "updateCounter", "dropChallenge", "passkeyUser"}

(* secret and factor are what the request carries, proof is what the code   *)
(* has accepted; seen are the rows an UPDATE has found; past, guarded and   *)
(* prior only remember how things were when the handler looked              *)
Request ==
    [at : Steps, user : Users \union {None}, subject : Subjects \union {None},
     secret : Secrets \union {None}, factor : Factors \union {None},
     challenge : Challenges \union {None},
     proof : Codes \union Factors \union Challenges \union {None},
     regenerate : BOOLEAN, seen : SUBSET Codes, past : SUBSET Codes,
     guarded : BOOLEAN, prior : Nat]

Idle ==
    [at |-> "idle", user |-> None, subject |-> None, secret |-> None,
     factor |-> None, challenge |-> None, proof |-> None, regenerate |-> FALSE,
     seen |-> {}, past |-> {}, guarded |-> FALSE, prior |-> 0]

AccountsInit ==
    /\ users = [u \in Users |-> IF u \in Registered THEN NewAccount ELSE NoAccount]
    /\ token = [t \in Tokens |-> [state |-> "unissued", user |-> None]]
    /\ identity = [s \in Subjects |-> None]
    /\ open = [u \in Users |-> 0]
    /\ req = [r \in Requests |-> Idle]
    /\ begun = 0
    /\ granted = [x \in Secrets |-> 0]
    /\ severed = {}

-----------------------------------------------------------------------------
(* Handlers in general. *)

Active(u) == users[u].status = "active"

HasPassword(u) == users[u].password # "none"

Serve == begun < MaxRequests /\ begun' = begun + 1

(* the first statement of a handler has been answered *)
Begin(r, q) ==
    /\ req[r].at = "idle"
    /\ Serve
    /\ req' = [req EXCEPT ![r] = q]

Goto(r, step) == req' = [req EXCEPT ![r].at = step] /\ UNCHANGED begun

Done(r) == req' = [req EXCEPT ![r] = Idle] /\ UNCHANGED begun

(* the handler goes on, or throws *)
Proceed(r, holds, step) == IF holds THEN Goto(r, step) ELSE Done(r)

(* the rate limiter refuses, a statement fails, or the process dies *)
Abort(r) ==
    /\ req[r].at # "idle"
    /\ Done(r)
    /\ UNCHANGED <<users, token, identity, open, granted, severed>>

-----------------------------------------------------------------------------
(* Signup and one-time tokens. *)

(* signup: findByEmail finds nobody, or it throws *)
Signup(r, u) ==
    /\ users[u].status = "none"
    /\ Begin(r, [Idle EXCEPT !.at = "signup", !.user = u])
    /\ UNCHANGED <<users, token, identity, open, granted, severed>>

(* create: the unique e-mail address refuses a second account *)
CreateUser(r) ==
    /\ req[r].at = "signup"
    /\ LET u == req[r].user
           free == users[u].status = "none"
       IN  /\ users' = IF free THEN [users EXCEPT ![u] = NewAccount] ELSE users
           /\ Proceed(r, free, "emailToken")
    /\ UNCHANGED <<token, identity, open, granted, severed>>

(* an unknown or inactive account gets the same answer and no token *)
RequestToken(r, u, step) ==
    /\ Active(u)
    /\ Begin(r, [Idle EXCEPT !.at = step, !.user = u])
    /\ UNCHANGED <<users, token, identity, open, granted, severed>>

RequestEmailVerification(r, u) == RequestToken(r, u, "emailToken")

RequestPasswordReset(r, u) == RequestToken(r, u, "resetToken")

(* createEmailToken, createPasswordToken *)
InsertToken(r, t) ==
    /\ \/ req[r].at = "emailToken" /\ t \in EmailTokens
       \/ req[r].at = "resetToken" /\ t \in ResetTokens
    /\ token[t].state = "unissued"
    /\ token' = [token EXCEPT ![t] = [state |-> "live", user |-> req[r].user]]
    /\ Done(r)
    /\ UNCHANGED <<users, identity, open, granted, severed>>

(* time passes expiresAt *)
ExpireToken(t) ==
    /\ token[t].state = "live"
    /\ token' = [token EXCEPT ![t].state = "dead"]
    /\ UNCHANGED <<users, identity, open, req, begun, granted, severed>>

(* mutant of CanConsume: consumedAt is not in the WHERE clause *)
CanConsumeAgain(t) == token[t].state \in {"live", "spent"}

(* the WHERE clause of consumeValid...TokenByHash *)
CanConsume(t) == token[t].state = "live"

(* one UPDATE finds the token and consumes it *)
ConsumeToken(r, t) ==
    /\ CanConsume(t)
    /\ Begin(r, [Idle EXCEPT !.at = "tokenUser", !.user = token[t].user, !.secret = t])
    /\ token' = [token EXCEPT ![t].state = "spent"]
    /\ UNCHANGED <<users, identity, open, granted, severed>>

ConfirmEmailVerification(r, t) == t \in EmailTokens /\ ConsumeToken(r, t)

ConfirmPasswordReset(r, t) == t \in ResetTokens /\ ConsumeToken(r, t)

(* findById: the token of an inactive account is gone all the same *)
ConfirmUser(r) ==
    /\ req[r].at = "tokenUser"
    /\ Proceed(r, Active(req[r].user), "tokenApply")
    /\ UNCHANGED <<users, token, identity, open, granted, severed>>

(* update: an account without a row in user_passwords gets none here *)
ApplyToken(r) ==
    /\ req[r].at = "tokenApply"
    /\ LET u == req[r].user
           t == req[r].secret
       IN  /\ users' = IF t \in EmailTokens THEN [users EXCEPT ![u].verified = TRUE]
                       ELSE IF HasPassword(u) THEN [users EXCEPT ![u].password = t]
                       ELSE users
           /\ granted' = [granted EXCEPT ![t] = @ + 1]
    /\ Done(r)
    /\ UNCHANGED <<token, identity, open, severed>>

-----------------------------------------------------------------------------
(* Google. *)

(* loginWithGoogle: findByProvider.  The ID token is valid, names subject s *)
(* and the verified address of u; the request may carry a code or a factor  *)
GoogleLogin(r, s, u, c, f) ==
    /\ c = None \/ f = None
    /\ LET linked == identity[s] # None
       IN  Begin(r, [Idle EXCEPT !.at = IF linked THEN "googleUser" ELSE "googleEmail",
                                 !.user = IF linked THEN identity[s] ELSE u,
                                 !.subject = s, !.secret = c, !.factor = f])
    /\ UNCHANGED <<users, token, identity, open, granted, severed>>

(* findByEmail *)
GoogleByEmail(r) ==
    /\ req[r].at = "googleEmail"
    /\ CASE users[req[r].user].status = "none" -> Goto(r, "googleCreate")
         [] users[req[r].user].status = "active" -> Goto(r, "googleLink")
         [] OTHER -> Done(r)
    /\ UNCHANGED <<users, token, identity, open, granted, severed>>

(* createWithoutPassword: the unique e-mail address refuses a second one *)
GoogleCreate(r) ==
    /\ req[r].at = "googleCreate"
    /\ LET u == req[r].user
           free == users[u].status = "none"
       IN  /\ users' = IF free THEN [users EXCEPT ![u] = GoogleAccount] ELSE users
           /\ Proceed(r, free, "googleLink")
    /\ UNCHANGED <<token, identity, open, granted, severed>>

(* mutant of GoogleLink: a conflict is taken for success *)
GoogleLinkQuietly(r) ==
    /\ req[r].at = "googleLink"
    /\ identity' = [identity EXCEPT ![req[r].subject] =
                       IF @ = None THEN req[r].user ELSE @]
    /\ Goto(r, "googleUser")
    /\ UNCHANGED <<users, token, open, granted, severed>>

(* identityRepository.create: (provider, subject) is unique *)
GoogleLink(r) ==
    /\ req[r].at = "googleLink"
    /\ LET free == identity[req[r].subject] = None
       IN  /\ identity' = IF free THEN [identity EXCEPT ![req[r].subject] = req[r].user]
                          ELSE identity
           /\ Proceed(r, free, "googleUser")
    /\ UNCHANGED <<users, token, open, granted, severed>>

(* POST /v1/identities/google/link: the password, the account, the e-mail   *)
(* address and findByProvider have been looked at                           *)
LinkGoogle(r, u, s) ==
    /\ Active(u) /\ HasPassword(u)
    /\ identity[s] = None
    /\ Begin(r, [Idle EXCEPT !.at = "link", !.user = u, !.subject = s])
    /\ UNCHANGED <<users, token, identity, open, granted, severed>>

(* the INSERT meets the unique (provider, subject) *)
LinkInsert(r) ==
    /\ req[r].at = "link"
    /\ identity' = [identity EXCEPT ![req[r].subject] =
                       IF @ = None THEN req[r].user ELSE @]
    /\ Done(r)
    /\ UNCHANGED <<users, token, open, granted, severed>>

(* POST /v1/identities/google/unlink *)
UnlinkGoogle(u, s) ==
    /\ Active(u) /\ HasPassword(u)
    /\ identity[s] = u
    /\ Serve
    /\ identity' = [identity EXCEPT ![s] = None]
    /\ severed' = severed \union {<<s, u>>}
    /\ UNCHANGED <<users, token, open, req, granted>>

(* DELETE /v1/account as module AccountDeletion has it *)
DeleteAccount(u) ==
    /\ Active(u)
    /\ Serve
    /\ users' = [users EXCEPT ![u].status = "deleted"]
    /\ open' = [open EXCEPT ![u] = 0]
    /\ UNCHANGED <<token, identity, req, granted, severed>>
=============================================================================
