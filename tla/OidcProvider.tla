---------------------------- MODULE OidcProvider ----------------------------
(***************************************************************************)
(* The OIDC provider on its Postgres adapter: grants, codes and tokens as  *)
(* rows of oidc_provider_states, the token and revocation endpoints as the *)
(* sequence of adapter calls the provider library makes, and the check of  *)
(* the client before them.  The API server's own OAuth endpoints make the  *)
(* same check and then work on sessions (module Sessions).                 *)
(***************************************************************************)
EXTENDS OAuthClients

CONSTANTS
    Browsers,
    Requests,                   \* slots for requests to the provider in flight
    CodeTtl,                    \* of an authorization code, in ticks
    MaxRows, MaxCodes, MaxGrants, MaxLogins     \* bounds: of rows, of rows when a
                                                \* code is issued, of grants and logins

ASSUME ProviderAssumption ==
    /\ CodeTtl \in Nat /\ MaxRows \in Nat /\ MaxCodes \in Nat /\ MaxGrants \in Nat /\ MaxLogins \in Nat
    /\ None \notin Browsers

VARIABLES
    row,        \* rows of the models AuthorizationCode, AccessToken, RefreshToken
    grants,     \* rows of the model Grant
    psession,   \* the grant the provider's session of each browser knows, 0 if none
    used, granted,  \* how many rows and grants there have been: ids are not used again
    req,        \* requests in flight
    revoked,    \* history: grants whose rows a replay has deleted
    over        \* history: those whose grant it has destroyed as well

providerVars == <<row, grants, psession, used, granted, req, revoked, over>>

Rows == 1..MaxRows
Grants == 1..MaxGrants

(* late and after only remember: the row was saved when its grant was already *)
(* in revoked, by a request that found its code or token when it was over     *)
NoRow == [model |-> "none", grant |-> 0, login |-> 0, expires |-> 0, consumed |-> FALSE,
          late |-> FALSE, after |-> FALSE]

(* goal: what is asked for; row: what is presented; grant, login, spent: what *)
(* was read of it; token: the access token saved.  browser and verifier       *)
(* belong to a callback of module RelyingParty, reply and since to an answer  *)
(* and the moment it was made; after and crossed only remember                *)
NoRequest ==
    [at |-> "idle", goal |-> "api", client |-> None, secret |-> None, row |-> 0,
     grant |-> 0, login |-> 0, spent |-> FALSE, token |-> 0, verifier |-> 0,
     browser |-> None, reply |-> "none", since |-> 0, after |-> FALSE, crossed |-> FALSE]

ProviderInit ==
    /\ row = [i \in Rows |-> NoRow]
    /\ grants = {} /\ psession = [b \in Browsers |-> 0]
    /\ used = 0 /\ granted = 0
    /\ req = [r \in Requests |-> NoRequest]
    /\ revoked = {} /\ over = {}

Goto(r, q) == req' = [req EXCEPT ![r] = q] /\ UNCHANGED <<clientVars, now, begun>>

Done(r) == Goto(r, NoRequest)

Open(r, q) ==
    /\ req[r].at = "idle"
    /\ begun < MaxRequests /\ begun' = begun + 1
    /\ req' = [req EXCEPT ![r] = q]
    /\ UNCHANGED <<clientVars, now>>

-----------------------------------------------------------------------------
(* The adapter. *)

(* upsert of a new id *)
Upsert(new) ==
    /\ used < MaxRows /\ used' = used + 1
    /\ row' = [row EXCEPT ![used + 1] = new]

(* find: rows that have expired are not seen *)
Found(i) == row[i].model # "none" /\ row[i].expires > now

(* consume: one UPDATE, whatever consumed_at was *)
ConsumeRow(i) == [row EXCEPT ![i].consumed = row[i].model # "none"]

DestroyRow(i) == [row EXCEPT ![i] = NoRow]

(* mutant of RevokeByGrantId: only rows of the adapter's own model *)
RevokeCodesOnly(g) ==
    [i \in Rows |-> IF row[i].grant = g /\ row[i].model = "code" THEN NoRow ELSE row[i]]

(* revokeByGrantId: the rows of every model *)
RevokeByGrantId(g) == [i \in Rows |-> IF row[i].grant = g THEN NoRow ELSE row[i]]

-----------------------------------------------------------------------------
(* The authorization endpoint, for a browser whose user has signed in        *)
(* (SecondFactor!Login).                                                    *)

(* finishConsent: a grant is saved unless the session's is still there *)
Consent(b) ==
    /\ psession[b] \notin grants
    /\ granted < MaxGrants /\ granted' = granted + 1
    /\ grants' = grants \union {granted + 1}
    /\ psession' = [psession EXCEPT ![b] = granted + 1]
    /\ UNCHANGED <<clientVars, now, begun, row, used, req, revoked, over>>

(* a code for the login whose authorization URL the browser has opened *)
IssueCode(b, login) ==
    /\ Active(AppClient) /\ HasMetadata(AppClient)
    /\ psession[b] \in grants /\ used < MaxCodes
    /\ Upsert([NoRow EXCEPT !.model = "code", !.grant = psession[b], !.login = login,
                            !.expires = now + CodeTtl])
    /\ UNCHANGED <<clientVars, now, begun, grants, psession, granted, req, revoked, over>>

(* the end-session endpoint *)
EndSession(b) ==
    /\ psession[b] # 0
    /\ psession' = [psession EXCEPT ![b] = 0]
    /\ UNCHANGED <<clientVars, now, begun, row, grants, used, granted, req, revoked, over>>

-----------------------------------------------------------------------------
(* Requests with client credentials. *)

(* the provider knows the environment's client by its configuration and does *)
(* not look for it in the registry                                          *)
Static(q) == q.goal # "api" /\ q.client = EnvClient

(* the client's row is read, or none is needed *)
Ask(r, q) ==
    \/ EnvMatch(q.client, q.secret) /\ Open(r, [q EXCEPT !.at = "find"])
    \/ ~Static(q) /\ Active(q.client) /\ Open(r, [q EXCEPT !.at = "secrets"])

(* a client calls an OAuth endpoint of the API server, or the provider through *)
(* the SDK, with credentials it was once given and a token of its own          *)
Present(r, goal, i, c, s) ==
    /\ EnvMatch(c, s) \/ (s \in Secrets /\ secret[s].of = c)
    /\ \/ goal = "api" /\ i = 0
       \/ goal = "refresh" /\ c = AppClient /\ i \in Rows /\ row[i].model = "refresh"
       \/ goal = "revoke" /\ c = AppClient /\ i \in Rows /\ row[i].model \in {"access", "refresh"}
    /\ Ask(r, [NoRequest EXCEPT !.goal = goal, !.row = i, !.client = c, !.secret = s])
    /\ UNCHANGED <<row, grants, psession, used, granted, revoked, over>>

(* the secrets are read and compared; at the provider the client must have   *)
(* what buildOidcClientMetadata asks for                                    *)
CheckSecret(r) ==
    LET q == req[r] IN
    /\ q.at = "secrets"
    /\ IF SecretMatches(q.client, q.secret) /\ (q.goal = "api" \/ HasMetadata(q.client))
       THEN Goto(r, [q EXCEPT !.at = "find"])
       ELSE Done(r)
    /\ UNCHANGED <<row, grants, psession, used, granted, revoked, over>>

(* the code or token is looked up; the API server goes on in module Sessions *)
FindRow(r) ==
    LET q == req[r] IN
    /\ q.at = "find"
    /\ IF q.goal = "api" \/ ~Found(q.row) THEN Done(r)
       ELSE Goto(r, [q EXCEPT !.at = IF q.goal = "revoke" THEN "destroy" ELSE "grant",
                              !.grant = row[q.row].grant, !.login = row[q.row].login,
                              !.spent = row[q.row].consumed,
                              !.after = row[q.row].grant \in over])
    /\ UNCHANGED <<row, grants, psession, used, granted, revoked, over>>

(* the grant must be there and the verifier the one of the code's challenge; *)
(* what was consumed before ends the grant                                  *)
CheckGrant(r) ==
    LET q == req[r] IN
    /\ q.at = "grant"
    /\ IF q.grant \notin grants \/ (q.goal = "code" /\ q.verifier # q.login) THEN Done(r)
       ELSE Goto(r, [q EXCEPT !.at = IF q.spent THEN "revoke" ELSE "consume"])
    /\ UNCHANGED <<row, grants, psession, used, granted, revoked, over>>

(* a code is consumed; a refresh token only if it is rotated *)
Consume(r) ==
    LET q == req[r] IN
    /\ q.at = "consume"
    /\ \/ row' = ConsumeRow(q.row) /\ Goto(r, [q EXCEPT !.at = "save"])
       \/ q.goal = "refresh" /\ row' = row /\ Goto(r, [q EXCEPT !.at = "access"])
    /\ UNCHANGED <<grants, psession, used, granted, revoked, over>>

Token(q, model) ==
    [NoRow EXCEPT !.model = model, !.grant = q.grant, !.expires = MaxTime + 1,
                  !.late = q.grant \in revoked, !.after = q.after]

(* the access token is saved, and a refresh token after it when one is due:   *)
(* with the scope offline_access, and when one was rotated                  *)
SaveAccess(r) ==
    LET q == req[r]
        saved == [q EXCEPT !.token = used + 1]
    IN  /\ q.at \in {"save", "access"}
        /\ Upsert(Token(q, "access"))
        /\ \/ q.at = "save" /\ Goto(r, [saved EXCEPT !.at = "refresh"])
           \/ (q.at = "access" \/ q.goal = "code") /\ Goto(r, [saved EXCEPT !.at = "response"])
        /\ UNCHANGED <<grants, psession, granted, revoked, over>>

SaveRefresh(r) ==
    LET q == req[r] IN
    /\ q.at = "refresh"
    /\ Upsert(Token(q, "refresh"))
    /\ Goto(r, [q EXCEPT !.at = "response"])
    /\ UNCHANGED <<grants, psession, granted, revoked, over>>

(* nobody is waiting for the response but the caller of the SDK *)
Respond(r) ==
    /\ req[r].at = "response" /\ req[r].browser = None
    /\ Done(r)
    /\ UNCHANGED <<row, grants, psession, used, granted, revoked, over>>

(* the revocation endpoint: an access token alone, a refresh token with its grant *)
Destroy(r) ==
    LET q == req[r] IN
    /\ q.at = "destroy"
    /\ row' = DestroyRow(q.row)
    /\ IF row[q.row].model = "refresh" THEN Goto(r, [q EXCEPT !.at = "revoke"]) ELSE Done(r)
    /\ UNCHANGED <<grants, psession, used, granted, revoked, over>>

Revoke(r) ==
    LET q == req[r] IN
    /\ q.at = "revoke"
    /\ row' = RevokeByGrantId(q.grant)
    /\ revoked' = revoked \union {q.grant}
    /\ Goto(r, [q EXCEPT !.at = "end"])
    /\ UNCHANGED <<grants, psession, used, granted, over>>

DestroyGrant(r) ==
    LET q == req[r] IN
    /\ q.at = "end"
    /\ grants' = grants \ {q.grant}
    /\ over' = over \union {q.grant}
    /\ Done(r)
    /\ UNCHANGED <<row, psession, used, granted, revoked>>

(* a statement fails or the process ends *)
Fail(r) ==
    /\ req[r].at # "idle"
    /\ Done(r)
    /\ UNCHANGED <<row, grants, psession, used, granted, revoked, over>>

ProviderNext ==
    \/ \E b \in Browsers : Consent(b) \/ EndSession(b)
    \/ \E r \in Requests :
          \/ \E goal \in {"api", "refresh", "revoke"}, i \in 0..MaxRows,
                c \in Clients, s \in Secrets \union {EnvSecret} : Present(r, goal, i, c, s)
          \/ CheckSecret(r) \/ FindRow(r) \/ CheckGrant(r) \/ Consume(r)
          \/ SaveAccess(r) \/ SaveRefresh(r) \/ Respond(r)
          \/ Destroy(r) \/ Revoke(r) \/ DestroyGrant(r) \/ Fail(r)

-----------------------------------------------------------------------------
(* A code or a refresh token that was used before ends its grant: no token   *)
(* saved until its rows are deleted outlives that, and none comes from a      *)
(* request that found its code or token once the grant was over.  Those a     *)
(* request in flight saves in between stay behind.                           *)
ReplayEndsGrant ==
    \A i \in Rows : (row[i].model \in {"access", "refresh"} /\ row[i].grant \in revoked)
                        => row[i].late /\ ~row[i].after
=============================================================================
