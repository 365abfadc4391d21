---------------------------- MODULE OAuthClients ----------------------------
(***************************************************************************)
(* The client registry: clients, their secrets and what administrators do  *)
(* to them, and the check of a client's credentials.  Transactions run at  *)
(* READ COMMITTED: a statement sees what is committed when it begins, and  *)
(* an UPDATE that waited for a row lock looks at the row again.            *)
(***************************************************************************)
EXTENDS Naturals, FiniteSets

CONSTANTS
    Clients, Secrets,           \* client ids; secrets, which never repeat
    AppClient, AppSecret,       \* registered at the start: the relying party's
    EnvClient, EnvSecret,       \* OAUTH_CLIENT_ID, OAUTH_CLIENT_SECRET
    Admins,                     \* slots for administrators' requests in flight
    GracePeriods,               \* gracePeriodDays, in ticks
    None,
    MaxTime, MaxRequests        \* bounds

ASSUME ClientsAssumption ==
    /\ {AppClient, EnvClient} \subseteq Clients
    /\ AppSecret \in Secrets /\ EnvSecret \notin Secrets
    /\ None \notin Clients \union Secrets
    /\ GracePeriods \subseteq Nat
    /\ MaxTime \in Nat /\ MaxRequests \in Nat

VARIABLES
    client,     \* rows of oauth_clients, with their redirect URIs and scopes
    secret,     \* rows of oauth_client_secrets
    adm,        \* administrators' requests in flight
    now, begun,
    shut        \* history: how a client was last disabled, "overlapped" when an update
                \* of it that had read the row was still to write it, else "clean"

clientVars == <<client, secret, adm, shut>>

-----------------------------------------------------------------------------
(* Rows. *)

(* oidc: a confidential client with a redirect URI and the scope openid *)
NoClient == [status |-> "none", oidc |-> "no"]

(* grace is 0 when graceUntil is null *)
NoSecret == [of |-> None, primary |-> FALSE, grace |-> 0]

Registered(c) == client[c].status # "none"

Primaries(c) == {s \in Secrets : secret[s].of = c /\ secret[s].primary}

(* isSecretUsable; revokedAt and expiresAt are never set *)
Usable(s) == secret[s].primary \/ secret[s].grace > now

NoTask == [at |-> "idle", client |-> None, status |-> "keep", oidc |-> "keep",
           found |-> None, grace |-> 0]

ClientsInit ==
    /\ client = [c \in Clients |-> IF c = AppClient THEN [status |-> "active", oidc |-> "yes"]
                                                    ELSE NoClient]
    /\ secret = [s \in Secrets |-> IF s = AppSecret
                                   THEN [of |-> AppClient, primary |-> TRUE, grace |-> 0]
                                   ELSE NoSecret]
    /\ adm = [a \in Admins |-> NoTask]
    /\ now = 0 /\ begun = 0
    /\ shut = [c \in Clients |-> "no"]

Start(a, task) ==
    /\ adm[a].at = "idle"
    /\ begun < MaxRequests /\ begun' = begun + 1
    /\ adm' = [adm EXCEPT ![a] = task]

End(a) == adm' = [adm EXCEPT ![a] = NoTask]

-----------------------------------------------------------------------------
(* Operations of administrators whom assertAdminPermission has let in. *)

(* POST /v1/admin/oauth/clients: one transaction; a client id that is taken   *)
(* fails it                                                                  *)
CreateClient(c, s, oidc) ==
    /\ ~Registered(c) /\ secret[s].of = None
    /\ begun < MaxRequests /\ begun' = begun + 1
    /\ client' = [client EXCEPT ![c] = [status |-> "active", oidc |-> oidc]]
    /\ secret' = [secret EXCEPT ![s] = [of |-> c, primary |-> TRUE, grace |-> 0]]
    /\ UNCHANGED <<adm, now, shut>>

(* what PUT, .../disable and .../enable ask for *)
Updates ==
    {[status |-> "disabled", oidc |-> "keep"], [status |-> "active", oidc |-> "keep"],
     [status |-> "keep", oidc |-> "yes"], [status |-> "keep", oidc |-> "no"]}

(* updateClient reads the row without locking it; what is not asked for will  *)
(* be written as it was read                                                 *)
UpdateClient(a, c, u) ==
    /\ Registered(c)
    /\ Start(a, [NoTask EXCEPT !.at = "update", !.client = c, !.oidc = u.oidc,
                               !.status = u.status, !.found = client[c].status])
    /\ UNCHANGED <<client, secret, now, shut>>

(* what shut remembers of a client once a's update is committed *)
ShutBy(a) ==
    LET t == adm[a]
        others == {b \in Admins \ {a} : adm[b].at = "update" /\ adm[b].client = t.client}
    IN  CASE t.status = "active" -> "no"
          [] t.status = "keep" -> shut[t.client]
          [] t.status = "disabled" ->
                IF shut[t.client] = "clean" \/ others = {} THEN "clean" ELSE "overlapped"

(* mutant of CommitUpdate: every update enables the client *)
CommitUpdateActive(a) ==
    LET t == adm[a] IN
    /\ t.at = "update"
    /\ client' = [client EXCEPT ![t.client] =
          [status |-> IF t.status = "keep" THEN "active" ELSE t.status,
           oidc |-> IF t.oidc = "keep" THEN @.oidc ELSE t.oidc]]
    /\ shut' = [shut EXCEPT ![t.client] = ShutBy(a)]
    /\ End(a)
    /\ UNCHANGED <<secret, now, begun>>

(* the UPDATE, once no other transaction holds the row, and the commit *)
CommitUpdate(a) ==
    LET t == adm[a] IN
    /\ t.at = "update"
    /\ client' = [client EXCEPT ![t.client] =
          [status |-> IF t.status = "keep" THEN t.found ELSE t.status,
           oidc |-> IF t.oidc = "keep" THEN @.oidc ELSE t.oidc]]
    /\ shut' = [shut EXCEPT ![t.client] = ShutBy(a)]
    /\ End(a)
    /\ UNCHANGED <<secret, now, begun>>

(* rotateSecret: the client exists, and the UPDATE that demotes begins *)
RotateSecret(a, c, days) ==
    /\ Registered(c)
    /\ Start(a, [NoTask EXCEPT !.at = "demote", !.client = c,
                               !.found = CHOOSE s \in Primaries(c) : TRUE,
                               !.grace = IF days > 0 THEN now + days ELSE 0])
    /\ UNCHANGED <<client, secret, now, shut>>

(* the UPDATE gets its row once no other transaction holds it, and leaves it  *)
(* alone if it is not primary any more                                       *)
DemotePrimary(a) ==
    LET s == adm[a].found IN
    /\ adm[a].at = "demote"
    /\ \A b \in Admins : ~(adm[b].at = "insert" /\ adm[b].found = s)
    /\ adm' = [adm EXCEPT ![a].at = "insert", ![a].found = IF secret[s].primary THEN s ELSE None]
    /\ UNCHANGED <<client, secret, now, begun, shut>>

(* mutant of InsertSecret: no partial unique index on the primary secret *)
InsertSecretAnyway(a, s) ==
    LET t == adm[a] IN
    /\ t.at = "insert" /\ secret[s].of = None
    /\ secret' = [x \in Secrets |->
          CASE x = s -> [of |-> t.client, primary |-> TRUE, grace |-> 0]
            [] x = t.found -> [secret[x] EXCEPT !.primary = FALSE, !.grace = t.grace]
            [] OTHER -> secret[x]]
    /\ End(a)
    /\ UNCHANGED <<client, now, begun, shut>>

(* the INSERT and the commit, which makes both visible; a second primary      *)
(* meets the unique index, and the transaction is rolled back (Cut)          *)
InsertSecret(a, s) ==
    LET t == adm[a] IN
    /\ t.at = "insert" /\ secret[s].of = None
    /\ Primaries(t.client) \ {t.found} = {}
    /\ secret' = [x \in Secrets |->
          CASE x = s -> [of |-> t.client, primary |-> TRUE, grace |-> 0]
            [] x = t.found -> [secret[x] EXCEPT !.primary = FALSE, !.grace = t.grace]
            [] OTHER -> secret[x]]
    /\ End(a)
    /\ UNCHANGED <<client, now, begun, shut>>

(* a transaction that fails or is refused by an index changes nothing *)
Cut(a) ==
    /\ adm[a].at # "idle"
    /\ End(a)
    /\ UNCHANGED <<client, secret, now, begun, shut>>

ClientsNext ==
    \/ \E c \in Clients, s \in Secrets, oidc \in {"yes", "no"} : CreateClient(c, s, oidc)
    \/ \E a \in Admins, c \in Clients :
          \/ \E u \in Updates : UpdateClient(a, c, u)
          \/ \E days \in GracePeriods : RotateSecret(a, c, days)
    \/ \E a \in Admins :
          \/ CommitUpdate(a) \/ DemotePrimary(a) \/ Cut(a)
          \/ \E s \in Secrets : InsertSecret(a, s)

-----------------------------------------------------------------------------
(* The check of credentials: authenticateClientBasic, and findClient with    *)
(* compareClientSecret at the provider.                                     *)

(* the pair of the environment is accepted whatever the registry says *)
EnvMatch(c, s) == c = EnvClient /\ s = EnvSecret

(* the first query *)
Active(c) == client[c].status = "active"

(* the second query, and the hashes compared *)
SecretMatches(c, s) == s \in Secrets /\ secret[s].of = c /\ Usable(s)

(* buildOidcClientMetadata: what the provider can work with *)
HasMetadata(c) == client[c].oidc = "yes" /\ \E s \in Secrets : secret[s].of = c /\ Usable(s)
=============================================================================
