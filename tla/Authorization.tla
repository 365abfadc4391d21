--------------------------- MODULE Authorization ---------------------------
(***************************************************************************)
(* Roles, entitlements and the cache of decisions in Redis.                *)
(* authorizationCheck and entitlementCheck look into the cache, read the   *)
(* tables statement by statement and write the decision back; operators    *)
(* change the tables by hand; ending a user's sessions purges the user's    *)
(* decisions; the admin routes ask twice before they act.                  *)
(***************************************************************************)
EXTENDS Naturals, FiniteSets, Sequences

CONSTANTS
    Users,
    CachedUsers,        \* users whose bucket is below RBAC_CACHE_PERCENT
    Admins,             \* users the seed gives the admin role
    Grantable,          \* permission keys that roles carry
    Clients, Asked,     \* bounds: who sends requests, and the questions put
    Requests,           \* slots for handlers in flight
    None,
    SodEnforced,        \* ADMIN_SOD_ENFORCED
    AuthTtl, EntTtl, NegativeTtl,
    MaxTime, MaxRequests, MaxChanges    \* bounds

VARIABLES
    direct,     \* permission keys of the user's own roles
    grouped,    \* permission keys of the roles of the user's groups
    entitled,   \* the entitlement a user's, group's or organization's row gives
    cache,      \* decisions in Redis
    now,
    req,        \* handlers in flight
    begun,      \* requests served so far
    settings,   \* who wrote the runtime configuration last
    changes,    \* changes operators have made
    wrong       \* history: when the cached decision on a question may last have
                \* come to disagree with the tables; 0 once it was deleted

vars == <<direct, grouped, entitled, cache, now, req, begun, settings, changes, wrong>>

-----------------------------------------------------------------------------
(* What is asked. *)

(* admin.config:write, admin.audit:export, admin:manage, and a resource of   *)
(* another name that normalizeKeyPart turns into admin.config                *)
PermissionQuestions == {"config", "export", "manage", "alias"}

(* an entitlement asked for without and with a quantity and an organization  *)
EntitlementQuestions == {"feature", "seats"}

Questions == PermissionQuestions \union EntitlementQuestions

ASSUME AuthorizationAssumption ==
    /\ CachedUsers \subseteq Users /\ Admins \subseteq Users /\ Clients \subseteq Users
    /\ Asked \subseteq Questions
    /\ None \notin Users
    /\ SodEnforced \in BOOLEAN
    /\ AuthTtl \in Nat /\ EntTtl \in Nat /\ NegativeTtl \in Nat
    /\ MaxTime \in Nat /\ MaxRequests \in Nat /\ MaxChanges \in Nat

(* the key itself, <resource>:all, and the wildcard *)
Covers == [config |-> {"config", "config:all", "*"},
           export |-> {"export", "audit:all", "*"},
           manage |-> {"manage", "admin:all", "*"},
           alias |-> {"alias", "alias:all", "*"}]

CacheKeys == Questions \ {"alias"}

(* buildAuthorizationCacheKey, buildEntitlementCacheKey: names that differ   *)
(* in colons and blanks only share a key                                     *)
KeyOf(q) == IF q = "alias" THEN "config" ELSE q

Scopes == {"user", "group", "organization"}

Row == [value : {"none", "limited", "unlimited"}, until : Nat]

NoRow == [value |-> "none", until |-> 0]

(* bound: what operators put into a row *)
NewRows == {NoRow, [value |-> "limited", until |-> MaxTime], [value |-> "unlimited", until |-> 2]}

(* enabled and not expired *)
Active(row, t) == row.value # "none" /\ row.until > t

(* the quantity asked for is above the limit of a limited row *)
Grants(row, q) == q = "feature" \/ row.value = "unlimited"

ScopesOf(q) == IF q = "seats" THEN <<"user", "group", "organization">>
               ELSE <<"user", "group">>

(* the decision that tables d, g and e call for at time t *)
Decision(d, g, e, t, u, q) ==
    IF q \in PermissionQuestions
      THEN (d[u] \union g[u]) \intersect Covers[q] # {}
      ELSE \E i \in DOMAIN ScopesOf(q) :
             /\ Active(e[u][ScopesOf(q)[i]], t)
             /\ \A j \in 1..(i - 1) : ~Active(e[u][ScopesOf(q)[j]], t)
             /\ Grants(e[u][ScopesOf(q)[i]], q)

Due(u, q) == Decision(direct, grouped, entitled, now, u, q)

Ttl(q, allowed) ==
    IF ~allowed THEN NegativeTtl
    ELSE IF q \in PermissionQuestions THEN AuthTtl ELSE EntTtl

Entry == [allowed : BOOLEAN, expires : Nat]

NoEntry == [allowed |-> FALSE, expires |-> 0]

Live(u, k) == cache[u][k].expires > now

-----------------------------------------------------------------------------
(* Handlers. *)

Steps == {"idle", "ask", "group", "entitlement", "set", "act",
          "scanAuth", "delAuth", "scanEnt", "delEnt"}

Goals == {"check", "other", "config", "export", "purge"}

(* user and q are asked about, subject and want come after the actor's own   *)
(* permission; found, scope, asOf and answer are what the tables or the      *)
(* cache said so far, keys what SCAN returned.  crossed, held and excused    *)
(* only remember: the user's rows changed while they were read; the          *)
(* permission was due at some moment since it was asked for; a stale answer  *)
(* was within its time                                                       *)
Request ==
    [at : Steps, goal : Goals, user : Users \union {None}, q : Questions,
     subject : Users \union {None}, want : Questions,
     found : SUBSET Grantable, scope : 1..3, asOf : Nat, answer : BOOLEAN,
     keys : SUBSET CacheKeys,
     crossed : BOOLEAN, held : BOOLEAN, excused : BOOLEAN]

Idle ==
    [at |-> "idle", goal |-> "check", user |-> None, q |-> "manage",
     subject |-> None, want |-> "manage",
     found |-> {}, scope |-> 1, asOf |-> 0, answer |-> FALSE, keys |-> {},
     crossed |-> FALSE, held |-> FALSE, excused |-> FALSE]

(* the seed gives the administrators' role every permission *)
Init ==
    /\ direct = [u \in Users |-> IF u \in Admins THEN Grantable ELSE {}]
    /\ grouped = [u \in Users |-> {}]
    /\ entitled = [u \in Users |-> [s \in Scopes |-> NoRow]]
    /\ cache = [u \in Users |-> [k \in CacheKeys |-> NoEntry]]
    /\ now = 1
    /\ req = [r \in Requests |-> Idle]
    /\ begun = 0
    /\ settings = None
    /\ changes = 0
    /\ wrong = [u \in Users |-> [q \in Questions |-> 0]]

Administering(q) == q.goal \in {"config", "export"}

(* a question is put *)
Ask(q, u, x) ==
    [Idle EXCEPT !.at = "ask", !.goal = q.goal, !.user = u, !.q = x,
                 !.subject = q.subject, !.want = q.want,
                 !.held = Administering(q) /\ Due(u, x)]

Begin(r, q) ==
    /\ req[r].at = "idle"
    /\ begun < MaxRequests
    /\ begun' = begun + 1
    /\ req' = [req EXCEPT ![r] = q]
    /\ UNCHANGED <<direct, grouped, entitled, cache, now, settings, changes, wrong>>

(* the permission is there *)
Admitted(q) ==
    [Idle EXCEPT !.at = "act", !.goal = q.goal, !.user = q.user, !.q = q.q,
                 !.held = q.held, !.excused = q.excused]

(* what a handler does with the decision: resolveSubject turns to the        *)
(* subject; assertAdminPermission falls back to admin:manage, and records    *)
(* the refusal and throws                                                    *)
Continue(q, answer) ==
    IF q.goal = "other" /\ answer THEN Ask([q EXCEPT !.goal = "check"], q.subject, q.want)
    ELSE IF Administering(q) /\ answer THEN Admitted(q)
    ELSE IF Administering(q) /\ q.q # "manage" /\ ~SodEnforced THEN Ask(q, q.user, "manage")
    ELSE Idle

Goto(r, q) == req' = [req EXCEPT ![r] = q]

Done(r) == Goto(r, Idle)

(* POST /v1/authorization/check and /v1/entitlements/check *)
Check(r, u, x) == Begin(r, Ask([Idle EXCEPT !.goal = "check"], u, x))

(* POST /v1/authorization/check for somebody else *)
CheckOther(r, u, v, x) ==
    /\ u # v /\ x \in PermissionQuestions
    /\ Begin(r, Ask([Idle EXCEPT !.goal = "other", !.subject = v, !.want = x], u, "manage"))

(* an admin route; every one begins with assertAdminPermission *)
Administer(r, u, goal) ==
    /\ goal \in {"config", "export"}
    /\ Begin(r, Ask([Idle EXCEPT !.goal = goal], u, goal))

(* revokeSession and revokeAllSessions, once the sessions are closed *)
Purge(r, u) == Begin(r, [Idle EXCEPT !.goal = "purge", !.at = "scanAuth", !.user = u])

-----------------------------------------------------------------------------
(* authorizationCheck and entitlementCheck. *)

(* RedisRBACCache.get finds a live entry.  It is not asked for users whose  *)
(* bucket is above the percentage, and whether it finds nothing or throws,   *)
(* the tables are read                                                       *)
CacheHit(r) ==
    LET q == req[r]
        entry == cache[q.user][KeyOf(q.q)]
    IN  /\ q.at = "ask"
        /\ q.user \in CachedUsers /\ Live(q.user, KeyOf(q.q))
        /\ Goto(r, Continue([q EXCEPT !.excused =
                      Administering(q) /\ now < wrong[q.user][q.q] + Ttl(q.q, entry.allowed)],
                    entry.allowed))
        /\ UNCHANGED <<direct, grouped, entitled, cache, now, begun, settings, changes, wrong>>

Decided(q, answer) ==
    IF q.user \notin CachedUsers THEN Continue(q, answer)
    ELSE [q EXCEPT !.at = "set", !.answer = answer, !.found = {}, !.scope = 1, !.asOf = 0]

(* listPermissionKeys is two queries: the user's roles, then the groups' *)
ReadDirect(r) ==
    /\ req[r].at = "ask" /\ req[r].q \in PermissionQuestions
    /\ Goto(r, [req[r] EXCEPT !.at = "group", !.found = direct[req[r].user]])
    /\ UNCHANGED <<direct, grouped, entitled, cache, now, begun, settings, changes, wrong>>

ReadGroup(r) ==
    LET q == req[r] IN
    /\ q.at = "group"
    /\ Goto(r, Decided(q, (q.found \union grouped[q.user]) \intersect Covers[q.q] # {}))
    /\ UNCHANGED <<direct, grouped, entitled, cache, now, begun, settings, changes, wrong>>

(* findEntitlement takes the time and makes one query per scope until a row  *)
(* is active; then the quantity is compared with its limit.  Membership of   *)
(* the organization is no table of its own here: the query for it and the    *)
(* one for the organization's row are one step                               *)
ReadEntitlement(r) ==
    LET q == [req[r] EXCEPT !.at = "entitlement", !.asOf = IF req[r].at = "ask" THEN now ELSE @]
        row == entitled[q.user][ScopesOf(q.q)[q.scope]]
    IN  /\ req[r].at \in {"ask", "entitlement"} /\ q.q \in EntitlementQuestions
        /\ Goto(r, IF Active(row, q.asOf) THEN Decided(q, Grants(row, q.q))
                   ELSE IF q.scope = Len(ScopesOf(q.q)) THEN Decided(q, FALSE)
                   ELSE [q EXCEPT !.scope = @ + 1])
        /\ UNCHANGED <<direct, grouped, entitled, cache, now, begun, settings, changes, wrong>>

(* mutant of Stored: whoever writes leaves an older answer that is live *)
StoredOnce(old, answer, expires) ==
    IF old.expires > now THEN [old EXCEPT !.expires = expires]
    ELSE [allowed |-> answer, expires |-> expires]

(* mutant of Stored: SET without EX *)
StoredForGood(old, answer, expires) == [allowed |-> answer, expires |-> expires + MaxTime]

(* SET ... EX replaces value and expiry *)
Stored(old, answer, expires) == [allowed |-> answer, expires |-> expires]

(* RedisRBACCache.set; an error is swallowed.  The answer may be wrong by    *)
(* now because rows changed since they were read, and a grant or a refusal   *)
(* may be wrong for another question that has the same key                   *)
CacheSet(r) ==
    LET q == req[r]
        k == KeyOf(q.q)
        off(x) == /\ KeyOf(x) = k /\ q.answer # Due(q.user, x)
                  /\ q.crossed \/ x # q.q
    IN  /\ q.at = "set"
        /\ cache' = [cache EXCEPT ![q.user][k] = Stored(@, q.answer, now + Ttl(q.q, q.answer))]
        /\ wrong' = [wrong EXCEPT ![q.user] = [x \in Questions |-> IF off(x) THEN now ELSE @[x]]]
        /\ Goto(r, Continue(q, q.answer))
        /\ UNCHANGED <<direct, grouped, entitled, now, begun, settings, changes>>

CacheSetFails(r) ==
    /\ req[r].at = "set"
    /\ Goto(r, Continue(req[r], req[r].answer))
    /\ UNCHANGED <<direct, grouped, entitled, cache, now, begun, settings, changes, wrong>>

-----------------------------------------------------------------------------
(* invalidateUserCache: SCAN and DEL, for the two prefixes in turn. *)

KeysOf(step) ==
    CacheKeys \intersect IF step \in {"scanAuth", "delAuth"} THEN PermissionQuestions
                         ELSE EntitlementQuestions

Scan(r) ==
    LET q == req[r] IN
    /\ q.at \in {"scanAuth", "scanEnt"}
    /\ Goto(r, [q EXCEPT !.at = IF @ = "scanAuth" THEN "delAuth" ELSE "delEnt",
                         !.keys = {k \in KeysOf(q.at) : Live(q.user, k)}])
    /\ UNCHANGED <<direct, grouped, entitled, cache, now, begun, settings, changes, wrong>>

Delete(r) ==
    LET q == req[r] IN
    /\ q.at \in {"delAuth", "delEnt"}
    /\ cache' = [cache EXCEPT ![q.user] =
                    [k \in CacheKeys |-> IF k \in q.keys THEN NoEntry ELSE @[k]]]
    /\ wrong' = [wrong EXCEPT ![q.user] =
                    [x \in Questions |-> IF KeyOf(x) \in q.keys THEN 0 ELSE @[x]]]
    /\ Goto(r, IF q.at = "delAuth" THEN [q EXCEPT !.at = "scanEnt", !.keys = {}] ELSE Idle)
    /\ UNCHANGED <<direct, grouped, entitled, now, begun, settings, changes>>

(* a statement of a handler fails, or Redis fails a purge, which swallows it *)
Abort(r) ==
    /\ req[r].at \notin {"idle", "ask", "set"}
    /\ Done(r)
    /\ UNCHANGED <<direct, grouped, entitled, cache, now, begun, settings, changes, wrong>>

(* mutant of Act: the key is stored where its writer belongs *)
ActMisfiled(r) ==
    /\ req[r].at = "act"
    /\ settings' = req[r].goal
    /\ Done(r)
    /\ UNCHANGED <<direct, grouped, entitled, cache, now, begun, changes, wrong>>

(* upsertConfig and the event, or the export of module AuditLog *)
Act(r) ==
    /\ req[r].at = "act"
    /\ settings' = IF req[r].goal = "config" THEN req[r].user ELSE settings
    /\ Done(r)
    /\ UNCHANGED <<direct, grouped, entitled, cache, now, begun, changes, wrong>>

-----------------------------------------------------------------------------
(* Changes by operators, who have no route for it, and the clock. *)

(* the histories, when the tables become d, g and e or the clock t *)
Disturb(d, g, e, t) ==
    /\ wrong' = [u \in Users |-> [x \in Questions |->
                   IF Decision(d, g, e, t, u, x) # Due(u, x) THEN t ELSE wrong[u][x]]]
    /\ req' = [r \in Requests |->
                 LET q == req[r] IN
                 IF q.user = None THEN q
                 ELSE [q EXCEPT
                   !.crossed = @ \/ (/\ q.at \in {"group", "entitlement", "set"}
                                     /\ \/ d[q.user] # direct[q.user] \/ g[q.user] # grouped[q.user]
                                        \/ e[q.user] # entitled[q.user]
                                        \/ Decision(d, g, e, t, q.user, q.q) # Due(q.user, q.q)),
                   !.held = @ \/ (Administering(q) /\ Decision(d, g, e, t, q.user, q.q))]]

Change(d, g, e) ==
    /\ changes < MaxChanges
    /\ changes' = changes + 1
    /\ Disturb(d, g, e, now)
    /\ direct' = d /\ grouped' = g /\ entitled' = e
    /\ UNCHANGED <<cache, now, begun, settings>>

(* a role is given to the user or to the user's group, moved or taken away *)
Place(u, p, where) ==
    /\ (where = "direct") # (p \in direct[u]) \/ (where = "group") # (p \in grouped[u])
    /\ Change([direct EXCEPT ![u] = IF where = "direct" THEN @ \union {p} ELSE @ \ {p}],
              [grouped EXCEPT ![u] = IF where = "group" THEN @ \union {p} ELSE @ \ {p}],
              entitled)

Entitle(u, s, row) ==
    /\ row # entitled[u][s]
    /\ Change(direct, grouped, [entitled EXCEPT ![u][s] = row])

Tick ==
    /\ now < MaxTime
    /\ now' = now + 1
    /\ Disturb(direct, grouped, entitled, now + 1)
    /\ UNCHANGED <<direct, grouped, entitled, cache, begun, settings, changes>>

Next ==
    \/ \E r \in Requests, u \in Clients :
          \/ \E x \in Asked : Check(r, u, x)
          \/ \E v \in Users, x \in Asked : CheckOther(r, u, v, x)
          \/ \E goal \in {"config", "export"} : Administer(r, u, goal)
          \/ Purge(r, u)
    \/ \E r \in Requests :
          \/ CacheHit(r) \/ ReadDirect(r) \/ ReadGroup(r) \/ ReadEntitlement(r)
          \/ CacheSet(r) \/ CacheSetFails(r) \/ Scan(r) \/ Delete(r) \/ Act(r) \/ Abort(r)
    \/ \E u \in Users, p \in Grantable, where \in {"direct", "group", "nowhere"} : Place(u, p, where)
    \/ \E u \in Users, s \in Scopes, row \in NewRows : Entitle(u, s, row)
    \/ Tick

Spec == Init /\ [][Next]_vars

-----------------------------------------------------------------------------
(* Properties. *)

(* Tables, decisions and handlers keep their shape. *)
TypeOK ==
    /\ direct \in [Users -> SUBSET Grantable] /\ grouped \in [Users -> SUBSET Grantable]
    /\ entitled \in [Users -> [Scopes -> Row]]
    /\ cache \in [Users -> [CacheKeys -> Entry]]
    /\ req \in [Requests -> Request]
    /\ wrong \in [Users -> [Questions -> Nat]]
    /\ settings \in Users \union {None}
    /\ now \in Nat /\ begun \in Nat /\ changes \in Nat

(* A live cached decision that is not the one the tables call for expires    *)
(* within its own time to live of the moment it came to be wrong: when the   *)
(* tables changed, when a computation that the change overtook wrote it, or  *)
(* when another question with the same key was answered, either way.  A      *)
(* purge that deleted it starts over: only such a write can bring it back.   *)
StaleAnswersExpire ==
    \A u \in Users, q \in Questions :
        LET entry == cache[u][KeyOf(q)] IN
        (Live(u, KeyOf(q)) /\ entry.allowed # Due(u, q)) =>
            entry.expires <= wrong[u][q] + Ttl(q, entry.allowed)

(* Nobody writes the configuration or takes an export without the permission *)
(* it needs: the one that let the request in was due at some moment since it *)
(* was asked for, or a cached grant not yet out of its time stood in for it, *)
(* one that the tables have taken back or one of another permission with the *)
(* same key.                                                                 *)
AdminActsBacked ==
    \A r \in Requests :
        req[r].at = "act" => (req[r].held \/ req[r].excused)

=============================================================================
