------------------------------ MODULE Sessions ------------------------------
(***************************************************************************)
(* API sessions of the identity provider: the rows of user_sessions, the   *)
(* opaque access and refresh tokens they hold, and every request handler   *)
(* that reads or writes them.  A handler is a sequence of steps, one per   *)
(* database statement (or transaction) it awaits; any number of handlers,  *)
(* on any number of server instances, interleave between those steps.      *)
(*                                                                         *)
(* A token pair is one member of PairIds: access and refresh token are     *)
(* minted together from random bytes and never minted again.  A row keeps  *)
(* both hashes in columns of their own, as the table does.                 *)
(***************************************************************************)
EXTENDS Naturals

CONSTANTS
    Users,              \* accounts that exist when the behaviour starts
    SessionIds,         \* primary keys of user_sessions rows
    PairIds,            \* token pairs
    Requests,           \* slots for handlers in flight
    NoUser, NoSession, NoPair,
    AccessTTL,          \* ACCESS_TOKEN_TTL_SECONDS, in ticks
    RefreshTTL,         \* REFRESH_TOKEN_TTL_SECONDS, in ticks
    MaxTime,            \* bound: ticks of the clock
    MaxPasswords,       \* bound: no password change starts after so many
    MaxFaults           \* bound: handlers cut short by an error or a crash

ASSUME SessionsAssumption ==
    /\ NoUser \notin Users
    /\ NoSession \notin SessionIds
    /\ NoPair \notin PairIds
    /\ AccessTTL \in Nat /\ RefreshTTL \in Nat
    /\ MaxTime \in Nat /\ MaxPasswords \in Nat /\ MaxFaults \in Nat

VARIABLES
    users,              \* status and number of passwords set so far
    rows,               \* the user_sessions table
    req,                \* handlers in flight: next step and what was read
    now,                \* the wall clock
    family,             \* history: the session a pair was minted for
    from,               \* history: the pair a pair was exchanged for
    cutoff,             \* history: password of the last completed change
    replayed,           \* history: exchanged pairs that were refused with
                        \* refresh_token.reuse_detected
    faults

vars == <<users, rows, req, now, family, from, cutoff, replayed, faults>>

-----------------------------------------------------------------------------
(* State. *)

UserStatus == {"active", "deleted", "gone"}

(* revoked: revokedAt is set; removed: the row went with its user *)
RowState == {"unused", "open", "revoked", "removed"}

Steps == {"idle", "insert", "rotate", "punish", "authed", "revoke",
          "setpw", "revokeall", "markdel", "delsessions", "delcommit",
          "resetpw"}

User == [status : UserStatus, password : Nat]

Row == [state : RowState, user : Users \union {NoUser},
        access : PairIds \union {NoPair}, refresh : PairIds \union {NoPair},
        expiresAt : Nat, refreshExpiresAt : Nat,
        born : Nat,     \* history: the user's password at the INSERT
        late : BOOLEAN, \* history: inserted when a deletion of its user had
                        \* revoked the others and was not committed
        extra : BOOLEAN]\* history: rotated when its user was not active

Request == [at : Steps, user : Users \union {NoUser},
            sid : SessionIds \union {NoSession},
            pair : PairIds \union {NoPair},
            password : Nat,
            held : SUBSET SessionIds]   \* rows its transaction has updated

Idle == [at |-> "idle", user |-> NoUser, sid |-> NoSession,
         pair |-> NoPair, password |-> 0, held |-> {}]

UnusedRow == [state |-> "unused", user |-> NoUser, access |-> NoPair,
              refresh |-> NoPair, expiresAt |-> 0, refreshExpiresAt |-> 0,
              born |-> 0, late |-> FALSE, extra |-> FALSE]

Init ==
    /\ users = [u \in Users |-> [status |-> "active", password |-> 1]]
    /\ rows = [s \in SessionIds |-> UnusedRow]
    /\ req = [r \in Requests |-> Idle]
    /\ now = 0
    /\ family = [k \in PairIds |-> NoSession]
    /\ from = [k \in PairIds |-> NoPair]
    /\ cutoff = [u \in Users |-> 0]
    /\ replayed = {}
    /\ faults = 0

-----------------------------------------------------------------------------
(* Queries and updates of SessionRepository. *)

Active(u) == users[u].status = "active"

IsFresh(k) == family[k] = NoSession

(* findByAccessTokenHash: not revoked, not expired, joined with its user *)
FoundByAccess(s, k) ==
    /\ rows[s].state = "open"
    /\ rows[s].access = k
    /\ rows[s].expiresAt > now

(* findByRefreshTokenHash *)
FoundByRefresh(s, k) ==
    /\ rows[s].state = "open"
    /\ rows[s].refresh = k
    /\ rows[s].refreshExpiresAt > now

(* mutants of CanRotate: the hash, the expiry or revokedAt handled wrongly *)
CanRotateAnyHash(s, k) == rows[s].state = "open" /\ k \in PairIds

CanRotateUnexpired(s, k) == FoundByRefresh(s, k)

CanRotateRevoked(s, k) ==
    rows[s].state \in {"open", "revoked"} /\ rows[s].refresh = k

(* the WHERE clause of rotateTokens: it does not look at the expiry again *)
CanRotate(s, k) ==
    /\ rows[s].state = "open"
    /\ rows[s].refresh = k

(* mutant of Revoked: a status the table does not know *)
RevokedUnknown(row) ==
    IF row.state = "open" THEN [row EXCEPT !.state = "closed"] ELSE row

(* SET revokedAt: an UPDATE by id finds no row once the user is removed *)
Revoked(row) ==
    IF row.state = "open" THEN [row EXCEPT !.state = "revoked"] ELSE row

(* a row that the UPDATE of a deletion not yet committed has locked: others *)
(* read it as it was, and an UPDATE that matches it waits                   *)
Locked(s) == \E q \in Requests : s \in req[q].held

Revoke(s) ==
    /\ ~Locked(s)
    /\ rows' = [rows EXCEPT ![s] = Revoked(@)]

(* revokeAllByUserId, which matches open rows only *)
RevokeAllOf(u) ==
    /\ \A s \in SessionIds :
          (rows[s].user = u /\ rows[s].state = "open") => ~Locked(s)
    /\ rows' = [s \in SessionIds |->
                IF rows[s].user = u THEN Revoked(rows[s]) ELSE rows[s]]

(* between the first statement of markAsDeleted and its COMMIT *)
Deleting(r, u) ==
    req[r].at \in {"delsessions", "delcommit"} /\ req[r].user = u

(* authenticateAccessToken accepts the access token of pair k *)
Authenticates(s, k) == FoundByAccess(s, k) /\ Active(rows[s].user)

(* mutant of IntrospectsActive: the account's status is not tested *)
IntrospectsRowOnly(s, k) ==
    /\ rows[s].state = "open"
    /\ rows[s].access = k
    /\ rows[s].expiresAt > now

(* introspectToken reports the access token of pair k as active: it looks   *)
(* the row up whatever its state and tests each condition by itself         *)
IntrospectsActive(s, k) ==
    /\ rows[s].state \in {"open", "revoked"}
    /\ rows[s].access = k
    /\ rows[s].state # "revoked"
    /\ rows[s].expiresAt > now
    /\ users[rows[s].user].status = "active"

Done(r) == req' = [req EXCEPT ![r] = Idle]

-----------------------------------------------------------------------------
(* Opening a session. *)

(* login, loginWithGoogle and createSessionForUser up to their last check:  *)
(* the credential is right and the account active when it was read          *)
LoginVerify(r, u) ==
    /\ req[r].at = "idle"
    /\ Active(u)
    /\ req' = [req EXCEPT ![r] = [Idle EXCEPT !.at = "insert", !.user = u]]
    /\ UNCHANGED <<users, rows, now, family, from, cutoff, replayed, faults>>

(* risk policy or MFA refuses the login, or the INSERT meets a foreign key  *)
(* to a user row that is gone                                               *)
LoginRefused(r) ==
    /\ req[r].at = "insert"
    /\ Done(r)
    /\ UNCHANGED <<users, rows, now, family, from, cutoff, replayed, faults>>

(* createSession: the INSERT does not look at the user's status again *)
CreateSession(r, s, k) ==
    /\ req[r].at = "insert"
    /\ users[req[r].user].status # "gone"
    /\ rows[s].state = "unused"
    /\ IsFresh(k)
    /\ rows' = [rows EXCEPT ![s] =
                  [state |-> "open", user |-> req[r].user,
                   access |-> k, refresh |-> k,
                   expiresAt |-> now + AccessTTL,
                   refreshExpiresAt |-> now + RefreshTTL,
                   born |-> users[req[r].user].password,
                   late |-> \E q \in Requests :
                               req[q].at = "delcommit" /\ req[q].user = req[r].user,
                   extra |-> FALSE]]
    /\ family' = [family EXCEPT ![k] = s]
    /\ Done(r)
    /\ UNCHANGED <<users, now, from, cutoff, replayed, faults>>

-----------------------------------------------------------------------------
(* Refreshing: find, then one guarded UPDATE, then the reaction to losing. *)

RefreshFind(r, s, k) ==
    /\ req[r].at = "idle"
    /\ FoundByRefresh(s, k)
    /\ Active(rows[s].user)
    /\ req' = [req EXCEPT ![r] = [Idle EXCEPT !.at = "rotate", !.sid = s,
                                              !.pair = k]]
    /\ UNCHANGED <<users, rows, now, family, from, cutoff, replayed, faults>>

(* the event refresh_token.reuse_detected for pair k *)
ReuseSeen(k) ==
    replayed \union {j \in {k} : \E i \in PairIds : from[i] = j}

(* no such row: an event is recorded, the answer is 401, nothing is revoked *)
RefreshNotFound(k) ==
    /\ ~IsFresh(k)
    /\ \A s \in SessionIds : ~FoundByRefresh(s, k)
    /\ replayed' = ReuseSeen(k)
    /\ UNCHANGED <<users, rows, req, now, family, from, cutoff, faults>>

(* mutant of Rotate: the access token is not replaced *)
RotateRefreshOnly(r, k) ==
    LET s == req[r].sid IN
    /\ req[r].at = "rotate"
    /\ CanRotate(s, req[r].pair)
    /\ IsFresh(k)
    /\ rows' = [rows EXCEPT ![s] =
                  [@ EXCEPT !.refresh = k, !.refreshExpiresAt = now + RefreshTTL]]
    /\ family' = [family EXCEPT ![k] = s]
    /\ from' = [from EXCEPT ![k] = req[r].pair]
    /\ Done(r)
    /\ UNCHANGED <<users, now, cutoff, replayed, faults>>

(* both hashes and both expiries are replaced in the same statement *)
Rotate(r, k) ==
    LET s == req[r].sid IN
    /\ req[r].at = "rotate"
    /\ CanRotate(s, req[r].pair)
    /\ ~Locked(s)
    /\ IsFresh(k)
    /\ rows' = [rows EXCEPT ![s] =
                  [@ EXCEPT !.access = k, !.refresh = k,
                            !.expiresAt = now + AccessTTL,
                            !.refreshExpiresAt = now + RefreshTTL,
                            !.extra = ~Active(rows[s].user)]]
    /\ family' = [family EXCEPT ![k] = s]
    /\ from' = [from EXCEPT ![k] = req[r].pair]
    /\ Done(r)
    /\ UNCHANGED <<users, now, cutoff, replayed, faults>>

RotateMiss(r) ==
    /\ req[r].at = "rotate"
    /\ ~CanRotate(req[r].sid, req[r].pair)
    /\ req' = [req EXCEPT ![r].at = "punish"]
    /\ UNCHANGED <<users, rows, now, family, from, cutoff, replayed, faults>>

(* mutant of Punish: the event is recorded, the session is left alone *)
PunishEventOnly(r) ==
    /\ req[r].at = "punish"
    /\ replayed' = ReuseSeen(req[r].pair)
    /\ Done(r)
    /\ UNCHANGED <<users, rows, now, family, from, cutoff, faults>>

Punish(r) ==
    /\ req[r].at = "punish"
    /\ Revoke(req[r].sid)
    /\ replayed' = ReuseSeen(req[r].pair)
    /\ Done(r)
    /\ UNCHANGED <<users, now, family, from, cutoff, faults>>

-----------------------------------------------------------------------------
(* Ending sessions. *)

(* authenticatedEndpointAdapter: every handler below starts here *)
Authenticate(r, s, k) ==
    /\ req[r].at = "idle"
    /\ Authenticates(s, k)
    /\ req' = [req EXCEPT ![r] = [Idle EXCEPT !.at = "authed", !.sid = s,
                                              !.user = rows[s].user]]
    /\ UNCHANGED <<users, rows, now, family, from, cutoff, replayed, faults>>

(* getMe, listSessions: handlers that only read *)
ReadOnly(r) ==
    /\ req[r].at = "authed"
    /\ Done(r)
    /\ UNCHANGED <<users, rows, now, family, from, cutoff, replayed, faults>>

Logout(r) ==
    /\ req[r].at = "authed"
    /\ Revoke(req[r].sid)
    /\ Done(r)
    /\ UNCHANGED <<users, now, family, from, cutoff, replayed, faults>>

(* SessionService.revokeSession reads the row and its owner first *)
RevokeSessionFind(r, s) ==
    /\ req[r].at = "authed"
    /\ rows[s].state \in {"open", "revoked"}
    /\ rows[s].user = req[r].user
    /\ req' = [req EXCEPT ![r] = [Idle EXCEPT !.at = "revoke", !.sid = s]]
    /\ UNCHANGED <<users, rows, now, family, from, cutoff, replayed, faults>>

(* revokeByToken: the token is an access or a refresh token of pair k *)
RevokeByTokenFind(r, s, k) ==
    /\ req[r].at = "idle"
    /\ FoundByAccess(s, k) \/ FoundByRefresh(s, k)
    /\ req' = [req EXCEPT ![r] = [Idle EXCEPT !.at = "revoke", !.sid = s]]
    /\ UNCHANGED <<users, rows, now, family, from, cutoff, replayed, faults>>

RevokeFound(r) ==
    /\ req[r].at = "revoke"
    /\ Revoke(req[r].sid)
    /\ Done(r)
    /\ UNCHANGED <<users, now, family, from, cutoff, replayed, faults>>

RevokeAllSessions(r) ==
    /\ req[r].at = "authed"
    /\ RevokeAllOf(req[r].user)
    /\ Done(r)
    /\ UNCHANGED <<users, now, family, from, cutoff, replayed, faults>>

-----------------------------------------------------------------------------
(* Passwords: /v1/password/change verifies, updates, then revokes. *)

ChangePasswordVerify(r) ==
    /\ req[r].at = "authed"
    /\ users[req[r].user].status # "gone"
    /\ users[req[r].user].password < MaxPasswords
    /\ req' = [req EXCEPT ![r].at = "setpw"]
    /\ UNCHANGED <<users, rows, now, family, from, cutoff, replayed, faults>>

(* UPDATE user_passwords; no row is left to update once the user is gone *)
SetPassword(u) ==
    users' = [users EXCEPT ![u].password =
                IF users[u].status = "gone" THEN @ ELSE @ + 1]

ChangePassword(r) ==
    LET u == req[r].user IN
    /\ req[r].at = "setpw"
    /\ SetPassword(u)
    /\ req' = [req EXCEPT ![r] = [@ EXCEPT !.at = "revokeall",
                                           !.password = users'[u].password]]
    /\ UNCHANGED <<rows, now, family, from, cutoff, replayed, faults>>

(* mutant of ChangePasswordRevoke: the caller's own session is spared *)
ChangePasswordSpare(r) ==
    LET u == req[r].user IN
    /\ req[r].at = "revokeall"
    /\ rows' = [s \in SessionIds |->
                  IF rows[s].user = u /\ s # req[r].sid
                    THEN Revoked(rows[s]) ELSE rows[s]]
    /\ cutoff' = [cutoff EXCEPT ![u] =
                    IF req[r].password > @ THEN req[r].password ELSE @]
    /\ Done(r)
    /\ UNCHANGED <<users, now, family, from, replayed, faults>>

ChangePasswordRevoke(r) ==
    LET u == req[r].user IN
    /\ req[r].at = "revokeall"
    /\ RevokeAllOf(u)
    /\ cutoff' = [cutoff EXCEPT ![u] =
                    IF req[r].password > @ THEN req[r].password ELSE @]
    /\ Done(r)
    /\ UNCHANGED <<users, now, family, from, replayed, faults>>

(* confirmPasswordReset after the token is consumed: status check, then the *)
(* update; no session is touched                                            *)
ResetCheck(r, u) ==
    /\ req[r].at = "idle"
    /\ Active(u)
    /\ users[u].password < MaxPasswords
    /\ req' = [req EXCEPT ![r] = [Idle EXCEPT !.at = "resetpw", !.user = u]]
    /\ UNCHANGED <<users, rows, now, family, from, cutoff, replayed, faults>>

ResetPassword(r) ==
    /\ req[r].at = "resetpw"
    /\ SetPassword(req[r].user)
    /\ Done(r)
    /\ UNCHANGED <<rows, now, family, from, cutoff, replayed, faults>>

-----------------------------------------------------------------------------
(* Account deletion. *)

(* requestDeletion up to the transaction: status and reauthentication *)
DeletionCheck(r) ==
    /\ req[r].at = "authed"
    /\ Active(req[r].user)
    /\ req' = [req EXCEPT ![r] = [Idle EXCEPT !.at = "markdel",
                                              !.user = req[r].user]]
    /\ UNCHANGED <<users, rows, now, family, from, cutoff, replayed, faults>>

(* markAsDeleted is a transaction at READ COMMITTED.  Its first UPDATE waits *)
(* for the row of the user; a second request finds the status changed and    *)
(* only reports the schedule                                                 *)
MarkAsDeleted(r) ==
    /\ req[r].at = "markdel"
    /\ \A q \in Requests : ~Deleting(q, req[r].user)
    /\ IF Active(req[r].user)
         THEN req' = [req EXCEPT ![r].at = "delsessions"]
         ELSE Done(r)
    /\ UNCHANGED <<users, rows, now, family, from, cutoff, replayed, faults>>

(* mutant of MarkSessionsRevoked: the sessions are left alone *)
MarkNoSession(r) ==
    /\ req[r].at = "delsessions"
    /\ req' = [req EXCEPT ![r].at = "delcommit"]
    /\ UNCHANGED <<users, rows, now, family, from, cutoff, replayed, faults>>

(* its second UPDATE: the rows of the user that are there now.  Nobody sees  *)
(* it yet, and a login that has verified still inserts a row: the foreign    *)
(* key does not wait for an UPDATE of the status                             *)
MarkSessionsRevoked(r) ==
    /\ req[r].at = "delsessions"
    /\ req' = [req EXCEPT ![r] =
                 [@ EXCEPT !.at = "delcommit",
                           !.held = {s \in SessionIds : rows[s].user = req[r].user}]]
    /\ UNCHANGED <<users, rows, now, family, from, cutoff, replayed, faults>>

(* COMMIT: both updates become visible and the rows are free again *)
CommitDeletion(r) ==
    /\ req[r].at = "delcommit"
    /\ users' = [users EXCEPT ![req[r].user].status = "deleted"]
    /\ rows' = [s \in SessionIds |->
                  IF s \in req[r].held THEN Revoked(rows[s]) ELSE rows[s]]
    /\ Done(r)
    /\ UNCHANGED <<now, family, from, cutoff, replayed, faults>>

(* physicallyDeleteUser: the session rows go by ON DELETE CASCADE *)
PhysicallyDelete(u) ==
    /\ users[u].status = "deleted"
    /\ users' = [users EXCEPT ![u].status = "gone"]
    /\ rows' = [s \in SessionIds |->
                  IF rows[s].user = u THEN [rows[s] EXCEPT !.state = "removed"]
                                      ELSE rows[s]]
    /\ UNCHANGED <<req, now, family, from, cutoff, replayed, faults>>

-----------------------------------------------------------------------------
Tick ==
    /\ now < MaxTime
    /\ now' = now + 1
    /\ UNCHANGED <<users, rows, req, family, from, cutoff, replayed, faults>>

(* an exception, a lost connection or a crash ends a handler half way, and   *)
(* a transaction it has open is rolled back                                  *)
Fail(r) ==
    /\ req[r].at # "idle"
    /\ faults < MaxFaults
    /\ faults' = faults + 1
    /\ Done(r)
    /\ UNCHANGED <<users, rows, now, family, from, cutoff, replayed>>

(* the steps a handler takes by itself once it has started *)
Continue(r) ==
    \/ LoginRefused(r)
    \/ \E s \in SessionIds, k \in PairIds : CreateSession(r, s, k)
    \/ \E k \in PairIds : Rotate(r, k)
    \/ RotateMiss(r)
    \/ Punish(r)
    \/ ReadOnly(r)
    \/ Logout(r)
    \/ \E s \in SessionIds : RevokeSessionFind(r, s)
    \/ RevokeFound(r)
    \/ RevokeAllSessions(r)
    \/ ChangePasswordVerify(r)
    \/ ChangePassword(r)
    \/ ChangePasswordRevoke(r)
    \/ ResetPassword(r)
    \/ DeletionCheck(r)
    \/ MarkAsDeleted(r)
    \/ MarkSessionsRevoked(r)
    \/ CommitDeletion(r)

(* a client's request arrives *)
Start(r) ==
    \/ \E u \in Users : LoginVerify(r, u) \/ ResetCheck(r, u)
    \/ \E s \in SessionIds, k \in PairIds :
          RefreshFind(r, s, k) \/ Authenticate(r, s, k)
             \/ RevokeByTokenFind(r, s, k)

Next ==
    \/ \E r \in Requests : Start(r) \/ Continue(r) \/ Fail(r)
    \/ \E k \in PairIds : RefreshNotFound(k)
    \/ \E u \in Users : PhysicallyDelete(u)
    \/ Tick

Spec == Init /\ [][Next]_vars

(* An awaited statement eventually resolves, so a started handler goes on.  *)
FairSpec == Spec /\ \A r \in Requests : WF_vars(Continue(r))

-----------------------------------------------------------------------------
(* Properties. *)

(* Every variable keeps the shape of the table, request or history it models. *)
TypeOK ==
    /\ users \in [Users -> User]
    /\ rows \in [SessionIds -> Row]
    /\ req \in [Requests -> Request]
    /\ now \in Nat
    /\ family \in [PairIds -> SessionIds \union {NoSession}]
    /\ from \in [PairIds -> PairIds \union {NoPair}]
    /\ cutoff \in [Users -> Nat]
    /\ replayed \subseteq PairIds
    /\ faults \in Nat

(* However many refresh requests present the same refresh token at once,    *)
(* rotateTokens lets at most one of them mint a new pair.                   *)
OneExchangePerRefreshToken ==
    \A j, k \in PairIds :
        (from[j] = from[k] /\ from[j] # NoPair) => j = k

(* A row only ever holds the newest pair of its session: neither the access *)
(* nor the refresh token of a pair that was exchanged is found again, and   *)
(* no other session holds it.                                               *)
OnlyNewestPairWorks ==
    \A s \in SessionIds, k \in PairIds :
        (rows[s].access = k \/ rows[s].refresh = k) =>
            /\ \A j \in PairIds : from[j] # k
            /\ family[k] = s

(* refresh() revokes a session after rotateTokens updated nothing only when *)
(* its token really was used twice: a session that is still open then had   *)
(* exchanged that token.  A token that merely expired in between is no reuse.*)
PunishedOnlyIfReused ==
    \A r \in Requests :
        (req[r].at = "punish" /\ rows[req[r].sid].state = "open") =>
            \E k \in PairIds : from[k] = req[r].pair

(* Once /v1/password/change has answered, every session still open was      *)
(* inserted after the new password was stored: an earlier session is not    *)
(* open any more, whatever refreshes ran in between.  (A login that verified *)
(* the old password and inserts its session later counts as a later one.)   *)
ChangeEndsEarlierSessions ==
    \A s \in SessionIds :
        rows[s].state = "open" => rows[s].born >= cutoff[rows[s].user]

(* /oauth/introspection and the bearer check of this server never disagree   *)
(* about an access token, though they look it up by different queries.       *)
IntrospectionAgrees ==
    \A s \in SessionIds, k \in PairIds :
        rows[s].state \in {"open", "revoked"} =>
            (IntrospectsActive(s, k) <=> Authenticates(s, k))

(* A session that is revoked or removed never opens again and its tokens    *)
(* never change again, even if a refresh had read the row while it was open; *)
(* an account never comes back from deletion.                               *)
NothingComesBack ==
    [][/\ \A s \in SessionIds :
            rows[s].state \in {"revoked", "removed"} =>
                /\ rows'[s].state \in {rows[s].state, "removed"}
                /\ rows'[s].access = rows[s].access
                /\ rows'[s].refresh = rows[s].refresh
       /\ \A u \in Users :
            users[u].status # "active" =>
                users'[u].status \in {users[u].status, "gone"}]_vars

(* refresh() reads the account's status one statement before it mints.  A    *)
(* refresh never mints a pair for an account already deleted, because        *)
(* markAsDeleted revokes the sessions in the transaction that changes the    *)
(* status; the one exception is a session that was inserted between that     *)
(* UPDATE and the COMMIT, and it obtains one pair at most.                   *)
ExchangeOnlyForActiveUser ==
    [][\A k \in PairIds : from'[k] # from[k] =>
          LET row == rows[family'[k]]
          IN  Active(row.user) \/ (row.late /\ ~row.extra)]_vars

(* The inductive invariant behind the properties above.  A row that was      *)
(* never used holds nothing; any other holds the pairs of its own family.   *)
RowsOK ==
    \A s \in SessionIds :
        IF rows[s].state = "unused"
          THEN rows[s] = UnusedRow
          ELSE /\ rows[s].user \in Users
               /\ rows[s].access \in PairIds /\ family[rows[s].access] = s
               /\ rows[s].refresh \in PairIds /\ family[rows[s].refresh] = s

(* A pair that was exchanged stays in its family and is held by no row. *)
ExchangesOK ==
    \A j \in PairIds : from[j] # NoPair =>
        /\ family[j] # NoSession
        /\ family[from[j]] = family[j]
        /\ \A s \in SessionIds :
              rows[s].access # from[j] /\ rows[s].refresh # from[j]

(* What a handler in flight may still rely on of what it has read. *)
RequestsOK ==
    \A r \in Requests :
        /\ req[r].at \in {"insert", "authed", "setpw", "revokeall", "markdel",
                          "delsessions", "delcommit", "resetpw"} =>
              req[r].user \in Users
        /\ req[r].at \in {"rotate", "punish", "authed", "revoke"} =>
              req[r].sid \in SessionIds /\ rows[req[r].sid].state # "unused"
        /\ req[r].at \in {"rotate", "punish"} =>
              /\ req[r].pair \in PairIds
              /\ family[req[r].pair] = req[r].sid
        /\ req[r].at = "rotate" =>
              \/ rows[req[r].sid].refresh = req[r].pair
              \/ \E k \in PairIds : from[k] = req[r].pair
        /\ (req[r].at = "rotate" /\ CanRotate(req[r].sid, req[r].pair)) =>
              \/ Active(rows[req[r].sid].user)
              \/ rows[req[r].sid].late /\ ~rows[req[r].sid].extra
        /\ req[r].at = "revokeall" =>
              req[r].password <= users[req[r].user].password

(* Deletions of one account do not overlap, and the account is active until  *)
(* one commits.  What a deletion holds or has missed is every row of its     *)
(* user, and an account that was rotated for too late stays deleted.         *)
DeletionsOK ==
    /\ \A r \in Requests :
         /\ req[r].held # {} => req[r].at = "delcommit"
         /\ req[r].at \in {"delsessions", "delcommit"} =>
               /\ Active(req[r].user)
               /\ \A q \in Requests : Deleting(q, req[r].user) => q = r
         /\ req[r].at = "delcommit" =>
               \A s \in SessionIds :
                  rows[s].user = req[r].user => s \in req[r].held \/ rows[s].late
    /\ \A s \in SessionIds : rows[s].extra => ~Active(rows[s].user)

(* No completed change is newer than the password it stored. *)
CutoffOK == \A u \in Users : cutoff[u] <= users[u].password

IInv ==
    /\ TypeOK
    /\ RowsOK
    /\ ExchangesOK
    /\ RequestsOK
    /\ DeletionsOK
    /\ CutoffOK
    /\ OneExchangePerRefreshToken
    /\ PunishedOnlyIfReused
    /\ ChangeEndsEarlierSessions

(* The pairs still exchangeable, as the ledger of module TokenLedger sees    *)
(* them: the refresh tokens held by open rows.                              *)
Ledger == INSTANCE TokenLedger WITH
    issued <- {k \in PairIds : family[k] # NoSession},
    valid <- {k \in PairIds : \E s \in SessionIds :
                 rows[s].state = "open" /\ rows[s].refresh = k},
    origin <- from

(* The table, the handlers and their interleavings implement the ledger:     *)
(* pairs are issued once, exchanged at most once, withdrawn for good.        *)
ImplementsLedger == Ledger!Spec

(* Two refreshes that both read the same pair before either rotated it end  *)
(* in a closed session: the loser's revoke is not overtaken by anything, so *)
(* the pair the winner obtained does not stay usable.  (The escape is the   *)
(* bound on pairs: no fresh one left to rotate to.)                         *)
DoubleUseEndsSession ==
    \A q, r \in Requests, s \in SessionIds :
        (/\ q # r
         /\ req[q].at = "rotate" /\ req[r].at = "rotate"
         /\ req[q].sid = s /\ req[r].sid = s
         /\ req[q].pair = req[r].pair)
            ~> (rows[s].state # "open" \/ \A k \in PairIds : ~IsFresh(k))

(* What docs/qa-and-performance-plan.md:33 asks of a reused refresh token:   *)
(* the session it belongs to is revoked.                                     *)
ReuseRevokesSession ==
    \A k \in replayed : rows[family[k]].state # "open"

=============================================================================
