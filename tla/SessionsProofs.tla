--------------------------- MODULE SessionsProofs ---------------------------
(***************************************************************************)
(* Proofs, for every set of users, sessions, token pairs and requests, of  *)
(* the safety properties of module Sessions and of its refinement of       *)
(* TokenLedger.                                                            *)
(***************************************************************************)
EXTENDS Sessions, TLAPS

(* Steps that only move one handler along leave tables and history alone. *)
Tables == <<users, rows, now, family, from, cutoff, replayed, faults>>

(* The tables at start-up: no session, no request in flight. *)
LEMMA InitInv == Init => IInv
  <1> SUFFICES ASSUME Init PROVE IInv
    OBVIOUS
  <1> USE SessionsAssumption DEF Init
  <1>1. TypeOK
    BY DEF TypeOK, User, Row, Request, UserStatus, RowState, Steps, Idle, UnusedRow
  <1>2. RowsOK /\ ExchangesOK /\ CutoffOK
    BY DEF RowsOK, ExchangesOK, CutoffOK, UnusedRow
  <1>3. RequestsOK /\ PunishedOnlyIfReused /\ DeletionsOK
    BY DEF RequestsOK, PunishedOnlyIfReused, DeletionsOK, Idle, UnusedRow
  <1>4. OneExchangePerRefreshToken /\ ChangeEndsEarlierSessions
    BY DEF OneExchangePerRefreshToken, ChangeEndsEarlierSessions, UnusedRow
  <1>5. QED
    BY <1>1, <1>2, <1>3, <1>4 DEF IInv

(* A step that changes only the request r, and leaves it with a request that *)
(* relies on nothing, keeps the invariant.                                  *)
LEMMA RequestStep ==
  ASSUME IInv, UNCHANGED Tables, NEW r \in Requests, NEW q \in Request,
         req' = [req EXCEPT ![r] = q],
         q.at \in {"insert", "authed", "setpw", "revokeall", "markdel",
                   "delsessions", "delcommit", "resetpw"} => q.user \in Users,
         q.at \in {"rotate", "punish", "authed", "revoke"} =>
              q.sid \in SessionIds /\ rows[q.sid].state # "unused",
         q.at \in {"rotate", "punish"} =>
              q.pair \in PairIds /\ family[q.pair] = q.sid,
         q.at = "rotate" =>
              \/ rows[q.sid].refresh = q.pair
              \/ \E k \in PairIds : from[k] = q.pair,
         (q.at = "rotate" /\ CanRotate(q.sid, q.pair)) =>
              Active(rows[q.sid].user),
         q.held # {} => q.at = "delcommit",
         q.at \in {"delsessions", "delcommit"} =>
              /\ Active(q.user)
              /\ \A x \in Requests \ {r} : ~Deleting(x, q.user),
         q.at = "delcommit" =>
              \A s \in SessionIds :
                 rows[s].user = q.user => s \in q.held \/ rows[s].late,
         q.at = "revokeall" => q.password <= users[q.user].password,
         (q.at = "punish" /\ rows[q.sid].state = "open") =>
              \E k \in PairIds : from[k] = q.pair
  PROVE  IInv'
  <1>1. TypeOK'
    BY DEF IInv, TypeOK, Tables
  <1>2. RowsOK' /\ ExchangesOK' /\ CutoffOK' /\ OneExchangePerRefreshToken'
          /\ ChangeEndsEarlierSessions'
    BY DEF IInv, Tables, RowsOK, ExchangesOK, CutoffOK,
           OneExchangePerRefreshToken, ChangeEndsEarlierSessions
  <1>3. RequestsOK'
    BY DEF IInv, TypeOK, Tables, RequestsOK, CanRotate, Active
  <1>4. PunishedOnlyIfReused'
    BY DEF IInv, TypeOK, Tables, PunishedOnlyIfReused
  <1>5. DeletionsOK'
    <2>1. req'[r] = q /\ \A x \in Requests \ {r} : req'[x] = req[x]
      BY DEF IInv, TypeOK
    <2>2. ASSUME NEW x \in Requests
          PROVE  /\ req'[x].held # {} => req'[x].at = "delcommit"
                 /\ req'[x].at = "delcommit" =>
                      \A s \in SessionIds :
                         rows[s].user = req'[x].user =>
                            s \in req'[x].held \/ rows[s].late
      BY <2>1 DEF IInv, DeletionsOK
    <2>3. ASSUME NEW x \in Requests, req'[x].at \in {"delsessions", "delcommit"}
          PROVE  /\ Active(req[x].user)'
                 /\ \A y \in Requests : Deleting(y, req[x].user)' => y = x
      BY <2>1, <2>3 DEF IInv, DeletionsOK, Deleting, Active, Tables
    <2>4. QED
      BY <2>2, <2>3 DEF IInv, DeletionsOK, Tables, Active
  <1>6. QED
    BY <1>1, <1>2, <1>3, <1>4, <1>5 DEF IInv

(* A step that may close sessions and drop requests, and nothing else: it    *)
(* keeps every pair and the history of every row.                            *)
Closes(old, new) ==
    /\ new \in Row
    /\ old.state = "unused" => new = old
    /\ old.state # "unused" => new.state # "unused"
    /\ new.state = "open" => old.state = "open"
    /\ old.state = "removed" => new.state = "removed"
    /\ old.state = "revoked" => new.state \in {"revoked", "removed"}
    /\ new.user = old.user
    /\ new.access = old.access
    /\ new.refresh = old.refresh
    /\ new.born = old.born
    /\ new.late = old.late
    /\ new.extra = old.extra

(* SET revokedAt closes the row it is applied to and nothing else of it. *)
LEMMA RevokedCloses == \A row \in Row : Closes(row, Revoked(row))
  BY DEF Closes, Revoked, Row, RowState

(* So does the cascade that removes a row with its user. *)
LEMMA RemovedCloses ==
  \A row \in Row : row.state # "unused" =>
      Closes(row, [row EXCEPT !.state = "removed"])
  BY DEF Closes, Row, RowState

(* A row left alone is closed no further. *)
LEMMA SameCloses == \A row \in Row : Closes(row, row)
  BY DEF Closes, Row, RowState

(* SessionRepository.revoke as a step on the whole table. *)
LEMMA RevokeCloses ==
  ASSUME TypeOK, NEW t, Revoke(t)
  PROVE  /\ rows' \in [SessionIds -> Row]
         /\ \A s \in SessionIds : Closes(rows[s], rows'[s])
  <1>1. \A s \in SessionIds : rows[s] \in Row
    BY DEF TypeOK
  <1>2. \A s \in SessionIds : rows'[s] \in {rows[s], Revoked(rows[s])}
    BY DEF Revoke, TypeOK
  <1>3. \A s \in SessionIds : Closes(rows[s], rows'[s])
    BY <1>1, <1>2, RevokedCloses, SameCloses
  <1>4. rows' = [s \in SessionIds |-> rows'[s]]
    BY DEF Revoke, TypeOK
  <1>5. QED
    BY <1>3, <1>4 DEF Closes

(* revokeAllByUserId as a step on the table: no row of the user stays open. *)
LEMMA RevokeAllCloses ==
  ASSUME TypeOK, NEW u \in Users, RevokeAllOf(u)
  PROVE  /\ rows' \in [SessionIds -> Row]
         /\ \A s \in SessionIds : Closes(rows[s], rows'[s])
         /\ \A s \in SessionIds : rows[s].user = u => rows'[s].state # "open"
  <1>1. \A s \in SessionIds : rows[s] \in Row
    BY DEF TypeOK
  <1>2. \A s \in SessionIds :
          rows'[s] = IF rows[s].user = u THEN Revoked(rows[s]) ELSE rows[s]
    BY DEF RevokeAllOf
  <1>3. \A s \in SessionIds : Closes(rows[s], rows'[s])
    BY <1>1, <1>2, RevokedCloses, SameCloses
  <1>4. rows' = [s \in SessionIds |-> rows'[s]]
    BY DEF RevokeAllOf
  <1>5. \A s \in SessionIds : rows[s].user = u => rows'[s].state # "open"
    BY <1>1, <1>2 DEF Revoked, Row
  <1>6. QED
    BY <1>3, <1>4, <1>5 DEF Closes

(* A step that closes rows at most, drops requests at most and changes no     *)
(* password keeps the invariant, if no account loses its status while one of  *)
(* its sessions stays open that was not inserted late.                        *)
LEMMA ClosingStep ==
  ASSUME IInv,
         rows' \in [SessionIds -> Row],
         \A s \in SessionIds : Closes(rows[s], rows'[s]),
         req' \in [Requests -> Request],
         \A q \in Requests : req'[q] \in {req[q], Idle},
         users' \in [Users -> User],
         \A u \in Users : users'[u].password = users[u].password,
         \A s \in SessionIds : (rows'[s].state = "open" /\ Active(rows[s].user))
                                   => Active(rows[s].user)' \/ rows[s].late,
         \A u \in Users : ~Active(u) => ~Active(u)',
         \A q \in Requests :
            (req'[q] = req[q] /\ req[q].at \in {"delsessions", "delcommit"}) =>
               Active(req[q].user)',
         UNCHANGED <<family, from>>,
         now' \in Nat, faults' \in Nat, replayed' \subseteq PairIds,
         cutoff' \in [Users -> Nat],
         CutoffOK',
         ChangeEndsEarlierSessions'
  PROVE  IInv'
  <1> USE DEF IInv
  <1>1. TypeOK'
    BY DEF TypeOK
  <1>2. RowsOK'
    BY DEF RowsOK, Closes
  <1>3. ExchangesOK'
    BY DEF ExchangesOK, Closes
  <1>4. OneExchangePerRefreshToken'
    BY DEF OneExchangePerRefreshToken
  <1>5. PunishedOnlyIfReused'
    <2> SUFFICES ASSUME NEW q \in Requests, req'[q].at = "punish",
                        rows'[req'[q].sid].state = "open"
                 PROVE  \E k \in PairIds : from[k] = req'[q].pair
      BY DEF PunishedOnlyIfReused
    <2>1. req'[q] = req[q]
      BY DEF Idle
    <2>2. req[q].sid \in SessionIds
      BY <2>1 DEF RequestsOK
    <2>3. rows[req[q].sid].state = "open"
      BY <2>1, <2>2 DEF Closes
    <2>4. QED
      BY <2>1, <2>3 DEF PunishedOnlyIfReused
  <1>6. RequestsOK'
    <2> SUFFICES ASSUME NEW q \in Requests, req'[q] = req[q], req[q].at # "idle"
                 PROVE
        /\ req[q].at \in {"insert", "authed", "setpw", "revokeall", "markdel",
                          "delsessions", "delcommit", "resetpw"} => req[q].user \in Users
        /\ req[q].at \in {"rotate", "punish", "authed", "revoke"} =>
              req[q].sid \in SessionIds /\ rows'[req[q].sid].state # "unused"
        /\ req[q].at \in {"rotate", "punish"} =>
              /\ req[q].pair \in PairIds
              /\ family[req[q].pair] = req[q].sid
        /\ req[q].at = "rotate" =>
              \/ rows'[req[q].sid].refresh = req[q].pair
              \/ \E k \in PairIds : from[k] = req[q].pair
        /\ (req[q].at = "rotate" /\ CanRotate(req[q].sid, req[q].pair)') =>
              \/ Active(rows[req[q].sid].user)'
              \/ rows'[req[q].sid].late /\ ~rows'[req[q].sid].extra
        /\ req[q].at = "revokeall" =>
              req[q].password <= users'[req[q].user].password
      BY DEF RequestsOK, Idle, CanRotate, Active, Closes
    <2>1. (req[q].at = "rotate" /\ CanRotate(req[q].sid, req[q].pair)') =>
              \/ Active(rows[req[q].sid].user)'
              \/ rows'[req[q].sid].late /\ ~rows'[req[q].sid].extra
      <3> SUFFICES ASSUME req[q].at = "rotate", CanRotate(req[q].sid, req[q].pair)'
                   PROVE  \/ Active(rows[req[q].sid].user)'
                          \/ rows'[req[q].sid].late /\ ~rows'[req[q].sid].extra
        OBVIOUS
      <3>1. PICK s \in SessionIds : s = req[q].sid
        BY DEF RequestsOK
      <3>2. /\ rows'[s].state = "open" /\ rows[s].state = "open"
            /\ rows'[s].refresh = req[q].pair /\ rows[s].refresh = req[q].pair
            /\ rows'[s].user = rows[s].user
            /\ rows'[s].late = rows[s].late /\ rows'[s].extra = rows[s].extra
        BY <3>1 DEF CanRotate, Closes
      <3>3. Active(rows[s].user) \/ (rows[s].late /\ ~rows[s].extra)
        BY <3>1, <3>2 DEF RequestsOK, CanRotate
      <3>4. rows[s].extra => ~Active(rows[s].user)
        BY DEF DeletionsOK
      <3>5. QED
        BY <3>1, <3>2, <3>3, <3>4 DEF Active
    <2>2. QED
      BY <2>1 DEF RequestsOK, CanRotate, Active, Closes
  <1>7. DeletionsOK'
    <2>1. \A s \in SessionIds : rows[s].user \in Users \/ ~rows[s].extra
      BY DEF RowsOK, UnusedRow
    <2>2. \A s \in SessionIds : rows'[s].extra => ~Active(rows[s].user)'
      BY <2>1 DEF DeletionsOK, Closes, Active
    <2>3. ASSUME NEW q \in Requests
          PROVE  /\ req'[q].held # {} => req'[q].at = "delcommit"
                 /\ req'[q].at = "delcommit" =>
                       \A s \in SessionIds :
                          rows'[s].user = req'[q].user =>
                             s \in req'[q].held \/ rows'[s].late
      BY DEF DeletionsOK, Closes, Idle
    <2>4. ASSUME NEW q \in Requests, req'[q].at \in {"delsessions", "delcommit"}
          PROVE  /\ Active(req[q].user)'
                 /\ \A x \in Requests : Deleting(x, req[q].user)' => x = q
      <3>1. req'[q] = req[q]
        BY <2>4 DEF Idle
      <3>2. \A x \in Requests : Deleting(x, req[q].user)' => Deleting(x, req[q].user)
        BY <3>1 DEF Deleting, Idle
      <3>3. QED
        BY <2>4, <3>1, <3>2 DEF DeletionsOK, Active
    <2>5. QED
      BY <2>2, <2>3, <2>4 DEF DeletionsOK
  <1>8. QED
    BY <1>1, <1>2, <1>3, <1>4, <1>5, <1>6, <1>7

-----------------------------------------------------------------------------
(* Each action keeps the invariant. *)

(* A free slot is a request. *)
LEMMA IdleIsRequest == Idle \in Request
  BY DEF Idle, Request, Steps

(* Handlers that have only read so far. *)
LEMMA ReadingSteps ==
  ASSUME IInv, NEW r \in Requests,
         \/ \E u \in Users : LoginVerify(r, u) \/ ResetCheck(r, u)
         \/ LoginRefused(r)
         \/ ReadOnly(r)
         \/ ChangePasswordVerify(r)
         \/ DeletionCheck(r)
         \/ MarkAsDeleted(r)
         \/ MarkSessionsRevoked(r)
         \/ RotateMiss(r)
         \/ \E s \in SessionIds : RevokeSessionFind(r, s)
         \/ \E s \in SessionIds, k \in PairIds :
               RefreshFind(r, s, k) \/ Authenticate(r, s, k)
                 \/ RevokeByTokenFind(r, s, k)
  PROVE  IInv'
  <1> DEFINE q == req'[r]
  <1>1. /\ req[r] \in Request /\ r \in DOMAIN req
        /\ req[r].at # "delcommit" => req[r].held = {}
    BY DEF IInv, TypeOK, DeletionsOK
  <1>2. UNCHANGED Tables
    BY DEF Tables, LoginVerify, ResetCheck, LoginRefused, ReadOnly,
           ChangePasswordVerify, DeletionCheck, RotateMiss, RevokeSessionFind,
           RefreshFind, Authenticate, RevokeByTokenFind, MarkAsDeleted,
           MarkSessionsRevoked
  <1> USE DEF Idle, Request, Steps
  <1>3. CASE \E u \in Users : LoginVerify(r, u) \/ ResetCheck(r, u)
    <2>1. PICK u \in Users : LoginVerify(r, u) \/ ResetCheck(r, u)
      BY <1>3
    <2>2. PICK a \in {"insert", "resetpw"} :
            req' = [req EXCEPT ![r] = [Idle EXCEPT !.at = a, !.user = u]]
      BY <2>1 DEF LoginVerify, ResetCheck
    <2>3. QED
      BY <1>1, <1>2, <2>2, RequestStep
  <1>4. CASE LoginRefused(r) \/ ReadOnly(r) \/ (MarkAsDeleted(r) /\ ~Active(req[r].user))
    <2>1. req' = [req EXCEPT ![r] = Idle]
      BY <1>4 DEF LoginRefused, ReadOnly, Done, MarkAsDeleted
    <2>2. QED
      BY <1>2, <2>1, RequestStep
  <1>5. CASE ChangePasswordVerify(r)
    <2>1. req' = [req EXCEPT ![r] = [req[r] EXCEPT !.at = "setpw"]]
      BY <1>5 DEF ChangePasswordVerify
    <2>2. req[r].user \in Users /\ req[r].held = {}
      BY <1>1, <1>5 DEF ChangePasswordVerify, IInv, RequestsOK
    <2>3. QED
      BY <1>1, <1>2, <2>1, <2>2, RequestStep
  <1>10. CASE DeletionCheck(r)
    <2>1. req[r].user \in Users
      BY <1>10 DEF DeletionCheck, IInv, RequestsOK
    <2>2. QED
      BY <1>1, <1>2, <1>10, <2>1, RequestStep DEF DeletionCheck
  <1>11. CASE MarkAsDeleted(r) /\ Active(req[r].user)
    <2>1. req' = [req EXCEPT ![r] = [req[r] EXCEPT !.at = "delsessions"]]
      BY <1>11 DEF MarkAsDeleted
    <2>2. /\ req[r].user \in Users /\ req[r].held = {}
          /\ \A x \in Requests : ~Deleting(x, req[r].user)
      BY <1>1, <1>11 DEF MarkAsDeleted, IInv, RequestsOK
    <2>3. QED
      BY <1>1, <1>2, <1>11, <2>1, <2>2, RequestStep
  <1>12. CASE MarkSessionsRevoked(r)
    <2> DEFINE u == req[r].user
               h == {s \in SessionIds : rows[s].user = u}
               n == [req[r] EXCEPT !.at = "delcommit", !.held = h]
    <2>1. req' = [req EXCEPT ![r] = n] /\ req[r].at = "delsessions"
      BY <1>12 DEF MarkSessionsRevoked
    <2>2. n \in Request /\ n.at = "delcommit" /\ n.held = h /\ n.user = u
      BY <1>1
    <2>3. /\ u \in Users /\ Active(u)
          /\ \A x \in Requests \ {r} : ~Deleting(x, u)
      BY <2>1 DEF IInv, RequestsOK, DeletionsOK
    <2> HIDE DEF n
    <2>4. QED
      BY <1>2, <2>1, <2>2, <2>3, RequestStep
  <1>6. CASE RotateMiss(r)
    <2>1. req' = [req EXCEPT ![r] = [req[r] EXCEPT !.at = "punish"]]
      BY <1>6 DEF RotateMiss
    <2>2. /\ req[r].sid \in SessionIds /\ rows[req[r].sid].state # "unused"
          /\ req[r].pair \in PairIds /\ family[req[r].pair] = req[r].sid
          /\ req[r].held = {}
      BY <1>1, <1>6 DEF RotateMiss, IInv, RequestsOK
    <2>3. rows[req[r].sid].state = "open" =>
             \E k \in PairIds : from[k] = req[r].pair
      BY <1>6 DEF RotateMiss, CanRotate, IInv, RequestsOK
    <2>4. QED
      BY <1>1, <1>2, <2>1, <2>2, <2>3, RequestStep
  <1>7. CASE \E s \in SessionIds : RevokeSessionFind(r, s)
    <2>1. PICK s \in SessionIds : RevokeSessionFind(r, s)
      BY <1>7
    <2>2. QED
      BY <1>1, <1>2, <2>1, RequestStep DEF RevokeSessionFind
  <1>8. CASE \E s \in SessionIds, k \in PairIds :
               RefreshFind(r, s, k) \/ Authenticate(r, s, k)
                 \/ RevokeByTokenFind(r, s, k)
    <2>1. PICK s \in SessionIds, k \in PairIds :
               RefreshFind(r, s, k) \/ Authenticate(r, s, k)
                 \/ RevokeByTokenFind(r, s, k)
      BY <1>8
    <2>2. rows[s].state # "unused"
      BY <2>1 DEF RefreshFind, Authenticate, RevokeByTokenFind, Authenticates,
                  FoundByAccess, FoundByRefresh
    <2>3. rows[s].user \in Users
      BY <2>2 DEF IInv, RowsOK
    <2>4. CASE RefreshFind(r, s, k)
      <3>1. rows[s].refresh = k /\ family[k] = s /\ Active(rows[s].user)
        BY <2>2, <2>4 DEF RefreshFind, FoundByRefresh, IInv, RowsOK
      <3>2. QED
        BY <1>1, <1>2, <2>2, <2>4, <3>1, RequestStep DEF RefreshFind
    <2>5. CASE Authenticate(r, s, k)
      BY <1>1, <1>2, <2>2, <2>3, <2>5, RequestStep DEF Authenticate
    <2>6. CASE RevokeByTokenFind(r, s, k)
      BY <1>1, <1>2, <2>2, <2>6, RequestStep DEF RevokeByTokenFind
    <2>7. QED
      BY <2>1, <2>4, <2>5, <2>6
  <1>9. QED
    BY <1>3, <1>4, <1>5, <1>6, <1>7, <1>8, <1>10, <1>11, <1>12

(* Handlers, jobs and the clock, where they close sessions at most. *)
LEMMA ClosingSteps ==
  ASSUME IInv,
         \/ \E r \in Requests :
               \/ Punish(r) \/ Logout(r) \/ RevokeFound(r) \/ RevokeAllSessions(r)
               \/ ChangePasswordRevoke(r) \/ CommitDeletion(r) \/ Fail(r)
         \/ \E u \in Users : PhysicallyDelete(u)
         \/ \E k \in PairIds : RefreshNotFound(k)
         \/ Tick
  PROVE  IInv'
  <1>1. TypeOK /\ RowsOK /\ CutoffOK /\ ChangeEndsEarlierSessions /\ DeletionsOK
    BY DEF IInv
  <1>2. ASSUME NEW r \in Requests, Done(r)
        PROVE  /\ req' \in [Requests -> Request]
               /\ \A q \in Requests : req'[q] \in {req[q], Idle}
    BY <1>1, <1>2, IdleIsRequest DEF Done, TypeOK
  <1>3. ASSUME UNCHANGED req
        PROVE  /\ req' \in [Requests -> Request]
               /\ \A q \in Requests : req'[q] \in {req[q], Idle}
    BY <1>1, <1>3 DEF TypeOK
  <1>4. ASSUME \A s \in SessionIds : Closes(rows[s], rows'[s]),
               UNCHANGED <<users, cutoff>>
        PROVE  /\ users' \in [Users -> User] /\ cutoff' \in [Users -> Nat]
               /\ \A u \in Users : users'[u].password = users[u].password
               /\ \A s \in SessionIds :
                     (rows'[s].state = "open" /\ Active(rows[s].user))
                        => Active(rows[s].user)' \/ rows[s].late
               /\ \A u \in Users : ~Active(u) => ~Active(u)'
               /\ \A q \in Requests :
                    (req'[q] = req[q] /\ req[q].at \in {"delsessions", "delcommit"})
                       => Active(req[q].user)'
               /\ CutoffOK' /\ ChangeEndsEarlierSessions'
    BY <1>1, <1>4 DEF TypeOK, CutoffOK, ChangeEndsEarlierSessions, Closes, Active,
                      DeletionsOK
  <1>5. ASSUME NEW r \in Requests,
               Punish(r) \/ Logout(r) \/ RevokeFound(r)
        PROVE  IInv'
    <2>1. Revoke(req[r].sid) /\ Done(r) /\ UNCHANGED <<users, cutoff>>
      BY <1>5 DEF Punish, Logout, RevokeFound
    <2>2. /\ rows' \in [SessionIds -> Row]
          /\ \A s \in SessionIds : Closes(rows[s], rows'[s])
      BY <1>1, <2>1, RevokeCloses
    <2>3. req[r].at = "punish" => req[r].pair \in PairIds
      BY DEF IInv, RequestsOK
    <2>4. /\ now' \in Nat /\ faults' \in Nat /\ replayed' \subseteq PairIds
          /\ UNCHANGED <<family, from>>
      BY <1>1, <1>5, <2>3 DEF Punish, Logout, RevokeFound, ReuseSeen, TypeOK
    <2>5. QED
      BY <1>2, <1>4, <2>1, <2>2, <2>4, ClosingStep
  <1>6. ASSUME NEW r \in Requests, RevokeAllSessions(r)
        PROVE  IInv'
    <2>1. req[r].user \in Users
      BY <1>6 DEF RevokeAllSessions, IInv, RequestsOK
    <2>2. RevokeAllOf(req[r].user) /\ Done(r) /\ UNCHANGED <<users, cutoff>>
      BY <1>6 DEF RevokeAllSessions
    <2>3. /\ rows' \in [SessionIds -> Row]
          /\ \A s \in SessionIds : Closes(rows[s], rows'[s])
      BY <1>1, <2>1, <2>2, RevokeAllCloses
    <2>4. /\ now' \in Nat /\ faults' \in Nat /\ replayed' \subseteq PairIds
          /\ UNCHANGED <<family, from>>
      BY <1>1, <1>6 DEF RevokeAllSessions, TypeOK
    <2>5. QED
      BY <1>2, <1>4, <2>2, <2>3, <2>4, ClosingStep
  <1>7. ASSUME NEW r \in Requests, ChangePasswordRevoke(r)
        PROVE  IInv'
    <2> DEFINE u == req[r].user
    <2>1. u \in Users /\ req[r].password <= users[u].password
            /\ req[r].password \in Nat
      BY <1>1, <1>7 DEF ChangePasswordRevoke, IInv, RequestsOK, TypeOK, Request
    <2>2. RevokeAllOf(u) /\ Done(r) /\ UNCHANGED <<users, family, from>>
      BY <1>7 DEF ChangePasswordRevoke
    <2>3. /\ rows' \in [SessionIds -> Row]
          /\ \A s \in SessionIds : Closes(rows[s], rows'[s])
          /\ \A s \in SessionIds : rows[s].user = u => rows'[s].state # "open"
      BY <1>1, <2>1, <2>2, RevokeAllCloses
    <2>4. cutoff' = [cutoff EXCEPT ![u] =
                       IF req[r].password > @ THEN req[r].password ELSE @]
      BY <1>7 DEF ChangePasswordRevoke
    <2>5. cutoff' \in [Users -> Nat] /\ CutoffOK'
      BY <1>1, <2>1, <2>2, <2>4 DEF TypeOK, CutoffOK, User
    <2>6. ChangeEndsEarlierSessions'
      BY <1>1, <2>1, <2>3, <2>4 DEF TypeOK, ChangeEndsEarlierSessions, Closes
    <2>7. /\ now' \in Nat /\ faults' \in Nat /\ replayed' \subseteq PairIds
          /\ users' \in [Users -> User]
          /\ \A v \in Users : users'[v].password = users[v].password
          /\ \A s \in SessionIds :
                (rows'[s].state = "open" /\ Active(rows[s].user))
                   => Active(rows[s].user)' \/ rows[s].late
          /\ \A v \in Users : ~Active(v) => ~Active(v)'
          /\ \A q \in Requests :
                (req'[q] = req[q] /\ req[q].at \in {"delsessions", "delcommit"})
                   => Active(req[q].user)'
      BY <1>1, <1>7, <2>2, <2>3 DEF ChangePasswordRevoke, TypeOK, Active, Closes,
                                    DeletionsOK
    <2>8. QED
      BY <1>2, <2>2, <2>3, <2>5, <2>6, <2>7, ClosingStep
  <1>8. ASSUME NEW r \in Requests, CommitDeletion(r)
        PROVE  IInv'
    <2> DEFINE u == req[r].user
    <2>1. /\ u \in Users /\ req[r].at = "delcommit"
          /\ \A s \in SessionIds : rows[s].user = u => s \in req[r].held \/ rows[s].late
          /\ \A q \in Requests : Deleting(q, u) => q = r
      BY <1>1, <1>8 DEF CommitDeletion, IInv, RequestsOK, DeletionsOK
    <2>2. /\ Done(r) /\ UNCHANGED <<family, from, cutoff, now, faults, replayed>>
          /\ now' \in Nat /\ faults' \in Nat /\ replayed' \subseteq PairIds
          /\ cutoff' \in [Users -> Nat]
      BY <1>1, <1>8 DEF CommitDeletion, TypeOK
    <2>3. /\ users' = [users EXCEPT ![u].status = "deleted"]
          /\ rows' = [s \in SessionIds |->
                        IF s \in req[r].held THEN Revoked(rows[s]) ELSE rows[s]]
      BY <1>8 DEF CommitDeletion
    <2>4. /\ rows' \in [SessionIds -> Row]
          /\ \A s \in SessionIds : Closes(rows[s], rows'[s])
          /\ \A s \in SessionIds : s \in req[r].held => rows'[s].state # "open"
      <3>1. \A s \in SessionIds : rows[s] \in Row
        BY <1>1 DEF TypeOK
      <3>2. \A s \in SessionIds :
              rows'[s] = IF s \in req[r].held THEN Revoked(rows[s]) ELSE rows[s]
        BY <2>3
      <3>3. \A s \in SessionIds : Closes(rows[s], rows'[s])
        BY <3>1, <3>2, RevokedCloses, SameCloses
      <3>4. rows' = [s \in SessionIds |-> rows'[s]]
        BY <2>3
      <3>5. \A s \in SessionIds : s \in req[r].held => rows'[s].state # "open"
        BY <3>1, <3>2 DEF Revoked, Row
      <3>6. QED
        BY <3>3, <3>4, <3>5 DEF Closes
    <2>5. /\ users' \in [Users -> User]
          /\ \A v \in Users : users'[v].password = users[v].password
          /\ \A v \in Users : v # u => users'[v] = users[v]
          /\ users'[u].status = "deleted"
      BY <1>1, <2>1, <2>3 DEF TypeOK, User, UserStatus
    <2>6. \A s \in SessionIds :
             (rows'[s].state = "open" /\ Active(rows[s].user))
                => Active(rows[s].user)' \/ rows[s].late
      <3> SUFFICES ASSUME NEW s \in SessionIds, rows'[s].state = "open",
                          Active(rows[s].user), ~rows[s].late
                   PROVE  Active(rows[s].user)'
        OBVIOUS
      <3>1. rows[s].state # "unused" /\ rows'[s].user = rows[s].user
        BY <2>4 DEF Closes
      <3>2. rows[s].user \in Users \ {u}
        BY <1>1, <2>1, <2>4, <3>1 DEF RowsOK
      <3>3. QED
        BY <2>5, <3>1, <3>2 DEF Active
    <2>7. /\ \A v \in Users : ~Active(v) => ~Active(v)'
          /\ \A q \in Requests :
                (req'[q] = req[q] /\ req[q].at \in {"delsessions", "delcommit"})
                   => Active(req[q].user)'
      <3>1. \A v \in Users : ~Active(v) => ~Active(v)'
        BY <2>5 DEF Active
      <3>2. ASSUME NEW q \in Requests, req'[q] = req[q],
                   req[q].at \in {"delsessions", "delcommit"}
            PROVE  Active(req[q].user)'
        <4>1. q # r
          BY <1>1, <2>2, <3>2 DEF Done, Idle, TypeOK
        <4>2. req[q].user \in Users \ {u} /\ Active(req[q].user)
          BY <1>1, <2>1, <3>2, <4>1 DEF IInv, RequestsOK, DeletionsOK, Deleting
        <4>3. QED
          BY <2>5, <3>2, <4>2 DEF Active
      <3>3. QED
        BY <3>1, <3>2
    <2>8. CutoffOK' /\ ChangeEndsEarlierSessions'
      BY <1>1, <2>2, <2>4, <2>5 DEF CutoffOK, ChangeEndsEarlierSessions, Closes
    <2>9. QED
      BY <1>2, <2>2, <2>4, <2>5, <2>6, <2>7, <2>8, ClosingStep
  <1>9. ASSUME NEW u \in Users, PhysicallyDelete(u)
        PROVE  IInv'
    <2>1. /\ users[u].status = "deleted"
          /\ users' = [users EXCEPT ![u].status = "gone"]
          /\ UNCHANGED <<req, now, family, from, cutoff, replayed, faults>>
          /\ rows' = [s \in SessionIds |->
                  IF rows[s].user = u THEN [rows[s] EXCEPT !.state = "removed"]
                                      ELSE rows[s]]
      BY <1>9 DEF PhysicallyDelete
    <2>2. \A s \in SessionIds : rows[s] \in Row
                 /\ (rows[s].user = u => rows[s].state # "unused")
      BY <1>1, SessionsAssumption DEF TypeOK, RowsOK, UnusedRow
    <2>3. \A s \in SessionIds : Closes(rows[s], rows'[s])
      BY <2>1, <2>2, RemovedCloses, SameCloses
    <2>4. rows' \in [SessionIds -> Row]
      BY <2>1, <2>3 DEF Closes
    <2>5. /\ users' \in [Users -> User]
          /\ \A v \in Users : users'[v].password = users[v].password
          /\ \A v \in Users : v # u => users'[v] = users[v]
      BY <1>1, <2>1 DEF TypeOK, User, UserStatus
    <2>10. /\ \A v \in Users : ~Active(v) => ~Active(v)'
           /\ \A q \in Requests :
                (req'[q] = req[q] /\ req[q].at \in {"delsessions", "delcommit"})
                   => Active(req[q].user)'
      BY <1>1, <2>1, <2>5 DEF Active, DeletionsOK, IInv, RequestsOK
    <2>6. \A s \in SessionIds :
             (rows'[s].state = "open" /\ Active(rows[s].user))
                => Active(rows[s].user)' \/ rows[s].late
      <3> SUFFICES ASSUME NEW s \in SessionIds, rows'[s].state = "open",
                          Active(rows[s].user)
                   PROVE  Active(rows[s].user)'
        OBVIOUS
      <3>1. rows[s].state # "unused" /\ rows'[s].user = rows[s].user
        BY <2>3 DEF Closes
      <3>2. rows[s].user \in Users \ {u}
        BY <1>1, <2>1, <3>1 DEF RowsOK, Active
      <3>3. QED
        BY <2>5, <3>1, <3>2 DEF Active
    <2>7. CutoffOK' /\ ChangeEndsEarlierSessions'
      BY <1>1, <2>1, <2>3, <2>5 DEF CutoffOK, ChangeEndsEarlierSessions, Closes
    <2>8. /\ now' \in Nat /\ faults' \in Nat /\ replayed' \subseteq PairIds
          /\ cutoff' \in [Users -> Nat]
      BY <1>1, <2>1 DEF TypeOK
    <2>9. QED
      BY <1>3, <2>1, <2>3, <2>4, <2>5, <2>6, <2>7, <2>8, <2>10, ClosingStep
  <1>10. ASSUME \/ \E r \in Requests : Fail(r)
                \/ \E k \in PairIds : RefreshNotFound(k)
                \/ Tick
         PROVE  IInv'
    <2>1. UNCHANGED <<users, rows, family, from, cutoff>>
      BY <1>10 DEF Fail, RefreshNotFound, Tick
    <2>2. /\ req' \in [Requests -> Request]
          /\ \A q \in Requests : req'[q] \in {req[q], Idle}
      BY <1>2, <1>3, <1>10 DEF Fail, RefreshNotFound, Tick
    <2>3. now' \in Nat /\ faults' \in Nat /\ replayed' \subseteq PairIds
      BY <1>1, <1>10 DEF Fail, RefreshNotFound, ReuseSeen, Tick, TypeOK
    <2>4. /\ rows' \in [SessionIds -> Row]
          /\ \A s \in SessionIds : Closes(rows[s], rows'[s])
      BY <1>1, <2>1, SameCloses DEF TypeOK
    <2>5. QED
      BY <1>4, <2>1, <2>2, <2>3, <2>4, ClosingStep
  <1>11. QED
    BY <1>5, <1>6, <1>7, <1>8, <1>9, <1>10

(* A new row takes an unused id and a fresh pair, so it disturbs no request  *)
(* in flight and no exchange.                                                *)
LEMMA CreateSessionStep ==
  ASSUME IInv, NEW r \in Requests, NEW s \in SessionIds, NEW k \in PairIds,
         CreateSession(r, s, k)
  PROVE  IInv'
  <1> USE DEF IInv
  <1> DEFINE u == req[r].user
  <1>1. /\ req[r].at = "insert" /\ rows[s].state = "unused"
        /\ family[k] = NoSession
        /\ family' = [family EXCEPT ![k] = s]
        /\ req' = [req EXCEPT ![r] = Idle]
        /\ UNCHANGED <<users, now, from, cutoff, replayed, faults>>
    BY DEF CreateSession, IsFresh, Done
  <1>2. u \in Users
    BY <1>1 DEF RequestsOK
  <1>3. /\ rows' = [rows EXCEPT ![s] = rows'[s]]
        /\ rows'[s] \in Row
        /\ rows'[s].state = "open" /\ rows'[s].user = u
        /\ rows'[s].access = k /\ rows'[s].refresh = k
        /\ rows'[s].born = users[u].password
        /\ rows'[s].late = \E q \in Requests : req[q].at = "delcommit" /\ req[q].user = u
        /\ rows'[s].extra = FALSE
    BY <1>2, SessionsAssumption DEF CreateSession, TypeOK, Row, RowState, User
  <1>4. TypeOK'
    BY <1>1, <1>3, IdleIsRequest DEF TypeOK
  <1>5. RowsOK'
    <2> SUFFICES ASSUME NEW x \in SessionIds, x # s
                 PROVE  IF rows[x].state = "unused"
                          THEN rows[x] = UnusedRow
                          ELSE /\ rows[x].user \in Users
                               /\ rows[x].access \in PairIds
                               /\ family'[rows[x].access] = x
                               /\ rows[x].refresh \in PairIds
                               /\ family'[rows[x].refresh] = x
      BY <1>1, <1>2, <1>3 DEF RowsOK, TypeOK
    <2>1. QED
      BY <1>1, SessionsAssumption DEF RowsOK, TypeOK
  <1>6. \A j \in PairIds : from[j] # k
    BY <1>1, SessionsAssumption DEF ExchangesOK, TypeOK
  <1>7. ExchangesOK'
    BY <1>1, <1>3, <1>6, SessionsAssumption DEF ExchangesOK, TypeOK
  <1>8. RequestsOK'
    <2> SUFFICES ASSUME NEW q \in Requests, q # r
                 PROVE
        /\ req[q].at \in {"insert", "authed", "setpw", "revokeall", "markdel",
                          "delsessions", "delcommit", "resetpw"} => req[q].user \in Users
        /\ req[q].at \in {"rotate", "punish", "authed", "revoke"} =>
              req[q].sid \in SessionIds /\ rows'[req[q].sid].state # "unused"
        /\ req[q].at \in {"rotate", "punish"} =>
              /\ req[q].pair \in PairIds
              /\ family'[req[q].pair] = req[q].sid
        /\ req[q].at = "rotate" =>
              \/ rows'[req[q].sid].refresh = req[q].pair
              \/ \E j \in PairIds : from[j] = req[q].pair
        /\ (req[q].at = "rotate" /\ CanRotate(req[q].sid, req[q].pair)') =>
              \/ users[rows'[req[q].sid].user].status = "active"
              \/ rows'[req[q].sid].late /\ ~rows'[req[q].sid].extra
        /\ req[q].at = "revokeall" =>
              req[q].password <= users[req[q].user].password
      BY <1>1 DEF RequestsOK, TypeOK, Idle, CanRotate, Active
    <2>1. req[q].at \in {"rotate", "punish", "authed", "revoke"} =>
            /\ req[q].sid \in SessionIds \ {s}
            /\ rows'[req[q].sid] = rows[req[q].sid]
      BY <1>1, <1>3 DEF RequestsOK, TypeOK
    <2>2. req[q].at \in {"rotate", "punish"} =>
            req[q].pair \in PairIds \ {k}
      BY <1>1, SessionsAssumption DEF RequestsOK
    <2>3. QED
      BY <1>1, <2>1, <2>2 DEF RequestsOK, TypeOK, CanRotate, Active
  <1>9. PunishedOnlyIfReused'
    <2> SUFFICES ASSUME NEW q \in Requests, req'[q].at = "punish",
                        rows'[req'[q].sid].state = "open"
                 PROVE  \E j \in PairIds : from[j] = req'[q].pair
      BY <1>1 DEF PunishedOnlyIfReused
    <2>1. q # r /\ req'[q] = req[q]
      BY <1>1 DEF TypeOK, Idle
    <2>2. req[q].sid \in SessionIds \ {s}
      BY <1>1, <2>1 DEF RequestsOK
    <2>3. QED
      BY <1>3, <2>1, <2>2 DEF PunishedOnlyIfReused, TypeOK
  <1>10. CutoffOK' /\ OneExchangePerRefreshToken'
    BY <1>1 DEF CutoffOK, OneExchangePerRefreshToken
  <1>11. ChangeEndsEarlierSessions'
    BY <1>1, <1>2, <1>3 DEF ChangeEndsEarlierSessions, CutoffOK, TypeOK
  <1>12. DeletionsOK'
    <2>1. \A q \in Requests : req'[q] = IF q = r THEN Idle ELSE req[q]
      BY <1>1 DEF TypeOK
    <2>2. ASSUME NEW q \in Requests
          PROVE  /\ req'[q].held # {} => req'[q].at = "delcommit"
                 /\ req'[q].at = "delcommit" =>
                      \A x \in SessionIds :
                         rows'[x].user = req'[q].user =>
                            x \in req'[q].held \/ rows'[x].late
      <3>1. \A x \in SessionIds \ {s} : rows'[x] = rows[x]
        BY <1>3 DEF TypeOK
      <3>2. (req[q].at = "delcommit" /\ req[q].user = u) => rows'[s].late
        BY <1>3
      <3>3. req'[q].at = "delcommit" => q # r /\ req'[q] = req[q]
        BY <2>1 DEF Idle
      <3>4. ASSUME NEW x \in SessionIds, req'[q].at = "delcommit",
                   rows'[x].user = req'[q].user
            PROVE  x \in req'[q].held \/ rows'[x].late
        <4>1. CASE x = s
          BY <1>3, <3>2, <3>3, <3>4, <4>1
        <4>2. CASE x # s
          BY <3>1, <3>3, <3>4, <4>2 DEF DeletionsOK
        <4>3. QED
          BY <4>1, <4>2
      <3>5. req'[q].held # {} => req'[q].at = "delcommit"
        BY <2>1 DEF DeletionsOK, Idle
      <3>6. QED
        BY <3>4, <3>5
    <2>3. ASSUME NEW q \in Requests, req'[q].at \in {"delsessions", "delcommit"}
          PROVE  /\ Active(req[q].user)'
                 /\ \A x \in Requests : Deleting(x, req[q].user)' => x = q
      BY <1>1, <2>1, <2>3 DEF DeletionsOK, Deleting, Active, Idle
    <2>4. \A x \in SessionIds : rows'[x].extra => ~Active(rows[x].user)'
      BY <1>1, <1>3 DEF DeletionsOK, Active, TypeOK
    <2>5. QED
      BY <2>2, <2>3, <2>4 DEF DeletionsOK
  <1>13. QED
    BY <1>4, <1>5, <1>7, <1>8, <1>9, <1>10, <1>11, <1>12

(* What rotateTokens leaves of a row. *)
Rotated(row, k, a, b, x) ==
    [row EXCEPT !.access = k, !.refresh = k, !.expiresAt = a,
                !.refreshExpiresAt = b, !.extra = x]

(* rotateTokens keeps owner, state and birth of the row. *)
LEMMA RotatedRow ==
  ASSUME NEW row \in Row, NEW k \in PairIds, NEW a \in Nat, NEW b \in Nat,
         NEW x \in BOOLEAN
  PROVE  /\ Rotated(row, k, a, b, x) \in Row
         /\ Rotated(row, k, a, b, x).state = row.state
         /\ Rotated(row, k, a, b, x).user = row.user
         /\ Rotated(row, k, a, b, x).access = k
         /\ Rotated(row, k, a, b, x).refresh = k
         /\ Rotated(row, k, a, b, x).born = row.born
         /\ Rotated(row, k, a, b, x).late = row.late
         /\ Rotated(row, k, a, b, x).extra = x
  BY DEF Rotated, Row

(* The guarded UPDATE: the pair it replaces was held by this row, hence not   *)
(* exchanged before and held by no other row; requests that had read the same *)
(* pair now have an exchange to blame.                                        *)
LEMMA RotateStep ==
  ASSUME IInv, NEW r \in Requests, NEW k \in PairIds, Rotate(r, k)
  PROVE  IInv'
  <1> USE DEF IInv
  <1> DEFINE s == req[r].sid  p == req[r].pair
  <1>1. /\ req[r].at = "rotate" /\ rows[s].state = "open" /\ rows[s].refresh = p
        /\ family[k] = NoSession
        /\ family' = [family EXCEPT ![k] = s]
        /\ from' = [from EXCEPT ![k] = p]
        /\ req' = [req EXCEPT ![r] = Idle]
        /\ UNCHANGED <<users, now, cutoff, replayed, faults>>
    BY DEF Rotate, IsFresh, Done, CanRotate
  <1>2. s \in SessionIds /\ p \in PairIds /\ family[p] = s /\ p # k
    BY <1>1, SessionsAssumption DEF RequestsOK
  <1>3. rows[s].user \in Users
    BY <1>1, <1>2 DEF RowsOK
  <1>4. /\ rows' = [rows EXCEPT ![s] = rows'[s]]
        /\ rows'[s] \in Row
        /\ rows'[s].state = "open" /\ rows'[s].user = rows[s].user
        /\ rows'[s].access = k /\ rows'[s].refresh = k
        /\ rows'[s].born = rows[s].born
        /\ rows'[s].late = rows[s].late
        /\ rows'[s].extra = ~Active(rows[s].user)
    <2>1. rows' = [rows EXCEPT ![s] =
                     Rotated(@, k, now + AccessTTL, now + RefreshTTL,
                             ~Active(rows[s].user))]
      BY DEF Rotate, Rotated
    <2>2. rows[s] \in Row /\ now + AccessTTL \in Nat /\ now + RefreshTTL \in Nat
      BY <1>2, SessionsAssumption DEF TypeOK
    <2>3. rows'[s] = Rotated(rows[s], k, now + AccessTTL, now + RefreshTTL,
                             ~Active(rows[s].user))
      BY <1>2, <2>1 DEF TypeOK
    <2>4. rows' = [rows EXCEPT ![s] = rows'[s]]
      BY <2>1, <2>3
    <2>5. PICK row \in Row, a \in Nat, b \in Nat, x \in BOOLEAN :
            /\ row = rows[s] /\ a = now + AccessTTL /\ b = now + RefreshTTL
            /\ x = ~Active(rows[s].user)
      BY <2>2
    <2>6. rows'[s] = Rotated(row, k, a, b, x)
      BY <2>3, <2>5
    <2>7. /\ rows'[s] \in Row
          /\ rows'[s].state = row.state /\ rows'[s].user = row.user
          /\ rows'[s].access = k /\ rows'[s].refresh = k
          /\ rows'[s].born = row.born
          /\ rows'[s].late = row.late /\ rows'[s].extra = x
      BY <2>6, RotatedRow
    <2>8. QED
      BY <1>1, <2>4, <2>5, <2>7
  <1>5. TypeOK'
    BY <1>1, <1>2, <1>4, IdleIsRequest DEF TypeOK
  <1>6. \A x \in SessionIds \ {s} : rows[x].access \notin {k, p}
                                  /\ rows[x].refresh \notin {k, p}
    BY <1>1, <1>2, SessionsAssumption DEF RowsOK, UnusedRow
  <1>7. RowsOK'
    <2> SUFFICES ASSUME NEW x \in SessionIds, x # s
                 PROVE  IF rows[x].state = "unused"
                          THEN rows[x] = UnusedRow
                          ELSE /\ rows[x].user \in Users
                               /\ rows[x].access \in PairIds
                               /\ family'[rows[x].access] = x
                               /\ rows[x].refresh \in PairIds
                               /\ family'[rows[x].refresh] = x
      BY <1>1, <1>2, <1>3, <1>4 DEF RowsOK, TypeOK
    <2>1. QED
      BY <1>1, <1>6 DEF RowsOK, TypeOK
  <1>8. \A j \in PairIds : from[j] # k /\ from[j] # p
    BY <1>1, <1>2, SessionsAssumption DEF ExchangesOK, TypeOK
  <1>9. ExchangesOK'
    <2> SUFFICES ASSUME NEW j \in PairIds, from'[j] # NoPair
                 PROVE  /\ family'[j] # NoSession
                        /\ family'[from'[j]] = family'[j]
                        /\ \A x \in SessionIds :
                              rows'[x].access # from'[j] /\ rows'[x].refresh # from'[j]
      BY DEF ExchangesOK
    <2>1. CASE j = k
      <3>1. from'[j] = p /\ family'[j] = s /\ family'[p] = s
        BY <1>1, <1>2, <2>1 DEF TypeOK
      <3>2. \A x \in SessionIds : rows'[x].access # p /\ rows'[x].refresh # p
        BY <1>2, <1>4, <1>6 DEF TypeOK
      <3>3. QED
        BY <1>2, <3>1, <3>2, SessionsAssumption
    <2>2. CASE j # k
      <3>1. from'[j] = from[j] /\ family'[j] = family[j]
              /\ family'[from[j]] = family[from[j]]
        BY <1>1, <1>8, <2>2 DEF TypeOK
      <3>2. QED
        BY <1>4, <1>8, <3>1 DEF ExchangesOK, TypeOK
    <2>3. QED
      BY <2>1, <2>2
  <1>10. from'[k] = p /\ \A j \in PairIds \ {k} : from'[j] = from[j]
    BY <1>1 DEF TypeOK
  <1>11. from[k] = NoPair
    BY <1>1 DEF ExchangesOK
  <1>12. \A z \in PairIds : (\E j \in PairIds : from[j] = z) =>
                               (\E j \in PairIds : from'[j] = z)
    BY <1>10, <1>11, SessionsAssumption
  <1>13. OneExchangePerRefreshToken'
    BY <1>8, <1>10 DEF OneExchangePerRefreshToken
  <1>14. RequestsOK'
    <2> SUFFICES ASSUME NEW q \in Requests, q # r
                 PROVE
        /\ req[q].at \in {"insert", "authed", "setpw", "revokeall", "markdel",
                          "delsessions", "delcommit", "resetpw"} => req[q].user \in Users
        /\ req[q].at \in {"rotate", "punish", "authed", "revoke"} =>
              req[q].sid \in SessionIds /\ rows'[req[q].sid].state # "unused"
        /\ req[q].at \in {"rotate", "punish"} =>
              /\ req[q].pair \in PairIds
              /\ family'[req[q].pair] = req[q].sid
        /\ req[q].at = "rotate" =>
              \/ rows'[req[q].sid].refresh = req[q].pair
              \/ \E j \in PairIds : from'[j] = req[q].pair
        /\ (req[q].at = "rotate" /\ CanRotate(req[q].sid, req[q].pair)') =>
              \/ users[rows'[req[q].sid].user].status = "active"
              \/ rows'[req[q].sid].late /\ ~rows'[req[q].sid].extra
        /\ req[q].at = "revokeall" =>
              req[q].password <= users[req[q].user].password
      BY <1>1 DEF RequestsOK, TypeOK, Idle, CanRotate, Active
    <2>1. req[q].at \in {"rotate", "punish", "authed", "revoke"} =>
            /\ req[q].sid \in SessionIds
            /\ rows'[req[q].sid].state # "unused"
            /\ rows'[req[q].sid].user = rows[req[q].sid].user
            /\ req[q].sid # s => rows'[req[q].sid] = rows[req[q].sid]
      BY <1>4 DEF RequestsOK, TypeOK
    <2>2. req[q].at \in {"rotate", "punish"} =>
            /\ req[q].pair \in PairIds \ {k}
            /\ family'[req[q].pair] = req[q].sid
      BY <1>1, <1>2, SessionsAssumption DEF RequestsOK, TypeOK
    <2>3. req[q].at = "rotate" =>
            \/ rows'[req[q].sid].refresh = req[q].pair
            \/ \E j \in PairIds : from'[j] = req[q].pair
      <3> SUFFICES ASSUME req[q].at = "rotate"
                   PROVE  \/ rows'[req[q].sid].refresh = req[q].pair
                          \/ \E j \in PairIds : from'[j] = req[q].pair
        OBVIOUS
      <3>1. CASE \E j \in PairIds : from[j] = req[q].pair
        BY <1>12, <2>2, <3>1
      <3>2. CASE req[q].sid = s /\ rows[s].refresh = req[q].pair
        BY <1>1, <1>10, <3>2
      <3>3. CASE req[q].sid # s /\ rows[req[q].sid].refresh = req[q].pair
        BY <2>1, <3>3
      <3>4. QED
        BY <3>1, <3>2, <3>3 DEF RequestsOK
    <2>4. (req[q].at = "rotate" /\ CanRotate(req[q].sid, req[q].pair)') =>
              \/ users[rows'[req[q].sid].user].status = "active"
              \/ rows'[req[q].sid].late /\ ~rows'[req[q].sid].extra
      <3> SUFFICES ASSUME req[q].at = "rotate",
                          rows'[req[q].sid].state = "open",
                          rows'[req[q].sid].refresh = req[q].pair
                   PROVE  \/ users[rows'[req[q].sid].user].status = "active"
                          \/ rows'[req[q].sid].late /\ ~rows'[req[q].sid].extra
        BY <1>1, <2>1 DEF CanRotate, TypeOK
      <3>1. CASE req[q].sid = s
        BY <1>4, <2>2, <3>1
      <3>2. CASE req[q].sid # s
        BY <2>1, <3>2 DEF RequestsOK, CanRotate, Active
      <3>3. QED
        BY <3>1, <3>2
    <2>5. QED
      BY <2>1, <2>2, <2>3, <2>4 DEF RequestsOK
  <1>15. PunishedOnlyIfReused'
    <2> SUFFICES ASSUME NEW q \in Requests, req'[q].at = "punish",
                        rows'[req'[q].sid].state = "open"
                 PROVE  \E j \in PairIds : from'[j] = req'[q].pair
      BY DEF PunishedOnlyIfReused
    <2>1. q # r /\ req'[q] = req[q]
      BY <1>1 DEF TypeOK, Idle
    <2>2. req[q].sid \in SessionIds /\ req[q].pair \in PairIds
      BY <2>1 DEF RequestsOK
    <2>3. rows[req[q].sid].state = "open"
      BY <1>1, <1>4, <2>1, <2>2 DEF TypeOK
    <2>4. QED
      BY <1>12, <2>1, <2>2, <2>3 DEF PunishedOnlyIfReused
  <1>16. CutoffOK' /\ ChangeEndsEarlierSessions'
    BY <1>1, <1>2, <1>4 DEF CutoffOK, ChangeEndsEarlierSessions, TypeOK
  <1>17. DeletionsOK'
    <2>1. \A q \in Requests : req'[q] = IF q = r THEN Idle ELSE req[q]
      BY <1>1 DEF TypeOK
    <2>2. \A x \in SessionIds : rows'[x].user = rows[x].user
                               /\ rows'[x].late = rows[x].late
      BY <1>2, <1>4 DEF TypeOK
    <2>3. ASSUME NEW q \in Requests
          PROVE  /\ req'[q].held # {} => req'[q].at = "delcommit"
                 /\ req'[q].at = "delcommit" =>
                      \A x \in SessionIds :
                         rows'[x].user = req'[q].user =>
                            x \in req'[q].held \/ rows'[x].late
      BY <2>1, <2>2 DEF DeletionsOK, Idle
    <2>4. ASSUME NEW q \in Requests, req'[q].at \in {"delsessions", "delcommit"}
          PROVE  /\ Active(req[q].user)'
                 /\ \A x \in Requests : Deleting(x, req[q].user)' => x = q
      BY <1>1, <2>1, <2>4 DEF DeletionsOK, Deleting, Active, Idle
    <2>5. \A x \in SessionIds : rows'[x].extra => ~Active(rows[x].user)'
      <3>1. \A x \in SessionIds \ {s} : rows'[x] = rows[x]
        BY <1>4 DEF TypeOK
      <3>2. rows'[s].extra => ~Active(rows[s].user)
        BY <1>4
      <3>3. \A x \in SessionIds : rows'[x].extra => ~Active(rows[x].user)
        BY <3>1, <3>2 DEF DeletionsOK
      <3>4. QED
        BY <1>1, <2>2, <3>3 DEF Active
    <2>6. QED
      BY <2>3, <2>4, <2>5 DEF DeletionsOK
  <1>18. QED
    BY <1>5, <1>7, <1>9, <1>13, <1>14, <1>15, <1>16, <1>17

(* A new password never lowers the number the histories compare with. *)
LEMMA PasswordSteps ==
  ASSUME IInv, NEW r \in Requests, ChangePassword(r) \/ ResetPassword(r)
  PROVE  IInv'
  <1> USE DEF IInv
  <1> DEFINE u == req[r].user
  <1>1. u \in Users
    BY DEF ChangePassword, ResetPassword, RequestsOK
  <1>2. SetPassword(u) /\ UNCHANGED <<rows, now, family, from, cutoff, replayed, faults>>
    BY DEF ChangePassword, ResetPassword
  <1>3. /\ users' \in [Users -> User]
        /\ \A v \in Users : users'[v].status = users[v].status
        /\ \A v \in Users : users'[v].password >= users[v].password
    BY <1>1, <1>2 DEF SetPassword, TypeOK, User
  <1>4. \A s \in SessionIds : rows[s].state # "unused" => rows[s].user \in Users
    BY DEF RowsOK
  <1>5. req[r] \in Request /\ r \in DOMAIN req /\ users'[u].password \in Nat
    BY <1>1, <1>3 DEF TypeOK, User
  <1>6. PICK q \in Request : /\ req' = [req EXCEPT ![r] = q]
                             /\ q.at \in {"idle", "revokeall"}
                             /\ q.at = "revokeall" => /\ q.user = u
                                                     /\ q.password = users'[u].password
                             /\ q.held = {}
    <2>1. CASE ResetPassword(r)
      BY <2>1, IdleIsRequest DEF ResetPassword, Done, Idle
    <2>2. CASE ChangePassword(r)
      <3> DEFINE n == [req[r] EXCEPT !.at = "revokeall", !.password = users'[u].password]
      <3>1. req' = [req EXCEPT ![r] = n]
        BY <2>2 DEF ChangePassword
      <3>2. n \in Request /\ n.at = "revokeall" /\ n.user = u
              /\ n.password = users'[u].password /\ n.held = {}
        BY <1>5, <2>2 DEF Request, Steps, ChangePassword, DeletionsOK
      <3>3. QED
        BY <3>1, <3>2
    <2>3. QED
      BY <2>1, <2>2
  <1>7. TypeOK'
    BY <1>2, <1>3, <1>6 DEF TypeOK
  <1>8. RowsOK' /\ ExchangesOK' /\ OneExchangePerRefreshToken'
          /\ ChangeEndsEarlierSessions'
    BY <1>2 DEF RowsOK, ExchangesOK, OneExchangePerRefreshToken,
                ChangeEndsEarlierSessions
  <1>9. CutoffOK'
    BY <1>2, <1>3 DEF CutoffOK, TypeOK, User
  <1>10. PunishedOnlyIfReused'
    BY <1>2, <1>6 DEF PunishedOnlyIfReused, TypeOK
  <1>11. \A x \in Requests \ {r} : req'[x] = req[x]
    BY <1>6 DEF TypeOK
  <1>12. req'[r] = q
    BY <1>5, <1>6
  <1>13. RequestsOK'
    <2> SUFFICES ASSUME NEW x \in Requests, x # r
                 PROVE
        /\ req[x].at \in {"insert", "authed", "setpw", "revokeall", "markdel",
                          "delsessions", "delcommit", "resetpw"} => req[x].user \in Users
        /\ req[x].at \in {"rotate", "punish", "authed", "revoke"} =>
              req[x].sid \in SessionIds /\ rows[req[x].sid].state # "unused"
        /\ req[x].at \in {"rotate", "punish"} =>
              /\ req[x].pair \in PairIds
              /\ family[req[x].pair] = req[x].sid
        /\ req[x].at = "rotate" =>
              \/ rows[req[x].sid].refresh = req[x].pair
              \/ \E j \in PairIds : from[j] = req[x].pair
        /\ (req[x].at = "rotate" /\ CanRotate(req[x].sid, req[x].pair)) =>
              \/ users'[rows[req[x].sid].user].status = "active"
              \/ rows[req[x].sid].late /\ ~rows[req[x].sid].extra
        /\ req[x].at = "revokeall" =>
              req[x].password <= users'[req[x].user].password
      BY <1>1, <1>2, <1>3, <1>5, <1>6, <1>11, <1>12 DEF RequestsOK, CanRotate, Active
    <2>1. req[x].at = "revokeall" =>
              req[x].password <= users'[req[x].user].password
      BY <1>3 DEF RequestsOK, TypeOK, Request, User
    <2>2. QED
      BY <1>3, <1>4, <2>1 DEF RequestsOK, CanRotate, Active
  <1>14. DeletionsOK'
    <2>1. ASSUME NEW x \in Requests
          PROVE  /\ req'[x].held # {} => req'[x].at = "delcommit"
                 /\ req'[x].at = "delcommit" =>
                      \A s \in SessionIds :
                         rows[s].user = req'[x].user =>
                            s \in req'[x].held \/ rows[s].late
      BY <1>6, <1>11, <1>12 DEF DeletionsOK
    <2>2. ASSUME NEW x \in Requests, req'[x].at \in {"delsessions", "delcommit"}
          PROVE  /\ Active(req[x].user)'
                 /\ \A y \in Requests : Deleting(y, req[x].user)' => y = x
      <3>1. req'[x] = req[x] /\ x # r /\ req[x].user \in Users
        BY <1>6, <1>11, <1>12, <2>2 DEF RequestsOK
      <3>2. \A y \in Requests : Deleting(y, req[x].user)' => Deleting(y, req[x].user)
        BY <1>6, <1>11, <1>12, <3>1 DEF Deleting
      <3>3. QED
        BY <1>3, <2>2, <3>1, <3>2 DEF DeletionsOK, Active
    <2>3. \A s \in SessionIds : rows[s].extra => rows[s].user \in Users
      BY DEF RowsOK, UnusedRow
    <2>4. \A s \in SessionIds : rows'[s].extra => ~Active(rows[s].user)'
      BY <1>2, <1>3, <2>3 DEF DeletionsOK, Active
    <2>5. QED
      BY <1>2, <2>1, <2>2, <2>4 DEF DeletionsOK
  <1>15. QED
    BY <1>7, <1>8, <1>9, <1>10, <1>13, <1>14

(* Every step of every handler, of the deletion job and of the clock. *)
LEMMA NextInv == IInv /\ [Next]_vars => IInv'
  <1> SUFFICES ASSUME IInv, [Next]_vars PROVE IInv'
    OBVIOUS
  <1>1. ASSUME NEW r \in Requests, Start(r) PROVE IInv'
    BY <1>1, ReadingSteps DEF Start
  <1>2. ASSUME NEW r \in Requests, Continue(r) PROVE IInv'
    BY <1>2, ReadingSteps, ClosingSteps, CreateSessionStep, RotateStep,
       PasswordSteps DEF Continue
  <1>3. ASSUME NEW r \in Requests, Fail(r) PROVE IInv'
    BY <1>3, ClosingSteps
  <1>4. ASSUME \/ \E k \in PairIds : RefreshNotFound(k)
               \/ \E u \in Users : PhysicallyDelete(u)
               \/ Tick
        PROVE  IInv'
    BY <1>4, ClosingSteps
  <1>5. CASE UNCHANGED vars
    BY <1>5 DEF vars, IInv, TypeOK, RowsOK, ExchangesOK, RequestsOK, CutoffOK,
                OneExchangePerRefreshToken, PunishedOnlyIfReused,
                ChangeEndsEarlierSessions, CanRotate, Active, DeletionsOK, Deleting
  <1>6. QED
    BY <1>1, <1>2, <1>3, <1>4, <1>5 DEF Next

-----------------------------------------------------------------------------
(* The theorems. *)

(* The invariant holds in every reachable state. *)
THEOREM Invariance == Spec => []IInv
  <1>1. QED
    BY InitInv, NextInv, PTL DEF Spec

(* Tables, requests and histories keep their types for any number of users,  *)
(* sessions, pairs and concurrent handlers.                                  *)
THEOREM TypeCorrect == Spec => []TypeOK
  <1>1. IInv => TypeOK
    BY DEF IInv
  <1>2. QED
    BY <1>1, Invariance, PTL

(* rotateTokens: any number of concurrent refreshes with one refresh token   *)
(* mint at most one new pair.                                                *)
THEOREM SingleExchange == Spec => []OneExchangePerRefreshToken
  <1>1. IInv => OneExchangePerRefreshToken
    BY DEF IInv
  <1>2. QED
    BY <1>1, Invariance, PTL

(* user_sessions never holds a hash of a pair that was exchanged, and no two *)
(* rows hold the same one.                                                   *)
THEOREM NewestPairOnly == Spec => []OnlyNewestPairWorks
  <1>1. IInv => OnlyNewestPairWorks
    <2> SUFFICES ASSUME IInv, NEW s \in SessionIds, NEW k \in PairIds,
                        rows[s].access = k \/ rows[s].refresh = k
                 PROVE  (\A j \in PairIds : from[j] # k) /\ family[k] = s
      BY DEF OnlyNewestPairWorks
    <2>1. rows[s].state # "unused"
      BY SessionsAssumption DEF IInv, RowsOK, UnusedRow
    <2>2. family[k] = s
      BY <2>1 DEF IInv, RowsOK
    <2>3. \A j \in PairIds : from[j] # k
      BY SessionsAssumption DEF IInv, ExchangesOK
    <2>4. QED
      BY <2>2, <2>3
  <1>2. QED
    BY <1>1, Invariance, PTL

(* refresh() never revokes an open session for a token used only once.       *)
THEOREM PunishmentJust == Spec => []PunishedOnlyIfReused
  <1>1. IInv => PunishedOnlyIfReused
    BY DEF IInv
  <1>2. QED
    BY <1>1, Invariance, PTL

(* /v1/password/change: no session opened under an earlier password stays    *)
(* open, however many changes, resets, refreshes and logins interleave.      *)
THEOREM ChangeEndsSessions == Spec => []ChangeEndsEarlierSessions
  <1>1. IInv => ChangeEndsEarlierSessions
    BY DEF IInv
  <1>2. QED
    BY <1>1, Invariance, PTL

(* introspectToken and authenticateAccessToken look an access token up by    *)
(* different queries and test their conditions in different places; they     *)
(* give the same answer whatever the tables hold.                            *)
THEOREM SameAnswers == Spec => []IntrospectionAgrees
  <1>1. IntrospectionAgrees
    BY DEF IntrospectionAgrees, IntrospectsActive, Authenticates, FoundByAccess, Active
  <1>2. QED
    BY <1>1, PTL

-----------------------------------------------------------------------------
(* What one step can do to rows, pairs and accounts, for the properties of    *)
(* steps and for the refinement.                                             *)

(* A step that opens no session and exchanges no pair. *)
OnlyCloses ==
    /\ \A s \in SessionIds : Closes(rows[s], rows'[s])
    /\ UNCHANGED <<family, from>>

(* Every step inserts a row, rotates a pair, or closes rows at most. *)
LEMMA StepShape ==
  ASSUME IInv, [Next]_vars
  PROVE  \/ \E r \in Requests, s \in SessionIds, k \in PairIds : CreateSession(r, s, k)
         \/ \E r \in Requests, k \in PairIds : Rotate(r, k)
         \/ OnlyCloses
  <1>1. TypeOK /\ RowsOK /\ RequestsOK
    BY DEF IInv
  <1>2. UNCHANGED <<rows, family, from>> => OnlyCloses
    BY <1>1, SameCloses DEF TypeOK, OnlyCloses
  <1>3. ASSUME NEW t, Revoke(t), UNCHANGED <<family, from>> PROVE OnlyCloses
    BY <1>1, <1>3, RevokeCloses DEF OnlyCloses
  <1>4. ASSUME NEW u \in Users, RevokeAllOf(u), UNCHANGED <<family, from>>
        PROVE  OnlyCloses
    BY <1>1, <1>4, RevokeAllCloses DEF OnlyCloses
  <1>5. ASSUME NEW r \in Requests, Start(r) \/ Fail(r) PROVE OnlyCloses
    BY <1>2, <1>5 DEF Start, Fail, LoginVerify, ResetCheck, RefreshFind,
                      Authenticate, RevokeByTokenFind
  <1>6. ASSUME NEW r \in Requests,
               \/ LoginRefused(r) \/ RotateMiss(r) \/ ReadOnly(r)
               \/ ChangePasswordVerify(r) \/ ChangePassword(r)
               \/ ResetPassword(r) \/ DeletionCheck(r)
               \/ MarkAsDeleted(r) \/ MarkSessionsRevoked(r)
               \/ \E s \in SessionIds : RevokeSessionFind(r, s)
        PROVE  OnlyCloses
    BY <1>2, <1>6 DEF LoginRefused, RotateMiss, ReadOnly, ChangePasswordVerify,
                      ChangePassword, ResetPassword, DeletionCheck,
                      MarkAsDeleted, MarkSessionsRevoked, RevokeSessionFind
  <1>7. ASSUME NEW r \in Requests, Punish(r) \/ Logout(r) \/ RevokeFound(r)
        PROVE  OnlyCloses
    BY <1>3, <1>7 DEF Punish, Logout, RevokeFound
  <1>8. ASSUME NEW r \in Requests,
               RevokeAllSessions(r) \/ ChangePasswordRevoke(r)
        PROVE  OnlyCloses
    <2>1. req[r].user \in Users
      BY <1>1, <1>8 DEF RevokeAllSessions, ChangePasswordRevoke, RequestsOK
    <2>2. UNCHANGED <<family, from>> /\ RevokeAllOf(req[r].user)
      BY <1>8 DEF RevokeAllSessions, ChangePasswordRevoke
    <2>3. QED
      BY <1>4, <2>1, <2>2
  <1>12. ASSUME NEW r \in Requests, CommitDeletion(r) PROVE OnlyCloses
    <2>1. \A s \in SessionIds :
            rows'[s] = IF s \in req[r].held THEN Revoked(rows[s]) ELSE rows[s]
      BY <1>12 DEF CommitDeletion
    <2>2. QED
      BY <1>1, <1>12, <2>1, RevokedCloses, SameCloses
         DEF CommitDeletion, OnlyCloses, TypeOK
  <1>9. ASSUME NEW u \in Users, PhysicallyDelete(u) PROVE OnlyCloses
    <2>1. \A s \in SessionIds : rows[s] \in Row
                 /\ (rows[s].user = u => rows[s].state # "unused")
      BY <1>1, SessionsAssumption DEF TypeOK, RowsOK, UnusedRow
    <2>2. QED
      BY <1>9, <2>1, RemovedCloses, SameCloses DEF PhysicallyDelete, OnlyCloses
  <1>10. ASSUME Tick \/ UNCHANGED vars \/ \E k \in PairIds : RefreshNotFound(k)
         PROVE  OnlyCloses
    BY <1>2, <1>10 DEF Tick, vars, RefreshNotFound
  <1>11. QED
    BY <1>5, <1>6, <1>7, <1>8, <1>9, <1>10, <1>12 DEF Next, Continue

(* An account that is not active keeps its status or is removed. *)
LEMMA StatusStep ==
  ASSUME IInv, [Next]_vars, NEW u \in Users, users[u].status # "active"
  PROVE  users'[u].status \in {users[u].status, "gone"}
  <1>1. TypeOK /\ RequestsOK
    BY DEF IInv
  <1>2. CASE UNCHANGED users
    BY <1>2
  <1>3. ASSUME NEW r \in Requests, ChangePassword(r) \/ ResetPassword(r)
        PROVE  users'[u].status = users[u].status
    <2>1. SetPassword(req[r].user)
      BY <1>3 DEF ChangePassword, ResetPassword
    <2>2. QED
      BY <1>1, <2>1 DEF SetPassword, TypeOK, User
  <1>4. ASSUME NEW r \in Requests, CommitDeletion(r)
        PROVE  users'[u].status = users[u].status
    <2>1. Active(req[r].user)
      BY <1>4 DEF CommitDeletion, IInv, DeletionsOK
    <2>2. QED
      BY <1>1, <1>4, <2>1 DEF CommitDeletion, Active, TypeOK, User
  <1>5. ASSUME NEW v \in Users, PhysicallyDelete(v)
        PROVE  users'[u].status \in {users[u].status, "gone"}
    BY <1>1, <1>5 DEF PhysicallyDelete, TypeOK, User
  <1>6. ASSUME NEW r \in Requests, Start(r) \/ Fail(r)
        PROVE  UNCHANGED users
    BY <1>6 DEF Start, Fail, LoginVerify, ResetCheck, RefreshFind,
                Authenticate, RevokeByTokenFind
  <1>7. ASSUME NEW r \in Requests, Continue(r), ~ChangePassword(r),
               ~ResetPassword(r), ~CommitDeletion(r)
        PROVE  UNCHANGED users
    BY <1>7 DEF Continue, LoginRefused, CreateSession, Rotate, RotateMiss, Punish,
                ReadOnly, Logout, RevokeSessionFind, RevokeFound,
                RevokeAllSessions, ChangePasswordVerify, ChangePasswordRevoke,
                DeletionCheck, MarkAsDeleted, MarkSessionsRevoked
  <1>8. (Tick \/ UNCHANGED vars \/ \E k \in PairIds : RefreshNotFound(k))
          => UNCHANGED users
    BY DEF Tick, vars, RefreshNotFound
  <1>9. QED
    BY <1>2, <1>3, <1>4, <1>5, <1>6, <1>7, <1>8 DEF Next

(* What createSession writes, and where. *)
LEMMA CreateSessionShape ==
  ASSUME IInv, NEW r \in Requests, NEW s \in SessionIds, NEW k \in PairIds,
         CreateSession(r, s, k)
  PROVE  /\ rows[s].state = "unused" /\ rows[s].refresh = NoPair
         /\ rows'[s].state = "open" /\ rows'[s].refresh = k
         /\ \A x \in SessionIds \ {s} : rows'[x] = rows[x]
         /\ family[k] = NoSession /\ family'[k] = s
         /\ \A j \in PairIds \ {k} : family'[j] = family[j]
         /\ UNCHANGED from
  <1>1. TypeOK /\ RowsOK
    BY DEF IInv
  <1>2. rows[s].state = "unused" /\ family[k] = NoSession /\ UNCHANGED from
    BY DEF CreateSession, IsFresh
  <1>3. family'[k] = s /\ \A j \in PairIds \ {k} : family'[j] = family[j]
    BY <1>1 DEF CreateSession, TypeOK
  <1>4. rows'[s].state = "open" /\ rows'[s].refresh = k
    BY <1>1 DEF CreateSession, TypeOK
  <1>5. \A x \in SessionIds \ {s} : rows'[x] = rows[x]
    BY <1>1 DEF CreateSession, TypeOK
  <1>6. rows[s].refresh = NoPair
    BY <1>1, <1>2 DEF RowsOK, UnusedRow
  <1>7. QED
    BY <1>2, <1>3, <1>4, <1>5, <1>6

(* What the guarded UPDATE of rotateTokens finds and writes. *)
LEMMA RotateShape ==
  ASSUME IInv, NEW r \in Requests, NEW k \in PairIds, Rotate(r, k)
  PROVE  \E s \in SessionIds :
           /\ rows[s].state = "open" /\ rows[s].refresh = req[r].pair
           /\ req[r].pair \in PairIds /\ family[req[r].pair] = s
           /\ Active(rows[s].user) \/ (rows[s].late /\ ~rows[s].extra)
           /\ rows'[s].state = "open" /\ rows'[s].refresh = k
           /\ \A x \in SessionIds \ {s} : rows'[x] = rows[x]
           /\ family[k] = NoSession /\ family'[k] = s
           /\ \A j \in PairIds \ {k} : family'[j] = family[j] /\ from'[j] = from[j]
           /\ from' = [from EXCEPT ![k] = req[r].pair]
  <1>1. TypeOK /\ RequestsOK
    BY DEF IInv
  <1>2. PICK s \in SessionIds : s = req[r].sid
    BY <1>1 DEF Rotate, RequestsOK
  <1>3. /\ req[r].at = "rotate" /\ CanRotate(s, req[r].pair)
        /\ family[k] = NoSession
        /\ family' = [family EXCEPT ![k] = s]
        /\ from' = [from EXCEPT ![k] = req[r].pair]
    BY <1>2 DEF Rotate, IsFresh
  <1>4. /\ rows[s].state = "open" /\ rows[s].refresh = req[r].pair
        /\ req[r].pair \in PairIds /\ family[req[r].pair] = s
        /\ Active(rows[s].user) \/ (rows[s].late /\ ~rows[s].extra)
    BY <1>1, <1>2, <1>3 DEF RequestsOK, CanRotate
  <1>5. /\ \A x \in SessionIds \ {s} : rows'[x] = rows[x]
        /\ rows'[s].state = "open" /\ rows'[s].refresh = k
    <2>1. rows' = [rows EXCEPT ![s] =
                     Rotated(@, k, now + AccessTTL, now + RefreshTTL,
                             ~Active(rows[s].user))]
      BY <1>2 DEF Rotate, Rotated
    <2>2. rows[s] \in Row /\ now + AccessTTL \in Nat /\ now + RefreshTTL \in Nat
      BY <1>1, <1>2, SessionsAssumption DEF TypeOK
    <2>3. PICK row \in Row, a \in Nat, b \in Nat, x \in BOOLEAN :
            /\ row = rows[s] /\ a = now + AccessTTL /\ b = now + RefreshTTL
            /\ x = ~Active(rows[s].user)
      BY <2>2
    <2>4. rows' = [rows EXCEPT ![s] = Rotated(row, k, a, b, x)]
      BY <2>1, <2>3
    <2>5. Rotated(row, k, a, b, x).state = row.state
            /\ Rotated(row, k, a, b, x).refresh = k
      BY DEF Rotated, Row
    <2>6. QED
      BY <1>1, <1>4, <2>3, <2>4, <2>5 DEF TypeOK
  <1>6. /\ family'[k] = s
        /\ \A j \in PairIds \ {k} : family'[j] = family[j] /\ from'[j] = from[j]
    BY <1>1, <1>3 DEF TypeOK
  <1>7. QED
    BY <1>3, <1>4, <1>5, <1>6

(* A revoked or removed session is closed for good, and a deleted account    *)
(* never becomes active again, whichever handlers had read them before.      *)
THEOREM ClosedForGood == Spec => NothingComesBack
  <1> DEFINE Step ==
        /\ \A s \in SessionIds :
            rows[s].state \in {"revoked", "removed"} =>
                /\ rows'[s].state \in {rows[s].state, "removed"}
                /\ rows'[s].access = rows[s].access
                /\ rows'[s].refresh = rows[s].refresh
        /\ \A u \in Users :
            users[u].status # "active" =>
                users'[u].status \in {users[u].status, "gone"}
  <1>1. ASSUME IInv, [Next]_vars PROVE Step
    <2>1. ASSUME NEW s \in SessionIds, rows[s].state \in {"revoked", "removed"}
          PROVE  /\ rows'[s].state \in {rows[s].state, "removed"}
                 /\ rows'[s].access = rows[s].access
                 /\ rows'[s].refresh = rows[s].refresh
      <3>1. CASE OnlyCloses
        BY <2>1, <3>1 DEF OnlyCloses, Closes
      <3>2. CASE \E r \in Requests, t \in SessionIds, k \in PairIds :
                   CreateSession(r, t, k)
        BY <1>1, <2>1, <3>2, CreateSessionShape
      <3>3. CASE \E r \in Requests, k \in PairIds : Rotate(r, k)
        BY <1>1, <2>1, <3>3, RotateShape
      <3>4. QED
        BY <1>1, <3>1, <3>2, <3>3, StepShape
    <2>2. QED
      BY <1>1, <2>1, StatusStep
  <1>2. IInv /\ [Next]_vars => [Step]_vars
    BY <1>1
  <1>3. QED
    BY <1>2, Invariance, PTL DEF Spec, NothingComesBack

(* No refresh mints a pair for an account that is no longer active, but for   *)
(* one pair of a session inserted after the deletion had revoked the others:  *)
(* a request that can still rotate belongs to an active account or to a       *)
(* session of that kind which has had no pair since.                          *)
THEOREM NoExchangeAfterDeletion == Spec => ExchangeOnlyForActiveUser
  <1> DEFINE Step ==
        \A k \in PairIds : from'[k] # from[k] =>
            LET row == rows[family'[k]]
            IN  Active(row.user) \/ (row.late /\ ~row.extra)
  <1>1. ASSUME IInv, [Next]_vars PROVE Step
    <2>1. CASE OnlyCloses
      BY <2>1 DEF OnlyCloses
    <2>2. CASE \E r \in Requests, s \in SessionIds, k \in PairIds :
                 CreateSession(r, s, k)
      BY <1>1, <2>2, CreateSessionShape
    <2>3. CASE \E r \in Requests, k \in PairIds : Rotate(r, k)
      BY <1>1, <2>3, RotateShape
    <2>4. QED
      BY <1>1, <2>1, <2>2, <2>3, StepShape
  <1>2. IInv /\ [Next]_vars => [Step]_vars
    BY <1>1
  <1>3. QED
    BY <1>2, Invariance, PTL DEF Spec, ExchangeOnlyForActiveUser

-----------------------------------------------------------------------------
(* The refinement mapping, by name. *)
Issued == {k \in PairIds : family[k] # NoSession}
Valid == {k \in PairIds : \E s \in SessionIds :
             rows[s].state = "open" /\ rows[s].refresh = k}

(* Every step of the handlers is a step of the ledger or leaves it alone: an *)
(* INSERT issues a pair, the guarded UPDATE exchanges one, everything else   *)
(* withdraws at most.                                                        *)
LEMMA LedgerStep ==
  ASSUME IInv, [Next]_vars
  PROVE  [Ledger!Next]_<<Issued, Valid, from>>
  <1> DEFINE LIssue(k) == /\ k \in PairIds \ Issued
                          /\ Issued' = Issued \union {k}
                          /\ Valid' = Valid \union {k}
                          /\ UNCHANGED from
             LExchange(p, k) == /\ p \in Valid
                                /\ k \in PairIds \ Issued
                                /\ Issued' = Issued \union {k}
                                /\ Valid' = (Valid \ {p}) \union {k}
                                /\ from' = [from EXCEPT ![k] = p]
             LWithdraw == Valid' \subseteq Valid /\ UNCHANGED <<Issued, from>>
  <1>1. SUFFICES \/ \E k \in PairIds : LIssue(k)
                 \/ \E p, k \in PairIds : LExchange(p, k)
                 \/ LWithdraw
    <2>1. LWithdraw => [Ledger!Next]_<<Issued, Valid, from>>
      BY DEF Ledger!Next, Ledger!Withdraw, Issued, Valid
    <2>2. ASSUME NEW k \in PairIds, LIssue(k) PROVE Ledger!Issue(k)
      BY <2>2 DEF Ledger!Issue, Issued, Valid
    <2>3. ASSUME NEW p \in PairIds, NEW k \in PairIds, LExchange(p, k)
          PROVE  Ledger!Exchange(p, k)
      BY <2>3 DEF Ledger!Exchange, Issued, Valid
    <2>4. QED
      BY <1>1, <2>1, <2>2, <2>3 DEF Ledger!Next
  <1>2. CASE OnlyCloses
    <2>1. Valid' \subseteq Valid
      BY <1>2 DEF OnlyCloses, Closes, Valid
    <2>2. UNCHANGED <<Issued, from>>
      BY <1>2 DEF OnlyCloses, Issued
    <2>3. QED
      BY <2>1, <2>2
  <1>3. ASSUME NEW r \in Requests, NEW s \in SessionIds, NEW k \in PairIds,
               CreateSession(r, s, k)
        PROVE  LIssue(k)
    <2>1. k \in PairIds \ Issued /\ Issued' = Issued \union {k}
      BY <1>3, CreateSessionShape, SessionsAssumption DEF Issued
    <2>2. Valid' = Valid \union {k}
      BY <1>3, CreateSessionShape, SessionsAssumption DEF Valid
    <2>3. QED
      BY <1>3, <2>1, <2>2, CreateSessionShape
  <1>4. ASSUME NEW r \in Requests, NEW k \in PairIds, Rotate(r, k)
        PROVE  \E p \in PairIds : LExchange(p, k)
    <2>1. PICK s \in SessionIds, p \in PairIds :
           /\ rows[s].state = "open" /\ rows[s].refresh = p
           /\ family[p] = s
           /\ rows'[s].state = "open" /\ rows'[s].refresh = k
           /\ \A x \in SessionIds \ {s} : rows'[x] = rows[x]
           /\ family[k] = NoSession /\ family'[k] = s
           /\ \A j \in PairIds \ {k} : family'[j] = family[j]
           /\ from' = [from EXCEPT ![k] = p]
      BY <1>4, RotateShape
    <2>2. \A x \in SessionIds : rows[x].refresh = p => x = s
      BY <2>1, SessionsAssumption DEF IInv, RowsOK, UnusedRow
    <2>3. k \in PairIds \ Issued /\ Issued' = Issued \union {k}
      BY <2>1, SessionsAssumption DEF Issued
    <2>4. p \in Valid /\ p # k
      BY <2>1, SessionsAssumption DEF Valid
    <2>5. Valid' = (Valid \ {p}) \union {k}
      <3>1. \A j \in PairIds : j \in Valid' <=> (j \in Valid /\ j # p) \/ j = k
        BY <2>1, <2>2, <2>4 DEF Valid
      <3>2. QED
        BY <2>4, <3>1 DEF Valid
    <2>6. QED
      BY <2>1, <2>3, <2>4, <2>5
  <1>5. QED
    BY <1>2, <1>3, <1>4, StepShape

(* The session table with its handlers implements the ledger of token pairs: *)
(* a pair is issued once, exchanged at most once, and withdrawn for good.     *)
THEOREM Refinement == Spec => ImplementsLedger
  <1>1. Init => Ledger!Init
    BY SessionsAssumption DEF Init, Ledger!Init, UnusedRow
  <1>2. IInv /\ [Next]_vars => [Ledger!Next]_<<Issued, Valid, from>>
    BY LedgerStep
  <1>3. QED
    BY <1>1, <1>2, Invariance, PTL
       DEF Spec, ImplementsLedger, Ledger!Spec, Issued, Valid

=============================================================================
