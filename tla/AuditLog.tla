------------------------------ MODULE AuditLog ------------------------------
(***************************************************************************)
(* The audit log: rows in a hash chain that exports append under an        *)
(* advisory lock, the verification of the chain, and exports of the log    *)
(* and of the security events page by page.  The retention job and the     *)
(* removal of accounts edit and delete rows without the lock.  Requests    *)
(* are those assertAdminPermission has let in (module Authorization).      *)
(***************************************************************************)
EXTENDS Naturals, Sequences, FiniteSets

CONSTANTS
    LogIds, EventIds,           \* random ids, ordered as numbers
    FirstChain, FirstPlain,     \* rows there are at the start: chained ones in the
                                \* order they were written, and ids of the others,
    FirstRetention,             \* those of the retention job among them
    FirstEvents,
    Requests,                   \* slots for handlers in flight
    None,
    PageSize, MaxExport,        \* EXPORT_PAGE_SIZE, EXPORT_MAX_RECORDS
    AnonymizeAge, DeleteAge,    \* RETENTION_AUDIT_LOG_*_DAYS, in ticks
    MaxTime, MaxRequests, MaxChanges    \* bounds

ASSUME AuditLogAssumption ==
    /\ LogIds \subseteq Nat /\ EventIds \subseteq Nat
    /\ LogIds \intersect EventIds = {}
    /\ FirstPlain \subseteq LogIds /\ IsFiniteSet(FirstPlain)
    /\ FirstRetention \subseteq FirstPlain
    /\ None \notin LogIds /\ None \notin Requests
    /\ PageSize \in Nat \ {0} /\ MaxExport \in Nat
    /\ AnonymizeAge \in Nat /\ DeleteAge \in Nat /\ AnonymizeAge <= DeleteAge
    /\ MaxTime \in Nat /\ MaxRequests \in Nat /\ MaxChanges \in Nat

VARIABLES
    logs,       \* rows of audit_logs
    events,     \* rows of security_events
    lock,       \* the handler that holds the advisory lock of the chain
    req,        \* handlers in flight
    now, begun, changes,
    origin,     \* history: chained rows as they were written, with the row
                \* that was the latest then
    orderly     \* history: every chained row came after those there were

vars == <<logs, events, lock, req, now, begun, changes, origin, orderly>>

-----------------------------------------------------------------------------
(* Rows. *)

(* buildEntryHash: two digests are equal only if everything hashed is; body   *)
(* stands for the actor, the resource and the payload                        *)
Digest(row) == [id |-> row.id, at |-> row.at, body |-> row.body, prev |-> row.prev]

(* null, which is no digest: ids of rows are never None *)
NoHash == [id |-> None]

(* a row outside the chain; at is the millisecond, us what the time has      *)
(* beyond it                                                                 *)
Plain(id, t, us) ==
    [id |-> id, at |-> t, us |-> us, chained |-> FALSE, body |-> "full",
     prev |-> NoHash, hash |-> NoHash]

(* createAuditLog of an action "admin.*": the time is a JavaScript Date *)
Chain(id, t, prev) ==
    LET row == [Plain(id, t, 0) EXCEPT !.chained = TRUE, !.prev = prev]
    IN  [row EXCEPT !.hash = Digest(row)]

IdsOf(rows) == {row.id : row \in rows}

Chained(rows) == {row \in rows : row.chained}

(* ORDER BY createdAt, id, for chained rows *)
Before(a, b) == a.at < b.at \/ (a.at = b.at /\ a.id < b.id)

Latest(rows) == CHOOSE a \in rows : \A b \in rows \ {a} : Before(b, a)

(* the hash of the latest row, null when there is none *)
HashOf(rows) == IF rows = {} THEN NoHash ELSE Latest(rows).hash

-----------------------------------------------------------------------------
(* Pages: listAuditLogs and listSecurityEvents. *)

NoCursor == [at |-> 0, us |-> 0, id |-> 0, start |-> TRUE]

(* a JavaScript Date has no microseconds, createdAt has them where it is the  *)
(* database's now(): in security_events, and in audit_logs for the rows of    *)
(* the retention job                                                         *)
ToCursor(row) == [at |-> row.at, us |-> 0, id |-> row.id, start |-> FALSE]

Older(a, b) ==
    \/ a.at < b.at
    \/ a.at = b.at /\ a.us < b.us
    \/ a.at = b.at /\ a.us = b.us /\ a.id < b.id

(* mutant of Beyond: a row of the cursor's millisecond comes again *)
BeyondAgain(rows, c) == {a \in rows : c.start \/ Older(a, c) \/ (a.at = c.at /\ a.us > 0)}

(* buildCursorFilter *)
Beyond(rows, c) == {a \in rows : c.start \/ Older(a, c)}

(* what pages of logs are made of *)
Timed(rows) == {[id |-> a.id, at |-> a.at, us |-> a.us] : a \in rows}

(* newest first; one row more than the limit is read to see if there are      *)
(* more.  cut: the cursor comes from a row with microseconds                 *)
Page(rows, c) ==
    LET left == Beyond(rows, c)
        more == Cardinality(left) > PageSize
        rank(a) == Cardinality({b \in left : Older(a, b)}) + 1
        items == [i \in 1..(IF more THEN PageSize ELSE Cardinality(left)) |->
                     CHOOSE a \in left : rank(a) = i]
    IN  [items |-> items, more |-> more, cut |-> more /\ items[PageSize].us > 0,
         cursor |-> IF more THEN ToCursor(items[PageSize]) ELSE c]

-----------------------------------------------------------------------------
(* State. *)

(* out: the ids exported; counted: how many of them in this collection;      *)
(* rows: what verifyIntegrityRange has read; prev and pred: the hash and the  *)
(* id of the latest row.  kept and tails only remember: rows that were there *)
(* all the time, and for either table the milliseconds at which a cursor     *)
(* lost its microseconds                                                     *)
Idle ==
    [at |-> "idle", kind |-> "logs", out |-> <<>>, counted |-> 0, cursor |-> NoCursor,
     rows |-> {}, prev |-> NoHash, pred |-> None, kept |-> {}, tails |-> {}]

(* what createAuditLog and createSecurityEvent have written until time 1: each *)
(* chained row after all earlier ones and linked to the one just before it     *)
ASSUME FirstRowsAssumption ==
    /\ Len(FirstChain) \in Nat
    /\ \A i \in 1..Len(FirstChain) :
          /\ FirstChain[i] = Chain(FirstChain[i].id, FirstChain[i].at,
                                   IF i = 1 THEN NoHash ELSE FirstChain[i - 1].hash)
          /\ FirstChain[i].id \in LogIds \ FirstPlain
          /\ FirstChain[i].at \in {0, 1}
          /\ \A j \in 1..(i - 1) : /\ Before(FirstChain[j], FirstChain[i])
                                   /\ FirstChain[j].id # FirstChain[i].id
    /\ FirstEvents \subseteq [id : EventIds, at : {0, 1}, us : {0, 1}]
    /\ IsFiniteSet(FirstEvents)
    /\ \A a, b \in FirstEvents : a.id = b.id => a = b

FirstOther(id) == Plain(id, 1, IF id \in FirstRetention THEN 1 ELSE 0)

Init ==
    /\ logs = {FirstChain[i] : i \in 1..Len(FirstChain)}
              \union {FirstOther(id) : id \in FirstPlain}
    /\ events = FirstEvents
    /\ lock = None
    /\ req = [r \in Requests |-> Idle]
    /\ now = 1 /\ begun = 0 /\ changes = 0
    /\ origin = {[row |-> FirstChain[i], pred |-> IF i = 1 THEN None ELSE FirstChain[i - 1].id] :
                    i \in 1..Len(FirstChain)}
    /\ orderly = TRUE

Goto(r, q) == req' = [req EXCEPT ![r] = q] /\ UNCHANGED <<now, begun, changes>>

Begin(r, q) ==
    /\ req[r].at = "idle"
    /\ begun < MaxRequests
    /\ begun' = begun + 1
    /\ req' = [req EXCEPT ![r] = q]
    /\ UNCHANGED <<logs, events, lock, now, changes, origin, orderly>>

-----------------------------------------------------------------------------
(* Verifying. *)

(* GET /v1/admin/audit/integrity: verifyIntegrityRange reads the range *)
VerifyRange(r, from, to) ==
    LET rows == {a \in Chained(logs) : from <= a.at /\ a.at <= to} IN
    /\ rows # {}
    /\ Begin(r, [Idle EXCEPT !.at = "previous", !.rows = rows])

(* the verdict once the row before the range is read: every row is linked to  *)
(* the one before it and has the hash it should have                         *)
Verdict(r) ==
    \A a \in req[r].rows :
        LET earlier == {b \in req[r].rows : Before(b, a)}
            outside == {b \in Chained(logs) : Before(b, a)}
        IN  /\ a.prev = HashOf(IF earlier = {} THEN outside ELSE earlier)
            /\ a.hash = Digest(a)

VerifyPrevious(r) ==
    /\ req[r].at = "previous"
    /\ Goto(r, Idle)
    /\ UNCHANGED <<logs, events, lock, origin, orderly>>

-----------------------------------------------------------------------------
(* Exporting: POST /v1/admin/audit/exports. *)

CreateExport(r, kind) ==
    Begin(r, [Idle EXCEPT
        !.at = IF kind = "events" THEN "events" ELSE "logs",
        !.kind = kind,
        !.kept = (IF kind # "events" THEN IdsOf(logs) ELSE {})
                 \union (IF kind # "logs" THEN IdsOf(events) ELSE {})])

(* one page of collectAuditLogs or collectSecurityEvents *)
Collect(r, rows, next) ==
    LET q == req[r]
        page == Page(rows, q.cursor)
        counted == q.counted + Len(page.items)
        on == page.more /\ counted < MaxExport
    IN  /\ Goto(r, [q EXCEPT
              !.out = @ \o [i \in DOMAIN page.items |-> page.items[i].id],
              !.at = IF on THEN @ ELSE next,
              !.counted = IF on THEN counted ELSE 0,
              !.cursor = IF on THEN page.cursor ELSE NoCursor,
              !.tails = IF on /\ page.cut THEN @ \union {<<q.at, page.cursor.at>>} ELSE @])
        /\ UNCHANGED <<logs, events, lock, origin, orderly>>

CollectAuditLogs(r) ==
    /\ req[r].at = "logs"
    /\ Collect(r, Timed(logs), IF req[r].kind = "both" THEN "events" ELSE "event")

CollectSecurityEvents(r) ==
    /\ req[r].at = "events"
    /\ Collect(r, events, "event")

(* createSecurityEvent: the database's clock has microseconds, and ids only   *)
(* order events of the same one                                             *)
AddEvent(id) == events' = events \union {[id |-> id, at |-> now, us |-> 1]}

FreeEventIds == EventIds \ IdsOf(events)

(* audit.export.generated *)
RecordEvent(r, id) ==
    /\ req[r].at = "event"
    /\ AddEvent(id)
    /\ Goto(r, [Idle EXCEPT !.at = "lock"])
    /\ UNCHANGED <<logs, lock, origin, orderly>>

(* mutant of LockAuditChain: transactions do not wait for each other *)
LockAuditChainShared(r) ==
    /\ req[r].at = "lock"
    /\ lock' = r
    /\ Goto(r, [req[r] EXCEPT !.at = "insert",
          !.prev = HashOf(Chained(logs)),
          !.pred = IF Chained(logs) = {} THEN None ELSE Latest(Chained(logs)).id])
    /\ UNCHANGED <<logs, events, origin, orderly>>

(* pg_advisory_xact_lock, then the latest row of the chain is read *)
LockAuditChain(r) ==
    /\ req[r].at = "lock"
    /\ lock = None
    /\ lock' = r
    /\ Goto(r, [req[r] EXCEPT !.at = "insert",
          !.prev = HashOf(Chained(logs)),
          !.pred = IF Chained(logs) = {} THEN None ELSE Latest(Chained(logs)).id])
    /\ UNCHANGED <<logs, events, origin, orderly>>

FreeIds == LogIds \ (IdsOf(logs) \union {o.row.id : o \in origin})

(* the time is taken, the row inserted, and the commit ends the lock *)
InsertAuditLog(r, id) ==
    LET row == Chain(id, now, req[r].prev) IN
    /\ req[r].at = "insert"
    /\ logs' = logs \union {row}
    /\ origin' = origin \union {[row |-> row, pred |-> req[r].pred]}
    /\ orderly' = (orderly /\ \A a \in Chained(logs) : Before(a, row))
    /\ lock' = None
    /\ Goto(r, Idle)
    /\ UNCHANGED events

(* a statement fails; a transaction is rolled back and loses its lock *)
Fail(r) ==
    /\ req[r].at # "idle"
    /\ lock' = IF lock = r THEN None ELSE lock
    /\ Goto(r, Idle)
    /\ UNCHANGED <<logs, events, origin, orderly>>

-----------------------------------------------------------------------------
(* Others who write the tables: handlers with events and unchained rows, the *)
(* retention job, and the removal of accounts.                               *)

Outside ==
    /\ changes < MaxChanges
    /\ changes' = changes + 1
    /\ UNCHANGED <<lock, now, begun, origin, orderly>>

AddPlain(id, us) ==
    /\ Outside
    /\ logs' = logs \union {Plain(id, now, us)}
    /\ UNCHANGED <<events, req>>

(* createAuditLog of an action that is not "admin.*" *)
Write(id) == AddPlain(id, 0)

(* system.retention.execute: inserted without createdAt, which is now() then *)
WriteRetention(id) == AddPlain(id, 1)

WriteEvent(id) ==
    /\ Outside
    /\ AddEvent(id)
    /\ UNCHANGED <<logs, req>>

(* the retention job blanks actor, resource and payload; the foreign key of   *)
(* a removed account blanks the actor                                        *)
Edit(ids, body) ==
    /\ Outside
    /\ logs' = {IF a.id \in ids THEN [a EXCEPT !.body = body] ELSE a : a \in logs}
    /\ UNCHANGED <<events, req>>

Delete(ids) ==
    /\ Outside
    /\ logs' = {a \in logs : a.id \notin ids}
    /\ events' = {a \in events : a.id \notin ids}
    /\ req' = [r \in Requests |-> [req[r] EXCEPT !.kept = @ \ ids]]

(* a chunk has any of the old rows: some are under a hold *)
Old(rows, age) == IdsOf({a \in rows : a.at + age < now})

Tick ==
    /\ now < MaxTime
    /\ now' = now + 1
    /\ UNCHANGED <<logs, events, lock, req, begun, changes, origin, orderly>>

Next ==
    \/ \E r \in Requests, from \in 0..now, to \in 0..now : VerifyRange(r, from, to)
    \/ \E r \in Requests, kind \in {"logs", "events", "both"} : CreateExport(r, kind)
    \/ \E r \in Requests, id \in FreeIds : InsertAuditLog(r, id)
    \/ \E r \in Requests :
          \/ VerifyPrevious(r) \/ CollectAuditLogs(r) \/ CollectSecurityEvents(r)
          \/ LockAuditChain(r) \/ Fail(r)
    \/ \E r \in Requests, id \in FreeEventIds : RecordEvent(r, id)
    \/ \E id \in FreeIds : Write(id) \/ WriteRetention(id)
    \/ \E id \in FreeEventIds : WriteEvent(id)
    \/ \E ids \in SUBSET Old(logs, AnonymizeAge) : ids # {} /\ Edit(ids, "blank")
    \/ \E ids \in SUBSET IdsOf(Chained(logs)) : ids # {} /\ Edit(ids, "actorless")
    \/ \E ids \in SUBSET Old(logs, DeleteAge) : ids # {} /\ Delete(ids)
    \/ \E ids \in SUBSET Old(events, DeleteAge) : ids # {} /\ Delete(ids)
    \/ Tick

Spec == Init /\ [][Next]_vars

-----------------------------------------------------------------------------
(* Properties. *)

(* What verifyIntegrityRange should find: every row of the range is as it    *)
(* was written, and the row it was linked to is still there.                 *)
Intact(r) ==
    \A a \in req[r].rows : \E o \in origin :
        /\ o.row = a
        /\ \/ o.pred \in {None} \union IdsOf(req[r].rows)
           \/ o.pred \in IdsOf(logs) /\ \A b \in req[r].rows : ~Before(b, a)

(* As long as rows were written in the order of their timestamps and ids,    *)
(* the verdict on a range is exact, however retention and exports interleave *)
(* with its two reads: positive if no row of the range was edited and none a *)
(* row is linked to is gone, negative otherwise.                             *)
VerifyExact ==
    \A r \in Requests : (req[r].at = "previous" /\ orderly) => (Verdict(r) <=> Intact(r))

Times(s, x) == Cardinality({i \in DOMAIN s : s[i] = x})

(* x lies in a millisecond at which a cursor of its table lost microseconds *)
InTail(q, x) ==
    \/ \E a \in logs : a.id = x /\ <<"logs", a.at>> \in q.tails
    \/ \E e \in events : e.id = x /\ <<"events", e.at>> \in q.tails

(* An export that does not say it is truncated has every row that was there  *)
(* from its first page to its last exactly once, except rows of the          *)
(* millisecond of a row with microseconds that ended a full page of their    *)
(* table, an event or a row of the retention job; and no row twice.          *)
ExportComplete ==
    \A r \in Requests :
        (req[r].at = "event" /\ Len(req[r].out) < MaxExport) =>
            \A x \in LogIds \union EventIds :
                /\ Times(req[r].out, x) <= 1
                /\ (x \in req[r].kept /\ ~InTail(req[r], x)) => Times(req[r].out, x) = 1
=============================================================================
