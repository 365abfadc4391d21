------------------------------ MODULE KeyStore ------------------------------
(***************************************************************************)
(* The signing keys of the identity provider: the signing_keys table, the  *)
(* KeyStoreService that bootstraps, rotates and publishes them, and the    *)
(* servers that load a private key once, at start-up, and sign with it     *)
(* until they stop.  Server starts, administrators and readers of the JWKS *)
(* document run KeyStoreService concurrently: a task is one such call, and *)
(* its steps are the statements and transactions it awaits.                *)
(***************************************************************************)
EXTENDS Naturals, FiniteSets

CONSTANTS
    Kids,               \* key ids, each a fresh random UUID
    Tasks,              \* slots for calls in flight
    Servers,            \* server processes
    NoKid, NoServer,
    Interval,           \* rotationIntervalHours, in ticks
    Grace,              \* gracePeriodHours, in ticks
    MaxTime             \* bound: ticks of the clock

ASSUME KeyStoreAssumption ==
    /\ NoKid \notin Kids
    /\ NoServer \notin Servers
    /\ Interval \in Nat /\ Grace \in Nat /\ MaxTime \in Nat

VARIABLES
    keys,               \* the signing_keys table
    task,               \* calls in flight
    signer,             \* the key each running server signs with
    bootAt,             \* history: when each server loaded its key
    overlapped,         \* history: a key was bootstrapped while another call
                        \* that had found none was about to insert one too
    now

vars == <<keys, task, signer, bootAt, overlapped, now>>

-----------------------------------------------------------------------------
(* State. *)

(* active: isActive, no expiresAt, no revokedAt; grace: expiresAt only;      *)
(* revoked: revokedAt too                                                    *)
KeyState == {"unused", "active", "grace", "revoked"}

Reason == {"none", "bootstrap", "scheduled", "manual", "emergency"}

Key == [state : KeyState, createdAt : Nat, expiresAt : Nat,
        from : Kids \union {NoKid}, reason : Reason]

UnusedKey == [state |-> "unused", createdAt |-> 0, expiresAt |-> 0,
              from |-> NoKid, reason |-> "none"]

(* at: the statement to come; goal: what the key found is wanted for *)
Task == [at : {"idle", "read", "insert", "rotate"},
         goal : {"none", "due", "rotate", "load", "answer"},
         reason : Reason, server : Servers \union {NoServer},
         kid : Kids \union {NoKid}]

IdleTask == [at |-> "idle", goal |-> "none", reason |-> "none",
             server |-> NoServer, kid |-> NoKid]

Init ==
    /\ keys = [k \in Kids |-> UnusedKey]
    /\ task = [t \in Tasks |-> IdleTask]
    /\ signer = [v \in Servers |-> NoKid]
    /\ bootAt = [v \in Servers |-> 0]
    /\ overlapped = FALSE
    /\ now = 0

-----------------------------------------------------------------------------
(* Queries. *)

ActiveKeys == {k \in Kids : keys[k].state = "active"}

(* mutant of CurrentKeys: retired keys are looked at too *)
CurrentKeysAny ==
    {k \in Kids : /\ keys[k].state \in {"active", "grace"}
                  /\ \A j \in Kids : keys[j].state \in {"active", "grace"} =>
                        keys[j].createdAt <= keys[k].createdAt}

(* getCurrentActiveKey: an active key created last; equal times leave the    *)
(* choice to the database                                                    *)
CurrentKeys ==
    {k \in ActiveKeys : \A j \in ActiveKeys :
        keys[j].createdAt <= keys[k].createdAt}

(* mutant of CanDeactivate: isActive is not tested *)
CanDeactivateAny(k) == keys[k].state \in {"active", "grace"}

(* the WHERE clause of the transaction in rotateNow *)
CanDeactivate(k) == keys[k].state = "active"

(* the answer of getPublicJwks *)
PublicJwks ==
    {k \in Kids : \/ keys[k].state = "active"
                  \/ keys[k].state = "grace" /\ keys[k].expiresAt > now}

(* the row both INSERTs write *)
NewKey(origin, reason) ==
    [state |-> "active", createdAt |-> now, expiresAt |-> 0,
     from |-> origin, reason |-> reason]

(* mutant of Retired: an expiry before the beginning of time *)
RetiredEarly(key, reason) ==
    [key EXCEPT !.state = "revoked", !.expiresAt = now - Grace - 1,
                !.reason = reason]

(* the row the UPDATE of rotateNow leaves *)
Retired(key, reason) ==
    IF reason = "emergency"
      THEN [key EXCEPT !.state = "revoked", !.expiresAt = now, !.reason = reason]
      ELSE [key EXCEPT !.state = "grace", !.expiresAt = now + Grace,
                       !.reason = reason]

-----------------------------------------------------------------------------
(* Calls. *)

Begin(t, goal, reason, v) ==
    /\ task[t].at = "idle"
    /\ task' = [task EXCEPT ![t] =
                  [at |-> "read", goal |-> goal, reason |-> reason,
                   server |-> v, kid |-> NoKid]]
    /\ UNCHANGED <<keys, signer, bootAt, overlapped, now>>

(* bootstrap() of index.ts: rotateIfDue, then getActivePrivateJwks *)
StartServer(t, v) ==
    /\ signer[v] = NoKid
    /\ \A x \in Tasks : task[x].server # v
    /\ Begin(t, "due", "scheduled", v)

(* POST /v1/admin/keys/rotate and /v1/admin/keys/rotate-emergency *)
RotateManual(t) == Begin(t, "rotate", "manual", NoServer)

RotateEmergency(t) == Begin(t, "rotate", "emergency", NoServer)

(* GET /.well-known/jwks.json *)
GetPublicJwks(t) == Begin(t, "answer", "none", NoServer)

-----------------------------------------------------------------------------
(* The statements a call awaits. *)

(* ensureKeyExists finds no key ... *)
FindNone(t) ==
    /\ task[t].at = "read"
    /\ CurrentKeys = {}
    /\ task' = [task EXCEPT ![t].at = "insert"]
    /\ UNCHANGED <<keys, signer, bootAt, overlapped, now>>

(* ... and inserts one, whatever others have inserted since, and reads again *)
Bootstrap(t, k) ==
    /\ task[t].at = "insert"
    /\ keys[k].state = "unused"
    /\ keys' = [keys EXCEPT ![k] = NewKey(NoKid, "bootstrap")]
    /\ task' = [task EXCEPT ![t].at = "read"]
    /\ overlapped' = (overlapped \/ \E x \in Tasks \ {t} : task[x].at = "insert")
    /\ UNCHANGED <<signer, bootAt, now>>

(* rotateIfDue: rotateNow will read the current key again *)
CheckDue(t) ==
    /\ task[t].at = "read" /\ task[t].goal = "due"
    /\ \E k \in CurrentKeys :
          task' = [task EXCEPT ![t].goal =
                     IF now < keys[k].createdAt + Interval THEN "load"
                                                           ELSE "rotate"]
    /\ UNCHANGED <<keys, signer, bootAt, overlapped, now>>

ReadForRotate(t) ==
    /\ task[t].at = "read" /\ task[t].goal = "rotate"
    /\ \E k \in CurrentKeys :
          task' = [task EXCEPT ![t] = [@ EXCEPT !.at = "rotate", !.kid = k]]
    /\ UNCHANGED <<keys, signer, bootAt, overlapped, now>>

(* what is left of a call after rotateNow: a start loads its key *)
AfterRotate(t, goal) ==
    IF task[t].server = NoServer /\ goal = "load"
      THEN IdleTask
      ELSE [task[t] EXCEPT !.at = "read", !.goal = goal, !.kid = NoKid]

(* mutant of Rotate: the INSERT is not part of the transaction *)
RotateRetireOnly(t, k) ==
    LET old == task[t].kid IN
    /\ task[t].at = "rotate"
    /\ CanDeactivate(old)
    /\ keys[k].state = "unused"
    /\ keys' = [keys EXCEPT ![old] = Retired(@, task[t].reason)]
    /\ task' = [task EXCEPT ![t] = AfterRotate(t, "load")]
    /\ UNCHANGED <<signer, bootAt, overlapped, now>>

(* the transaction of rotateNow: retire the key that was read, insert its    *)
(* successor                                                                 *)
Rotate(t, k) ==
    LET old == task[t].kid IN
    /\ task[t].at = "rotate"
    /\ CanDeactivate(old)
    /\ keys[k].state = "unused"
    /\ keys' = [keys EXCEPT ![old] = Retired(@, task[t].reason),
                            ![k] = NewKey(old, task[t].reason)]
    /\ task' = [task EXCEPT ![t] = AfterRotate(t, "load")]
    /\ UNCHANGED <<signer, bootAt, overlapped, now>>

(* another rotation was first: the UPDATE finds no row, the current key is   *)
(* read once more for the answer                                             *)
RotateLost(t) ==
    /\ task[t].at = "rotate"
    /\ ~CanDeactivate(task[t].kid)
    /\ task' = [task EXCEPT ![t] = AfterRotate(t, "answer")]
    /\ UNCHANGED <<keys, signer, bootAt, overlapped, now>>

(* getPublicJwks and the answer of a lost rotation change nothing more *)
Answer(t) ==
    /\ task[t].at = "read" /\ task[t].goal = "answer"
    /\ CurrentKeys # {}
    /\ task' = [task EXCEPT ![t] = AfterRotate(t, "load")]
    /\ UNCHANGED <<keys, signer, bootAt, overlapped, now>>

(* getActivePrivateJwks: the provider keeps this key until the process ends *)
LoadSigner(t) ==
    /\ task[t].at = "read" /\ task[t].goal = "load"
    /\ \E k \in CurrentKeys : signer' = [signer EXCEPT ![task[t].server] = k]
    /\ bootAt' = [bootAt EXCEPT ![task[t].server] = now]
    /\ task' = [task EXCEPT ![t] = IdleTask]
    /\ UNCHANGED <<keys, overlapped, now>>

-----------------------------------------------------------------------------
(* shutdown, or the end of the process for any other reason *)
StopServer(v) ==
    /\ signer[v] # NoKid
    /\ signer' = [signer EXCEPT ![v] = NoKid]
    /\ UNCHANGED <<keys, task, bootAt, overlapped, now>>

(* a call ends in an error or with its process: an open transaction is       *)
(* rolled back, so nothing but the call is lost                              *)
Fail(t) ==
    /\ task[t].at # "idle"
    /\ task' = [task EXCEPT ![t] = IdleTask]
    /\ UNCHANGED <<keys, signer, bootAt, overlapped, now>>

Tick ==
    /\ now < MaxTime
    /\ now' = now + 1
    /\ UNCHANGED <<keys, task, signer, bootAt, overlapped>>

Call(t) ==
    \/ \E v \in Servers : StartServer(t, v)
    \/ RotateManual(t)
    \/ RotateEmergency(t)
    \/ GetPublicJwks(t)

Continue(t) ==
    \/ FindNone(t)
    \/ \E k \in Kids : Bootstrap(t, k) \/ Rotate(t, k)
    \/ CheckDue(t)
    \/ ReadForRotate(t)
    \/ RotateLost(t)
    \/ Answer(t)
    \/ LoadSigner(t)

Next ==
    \/ \E t \in Tasks : Call(t) \/ Continue(t) \/ Fail(t)
    \/ \E v \in Servers : StopServer(v)
    \/ Tick

Spec == Init /\ [][Next]_vars

-----------------------------------------------------------------------------
(* Properties. *)

(* Keys, calls in flight and loaded signers keep their shapes. *)
TypeOK ==
    /\ keys \in [Kids -> Key]
    /\ task \in [Tasks -> Task]
    /\ signer \in [Servers -> Kids \union {NoKid}]
    /\ bootAt \in [Servers -> Nat]
    /\ overlapped \in BOOLEAN
    /\ now \in Nat

(* Of all rotations that read the same current key, scheduled, manual or      *)
(* emergency, on any server, one retires it and gives it a successor: keys    *)
(* form chains, and only the end of a chain is active.                       *)
OneSuccessor ==
    \A j \in Kids : keys[j].from # NoKid =>
        /\ keys[keys[j].from].state \in {"grace", "revoked"}
        /\ \A k \in Kids : keys[k].from = keys[j].from => j = k

(* There are as many active keys as bootstrap INSERTs of ensureKeyExists: no  *)
(* interleaving of rotations ever adds or loses one.  And unless two calls    *)
(* found the table empty and one inserted before the other, there is never a  *)
(* second active key, whoever starts, rotates or dies.                        *)
OneActivePerBootstrap ==
    /\ Cardinality(ActiveKeys) =
        Cardinality({k \in Kids : keys[k].state # "unused" /\ keys[k].from = NoKid})
    /\ ~overlapped => \A j, k \in ActiveKeys : j = k

(* A server signs with a key that JWKS does not publish only if that key was *)
(* retired after the server loaded it, and then only once it was revoked or   *)
(* its grace period is over: a restart always picks up a key that verifies.  *)
SignerVerifiable ==
    \A v \in Servers :
        (signer[v] # NoKid /\ signer[v] \notin PublicJwks) =>
            \E j \in Kids :
                /\ keys[j].from = signer[v]
                /\ keys[j].createdAt >= bootAt[v]
                /\ \/ keys[signer[v]].state = "revoked"
                   \/ keys[j].createdAt + Grace <= now

(* Once a key exists there is an active key at every moment: no reader of     *)
(* the table ever falls between the retirement of a key and its successor,   *)
(* so no ensureKeyExists that reads from then on finds none; only a call that *)
(* had found none before may still insert.                                   *)
ActiveNeverLost == [][ActiveKeys # {} => ActiveKeys' # {}]_vars

(* A retired key stays exactly as it was retired: no late rotation revives   *)
(* it, extends its grace period or turns a revocation into grace.            *)
RetiredForGood ==
    [][\A k \in Kids :
        keys[k].state \in {"grace", "revoked"} => keys'[k] = keys[k]]_vars

(* docs/05-key-management-rotation-plan.md:62: only the active key signs.    *)
SignsWithActiveKeyOnly ==
    \A v \in Servers : signer[v] # NoKid => signer[v] \in ActiveKeys

(* The inductive invariant behind the properties above.  A key id that was   *)
(* never inserted holds nothing, so it is nobody's predecessor.              *)
KeysOK ==
    \A k \in Kids : keys[k].state = "unused" => keys[k] = UnusedKey

(* A call that will rotate has read a key; only a server's start loads one.  *)
TasksOK ==
    \A t \in Tasks :
        /\ task[t].at = "rotate" => task[t].kid \in Kids
        /\ task[t].goal \in {"due", "load"} => task[t].server \in Servers

(* A loaded key is active, or was retired since, and knows when. *)
SignersOK ==
    \A v \in Servers : signer[v] # NoKid =>
        /\ bootAt[v] <= now
        /\ \/ keys[signer[v]].state = "active"
           \/ \E j \in Kids :
                /\ keys[j].from = signer[v]
                /\ keys[j].createdAt >= bootAt[v]
                /\ \/ keys[signer[v]].state = "revoked"
                   \/ /\ keys[signer[v]].state = "grace"
                      /\ keys[signer[v]].expiresAt = keys[j].createdAt + Grace

(* Without an overlap the first key is inserted by the last call that found   *)
(* none, and from then on there is one active key and no call about to insert. *)
BootstrapOK ==
    ~overlapped =>
        \/ \A k \in Kids : keys[k].state = "unused"
        \/ /\ \E k \in Kids : ActiveKeys = {k}
           /\ \A t \in Tasks : task[t].at # "insert"

IInv == TypeOK /\ OneSuccessor /\ KeysOK /\ TasksOK /\ SignersOK /\ BootstrapOK

=============================================================================
