--------------------------- MODULE AccountDeletion ---------------------------
(***************************************************************************)
(* Account deletion: DELETE /v1/account schedules it, and the account      *)
(* deletion job, started by an external scheduler under an advisory lock,  *)
(* removes the accounts whose grace period is over unless a legal hold     *)
(* protects them.  Operators place and release holds by hand at any time.  *)
(* What deletion does to sessions is in module Sessions.                   *)
(***************************************************************************)
EXTENDS Naturals, FiniteSets

CONSTANTS
    Users,              \* accounts
    Requests,           \* slots for DELETE /v1/account handlers
    Jobs,               \* job processes
    NoUser, NoJob,
    Broken,             \* accounts whose DELETE fails in every job
    GracePeriod,        \* ACCOUNT_DELETION_GRACE_DAYS, in ticks
    ChunkSize,          \* RETENTION_BATCH_CHUNK_SIZE
    MaxTime,            \* bound: ticks of the clock
    MaxFaults           \* bound: errors and crashes of jobs

ASSUME DeletionAssumption ==
    /\ NoUser \notin Users
    /\ NoJob \notin Jobs
    /\ Broken \subseteq Users
    /\ GracePeriod \in Nat /\ ChunkSize \in Nat \ {0}
    /\ MaxTime \in Nat /\ MaxFaults \in Nat

VARIABLES
    users,              \* status and deletionDueAt
    hold,               \* expiresAt of the user's legal hold, 0 without one
    req,                \* DELETE handlers in flight
    job,                \* account deletion jobs
    lock,               \* the job that holds the advisory lock
    lateHold,           \* history: holds placed after a job had looked
    now,
    faults

deletionVars == <<users, hold, req, job, lock, lateHold, now, faults>>

-----------------------------------------------------------------------------
(* State. *)

Account == [status : {"active", "deleted", "gone"}, dueAt : Nat]

DeletionRequest == [user : Users \union {NoUser}, dueAt : Nat]

NoRequest == [user |-> NoUser, dueAt |-> 0]

DeletionJob == [at : {"idle", "select", "next", "delete", "log"},
                todo : SUBSET Users, user : Users \union {NoUser}]

IdleJob == [at |-> "idle", todo |-> {}, user |-> NoUser]

(* expiresAt NULL *)
Forever == MaxTime + 1

DeletionInit ==
    /\ users = [u \in Users |-> [status |-> "active", dueAt |-> 0]]
    /\ hold = [u \in Users |-> 0]
    /\ req = [r \in Requests |-> NoRequest]
    /\ job = [j \in Jobs |-> IdleJob]
    /\ lock = NoJob
    /\ lateHold = {}
    /\ now = 0
    /\ faults = 0

-----------------------------------------------------------------------------
(* Queries. *)

(* hasActiveLegalHold *)
HasActiveLegalHold(u) == hold[u] > now

(* mutant of IsDue: the schedule is not looked at *)
IsDueScheduled(u) == users[u].status = "deleted"

(* the WHERE clause of findDueDeletions *)
IsDue(u) == users[u].status = "deleted" /\ users[u].dueAt <= now

Due == {u \in Users : IsDue(u)}

(* LIMIT without ORDER BY: any choice of that many rows *)
Chunks(S) ==
    {c \in SUBSET S : \/ c = S /\ Cardinality(S) <= ChunkSize
                      \/ Cardinality(c) = ChunkSize}

-----------------------------------------------------------------------------
(* DELETE /v1/account *)

(* requestDeletion: status and reauthentication, and the date is computed *)
RequestDeletion(r, u) ==
    /\ req[r] = NoRequest
    /\ users[u].status = "active"
    /\ req' = [req EXCEPT ![r] = [user |-> u, dueAt |-> now + GracePeriod]]
    /\ UNCHANGED <<users, hold, job, lock, lateHold, now, faults>>

(* mutant of CanMark: the UPDATE does not test the status again *)
CanMarkAny(u) == users[u].status # "gone"

(* the WHERE clause of markAsDeleted *)
CanMark(u) == users[u].status = "active"

MarkAsDeleted(r) ==
    LET u == req[r].user IN
    /\ req[r] # NoRequest
    /\ users' = IF CanMark(u)
                  THEN [users EXCEPT ![u] = [status |-> "deleted",
                                             dueAt |-> req[r].dueAt]]
                  ELSE users
    /\ req' = [req EXCEPT ![r] = NoRequest]
    /\ UNCHANGED <<hold, job, lock, lateHold, now, faults>>

-----------------------------------------------------------------------------
(* The job. *)

(* mutant of LockFree: the result of pg_try_advisory_lock is ignored *)
LockIgnored == lock \in Jobs \union {NoJob}

LockFree == lock = NoJob

(* run-account-deletion: take the lock, or exit and leave no trace *)
StartJob(j) ==
    /\ job[j].at = "idle"
    /\ LockFree
    /\ lock' = j
    /\ job' = [job EXCEPT ![j].at = "select"]
    /\ UNCHANGED <<users, hold, req, lateHold, now, faults>>

FindDueDeletions(j) ==
    /\ job[j].at = "select"
    /\ \E c \in Chunks(Due) :
          job' = [job EXCEPT ![j] = [@ EXCEPT !.at = "next", !.todo = c]]
    /\ UNCHANGED <<users, hold, req, lock, lateHold, now, faults>>

(* mutant of Deferred: holds are not looked up *)
DeferredNever(u) == hold[u] > MaxTime + 1

(* a held account is deferred: logged, and left for a later job *)
Deferred(u) == HasActiveLegalHold(u)

CheckHold(j, u) ==
    /\ job[j].at = "next"
    /\ u \in job[j].todo
    /\ job' = [job EXCEPT ![j] =
                 IF Deferred(u)
                   THEN [@ EXCEPT !.todo = job[j].todo \ {u}]
                   ELSE [at |-> "delete", todo |-> @.todo \ {u}, user |-> u]]
    /\ lateHold' = lateHold \ {u}
    /\ UNCHANGED <<users, hold, req, lock, now, faults>>

(* physicallyDeleteUser: the hold goes by ON DELETE CASCADE *)
PhysicallyDeleteUser(j) ==
    LET u == job[j].user IN
    /\ job[j].at = "delete"
    /\ u \notin Broken
    /\ users' = [users EXCEPT ![u].status = "gone"]
    /\ hold' = [hold EXCEPT ![u] = 0]
    /\ job' = [job EXCEPT ![j].at = "log"]
    /\ UNCHANGED <<req, lock, lateHold, now, faults>>

(* account.deletion.finalized *)
LogDeletion(j) ==
    /\ job[j].at = "log"
    /\ job' = [job EXCEPT ![j] = [@ EXCEPT !.at = "next", !.user = NoUser]]
    /\ UNCHANGED <<users, hold, req, lock, lateHold, now, faults>>

(* mutant of FailBroken: the error is not caught, and the job ends *)
FailBrokenAborts(j) ==
    /\ job[j].at = "delete"
    /\ job[j].user \in Broken
    /\ job' = [job EXCEPT ![j] = IdleJob]
    /\ lock' = NoJob
    /\ UNCHANGED <<users, hold, req, lateHold, now, faults>>

(* an account that fails in every job, a statement that always times out for *)
(* instance: the error is caught and the loop goes on with the next account  *)
FailBroken(j) ==
    /\ job[j].at = "delete"
    /\ job[j].user \in Broken
    /\ job' = [job EXCEPT ![j] = [@ EXCEPT !.at = "next", !.user = NoUser]]
    /\ UNCHANGED <<users, hold, req, lock, lateHold, now, faults>>

(* a passing error of the database, at any statement of the loop: caught as  *)
(* well                                                                      *)
FailAccount(j) ==
    /\ faults < MaxFaults
    /\ faults' = faults + 1
    /\ \/ /\ job[j].at = "next"
          /\ \E u \in job[j].todo : job' = [job EXCEPT ![j].todo = @ \ {u}]
       \/ /\ job[j].at \in {"delete", "log"}
          /\ job' = [job EXCEPT ![j] = [@ EXCEPT !.at = "next", !.user = NoUser]]
    /\ UNCHANGED <<users, hold, req, lock, lateHold, now>>

(* mutant of EndJob: the process lingers in a state of its own *)
EndJobLingering(j) ==
    /\ job[j].at = "next" /\ job[j].todo = {}
    /\ job' = [job EXCEPT ![j].at = "ended"]
    /\ lock' = NoJob
    /\ UNCHANGED <<users, hold, req, lateHold, now, faults>>

(* pg_advisory_unlock in the finally block, and the process exits *)
EndJob(j) ==
    /\ job[j].at = "next" /\ job[j].todo = {}
    /\ job' = [job EXCEPT ![j] = IdleJob]
    /\ lock' = NoJob
    /\ UNCHANGED <<users, hold, req, lateHold, now, faults>>

(* the lock is released when the connection of a dead process closes *)
CrashJob(j) ==
    /\ job[j].at # "idle"
    /\ faults < MaxFaults
    /\ faults' = faults + 1
    /\ job' = [job EXCEPT ![j] = IdleJob]
    /\ lock' = NoJob
    /\ UNCHANGED <<users, hold, req, lateHold, now>>

JobStep(j) ==
    \/ StartJob(j)
    \/ FindDueDeletions(j)
    \/ \E u \in Users : CheckHold(j, u)
    \/ FailBroken(j)
    \/ LogDeletion(j)
    \/ EndJob(j)

JobFault(j) == FailAccount(j) \/ CrashJob(j)

-----------------------------------------------------------------------------
(* Operators and time. *)

(* an INSERT into legal_holds, with or without an end *)
PlaceHold(u, e) ==
    /\ users[u].status # "gone"
    /\ ~HasActiveLegalHold(u)
    /\ e > now
    /\ hold' = [hold EXCEPT ![u] = e]
    /\ lateHold' = IF \E j \in Jobs : job[j].at = "delete" /\ job[j].user = u
                     THEN lateHold \union {u} ELSE lateHold
    /\ UNCHANGED <<users, req, job, lock, now, faults>>

ReleaseHold(u) ==
    /\ HasActiveLegalHold(u)
    /\ hold' = [hold EXCEPT ![u] = 0]
    /\ UNCHANGED <<users, req, job, lock, lateHold, now, faults>>

Tick ==
    /\ now < MaxTime
    /\ now' = now + 1
    /\ UNCHANGED <<users, hold, req, job, lock, lateHold, faults>>

(* every step that removes no account *)
Keeping ==
    \/ \E r \in Requests : MarkAsDeleted(r)
    \/ \E r \in Requests, u \in Users : RequestDeletion(r, u)
    \/ \E j \in Jobs : JobStep(j) \/ JobFault(j)
    \/ \E u \in Users : ReleaseHold(u)
    \/ Tick

Holding == \E u \in Users, e \in {now + 1, Forever} : PlaceHold(u, e)

DeletionNext ==
    \/ Keeping
    \/ Holding
    \/ \E j \in Jobs : PhysicallyDeleteUser(j)

DeletionSpec == DeletionInit /\ [][DeletionNext]_deletionVars

(* The scheduler keeps starting jobs, and the awaited statements of a job    *)
(* resolve, one way or the other.                                            *)
DeletionFairSpec ==
    /\ DeletionSpec
    /\ WF_deletionVars(\E j \in Jobs : JobStep(j) \/ PhysicallyDeleteUser(j))

-----------------------------------------------------------------------------
(* Properties. *)

(* Accounts, holds, requests and jobs keep their shapes. *)
DeletionTypeOK ==
    /\ users \in [Users -> Account]
    /\ hold \in [Users -> Nat]
    /\ req \in [Requests -> DeletionRequest]
    /\ job \in [Jobs -> DeletionJob]
    /\ lock \in Jobs \union {NoJob}
    /\ lateHold \subseteq Users
    /\ now \in Nat /\ faults \in Nat

(* The advisory lock keeps two account deletion jobs from ever overlapping,  *)
(* across crashes too.                                                       *)
OneJobAtATime ==
    \A i, j \in Jobs : (job[i].at # "idle" /\ job[j].at # "idle") => i = j

(* A second or a concurrent DELETE /v1/account never moves the date a first  *)
(* one has set, and nothing takes a deletion back.                           *)
DeadlineKept ==
    [][\A u \in Users : users[u].status = "deleted" =>
        /\ users'[u].status \in {"deleted", "gone"}
        /\ users'[u].dueAt = users[u].dueAt]_users

(* The job removes only accounts whose deletion was requested, and not       *)
(* before the grace period is over, though it removes them several           *)
(* statements after it selected them.                                        *)
RemovedOnlyWhenDue ==
    [][\A u \in Users :
        (users[u].status # "gone" /\ users'[u].status = "gone") =>
            users[u].status = "deleted" /\ users[u].dueAt <= now]_users

(* An account under a legal hold is never removed, except in the window      *)
(* between finalizeDueDeletions' own look at the holds and its DELETE: only  *)
(* a hold placed in that window is overlooked.                               *)
HoldKeepsAccount ==
    [][\A u \in Users :
        (users[u].status # "gone" /\ users'[u].status = "gone"
            /\ HasActiveLegalHold(u)) => u \in lateHold]_users

(* The accounts that a job selects and cannot remove. *)
Stuck == {u \in Due : HasActiveLegalHold(u) \/ u \in Broken}

(* Jobs keep being started and operators have stopped changing holds: then   *)
(* an account that is due and not held does not wait forever.  Neither       *)
(* crashes and errors of jobs nor accounts that are held or fail in every    *)
(* job keep it, unless these fill a whole chunk: findDueDeletions has a      *)
(* LIMIT and no ORDER BY, and may then select the same ones again and again. *)
DueIsRemoved ==
    (<>[][FALSE]_hold) =>
        \A u \in Users \ Broken :
            []<> ~(/\ IsDue(u) /\ ~HasActiveLegalHold(u)
                   /\ Cardinality(Stuck) < ChunkSize)

=============================================================================
