------------------------ MODULE AccountDeletionProofs ------------------------
(***************************************************************************)
(* Proofs about module AccountDeletion, for any number of accounts,        *)
(* requests and job processes and any grace period and chunk size.         *)
(***************************************************************************)
EXTENDS AccountDeletion, TLAPS

(* Whoever runs has the lock, so a job's own steps are the only ones that    *)
(* remove accounts while it runs.                                            *)
LockHeld == \A j \in Jobs : job[j].at # "idle" => lock = j

(* An account a job has selected stays due until the job has dealt with it:  *)
(* nothing takes a deletion back and nobody else removes the account.        *)
SelectedStayDue ==
    \A j \in Jobs :
        /\ job[j].at \in {"idle", "select"} => job[j].todo = {}
        /\ \A u \in job[j].todo : IsDue(u)
        /\ job[j].at = "delete" =>
              /\ job[j].user \in Users \ job[j].todo
              /\ IsDue(job[j].user)

(* The account a job is about to remove has no hold, or one that was placed  *)
(* after the job had looked.                                                 *)
OverlookedIsLate ==
    \A j \in Jobs :
        job[j].at = "delete" /\ HasActiveLegalHold(job[j].user) =>
            job[j].user \in lateHold

DeletionInv ==
    /\ DeletionTypeOK
    /\ LockHeld
    /\ SelectedStayDue
    /\ OverlookedIsLate

-----------------------------------------------------------------------------

(* A finished or crashed process is a job with nothing to do. *)
LEMMA IdleIsJob == IdleJob \in DeletionJob
  BY DeletionAssumption DEF IdleJob, DeletionJob

(* No account, hold, request or job at the start. *)
LEMMA DeletionInitInv == DeletionInit => DeletionInv
  <1> SUFFICES ASSUME DeletionInit PROVE DeletionInv
    OBVIOUS
  <1>1. DeletionTypeOK
    BY IdleIsJob DEF DeletionInit, DeletionTypeOK, Account, DeletionRequest, NoRequest
  <1>2. \A j \in Jobs : job[j].at = "idle" /\ job[j].todo = {}
    BY DEF DeletionInit, IdleJob
  <1>3. QED
    BY <1>1, <1>2 DEF DeletionInv, LockHeld, SelectedStayDue, OverlookedIsLate

(* DELETE /v1/account moves an account from active to deleted: the accounts  *)
(* jobs have selected are past that.                                         *)
LEMMA RequestSteps ==
  ASSUME DeletionInv, NEW r \in Requests,
         MarkAsDeleted(r) \/ \E u \in Users : RequestDeletion(r, u)
  PROVE  DeletionInv'
  <1> USE DEF DeletionInv
  <1>1. UNCHANGED <<hold, job, lock, lateHold, now, faults>>
    BY DEF MarkAsDeleted, RequestDeletion
  <1>2. /\ users' \in [Users -> Account]
        /\ \A u \in Users : IsDue(u) => users'[u] = users[u]
        /\ req' \in [Requests -> DeletionRequest]
    <2>1. CASE MarkAsDeleted(r)
      <3>1. NoRequest \in DeletionRequest /\ req[r] \in DeletionRequest
        BY DEF DeletionTypeOK, NoRequest, DeletionRequest
      <3>2. users' = users \/ /\ CanMark(req[r].user)
                              /\ users' = [users EXCEPT ![req[r].user] =
                                   [status |-> "deleted", dueAt |-> req[r].dueAt]]
        BY <2>1 DEF MarkAsDeleted
      <3>3. [status |-> "deleted", dueAt |-> req[r].dueAt] \in Account
        BY <3>1 DEF DeletionRequest, Account
      <3>4. QED
        BY <2>1, <3>1, <3>2, <3>3 DEF DeletionTypeOK, MarkAsDeleted, CanMark, IsDue
    <2>2. CASE \E u \in Users : RequestDeletion(r, u)
      <3>1. PICK u \in Users : RequestDeletion(r, u)
        BY <2>2
      <3>2. [user |-> u, dueAt |-> now + GracePeriod] \in DeletionRequest
        BY DeletionAssumption DEF DeletionTypeOK, DeletionRequest
      <3>3. QED
        BY <3>1, <3>2 DEF DeletionTypeOK, RequestDeletion
    <2>3. QED
      BY <2>1, <2>2
  <1>3. DeletionTypeOK' /\ LockHeld' /\ OverlookedIsLate'
    BY <1>1, <1>2 DEF DeletionTypeOK, LockHeld, OverlookedIsLate, HasActiveLegalHold
  <1>4. \A u \in Users : IsDue(u) => IsDue(u)'
    BY <1>1, <1>2 DEF IsDue
  <1>5. SelectedStayDue'
    BY <1>1, <1>4 DEF SelectedStayDue, DeletionTypeOK, DeletionJob
  <1>6. QED
    BY <1>3, <1>5

(* A step that only moves job j along, to q, with the lock still or newly    *)
(* its own.                                                                  *)
LEMMA JobMoves ==
  ASSUME DeletionInv, UNCHANGED <<users, hold, req, now>>, faults' \in Nat,
         NEW j \in Jobs, NEW q \in DeletionJob, job' = [job EXCEPT ![j] = q],
         lock = j \/ lock = NoJob, q.at # "idle" => lock' = j,
         lock' \in {j, NoJob},
         lateHold' \subseteq lateHold,
         q.at \in {"idle", "select"} => q.todo = {},
         \A u \in q.todo : IsDue(u),
         q.at = "delete" => /\ q.user \in Users \ q.todo
                            /\ IsDue(q.user)
                            /\ ~HasActiveLegalHold(q.user)
  PROVE  DeletionInv'
  <1> USE DEF DeletionInv
  <1>1. job'[j] = q /\ \A i \in Jobs \ {j} : job'[i] = job[i]
    BY DEF DeletionTypeOK
  <1>2. \A i \in Jobs \ {j} : job[i].at = "idle"
    BY DeletionAssumption DEF LockHeld
  <1>3. DeletionTypeOK'
    BY DEF DeletionTypeOK
  <1>4. LockHeld'
    BY <1>1, <1>2 DEF LockHeld
  <1>5. \A u \in Users : IsDue(u)' <=> IsDue(u)
    BY DEF IsDue
  <1>6. SelectedStayDue'
    BY <1>1, <1>2, <1>5 DEF SelectedStayDue, DeletionJob
  <1>7. OverlookedIsLate'
    BY <1>1, <1>2 DEF OverlookedIsLate, HasActiveLegalHold
  <1>8. QED
    BY <1>3, <1>4, <1>6, <1>7

(* The steps of a job, and its faults, that remove no account. *)
LEMMA JobSteps ==
  ASSUME DeletionInv, NEW j \in Jobs, JobStep(j) \/ JobFault(j)
  PROVE  DeletionInv'
  <1> USE DEF DeletionInv
  <1>1. PICK p \in DeletionJob : p = job[j]
    BY DEF DeletionTypeOK
  <1>2. /\ p.at # "idle" => lock = j
        /\ p.at \in {"idle", "select"} => p.todo = {}
        /\ \A u \in p.todo : IsDue(u)
    BY <1>1 DEF LockHeld, SelectedStayDue
  <1>3. CASE StartJob(j)
    <2> DEFINE q == [p EXCEPT !.at = "select"]
    <2>1. q \in DeletionJob /\ q.at = "select" /\ q.todo = {}
      BY <1>1, <1>2, <1>3 DEF StartJob, DeletionJob
    <2>2. job' = [job EXCEPT ![j] = q]
      BY <1>1, <1>3 DEF StartJob
    <2> HIDE DEF q
    <2>3. QED
      BY <1>3, <2>1, <2>2, JobMoves DEF StartJob, LockFree, DeletionTypeOK
  <1>4. CASE FindDueDeletions(j)
    <2>1. PICK c \in Chunks(Due) :
            job' = [job EXCEPT ![j] = [p EXCEPT !.at = "next", !.todo = c]]
      BY <1>1, <1>4 DEF FindDueDeletions
    <2> DEFINE q == [p EXCEPT !.at = "next", !.todo = c]
    <2>2. c \subseteq Due
      BY DEF Chunks
    <2>3. q \in DeletionJob /\ q.at = "next" /\ \A u \in q.todo : IsDue(u)
      BY <1>1, <2>2 DEF DeletionJob, Due
    <2>4. job' = [job EXCEPT ![j] = q] /\ lock = j
      BY <1>1, <1>2, <1>4, <2>1 DEF FindDueDeletions
    <2> HIDE DEF q
    <2>5. QED
      BY <1>4, <2>3, <2>4, JobMoves DEF FindDueDeletions, DeletionTypeOK
  <1>5. CASE \E u \in Users : CheckHold(j, u)
    <2>1. PICK u \in Users : CheckHold(j, u)
      BY <1>5
    <2>2. p.at = "next" /\ u \in p.todo /\ lock = j /\ IsDue(u)
      BY <1>1, <1>2, <2>1 DEF CheckHold
    <2>3. CASE Deferred(u)
      <3> DEFINE q == [p EXCEPT !.todo = @ \ {u}]
      <3>1. q \in DeletionJob /\ q.at = "next" /\ q.todo \subseteq p.todo
        BY <1>1, <2>2 DEF DeletionJob
      <3>2. job' = [job EXCEPT ![j] = q]
        BY <1>1, <2>1, <2>3 DEF CheckHold
      <3> HIDE DEF q
      <3>3. QED
        BY <1>2, <2>1, <2>2, <3>1, <3>2, JobMoves DEF CheckHold, DeletionTypeOK
    <2>4. CASE ~Deferred(u)
      <3> DEFINE q == [at |-> "delete", todo |-> p.todo \ {u}, user |-> u]
      <3>1. q \in DeletionJob /\ q.at = "delete" /\ q.todo = p.todo \ {u} /\ q.user = u
        BY <1>1 DEF DeletionJob
      <3>2. job' = [job EXCEPT ![j] = q]
        BY <1>1, <2>1, <2>4 DEF CheckHold
      <3>3. ~HasActiveLegalHold(u)
        BY <2>4 DEF Deferred
      <3> HIDE DEF q
      <3>4. QED
        BY <1>2, <2>1, <2>2, <3>1, <3>2, <3>3, JobMoves DEF CheckHold, DeletionTypeOK
    <2>5. QED
      BY <2>3, <2>4
  <1>6. CASE \/ LogDeletion(j) \/ FailBroken(j)
             \/ FailAccount(j) /\ p.at \in {"delete", "log"}
    <2> DEFINE q == [p EXCEPT !.at = "next", !.user = NoUser]
    <2>1. q \in DeletionJob /\ q.at = "next" /\ q.todo = p.todo
      BY <1>1 DEF DeletionJob
    <2>2. job' = [job EXCEPT ![j] = q] /\ lock = j
      BY <1>1, <1>2, <1>6 DEF LogDeletion, FailBroken, FailAccount
    <2>3. faults' \in Nat /\ UNCHANGED <<users, hold, req, lock, now, lateHold>>
      BY <1>6 DEF LogDeletion, FailBroken, FailAccount, DeletionTypeOK
    <2> HIDE DEF q
    <2>4. QED
      BY <1>2, <2>1, <2>2, <2>3, JobMoves
  <1>7. CASE FailAccount(j) /\ p.at = "next"
    <2>1. PICK u \in p.todo : job' = [job EXCEPT ![j].todo = @ \ {u}]
      BY <1>1, <1>7 DEF FailAccount
    <2> DEFINE q == [p EXCEPT !.todo = @ \ {u}]
    <2>2. q \in DeletionJob /\ q.at = "next" /\ q.todo \subseteq p.todo
      BY <1>1, <1>7 DEF DeletionJob
    <2>3. job' = [job EXCEPT ![j] = q] /\ lock = j
      BY <1>1, <1>2, <1>7, <2>1
    <2>4. faults' \in Nat /\ UNCHANGED <<users, hold, req, lock, now, lateHold>>
      BY <1>7 DEF FailAccount, DeletionTypeOK
    <2> HIDE DEF q
    <2>5. QED
      BY <1>2, <2>2, <2>3, <2>4, JobMoves
  <1>8. CASE EndJob(j) \/ CrashJob(j)
    <2>1. job' = [job EXCEPT ![j] = IdleJob] /\ lock = j /\ lock' = NoJob
      BY <1>1, <1>2, <1>8 DEF EndJob, CrashJob
    <2>2. faults' \in Nat /\ UNCHANGED <<users, hold, req, now, lateHold>>
      BY <1>8 DEF EndJob, CrashJob, DeletionTypeOK
    <2>3. QED
      BY <2>1, <2>2, IdleIsJob, JobMoves DEF IdleJob
  <1>9. FailAccount(j) => p.at \in {"next", "delete", "log"}
    BY <1>1 DEF FailAccount
  <1>10. QED
    BY <1>3, <1>4, <1>5, <1>6, <1>7, <1>8, <1>9 DEF JobStep, JobFault

(* A removal touches one account, which is in no job's list. *)
LEMMA RemovalStep ==
  ASSUME DeletionInv, NEW j \in Jobs, PhysicallyDeleteUser(j)
  PROVE  DeletionInv'
  <1> USE DEF DeletionInv
  <1>1. PICK p \in DeletionJob : p = job[j]
    BY DEF DeletionTypeOK
  <1>2. p.at = "delete" /\ lock = j /\ p.user \in Users \ p.todo
    BY <1>1 DEF PhysicallyDeleteUser, LockHeld, SelectedStayDue
  <1> DEFINE q == [p EXCEPT !.at = "log"]
  <1>3. q \in DeletionJob /\ q.at = "log" /\ q.todo = p.todo
    BY <1>1 DEF DeletionJob
  <1>4. job' = [job EXCEPT ![j] = q]
    BY <1>1 DEF PhysicallyDeleteUser
  <1> HIDE DEF q
  <1>5. job'[j] = q /\ \A i \in Jobs \ {j} : job'[i] = job[i] /\ job[i].at = "idle"
    BY <1>2, <1>4 DEF DeletionTypeOK, LockHeld
  <1>6. /\ users' \in [Users -> Account]
        /\ \A u \in Users : u # p.user => users'[u] = users[u]
    <2>1. PICK a \in Account : a = users[p.user]
      BY <1>2 DEF DeletionTypeOK
    <2>2. [a EXCEPT !.status = "gone"] \in Account
      BY DEF Account
    <2>3. QED
      BY <1>1, <2>1, <2>2 DEF DeletionTypeOK, PhysicallyDeleteUser
  <1>7. DeletionTypeOK'
    BY <1>3, <1>4, <1>6 DEF DeletionTypeOK, PhysicallyDeleteUser
  <1>8. LockHeld' /\ OverlookedIsLate'
    BY <1>2, <1>3, <1>5 DEF LockHeld, OverlookedIsLate, PhysicallyDeleteUser
  <1>9. \A u \in p.todo : IsDue(u)'
    BY <1>1, <1>2, <1>6 DEF IsDue, SelectedStayDue, PhysicallyDeleteUser, DeletionJob
  <1>10. SelectedStayDue'
    BY <1>3, <1>5, <1>9 DEF SelectedStayDue
  <1>11. QED
    BY <1>7, <1>8, <1>10

(* A hold is placed before the job looks, or it is remembered as late. *)
LEMMA HoldSteps ==
  ASSUME DeletionInv, Holding \/ (\E u \in Users : ReleaseHold(u)) \/ Tick
  PROVE  DeletionInv'
  <1> USE DEF DeletionInv
  <1>1. UNCHANGED <<users, req, job, lock, faults>>
    BY DEF Holding, PlaceHold, ReleaseHold, Tick
  <1>2. DeletionTypeOK' /\ now <= now'
    <2>1. CASE Holding
      <3>1. PICK u \in Users, e \in {now + 1, Forever} : PlaceHold(u, e)
        BY <2>1 DEF Holding
      <3>2. e \in Nat
        BY DeletionAssumption DEF DeletionTypeOK, Forever
      <3>3. QED
        BY <3>1, <3>2 DEF PlaceHold, DeletionTypeOK
    <2>2. CASE \E u \in Users : ReleaseHold(u)
      BY <2>2 DEF ReleaseHold, DeletionTypeOK
    <2>3. CASE Tick
      BY <2>3 DEF Tick, DeletionTypeOK
    <2>4. QED
      BY <2>1, <2>2, <2>3
  <1>3. LockHeld'
    BY <1>1 DEF LockHeld
  <1>4. \A u \in Users : IsDue(u) => IsDue(u)'
    BY <1>1, <1>2 DEF IsDue, DeletionTypeOK, Account
  <1>5. SelectedStayDue'
    BY <1>1, <1>4 DEF SelectedStayDue, DeletionTypeOK, DeletionJob
  <1>6. OverlookedIsLate'
    <2> SUFFICES ASSUME NEW j \in Jobs, job[j].at = "delete",
                        HasActiveLegalHold(job[j].user)'
                 PROVE  job[j].user \in lateHold'
      BY <1>1 DEF OverlookedIsLate
    <2>1. job[j].user \in Users
      BY DEF SelectedStayDue
    <2>2. CASE HasActiveLegalHold(job[j].user)
      BY <2>2 DEF OverlookedIsLate, Holding, PlaceHold, ReleaseHold, Tick
    <2>3. CASE ~HasActiveLegalHold(job[j].user)
      BY <1>1, <1>2, <2>1, <2>3
         DEF HasActiveLegalHold, Holding, PlaceHold, ReleaseHold, Tick, DeletionTypeOK
    <2>4. QED
      BY <2>2, <2>3
  <1>7. QED
    BY <1>2, <1>3, <1>5, <1>6

(* Every step keeps the invariant. *)
LEMMA DeletionNextInv == DeletionInv /\ [DeletionNext]_deletionVars => DeletionInv'
  <1> SUFFICES ASSUME DeletionInv, [DeletionNext]_deletionVars
               PROVE  DeletionInv'
    OBVIOUS
  <1>1. CASE UNCHANGED deletionVars
    BY <1>1 DEF deletionVars, DeletionInv, DeletionTypeOK, LockHeld, SelectedStayDue,
                OverlookedIsLate, IsDue, HasActiveLegalHold
  <1>2. CASE DeletionNext
    BY <1>2, RequestSteps, JobSteps, RemovalStep, HoldSteps DEF DeletionNext, Keeping
  <1>3. QED
    BY <1>1, <1>2

(* The inductive invariant: selected accounts stay due, under one lock. *)
THEOREM DeletionInvariance == DeletionSpec => []DeletionInv
  BY DeletionInitInv, DeletionNextInv, PTL DEF DeletionSpec

-----------------------------------------------------------------------------

(* The state of accounts, holds, requests and jobs keeps its shape. *)
THEOREM DeletionTypeCorrect == DeletionSpec => []DeletionTypeOK
  <1>1. DeletionInv => DeletionTypeOK
    BY DEF DeletionInv
  <1>2. QED
    BY <1>1, DeletionInvariance, PTL

(* Two job processes never run at once, whatever crashes: the advisory lock  *)
(* of run-account-deletion excludes them.                                    *)
THEOREM JobsExclude == DeletionSpec => []OneJobAtATime
  <1>1. DeletionInv => OneJobAtATime
    BY DEF DeletionInv, LockHeld, OneJobAtATime
  <1>2. QED
    BY <1>1, DeletionInvariance, PTL

(* What a step does to the accounts: it leaves them alone, schedules an      *)
(* active one, or is a job's removal of a due one.                           *)
LEMMA AccountSteps ==
  ASSUME DeletionInv, [DeletionNext]_deletionVars
  PROVE  \/ UNCHANGED users
         \/ \E r \in Requests :
               /\ CanMark(req[r].user)
               /\ \A u \in Users : u # req[r].user => users'[u] = users[u]
               /\ req[r].user \in Users => users'[req[r].user].status = "deleted"
         \/ \E j \in Jobs :
               /\ job[j].at = "delete" /\ job[j].user \in Users
               /\ users' = [users EXCEPT ![job[j].user].status = "gone"]
  <1>1. CASE \E r \in Requests : MarkAsDeleted(r)
    <2>1. PICK r \in Requests : MarkAsDeleted(r)
      BY <1>1
    <2>2. CASE CanMark(req[r].user)
      BY <2>1, <2>2 DEF MarkAsDeleted, DeletionInv, DeletionTypeOK
    <2>3. QED
      BY <2>1, <2>2 DEF MarkAsDeleted
  <1>2. CASE \E j \in Jobs : PhysicallyDeleteUser(j)
    BY <1>2 DEF PhysicallyDeleteUser, DeletionInv, SelectedStayDue
  <1>3. CASE UNCHANGED users
    BY <1>3
  <1>4. QED
    BY <1>1, <1>2, <1>3
    DEF DeletionNext, Keeping, Holding, PlaceHold, ReleaseHold, Tick, RequestDeletion,
        JobStep, JobFault, StartJob, FindDueDeletions, CheckHold, LogDeletion, EndJob,
        FailBroken, FailAccount, CrashJob, deletionVars

(* The date a first DELETE /v1/account has set is final: no later request    *)
(* moves it and nothing takes the deletion back.                             *)
THEOREM DeadlineIsKept == DeletionSpec => DeadlineKept
  <1> DEFINE Step == \A u \in Users : users[u].status = "deleted" =>
                        /\ users'[u].status \in {"deleted", "gone"}
                        /\ users'[u].dueAt = users[u].dueAt
  <1>1. ASSUME DeletionInv, [DeletionNext]_deletionVars PROVE Step
    <2> SUFFICES ASSUME NEW u \in Users, users[u].status = "deleted"
                 PROVE  /\ users'[u].status \in {"deleted", "gone"}
                        /\ users'[u].dueAt = users[u].dueAt
      OBVIOUS
    <2>1. users \in [Users -> Account]
      BY <1>1 DEF DeletionInv, DeletionTypeOK
    <2>2. CASE UNCHANGED users
      BY <2>2
    <2>3. CASE \E r \in Requests :
                 /\ CanMark(req[r].user)
                 /\ \A v \in Users : v # req[r].user => users'[v] = users[v]
      BY <2>3 DEF CanMark
    <2>4. CASE \E j \in Jobs : users' = [users EXCEPT ![job[j].user].status = "gone"]
      BY <2>1, <2>4 DEF Account
    <2>5. QED
      BY <1>1, <2>2, <2>3, <2>4, AccountSteps
  <1>2. DeletionInv /\ [DeletionNext]_deletionVars => [Step]_users
    BY <1>1
  <1>3. QED
    BY <1>2, DeletionInvariance, PTL DEF DeletionSpec, DeadlineKept

(* An account leaves the table only by the job, and then it is job's own and *)
(* satisfies what the invariant says of it.                                  *)
LEMMA RemovedByJob ==
  ASSUME DeletionInv, [DeletionNext]_deletionVars, NEW u \in Users,
         users[u].status # "gone", users'[u].status = "gone"
  PROVE  \E j \in Jobs : job[j].at = "delete" /\ job[j].user = u
  <1>1. users \in [Users -> Account]
    BY DEF DeletionInv, DeletionTypeOK
  <1>2. ~ UNCHANGED users
    OBVIOUS
  <1>3. CASE \E r \in Requests :
               /\ \A v \in Users : v # req[r].user => users'[v] = users[v]
               /\ req[r].user \in Users => users'[req[r].user].status = "deleted"
    BY <1>3
  <1>4. CASE \E j \in Jobs :
               /\ job[j].at = "delete" /\ job[j].user \in Users
               /\ users' = [users EXCEPT ![job[j].user].status = "gone"]
    BY <1>1, <1>4
  <1>5. QED
    BY <1>2, <1>3, <1>4, AccountSteps

(* finalizeDueDeletions removes only accounts whose deletion was requested   *)
(* and whose grace period is over.                                           *)
THEOREM OnlyDueAreRemoved == DeletionSpec => RemovedOnlyWhenDue
  <1> DEFINE Step == \A u \in Users :
                (users[u].status # "gone" /\ users'[u].status = "gone") =>
                    users[u].status = "deleted" /\ users[u].dueAt <= now
  <1>1. ASSUME DeletionInv, [DeletionNext]_deletionVars PROVE Step
    BY <1>1, RemovedByJob DEF DeletionInv, SelectedStayDue, IsDue
  <1>2. DeletionInv /\ [DeletionNext]_deletionVars => [Step]_users
    BY <1>1
  <1>3. QED
    BY <1>2, DeletionInvariance, PTL DEF DeletionSpec, RemovedOnlyWhenDue

(* A hold is overlooked only when it is placed between the job's look at the *)
(* holds and its DELETE.                                                     *)
THEOREM HeldAreKept == DeletionSpec => HoldKeepsAccount
  <1> DEFINE Step == \A u \in Users :
                (users[u].status # "gone" /\ users'[u].status = "gone"
                    /\ HasActiveLegalHold(u)) => u \in lateHold
  <1>1. ASSUME DeletionInv, [DeletionNext]_deletionVars PROVE Step
    BY <1>1, RemovedByJob DEF DeletionInv, OverlookedIsLate
  <1>2. DeletionInv /\ [DeletionNext]_deletionVars => [Step]_users
    BY <1>1
  <1>3. QED
    BY <1>2, DeletionInvariance, PTL DEF DeletionSpec, HoldKeepsAccount

=============================================================================
