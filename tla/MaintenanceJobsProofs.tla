------------------------ MODULE MaintenanceJobsProofs ------------------------
(***************************************************************************)
(* Proofs about module MaintenanceJobs: the account deletion job keeps its *)
(* invariant beside the retention job, and the retention job keeps rows    *)
(* that are young or held, for any number of rows and any limits.          *)
(***************************************************************************)
EXTENDS MaintenanceJobs, AccountDeletionProofs

(* Rows are selected by a running phase, and by a clock not ahead of now. *)
SelectionRuns ==
    /\ ret.ids # {} => ret.phase \in 1..6
    /\ ret.asOf <= now

(* A selected row was old enough at the start of the job and still is: its   *)
(* id is not reused, so its date does not move.                              *)
SelectedAreOld ==
    \A x \in ret.ids :
        /\ rec[x].state # "none"
        /\ rec[x].date + Age(ret.phase) < ret.asOf

(* A selected row whose owner is held came under that hold after the SELECT. *)
SelectedHeldIsLate ==
    \A x \in ret.ids :
        rec[x].owner # NoUser /\ HasActiveLegalHold(rec[x].owner) => x \in lateRows

RetentionInv ==
    /\ SelectionRuns
    /\ SelectedAreOld
    /\ SelectedHeldIsLate

IInv == TypeOK /\ DeletionInv /\ RetentionInv

-----------------------------------------------------------------------------

(* The limit of a phase is one of the two configured ones. *)
LEMMA AgeType == \A p : Age(p) \in Nat
  BY RetentionAssumption DEF Age

(* A phase reads one of the three tables. *)
LEMMA SelectedAreRecords ==
  ASSUME NEW p \in 1..6 PROVE Selected(p) \subseteq Records
  <1>1. PhaseRows[p] \subseteq Records
    BY DEF PhaseRows, Records
  <1>2. QED
    BY <1>1 DEF Selected

(* No row and no retention job at the start. *)
LEMMA InitInv == Init => IInv
  <1> SUFFICES ASSUME Init PROVE IInv
    OBVIOUS
  <1>1. DeletionInv
    BY DeletionInitInv DEF Init
  <1>2. TypeOK
    BY <1>1 DEF Init, RetentionInit, TypeOK, DeletionInv, Record, NoRecord,
                RetentionJob, IdleRetention
  <1>3. RetentionInv
    BY DEF Init, RetentionInit, DeletionInit, RetentionInv, SelectionRuns,
           SelectedAreOld, SelectedHeldIsLate, IdleRetention
  <1>4. QED
    BY <1>1, <1>2, <1>3 DEF IInv

(* The retention job and the writers of rows are no more to the deletion job *)
(* than a stuttering step or a counted fault.                                *)
LEMMA DeletionInvKept ==
  ASSUME DeletionInv, [Next]_vars
  PROVE  DeletionInv'
  <1>1. \/ [DeletionNext]_deletionVars
        \/ FailRetention
    BY DEF Next, vars, deletionVars, DeletionNext, Holding, Hold, RemoveAccount,
           StartRetention, RetentionStep, SelectIds, ProcessIds, FinishRetention,
           WriteRecord
  <1>2. CASE FailRetention
    BY <1>2 DEF FailRetention, DeletionInv, DeletionTypeOK, LockHeld, SelectedStayDue,
                OverlookedIsLate, IsDue, HasActiveLegalHold
  <1>3. QED
    BY <1>1, <1>2, DeletionNextInv

(* What the steps of the deletion side do to clock and holds: the clock does *)
(* not go back, and a hold that begins is a PlaceHold.                       *)
LEMMA KeepingHolds ==
  ASSUME DeletionInv, Keeping
  PROVE  /\ now' \in Nat /\ now <= now'
         /\ hold' \in [Users -> Nat]
         /\ \A u \in Users : HasActiveLegalHold(u)' => HasActiveLegalHold(u)
  <1>1. CASE UNCHANGED <<hold, now>>
    BY <1>1 DEF HasActiveLegalHold, DeletionInv, DeletionTypeOK
  <1>2. CASE Tick
    BY <1>2 DEF Tick, HasActiveLegalHold, DeletionInv, DeletionTypeOK
  <1>3. CASE \E u \in Users : ReleaseHold(u)
    BY <1>3 DEF ReleaseHold, HasActiveLegalHold, DeletionInv, DeletionTypeOK
  <1>4. QED
    BY <1>1, <1>2, <1>3
    DEF Keeping, MarkAsDeleted, RequestDeletion, JobStep, JobFault, StartJob,
        FindDueDeletions, CheckHold, LogDeletion, EndJob, FailBroken, FailAccount, CrashJob

(* Requests, the deletion job without its DELETE, releases and the clock. *)
LEMMA KeepingStep ==
  ASSUME IInv, Keeping, UNCHANGED retentionVars, DeletionInv'
  PROVE  IInv'
  <1>1. TypeOK'
    BY DEF IInv, TypeOK, retentionVars, DeletionInv
  <1>2. /\ now' \in Nat /\ now <= now'
        /\ \A u \in Users : HasActiveLegalHold(u)' => HasActiveLegalHold(u)
    BY KeepingHolds DEF IInv
  <1>3. /\ now \in Nat /\ ret.asOf \in Nat /\ ret.ids \subseteq Records
        /\ rec' = rec /\ ret' = ret /\ lateRows' = lateRows
    BY DEF IInv, TypeOK, DeletionTypeOK, RetentionJob, retentionVars
  <1>4. SelectionRuns' /\ SelectedAreOld'
    BY <1>2, <1>3 DEF IInv, RetentionInv, SelectionRuns, SelectedAreOld
  <1>5. SelectedHeldIsLate'
    <2> SUFFICES ASSUME NEW x \in ret.ids, rec[x].owner # NoUser,
                        HasActiveLegalHold(rec[x].owner)'
                 PROVE  x \in lateRows
      BY <1>3 DEF SelectedHeldIsLate, HasActiveLegalHold
    <2>1. rec[x].owner \in Users
      BY <1>3 DEF IInv, TypeOK, Record
    <2>2. HasActiveLegalHold(rec[x].owner)
      BY <1>2, <1>3, <2>1 DEF HasActiveLegalHold
    <2>3. QED
      BY <2>2 DEF IInv, RetentionInv, SelectedHeldIsLate
  <1>6. QED
    BY <1>1, <1>4, <1>5 DEF IInv, RetentionInv

(* A hold that is placed marks the rows already selected. *)
LEMMA HoldStep ==
  ASSUME IInv, NEW u \in Users, NEW e \in {now + 1, Forever}, Hold(u, e), DeletionInv'
  PROVE  IInv'
  <1>1. UNCHANGED <<rec, ret, now>>
    BY DEF Hold, PlaceHold
  <1>2. ret.ids \subseteq Records
    BY DEF IInv, TypeOK, RetentionJob
  <1>3. TypeOK'
    BY <1>1, <1>2 DEF IInv, TypeOK, DeletionInv, Hold
  <1>4. SelectionRuns' /\ SelectedAreOld'
    BY <1>1 DEF IInv, RetentionInv, SelectionRuns, SelectedAreOld
  <1>5. SelectedHeldIsLate'
    BY <1>1 DEF IInv, RetentionInv, SelectedHeldIsLate, Hold, PlaceHold,
                HasActiveLegalHold, TypeOK, DeletionTypeOK
  <1>6. QED
    BY <1>3, <1>4, <1>5 DEF IInv, RetentionInv

(* The cascade of a removal keeps dates and leaves no row to a held owner    *)
(* that it did not belong to before.                                         *)
LEMMA RemoveStep ==
  ASSUME IInv, NEW j \in Jobs, RemoveAccount(j), DeletionInv'
  PROVE  IInv'
  <1>1. UNCHANGED <<ret, lateRows, now>>
    BY DEF RemoveAccount, PhysicallyDeleteUser
  <1>2. \A x \in Records :
          /\ rec'[x] \in Record
          /\ rec'[x].date = rec[x].date
          /\ rec'[x].state = "none" => rec[x].state = "none"
          /\ rec'[x].owner \in {rec[x].owner, NoUser}
    BY DEF RemoveAccount, Cascade, IInv, TypeOK, Record
  <1>3. rec' \in [Records -> Record]
    BY <1>2 DEF RemoveAccount, Cascade
  <1>4. TypeOK'
    BY <1>1, <1>3 DEF IInv, TypeOK, DeletionInv
  <1>5. ret.ids \subseteq Records
    BY DEF IInv, TypeOK, RetentionJob
  <1>6. SelectionRuns' /\ SelectedAreOld'
    BY <1>1, <1>2, <1>5 DEF IInv, RetentionInv, SelectionRuns, SelectedAreOld
  <1>7. \A v \in Users : HasActiveLegalHold(v)' => HasActiveLegalHold(v)
    BY <1>1 DEF RemoveAccount, PhysicallyDeleteUser, HasActiveLegalHold, IInv, TypeOK,
                DeletionTypeOK
  <1>8. SelectedHeldIsLate'
    <2> SUFFICES ASSUME NEW x \in ret.ids, rec'[x].owner # NoUser,
                        HasActiveLegalHold(rec[x].owner)'
                 PROVE  x \in lateRows
      BY <1>1, <1>2, <1>5 DEF SelectedHeldIsLate, HasActiveLegalHold
    <2>1. rec'[x].owner = rec[x].owner /\ rec[x].owner \in Users
      BY <1>2, <1>5 DEF IInv, TypeOK, Record
    <2>2. HasActiveLegalHold(rec[x].owner)
      BY <1>1, <1>7, <2>1 DEF HasActiveLegalHold
    <2>3. QED
      BY <2>1, <2>2 DEF IInv, RetentionInv, SelectedHeldIsLate
  <1>9. QED
    BY <1>4, <1>6, <1>8 DEF IInv, RetentionInv

(* The SELECT of a phase takes old rows without a hold; the other steps of   *)
(* the job leave nothing selected.                                           *)
LEMMA JobPhaseSteps ==
  ASSUME IInv, StartRetention \/ RetentionStep \/ FailRetention, DeletionInv'
  PROVE  IInv'
  <1>1. PICK q \in RetentionJob : q = ret
    BY DEF IInv, TypeOK
  <1>2. UNCHANGED <<hold, now>> /\ now \in Nat /\ rec \in [Records -> Record]
          /\ q.asOf <= now
    BY <1>1 DEF IInv, TypeOK, DeletionTypeOK, RetentionInv, SelectionRuns, StartRetention,
           RetentionStep, SelectIds, ProcessIds, FinishRetention, FailRetention, deletionVars
  <1>3. CASE SelectIds /\ \E c \in Chunks(Selected(ret.phase)) : ret' = [ret EXCEPT !.ids = c]
    <2>1. PICK c \in Chunks(Selected(q.phase)) : ret' = [q EXCEPT !.ids = c]
      BY <1>1, <1>3
    <2>2. q.phase \in 1..6
      BY <1>1, <1>3 DEF SelectIds
    <2>3. c \subseteq Selected(q.phase) /\ c \subseteq Records
      BY <2>2, SelectedAreRecords DEF Chunks
    <2>4. ret' \in RetentionJob /\ ret'.ids = c /\ ret'.asOf = q.asOf /\ ret'.phase = q.phase
      BY <2>1, <2>3 DEF RetentionJob
    <2>5. TypeOK'
      BY <1>3, <2>4 DEF IInv, TypeOK, DeletionInv, SelectIds
    <2>6. SelectionRuns' /\ SelectedAreOld'
      BY <1>1, <1>2, <1>3, <2>2, <2>3, <2>4 DEF SelectionRuns, SelectedAreOld, Selected, SelectIds
    <2>7. SelectedHeldIsLate'
      <3> SUFFICES ASSUME NEW x \in c, rec[x].owner # NoUser, hold[rec[x].owner] > now
                   PROVE  FALSE
        BY <1>2, <1>3, <2>4 DEF SelectedHeldIsLate, HasActiveLegalHold, SelectIds
      <3>1. ~(hold[rec[x].owner] > q.asOf)
        BY <1>1, <2>3 DEF Selected, HeldAsOf
      <3>2. hold[rec[x].owner] \in Nat
        BY <1>2, <2>3 DEF Record, IInv, TypeOK, DeletionTypeOK
      <3>3. QED
        BY <1>2, <3>1, <3>2 DEF RetentionJob
    <2>8. QED
      BY <2>5, <2>6, <2>7 DEF IInv, RetentionInv
  <1>4. ASSUME ret' \in RetentionJob, ret'.ids = {}, ret'.asOf <= now,
               rec' \in [Records -> Record], lateRows' \subseteq Records
        PROVE  IInv'
    BY <1>2, <1>4 DEF IInv, TypeOK, DeletionInv, RetentionInv, SelectionRuns,
                      SelectedAreOld, SelectedHeldIsLate
  <1>5. CASE StartRetention
    BY <1>2, <1>4, <1>5 DEF StartRetention, RetentionJob, IInv, TypeOK
  <1>6. CASE SelectIds /\ ret' = [ret EXCEPT !.phase = @ + 1]
    <2>1. ret' \in RetentionJob /\ ret'.ids = {} /\ ret'.asOf = q.asOf
      BY <1>1, <1>6 DEF SelectIds, RetentionJob
    <2>2. QED
      BY <1>2, <1>4, <1>6, <2>1 DEF SelectIds
  <1>7. CASE ProcessIds
    <2>1. ret' \in RetentionJob /\ ret'.ids = {} /\ ret'.asOf = q.asOf
      BY <1>1, <1>7 DEF ProcessIds, RetentionJob
    <2>2. \A x \in Records : Anonymized(x) \in Record
      BY <1>2 DEF Anonymized, Record
    <2>3. \A x \in Records : [rec[x] EXCEPT !.state = "deleted"] \in Record
      BY <1>2 DEF Record
    <2>4. rec' \in [Records -> Record]
      BY <1>2, <1>7, <2>2, <2>3 DEF ProcessIds
    <2>5. QED
      BY <1>2, <1>4, <1>7, <2>1, <2>4 DEF ProcessIds, IInv, TypeOK
  <1>8. CASE FinishRetention \/ FailRetention
    <2>1. ret' = IdleRetention /\ UNCHANGED lateRows
      BY <1>8 DEF FinishRetention, FailRetention
    <2>2. \A d \in Nat : [state |-> "full", owner |-> NoUser, date |-> d] \in Record
      BY DEF Record
    <2>3. rec' \in [Records -> Record]
      BY <1>2, <1>8, <2>2 DEF FinishRetention, FailRetention, Records
    <2>4. QED
      BY <1>2, <1>4, <2>1, <2>3 DEF IdleRetention, RetentionJob, IInv, TypeOK
  <1>9. QED
    BY <1>3, <1>5, <1>6, <1>7, <1>8 DEF RetentionStep, SelectIds

(* New rows take unused ids: no selected row is overwritten. *)
LEMMA WriteStep ==
  ASSUME IInv, NEW x \in Records, NEW u \in Users, WriteRecord(x, u), DeletionInv'
  PROVE  IInv'
  <1>1. UNCHANGED <<ret, lateRows, hold, now>> /\ now \in Nat /\ rec[x].state = "none"
    BY DEF WriteRecord, deletionVars, IInv, TypeOK, DeletionTypeOK
  <1>2. rec' \in [Records -> Record]
    BY <1>1 DEF WriteRecord, IInv, TypeOK, Record
  <1>3. \A y \in ret.ids : rec'[y] = rec[y]
    BY <1>1 DEF WriteRecord, IInv, TypeOK, RetentionInv, SelectedAreOld
  <1>4. TypeOK'
    BY <1>1, <1>2 DEF IInv, TypeOK, DeletionInv
  <1>5. RetentionInv'
    BY <1>1, <1>3 DEF IInv, RetentionInv, SelectionRuns, SelectedAreOld,
                      SelectedHeldIsLate, HasActiveLegalHold
  <1>6. QED
    BY <1>4, <1>5 DEF IInv

(* Every step keeps the invariant. *)
LEMMA NextInv == IInv /\ [Next]_vars => IInv'
  <1> SUFFICES ASSUME IInv, [Next]_vars PROVE IInv'
    OBVIOUS
  <1>1. DeletionInv'
    BY DeletionInvKept DEF IInv
  <1>2. CASE UNCHANGED vars
    BY <1>1, <1>2 DEF vars, IInv, TypeOK, DeletionInv, RetentionInv, SelectionRuns,
                      SelectedAreOld, SelectedHeldIsLate, HasActiveLegalHold
  <1>3. CASE Next
    BY <1>1, <1>3, KeepingStep, HoldStep, RemoveStep, JobPhaseSteps, WriteStep DEF Next
  <1>4. QED
    BY <1>2, <1>3

(* The inductive invariant of the two jobs together. *)
THEOREM Invariance == Spec => []IInv
  BY InitInv, NextInv, PTL DEF Spec

(* Rows and jobs keep their shapes. *)
THEOREM TypeCorrect == Spec => []TypeOK
  <1>1. IInv => TypeOK
    BY DEF IInv
  <1>2. QED
    BY <1>1, Invariance, PTL

-----------------------------------------------------------------------------

(* Two account deletion jobs never overlap beside the retention job either. *)
THEOREM JobsStillExclude == Spec => []OneJobAtATime
  <1>1. IInv => OneJobAtATime
    BY DEF IInv, DeletionInv, LockHeld, OneJobAtATime
  <1>2. QED
    BY <1>1, Invariance, PTL

(* A row that is anonymised or deleted while no account is removed is one    *)
(* that a phase of the retention job had selected, with the limit of that    *)
(* phase.                                                                    *)
LEMMA TouchedIsSelected ==
  ASSUME IInv, [Next]_vars, NEW x \in Records,
         rec'[x].state # rec[x].state,
         rec'[x].state \in {"anonymized", "deleted"},
         rec'[x].state = "deleted" => UNCHANGED users
  PROVE  /\ x \in ret.ids
         /\ rec'[x].state = IF Deletes(ret.phase) THEN "deleted" ELSE "anonymized"
  <1>1. rec \in [Records -> Record]
    BY DEF IInv, TypeOK
  <1>2. CASE ProcessIds
    BY <1>1, <1>2 DEF ProcessIds, Anonymized, Record
  <1>3. CASE UNCHANGED rec
    BY <1>3
  <1>4. CASE FinishRetention \/ \E y \in Records, u \in Users : WriteRecord(y, u)
    BY <1>1, <1>4 DEF FinishRetention, WriteRecord
  <1>5. CASE \E j \in Jobs : RemoveAccount(j)
    <2>1. PICK j \in Jobs : RemoveAccount(j)
      BY <1>5
    <2>2. job[j].user \in Users /\ users[job[j].user].status = "deleted"
      BY <2>1 DEF RemoveAccount, PhysicallyDeleteUser, IInv, DeletionInv,
                  SelectedStayDue, IsDue
    <2>3. ~ UNCHANGED users
      BY <2>1, <2>2 DEF RemoveAccount, PhysicallyDeleteUser, IInv, TypeOK,
                        DeletionTypeOK, Account
    <2>4. rec'[x].state \in {rec[x].state, "deleted"}
      BY <1>1, <2>1 DEF RemoveAccount, Cascade, Record
    <2>5. QED
      BY <2>3, <2>4
  <1>6. QED
    BY <1>2, <1>3, <1>4, <1>5
    DEF Next, vars, retentionVars, Hold, StartRetention, RetentionStep, SelectIds,
        FailRetention

(* runDataRetention touches a row only when it is older than the limit of    *)
(* what is done to it, however late after the SELECT that is.                *)
THEOREM YoungAreKept == Spec => YoungRowsKept
  <1> DEFINE Step == \A x \in Records :
        /\ (rec[x].state = "full" /\ rec'[x].state = "anonymized") =>
              rec[x].date + AnonymizeAfter < now
        /\ (rec[x].state # "deleted" /\ rec'[x].state = "deleted"
             /\ UNCHANGED users) => rec[x].date + DeleteAfter < now
  <1>1. ASSUME IInv, [Next]_vars PROVE Step
    <2> SUFFICES ASSUME NEW x \in Records, rec'[x].state # rec[x].state,
                        rec'[x].state \in {"anonymized", "deleted"},
                        rec'[x].state = "deleted" => UNCHANGED users
                 PROVE  rec[x].date + (IF rec'[x].state = "deleted"
                                         THEN DeleteAfter ELSE AnonymizeAfter) < now
      OBVIOUS
    <2>1. x \in ret.ids /\ rec'[x].state = IF Deletes(ret.phase) THEN "deleted" ELSE "anonymized"
      BY <1>1, TouchedIsSelected
    <2>2. rec[x].date + Age(ret.phase) < ret.asOf /\ ret.asOf <= now
      BY <1>1, <2>1 DEF IInv, RetentionInv, SelectedAreOld, SelectionRuns
    <2>3. rec[x].date \in Nat /\ ret.asOf \in Nat /\ now \in Nat
      BY <1>1 DEF IInv, TypeOK, Record, RetentionJob, DeletionTypeOK
    <2>4. Age(ret.phase) = IF rec'[x].state = "deleted" THEN DeleteAfter ELSE AnonymizeAfter
      BY <2>1 DEF Age
    <2>5. QED
      BY <2>2, <2>3, <2>4, AgeType
  <1>2. IInv /\ [Next]_vars => [Step]_rec
    BY <1>1
  <1>3. QED
    BY <1>2, Invariance, PTL DEF Spec, YoungRowsKept

(* A row that names a held user is touched only when the hold came after the *)
(* SELECT that picked the row.                                               *)
THEOREM HeldRowsAreKept == Spec => HoldKeepsRows
  <1> DEFINE Step == \A x \in Records :
        (/\ rec'[x].state # rec[x].state
         /\ rec'[x].state \in {"anonymized", "deleted"}
         /\ rec[x].owner # NoUser
         /\ UNCHANGED users
         /\ HasActiveLegalHold(rec[x].owner)) => x \in lateRows
  <1>1. ASSUME IInv, [Next]_vars PROVE Step
    BY <1>1, TouchedIsSelected DEF IInv, RetentionInv, SelectedHeldIsLate
  <1>2. IInv /\ [Next]_vars => [Step]_rec
    BY <1>1
  <1>3. QED
    BY <1>2, Invariance, PTL DEF Spec, HoldKeepsRows

=============================================================================
