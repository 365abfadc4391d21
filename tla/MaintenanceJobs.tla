--------------------------- MODULE MaintenanceJobs ---------------------------
(***************************************************************************)
(* The account deletion and the data retention job together: both read the *)
(* legal holds, and removing an account changes the rows retention works   *)
(* on.                                                                     *)
(***************************************************************************)
EXTENDS DataRetention

vars == <<users, hold, req, job, lock, lateHold, now, faults, rec, ret, lateRows>>

Init == DeletionInit /\ RetentionInit

RemoveAccount(j) ==
    /\ PhysicallyDeleteUser(j)
    /\ Cascade(job[j].user)
    /\ UNCHANGED <<ret, lateRows>>

Hold(u, e) ==
    /\ PlaceHold(u, e)
    /\ lateRows' = lateRows \union {x \in ret.ids : rec[x].owner = u}
    /\ UNCHANGED <<rec, ret>>

Next ==
    \/ Keeping /\ UNCHANGED retentionVars
    \/ \E u \in Users, e \in {now + 1, Forever} : Hold(u, e)
    \/ \E j \in Jobs : RemoveAccount(j)
    \/ StartRetention
    \/ RetentionStep
    \/ FailRetention
    \/ \E x \in Records, u \in Users : WriteRecord(x, u)

Spec == Init /\ [][Next]_vars

(* A retention job that was started goes on: its awaited statements resolve. *)
FairSpec == Spec /\ WF_vars(RetentionStep)

-----------------------------------------------------------------------------
(* Properties. *)

(* Both jobs' state keeps its shape. *)
TypeOK ==
    /\ DeletionTypeOK
    /\ rec \in [Records -> Record]
    /\ ret \in RetentionJob
    /\ lateRows \subseteq Records

(* The retention job touches no row before it is old enough by the time it   *)
(* is touched, in any phase and however late after it was selected.          *)
YoungRowsKept ==
    [][\A x \in Records :
        /\ (rec[x].state = "full" /\ rec'[x].state = "anonymized") =>
              rec[x].date + AnonymizeAfter < now
        /\ (rec[x].state # "deleted" /\ rec'[x].state = "deleted"
             /\ UNCHANGED users) => rec[x].date + DeleteAfter < now]_rec

(* A row that still names a user under a legal hold is neither anonymised    *)
(* nor deleted, unless the hold came after the job had selected the row.     *)
HoldKeepsRows ==
    [][\A x \in Records :
        (/\ rec'[x].state # rec[x].state
         /\ rec'[x].state \in {"anonymized", "deleted"}
         /\ rec[x].owner # NoUser
         /\ UNCHANGED users
         /\ HasActiveLegalHold(rec[x].owner)) => x \in lateRows]_rec

(* The loop that anonymises sessions comes to an end: every chunk takes its  *)
(* rows out of its own query.                                                *)
SessionLoopEnds == (ret.phase = 1) ~> (ret.phase # 1)

(* README.md:337: the anonymising phases are followed by the deleting ones,  *)
(* so a job that was started completes.                                      *)
RetentionCompletes == (ret.phase # 0) ~> (ret.phase = 0)

=============================================================================
