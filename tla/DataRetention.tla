---------------------------- MODULE DataRetention ----------------------------
(***************************************************************************)
(* The data retention job: six phases, each of which selects a chunk of    *)
(* expired rows, processes it and selects again until nothing is left.     *)
(* Three phases anonymise sessions, security events and audit logs, three  *)
(* delete them.  Accounts, holds and the clock are those of module         *)
(* AccountDeletion.  The job runs under an advisory lock of its own, so     *)
(* there is one at a time.                                                 *)
(***************************************************************************)
EXTENDS AccountDeletion, Sequences

CONSTANTS
    SessionRows, Events, Logs,  \* rows of the three tables
    AnonymizeAfter,             \* RETENTION_*_ANONYMIZE_DAYS, in ticks
    DeleteAfter                 \* RETENTION_*_DELETE_DAYS, in ticks

(* env.ts refuses a configuration that would delete before it anonymises *)
ASSUME RetentionAssumption ==
    /\ AnonymizeAfter \in Nat /\ DeleteAfter \in Nat
    /\ AnonymizeAfter <= DeleteAfter
    /\ SessionRows \intersect Events = {}
    /\ (SessionRows \union Events) \intersect Logs = {}

VARIABLES
    rec,                \* the rows
    ret,                \* the retention job
    lateRows            \* history: rows whose owner came under a hold after
                        \* the job had selected them

retentionVars == <<rec, ret, lateRows>>

-----------------------------------------------------------------------------
Records == SessionRows \union Events \union Logs

(* date: createdAt, for a session the moment its refresh token expired *)
Record == [state : {"none", "full", "anonymized", "deleted"},
           owner : Users \union {NoUser}, date : Nat]

NoRecord == [state |-> "none", owner |-> NoUser, date |-> 0]

(* phase 0: not running; 7: every phase done, the summary still to be logged *)
RetentionJob == [phase : 0..7, ids : SUBSET Records, asOf : Nat]

IdleRetention == [phase |-> 0, ids |-> {}, asOf |-> 0]

RetentionInit ==
    /\ rec = [x \in Records |-> NoRecord]
    /\ ret = IdleRetention
    /\ lateRows = {}

-----------------------------------------------------------------------------
(* What the phases select. *)

PhaseRows == <<SessionRows, Events, Logs, SessionRows, Events, Logs>>

Deletes(p) == p > 3

(* mutant of Age: the deleting phases use the shorter limit *)
AgeShort(p) == IF p \in 1..6 THEN AnonymizeAfter ELSE DeleteAfter

Age(p) == IF Deletes(p) THEN DeleteAfter ELSE AnonymizeAfter

(* mutant of HeldAsOf: events and logs are not joined with the holds *)
HeldSessionsOnly(x) ==
    x \in SessionRows /\ rec[x].owner # NoUser /\ hold[rec[x].owner] > ret.asOf

(* the LEFT JOIN with active holds, as of the start of the job *)
HeldAsOf(x) == rec[x].owner # NoUser /\ hold[rec[x].owner] > ret.asOf

(* mutant of StillMatches: sessions have nothing that takes them out again *)
StillMatchesAlways(p, x) == p \in 1..6 /\ x \in Records

(* only the sessions' anonymising query leaves out the rows already done *)
StillMatches(p, x) == p = 1 => rec[x].state = "full"

Selected(p) ==
    {x \in PhaseRows[p] :
        /\ rec[x].state \in {"full", "anonymized"}
        /\ rec[x].date + Age(p) < ret.asOf
        /\ ~HeldAsOf(x)
        /\ StillMatches(p, x)}

-----------------------------------------------------------------------------
(* Steps of the job. *)

StartRetention ==
    /\ ret.phase = 0
    /\ ret' = [phase |-> 1, ids |-> {}, asOf |-> now]
    /\ UNCHANGED <<rec, lateRows>>
    /\ UNCHANGED deletionVars

(* selectIds, and the end of the loop when it returns nothing *)
SelectIds ==
    /\ ret.phase \in 1..6 /\ ret.ids = {}
    /\ \/ /\ Selected(ret.phase) # {}
          /\ \E c \in Chunks(Selected(ret.phase)) : ret' = [ret EXCEPT !.ids = c]
       \/ /\ Selected(ret.phase) = {}
          /\ ret' = [ret EXCEPT !.phase = @ + 1]
    /\ lateRows' = {}
    /\ UNCHANGED rec
    /\ UNCHANGED deletionVars

(* mutant of Anonymized: the row's own id is taken for the erased user *)
AnonymizedBySelf(x) ==
    [rec[x] EXCEPT !.state = "anonymized", !.owner = x]

(* sessions lose address and user agent; events and logs lose their user too *)
Anonymized(x) ==
    [rec[x] EXCEPT !.state = "anonymized",
                   !.owner = IF x \in SessionRows THEN @ ELSE NoUser]

(* processIds: UPDATE or DELETE by id, whatever happened to the rows since *)
ProcessIds ==
    /\ ret.ids # {}
    /\ rec' = [x \in Records |->
                 IF x \notin ret.ids \/ rec[x].state = "deleted" THEN rec[x]
                 ELSE IF Deletes(ret.phase) THEN [rec[x] EXCEPT !.state = "deleted"]
                 ELSE Anonymized(x)]
    /\ ret' = [ret EXCEPT !.ids = {}]
    /\ UNCHANGED lateRows
    /\ UNCHANGED deletionVars

(* system.retention.execute is a row of audit_logs itself *)
FinishRetention ==
    /\ ret.phase = 7
    /\ IF \E x \in Logs : rec[x].state = "none"
         THEN \E x \in Logs : /\ rec[x].state = "none"
                              /\ rec' = [rec EXCEPT ![x] =
                                    [state |-> "full", owner |-> NoUser, date |-> now]]
         ELSE UNCHANGED rec
    /\ ret' = IdleRetention
    /\ UNCHANGED lateRows
    /\ UNCHANGED deletionVars

(* an error in any statement ends the job; what was processed stays processed *)
FailRetention ==
    /\ ret.phase # 0
    /\ faults < MaxFaults
    /\ faults' = faults + 1
    /\ ret' = IdleRetention
    /\ UNCHANGED <<rec, lateRows, users, hold, req, job, lock, lateHold, now>>

RetentionStep == SelectIds \/ ProcessIds \/ FinishRetention

-----------------------------------------------------------------------------
(* What the rest of the system does to the rows. *)

WriteRecord(x, u) ==
    /\ rec[x].state = "none"
    /\ users[u].status # "gone"
    /\ rec' = [rec EXCEPT ![x] = [state |-> "full", owner |-> u, date |-> now]]
    /\ UNCHANGED <<ret, lateRows>>
    /\ UNCHANGED deletionVars

(* the foreign keys: sessions go with their user, the others lose the link *)
Cascade(u) ==
    rec' = [x \in Records |->
              IF rec[x].owner # u THEN rec[x]
              ELSE IF x \in SessionRows THEN [rec[x] EXCEPT !.state = "deleted"]
              ELSE [rec[x] EXCEPT !.owner = NoUser]]

=============================================================================
