SPECIFICATION DeletionFairSpec
CONSTANTS
  Users = {u1, u2, u3}
  Requests = {r1, r2}
  Jobs = {j1, j2}
  NoUser = NoUser
  NoJob = NoJob
  Broken = {u3}
  GracePeriod = 1
  ChunkSize = 2
  MaxTime = 1
  MaxFaults = 1
INVARIANTS
  OneJobAtATime
PROPERTIES
  DeadlineKept
  RemovedOnlyWhenDue
  HoldKeepsAccount
  DueIsRemoved
