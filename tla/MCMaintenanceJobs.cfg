SPECIFICATION FairSpec
CONSTANTS
  Users = {u1}
  Requests = {r1}
  Jobs = {j1}
  NoUser = NoUser
  NoJob = NoJob
  Broken = {}
  GracePeriod = 0
  ChunkSize = 1
  MaxTime = 2
  MaxFaults = 1
  SessionRows = {x1}
  Events = {}
  Logs = {x2}
  AnonymizeAfter = 0
  DeleteAfter = 1
INVARIANTS
  TypeOK
PROPERTIES
  YoungRowsKept
  HoldKeepsRows
  SessionLoopEnds
