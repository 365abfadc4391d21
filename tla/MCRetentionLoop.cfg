SPECIFICATION FairSpec
CONSTANTS
  Users = {u1}
  Requests = {}
  Jobs = {}
  NoUser = NoUser
  NoJob = NoJob
  Broken = {}
  GracePeriod = 0
  ChunkSize = 1
  MaxTime = 2
  MaxFaults = 0
  SessionRows = {x1}
  Events = {x2}
  Logs = {x3}
  AnonymizeAfter = 0
  DeleteAfter = 1
PROPERTIES
  RetentionCompletes
