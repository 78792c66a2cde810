\* Two processes over one repository, with a queue each or one between them.
SPECIFICATION MCSpec
CONSTANTS
  p1 = p1 p2 = p2 q1 = q1 q2 = q2 i1 = i1 i2 = i2
  Procs = {p1, p2}
  Queues = {q1, q2}
  QueueOf <- OwnQueues
  Ids = {i1, i2}
  LastDay = 2
  MaxRetries = 2
  MaxAppends = 2
  MaxReadAlls = 0
  MaxFailures = 2
INVARIANTS BucketSound
PROPERTIES ArchiveSpec AllStored
CHECK_DEADLOCK FALSE
