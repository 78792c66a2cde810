\* Two requests for one key.
SPECIFICATION FairSpec
CONSTANTS
  Requests = {r1, r2}
  r1 = r1
  r2 = r2
  None = None
  Ttl = 2
  ColdWait = 1
  WaitTimeout = 2
  MaxFetch = 3
  MaxTime = 5
CHECK_DEADLOCK FALSE
INVARIANT FeedSound
PROPERTIES NeverOlder Answered
