\* Two builders over one database; two processes that embed; one recovery operation.
SPECIFICATION MCSpec
CONSTANTS
  server = server cron = cron r1 = r1 r2 = r2 d1 = d1 d2 = d2
  Procs = {server, cron}
  Calls = {r1, r2}
  ProcOf <- MCServed
  MaxCrashes = 1
  Faults = {}
  MaxGens = 7
  Digests <- MCDigests
  Actors = {"operator", "other"}
  Long = {"original"}
  Timeout = 1
  MaxAttempts = 2
  MaxClock = 2
  MaxDeaths = 1
  Stores <- MCStores
  Builders = TRUE
INVARIANTS GenerationsSound RecoverySound
PROPERTIES  WorkEnds
CHECK_DEADLOCK FALSE
