SPECIFICATION FairSpec
CONSTANTS
  d1 = d1
  d2 = d2
  r1 = r1
  None = None
  Dispatches = {d1, d2}
  Runs = {r1}
  Faults = {"disk", "reply", "kill", "source", "writer", "provider"}
  MaxCommits = 5
INVARIANTS DispatchSound
PROPERTIES LifecycleSpec DispatchEnds
CHECK_DEADLOCK FALSE
