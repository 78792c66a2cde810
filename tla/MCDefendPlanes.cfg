\* The first root with approvals; the second with two agents, with one key, and with every fault.
SPECIFICATION PlaneSpec
CONSTANTS
  a1 = a1 a2 = a2 s1 = s1 s2 = s2 k1 = k1 k2 = k2 b1 = b1 b2 = b2 r1 = r1 h1 = h1 h2 = h2 h3 = h3
  Agents = {a1, a2}
  Scopes = {s1, s2}
  Keys = {k1, k2}
  Bodies = {b1, b2}
  ValidBodies = {b1}
  Requests = {r1}
  Humans = {h1, h2, h3}
  HighBlast = {s1}
  Solo = FALSE
  ConflictWindow = 1
  ApprovalTTL = 1
  KeyTTL = 0
  Minute = 2
  RateLimit = 2
  MaxTime = 2
  MaxCalls = 3
  MaxEvents = 4
  Faults = {"effector", "store", "chain", "crash"}
  MaxFaults = 2
SYMMETRY Symmetry
INVARIANTS  StopsHold GuardHolds
PROPERTY TerminalIsFinal
CHECK_DEADLOCK FALSE
