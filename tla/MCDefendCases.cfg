\* The cases of the Defend plane and the passive reads of their store.
SPECIFICATION MCSpec
CONSTANTS
  e1 = e1
  i1 = i1
  b1 = b1
  b2 = b2
  ana = ana
  cruz = cruz
  dee = dee
  p1 = p1
  p2 = p2
  None = None
  Events = {e1}
  Inspections = {i1}
  ScopeOf <- TwoScopes
  Bodies = {b1, b2}
  Requester <- MCRequester
  People = {ana, cruz, dee}
  Approvers = {cruz, dee}
  Procs = {p1, p2}
  EventTtl = 1
  InspectionTtl = 1
  LockWait = 1
  MaxTime = 2
  MaxReceipts = 4
  Pages = {a, b}
  a = a
  b = b
  Writers = {w1, w2}
  w1 = w1
  w2 = w2
  Readers = {r1}
  r1 = r1
  MaxCommits = 3
INVARIANTS CasesSound ReadSound
PROPERTY CasesMove
