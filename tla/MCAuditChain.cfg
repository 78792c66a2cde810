\* Two processes over one SQLite file.
SPECIFICATION Spec
CONSTANTS
  c1 = c1 c2 = c2 c3 = c3
  Conns = {c1, c2}
  MaxEvents = 4
  MaxReads = 1
  MaxFaults = 1
SYMMETRY Symmetry
INVARIANTS ChainSound ReadsSound
PROPERTIES CanonicalSpec
CHECK_DEADLOCK FALSE
