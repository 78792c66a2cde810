\* Two processes emit receipts of one mutation (with two payloads) and others.
SPECIFICATION FairLedgerSpec
CONSTANTS
  p1 = p1 p2 = p2 
  Servers = {p1, p2}
  Keys = {k1}
  NoKey = NoKey
  Materials = {m1, m2}
  MaxEmissions = 2
  MaxBreakdowns = 2
INVARIANTS LedgerSound OneReceiptPerMutation
PROPERTIES ReceiptsSpec 
CHECK_DEADLOCK FALSE
