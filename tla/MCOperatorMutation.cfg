\* Two processes over one durable ledger, each bound to the database or the fallback.
SPECIFICATION FairSpec
CONSTANTS
  p1 = p1 p2 = p2 t1 = t1 t2 = t2 t3 = t3 k1 = k1 k2 = k2 b1 = b1 b2 = b2
  s1 = s1 s2 = s2 chain = chain
  Procs = {p1, p2}
  Threads = {t1, t2, t3}
  Home <- TwoProcs
  Operators = {t3}
  Keys = {k1}
  Bodies = {b1, b2}
  LiveBodies = {b2}
  Stores = {s1, s2}
  Ledgers = {chain}
  LedgerOf <- SharedChain
  Durable = {chain}
  NoBody = NoBody
  NoReceipt = NoReceipt
  MaxRequests = 2
  MaxFaults = 2
INVARIANTS MutationSound OneReceiptPerKey AnswersAgree
PROPERTIES ContractSpec StagedIsCompleted
CHECK_DEADLOCK FALSE
