\* Two payloads and lost disks; one unfit payload and single posts; two peers and two loop threads.
SPECIFICATION KhipuSpec
CONSTANTS
  a = a b = b u = u t1 = t1 t2 = t2 c1 = c1
  None = None
  Loops = {t1, t2}
  Callers = {c1}
  Peers <- TwoPeers
  EnabledAtStart = TRUE
  Outcomes = {"acknowledged", "unauthorized", "unknown"}
  MaxReceipts = 2
  MaxGrants = 1
  Bodies = {a, b, u}
  Unfit = {u}
  Limit = 2
  DirectPosts = TRUE
  MaxAppends = 3
  MaxFaults = 3
INVARIANTS DeliverySound LoopSound
PROPERTIES ReplicationSpec DisableHolds ReceiptsArrive
CHECK_DEADLOCK FALSE
