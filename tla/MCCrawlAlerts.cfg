SPECIFICATION MCSpec
CONSTANTS
  loop = loop m1 = m1 w1 = w1 absent = absent
  Loop = loop
  CrawlRequests = {m1}
  Watchlists = {w1}
  Kinds <- AllKinds
  Readings <- AllReadings
  Absent = absent
  Configs <- AllConfigs
  Faults = {"feed", "database", "disk", "network", "crash"}
  MaxIds = 2
  MaxFetches = 3
  MaxEvents = 3
INVARIANTS PagesSound 
 
CHECK_DEADLOCK FALSE
