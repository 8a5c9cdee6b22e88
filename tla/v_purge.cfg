CONSTANTS
  Tenants = {t1}
  Sites = {}
  Tsdb = tsdb
  NoId = noid
  Shared = shared
  Requests = {r1}
  Triggers = {g1}
  Loop = loop
  ConfigHash <- DistinctHashes
  Ops = {"createTenant", "purgeTenant"}
  Rungs = 1
  MaxOps = 2
  MaxFaults = 0
SPECIFICATION FairSpec
PROPERTY PurgeStopsContainers
