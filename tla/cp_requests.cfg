CONSTANTS
  Tenants = {t1}
  Sites = {}
  Tsdb = tsdb
  NoId = noid
  Shared = shared
  Requests = {r1, r2}
  Triggers = {g1}
  Loop = loop
  ConfigHash <- DistinctHashes
  Ops = {"createTenant", "stopTenant", "startTenant", "applyUnknown"}
  Rungs = 1
  MaxOps = 3
  MaxFaults = 0
SPECIFICATION FairSpec
PROPERTIES RunningConverges StoppedConverges RequestsEnd
