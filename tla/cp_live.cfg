CONSTANTS
  Tenants = {t1}
  Sites = {s1}
  Tsdb = tsdb
  NoId = noid
  Shared = shared
  Requests = {r1}
  Triggers = {g1}
  Loop = loop
  ConfigHash <- DistinctHashes
  Ops = {"createTenant", "createSite", "patchSite", "stopSite", "startSite"}
  Rungs = 1
  MaxOps = 3
  MaxFaults = 1
SPECIFICATION FairSpec
PROPERTIES RunningConverges StoppedConverges ConfigConverges
