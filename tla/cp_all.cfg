CONSTANTS
  Tenants = {t1}
  Sites = {s1}
  Tsdb = tsdb
  NoId = noid
  Shared = shared
  Requests = {r1}
  Triggers = {g1}
  Loop = loop
  ConfigHash <- DistinctHashes
  Ops = {"createTenant", "createSite", "patchTenant", "patchSite", "startTenant", "stopTenant", "startSite", "stopSite", "rmTenant", "purgeTenant", "rmSite", "purgeSite", "apply"}
  Rungs = 1
  MaxOps = 3
  MaxFaults = 1
SPECIFICATION Spec
INVARIANTS TypeOK NoHiddenDrift OwnComposeFile
PROPERTY ImplementsRollout
