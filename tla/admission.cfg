CONSTANTS
  Tenants = {t1, t2, t3, t4, t5}
  Sites = {s1, s2}
  Requests = {r1, r2}
  Keys <- MixedKeys
  MemTotalKB <- JustBelowFour
SPECIFICATION AdmissionSpec
SYMMETRY IdSymmetry
INVARIANTS AdmissionTypeOK OvershootBounded SitesProfiled
