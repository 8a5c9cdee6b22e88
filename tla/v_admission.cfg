CONSTANTS
  Tenants = {t1}
  Sites = {s1, s2}
  Requests = {r1}
  Keys <- SmallKeys
  MemTotalKB <- JustBelowFour
SPECIFICATION AdmissionSpec
SYMMETRY IdSymmetry
INVARIANT NotOvercommitted
