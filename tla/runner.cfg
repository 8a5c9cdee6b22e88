CONSTANTS
  Callers = {c1, c2, c3}
  Restarters = {b1}
  Projects = {p1, p2, p3}
  NoProject = noproject
  NoCaller = nocaller
  Cap = 2
SPECIFICATION RunnerFairSpec
INVARIANT RunnerTypeOK
PROPERTIES ImplementsSlots CallsReturn
