\* Two drivers, two runs, a claim lifetime of two ticks.
SPECIFICATION Spec
CONSTANTS
  d1 = d1
  d2 = d2
  r1 = r1
  r2 = r2
  Drivers = {d1, d2}
  Runs = {r1, r2}
  Nobody = Nobody
  Stale = 2
  MaxClock = 6
SYMMETRY Symmetry
INVARIANT SoleBeliever
PROPERTIES
  ReleaseFreesSlot
  ImplementsExclusiveSlot
