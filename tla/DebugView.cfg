\* One comparator, two watchpoint units; a program that runs once, one failure.
SPECIFICATION Spec
CONSTANTS
  Sessions <- MCSessions
  Regions <- MCRegions
  Data = {u, v}
  Comparators = 1
  WatchUnits = 2
  MaxRuns = 1
  MaxFaults = 1
  Bkpt = bkpt
SYMMETRY DataSymmetry
INVARIANTS ViewIsStored ReadIsStored StopsWhereAsked RegistersAreCores
