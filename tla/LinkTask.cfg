\* A RISC-V target; every combination of clicks, dialogs and failures.
CONSTANT RiscV = TRUE
SPECIFICATION WindowSpec
INVARIANTS
  AtRest
  WorkerHasLink
  ClashOnlyReentered
CHECK_DEADLOCK FALSE
