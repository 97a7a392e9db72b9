\* All kinds of chips, any number of tasks and connections one after the other.
SPECIFICATION SetupSpec
INVARIANTS
  VectorCatchOff
  RunsAfterClose
  FreshlyReset
  FaultlessIsReady
