SPECIFICATION FairSpec
CONSTANTS
  Config <- ThreeDrivers
  MaxRetries = 2
  EagerSim = FALSE
INVARIANTS
  TypeOK
  CommandMeansReachable
  MisuseOnlyInLateTeardown
  ResultMatchesControl
PROPERTIES
  InitReturns
\* The component is gone in the end, and its simulator may be silent.
CHECK_DEADLOCK FALSE
