SPECIFICATION Spec
CONSTANTS
  Config <- Clash
  MaxRetries = 1
  EagerSim = TRUE
INVARIANTS
  NoOrphanThread
  TeardownIsComplete
  OnlyLateWritersAreNull
\* The component is gone in the end, and its simulator may be silent.
CHECK_DEADLOCK FALSE
