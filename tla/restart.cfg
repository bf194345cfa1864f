SPECIFICATION Spec
CONSTANTS
  Bridges <- TwoBridges
  Backlog = 1
  MaxFds = 4
  MaxRetries = 1
  SendBuffer = 1
  MaxSims = 2
  MaxCommands = 2
INVARIANTS
  TypeOK
  ReachableUnlessOverlap
  BindFailsOnlyInOverlap
  NoCommandLost
PROPERTIES
  CommandsAreReliableUntilLost
  ExhaustedForGood
  RestartedSimulatorStaysLost
\* The bridges and simulators there are may all be gone.
CHECK_DEADLOCK FALSE
