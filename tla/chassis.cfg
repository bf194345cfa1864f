SPECIFICATION Spec
CONSTANTS
  Commands <- FullThrottleLeft
  Longitudes <- FewDegrees
  PerUnit = 100
  SteerSign <- RightIsNegative
  MaxCommands = 1
  Nothing = Nothing
INVARIANTS
  ChassisAsDocumented
