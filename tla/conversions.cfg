SPECIFICATION Spec
CONSTANTS
  Commands <- SomeCommands
  Longitudes <- Degrees
  PerUnit = 100
  SteerSign <- RightIsNegative
  MaxCommands = 2
  Nothing = Nothing
INVARIANTS
  FeedbackMatchesCommand
  OrientationMatchesAngles
  ZoneCoversLongitude
  FieldsReadAsWritten
  CommandUnderstood
