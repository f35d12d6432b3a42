SPECIFICATION BusySpec
CONSTANTS
  None = None
  MaxEvents = 2
  MaxLosses = 1
  MaxCrashes = 0
  Losses = {"tail"}
  CliRaces = FALSE
PROPERTY ResealIsNoticed
