SPECIFICATION FairSpec
CONSTANTS
  None = None
  MaxEvents = 2
  MaxLosses = 1
  MaxCrashes = 1
  Losses = {"tail", "row", "altered", "hook"}
  CliRaces = FALSE
INVARIANTS TypeOK UnrecordedIsReported RecordedOnce
PROPERTIES RefusesWhileBroken BreaksAreRecorded
