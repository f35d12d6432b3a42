SPECIFICATION FairSpec
CONSTANTS
  None = None
  Broker = broker
  Stores = {a, b, c}
  Runners = {broker, cli}
  MaxKeys = 3
  MaxCrashes = 2
  MaxFaults = 2
  Together <- CrashOrFault
INVARIANTS TypeOK NoStoreLost CurrentKeyOpensAll
PROPERTIES CommittedKeyOpensAll RunsEnd RotationEnds
