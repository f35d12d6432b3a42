SPECIFICATION FairSpec
CONSTANTS
    Asks = {a1}
    Deciders = {d1, d2}
    Host = Host
    Gate = Gate
    None = None
    Faults = {"put", "take", "report"}
    OthersPoll = TRUE
    MaxStarts <- OneEach
CHECK_DEADLOCK FALSE
INVARIANTS
    DecidedHappened
    SweptIsRetracted
    RowIsTrue
PROPERTIES
    RelayLetsGo
