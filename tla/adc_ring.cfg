SPECIFICATION Spec
CONSTANTS
    BufSiz = 5
    Pins <- MCPins
    Lag = 1
    Reach = 4
    Asked = 5
    OnTime = TRUE
INVARIANTS
    MeasuresReturnedOnce
    ReadsAreFresh
    IsMeasuresAgrees
    MissesOnlyUnfilled
