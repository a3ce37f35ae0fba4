SPECIFICATION FairSpec
CONSTANTS
    BufSiz = 3
    Pins <- MCPair
    Lag = 1
    Reach = 2
    Asked = 3
    OnTime = FALSE
INVARIANTS
    TypeOK
    PairsSampledOnce
    MeasuresReturnedOnce
PROPERTIES
    CallsReturn
