SPECIFICATION LogSpec
CONSTANTS
    ByteBits = 2
    BYTES_RS = 1
    Wrap = 6
    Ticks = 4
    Jitter = 1
    MaxPeriods = 10
    BusyMax = 1
    MaxGlitches = 1
    PAYLOAD_COUNTS = 2
    WANTED_PAYLOAD <- MCWanted
    WantedParity <- MCParity
INVARIANTS
    ReceiverTypeOK
    DecodedFits
    SearchStartsClean
    LogFits
    CountsWrongBits
