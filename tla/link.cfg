SPECIFICATION Spec
CONSTANTS
    ByteBits = 2
    BYTES_RS = 2
    Wrap = 256
    Ticks = 4
    Jitter = 1
    MaxPeriods = 60
    BusyMax = 8
    MaxGlitches = 1
    Setups <- MCSetups
    MissedMax = 4
INVARIANTS
    MissesFew
PROPERTIES
    LocksOnPreamble
    ReadsWhatWasSent
    KeepsReceiving
