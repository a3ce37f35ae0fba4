SPECIFICATION Spec
CONSTANTS
    ByteBits = 2
    ParityBytes = 2
    MaxPayload = 2
    BlockLength = 5
    Payloads <- NoZeros
    Parities <- AnyParity
    LineEnds = {3}
    Chunks = {}
    Below = 2
INVARIANTS
    FrameHoldsMessageAndParity
