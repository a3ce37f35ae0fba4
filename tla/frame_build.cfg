SPECIFICATION Spec
CONSTANTS
    ByteBits = 2
    ParityBytes = 2
    MaxPayload = 2
    BlockLength = 5
    Payloads <- MCPayloads
    Parities <- AnyParity
    LineEnds = {3}
    Chunks <- MCChunks
    Below = 2
INVARIANTS
    OnlyPreambleHasRunsOfThree
    FrameReadsBack
    FrameHoldsTypedText
