SPECIFICATION Spec
CONSTANTS
    Messages <- MCMessages
    FrameBits <- MCFrameBits
    Hello = "hello"
    RgbMessages <- MCColours
    UartMessages <- MCColours
    NumberOfMessages = 2
    Infinite = TRUE
    NrPulses = 4
    LineDuringBuild = FALSE
    Button = FALSE
    TimerFirst = TRUE
    Slots = 7
    CounterMod = 5
INVARIANTS
    FrameStartsOnRightSymbol
