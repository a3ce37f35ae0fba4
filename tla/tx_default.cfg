SPECIFICATION Spec
CONSTANTS
    Messages <- MCMessages
    FrameBits <- MCFrameBits
    Hello = "hello"
    RgbMessages <- MCColours
    UartMessages <- NoMessages
    NumberOfMessages = 2
    Infinite = TRUE
    NrPulses = 4
    LineDuringBuild = FALSE
    Button = TRUE
    TimerFirst = FALSE
    Slots = 7
    CounterMod = 5
INVARIANTS
    FramesWholeInEitherPolarity
PROPERTIES
    KeepsSending
