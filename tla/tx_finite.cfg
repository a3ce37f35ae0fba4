SPECIFICATION Spec
CONSTANTS
    Messages <- MCMessages
    FrameBits <- MCFrameBits
    Hello = "hello"
    RgbMessages <- MCColours
    UartMessages <- NoMessages
    NumberOfMessages = 2
    Infinite = FALSE
    NrPulses = 4
    LineDuringBuild = FALSE
    Button = FALSE
    TimerFirst = TRUE
    Slots = 7
    CounterMod = 5
INVARIANTS
    TypeOK
    FramesSpellMessages
    FrameStartsOnRightSymbol
    ScheduleIsOneMessage
    CompareNeverZero
PROPERTIES
    GapLongEnough
    MessageSentNTimes
    MessagesReachTheAir
    ImplementsFrameSource
