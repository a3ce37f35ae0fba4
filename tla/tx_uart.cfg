SPECIFICATION Spec
CONSTANTS
    Messages <- MCWithLines
    FrameBits <- MCLineFrameBits
    Hello = "hello"
    RgbMessages <- MCColours
    UartMessages <- MCLines
    NumberOfMessages = 2
    Infinite = TRUE
    NrPulses = 4
    LineDuringBuild = FALSE
    Button = FALSE
    TimerFirst = TRUE
    Slots = 7
    CounterMod = 5
INVARIANTS
    ScheduleIsOneMessage
PROPERTIES
    GapLongEnough
    ZeroOnlyForLongerLine
