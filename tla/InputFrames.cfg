SPECIFICATION InputSpec
CONSTANTS
    QSize = 2
    IdxMod = 4
    Events <- SomeEvents
    NoEvent = NoEvent
    MaxEvents = 4
    Keys <- KeyCodes
    KeyEnter = 28
    KeyLeftShift = 42
    HISTORY_SIZE = 3
INVARIANTS InputTypeOK BuffersConserved KeyStateExact HistoryExact
PROPERTY ImplementsChannel
