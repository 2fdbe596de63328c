\* The console panics for some boot modes, or is stopped, and the loop with it.
SPECIFICATION FairSpec
CONSTANTS
    BootSizes <- AnyModes
    GpuSize <- GpuMode
    GpuCount = 2
    MaxResets = 3
CHECK_DEADLOCK FALSE
INVARIANTS TypeOK StoreGivenBack PixelsLive
PROPERTY OnlyTypingStops
