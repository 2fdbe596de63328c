SPECIFICATION FairSpec
CONSTANTS
    BootSizes <- AnyModes
    GpuSize <- GpuMode
    GpuCount = 1
    MaxResets = 0
PROPERTY CalledAgain
CHECK_DEADLOCK FALSE
