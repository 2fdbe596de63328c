\* A panic stops the kernel, and the operations are bounded.
SPECIFICATION BootSpec
CONSTANTS
    Usable <- MapFrames
    ADVANCE = 3
    BlockSizes = {1, 3}
    MaxTables = 1
    MaxOps = 20
    NumSlots = 3
    NumFuncs = 3
    DWORD = 256
    PerPage = 2
    Machines <- AnyMachines
    Images <- AnyImages
    WORD = 2
    HeapPages = 2
    RegionPages = 4
    PhysTables = 1
    MaxBuffers = 1
    MaxApps = 1
CHECK_DEADLOCK FALSE
INVARIANTS BootTypeOK FunctionsFoundOnce RegistersFound DevicesServed QueuesSetUp
    ImagesLoaded GivenInOrder BlocksOwnTheirFrames
PROPERTIES ReadyLeftAlone BootEnds
