SPECIFICATION GpuSpec
CONSTANTS
    QueueCap = 8
    MaxTasks = 8
    MaxLive = 8
    BootTasks = 3
    Gpus = {0, 2}
INVARIANTS GpuTypeOK OneTokenPerTask NoLostTask PollerNeverSpins
PROPERTIES StarvationFree DriverStarts ImplementsScheduler
