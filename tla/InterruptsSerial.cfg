\* The serial port, COM1, is on pin 4.
SPECIFICATION IrqFairSpec
CONSTANT Wired = {4}
PROPERTY LoopRuns
