\* Pins whose handlers acknowledge: keyboard, timer, and two PCI lines.
SPECIFICATION IrqFairSpec
CONSTANT Wired = {1, 2, 10, 11}
INVARIANTS HandlerNeverSpins AllAcknowledged
PROPERTY LoopRuns
