\* Frames may be drawn at any moment; then drawing pauses.
SPECIFICATION CommandsFairSpec
CONSTANTS
    NumCapsets = 2
    MaxFrames = 3
INVARIANT DisplayNeverRefused
PROPERTY FramesReachScreen
