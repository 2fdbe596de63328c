SPECIFICATION FairSpec
CONSTANTS
    MaxTyped = 2
    MaxEvents = 3
PROPERTY CalledAgain
CHECK_DEADLOCK FALSE
