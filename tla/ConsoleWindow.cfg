SPECIFICATION Spec
CONSTANTS
    W = 12
    H = 8
    MouseX <- MouseXs
    MouseY <- MouseYs
    FirstRect <- First
    GRAB = 2
    LIMIT = 12
    USIZE = 64
INVARIANTS TypeOK DrawsInside
