\* A panic stops the console, so the model may stop.
SPECIFICATION Spec
CONSTANTS
    MaxTyped = 2
    MaxEvents = 3
INVARIANTS TypeOK PromptMatchesMode
CHECK_DEADLOCK FALSE
