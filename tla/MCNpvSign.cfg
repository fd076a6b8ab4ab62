CONSTANTS
    MILLION = 1
    LossMaking = TRUE
SPECIFICATION Spec
INVARIANTS
    NeverWrong
CHECK_DEADLOCK FALSE
