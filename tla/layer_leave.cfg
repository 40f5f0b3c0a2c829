CONSTANTS
    Registers = {r1, r2}
    Others = {o1}
SPECIFICATION Spec
CHECK_DEADLOCK FALSE
INVARIANT LeaversAreLeftAlone
