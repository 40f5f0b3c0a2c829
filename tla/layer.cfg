CONSTANTS
    Registers = {r1, r2}
    Others = {o1}
SPECIFICATION FairSpec
CHECK_DEADLOCK FALSE
INVARIANTS
    TypeOK
    EveryoneAsked
    RegistersLast
PROPERTIES
    ShutdownReturns
