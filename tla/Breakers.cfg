SPECIFICATION Spec
CONSTANTS
    a1 = a1  b1 = b1
    Callers = {a1, b1}
    Acquirers = {1, 2}
    FailureThreshold = 2
    SuccessThreshold = 2
PROPERTIES
    OnlyStraysCall
    EarnedTransitions
    OnlyChargesFailOver
SYMMETRY CallerSymmetry
