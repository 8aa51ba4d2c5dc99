SPECIFICATION Spec
CONSTANTS
    Cases <- MCCases
    Probes <- MCProbes
    CanDrop = TRUE
INVARIANTS
    InStep
    Agreed
    RulesMeant
    RulesCarried
PROPERTY
    HandshakeDone
CHECK_DEADLOCK FALSE
