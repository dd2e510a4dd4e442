SPECIFICATION Spec
CONSTANTS
    Reg = {"a", "b"}
    Seed = {"s"}
    MaxStarts = 2
CHECK_DEADLOCK FALSE
INVARIANT RegistrationsSurvive
