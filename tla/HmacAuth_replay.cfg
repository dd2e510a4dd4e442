SPECIFICATION Spec
CONSTANTS
    IntHalf = 128
    Second = 10
    DefaultWindow = 50
    AuthWindow = 30
    MaxNow = 8
CHECK_DEADLOCK FALSE
INVARIANT ReplayIsBounded
