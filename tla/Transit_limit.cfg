SPECIFICATION Spec
CONSTANTS
    MaxNameWire = 11
    MaxPointerHops = 3
    PointerSpan = 64
    Dot = 46
    Messages <- NoMessages
    Noise <- MCNoise
    Foreign <- MCForeign
CHECK_DEADLOCK FALSE
INVARIANT DecodedNamesFit
