SPECIFICATION Spec
CONSTANTS
    Label <- MCLabel
    LowerOf <- MCLowerOf
    ValidLabel <- MCValidLabel
    Zone <- MCZone
    Bits = {1, 2}
    Text = {"t"}
    Proc = {p1, p2}
    Main = Main
    Nobody = Nobody
    Seeds <- OneSeed
    Ops <- MCOps
    SerialMod = 3
    Persistent = TRUE
    DiskFaults = TRUE
INVARIANT EveryMutationIsWritten
