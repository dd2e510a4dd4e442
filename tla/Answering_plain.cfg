SPECIFICATION AskSpec
CONSTANTS
    Label <- MCLabel
    LowerOf <- MCLowerOf
    ValidLabel <- MCValidLabel
    Zone <- MCZone
    Bits = {1, 2, 3}
    Text = {"t"}
    Proc = {q, w1}
    Main = Main
    Nobody = Nobody
    Seeds <- NoSeeds
    Ops <- MCOps
    SerialMod = 8
    Persistent = TRUE
    DiskFaults = FALSE
    FlagTTL = 0
    FlagNegTTL = 9
    FlagNS <- MCFlagNS
    NSLabel = "ns"
    ApexA <- Unset
    Fallback <- Unset
    Magic <- MCMagic
    Asker = {q}
    Question <- MCQuestion
    MaxWrites = 3
INVARIANTS
    RegisteredIsAnswered
    AnswerOfOneMoment
    NameErrorIsForAllTypes
    MessageIsSound
