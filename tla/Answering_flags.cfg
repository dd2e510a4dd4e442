SPECIFICATION AskFairSpec
CONSTANTS
    Label <- MCLabel
    LowerOf <- MCLowerOf
    ValidLabel <- MCValidLabel
    Zone <- MCZone
    Bits = {1, 2, 3}
    Text = {"t"}
    Proc = {q, w1, w2}
    Main = Main
    Nobody = Nobody
    Seeds <- NoSeeds
    Ops <- MCOps
    SerialMod = 8
    Persistent = FALSE
    DiskFaults = FALSE
    FlagTTL = 0
    FlagNegTTL = 9
    FlagNS <- MCFlagNS
    NSLabel = "ns"
    ApexA <- Apex4
    Fallback <- Back6
    Magic <- MCMagic
    Asker = {q}
    Question <- MCQuestion
    MaxWrites = 2
INVARIANTS
    RegisteredIsAnswered
    MessageIsSound
PROPERTIES
    QuestionsAnswered
    IsAtomic
