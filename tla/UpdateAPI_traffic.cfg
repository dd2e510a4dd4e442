SPECIFICATION ApiFairSpec
CONSTANTS
    Label <- MCLabel
    LowerOf <- MCLowerOf
    ValidLabel <- MCValidLabel
    Zone <- MCZone
    Bits = {1, 2}
    Text = {"", "x"}
    ValidText = {"x"}
    Proc = {p1, p2}
    Main = Main
    Nobody = Nobody
    Seeds <- NoSeeds
    Ops = {}
    SerialMod = 8
    Persistent = TRUE
    DiskFaults = TRUE
    IntHalf = 128
    Second = 10
    DefaultWindow = 50
    AuthWindow = 10
    Command <- TrafficCommands
    Request <- Traffic
    ApiKey = "key"
    AcmePrefix = "c"
    AtSign = "@"
    UpperOf <- MCUpperOf
    MaxArrivals = 3
    MaxNow = 0
INVARIANTS
    ReportedSerialCoversUpdate
    NotFoundIsTrue
    ListIsFaithful
PROPERTIES
    WritesOnlyItsName
    RequestsAnswered
