SPECIFICATION ApiSpec
CONSTANTS
    Label <- MCLabel
    LowerOf <- MCLowerOf
    ValidLabel <- MCValidLabel
    Zone <- MCZone
    Bits = {1, 2}
    Text = {"", "x"}
    ValidText = {"x"}
    Proc = {p1}
    Main = Main
    Nobody = Nobody
    Seeds <- OneSeed
    Ops = {}
    SerialMod = 8
    Persistent = TRUE
    DiskFaults = FALSE
    IntHalf = 128
    Second = 10
    DefaultWindow = 50
    AuthWindow = 10
    Command <- OddCommands
    Request <- Odd
    ApiKey = "key"
    AcmePrefix = "c"
    AtSign = "@"
    UpperOf <- MCUpperOf
    MaxArrivals = 2
    MaxNow = 4
INVARIANT StoredIsEncodable
PROPERTIES
    OnlySignedAndFresh
    CommandsAreUnderstood
