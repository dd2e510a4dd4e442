SPECIFICATION FairSpec
CONSTANTS
    MaxNameWire = 11
    MaxPointerHops = 4
    PointerSpan = 64
    Dot = 46
    Resolve <- MCResolve
    UDPLimit = 40
    BufSize = 60
    UdpClient <- MCUdp
    TcpClient <- MCTcp
    Asked <- MCAsked
    Ids = {7}
    Pipeliner <- MCPipeliner
    Pipeline <- MCPipeline
    Stray <- MCStray
    Stranger = "s"
    Cast <- MCCast
    Break = {1, 68}
    MaxFailures = 1
    Slot = {1, 2}
    WriteAhead = 1
CHECK_DEADLOCK FALSE
INVARIANTS
    PrintsItsOwnAnswer
    RepliesInOrder
    RepliesAreHarmless
    ErrorsAreReal
PROPERTIES
    NeverHalfDead
    ConnectionsEnd
