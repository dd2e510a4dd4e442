SPECIFICATION Spec
CONSTANTS
    Address4 <- MCAddress4
    Address6 <- MCAddress6
    Part <- MCPart
    MaxParts = 4
    MaxPrefix = 2
CHECK_DEADLOCK FALSE
INVARIANTS
    WrittenIsRead
    OnlyAddressesAreRead
PROPERTIES
    DepthKeepsAddress
