SPECIFICATION FairSpec
CONSTANTS
    d1 = d1
    d2 = d2
    d3 = d3
    n1 = n1
    n2 = n2
    g1 = g1
    g2 = g2
    Nicks = {n1, n2}
    Clients = {c1, c2}
    Dialers = {d1, d2, d3}
    NickOf <- MCNickOf
    Configs = {g1, g2}
    ConfigOf <- MCConfigOf
    None = None
INVARIANTS
    RegistryIsExact
    WaitersAreExact
    ChannelToOwnDevice
PROPERTIES
    EveryConnectEnds
CHECK_DEADLOCK FALSE
