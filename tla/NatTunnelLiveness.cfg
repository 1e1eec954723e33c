SPECIFICATION FairSpec
CONSTANTS
    Tunnels = {t1}
    Publics = {p1, p2}
    Capacity = 1
    PoolSize = 1
    MaxAttempts = 2
    MaxWire = 1
    None = None
PROPERTIES PublicResolved StaleTunnelExpires
