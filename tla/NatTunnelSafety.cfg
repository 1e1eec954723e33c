SPECIFICATION Spec
CONSTANTS
    Tunnels = {t1, t2}
    Publics = {p1, p2}
    Capacity = 1
    PoolSize = 2
    MaxAttempts = 2
    MaxWire = 2
    None = None
SYMMETRY Symmetric
INVARIANTS TypeOK DedicatedTunnel PoolBounded Ownership WireClean
