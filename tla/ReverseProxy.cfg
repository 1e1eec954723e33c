SPECIFICATION Spec
CONSTANTS
    Requests = {r1, r2}
    Relays = {relay}
    Egresses = {}
    Disabled = {off}
    Tasks = {t1, t2}
    Tunnels = {w1}
    Inodes = {n1, n2, n3}
    Empty = Empty
    Mixed = Mixed
    None = None
SYMMETRY Symmetric
VIEW Visible
INVARIANTS LatestRuns StatusTruthful OneTunnel RelayNodesCounted
