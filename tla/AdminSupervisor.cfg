SPECIFICATION FairSpec
CONSTANTS
    Handlers = {h1, h2}
    Configs = {c1, c2}
    ChannelSize = 1
    Inodes = {n1, n2, n3}
    Empty = Empty
    Mixed = Mixed
    None = None
INVARIANTS ReloadComing StatusTruthful AttendedIntact
PROPERTY EveryRequestAnswered
SYMMETRY Symmetric
