SPECIFICATION FairSpec
CONSTANTS
    Requests = {r1}
    Relays = {relay}
    Egresses = {}
    Disabled = {off}
    Tasks = {t1}
    Tunnels = {w1}
    Inodes = {n1, n2}
    Empty = Empty
    Mixed = Mixed
    None = None
PROPERTY DisablingCloses
