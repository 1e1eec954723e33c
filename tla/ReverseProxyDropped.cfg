SPECIFICATION Spec
CONSTANTS
    Requests = {r1}
    Relays = {relay}
    Egresses = {}
    Disabled = {off}
    Tasks = {t1, t2}
    Tunnels = {w1}
    Inodes = {n1, n2}
    Empty = Empty
    Mixed = Mixed
    None = None
VIEW Visible
INVARIANT SavedSettingsRun
