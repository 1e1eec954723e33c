SPECIFICATION Spec
CONSTANTS
    Quics = {c1, c2}
    Tcps = {t1}
    Users = {u1}
    Rates = {r1, r2, r3}
    Entries = {e1, e2, e3}
    ServerLimit = 1
    ClientRates = {0, 2}
    Strict = FALSE
    Refusals = {c1, c2}
    MaxMoves = 1
    None = None
SYMMETRY Symmetric
INVARIANTS RateApplied QueueDrained ConnectionsShown
CHECK_DEADLOCK FALSE
