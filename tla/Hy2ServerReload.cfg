SPECIFICATION FairSpec
CONSTANTS
    Quics = {c1, c2}
    Tcps = {t1}
    Users = {u1}
    Rates = {r1, r2, r3}
    Entries = {e1, e2}
    ServerLimit = 1
    ClientRates = {1}
    Strict = FALSE
    Refusals = {c1}
    MaxMoves = 0
    None = None
PROPERTY ReloadCompletes
CHECK_DEADLOCK FALSE
