SPECIFICATION SessionSpec
CONSTANTS
    Users = {u1, u2}
    Passwords = {p1, p2}
    Handlers = {h1, h2}
    Resets = {c1}
    Inodes = {n1, n2, n3}
    Empty = Empty
    Mixed = Mixed
    None = None
    ADMIN_SESSION_TTL_SECS = 1
    TokenConfigured = FALSE
CONSTRAINT ClashEndsFirst
SYMMETRY Symmetric
INVARIANTS SomebodyCanLogIn SessionWithdrawn
PROPERTY OthersPreserved
