SPECIFICATION Spec
CONSTANTS
    UserCodes = {u1}
    ConverterCodes = {c1, c2, c3}
    RequestedCodes = {u1, r1}
    Queries = {q1, q2}
    Limit = 2
    Ttl = 2
    NoLink = NoLink
    Unreadable = Unreadable
SYMMETRY Symmetric
INVARIANTS Bounded UserLinksServed
PROPERTY FresherKept
CHECK_DEADLOCK FALSE
