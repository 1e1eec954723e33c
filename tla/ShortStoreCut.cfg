SPECIFICATION Spec
CONSTANTS
    UserCodes = {u1}
    ConverterCodes = {c1}
    RequestedCodes = {r1}
    Queries = {q1}
    Limit = 2
    Ttl = 2
    NoLink = NoLink
    Unreadable = Unreadable
INVARIANT LinksSurvive
CHECK_DEADLOCK FALSE
