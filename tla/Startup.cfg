SPECIFICATION FairSpec
CONSTANTS
    Handlers = {h1, h2}
    None = None
INVARIANTS LinkHasFile OutcomeTrue
PROPERTY RequestsAnswered
