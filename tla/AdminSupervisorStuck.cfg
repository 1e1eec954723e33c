SPECIFICATION FairSpec
CONSTANTS
    Handlers = {h1, h2}
    Configs = {c1}
    ChannelSize = 1
    Inodes = {n1, n2}
    Empty = Empty
    Mixed = Mixed
    None = None
PROPERTY AlwaysAnswered
