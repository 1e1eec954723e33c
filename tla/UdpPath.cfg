SPECIFICATION FairPathSpec
CONSTANTS
    Ids = {1, 6}
    Objs = {o1, o2}
    None = None
    Watched = o1
    Mtus = {8, 10}
    Sources <- RemoteHosts
    Lengths = {0, 3, 14, 15, 17}
    Base = 8
    FRAME_TYPE_TCP_REQUEST = 9
    MAX_ADDRESS_LENGTH = 2
    MAX_PADDING_LENGTH = 2
    MAX_MESSAGE_LENGTH = 2
    MAX_UDP_SIZE = 16
    SessionWidth = 1
    PacketWidth = 1
    SALT_LENGTH = 2
INVARIANTS SessionsConsistent ReplyWhole
PROPERTIES ImplementsSessions EndedSessionRemoved SocketsReleased LimitRenewed
CHECK_DEADLOCK FALSE
