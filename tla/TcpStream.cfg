SPECIFICATION FairStreamSpec
CONSTANTS
    Scenarios <- AllScenarios
    VlessUsers = {5}
    SshBanner <- Banner
    ClientHello <- Hello
    COMMAND_TCP = 1
    COMMAND_UDP = 2
    AddressWidth <- Widths4And6
    Paddings <- Padded
    RELAY_BUFFER_SIZE = 2
    Base = 8
    FRAME_TYPE_TCP_REQUEST = 9
    MAX_ADDRESS_LENGTH = 2
    MAX_PADDING_LENGTH = 2
    MAX_MESSAGE_LENGTH = 2
    MAX_UDP_SIZE = 16
    SessionWidth = 1
    PacketWidth = 1
    SALT_LENGTH = 2
INVARIANTS Faithful CarriedWhole Fallback
PROPERTIES StreamReleased
CHECK_DEADLOCK FALSE
