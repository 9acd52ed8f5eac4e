SPECIFICATION FairSpec
CONSTANTS
    HBS_MAX_DATA_LEN = 2
    Nodes = {0, 2}
    RxLen = 4
    Operations = {1}
    Contents = {0, 2}
    LongestPayload = 2
    MaxPackets = 2
INVARIANT TypeOK
PROPERTIES ChannelSpec EveryPacketServed
