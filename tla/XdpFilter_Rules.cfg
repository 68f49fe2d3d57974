SPECIFICATION Spec
CONSTANTS
    AddrTexts <- Texts
    Ports = {80, 20480, 65535}
    Protos = {6, 17}
    Addrs <- PacketAddrs
    DestPorts = {80, 20480, 65535}
    PacketProtos = {1, 6, 17}
    IHLs = {4, 5, 6}
    Sizes = {19, 20, 27, 28, 31, 32}
    SubnetIP <- Net
    SubnetMask <- Mask
    LittleEndianHost = TRUE
    MaxStored = 2
INVARIANTS
    TypeOK
    FilterMatchesRules
