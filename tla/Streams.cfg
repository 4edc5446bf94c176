SPECIFICATION Spec
CONSTANTS
    \* VideoStream
    HeaderSize = 2
    RcvBufferSize = 3
    InitialBufferSize = 6
    MaxFrameSize = 24
    FrameSizes = {3, 9, 12, 14, 24, 25}
    MaxFrames = 3
    SocketSize = 6
    \* KeyframeScan
    Bytes = {0, 1, 103}
    MaxDataLen = 7
    \* UsbFraming
    ChunkSize = 3
    MaxReadChunk = 6
    MaxMessageSize = 11
    HeaderSizeV2 = 3
    MessageSizes = {2, 3, 4, 11, 12}
    MaxMessages = 3
    MaxSessions = 2
    \* ControlStream
    ParcelHeaderSize = 2
    ControlSize = 3
    RxBufferSize = 6
    ParcelSizes = {2, 3, 6, 7}
    MaxParcels = 3
    \* ControlReceiver
    TellHeaderSize = 2
    TouchSize = 3
    NoticeSizes = {4}
    MaxTellSize = 4
    SendBuffer = 5
    MaxTold = 3
    MaxConnections = 2
    \* HuMessage
    Base = 4
    ShortDigits = 2
    LongDigits = 3
    CrcDigits = 2
    NameLens = {0, 2}
    DataLens = {0, 2}
    FlowIds = {0, 9}
    MaxData = 2
    ChunkLens = {0, 8}
    \* UsbWriting
    OutChunk = 2
    OutHeader = 1
    OutLens = {1, 2, 3}
    MaxOutSessions = 2
\* What is sent is finite.
CHECK_DEADLOCK FALSE
INVARIANTS
    StreamsTypeOK
    VideoFramesWhole
    KeyframeFound
    UsbInSync
    CommandsInOrder
    CallbacksInOrder
    HuRoundTrip
    HeadUnitInSync
PROPERTY
    VideoFramesArrive
