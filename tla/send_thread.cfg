SPECIFICATION Spec
CONSTANTS
    cMaxUSBPacketSize = 512
    cAsyncHeaderSize = 8
    cAsyncSubHeaderSize = 16
    cHostFSHeaderSize = 12
    cMaxAsynchronousBuffer = 2304
    mMaxBufferSize = 2
    KaiLengths <- MCLengths
    MaxKai = 3
INVARIANTS TypeOK OutgoingFramed NothingCutOff
PROPERTY StopEnds
