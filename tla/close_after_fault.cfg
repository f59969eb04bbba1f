SPECIFICATION Spec
CONSTANTS
    cMaxUSBPacketSize = 512
    cAsyncHeaderSize = 8
    cAsyncSubHeaderSize = 16
    cHostFSHeaderSize = 12
    cMaxAsynchronousBuffer = 2304
    mMaxBufferedMessages = 2
    mMaxFatalRetries = 3
    mMaxReadWriteRetries = 0
    KaiLengths = {}
    MaxKai = 0
    PspLengths = {}
    MaxPsp = 0
    PspSignals = {}
    MaxFaults = 1
    MayClose = TRUE
PROPERTIES CloseReturns
