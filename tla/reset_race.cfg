SPECIFICATION Spec
CONSTANTS
    cMaxUSBPacketSize = 512
    cAsyncHeaderSize = 8
    cAsyncSubHeaderSize = 16
    cHostFSHeaderSize = 12
    cMaxAsynchronousBuffer = 2304
    mMaxBufferedMessages = 4
    mMaxFatalRetries = 3
    mMaxReadWriteRetries = 0
    KaiLengths = {}
    MaxKai = 0
    PspLengths = {600}
    MaxPsp = 2
    PspSignals = {"rude"}
    MaxFaults = 0
    MayClose = FALSE
INVARIANTS SentUnmixed
