SPECIFICATION Spec
CONSTANTS
    cMaxUSBPacketSize = 512
    cAsyncHeaderSize = 8
    cAsyncSubHeaderSize = 16
    cHostFSHeaderSize = 12
    cMaxAsynchronousBuffer = 2304
    mMaxBufferedMessages = 1
    mMaxFatalRetries = 2
    mMaxReadWriteRetries = 0
    KaiLengths = {600}
    MaxKai = 1
    PspLengths = {600}
    MaxPsp = 2
    PspSignals = {}
    MaxFaults = 1
    MayClose = TRUE
INVARIANTS TypeOK StitchExclusive NothingRepeated NothingSentTwice
PROPERTIES ToPspRefinesChannel RefinesLifecycle DeadDeviceEndsThread SendStitchEnds
