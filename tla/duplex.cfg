SPECIFICATION Spec
CONSTANTS
    cMaxUSBPacketSize = 512
    cAsyncHeaderSize = 8
    cAsyncSubHeaderSize = 16
    cHostFSHeaderSize = 12
    cMaxAsynchronousBuffer = 2304
    mMaxBufferedMessages = 10
    mMaxFatalRetries = 1
    mMaxReadWriteRetries = 0
    KaiLengths = {992}
    MaxKai = 2
    PspLengths = {1, 488, 492, 2304}
    MaxPsp = 2
    PspSignals = {"hello", "debug"}
    MaxFaults = 0
    MayClose = TRUE
INVARIANTS CopyFits HalfDuplex FrameEndSeen
PROPERTIES ToPspRefinesChannel ToPspDrains ToKaiRefinesChannel ToKaiDrains CloseReturns
