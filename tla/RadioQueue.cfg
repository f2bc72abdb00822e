SPECIFICATION FairSpec
CONSTANTS
    Contents = {"raw", "ssdv", "compressed"}
    Ssdv = "ssdv"
    Compressed = "compressed"
    RawFrame = "resend"
    Lengths = {0, 1, 2, 3}
    QueueSize = 8
    MaxPayload = 2
    SequenceCounts = 2
    HistorySize = 2
    SendAttempts = 2
    MaxMessages = 3
INVARIANT QueueInv
PROPERTIES ImplementsFifo MessagesLeave
CHECK_DEADLOCK FALSE
