\* The client may write before it is connected, disconnect, or stop the loop.
SPECIFICATION FairSpec
CONSTANTS
    client = client
    server = server
    listener = listener
    io = io
    Client = client
    Server = server
    Listener = listener
    Loops = {io}
    LoopOf <- LoopOfMC
    SndCap = 1
    RcvCap = 1
    SendMax = 2
    RecvMax = 2
    EarlyMessage <- EarlyMC
    Message <- MessageMC
INVARIANTS WriteInterest EveryByteKept PendingArmed
PROPERTIES PendingDrains
CHECK_DEADLOCK FALSE
