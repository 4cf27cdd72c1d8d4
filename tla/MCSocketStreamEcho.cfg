\* A message that does not fit into the send buffer.
SPECIFICATION Spec
CONSTANTS
    client = client
    server = server
    listener = listener
    io = io
    Client = client
    Server = server
    Listener = listener
    Loops = {io}
    LoopOf <- LoopOfMC
    SndCap = 1
    RcvCap = 1
    SendMax = 2
    RecvMax = 2
    EarlyMessage <- NoMessage
    Message <- MessageMC
INVARIANTS EchoExact
CHECK_DEADLOCK FALSE
