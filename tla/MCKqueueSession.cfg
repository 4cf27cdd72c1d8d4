CONSTANTS
    Client = Client
    Server = Server
    Listener = Listener
    Loops = {"clientLoop", "serverLoop"}
    Io = "serverLoop"
    Posters = {"p1"}
    Timers = {"t1"}
    MaxEnters = 1
    MaxEvents = 2
    SndCap = 1
    RcvCap = 2
    SendMax = 1
    RecvMax = 1
    LoopOf <- LoopOfMC
    Messages <- MessagesMC
    Loads <- LoadsMC
SPECIFICATION FairSpec
INVARIANTS NoUseAfterDestroy NoLostEdge
CHECK_DEADLOCK FALSE
PROPERTIES ExecIsAQueue SessionCompletes
