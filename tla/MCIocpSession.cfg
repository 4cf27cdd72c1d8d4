CONSTANTS
    Client = Client
    Server = Server
    Listener = Listener
    Loops = {"clientLoop", "serverLoop"}
    Io = "clientLoop"
    Timers = {"t1"}
    MaxEnters = 1
    SndCap = 2
    RcvCap = 1
    BufMax = 2
    LoopOf <- LoopOfMC
    Messages <- MessagesMC
    Loads <- LoadsMC
SPECIFICATION FairSpec
INVARIANTS NoUseAfterDestroy
PROPERTIES ExecIsAQueue SessionCompletes TimersFire
CHECK_DEADLOCK FALSE
