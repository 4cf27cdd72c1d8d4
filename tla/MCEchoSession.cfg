\* Two loops, as in the test: one for the client, one for the server.
SPECIFICATION FairSpec
CONSTANTS
    client = client
    server = server
    listener = listener
    loopC = loopC
    loopS = loopS
    Client = client
    Server = server
    Listener = listener
    Loops = {loopC, loopS}
    LoopOf <- LoopOfMC
    SndCap = 3
    RcvCap = 2
    SendMax = 2
    RecvMax = 2
    Messages <- MessagesMC
INVARIANTS TypeOK NoUseAfterDestroy EchoConserved ClientNeverThrows
PROPERTIES SessionCompletes
CHECK_DEADLOCK FALSE
