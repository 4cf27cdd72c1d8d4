\* Patient applications disconnect after the echo, impatient ones at any time.
SPECIFICATION FairSpec
CONSTANTS
    client = client
    server = server
    Client = client
    Server = server
    BioSizes <- BioSizesMC
    Transports = {"queued", "synchronous"}
    RecordMax = 3
    RecvMax = 2
    ServerFlight = 2
    Messages <- MessagesMC
    Applications = {"patient", "impatient"}
INVARIANTS TypeOK InputTaken DataInOrder ConnectedFirst CloseIsClean
PROPERTIES EchoArrives CloseAnswered
CHECK_DEADLOCK FALSE
