\* A message that does not fit into the BIO.
SPECIFICATION FairSpec
CONSTANTS
    client = client
    server = server
    Client = client
    Server = server
    BioSizes <- BioSizesMC
    Transports = {"queued"}
    RecordMax = 3
    RecvMax = 2
    ServerFlight = 2
    Messages <- LargeMC
    Applications = {"patient"}
PROPERTIES EchoArrives
CHECK_DEADLOCK FALSE
