\* Safety, refinement of the callback queue and liveness; no symmetry.
SPECIFICATION FairSpec
CONSTANTS
    p1 = p1
    p2 = p2
    loop = loop
    Posters <- PostersMC
    Loop = loop
    MaxTasks = 3
    MaxEnters = 2
    EventFdMax = 3
    MaxOthers = 0
INVARIANTS TypeOK InOrder OnlyThrowsLose NoLostWakeup
PROPERTIES ExecIsAQueue CallbackGetsItsTurn StopReturns
CHECK_DEADLOCK FALSE
