\* A timer may be constructed while a cancelled one still exists, as in any program.
SPECIFICATION FairSpec
CONSTANTS
    t1 = t1
    t2 = t2
    t3 = t3
    Timers = {t1, t2, t3}
    MaxFd = 3
    LateOpens = TRUE
PROPERTIES TimersFire
CHECK_DEADLOCK FALSE
