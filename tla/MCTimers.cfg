\* No timer is constructed while a cancelled one still exists.
SPECIFICATION FairSpec
CONSTANTS
    t1 = t1
    t2 = t2
    t3 = t3
    Timers = {t1, t2, t3}
    MaxFd = 3
    LateOpens = FALSE
INVARIANTS TypeOK FiresOnce NoUseAfterDestroy
PROPERTIES SilentAfterCancel TimersFire
CHECK_DEADLOCK FALSE
