CONSTANTS
    SyncObjs = {"s1", "s2"}
    AsyncObjs = {"a1", "a2"}
    Fds = {3, 4, 5}
    Platforms = {"linux", "macos", "windows"}
SPECIFICATION Spec
INVARIANTS SoleOwner
