SPECIFICATION Spec
CONSTANTS
    BufferSize = 3
    MaxOffer = 4
    MaxStream = 9
INVARIANTS TypeOK Fifo
PROPERTIES ShortOnlyWhenFull
CHECK_DEADLOCK FALSE
