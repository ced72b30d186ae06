\* Inside the envelope: three invocations, signals, crashes and a reused PID.
SPECIFICATION FairSpec
CONSTANTS
    cron = cron
    firstload = firstload
    late = late
    Nobody = Nobody
    Dead = Dead
    Foreign = Foreign
    Ticks <- ThreeTicks
    MaxSignals = 3
    MaxReuse = 1
PROPERTIES
    SingleWriterSpec
    DeadLockIsBroken
