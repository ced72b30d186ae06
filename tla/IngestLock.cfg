\* Two main-thread writers and one UI thread, inside the envelope, with kills.
SPECIFICATION FairSpec
CONSTANTS
    stage = stage
    manual = manual
    admin = admin
    Nobody = Nobody
    Writers <- MainWriters
    Threads <- AdminThread
    Stale = 2
    MaxDeaths = 2
PROPERTIES
    SingleWriterSpec
    DeadLockAgesOut
