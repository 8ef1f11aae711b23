CONSTANTS
    MaxPage = 7
    MaxAttempts = 3
    MaxAllocs = 3
    MaxParked = 2
    MaxReaders = 2
    PerPage = 2
    WriteBack = TRUE
    RefsRewritten = TRUE
SPECIFICATION MCSpec
INVARIANTS CrashSafe Durable FreeListsSound SnapshotsIntact
PROPERTY Implements
