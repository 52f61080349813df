CONSTANTS
    n_reader = 2
    far = far
    Remotes <- NoRemote
    max_chunks = 2
    MaxMessages = 3
    Overflows <- SecondOverflows
    RecvTimeouts = FALSE

SPECIFICATION Spec

CHECK_DEADLOCK FALSE

INVARIANT TypeOK
INVARIANT SlotExclusive
PROPERTY ImplementsBroadcastQueue
PROPERTY EnqueueReturns
PROPERTY ShutdownEndsReader
