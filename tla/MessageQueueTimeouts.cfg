CONSTANTS
    n_reader = 2
    far = far
    Remotes <- OneRemote
    max_chunks = 2
    MaxMessages = 5
    Overflows <- SpacedOverflows
    RecvTimeouts = TRUE

SPECIFICATION Spec

CHECK_DEADLOCK FALSE

INVARIANT EachPathInOrder
