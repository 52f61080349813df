SPECIFICATION Spec
CONSTANTS
    NumBlocks = 4
    BlockLists <- MCBlockLists
INVARIANTS
    TypeOK
    LinksMirror
    CountMatchesLinks
PROPERTY
    ImplementsBlockQueue
