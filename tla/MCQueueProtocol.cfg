\* Three keys and two workers: one key in work, one queued, one delayed.
CONSTANTS
    Items = {a, b, c}
    Workers = {v, w}
    NoItem = NoItem
    MaxCopies = 2
SPECIFICATION Spec
INVARIANTS
    TypeOK
    QueueWellFormed
    Stingy
    NoneStranded
PROPERTIES
    EventuallyProcessed
    ShutdownDrains
