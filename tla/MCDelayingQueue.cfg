\* Two keys; a channel that fills up.
CONSTANTS
    Items = {a, b}
    Workers = {v, w}
    NoItem = NoItem
    ChanCapacity = 3
SPECIFICATION Spec
INVARIANT TypeOK
PROPERTY ImplementsProtocol
