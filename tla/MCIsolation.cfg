\* Two ingresses on hosts of their own are changed and deleted.
CONSTANTS
    Items <- Keys
    Ings = {"i1", "i2"}
    Services = {"s1"}
    ConfigMaps = {"common"}
    Specs <- OwnHostSpecs
    EpStates = {{"a1"}}
    Contents = {}
    Apis <- EachApis
    BadParams = {"bad"}
    NoParam = "none"
    Base = Base
    Empty = Empty
    NoObject = NoObject
    Idle = Idle
    MaxWrites = 1
    Events = {"delete", "elect", "breakTest"}
SPECIFICATION Spec
INVARIANTS
    TypeOK
    NoLeftovers
PROPERTIES
    OthersUntouched
CHECK_DEADLOCK FALSE
