\* An ingress is deleted and created again.
CONSTANTS
    Items <- Keys
    Ings = {"i1"}
    Services = {"s1"}
    ConfigMaps = {"common"}
    Specs <- OneSpec
    EpStates = {{"a1"}}
    Contents = {}
    Apis <- FreshApis
    BadParams = {"bad"}
    NoParam = "none"
    Base = Base
    Empty = Empty
    NoObject = NoObject
    Idle = Idle
    MaxWrites = 2
    Events = {"delete"}
SPECIFICATION Spec
INVARIANTS
    ConvergedWhenQuiet
CHECK_DEADLOCK FALSE
