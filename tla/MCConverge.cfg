\* One ingress and its endpoints change; the container restarts at any point.
CONSTANTS
    Items <- Keys
    Ings = {"i1"}
    Services = {"s1"}
    ConfigMaps = {"common"}
    Specs <- OneSpec
    EpStates = {{}, {"a1"}}
    Contents = {}
    Apis <- FreshApis
    BadParams = {"bad"}
    NoParam = "none"
    Base = Base
    Empty = Empty
    NoObject = NoObject
    Idle = Idle
    MaxWrites = 3
    Events = {"restart", "elect"}
SPECIFICATION Spec
PROPERTIES
    NginxConverges
CHECK_DEADLOCK FALSE
