\* One ingress on one host whose paths change, endpoints, and a config map that
\* nginx may refuse.
CONSTANTS
    Items <- Keys
    Ings = {"i1"}
    Services = {"s1"}
    ConfigMaps = {"common"}
    Specs <- GrowingSpecs
    EpStates = {{}, {"a1"}}
    Contents = {"c1", "bad"}
    Apis <- FreshApis
    BadParams = {"bad"}
    NoParam = "none"
    Base = Base
    Empty = Empty
    NoObject = NoObject
    Idle = Idle
    MaxWrites = 2
    Events = {"elect"}
SPECIFICATION Spec
INVARIANTS
    ConvergedWhenQuiet
    EndpointsCatchUp
    NothingUnwritten
    NoDanglingProxy
PROPERTIES
    StatusKeepsUserWrites
CHECK_DEADLOCK FALSE
