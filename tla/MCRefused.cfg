\* A specification is spoilt and repaired; the config map comes and goes.
CONSTANTS
    Items <- Keys
    Ings = {"i1"}
    Services = {"s1"}
    ConfigMaps = {"common"}
    Specs <- BadSpecs
    EpStates = {{}, {"a1"}}
    Contents = {"c1", NoObject}
    Apis <- FreshApis
    BadParams = {"bad"}
    NoParam = "none"
    Base = Base
    Empty = Empty
    NoObject = NoObject
    Idle = Idle
    MaxWrites = 3
    Events = {"elect"}
SPECIFICATION Spec
INVARIANTS
    ConfigMapsCatchUp
    LocationsTested
    NoDanglingProxy
CHECK_DEADLOCK FALSE
