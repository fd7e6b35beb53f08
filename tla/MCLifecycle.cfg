\* The two factories, three kinds of objects, signals at any point.
CONSTANTS
    Factories = {"kube", "extend"}
    Kinds = {"endpoints", "configmaps", "extendingresses"}
    FactoryOf <- KindFactories
    MaxPending = 2
SPECIFICATION Spec
INVARIANTS
    TypeOK
    WorkOnSynced
    ZeroIsGraceful
PROPERTIES
    SignalEnds
    GetsToWork
CHECK_DEADLOCK FALSE
