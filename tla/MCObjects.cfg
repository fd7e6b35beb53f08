\* Two ingresses with every kind of specification; three events.
CONSTANTS
    Tokens <- AllTokens
    Ids <- TwoIds
    Specs <- ManySpecs
    Services <- OneService
    ConfigMap <- ConfigMapIds
    Pods <- OnePod
    Events = {"Del"}
    MaxEvents = 3
SPECIFICATION Spec
INVARIANTS
    KeysKeepMeaning
    HandlersSurvive
    OwnUpstreams
    CacheIsRead
    CopyIsOwn
    SpecSurvives
CHECK_DEADLOCK FALSE
