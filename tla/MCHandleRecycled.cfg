SPECIFICATION FairSpec
CONSTANTS
    Threads = {t1, t2}
    Objects = {o1, o2, o3}
    Addresses = {a1, a2}
    NoObject = NoObject
    Null = Null
    EnabledCalls <- PinningCalls
    MixKinds = TRUE
INVARIANTS
    NoDanglingUse
    RegisterNeverCollides
    CountersAgree
PROPERTIES
    ReleasedIsDestroyed
