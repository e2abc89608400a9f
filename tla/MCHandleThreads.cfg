SPECIFICATION Spec
CONSTANTS
    Threads = {t1, t2}
    Objects = {o1, o2, o3}
    Addresses = {a1, a2, a3}
    NoObject = NoObject
    Null = Null
    EnabledCalls <- SessionCalls
    MixKinds = FALSE
SYMMETRY Symmetry
INVARIANTS
    NoDanglingUse
    NestedLeaseAgrees
    NoLeakWhenIdle
PROPERTIES
    NoLeaseAfterRelease
    ImplementsLifetime
