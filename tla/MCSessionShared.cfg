SPECIFICATION Spec
CONSTANTS
    t1 = t1  t2 = t2
    s1 = s1
    c1 = c1  c2 = c2
    f1 = f1  f2 = f2
    Nobody = Nobody
    Garbage = Garbage
    Threads = {t1, t2}
    Sessions = {s1}
    Captures = {c1, c2}
    Frames = {f1, f2}
    IdsIn <- Shown
    SessionOf <- PinnedSession
    Plans <- SharedPlans
    Seen <- TwoLooks
    RecordSize = 2
    MinOpen = 1
INVARIANTS
    CapturesRunConcurrently
CHECK_DEADLOCK FALSE
