SPECIFICATION Spec
CONSTANTS
    Calls = {c1, c2}
    Names = {n1, n2}
    Principals = {u1, u2}
    ServiceOps = {svc}
    KillOps = {}
    PackageOps = {}
    UpdateOps = {}
    MaxState = 1
    MaxTime = 1
    States <- MCStates
    Times <- MCTimes
    Ids = {i1, i2}
    Lifetime = 1
    MaxPlans = 2
    MaxPerName = 1
    None = None
SYMMETRY MCSymmetry
INVARIANTS TypeOK SingleUse EarnedEffects QuotaHolds
PROPERTIES PendingKept LifecycleSpec
