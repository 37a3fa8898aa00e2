SPECIFICATION Spec
CONSTANTS
    Calls = {c1, c2}
    Names = {n1}
    Principals = {u1}
    ServiceOps = {}
    KillOps = {kill}
    PackageOps = {pkg}
    UpdateOps = {upd}
    MaxState = 2
    MaxTime = 1
    States <- MCStates
    Times <- MCTimes
    Ids = {i1}
    Lifetime = 1
    MaxPlans = 2
    MaxPerName = 2
    None = None
SYMMETRY MCSymmetry
INVARIANTS ApprovedTarget
