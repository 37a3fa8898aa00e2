SPECIFICATION Spec
CONSTANTS
    r1 = r1
    r2 = r2
    r3 = r3
    k1 = k1
    k2 = k2
    u1 = u1
    u2 = u2
    None = None
    Requests = {r1, r2}
    Uids = {u1, u2}
    UidOf <- MCUidOf
    MaxActive = 1
    GlobalLimit = 2
    PerUidLimit = 2
    Conns = {k1}
    ConnOf <- MCConnOf
    Ids = {1, 2}
    ChannelCap = 1
    Inputs = {"chat", "cancel", "other", "bad", "eof", "gone", "sigterm"}
    Patience = 1
INVARIANTS TypeOK UniqueIds ClosedClean
