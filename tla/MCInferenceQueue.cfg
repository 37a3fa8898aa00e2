SPECIFICATION QueueSpec
CONSTANTS
    r1 = r1
    r2 = r2
    r3 = r3
    r4 = r4
    r5 = r5
    r6 = r6
    u1 = u1
    u2 = u2
    Requests = {r1, r2, r3, r4, r5, r6}
    Uids = {u1, u2}
    UidOf <- MCUidOf
    MaxActive = 2
    GlobalLimit = 4
    PerUidLimit = 3
INVARIANTS QueueTypeOK PermitsConserved CountsExact LimitsHold
PROPERTIES Served
