SPECIFICATION ServerSpec
CHECK_DEADLOCK FALSE
CONSTANTS
    Remotes = {"acme"}
    Payloads = {"prompt", "journal", "key"}
    CategoriesOf <- MCCategoriesOf
    Unsendable = {"key"}
    Lifetime = 1
    Nonce <- MCNonce
    MaxTime = 2
    Threshold = 3
    Cooldown = 1
    Settings = {"closed", "open"}
    DefaultSettings = "closed"
    Pids = {1, 2}
    Requests = {"r1", "r2"}
    EligibleIn <- MCEligibleIn
    PreferredIn <- MCPreferredIn
    EventCap = 1
    ChunkCap = 1
    MaxChunks = 1
    MaxRounds = 1
    CallIds = {"c1"}
    Calls <- MCCalls
    MaxShown = 2
    MaxBoots = 1
    FrameCap = 1
    MaxInflight = 2
    Scenarios <- MCScenarios
INVARIANTS StreamOrdered ResultIsLastAnswer
PROPERTY ExchangeEnds
