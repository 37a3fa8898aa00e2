SPECIFICATION Spec
CHECK_DEADLOCK FALSE
CONSTANTS
    Remotes = {"acme"}
    Payloads = {"prompt", "journal", "key"}
    CategoriesOf <- MCCategoriesOf
    Unsendable = {"key"}
    Lifetime = 1
    Nonce <- MCNonce
    MaxTime = 2
    Threshold = 1
    Cooldown = 1
    Settings = {"closed", "open"}
    DefaultSettings = "closed"
    Pids = {1, 2}
    Requests = {"r1", "r2"}
    EligibleIn <- MCEligibleIn
    PreferredIn <- MCPreferredIn
    EventCap = 1
    ChunkCap = 1
    MaxChunks = 2
    MaxRounds = 2
    CallIds = {"c1"}
    Calls <- MCCalls
    MaxShown = 2
    MaxBoots = 1
    Scenarios <- MCScenarios
INVARIANTS TypeOK ConsentSingleUse RemoteJustified SettingsDurable
