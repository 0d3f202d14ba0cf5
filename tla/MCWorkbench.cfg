SPECIFICATION MCSpec
CONSTANTS
    Files = {f}
    Contents = {c1, c2}
    Clients = {p, q}
    Bytes <- MCBytes
    MaxEntries = 2
    MaxBytes = 3
    Roles = {"host", "decompile"}
    CacheScopes <- MCCacheScopes
    Binaries = {a, b}
    Requests = {r1, r2, r3}
    Kinds = {"open", "forced", "command", "cfg"}
    NoRequest = NoRequest
    ArtScopes <- MCArtScopes
    Size = 4
    Samples <- MCSamples
    Length = 4
    Listings <- MCListings
    TracedBinaries = {a, b}
    MaxRuns = 3
    MaxPanels = 2
    MaxAsked = 1
    Conversations = {x, y, z}
    MaxPrompts = 2
    NoBackup = NoBackup
    ChatScopes <- MCChatScopes
    ViewBinaries = {a, b}
    Entries <- MCEntries
    Decompilers = {1, 2}
    MaxDecompiles = 2
    NoPayload = NoPayload
    NoCode = NoCode
    Loader = Loader
    DecScopes <- MCDecScopes
    ProgramSize = 4
    Traces <- MCTraces
    MaxChanges = 8
    AgentScopes <- MCAgentScopes
INVARIANTS
    PartsTypeOK
    KeptAsComputed
    ArtifactsShared
    FunctionsFound
    GraphsTold
    ButtonFreed
    ActiveExists
    ChatTells
    StoreFollows
    CodeOfSelected
    TraceTells
    TalkFaithful
PROPERTIES
    StoreChanges
CHECK_DEADLOCK FALSE
