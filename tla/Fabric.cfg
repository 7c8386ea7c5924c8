SPECIFICATION Spec
CONSTANTS
    embed = embed
    chat = chat
    shard = shard
    Workers = {worker}
    Rooms = {root, shard}
    parentRoom = root
    ModelIds <- MCModelIds
    Manifests <- MCManifests
    Configs <- MCConfigs
    providerOrder <- MCOrder
    supportedProviders = {"wasm"}
    NoProvider = NoProvider
    MaxJoins = 1
    Callers = {c1}
    AnyModel = AnyModel
    None = None
    Idle = Idle
    Requests <- MCRequests
    Announcements <- MCAnnouncements
    Costs = {0, 1}
    Trusts = {0, 1}
    Ladder <- MCLadder
    routeTtl = 1
    MaxClock = 2
CHECK_DEADLOCK FALSE
INVARIANTS
    TypeOK
    StartupVerdict
    SelectionIsBest
    OutcomeOnRecord
PROPERTIES
    LinkAsAnnounced
