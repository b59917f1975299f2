SPECIFICATION Spec
CONSTANTS
    None = None
    Gone = Gone
    boss = boss
    ann = ann
    bob = bob
    w1 = w1
    w2 = w2
    x1 = x1
    x2 = x2
    t1 = t1
    t2 = t2
    g1 = g1
    p1 = p1
    p2 = p2
    p3 = p3
    s1 = s1
    s2 = s2
    Slots = {s1, s2}
    MaxRequests = 3
    MaxFailures = 1
    Inputs <- MCInputs
    Users = {boss, ann, bob}
    Workspaces = {w1, w2}
    Slugs = {x1, x2}
    Roles = {"dev", "qa"}
    Templates = {t1, t2}
    Policies = {g1}
    Admins = {boss}
    ProviderIds = {p1, p2, p3}
    Kinds = {"openai", "custom", "ollama"}
    Aliases = {"Main", "main", "spare"}
    Keys = {"k0", "k1", "k2"}
    Hosts = {"h1", "h2"}
    Alike <- MCAlike
    UuidBefore <- MCUuidBefore
    LocaleBefore <- MCLocaleBefore
    Micros = {0, 1}
    LoadedKinds = {"openai", "ollama"}
    KeylessKind = "ollama"
    NeedsHost = {"ollama", "custom"}
    NeedsKey = {"openai"}
    Readable = {"k1", "k2"}
    InitRegistered = {boss, ann}
    InitLife <- MCLife
    InitSlug <- MCSlug
    InitMembers <- MCMembers
    InitRoles <- MCRoles
    InitTemplates <- MCTemplates
    InitAttached = {}
    InitPolicy <- MCPolicy
    InitProviders <- MCProviders
    InitBindings = {}
    InitCatalogs = {"openai"}
SYMMETRY MCSymmetry
INVARIANTS
    RepliesAreTrue
    RefusedChangesNothing
    MembersHaveRoles
    StoredKeyStaysHome
    BilledRowIsLoaded
