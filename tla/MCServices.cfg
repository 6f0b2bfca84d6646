SPECIFICATION ServicesSpec
CONSTANTS
    Users = {"u1"}
    Callers = {"c1", "c2"}
    FailureLimit = 2
    MaxPasswords = 2
    MaxTokens = 3
    Members = {"u1", "u2"}
    Workspaces = {"w"}
    Requests = {"r1", "r2"}
    Files = {"f", "g"}
    MaxDocuments = 1
    ForeignKeys = FALSE
    ApproveReads = TRUE
    Uploads = {"i1", "i2", "i3"}
    ProcessOf <- UploadProcesses
    Pdfs = {"f"}
    OwnRegistry = TRUE
    MaxDeaths = 1
    Contents = {"zh", "en", "x"}
    KeyOf <- PreferenceKeys
    NoKey = "nokey"
    Writers = {"w1", "w2"}
    MaxMemories = 3
    Fingerprints = {"x"}
    Senders = {"n1", "n2", "n3"}
    Analyses = {"a"}
    Outputs = {"o1", "o2", "o3"}
    MaxOutputs = 2
    Proposals <- NamedSources
    MaxIterations = 5
    MaxSteps = 3
    MaxRewrites = 2
    MaxReplans = 1
    MaxRevisions = 1
    PlannerEnabled = TRUE
    GroundingCheck = TRUE
    Findings = {"d1", "d2", "s1", "w1", "w2", "g1"}
    ReturnedBy <- ReturnedFindings
    PageCounts <- DocumentPages
    MaxReferences = 2
    Lengths = {0, 30, 60, 200}
    MaxMessages = 5
    Budget = 140
    SummaryLimit = 40
    RecentTurns = 2
    GithubReads = {"get_file"}
    GithubWrites = {"create_issue"}
    GithubOthers = {"fork"}
    OtherTools = {"query"}
    Policies <- OperatorChoices
    Discoverers = {"f1", "f2"}
    MaxChanges = 1
    MaxDiscoveries = 2
    WorkspaceRecords <- WorkspaceDocuments
    ChunksOf <- MatchingChunks
    Searches = {"q1", "q2"}
    RetrievalSlots = 2
    PerDocument = 2
    Candidates = 2
    GlobalK = 2
    Asks = {"a1", "a2", "a3"}
    TaskRuns = {}
    TaskOf <- OneTask
    Acting = {}
    Sessions = {"chat", "other"}
    SessionOf <- ChatOf
    Processes = {"api"}
    PoolSize = 2
    MaxCrashes = 1
    NotLoaded = NotLoaded
    Nobody = Nobody
INVARIANTS
    TokensAreSound
    MembershipSound
    PermissionsHold
    IngestSound
    OneVoicePerKey
    RegistriesAreWhole
    ResearchIsSound
    CitationsAreReal
    ContextIsSound
    ToolsAreGoverned
    RetrievalIsFair
    ReportIsOwn
PROPERTIES
    ImplementsFamilies
    ConversationGrows
CHECK_DEADLOCK FALSE
