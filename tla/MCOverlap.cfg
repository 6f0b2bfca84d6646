SPECIFICATION WorkerSpec
CONSTANTS
    post = post
    search = search
    NoIntent = NoIntent
    w1 = w1
    w2 = w2
    r1 = r1
    r2 = r2
    Intents = {post}
    Sensitive = {post}
    Threads = {w1, w2}
    Recoverers = {r1, r2}
    N = 2
    Wants <- PostThenSynthesize
    MaxRetries = 1
    MaxTries = 2
    Outages = {}
    MaxJobs = 1
    MaxCrashes = 1
    MaxTimeouts = 0
CHECK_DEADLOCK FALSE
SYMMETRY WorkerSymmetry
INVARIANTS
    ExecutionIsLocked
