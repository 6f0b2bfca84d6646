SPECIFICATION WorkerSpec
CONSTANTS
    post = post
    search = search
    NoIntent = NoIntent
    w1 = w1
    w2 = w2
    r1 = r1
    Intents = {post}
    Sensitive = {post}
    Threads = {w1, w2}
    Recoverers = {r1}
    N = 2
    Wants <- PostThenSynthesize
    MaxRetries = 1
    MaxTries = 2
    Outages = {}
    MaxJobs = 2
    MaxCrashes = 0
    MaxTimeouts = 0
CHECK_DEADLOCK FALSE
SYMMETRY WorkerSymmetry
PROPERTY StaleDeliveryIsInert
