SPECIFICATION WorkerSpec
CONSTANTS
    post = post
    search = search
    NoIntent = NoIntent
    w1 = w1
    w2 = w2
    r1 = r1
    Intents = {post}
    Sensitive = {post}
    Threads = {w1, w2}
    Recoverers = {r1}
    N = 2
    Wants <- PostThenSynthesize
    MaxRetries = 0
    MaxTries = 2
    Outages = {"handler"}
    MaxJobs = 3
    MaxCrashes = 0
    MaxTimeouts = 1
CHECK_DEADLOCK FALSE
SYMMETRY WorkerSymmetry
PROPERTIES
    StepsStayDone
