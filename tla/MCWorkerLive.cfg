SPECIFICATION FairSpec
CONSTANTS
    post = post
    search = search
    NoIntent = NoIntent
    w1 = w1
    r1 = r1
    Intents = {search}
    Sensitive = {}
    Threads = {w1}
    Recoverers = {r1}
    N = 1
    Wants <- SearchOnly
    MaxRetries = 1
    MaxTries = 2
    Outages = {}
    MaxJobs = 2
    MaxCrashes = 1
    MaxTimeouts = 1
CHECK_DEADLOCK FALSE
PROPERTIES
    CancelTakesHold
    DeliveriesSettle
