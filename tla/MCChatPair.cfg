SPECIFICATION FairChatSpec
CONSTANTS
    q3 = q3
    chat = chat
    other = other
    Asks = {q1, t, u}
    TaskRuns = {t, u}
    TaskOf <- OneTask
    Acting = {t}
    Sessions = {chat, other}
    SessionOf <- TwoSessions
    Processes = {api, worker}
    PoolSize = 1
    MaxCrashes = 1
    NotLoaded = NotLoaded
    Nobody = Nobody
INVARIANTS
    TimedOutLeavesNothing
PROPERTIES
    EveryAskEnds
    PoolDrains
CHECK_DEADLOCK FALSE
