SPECIFICATION ChatSpec
CONSTANTS
    q3 = q3
    chat = chat
    other = other
    Asks = {q1, q2}
    TaskRuns = {}
    TaskOf <- OneTask
    Acting = {}
    Sessions = {chat}
    SessionOf <- OneSession
    Processes = {api, worker}
    PoolSize = 2
    MaxCrashes = 0
    NotLoaded = NotLoaded
    Nobody = Nobody
INVARIANTS
    AnsweredIsKept
CHECK_DEADLOCK FALSE
