SPECIFICATION LedgerSpec
CONSTANTS
    post    = post
    comment = comment
    NoIntent = NoIntent
    search  = search
    t1 = t1
    t2 = t2
    Intents = {post, comment, search}
    Sensitive = {post, comment}
    Threads = {t1, t2}
SYMMETRY LedgerSymmetry
INVARIANTS
    AtMostOneSend
    SentAsDecided
    ReceiptsAreHonest
    ClaimPassesGuard
PROPERTIES
    LedgerForward
    ImplementsEffect
