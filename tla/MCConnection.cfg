SPECIFICATION FairSpec
CONSTANTS
    celery = celery
    web = web
    Workers = {celery, web}
    Jobs <- MCJobs
    MaxTokens = 2
    Providers = {"google", "microsoft"}
INVARIANTS
    TypeOK
    RefreshExclusive
    TokenKept
    RevokedCleanUnlessRaced
PROPERTIES
    RevivedByConsent
    OperationsFinish
