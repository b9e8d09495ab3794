SPECIFICATION Spec
CONSTANTS
    celery = celery
    web = web
    Workers = {celery, web}
    Jobs <- MCJobs
    MaxTokens = 2
    Providers = {"google", "microsoft"}
INVARIANT
    RevokedHoldsNoTokens
CHECK_DEADLOCK FALSE
