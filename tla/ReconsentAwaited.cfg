SPECIFICATION Spec
CONSTANTS
    celery = celery
    web = web
    Workers = {celery, web}
    Jobs <- MCJobs
    MaxTokens = 2
    Providers = {"google", "microsoft"}
PROPERTY
    ReconsentAwaited
CHECK_DEADLOCK FALSE
