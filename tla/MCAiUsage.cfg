SPECIFICATION Spec
CONSTANTS
    c1 = c1
    c2 = c2
    Calls = {c1, c2}
    Providers = {"mistral", "openai"}
    ZdrProviders = {"mistral"}
    PlatformKeys = {"openai"}
    Policies <- MCPolicies
    Retention = 2
    MonthLen = 1
    CounterTtl = 2
    MaxDay = 2
SYMMETRY Symmetry
INVARIANTS
    TypeOK
    QuotaWithinDrift
    AggregatesExact
    AlertOnce
