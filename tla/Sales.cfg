SPECIFICATION Spec
CONSTANTS
    Campaigns = {spring}
    People = {u1}
    Alerts = {a1}
    Aggregates = {k1}
    None = None
    Handlers = {h1, h2}
    Home <- MCHome
    Web = web
    Callers <- MCCallers
    Window = 1
    MaxRaw = 1
    Retention = 1
    CacheSize = 1
    MaxFaults = 1
    MaxForms = 1
    Budgets <- MCBudgets
    Targets = {customer}
    Boot = boot
    MaxOpen = 1
    Reachable = {customer}
    MaxAttempts = 2
INVARIANTS
    RepeatedNewsIsExplained
    LinksHold
    QuietMeansTold
    CreditIsEarned
    HistoryIsAChain
    TouchesAreTold
CHECK_DEADLOCK FALSE
