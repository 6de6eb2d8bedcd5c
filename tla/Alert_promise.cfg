SPECIFICATION FairSpec
CONSTANTS
    AlertIds = {a1}
    Users = {u1}
    Symbols = {gold}
    Types = {"PRICE_ABOVE", "PRICE_BELOW", "PERCENT_INCREASE", "PERCENT_DECREASE"}
    PriceTargets = {1, 2}
    PercentTargets = {50}
    MaxWriteFailures = 0
    Requests = {"create", "enable", "disable", "edit", "remove"}
    BaseLimit = 1
    MaxBonus = 0
    MaxQueue = 1
    Reachable = {u1}
    MaxAttempts = 2
    MaxLostAnswers = 1
    MaxPrice = 2
    MaxCrashes = 1
PROPERTIES
    PromiseIsKept
    MetConditionFires
