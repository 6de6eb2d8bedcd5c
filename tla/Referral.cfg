SPECIFICATION Spec
CONSTANTS
    alone = a1
    first = p1
    second = p2
    Pollers = {p1, p2}
    Accounts = {a1, a2, a3}
    Codes = {c1, c2, c3}
    Symbols = {gold}
    PerReward = 1
    BonusSlots = 1
    MaxBonus = 1
    None = None
    PollerOf <- MCPollerOf
    MaxFavorites = 1
    Fans = {a1}
    MaxWriteFailures = 2
    MaxCrashes = 1
INVARIANTS
    RewardsAreEarned
    InvitationsAreOfNewcomers
    ReportedIsSaved
    ToldRewardsAreSaved
SYMMETRY Symmetry
CHECK_DEADLOCK FALSE
