SPECIFICATION Spec
CONSTANTS
    Audiences = {"all", "active"}
    Texts = {"one", "two"}
    Blank = "blank"
    Leads = {"lead"}
    None = None
    Configurations <- MCConfigurations
    Symbols = {"gold", "coin"}
    Types = {"above", "up"}
    Percents = {"up"}
    Prices = {"high", "low"}
    Alerts = {"alert"}
    Subject <- MCSubject
INVARIANTS
    OneFlow
    NewestScreenDecides
