SPECIFICATION Spec
CONSTANTS
    r1 = r1
    r2 = r2
    Requests = {r1, r2}
    Bot = Bot
    Token = Token
    GoodHost = GoodHost
    OtherHost = OtherHost
    None = None
    Clients = {Bot}
    Sessions = {Token}
    Hostnames = {GoodHost}
    GoodHosts = {GoodHost}
    SessionMode = TRUE
    ProtectParameters = TRUE
    EnabledLists = {"uptimeRobot", "googlebot"}
    Exempt = {}
    Paths <- SitePaths
    ProtectRoutes <- WholeSite
    ExcludeRoutes <- Feeds
    Extensions <- Pages
    Traffic <- MixedTraffic
    Window = 2
    MaxLag = 1
SYMMETRY Symmetry
INVARIANTS
    TypeOK
    BotVerdictsWereConfirmed
PROPERTIES
    PassesAreJustified
    VerifiedAreNotChallenged
