SPECIFICATION FairSpec
CONSTANTS
    r1 = r1
    r2 = r2
    Requests = {r1, r2}
    Bot = Bot
    Token = Token
    GoodHost = GoodHost
    OtherHost = OtherHost
    None = None
    Clients = {Bot}
    Sessions = {}
    Hostnames = {GoodHost, OtherHost}
    GoodHosts = {GoodHost, OtherHost}
    SessionMode = TRUE
    ProtectParameters = FALSE
    EnabledLists = {"commonCrawl"}
    Exempt = {}
    Paths <- SitePaths
    ProtectRoutes <- WholeSite
    ExcludeRoutes <- Feeds
    Extensions <- Pages
    Traffic <- BotTraffic
    Window = 1
    MaxLag = 0
PROPERTIES
    ConfirmedBotsGetIn
