SPECIFICATION FairVisitSpec
CONSTANTS
    v1 = v1
    proxy = proxy
    inner = inner
    other = other
    Blank = Blank
    Unknown = Unknown
    Token = Token
    Visitors = {v1}
    HasFallback = TRUE
    Threshold = 2
    MaxFailures = 3
    Primary = "external"
    Window = 2
    Hour = 1
    Addresses <- Hosts
    Exempt = {inner}
    Depth = 1
    Remote = inner
    Appended <- Chain
    Forgeries <- Lies
    Deployments <- Settings
    Wanted <- Site
    Links <- Bookmarks
INVARIANTS
    TypeOK
    VisitTypeOK
    CircuitMatchesCount
    DestinationIsKept
    RedirectsStayOnSite
PROPERTIES
    PrimaryGrantsLastTheWindow
    OnlyFallbackShortens
    NoChallengeLoop
    CircuitRecovers
    CircuitTrips
    NoOutageNoFallback
    VisitsEnd
