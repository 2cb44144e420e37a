SPECIFICATION FairSpec
CONSTANTS
    a1 = a1
    a2 = a2
    b = b
    Invalid = Invalid
    None = None
    Addresses = {a1, a2, b}
    IPv4 = {a1, a2}
    Networks <- SmallNetworks
    Answers <- SmallAnswers
    GoogleUrls = 2
    Clients = {a1}
    Width <- SmallWidth
    Unparsed = Unparsed
INVARIANTS
    TypeOK
PROPERTIES
    ListIsRecent
    NothingIsLost
    ImplementsPublishedList
    ListCatchesUp
    LoopEnds
