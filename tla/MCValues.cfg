SPECIFICATION ValuesSpec
CONSTANTS
    Count = 2
    LowerLabels = {"com", "site"}
    MixedLabels = {}
    Lower <- LowerCase
    MaxDepth = 2
    MaxListed = 1
    StaticDomains <- OwnHosts
    CatalogDomains <- ListedHosts
    CatalogUrls <- CatalogHosts
    BitCount = 3
    WordBits = 2
    Names = {a, b}
    Absent = Absent
    IdentityAxes <- Axes
    PageBits = 4
    PageSize = 2
    Cap = 2
    MaxPosts = 3
    TickDigits = 2
    QueryTexts = {"", "a"}
    QueryTokens = {"t", "u"}
    QueryPoints = {0, 1, 2, 3}
INVARIANTS
    RoutesByLongestDomain
    ListedUrlsRoute
    SearchesAgree
    DocumentsKeepTheirText
    LiteralsSurvive
    AddressesAreExact
    NumbersAreRead
    QueriesAreExact
    ObserversAgree
    WalksKeepTheListing
PROPERTIES
    ImplementsFlagSet
    WalksEnd
CHECK_DEADLOCK FALSE
