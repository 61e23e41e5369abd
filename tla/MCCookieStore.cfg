SPECIFICATION JarSpec
CONSTANTS
    r1 = r1
    r2 = r2
    Never = Never
    Requests = {r1, r2}
    Urls <- SomeUrls
    Cookies <- SomeCookies
    ForeignLines <- OtherLines
    MaxCookies = 2
    MaxTime = 3
SYMMETRY Symmetry
INVARIANTS
    RequestsCarryTheLatest
