SPECIFICATION ExtractionSpec
CONSTANTS
    e1 = e1
    e2 = e2
    u1 = u1
    u2 = u2
    Extractors = {e1, e2}
    NoExtractor = NoExtractor
    Urls = {u1, u2}
    Hosted <- OwnHosts
    Accepted <- Taken
    Offered <- SomeLinks
    Names = {referer}
    MaxDepth = 2
    MaxLinks = 2
    MaxEdits = 1
CHECK_DEADLOCK FALSE
INVARIANTS
    OneBranchAnswers
PROPERTIES
    ExtractionEnds
