SPECIFICATION MCSpec
CONSTANTS
    Parts = {"rows", "typing"}
    Words <- AllWords
    Ints = {"1"}
    Literals = {"'s'"}
    Quoted <- QuotedNames
    Upper <- UpperWords
    Sessions <- Tidy
    Conns = {c1}
    Apps <- MCApps
    ChunksPerCommit = 1
    MinInt <- MCMinInt
    MaxInt = 7
    MaxTermLen = 3
    MaxChar = 2
    Surrogates = {}
    IsDescriptor <- MCIsDescriptor
    bm25 <- MCbm25
INVARIANTS
    IndexesMatchRows
    BlobCountsAreExact
    PlansAreInvisible
    RoundTrip
    LaddersAgree
CHECK_DEADLOCK FALSE
