\* Two slots, three requests, one of whose clients may disconnect; every tail of a
\* URL of at most four symbols and every text of at most two.
SPECIFICATION FairSpec
CONSTANTS
    r1 = r1
    r2 = r2
    r3 = r3
    t1 = t1
    t2 = t2
    Requests = {r1, r2, r3}
    Disconnecting = {r1}
    Slots = {t1, t2}
    NoSlot = NoSlot
    Asks <- MCAsks
    None = None
    SitekeyMin = 2
    Symbols <- MCSymbols
    UrlSymbols <- MCUrlSymbols
    UrlLength = 4
    TextSymbols <- MCTextSymbols
    TextLength = 2
INVARIANTS
    PoolOutlivesRequests
    AnsweredGaveBack
    StatusFits
    StubKeepsInputs
    OriginCoversHost
PROPERTIES
    StayersGetAnswers
    ShutdownCompletes
