SPECIFICATION FairSpec
CONSTANTS
    q1 = q1  q2 = q2  d1 = d1  d2 = d2
    Peers = {q1, q2}
    Reliable = {q1}
    Downloads = {d1, d2}
    Paths = {"a", "b"}
    FullPaths = {"b"}
    Chunks = 2
    MaxProviders = 2
    Faults = {"lookup", "connect", "serve", "reset"}
    None = None
INVARIANTS TypeOK FetchedIsComplete
PROPERTIES NotGivenUp ImplementsTransfer OneProviderIsEnough FetchReturns
