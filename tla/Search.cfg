SPECIFICATION Spec
CONSTANTS
    self = self  p = p  q = q  i = i  A = A  B = B  x = x  y = y
    Peers = {self, p, q}
    Self = self
    Reliable = {p}
    Ids = {i}
    Ctid = {A, B}
    Token = {x, y}
    Titles <- TitlesMixed
    Unconfirmed = {A}
    MaxProviders = 2
    MaxNamed = 1
    MaxResults = 2
    MaxTracks = 2
    Queries <- QueryBoth
    Faults = {"lookup", "query", "forget"}
    None = None
INVARIANTS TypeOK ResultsAreServable ResultsAreDistinct NothingIsMissed
SYMMETRY Symmetry
