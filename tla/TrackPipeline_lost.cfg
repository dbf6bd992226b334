SPECIFICATION FairSpec
CONSTANTS
    w1 = w1  w2 = w2  c1 = c1  c2 = c2
    i1 = i1  i2 = i2  i3 = i3
    A = A  B = B  x = x  y = y
    Ids = {i1}
    Ctid = {A}
    Token = {x}
    Meta <- MetaShared
    Workers = {w1}
    Callers = {c1}
    Announcers = {"loop"}
    QueueCap = 1
    MaxExits = 1
    Faults = {}
    None = None
PROPERTIES RecognizedIsAnnounced
